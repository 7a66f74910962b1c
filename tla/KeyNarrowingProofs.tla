--------------------------- MODULE KeyNarrowingProofs --------------------------
(***************************************************************************)
(* Narrowing loses no row, for every filter and every key: a conjunct      *)
(* never shuts a value out that it accepts, and a range holds every key    *)
(* whose column lies within the bounds.                                    *)
(***************************************************************************)
EXTENDS KeyNarrowing, TLAPS

Optional(S) == {<<>>} \cup {<<x>> : x \in S}

\* A bound is never NULL.
Bounds == [value : Int \ {Null}, inclusive : BOOLEAN]

Constraints == [points : Optional(SUBSET Int),
                lower : Optional(Bounds), upper : Optional(Bounds)]

\* The values of a column that a constraint leaves.
Admits(c, v) == (\A S \in ToSet(c.points) : v \in S) /\ WithinBounds(c, v)

\* An optional value holds nothing or one thing, as BuildKeySet reads it.
LEMMA OptionalIsASet ==
    ASSUME NEW S, NEW o \in Optional(S)
    PROVE  \/ o = <<>> /\ ToSet(o) = {}
           \/ \E x \in S : o = <<x>> /\ o[1] = x /\ ToSet(o) = {x}
  <1>1. CASE o = <<>>
    BY <1>1 DEF ToSet
  <1>2. ASSUME NEW x \in S, o = <<x>> PROVE ToSet(o) = {x} /\ o[1] = x
    BY <1>2 DEF ToSet
  <1> QED BY Zenon, <1>1, <1>2 DEF Optional

\* AddLower keeps a constraint a constraint, and takes away only values that
\* are below the new bound.
LEMMA AddLowerIsSound ==
    ASSUME NEW c \in Constraints, NEW b \in Bounds, NEW v \in Int, Admits(c, v),
           b.value < v \/ (b.value = v /\ b.inclusive)
    PROVE  AddLower(c, b) \in Constraints /\ Admits(AddLower(c, b), v)
  <1>1. c.lower \in Optional(Bounds)
    BY Zenon DEF Constraints
  <1>2. CASE c.lower = <<>> \/ c.lower[1].value < b.value
    <2>1. AddLower(c, b) = [c EXCEPT !.lower = <<b>>]
      BY Zenon, <1>2 DEF AddLower
    <2>2. <<b>> \in Optional(Bounds) /\ ToSet(<<b>>) = {b}
      BY DEF Optional, ToSet
    <2> QED BY Zenon, <2>1, <2>2 DEF Constraints, Admits, WithinBounds
  <1>3. CASE ~(c.lower = <<>> \/ c.lower[1].value < b.value)
    <2>1. PICK x \in Bounds : c.lower = <<x>> /\ c.lower[1] = x /\ ToSet(c.lower) = {x}
      BY Zenon, <1>1, <1>3, OptionalIsASet
    <2> DEFINE y == [x EXCEPT !.inclusive = @ /\ (x.value = b.value => b.inclusive)]
    <2>2. AddLower(c, b) = [c EXCEPT !.lower = <<y>>]
      BY <1>3, <2>1 DEF AddLower, Constraints, Bounds
    <2>3. y \in Bounds /\ y.value = x.value
          /\ (y.inclusive <=> (x.inclusive /\ (x.value = b.value => b.inclusive)))
      BY Zenon DEF Bounds
    <2>4. <<y>> \in Optional(Bounds) /\ ToSet(<<y>>) = {y}
      BY <2>3 DEF Optional, ToSet
    <2>5. x.value < v \/ (x.value = v /\ x.inclusive)
      BY Zenon, <2>1 DEF Admits, WithinBounds
    <2>6. y.value < v \/ (y.value = v /\ y.inclusive)
      BY Zenon, <2>3, <2>5 DEF Bounds
    <2> QED BY <2>2, <2>3, <2>4, <2>6, Zenon DEF Constraints, Admits, WithinBounds
  <1> QED BY Zenon, <1>2, <1>3

\* AddUpper keeps a constraint a constraint, and takes away only values that
\* are above the new bound.
LEMMA AddUpperIsSound ==
    ASSUME NEW c \in Constraints, NEW b \in Bounds, NEW v \in Int, Admits(c, v),
           v < b.value \/ (b.value = v /\ b.inclusive)
    PROVE  AddUpper(c, b) \in Constraints /\ Admits(AddUpper(c, b), v)
  <1>1. c.upper \in Optional(Bounds)
    BY Zenon DEF Constraints
  <1>2. CASE c.upper = <<>> \/ b.value < c.upper[1].value
    <2>1. AddUpper(c, b) = [c EXCEPT !.upper = <<b>>]
      BY Zenon, <1>2 DEF AddUpper
    <2>2. <<b>> \in Optional(Bounds) /\ ToSet(<<b>>) = {b}
      BY DEF Optional, ToSet
    <2> QED BY Zenon, <2>1, <2>2 DEF Constraints, Admits, WithinBounds
  <1>3. CASE ~(c.upper = <<>> \/ b.value < c.upper[1].value)
    <2>1. PICK x \in Bounds : c.upper = <<x>> /\ c.upper[1] = x /\ ToSet(c.upper) = {x}
      BY Zenon, <1>1, <1>3, OptionalIsASet
    <2> DEFINE y == [x EXCEPT !.inclusive = @ /\ (x.value = b.value => b.inclusive)]
    <2>2. AddUpper(c, b) = [c EXCEPT !.upper = <<y>>]
      BY <1>3, <2>1 DEF AddUpper, Constraints, Bounds
    <2>3. y \in Bounds /\ y.value = x.value
          /\ (y.inclusive <=> (x.inclusive /\ (x.value = b.value => b.inclusive)))
      BY Zenon DEF Bounds
    <2>4. <<y>> \in Optional(Bounds) /\ ToSet(<<y>>) = {y}
      BY <2>3 DEF Optional, ToSet
    <2>5. v < x.value \/ (x.value = v /\ x.inclusive)
      BY Zenon, <2>1 DEF Admits, WithinBounds
    <2>6. v < y.value \/ (y.value = v /\ y.inclusive)
      BY Zenon, <2>3, <2>5 DEF Bounds
    <2> QED BY <2>2, <2>3, <2>4, <2>6, Zenon DEF Constraints, Admits, WithinBounds
  <1> QED BY Zenon, <1>2, <1>3

\* AddPoints takes away only values that are not among the points.
LEMMA AddPointsIsSound ==
    ASSUME NEW c \in Constraints, NEW S \in SUBSET Int, NEW v \in S, Admits(c, v)
    PROVE  AddPoints(c, S) \in Constraints /\ Admits(AddPoints(c, S), v)
  <1>1. c.points \in Optional(SUBSET Int)
    BY Zenon DEF Constraints
  <1>2. PICK T \in SUBSET Int : AddPoints(c, S) = [c EXCEPT !.points = <<T>>] /\ v \in T
    <2>1. CASE c.points = <<>>
      BY Zenon, <2>1 DEF AddPoints, Constraints
    <2>2. CASE c.points # <<>>
      <3>1. PICK P \in SUBSET Int : c.points = <<P>> /\ c.points[1] = P
                                    /\ ToSet(c.points) = {P}
        BY Zenon, <1>1, <2>2, OptionalIsASet
      <3>2. v \in P \cap S
        BY Zenon, <3>1 DEF Admits
      <3>3. AddPoints(c, S) = [c EXCEPT !.points = <<P \cap S>>]
        BY Zenon, <2>2, <3>1 DEF AddPoints, Constraints
      <3> QED BY Zenon, <3>2, <3>3
    <2> QED BY Zenon, <2>1, <2>2
  <1>3. <<T>> \in Optional(SUBSET Int) /\ ToSet(<<T>>) = {T}
    BY DEF Optional, ToSet
  <1> QED BY Zenon, <1>2, <1>3 DEF Constraints, Admits, WithinBounds

Arguments == [kind : {"column"}, of : STRING]
               \cup [kind : {"constant", "expression"}, of : Int]

Comparisons == {"equal", "not_equal", "less", "less_or_equal",
                "greater", "greater_or_equal"}

Conjuncts ==
    {f \in [fn : Comparisons \cup {"between", "in"}, args : Seq(Arguments)] :
        /\ f.fn \in Comparisons => Len(f.args) = 2
        /\ f.fn = "between" => Len(f.args) = 3
        /\ f.fn = "in" => Len(f.args) >= 2}

\* Bound gives the constant's value as a bound of the kind asked for.
LEMMA BoundIsABound ==
    ASSUME NEW a, a.of \in Int \ {Null}, NEW inclusive \in BOOLEAN
    PROVE  /\ Bound(a, inclusive) \in Bounds
           /\ Bound(a, inclusive).value = a.of
           /\ Bound(a, inclusive).inclusive <=> inclusive
  BY Zenon DEF Bound, Bounds

\* A comparison with a constant takes away only values it does not hold for,
\* on whichever side of it the column stands.
LEMMA AddComparisonIsSound ==
    ASSUME NEW c \in Constraints, NEW fn \in Comparisons, NEW a, a.of \in Int \ {Null},
           NEW v \in Int, NEW swapped \in BOOLEAN, Admits(c, v),
           LET x == IF swapped THEN a.of ELSE v
               y == IF swapped THEN v ELSE a.of
           IN /\ fn = "equal" => x = y
              /\ fn = "less" => x < y
              /\ fn = "less_or_equal" => x <= y
              /\ fn = "greater" => x > y
              /\ fn = "greater_or_equal" => x >= y
    PROVE  /\ AddComparison(c, fn, a, swapped) \in Constraints
           /\ Admits(AddComparison(c, fn, a, swapped), v)
  <1> DEFINE inclusive == fn \in {"less_or_equal", "greater_or_equal"}
             bound == Bound(a, inclusive)
  <1>1. bound \in Bounds /\ bound.value = a.of /\ (bound.inclusive <=> inclusive)
    <2>1. inclusive \in BOOLEAN
      OBVIOUS
    <2> HIDE DEF inclusive
    <2> QED BY Zenon, <2>1, BoundIsABound
  <1> HIDE DEF bound
  <1>2. CASE fn = "equal"
    <2>1. AddComparison(c, fn, a, swapped) = AddPoints(c, {a.of})
      BY Zenon, <1>2 DEF AddComparison
    <2> QED BY Zenon, <1>2, <2>1, AddPointsIsSound
  <1>3. CASE fn \in {"less", "less_or_equal"}
    <2>1. AddComparison(c, fn, a, swapped)
            = IF swapped THEN AddLower(c, bound) ELSE AddUpper(c, bound)
      BY Zenon, <1>3 DEF AddComparison, bound
    <2>2. CASE swapped
      <3>1. bound.value < v \/ (bound.value = v /\ bound.inclusive)
        BY <1>1, <1>3, <2>2
      <3> QED BY Zenon, <1>1, <2>1, <2>2, <3>1, AddLowerIsSound
    <2>3. CASE ~swapped
      <3>1. v < bound.value \/ (bound.value = v /\ bound.inclusive)
        BY <1>1, <1>3, <2>3
      <3> QED BY Zenon, <1>1, <2>1, <2>3, <3>1, AddUpperIsSound
    <2> QED BY Zenon, <2>2, <2>3
  <1>4. CASE fn \in {"greater", "greater_or_equal"}
    <2>1. AddComparison(c, fn, a, swapped)
            = IF swapped THEN AddUpper(c, bound) ELSE AddLower(c, bound)
      BY Zenon, <1>4 DEF AddComparison, bound
    <2>2. CASE swapped
      <3>1. v < bound.value \/ (bound.value = v /\ bound.inclusive)
        BY <1>1, <1>4, <2>2
      <3> QED BY Zenon, <1>1, <2>1, <2>2, <3>1, AddUpperIsSound
    <2>3. CASE ~swapped
      <3>1. bound.value < v \/ (bound.value = v /\ bound.inclusive)
        BY <1>1, <1>4, <2>3
      <3> QED BY Zenon, <1>1, <2>1, <2>3, <3>1, AddLowerIsSound
    <2> QED BY Zenon, <2>2, <2>3
  <1>5. CASE fn = "not_equal"
    BY Zenon, <1>5 DEF AddComparison
  <1> QED BY Zenon, <1>2, <1>3, <1>4, <1>5 DEF Comparisons

\* The places of a sequence of three.
LEMMA ThreeOf ==
    ASSUME NEW S, NEW s \in Seq(S), Len(s) = 3
    PROVE  {1, 2, 3} \subseteq DOMAIN s
  <1>1. DOMAIN s = 1..3
    OBVIOUS
  <1> QED BY <1>1

\* AddFilter never narrows a key column past the value of a row for which
\* the conjunct holds, whatever the conjunct compares and on which side.
THEOREM AddFilterLosesNoMatch ==
    ASSUME NEW pk \in Seq(STRING), NEW i \in DOMAIN pk, NEW c \in Constraints,
           NEW f \in Conjuncts, NEW row \in [STRING -> Int], Holds(f, row),
           Admits(c, row[pk[i]])
    PROVE  /\ AddFilter(pk, i, c, f) \in Constraints
           /\ Admits(AddFilter(pk, i, c, f), row[pk[i]])
  <1> DEFINE args == f.args
             key == row[pk[i]]
             IsKey(a) == IsKeyColumn(pk, i, a)
             Of(a) == IF a.kind = "column" THEN row[a.of] ELSE a.of
  <1>1. key \in Int
    <2>1. pk[i] \in STRING
      OBVIOUS
    <2> QED BY <2>1, Zenon
  <1>2. f \in [fn : Comparisons \cup {"between", "in"}, args : Seq(Arguments)]
    BY Zenon DEF Conjuncts
  <1>3. args \in Seq(Arguments) /\ f.fn \in Comparisons \cup {"between", "in"}
    BY Zenon, <1>2
  <1>4. ASSUME NEW a \in Arguments, IsKeyValue(a) PROVE a.of \in Int \ {Null} /\ Of(a) = a.of
    BY Zenon, <1>4 DEF Arguments, IsKeyValue
  <1>5. ASSUME NEW a \in Arguments, IsKey(a) PROVE Of(a) = key
    BY Zenon, <1>5 DEF IsKeyColumn
  <1>6. CASE f.fn = "between"
    <2>1. Len(args) = 3 /\ \A n \in 1..3 : args[n] \in Arguments
      <3>1. Len(args) = 3
        BY Zenon, <1>6 DEF Conjuncts
      <3> QED BY <1>3, <3>1
    <2>2. Of(args[2]) <= Of(args[1]) /\ Of(args[1]) <= Of(args[3])
      <3>1. {1, 2, 3} \subseteq DOMAIN args
        BY ZenonT(40), <1>3, <2>1, ThreeOf
      <3> DEFINE v == [n \in DOMAIN args |-> Of(args[n])]
      <3>2. v[2] <= v[1] /\ v[1] <= v[3]
        BY <1>6 DEF Holds
      <3> QED BY Zenon, <3>1, <3>2
    <2>3. CASE IsKey(args[1]) /\ IsKeyValue(args[2]) /\ IsKeyValue(args[3])
      <3> DEFINE lower == Bound(args[2], TRUE)
                 upper == Bound(args[3], TRUE)
      <3>1. /\ lower \in Bounds /\ lower.value = args[2].of /\ lower.inclusive
            /\ upper \in Bounds /\ upper.value = args[3].of /\ upper.inclusive
        BY <1>4, <2>1, <2>3 DEF Bound, Bounds
      <3>2. AddFilter(pk, i, c, f) = AddUpper(AddLower(c, lower), upper)
        BY Zenon, <1>6, <2>3 DEF AddFilter
      <3> HIDE DEF lower, upper
      <3>3. /\ args[2].of \in Int /\ args[3].of \in Int
            /\ args[2].of <= key /\ key <= args[3].of
        BY <1>4, <1>5, <2>1, <2>2, <2>3
      <3>4. AddLower(c, lower) \in Constraints /\ Admits(AddLower(c, lower), key)
        BY <1>1, <3>1, <3>3, AddLowerIsSound
      <3>5. /\ AddUpper(AddLower(c, lower), upper) \in Constraints
            /\ Admits(AddUpper(AddLower(c, lower), upper), key)
        BY <1>1, <3>1, <3>3, <3>4, AddUpperIsSound
      <3> QED BY Zenon, <3>2, <3>5
    <2>4. CASE ~(IsKey(args[1]) /\ IsKeyValue(args[2]) /\ IsKeyValue(args[3]))
      BY <1>6, <2>4, Zenon DEF AddFilter
    <2> QED BY Zenon, <2>3, <2>4
  <1>7. CASE f.fn = "in"
    <2> DEFINE elements == {args[n] : n \in 2..Len(args)}
               S == {e.of : e \in elements} \ {Null}
    <2>1. CASE IsKey(args[1]) /\ \A e \in elements : e.kind = "constant"
      <3>1. AddFilter(pk, i, c, f) = AddPoints(c, S)
        BY Zenon, <1>7, <2>1 DEF AddFilter
      <3>2. Len(args) >= 2 /\ \A n \in 1..Len(args) : args[n] \in Arguments
        BY <1>3, <1>7 DEF Conjuncts
      <3>3. \A e \in elements : e.of \in Int /\ Of(e) = e.of
        BY <2>1, <3>2 DEF Arguments
      <3>4. Of(args[1]) # Null /\ \E n \in 2..Len(args) : Of(args[n]) = Of(args[1])
        BY <1>3, <1>7, <3>2 DEF Holds
      <3>5. Of(args[1]) = key
        BY <1>5, <2>1, <3>2
      <3>6. PICK n \in 2..Len(args) : Of(args[n]) = key
        BY Zenon, <3>4, <3>5
      <3>7. args[n] \in elements /\ args[n].of = key /\ key # Null
        BY Zenon, <3>3, <3>4, <3>5, <3>6
      <3>8. S \in SUBSET Int /\ key \in S
        <4> HIDE DEF elements, key, Of
        <4> QED BY Zenon, <3>3, <3>7
      <3> QED BY <3>1, <3>8, AddPointsIsSound, Zenon
    <2>2. CASE ~(IsKey(args[1]) /\ \A e \in elements : e.kind = "constant")
      BY Zenon, <1>7, <2>2 DEF AddFilter
    <2> QED BY Zenon, <2>1, <2>2
  <1>8. CASE f.fn \in Comparisons
    <2>1. Len(args) = 2 /\ args[1] \in Arguments /\ args[2] \in Arguments
      BY <1>3, <1>8 DEF Conjuncts
    <2>2. f.fn # "between" /\ f.fn # "in"
      BY Zenon, <1>8 DEF Comparisons
    <2> DEFINE x == Of(args[1])
               y == Of(args[2])
    <2>3. /\ f.fn = "equal" => x = y
          /\ f.fn = "less" => x < y
          /\ f.fn = "less_or_equal" => x <= y
          /\ f.fn = "greater" => x > y
          /\ f.fn = "greater_or_equal" => x >= y
      <3> DEFINE v == [n \in DOMAIN args |-> Of(args[n])]
      <3>1. v[1] = x /\ v[2] = y
        BY <1>3, <2>1
      <3> HIDE DEF x, y
      <3>2. ASSUME f.fn = "equal" PROVE v[1] = v[2]
        BY Zenon, <3>2 DEF Holds
      <3>3. ASSUME f.fn = "less" PROVE v[1] < v[2]
        BY Zenon, <3>3 DEF Holds
      <3>4. ASSUME f.fn = "less_or_equal" PROVE v[1] <= v[2]
        BY Zenon, <3>4 DEF Holds
      <3>5. ASSUME f.fn = "greater" PROVE v[1] > v[2]
        BY Zenon, <3>5 DEF Holds
      <3>6. ASSUME f.fn = "greater_or_equal" PROVE v[1] >= v[2]
        BY Zenon, <3>6 DEF Holds
      <3> HIDE DEF v
      <3> QED BY Zenon, <3>1, <3>2, <3>3, <3>4, <3>5, <3>6
    <2> HIDE DEF Of
    <2>4. CASE IsKey(args[1]) /\ IsKeyValue(args[2])
      <3>1. AddFilter(pk, i, c, f) = AddComparison(c, f.fn, args[2], FALSE)
        BY <2>2, <2>4, Zenon DEF AddFilter
      <3>2. args[2].of \in Int \ {Null} /\ x = key /\ y = args[2].of
        BY Zenon, <1>4, <1>5, <2>1, <2>4
      <3> QED BY <1>1, <1>8, <2>3, <3>1, <3>2, AddComparisonIsSound, ZenonT(30)
    <2>5. CASE ~(IsKey(args[1]) /\ IsKeyValue(args[2])) /\ IsKey(args[2]) /\ IsKeyValue(args[1])
      <3>1. AddFilter(pk, i, c, f) = AddComparison(c, f.fn, args[1], TRUE)
        BY <2>2, <2>5, Zenon DEF AddFilter
      <3>2. args[1].of \in Int \ {Null} /\ y = key /\ x = args[1].of
        BY Zenon, <1>4, <1>5, <2>1, <2>5
      <3> QED BY <1>1, <1>8, <2>3, <3>1, <3>2, AddComparisonIsSound, ZenonT(30)
    <2>6. CASE /\ ~(IsKey(args[1]) /\ IsKeyValue(args[2]))
               /\ ~(IsKey(args[2]) /\ IsKeyValue(args[1]))
      BY <2>2, <2>6, Zenon DEF AddFilter
    <2> QED BY Zenon, <2>4, <2>5, <2>6
  <1> QED BY Zenon, <1>3, <1>6, <1>7, <1>8

\* How a row's key compares with an endpoint that has the row's first i - 1 key
\* columns and perhaps a value for the next: by that value where it differs,
\* and otherwise the row is after the endpoint but before its prefix limit.
LEMMA CompareWithEndpoint ==
    ASSUME NEW order, NEW key \in Seq(Int), NEW i \in 1..Len(key), NEW w \in Seq(Int),
           Len(w) \in {i - 1, i}, \A j \in 1..(i - 1) : w[j] = key[j]
    PROVE  /\ Len(w) = i /\ w[i] # key[i] =>
                /\ Compare(order, Key(key), Key(w)) = CompareColumn(order[i], key[i], w[i])
                /\ Compare(order, Key(key), ToPrefixLimit(Key(w)))
                     = CompareColumn(order[i], key[i], w[i])
           /\ ~(Len(w) = i /\ w[i] # key[i]) =>
                /\ Compare(order, Key(key), Key(w)) \in {0, 1}
                /\ Compare(order, Key(key), ToPrefixLimit(Key(w))) = -1
  <1> DEFINE m == Len(key)
             n == Len(w)
             differ == {j \in 1..Min({m, n}) : key[j] # w[j]}
  <1>1. m \in Nat /\ n \in Nat /\ n <= m
    OBVIOUS
  <1>2. Min({m, n}) = n
    BY <1>1 DEF Min
  <1>3. /\ Key(key).cols = key /\ ~Key(key).is_infinity /\ ~Key(key).is_prefix_limit
        /\ Key(w).cols = w /\ ~Key(w).is_infinity /\ ~Key(w).is_prefix_limit
        /\ ToPrefixLimit(Key(w)).cols = w /\ ~ToPrefixLimit(Key(w)).is_infinity
        /\ ToPrefixLimit(Key(w)).is_prefix_limit
    BY Zenon DEF Key, ToPrefixLimit
  <1> DEFINE Result(limit) ==
                IF differ # {} THEN CompareColumn(order[Min(differ)], key[Min(differ)],
                                                  w[Min(differ)])
                ELSE IF m > n THEN IF limit THEN -1 ELSE 1
                ELSE IF m < n THEN -1
                ELSE IF limit THEN -1 ELSE 0
  <1>4. Compare(order, Key(key), Key(w)) = Result(FALSE)
    BY <1>3, ZenonT(30) DEF Compare
  <1>5. Compare(order, Key(key), ToPrefixLimit(Key(w))) = Result(TRUE)
    BY <1>3, ZenonT(30) DEF Compare
  <1>6. CASE n = i /\ w[i] # key[i]
    <2>1. differ = {i}
      BY <1>1, <1>2, <1>6
    <2>2. Min({i}) = i
      BY DEF Min
    <2> QED BY <1>4, <1>5, <1>6, <2>1, <2>2, Zenon
  <1>7. CASE ~(n = i /\ w[i] # key[i])
    <2>1. ASSUME NEW j \in 1..n PROVE key[j] = w[j]
      <3>1. j \in 1..(i - 1) \/ (j = i /\ n = i)
        BY <1>1
      <3> QED BY Zenon, <1>7, <3>1
    <2>2. differ = {}
      BY <1>2, <2>1, Zenon
    <2> HIDE DEF differ
    <2> QED BY <1>1, <1>4, <1>5, <1>7, <2>2
  <1> QED BY Zenon, <1>6, <1>7

\* The range that MakeRange gives a prefix, made closed-open as the storage
\* reads it, contains the key of every row with that prefix whose next key
\* column is within the bounds, in an ascending and in a descending key.
THEOREM MakeRangeLosesNoKey ==
    ASSUME NEW order, NEW key \in Seq(Int), NEW i \in 1..Len(key),
           order[i] \in {Ascending, Descending}, NEW prefix \in Seq(Int),
           Len(prefix) = i - 1, \A j \in 1..(i - 1) : prefix[j] = key[j],
           NEW c \in Constraints, key[i] # Null, WithinBounds(c, key[i])
    PROVE  RangeContains(order,
               ToClosedOpen(MakeRange(prefix, c, order[i].is_descending)), Key(key))
  <1> DEFINE o == order[i]
             v == key[i]
             first == IF o.is_descending THEN c.upper ELSE c.lower
             last == IF o.is_descending THEN c.lower ELSE c.upper
             Cols(bound) == IF bound = <<>> THEN prefix
                            ELSE Append(prefix, bound[1].value)
             Open(bound) == bound # <<>> /\ ~bound[1].inclusive
             start == IF Open(first) THEN ToPrefixLimit(Key(Cols(first)))
                      ELSE Key(Cols(first))
             limit == IF Open(last) THEN Key(Cols(last))
                      ELSE ToPrefixLimit(Key(Cols(last)))
  <1>1. ToClosedOpen(MakeRange(prefix, c, o.is_descending)) = ClosedOpen(start, limit)
    BY Zenon DEF MakeRange, ToClosedOpen, KeyRange
  <1>2. v \in Int /\ first \in {c.lower, c.upper} /\ last \in {c.lower, c.upper}
    OBVIOUS
  <1>3. ASSUME NEW bound \in {c.lower, c.upper}
        PROVE  \/ bound = <<>>
               \/ \E b \in Bounds : bound = <<b>> /\ bound[1] = b /\ ToSet(bound) = {b}
    BY OptionalIsASet DEF Constraints
  <1>4. ASSUME NEW bound \in {c.lower, c.upper}
        PROVE  /\ Cols(bound) \in Seq(Int) /\ Len(Cols(bound)) \in {i - 1, i}
               /\ \A j \in 1..(i - 1) : Cols(bound)[j] = key[j]
               /\ Len(Cols(bound)) = i <=> bound # <<>>
               /\ bound # <<>> => Cols(bound)[i] = bound[1].value
    BY <1>3, <1>4 DEF Bounds
  <1>5. ASSUME first # <<>>, first[1].value # v
        PROVE  CompareColumn(o, v, first[1].value) = 1
    <2>1. PICK b \in Bounds : first[1] = b /\ ToSet(first) = {b}
      BY Zenon, <1>2, <1>3, <1>5
    <2>2. CASE o = Ascending
      <3>1. b.value < v
        BY <1>5, <2>1, <2>2 DEF WithinBounds, Ascending
      <3> QED BY <1>2, <2>1, <2>2, <3>1 DEF CompareColumn, Ascending, Bounds
    <2>3. CASE o = Descending
      <3>1. v < b.value
        BY <1>5, <2>1, <2>3 DEF WithinBounds, Descending
      <3> QED BY <1>2, <2>1, <2>3, <3>1 DEF CompareColumn, Descending, Bounds
    <2> QED BY Zenon, <2>2, <2>3
  <1>6. ASSUME last # <<>>, last[1].value # v
        PROVE  CompareColumn(o, v, last[1].value) = -1
    <2>1. PICK b \in Bounds : last[1] = b /\ ToSet(last) = {b}
      BY Zenon, <1>2, <1>3, <1>6
    <2>2. CASE o = Ascending
      <3>1. v < b.value
        BY <1>6, <2>1, <2>2 DEF WithinBounds, Ascending
      <3> QED BY <1>2, <2>1, <2>2, <3>1 DEF CompareColumn, Ascending, Bounds
    <2>3. CASE o = Descending
      <3>1. b.value < v
        BY <1>6, <2>1, <2>3 DEF WithinBounds, Descending
      <3> QED BY <1>2, <2>1, <2>3, <3>1 DEF CompareColumn, Descending, Bounds
    <2> QED BY Zenon, <2>2, <2>3
  <1>7. ASSUME NEW bound \in {c.lower, c.upper}, Open(bound) PROVE bound[1].value # v
    <2>1. PICK b \in Bounds : bound[1] = b /\ ToSet(bound) = {b}
      BY Zenon, <1>3, <1>7
    <2>2. b \in ToSet(c.lower) \/ b \in ToSet(c.upper)
      BY Zenon, <2>1
    <2>3. b.value < v \/ v < b.value \/ b.inclusive
      BY Zenon, <2>2 DEF WithinBounds
    <2>4. b.value # v \/ b.inclusive
      BY <1>2, <2>3 DEF Bounds
    <2> QED BY Zenon, <1>7, <2>1, <2>4
  <1>8. Compare(order, Key(key), start) >= 0
    <2> DEFINE w == Cols(first)
    <2>1. /\ w \in Seq(Int) /\ Len(w) \in {i - 1, i} /\ \A j \in 1..(i - 1) : w[j] = key[j]
          /\ Len(w) = i <=> first # <<>>
          /\ first # <<>> => w[i] = first[1].value
      BY Zenon, <1>2, <1>4
    <2>2. Open(first) => first[1].value # v
      BY Zenon, <1>2, <1>7
    <2>3. /\ start \in {Key(w), ToPrefixLimit(Key(w))}
          /\ ~Open(first) => start = Key(w)
      BY Zenon
    <2> HIDE DEF w, first, start
    <2>4. /\ Len(w) = i /\ w[i] # key[i] =>
               /\ Compare(order, Key(key), Key(w)) = CompareColumn(order[i], key[i], w[i])
               /\ Compare(order, Key(key), ToPrefixLimit(Key(w)))
                    = CompareColumn(order[i], key[i], w[i])
          /\ ~(Len(w) = i /\ w[i] # key[i]) =>
               /\ Compare(order, Key(key), Key(w)) \in {0, 1}
               /\ Compare(order, Key(key), ToPrefixLimit(Key(w))) = -1
      BY <2>1, CompareWithEndpoint, Zenon
    <2>5. CASE first # <<>> /\ first[1].value # v
      <3>1. Len(w) = i /\ w[i] # key[i] /\ w[i] = first[1].value
        BY Zenon, <2>1, <2>5
      <3>2. Compare(order, Key(key), start) = CompareColumn(o, v, first[1].value)
        BY <2>3, <2>4, <3>1, ZenonT(30)
      <3> QED BY <1>5, <2>5, <3>2
    <2>6. CASE ~(first # <<>> /\ first[1].value # v)
      <3>1. ~(Len(w) = i /\ w[i] # key[i])
        BY Zenon, <2>1, <2>6
      <3>2. start = Key(w)
        BY Zenon, <2>2, <2>3, <2>6
      <3> QED BY <2>4, <3>1, <3>2
    <2> QED BY Zenon, <2>5, <2>6
  <1>9. Compare(order, Key(key), limit) < 0
    <2> DEFINE w == Cols(last)
    <2>1. /\ w \in Seq(Int) /\ Len(w) \in {i - 1, i} /\ \A j \in 1..(i - 1) : w[j] = key[j]
          /\ Len(w) = i <=> last # <<>>
          /\ last # <<>> => w[i] = last[1].value
      BY Zenon, <1>2, <1>4
    <2>2. Open(last) => last[1].value # v
      BY Zenon, <1>2, <1>7
    <2>3. /\ limit \in {Key(w), ToPrefixLimit(Key(w))}
          /\ ~Open(last) => limit = ToPrefixLimit(Key(w))
      BY ZenonT(30)
    <2> HIDE DEF w, last, limit
    <2>4. /\ Len(w) = i /\ w[i] # key[i] =>
               /\ Compare(order, Key(key), Key(w)) = CompareColumn(order[i], key[i], w[i])
               /\ Compare(order, Key(key), ToPrefixLimit(Key(w)))
                    = CompareColumn(order[i], key[i], w[i])
          /\ ~(Len(w) = i /\ w[i] # key[i]) =>
               /\ Compare(order, Key(key), Key(w)) \in {0, 1}
               /\ Compare(order, Key(key), ToPrefixLimit(Key(w))) = -1
      BY <2>1, CompareWithEndpoint, Zenon
    <2>5. CASE last # <<>> /\ last[1].value # v
      <3>1. Len(w) = i /\ w[i] # key[i] /\ w[i] = last[1].value
        BY Zenon, <2>1, <2>5
      <3>2. Compare(order, Key(key), limit) = CompareColumn(o, v, last[1].value)
        BY <2>3, <2>4, <3>1, ZenonT(30)
      <3> QED BY <1>6, <2>5, <3>2
    <2>6. CASE ~(last # <<>> /\ last[1].value # v)
      <3>1. ~(Len(w) = i /\ w[i] # key[i])
        BY Zenon, <2>1, <2>6
      <3>2. limit = ToPrefixLimit(Key(w))
        BY Zenon, <2>2, <2>3, <2>6
      <3> QED BY <2>4, <3>1, <3>2
    <2> QED BY Zenon, <2>5, <2>6
  <1> HIDE DEF start, limit
  <1>10. RangeContains(order, ClosedOpen(start, limit), Key(key))
    BY Zenon, <1>8, <1>9 DEF RangeContains, ClosedOpen, KeyRange
  <1> QED BY Zenon, <1>1, <1>10 DEF o
================================================================================
