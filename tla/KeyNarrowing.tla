------------------------------ MODULE KeyNarrowing -----------------------------
(***************************************************************************)
(* How the WHERE clause of a statement, or the rows it inserts, narrow the *)
(* key set the query engine reads of a table (query/key_narrowing).       *)
(*                                                                         *)
(* A filter is a sequence of conjuncts [fn, args].  An argument is         *)
(* [kind, of]: a "column", a "constant" (a literal or parameter of the     *)
(* column's type, possibly NULL), or an "expression", which has a value    *)
(* that narrowing cannot see.  An optional value is a sequence of at most *)
(* one.                                                                     *)
(***************************************************************************)
EXTENDS KeyRanges

CONSTANT
    kMaxPointKeys   \* the bound on the key prefixes equalities expand to

(***************************************************************************)
(* GoogleSQL's evaluator: which rows a filter selects                      *)
(***************************************************************************)
\* A comparison with NULL is not true.
Holds(f, row) ==
    LET v == [i \in DOMAIN f.args |->
                IF f.args[i].kind = "column" THEN row[f.args[i].of] ELSE f.args[i].of]
        Both == v[1] # Null /\ v[2] # Null
    IN CASE f.fn = "equal" -> Both /\ v[1] = v[2]
         [] f.fn = "not_equal" -> Both /\ v[1] # v[2]
         [] f.fn = "less" -> Both /\ v[1] < v[2]
         [] f.fn = "less_or_equal" -> Both /\ v[1] <= v[2]
         [] f.fn = "greater" -> Both /\ v[1] > v[2]
         [] f.fn = "greater_or_equal" -> Both /\ v[1] >= v[2]
         [] f.fn = "between" -> Both /\ v[3] # Null /\ v[2] <= v[1] /\ v[1] <= v[3]
         [] f.fn = "in" -> v[1] # Null /\ \E n \in 2..Len(v) : v[n] = v[1]

Matches(filter, row) == \A f \in ToSet(filter) : Holds(f, row)

(***************************************************************************)
(* Constraints on one key column                                           *)
(***************************************************************************)
Unconstrained == [points |-> <<>>, lower |-> <<>>, upper |-> <<>>]

AddPoints(c, values) ==
    [c EXCEPT !.points = IF @ = <<>> THEN <<values>> ELSE <<@[1] \cap values>>]

AddLower(c, b) ==
    IF c.lower = <<>> \/ c.lower[1].value < b.value THEN [c EXCEPT !.lower = <<b>>]
    ELSE [c EXCEPT !.lower[1].inclusive =
                       @ /\ (c.lower[1].value = b.value => b.inclusive)]

AddUpper(c, b) ==
    IF c.upper = <<>> \/ b.value < c.upper[1].value THEN [c EXCEPT !.upper = <<b>>]
    ELSE [c EXCEPT !.upper[1].inclusive =
                       @ /\ (c.upper[1].value = b.value => b.inclusive)]

WithinBounds(c, v) ==
    /\ \A b \in ToSet(c.lower) : b.value < v \/ (b.value = v /\ b.inclusive)
    /\ \A b \in ToSet(c.upper) : v < b.value \/ (b.value = v /\ b.inclusive)

BoundsAreEmpty(c) ==
    \E lower \in ToSet(c.lower), upper \in ToSet(c.upper) :
        \/ upper.value < lower.value
        \/ upper.value = lower.value /\ ~(lower.inclusive /\ upper.inclusive)

(***************************************************************************)
(* From constraints to key sets                                           *)
(***************************************************************************)
\* An endpoint that is just the prefix leaves the column unbounded there.
MakeRange(prefix, c, descending) ==
    LET first == IF descending THEN c.upper ELSE c.lower
        last == IF descending THEN c.lower ELSE c.upper
        Type(bound) == IF bound # <<>> /\ ~bound[1].inclusive THEN "open" ELSE "closed"
        End(bound) == Key(IF bound = <<>> THEN prefix ELSE Append(prefix, bound[1].value))
    IN KeyRange(Type(first), End(first), Type(last), End(last))

KeySet(keys, ranges) == [keys |-> SetToSeq(keys), ranges |-> SetToSeq(ranges)]

\* Equalities expand to key prefixes, the first range column bounds each
\* prefix, and the rest of the key is free.
BuildKeySet(order, constraints) ==
    LET Column(acc, i) ==
          LET c == constraints[i]
              points == {v \in c.points[1] : WithinBounds(c, v)}
              Done(key_set) == [acc EXCEPT !.done = TRUE, !.key_set = key_set]
          IN IF acc.done THEN acc
             ELSE IF c.points # <<>> THEN
                IF points = {} THEN Done(<<KeySet({}, {})>>)
                ELSE IF Cardinality(acc.prefixes) * Cardinality(points) > kMaxPointKeys
                THEN Done(<<>>)
                ELSE [acc EXCEPT !.prefixes = {Append(p, v) : p \in @, v \in points}]
             ELSE IF c.lower = <<>> /\ c.upper = <<>> THEN Done(<<>>)
             ELSE Done(<<KeySet({}, IF BoundsAreEmpty(c) THEN {}
                                    ELSE {MakeRange(p, c, order[i].is_descending) :
                                            p \in acc.prefixes})>>)
        built == FoldLeft(Column,
                    [prefixes |-> {<<>>}, done |-> FALSE, key_set |-> <<>>],
                    [i \in DOMAIN order |-> i])
        full == {p \in built.prefixes : Len(p) = Len(order)}
    IN IF built.key_set # <<>> THEN built.key_set
       ELSE IF built.prefixes = {<<>>} THEN <<>>
       ELSE <<KeySet(full, {ClosedClosed(Key(p), Key(p)) :
                                p \in built.prefixes \ full})>>

IsKeyColumn(pk, i, a) == a.kind = "column" /\ a.of = pk[i]

IsKeyValue(a) == a.kind = "constant" /\ a.of # Null

Bound(a, inclusive) == [value |-> a.of, inclusive |-> inclusive]

\* column <op> value, the value on the other side when swapped.
AddComparison(c, fn, value, swapped) ==
    LET bound == Bound(value, fn \in {"less_or_equal", "greater_or_equal"})
    IN CASE fn = "equal" -> AddPoints(c, {value.of})
         [] fn \in {"less", "less_or_equal"} ->
              IF swapped THEN AddLower(c, bound) ELSE AddUpper(c, bound)
         [] fn \in {"greater", "greater_or_equal"} ->
              IF swapped THEN AddUpper(c, bound) ELSE AddLower(c, bound)
         [] OTHER -> c

\* What a conjunct says about the key column pk[i].
AddFilter(pk, i, c, f) ==
    LET args == f.args
        IsKey(a) == IsKeyColumn(pk, i, a)
        elements == {args[n] : n \in 2..Len(args)}
    IN CASE f.fn = "between" ->
              IF IsKey(args[1]) /\ IsKeyValue(args[2]) /\ IsKeyValue(args[3])
              THEN AddUpper(AddLower(c, Bound(args[2], TRUE)), Bound(args[3], TRUE))
              ELSE c
         [] f.fn = "in" ->
              IF IsKey(args[1]) /\ \A e \in elements : e.kind = "constant"
              THEN AddPoints(c, {e.of : e \in elements} \ {Null}) ELSE c
         [] OTHER ->
              IF IsKey(args[1]) /\ IsKeyValue(args[2])
              THEN AddComparison(c, f.fn, args[2], FALSE)
              ELSE IF IsKey(args[2]) /\ IsKeyValue(args[1])
              THEN AddComparison(c, f.fn, args[1], TRUE) ELSE c

KeySetFromFilters(pk, order, filter) ==
    LET Constraint(i) ==
          LET Add(c, f) == AddFilter(pk, i, c, f)
          IN FoldLeft(Add, Unconstrained, filter)
    IN BuildKeySet(order, [i \in DOMAIN pk |-> Constraint(i)])

\* The keys of the rows that an INSERT ... VALUES lists, where it gives every
\* key column.
InsertedKeys(pk, rows) ==
    IF \E r \in ToSet(rows) : ~(ToSet(pk) \subseteq DOMAIN r) THEN <<>>
    ELSE <<KeySet({Tuple(pk, r) : r \in ToSet(rows)}, {})>>
================================================================================
