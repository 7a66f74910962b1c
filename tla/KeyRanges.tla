------------------------------- MODULE KeyRanges -------------------------------
(***************************************************************************)
(* Keys, key ranges and key sets (backend/datamodel).  A Key is the values *)
(* of leading key columns, possibly the limit of the keys that begin with *)
(* them, or infinity; a row's key is just the tuple of all its values.  An *)
(* order gives, for each key column, whether it descends and where NULL   *)
(* goes.  A key set is [keys, ranges], both sequences.                    *)
(***************************************************************************)
EXTENDS TableSchema

Ascending == [is_descending |-> FALSE, is_nulls_last |-> FALSE]
Descending == [is_descending |-> TRUE, is_nulls_last |-> TRUE]

Key(cols) == [cols |-> cols, is_prefix_limit |-> FALSE, is_infinity |-> FALSE]

Infinity == [Key(<<>>) EXCEPT !.is_infinity = TRUE]

ToPrefixLimit(k) == [k EXCEPT !.is_prefix_limit = TRUE]

CompareColumn(o, a, b) ==
    IF a = b THEN 0
    ELSE IF a = Null THEN IF o.is_nulls_last THEN 1 ELSE -1
    ELSE IF b = Null THEN IF o.is_nulls_last THEN -1 ELSE 1
    ELSE IF a < b <=> o.is_descending THEN 1 ELSE -1

Compare(order, j, k) ==
    LET m == Len(j.cols)
        n == Len(k.cols)
        differ == {i \in 1..Min({m, n}) : j.cols[i] # k.cols[i]}
        i == Min(differ)
    IN IF j.is_infinity /\ k.is_infinity THEN 0
       ELSE IF k.is_infinity THEN -1
       ELSE IF j.is_infinity THEN 1
       ELSE IF differ # {} THEN CompareColumn(order[i], j.cols[i], k.cols[i])
       ELSE IF m > n THEN IF k.is_prefix_limit THEN -1 ELSE 1
       ELSE IF m < n THEN IF j.is_prefix_limit THEN 1 ELSE -1
       ELSE IF j.is_prefix_limit <=> k.is_prefix_limit THEN 0
       ELSE IF j.is_prefix_limit THEN 1 ELSE -1

IsPrefixOf(j, k) ==
    IF j.is_infinity THEN k.is_infinity
    ELSE IsPrefix(j.cols, k.cols) /\ j.is_prefix_limit = k.is_prefix_limit

\* The keys of rows, in the order the storage has them.
InKeyOrder(order, keys) ==
    SetToSortSeq(keys, LAMBDA a, b : Compare(order, Key(a), Key(b)) < 0)

(***************************************************************************)
(* Ranges                                                                  *)
(***************************************************************************)
KeyRange(start_type, start, limit_type, limit) ==
    [start_type |-> start_type, start |-> start,
     limit_type |-> limit_type, limit |-> limit]

ClosedOpen(start, limit) == KeyRange("closed", start, "open", limit)

ClosedClosed(start, limit) == KeyRange("closed", start, "closed", limit)

Point(k) == ClosedOpen(k, ToPrefixLimit(k))

All == ClosedOpen(Key(<<>>), Infinity)

RangeContains(order, r, k) ==
    /\ CASE r.start_type = "open" -> /\ Compare(order, k, r.start) > 0
                                     /\ ~IsPrefixOf(r.start, k)
         [] r.start_type = "closed" -> Compare(order, k, r.start) >= 0
    /\ CASE r.limit_type = "open" -> Compare(order, k, r.limit) < 0
         [] r.limit_type = "closed" -> \/ Compare(order, k, r.limit) <= 0
                                       \/ IsPrefixOf(r.limit, k)

ToClosedOpen(r) ==
    ClosedOpen(IF r.start_type = "closed" THEN r.start ELSE ToPrefixLimit(r.start),
               IF r.limit_type = "open" THEN r.limit ELSE ToPrefixLimit(r.limit))

MakeDisjointKeyRanges(order, set) ==
    LET all == [i \in DOMAIN set.keys |-> Point(Key(set.keys[i]))]
                 \o [i \in DOMAIN set.ranges |-> ToClosedOpen(set.ranges[i])]
        Before(q, r) == Compare(order, q.start, r.start) < 0
        Further(j, k) == IF Compare(order, j, k) < 0 THEN k ELSE j
        Merge(done, r) ==
            IF done = <<>> THEN <<r>>
            ELSE IF Compare(order, r.start, r.limit) >= 0 THEN done
            ELSE IF Compare(order, r.start, Last(done).limit) > 0 THEN Append(done, r)
            ELSE [done EXCEPT ![Len(done)].limit = Further(@, r.limit)]
    IN FoldLeft(Merge, <<>>, SortSeq(all, Before))

\* What is left of a range without one of its keys, and of the ranges a
\* transaction deleted when a row is inserted again.
SplitKeyRange(order, r, k) ==
    LET at_start == Compare(order, k, r.start) = 0
        at_limit == Compare(order, k, r.limit) = 0
        before == [r EXCEPT !.limit_type = "open", !.limit = k]
        after == [r EXCEPT !.start_type = "open", !.start = k]
    IN (IF at_start THEN <<>> ELSE <<before>>)
         \o (IF at_limit THEN <<>> ELSE <<after>>)

ContainsAny(order, ranges, k) ==
    \E i \in DOMAIN ranges : RangeContains(order, ranges[i], k)

\* The keys of a set that ranges contain, range by range.
Scan(order, ranges, keys) ==
    LET Of(r) == InKeyOrder(order, {k \in keys : RangeContains(order, r, Key(k))})
    IN FlattenSeq([i \in DOMAIN ranges |-> Of(ranges[i])])

(***************************************************************************)
(* What a key set means: a range's endpoints bound the leading columns of *)
(* the keys, as many as the endpoint has, compared column by column        *)
(***************************************************************************)
Precedes(order, a, b) ==
    \E i \in DOMAIN a : /\ \A j \in 1..(i - 1) : a[j] = b[j]
                        /\ CompareColumn(order[i], a[i], b[i]) < 0

InRange(order, r, key) ==
    LET from == PrefixOf(key, Len(r.start.cols))
        upto == PrefixOf(key, Len(r.limit.cols))
    IN /\ IF r.start_type = "open" THEN Precedes(order, r.start.cols, from)
          ELSE ~Precedes(order, from, r.start.cols)
       /\ \/ r.limit.is_infinity
          \/ IF r.limit_type = "open" THEN Precedes(order, upto, r.limit.cols)
             ELSE ~Precedes(order, r.limit.cols, upto)

InKeySet(order, set, key) ==
    \/ key \in ToSet(set.keys)
    \/ \E r \in ToSet(set.ranges) : InRange(order, r, key)
================================================================================
