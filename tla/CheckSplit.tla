------------------------------ MODULE CheckSplit ------------------------------
(***************************************************************************)
(* How rows are divided between the master daemons: AllSplitToDaemons, the *)
(* same loop for checks (models/pg/check.go) and for clusters              *)
(* (models/pg/cluster.go, models/cassandra/cluster.go).                    *)
(*                                                                         *)
(* A row is its id.  `daemons` is the list the caller built by ranging     *)
(* over the peers map, so it lists each peer once, in any order.           *)
(***************************************************************************)
EXTENDS Integers, Sequences, SequencesExt, FiniteSets

\* Faulty variant: oldest rows first.
AscendingRank(rows, id) == Cardinality({older \in rows : older < id})

\* How many rows the query returns before this one.
Rank(rows, id) == Cardinality({newer \in rows : newer > id})

\* All: SELECT * ... ORDER BY id DESC, the rows in the order the query returns them.
DescendingIds(rows) ==
    [k \in 1 .. Cardinality(rows) |-> CHOOSE id \in rows : Rank(rows, id) = k - 1]

\* Faulty variant: the pointer wraps one place too late.
FillBucketsLateWrap(rowSeq, n) ==
    FoldLeft(LAMBDA acc, row :
                LET here == IF acc.bucketsPointer > n THEN 0 ELSE acc.bucketsPointer
                IN  [bucketsPointer |-> here + 1,
                     buckets |-> [acc.buckets EXCEPT ![here] = Append(@, row)]],
             [bucketsPointer |-> 0, buckets |-> [i \in 0 .. n - 1 |-> <<>>]],
             rowSeq).buckets

\* The loop of AllSplitToDaemons over the rows: bucketsPointer wraps to 0
\* before a row is appended and moves on after it.
FillBuckets(rowSeq, n) ==
    FoldLeft(LAMBDA acc, row :
                LET here == IF acc.bucketsPointer >= n THEN 0 ELSE acc.bucketsPointer
                IN  [bucketsPointer |-> here + 1,
                     buckets        |-> [acc.buckets EXCEPT ![here] = Append(@, row)]],
             [bucketsPointer |-> 0, buckets |-> [i \in 0 .. n - 1 |-> <<>>]],
             rowSeq).buckets

\* What result[d] holds when AllSplitToDaemons returns; a daemon that is not
\* listed finds no entry, which Go reads as an empty slice.
SplitToDaemons(rows, daemons, d) ==
    LET buckets == FillBuckets(DescendingIds(rows), Len(daemons))
        At      == {i \in 1 .. Len(daemons) : daemons[i] = d}
    IN  {row \in rows : \E i \in At : row \in ToSet(buckets[i - 1])}

-----------------------------------------------------------------------------
(***************************************************************************)
(* The same division in closed form: the row with `Rank` newer rows goes   *)
(* to the daemon at that place of the list, counted modulo its length.     *)
(***************************************************************************)
\* Faulty variant: starts at the second daemon of the list.
ShareFromSecond(rows, daemons, d) ==
    {id \in rows : /\ Len(daemons) > 0
                   /\ daemons[((Rank(rows, id) + 1) % Len(daemons)) + 1] = d}

Share(rows, daemons, d) ==
    {id \in rows : /\ Len(daemons) > 0
                   /\ daemons[(Rank(rows, id) % Len(daemons)) + 1] = d}

\* The lists `range` may build from a map with these keys: every order.
Listings(keys) ==
    {s \in [1 .. Cardinality(keys) -> keys] :
        \A i, j \in 1 .. Cardinality(keys) : s[i] = s[j] => i = j}

=============================================================================
