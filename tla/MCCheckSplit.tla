----------------------------- MODULE MCCheckSplit -----------------------------
(***************************************************************************)
(* Walks AllSplitToDaemons through every set of rows and every list of     *)
(* daemons within the bounds, one insert, delete, join or reordering at a  *)
(* time.                                                                   *)
(***************************************************************************)
EXTENDS CheckSplit

CONSTANTS Ids,      \* the row ids that may exist
          Peers     \* the daemons that may be listed

ASSUME SplitAssumption == Ids \subseteq Int /\ IsFiniteSet(Peers)

VARIABLES rows, daemons

InsertRow == \E id \in Ids \ rows : rows' = rows \cup {id} /\ UNCHANGED daemons
DeleteRow == \E id \in rows : rows' = rows \ {id} /\ UNCHANGED daemons
Relist    == \E ps \in SUBSET Peers : daemons' \in Listings(ps) /\ UNCHANGED rows

SplitInit == rows = {} /\ daemons = <<>>
SplitNext == InsertRow \/ DeleteRow \/ Relist
SplitSpec == SplitInit /\ [][SplitNext]_<<rows, daemons>>

ShareOf(d) == SplitToDaemons(rows, daemons, d)

\* No row is dropped and none is handed to two daemons, and the shares are even: an
\* earlier daemon of the list has at most one row more than a later one and never
\* less (check.go:159, all rows divided equally).
SharesPartition ==
    daemons # <<>> =>
        /\ UNION {ShareOf(d) : d \in ToSet(daemons)} = rows
        /\ \A d, e \in ToSet(daemons) : d # e => ShareOf(d) \cap ShareOf(e) = {}
        /\ \A i, j \in DOMAIN daemons : i < j =>
              Cardinality(ShareOf(daemons[i])) - Cardinality(ShareOf(daemons[j])) \in {0, 1}

\* The closed form used by the scheduler is what the loop computes.
LoopIsShare ==
    \A d \in Peers : ShareOf(d) = Share(rows, daemons, d)

\* One daemon's share changes by one row at most when the oldest row goes, and
\* not at all for the rows newer than it: the rows are dealt newest first.
DeleteKeepsNewerShares ==
    [][\A d \in Peers : \A id \in rows \ rows' :
          {x \in ShareOf(d) : x > id} = {x \in ShareOf(d)' : x > id}]_<<rows, daemons>>
=============================================================================
