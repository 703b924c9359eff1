--------------------------- MODULE MCCheckExpressions ---------------------------
(***************************************************************************)
(* Instances of CheckExpressions for TLC.                                  *)
(***************************************************************************)
EXTENDS CheckExpressions

CONSTANTS h1, h2

MCHostLists == {<<>>, <<h1>>, <<h1, h2>>}

\* Negative, zero, at the thresholds and above them.
MCValues == -1 .. 2

=============================================================================
