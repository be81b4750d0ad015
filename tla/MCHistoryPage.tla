--------------------------- MODULE MCHistoryPage ---------------------------
(* Constants for TLC: an empty date range, one that selects the first       *)
(* experiment, and one that starts after its end.                           *)
EXTENDS HistoryPage, TLC

CONSTANTS whole, early, reversed

EarlyOrWhole == whole :> Experiment @@ early :> {1} @@ reversed :> {}
=============================================================================
