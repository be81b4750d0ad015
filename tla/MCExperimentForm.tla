-------------------------- MODULE MCExperimentForm --------------------------
(* Constants for TLC: a resource with two pages of versions, one with one;   *)
(* both on one page of their list, or on a page each.                        *)
EXTENDS ExperimentForm, TLC

CONSTANTS a, b

TwoPagesAndOne == a :> 2 @@ b :> 1
OnOnePage == a :> 1 @@ b :> 1
OnAPageEach == a :> 1 @@ b :> 2
=============================================================================
