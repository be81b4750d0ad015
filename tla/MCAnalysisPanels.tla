-------------------------- MODULE MCAnalysisPanels --------------------------
(* The experiments are model values: the ones but Current are alike, and so  *)
(* are the policies.                                                        *)
EXTENDS AnalysisPanels, TLC

Alike == Permutations(Experiment \ {Current}) \cup Permutations(Policy)
=============================================================================
