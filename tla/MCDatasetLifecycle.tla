------------------------- MODULE MCDatasetLifecycle -------------------------
(* Constants for TLC: "raw" and "text" are two spellings of one normal form. *)
EXTENDS DatasetLifecycle, TLC

CONSTANTS text, raw, other

OneCanon == text :> text
SpellingCanon == text :> text @@ raw :> text @@ other :> other

SessionCaseSymmetry == Permutations(Session) \cup Permutations(Case)
=============================================================================
