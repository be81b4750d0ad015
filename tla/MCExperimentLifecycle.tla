----------------------- MODULE MCExperimentLifecycle -----------------------
(* Constants for TLC: targets that answer a good text, a bad text, an object *)
(* without text and no object; evaluators that want a word in the text, want *)
(* it absent, have a pattern that does not compile, and one too large to.    *)
EXTENDS ExperimentLifecycle, TLC

CONSTANTS c1, c2, good, bad, word

WordInGood == {<<good, word>>}

GoodOrNone == "tGood" :> good @@ "tNone" :> NoObject
BadOrNoText == "tBad" :> bad @@ "tNoText" :> NoText

WithOrWithout ==
  "eWith" :> [type |-> "CONTAINS", operand |-> word]
    @@ "eWithout" :> [type |-> "NOT_CONTAINS", operand |-> word]
WithOrBrokenOrRaising ==
  "eWith" :> [type |-> "CONTAINS", operand |-> word]
    @@ "eBroken" :> [type |-> "REGEX", operand |-> Invalid]
    @@ "eRaising" :> [type |-> "REGEX", operand |-> Raising]

TwoCases == "dv" :> {c1, c2}

SessionCaseSymmetry == Permutations(Session) \cup Permutations(Case)
=============================================================================
