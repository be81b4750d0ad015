--------------------------- MODULE AnalysisPanels ---------------------------
(***************************************************************************)
(* The quality gate and the comparison of an experiment page: the panel    *)
(* that is used, the history that both look things up in, and the          *)
(* experiment the page holds.                                              *)
(***************************************************************************)
EXTENDS QualityGatePanel, ComparisonPanel

CONSTANT MaxLate         \* bound: calls given up that are still under way

ASSUME MaxLateAssumption == MaxLate \in Nat
ASSUME NoneAssumption ==
  None \notin Experiment \cup Policy \cup Lost
             \cup {request(AlreadyEvaluated), RecoveryUnavailable}

VARIABLES panel,         \* the panel that is used; the other one is at rest
          completed      \* the experiment the page holds is completed

vars == <<position, lookups, gateVars, comparisonVars, panel, completed>>

(* Every experiment has its place; the server may know results already.     *)
Places(X) == {f \in [X -> 1..Cardinality(X)] : \A x, y \in X : f[x] = f[y] => x = y}

Init ==
  /\ position \in UNION {Places(X) : X \in {Y \in SUBSET Experiment : Current \in Y}}
  /\ panel \in {"gate", "comparison"}
  /\ completed \in BOOLEAN
  /\ policies = {} /\ gateResults = << >> /\ comparisons = << >>
  /\ gate = IF panel = "gate" THEN Restoring(NewGate, TRUE) ELSE NewGate
  /\ comparison = IF panel = "comparison" /\ completed
                  THEN [NewComparison EXCEPT !.flags = {"loadingCandidates"}]
                  ELSE NewComparison
  /\ lookups = IF panel = "gate" THEN {Call("restore", NewWalk)}
               ELSE IF completed THEN {Call("candidates", NewWalk)} ELSE {}

(* A row of the history has the latest gate result and comparison of its   *)
(* experiment.                                                             *)
LatestFor(c) == IF c.lane = "restore" THEN LatestOf(gateResults) ELSE LatestBaseline

Walk ==
  /\ Insert \/ \E c \in lookups : CountRows(c) \/ ReadRows(c, LatestFor(c))
  /\ UNCHANGED <<gateVars, comparisonVars, panel, completed>>

UseGate ==
  /\ panel = "gate" /\ GateNext(completed)
  /\ UNCHANGED <<position, comparisonVars, panel, completed>>

UseComparison ==
  /\ panel = "comparison" /\ ComparisonNext(completed)
  /\ UNCHANGED <<position, gateVars, panel, completed>>

(* The page reads its experiment again; the gate only takes its status.    *)
ReloadExperiment ==
  /\ completed' \in {completed, TRUE}
  /\ IF panel = "comparison" THEN ExperimentChanged(completed')
     ELSE UNCHANGED <<comparisonVars, lookups>>
  /\ UNCHANGED <<position, gateVars, panel>>

Late == Cardinality({c \in gate.calls \cup comparison.calls \cup lookups : ~c.live})

Next == Walk \/ ((UseGate \/ UseComparison \/ ReloadExperiment) /\ Late' <= MaxLate)

Spec == Init /\ [][Next]_vars
-----------------------------------------------------------------------------
WalkLane == {"restore", "candidates", "recover"}

TypeOK ==
  /\ Current \in Listed /\ Listed \subseteq Experiment
  /\ position \in Places(Listed)
  /\ policies \subseteq Policy /\ Members(gateResults) \subseteq policies
  /\ Baselines \subseteq Listed \ {Current}
  /\ gate.policy \in policies \cup {None} /\ gate.result \in policies \cup {None}
  /\ gate.flags \subseteq GateFlag
  /\ comparison.candidates \subseteq Listed \ {Current}
  /\ comparison.selected \in comparison.candidates \cup {None}
  /\ comparison.flags \subseteq ComparisonFlag
  /\ \A c \in lookups :
       c.lane \in WalkLane /\ c.arg.page \in 1..Cardinality(Experiment)
  /\ \A l \in WalkLane : Cardinality({c \in lookups : c.lane = l /\ c.live}) <= 1

(* A result on the screen was stored, and is shown with its own policy; a  *)
(* comparison the router is sent to was stored for the baseline submitted  *)
(* last.  None is the answer to something else, or a leftover.             *)
ShownIsCommitted ==
  /\ gate.result # None => gate.result = gate.policy /\ gate.result \in Members(gateResults)
  /\ comparison.pushed # None =>
       comparison.pushed = comparison.asked /\ comparison.asked \in Baselines

(* No answer is awaited, and none has come to a call that was aborted.     *)
AtRest ==
  /\ Settled(lookups \cup gate.calls)
  /\ \A c \in comparison.calls : ~c.live /\ c.reply = Waiting

(* A panel at rest is not busy and the gate is no dead end: it shows a     *)
(* result, or an error to look it up again, or the form with one button    *)
(* that works, once the experiment is completed.  A policy that was made   *)
(* and not evaluated always has the button that evaluates it.              *)
GateWayForward ==
  AtRest => /\ gate.flags = {} /\ comparison.flags = {}
            /\ completed =>
                 gate.result # None \/ gate.restoreError # None \/ CanCreate(TRUE) \/ CanEvaluate

(* An evaluation refused because it was done before ends in its result, in *)
(* an error to try again, or in a lookup that missed because the list grew  *)
(* between the count of its last page and the rows of that page.           *)
AlreadyEvaluatedIsFound ==
  AtRest /\ gate.evaluationError = request(AlreadyEvaluated) =>
    gate.restoreError # None \/ gate.missed

(* A comparison that exists already is found unless the current experiment *)
(* has been compared with another baseline since, or the list grew between *)
(* the count of the last page of the lookup and the rows of that page.     *)
RecoveryFailsOnlyWhenNotLatest ==
  AtRest /\ comparison.exists /\ comparison.comparisonError = RecoveryUnavailable =>
    LatestBaseline # comparison.asked \/ comparison.missed
=============================================================================
