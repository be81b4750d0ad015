-------------------------- MODULE QualityGatePanel --------------------------
(***************************************************************************)
(* The quality gate of an experiment (quality-gate-panel.tsx).  The server *)
(* keeps policies and results for good, and gives only the latest result   *)
(* of an experiment, by way of the history: it is looked up when the panel *)
(* opens and after an evaluation that failed.                              *)
(***************************************************************************)
EXTENDS HistoryWalk, Sequences

CONSTANT Policy          \* names of policies; a name is unique in a project

VARIABLES policies,      \* committed
          gateResults,   \* committed: policies the experiment was evaluated with
          gate           \* what the panel holds

gateVars == <<policies, gateResults, gate>>

LatestOf(seq) == IF seq = << >> THEN None ELSE seq[Len(seq)]
Members(seq) == {seq[i] : i \in DOMAIN seq}

GateFlag == {"restoring", "creating", "evaluating", "recovering"}

NewGate ==
  [policy |-> None, result |-> None,
   restoreError |-> None, createError |-> None, evaluationError |-> None,
   pending |-> None,     \* the error evaluateExistingPolicy() caught
   missed |-> FALSE,     \* history: the last page the last lookup read grew
   flags |-> {}, calls |-> {}]

(* restoreLatest, and the effect of the first render.                      *)
Restoring(g, showLoading) ==
  [g EXCEPT !.restoreError = None,
            !.flags = @ \cup IF showLoading THEN {"restoring"} ELSE {}]

restoreLatest(g, showLoading) ==
  gate' = Restoring(g, showLoading) /\ lookups' = StartWalk("restore")

\* Mutant: the result is taken, the policy it belongs to is not.
Restored_NoPolicy(g, o) ==
  CASE o.kind # "data" -> [g EXCEPT !.restoreError = o]
    [] o.kind = "data" /\ o.value = None -> [g EXCEPT !.result = None]
    [] OTHER -> [g EXCEPT !.result = o.value, !.evaluationError = None]

(* The result that was found, and then its policy, are read one by one.    *)
Restored(g, o) ==
  CASE o.kind # "data" -> [g EXCEPT !.restoreError = o]
    [] o.kind = "data" /\ o.value = None -> [g EXCEPT !.result = None]
    [] OTHER -> [g EXCEPT !.policy = o.value, !.result = o.value,
                          !.evaluationError = None]

\* Mutant: the error is forgotten once the lookup has ended.
EvaluationEnded_Silent(g, o) ==
  [g EXCEPT !.flags = @ \ {"evaluating"}, !.pending = None, !.evaluationError = None]

(* The end of evaluateExistingPolicy() after its lookup: the error is put  *)
(* back unless a result was found.                                         *)
EvaluationEnded(g, o) ==
  LET recovered == o.kind = "data" /\ o.value # None
  IN [g EXCEPT !.flags = @ \ {"evaluating"},
               !.pending = None,
               !.evaluationError = IF recovered THEN @ ELSE g.pending]

RestoreEnded(g, c, o) ==
  LET u == Restored([g EXCEPT !.flags = @ \ {"restoring", "recovering"},
                              !.missed = c.arg.grew], o)
  IN IF g.pending = None THEN u ELSE EvaluationEnded(u, o)

evaluateExistingPolicy(g, policy) ==
  [g EXCEPT !.flags = @ \cup {"evaluating"},
            !.evaluationError = None,
            !.calls = Sent(@, "evaluate", policy)]
-----------------------------------------------------------------------------
FormShown ==
  "restoring" \notin gate.flags /\ gate.restoreError = None /\ gate.result = None
GateBusy == gate.flags \cap {"creating", "evaluating", "recovering"} # {}

(* submit: names and rates that the form itself refuses send nothing.      *)
CanCreate(completed) == completed /\ FormShown /\ ~GateBusy /\ gate.policy = None
CanEvaluate == FormShown /\ ~GateBusy /\ gate.policy # None /\ gate.evaluationError # None

submitPolicy(completed) ==
  /\ CanCreate(completed)
  /\ \E name \in Policy :
       gate' = [gate EXCEPT !.createError = None,
                            !.flags = @ \cup {"creating"},
                            !.calls = Sent(@, "create", name)]
  /\ UNCHANGED <<policies, gateResults, lookups>>

RetryEvaluation ==
  /\ CanEvaluate
  /\ gate' = evaluateExistingPolicy(gate, gate.policy)
  /\ UNCHANGED <<policies, gateResults, lookups>>

RetryRestore ==
  /\ gate.restoreError # None
  /\ restoreLatest(gate, TRUE)
  /\ UNCHANGED <<policies, gateResults>>
-----------------------------------------------------------------------------
(* ---- The server, and other windows. ------------------------------------- *)

DuplicateName == Refused(409, "DUPLICATE_QUALITY_GATE_POLICY_NAME_IN_PROJECT")
AlreadyEvaluated == Refused(409, "QUALITY_GATE_ALREADY_EVALUATED")

(* Nobody waits for the answer to a call that was given up.                *)
Answer(calls, c, answer) == IF c.live THEN Served(calls, c, answer) ELSE Ended(calls, c)

ServeCreate(c) ==
  /\ c.lane = "create" /\ c.reply = Waiting
  /\ policies' = policies \cup {c.arg}
  /\ gate' = [gate EXCEPT !.calls = Answer(@, c,
       IF c.arg \in policies THEN DuplicateName ELSE Answered(c.arg))]
  /\ UNCHANGED <<gateResults, lookups>>

ServeEvaluate(c) ==
  /\ c.lane = "evaluate" /\ c.reply = Waiting
  /\ LET evaluated == c.arg \in Members(gateResults)
     IN /\ gateResults' = IF evaluated THEN gateResults ELSE Append(gateResults, c.arg)
        /\ gate' = [gate EXCEPT !.calls = Answer(@, c,
             IF evaluated THEN AlreadyEvaluated ELSE Answered(c.arg))]
  /\ UNCHANGED <<policies, lookups>>

EvaluateElsewhere(completed) ==
  /\ completed
  /\ \E p \in Policy \ Members(gateResults) :
       /\ policies' = policies \cup {p}
       /\ gateResults' = Append(gateResults, p)
  /\ UNCHANGED <<gate, lookups>>
-----------------------------------------------------------------------------
ReceiveRestore(c) ==
  /\ c.lane = "restore"
  /\ \E o \in WalkOutcomes(c) : gate' = RestoreEnded(gate, c, o)
  /\ lookups' = Ended(lookups, c)
  /\ UNCHANGED <<policies, gateResults>>

(* Only the page that is left aborts a mutation; the server may carry out  *)
(* one whose answer was lost.                                              *)
OutcomesOfMutation(c) == IF c.reply = Waiting THEN Lost ELSE Outcomes(c.reply[1])

ReceiveCreate(c) ==
  /\ c.lane = "create" /\ c.live
  /\ LET g == [gate EXCEPT !.calls = EndedMutation(@, c), !.flags = @ \ {"creating"}]
     IN \E o \in OutcomesOfMutation(c) :
          gate' = IF o.kind = "data"
                  THEN evaluateExistingPolicy([g EXCEPT !.policy = o.value], o.value)
                  ELSE [g EXCEPT !.createError = o]
  /\ UNCHANGED <<policies, gateResults, lookups>>

ReceiveEvaluate(c) ==
  /\ c.lane = "evaluate" /\ c.live
  /\ LET g == [gate EXCEPT !.calls = EndedMutation(@, c)]
     IN \E o \in OutcomesOfMutation(c) :
          IF o.kind = "data"
          THEN /\ gate' = [g EXCEPT !.result = o.value, !.flags = @ \ {"evaluating"}]
               /\ UNCHANGED lookups
          ELSE restoreLatest([g EXCEPT !.evaluationError = o, !.pending = o,
                                       !.flags = @ \cup {"recovering"}], FALSE)
  /\ UNCHANGED <<policies, gateResults>>

-----------------------------------------------------------------------------
ReceiveGate ==
  \/ \E c \in lookups : ReceiveRestore(c)
  \/ \E c \in gate.calls : ReceiveCreate(c) \/ ReceiveEvaluate(c)

GateNext(completed) ==
  \/ submitPolicy(completed) \/ RetryEvaluation \/ RetryRestore
  \/ EvaluateElsewhere(completed)
  \/ \E c \in gate.calls : ServeCreate(c) \/ ServeEvaluate(c)
  \/ ReceiveGate
=============================================================================
