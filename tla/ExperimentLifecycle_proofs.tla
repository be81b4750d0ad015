--------------------- MODULE ExperimentLifecycle_proofs ---------------------
(***************************************************************************)
(* Proofs about ExperimentLifecycle for every set of sessions, experiments *)
(* and versions and every finite set of cases.  The inductive invariant    *)
(* IInv says three things: an experiment belongs to the request that works *)
(* on it, what a run has counted is the tally of what it has evaluated,    *)
(* and what is stored is the outcome of the plan.                          *)
(***************************************************************************)
EXTENDS ExperimentLifecycle, FiniteSetTheorems, TLAPS

\* The part of TypeOK that is about one request, and the steps of each handler.
RequestOK(r) ==
  /\ r \in Request
  /\ r.op = "none" => r.step = "idle" /\ r.experiment = None
  /\ r.op # "none" => r.step # "idle" /\ r.experiment \in Experiment
  /\ r.op = "create" =>
       /\ r.step \in {"dataset", "project", "target", "evaluator", "insert"}
       /\ r.plan \in Plan
  /\ r.op = "run" => r.step \in {"lock", "dataset", "project", "target",
                                 "evaluator", "execute", "commit"}
  /\ r.op = "read" => r.step \in {"detail", "results"}

Requests == \A s \in Session : RequestOK(req[s])

\* What a run has counted after the cases w with the result x.
TallyOf(x, w) ==
  [pass |-> IF x.status = "PASS" THEN Cardinality(w) ELSE 0,
   fail |-> IF x.status = "FAIL" THEN Cardinality(w) ELSE 0,
   error |-> IF x.status = "ERROR" THEN Cardinality(w) ELSE 0,
   code |-> IF w = {} THEN None ELSE x.code]

Evaluated(r) == {c \in Case : r.work[c] # None}

\* A request at a run, seen alone: all its results are the result of its plan.
Progress(r) ==
  LET x == Execute(r.plan.tv, r.plan.ev) IN
  /\ r.plan \in ViablePlan
  /\ Evaluated(r) \subseteq CasesOf[r.plan.dv]
  /\ \A c \in Evaluated(r) : r.work[c] = x
  /\ r.tally = TallyOf(x, Evaluated(r))
  /\ r.step = "commit" => Evaluated(r) = CasesOf[r.plan.dv]

Work ==
  \A s \in Session :
    /\ Running(s) => Progress(req[s])
    /\ req[s].step = "lock" => req[s].work = NoResults /\ req[s].tally = ZeroTally

\* A new experiment is known to its request only; an experiment at work is
\* locked by its run and still as it was when it was locked.
Claims ==
  \A s \in Session :
    LET r == req[s]
        e == req[s].experiment
    IN
    /\ r.op = "create" => /\ experiments[e].status = "ABSENT"
                          /\ \A t \in Session \ {s} : req[t].experiment # e
    /\ r.op \in {"run", "read"} => experiments[e].status # "ABSENT"
    /\ Running(s) => /\ lock[e] = s
                     /\ experiments[e].status = "CREATED"
                     /\ r.plan = experiments[e].plan
    /\ r.op = "read" /\ r.seen \in Done => experiments[e].status \in Done

\* What the tables hold of an experiment is determined by its status and plan.
Stored(row, set) ==
  LET x == Execute(row.plan.tv, row.plan.ev)
      cases == CasesOf[row.plan.dv]
  IN
  /\ row.status = "ABSENT" => row = NoRow
  /\ row.status # "ABSENT" => row.plan \in ViablePlan /\ row.total = Cardinality(cases)
  /\ row.status = "CREATED" => row.tally = ZeroTally
  /\ row.status \notin Done => set = NoResults
  /\ row.status \in Done =>
       /\ row.tally = TallyOf(x, cases)
       /\ row.status = ExpectedOutcome(row.plan).status
       /\ set = ExpectedOutcome(row.plan).results

Rows == \A e \in Experiment : Stored(experiments[e], results[e])

IInv == TypeOK /\ Requests /\ Work /\ Claims /\ Rows
-----------------------------------------------------------------------------
(* Results and tallies. *)

LEMMA ExecuteType ==
  ASSUME NEW tv \in TargetVersion, NEW ev \in EvaluatorVersion
  PROVE  /\ Execute(tv, ev) \in Result
         /\ Execute(tv, ev) # None
         /\ Execute(tv, ev).code = None <=> Execute(tv, ev).status # "ERROR"
<1> DEFINE x == Execute(tv, ev)
<1>1. \/ x = Failed("INVALID_TARGET_CONFIGURATION")
      \/ x = Failed("INVALID_EVALUATOR_CONFIGURATION")
      \/ x = Failed("EXECUTION_ERROR")
      \/ x = Answered("PASS")
      \/ x = Answered("FAIL")
  BY DEF Execute, Evaluate
<1>2. None \notin ErrorCode /\ None \notin Result
  BY NoneAssumption
<1> HIDE DEF x
<1>3. x \in Result /\ (x.code = None <=> x.status # "ERROR")
  BY <1>1, <1>2 DEF Failed, Answered, Result, Verdict, ErrorCode
<1>. QED
  BY <1>2, <1>3 DEF x

LEMMA CasesFinite ==
  ASSUME NEW w \in SUBSET Case
  PROVE  IsFiniteSet(w) /\ Cardinality(w) \in Nat
  BY CasesAssumption, FS_Subset, FS_CardinalityType

LEMMA TallyType ==
  ASSUME NEW x \in Result, NEW w \in SUBSET Case PROVE TallyOf(x, w) \in Tally
  BY CasesFinite DEF TallyOf, Tally, Result

LEMMA ZeroTallyIsEmpty == \A x : TallyOf(x, {}) = ZeroTally
  BY FS_EmptySet DEF TallyOf, ZeroTally

LEMMA CountType ==
  ASSUME NEW t \in Tally, NEW x \in Result PROVE Count(t, x) \in Tally
<1> USE DEF Count, Tally, Result
<1>1. CASE x.status = "PASS"
  BY <1>1
<1>2. CASE x.status = "FAIL"
  BY <1>2
<1>3. CASE x.status = "ERROR"
  <2> DEFINE k == IF t.code = None THEN x.code ELSE t.code
  <2>1. Count(t, x) = [pass |-> t.pass, fail |-> t.fail, error |-> t.error + 1, code |-> k]
    BY <1>3
  <2>2. k \in ErrorCode \cup {None}
    OBVIOUS
  <2> HIDE DEF k, Count
  <2>. QED BY <2>1, <2>2
<1>. QED
  BY <1>1, <1>2, <1>3 DEF Verdict

\* Counting one more case of the same result gives the tally of one more case.
LEMMA CountOne ==
  ASSUME NEW x \in Result, x.code = None <=> x.status # "ERROR",
         NEW w \in SUBSET Case, NEW c \in Case, c \notin w
  PROVE  Count(TallyOf(x, w), x) = TallyOf(x, w \cup {c})
<1>1. Cardinality(w \cup {c}) = Cardinality(w) + 1
  BY CasesFinite, FS_AddElement
<1>2. w \cup {c} # {}
  OBVIOUS
<1>3. CASE x.status = "PASS"
  BY <1>1, <1>2, <1>3 DEF Count, TallyOf
<1>4. CASE x.status = "FAIL"
  BY <1>1, <1>2, <1>4 DEF Count, TallyOf
<1>5. CASE x.status = "ERROR"
  BY <1>1, <1>2, <1>5 DEF Count, TallyOf
<1>. QED
  BY <1>3, <1>4, <1>5 DEF Result, Verdict
-----------------------------------------------------------------------------
(* Requests and types. *)

LEMMA IdleOK == RequestOK(Idle)
  BY DEF RequestOK, Idle, Request, Step, Status, Tally, ZeroTally, ResultSet, NoResults

\* A step of s touches no other request.
LEMMA Frame ==
  ASSUME TypeOK, NEW s \in Session, Start(s) \/ Proceed(s) \/ Abort(s)
  PROVE  /\ req' = [req EXCEPT ![s] = req'[s]]
         /\ \A t \in Session \ {s} : req'[t] = req[t]
<1> USE DEF TypeOK, End, Advance
<1>1. CASE Start(s)
  BY <1>1 DEF Start
<1>2. CASE LockExperiment(s) \/ LoadDataset(s) \/ LoadProject(s)
  BY <1>2 DEF LockExperiment, LoadDataset, LoadProject
<1>3. CASE LoadTarget(s) \/ LoadEvaluator(s) \/ InsertExperiment(s)
  BY <1>3 DEF LoadTarget, LoadEvaluator, InsertExperiment
<1>4. CASE ExecuteCase(s)
  BY <1>4 DEF ExecuteCase
<1>5. CASE CommitRun(s) \/ ReadExperiment(s) \/ ListResults(s) \/ Abort(s)
  BY <1>5 DEF CommitRun, ReadExperiment, ListResults, Abort
<1>. QED
  BY <1>1, <1>2, <1>3, <1>4, <1>5 DEF Proceed

LEMMA EndIdle ==
  ASSUME TypeOK, NEW s \in Session, End(s)
  PROVE  req'[s] = Idle /\ lock' \in [Experiment -> Session \cup {None}]
  BY DEF TypeOK, End

LEMMA AdvanceOK ==
  ASSUME TypeOK, Requests, NEW s \in Session, NEW step \in Step, Advance(s, step),
         \/ req[s].op \in {"create", "run"} /\ step \in {"project", "target", "evaluator"}
         \/ req[s].op = "create" /\ step = "insert"
         \/ req[s].op = "run" /\ step \in {"execute", "commit"}
  PROVE  RequestOK(req'[s])
<1>1. req'[s] = [req[s] EXCEPT !.step = step]
  BY DEF TypeOK, Advance
<1>2. RequestOK(req[s])
  BY DEF Requests
<1>. QED
  BY <1>1, <1>2 DEF RequestOK, Request

\* A request at one of these steps belongs to one of these operations.
LEMMA StepOfOp ==
  ASSUME Requests, NEW s \in Session
  PROVE  /\ req[s] \in Request
         /\ req[s].step # "idle" => req[s].experiment \in Experiment
         /\ req[s].step \in {"dataset", "project", "target", "evaluator"}
              => req[s].op \in {"create", "run"}
         /\ req[s].step = "insert" => req[s].op = "create" /\ req[s].plan \in Plan
         /\ req[s].step \in {"lock", "execute", "commit"} => req[s].op = "run"
         /\ req[s].step \in {"detail", "results"} => req[s].op = "read"
         /\ req[s].op = "none" <=> req[s].step = "idle"
  BY DEF Requests, RequestOK, Request, Op

\* A run at work has a plan of existing versions, and its result is a result.
LEMMA PlanAtWork ==
  ASSUME IInv, NEW s \in Session, Running(s)
  PROVE  /\ req[s].plan \in Plan
         /\ CasesOf[req[s].plan.dv] \in SUBSET Case
         /\ CasesOf[req[s].plan.dv] # {}
         /\ Execute(req[s].plan.tv, req[s].plan.ev) \in Result
         /\ Execute(req[s].plan.tv, req[s].plan.ev) # None
<1>1. req[s].plan \in Plan /\ CasesOf[req[s].plan.dv] # {}
  BY DEF IInv, Work, Progress, ViablePlan
<1>. QED
  BY <1>1, ExecuteType, CasesAssumption DEF Plan

LEMMA RequestStep ==
  ASSUME IInv, NEW s \in Session, Start(s) \/ Proceed(s) \/ Abort(s)
  PROVE  RequestOK(req'[s])
<1> USE DEF IInv
<1>1. CASE End(s)
  BY <1>1, EndIdle, IdleOK
<1>2. CASE Start(s)
  <2>1. PICK op \in Op, e \in Experiment, p \in Plan \cup {None} :
          /\ op = "create" => p # None
          /\ req' = [req EXCEPT ![s] = [Idle EXCEPT !.op = op, !.experiment = e,
                                          !.plan = p, !.step = FirstStep(op)]]
    BY <1>2 DEF Start
  <2>2. req'[s] = [Idle EXCEPT !.op = op, !.experiment = e, !.plan = p,
                               !.step = FirstStep(op)]
    BY <2>1 DEF TypeOK
  <2>3. FirstStep(op) \in Step /\ FirstStep(op) # "idle"
    BY DEF FirstStep, Op, Step
  <2>4. FirstStep("create") = "dataset" /\ FirstStep("run") = "lock"
          /\ FirstStep("read") = "detail"
    BY DEF FirstStep
  <2>5. req'[s] \in Request
    BY <2>2, <2>3, IdleOK DEF RequestOK, Request
  <2>6. /\ req'[s].op = op /\ req'[s].experiment = e
        /\ req'[s].plan = p /\ req'[s].step = FirstStep(op)
    BY <2>2 DEF Idle
  <2>7. op # "none"
    BY DEF Op
  <2>. QED BY <2>1, <2>3, <2>4, <2>5, <2>6, <2>7 DEF RequestOK
<1>3. CASE LockExperiment(s) /\ ~End(s)
  <2>1. req'[s] = [req[s] EXCEPT !.plan = experiments[req[s].experiment].plan,
                                 !.step = "dataset"]
    BY <1>3 DEF LockExperiment, TypeOK
  <2>2. req[s].op = "run" /\ req[s].experiment \in Experiment /\ req[s] \in Request
    BY <1>3, StepOfOp DEF LockExperiment, At
  <2>3. experiments[req[s].experiment].plan \in Plan \cup {None}
    BY <2>2 DEF TypeOK, Row
  <2>. QED BY <2>1, <2>2, <2>3 DEF RequestOK, Request, Step
<1>4. CASE LoadDataset(s)
  <2>1. req'[s] = [req[s] EXCEPT !.active = active["dataset"], !.step = "project"]
    BY <1>4 DEF LoadDataset, TypeOK
  <2>2. RequestOK(req[s]) /\ req[s].op \in {"create", "run"}
    BY <1>4, StepOfOp DEF LoadDataset, At, Requests
  <2>3. active["dataset"] \in BOOLEAN
    BY DEF TypeOK, Resource
  <2>. QED BY <2>1, <2>2, <2>3 DEF RequestOK, Request, Step
<1>5. CASE (LoadProject(s) \/ LoadTarget(s) \/ LoadEvaluator(s)) /\ ~End(s)
  <2>1. req[s].op \in {"create", "run"}
    BY <1>5, StepOfOp DEF LoadProject, LoadTarget, LoadEvaluator, At
  <2>2. \/ Advance(s, "target") \/ Advance(s, "evaluator")
        \/ req[s].op = "create" /\ Advance(s, "insert")
        \/ req[s].op = "run" /\ Advance(s, "execute")
    BY <1>5, <2>1 DEF LoadProject, LoadTarget, LoadEvaluator
  <2>. QED BY <2>1, <2>2, AdvanceOK DEF Step
<1>6. CASE ExecuteCase(s)
  <2>1. req[s].op = "run" /\ RequestOK(req[s]) /\ Running(s) /\ req[s].step = "execute"
    BY <1>6, StepOfOp DEF ExecuteCase, At, Requests, Running
  <2>2. CASE Advance(s, "commit")
    BY <2>1, <2>2, AdvanceOK DEF Step
  <2>3. CASE ~Advance(s, "commit")
    <3> DEFINE x == Execute(req[s].plan.tv, req[s].plan.ev)
    <3>1. PICK c \in Todo(s) :
            req' = [req EXCEPT ![s].work[c] = x, ![s].tally = Count(req[s].tally, x)]
      BY <1>6, <2>3 DEF ExecuteCase
    <3>2. req'[s] = [req[s] EXCEPT !.work = [req[s].work EXCEPT ![c] = x],
                                   !.tally = Count(req[s].tally, x)]
      BY <3>1 DEF TypeOK
    <3>3. x \in Result
      BY <2>1, PlanAtWork
    <3>4. Count(req[s].tally, x) \in Tally
      BY <2>1, <3>3, CountType DEF RequestOK, Request
    <3>5. [req[s].work EXCEPT ![c] = x] \in ResultSet
      BY <2>1, <3>3 DEF RequestOK, Request, ResultSet
    <3> HIDE DEF x
    <3>. QED BY <2>1, <3>2, <3>4, <3>5 DEF RequestOK, Request
  <2>. QED BY <2>2, <2>3
<1>7. CASE ReadExperiment(s)
  <2>1. req'[s] = [req[s] EXCEPT !.seen = experiments[req[s].experiment].status,
                                 !.step = "results"]
    BY <1>7 DEF ReadExperiment, TypeOK
  <2>2. RequestOK(req[s]) /\ req[s].op = "read" /\ req[s].experiment \in Experiment
    BY <1>7, StepOfOp DEF ReadExperiment, At, Requests
  <2>3. experiments[req[s].experiment].status \in Status
    BY <2>2 DEF TypeOK, Row
  <2>. QED BY <2>1, <2>2, <2>3 DEF RequestOK, Request, Step
<1>8. CASE InsertExperiment(s) \/ CommitRun(s) \/ ListResults(s) \/ Abort(s)
  BY <1>1, <1>8 DEF InsertExperiment, CommitRun, ListResults, Abort
<1>. QED
  BY <1>1, <1>2, <1>3, <1>4, <1>5, <1>6, <1>7, <1>8 DEF Proceed
-----------------------------------------------------------------------------
(* What a step does to the tables and to the locks. *)

LEMMA TableStep ==
  ASSUME NEW s \in Session, Start(s) \/ Proceed(s) \/ Abort(s)
  PROVE  /\ active' = active
         /\ \/ UNCHANGED <<experiments, results>>
            \/ InsertExperiment(s) \/ CommitRun(s)
  BY DEF Proceed, Start, LockExperiment, LoadDataset, LoadProject, LoadTarget,
         LoadEvaluator, InsertExperiment, ExecuteCase, CommitRun, ReadExperiment,
         ListResults, Abort

LEMMA LockStep ==
  ASSUME TypeOK, NEW s \in Session, Start(s) \/ Proceed(s) \/ Abort(s)
  PROVE  /\ lock' \in [Experiment -> Session \cup {None}]
         /\ \A e \in Experiment : lock'[e] = lock[e] \/ lock[e] = None \/ lock[e] = s
<1> USE DEF TypeOK
<1>1. CASE End(s)
  BY <1>1 DEF End
<1>2. CASE UNCHANGED lock
  BY <1>2
<1>3. CASE LockExperiment(s)
  BY <1>1, <1>3 DEF LockExperiment
<1>. QED
  BY <1>1, <1>2, <1>3
     DEF Proceed, Start, LoadDataset, LoadProject, LoadTarget, LoadEvaluator,
         InsertExperiment, ExecuteCase, CommitRun, ReadExperiment, ListResults,
         Abort, Advance

\* A created experiment is stored as its plan says.
LEMMA Inserted ==
  ASSUME IInv, NEW s \in Session, InsertExperiment(s)
  PROVE  LET e == req[s].experiment
             row == [status |-> "CREATED", plan |-> req[s].plan,
                     total |-> Cardinality(CasesOf[req[s].plan.dv]), tally |-> ZeroTally]
         IN  /\ e \in Experiment
             /\ req[s].op = "create"
             /\ experiments[e] = NoRow
             /\ results' = results
             /\ \/ experiments' = experiments
                \/ /\ req[s].plan \in ViablePlan
                   /\ experiments' = [experiments EXCEPT ![e] = row]
             /\ row \in Row
<1>1. /\ req[s].op = "create" /\ req[s].plan \in Plan
      /\ req[s].experiment \in Experiment
  BY StepOfOp DEF IInv, InsertExperiment, At
<1>2. experiments[req[s].experiment] = NoRow
  BY <1>1 DEF IInv, Claims, Rows, Stored
<1>3. Cardinality(CasesOf[req[s].plan.dv]) \in Nat
  BY <1>1, CasesFinite, CasesAssumption DEF Plan
<1>4. [status |-> "CREATED", plan |-> req[s].plan,
       total |-> Cardinality(CasesOf[req[s].plan.dv]), tally |-> ZeroTally] \in Row
  BY <1>1, <1>3 DEF Row, Status, Tally, ZeroTally
<1>. QED
  BY <1>1, <1>2, <1>4 DEF InsertExperiment, ViablePlan

\* A run commits the outcome of its plan and meets no unique constraint.
LEMMA Committed ==
  ASSUME IInv, NEW s \in Session, CommitRun(s)
  PROVE  LET e == req[s].experiment
             p == experiments[e].plan
             row == [experiments[e] EXCEPT !.status = ExpectedOutcome(p).status,
                                           !.tally = req[s].tally]
         IN  /\ e \in Experiment
             /\ Running(s)
             /\ experiments[e].status = "CREATED"
             /\ p \in ViablePlan
             /\ experiments' = [experiments EXCEPT ![e] = row]
             /\ results' = [results EXCEPT ![e] = ExpectedOutcome(p).results]
             /\ row \in Row
             /\ row.status \in Done
             /\ req[s].tally = TallyOf(Execute(p.tv, p.ev), CasesOf[p.dv])
             /\ req[s].tally.code = ExpectedOutcome(p).code
             /\ ExpectedOutcome(p).results \in ResultSet
<1> DEFINE e == req[s].experiment
           p == experiments[e].plan
           x == Execute(p.tv, p.ev)
           d == CasesOf[p.dv]
           t == req[s].tally
           w == req[s].work
<1>1. /\ req[s].step = "commit" /\ req[s].op = "run" /\ Running(s)
      /\ e \in Experiment /\ req[s] \in Request
  BY StepOfOp DEF IInv, CommitRun, At, Running
<1>2. experiments[e].status = "CREATED" /\ req[s].plan = p
  BY <1>1 DEF IInv, Claims
<1>3. results[e] = NoResults /\ p \in ViablePlan
  BY <1>1, <1>2 DEF IInv, Rows, Stored, Done
<1>4. /\ Evaluated(req[s]) = d
      /\ \A c \in d : w[c] = x
      /\ t = TallyOf(x, d)
  BY <1>1, <1>2 DEF IInv, Work, Progress
<1>5. /\ d \in SUBSET Case /\ d # {} /\ x \in Result /\ x # None
      /\ x.code = None <=> x.status # "ERROR"
  BY <1>1, <1>2, PlanAtWork, ExecuteType DEF Plan
<1>6. ~ResultConflict(s)
  BY <1>3 DEF ResultConflict, NoResults
<1>7. \A c \in Case : w[c] = IF c \in d THEN x ELSE None
  BY <1>4 DEF Evaluated
<1>8. t.code = x.code
  <2>1. d # {} /\ t = TallyOf(x, d)
    BY <1>4, <1>5
  <2> HIDE DEF x, d, t
  <2>. QED BY <2>1 DEF TallyOf
<1>9. ExpectedOutcome(p).status = IF t.code = None THEN "COMPLETED" ELSE "FAILED"
  BY <1>5, <1>8 DEF ExpectedOutcome
<1>10. ExpectedOutcome(p).results = [c \in Case |-> IF c \in d THEN x ELSE None]
  BY DEF ExpectedOutcome
<1>11. experiments' = [experiments EXCEPT ![e].status = ExpectedOutcome(p).status,
                                          ![e].tally = t]
  BY <1>6, <1>9 DEF CommitRun
<1>12. results' = [results EXCEPT ![e] =
                     [c \in Case |-> IF w[c] # None THEN w[c] ELSE results[e][c]]]
  BY <1>6 DEF CommitRun
<1>13. [c \in Case |-> IF w[c] # None THEN w[c] ELSE results[e][c]]
         = ExpectedOutcome(p).results
  BY <1>3, <1>5, <1>7, <1>10 DEF NoResults
<1>14. ExpectedOutcome(p).status \in Done
  BY <1>9 DEF Done
<1>15. t \in Tally /\ experiments[e] \in Row
  BY <1>1 DEF Request, IInv, TypeOK
<1>16. [experiments[e] EXCEPT !.status = ExpectedOutcome(p).status, !.tally = t] \in Row
  BY <1>14, <1>15 DEF Row, Done, Status
<1>17. ExpectedOutcome(p).results \in ResultSet
  BY <1>5, <1>10 DEF ResultSet
<1>18. [experiments[e] EXCEPT !.status = ExpectedOutcome(p).status, !.tally = t].status
         = ExpectedOutcome(p).status
  BY <1>15 DEF Row
<1>19. ExpectedOutcome(p).code = x.code
  BY DEF ExpectedOutcome
<1> HIDE DEF x, d, w
<1>20. experiments' = [experiments EXCEPT ![e] =
         [experiments[e] EXCEPT !.status = ExpectedOutcome(p).status, !.tally = t]]
  BY <1>1, <1>11
<1>. QED
  BY <1>1, <1>2, <1>3, <1>4, <1>8, <1>12, <1>13, <1>14, <1>16, <1>17, <1>18,
     <1>19, <1>20 DEF x, d

LEMMA StepType ==
  ASSUME IInv, NEW s \in Session, Start(s) \/ Proceed(s) \/ Abort(s)
  PROVE  TypeOK' /\ Requests'
<1> USE DEF IInv
<1>1. \A t \in Session : RequestOK(req'[t])
  BY Frame, RequestStep DEF Requests
<1>2. req' \in [Session -> Request]
  <2>1. req' = [req EXCEPT ![s] = req'[s]] /\ req'[s] \in Request
    BY Frame, RequestStep DEF RequestOK
  <2>. QED BY <2>1 DEF TypeOK
<1>3. experiments' \in [Experiment -> Row] /\ results' \in [Experiment -> ResultSet]
  <2>1. CASE UNCHANGED <<experiments, results>>
    BY <2>1 DEF TypeOK
  <2>2. CASE InsertExperiment(s)
    BY <2>2, Inserted DEF TypeOK
  <2>3. CASE CommitRun(s)
    <3> DEFINE e == req[s].experiment
               p == experiments[e].plan
               row == [experiments[e] EXCEPT !.status = ExpectedOutcome(p).status,
                                             !.tally = req[s].tally]
               set == ExpectedOutcome(p).results
    <3>1. /\ experiments' = [experiments EXCEPT ![e] = row]
          /\ results' = [results EXCEPT ![e] = set]
          /\ row \in Row /\ set \in ResultSet
      BY <2>3, Committed
    <3> HIDE DEF e, p, row, set
    <3>. QED BY <3>1 DEF TypeOK
  <2>. QED BY <2>1, <2>2, <2>3, TableStep
<1>4. active' \in [Resource -> BOOLEAN]
  BY TableStep DEF TypeOK
<1>. QED
  BY <1>1, <1>2, <1>3, <1>4, LockStep DEF TypeOK, Requests
-----------------------------------------------------------------------------
(* The tables. *)

LEMMA RowsStep ==
  ASSUME IInv, NEW s \in Session, Start(s) \/ Proceed(s) \/ Abort(s)
  PROVE  Rows'
<1> USE DEF IInv
<1> SUFFICES ASSUME NEW f \in Experiment PROVE Stored(experiments'[f], results'[f])
  BY DEF Rows
<1> DEFINE e == req[s].experiment
<1>1. CASE experiments'[f] = experiments[f] /\ results'[f] = results[f]
  BY <1>1 DEF Rows
<1>2. CASE InsertExperiment(s) /\ f = e
  <2> DEFINE row == [status |-> "CREATED", plan |-> req[s].plan,
                     total |-> Cardinality(CasesOf[req[s].plan.dv]), tally |-> ZeroTally]
  <2>1. CASE experiments' = experiments
    BY <1>1, <1>2, <2>1, Inserted
  <2>2. CASE req[s].plan \in ViablePlan /\ experiments' = [experiments EXCEPT ![e] = row]
    <3>1. experiments'[f] = row /\ results'[f] = NoResults
      BY <1>2, <2>2, Inserted DEF TypeOK, Rows, Stored, NoRow, Done
    <3>. QED BY <2>2, <3>1 DEF Stored, Done
  <2>. QED BY <1>2, <2>1, <2>2, Inserted
<1>3. CASE CommitRun(s) /\ f = e
  <2> DEFINE p == experiments[e].plan
             row == [experiments[e] EXCEPT !.status = ExpectedOutcome(p).status,
                                           !.tally = req[s].tally]
  <2>1. experiments'[f] = row /\ results'[f] = ExpectedOutcome(p).results
    BY <1>3, Committed DEF TypeOK
  <2>2. experiments[e] \in Row /\ row.status \in Done
    BY <1>3, Committed DEF TypeOK
  <2>3. row.plan = p /\ row.total = experiments[e].total /\ row.tally = req[s].tally
          /\ row.status = ExpectedOutcome(p).status
    BY <2>2 DEF Row
  <2>4. /\ p \in ViablePlan
        /\ req[s].tally = TallyOf(Execute(p.tv, p.ev), CasesOf[p.dv])
        /\ experiments[e].total = Cardinality(CasesOf[p.dv])
    BY <1>3, Committed DEF Rows, Stored
  <2> HIDE DEF row, p
  <2>. QED BY <2>1, <2>2, <2>3, <2>4 DEF Stored, Done
<1>4. CASE UNCHANGED <<experiments, results>>
  BY <1>1, <1>4
<1>5. CASE InsertExperiment(s) /\ f # e
  BY <1>1, <1>5, Inserted DEF TypeOK
<1>6. CASE CommitRun(s) /\ f # e
  BY <1>1, <1>6, Committed DEF TypeOK
<1>. QED
  BY <1>2, <1>3, <1>4, <1>5, <1>6, TableStep
-----------------------------------------------------------------------------
(* Runs at work. *)

\* A statement that changes neither plan nor work keeps the progress of a run.
LEMMA SameProgress ==
  ASSUME NEW q, NEW r, Progress(q),
         r.plan = q.plan, r.work = q.work, r.tally = q.tally, r.step # "commit"
  PROVE  Progress(r)
  BY DEF Progress, Evaluated

LEMMA LoadProgress ==
  ASSUME IInv, NEW s \in Session, req[s].op = "run",
         LoadDataset(s) \/ LoadProject(s) \/ LoadTarget(s) \/ LoadEvaluator(s), ~End(s)
  PROVE  Progress(req'[s])
<1> USE DEF IInv, TypeOK
<1>1. Running(s) /\ req[s] \in Request
  BY DEF Running, LoadDataset, LoadProject, LoadTarget, LoadEvaluator, At
<1>2. Progress(req[s])
  BY <1>1 DEF Work
<1>3. \/ req'[s] = [req[s] EXCEPT !.active = active["dataset"], !.step = "project"]
      \/ \E k \in {"target", "evaluator", "execute"} : req'[s] = [req[s] EXCEPT !.step = k]
  BY DEF LoadDataset, LoadProject, LoadTarget, LoadEvaluator, Advance
<1>4. /\ req'[s].plan = req[s].plan /\ req'[s].work = req[s].work
      /\ req'[s].tally = req[s].tally /\ req'[s].step # "commit"
  BY <1>1, <1>3 DEF Request
<1>. QED
  BY <1>2, <1>4, SameProgress

LEMMA LockProgress ==
  ASSUME IInv, NEW s \in Session, LockExperiment(s), ~End(s)
  PROVE  Progress(req'[s])
<1> USE DEF IInv
<1> DEFINE e == req[s].experiment
           x == Execute(experiments[e].plan.tv, experiments[e].plan.ev)
<1>1. /\ req[s].step = "lock" /\ req[s] \in Request /\ e \in Experiment
      /\ experiments[e].status = "CREATED"
      /\ req'[s] = [req[s] EXCEPT !.plan = experiments[e].plan, !.step = "dataset"]
  BY StepOfOp DEF LockExperiment, At, TypeOK
<1>2. req[s].work = NoResults /\ req[s].tally = ZeroTally
  BY <1>1 DEF Work
<1>3. experiments[e].plan \in ViablePlan
  BY <1>1 DEF Rows, Stored
<1>4. /\ req'[s].plan = experiments[e].plan /\ req'[s].work = NoResults
      /\ req'[s].tally = ZeroTally /\ req'[s].step = "dataset"
  BY <1>1, <1>2 DEF Request
<1>5. Evaluated(req'[s]) = {}
  BY <1>4 DEF Evaluated, NoResults
<1>6. TallyOf(x, {}) = ZeroTally
  BY ZeroTallyIsEmpty
<1>. QED
  BY <1>3, <1>4, <1>5, <1>6 DEF Progress

LEMMA ExecuteProgress ==
  ASSUME IInv, NEW s \in Session, ExecuteCase(s)
  PROVE  Progress(req'[s])
<1> USE DEF IInv
<1> DEFINE p == req[s].plan
           x == Execute(p.tv, p.ev)
           d == CasesOf[p.dv]
           w == Evaluated(req[s])
<1>1. Running(s) /\ req[s] \in Request
  BY StepOfOp DEF ExecuteCase, At, Running
<1>2. /\ p \in ViablePlan /\ w \subseteq d
      /\ \A c \in w : req[s].work[c] = x
      /\ req[s].tally = TallyOf(x, w)
  BY <1>1 DEF Work, Progress
<1>3. /\ d \in SUBSET Case /\ x \in Result /\ x # None
      /\ x.code = None <=> x.status # "ERROR"
  BY <1>1, PlanAtWork, ExecuteType DEF Plan
<1>4. Todo(s) = d \ w
  BY <1>3 DEF Todo, Evaluated
<1>5. CASE Todo(s) = {}
  <2>1. req'[s] = [req[s] EXCEPT !.step = "commit"]
    BY <1>5 DEF ExecuteCase, Advance, TypeOK
  <2>2. req'[s].plan = p /\ req'[s].work = req[s].work /\ req'[s].tally = req[s].tally
    BY <1>1, <2>1 DEF Request
  <2>3. Evaluated(req'[s]) = w
    BY <2>2 DEF Evaluated
  <2>4. w = d
    BY <1>2, <1>4, <1>5
  <2>. QED BY <1>2, <2>2, <2>3, <2>4 DEF Progress
<1>6. CASE Todo(s) # {}
  <2>1. PICK c \in d \ w :
          req' = [req EXCEPT ![s].work[c] = x, ![s].tally = Count(req[s].tally, x)]
    BY <1>4, <1>6 DEF ExecuteCase
  <2>2. req'[s] = [req[s] EXCEPT !.work = [req[s].work EXCEPT ![c] = x],
                                 !.tally = Count(req[s].tally, x)]
    BY <2>1 DEF TypeOK
  <2>3. /\ req'[s].plan = p /\ req'[s].step = req[s].step
        /\ req'[s].work = [req[s].work EXCEPT ![c] = x]
        /\ req'[s].tally = Count(req[s].tally, x)
    BY <1>1, <2>2 DEF Request
  <2>4. c \in Case /\ w \in SUBSET Case
    BY <1>3, <2>1 DEF Evaluated
  <2>5. \A k \in Case : req'[s].work[k] = IF k = c THEN x ELSE req[s].work[k]
    BY <1>1, <2>3, <2>4 DEF Request, ResultSet
  <2>6. Evaluated(req'[s]) = w \cup {c}
    BY <1>3, <2>4, <2>5 DEF Evaluated
  <2>7. req'[s].tally = TallyOf(x, w \cup {c})
    <3> HIDE DEF x, w
    <3>. QED BY <1>2, <1>3, <2>1, <2>3, <2>4, CountOne
  <2>8. req[s].step = "execute"
    BY DEF ExecuteCase, At
  <2>9. \A k \in w \cup {c} : req'[s].work[k] = x
    BY <1>2, <2>4, <2>5
  <2>10. w \cup {c} \subseteq d
    BY <1>2, <2>1
  <2>. QED BY <1>2, <2>3, <2>6, <2>7, <2>8, <2>9, <2>10 DEF Progress
<1>. QED
  BY <1>5, <1>6

LEMMA WorkStep ==
  ASSUME IInv, NEW s \in Session, Start(s) \/ Proceed(s) \/ Abort(s)
  PROVE  Work'
<1> USE DEF IInv
<1> SUFFICES ASSUME NEW t \in Session
             PROVE  /\ Running(t)' => Progress(req'[t])
                    /\ req'[t].step = "lock" => req'[t].work = NoResults
                                                  /\ req'[t].tally = ZeroTally
  BY DEF Work, Progress, Evaluated
<1>1. CASE t # s
  <2>1. req'[t] = req[t]
    BY <1>1, Frame
  <2>. QED BY <2>1 DEF Work, Running
<1>2. CASE t = s
  <2>1. CASE End(s)
    BY <1>2, <2>1, EndIdle DEF Idle, Running
  <2>2. CASE Start(s)
    <3>1. PICK op \in Op, e \in Experiment, p \in Plan \cup {None} :
            req' = [req EXCEPT ![s] = [Idle EXCEPT !.op = op, !.experiment = e,
                                            !.plan = p, !.step = FirstStep(op)]]
      BY <2>2 DEF Start
    <3>2. /\ req'[s].op = op /\ req'[s].step = FirstStep(op)
          /\ req'[s].work = NoResults /\ req'[s].tally = ZeroTally
      BY <3>1 DEF TypeOK, Idle
    <3>3. FirstStep("run") = "lock"
      BY DEF FirstStep
    <3>. QED BY <1>2, <3>2, <3>3 DEF Running
  <2>3. CASE LockExperiment(s) /\ ~End(s)
    <3>1. req'[s].step = "dataset"
      BY <2>3, StepOfOp DEF LockExperiment, TypeOK, Request
    <3>. QED BY <1>2, <2>3, <3>1, LockProgress
  <2>4. CASE (LoadDataset(s) \/ LoadProject(s) \/ LoadTarget(s) \/ LoadEvaluator(s))
               /\ ~End(s)
    <3>1. req'[s].step # "lock" /\ req'[s].op = req[s].op
      BY <2>4 DEF LoadDataset, LoadProject, LoadTarget, LoadEvaluator, Advance,
                  TypeOK, Request
    <3>2. Running(s)' => req[s].op = "run"
      BY <3>1 DEF Running
    <3>. QED BY <1>2, <2>4, <3>1, <3>2, LoadProgress
  <2>5. CASE ExecuteCase(s)
    <3>1. ASSUME Advance(s, "commit") PROVE req'[s].step = "commit"
      BY <3>1, StepOfOp DEF Advance, TypeOK, Request
    <3>2. ASSUME ~Advance(s, "commit") PROVE req'[s].step = "execute"
      <4> DEFINE x == Execute(req[s].plan.tv, req[s].plan.ev)
      <4>1. PICK c \in Todo(s) :
              req' = [req EXCEPT ![s].work[c] = x, ![s].tally = Count(req[s].tally, x)]
        BY <2>5, <3>2 DEF ExecuteCase
      <4> HIDE DEF x
      <4>2. req'[s].step = req[s].step
        BY <4>1 DEF TypeOK, Request
      <4>. QED BY <2>5, <4>2 DEF ExecuteCase, At
    <3>3. req'[s].step # "lock"
      BY <3>1, <3>2
    <3>. QED BY <1>2, <2>5, <3>3, ExecuteProgress
  <2>6. CASE ReadExperiment(s)
    <3>1. req'[s].step = "results" /\ req'[s].op = "read"
      BY <2>6, StepOfOp DEF ReadExperiment, At, TypeOK, Request
    <3>. QED BY <1>2, <3>1 DEF Running
  <2>7. CASE InsertExperiment(s) \/ CommitRun(s) \/ ListResults(s) \/ Abort(s)
    BY <2>1, <2>7 DEF InsertExperiment, CommitRun, ListResults, Abort
  <2>. QED BY <2>1, <2>2, <2>3, <2>4, <2>5, <2>6, <2>7 DEF Proceed
<1>. QED
  BY <1>1, <1>2
-----------------------------------------------------------------------------
(* Who works on which experiment. *)

\* What the statements of s keep of the experiment they are about.
LEMMA OwnStep ==
  ASSUME IInv, NEW s \in Session, Start(s) \/ Proceed(s) \/ Abort(s)
  PROVE  \/ End(s)
         \/ Start(s)
         \/ LockExperiment(s) /\ ~End(s)
         \/ /\ UNCHANGED <<experiments, results>>
            /\ UNCHANGED lock
            /\ req'[s].op = req[s].op
            /\ req'[s].experiment = req[s].experiment
            /\ req'[s].plan = req[s].plan
            /\ \/ req'[s].seen = req[s].seen
               \/ req'[s].seen = experiments[req[s].experiment].status
            /\ Running(s)' => Running(s)
<1> USE DEF IInv, TypeOK, Request, Running
<1>1. CASE LoadDataset(s) \/ LoadProject(s) \/ LoadTarget(s) \/ LoadEvaluator(s)
  BY <1>1 DEF LoadDataset, LoadProject, LoadTarget, LoadEvaluator, Advance, At
<1>2. CASE ExecuteCase(s)
  <2>1. CASE Advance(s, "commit")
    <3>1. UNCHANGED <<experiments, results>> /\ req[s].step = "execute"
      BY <1>2 DEF ExecuteCase, At
    <3>. QED BY <2>1, <3>1 DEF Advance
  <2>2. CASE ~Advance(s, "commit")
    <3> DEFINE x == Execute(req[s].plan.tv, req[s].plan.ev)
    <3>1. PICK c \in Todo(s) :
            /\ req' = [req EXCEPT ![s].work[c] = x, ![s].tally = Count(req[s].tally, x)]
            /\ UNCHANGED lock
      BY <1>2, <2>2 DEF ExecuteCase
    <3> HIDE DEF x
    <3>2. /\ req'[s].op = req[s].op /\ req'[s].experiment = req[s].experiment
          /\ req'[s].plan = req[s].plan /\ req'[s].seen = req[s].seen
          /\ req'[s].step = req[s].step
      BY <3>1
    <3>3. Running(s)' => Running(s)
      BY <3>2
    <3>4. UNCHANGED <<experiments, results>>
      BY <1>2 DEF ExecuteCase
    <3>. QED BY <3>1, <3>2, <3>3, <3>4
  <2>. QED BY <2>1, <2>2
<1>3. CASE ReadExperiment(s)
  BY <1>3, StepOfOp DEF ReadExperiment, At
<1>4. CASE InsertExperiment(s) \/ CommitRun(s) \/ ListResults(s) \/ Abort(s)
  BY <1>4 DEF InsertExperiment, CommitRun, ListResults, Abort
<1> HIDE DEF IInv, TypeOK, Request, Running
<1>5. CASE LockExperiment(s)
  BY <1>5
<1>. QED
  BY <1>1, <1>2, <1>3, <1>4, <1>5 DEF Proceed

\* The request of t keeps its claim while s takes a step.
LEMMA OtherClaims ==
  ASSUME IInv, NEW s \in Session, Start(s) \/ Proceed(s) \/ Abort(s),
         NEW t \in Session, t # s
  PROVE  LET r == req[t]
             e == req[t].experiment
         IN
         /\ r.op = "create" => experiments'[e].status = "ABSENT"
         /\ r.op \in {"run", "read"} => experiments'[e].status # "ABSENT"
         /\ Running(t) => /\ lock'[e] = t
                          /\ experiments'[e].status = "CREATED"
                          /\ r.plan = experiments'[e].plan
         /\ r.op = "read" /\ r.seen \in Done => experiments'[e].status \in Done
<1> USE DEF IInv
<1> DEFINE e == req[t].experiment
<1>1. req[t].op # "none" => e \in Experiment
  BY DEF Requests, RequestOK
<1>2. Running(t) => lock'[e] = t
  <2>1. Running(t) => lock[e] = t /\ e \in Experiment
    BY <1>1 DEF Claims, Running
  <2>2. t # None
    BY NoneAssumption
  <2>. QED BY <2>1, <2>2, LockStep
<1>3. CASE experiments'[e] = experiments[e]
  BY <1>2, <1>3 DEF Claims
<1>4. CASE req[t].op = "none"
  BY <1>4 DEF Running
<1>5. CASE UNCHANGED <<experiments, results>>
  BY <1>3, <1>5
<1>6. CASE InsertExperiment(s) /\ req[t].op # "none"
  <2>1. req[s].op = "create" /\ req[s].experiment # e
    BY <1>6, Inserted DEF Claims
  <2>2. experiments'[e] = experiments[e]
    BY <1>1, <1>6, <2>1, Inserted DEF TypeOK
  <2>. QED BY <1>3, <2>2
<1>7. CASE CommitRun(s) /\ req[t].op # "none"
  <2>1. CASE req[s].experiment # e
    <3>1. experiments'[e] = experiments[e]
      BY <1>1, <1>7, <2>1, Committed DEF TypeOK
    <3>. QED BY <1>3, <3>1
  <2>2. CASE req[s].experiment = e
    <3>1. /\ Running(s) /\ experiments[e].status = "CREATED" /\ lock[e] = s
      BY <1>7, <2>2, Committed DEF Claims
    <3>2. experiments'[e].status \in Done
      BY <1>7, <2>2, Committed DEF TypeOK
    <3>3. ~Running(t) /\ req[t].op # "create"
      BY <3>1 DEF Claims
    <3>. QED BY <3>2, <3>3 DEF Done
  <2>. QED BY <2>1, <2>2
<1>. QED
  BY <1>4, <1>5, <1>6, <1>7, TableStep

LEMMA ClaimsStep ==
  ASSUME IInv, NEW s \in Session, Start(s) \/ Proceed(s) \/ Abort(s)
  PROVE  Claims'
<1> USE DEF IInv
<1> DEFINE Fine(t) ==
      LET r == req'[t]
          e == req'[t].experiment
      IN
      /\ r.op = "create" => /\ experiments'[e].status = "ABSENT"
                            /\ \A u \in Session \ {t} : req'[u].experiment # e
      /\ r.op \in {"run", "read"} => experiments'[e].status # "ABSENT"
      /\ Running(t)' => /\ lock'[e] = t
                        /\ experiments'[e].status = "CREATED"
                        /\ r.plan = experiments'[e].plan
      /\ r.op = "read" /\ r.seen \in Done => experiments'[e].status \in Done
<1> SUFFICES ASSUME NEW t \in Session PROVE Fine(t)
  BY DEF Claims
\* The experiment of s after the step is its own, none or one it may take.
<1>1. \/ req'[s].experiment = None
      \/ req'[s].experiment = req[s].experiment
      \/ Start(s) /\ (Fresh(req'[s].experiment) \/ experiments[req'[s].experiment].status # "ABSENT")
  <2>1. CASE Start(s)
    BY <2>1 DEF Start, TypeOK, Idle
  <2>2. CASE End(s)
    BY <2>2, EndIdle DEF Idle
  <2>3. CASE LockExperiment(s) /\ ~End(s)
    BY <2>3 DEF LockExperiment, TypeOK, Request
  <2>. QED BY <2>1, <2>2, <2>3, OwnStep
<1>2. CASE t # s
  <2>1. req'[t] = req[t] /\ (Running(t)' <=> Running(t))
    BY <1>2, Frame DEF Running
  <2>2. ASSUME req[t].op = "create", NEW u \in Session \ {t}
        PROVE  req'[u].experiment # req[t].experiment
    <3>1. req[u].experiment # req[t].experiment /\ experiments[req[t].experiment].status = "ABSENT"
      BY <2>2 DEF Claims
    <3>2. CASE u # s
      BY <3>1, <3>2, Frame
    <3>3. CASE u = s
      <4>1. req[t].experiment # None
        BY <2>2, NoneAssumption DEF Requests, RequestOK
      <4>. QED BY <1>1, <1>2, <3>1, <3>3, <4>1 DEF Fresh
    <3>. QED BY <3>2, <3>3
  <2>. QED BY <1>2, <2>1, <2>2, OtherClaims
<1>3. CASE t = s
  <2>1. CASE End(s)
    BY <1>3, <2>1, EndIdle DEF Idle, Running
  <2>2. CASE Start(s)
    <3>1. PICK op \in Op, e \in Experiment, p \in Plan \cup {None} :
            /\ IF op = "create" THEN Fresh(e) /\ p # None
                                ELSE experiments[e].status # "ABSENT" /\ p = None
            /\ req' = [req EXCEPT ![s] = [Idle EXCEPT !.op = op, !.experiment = e,
                                            !.plan = p, !.step = FirstStep(op)]]
      BY <2>2 DEF Start
    <3>2. /\ req'[s].op = op /\ req'[s].step = FirstStep(op)
          /\ req'[s].experiment = e /\ req'[s].seen = "ABSENT"
      BY <3>1 DEF TypeOK, Idle
    <3>3. FirstStep("run") = "lock" /\ UNCHANGED experiments
      BY <2>2 DEF FirstStep, Start
    <3>4. op = "create" => \A u \in Session \ {s} : req'[u].experiment # e
      BY <3>1, Frame DEF Fresh
    <3>. QED BY <1>3, <3>1, <3>2, <3>3, <3>4 DEF Running, Done, Fresh
  <2>3. CASE LockExperiment(s) /\ ~End(s)
    <3> DEFINE e == req[s].experiment
    <3>1. /\ e \in Experiment /\ req[s].op = "run" /\ req[s] \in Request
          /\ experiments[e].status = "CREATED"
          /\ req'[s] = [req[s] EXCEPT !.plan = experiments[e].plan, !.step = "dataset"]
          /\ lock' = [lock EXCEPT ![e] = s]
          /\ UNCHANGED experiments
      BY <2>3, StepOfOp DEF LockExperiment, At, TypeOK
    <3>2. /\ req'[s].op = "run" /\ req'[s].experiment = e
          /\ req'[s].plan = experiments[e].plan
          /\ lock'[e] = s
      BY <3>1 DEF Request, TypeOK
    <3>. QED BY <1>3, <3>1, <3>2
  <2>4. CASE /\ UNCHANGED <<experiments, results>>
             /\ UNCHANGED lock
             /\ req'[s].op = req[s].op
             /\ req'[s].experiment = req[s].experiment
             /\ req'[s].plan = req[s].plan
             /\ \/ req'[s].seen = req[s].seen
                \/ req'[s].seen = experiments[req[s].experiment].status
             /\ Running(s)' => Running(s)
    <3>1. \A u \in Session \ {s} : req'[u] = req[u]
      BY Frame
    <3>. QED BY <1>3, <2>4, <3>1 DEF Claims
  <2>. QED BY <2>1, <2>2, <2>3, <2>4, OwnStep
<1>. QED
  BY <1>2, <1>3
-----------------------------------------------------------------------------
(* The invariant. *)

LEMMA InvInit == Init => IInv
<1> SUFFICES ASSUME Init PROVE IInv
  OBVIOUS
<1>1. \A s \in Session : req[s] = Idle
  BY DEF Init
<1>2. /\ Idle.op = "none" /\ Idle.step = "idle"
  BY DEF Idle
<1>3. NoRow \in Row /\ NoResults \in ResultSet
  BY DEF NoRow, Row, Status, Tally, ZeroTally, NoResults, ResultSet
<1>4. TypeOK
  BY <1>3, IdleOK DEF Init, TypeOK, RequestOK
<1>5. Requests
  BY <1>1, IdleOK DEF Requests
<1>6. Work /\ Claims
  BY <1>1, <1>2 DEF Work, Claims, Running
<1>7. Rows
  BY DEF Init, Rows, Stored, NoRow, Done
<1>. QED
  BY <1>4, <1>5, <1>6, <1>7 DEF IInv

LEMMA DeactivateStep ==
  ASSUME IInv, NEW r \in Resource, Deactivate(r) PROVE IInv'
<1>1. TypeOK'
  BY DEF IInv, TypeOK, Deactivate
<1>2. Requests' /\ Work' /\ Claims' /\ Rows'
  BY DEF IInv, Deactivate, Requests, Work, Claims, Rows, Running
<1>. QED
  BY <1>1, <1>2 DEF IInv

LEMMA InvStep == IInv /\ [Next]_vars => IInv'
<1>1. ASSUME IInv, NEW s \in Session, Start(s) \/ Proceed(s) \/ Abort(s)
      PROVE  IInv'
  BY <1>1, StepType, WorkStep, ClaimsStep, RowsStep DEF IInv
<1>2. ASSUME IInv, UNCHANGED vars PROVE IInv'
  BY <1>2 DEF IInv, vars, TypeOK, Requests, Work, Claims, Rows, Running
<1>. QED
  BY <1>1, <1>2, DeactivateStep DEF Next

LEMMA Invariance == Spec => []IInv
<1>. QED
  BY InvInit, InvStep, PTL DEF Spec, Safe
-----------------------------------------------------------------------------
(* What follows from it. *)

\* The tables, the locks and every request always have their types.
THEOREM TypeCorrect == Spec => []TypeOK
<1>1. IInv => TypeOK
  BY DEF IInv
<1>. QED
  BY <1>1, Invariance, PTL

\* Nobody else runs an experiment that is being run, and it has no results.
THEOREM OneRunAtATime == Spec => []RunsAreExclusive
<1>1. IInv => RunsAreExclusive
  <2> SUFFICES ASSUME IInv, NEW s \in Session, Running(s)
               PROVE  LET e == req[s].experiment IN
                      /\ experiments[e].status = "CREATED"
                      /\ results[e] = NoResults
                      /\ \A t \in Session \ {s} : Running(t) => req[t].experiment # e
    BY DEF RunsAreExclusive
  <2>1. req[s].experiment \in Experiment
    BY DEF IInv, Requests, RequestOK, Running
  <2>2. experiments[req[s].experiment].status = "CREATED" /\ lock[req[s].experiment] = s
    BY DEF IInv, Claims
  <2>3. results[req[s].experiment] = NoResults
    BY <2>1, <2>2 DEF IInv, Rows, Stored, Done
  <2>4. \A t \in Session \ {s} : Running(t) => lock[req[t].experiment] = t
    BY DEF IInv, Claims
  <2>. QED BY <2>2, <2>3, <2>4
<1>. QED
  BY <1>1, Invariance, PTL

\* The results of an experiment that was run are those of its plan.
LEMMA DoneWith ==
  ASSUME IInv, NEW e \in Experiment, experiments[e].status \in Done, NEW v
  PROVE  LET p == experiments[e].plan IN
         With(e, v) = IF Execute(p.tv, p.ev).status = v THEN CasesOf[p.dv] ELSE {}
<1> DEFINE p == experiments[e].plan
           x == Execute(p.tv, p.ev)
<1>1. p \in Plan /\ results[e] = ExpectedOutcome(p).results
  BY DEF IInv, Rows, Stored, Done, ViablePlan
<1>2. \A c \in Case : results[e][c] = IF c \in CasesOf[p.dv] THEN x ELSE None
  BY <1>1 DEF ExpectedOutcome
<1>3. x # None /\ CasesOf[p.dv] \in SUBSET Case
  BY <1>1, ExecuteType, CasesAssumption DEF Plan
<1> HIDE DEF x
<1>4. With(e, v) = {c \in CasesOf[p.dv] : x.status = v}
  BY <1>2, <1>3 DEF With
<1>. QED
  BY <1>4 DEF x

\* The counters, the status and the error code of an experiment describe its
\* results, and they count every case of its dataset version.
THEOREM CountersAreRight == Spec => []OutcomeMatchesResults
<1>1. ASSUME IInv, NEW e \in Experiment, experiments[e].status \in Done
      PROVE  LET row == experiments[e] IN
             /\ row.tally.pass = Cardinality(With(e, "PASS"))
             /\ row.tally.fail = Cardinality(With(e, "FAIL"))
             /\ row.tally.error = Cardinality(With(e, "ERROR"))
             /\ row.tally.pass + row.tally.fail + row.tally.error = row.total
             /\ row.status = "FAILED" <=> With(e, "ERROR") # {}
             /\ row.tally.code # None <=> row.status = "FAILED"
  <2> DEFINE p == experiments[e].plan
             x == Execute(p.tv, p.ev)
             d == CasesOf[p.dv]
  <2>1. /\ p \in Plan /\ d # {}
        /\ experiments[e].total = Cardinality(d)
        /\ experiments[e].tally = TallyOf(x, d)
        /\ experiments[e].status = ExpectedOutcome(p).status
    BY <1>1 DEF IInv, Rows, Stored, Done, ViablePlan
  <2>2. /\ x \in Result /\ d \in SUBSET Case
        /\ x.code = None <=> x.status # "ERROR"
    BY <2>1, ExecuteType, CasesAssumption DEF Plan
  <2>3. \A v : With(e, v) = IF x.status = v THEN d ELSE {}
    BY <1>1, DoneWith
  <2>4. experiments[e].status = IF x.status = "ERROR" THEN "FAILED" ELSE "COMPLETED"
    BY <2>1 DEF ExpectedOutcome
  <2>5. Cardinality(d) \in Nat /\ Cardinality({}) = 0
    BY <2>2, CasesFinite, FS_EmptySet
  <2>6. x.status \in {"PASS", "FAIL", "ERROR"}
    BY <2>2 DEF Result, Verdict
  <2> DEFINE t == experiments[e].tally
             n == Cardinality(d)
  <2>7. /\ t.pass = IF x.status = "PASS" THEN n ELSE 0
        /\ t.fail = IF x.status = "FAIL" THEN n ELSE 0
        /\ t.error = IF x.status = "ERROR" THEN n ELSE 0
        /\ t.code = x.code
    <3> HIDE DEF x, d
    <3>. QED BY <2>1 DEF TallyOf
  <2>8. /\ With(e, "PASS") = IF x.status = "PASS" THEN d ELSE {}
        /\ With(e, "FAIL") = IF x.status = "FAIL" THEN d ELSE {}
        /\ With(e, "ERROR") = IF x.status = "ERROR" THEN d ELSE {}
    BY <2>3
  <2>9. d # {} /\ n \in Nat /\ experiments[e].total = n
    BY <2>1, <2>5
  <2> HIDE DEF x, d, n, t
  <2>10. /\ t.pass = Cardinality(With(e, "PASS"))
         /\ t.fail = Cardinality(With(e, "FAIL"))
         /\ t.error = Cardinality(With(e, "ERROR"))
    BY <2>5, <2>6, <2>7, <2>8 DEF n
  <2>11. t.pass + t.fail + t.error = experiments[e].total
    BY <2>6, <2>7, <2>9
  <2>12. experiments[e].status = "FAILED" <=> With(e, "ERROR") # {}
    BY <2>4, <2>8, <2>9
  <2>13. t.code # None <=> experiments[e].status = "FAILED"
    BY <2>2, <2>4, <2>7
  <2>. QED BY <2>10, <2>11, <2>12, <2>13 DEF t
<1>2. ASSUME IInv, NEW e \in Experiment, experiments[e].status \notin Done
      PROVE  /\ \A v : With(e, v) = {}
             /\ experiments[e].tally = ZeroTally
             /\ experiments[e].status # "FAILED"
  <2>1. results[e] = NoResults /\ Stored(experiments[e], results[e])
    BY <1>2 DEF IInv, Rows, Stored
  <2>2. experiments[e].status \in {"ABSENT", "CREATED"}
    BY <1>2 DEF IInv, TypeOK, Row, Status, Done
  <2>3. experiments[e].tally = ZeroTally
    <3>1. CASE experiments[e].status = "ABSENT"
      <4>1. experiments[e] = NoRow
        BY <2>1, <3>1 DEF Stored
      <4>. QED BY <4>1 DEF NoRow
    <3>2. CASE experiments[e].status = "CREATED"
      BY <2>1, <3>2 DEF Stored
    <3>. QED BY <2>2, <3>1, <3>2
  <2>4. \A v : With(e, v) = {}
    BY <2>1 DEF With, NoResults
  <2>. QED BY <2>2, <2>3, <2>4
<1>3. IInv => OutcomeMatchesResults
  <2> SUFFICES ASSUME IInv, NEW e \in Experiment
               PROVE  LET row == experiments[e] IN
                      /\ row.tally.pass = Cardinality(With(e, "PASS"))
                      /\ row.tally.fail = Cardinality(With(e, "FAIL"))
                      /\ row.tally.error = Cardinality(With(e, "ERROR"))
                      /\ row.status \in Done =>
                           /\ row.tally.pass + row.tally.fail + row.tally.error = row.total
                           /\ row.status = "FAILED" <=> With(e, "ERROR") # {}
                      /\ row.tally.code # None <=> row.status = "FAILED"
    BY DEF OutcomeMatchesResults
  <2>1. CASE experiments[e].status \in Done
    BY <1>1, <2>1
  <2>2. CASE experiments[e].status \notin Done
    <3>1. With(e, "PASS") = {} /\ With(e, "FAIL") = {} /\ With(e, "ERROR") = {}
      BY <1>2, <2>2
    <3>2. experiments[e].tally = ZeroTally /\ experiments[e].status # "FAILED"
      BY <1>2, <2>2
    <3>3. Cardinality({}) = 0
      BY FS_EmptySet
    <3>. QED BY <2>2, <3>1, <3>2, <3>3 DEF ZeroTally
  <2>. QED BY <2>1, <2>2
<1>. QED
  BY <1>3, Invariance, PTL

\* Whoever has read that a run has ended finds all its results.
THEOREM ReadersSeeWholeRuns == Spec => []ReaderSeesWholeRun
<1>1. IInv => ReaderSeesWholeRun
  <2> SUFFICES ASSUME IInv, NEW s \in Session, At(s, "results"), req[s].seen \in Done
               PROVE  LET e == req[s].experiment
                      IN  {c \in Case : results[e][c] # None}
                            = CasesOf[experiments[e].plan.dv]
    BY DEF ReaderSeesWholeRun
  <2> DEFINE e == req[s].experiment
             p == experiments[e].plan
  <2>1. e \in Experiment /\ experiments[e].status \in Done
    BY StepOfOp DEF IInv, Claims, At
  <2>2. p \in Plan /\ results[e] = ExpectedOutcome(p).results
    BY <2>1 DEF IInv, Rows, Stored, Done, ViablePlan
  <2>3. \A c \in Case : results[e][c] =
          IF c \in CasesOf[p.dv] THEN Execute(p.tv, p.ev) ELSE None
    BY <2>2 DEF ExpectedOutcome
  <2>4. Execute(p.tv, p.ev) # None /\ CasesOf[p.dv] \in SUBSET Case
    BY <2>2, ExecuteType, CasesAssumption DEF Plan
  <2>. QED BY <2>3, <2>4
<1>. QED
  BY <1>1, Invariance, PTL

\* The experiments implement the ledger: a create plans an experiment, a commit
\* carries it out with the outcome of its plan, no other step shows.
THEOREM ExperimentsAreLedger == Spec => IsLedger
<1> DEFINE Entries == [e \in Experiment |-> Entry(e)]
           Outcomes == [p \in ViablePlan |-> ExpectedOutcome(p)]
<1>1. Init => Ledger!Init
  <2> SUFFICES ASSUME Init PROVE \A e \in Experiment : Entry(e) = Ledger!Unplanned
    BY DEF Ledger!Init
  <2>1. \A e \in Experiment : experiments[e] = NoRow
    BY DEF Init
  <2>. QED BY <2>1 DEF Entry, NoRow, Done, Ledger!Unplanned
<1>2. ASSUME IInv, NEW s \in Session, InsertExperiment(s), experiments' # experiments
      PROVE  Ledger!Next
  <2>1. PICK e \in Experiment, p \in ViablePlan :
           /\ experiments[e] = NoRow
           /\ results' = results
           /\ experiments' = [experiments EXCEPT ![e] =
                [status |-> "CREATED", plan |-> p,
                 total |-> Cardinality(CasesOf[p.dv]), tally |-> ZeroTally]]
    BY <1>2, Inserted
  <2> DEFINE row == [status |-> "CREATED", plan |-> p,
                     total |-> Cardinality(CasesOf[p.dv]), tally |-> ZeroTally]
             new == [state |-> "created", plan |-> p, outcome |-> None]
  <2>2. row.status = "CREATED" /\ row.plan = p
    OBVIOUS
  <2>3. /\ experiments'[e] = row
        /\ \A f \in Experiment \ {e} : experiments'[f] = experiments[f]
    BY <1>2, <2>1 DEF IInv, TypeOK
  <2> HIDE DEF row
  <2>4. Entry(e)' = new /\ Entry(e).state = "absent"
    BY <2>1, <2>2, <2>3 DEF Entry, Done, NoRow
  <2>5. \A f \in Experiment \ {e} : Entry(f)' = Entry(f)
    BY <2>1, <2>3 DEF Entry
  <2>6. Entries' = [Entries EXCEPT ![e] = new] /\ Entries[e].state = "absent"
    BY <2>1, <2>4, <2>5
  <2> HIDE DEF Entries
  <2>. QED BY <2>1, <2>6 DEF Ledger!Next, Ledger!Create, Entries
<1>3. ASSUME IInv, NEW s \in Session, CommitRun(s)
      PROVE  Ledger!Next
  <2>1. PICK e \in Experiment, p \in ViablePlan, row \in Row :
           /\ experiments[e].plan = p /\ experiments[e].status = "CREATED"
           /\ experiments' = [experiments EXCEPT ![e] = row]
           /\ results' = [results EXCEPT ![e] = ExpectedOutcome(p).results]
           /\ row.status = ExpectedOutcome(p).status /\ row.status \in Done
           /\ row.plan = p /\ row.tally.code = ExpectedOutcome(p).code
    <3> DEFINE e == req[s].experiment
               p == experiments[e].plan
               o == ExpectedOutcome(p)
               row == [experiments[e] EXCEPT !.status = o.status, !.tally = req[s].tally]
    <3>1. /\ e \in Experiment /\ p \in ViablePlan
          /\ experiments[e].status = "CREATED"
          /\ experiments' = [experiments EXCEPT ![e] = row]
          /\ results' = [results EXCEPT ![e] = o.results]
          /\ row \in Row /\ row.status \in Done
          /\ req[s].tally.code = o.code
      BY <1>3, Committed
    <3>2. experiments[e] \in Row
      BY <1>3, <3>1 DEF IInv, TypeOK
    <3>3. row.status = o.status /\ row.plan = p /\ row.tally = req[s].tally
      <4> HIDE DEF o, e
      <4>. QED BY <3>2 DEF Row
    <3> HIDE DEF row, p, e
    <3>. QED BY <3>1, <3>3 DEF p
  <2> DEFINE o == ExpectedOutcome(p)
             new == [state |-> "done", plan |-> p, outcome |-> o]
  <2>4. o = [status |-> o.status, code |-> o.code, results |-> o.results]
    BY DEF ExpectedOutcome
  <2>5. /\ experiments'[e] = row /\ results'[e] = o.results
        /\ \A f \in Experiment \ {e} :
             experiments'[f] = experiments[f] /\ results'[f] = results[f]
    BY <1>3, <2>1 DEF IInv, TypeOK
  <2> HIDE DEF o
  <2>6. Entry(e)' = new
    <3>1. row.status # "ABSENT" /\ row.status # "CREATED"
      BY <2>1 DEF Done
    <3>2. Entry(e)' = [state |-> "done", plan |-> row.plan,
                       outcome |-> [status |-> row.status, code |-> row.tally.code,
                                    results |-> o.results]]
      BY <2>1, <2>5, <3>1 DEF Entry
    <3>3. row.status = o.status /\ row.tally.code = o.code /\ row.plan = p
      BY <2>1 DEF o
    <3>. QED BY <2>4, <3>2, <3>3
  <2>7. Entry(e).state = "created" /\ Entry(e).plan = p
    BY <2>1 DEF Entry
  <2>8. \A f \in Experiment \ {e} : Entry(f)' = Entry(f)
    BY <2>5 DEF Entry
  <2>9. /\ Entries' = [Entries EXCEPT ![e] = new]
        /\ Entries[e].state = "created" /\ Entries[e].plan = p
        /\ Outcomes[p] = o
    BY <2>1, <2>6, <2>7, <2>8 DEF o
  <2> HIDE DEF Entries, Outcomes
  <2>10. Entries' = [Entries EXCEPT ![e] =
           [state |-> "done", plan |-> Entries[e].plan,
            outcome |-> Outcomes[Entries[e].plan]]]
    BY <2>9
  <2>. QED BY <2>1, <2>9, <2>10 DEF Ledger!Next, Ledger!CarryOut, Entries, Outcomes
<1>4. IInv /\ [Next]_vars => [Ledger!Next]_Entries
  <2>1. UNCHANGED <<experiments, results>> => UNCHANGED Entries
    BY DEF Entry
  <2>2. ASSUME IInv, NEW s \in Session, Start(s) \/ Proceed(s) \/ Abort(s)
        PROVE  [Ledger!Next]_Entries
    <3>1. CASE UNCHANGED <<experiments, results>>
      BY <2>1, <3>1
    <3>2. CASE InsertExperiment(s) /\ ~UNCHANGED <<experiments, results>>
      BY <1>2, <2>2, <3>2, Inserted
    <3>3. CASE CommitRun(s)
      BY <1>3, <2>2, <3>3
    <3>. QED BY <2>2, <3>1, <3>2, <3>3, TableStep
  <2>3. ASSUME NEW r \in Resource, Deactivate(r) PROVE UNCHANGED Entries
    BY <2>1, <2>3 DEF Deactivate
  <2>4. UNCHANGED vars => UNCHANGED Entries
    BY <2>1 DEF vars
  <2> HIDE DEF Entries
  <2>. QED BY <2>2, <2>3, <2>4 DEF Next
<1>. QED
  BY <1>1, <1>4, Invariance, PTL DEF Spec, Safe, IsLedger, Ledger!Spec
=============================================================================
