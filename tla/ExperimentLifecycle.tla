------------------------ MODULE ExperimentLifecycle ------------------------
(***************************************************************************)
(* The experiments of one project: create_experiment, run_experiment and a *)
(* client that reads an experiment and then its results, while the         *)
(* project and the originals of the versions are being deactivated.        *)
(*                                                                         *)
(* As in DatasetLifecycle, a session is one request and every statement    *)
(* is a step.  A run is one transaction: what it flushes (status RUNNING,  *)
(* the counters, the results) is seen by nobody before its commit, so it   *)
(* is kept in the request and copied to the tables by the commit.          *)
(***************************************************************************)
EXTENDS CaseExecution, Naturals, FiniteSets

CONSTANTS Session,
          Experiment,       \* primary keys, drawn by uuid4
          DatasetVersion,
          Case,
          CasesOf           \* the dataset_version_cases of a dataset version

ASSUME CasesAssumption == /\ IsFiniteSet(Case)
                          /\ CasesOf \in [DatasetVersion -> SUBSET Case]
ASSUME NoneAssumption ==
  None \notin Result \cup ErrorCode \cup Session \cup Experiment
                \cup DatasetVersion \cup TargetVersion \cup EvaluatorVersion

Resource == {"project", "dataset", "target", "evaluator"}

VARIABLES active,       \* is_active of the project and of the three originals
          experiments,  \* the table experiments
          results,      \* evaluation_results, by experiment and case
          lock,         \* per experiment: the session that holds it FOR UPDATE
          req

vars == <<active, experiments, results, lock, req>>
-----------------------------------------------------------------------------
(* Rows and requests. *)

Plan == [dv : DatasetVersion, tv : TargetVersion, ev : EvaluatorVersion]

Status == {"ABSENT", "CREATED", "COMPLETED", "FAILED"}
Done == {"COMPLETED", "FAILED"}

\* What a run has counted: the columns it sets on the experiment.
Tally == [pass : Nat, fail : Nat, error : Nat, code : ErrorCode \cup {None}]
ZeroTally == [pass |-> 0, fail |-> 0, error |-> 0, code |-> None]

Row == [status : Status, plan : Plan \cup {None}, total : Nat, tally : Tally]
NoRow == [status |-> "ABSENT", plan |-> None, total |-> 0, tally |-> ZeroTally]

ResultSet == [Case -> Result \cup {None}]
NoResults == [c \in Case |-> None]

Op == {"create", "run", "read"}
FirstStep(op) ==
  CASE op = "create" -> "dataset"
    [] op = "run" -> "lock"
    [] op = "read" -> "detail"

Step == {"idle", "lock", "dataset", "project", "target", "evaluator",
         "insert", "execute", "commit", "detail", "results"}

\* plan is the payload of a create, and the experiment's own in a run; seen
\* is the status a reader has been told; work is what a run has flushed.
Request == [op : Op \cup {"none"}, step : Step,
            experiment : Experiment \cup {None}, plan : Plan \cup {None},
            active : BOOLEAN, seen : Status, tally : Tally, work : ResultSet]

Idle == [op |-> "none", step |-> "idle", experiment |-> None, plan |-> None,
         active |-> FALSE, seen |-> "ABSENT", tally |-> ZeroTally,
         work |-> NoResults]

Init ==
  /\ active = [r \in Resource |-> TRUE]
  /\ experiments = [e \in Experiment |-> NoRow]
  /\ results = [e \in Experiment |-> NoResults]
  /\ lock = [e \in Experiment |-> None]
  /\ req = [s \in Session |-> Idle]

At(s, step) == req[s].step = step

\* Mutant: a path that neither commits nor closes the session.
End_KeepsLock(s) == req' = [req EXCEPT ![s] = Idle] /\ UNCHANGED lock

\* The answer is sent and the session closed: its locks go.
End(s) ==
  /\ req' = [req EXCEPT ![s] = Idle]
  /\ lock' = [e \in Experiment |-> IF lock[e] = s THEN None ELSE lock[e]]

Advance(s, step) == req' = [req EXCEPT ![s].step = step] /\ UNCHANGED lock
-----------------------------------------------------------------------------
\* uuid4: no experiment and no other request has this key.
Fresh(e) == /\ experiments[e].status = "ABSENT"
            /\ \A s \in Session : req[s].experiment # e

\* A request arrives.  The three versions of a create exist and stay as they
\* are, so the statements that read them are left out.
Start(s) ==
  /\ At(s, "idle")
  /\ \E op \in Op, e \in Experiment, p \in Plan \cup {None} :
       /\ IF op = "create" THEN Fresh(e) /\ p # None
                           ELSE experiments[e].status # "ABSENT" /\ p = None
       /\ req' = [req EXCEPT ![s] = [Idle EXCEPT !.op = op, !.experiment = e,
                                       !.plan = p, !.step = FirstStep(op)]]
  /\ UNCHANGED <<active, experiments, results, lock>>

\* Mutant: a plain SELECT, without FOR UPDATE.
LockExperiment_PlainSelect(s) ==
  LET e == req[s].experiment IN
  /\ At(s, "lock")
  /\ IF experiments[e].status # "CREATED"
       THEN End(s)
       ELSE /\ req' = [req EXCEPT ![s].plan = experiments[e].plan,
                                  ![s].step = "dataset"]
            /\ UNCHANGED lock
  /\ UNCHANGED <<active, experiments, results>>

\* The first statement of a run: SELECT ... FOR UPDATE waits for the row and
\* returns it as the last holder left it.
LockExperiment(s) ==
  LET e == req[s].experiment IN
  /\ At(s, "lock")
  /\ lock[e] = None
  /\ IF experiments[e].status # "CREATED"
       THEN End(s)
       ELSE /\ lock' = [lock EXCEPT ![e] = s]
            /\ req' = [req EXCEPT ![s].plan = experiments[e].plan,
                                  ![s].step = "dataset"]
  /\ UNCHANGED <<active, experiments, results>>

(* Create and run check the originals alike, each read as it is by then. *)

LoadDataset(s) ==
  /\ At(s, "dataset")
  /\ req' = [req EXCEPT ![s].active = active["dataset"], ![s].step = "project"]
  /\ UNCHANGED <<active, experiments, results, lock>>

LoadProject(s) ==
  /\ At(s, "project")
  /\ IF active["project"] /\ req[s].active THEN Advance(s, "target") ELSE End(s)
  /\ UNCHANGED <<active, experiments, results>>

LoadTarget(s) ==
  /\ At(s, "target")
  /\ IF active["target"] THEN Advance(s, "evaluator") ELSE End(s)
  /\ UNCHANGED <<active, experiments, results>>

LoadEvaluator(s) ==
  /\ At(s, "evaluator")
  /\ IF active["evaluator"]
       THEN Advance(s, IF req[s].op = "create" THEN "insert" ELSE "execute")
       ELSE End(s)
  /\ UNCHANGED <<active, experiments, results>>

InsertExperiment(s) ==
  LET cases == CasesOf[req[s].plan.dv] IN
  /\ At(s, "insert")
  /\ experiments' =
       IF cases = {}
         THEN experiments
         ELSE [experiments EXCEPT ![req[s].experiment] =
                 [status |-> "CREATED", plan |-> req[s].plan,
                  total |-> Cardinality(cases), tally |-> ZeroTally]]
  /\ End(s)
  /\ UNCHANGED <<active, results>>
-----------------------------------------------------------------------------
(* The loop of run_experiment over the cases, and its end. *)

Todo(s) == {c \in CasesOf[req[s].plan.dv] : req[s].work[c] = None}

\* Mutants: an error is not counted; its status is stored as its code.
Count_ErrorSkipped(tally, result) ==
  CASE result.status = "PASS" -> [tally EXCEPT !.pass = @ + 1]
    [] result.status = "FAIL" -> [tally EXCEPT !.fail = @ + 1]
    [] result.status = "ERROR" ->
         [tally EXCEPT !.code = IF @ = None THEN result.code ELSE @]

Count_StatusAsCode(tally, result) ==
  CASE result.status = "PASS" -> [tally EXCEPT !.pass = @ + 1]
    [] result.status = "FAIL" -> [tally EXCEPT !.fail = @ + 1]
    [] result.status = "ERROR" ->
         [tally EXCEPT !.error = @ + 1, !.code = result.status]

\* One verdict counted; the first error gives the experiment its error code.
Count(tally, result) ==
  CASE result.status = "PASS" -> [tally EXCEPT !.pass = @ + 1]
    [] result.status = "FAIL" -> [tally EXCEPT !.fail = @ + 1]
    [] result.status = "ERROR" ->
         [tally EXCEPT !.error = @ + 1,
                       !.code = IF @ = None THEN result.code ELSE @]

\* Mutant: the status is committed before the results.
ExecuteCase_StatusFirst(s) ==
  /\ At(s, "execute")
  /\ IF Todo(s) = {}
       THEN /\ Advance(s, "commit")
            /\ experiments' = [experiments EXCEPT
                 ![req[s].experiment].status =
                    IF req[s].tally.code = None THEN "COMPLETED" ELSE "FAILED",
                 ![req[s].experiment].tally = req[s].tally]
       ELSE /\ \E c \in Todo(s) :
                 LET result == Execute(req[s].plan.tv, req[s].plan.ev) IN
                 /\ req' = [req EXCEPT ![s].work[c] = result,
                                       ![s].tally = Count(req[s].tally, result)]
                 /\ UNCHANGED lock
            /\ UNCHANGED experiments
  /\ UNCHANGED <<active, results>>

\* The cases are taken in the order of their keys, here in any order: what is
\* told of a run does not depend on it.
ExecuteCase(s) ==
  /\ At(s, "execute")
  /\ IF Todo(s) = {}
       THEN Advance(s, "commit")
       ELSE \E c \in Todo(s) :
              LET result == Execute(req[s].plan.tv, req[s].plan.ev) IN
              /\ req' = [req EXCEPT ![s].work[c] = result,
                                    ![s].tally = Count(req[s].tally, result)]
              /\ UNCHANGED lock
  /\ UNCHANGED <<active, experiments, results>>

\* The unique constraint (experiment, case): the flush fails, all is undone.
ResultConflict(s) ==
  \E c \in Case : req[s].work[c] # None /\ results[req[s].experiment][c] # None

\* Mutant: a case that ended in ERROR leaves no result.
CommitRun_ErrorsNotStored(s) ==
  LET e == req[s].experiment
      t == req[s].tally
  IN
  /\ At(s, "commit")
  /\ experiments' =
       [experiments EXCEPT
          ![e].status = IF t.code = None THEN "COMPLETED" ELSE "FAILED",
          ![e].tally = t]
  /\ results' = [results EXCEPT ![e] =
       [c \in Case |-> IF req[s].work[c] # None /\ req[s].work[c].status # "ERROR"
                         THEN req[s].work[c] ELSE @[c]]]
  /\ End(s)
  /\ UNCHANGED active

CommitRun(s) ==
  LET e == req[s].experiment
      t == req[s].tally
  IN
  /\ At(s, "commit")
  /\ IF ResultConflict(s)
       THEN UNCHANGED <<experiments, results>>
       ELSE /\ experiments' =
                 [experiments EXCEPT
                    ![e].status = IF t.code = None THEN "COMPLETED" ELSE "FAILED",
                    ![e].tally = t]
            /\ results' = [results EXCEPT ![e] =
                 [c \in Case |-> IF req[s].work[c] # None
                                   THEN req[s].work[c] ELSE @[c]]]
  /\ End(s)
  /\ UNCHANGED active
-----------------------------------------------------------------------------
(* A client reads the experiment and then, in a second request, its results. *)

ReadExperiment(s) ==
  /\ At(s, "detail")
  /\ req' = [req EXCEPT ![s].seen = experiments[req[s].experiment].status,
                        ![s].step = "results"]
  /\ UNCHANGED <<active, experiments, results, lock>>

ListResults(s) ==
  /\ At(s, "results")
  /\ End(s)
  /\ UNCHANGED <<active, experiments, results>>

\* The commit of an update with is_active = False, by a request of the
\* service of that resource; none of them can be made active again.
Deactivate(r) ==
  /\ active[r]
  /\ active' = [active EXCEPT ![r] = FALSE]
  /\ UNCHANGED <<experiments, results, lock, req>>

\* The session is closed without commit.
Abort(s) ==
  /\ ~At(s, "idle")
  /\ End(s)
  /\ UNCHANGED <<active, experiments, results>>

Proceed(s) ==
  \/ LockExperiment(s) \/ LoadDataset(s) \/ LoadProject(s) \/ LoadTarget(s)
  \/ LoadEvaluator(s) \/ InsertExperiment(s) \/ ExecuteCase(s) \/ CommitRun(s)
  \/ ReadExperiment(s) \/ ListResults(s)

Next == \/ \E s \in Session : Start(s) \/ Proceed(s) \/ Abort(s)
        \/ \E r \in Resource : Deactivate(r)

\* Row locks are queued: a request that waits for one again and again gets it.
Fairness == \A s \in Session : SF_vars(Proceed(s))

Safe == Init /\ [][Next]_vars
Spec == Safe /\ Fairness
-----------------------------------------------------------------------------
(* Properties. *)

TypeOK ==
  /\ active \in [Resource -> BOOLEAN]
  /\ experiments \in [Experiment -> Row]
  /\ results \in [Experiment -> ResultSet]
  /\ lock \in [Experiment -> Session \cup {None}]
  /\ req \in [Session -> Request]

\* While a run is at work, its experiment is still CREATED and without results
\* and no other request runs it: the status check and the commit cannot be
\* separated by a second run, and no run meets the unique constraint.
Running(s) == req[s].op = "run" /\ req[s].step \notin {"idle", "lock"}
RunsAreExclusive ==
  \A s \in Session : Running(s) =>
    LET e == req[s].experiment IN
    /\ experiments[e].status = "CREATED"
    /\ results[e] = NoResults
    /\ \A t \in Session \ {s} : Running(t) => req[t].experiment # e

\* What is stored with an experiment agrees with its results: the counters
\* tally the verdicts, they add up to the size of the dataset version, and it
\* is FAILED with an error code exactly when some case ended in ERROR.
With(e, verdict) ==
  {c \in Case : results[e][c] # None /\ results[e][c].status = verdict}
OutcomeMatchesResults ==
  \A e \in Experiment :
    LET row == experiments[e] IN
    /\ row.tally.pass = Cardinality(With(e, "PASS"))
    /\ row.tally.fail = Cardinality(With(e, "FAIL"))
    /\ row.tally.error = Cardinality(With(e, "ERROR"))
    /\ row.status \in Done =>
         /\ row.tally.pass + row.tally.fail + row.tally.error = row.total
         /\ row.status = "FAILED" <=> With(e, "ERROR") # {}
    /\ row.tally.code # None <=> row.status = "FAILED"

\* A client that was told that a run has ended finds a result for every case
\* of the dataset version, although it asks in a second request.
ReaderSeesWholeRun ==
  \A s \in Session : At(s, "results") /\ req[s].seen \in Done =>
    LET e == req[s].experiment
    IN  {c \in Case : results[e][c] # None} = CasesOf[experiments[e].plan.dv]

\* The experiments are a ledger: each is carried out at most once, in one step
\* as the others see it, with the outcome that its three versions determine
\* whatever happens to the originals, and then stays as it is.
ViablePlan == {p \in Plan : CasesOf[p.dv] # {}}

ExpectedOutcome(p) ==
  LET result == Execute(p.tv, p.ev) IN
  [status |-> IF result.status = "ERROR" THEN "FAILED" ELSE "COMPLETED",
   code |-> result.code,
   results |-> [c \in Case |-> IF c \in CasesOf[p.dv] THEN result ELSE None]]

Entry(e) ==
  LET row == experiments[e] IN
  [state |-> CASE row.status = "ABSENT" -> "absent"
               [] row.status = "CREATED" -> "created"
               [] OTHER -> "done",
   plan |-> row.plan,
   outcome |-> IF row.status \in Done
                 THEN [status |-> row.status, code |-> row.tally.code,
                       results |-> results[e]]
                 ELSE None]

Ledger == INSTANCE ExperimentLedger WITH
  Plan <- ViablePlan,
  Expected <- [p \in ViablePlan |-> ExpectedOutcome(p)],
  ledger <- [e \in Experiment |-> Entry(e)]
IsLedger == Ledger!Spec

\* Every request is answered: no run waits for an experiment for ever.
EveryRequestEnds == \A s \in Session : ~At(s, "idle") ~> At(s, "idle")

\* README.md:140: an inactive resource can only be read, so no experiment of
\* an inactive project or original is created or carried out.
InactiveIsReadOnly ==
  [][\A e \in Experiment :
       experiments'[e] # experiments[e] => \A r \in Resource : active[r]]_vars
=============================================================================
