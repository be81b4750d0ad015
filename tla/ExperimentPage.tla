--------------------------- MODULE ExperimentPage ---------------------------
(***************************************************************************)
(* The page of one experiment (experiment-detail-client.tsx) and the       *)
(* server's record of it.  The page has five lanes of requests: the        *)
(* experiment, the lookup that verifies that it belongs to the project of  *)
(* the URL, the names of its versions, a page of results, and the run.     *)
(* Answers come in any order; each may be lost.  Results are immutable, so *)
(* a page of them is its number.                                           *)
(***************************************************************************)
EXTENDS ApiClient, Requests, Naturals, FiniteSets

CONSTANTS Part,          \* what is looked up for display: target, evaluator
          ResultPages,   \* pages of results of the experiment once it is run
          MaxLate        \* bound: superseded calls that may still be answered

ASSUME ResultPagesAssumption == ResultPages \in Nat \ {0}
ASSUME MaxLateAssumption == MaxLate \in Nat

VARIABLES stored,        \* committed status of the experiment
          inScope,       \* its dataset version is the project's
          ranHere,       \* the committed run is a request of this page
          ui             \* what the page holds

vars == <<stored, inScope, ranHere, ui>>

Done == {"COMPLETED", "FAILED"}
Status == {"CREATED"} \cup Done
Lane == {"experiment", "scope", "metadata", "results", "run"}
Flag == {"initialLoading", "refreshing", "scopeChecking", "metadataLoading",
         "resultLoading", "resultRefreshing", "running"}

(* The answers of a server that does not run the experiment; one inactive   *)
(* resource stands for the project, the dataset, the target, the evaluator. *)
RunErrors == {request(Refused(409, code)) :
                code \in {"DATASET_INACTIVE", "INVALID_STATE_TRANSITION"}}

ASSUME NoneAssumption == None \notin Status /\ None \notin Lost \cup RunErrors

(* An argument: whether execute() awaits the call (then loadExperiment has *)
(* includeResults = FALSE), the status verifyScope was given, the page.    *)
Arg(awaited, status, page) == [awaited |-> awaited, status |-> status, page |-> page]
ForView(status, page) == Arg(FALSE, status, page)

(* ---- The loaders: each returns the page after its synchronous part. ---- *)

LoadResults(u, page, retainData, awaited) ==
  [u EXCEPT !.resultError = None,
            !.asked = page,
            !.flags = @ \cup {IF retainData THEN "resultRefreshing" ELSE "resultLoading"},
            !.calls = Sent(@, "results", Arg(awaited, None, page))]

ResolveMetadata(u) ==
  [u EXCEPT !.metadataErrors = {},
            !.flags = @ \cup {"metadataLoading"},
            !.calls = Sent(@, "metadata", ForView(None, 0))]

\* Mutant: the indicator of the check is not set with the call.
VerifyScope_NoIndicator(u, current) ==
  [u EXCEPT !.scopeError = None, !.scopeNotFound = FALSE,
            !.calls = Sent(@, "scope", ForView(current, 0))]

VerifyScope(u, current) ==
  [u EXCEPT !.scopeError = None,
            !.scopeNotFound = FALSE,
            !.flags = @ \cup {"scopeChecking"},
            !.calls = Sent(@, "scope", ForView(current, 0))]

LoadExperiment(u, retainData, includeResults) ==
  [u EXCEPT !.experimentError = None,
            !.flags = @ \cup {IF retainData THEN "refreshing" ELSE "initialLoading"},
            !.calls = Sent(@, "experiment", Arg(~includeResults, None, 0))]

(* ---- What each call does with its outcome while it is the live one. ---- *)

\* Mutant: only the indicator of a first load is cleared.
ResultsLoaded_OneFlag(u, c, o) ==
  [u EXCEPT !.results = IF o.kind = "data" THEN c.arg.page ELSE @,
            !.resultError = IF o.kind = "data" THEN @ ELSE o,
            !.flags = @ \ {"resultLoading"}]

ResultsLoaded(u, c, o) ==
  [u EXCEPT !.results = IF o.kind = "data" THEN c.arg.page ELSE @,
            !.resultError = IF o.kind = "data" THEN @ ELSE o,
            !.flags = @ \ {"resultLoading", "resultRefreshing"}]

(* Promise.allSettled: each lookup fails or succeeds on its own.           *)
MetadataResolved(u, failed) ==
  [u EXCEPT !.metadataErrors = failed,
            !.flags = @ \ {"metadataLoading"}]

ScopeVerified(u, c, o) ==
  LET ended == [u EXCEPT !.flags = @ \ {"scopeChecking"}]
      verified == ResolveMetadata([ended EXCEPT !.scopeVerified = TRUE])
  IN IF o.kind = "data" /\ o.value = "found"
     THEN IF c.arg.status \in Done
          THEN LoadResults(verified, 1, FALSE, FALSE)
          ELSE verified
     ELSE IF o.kind = "data" \/ o.status = 404 \/ o.code = "PROJECT_NOT_FOUND"
     THEN [ended EXCEPT !.scopeVerified = FALSE, !.scopeNotFound = TRUE]
     ELSE [ended EXCEPT !.scopeError = o]

ExperimentLoaded(u, c, o) ==
  LET ended == [u EXCEPT !.flags = @ \ {"initialLoading", "refreshing"}]
      shown == [ended EXCEPT !.experiment = o.value]
  IN CASE o.kind # "data" -> [ended EXCEPT !.experimentError = o]
       [] o.kind = "data" /\ c.arg.awaited -> shown
       [] OTHER -> VerifyScope(shown, o.value)

(* ---- execute(): the run, then the experiment, then its results. -------- *)

Execute(u) ==
  [u EXCEPT !.runError = None,
            !.flags = @ \cup {"running"},
            !.calls = Sent(@, "run", ForView(None, 0))]

(* The answer of the run is shown at once; either way the experiment is    *)
(* read again before anything else.                                        *)
\* Mutant: a run that was answered is not read again, so that a load begun
\* before it goes on.
RunAnswered_OldLoadStays(u, o) ==
  IF o.kind = "data"
  THEN LoadResults([u EXCEPT !.experiment = o.value], 1, FALSE, TRUE)
  ELSE LoadExperiment([u EXCEPT !.pending = o], TRUE, FALSE)

RunAnswered(u, o) ==
  LoadExperiment(
    [u EXCEPT !.experiment = IF o.kind = "data" THEN o.value ELSE @,
              !.pending = IF o.kind = "data" THEN None ELSE o],
    TRUE, FALSE)

RunEnded(u) == [u EXCEPT !.flags = @ \ {"running"}, !.pending = None]

\* Mutant: the error is shown only if the experiment was read as not run.
ExperimentReloaded_Silent(u, loaded) ==
  IF u.pending = None \/ loaded \in Done
  THEN LoadResults(u, 1, FALSE, TRUE)
  ELSE RunEnded([u EXCEPT !.runError = IF loaded = "CREATED" THEN u.pending ELSE @])

(* loadExperiment() returned the status in loaded, or null.                *)
ExperimentReloaded(u, loaded) ==
  IF u.pending = None \/ loaded \in Done
  THEN LoadResults(u, 1, FALSE, TRUE)
  ELSE RunEnded([u EXCEPT !.runError = u.pending])
-----------------------------------------------------------------------------
(* ---- What is on the screen. -------------------------------------------- *)

View ==
  IF ui.experiment = None
  THEN IF ui.experimentError # None THEN "failed"
       ELSE IF "initialLoading" \in ui.flags THEN "loading" ELSE "blank"
  ELSE IF ~ui.scopeVerified /\ "scopeChecking" \in ui.flags THEN "checking"
  ELSE IF ui.scopeNotFound THEN "notFound"
  ELSE IF ui.scopeVerified THEN "page"
  ELSE IF ui.scopeError # None THEN "scopeFailed" ELSE "blank"

CanRun ==
  /\ View = "page"
  /\ ui.experiment = "CREATED"
  /\ ui.flags \cap {"running", "refreshing"} = {}

-----------------------------------------------------------------------------
NewPage ==
  [experiment |-> None, experimentError |-> None,
   runError |-> None, pending |-> None,
   scopeVerified |-> FALSE, scopeNotFound |-> FALSE, scopeError |-> None,
   metadataErrors |-> {}, results |-> 0, asked |-> 0, resultError |-> None,
   flags |-> {}, calls |-> {}]

Init ==
  /\ stored \in Status
  /\ inScope \in BOOLEAN
  /\ ranHere = FALSE
  /\ ui = LoadExperiment(NewPage, FALSE, TRUE)

(* Leaving aborts every call, but the server may still carry out a run;    *)
(* the page opened next starts anew.                                       *)
Reopen ==
  /\ ui' = LoadExperiment(
             [NewPage EXCEPT !.calls = {c \in Aborted(ui.calls, Lane) : c.lane = "run"}],
             FALSE, TRUE)
  /\ ranHere' = FALSE
  /\ UNCHANGED <<stored, inScope>>

ClickRun ==
  /\ CanRun
  /\ ui' = Execute(ui)
  /\ UNCHANGED <<stored, inScope, ranHere>>

(* The retry buttons, each where and when it is shown.                     *)
Retry ==
  /\ \/ /\ View = "failed" /\ ui.experimentError.retryable
        /\ ui.experimentError.status # 404
        /\ ui' = LoadExperiment(ui, FALSE, TRUE)
     \/ /\ View = "page"
        /\ \E e \in {ui.experimentError, ui.runError} \ {None} : e.retryable
        /\ ui' = LoadExperiment(ui, TRUE, TRUE)
     \/ /\ View = "scopeFailed" /\ ui.scopeError.retryable
        /\ ui' = VerifyScope(ui, ui.experiment)
     \/ /\ View = "page" /\ ui.metadataErrors # {}
        /\ ui' = ResolveMetadata(ui)
     \/ /\ View = "page" /\ ui.resultError # None /\ ui.resultError.retryable
        /\ ui' = LoadResults(ui, IF ui.results = 0 THEN 1 ELSE ui.results,
                             ui.results > 0, FALSE)
  /\ UNCHANGED <<stored, inScope, ranHere>>

MoveResultPage ==
  /\ View = "page" /\ ui.results > 0
  /\ "resultRefreshing" \notin ui.flags
  /\ \E page \in {ui.results - 1, ui.results + 1} \cap 1..ResultPages :
       ui' = LoadResults(ui, page, TRUE, FALSE)
  /\ UNCHANGED <<stored, inScope, ranHere>>
-----------------------------------------------------------------------------
(* ---- The server. -------------------------------------------------------- *)

(* The lookups of the project's datasets, of versions and of results read  *)
(* what no longer changes, so their answers need no moment of their own.   *)
ScopeAnswers ==
  IF inScope THEN {Answered("found")}
  ELSE {Answered("none"), Refused(404, "PROJECT_NOT_FOUND")}

ServeExperiment(c) ==
  /\ c.lane = "experiment" /\ c.reply = Waiting
  /\ ui' = [ui EXCEPT !.calls = Served(@, c, Answered(stored))]
  /\ UNCHANGED <<stored, inScope, ranHere>>

(* run_experiment carries the experiment out once; it refuses a second run *)
(* and one that needs an inactive resource.                                *)
ServeRun(c) ==
  /\ c.lane = "run" /\ c.reply = Waiting
  /\ \/ /\ stored = "CREATED"
        /\ \E outcome \in Done :
             /\ stored' = outcome
             /\ ui' = [ui EXCEPT !.calls = Served(@, c, Answered(outcome))]
        /\ ranHere' = c.live
     \/ /\ ui' = [ui EXCEPT !.calls = Served(@, c,
                   IF stored = "CREATED"
                   THEN Refused(409, "DATASET_INACTIVE")
                   ELSE Refused(409, "INVALID_STATE_TRANSITION"))]
        /\ UNCHANGED <<stored, ranHere>>
  /\ UNCHANGED inScope

(* Another window runs the experiment.                                     *)
RunElsewhere ==
  /\ stored = "CREATED"
  /\ stored' \in Done
  /\ UNCHANGED <<inScope, ranHere, ui>>
-----------------------------------------------------------------------------
(* ---- A call ends at the page. ------------------------------------------- *)

OutcomesOf(c) == IF c.reply = Waiting THEN Lost ELSE Outcomes(c.reply[1])

\* Mutant: an answer is taken whether or not it is still wanted.
IsCurrent_Always(c) == TRUE

IsCurrent(c) == c.live

(* The lookups of the versions' names end together, each with its outcome. *)
ReceiveMetadata(c) ==
  /\ c.lane = "metadata"
  /\ LET u == [ui EXCEPT !.calls = Ended(@, c)]
     IN IF IsCurrent(c)
        THEN \E failed \in SUBSET Part : ui' = MetadataResolved(u, failed)
        ELSE ui' = u
  /\ UNCHANGED <<stored, inScope, ranHere>>

ReceiveScope(c) ==
  /\ c.lane = "scope"
  /\ LET u == [ui EXCEPT !.calls = Ended(@, c)]
     IN \E r \in ScopeAnswers : \E o \in Outcomes(r) :
          ui' = IF IsCurrent(c) THEN ScopeVerified(u, c, o) ELSE u
  /\ UNCHANGED <<stored, inScope, ranHere>>

(* execute() goes on when the load it awaits ends, with null if another    *)
(* load has taken its place.                                               *)
ReceiveExperiment(c) ==
  /\ c.lane = "experiment"
  /\ LET u == [ui EXCEPT !.calls = Ended(@, c)]
     IN \E o \in OutcomesOf(c) :
          LET loaded == IF IsCurrent(c) THEN ExperimentLoaded(u, c, o) ELSE u
          IN ui' = IF c.arg.awaited /\ "running" \in u.flags
                   THEN ExperimentReloaded(loaded, IF IsCurrent(c) THEN o.value ELSE None)
                   ELSE loaded
  /\ UNCHANGED <<stored, inScope, ranHere>>

\* Mutant: execute() goes on only if the load it awaits is still current.
ReceiveResults_Dropped(c) ==
  /\ c.lane = "results"
  /\ LET u == [ui EXCEPT !.calls = Ended(@, c)]
     IN \E o \in Outcomes(Answered(None)) :
          ui' = IF ~IsCurrent(c) THEN u
                ELSE IF c.arg.awaited THEN RunEnded(ResultsLoaded(u, c, o))
                     ELSE ResultsLoaded(u, c, o)
  /\ UNCHANGED <<stored, inScope, ranHere>>

ReceiveResults(c) ==
  /\ c.lane = "results"
  /\ LET u == [ui EXCEPT !.calls = Ended(@, c)]
     IN \E o \in Outcomes(Answered(None)) :
          LET loaded == IF IsCurrent(c) THEN ResultsLoaded(u, c, o) ELSE u
          IN ui' = IF c.arg.awaited THEN RunEnded(loaded) ELSE loaded
  /\ UNCHANGED <<stored, inScope, ranHere>>

ReceiveRun(c) ==
  /\ c.lane = "run" /\ (c.live \/ c.reply # Waiting)
  /\ LET u == [ui EXCEPT !.calls = EndedMutation(@, c)]
     IN \E o \in OutcomesOf(c) :
          ui' = IF IsCurrent(c) THEN RunAnswered(u, o) ELSE u
  /\ UNCHANGED <<stored, inScope, ranHere>>
-----------------------------------------------------------------------------
Server == \E c \in ui.calls : ServeExperiment(c) \/ ServeRun(c)

Receive(c) ==
  \/ ReceiveMetadata(c) \/ ReceiveScope(c) \/ ReceiveExperiment(c)
  \/ ReceiveResults(c) \/ ReceiveRun(c)

Late == Cardinality({c \in ui.calls : ~c.live})

User == Reopen \/ ClickRun \/ Retry \/ MoveResultPage

Next ==
  \/ User /\ Late' <= MaxLate
  \/ Server
  \/ RunElsewhere
  \/ \E c \in ui.calls : Receive(c)

Safe == Init /\ [][Next]_vars

(* fetch() ends, with an answer or an error; so does each load that         *)
(* execute() awaits.  They follow one another: one condition is enough.    *)
OfExecute(c) == c.arg.awaited \/ (c.lane = "run" /\ c.live)
Spec == Safe /\ WF_vars(\E c \in ui.calls : OfExecute(c) /\ Receive(c))
-----------------------------------------------------------------------------
MaybeError == {None} \cup Lost \cup RunErrors

TypeOK ==
  /\ stored \in Status /\ inScope \in BOOLEAN /\ ranHere \in BOOLEAN
  /\ ui.experiment \in Status \cup {None}
  /\ {ui.experimentError, ui.runError, ui.pending, ui.scopeError, ui.resultError}
       \subseteq MaybeError
  /\ {ui.scopeVerified, ui.scopeNotFound} \subseteq BOOLEAN
  /\ ui.metadataErrors \subseteq Part
  /\ ui.results \in 0..ResultPages /\ ui.asked \in 0..ResultPages
  /\ ui.flags \subseteq Flag
  /\ \A l \in Lane : Cardinality({c \in ui.calls : c.lane = l /\ c.live}) <= 1

(* The page always shows something: what it holds, that it is loading, or  *)
(* an error with a way on.  Between the calls that set the experiment,     *)
(* its scope and their errors there is no state in which none is shown.    *)
NeverBlank == View # "blank"

(* A page that has shown an outcome never shows the experiment as not run, *)
(* whatever the order in which the answers of its loads, its run and the   *)
(* loads after the run arrive.                                             *)
StatusNeverRegresses ==
  [][ui.experiment \in Done /\ ~Reopen => ui'.experiment = ui.experiment]_vars

(* If the server carried out this page's run, a page at rest shows its     *)
(* outcome or says that the run failed to report: an answer may be lost,   *)
(* not the fact that it is missing.                                        *)
LostRunIsSignalled ==
  ranHere /\ Settled(ui.calls) /\ View = "page" =>
    ui.experiment = stored \/ ui.runError # None

(* Rows are only those of the page of results asked for last, if it came,  *)
(* and only those of an experiment that is done.                           *)
LatestPageWins ==
  ui.results > 0 =>
    /\ ui.experiment \in Done
    /\ ~Pending(ui.calls, "results") /\ ui.resultError = None => ui.results = ui.asked

(* No indicator stays on without a request that will end it, whichever     *)
(* load has superseded which: initial or refreshing, first page or next.   *)
IndicatorHasRequest ==
  /\ ui.flags \cap {"initialLoading", "refreshing"} # {} => Pending(ui.calls, "experiment")
  /\ ui.flags \cap {"resultLoading", "resultRefreshing"} # {} => Pending(ui.calls, "results")
  /\ "scopeChecking" \in ui.flags => Pending(ui.calls, "scope")
  /\ "metadataLoading" \in ui.flags => Pending(ui.calls, "metadata")
  /\ "running" \in ui.flags => \E c \in ui.calls : OfExecute(c)

(* execute() ends: after the run's answer, or its loss, the loads it       *)
(* awaits end too, and the button is free again.                           *)
RunEnds == "running" \in ui.flags ~> "running" \notin ui.flags
=============================================================================
