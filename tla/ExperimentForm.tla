--------------------------- MODULE ExperimentForm ---------------------------
(***************************************************************************)
(* The form that creates an experiment (experiment-create-client.tsx): for *)
(* each kind of resource (dataset, target, evaluator) a list of the        *)
(* project's resources and, once one is chosen, the list of its versions,  *)
(* each paged by a PageResource of its own.  Answers come in any order and *)
(* may be lost; resources and the project are deactivated meanwhile.       *)
(***************************************************************************)
EXTENDS ApiClient, Requests, Naturals, FiniteSets

CONSTANTS Kind,          \* dataset, target, evaluator
          Parent,        \* resources of each kind in the project
          ParentPages,   \* pages of the list of them
          ParentPage,    \* the page of it each is on
          PagesOf,       \* pages of the versions of each
          MaxLate,       \* bound: superseded calls that may still be answered
          MaxCreated     \* bound: experiments created from one form

ASSUME PagesAssumption ==
  /\ ParentPages \in Nat /\ ParentPage \in [Parent -> 1..ParentPages]
  /\ PagesOf \in [Parent -> Nat]
ASSUME BoundsAssumption == MaxLate \in Nat /\ MaxCreated \in Nat
ASSUME NoneAssumption == None \notin Lost

VARIABLES active,        \* committed: kind -> resources that are active
          projectActive,
          created,       \* how many experiments this form has created
          ui             \* what the page holds

vars == <<active, projectActive, created, ui>>

Made == "made"

(* A version is known by its resource and by the page that lists it.       *)
Version == UNION {[of : {p}, page : 1..PagesOf[p]] : p \in Parent}
Choice == [Kind -> Version \cup {None}]

(* Lanes: the project, the submission, and two lists for each kind.        *)
Parents(k) == [list |-> "parents", kind |-> k]
Versions(k) == [list |-> "versions", kind |-> k]
List == UNION {{Parents(k), Versions(k)} : k \in Kind}
ProjectLane == [list |-> "project", kind |-> None]
SubmitLane == [list |-> "submit", kind |-> None]
Lane == List \cup {ProjectLane, SubmitLane}

(* An argument: whose versions, which page, or what to create.             *)
ListArg(parent, page) == [of |-> parent, page |-> page, choice |-> None]
SubmitArg(choice) == [of |-> None, page |-> 0, choice |-> choice]

(* ---- usePageResource: what a list holds. -------------------------------- *)

(* rows: whose page was loaded last, if any, and which of the resources on *)
(* it were active then.  A page past the last one has no rows, and         *)
(* its number and the total are kept: this list is not clamped.            *)
Rows(of, page, usable) == [of |-> of, page |-> page, usable |-> usable]
NoRows == Rows(None, 0, {})
Choices(rows) == Version \cap {[of |-> rows.of, page |-> rows.page]}
PagesShown(l, rows) ==
  CASE l.list = "parents" -> IF rows.page = 0 THEN 0 ELSE ParentPages
    [] l.list = "versions" -> IF rows.of = None THEN 0 ELSE PagesOf[rows.of]
Held(rows, loading, refreshing, error) ==
  [rows |-> rows, loading |-> loading, refreshing |-> refreshing, error |-> error]
Unused == Held(NoRows, FALSE, FALSE, None)

Load(u, l, parent, page, retainData) ==
  [u EXCEPT !.lists[l] = Held(@.rows, ~retainData, retainData, None),
            !.calls = Sent(@, l, ListArg(parent, page))]

(* The effect of a new key: the call for the old one is aborted, and what  *)
(* the list held stays until the new one's first page arrives.             *)
\* Mutant: the call for the old key is left alone when nothing is chosen.
KeyChanged_NoAbort(u, k, parent) ==
  IF parent = None
  THEN [u EXCEPT !.lists[Versions(k)] = Unused]
  ELSE Load(u, Versions(k), parent, 1, FALSE)

KeyChanged(u, k, parent) ==
  IF parent = None
  THEN [u EXCEPT !.lists[Versions(k)] = Unused,
                 !.calls = Aborted(@, {Versions(k)})]
  ELSE Load(u, Versions(k), parent, 1, FALSE)

ListLoaded(u, c, o) ==
  [u EXCEPT !.lists[c.lane] =
     IF o.kind = "data"
     THEN Held(Rows(c.arg.of, c.arg.page, o.value), FALSE, FALSE, None)
     ELSE Held(@.rows, FALSE, FALSE, o)]

(* The resource whose versions a list is to show.                          *)
Key(u, l) == IF l.list = "parents" THEN None ELSE u.parent[l.kind]

(* The page of a list's retry button, and whether it keeps the rows.       *)
Page(list) == IF list.rows.page = 0 THEN 1 ELSE list.rows.page
HasRows(rows) == rows.page > 0 /\ (rows.of = None \/ Choices(rows) # {})

(* ---- The page itself. --------------------------------------------------- *)

LoadProject(u) ==
  [u EXCEPT !.projectLoading = TRUE, !.projectError = None,
            !.calls = Sent(@, ProjectLane, ListArg(None, 0))]

ProjectLoaded(u, o) ==
  [u EXCEPT !.project = IF o.kind = "data" THEN o.value ELSE @,
            !.projectError = IF o.kind = "data" THEN @ ELSE o,
            !.projectLoading = FALSE]

(* selectDataset, selectTarget, selectEvaluator.                           *)
Select(u, k, parent) ==
  KeyChanged([u EXCEPT !.parent[k] = parent, !.version[k] = None, !.submitError = None],
             k, parent)

\* Mutant: a submission under way does not disable the button.
CanSubmit_WhileSubmitting ==
  ui.project = "active" /\ \A k \in Kind : ui.version[k] # None

CanSubmit ==
  /\ ui.project = "active"
  /\ \A k \in Kind : ui.version[k] # None
  /\ ~ui.submitting

createSelectedExperiment(u) ==
  [u EXCEPT !.submitting = TRUE, !.submitError = None,
            !.calls = Sent(@, SubmitLane, SubmitArg(u.version))]

\* Mutant: an error does not free the button.
Submitted_BusyAfterError(u, o) ==
  [u EXCEPT !.submitting = o.kind # "data",
            !.pushed = @ \/ o.kind = "data",
            !.unanswered = @ \/ o \in Lost,
            !.submitError = IF o.kind = "data" THEN @ ELSE o]

(* The router is asked for the page of the new experiment; until it shows  *)
(* it, the form stays as it is.                                            *)
Submitted(u, o) ==
  [u EXCEPT !.submitting = FALSE,
            !.pushed = @ \/ o.kind = "data",
            !.unanswered = @ \/ o \in Lost,
            !.submitError = IF o.kind = "data" THEN @ ELSE o]
-----------------------------------------------------------------------------
NewPage ==
  [project |-> None, projectError |-> None, projectLoading |-> TRUE,
   parent |-> [k \in Kind |-> None], version |-> [k \in Kind |-> None],
   lists |-> [l \in List |-> Unused],
   submitting |-> FALSE, submitError |-> None, pushed |-> FALSE, calls |-> {},
   \* history: a submission ended without an answer of the server
   unanswered |-> FALSE]

(* All effects of the first render: the project and every kind's list.     *)
Mounted ==
  LET u == LoadProject(NewPage)
  IN [u EXCEPT !.lists = [l \in List |-> Held(NoRows, l.list = "parents", FALSE, None)],
               !.calls = @ \cup {Call(Parents(k), ListArg(None, 1)) : k \in Kind}]

Init ==
  /\ active = [k \in Kind |-> Parent]
  /\ projectActive = TRUE
  /\ created = 0
  /\ ui = Mounted

Shown == ui.project # None

SelectParent ==
  /\ Shown /\ ui.project = "active" /\ ~ui.submitting
  /\ \E k \in Kind :
       LET list == ui.lists[Parents(k)]
       IN /\ ~list.loading
          /\ \E p \in list.rows.usable \cup {None} :
               p # ui.parent[k] /\ ui' = Select(ui, k, p)
  /\ UNCHANGED <<active, projectActive, created>>

\* Mutant: the selectors stay enabled while the form is submitted.
SelectVersion_WhileSubmitting ==
  /\ Shown
  /\ \E k \in Kind :
       LET list == ui.lists[Versions(k)]
       IN /\ ui.parent[k] # None /\ ~list.loading
          /\ \E v \in {None} \cup Choices(list.rows) :
               v # ui.version[k] /\ ui' = [ui EXCEPT !.version[k] = v]
  /\ UNCHANGED <<active, projectActive, created>>

SelectVersion ==
  /\ Shown /\ ~ui.submitting
  /\ \E k \in Kind :
       LET list == ui.lists[Versions(k)]
       IN /\ ui.parent[k] # None /\ ~list.loading
          /\ \E v \in {None} \cup Choices(list.rows) :
               v # ui.version[k] /\ ui' = [ui EXCEPT !.version[k] = v]
  /\ UNCHANGED <<active, projectActive, created>>

MovePage ==
  /\ Shown
  /\ \E l \in List :
       LET list == ui.lists[l]
       IN /\ PagesShown(l, list.rows) > 0 /\ ~list.refreshing
          /\ \E page \in {list.rows.page - 1, list.rows.page + 1} \ {0} :
               /\ page > list.rows.page => page <= PagesShown(l, list.rows)
               /\ ui' = Load(ui, l, Key(ui, l), page, TRUE)
  /\ UNCHANGED <<active, projectActive, created>>

Retry ==
  /\ \/ /\ ui.project = None /\ ui.projectError # None
        /\ ui.projectError.retryable /\ ui.projectError.status # 404
        /\ ui' = LoadProject(ui)
     \/ /\ Shown
        /\ \E l \in List :
             /\ ui.lists[l].error # None /\ ui.lists[l].error.retryable
             /\ ui' = Load(ui, l, Key(ui, l), Page(ui.lists[l]), HasRows(ui.lists[l].rows))
  /\ UNCHANGED <<active, projectActive, created>>

(* The submit button, and the retry button beside the error of the last    *)
(* submission.                                                             *)
Submit ==
  /\ Shown /\ CanSubmit
  /\ ui' = createSelectedExperiment(ui)
  /\ UNCHANGED <<active, projectActive, created>>
-----------------------------------------------------------------------------
(* ---- The server, and other users of it. --------------------------------- *)

DeactivateElsewhere ==
  /\ \/ projectActive' = FALSE /\ projectActive /\ UNCHANGED active
     \/ /\ \E k \in Kind : \E p \in active[k] :
             active' = [active EXCEPT ![k] = @ \ {p}]
        /\ UNCHANGED projectActive
  /\ UNCHANGED <<created, ui>>

Answer(c) ==
  CASE c.lane = ProjectLane -> IF projectActive THEN "active" ELSE "inactive"
    [] c.lane.list = "parents" -> {p \in active[c.lane.kind] : ParentPage[p] = c.arg.page}
    [] c.lane.list = "versions" -> {}

(* The versions of a resource that are listed on a page are append-only:   *)
(* their answer needs no moment of its own.                                *)
ServeRead(c) ==
  /\ c.lane.list \in {"project", "parents"} /\ c.reply = Waiting
  /\ ui' = [ui EXCEPT !.calls = Served(@, c, Answered(Answer(c)))]
  /\ UNCHANGED <<active, projectActive, created>>

(* create_experiment: every resource must be active.                       *)
ServeSubmit(c) ==
  /\ c.lane = SubmitLane /\ c.reply = Waiting
  /\ LET usable == projectActive /\ \A k \in Kind : c.arg.choice[k].of \in active[k]
     IN /\ created < MaxCreated
        /\ created' = IF usable THEN created + 1 ELSE created
        /\ ui' = [ui EXCEPT !.calls = Served(@, c,
             IF usable THEN Answered(Made) ELSE Refused(409, "DATASET_INACTIVE"))]
  /\ UNCHANGED <<active, projectActive>>
-----------------------------------------------------------------------------
\* Mutant: an answer is taken whether or not it is still wanted.
IsCurrent_Always(c) == TRUE

IsCurrent(c) == c.live

OutcomesOf(c) ==
  CASE c.reply # Waiting -> Outcomes(c.reply[1])
    [] c.reply = Waiting /\ c.lane.list = "versions" -> Outcomes(Answered({}))
    [] OTHER -> Lost

ReceiveProject(c) ==
  /\ c.lane = ProjectLane
  /\ LET u == [ui EXCEPT !.calls = Ended(@, c)]
     IN \E o \in OutcomesOf(c) : ui' = IF IsCurrent(c) THEN ProjectLoaded(u, o) ELSE u
  /\ UNCHANGED <<active, projectActive, created>>

ReceiveList(c) ==
  /\ c.lane \in List
  /\ LET u == [ui EXCEPT !.calls = Ended(@, c)]
     IN \E o \in OutcomesOf(c) : ui' = IF IsCurrent(c) THEN ListLoaded(u, c, o) ELSE u
  /\ UNCHANGED <<active, projectActive, created>>

ReceiveSubmit(c) ==
  /\ c.lane = SubmitLane /\ (c.live \/ c.reply # Waiting)
  /\ LET u == [ui EXCEPT !.calls = EndedMutation(@, c)]
     IN \E o \in OutcomesOf(c) : ui' = IF IsCurrent(c) THEN Submitted(u, o) ELSE u
  /\ UNCHANGED <<active, projectActive, created>>
-----------------------------------------------------------------------------
User == SelectParent \/ SelectVersion \/ MovePage \/ Retry \/ Submit

Late == Cardinality({c \in ui.calls : ~c.live})

Receive(c) == ReceiveProject(c) \/ ReceiveList(c) \/ ReceiveSubmit(c)

Next ==
  \/ User /\ Late' <= MaxLate
  \/ DeactivateElsewhere
  \/ \E c \in ui.calls : ServeRead(c) \/ ServeSubmit(c) \/ Receive(c)

Safe == Init /\ [][Next]_vars

(* fetch() ends; the submission is not superseded while it is in flight.   *)
ReceiveTheSubmission == \E c \in ui.calls : c.live /\ ReceiveSubmit(c)
Spec == Safe /\ WF_vars(ReceiveTheSubmission)
-----------------------------------------------------------------------------
MaybeError == {None} \cup Lost \cup {request(Refused(409, "DATASET_INACTIVE"))}

TypeOK ==
  /\ active \in [Kind -> SUBSET Parent]
  /\ projectActive \in BOOLEAN /\ created \in 0..MaxCreated
  /\ ui.project \in {None, "active", "inactive"}
  /\ ui.parent \in [Kind -> Parent \cup {None}] /\ ui.version \in Choice
  /\ {ui.projectError, ui.submitError} \cup {ui.lists[l].error : l \in List}
       \subseteq MaybeError
  /\ \A l \in Lane : Cardinality({c \in ui.calls : c.lane = l /\ c.live}) <= 1

(* A list at rest without an error is of the resource chosen above it, as  *)
(* often as the choice has changed and whichever answer came last.         *)
ListIsOfTheChoice ==
  \A k \in Kind :
    LET list == ui.lists[Versions(k)]
    IN ~list.loading /\ ~list.refreshing /\ list.error = None =>
         list.rows.of = ui.parent[k]

(* No indicator of a list stays on without a request that will end it, and *)
(* no request is in flight that no indicator shows: choosing nothing while *)
(* a list is loading leaves neither.                                       *)
IndicatorHasRequest ==
  \A l \in List :
    (ui.lists[l].loading \/ ui.lists[l].refreshing) <=> Pending(ui.calls, l)

(* While it is being created, the experiment is that of the form: neither  *)
(* a choice nor a list that arrives meanwhile changes what is shown.       *)
SubmittedIsShown ==
  \A c \in ui.calls :
    c.lane = SubmitLane /\ c.live => ui.submitting /\ c.arg.choice = ui.version

(* The form creates a second experiment only if it could not know of the   *)
(* first, or while the router is already leaving it.                       *)
OneExperimentUnlessLost == created > 1 => ui.unanswered \/ ui.pushed

(* A submission ends: the button is free again or the page is left.        *)
SubmissionEnds == ui.submitting ~> ~ui.submitting

(* A chosen version is one of the resource chosen above it.                *)
VersionIsOfTheChoice ==
  \A k \in Kind : ui.version[k] # None => ui.version[k].of = ui.parent[k]
=============================================================================
