---------------------------- MODULE DatasetPage ----------------------------
(***************************************************************************)
(* The page of a dataset (dataset-detail-client.tsx): its evaluation cases *)
(* and its versions, a page of each, with the form that makes or edits a   *)
(* case, the buttons that approve and deprecate one, and the button that   *)
(* makes a version.  Every action ends in a reload, every page turned runs *)
(* the effect that reloads everything, and all of them may overlap.        *)
(***************************************************************************)
EXTENDS ApiClient, Requests, Sequences, FiniteSets

CONSTANTS Size,          \* rows of a page
          MaxCases,      \* bound: cases of the dataset
          MaxEdits,      \* bound: updates of one case
          MaxActs,       \* bound: mutations, pages turned and retries of the page,
                         \* and changes that other users make to the dataset
          MaxLate        \* bound: superseded calls that are still under way

VARIABLES usable,        \* committed: the dataset and its project are active
          cases,         \* committed: the cases in the order of their creation
          snapshots,     \* committed: what each version has captured
          others,        \* how many of these changes other users have made
          page           \* what the page holds

vars == <<usable, cases, snapshots, others, page>>

Row(status, edits) == [status |-> status, edits |-> edits]
Draft == Row("DRAFT", 0)

(* ---- The server: each request is one step (see DatasetLifecycle). ------- *)

Approved(seq) == {<<n, seq[n].edits>> : n \in {m \in DOMAIN seq : seq[m].status = "APPROVED"}}

CanUpdate(n) == usable /\ cases[n].status = "DRAFT"
CanApprove(n) == usable /\ cases[n].status = "DRAFT"
CanDeprecate(n) == usable /\ cases[n].status # "DEPRECATED"
CanSnapshot ==
  usable /\ Approved(cases) # {} /\ \A i \in DOMAIN snapshots : snapshots[i] # Approved(cases)

(* What a response holds of the committed state.                           *)
Seen(of, versions) == [cases |-> of, versions |-> versions]
Committed(lane, of, versions) ==
  IF lane \in {"versions", "create"} THEN Seen(<< >>, versions) ELSE Seen(of, 0)

(* ---- What the page holds. ----------------------------------------------- *)

(* A list: the page chosen and the page of its rows (0: none), the state   *)
(* they were read from, and its indicator and error.                       *)
Unread(seen) ==
  [page |-> 1, rows |-> 0, seen |-> seen, refreshing |-> FALSE, error |-> FALSE]

Mutation == {"submit", "transition", "create"}
Arg(n, case, by) == [page |-> n, case |-> case, by |-> by]

NewPage ==
  [dataset |-> None, datasetError |-> None,
   cases |-> Unread(<< >>), versions |-> Unread(0),
   editing |-> 0, formError |-> FALSE,
   submitting |-> FALSE, acting |-> 0, creating |-> FALSE, calls |-> {},
   \* history: what the answers to this page's mutations have told, the
   \* mutations nothing has overlapped, those that failed since the last act
   toldCases |-> << >>, toldVersions |-> 0, alone |-> {}, failed |-> {}, acts |-> 0]

LoadDataset(u, by) ==
  [u EXCEPT !.datasetError = None, !.calls = Sent(@, "dataset", Arg(1, 0, by))]

LoadCases(u, n, by) ==
  [u EXCEPT !.cases.refreshing = TRUE, !.cases.error = FALSE,
            !.calls = Sent(@, "cases", Arg(n, 0, by))]

LoadVersions(u, n, by) ==
  [u EXCEPT !.versions.refreshing = TRUE, !.versions.error = FALSE,
            !.calls = Sent(@, "versions", Arg(n, 0, by))]

(* The effect of the first render and of a page number that has changed:   *)
(* its own calls are aborted, those of the actions are only superseded.    *)
Effect(u) ==
  LET kept == [u EXCEPT !.calls = {c \in @ : c.arg.by # "effect"}]
  IN LoadVersions(LoadCases(LoadDataset(kept, "effect"), u.cases.page, "effect"),
                  u.versions.page, "effect")

Rendered(before, u) ==
  IF before.cases.page = u.cases.page /\ before.versions.page = u.versions.page
  THEN u ELSE Effect(u)

\* Mutant: the page shown stays the one chosen, whichever was read.
Loaded_PageKept(list, n, seen, total) ==
  LET totalPages == (total + Size - 1) \div Size
  IN IF total > 0 /\ n > totalPages
     THEN [list EXCEPT !.rows = 0, !.page = totalPages, !.seen = seen,
                       !.refreshing = FALSE]
     ELSE [list EXCEPT !.rows = n, !.seen = seen,
                       !.refreshing = FALSE]

(* Rows of a page that lies past the end are dropped and the last page is  *)
(* chosen instead.                                                         *)
Loaded(list, n, seen, total) ==
  LET totalPages == (total + Size - 1) \div Size
  IN IF total > 0 /\ n > totalPages
     THEN [list EXCEPT !.rows = 0, !.page = totalPages, !.seen = seen,
                       !.refreshing = FALSE]
     ELSE [list EXCEPT !.rows = n, !.page = IF total = 0 THEN 1 ELSE n, !.seen = seen,
                       !.refreshing = FALSE]

ListFailed(list) == [list EXCEPT !.refreshing = FALSE, !.error = TRUE]

(* Cases are listed newest first.                                          *)
VisibleCases(list) ==
  {n \in DOMAIN list.seen :
     LET place == Len(list.seen) + 1 - n
     IN (list.rows - 1) * Size < place /\ place <= list.rows * Size}

approvedKnownAbsent(u) ==
  \/ u.cases.seen = << >>
  \/ /\ Len(u.cases.seen) <= Size
     /\ \A n \in VisibleCases(u.cases) : u.cases.seen[n].status # "APPROVED"

(* ---- What the user does. ------------------------------------------------ *)

Shown == page.dataset # None
CanAct == page.dataset = "active"

(* History: an act overlaps the mutations that are under way.              *)
Act(u) == [u EXCEPT !.alone = {}, !.failed = {}, !.acts = @ + 1]
ActAlone(u, lane) ==
  [Act(u) EXCEPT !.alone = IF u.submitting \/ u.creating \/ u.acting # 0 THEN {} ELSE {lane}]

EditCase ==
  /\ CanAct /\ page.acting = 0
  /\ \E n \in VisibleCases(page.cases) :
       /\ page.cases.seen[n].status = "DRAFT"
       /\ page' = [page EXCEPT !.editing = n]

CancelEdit ==
  /\ page.editing # 0 /\ ~page.submitting
  /\ page' = [page EXCEPT !.editing = 0]

(* A form that is not filled in sends nothing.                             *)
submitCase ==
  /\ CanAct /\ ~page.submitting
  /\ page' = [ActAlone(page, "submit") EXCEPT
                !.submitting = TRUE, !.formError = FALSE,
                !.calls = Sent(@, "submit", Arg(1, page.editing, "user"))]

(* The page number is that of the render the button belongs to.            *)
transition ==
  /\ CanAct /\ page.acting = 0
  /\ \E n \in VisibleCases(page.cases), action \in {"approve", "deprecate"} :
       /\ page.cases.seen[n].status # "DEPRECATED"
       /\ action = "approve" => page.cases.seen[n].status = "DRAFT"
       /\ page' = [ActAlone(page, "transition") EXCEPT
                     !.acting = n, !.cases.error = FALSE,
                     !.calls = Sent(@, "transition", Arg(page.cases.page, n, action))]

createVersion ==
  /\ CanAct /\ ~page.creating /\ ~approvedKnownAbsent(page)
  /\ page' = [ActAlone(page, "create") EXCEPT
                !.creating = TRUE, !.versions.error = FALSE,
                !.calls = Sent(@, "create", Arg(1, 0, "user"))]

Turned(list, total) ==
  {n \in {list.page - 1, list.page + 1} :
     ~list.refreshing /\ n >= 1 /\ (n > list.page => (n - 1) * Size < total)}

MovePage ==
  /\ Shown
  /\ \/ \E n \in Turned(page.cases, Len(page.cases.seen)) :
          page' = Effect([Act(page) EXCEPT !.cases.page = n])
     \/ \E n \in Turned(page.versions, page.versions.seen) :
          page' = Effect([Act(page) EXCEPT !.versions.page = n])

Retry ==
  \/ ~Shown /\ page.datasetError # None /\ page.datasetError.retryable
     /\ page' = LoadDataset(page, "retry")
  \/ Shown /\ page.cases.error /\ page' = LoadCases(Act(page), page.cases.page, "retry")
  \/ Shown /\ page.versions.error
     /\ page' = LoadVersions(Act(page), page.versions.page, "retry")
-----------------------------------------------------------------------------
(* ---- What the server does, for this page and for others. ---------------- *)

ServeRead(c) ==
  /\ c.lane \in {"cases", "versions"} /\ c.reply = Waiting
  /\ page' = [page EXCEPT !.calls =
       Served(@, c, Answered(Committed(c.lane, cases, Len(snapshots))))]
  /\ UNCHANGED <<usable, cases, snapshots, others>>

(* Nobody waits for the answer to a mutation that was given up.            *)
Reply(c, answer) ==
  page' = [page EXCEPT !.calls = IF c.live THEN Served(@, c, answer) ELSE Ended(@, c)]

Changed(n, seq, action) ==
  CASE action = "approve" -> [seq EXCEPT ![n].status = "APPROVED"]
    [] action = "deprecate" -> [seq EXCEPT ![n].status = "DEPRECATED"]
    [] action = "update" -> [seq EXCEPT ![n].edits = @ + 1]

Serve(c, allowed, seq, refusal) ==
  IF allowed
  THEN cases' = seq /\ Reply(c, Answered(Committed(c.lane, seq, 0)))
  ELSE UNCHANGED cases /\ Reply(c, Refused(409, refusal))

(* A case key may be taken already.                                        *)
ServeSubmit(c) ==
  /\ c.lane = "submit" /\ c.reply = Waiting
  /\ LET n == c.arg.case
     IN IF n = 0
        THEN \/ Len(cases) < MaxCases
                /\ Serve(c, usable, Append(cases, Draft), "DATASET_INACTIVE")
             \/ cases # << >> /\ Serve(c, FALSE, cases, "DUPLICATE_CASE_KEY_IN_DATASET")
        ELSE /\ cases[n].edits < MaxEdits
             /\ Serve(c, CanUpdate(n), Changed(n, cases, "update"), "RESOURCE_IMMUTABLE")
  /\ UNCHANGED <<usable, snapshots, others>>

ServeTransition(c) ==
  /\ c.lane = "transition" /\ c.reply = Waiting
  /\ Serve(c, IF c.arg.by = "approve" THEN CanApprove(c.arg.case) ELSE CanDeprecate(c.arg.case),
           Changed(c.arg.case, cases, c.arg.by), "INVALID_STATE_TRANSITION")
  /\ UNCHANGED <<usable, snapshots, others>>

ServeCreate(c) ==
  /\ c.lane = "create" /\ c.reply = Waiting
  /\ IF CanSnapshot
     THEN /\ snapshots' = Append(snapshots, Approved(cases))
          /\ Reply(c, Answered(Committed("create", << >>, Len(snapshots) + 1)))
     ELSE UNCHANGED snapshots /\ Reply(c, Refused(409, "DUPLICATE_DATASET_VERSION"))
  /\ UNCHANGED <<usable, cases, others>>

Elsewhere ==
  /\ page.acts + others < MaxActs /\ usable
  /\ others' = others + 1
  /\ \/ usable' = FALSE /\ UNCHANGED cases
     \/ /\ \E n \in DOMAIN cases :
             \/ CanApprove(n) /\ cases' = Changed(n, cases, "approve")
             \/ CanDeprecate(n) /\ cases' = Changed(n, cases, "deprecate")
        /\ UNCHANGED usable
     \/ Len(cases) < MaxCases /\ cases' = Append(cases, Draft) /\ UNCHANGED usable
  /\ UNCHANGED <<snapshots, page>>
-----------------------------------------------------------------------------
(* ---- What the page does with an answer. --------------------------------- *)

\* Mutant: an answer is taken whether or not it is still wanted.
IsCurrent_Always(c) == TRUE

(* The number of the request is still that of its list.                    *)
IsCurrent(c) == c.live

OutcomesOf(c) == IF c.reply = Waiting THEN Lost ELSE Outcomes(c.reply[1])

(* The dataset itself is deactivated once, if ever: an answer that says it  *)
(* is active may be old.                                                   *)
OutcomesOfDataset == UNION {Outcomes(Answered(active)) : active \in {TRUE, usable}}

(* What the action that waited for a reload does when it has ended.        *)
\* Mutant: the error of the action is forgotten.
Then_Silent(u, by) ==
  CASE by = "submit" -> [u EXCEPT !.submitting = FALSE]
    [] by = "create" -> [u EXCEPT !.creating = FALSE]
    [] by \in {"transition", "refused"} -> [u EXCEPT !.acting = 0]
    [] OTHER -> u

(* The error of an action that failed is put back after the reload.        *)
Then(u, by) ==
  CASE by = "submit" -> [u EXCEPT !.submitting = FALSE]
    [] by = "create" -> [u EXCEPT !.creating = FALSE]
    [] by = "transition" -> [u EXCEPT !.acting = 0]
    [] by = "refused" -> [u EXCEPT !.acting = 0, !.cases.error = TRUE]
    [] OTHER -> u

(* Once the dataset is shown, the error of a later read of it never is.    *)
DatasetLoaded(u, o) ==
  CASE o.kind = "data" -> [u EXCEPT !.dataset = IF o.value THEN "active" ELSE "inactive"]
    [] o.kind # "data" /\ u.dataset = None -> [u EXCEPT !.datasetError = o]
    [] OTHER -> u

CasesLoaded(u, n, o) ==
  [u EXCEPT !.cases = IF o.kind = "data"
                      THEN Loaded(@, n, o.value.cases, Len(o.value.cases))
                      ELSE ListFailed(@)]

VersionsLoaded(u, n, o) ==
  [u EXCEPT !.versions = IF o.kind = "data"
                         THEN Loaded(@, n, o.value.versions, o.value.versions)
                         ELSE ListFailed(@)]

ReceiveDataset(c) ==
  /\ c.lane = "dataset"
  /\ LET u == [page EXCEPT !.calls = Ended(@, c)]
     IN \E o \in OutcomesOfDataset : page' = DatasetLoaded(u, o)

ReceiveCases(c) ==
  /\ c.lane = "cases"
  /\ LET u == [page EXCEPT !.calls = Ended(@, c)]
     IN \E o \in OutcomesOf(c) :
          page' = Rendered(page,
            Then(IF IsCurrent(c) THEN CasesLoaded(u, c.arg.page, o) ELSE u, c.arg.by))

ReceiveVersions(c) ==
  /\ c.lane = "versions"
  /\ LET u == [page EXCEPT !.calls = Ended(@, c)]
     IN \E o \in OutcomesOf(c) :
          page' = Rendered(page,
            Then(IF IsCurrent(c) THEN VersionsLoaded(u, c.arg.page, o) ELSE u, c.arg.by))

(* A mutation that failed, as far as the page knows.                       *)
Failed(u, lane) == [u EXCEPT !.failed = @ \cup ({lane} \cap u.alone)]

(* The answers of two mutations may come in the other order.               *)
Covers(now, told) ==
  \A n \in DOMAIN told :
    /\ n \in DOMAIN now /\ now[n].edits >= told[n].edits
    /\ told[n].status = "DRAFT" \/ now[n].status \in {told[n].status, "DEPRECATED"}
Told(u, seq) == [u EXCEPT !.toldCases = IF Covers(@, seq) THEN @ ELSE seq]

ReceiveSubmit(c) ==
  /\ c.lane = "submit" /\ c.live
  /\ LET u == [page EXCEPT !.calls = EndedMutation(@, c)]
     IN \E o \in OutcomesOf(c) :
          page' = IF o.kind = "data"
                  THEN Rendered(page, LoadCases(
                         [Told(u, o.value.cases) EXCEPT
                            !.editing = 0, !.cases.page = 1], 1, "submit"))
                  ELSE Failed([u EXCEPT !.submitting = FALSE, !.formError = TRUE], "submit")

ReceiveTransition(c) ==
  /\ c.lane = "transition" /\ c.live
  /\ LET u == [page EXCEPT !.calls = EndedMutation(@, c)]
     IN \E o \in OutcomesOf(c) :
          page' = IF o.kind = "data"
                  THEN LoadCases(Told(u, o.value.cases), c.arg.page, "transition")
                  ELSE LoadCases(Failed(u, "transition"), c.arg.page, "refused")

ReceiveCreate(c) ==
  /\ c.lane = "create" /\ c.live
  /\ LET u == [page EXCEPT !.calls = EndedMutation(@, c)]
     IN \E o \in OutcomesOf(c) :
          page' = IF o.kind = "data"
                  THEN Rendered(page, LoadVersions(
                         [u EXCEPT !.versions.page = 1,
                                   !.toldVersions = IF @ > o.value.versions THEN @
                                                    ELSE o.value.versions], 1, "create"))
                  ELSE Failed([u EXCEPT !.creating = FALSE, !.versions.error = TRUE], "create")
-----------------------------------------------------------------------------
Init ==
  /\ usable = TRUE
  /\ cases = <<Row("APPROVED", 0), Draft>>
  /\ snapshots = <<{<<1, 0>>}>>
  /\ others = 0
  /\ page = Effect(NewPage)

User ==
  /\ \/ EditCase \/ CancelEdit \/ submitCase
     \/ transition \/ createVersion \/ MovePage \/ Retry
  /\ UNCHANGED <<usable, cases, snapshots, others>>

Receive ==
  /\ \E c \in page.calls :
       \/ ReceiveDataset(c) \/ ReceiveCases(c) \/ ReceiveVersions(c)
       \/ ReceiveSubmit(c) \/ ReceiveTransition(c) \/ ReceiveCreate(c)
  /\ UNCHANGED <<usable, cases, snapshots, others>>

Late == Cardinality({c \in page.calls : ~c.live})

Next ==
  \/ (User \/ Receive) /\ Late' <= MaxLate /\ page'.acts + others <= MaxActs
  \/ Elsewhere
  \/ \E c \in page.calls :
       ServeRead(c) \/ ServeSubmit(c) \/ ServeTransition(c) \/ ServeCreate(c)
-----------------------------------------------------------------------------
TypeOK ==
  /\ usable \in BOOLEAN
  /\ \A n \in DOMAIN cases :
       cases[n] \in [status : {"DRAFT", "APPROVED", "DEPRECATED"}, edits : 0..MaxEdits]
  /\ page.dataset \in {None, "active", "inactive"}
  /\ page.editing \in 0..MaxCases /\ page.acting \in 0..MaxCases
  /\ \A l \in {"dataset", "cases", "versions"} \cup Mutation :
       Cardinality({c \in page.calls : c.lane = l /\ c.live}) <= 1

(* No request is in flight for a list, no action is, and no error is shown. *)
AtRest(list, action) == ~list.refreshing /\ ~list.error /\ ~action

ListsAreOfThePage ==
  /\ AtRest(page.cases, page.acting # 0) => page.cases.rows = page.cases.page
  /\ AtRest(page.versions, page.creating) => page.versions.rows = page.versions.page

ChangesAreShown ==
  /\ AtRest(page.cases, page.acting # 0) => Covers(page.cases.seen, page.toldCases)
  /\ AtRest(page.versions, page.creating) => page.versions.seen >= page.toldVersions

FailuresAreShown ==
  /\ "submit" \in page.failed => page.formError
  /\ "transition" \in page.failed => page.cases.error \/ page.acting # 0
  /\ "create" \in page.failed => page.versions.error
=============================================================================
