----------------------------- MODULE TargetPage -----------------------------
(***************************************************************************)
(* The page of a target (target-detail-client.tsx) or of an evaluator      *)
(* (evaluator-detail-client.tsx, the same but for its save): the           *)
(* configuration, which can be saved and deactivated, and the versions,    *)
(* which are snapshots of it.  A version may be made while the             *)
(* configuration is saved, and both end in the same list.                  *)
(***************************************************************************)
EXTENDS ApiClient, Requests, Sequences, FiniteSets

CONSTANTS Size,          \* rows of a page
          MaxActs,       \* bound: mutations, pages turned and retries of the page,
                         \* and changes that other users make to the target
          MaxLate        \* bound: superseded calls that are still under way

VARIABLES kind,          \* "target" or "evaluator": the page never changes it
          targetActive,  \* committed: the target and its project are active
          config,        \* committed: how often the configuration was updated
          captured,      \* committed: the configuration each version captured
          others,        \* how many of these changes other users have made
          page           \* what the page holds

vars == <<kind, targetActive, config, captured, others, page>>

(* ---- What the page holds. ----------------------------------------------- *)

Arg(n, by) == [page |-> n, by |-> by]
Seen(value, active) == [value |-> value, active |-> active]

(* A page that has rows, and the number of versions counted with them.     *)
Unread == [page |-> 1, rows |-> 0, total |-> 0,
           loading |-> FALSE, refreshing |-> FALSE, error |-> None]

NewPage ==
  [target |-> None, error |-> None, versions |-> Unread,
   saving |-> FALSE, versioning |-> FALSE, calls |-> {},
   \* history: what the answers to this page's mutations have told, the
   \* mutations nothing has overlapped, those that failed since the last act
   toldConfig |-> 0, toldVersions |-> 0, alone |-> {}, failed |-> {}, acts |-> 0]

(* loadTarget neither aborts nor numbers its calls; it is never called      *)
(* while one of them is under way.                                         *)
LoadTarget(u, n, by) ==
  [u EXCEPT !.error = None, !.calls = Sent(@, "target", Arg(n, by))]

LoadVersions(u, n, by) ==
  [u EXCEPT !.versions.loading = @ \/ by = "effect",
            !.versions.refreshing = @ \/ by # "effect",
            !.versions.error = None,
            !.calls = Sent(@, "versions", Arg(n, by))]

Mounted == LoadVersions(LoadTarget(NewPage, 1, "effect"), 1, "effect")

(* The flag of the first load, which ends with both of its calls.          *)
Loading == \E c \in page.calls : c.arg.by = "effect"

(* What the action that waited for a load does when it has ended.          *)
Then(u, c) ==
  CASE c.lane = "target" /\ c.arg.by = "save" -> [u EXCEPT !.saving = FALSE]
    [] c.lane = "target" /\ c.arg.by = "deactivate" ->
         LoadVersions(u, c.arg.page, "deactivate")
    [] c.lane = "versions" /\ c.arg.by = "deactivate" -> [u EXCEPT !.saving = FALSE]
    [] c.lane = "versions" /\ c.arg.by = "snapshot" -> [u EXCEPT !.versioning = FALSE]
    [] OTHER -> u

(* A page that lies past the end is read again at the last one; whoever    *)
(* waits for the load waits for that one too.                              *)
VersionsLoaded(u, c, o) ==
  LET list == [u.versions EXCEPT !.loading = FALSE, !.refreshing = FALSE]
      totalPages == (o.value.value + Size - 1) \div Size
  IN CASE o.kind # "data" -> Then([u EXCEPT !.versions = [list EXCEPT !.error = o]], c)
       [] o.kind = "data" /\ o.value.value > 0 /\ c.arg.page > totalPages ->
            LoadVersions([u EXCEPT !.versions = [@ EXCEPT !.page = totalPages, !.rows = 0,
                                                          !.total = o.value.value]],
                         totalPages, c.arg.by)
       [] OTHER -> Then([u EXCEPT !.versions = [list EXCEPT !.page = c.arg.page,
                                                            !.rows = c.arg.page,
                                                            !.total = o.value.value]], c)

(* ---- What the user does. ------------------------------------------------ *)

Shown == page.target # None
CanAct == Shown /\ page.target.active

(* History: an act overlaps the mutations that are under way.              *)
Act(u) == [u EXCEPT !.alone = {}, !.failed = {}, !.acts = @ + 1]
ActAlone(u, lane) ==
  [Act(u) EXCEPT !.alone = IF u.saving \/ u.versioning THEN {} ELSE {lane}]

(* A name or response that is empty is not sent.                           *)
save ==
  /\ kind = "target" /\ CanAct /\ ~page.saving
  /\ page' = [ActAlone(page, "save") EXCEPT
                !.saving = TRUE, !.error = None, !.calls = Sent(@, "save", Arg(1, "user"))]

(* The evaluator's page leaves the error of the last save on the screen.   *)
saveEvaluator ==
  /\ kind = "evaluator" /\ CanAct /\ ~page.saving
  /\ page' = [ActAlone(page, "save") EXCEPT
                !.saving = TRUE, !.calls = Sent(@, "save", Arg(1, "user"))]

(* The page number is that of the render the button belongs to.            *)
deactivate ==
  /\ CanAct /\ ~page.saving
  /\ page' = [ActAlone(page, "deactivate") EXCEPT
                !.saving = TRUE,
                !.calls = Sent(@, "deactivate", Arg(page.versions.page, "user"))]

snapshot ==
  /\ CanAct /\ ~page.versioning
  /\ page' = [ActAlone(page, "snapshot") EXCEPT
                !.versioning = TRUE, !.versions.error = None,
                !.calls = Sent(@, "snapshot", Arg(1, "user"))]

loadVersionPage ==
  /\ Shown /\ page.versions.total > 0 /\ ~page.versions.refreshing
  /\ \E n \in {page.versions.page - 1, page.versions.page + 1} \ {0} :
       /\ n > page.versions.page => (n - 1) * Size < page.versions.total
       /\ page' = LoadVersions(Act(page), n, "turn")

Retry ==
  \/ /\ ~Shown /\ ~Loading /\ page.error # None /\ page.error.retryable
     /\ page' = LoadTarget(page, 1, "retry")
  \/ /\ Shown /\ page.versions.error # None /\ page.versions.error.retryable
     /\ page' = LoadVersions(Act(page), page.versions.page, "retry")
-----------------------------------------------------------------------------
(* ---- The server, for this page and for others. -------------------------- *)

ServeRead(c) ==
  /\ c.lane \in {"target", "versions"} /\ c.reply = Waiting
  /\ page' = [page EXCEPT !.calls = Served(@, c, Answered(
       IF c.lane = "target" THEN Seen(config, targetActive) ELSE Seen(Len(captured), TRUE)))]
  /\ UNCHANGED <<kind, targetActive, config, captured, others>>

(* Nobody waits for the answer to a mutation that was given up.            *)
Reply(c, answer) ==
  page' = [page EXCEPT !.calls = IF c.live THEN Served(@, c, answer) ELSE Ended(@, c)]

Inactive == Refused(409, "RESOURCE_INACTIVE")
DuplicateName == Refused(409, "DUPLICATE_NAME_IN_PROJECT")
DuplicateVersion == Refused(409, "DUPLICATE_VERSION")

(* update_target; the name it is saved with may be taken.                  *)
ServeSave(c) ==
  /\ c.lane = "save" /\ c.reply = Waiting
  /\ \/ /\ targetActive
        /\ config' = config + 1
        /\ Reply(c, Answered(Seen(config + 1, TRUE)))
     \/ /\ UNCHANGED config
        /\ Reply(c, IF targetActive THEN DuplicateName ELSE Inactive)
  /\ UNCHANGED <<kind, targetActive, captured, others>>

ServeDeactivate(c) ==
  /\ c.lane = "deactivate" /\ c.reply = Waiting
  /\ targetActive' = FALSE
  /\ Reply(c, IF targetActive THEN Answered(Seen(config, FALSE)) ELSE Inactive)
  /\ UNCHANGED <<kind, config, captured, others>>

Captures == \E i \in DOMAIN captured : captured[i] = config

(* create_version.                                                         *)
ServeSnapshot(c) ==
  /\ c.lane = "snapshot" /\ c.reply = Waiting
  /\ IF targetActive /\ ~Captures
     THEN /\ captured' = Append(captured, config)
          /\ Reply(c, Answered(Seen(Len(captured) + 1, TRUE)))
     ELSE /\ UNCHANGED captured
          /\ Reply(c, IF targetActive THEN DuplicateVersion ELSE Inactive)
  /\ UNCHANGED <<kind, targetActive, config, others>>

Elsewhere ==
  /\ page.acts + others < MaxActs /\ targetActive
  /\ others' = others + 1
  /\ \/ targetActive' = FALSE /\ UNCHANGED <<config, captured>>
     \/ config' = config + 1 /\ UNCHANGED <<targetActive, captured>>
     \/ ~Captures /\ captured' = Append(captured, config) /\ UNCHANGED <<targetActive, config>>
  /\ UNCHANGED <<kind, page>>
-----------------------------------------------------------------------------
(* ---- What the page does with an answer. --------------------------------- *)

(* The number and the controller of the request are still those of the list. *)
IsCurrent(c) == c.live

OutcomesOf(c) == IF c.reply = Waiting THEN Lost ELSE Outcomes(c.reply[1])

TargetLoaded(u, o) ==
  IF o.kind = "data"
  THEN [u EXCEPT !.target = [config |-> o.value.value, active |-> o.value.active]]
  ELSE [u EXCEPT !.error = o]

ReceiveTarget(c) ==
  /\ c.lane = "target"
  /\ LET u == [page EXCEPT !.calls = Ended(@, c)]
     IN \E o \in OutcomesOf(c) : page' = Then(TargetLoaded(u, o), c)

ReceiveVersions(c) ==
  /\ c.lane = "versions"
  /\ LET u == [page EXCEPT !.calls = Ended(@, c)]
     IN \E o \in OutcomesOf(c) : page' = IF IsCurrent(c) THEN VersionsLoaded(u, c, o) ELSE Then(u, c)

(* A mutation that failed, as far as the page knows.                       *)
Failed(u, lane) == [u EXCEPT !.failed = @ \cup ({lane} \cap u.alone)]

Latest(told, value) == IF told > value THEN told ELSE value

\* Mutant: what was saved is not read again.
ReceiveSave_NoReload(c) ==
  /\ c.lane = "save" /\ c.live
  /\ LET u == [page EXCEPT !.calls = EndedMutation(@, c), !.saving = FALSE]
     IN \E o \in OutcomesOf(c) :
          page' = IF o.kind = "data"
                  THEN [u EXCEPT !.toldConfig = Latest(@, o.value.value)]
                  ELSE Failed([u EXCEPT !.error = o], "save")

ReceiveSave(c) ==
  /\ c.lane = "save" /\ c.live
  /\ LET u == [page EXCEPT !.calls = EndedMutation(@, c)]
     IN \E o \in OutcomesOf(c) :
          page' = IF o.kind = "data"
                  THEN LoadTarget([u EXCEPT !.toldConfig = Latest(@, o.value.value)], 1, "save")
                  ELSE Failed([u EXCEPT !.saving = FALSE, !.error = o], "save")

ReceiveDeactivate(c) ==
  /\ c.lane = "deactivate" /\ c.live
  /\ LET u == [page EXCEPT !.calls = EndedMutation(@, c)]
     IN \E o \in OutcomesOf(c) :
          page' = IF o.kind = "data"
                  THEN LoadTarget(u, c.arg.page, "deactivate")
                  ELSE Failed([u EXCEPT !.saving = FALSE, !.error = o], "deactivate")

ReceiveSnapshot(c) ==
  /\ c.lane = "snapshot" /\ c.live
  /\ LET u == [page EXCEPT !.calls = EndedMutation(@, c)]
     IN \E o \in OutcomesOf(c) :
          page' = IF o.kind = "data"
                  THEN LoadVersions([u EXCEPT !.versions.page = 1,
                                              !.toldVersions = Latest(@, o.value.value)],
                                    1, "snapshot")
                  ELSE Failed([u EXCEPT !.versioning = FALSE, !.versions.error = o], "snapshot")
-----------------------------------------------------------------------------
(* The target has a version, and may have been updated since.              *)
Init ==
  /\ kind \in {"target", "evaluator"}
  /\ targetActive \in BOOLEAN
  /\ captured = <<0>> /\ config \in {0, 1}
  /\ others = 0
  /\ page = Mounted

User ==
  /\ save \/ saveEvaluator \/ deactivate \/ snapshot \/ loadVersionPage \/ Retry
  /\ UNCHANGED <<kind, targetActive, config, captured, others>>

Receive ==
  /\ \E c \in page.calls :
       \/ ReceiveTarget(c) \/ ReceiveVersions(c)
       \/ ReceiveSave(c) \/ ReceiveDeactivate(c) \/ ReceiveSnapshot(c)
  /\ UNCHANGED <<kind, targetActive, config, captured, others>>

Late == Cardinality({c \in page.calls : ~c.live})

Next ==
  \/ (User \/ Receive) /\ Late' <= MaxLate /\ page'.acts + others <= MaxActs
  \/ Elsewhere
  \/ \E c \in page.calls :
       ServeRead(c) \/ ServeSave(c) \/ ServeDeactivate(c) \/ ServeSnapshot(c)
-----------------------------------------------------------------------------
Lane == {"target", "versions", "save", "deactivate", "snapshot"}

TypeOK ==
  /\ targetActive \in BOOLEAN /\ config \in 0..MaxActs + 1
  /\ \A i \in DOMAIN captured : captured[i] \in 0..config
  /\ page.target = None \/ page.target.config \in 0..config
  /\ page.versions.total \in 0..Len(captured)
  /\ \A l \in Lane : Cardinality({c \in page.calls : c.lane = l /\ c.live}) <= 1
  /\ \A c \in page.calls : c.lane = "target" => c.live

(* No request is in flight for the list, no snapshot is taken, and no      *)
(* error is shown.                                                         *)
AtRest ==
  ~page.versions.loading /\ ~page.versions.refreshing /\ ~page.versioning
    /\ page.versions.error = None

ListsAreOfThePage == AtRest => page.versions.rows = page.versions.page

ChangesAreShown ==
  /\ AtRest => page.versions.total >= page.toldVersions
  /\ Shown /\ ~page.saving /\ page.error = None => page.target.config >= page.toldConfig

FailuresAreShown ==
  /\ page.failed \cap {"save", "deactivate"} # {} => page.error # None
  /\ "snapshot" \in page.failed => page.versions.error # None
=============================================================================
