-------------------------- MODULE DatasetLifecycle --------------------------
(***************************************************************************)
(* One dataset of one project: its evaluation cases (create, update,       *)
(* approve, deprecate), its immutable versions (create_version) and the    *)
(* deactivation of the dataset and of the project.                         *)
(*                                                                         *)
(* A session is one HTTP request with its own AsyncSession.  Every         *)
(* statement it sends to PostgreSQL is a step, so other requests run       *)
(* between any two of its reads and between its last read and its write.   *)
(* Isolation is READ COMMITTED: a statement sees what is committed when it *)
(* starts, and the ORM keeps the rows it has read (its identity map).      *)
(* What a session flushes is its own before the commit, and lost if the    *)
(* session ends first; its last flush and the commit are one step.         *)
(***************************************************************************)
EXTENDS Naturals

CONSTANTS Session,   \* concurrent requests
          Case,      \* the case keys of the dataset; a key names one row
          Content,   \* values of the editable columns of a case, taken together
          Canon,     \* the normal form that _canonical_snapshot hashes
          None

ASSUME CanonAssumption == Canon \in [Content -> Content]
ASSUME NoneAssumption == None \notin Content \cup Session \cup Case

VARIABLES projectActive,  \* projects.is_active
          datasetActive,  \* datasets.is_active
          cases,          \* evaluation_cases of the dataset, by key
          versions,       \* dataset_versions with their dataset_version_cases
          lock,           \* the session that holds the dataset row FOR UPDATE
          req             \* what each session is doing and has read

vars == <<projectActive, datasetActive, cases, versions, lock, req>>
-----------------------------------------------------------------------------
(* Rows, snapshots and requests. *)

Row == [status : {"ABSENT", "DRAFT", "APPROVED", "DEPRECATED"},
        content : Content \cup {None}]
NoRow == [status |-> "ABSENT", content |-> None]

\* The rows of a version: the content of each captured case, None elsewhere.
Snapshot == [Case -> Content \cup {None}]
NoCases == [c \in Case |-> None]

\* The content hash: two snapshots have the same hash exactly when their
\* normal forms are equal (SHA-256 is taken to be collision free).
Canonical(rows) ==
  [c \in Case |-> IF rows[c] = None THEN None ELSE Canon[rows[c]]]

\* Mutant: the status filter of the query is forgotten.
ApprovedCases_AnyStatus == [c \in Case |-> cases[c].content]

\* select ... where status = APPROVED
ApprovedCases ==
  [c \in Case |-> IF cases[c].status = "APPROVED" THEN cases[c].content ELSE None]

Version == [number : Nat, hash : Snapshot, rows : Snapshot]

CaseEdit == {"create", "update"}
CaseTransition == {"approve", "deprecate"}
Op == CaseEdit \cup CaseTransition
        \cup {"create_version", "close_dataset", "close_project"}

\* The statement each handler sends first.
FirstStep(op) ==
  CASE op \in {"create", "close_dataset"} -> "dataset"
    [] op \in {"update"} \cup CaseTransition -> "case"
    [] op = "create_version" -> "lock"
    [] op = "close_project" -> "project"

Step == {"idle", "case", "dataset", "project", "duplicate", "write",
         "lock", "select", "hash", "number", "insert", "rows"}

Request == [op : Op \cup {"none"}, step : Step,
            case : Case \cup {None}, payload : Content \cup {None},
            row : Row, active : BOOLEAN, rows : Snapshot, number : Nat]

Idle == [op |-> "none", step |-> "idle", case |-> None, payload |-> None,
         row |-> NoRow, active |-> FALSE, rows |-> NoCases, number |-> 0]

Init ==
  /\ projectActive = TRUE
  /\ datasetActive = TRUE
  /\ cases = [c \in Case |-> NoRow]
  /\ versions = {}
  /\ lock = None
  /\ req = [s \in Session |-> Idle]

\* Mutant: a path that neither commits nor closes the session.
End_KeepsLock(s) == req' = [req EXCEPT ![s] = Idle] /\ UNCHANGED lock

\* The answer is sent and the session closed: its locks go.
End(s) ==
  /\ req' = [req EXCEPT ![s] = Idle]
  /\ lock' = IF lock = s THEN None ELSE lock

Advance(s, step) == req' = [req EXCEPT ![s].step = step] /\ UNCHANGED lock

At(s, step) == req[s].step = step
-----------------------------------------------------------------------------
(* A request arrives at its router. *)

Start(s) ==
  /\ At(s, "idle")
  /\ \E op \in Op, c \in Case \cup {None}, x \in Content \cup {None} :
       /\ (c # None) <=> op \in CaseEdit \cup CaseTransition
       /\ (x # None) <=> op \in CaseEdit
       /\ req' = [req EXCEPT ![s] = [Idle EXCEPT !.op = op, !.case = c,
                                       !.payload = x, !.step = FirstStep(op)]]
  /\ UNCHANGED <<projectActive, datasetActive, cases, versions, lock>>

(* The reads that guard a request. *)

\* get_case; update_case looks at the status at once.
LoadCase(s) ==
  /\ At(s, "case")
  /\ LET row == cases[req[s].case] IN
       IF \/ row.status = "ABSENT"
          \/ req[s].op = "update" /\ row.status # "DRAFT"
         THEN End(s)
         ELSE /\ req' = [req EXCEPT ![s].row = row, ![s].step = "dataset"]
              /\ UNCHANGED lock
  /\ UNCHANGED <<projectActive, datasetActive, cases, versions>>

LoadDataset(s) ==
  /\ At(s, "dataset")
  /\ req' = [req EXCEPT ![s].active = datasetActive, ![s].step = "project"]
  /\ UNCHANGED <<projectActive, datasetActive, cases, versions, lock>>

\* Mutant: the check of datasets.is_active is dropped.
Rejected_ClosedDatasetPasses(s) ==
  \/ ~projectActive
  \/ req[s].op = "approve" /\ req[s].row.status # "DRAFT"
  \/ req[s].op = "deprecate" /\ req[s].row.status = "DEPRECATED"

\* The checks that follow the last read, on the rows as they were read.
Rejected(s) ==
  \/ ~projectActive
  \/ ~req[s].active /\ req[s].op # "close_project"
  \/ req[s].op = "approve" /\ req[s].row.status # "DRAFT"
  \/ req[s].op = "deprecate" /\ req[s].row.status = "DEPRECATED"

AfterChecks(op) ==
  CASE op = "create" -> "duplicate"
    [] op = "create_version" -> "select"
    [] OTHER -> "write"

LoadProject(s) ==
  /\ At(s, "project")
  /\ IF Rejected(s) THEN End(s) ELSE Advance(s, AfterChecks(req[s].op))
  /\ UNCHANGED <<projectActive, datasetActive, cases, versions>>

CheckDuplicateKey(s) ==
  /\ At(s, "duplicate")
  /\ IF cases[req[s].case].status # "ABSENT" THEN End(s) ELSE Advance(s, "write")
  /\ UNCHANGED <<projectActive, datasetActive, cases, versions>>
-----------------------------------------------------------------------------
(* The writes that end a request. *)

\* The insert takes a KEY SHARE lock on the dataset row (foreign key), which
\* waits for FOR UPDATE.  A key taken meanwhile is a unique violation that
\* nobody catches: the request fails and nothing is stored.
InsertCase(s) ==
  /\ At(s, "write") /\ req[s].op = "create"
  /\ lock = None
  /\ cases' = IF cases[req[s].case].status # "ABSENT"
                THEN cases
                ELSE [cases EXCEPT ![req[s].case] =
                        [status |-> "DRAFT", content |-> req[s].payload]]
  /\ End(s)
  /\ UNCHANGED <<projectActive, datasetActive, versions>>

\* Only attributes that differ from what was read are written, to whatever
\* the row is by now: UPDATE ... WHERE id = ... has no condition on status.
SaveContent(s) ==
  /\ At(s, "write") /\ req[s].op = "update"
  /\ cases' = IF req[s].payload = req[s].row.content
                THEN cases
                ELSE [cases EXCEPT ![req[s].case].content = req[s].payload]
  /\ End(s)
  /\ UNCHANGED <<projectActive, datasetActive, versions>>

SaveStatus(s) ==
  /\ At(s, "write") /\ req[s].op \in CaseTransition
  /\ cases' = [cases EXCEPT ![req[s].case].status =
                 IF req[s].op = "approve" THEN "APPROVED" ELSE "DEPRECATED"]
  /\ End(s)
  /\ UNCHANGED <<projectActive, datasetActive, versions>>

\* update_dataset with is_active = False waits for the row lock.
CloseDataset(s) ==
  /\ At(s, "write") /\ req[s].op = "close_dataset"
  /\ lock = None
  /\ datasetActive' = FALSE
  /\ End(s)
  /\ UNCHANGED <<projectActive, cases, versions>>

\* update_project with is_active = False.
CloseProject(s) ==
  /\ At(s, "write") /\ req[s].op = "close_project"
  /\ projectActive' = FALSE
  /\ End(s)
  /\ UNCHANGED <<datasetActive, cases, versions>>
-----------------------------------------------------------------------------
(* create_version: one transaction that starts by locking the dataset. *)

\* Mutant: a plain SELECT, without FOR UPDATE.
LockDataset_PlainSelect(s) ==
  /\ At(s, "lock")
  /\ req' = [req EXCEPT ![s].active = datasetActive, ![s].step = "project"]
  /\ UNCHANGED <<projectActive, datasetActive, cases, versions, lock>>

LockDataset(s) ==
  /\ At(s, "lock")
  /\ lock = None
  /\ lock' = s
  /\ req' = [req EXCEPT ![s].active = datasetActive, ![s].step = "project"]
  /\ UNCHANGED <<projectActive, datasetActive, cases, versions>>

SelectApproved(s) ==
  /\ At(s, "select")
  /\ IF ApprovedCases = NoCases
       THEN End(s)
       ELSE /\ req' = [req EXCEPT ![s].rows = ApprovedCases, ![s].step = "hash"]
            /\ UNCHANGED lock
  /\ UNCHANGED <<projectActive, datasetActive, cases, versions>>

CheckHash(s) ==
  /\ At(s, "hash")
  /\ IF \E v \in versions : v.hash = Canonical(req[s].rows)
       THEN End(s)
       ELSE Advance(s, "number")
  /\ UNCHANGED <<projectActive, datasetActive, cases, versions>>

\* coalesce(max(version), 0)
IsMaxVersion(m) ==
  /\ \A v \in versions : v.number <= m
  /\ m = 0 \/ \E v \in versions : v.number = m

\* Mutant: max() of no rows is NULL, not 0.
ReadMaxVersion_NoCoalesce(s) ==
  /\ At(s, "number")
  /\ \E m \in {0} \cup {v.number : v \in versions} :
       /\ IsMaxVersion(m)
       /\ req' = [req EXCEPT ![s].number = IF versions = {} THEN None ELSE m + 1,
                             ![s].step = "insert"]
  /\ UNCHANGED <<projectActive, datasetActive, cases, versions, lock>>

ReadMaxVersion(s) ==
  /\ At(s, "number")
  /\ \E m \in {0} \cup {v.number : v \in versions} :
       /\ IsMaxVersion(m)
       /\ req' = [req EXCEPT ![s].number = m + 1, ![s].step = "insert"]
  /\ UNCHANGED <<projectActive, datasetActive, cases, versions, lock>>

\* The two unique constraints of dataset_versions.
VersionConflict(s) ==
  \E v \in versions :
    v.number = req[s].number \/ v.hash = Canonical(req[s].rows)

\* The version row is flushed; a unique violation is answered with
\* VERSION_NUMBER_CONFLICT after a rollback.
InsertVersion(s) ==
  /\ At(s, "insert")
  /\ IF VersionConflict(s) THEN End(s) ELSE Advance(s, "rows")
  /\ UNCHANGED <<projectActive, datasetActive, cases, versions>>

\* Mutant: the case rows are copied by a second query, INSERT ... SELECT.
InsertRows_ReadAgain(s) ==
  /\ At(s, "rows")
  /\ versions' = versions \cup {[number |-> req[s].number,
                                hash |-> Canonical(req[s].rows),
                                rows |-> ApprovedCases]}
  /\ End(s)
  /\ UNCHANGED <<projectActive, datasetActive, cases>>

\* The rows of the captured cases, then the commit of version and rows.
InsertRows(s) ==
  /\ At(s, "rows")
  /\ versions' = versions \cup {[number |-> req[s].number,
                                hash |-> Canonical(req[s].rows),
                                rows |-> req[s].rows]}
  /\ End(s)
  /\ UNCHANGED <<projectActive, datasetActive, cases>>
-----------------------------------------------------------------------------
\* The client goes away, the process dies or the connection is lost: the
\* session is closed without commit.
Abort(s) ==
  /\ ~At(s, "idle")
  /\ End(s)
  /\ UNCHANGED <<projectActive, datasetActive, cases, versions>>

Proceed(s) ==
  \/ LoadCase(s) \/ LoadDataset(s) \/ LoadProject(s) \/ CheckDuplicateKey(s)
  \/ InsertCase(s) \/ SaveContent(s) \/ SaveStatus(s)
  \/ CloseDataset(s) \/ CloseProject(s)
  \/ LockDataset(s) \/ SelectApproved(s) \/ CheckHash(s)
  \/ ReadMaxVersion(s) \/ InsertVersion(s) \/ InsertRows(s)

Next == \E s \in Session : Start(s) \/ Proceed(s) \/ Abort(s)

\* A request that can go on does.  Row locks are queued by PostgreSQL, so a
\* request that waits for one again and again gets it: strong fairness.
Fairness == \A s \in Session : SF_vars(Proceed(s))

Safe == Init /\ [][Next]_vars
Spec == Safe /\ Fairness
-----------------------------------------------------------------------------
(* Properties. *)

TypeOK ==
  /\ projectActive \in BOOLEAN
  /\ datasetActive \in BOOLEAN
  /\ cases \in [Case -> Row]
  /\ versions \subseteq Version
  /\ lock \in Session \cup {None}
  /\ req \in [Session -> Request]
  /\ \A s \in Session :
       /\ req[s].op \in CaseEdit \cup CaseTransition <=> req[s].case # None
       /\ At(s, "case") => req[s].op \in {"update"} \cup CaseTransition

\* create_version never ends in VERSION_NUMBER_CONFLICT: the row lock makes the
\* handler for the unique violation (dataset_version_service.py:177-181) dead.
NoVersionConflict == \A s \in Session : At(s, "insert") => ~VersionConflict(s)

\* The hash stored with a version is the hash of the rows stored with it, also
\* when cases are approved, edited or deprecated while the version is built, and
\* when its transaction ends between the version and its rows.
HashDescribesRows == \A v \in versions : v.hash = Canonical(v.rows)

\* A case that a version has captured is never a draft again: an update that
\* read the case before its approval cannot undo the approval.
VersionedCaseIsNoDraft ==
  \A v \in versions, c \in Case :
    v.rows[c] # None => cases[c].status \in {"APPROVED", "DEPRECATED"}

\* The versions of a dataset are a version registry: numbered 1, 2, 3, ...,
\* no content twice, nothing removed, nothing added after deactivation.
Registry == INSTANCE VersionRegistry WITH
  Form <- Snapshot,
  published <- {[number |-> v.number, form |-> v.hash] : v \in versions},
  open <- datasetActive
IsVersionRegistry == Registry!Spec

\* Every request is answered: no request waits for the dataset row for ever.
EveryRequestEnds == \A s \in Session : ~At(s, "idle") ~> At(s, "idle")

\* README.md:139: an approved or deprecated evaluation case cannot be changed.
ApprovedCaseIsFrozen ==
  [][\A c \in Case : cases[c].status \in {"APPROVED", "DEPRECATED"}
                       => cases'[c].content = cases[c].content]_vars
=============================================================================
