----------------------- MODULE DatasetLifecycle_proofs -----------------------
(***************************************************************************)
(* Proofs about DatasetLifecycle for every set of sessions, cases and      *)
(* contents.  The inductive invariant IInv says what the row lock is for:  *)
(* between LockDataset and the end of the transaction the other sessions   *)
(* change neither the dataset row nor its versions, so that what           *)
(* create_version has read is still true when it inserts.                  *)
(***************************************************************************)
EXTENDS DatasetLifecycle, TLAPS

Building == {"select", "hash", "number", "insert", "rows"}

\* A create_version transaction past its first statement holds the lock.
HoldsLock ==
  \A s \in Session :
    /\ req[s].op = "create_version" /\ req[s].step \in {"project"} \cup Building
         => lock = s
    /\ req[s].step \in Building => req[s].op = "create_version"
    /\ req[s].step = "dataset" => req[s].op # "create_version"

\* is_active as read under the lock is is_active now.
ActiveIsCurrent ==
  \A s \in Session :
    /\ req[s].op = "create_version" /\ req[s].step = "project"
         => req[s].active = datasetActive
    /\ req[s].step \in Building => datasetActive

\* Passed checks stay passed until the insert.
ChecksHold ==
  \A s \in Session :
    /\ req[s].step \in {"number", "insert", "rows"} =>
         \A v \in versions : v.hash # Canonical(req[s].rows)
    /\ req[s].step \in {"insert", "rows"} =>
         /\ req[s].number # 0
         /\ \A v \in versions : v.number < req[s].number
         /\ req[s].number = 1 \/ \E v \in versions : v.number = req[s].number - 1

\* Version numbers have no gap.
NoGap ==
  \A v \in versions : \A m \in 1..v.number : \E w \in versions : w.number = m

\* Rows being captured come from cases that have left DRAFT for good.
CapturedIsNoDraft ==
  \A s \in Session, c \in Case :
    req[s].step \in {"hash", "number", "insert", "rows"} /\ req[s].rows[c] # None
      => cases[c].status \in {"APPROVED", "DEPRECATED"}

IInv == /\ TypeOK /\ HoldsLock /\ ActiveIsCurrent /\ ChecksHold /\ NoGap
        /\ HashDescribesRows /\ CapturedIsNoDraft /\ VersionedCaseIsNoDraft
-----------------------------------------------------------------------------
LEMMA IdleType == Idle \in Request
  BY DEF Idle, Request, Row, NoRow, NoCases, Snapshot, Step

LEMMA CanonicalType ==
  ASSUME NEW rows \in Snapshot PROVE Canonical(rows) \in Snapshot
  BY CanonAssumption DEF Canonical, Snapshot

LEMMA ApprovedCasesType == TypeOK => ApprovedCases \in Snapshot
  BY DEF TypeOK, ApprovedCases, Snapshot, Row

\* The part of TypeOK that a step of one session can disturb.
RequestOK(r) ==
  /\ r \in Request
  /\ r.op \in CaseEdit \cup CaseTransition <=> r.case # None
  /\ r.step = "case" => r.op \in {"update"} \cup CaseTransition

LEMMA TypeOfRequest ==
  ASSUME TypeOK, NEW s \in Session PROVE RequestOK(req[s])
  BY DEF TypeOK, RequestOK, At

\* A step that replaces one well-formed request by another keeps the table
\* well-formed.
LEMMA UpdateType ==
  ASSUME TypeOK, NEW s \in Session, NEW r, RequestOK(r),
         req' = [req EXCEPT ![s] = r]
  PROVE  /\ req' \in [Session -> Request]
         /\ \A t \in Session :
              /\ req'[t].op \in CaseEdit \cup CaseTransition <=> req'[t].case # None
              /\ req'[t].step = "case" => req'[t].op \in {"update"} \cup CaseTransition
<1>1. \A t \in Session : req'[t] = IF t = s THEN r ELSE req[t]
  BY DEF TypeOK
<1>2. \A t \in Session : RequestOK(req'[t])
  BY <1>1, TypeOfRequest
<1>. QED
  BY <1>2 DEF RequestOK, TypeOK

LEMMA IdleOK == RequestOK(Idle)
  BY IdleType DEF RequestOK, Idle, CaseEdit, CaseTransition

\* Ending a request, or sending the next statement, keeps the types.
LEMMA EndType ==
  ASSUME TypeOK, NEW s \in Session, End(s),
         projectActive' \in BOOLEAN, datasetActive' \in BOOLEAN,
         cases' \in [Case -> Row], versions' \subseteq Version
  PROVE  TypeOK'
<1>1. lock' \in Session \cup {None}
  BY DEF TypeOK, End
<1>2. req' = [req EXCEPT ![s] = Idle]
  BY DEF End
<1>. QED
  BY <1>1, <1>2, IdleOK, UpdateType DEF TypeOK, At

LEMMA ReplaceType ==
  ASSUME TypeOK, NEW s \in Session, NEW r, RequestOK(r),
         req' = [req EXCEPT ![s] = r], lock' \in Session \cup {None},
         UNCHANGED <<projectActive, datasetActive, cases, versions>>
  PROVE  TypeOK'
  BY UpdateType DEF TypeOK, At

LEMMA AdvanceType ==
  ASSUME TypeOK, NEW s \in Session, NEW step \in Step \ {"case"}, Advance(s, step),
         UNCHANGED <<projectActive, datasetActive, cases, versions>>
  PROVE  TypeOK'
<1>1. RequestOK([req[s] EXCEPT !.step = step])
  BY TypeOfRequest DEF RequestOK, Request
<1>2. req' = [req EXCEPT ![s] = [req[s] EXCEPT !.step = step]]
  BY DEF Advance
<1>. QED
  BY <1>1, <1>2, ReplaceType DEF Advance, TypeOK

LEMMA InitType == Init => TypeOK
  BY IdleOK DEF Init, TypeOK, Row, NoRow, RequestOK, At

LEMMA StartType ==
  ASSUME TypeOK, NEW s \in Session, Start(s) PROVE TypeOK'
<1>1. PICK op \in Op, c \in Case \cup {None}, x \in Content \cup {None} :
        /\ (c # None) <=> op \in CaseEdit \cup CaseTransition
        /\ req' = [req EXCEPT ![s] = [Idle EXCEPT !.op = op, !.case = c,
                                        !.payload = x, !.step = FirstStep(op)]]
  BY DEF Start
<1> DEFINE r == [Idle EXCEPT !.op = op, !.case = c, !.payload = x,
                             !.step = FirstStep(op)]
<1>2. FirstStep(op) \in Step
  BY DEF FirstStep, Op, CaseEdit, CaseTransition, Step
<1>3. FirstStep(op) = "case" => op \in {"update"} \cup CaseTransition
  BY DEF FirstStep, Op, CaseEdit, CaseTransition
<1>4. RequestOK(r)
  BY <1>1, <1>2, <1>3, IdleType DEF RequestOK, Request, Idle
<1>. QED
  BY <1>1, <1>4, ReplaceType DEF Start, TypeOK

LEMMA ReadType ==
  ASSUME TypeOK, NEW s \in Session,
         \/ LoadCase(s) \/ LoadDataset(s) \/ LoadProject(s) \/ CheckDuplicateKey(s)
         \/ LockDataset(s) \/ SelectApproved(s) \/ CheckHash(s) \/ ReadMaxVersion(s)
         \/ InsertVersion(s) \/ Abort(s)
  PROVE  TypeOK'
<1> USE TypeOfRequest DEF RequestOK
<1>1. CASE LoadCase(s)
  <2>1. CASE End(s)
    BY <1>1, <2>1, EndType DEF LoadCase, TypeOK
  <2>2. CASE /\ req' = [req EXCEPT ![s].row = cases[req[s].case], ![s].step = "dataset"]
             /\ UNCHANGED lock
    <3> DEFINE r == [req[s] EXCEPT !.row = cases[req[s].case], !.step = "dataset"]
    <3>1. req[s].case \in Case
      BY <1>1 DEF LoadCase, At, Request, CaseEdit
    <3>2. RequestOK(r)
      BY <3>1 DEF Request, Step, TypeOK
    <3>3. req' = [req EXCEPT ![s] = r]
      BY <2>2
    <3>. QED BY <1>1, <2>2, <3>2, <3>3, ReplaceType DEF LoadCase, TypeOK
  <2>. QED BY <1>1, <2>1, <2>2 DEF LoadCase
<1>2. CASE LoadDataset(s)
  <2> DEFINE r == [req[s] EXCEPT !.active = datasetActive, !.step = "project"]
  <2>1. RequestOK(r)
    BY DEF Request, Step, TypeOK
  <2>2. req' = [req EXCEPT ![s] = r]
    BY <1>2 DEF LoadDataset
  <2>. QED BY <1>2, <2>1, <2>2, ReplaceType DEF LoadDataset, TypeOK
<1>3. CASE LoadProject(s)
  <2>1. AfterChecks(req[s].op) \in Step \ {"case"}
    BY DEF AfterChecks, Step
  <2>. QED BY <1>3, <2>1, EndType, AdvanceType DEF LoadProject, TypeOK
<1>4. CASE CheckDuplicateKey(s)
  <2>1. "write" \in Step \ {"case"}
    BY DEF Step
  <2>. QED BY <1>4, <2>1, EndType, AdvanceType DEF CheckDuplicateKey, TypeOK
<1>5. CASE LockDataset(s)
  <2> DEFINE r == [req[s] EXCEPT !.active = datasetActive, !.step = "project"]
  <2>1. RequestOK(r)
    BY DEF Request, Step, TypeOK
  <2>2. req' = [req EXCEPT ![s] = r]
    BY <1>5 DEF LockDataset
  <2>. QED BY <1>5, <2>1, <2>2, ReplaceType DEF LockDataset, TypeOK
<1>6. CASE SelectApproved(s)
  <2>1. CASE End(s)
    BY <1>6, <2>1, EndType DEF SelectApproved, TypeOK
  <2>2. CASE /\ req' = [req EXCEPT ![s].rows = ApprovedCases, ![s].step = "hash"]
             /\ UNCHANGED lock
    <3> DEFINE r == [req[s] EXCEPT !.rows = ApprovedCases, !.step = "hash"]
    <3>1. RequestOK(r)
      BY ApprovedCasesType DEF Request, Step
    <3>2. req' = [req EXCEPT ![s] = r]
      BY <2>2
    <3>. QED BY <1>6, <2>2, <3>1, <3>2, ReplaceType DEF SelectApproved, TypeOK
  <2>. QED BY <1>6, <2>1, <2>2 DEF SelectApproved
<1>7. CASE CheckHash(s)
  <2>1. "number" \in Step \ {"case"}
    BY DEF Step
  <2>. QED BY <1>7, <2>1, EndType, AdvanceType DEF CheckHash, TypeOK
<1>8. CASE ReadMaxVersion(s)
  <2>1. PICK m \in {0} \cup {v.number : v \in versions} :
          req' = [req EXCEPT ![s].number = m + 1, ![s].step = "insert"]
    BY <1>8 DEF ReadMaxVersion
  <2> DEFINE r == [req[s] EXCEPT !.number = m + 1, !.step = "insert"]
  <2>2. m + 1 \in Nat
    BY DEF TypeOK, Version
  <2>3. RequestOK(r)
    BY <2>2 DEF Request, Step
  <2>4. req' = [req EXCEPT ![s] = r]
    BY <2>1
  <2>. QED BY <1>8, <2>3, <2>4, ReplaceType DEF ReadMaxVersion, TypeOK
<1>9. CASE Abort(s)
  BY <1>9, EndType DEF Abort, TypeOK
<1>10. CASE InsertVersion(s)
  <2>1. "rows" \in Step \ {"case"}
    BY DEF Step
  <2>. QED BY <1>10, <2>1, EndType, AdvanceType DEF InsertVersion, TypeOK
<1>. QED
  BY <1>1, <1>2, <1>3, <1>4, <1>5, <1>6, <1>7, <1>8, <1>9, <1>10

LEMMA WriteType ==
  ASSUME TypeOK, NEW s \in Session,
         \/ InsertCase(s) \/ SaveContent(s) \/ SaveStatus(s)
         \/ CloseDataset(s) \/ CloseProject(s) \/ InsertRows(s)
  PROVE  TypeOK'
<1> USE TypeOfRequest DEF RequestOK
<1>1. CASE InsertCase(s)
  <2>1. [status |-> "DRAFT", content |-> req[s].payload] \in Row
    BY DEF Row, Request
  <2> DEFINE k == req[s].case
             d == [status |-> "DRAFT", content |-> req[s].payload]
  <2>2. cases' = cases \/ cases' = [cases EXCEPT ![k] = d]
    BY <1>1 DEF InsertCase
  <2>3. [cases EXCEPT ![k] = d] \in [Case -> Row]
    BY <2>1 DEF TypeOK
  <2>4. cases' \in [Case -> Row]
    BY <2>2, <2>3 DEF TypeOK
  <2>. QED BY <1>1, <2>4, EndType DEF InsertCase, TypeOK
<1>2. CASE SaveContent(s)
  <2> DEFINE k == req[s].case
             d == [cases[k] EXCEPT !.content = req[s].payload]
  <2>1. k \in Case
    BY <1>2 DEF SaveContent, Request, CaseEdit
  <2>2. cases' = cases \/ cases' = [cases EXCEPT ![k] = d]
    BY <1>2 DEF SaveContent
  <2>3. d \in Row
    BY <2>1 DEF TypeOK, Row, Request
  <2>4. cases' \in [Case -> Row]
    BY <2>1, <2>2, <2>3 DEF TypeOK
  <2>. QED BY <1>2, <2>4, EndType DEF SaveContent, TypeOK
<1>3. CASE SaveStatus(s)
  <2> DEFINE k == req[s].case
             d == [cases[k] EXCEPT !.status = IF req[s].op = "approve"
                                                THEN "APPROVED" ELSE "DEPRECATED"]
  <2>1. k \in Case
    BY <1>3 DEF SaveStatus, Request
  <2>2. cases' = [cases EXCEPT ![k] = d]
    BY <1>3 DEF SaveStatus
  <2>3. d \in Row
    BY <2>1 DEF TypeOK, Row
  <2>4. cases' \in [Case -> Row]
    BY <2>1, <2>2, <2>3 DEF TypeOK
  <2>. QED BY <1>3, <2>4, EndType DEF SaveStatus, TypeOK
<1>4. CASE CloseDataset(s)
  BY <1>4, EndType DEF CloseDataset, TypeOK
<1>5. CASE CloseProject(s)
  BY <1>5, EndType DEF CloseProject, TypeOK
<1>6. CASE InsertRows(s)
  <2> DEFINE v == [number |-> req[s].number, hash |-> Canonical(req[s].rows),
                   rows |-> req[s].rows]
  <2>1. req[s].rows \in Snapshot /\ req[s].number \in Nat
    BY DEF Request
  <2>2. v \in Version
    BY <2>1, CanonicalType DEF Version
  <2>. QED BY <1>6, <2>2, EndType DEF InsertRows, TypeOK
<1>. QED
  BY <1>1, <1>2, <1>3, <1>4, <1>5, <1>6

LEMMA StepType == TypeOK /\ [Next]_vars => TypeOK'
<1>1. ASSUME TypeOK, NEW s \in Session, Start(s) \/ Proceed(s) \/ Abort(s)
      PROVE  TypeOK'
  BY <1>1, StartType, ReadType, WriteType DEF Proceed
<1>2. ASSUME TypeOK, UNCHANGED vars PROVE TypeOK'
  BY <1>2 DEF TypeOK, vars, At
<1>. QED
  BY <1>1, <1>2 DEF Next

\* The rows, the lock and every request always have their types.
THEOREM TypeCorrect == Spec => []TypeOK
<1>. QED
  BY InitType, StepType, PTL DEF Spec, Safe
-----------------------------------------------------------------------------
(* What a step of session s leaves alone. *)

LEMMA Frame ==
  ASSUME TypeOK, NEW s \in Session, Start(s) \/ Proceed(s) \/ Abort(s),
         NEW t \in Session, t # s
  PROVE  req'[t] = req[t]
<1> USE DEF TypeOK, End, Advance
<1>1. CASE Start(s)
  BY <1>1 DEF Start
<1>2. CASE LoadCase(s) \/ LoadDataset(s) \/ LoadProject(s) \/ CheckDuplicateKey(s)
  BY <1>2 DEF LoadCase, LoadDataset, LoadProject, CheckDuplicateKey
<1>3. CASE InsertCase(s) \/ SaveContent(s) \/ SaveStatus(s)
             \/ CloseDataset(s) \/ CloseProject(s) \/ InsertVersion(s) \/ InsertRows(s)
             \/ Abort(s)
  BY <1>3 DEF InsertCase, SaveContent, SaveStatus, CloseDataset, CloseProject,
              InsertVersion, InsertRows, Abort
<1>4. CASE LockDataset(s) \/ SelectApproved(s) \/ CheckHash(s) \/ ReadMaxVersion(s)
  BY <1>4 DEF LockDataset, SelectApproved, CheckHash, ReadMaxVersion
<1>. QED
  BY <1>1, <1>2, <1>3, <1>4 DEF Proceed

\* The lock moves only between nobody and s.
LEMMA LockStep ==
  ASSUME TypeOK, NEW s \in Session, Start(s) \/ Proceed(s) \/ Abort(s)
  PROVE  lock' = lock \/ lock = None \/ lock = s
  BY DEF Proceed, Start, LoadCase, LoadDataset, LoadProject, CheckDuplicateKey,
         InsertCase, SaveContent, SaveStatus, CloseDataset, CloseProject,
         InsertVersion, InsertRows, Abort, LockDataset, SelectApproved, CheckHash,
         ReadMaxVersion, End, Advance

\* The dataset is deactivated only while nobody holds its row.
LEMMA DatasetStep ==
  ASSUME NEW s \in Session, Start(s) \/ Proceed(s) \/ Abort(s)
  PROVE  datasetActive' = datasetActive \/ (lock = None /\ CloseDataset(s))
  BY DEF Proceed, Start, LoadCase, LoadDataset, LoadProject, CheckDuplicateKey,
         InsertCase, SaveContent, SaveStatus, CloseDataset, CloseProject,
         InsertVersion, InsertRows, Abort, LockDataset, SelectApproved, CheckHash,
         ReadMaxVersion

LEMMA VersionStep ==
  ASSUME NEW s \in Session, Start(s) \/ Proceed(s) \/ Abort(s)
  PROVE  versions' = versions \/ InsertRows(s)
  BY DEF Proceed, Start, LoadCase, LoadDataset, LoadProject, CheckDuplicateKey,
         InsertCase, SaveContent, SaveStatus, CloseDataset, CloseProject,
         InsertVersion, Abort, LockDataset, SelectApproved, CheckHash, ReadMaxVersion

\* No step takes a case that has left DRAFT back to it.
LEMMA StatusStep ==
  ASSUME TypeOK, NEW s \in Session, Start(s) \/ Proceed(s) \/ Abort(s),
         NEW c \in Case, cases[c].status \in {"APPROVED", "DEPRECATED"}
  PROVE  cases'[c].status \in {"APPROVED", "DEPRECATED"}
<1>1. CASE InsertCase(s)
  BY <1>1 DEF InsertCase, TypeOK, Row
<1>2. CASE SaveContent(s)
  BY <1>2 DEF SaveContent, TypeOK, Row
<1>3. CASE SaveStatus(s)
  BY <1>3 DEF SaveStatus, TypeOK, Row
<1>4. CASE cases' = cases
  BY <1>4
<1>. QED
  BY <1>1, <1>2, <1>3, <1>4 DEF Proceed, Start, LoadCase, LoadDataset, LoadProject,
     CheckDuplicateKey, CloseDataset, CloseProject, InsertVersion, InsertRows,
     Abort, LockDataset, SelectApproved, CheckHash, ReadMaxVersion

\* The steps after which s is past the first statement of create_version, or
\* at a step it shares with create_version.
LEMMA OwnStep ==
  ASSUME TypeOK, NEW s \in Session, Start(s) \/ Proceed(s) \/ Abort(s)
  PROVE  \/ req'[s].step \notin {"project", "dataset"} \cup Building
         \/ req'[s].step \in {"project", "dataset"} /\ req'[s].op # "create_version"
         \/ LoadDataset(s)
         \/ LockDataset(s)
         \/ /\ At(s, "project") /\ ~Rejected(s) /\ req[s].op = "create_version"
            /\ Advance(s, "select")
         \/ /\ At(s, "select") /\ UNCHANGED lock
            /\ req' = [req EXCEPT ![s].rows = ApprovedCases, ![s].step = "hash"]
         \/ /\ At(s, "hash") /\ Advance(s, "number")
            /\ \A v \in versions : v.hash # Canonical(req[s].rows)
         \/ ReadMaxVersion(s)
         \/ At(s, "insert") /\ Advance(s, "rows")
<1>1. CASE End(s)
  BY <1>1 DEF End, TypeOK, Idle, Building
<1>2. CASE Start(s)
  <2>1. PICK op \in Op, c \in Case \cup {None}, x \in Content \cup {None} :
          req' = [req EXCEPT ![s] = [Idle EXCEPT !.op = op, !.case = c,
                                       !.payload = x, !.step = FirstStep(op)]]
    BY <1>2 DEF Start
  <2>2. req'[s].op = op /\ req'[s].step = FirstStep(op)
    BY <2>1 DEF TypeOK, Idle
  <2>. QED
    BY <2>2 DEF FirstStep, Building, Op, CaseEdit, CaseTransition
<1>3. CASE LoadCase(s)
  <2>1. req[s].op # "create_version"
    BY <1>3 DEF LoadCase, TypeOK, CaseTransition
  <2>2. CASE req' = [req EXCEPT ![s].row = cases[req[s].case], ![s].step = "dataset"]
    BY <2>1, <2>2 DEF TypeOK, Request
  <2>. QED BY <1>1, <1>3, <2>2 DEF LoadCase
<1>4. CASE LoadProject(s)
  BY <1>1, <1>4 DEF LoadProject, AfterChecks, Advance, Building, TypeOK, Request
<1>5. CASE CheckDuplicateKey(s)
  BY <1>1, <1>5 DEF CheckDuplicateKey, Advance, Building, TypeOK, Request
<1>6. CASE SelectApproved(s) \/ CheckHash(s) \/ InsertVersion(s)
  BY <1>1, <1>6 DEF SelectApproved, CheckHash, InsertVersion
<1>. QED
  BY <1>1, <1>2, <1>3, <1>4, <1>5, <1>6
     DEF Proceed, InsertCase, SaveContent, SaveStatus, CloseDataset, CloseProject,
         InsertRows, Abort
-----------------------------------------------------------------------------
(* Each conjunct of the inductive invariant is preserved. *)

LEMMA HoldsLockStep ==
  ASSUME IInv, NEW s \in Session, Start(s) \/ Proceed(s) \/ Abort(s)
  PROVE  HoldsLock'
<1>0. TypeOK /\ HoldsLock
  BY DEF IInv
<1>1. ASSUME NEW t \in Session, t # s
      PROVE  /\ req'[t].op = "create_version" /\ req'[t].step \in {"project"} \cup Building
                  => lock' = t
             /\ req'[t].step \in Building => req'[t].op = "create_version"
             /\ req'[t].step = "dataset" => req'[t].op # "create_version"
  <2>1. req'[t] = req[t]
    BY <1>0, <1>1, Frame
  <2>2. lock' = lock \/ lock = None \/ lock = s
    BY <1>0, LockStep
  <2>. QED BY <1>0, <1>1, <2>1, <2>2, NoneAssumption DEF HoldsLock
<1>2. /\ req'[s].op = "create_version" /\ req'[s].step \in {"project"} \cup Building
           => lock' = s
      /\ req'[s].step \in Building => req'[s].op = "create_version"
      /\ req'[s].step = "dataset" => req'[s].op # "create_version"
  <2> USE <1>0 DEF HoldsLock, Building, TypeOK, Request, At, Advance
  <2>1. CASE \/ req'[s].step \notin {"project", "dataset"} \cup Building
             \/ req'[s].step \in {"project", "dataset"} /\ req'[s].op # "create_version"
    BY <2>1
  <2>2. CASE LoadDataset(s)
    BY <2>2 DEF LoadDataset
  <2>3. CASE LockDataset(s)
    <3>1. req'[s] = [req[s] EXCEPT !.active = datasetActive, !.step = "project"]
      BY <2>3 DEF LockDataset
    <3>. QED BY <2>3, <3>1 DEF LockDataset
  <2>4. CASE ReadMaxVersion(s)
    BY <2>4 DEF ReadMaxVersion
  <2>5. CASE At(s, "project") /\ req[s].op = "create_version" /\ Advance(s, "select")
    BY <2>5
  <2>6. CASE /\ At(s, "select") /\ UNCHANGED lock
             /\ req' = [req EXCEPT ![s].rows = ApprovedCases, ![s].step = "hash"]
    BY <2>6
  <2>7. CASE At(s, "hash") /\ Advance(s, "number")
    BY <2>7
  <2>8. CASE At(s, "insert") /\ Advance(s, "rows")
    BY <2>8
  <2>. QED BY <2>1, <2>2, <2>3, <2>4, <2>5, <2>6, <2>7, <2>8, OwnStep
<1>. QED
  BY <1>1, <1>2 DEF HoldsLock

LEMMA ActiveIsCurrentStep ==
  ASSUME IInv, NEW s \in Session, Start(s) \/ Proceed(s) \/ Abort(s)
  PROVE  ActiveIsCurrent'
<1>0. TypeOK /\ HoldsLock /\ ActiveIsCurrent
  BY DEF IInv
<1>1. ASSUME NEW t \in Session, t # s
      PROVE  /\ req'[t].op = "create_version" /\ req'[t].step = "project"
                  => req'[t].active = datasetActive'
             /\ req'[t].step \in Building => datasetActive'
  <2>1. req'[t] = req[t]
    BY <1>0, <1>1, Frame
  <2>2. datasetActive' = datasetActive \/ lock = None
    BY DatasetStep
  <2>. QED BY <1>0, <2>1, <2>2, NoneAssumption DEF HoldsLock, ActiveIsCurrent
<1>2. /\ req'[s].op = "create_version" /\ req'[s].step = "project"
           => req'[s].active = datasetActive'
      /\ req'[s].step \in Building => datasetActive'
  <2> USE <1>0 DEF ActiveIsCurrent, HoldsLock, Building, TypeOK, Request, At, Advance
  <2>1. CASE datasetActive' = datasetActive
    <3>1. CASE LoadDataset(s)
      BY <3>1 DEF LoadDataset
    <3>2. CASE LockDataset(s)
      BY <3>2 DEF LockDataset
    <3>3. CASE ReadMaxVersion(s)
      BY <2>1, <3>3 DEF ReadMaxVersion
    <3>4. CASE At(s, "project") /\ ~Rejected(s) /\ req[s].op = "create_version"
                 /\ Advance(s, "select")
      BY <2>1, <3>4 DEF Rejected
    <3>5. CASE \/ req'[s].step \notin {"project", "dataset"} \cup Building
               \/ req'[s].step \in {"project", "dataset"} /\ req'[s].op # "create_version"
      BY <3>5
    <3>6. CASE /\ At(s, "select")
               /\ req' = [req EXCEPT ![s].rows = ApprovedCases, ![s].step = "hash"]
      BY <2>1, <3>6
    <3>7. CASE At(s, "hash") /\ Advance(s, "number")
      BY <2>1, <3>7
    <3>8. CASE At(s, "insert") /\ Advance(s, "rows")
      BY <2>1, <3>8
    <3>. QED BY <3>1, <3>2, <3>3, <3>4, <3>5, <3>6, <3>7, <3>8, OwnStep
  <2>2. CASE CloseDataset(s)
    BY <2>2 DEF CloseDataset, End, Idle
  <2>. QED BY <2>1, <2>2, DatasetStep
<1>. QED
  BY <1>1, <1>2 DEF ActiveIsCurrent

\* A number that the reads of create_version have found is the next one.
LEMMA NextNumber ==
  ASSUME TypeOK, NoGap, ChecksHold, NEW s \in Session,
         At(s, "insert") \/ At(s, "rows")
  PROVE  /\ req[s].number \in Nat \ {0}
         /\ \A v \in versions : v.number < req[s].number
         /\ \A m \in 1..(req[s].number - 1) : \E v \in versions : v.number = m
         /\ ~VersionConflict(s)
<1>1. req[s].number \in Nat \ {0}
  BY DEF TypeOK, Request, ChecksHold, At
<1>2. \A v \in versions : v.number \in Nat
  BY DEF TypeOK, Version
<1>3. \A m \in 1..(req[s].number - 1) : \E v \in versions : v.number = m
  BY <1>1, <1>2 DEF ChecksHold, NoGap, At
<1>. QED
  BY <1>1, <1>2, <1>3 DEF ChecksHold, VersionConflict, At

LEMMA ChecksHoldStep ==
  ASSUME IInv, NEW s \in Session, Start(s) \/ Proceed(s) \/ Abort(s)
  PROVE  ChecksHold'
<1>0. TypeOK /\ HoldsLock /\ ChecksHold
  BY DEF IInv
<1> DEFINE Passed(t) ==
      /\ req[t].step \in {"number", "insert", "rows"} =>
           \A v \in versions : v.hash # Canonical(req[t].rows)
      /\ req[t].step \in {"insert", "rows"} =>
           /\ req[t].number # 0
           /\ \A v \in versions : v.number < req[t].number
           /\ req[t].number = 1 \/ \E v \in versions : v.number = req[t].number - 1
<1>1. ASSUME NEW t \in Session, t # s PROVE Passed(t)'
  <2>1. req'[t] = req[t]
    BY <1>0, <1>1, Frame
  <2>2. CASE versions' = versions
    BY <1>0, <2>1, <2>2 DEF ChecksHold
  <2>3. CASE InsertRows(s)
    <3>1. lock = s
      BY <1>0, <2>3 DEF InsertRows, HoldsLock, Building, At
    <3>2. req[t].step \notin {"number", "insert", "rows"}
      BY <1>0, <1>1, <3>1 DEF HoldsLock, Building
    <3>. QED BY <2>1, <3>2
  <2>. QED BY <2>2, <2>3, VersionStep
<1>2. Passed(s)'
  <2> USE <1>0 DEF TypeOK, Request, At, Advance, Building
  <2>1. CASE req'[s].step \notin {"number", "insert", "rows"}
    BY <2>1
  <2>2. CASE At(s, "hash") /\ Advance(s, "number")
             /\ \A v \in versions : v.hash # Canonical(req[s].rows)
    <3>1. versions' = versions
      BY <2>2, VersionStep DEF InsertRows
    <3>. QED BY <2>2, <3>1
  <2>3. CASE ReadMaxVersion(s)
    <3>1. PICK m \in {0} \cup {v.number : v \in versions} :
            /\ IsMaxVersion(m)
            /\ req' = [req EXCEPT ![s].number = m + 1, ![s].step = "insert"]
      BY <2>3 DEF ReadMaxVersion
    <3>2. m \in Nat /\ \A v \in versions : v.number \in Nat
      BY DEF Version
    <3>3. versions' = versions
      BY <2>3 DEF ReadMaxVersion
    <3>4. req'[s].rows = req[s].rows /\ req'[s].number = m + 1
      BY <3>1
    <3>5. \A v \in versions : v.hash # Canonical(req[s].rows)
      BY <2>3 DEF ReadMaxVersion, ChecksHold
    <3>6. /\ m + 1 # 0
          /\ \A v \in versions : v.number < m + 1
          /\ m + 1 = 1 \/ \E v \in versions : v.number = (m + 1) - 1
      BY <3>1, <3>2 DEF IsMaxVersion
    <3>. QED BY <3>3, <3>4, <3>5, <3>6
  <2>4. CASE LoadDataset(s) \/ LockDataset(s)
    BY <2>4 DEF LoadDataset, LockDataset
  <2>5. CASE At(s, "project") /\ Advance(s, "select")
    BY <2>5
  <2>6. CASE req' = [req EXCEPT ![s].rows = ApprovedCases, ![s].step = "hash"]
    BY <2>6
  <2>7. CASE req'[s].step \in {"project", "dataset"}
    BY <2>7
  <2>8. CASE At(s, "insert") /\ Advance(s, "rows")
    <3>1. versions' = versions
      BY <2>8, VersionStep DEF InsertRows
    <3>2. req'[s].rows = req[s].rows /\ req'[s].number = req[s].number
      BY <2>8
    <3>. QED BY <2>8, <3>1, <3>2 DEF ChecksHold
  <2>. QED BY <2>1, <2>2, <2>3, <2>4, <2>5, <2>6, <2>7, <2>8, OwnStep
<1>. QED
  BY <1>1, <1>2 DEF ChecksHold

\* What create_version adds.
LEMMA NewVersion ==
  ASSUME NEW s \in Session, InsertRows(s)
  PROVE  versions' = versions \cup {[number |-> req[s].number,
                                     hash |-> Canonical(req[s].rows),
                                     rows |-> req[s].rows]}
  BY DEF InsertRows

LEMMA NoGapStep ==
  ASSUME IInv, NEW s \in Session, Start(s) \/ Proceed(s) \/ Abort(s)
  PROVE  NoGap'
<1>1. CASE versions' = versions
  BY <1>1 DEF IInv, NoGap
<1>2. CASE InsertRows(s)
  <2> DEFINE n == req[s].number
             new == [number |-> n, hash |-> Canonical(req[s].rows), rows |-> req[s].rows]
  <2>1. versions' = versions \cup {new}
    BY <1>2, NewVersion
  <2>2. /\ n \in Nat \ {0}
        /\ \A m \in 1..(n - 1) : \E v \in versions : v.number = m
    BY <1>2, NextNumber DEF IInv, InsertRows
  <2>3. new \in versions' /\ new.number = n
    BY <2>1
  <2>4. ASSUME NEW m \in 1..n PROVE \E w \in versions' : w.number = m
    <3>1. CASE m = n
      BY <2>3, <3>1
    <3>2. CASE m # n
      <4>1. m \in 1..(n - 1)
        BY <2>2, <3>2
      <4>. QED BY <2>1, <2>2, <4>1
    <3>. QED BY <3>1, <3>2
  <2>5. \A v \in versions : \A m \in 1..v.number : \E w \in versions' : w.number = m
    BY <2>1 DEF IInv, NoGap
  <2>. QED BY <2>1, <2>4, <2>5 DEF NoGap
<1>. QED
  BY <1>1, <1>2, VersionStep

LEMMA HashDescribesRowsStep ==
  ASSUME IInv, NEW s \in Session, Start(s) \/ Proceed(s) \/ Abort(s)
  PROVE  HashDescribesRows'
<1>1. CASE versions' = versions
  BY <1>1 DEF IInv, HashDescribesRows
<1>2. CASE InsertRows(s)
  BY <1>2, NewVersion DEF IInv, HashDescribesRows
<1>. QED
  BY <1>1, <1>2, VersionStep

LEMMA CapturedIsNoDraftStep ==
  ASSUME IInv, NEW s \in Session, Start(s) \/ Proceed(s) \/ Abort(s)
  PROVE  CapturedIsNoDraft'
<1> USE DEF IInv
<1> SUFFICES ASSUME NEW t \in Session, NEW c \in Case,
                    req'[t].step \in {"hash", "number", "insert", "rows"},
                    req'[t].rows[c] # None
             PROVE  cases'[c].status \in {"APPROVED", "DEPRECATED"}
  BY DEF CapturedIsNoDraft
<1>1. CASE req'[t].rows = req[t].rows /\ req[t].step \in {"hash", "number", "insert", "rows"}
  BY <1>1, StatusStep DEF CapturedIsNoDraft
<1>2. CASE t # s
  BY <1>1, <1>2, Frame
<1>3. CASE t = s
  <2> USE DEF TypeOK, Request, At, Advance
  <2>1. CASE /\ At(s, "select")
             /\ req' = [req EXCEPT ![s].rows = ApprovedCases, ![s].step = "hash"]
    <3>1. req'[s].rows = ApprovedCases
      BY <2>1
    <3>2. cases[c].status = "APPROVED"
      BY <1>3, <3>1 DEF ApprovedCases
    <3>. QED BY <3>2, StatusStep
  <2>2. CASE At(s, "hash") /\ Advance(s, "number")
    BY <1>1, <1>3, <2>2
  <2>3. CASE ReadMaxVersion(s)
    BY <1>1, <1>3, <2>3 DEF ReadMaxVersion
  <2>4. CASE LoadDataset(s) \/ LockDataset(s) \/ (At(s, "project") /\ Advance(s, "select"))
    BY <1>3, <2>4 DEF LoadDataset, LockDataset
  <2>5. CASE At(s, "insert") /\ Advance(s, "rows")
    BY <1>1, <1>3, <2>5
  <2>. QED BY <1>3, <2>1, <2>2, <2>3, <2>4, <2>5, OwnStep DEF Building
<1>. QED
  BY <1>2, <1>3

LEMMA VersionedCaseStep ==
  ASSUME IInv, NEW s \in Session, Start(s) \/ Proceed(s) \/ Abort(s)
  PROVE  VersionedCaseIsNoDraft'
<1> USE DEF IInv
<1> SUFFICES ASSUME NEW v \in versions', NEW c \in Case, v.rows[c] # None
             PROVE  cases[c].status \in {"APPROVED", "DEPRECATED"}
  BY StatusStep DEF VersionedCaseIsNoDraft
<1>1. CASE v \in versions
  BY <1>1 DEF VersionedCaseIsNoDraft
<1>2. CASE InsertRows(s)
  <2>1. v \in versions \/ v.rows = req[s].rows
    BY <1>2, NewVersion
  <2>2. req[s].step = "rows"
    BY <1>2 DEF InsertRows, At
  <2>. QED BY <1>1, <2>1, <2>2 DEF CapturedIsNoDraft
<1>. QED
  BY <1>1, <1>2, VersionStep

LEMMA InvInit == Init => IInv
<1> SUFFICES ASSUME Init PROVE IInv
  OBVIOUS
<1>1. \A s \in Session : req[s] = Idle
  BY DEF Init
<1>2. versions = {}
  BY DEF Init
<1>3. Idle.step = "idle"
  BY DEF Idle
<1>. QED
  BY <1>1, <1>2, <1>3, InitType
     DEF IInv, HoldsLock, ActiveIsCurrent, ChecksHold, NoGap, HashDescribesRows,
         CapturedIsNoDraft, VersionedCaseIsNoDraft, Building

LEMMA InvStep == IInv /\ [Next]_vars => IInv'
<1>1. ASSUME IInv, NEW s \in Session, Start(s) \/ Proceed(s) \/ Abort(s)
      PROVE  IInv'
  <2>1. TypeOK'
    BY <1>1, StepType DEF IInv, Next
  <2>. QED
    BY <1>1, <2>1, HoldsLockStep, ActiveIsCurrentStep, ChecksHoldStep, NoGapStep,
       HashDescribesRowsStep, CapturedIsNoDraftStep, VersionedCaseStep DEF IInv
<1>2. ASSUME IInv, UNCHANGED vars PROVE IInv'
  <2>1. TypeOK'
    BY <1>2, StepType DEF IInv
  <2>. QED
    BY <1>2, <2>1 DEF IInv, vars, HoldsLock, ActiveIsCurrent, ChecksHold, NoGap,
       HashDescribesRows, CapturedIsNoDraft, VersionedCaseIsNoDraft, Canonical
<1>. QED
  BY <1>1, <1>2 DEF Next

LEMMA Invariance == Spec => []IInv
<1>. QED
  BY InvInit, InvStep, PTL DEF Spec, Safe
-----------------------------------------------------------------------------
\* create_version never meets a unique violation: no request is answered with
\* VERSION_NUMBER_CONFLICT.
THEOREM LockPreventsConflict == Spec => []NoVersionConflict
<1>1. IInv => NoVersionConflict
  BY NextNumber DEF IInv, NoVersionConflict
<1>. QED
  BY <1>1, Invariance, PTL

\* A version's hash describes its rows, whatever runs beside create_version.
THEOREM SnapshotsAreWhole == Spec => []HashDescribesRows
<1>1. IInv => HashDescribesRows
  BY DEF IInv
<1>. QED
  BY <1>1, Invariance, PTL

\* A case that some version holds is approved or deprecated.
THEOREM VersionsHoldNoDraft == Spec => []VersionedCaseIsNoDraft
<1>1. IInv => VersionedCaseIsNoDraft
  BY DEF IInv
<1>. QED
  BY <1>1, Invariance, PTL

\* The versions of a dataset implement the version registry.
THEOREM VersionsAreRegistry == Spec => IsVersionRegistry
<1> DEFINE Shown == {[number |-> v.number, form |-> v.hash] : v \in versions}
<1>1. Init => Registry!Init
  BY DEF Init, Registry!Init
<1>2. ASSUME IInv, NEW s \in Session, InsertRows(s)
      PROVE  Registry!Next
  <2> DEFINE n == req[s].number
             f == Canonical(req[s].rows)
  <2>1. /\ n \in Nat \ {0}
        /\ \A v \in versions : v.number < n
        /\ \A m \in 1..(n - 1) : \E v \in versions : v.number = m
        /\ \A v \in versions : v.hash # f
    BY <1>2, NextNumber DEF IInv, InsertRows, VersionConflict
  <2>2. datasetActive /\ UNCHANGED datasetActive
    BY <1>2 DEF IInv, ActiveIsCurrent, Building, InsertRows, At
  <2>3. Shown' = Shown \cup {[number |-> n, form |-> f]}
    <3> DEFINE r == [number |-> n, hash |-> f, rows |-> req[s].rows]
    <3>1. versions' = versions \cup {r}
      BY <1>2, NewVersion
    <3>2. [number |-> r.number, form |-> r.hash] = [number |-> n, form |-> f]
      OBVIOUS
    <3> HIDE DEF r
    <3>. QED BY <3>1, <3>2
  <2>4. f \in Snapshot
    BY <1>2, CanonicalType DEF IInv, TypeOK, Request
  <2>5. \A w \in Shown : \E v \in versions : w.number = v.number /\ w.form = v.hash
    OBVIOUS
  <2>6. \A v \in versions : [number |-> v.number, form |-> v.hash] \in Shown
    OBVIOUS
  <2>7. Registry!IsNextNumber(n)
    BY <2>1, <2>5, <2>6 DEF Registry!IsNextNumber
  <2>8. \A w \in Shown : w.form # f
    BY <2>1, <2>5
  <2>9. Registry!Publish(n, f)
    BY <2>2, <2>3, <2>7, <2>8 DEF Registry!Publish
  <2>10. n \in {1} \cup {w.number + 1 : w \in Shown}
    <3>1. CASE n = 1
      BY <3>1
    <3>2. CASE n # 1
      <4>1. PICK v \in versions : v.number = n - 1
        BY <2>1, <3>2
      <4> DEFINE u == [number |-> v.number, form |-> v.hash]
      <4>2. u \in Shown
        BY <2>6
      <4>3. n = u.number + 1
        BY <2>1, <4>1
      <4> HIDE DEF u, n, Shown
      <4>4. n \in {w.number + 1 : w \in Shown}
        BY <4>2, <4>3
      <4>. QED BY <4>4
    <3>. QED BY <3>1, <3>2
  <2>11. \E k \in {1} \cup {w.number + 1 : w \in Shown}, g \in Snapshot :
           Registry!Publish(k, g)
    <3> HIDE DEF n, f, Shown
    <3>. QED BY <2>4, <2>9, <2>10 DEF Registry!Publish, Registry!IsNextNumber
  <2>. QED BY <2>11 DEF Registry!Next
<1>3. IInv /\ [Next]_vars => [Registry!Next]_(Registry!vars)
  <2>1. ASSUME IInv, NEW s \in Session, Start(s) \/ Proceed(s) \/ Abort(s)
        PROVE  [Registry!Next]_(Registry!vars)
    <3>1. CASE versions' = versions /\ datasetActive' = datasetActive
      BY <3>1 DEF Registry!vars
    <3>2. CASE versions' = versions /\ CloseDataset(s)
      BY <3>2 DEF CloseDataset, Registry!Next, Registry!Close
    <3>3. CASE InsertRows(s)
      BY <1>2, <2>1, <3>3
    <3>. QED BY <2>1, <3>1, <3>2, <3>3, VersionStep, DatasetStep
  <2>2. CASE UNCHANGED vars
    BY <2>2 DEF vars, Registry!vars
  <2>. QED BY <2>1, <2>2 DEF Next
<1>. QED
  BY <1>1, <1>3, Invariance, PTL DEF Spec, Safe, IsVersionRegistry, Registry!Spec
=============================================================================
