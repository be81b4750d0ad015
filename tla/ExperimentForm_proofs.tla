----------------------- MODULE ExperimentForm_proofs -----------------------
(***************************************************************************)
(* Proofs about ExperimentForm for any kinds of resources, any number of   *)
(* resources, of pages of them and of their versions, and any number of    *)
(* superseded calls.                                                       *)
(***************************************************************************)
EXTENDS ExperimentForm, Calls_proofs, FiniteSetTheorems

IsPage(u) ==
  u = [project |-> u.project, projectError |-> u.projectError,
       projectLoading |-> u.projectLoading, parent |-> u.parent, version |-> u.version,
       lists |-> u.lists, submitting |-> u.submitting, submitError |-> u.submitError,
       pushed |-> u.pushed, calls |-> u.calls, unanswered |-> u.unanswered]

IsList(x) ==
  /\ x = [rows |-> x.rows, loading |-> x.loading, refreshing |-> x.refreshing,
          error |-> x.error]
  /\ x.rows.usable \subseteq Parent
  /\ x.loading \in BOOLEAN /\ x.refreshing \in BOOLEAN /\ x.error \in MaybeError

AreLists(lists) ==
  lists = [l \in List |-> lists[l]] /\ \A l \in List : IsList(lists[l])

FieldsInv(u) ==
  /\ IsPage(u) /\ AreLists(u.lists)
  /\ u.project \in {None, "active", "inactive"}
  /\ u.parent \in [Kind -> Parent \cup {None}] /\ u.version \in Choice
  /\ {u.projectError, u.submitError} \subseteq MaybeError
  /\ {u.submitting, u.pushed, u.unanswered} \subseteq BOOLEAN

(* What the server has answered to a call, if it has.                      *)
Known(c) ==
  /\ c.lane \in Lane
  /\ c.reply # Waiting =>
       /\ c.lane = ProjectLane => \E s \in {"active", "inactive"} : c.reply = <<Answered(s)>>
       /\ c.lane = SubmitLane => \/ c.reply = <<Answered(Made)>>
                                \/ c.reply = <<Refused(409, "DATASET_INACTIVE")>>
       /\ c.lane \in List => \E usable \in SUBSET Parent : c.reply = <<Answered(usable)>>

CallsInv(calls) == AreCalls(calls) /\ OneLive(calls) /\ \A c \in calls : Known(c)

Busy(list) == list.loading \/ list.refreshing
Shows(lists, calls, l) == Busy(lists[l]) <=> Pending(calls, l)

(* A list of versions, loaded or being loaded, is of the choice above it.  *)
OfChoice(lists, parent, calls, k) ==
  /\ \A c \in calls : c.lane = Versions(k) /\ c.live => c.arg.of = parent[k]
  /\ LET list == lists[Versions(k)]
     IN ~Busy(list) /\ list.error = None => list.rows.of = parent[k]

ListsInv(u) ==
  /\ \A l \in List : Shows(u.lists, u.calls, l)
  /\ \A k \in Kind : OfChoice(u.lists, u.parent, u.calls, k)

(* An experiment that was made is that of the submission under way, unless *)
(* the form could not know of it or is being left.                         *)
SubmitInv(u, n) ==
  /\ \A c \in u.calls :
       c.lane = SubmitLane /\ c.live => u.submitting /\ c.arg.choice = u.version
  /\ ~u.unanswered /\ ~u.pushed =>
       /\ \A c \in u.calls : c.lane = SubmitLane => c.live
       /\ \/ n = 0
          \/ n = 1 /\ \E c \in u.calls : c.lane = SubmitLane /\ c.reply = <<Answered(Made)>>

PageInv(u, n) == FieldsInv(u) /\ CallsInv(u.calls) /\ ListsInv(u) /\ SubmitInv(u, n)

StoredInv ==
  /\ active \in [Kind -> SUBSET Parent]
  /\ projectActive \in BOOLEAN /\ created \in 0..MaxCreated

IInv == StoredInv /\ PageInv(ui, created)
-----------------------------------------------------------------------------
LEMMA Lanes ==
  /\ \A k \in Kind : Parents(k) \in List /\ Versions(k) \in List
  /\ \A k, j \in Kind : Versions(k) # Parents(j) /\ (Versions(k) = Versions(j) => k = j)
  /\ \A l \in List : /\ l \in Lane /\ l # ProjectLane /\ l # SubmitLane
                     /\ l.kind \in Kind /\ l.list \in {"parents", "versions"}
                     /\ l.list = "versions" => l = Versions(l.kind)
  /\ ProjectLane # SubmitLane /\ ProjectLane \in Lane /\ SubmitLane \in Lane
  /\ \A k \in Kind : /\ Versions(k).list = "versions" /\ Versions(k).kind = k
                     /\ Parents(k).list = "parents"
  /\ ProjectLane.list = "project" /\ SubmitLane.list = "submit"
<1>1. \A k : /\ Versions(k).list = "versions" /\ Versions(k).kind = k
             /\ Parents(k).list = "parents" /\ Parents(k).kind = k
  BY DEF Versions, Parents
<1>2. ProjectLane.list = "project" /\ SubmitLane.list = "submit"
  BY DEF ProjectLane, SubmitLane
<1>3. \A l : l \in List <=> \E k \in Kind : l = Parents(k) \/ l = Versions(k)
  BY DEF List
<1> QED
  BY <1>1, <1>2, <1>3 DEF Lane

(* What changes in one lane leaves the calls of the others alone.          *)
Elsewhere(calls, k, lane) ==
  /\ \A d \in k : d.lane # lane => d \in calls
  /\ \A d \in calls : d.lane # lane => d \in k

ListsBut(u, lane) ==
  /\ \A l \in List : l # lane => Shows(u.lists, u.calls, l)
  /\ \A k \in Kind : Versions(k) # lane => OfChoice(u.lists, u.parent, u.calls, k)

LEMMA OtherLists ==
  ASSUME NEW u, NEW v, NEW lane, ListsBut(u, lane), v.parent = u.parent,
         Elsewhere(u.calls, v.calls, lane),
         \A l \in List : l # lane => v.lists[l] = u.lists[l]
  PROVE  ListsBut(v, lane)
<1>1. ASSUME NEW l \in List, l # lane PROVE Shows(v.lists, v.calls, l)
  <2>1. Shows(u.lists, u.calls, l) /\ v.lists[l] = u.lists[l]
    BY <1>1 DEF ListsBut
  <2>2. Pending(u.calls, l) <=> Pending(v.calls, l)
    BY <1>1 DEF Pending, Elsewhere
  <2> QED
    BY <2>1, <2>2 DEF Shows
<1>2. ASSUME NEW k \in Kind, Versions(k) # lane
      PROVE  OfChoice(v.lists, v.parent, v.calls, k)
  <2>1. Versions(k) \in List
    BY Lanes
  <2>2. OfChoice(u.lists, u.parent, u.calls, k) /\ v.lists[Versions(k)] = u.lists[Versions(k)]
    BY <1>2, <2>1 DEF ListsBut
  <2> QED
    BY <1>2, <2>2 DEF OfChoice, Elsewhere
<1> QED
  BY <1>1, <1>2 DEF ListsBut

LEMMA AllLists ==
  ASSUME NEW u
  PROVE  /\ \A lane : ListsInv(u) => ListsBut(u, lane)
         /\ \A lane : ListsBut(u, lane) /\ lane \notin List => ListsInv(u)
         /\ \A l \in List :
              /\ ListsBut(u, l) /\ Shows(u.lists, u.calls, l)
              /\ \A k \in Kind :
                   Versions(k) = l => OfChoice(u.lists, u.parent, u.calls, k)
              => ListsInv(u)
BY Lanes DEF ListsBut, ListsInv

LEMMA SameSubmission ==
  ASSUME NEW u, NEW v, NEW n, SubmitInv(u, n), NEW lane, lane # SubmitLane,
         Elsewhere(u.calls, v.calls, lane),
         v.submitting = u.submitting, v.version = u.version,
         v.unanswered = u.unanswered, v.pushed = u.pushed
  PROVE  SubmitInv(v, n)
BY DEF SubmitInv, Elsewhere

(* Sending and ending a call, seen from the page.                          *)
LEMMA SentInv ==
  ASSUME NEW calls, CallsInv(calls), NEW lane \in Lane, NEW arg,
         NEW k, k = Sent(calls, lane, arg)
  PROVE  /\ CallsInv(k) /\ Elsewhere(calls, k, lane)
         /\ Pending(k, lane)
         /\ \A d \in k : d.lane = lane /\ d.live => d.arg = arg
<1>0. AreCalls(calls) /\ OneLive(calls) /\ \A c \in calls : Known(c)
  BY DEF CallsInv
<1>1. /\ AreCalls(k) /\ OneLive(k)
      /\ Call(lane, arg) \in k
      /\ \A d \in k :
              \/ d = Call(lane, arg)
              \/ /\ \E c \in calls : d.lane = c.lane /\ d.arg = c.arg /\ d.reply = c.reply
                 /\ d.lane = lane => ~d.live
                 /\ d.lane # lane => d \in calls
      /\ \A c \in calls : c.lane # lane => c \in k
  BY <1>0, SentCalls
<1> DEFINE new == Call(lane, arg)
<1>2. IsCall(new) /\ new.lane = lane /\ new.arg = arg /\ new.reply = Waiting /\ new.live
  BY CallFields
<1> HIDE DEF new
<1>3. \A d \in k : Known(d)
  BY <1>0, <1>1, <1>2 DEF Known, new
<1>4. Elsewhere(calls, k, lane)
  BY <1>1, <1>2 DEF Elsewhere, new
<1>5. Pending(k, lane)
  BY <1>1, <1>2 DEF Pending, new
<1>6. \A d \in k : d.lane = lane /\ d.live => d.arg = arg
  BY <1>1, <1>2 DEF new
<1> QED
  BY <1>1, <1>3, <1>4, <1>5, <1>6 DEF CallsInv

LEMMA AbortedInv ==
  ASSUME NEW calls, CallsInv(calls), NEW lane, NEW k, k = Aborted(calls, {lane})
  PROVE  CallsInv(k) /\ Elsewhere(calls, k, lane) /\ ~Pending(k, lane)
<1>0. AreCalls(calls) /\ OneLive(calls) /\ \A c \in calls : Known(c)
  BY DEF CallsInv
<1>1. /\ \A d \in k :
              /\ IsCall(d)
              /\ \E c \in calls : d.lane = c.lane /\ d.arg = c.arg /\ d.reply = c.reply
              /\ d.lane = lane => ~d.live
              /\ d.lane # lane => d \in calls
      /\ \A c \in calls : c.lane # lane => c \in k
  BY <1>0, AbortedCalls
<1>2. AreCalls(k) /\ Elsewhere(calls, k, lane) /\ ~Pending(k, lane)
  BY <1>1 DEF AreCalls, Elsewhere, Pending
<1>3. OneLive(k)
  BY <1>0, <1>1 DEF OneLive
<1>4. \A d \in k : Known(d)
  BY <1>0, <1>1 DEF Known
<1> QED
  BY <1>2, <1>3, <1>4 DEF CallsInv

LEMMA EndedInv ==
  ASSUME NEW calls, CallsInv(calls), NEW c \in calls, NEW k, k = Ended(calls, c)
  PROVE  /\ CallsInv(k) /\ Elsewhere(calls, k, c.lane)
         /\ c.live => ~Pending(k, c.lane)
         /\ \A d \in calls : d.live /\ ~c.live => d \in k
         /\ k \subseteq calls
<1>1. k = calls \ {c}
  BY DEF Ended
<1> QED
  BY <1>1 DEF CallsInv, AreCalls, OneLive, Elsewhere, Pending
-----------------------------------------------------------------------------
(* What is the same in two states of the page, lists and calls aside.      *)
SameForm(u, v) ==
  /\ v.project = u.project /\ v.projectError = u.projectError
  /\ v.parent = u.parent /\ v.version = u.version
  /\ v.submitError = u.submitError
SameSubmit(u, v) ==
  v.submitting = u.submitting /\ v.pushed = u.pushed /\ v.unanswered = u.unanswered

ListChanged(u, l, x, k) == [u EXCEPT !.lists = [@ EXCEPT ![l] = x], !.calls = k]

LEMMA ListChangedFields ==
  ASSUME NEW u, IsPage(u), AreLists(u.lists), NEW l \in List, NEW x, IsList(x), NEW k,
         NEW v, v = ListChanged(u, l, x, k)
  PROVE  /\ IsPage(v) /\ AreLists(v.lists) /\ SameForm(u, v) /\ SameSubmit(u, v)
         /\ v.lists[l] = x /\ \A m \in List : m # l => v.lists[m] = u.lists[m]
         /\ v.calls = k
<1> DEFINE L == [u.lists EXCEPT ![l] = x]
<1>1. v = [u EXCEPT !.lists = L, !.calls = k]
  BY DEF ListChanged, IsPage
<1>2. /\ L = [m \in List |-> IF m = l THEN x ELSE u.lists[m]]
  BY DEF AreLists
<1> HIDE DEF L
<1>3. AreLists(L) /\ L[l] = x /\ \A m \in List : m # l => L[m] = u.lists[m]
  BY <1>2 DEF AreLists
<1>4. IsPage(v) /\ SameForm(u, v) /\ SameSubmit(u, v) /\ v.lists = L /\ v.calls = k
  BY <1>1 DEF IsPage, SameForm, SameSubmit
<1> QED
  BY <1>3, <1>4

LEMMA LoadFields ==
  ASSUME NEW u, IsPage(u), AreLists(u.lists), NEW l \in List, NEW parent, NEW page,
         NEW retain \in BOOLEAN, NEW v, v = Load(u, l, parent, page, retain)
  PROVE  /\ IsPage(v) /\ AreLists(v.lists) /\ SameForm(u, v) /\ SameSubmit(u, v)
         /\ Busy(v.lists[l])
         /\ \A m \in List : m # l => v.lists[m] = u.lists[m]
         /\ v.calls = Sent(u.calls, l, ListArg(parent, page))
<1> DEFINE k == Sent(u.calls, l, ListArg(parent, page))
           no == ~retain
           x == Held(u.lists[l].rows, no, retain, None)
<1>1. IsList(u.lists[l])
  BY DEF AreLists
<1>2. no \in BOOLEAN /\ (no \/ retain)
  OBVIOUS
<1>3. None \in MaybeError
  BY DEF MaybeError
<1>4. v = [u EXCEPT !.lists[l] = x, !.calls = k]
  BY DEF Load
<1> HIDE DEF k, no
<1>5. IsList(x) /\ Busy(x)
  BY <1>1, <1>2, <1>3 DEF IsList, Busy, Held
<1> HIDE DEF x
<1>6. v = ListChanged(u, l, x, k)
  BY <1>4 DEF ListChanged
<1> QED
  BY <1>5, <1>6, ListChangedFields DEF k
-----------------------------------------------------------------------------
(* What a load makes of a page that may have changed the choice above it.   *)
LEMMA LoadInv ==
  ASSUME NEW u, NEW n, NEW l \in List, NEW parent, NEW page, NEW retain \in BOOLEAN,
         FieldsInv(u), CallsInv(u.calls), ListsBut(u, l), SubmitInv(u, n),
         \A k \in Kind : l = Versions(k) => parent = u.parent[k],
         NEW v, v = Load(u, l, parent, page, retain)
  PROVE  PageInv(v, n)
<1>1. /\ IsPage(v) /\ AreLists(v.lists) /\ SameForm(u, v) /\ SameSubmit(u, v)
      /\ Busy(v.lists[l])
      /\ \A m \in List : m # l => v.lists[m] = u.lists[m]
      /\ v.calls = Sent(u.calls, l, ListArg(parent, page))
  BY LoadFields DEF FieldsInv
<1>2. l \in Lane /\ l # SubmitLane
  BY Lanes
<1>3. /\ CallsInv(v.calls) /\ Elsewhere(u.calls, v.calls, l) /\ Pending(v.calls, l)
      /\ \A d \in v.calls : d.lane = l /\ d.live => d.arg = ListArg(parent, page)
  BY <1>1, <1>2, SentInv
<1>4. FieldsInv(v)
  BY <1>1 DEF FieldsInv, SameForm, SameSubmit
<1>5. ListsBut(v, l)
  BY <1>1, <1>3, OtherLists DEF SameForm
<1>6. Shows(v.lists, v.calls, l)
  BY <1>1, <1>3 DEF Shows
<1>7. ASSUME NEW k \in Kind, Versions(k) = l PROVE OfChoice(v.lists, v.parent, v.calls, k)
  <2>1. v.parent[k] = parent /\ ListArg(parent, page).of = parent
    BY <1>1, <1>7 DEF SameForm, ListArg
  <2> QED
    BY <1>1, <1>3, <1>7, <2>1 DEF OfChoice
<1>8. SubmitInv(v, n)
  BY <1>1, <1>2, <1>3, SameSubmission DEF SameForm, SameSubmit
<1> QED
  BY <1>3, <1>4, <1>5, <1>6, <1>7, <1>8, AllLists DEF PageInv

LEMMA PrimedPage ==
  ASSUME StoredInv', PageInv(ui', created')
  PROVE  IInv'
BY DEF IInv, PageInv, FieldsInv, CallsInv, ListsInv, SubmitInv

Stored == <<active, projectActive, created>>
LEMMA SameStored ==
  ASSUME IInv, UNCHANGED Stored, PageInv(ui', created)
  PROVE  IInv'
<1>1. StoredInv' /\ created' = created
  BY DEF IInv, StoredInv, Stored
<1> QED
  BY <1>1, PrimedPage

LEMMA MovePageInv == ASSUME IInv, MovePage PROVE IInv'
<1>1. PICK l \in List : \E page : ui' = Load(ui, l, Key(ui, l), page, TRUE)
  BY DEF MovePage
<1>2. FieldsInv(ui) /\ CallsInv(ui.calls) /\ ListsBut(ui, l) /\ SubmitInv(ui, created)
  BY AllLists DEF IInv, PageInv
<1>3. \A j \in Kind : l = Versions(j) => Key(ui, l) = ui.parent[j]
  BY Lanes DEF Key
<1>4. PageInv(ui', created)
  BY <1>1, <1>2, <1>3, LoadInv
<1> QED
  BY <1>4, SameStored DEF MovePage, Stored

LEMMA LoadProjectInv ==
  ASSUME NEW u, NEW n, PageInv(u, n), NEW v, v = LoadProject(u)
  PROVE  PageInv(v, n)
<1> DEFINE k == Sent(u.calls, ProjectLane, ListArg(None, 0))
           yes == TRUE
<1>1. v = [u EXCEPT !.projectLoading = yes, !.projectError = None, !.calls = k]
  BY DEF LoadProject
<1>2. None \in MaybeError
  BY DEF MaybeError
<1> HIDE DEF k, yes
<1>3. FieldsInv(u) /\ CallsInv(u.calls) /\ ListsInv(u) /\ SubmitInv(u, n) /\ IsPage(u)
  BY DEF PageInv, FieldsInv
<1>4. /\ IsPage(v) /\ v.project = u.project /\ v.projectError = None /\ v.parent = u.parent
      /\ v.version = u.version /\ v.lists = u.lists /\ v.submitError = u.submitError
      /\ SameSubmit(u, v) /\ v.calls = k
  BY <1>1, <1>3 DEF IsPage, SameSubmit
<1>5. FieldsInv(v)
  BY <1>2, <1>3, <1>4 DEF FieldsInv, SameSubmit
<1>6. CallsInv(v.calls) /\ Elsewhere(u.calls, v.calls, ProjectLane)
  BY <1>3, <1>4, Lanes, SentInv DEF k
<1>7. ProjectLane \notin List /\ ProjectLane # SubmitLane
  BY Lanes
<1>8. ListsInv(v)
  BY <1>3, <1>4, <1>6, <1>7, OtherLists, AllLists
<1>9. SubmitInv(v, n)
  BY <1>3, <1>4, <1>6, <1>7, SameSubmission DEF SameSubmit
<1> QED
  BY <1>5, <1>6, <1>8, <1>9 DEF PageInv

LEMMA RetryInv == ASSUME IInv, Retry PROVE IInv'
<1>1. CASE ui' = LoadProject(ui)
  BY <1>1, LoadProjectInv, SameStored DEF IInv, Retry, Stored
<1>2. CASE \E l \in List :
             ui' = Load(ui, l, Key(ui, l), Page(ui.lists[l]), HasRows(ui.lists[l].rows))
  <2>1. PICK l \in List :
             ui' = Load(ui, l, Key(ui, l), Page(ui.lists[l]), HasRows(ui.lists[l].rows))
    BY <1>2
  <2> DEFINE parent == Key(ui, l)
             retain == HasRows(ui.lists[l].rows)
  <2>2. FieldsInv(ui) /\ CallsInv(ui.calls) /\ ListsBut(ui, l) /\ SubmitInv(ui, created)
    BY AllLists DEF IInv, PageInv
  <2>3. \A j \in Kind : l = Versions(j) => parent = ui.parent[j]
    BY Lanes DEF Key
  <2>4. retain \in BOOLEAN
    BY DEF HasRows
  <2> HIDE DEF parent, retain
  <2>5. PageInv(ui', created)
    BY <2>1, <2>2, <2>3, <2>4, LoadInv DEF parent, retain
  <2> QED
    BY <2>5, SameStored DEF Retry, Stored
<1> QED
  BY <1>1, <1>2 DEF Retry

(* While nothing is being submitted no submission is live.                 *)
LEMMA NotSubmitting ==
  ASSUME NEW u, NEW n, SubmitInv(u, n), ~u.submitting
  PROVE  \A c \in u.calls : c.lane = SubmitLane => ~c.live
BY DEF SubmitInv

Chosen(u, parents, versions, e) ==
  [u EXCEPT !.parent = parents, !.version = versions, !.submitError = e]
LEMMA ChosenFields ==
  ASSUME NEW u, IsPage(u), NEW parents, NEW versions, NEW e,
         NEW v, v = Chosen(u, parents, versions, e)
  PROVE  /\ IsPage(v) /\ v.project = u.project /\ v.projectError = u.projectError
         /\ v.parent = parents /\ v.version = versions /\ v.submitError = e
         /\ v.lists = u.lists /\ v.calls = u.calls /\ SameSubmit(u, v)
BY DEF Chosen, IsPage, SameSubmit

LEMMA SelectParentInv == ASSUME IInv, SelectParent PROVE IInv'
<1>1. PICK k \in Kind : \E p \in ui.lists[Parents(k)].rows.usable \cup {None} :
        ~ui.submitting /\ ui' = Select(ui, k, p)
  BY DEF SelectParent
<1>0. PICK p \in ui.lists[Parents(k)].rows.usable \cup {None} :
        ~ui.submitting /\ ui' = Select(ui, k, p)
  BY <1>1
<1> DEFINE parents == [ui.parent EXCEPT ![k] = p]
           versions == [ui.version EXCEPT ![k] = None]
           w == Chosen(ui, parents, versions, None)
           l == Versions(k)
<1>2. /\ FieldsInv(ui) /\ CallsInv(ui.calls) /\ ListsInv(ui) /\ SubmitInv(ui, created)
      /\ IsPage(ui) /\ AreLists(ui.lists)
  BY DEF IInv, PageInv, FieldsInv
<1>3. Parents(k) \in List /\ l \in List /\ l \in Lane /\ l # SubmitLane
  BY Lanes
<1>4. p \in Parent \cup {None}
  BY <1>2, <1>3 DEF AreLists, IsList
<1>5. parents \in [Kind -> Parent \cup {None}] /\ parents[k] = p
  BY <1>2, <1>4 DEF FieldsInv
<1>6. versions \in Choice
  BY <1>2 DEF FieldsInv, Choice
<1>7. \A j \in Kind : j # k => parents[j] = ui.parent[j]
  BY <1>2 DEF FieldsInv
<1>8. ui' = KeyChanged(w, k, p)
  BY <1>0 DEF Select, Chosen
<1>9. None \in MaybeError
  BY DEF MaybeError
<1> HIDE DEF parents, versions, l
<1>10. /\ IsPage(w) /\ w.project = ui.project /\ w.projectError = ui.projectError
       /\ w.parent = parents /\ w.version = versions /\ w.submitError = None
       /\ w.lists = ui.lists /\ w.calls = ui.calls /\ SameSubmit(ui, w)
  BY <1>2, ChosenFields
<1> HIDE DEF w
<1>11. FieldsInv(w)
  BY <1>2, <1>5, <1>6, <1>9, <1>10 DEF FieldsInv, SameSubmit
<1>12. ListsBut(w, l)
  <2>1. ASSUME NEW j \in Kind, Versions(j) # l
        PROVE  OfChoice(w.lists, w.parent, w.calls, j)
    <3>1. w.parent[j] = ui.parent[j]
      BY <1>7, <1>10, <2>1 DEF l
    <3> QED
      BY <1>2, <1>10, <3>1 DEF ListsInv, OfChoice
  <2> QED
    BY <1>2, <1>10, <2>1 DEF ListsBut, ListsInv
<1>13. SubmitInv(w, created)
  BY <1>0, <1>2, <1>10, NotSubmitting DEF SubmitInv, SameSubmit
<1>14. CASE p = None
  <2> DEFINE k2 == Aborted(w.calls, {l})
  <2>1. IsList(Unused) /\ Unused.rows.of = None /\ ~Busy(Unused)
    BY <1>9 DEF Unused, Held, NoRows, Rows, IsList, Busy
  <2>2. ui' = [w EXCEPT !.lists[l] = Unused, !.calls = k2]
    BY <1>8, <1>14 DEF KeyChanged, l
  <2> HIDE DEF k2
  <2>3. ui' = ListChanged(w, l, Unused, k2)
    BY <2>2 DEF ListChanged
  <2>4. /\ IsPage(ui') /\ AreLists(ui'.lists) /\ SameForm(w, ui') /\ SameSubmit(w, ui')
        /\ ui'.lists[l] = Unused /\ \A m \in List : m # l => ui'.lists[m] = w.lists[m]
        /\ ui'.calls = k2
    BY <1>2, <1>3, <1>10, <2>1, <2>3, ListChangedFields
  <2>5. CallsInv(ui'.calls) /\ Elsewhere(w.calls, ui'.calls, l) /\ ~Pending(ui'.calls, l)
    BY <1>2, <1>10, <2>4, AbortedInv DEF k2
  <2>6. FieldsInv(ui')
    BY <1>11, <2>4 DEF FieldsInv, SameForm, SameSubmit
  <2>7. ListsBut(ui', l)
    BY <1>12, <2>4, <2>5, OtherLists DEF SameForm
  <2>8. Shows(ui'.lists, ui'.calls, l)
    BY <2>1, <2>4, <2>5 DEF Shows
  <2>9. ASSUME NEW j \in Kind, Versions(j) = l
        PROVE  OfChoice(ui'.lists, ui'.parent, ui'.calls, j)
    <3>1. j = k
      BY <2>9, Lanes DEF l
    <3>2. ui'.parent[j] = None
      BY <1>5, <1>10, <1>14, <2>4, <3>1 DEF SameForm
    <3> QED
      BY <2>1, <2>4, <2>5, <2>9, <3>2 DEF OfChoice, Pending
  <2>10. SubmitInv(ui', created)
    BY <1>3, <1>13, <2>4, <2>5, SameSubmission DEF SameForm, SameSubmit
  <2>11. PageInv(ui', created)
    BY <1>3, <2>5, <2>6, <2>7, <2>8, <2>9, <2>10, AllLists DEF PageInv
  <2> QED
    BY <2>11, SameStored DEF SelectParent, Stored
<1>15. CASE p # None
  <2>1. ui' = Load(w, l, p, 1, FALSE)
    BY <1>8, <1>15 DEF KeyChanged, l
  <2>2. \A j \in Kind : l = Versions(j) => p = w.parent[j]
    BY <1>5, <1>10, Lanes DEF l
  <2>3. PageInv(ui', created)
    BY <1>2, <1>3, <1>10, <1>11, <1>12, <1>13, <2>1, <2>2, LoadInv
  <2> QED
    BY <2>3, SameStored DEF SelectParent, Stored
<1> QED
  BY <1>14, <1>15

LEMMA SelectVersionInv == ASSUME IInv, SelectVersion PROVE IInv'
<1>0. PICK k \in Kind :
        \E version \in {None} \cup Choices(ui.lists[Versions(k)].rows) :
          ~ui.submitting /\ ui' = [ui EXCEPT !.version[k] = version]
  BY DEF SelectVersion
<1>1. PICK version \in {None} \cup Choices(ui.lists[Versions(k)].rows) :
        ~ui.submitting /\ ui' = [ui EXCEPT !.version[k] = version]
  BY <1>0
<1> DEFINE versions == [ui.version EXCEPT ![k] = version]
<1>2. /\ FieldsInv(ui) /\ CallsInv(ui.calls) /\ ListsInv(ui) /\ SubmitInv(ui, created)
      /\ IsPage(ui)
  BY DEF IInv, PageInv, FieldsInv
<1>3. versions \in Choice
  BY <1>2 DEF FieldsInv, Choice, Choices
<1>4. ui' = [ui EXCEPT !.version = versions]
  BY <1>1
<1> HIDE DEF versions
<1>5. /\ IsPage(ui') /\ ui'.project = ui.project /\ ui'.projectError = ui.projectError
      /\ ui'.parent = ui.parent /\ ui'.version = versions /\ ui'.submitError = ui.submitError
      /\ ui'.lists = ui.lists /\ ui'.calls = ui.calls /\ SameSubmit(ui, ui')
  BY <1>2, <1>4 DEF IsPage, SameSubmit
<1>6. FieldsInv(ui')
  BY <1>2, <1>3, <1>5 DEF FieldsInv, SameSubmit
<1>7. CallsInv(ui'.calls) /\ ListsInv(ui')
  BY <1>2, <1>5 DEF ListsInv
<1>8. SubmitInv(ui', created)
  BY <1>1, <1>2, <1>5, NotSubmitting DEF SubmitInv, SameSubmit
<1> QED
  BY <1>6, <1>7, <1>8, SameStored DEF PageInv, SelectVersion, Stored

LEMMA SubmitStep == ASSUME IInv, Submit PROVE IInv'
<1> DEFINE k == Sent(ui.calls, SubmitLane, SubmitArg(ui.version))
           yes == TRUE
<1>1. ~ui.submitting /\ ui' = createSelectedExperiment(ui)
  BY DEF Submit, CanSubmit
<1>2. /\ FieldsInv(ui) /\ CallsInv(ui.calls) /\ ListsInv(ui) /\ SubmitInv(ui, created)
      /\ IsPage(ui) /\ AreCalls(ui.calls)
  BY DEF IInv, PageInv, FieldsInv, CallsInv
<1>3. ui' = [ui EXCEPT !.submitting = yes, !.submitError = None, !.calls = k]
  BY <1>1 DEF createSelectedExperiment
<1>4. None \in MaybeError /\ yes \in BOOLEAN /\ yes
  BY DEF MaybeError
<1> HIDE DEF k, yes
<1>5. /\ IsPage(ui') /\ ui'.project = ui.project /\ ui'.projectError = ui.projectError
      /\ ui'.parent = ui.parent /\ ui'.version = ui.version /\ ui'.submitError = None
      /\ ui'.lists = ui.lists /\ ui'.calls = k /\ ui'.submitting = yes
      /\ ui'.pushed = ui.pushed /\ ui'.unanswered = ui.unanswered
  BY <1>2, <1>3 DEF IsPage
<1>6. FieldsInv(ui')
  BY <1>2, <1>4, <1>5 DEF FieldsInv
<1>7. SubmitLane \in Lane /\ SubmitLane \notin List
  BY Lanes
<1>8. /\ CallsInv(k) /\ Elsewhere(ui.calls, k, SubmitLane)
      /\ \A d \in k : d.lane = SubmitLane /\ d.live => d.arg = SubmitArg(ui.version)
  BY <1>2, <1>7, SentInv DEF k
<1>9. ListsInv(ui')
  BY <1>2, <1>5, <1>7, <1>8, OtherLists, AllLists
<1>10. \A c \in ui.calls : c.lane = SubmitLane => ~c.live
  BY <1>1, <1>2, NotSubmitting
<1>11. ASSUME ~ui.unanswered, ~ui.pushed
       PROVE  created = 0 /\ \A d \in k : d.lane = SubmitLane => d.live
  <2>1. \A c \in ui.calls : c.lane # SubmitLane
    BY <1>2, <1>10, <1>11 DEF SubmitInv
  <2>2. \A d \in k : \/ d = Call(SubmitLane, SubmitArg(ui.version))
                    \/ \E c \in ui.calls : d.lane = c.lane
    BY <1>2, SentCalls DEF k
  <2>3. Call(SubmitLane, SubmitArg(ui.version)).live
    BY CallFields
  <2> QED
    BY <1>2, <1>11, <2>1, <2>2, <2>3 DEF SubmitInv
<1>12. SubmitArg(ui.version).choice = ui.version
  BY DEF SubmitArg
<1>13. SubmitInv(ui', created)
  BY <1>4, <1>5, <1>8, <1>11, <1>12 DEF SubmitInv
<1> QED
  BY <1>5, <1>6, <1>8, <1>9, <1>13, SameStored DEF PageInv, Submit, Stored
-----------------------------------------------------------------------------
(* Answers of the server, and what the page gets of them.                  *)
WithCalls(u, k) == [u EXCEPT !.calls = k]
LEMMA CallsFields ==
  ASSUME NEW u, IsPage(u), NEW k, NEW v, v = WithCalls(u, k)
  PROVE  IsPage(v) /\ SameForm(u, v) /\ SameSubmit(u, v) /\ v.lists = u.lists /\ v.calls = k
BY DEF WithCalls, IsPage, SameForm, SameSubmit

LEMMA ServedPage ==
  ASSUME NEW u, NEW n, PageInv(u, n), NEW c \in u.calls, NEW answer,
         \A d : ServedBy(d, c, answer) => Known(d),
         NEW v, v = WithCalls(u, Served(u.calls, c, answer))
  PROVE  /\ FieldsInv(v) /\ CallsInv(v.calls) /\ ListsInv(v)
         /\ Elsewhere(u.calls, v.calls, c.lane)
         /\ SameForm(u, v) /\ SameSubmit(u, v)
         /\ \A d \in v.calls : (d \in u.calls /\ d # c) \/ ServedBy(d, c, answer)
         /\ \E d \in v.calls : ServedBy(d, c, answer)
<1> DEFINE k == Served(u.calls, c, answer)
<1>1. /\ FieldsInv(u) /\ AreCalls(u.calls) /\ OneLive(u.calls) /\ \A d \in u.calls : Known(d)
      /\ ListsInv(u) /\ IsPage(u)
  BY DEF PageInv, CallsInv, FieldsInv
<1>2. /\ IsPage(v) /\ SameForm(u, v) /\ SameSubmit(u, v) /\ v.lists = u.lists /\ v.calls = k
  BY <1>1, CallsFields
<1>3. /\ AreCalls(k)
      /\ \A d \in k : (d \in u.calls /\ d # c) \/ ServedBy(d, c, answer)
      /\ \E d \in k : ServedBy(d, c, answer)
      /\ \A d \in u.calls : d # c => d \in k
      /\ OneLive(k)
  BY <1>1, ServedFacts
<1> HIDE DEF k
<1>4. FieldsInv(v)
  BY <1>1, <1>2 DEF FieldsInv, SameForm, SameSubmit
<1>5. CallsInv(v.calls)
  BY <1>1, <1>2, <1>3 DEF CallsInv
<1>6. Elsewhere(u.calls, v.calls, c.lane)
  BY <1>2, <1>3 DEF Elsewhere, ServedBy
<1>7. \A l : Pending(u.calls, l) <=> Pending(k, l)
  BY <1>3 DEF Pending, ServedBy
<1>8. \A l \in List : Shows(v.lists, v.calls, l)
  BY <1>1, <1>2, <1>7 DEF ListsInv, Shows
<1>9. ASSUME NEW j \in Kind PROVE OfChoice(v.lists, v.parent, v.calls, j)
  <2>1. OfChoice(u.lists, u.parent, u.calls, j) /\ v.parent = u.parent
    BY <1>1, <1>2 DEF ListsInv, SameForm
  <2> QED
    BY <1>2, <1>3, <2>1 DEF OfChoice, ServedBy
<1> QED
  BY <1>2, <1>3, <1>4, <1>5, <1>6, <1>8, <1>9 DEF ListsInv

LEMMA ServeReadInv == ASSUME IInv, NEW c \in ui.calls, ServeRead(c) PROVE IInv'
<1>1. PageInv(ui, created) /\ StoredInv /\ Known(c)
  BY DEF IInv, PageInv, CallsInv
<1>2. c.lane = ProjectLane \/ (c.lane \in List /\ c.lane.list = "parents" /\ c.lane.kind \in Kind)
  BY <1>1, Lanes DEF ServeRead, Known, Lane
<1>3. \/ c.lane = ProjectLane /\ Answer(c) \in {"active", "inactive"}
      \/ c.lane \in List /\ Answer(c) \in SUBSET Parent
  <2>1. CASE c.lane = ProjectLane
    BY <2>1, Lanes DEF Answer
  <2>2. CASE c.lane \in List /\ c.lane.list = "parents" /\ c.lane.kind \in Kind
    <3>1. c.lane # ProjectLane
      BY <2>2, Lanes
    <3>2. Answer(c) \subseteq active[c.lane.kind]
      BY <2>2, <3>1 DEF Answer
    <3> QED
      BY <1>1, <2>2, <3>2 DEF StoredInv
  <2> QED
    BY <1>2, <2>1, <2>2
<1> DEFINE answer == Answered(Answer(c))
<1>4. \A d : ServedBy(d, c, answer) => Known(d)
  BY <1>1, <1>3, Lanes DEF ServedBy, Known
<1>5. ui' = WithCalls(ui, Served(ui.calls, c, answer)) /\ c.lane # SubmitLane
  BY <1>2, Lanes DEF ServeRead, WithCalls
<1> HIDE DEF answer
<1>6. /\ FieldsInv(ui') /\ CallsInv(ui'.calls) /\ ListsInv(ui')
      /\ Elsewhere(ui.calls, ui'.calls, c.lane)
      /\ SameForm(ui, ui') /\ SameSubmit(ui, ui')
  BY <1>1, <1>4, <1>5, ServedPage
<1>7. SubmitInv(ui', created)
  BY <1>1, <1>5, <1>6, SameSubmission DEF PageInv, SameForm, SameSubmit
<1> QED
  BY <1>6, <1>7, SameStored DEF PageInv, ServeRead, Stored

LEMMA AnswersDiffer ==
  /\ \A s : <<Answered(s)>> # <<Refused(409, "DATASET_INACTIVE")>>
  /\ \A s : <<s>> # Waiting
<1>1. \A s : Answered(s) # Refused(409, "DATASET_INACTIVE")
  BY DEF Answered, Refused, Response
<1>2. \A s, t : <<s>> = <<t>> => s = t
  OBVIOUS
<1>3. \A s : <<s>> # Waiting
  BY DEF Waiting
<1> QED
  BY <1>1, <1>2, <1>3

LEMMA ServeSubmitInv == ASSUME IInv, NEW c \in ui.calls, ServeSubmit(c) PROVE IInv'
<1>1. /\ PageInv(ui, created) /\ StoredInv /\ Known(c) /\ SubmitInv(ui, created)
      /\ OneLive(ui.calls)
  BY DEF IInv, PageInv, CallsInv
<1>2. c.lane = SubmitLane /\ c.reply = Waiting
  BY DEF ServeSubmit
<1>3. PICK answer : /\ ui' = WithCalls(ui, Served(ui.calls, c, answer))
                    /\ \/ answer = Answered(Made) /\ created' = created + 1
                       \/ answer = Refused(409, "DATASET_INACTIVE") /\ created' = created
  <2> DEFINE usable == projectActive /\ \A k \in Kind : c.arg.choice[k].of \in active[k]
             answer == IF usable THEN Answered(Made) ELSE Refused(409, "DATASET_INACTIVE")
  <2>1. created' = IF usable THEN created + 1 ELSE created
    BY DEF ServeSubmit
  <2>2. ui' = WithCalls(ui, Served(ui.calls, c, answer))
    BY DEF ServeSubmit, WithCalls
  <2> HIDE DEF usable
  <2>3. \/ answer = Answered(Made) /\ created' = created + 1
        \/ answer = Refused(409, "DATASET_INACTIVE") /\ created' = created
    BY <2>1
  <2> QED
    BY <2>2, <2>3
<1>4. \A d : ServedBy(d, c, answer) => Known(d)
  BY <1>1, <1>2, <1>3, Lanes DEF ServedBy, Known
<1>5. /\ FieldsInv(ui') /\ CallsInv(ui'.calls) /\ ListsInv(ui')
      /\ SameForm(ui, ui') /\ SameSubmit(ui, ui')
      /\ \A d \in ui'.calls : (d \in ui.calls /\ d # c) \/ ServedBy(d, c, answer)
      /\ \E d \in ui'.calls : ServedBy(d, c, answer)
  BY <1>1, <1>3, <1>4, ServedPage
<1>6. StoredInv'
  <2>1. created < MaxCreated /\ UNCHANGED <<active, projectActive>>
    BY DEF ServeSubmit
  <2> QED
    BY <1>1, <1>3, <2>1, BoundsAssumption DEF StoredInv
<1>7. \A d \in ui'.calls :
        d.lane = SubmitLane /\ d.live => ui'.submitting /\ d.arg.choice = ui'.version
  BY <1>1, <1>5 DEF SubmitInv, ServedBy, SameForm, SameSubmit
<1>8. ASSUME ~ui'.unanswered, ~ui'.pushed
      PROVE  /\ \A d \in ui'.calls : d.lane = SubmitLane => d.live
             /\ \/ created' = 0
                \/ /\ created' = 1
                   /\ \E d \in ui'.calls : d.lane = SubmitLane /\ d.reply = <<Answered(Made)>>
  <2>1. \A d \in ui.calls : d.lane = SubmitLane => d.live
    BY <1>1, <1>5, <1>8 DEF SubmitInv, SameSubmit
  <2>2. \A d \in ui'.calls : d.lane = SubmitLane => d.live
    BY <1>5, <2>1 DEF ServedBy
  <2>3. \A d \in ui.calls : d.lane = SubmitLane => d = c
    BY <1>1, <1>2, <2>1 DEF OneLive
  <2>4. created = 0
    BY <1>1, <1>2, <1>5, <1>8, <2>3, AnswersDiffer DEF SubmitInv, SameSubmit
  <2>5. created' = 0 \/ (created' = 1 /\ answer = Answered(Made))
    BY <1>3, <2>4
  <2> QED
    BY <1>2, <1>5, <2>2, <2>5 DEF ServedBy
<1>9. SubmitInv(ui', created')
  BY <1>7, <1>8 DEF SubmitInv
<1> QED
  BY <1>5, <1>6, <1>9, PrimedPage DEF PageInv

LEMMA DeactivateElsewhereInv == ASSUME IInv, DeactivateElsewhere PROVE IInv'
<1>1. ui' = ui /\ created' = created
  BY DEF DeactivateElsewhere
<1>2. StoredInv'
  BY DEF DeactivateElsewhere, IInv, StoredInv
<1>3. PageInv(ui', created')
  BY <1>1 DEF IInv
<1> QED
  BY <1>2, <1>3, PrimedPage
-----------------------------------------------------------------------------
LEMMA LostFacts ==
  \A o \in Lost : o.kind # "data" /\ o \in MaybeError /\ o # None
BY LostCalls, NoneAssumption DEF MaybeError

LEMMA DataFields ==
  ASSUME NEW t, NEW o, o = request(Answered(t))
  PROVE  o.kind = "data" /\ o.value = t
BY AnsweredIsData DEF Data

LEMMA OutcomeOf ==
  ASSUME NEW c, NEW o \in OutcomesOf(c)
  PROVE  \/ o \in Lost
         \/ c.reply # Waiting /\ o = request(c.reply[1])
         \/ c.lane.list = "versions" /\ o = request(Answered({}))
<1>1. CASE c.reply # Waiting
  BY <1>1 DEF OutcomesOf, Outcomes
<1>2. CASE c.reply = Waiting /\ c.lane.list = "versions"
  BY <1>2 DEF OutcomesOf, Outcomes
<1>3. CASE c.reply = Waiting /\ c.lane.list # "versions"
  BY <1>3 DEF OutcomesOf
<1> QED
  BY <1>1, <1>2, <1>3

LEMMA ProjectOutcome ==
  ASSUME NEW c, Known(c), c.lane = ProjectLane, NEW o \in OutcomesOf(c)
  PROVE  o \in Lost \/ (o.kind = "data" /\ o.value \in {"active", "inactive"})
<1>1. CASE c.reply # Waiting /\ o = request(c.reply[1])
  <2>1. PICK s \in {"active", "inactive"} : c.reply = <<Answered(s)>>
    BY <1>1 DEF Known
  <2>2. o = request(Answered(s))
    BY <1>1, <2>1
  <2> QED
    BY <2>1, <2>2, DataFields
<1> QED
  BY <1>1, OutcomeOf, Lanes

LEMMA ListOutcome ==
  ASSUME NEW c, Known(c), c.lane \in List, NEW o \in OutcomesOf(c)
  PROVE  o \in Lost \/ (o.kind = "data" /\ o.value \in SUBSET Parent)
<1>1. CASE c.reply # Waiting /\ o = request(c.reply[1])
  <2>1. PICK usable \in SUBSET Parent : c.reply = <<Answered(usable)>>
    BY <1>1 DEF Known
  <2>2. o = request(Answered(usable))
    BY <1>1, <2>1
  <2> QED
    BY <2>1, <2>2, DataFields
<1>2. CASE o = request(Answered({}))
  BY <1>2, DataFields
<1> QED
  BY <1>1, <1>2, OutcomeOf

LEMMA SubmitOutcome ==
  ASSUME NEW c, Known(c), c.lane = SubmitLane, NEW o \in OutcomesOf(c)
  PROVE  \/ o \in Lost
         \/ o.kind = "data"
         \/ /\ o.kind # "data" /\ o \in MaybeError
            /\ c.reply = <<Refused(409, "DATASET_INACTIVE")>>
<1>1. CASE c.reply = <<Answered(Made)>> /\ o = request(c.reply[1])
  BY <1>1, DataFields
<1>2. CASE c.reply = <<Refused(409, "DATASET_INACTIVE")>> /\ o = request(c.reply[1])
  <2>1. o = request(Refused(409, "DATASET_INACTIVE"))
    BY <1>2
  <2>2. o.kind # "data"
    BY <2>1, RefusedIsError
  <2>3. o \in MaybeError
    BY <2>1 DEF MaybeError
  <2> QED
    BY <1>2, <2>2, <2>3
<1> QED
  BY <1>1, <1>2, OutcomeOf, Lanes DEF Known

(* A call that is not the submission's ends.                               *)
LEMMA EndedPage ==
  ASSUME NEW u, NEW n, PageInv(u, n), NEW c \in u.calls, c.lane # SubmitLane,
         NEW v, v = WithCalls(u, Ended(u.calls, c))
  PROVE  /\ FieldsInv(v) /\ CallsInv(v.calls) /\ SubmitInv(v, n)
         /\ SameForm(u, v) /\ SameSubmit(u, v) /\ v.lists = u.lists
         /\ ListsBut(v, c.lane)
         /\ c.live => ~Pending(v.calls, c.lane)
         /\ ~c.live \/ c.lane \notin List => ListsInv(v)
<1> DEFINE k == Ended(u.calls, c)
<1>1. FieldsInv(u) /\ CallsInv(u.calls) /\ ListsInv(u) /\ SubmitInv(u, n) /\ IsPage(u)
  BY DEF PageInv, FieldsInv
<1>2. /\ IsPage(v) /\ SameForm(u, v) /\ SameSubmit(u, v) /\ v.lists = u.lists /\ v.calls = k
  BY <1>1, CallsFields
<1>3. /\ CallsInv(k) /\ Elsewhere(u.calls, k, c.lane)
      /\ c.live => ~Pending(k, c.lane)
      /\ \A d \in u.calls : d.live /\ ~c.live => d \in k
      /\ k \subseteq u.calls
  BY <1>1, EndedInv
<1> HIDE DEF k
<1>4. FieldsInv(v)
  BY <1>1, <1>2 DEF FieldsInv, SameForm, SameSubmit
<1>5. ListsBut(v, c.lane)
  BY <1>1, <1>2, <1>3, OtherLists, AllLists DEF SameForm
<1>6. SubmitInv(v, n)
  BY <1>1, <1>2, <1>3, SameSubmission DEF SameForm, SameSubmit
<1>7. CASE c.lane \notin List
  BY <1>2, <1>3, <1>4, <1>5, <1>6, <1>7, AllLists
<1>8. CASE ~c.live
  <2>1. \A l : Pending(k, l) <=> Pending(u.calls, l)
    BY <1>3, <1>8 DEF Pending
  <2>2. \A l \in List : Shows(v.lists, v.calls, l)
    BY <1>1, <1>2, <2>1 DEF ListsInv, Shows
  <2>3. ASSUME NEW j \in Kind PROVE OfChoice(v.lists, v.parent, v.calls, j)
    <3>1. OfChoice(u.lists, u.parent, u.calls, j) /\ v.parent = u.parent
      BY <1>1, <1>2 DEF ListsInv, SameForm
    <3> QED
      BY <1>2, <1>3, <3>1 DEF OfChoice
  <2> QED
    BY <1>2, <1>3, <1>4, <1>5, <1>6, <1>8, <2>2, <2>3 DEF ListsInv
<1>9. CASE c.live /\ c.lane \in List
  BY <1>2, <1>3, <1>4, <1>5, <1>6, <1>9
<1> QED
  BY <1>7, <1>8, <1>9

Read(u, project, e, b) == [u EXCEPT !.project = project, !.projectError = e, !.projectLoading = b]
LEMMA ReadFields ==
  ASSUME NEW u, IsPage(u), NEW project, NEW e, NEW b, NEW v, v = Read(u, project, e, b)
  PROVE  /\ IsPage(v) /\ v.project = project /\ v.projectError = e /\ v.parent = u.parent
         /\ v.version = u.version /\ v.lists = u.lists /\ v.submitError = u.submitError
         /\ v.calls = u.calls /\ SameSubmit(u, v)
BY DEF Read, IsPage, SameSubmit

LEMMA ReceiveProjectInv == ASSUME IInv, NEW c \in ui.calls, ReceiveProject(c) PROVE IInv'
<1> DEFINE u == WithCalls(ui, Ended(ui.calls, c))
<1>1. PageInv(ui, created) /\ Known(c) /\ c.lane = ProjectLane
  BY DEF IInv, PageInv, CallsInv, ReceiveProject
<1>2. PICK o \in OutcomesOf(c) : ui' = IF IsCurrent(c) THEN ProjectLoaded(u, o) ELSE u
  BY DEF ReceiveProject, WithCalls
<1>3. c.lane # SubmitLane /\ c.lane \notin List
  BY <1>1, Lanes
<1>4. FieldsInv(u) /\ CallsInv(u.calls) /\ SubmitInv(u, created) /\ ListsInv(u)
  BY <1>1, <1>3, EndedPage
<1>5. o \in Lost \/ (o.kind = "data" /\ o.value \in {"active", "inactive"})
  BY <1>1, ProjectOutcome
<1> HIDE DEF u
<1>6. PageInv(ProjectLoaded(u, o), created)
  <2> DEFINE project == IF o.kind = "data" THEN o.value ELSE u.project
             e == IF o.kind = "data" THEN u.projectError ELSE o
             no == FALSE
             v == ProjectLoaded(u, o)
  <2>1. project \in {None, "active", "inactive"} /\ e \in MaybeError
    BY <1>4, <1>5, LostFacts DEF FieldsInv
  <2>2. v = Read(u, project, e, no)
    BY DEF ProjectLoaded, Read
  <2> HIDE DEF project, e, no, v
  <2>3. /\ IsPage(v) /\ v.project = project /\ v.projectError = e /\ v.parent = u.parent
        /\ v.version = u.version /\ v.lists = u.lists /\ v.submitError = u.submitError
        /\ v.calls = u.calls /\ SameSubmit(u, v)
    BY <1>4, <2>2, ReadFields DEF FieldsInv
  <2>4. FieldsInv(v)
    BY <1>4, <2>1, <2>3 DEF FieldsInv, SameSubmit
  <2>5. CallsInv(v.calls) /\ ListsInv(v) /\ SubmitInv(v, created)
    BY <1>4, <2>3 DEF ListsInv, SubmitInv, SameSubmit
  <2>6. PageInv(v, created)
    BY <2>4, <2>5 DEF PageInv
  <2> QED
    BY <2>6 DEF v
<1>7. PageInv(ui', created)
  BY <1>2, <1>4, <1>6 DEF PageInv
<1> QED
  BY <1>7, SameStored DEF ReceiveProject, Stored

LEMMA ReceiveListInv == ASSUME IInv, NEW c \in ui.calls, ReceiveList(c) PROVE IInv'
<1> DEFINE u == WithCalls(ui, Ended(ui.calls, c))
           l == c.lane
<1>1. PageInv(ui, created) /\ Known(c) /\ c.lane \in List /\ ListsInv(ui)
  BY DEF IInv, PageInv, CallsInv, ReceiveList
<1>2. PICK o \in OutcomesOf(c) : ui' = IF IsCurrent(c) THEN ListLoaded(u, c, o) ELSE u
  BY DEF ReceiveList, WithCalls
<1>3. c.lane # SubmitLane
  BY <1>1, Lanes
<1>4. /\ FieldsInv(u) /\ CallsInv(u.calls) /\ SubmitInv(u, created)
      /\ SameForm(ui, u) /\ SameSubmit(ui, u) /\ u.lists = ui.lists
      /\ ListsBut(u, l)
      /\ c.live => ~Pending(u.calls, l)
      /\ ~c.live => ListsInv(u)
  BY <1>1, <1>3, EndedPage
<1>5. o \in Lost \/ (o.kind = "data" /\ o.value \in SUBSET Parent)
  BY <1>1, ListOutcome
<1> HIDE DEF u, l
<1>6. CASE c.live
  <2> DEFINE no == FALSE
             x == IF o.kind = "data"
                  THEN Held(Rows(c.arg.of, c.arg.page, o.value), no, no, None)
                  ELSE Held(u.lists[l].rows, no, no, o)
             k == u.calls
  <2>0. IsPage(u) /\ AreLists(u.lists) /\ IsList(u.lists[l]) /\ l \in List /\ None \in MaybeError
    BY <1>1, <1>4 DEF FieldsInv, AreLists, MaybeError, l
  <2>1. ui' = [u EXCEPT !.lists[l] = x]
    BY <1>2, <1>6 DEF IsCurrent, ListLoaded, l
  <2>2. no = FALSE
    OBVIOUS
  <2> HIDE DEF no
  <2>3. /\ IsList(x) /\ ~Busy(x)
        /\ x.error = None => x.rows.of = c.arg.of
    <3>1. CASE o.kind = "data"
      <4>1. o.value \subseteq Parent
        BY <1>5, <3>1, LostFacts
      <4>2. x = Held(Rows(c.arg.of, c.arg.page, o.value), no, no, None)
        BY <3>1
      <4> HIDE DEF x
      <4> QED
        BY <2>0, <2>2, <4>1, <4>2 DEF IsList, Held, Rows, Busy
    <3>2. CASE o.kind # "data"
      <4>1. o \in MaybeError /\ o # None
        BY <1>5, <3>2, LostFacts
      <4>2. x = Held(u.lists[l].rows, no, no, o)
        BY <3>2
      <4> HIDE DEF x
      <4> QED
        BY <2>0, <2>2, <4>1, <4>2 DEF IsList, Held, Busy
    <3> QED
      BY <3>1, <3>2
  <2> HIDE DEF x
  <2>4. ui' = ListChanged(u, l, x, k)
    <3>1. ui' = [u EXCEPT !.lists = [@ EXCEPT ![l] = x]]
      BY <2>1
    <3> DEFINE L == [u.lists EXCEPT ![l] = x]
    <3>2. ui' = [u EXCEPT !.lists = L]
      BY <3>1
    <3> HIDE DEF L
    <3>3. ui' = [u EXCEPT !.lists = L, !.calls = k]
      BY <2>0, <3>2 DEF IsPage
    <3> QED
      BY <3>3 DEF ListChanged, L
  <2>5. /\ IsPage(ui') /\ AreLists(ui'.lists) /\ SameForm(u, ui') /\ SameSubmit(u, ui')
        /\ ui'.lists[l] = x /\ \A m \in List : m # l => ui'.lists[m] = u.lists[m]
        /\ ui'.calls = u.calls
    BY <2>0, <2>3, <2>4, ListChangedFields
  <2>6. FieldsInv(ui')
    BY <1>4, <2>5 DEF FieldsInv, SameForm, SameSubmit
  <2>7. Elsewhere(u.calls, ui'.calls, l)
    BY <2>5 DEF Elsewhere
  <2>8. ListsBut(ui', l)
    BY <1>4, <2>5, <2>7, OtherLists DEF SameForm
  <2>9. Shows(ui'.lists, ui'.calls, l)
    BY <1>4, <1>6, <2>3, <2>5 DEF Shows
  <2>10. ASSUME NEW j \in Kind, Versions(j) = l
         PROVE  OfChoice(ui'.lists, ui'.parent, ui'.calls, j)
    <3>1. c.arg.of = ui.parent[j]
      BY <1>1, <1>6, <2>10 DEF ListsInv, OfChoice, l
    <3>2. ui'.parent[j] = ui.parent[j]
      BY <1>4, <2>5 DEF SameForm
    <3> QED
      BY <1>4, <1>6, <2>3, <2>5, <2>10, <3>1, <3>2 DEF OfChoice, Pending
  <2>11. SubmitInv(ui', created)
    BY <1>4, <2>5 DEF SubmitInv, SameForm, SameSubmit
  <2>12. PageInv(ui', created)
    BY <1>4, <2>0, <2>5, <2>6, <2>8, <2>9, <2>10, <2>11, AllLists DEF PageInv
  <2> QED
    BY <2>12, SameStored DEF ReceiveList, Stored
<1>7. CASE ~c.live
  <2>1. PageInv(ui', created)
    BY <1>2, <1>4, <1>7 DEF PageInv, IsCurrent
  <2> QED
    BY <2>1, SameStored DEF ReceiveList, Stored
<1> QED
  BY <1>6, <1>7

WithOutcome(u, b, p, q, e) ==
  [u EXCEPT !.submitting = b, !.pushed = p, !.unanswered = q, !.submitError = e]
LEMMA SubmittedFields ==
  ASSUME NEW u, IsPage(u), NEW b, NEW p, NEW q, NEW e, NEW v, v = WithOutcome(u, b, p, q, e)
  PROVE  /\ IsPage(v) /\ v.project = u.project /\ v.projectError = u.projectError
         /\ v.parent = u.parent /\ v.version = u.version /\ v.lists = u.lists
         /\ v.calls = u.calls /\ v.submitting = b /\ v.pushed = p /\ v.unanswered = q
         /\ v.submitError = e
BY DEF WithOutcome, IsPage

(* The submission's call ends: no submission is live any more, and an      *)
(* experiment that was made is either known now or never will be.          *)
LEMMA ReceiveSubmitInv == ASSUME IInv, NEW c \in ui.calls, ReceiveSubmit(c) PROVE IInv'
<1> DEFINE k == EndedMutation(ui.calls, c)
           u == WithCalls(ui, k)
<1>1. /\ PageInv(ui, created) /\ Known(c) /\ c.lane = SubmitLane /\ (c.live \/ c.reply # Waiting)
      /\ FieldsInv(ui) /\ ListsInv(ui) /\ SubmitInv(ui, created) /\ IsPage(ui)
      /\ AreCalls(ui.calls) /\ OneLive(ui.calls) /\ \A d \in ui.calls : Known(d)
  BY DEF IInv, PageInv, CallsInv, FieldsInv, ReceiveSubmit
<1>2. PICK o \in OutcomesOf(c) : ui' = IF IsCurrent(c) THEN Submitted(u, o) ELSE u
  BY DEF ReceiveSubmit, WithCalls
<1>3. IsPage(u) /\ SameForm(ui, u) /\ SameSubmit(ui, u) /\ u.lists = ui.lists /\ u.calls = k
  BY <1>1, CallsFields
<1>4. /\ AreCalls(k) /\ OneLive(k)
      /\ \A d \in k :
           \/ d \in ui.calls /\ d # c
           \/ ~d.live /\ d.lane = c.lane /\ d.arg = c.arg /\ d.reply = c.reply
      /\ \A d \in ui.calls : d # c => d \in k
  BY <1>1, EndedMutationCalls
<1>5. c.reply # Waiting => k = ui.calls \ {c}
  BY DEF EndedMutation, Ended
<1>6. o \in Lost \/ o.kind = "data"
      \/ (o.kind # "data" /\ o \in MaybeError /\ c.reply = <<Refused(409, "DATASET_INACTIVE")>>)
  BY <1>1, SubmitOutcome
<1> HIDE DEF k, u
<1>7. CallsInv(k) /\ Elsewhere(ui.calls, k, SubmitLane) /\ SubmitLane \notin List
  <2>1. \A d \in k : Known(d)
    BY <1>1, <1>4 DEF Known
  <2>2. Elsewhere(ui.calls, k, SubmitLane)
    BY <1>1, <1>4 DEF Elsewhere
  <2> QED
    BY <1>4, <2>1, <2>2, Lanes DEF CallsInv
<1>8. FieldsInv(u)
  BY <1>1, <1>3 DEF FieldsInv, SameForm, SameSubmit
<1>9. ListsInv(u)
  BY <1>1, <1>3, <1>7, OtherLists, AllLists DEF SameForm
<1>10. CASE c.live
  <2> DEFINE no == FALSE
             p == u.pushed \/ o.kind = "data"
             q == u.unanswered \/ o \in Lost
             e == IF o.kind = "data" THEN u.submitError ELSE o
  <2>1. ui' = [u EXCEPT !.submitting = no, !.pushed = p, !.unanswered = q, !.submitError = e]
    BY <1>2, <1>10 DEF IsCurrent, Submitted
  <2>2. no \in BOOLEAN /\ ~no /\ p \in BOOLEAN /\ q \in BOOLEAN
    OBVIOUS
  <2>3. e \in MaybeError
    BY <1>6, <1>8, LostFacts DEF FieldsInv
  <2>4. \A d \in k : d.lane = SubmitLane => ~d.live
    BY <1>1, <1>4, <1>10 DEF OneLive
  <2>5. ASSUME ~q, ~p
        PROVE  created = 0 /\ \A d \in k : d.lane # SubmitLane
    <3>1. ~ui.unanswered /\ ~ui.pushed
      BY <1>3, <2>5 DEF SameSubmit
    <3>2. o \notin Lost /\ o.kind # "data"
      BY <2>5
    <3>3. c.reply = <<Refused(409, "DATASET_INACTIVE")>>
      BY <1>6, <3>2
    <3>4. \A d \in ui.calls : d.lane = SubmitLane => d = c
      BY <1>1, <1>10, <3>1 DEF SubmitInv, OneLive
    <3>5. created = 0
      BY <1>1, <3>1, <3>3, <3>4, AnswersDiffer DEF SubmitInv
    <3>6. k = ui.calls \ {c}
      BY <1>5, <3>3, AnswersDiffer DEF Waiting
    <3> QED
      BY <3>4, <3>5, <3>6
  <2> HIDE DEF no, p, q, e
  <2>6. ui' = WithOutcome(u, no, p, q, e)
    BY <2>1 DEF WithOutcome
  <2>7. /\ IsPage(ui') /\ ui'.project = u.project /\ ui'.projectError = u.projectError
        /\ ui'.parent = u.parent /\ ui'.version = u.version /\ ui'.lists = u.lists
        /\ ui'.calls = u.calls /\ ui'.submitting = no /\ ui'.pushed = p /\ ui'.unanswered = q
        /\ ui'.submitError = e
    BY <1>3, <2>6, SubmittedFields
  <2>8. FieldsInv(ui')
    BY <1>8, <2>2, <2>3, <2>7 DEF FieldsInv
  <2>9. CallsInv(ui'.calls) /\ ListsInv(ui')
    BY <1>3, <1>7, <1>9, <2>7 DEF ListsInv
  <2>10. SubmitInv(ui', created)
    BY <1>3, <2>4, <2>5, <2>7 DEF SubmitInv
  <2> QED
    BY <2>8, <2>9, <2>10, SameStored DEF PageInv, ReceiveSubmit, Stored
<1>11. CASE ~c.live
  <2>1. ui' = u
    BY <1>2, <1>11 DEF IsCurrent
  <2>2. ~(~u.unanswered /\ ~u.pushed)
    BY <1>1, <1>3, <1>11 DEF SubmitInv, SameSubmit
  <2>3. \A d \in k : d.live => d \in ui.calls
    BY <1>4
  <2>4. SubmitInv(u, created)
    BY <1>1, <1>3, <2>2, <2>3 DEF SubmitInv, SameForm, SameSubmit
  <2> QED
    BY <1>3, <1>7, <1>8, <1>9, <2>1, <2>4, SameStored DEF PageInv, ReceiveSubmit, Stored
<1> QED
  BY <1>10, <1>11
-----------------------------------------------------------------------------
LEMMA InitInv == Init => IInv
<1> SUFFICES ASSUME Init PROVE IInv
  OBVIOUS
<1>1. StoredInv
  BY BoundsAssumption DEF Init, StoredInv
<1> DEFINE new == {Call(Parents(k), ListArg(None, 1)) : k \in Kind}
           w == LoadProject(NewPage)
           calls == w.calls \cup new
           lists == [l \in List |-> Held(NoRows, l.list = "parents", FALSE, None)]
<1>2. None \in MaybeError
  BY DEF MaybeError
<1>3. /\ IsPage(w) /\ w.project = None /\ w.projectError = None /\ w.submitError = None
      /\ w.parent = [k \in Kind |-> None] /\ w.version = [k \in Kind |-> None]
      /\ w.submitting = FALSE /\ w.pushed = FALSE /\ w.unanswered = FALSE
      /\ w.calls = Sent({}, ProjectLane, ListArg(None, 0))
  <2> DEFINE k == Sent({}, ProjectLane, ListArg(None, 0))
             none == [j \in Kind |-> None]
             unused == [l \in List |-> Unused]
  <2>1. w = [NewPage EXCEPT !.projectLoading = TRUE, !.projectError = None, !.calls = k]
    BY DEF LoadProject, NewPage
  <2> HIDE DEF k, none, unused
  <2>2. w = [project |-> None, projectError |-> None, projectLoading |-> TRUE,
             parent |-> none, version |-> none, lists |-> unused,
             submitting |-> FALSE, submitError |-> None, pushed |-> FALSE, calls |-> k,
             unanswered |-> FALSE]
    BY <2>1 DEF NewPage, none, unused
  <2> HIDE DEF w
  <2> QED
    BY <2>2 DEF IsPage, k, none
<1>4. ui = [w EXCEPT !.lists = lists, !.calls = calls]
  BY DEF Init, Mounted
<1>5. /\ \A d \in w.calls : d = Call(ProjectLane, ListArg(None, 0))
      /\ CallsInv(w.calls)
  <2>1. CallsInv({})
    BY DEF CallsInv, AreCalls, OneLive
  <2>2. CallsInv(w.calls)
    BY <1>3, <2>1, SentInv, Lanes
  <2>3. w.calls = {Call(ProjectLane, ListArg(None, 0))}
    <3>1. Aborted({}, {ProjectLane}) = {}
      BY DEF Aborted
    <3> QED
      BY <1>3, <3>1 DEF Sent
  <2> QED
    BY <2>2, <2>3
<1>6. \A d \in new : \E k \in Kind : d = Call(Parents(k), ListArg(None, 1))
  OBVIOUS
<1>7. \A k \in Kind : Call(Parents(k), ListArg(None, 1)) \in new
  OBVIOUS
<1>8. lists = [l \in List |-> lists[l]]
  OBVIOUS
<1>9. \A l \in List : /\ IsList(lists[l]) /\ lists[l].rows.of = None
                      /\ Busy(lists[l]) <=> l.list = "parents"
  BY <1>2 DEF Held, NoRows, Rows, IsList, Busy
<1> HIDE DEF new, lists
<1>10. /\ IsPage(ui) /\ SameSubmit(w, ui) /\ SameForm(w, ui)
       /\ ui.lists = lists /\ ui.calls = calls
  <2> HIDE DEF w, calls
  <2> QED
    BY <1>3, <1>4 DEF IsPage, SameSubmit, SameForm
<1> HIDE DEF w
<1>11. FieldsInv(ui)
  <2>1. ui.parent \in [Kind -> Parent \cup {None}] /\ ui.version \in Choice
    BY <1>3, <1>10 DEF SameForm, Choice
  <2> QED
    BY <1>2, <1>3, <1>8, <1>9, <1>10, <2>1 DEF FieldsInv, AreLists, SameForm, SameSubmit
<1>12. \A d \in calls : /\ IsCall(d) /\ d.live /\ d.reply = Waiting
                        /\ \/ d = Call(ProjectLane, ListArg(None, 0)) /\ d.lane = ProjectLane
                           \/ \E k \in Kind : /\ d = Call(Parents(k), ListArg(None, 1))
                                              /\ d.lane = Parents(k)
  BY <1>5, <1>6, CallFields
<1>13. CallsInv(calls)
  <2>1. AreCalls(calls) /\ \A d \in calls : Known(d)
    BY <1>12, Lanes DEF AreCalls, Known
  <2>2. ASSUME NEW c \in calls, NEW d \in calls, c.lane = d.lane PROVE c = d
    BY <1>12, <2>2, Lanes
  <2> QED
    BY <2>1, <2>2 DEF CallsInv, OneLive
<1>14. ASSUME NEW l \in List PROVE Shows(lists, calls, l)
  <2>1. CASE l.list = "parents"
    <3>1. PICK k \in Kind : l = Parents(k)
      BY <2>1, Lanes DEF List
    <3>2. Call(l, ListArg(None, 1)) \in calls
      BY <1>7, <3>1
    <3> QED
      BY <1>9, <2>1, <3>2, CallFields DEF Shows, Pending
  <2>2. CASE l.list # "parents"
    <3>1. \A d \in calls : d.lane # l
      BY <1>12, <2>2, Lanes
    <3> QED
      BY <1>9, <2>2, <3>1 DEF Shows, Pending
  <2> QED
    BY <2>1, <2>2
<1>15. ASSUME NEW k \in Kind PROVE OfChoice(lists, ui.parent, calls, k)
  <2>1. \A d \in calls : d.lane # Versions(k)
    BY <1>12, Lanes
  <2>2. ui.parent[k] = None /\ Versions(k) \in List
    BY <1>3, <1>10, Lanes DEF SameForm
  <2> QED
    BY <1>9, <2>1, <2>2 DEF OfChoice
<1>16. SubmitInv(ui, created)
  <2>1. \A d \in calls : d.lane # SubmitLane
    BY <1>12, Lanes
  <2> QED
    BY <1>10, <2>1 DEF SubmitInv, Init
<1> QED
  BY <1>1, <1>10, <1>11, <1>13, <1>14, <1>15, <1>16 DEF IInv, PageInv, ListsInv

LEMMA StepInv == IInv /\ [Next]_vars => IInv'
<1> SUFFICES ASSUME IInv, [Next]_vars PROVE IInv'
  OBVIOUS
<1>1. CASE UNCHANGED vars
  <2>1. PageInv(ui', created) /\ UNCHANGED Stored
    BY <1>1 DEF vars, Stored, IInv
  <2> QED
    BY <2>1, SameStored
<1>2. CASE User
  BY <1>2, SelectParentInv, SelectVersionInv, MovePageInv, RetryInv, SubmitStep DEF User
<1>3. CASE DeactivateElsewhere
  BY <1>3, DeactivateElsewhereInv
<1>4. CASE \E c \in ui.calls : ServeRead(c) \/ ServeSubmit(c) \/ Receive(c)
  BY <1>4, ServeReadInv, ServeSubmitInv, ReceiveProjectInv, ReceiveListInv, ReceiveSubmitInv
     DEF Receive
<1> QED
  BY <1>1, <1>2, <1>3, <1>4 DEF Next

(* No step of the form, of its server or of another user breaks IInv.      *)
THEOREM InvHolds == Safe => []IInv
  BY InitInv, StepInv, PTL DEF Safe

(* A list of versions at rest without an error is of the resource chosen   *)
(* above it, in whatever order choices, pages turned and answers come.     *)
THEOREM ListsFollowChoices == Safe => []ListIsOfTheChoice
<1>1. IInv => ListIsOfTheChoice
  BY DEF IInv, PageInv, ListsInv, OfChoice, Busy, ListIsOfTheChoice
<1> QED
  BY <1>1, InvHolds, PTL

(* A list shows that it is loading exactly while a request of it is under  *)
(* way that is still wanted.                                               *)
THEOREM IndicatorsEnd == Safe => []IndicatorHasRequest
<1>1. IInv => IndicatorHasRequest
  BY DEF IInv, PageInv, ListsInv, Shows, Busy, IndicatorHasRequest
<1> QED
  BY <1>1, InvHolds, PTL

(* What is being created is what the form shows.                           *)
THEOREM FormIsSubmitted == Safe => []SubmittedIsShown
<1>1. IInv => SubmittedIsShown
  BY DEF IInv, PageInv, SubmitInv, SubmittedIsShown
<1> QED
  BY <1>1, InvHolds, PTL

(* One form makes a second experiment only if the answer to the first was  *)
(* lost, or while the page is already being left.                          *)
THEOREM FormMakesOne == Safe => []OneExperimentUnlessLost
<1>1. IInv => OneExperimentUnlessLost
  BY DEF IInv, PageInv, SubmitInv, OneExperimentUnlessLost
<1> QED
  BY <1>1, InvHolds, PTL

(* The form's state stays within its types, and of each lane at most one   *)
(* call is live.                                                           *)
THEOREM TypesHold == Safe => []TypeOK
<1>1. IInv => TypeOK
  <2> SUFFICES ASSUME IInv PROVE TypeOK
    OBVIOUS
  <2>1. FieldsInv(ui) /\ OneLive(ui.calls) /\ StoredInv
    BY DEF IInv, PageInv, CallsInv
  <2>2. ASSUME NEW l \in Lane
        PROVE  Cardinality({c \in ui.calls : c.lane = l /\ c.live}) <= 1
    <3> DEFINE S == {c \in ui.calls : c.lane = l /\ c.live}
    <3>1. \A c, d \in S : c = d
      BY <2>1 DEF OneLive
    <3> HIDE DEF S
    <3>2. CASE S = {}
      BY <3>2, FS_EmptySet DEF S
    <3>3. CASE S # {}
      <4>1. PICK c : S = {c}
        BY <3>1, <3>3
      <4>2. Cardinality({c}) = 1
        BY FS_Singleton
      <4>3. Cardinality(S) <= 1
        BY <4>1, <4>2
      <4> QED
        BY <4>3 DEF S
    <3> QED
      BY <3>2, <3>3
  <2>3. {ui.projectError, ui.submitError} \cup {ui.lists[l].error : l \in List} \subseteq MaybeError
    BY <2>1 DEF FieldsInv, AreLists, IsList
  <2> QED
    BY <2>1, <2>2, <2>3 DEF TypeOK, FieldsInv, StoredInv
<1> QED
  BY <1>1, InvHolds, PTL
=============================================================================
