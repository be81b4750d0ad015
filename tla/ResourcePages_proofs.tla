------------------------ MODULE ResourcePages_proofs ------------------------
(***************************************************************************)
(* Proofs about ResourcePages for every size of a page, every bound and    *)
(* any number of superseded calls.  First the page of a target or an       *)
(* evaluator, then that of a dataset: what its calls may have been         *)
(* answered, that what the server commits keeps that, what every answer    *)
(* and every act of the user leaves of it, and what is shown therefore.    *)
(***************************************************************************)
EXTENDS ResourcePages, Calls_proofs, FiniteSetTheorems, Sequences

(* ---- Calls that hold up an action of a page. -------------------------- *)

\* A call holds up an action: a live one of some lanes, or the reload the
\* action waits for, live or not.
Holds(c, lanes, loads) == (c.live /\ c.lane \in lanes) \/ <<c.lane, c.arg.by>> \in loads
NoneHolds(calls, lanes, loads) == \A c \in calls : ~Holds(c, lanes, loads)
OneHolds(calls, lanes, loads) ==
  \A c, d \in calls : Holds(c, lanes, loads) /\ Holds(d, lanes, loads) => c = d
-----------------------------------------------------------------------------
LEMMA GivenUpHolds ==
  ASSUME NEW c, IsCall(c), NEW lane, NEW d, d = GivenUp(c, {lane}), NEW lanes, NEW loads,
         Holds(d, lanes, loads)
  PROVE  Holds(c, lanes, loads)
<1>1. /\ IsCall(d) /\ d.lane = c.lane /\ d.arg = c.arg /\ d.reply = c.reply
      /\ c.lane \in {lane} => ~d.live
      /\ c.lane \notin {lane} => d = c
  BY GivenUpFields
<1>2. d.live => c.live
  BY <1>1
<1> QED
  BY <1>1, <1>2 DEF Holds

LEMMA SentHolds ==
  ASSUME NEW calls, AreCalls(calls), NEW lane, NEW arg, NEW lanes, NEW loads,
         OneHolds(calls, lanes, loads),
         Holds(Call(lane, arg), lanes, loads) => NoneHolds(calls, lanes, loads),
         NEW k, k = Sent(calls, lane, arg)
  PROVE  /\ OneHolds(k, lanes, loads)
         /\ ~Holds(Call(lane, arg), lanes, loads) /\ NoneHolds(calls, lanes, loads)
              => NoneHolds(k, lanes, loads)
<1> DEFINE new == Call(lane, arg)
<1>1. ASSUME NEW d \in k, d # new PROVE \E c \in calls : IsCall(c) /\ d = GivenUp(c, {lane})
  <2>1. d \in Sent(calls, lane, arg) /\ d # Call(lane, arg)
    BY <1>1
  <2>2. PICK c \in calls : d = GivenUp(c, {lane})
    BY <2>1 DEF Sent, Aborted, GivenUp
  <2> QED
    BY <2>2 DEF AreCalls
<1>2. ASSUME NEW d \in k, d # new, Holds(d, lanes, loads)
      PROVE  \E c \in calls : Holds(c, lanes, loads) /\ d = GivenUp(c, {lane})
  BY <1>1, <1>2, GivenUpHolds
<1> HIDE DEF new
<1>3. OneHolds(k, lanes, loads)
  <2> SUFFICES ASSUME NEW c \in k, NEW d \in k, Holds(c, lanes, loads), Holds(d, lanes, loads)
               PROVE  c = d
    BY DEF OneHolds
  <2>1. CASE c # new /\ d # new
    <3>1. PICK c0 \in calls : Holds(c0, lanes, loads) /\ c = GivenUp(c0, {lane})
      BY <1>2, <2>1
    <3>2. PICK d0 \in calls : Holds(d0, lanes, loads) /\ d = GivenUp(d0, {lane})
      BY <1>2, <2>1
    <3>3. c0 = d0
      BY <3>1, <3>2 DEF OneHolds
    <3> QED
      BY <3>1, <3>2, <3>3
  <2>2. CASE c = new
    BY <1>2, <2>2 DEF NoneHolds, new
  <2>3. CASE d = new
    BY <1>2, <2>3 DEF NoneHolds, new
  <2> QED
    BY <2>1, <2>2, <2>3
<1>4. ~Holds(new, lanes, loads) /\ NoneHolds(calls, lanes, loads) => NoneHolds(k, lanes, loads)
  BY <1>2 DEF NoneHolds
<1> QED
  BY <1>3, <1>4 DEF new

LEMMA ServedHolds ==
  ASSUME NEW calls, AreCalls(calls), NEW c \in calls, NEW answer,
         NEW k, k = Served(calls, c, answer), NEW lanes, NEW loads
  PROVE  /\ OneHolds(calls, lanes, loads) => OneHolds(k, lanes, loads)
         /\ NoneHolds(calls, lanes, loads) => NoneHolds(k, lanes, loads)
<1> DEFINE reply == <<answer>>
           e == [c EXCEPT !.reply = reply]
<1>1. IsCall(c)
  BY DEF AreCalls
<1>2. k = (calls \ {c}) \cup {e}
  BY DEF Served
<1> HIDE DEF reply
<1>3. e.lane = c.lane /\ e.arg = c.arg /\ e.live = c.live
  BY <1>1, ServedCall
<1> HIDE DEF e
<1>4. Holds(e, lanes, loads) <=> Holds(c, lanes, loads)
  BY <1>3 DEF Holds
<1> QED
  BY <1>2, <1>4 DEF OneHolds, NoneHolds

LEMMA EndedHolds ==
  ASSUME NEW calls, NEW c \in calls, NEW k, k = Ended(calls, c), NEW lanes, NEW loads,
         OneHolds(calls, lanes, loads)
  PROVE  /\ OneHolds(k, lanes, loads)
         /\ NoneHolds(calls, lanes, loads) \/ Holds(c, lanes, loads) => NoneHolds(k, lanes, loads)
  BY DEF Ended, OneHolds, NoneHolds

(* A mutation holds up its action as long as it is live.                    *)
LEMMA EndedMutationHolds ==
  ASSUME NEW calls, AreCalls(calls), NEW c \in calls, NEW k, k = EndedMutation(calls, c),
         NEW lanes, NEW loads, OneHolds(calls, lanes, loads), <<c.lane, c.arg.by>> \notin loads
  PROVE  /\ OneHolds(k, lanes, loads)
         /\ NoneHolds(calls, lanes, loads) \/ Holds(c, lanes, loads) => NoneHolds(k, lanes, loads)
<1>1. \A d \in k : \/ d \in calls /\ d # c
                   \/ ~d.live /\ d.lane = c.lane /\ d.arg = c.arg
  BY EndedMutationCalls
<1>2. \A d \in k : Holds(d, lanes, loads) => d \in calls /\ d # c
  BY <1>1 DEF Holds
<1> QED
  BY <1>2 DEF OneHolds, NoneHolds

-----------------------------------------------------------------------------
(* ---- The page of a target or an evaluator: what it is made of. -------- *)

IsVersions(w) ==
  w = [page |-> w.page, rows |-> w.rows, total |-> w.total,
       loading |-> w.loading, refreshing |-> w.refreshing, error |-> w.error]

IsTargetPage(u) ==
  /\ u = [target |-> u.target, error |-> u.error, versions |-> u.versions,
          saving |-> u.saving, versioning |-> u.versioning, calls |-> u.calls,
          toldConfig |-> u.toldConfig, toldVersions |-> u.toldVersions,
          alone |-> u.alone, failed |-> u.failed, acts |-> u.acts]
  /\ IsVersions(u.versions)

\* The history of what was done and told.
SameTold(v, u) == v.toldConfig = u.toldConfig /\ v.toldVersions = u.toldVersions
SameHistory(v, u) ==
  SameTold(v, u) /\ v.alone = u.alone /\ v.failed = u.failed /\ v.acts = u.acts
-----------------------------------------------------------------------------
(* The operators of Requests and ApiClient are the same under either name.  *)
LEMMA TargetRequests ==
  /\ Target!Waiting = Waiting
  /\ \A k, l, a : Target!Sent(k, l, a) = Sent(k, l, a)
  /\ \A k, c, a : Target!Served(k, c, a) = Served(k, c, a)
  /\ \A k, c : Target!Ended(k, c) = Ended(k, c)
  /\ \A k, c : Target!EndedMutation(k, c) = EndedMutation(k, c)
  BY DEF Target!Waiting, Waiting, Target!Sent, Sent, Target!Aborted, Aborted, Target!Call, Call,
         Target!Served, Served, Target!Ended, Ended, Target!EndedMutation, EndedMutation

LEMMA TargetAnswers ==
  /\ \A r : Target!request(r) = request(r)
  /\ \A v : Target!Answered(v) = Answered(v)
  /\ \A s, c : Target!Refused(s, c) = Refused(s, c)
  /\ Target!Lost = Lost
  /\ \A r : Target!Outcomes(r) = Outcomes(r)
<1>1. \A r : Target!request(r) = request(r)
  BY DEF Target!request, request, Target!parseResponsePayload, parseResponsePayload,
         Target!ThrownAsNetwork, ThrownAsNetwork, Target!networkApiError, networkApiError,
         Target!parseApiError, parseApiError, Target!Error, Error, Target!Data, Data,
         Target!unexpectedApiError, unexpectedApiError
<1>2. /\ \A v : Target!Answered(v) = Answered(v)
      /\ \A s, c : Target!Refused(s, c) = Refused(s, c)
      /\ \A s, b, c, v : Target!Response(s, b, c, v) = Response(s, b, c, v)
  BY DEF Target!Answered, Answered, Target!Refused, Refused, Target!Response, Response
<1>3. Target!Lost = Lost
  <2>1. Target!fetchResponse = fetchResponse /\ Target!toApiError = toApiError
    BY DEF Target!fetchResponse, fetchResponse, Target!toApiError, toApiError,
           Target!networkApiError, networkApiError, Target!Error, Error,
           Target!unexpectedApiError, unexpectedApiError
  <2> QED
    BY <1>1, <1>2, <2>1 DEF Target!Lost, Lost
<1>4. \A r : Target!Outcomes(r) = Outcomes(r)
  BY <1>1, <1>3 DEF Target!Outcomes, Outcomes
<1> QED
  BY <1>1, <1>2, <1>3, <1>4

(* What a load makes of the page, field by field.                           *)
LEMMA LoadTargetIs ==
  ASSUME NEW u, IsTargetPage(u), NEW n, NEW by, NEW v, v = Target!LoadTarget(u, n, by)
  PROVE  /\ IsTargetPage(v) /\ SameHistory(v, u)
         /\ v.target = u.target /\ v.error = None /\ v.versions = u.versions
         /\ v.saving = u.saving /\ v.versioning = u.versioning
         /\ v.calls = Sent(u.calls, "target", Target!Arg(n, by))
<1> DEFINE k == Sent(u.calls, "target", Target!Arg(n, by))
<1>1. v = [u EXCEPT !.error = None, !.calls = k]
  BY TargetRequests DEF Target!LoadTarget
<1> HIDE DEF k
<1> QED
  BY <1>1 DEF IsTargetPage, SameHistory, SameTold, k

LEMMA LoadVersionsIs ==
  ASSUME NEW u, IsTargetPage(u), NEW n, NEW by, NEW v, v = Target!LoadVersions(u, n, by)
  PROVE  /\ IsTargetPage(v) /\ SameHistory(v, u)
         /\ v.target = u.target /\ v.error = u.error
         /\ v.versions.page = u.versions.page /\ v.versions.rows = u.versions.rows
         /\ v.versions.total = u.versions.total
         /\ v.versions.loading \/ v.versions.refreshing
         /\ v.saving = u.saving /\ v.versioning = u.versioning
         /\ v.calls = Sent(u.calls, "versions", Target!Arg(n, by))
<1> DEFINE k == Sent(u.calls, "versions", Target!Arg(n, by))
           w == u.versions
           l == w.loading \/ by = "effect"
           f == w.refreshing \/ by # "effect"
<1>1. PICK x : x = [w EXCEPT !.loading = l, !.refreshing = f, !.error = None]
  OBVIOUS
<1>2. v = [u EXCEPT !.versions = x, !.calls = k]
  BY <1>1, TargetRequests DEF Target!LoadVersions, IsTargetPage
<1>3. l \/ f
  OBVIOUS
<1> HIDE DEF k, l, f
<1>4. /\ IsVersions(x) /\ x.page = w.page /\ x.rows = w.rows /\ x.total = w.total
      /\ x.loading = l /\ x.refreshing = f
  BY <1>1 DEF IsTargetPage, IsVersions
<1> HIDE DEF w
<1> QED
  BY <1>2, <1>3, <1>4 DEF IsTargetPage, SameHistory, SameTold, k, w

-----------------------------------------------------------------------------
(* ---- Its calls: what they ask for and may have been answered. --------- *)

\* A list of so many rows has a page of this number.
Reaches(n, count) == n \in Nat /\ n >= 1 /\ (n - 1) * Size < count

Refusal == {<<Target!Inactive>>, <<Target!DuplicateName>>, <<Target!DuplicateVersion>>}
Told(c, last) == \E n \in 0..last : c.reply = <<Answered(Target!Seen(n, TRUE))>>

(* A load of the target was asked for by one of its actions, and answered  *)
(* with an update no older than those the page has been told of.           *)
TargetLoad(c, updates, told) ==
  /\ c.live /\ c.arg.by \in {"effect", "retry", "save", "deactivate"}
  /\ c.reply # Waiting => \E n \in told..updates, a \in BOOLEAN :
                            c.reply = <<Answered(Target!Seen(n, a))>>

(* A load of the versions is of a page that exists, also in its answer;    *)
(* and one that is wanted counts those the page has been told of.          *)
VersionsLoad(c, count, told) ==
  c.reply # Waiting =>
    \E n \in 0..count : /\ c.reply = <<Answered(Target!Seen(n, TRUE))>>
                        /\ Reaches(c.arg.page, n) /\ (c.live => n >= told)

TargetCall(c, updates, count, toldConfig, toldVersions) ==
  /\ IsCall(c) /\ c.lane \in Target!Lane
  /\ c.lane \in {"target", "versions", "deactivate"} => Reaches(c.arg.page, count)
  /\ c.lane = "target" => TargetLoad(c, updates, toldConfig)
  /\ c.lane = "versions" => VersionsLoad(c, count, toldVersions)
  /\ c.lane \in {"save", "deactivate", "snapshot"} => c.arg.by = "user"
  /\ c.lane = "save" => c.arg = Target!Arg(1, "user")
  /\ c.lane = "save" /\ c.reply # Waiting => c.reply \in Refusal \/ Told(c, updates)
  /\ c.lane = "deactivate" /\ c.reply # Waiting =>
       c.reply \in Refusal \/ c.reply \in {<<Answered(Target!Seen(n, FALSE))>> : n \in 0..updates}
  /\ c.lane = "snapshot" /\ c.reply # Waiting => c.reply \in Refusal \/ Told(c, count)

TargetCalls(calls, updates, count, toldConfig, toldVersions) ==
  /\ AreCalls(calls) /\ OneLive(calls)
  /\ \A c \in calls : TargetCall(c, updates, count, toldConfig, toldVersions)
-----------------------------------------------------------------------------
LEMMA ReachesMore ==
  ASSUME NEW n, NEW p \in Nat, NEW q \in Nat, p <= q, Reaches(n, p)
  PROVE  Reaches(n, q)
<1> DEFINE m == (n - 1) * Size
<1>1. m \in Int /\ m < p
  BY SizeAssumption DEF Reaches
<1> HIDE DEF m
<1>2. m < q
  BY <1>1
<1> QED
  BY <1>2 DEF Reaches, m

(* A copy of a call that is wanted no more than it was, while more is      *)
(* committed: what the page has been told of may grow meanwhile, if the    *)
(* call is none of those that must have it.                                *)
LEMMA CallCopy ==
  ASSUME NEW updates \in Nat, NEW count \in Nat, NEW toldConfig \in Nat, NEW toldVersions \in Nat,
         NEW c, TargetCall(c, updates, count, toldConfig, toldVersions),
         NEW updates2 \in Nat, NEW count2 \in Nat, NEW toldConfig2, NEW toldVersions2,
         updates <= updates2, count <= count2,
         NEW d, IsCall(d), d.lane = c.lane, d.arg = c.arg, d.reply = c.reply, d.live => c.live,
         c.lane = "target" => d.live /\ toldConfig2 = toldConfig,
         c.lane = "versions" => toldVersions2 = toldVersions \/ ~d.live
  PROVE  TargetCall(d, updates2, count2, toldConfig2, toldVersions2)
<1>1. d.lane \in {"target", "versions", "deactivate"} => Reaches(d.arg.page, count2)
  BY ReachesMore DEF TargetCall
<1>2. d.lane = "target" => TargetLoad(d, updates2, toldConfig2)
  BY DEF TargetCall, TargetLoad
<1>3. 0..updates \subseteq 0..updates2 /\ 0..count \subseteq 0..count2
  OBVIOUS
<1>4. ASSUME d.lane = "versions", d.reply # Waiting PROVE VersionsLoad(d, count2, toldVersions2)
  <2>1. PICK n \in 0..count : /\ c.reply = <<Answered(Target!Seen(n, TRUE))>>
                              /\ Reaches(c.arg.page, n) /\ (c.live => n >= toldVersions)
    BY <1>4 DEF TargetCall, VersionsLoad
  <2>2. d.live => n >= toldVersions2
    BY <1>4, <2>1
  <2> QED
    BY <1>3, <2>1, <2>2 DEF VersionsLoad
<1>5. Told(c, updates) => Told(d, updates2)
  BY <1>3 DEF Told
<1>6. Told(c, count) => Told(d, count2)
  BY <1>3 DEF Told
<1>7. c.reply \in {<<Answered(Target!Seen(n, FALSE))>> : n \in 0..updates}
        => d.reply \in {<<Answered(Target!Seen(n, FALSE))>> : n \in 0..updates2}
  BY <1>3
<1>8. d.lane = "versions" => VersionsLoad(d, count2, toldVersions2)
  BY <1>4 DEF VersionsLoad
<1> QED
  BY <1>1, <1>2, <1>5, <1>6, <1>7, <1>8 DEF TargetCall

LEMMA TargetCallsGrow ==
  ASSUME NEW updates \in Nat, NEW count \in Nat, NEW toldConfig \in Nat, NEW toldVersions \in Nat,
         NEW calls, TargetCalls(calls, updates, count, toldConfig, toldVersions),
         NEW updates2 \in Nat, NEW count2 \in Nat, updates <= updates2, count <= count2
  PROVE  TargetCalls(calls, updates2, count2, toldConfig, toldVersions)
<1>1. ASSUME NEW c \in calls PROVE TargetCall(c, updates2, count2, toldConfig, toldVersions)
  <2>1. IsCall(c) /\ TargetCall(c, updates, count, toldConfig, toldVersions)
    BY DEF TargetCalls, AreCalls
  <2>2. c.lane = "target" => c.live
    BY <2>1 DEF TargetCall, TargetLoad
  <2> QED
    BY <2>1, <2>2, CallCopy
<1> QED
  BY <1>1 DEF TargetCalls

(* After a load of the versions is sent, no older one has to have what the *)
(* page is told of; nor has one of the target, if there is none.           *)
LEMMA TargetCallsSent ==
  ASSUME NEW updates \in Nat, NEW count \in Nat, NEW toldConfig \in Nat, NEW toldVersions \in Nat,
         NEW calls, TargetCalls(calls, updates, count, toldConfig, toldVersions),
         NEW lane, NEW arg, NEW toldConfig2, NEW toldVersions2,
         TargetCall(Call(lane, arg), updates, count, toldConfig2, toldVersions2),
         toldVersions2 = toldVersions \/ lane = "versions",
         \/ toldConfig2 = toldConfig /\ lane # "target"
         \/ \A c \in calls : c.lane # "target",
         NEW k, k = Sent(calls, lane, arg)
  PROVE  TargetCalls(k, updates, count, toldConfig2, toldVersions2)
<1>1. /\ AreCalls(k) /\ OneLive(k)
      /\ \A d \in k :
           \/ d = Call(lane, arg)
           \/ /\ \E c \in calls : d.lane = c.lane /\ d.arg = c.arg /\ d.reply = c.reply
              /\ d.lane = lane => ~d.live
              /\ d.lane # lane => d \in calls
  BY SentCalls DEF TargetCalls
<1>2. ASSUME NEW d \in k, d # Call(lane, arg)
      PROVE  TargetCall(d, updates, count, toldConfig2, toldVersions2)
  <2>1. IsCall(d)
    BY <1>1 DEF AreCalls
  <2>2. PICK c \in calls : /\ d.lane = c.lane /\ d.arg = c.arg /\ d.reply = c.reply
                           /\ d.live => c.live
                           /\ c.lane = lane => ~d.live
                           /\ c.lane # lane => d = c
    BY <1>1, <1>2
  <2>3. TargetCall(c, updates, count, toldConfig, toldVersions)
    BY DEF TargetCalls
  <2>4. c.lane = "target" => d.live /\ toldConfig2 = toldConfig
    BY <2>2, <2>3 DEF TargetCall, TargetLoad
  <2>5. c.lane = "versions" => toldVersions2 = toldVersions \/ ~d.live
    BY <2>2
  <2> QED
    BY <2>1, <2>2, <2>3, <2>4, <2>5, CallCopy
<1> QED
  BY <1>1, <1>2 DEF TargetCalls

LEMMA TargetCallsEnded ==
  ASSUME NEW updates \in Nat, NEW count \in Nat, NEW toldConfig \in Nat, NEW toldVersions \in Nat,
         NEW calls, TargetCalls(calls, updates, count, toldConfig, toldVersions),
         NEW c \in calls, NEW k, k = Ended(calls, c)
  PROVE  TargetCalls(k, updates, count, toldConfig, toldVersions)
  BY DEF TargetCalls, AreCalls, OneLive, Ended

LEMMA TargetCallsEndedMutation ==
  ASSUME NEW updates \in Nat, NEW count \in Nat, NEW toldConfig \in Nat, NEW toldVersions \in Nat,
         NEW calls, TargetCalls(calls, updates, count, toldConfig, toldVersions),
         NEW c \in calls, c.lane # "target", NEW k, k = EndedMutation(calls, c)
  PROVE  TargetCalls(k, updates, count, toldConfig, toldVersions)
<1>1. /\ AreCalls(k) /\ OneLive(k)
      /\ \A d \in k : \/ d \in calls /\ d # c
                      \/ /\ ~d.live /\ d.lane = c.lane /\ d.arg = c.arg /\ d.reply = c.reply
                         /\ c.reply = Waiting
  BY EndedMutationCalls DEF TargetCalls
<1>2. ASSUME NEW d \in k, d \notin calls
      PROVE  TargetCall(d, updates, count, toldConfig, toldVersions)
  <2>1. IsCall(d) /\ ~d.live /\ d.lane = c.lane /\ d.arg = c.arg /\ d.reply = c.reply
    BY <1>1, <1>2 DEF AreCalls
  <2>2. TargetCall(c, updates, count, toldConfig, toldVersions)
    BY DEF TargetCalls
  <2> QED
    BY <2>1, <2>2, CallCopy
<1> QED
  BY <1>1, <1>2 DEF TargetCalls

LEMMA TargetCallsServed ==
  ASSUME NEW updates \in Nat, NEW count \in Nat, NEW toldConfig \in Nat, NEW toldVersions \in Nat,
         NEW calls, TargetCalls(calls, updates, count, toldConfig, toldVersions),
         NEW c \in calls, NEW answer, NEW k, k = Served(calls, c, answer),
         \A d : IsCall(d) /\ ServedBy(d, c, answer)
                  => TargetCall(d, updates, count, toldConfig, toldVersions)
  PROVE  TargetCalls(k, updates, count, toldConfig, toldVersions)
<1>1. /\ AreCalls(k) /\ OneLive(k)
      /\ \A d \in k : (d \in calls /\ d # c) \/ ServedBy(d, c, answer)
  BY ServedFacts DEF TargetCalls
<1> QED
  BY <1>1 DEF TargetCalls, AreCalls

-----------------------------------------------------------------------------
(* ---- The saves that the server has not carried out yet. --------------- *)

\* What keeps the target's buttons back, what keeps the one that makes a
\* version back, and the loads before the target is shown.
SaveLanes == {"save", "deactivate"}
SaveLoads == {<<"target", "save">>, <<"target", "deactivate">>, <<"versions", "deactivate">>}
MakeLanes == {"snapshot"}
MakeLoads == {<<"versions", "snapshot">>}
FirstLoads == {<<"target", "effect">>, <<"target", "retry">>}

TargetTokens(u) ==
  /\ OneHolds(u.calls, SaveLanes, SaveLoads)
  /\ NoneHolds(u.calls, SaveLanes, SaveLoads) \/ (u.saving /\ u.target # None)
  /\ OneHolds(u.calls, MakeLanes, MakeLoads)
  /\ NoneHolds(u.calls, MakeLanes, MakeLoads) \/ (u.versioning /\ u.target # None)
  /\ OneHolds(u.calls, {}, FirstLoads)
  /\ NoneHolds(u.calls, {}, FirstLoads) \/ u.target = None
  /\ (\A c \in u.calls : <<c.lane, c.arg.by>> # <<"target", "retry">>) \/ u.error = None
  /\ u.target = None => u.toldConfig = 0 /\ u.failed = {} /\ u.alone = {}

(* An error that signals a failure stays until the next act: no load that  *)
(* would clear it is to come.                                              *)
TargetSignals(u) ==
  /\ u.failed \cap {"save", "deactivate"} # {} => u.error # None /\ ~u.saving
  /\ "snapshot" \in u.failed => u.versions.error # None /\ ~u.versioning /\ ~u.saving
  /\ "snapshot" \in u.alone => ~u.saving

TargetTypes(u, updates, count) ==
  /\ u.toldConfig \in 0..updates /\ u.toldVersions \in 0..count
  /\ u.target = None \/ u.target.config \in 0..updates
  /\ u.versions.total \in 0..count /\ Reaches(u.versions.page, count)
  /\ u.acts \in Nat

\* The saves that the server has still to see: wanted, and given up.
Unserved(c) == c.lane = "save" /\ c.reply = Waiting
Count(b) == IF b THEN 1 ELSE 0
Saves(calls) ==
  Count(\E c \in calls : Unserved(c) /\ c.live) + Count(\E c \in calls : Unserved(c) /\ ~c.live)

TargetBase(u, updates, count, more) ==
  /\ IsTargetPage(u)
  /\ TargetCalls(u.calls, updates, count, u.toldConfig, u.toldVersions)
  /\ TargetTokens(u) /\ TargetSignals(u) /\ TargetTypes(u, updates, count)
  /\ updates + Saves(u.calls) <= 1 + u.acts + more

VersionsListed(u) ==
  \/ u.versions.loading \/ u.versions.refreshing \/ u.versions.error # None
  \/ Pending(u.calls, "snapshot")
  \/ u.versions.rows = u.versions.page /\ u.versions.total >= u.toldVersions

TargetShown(u) ==
  u.target # None /\ u.error = None =>
    \/ u.target.config >= u.toldConfig
    \/ Pending(u.calls, "save") \/ Pending(u.calls, "target")

TargetInv(u, updates, count, more) ==
  TargetBase(u, updates, count, more) /\ VersionsListed(u) /\ TargetShown(u)
-----------------------------------------------------------------------------
LEMMA SavesType == \A k : Saves(k) \in 0..2
  BY DEF Saves, Count

LEMMA FewerSaves ==
  ASSUME NEW calls, NEW k,
         \A d \in k : Unserved(d) => \E c \in calls : Unserved(c) /\ (c.live <=> d.live)
  PROVE  Saves(k) <= Saves(calls)
  BY DEF Saves, Count

LEMMA SentSaves ==
  ASSUME NEW calls, AreCalls(calls), NEW lane, NEW arg, NEW k, k = Sent(calls, lane, arg)
  PROVE  /\ lane # "save" => Saves(k) <= Saves(calls)
         /\ (\A c \in calls : c.lane = "save" => ~c.live) => Saves(k) <= Saves(calls) + 1
<1>1. \A d \in k :
        \/ d = Call(lane, arg)
        \/ /\ \E c \in calls : d.lane = c.lane /\ d.arg = c.arg /\ d.reply = c.reply
           /\ d.lane = lane => ~d.live
           /\ d.lane # lane => d \in calls
  BY SentCalls
<1>2. LET c == Call(lane, arg) IN c.lane = lane /\ c.live
  BY CallFields
<1>3. ASSUME lane # "save" PROVE Saves(k) <= Saves(calls)
  <2>1. \A d \in k : Unserved(d) => d \in calls
    BY <1>1, <1>2, <1>3 DEF Unserved
  <2> QED
    BY <2>1, FewerSaves
<1>4. ASSUME \A c \in calls : c.lane = "save" => ~c.live PROVE Saves(k) <= Saves(calls) + 1
  <2>1. ASSUME NEW d \in k, Unserved(d), ~d.live
        PROVE  \E c \in calls : Unserved(c) /\ ~c.live
    <3>1. PICK c \in calls : d.lane = c.lane /\ d.reply = c.reply
      BY <1>1, <1>2, <2>1
    <3> QED
      BY <1>4, <2>1, <3>1 DEF Unserved
  <2> QED
    BY <2>1 DEF Saves, Count
<1> QED
  BY <1>3, <1>4

LEMMA EndedSaves ==
  ASSUME NEW calls, NEW c \in calls, NEW k, k = Ended(calls, c)
  PROVE  Saves(k) <= Saves(calls)
<1>1. \A d \in k : d \in calls
  BY DEF Ended
<1> QED
  BY <1>1, FewerSaves

LEMMA EndedMutationSaves ==
  ASSUME NEW calls, AreCalls(calls), OneLive(calls), NEW c \in calls, c.live,
         NEW k, k = EndedMutation(calls, c)
  PROVE  Saves(k) <= Saves(calls)
<1>1. \A d \in k : \/ d \in calls /\ d # c
                   \/ ~d.live /\ d.lane = c.lane /\ d.reply = c.reply
  BY EndedMutationCalls
<1>2. ASSUME NEW d \in k, Unserved(d), d.live PROVE d \in calls /\ c.lane # "save"
  BY <1>1, <1>2 DEF OneLive, Unserved
<1>3. ASSUME NEW d \in k, Unserved(d), ~d.live, d \notin calls PROVE Unserved(c)
  BY <1>1, <1>3 DEF Unserved
<1>4. CASE Unserved(c)
  <2>1. ~ \E d \in k : Unserved(d) /\ d.live
    BY <1>2, <1>4 DEF Unserved
  <2> QED
    BY <1>4, <2>1 DEF Saves, Count
<1>5. CASE ~Unserved(c)
  <2>1. \A d \in k : Unserved(d) => d \in calls
    BY <1>2, <1>3, <1>5
  <2> QED
    BY <2>1, FewerSaves
<1> QED
  BY <1>4, <1>5

(* A save that the server sees is one less: calls are alike if they are    *)
(* given up and unanswered.                                                *)
LEMMA SeenSaves ==
  ASSUME NEW calls, AreCalls(calls), OneLive(calls), NEW c \in calls, NEW k,
         \A d \in k : \/ d \in calls /\ d # c
                      \/ d.reply # Waiting
  PROVE  /\ Saves(k) <= Saves(calls)
         /\ Unserved(c) /\ (\A d \in calls : Unserved(d) => d.arg = c.arg)
              => Saves(k) + 1 <= Saves(calls)
<1>1. \A d \in k : Unserved(d) => d \in calls /\ d # c
  BY DEF Unserved
<1>2. Saves(k) <= Saves(calls)
  BY <1>1, FewerSaves
<1>3. ASSUME Unserved(c), \A d \in calls : Unserved(d) => d.arg = c.arg
      PROVE  Saves(k) + 1 <= Saves(calls)
  <2>1. ASSUME NEW d \in k, Unserved(d), d.live <=> c.live PROVE FALSE
    <3>1. IsCall(c) /\ IsCall(d) /\ d # c /\ d.arg = c.arg /\ d.lane = c.lane /\ d.reply = c.reply
      BY <1>1, <1>3, <2>1 DEF AreCalls, Unserved
    <3>2. d.live = c.live
      BY <2>1, <3>1 DEF IsCall
    <3>3. PICK l : l = c.live
      OBVIOUS
    <3>4. /\ c = [lane |-> c.lane, arg |-> c.arg, reply |-> c.reply, live |-> l]
          /\ d = [lane |-> c.lane, arg |-> c.arg, reply |-> c.reply, live |-> l]
      BY <3>1, <3>2, <3>3 DEF IsCall
    <3> QED
      BY <3>1, <3>4
  <2>2. \A d \in k : Unserved(d) => d \in calls
    BY <1>1
  <2>3. CASE c.live
    <3>1. ~ \E d \in k : Unserved(d) /\ d.live
      BY <2>1, <2>3
    <3> QED
      BY <1>3, <2>2, <2>3, <3>1 DEF Saves, Count
  <2>4. CASE ~c.live
    <3>1. ~ \E d \in k : Unserved(d) /\ ~d.live
      BY <2>1, <2>4
    <3> QED
      BY <1>3, <2>2, <2>4, <3>1 DEF Saves, Count
  <2> QED
    BY <2>3, <2>4
<1> QED
  BY <1>2, <1>3

-----------------------------------------------------------------------------
(* ---- What holds of the page between two renders. ---------------------- *)

LEMMA TokensSent ==
  ASSUME NEW u, AreCalls(u.calls), TargetTokens(u), NEW lane, NEW arg,
         NEW v, v.calls = Sent(u.calls, lane, arg), v.target = u.target,
         u.saving => v.saving, u.versioning => v.versioning,
         v.error = None \/ (v.error = u.error /\ <<lane, arg.by>> # <<"target", "retry">>),
         v.target = None => v.toldConfig = 0 /\ v.failed = {} /\ v.alone = {},
         Holds(Call(lane, arg), SaveLanes, SaveLoads) =>
           NoneHolds(u.calls, SaveLanes, SaveLoads) /\ v.saving /\ v.target # None,
         Holds(Call(lane, arg), MakeLanes, MakeLoads) =>
           NoneHolds(u.calls, MakeLanes, MakeLoads) /\ v.versioning /\ v.target # None,
         Holds(Call(lane, arg), {}, FirstLoads) =>
           NoneHolds(u.calls, {}, FirstLoads) /\ v.target = None
  PROVE  TargetTokens(v)
<1> DEFINE new == Call(lane, arg)
           k == Sent(u.calls, lane, arg)
           none == {}
<1>1. /\ OneHolds(k, SaveLanes, SaveLoads)
      /\ ~Holds(new, SaveLanes, SaveLoads) /\ NoneHolds(u.calls, SaveLanes, SaveLoads)
              => NoneHolds(k, SaveLanes, SaveLoads)
  BY SentHolds DEF TargetTokens
<1>2. /\ OneHolds(k, MakeLanes, MakeLoads)
      /\ ~Holds(new, MakeLanes, MakeLoads) /\ NoneHolds(u.calls, MakeLanes, MakeLoads)
              => NoneHolds(k, MakeLanes, MakeLoads)
  BY SentHolds DEF TargetTokens
<1>3. /\ OneHolds(k, {}, FirstLoads)
      /\ ~Holds(new, {}, FirstLoads) /\ NoneHolds(u.calls, {}, FirstLoads)
              => NoneHolds(k, {}, FirstLoads)
  <2>1. OneHolds(u.calls, none, FirstLoads)
    BY DEF TargetTokens
  <2>2. Holds(new, none, FirstLoads) => NoneHolds(u.calls, none, FirstLoads)
    OBVIOUS
  <2> HIDE DEF none
  <2>3. /\ OneHolds(k, none, FirstLoads)
        /\ ~Holds(new, none, FirstLoads) /\ NoneHolds(u.calls, none, FirstLoads)
              => NoneHolds(k, none, FirstLoads)
    BY <2>1, <2>2, SentHolds
  <2> QED
    BY <2>3 DEF none
<1>4. \A d \in k : \/ d = new
                   \/ \E c \in u.calls : d.lane = c.lane /\ d.arg = c.arg
  BY SentCalls
<1>5. new.lane = lane /\ new.arg = arg
  BY CallFields
<1> HIDE DEF new, k, none
<1>6. (\A c \in k : <<c.lane, c.arg.by>> # <<"target", "retry">>) \/ v.error = None
  BY <1>4, <1>5 DEF TargetTokens
<1>7. v.calls = k
  BY DEF k
<1>8. /\ Holds(new, SaveLanes, SaveLoads) => v.saving /\ v.target # None
      /\ Holds(new, MakeLanes, MakeLoads) => v.versioning /\ v.target # None
      /\ Holds(new, {}, FirstLoads) => v.target = None
  BY DEF new
<1>9. NoneHolds(k, SaveLanes, SaveLoads) \/ (v.saving /\ v.target # None)
  BY <1>1, <1>8 DEF TargetTokens
<1>10. NoneHolds(k, MakeLanes, MakeLoads) \/ (v.versioning /\ v.target # None)
  BY <1>2, <1>8 DEF TargetTokens
<1>11. NoneHolds(k, {}, FirstLoads) \/ v.target = None
  BY <1>3, <1>8 DEF TargetTokens
<1> QED
  BY <1>1, <1>2, <1>3, <1>6, <1>7, <1>9, <1>10, <1>11 DEF TargetTokens

(* Of the calls one has ended: what it held up is free.                    *)
Fewer(k, calls, c) ==
  /\ OneHolds(k, SaveLanes, SaveLoads)
  /\ NoneHolds(calls, SaveLanes, SaveLoads) \/ Holds(c, SaveLanes, SaveLoads)
       => NoneHolds(k, SaveLanes, SaveLoads)
  /\ OneHolds(k, MakeLanes, MakeLoads)
  /\ NoneHolds(calls, MakeLanes, MakeLoads) \/ Holds(c, MakeLanes, MakeLoads)
       => NoneHolds(k, MakeLanes, MakeLoads)
  /\ OneHolds(k, {}, FirstLoads)
  /\ NoneHolds(calls, {}, FirstLoads) \/ Holds(c, {}, FirstLoads) => NoneHolds(k, {}, FirstLoads)
  /\ \A d \in k : \E e \in calls : d.lane = e.lane /\ d.arg = e.arg
  /\ \A d \in calls : d # c => d \in k
  /\ Saves(k) <= Saves(calls)

LEMMA FewerEnded ==
  ASSUME NEW u, TargetTokens(u), NEW c \in u.calls, NEW k, k = Ended(u.calls, c)
  PROVE  Fewer(k, u.calls, c)
<1>1. \A lanes, loads : OneHolds(u.calls, lanes, loads) =>
        /\ OneHolds(k, lanes, loads)
        /\ NoneHolds(u.calls, lanes, loads) \/ Holds(c, lanes, loads) => NoneHolds(k, lanes, loads)
  BY EndedHolds
<1>2. Saves(k) <= Saves(u.calls)
  BY EndedSaves
<1>3. k = u.calls \ {c}
  BY DEF Ended
<1> QED
  BY <1>1, <1>2, <1>3 DEF Fewer, TargetTokens

LEMMA FewerEndedMutation ==
  ASSUME NEW u, TargetTokens(u), AreCalls(u.calls), OneLive(u.calls),
         NEW c \in u.calls, c.live, c.arg.by = "user", NEW k, k = EndedMutation(u.calls, c)
  PROVE  Fewer(k, u.calls, c)
<1>1. ASSUME NEW lanes, NEW loads, OneHolds(u.calls, lanes, loads), <<c.lane, c.arg.by>> \notin loads
      PROVE /\ OneHolds(k, lanes, loads)
            /\ NoneHolds(u.calls, lanes, loads) \/ Holds(c, lanes, loads) => NoneHolds(k, lanes, loads)
  BY <1>1, EndedMutationHolds
<1>2. Saves(k) <= Saves(u.calls)
  BY EndedMutationSaves
<1>3. /\ \A d \in k : \/ d \in u.calls /\ d # c
                      \/ d.lane = c.lane /\ d.arg = c.arg
      /\ \A d \in u.calls : d # c => d \in k
  BY EndedMutationCalls
<1>4. /\ <<c.lane, c.arg.by>> \notin SaveLoads /\ <<c.lane, c.arg.by>> \notin MakeLoads
      /\ <<c.lane, c.arg.by>> \notin FirstLoads
  BY DEF SaveLoads, MakeLoads, FirstLoads
<1>5. \A d \in k : \E e \in u.calls : d.lane = e.lane /\ d.arg = e.arg
  BY <1>3
<1>6. /\ OneHolds(k, SaveLanes, SaveLoads)
      /\ NoneHolds(u.calls, SaveLanes, SaveLoads) \/ Holds(c, SaveLanes, SaveLoads)
           => NoneHolds(k, SaveLanes, SaveLoads)
  BY <1>1, <1>4 DEF TargetTokens
<1>7. /\ OneHolds(k, MakeLanes, MakeLoads)
      /\ NoneHolds(u.calls, MakeLanes, MakeLoads) \/ Holds(c, MakeLanes, MakeLoads)
           => NoneHolds(k, MakeLanes, MakeLoads)
  BY <1>1, <1>4 DEF TargetTokens
<1>8. /\ OneHolds(k, {}, FirstLoads)
      /\ NoneHolds(u.calls, {}, FirstLoads) \/ Holds(c, {}, FirstLoads)
           => NoneHolds(k, {}, FirstLoads)
  BY <1>1, <1>4 DEF TargetTokens
<1> QED
  BY <1>2, <1>3, <1>5, <1>6, <1>7, <1>8 DEF Fewer

LEMMA CallsFields ==
  ASSUME NEW u, IsTargetPage(u), NEW k, NEW v, v = [u EXCEPT !.calls = k]
  PROVE  /\ IsTargetPage(v) /\ SameHistory(v, u)
         /\ v.target = u.target /\ v.error = u.error /\ v.versions = u.versions
         /\ v.saving = u.saving /\ v.versioning = u.versioning /\ v.calls = k
  BY DEF IsTargetPage, SameHistory, SameTold

(* The page once a call has ended: it may have been what the target or the  *)
(* list was waiting for.                                                   *)
LEMMA EndedBase ==
  ASSUME NEW updates \in Nat, NEW count \in Nat, NEW more \in Nat,
         NEW u, TargetBase(u, updates, count, more), NEW c \in u.calls,
         NEW k, Fewer(k, u.calls, c),
         TargetCalls(k, updates, count, u.toldConfig, u.toldVersions),
         NEW v, v = [u EXCEPT !.calls = k]
  PROVE  /\ TargetBase(v, updates, count, more)
         /\ c.lane # "snapshot" /\ VersionsListed(u) => VersionsListed(v)
         /\ c.lane \notin {"save", "target"} /\ TargetShown(u) => TargetShown(v)
<1>1. /\ IsTargetPage(v) /\ SameHistory(v, u)
      /\ v.target = u.target /\ v.error = u.error /\ v.versions = u.versions
      /\ v.saving = u.saving /\ v.versioning = u.versioning /\ v.calls = k
  BY CallsFields DEF TargetBase
<1>2. \A l : l # c.lane /\ Pending(u.calls, l) => Pending(k, l)
  BY DEF Pending, Fewer
<1>3. TargetTokens(v)
  BY <1>1 DEF TargetBase, TargetTokens, Fewer, SameHistory, SameTold
<1>4. TargetSignals(v) /\ TargetTypes(v, updates, count)
  BY <1>1 DEF TargetBase, TargetSignals, TargetTypes, SameHistory, SameTold
<1>5. updates + Saves(k) <= 1 + u.acts + more
  <2>1. Saves(k) <= Saves(u.calls) /\ Saves(k) \in Nat /\ Saves(u.calls) \in Nat /\ u.acts \in Nat
    BY SavesType DEF Fewer, TargetBase, TargetTypes
  <2> QED
    BY <2>1 DEF TargetBase
<1>6. TargetBase(v, updates, count, more)
  BY <1>1, <1>3, <1>4, <1>5 DEF TargetBase, SameHistory, SameTold
<1> QED
  BY <1>1, <1>2, <1>6 DEF VersionsListed, TargetShown, SameHistory, SameTold

(* What an answer makes of the page beside its calls.                      *)
LEMMA BaseKept ==
  ASSUME NEW updates \in Nat, NEW count \in Nat, NEW more \in Nat,
         NEW u, TargetBase(u, updates, count, more), NEW x, IsTargetPage(x),
         x.calls = u.calls, SameTold(x, u), x.acts = u.acts,
         u.saving /\ ~x.saving => NoneHolds(u.calls, SaveLanes, SaveLoads),
         u.versioning /\ ~x.versioning => NoneHolds(u.calls, MakeLanes, MakeLoads),
         x.target = u.target \/ (x.target # None /\ NoneHolds(u.calls, {}, FirstLoads)),
         x.error = u.error \/ NoneHolds(u.calls, {}, FirstLoads),
         x.target = None => x.failed = {} /\ x.alone = {},
         TargetSignals(x), TargetTypes(x, updates, count)
  PROVE  TargetBase(x, updates, count, more)
<1>1. NoneHolds(u.calls, {}, FirstLoads)
        => \A c \in u.calls : <<c.lane, c.arg.by>> # <<"target", "retry">>
  BY DEF NoneHolds, Holds, FirstLoads
<1>2. TargetTokens(x)
  BY <1>1 DEF TargetBase, TargetTokens, SameTold
<1> QED
  BY <1>2 DEF TargetBase, SameTold

-----------------------------------------------------------------------------
(* ---- Its loads. ------------------------------------------------------- *)

\* What stands before a load is sent: the page may have been told of more
\* than the calls of the load's own lane must have.
Loadable(u, updates, count, more, toldConfig, toldVersions) ==
  /\ IsTargetPage(u)
  /\ TargetCalls(u.calls, updates, count, toldConfig, toldVersions)
  /\ TargetTokens(u) /\ TargetTypes(u, updates, count)
  /\ updates + Saves(u.calls) <= 1 + u.acts + more

LEMMA BoundSent ==
  ASSUME NEW updates \in Nat, NEW more \in Nat, NEW u, AreCalls(u.calls), u.acts \in Nat,
         updates + Saves(u.calls) <= 1 + u.acts + more,
         NEW lane, lane # "save", NEW arg, NEW k, k = Sent(u.calls, lane, arg)
  PROVE  updates + Saves(k) <= 1 + u.acts + more
<1>1. Saves(k) <= Saves(u.calls)
  BY SentSaves
<1>2. Saves(k) \in Nat /\ Saves(u.calls) \in Nat
  BY SavesType
<1> QED
  BY <1>1, <1>2

LEMMA LoadVersionsInv ==
  ASSUME NEW updates \in Nat, NEW count \in Nat, NEW more \in Nat, NEW told \in Nat,
         NEW u, Loadable(u, updates, count, more, u.toldConfig, told),
         TargetSignals(u), TargetShown(u), "snapshot" \notin u.failed,
         NEW n, Reaches(n, count), NEW by,
         by = "deactivate" =>
           NoneHolds(u.calls, SaveLanes, SaveLoads) /\ u.saving /\ u.target # None,
         by = "snapshot" =>
           NoneHolds(u.calls, MakeLanes, MakeLoads) /\ u.versioning /\ u.target # None,
         NEW v, v = Target!LoadVersions(u, n, by)
  PROVE  TargetInv(v, updates, count, more)
<1> DEFINE arg == Target!Arg(n, by)
           new == Call("versions", arg)
           k == Sent(u.calls, "versions", arg)
<1>1. /\ IsTargetPage(v) /\ SameHistory(v, u)
      /\ v.target = u.target /\ v.error = u.error
      /\ v.versions.page = u.versions.page /\ v.versions.rows = u.versions.rows
      /\ v.versions.total = u.versions.total
      /\ v.versions.loading \/ v.versions.refreshing
      /\ v.saving = u.saving /\ v.versioning = u.versioning
      /\ v.calls = k
  BY LoadVersionsIs DEF Loadable
<1>2. arg.page = n /\ arg.by = by
  BY DEF Target!Arg
<1>3. IsCall(new) /\ new.lane = "versions" /\ new.arg = arg /\ new.reply = Waiting /\ new.live
  BY CallFields
<1>4. u.toldConfig \in Nat /\ u.toldVersions \in Nat /\ u.acts \in Nat
  BY DEF Loadable, TargetTypes
<1> HIDE DEF arg, new, k
<1>5. TargetCall(new, updates, count, u.toldConfig, u.toldVersions)
  BY <1>2, <1>3 DEF TargetCall, VersionsLoad, Target!Lane
<1>6. TargetCalls(k, updates, count, u.toldConfig, u.toldVersions)
  BY <1>4, <1>5, TargetCallsSent DEF Loadable, k, new
<1>7. TargetTokens(v)
  <2>1. Holds(new, SaveLanes, SaveLoads) => by = "deactivate"
    BY <1>2, <1>3 DEF Holds, SaveLanes, SaveLoads
  <2>2. Holds(new, MakeLanes, MakeLoads) => by = "snapshot"
    BY <1>2, <1>3 DEF Holds, MakeLanes, MakeLoads
  <2>3. ~Holds(new, {}, FirstLoads)
    BY <1>2, <1>3 DEF Holds, FirstLoads
  <2>4. AreCalls(u.calls)
    BY DEF Loadable, TargetCalls
  <2>5. v.target = None => v.toldConfig = 0 /\ v.failed = {} /\ v.alone = {}
    BY <1>1 DEF Loadable, TargetTokens, SameHistory, SameTold
  <2>6. u.saving => v.saving
    BY <1>1
  <2>7. u.versioning => v.versioning
    BY <1>1
  <2>8. Holds(new, SaveLanes, SaveLoads) => 
           NoneHolds(u.calls, SaveLanes, SaveLoads) /\ v.saving /\ v.target # None
    BY <1>1, <2>1
  <2>9. Holds(new, MakeLanes, MakeLoads) =>
           NoneHolds(u.calls, MakeLanes, MakeLoads) /\ v.versioning /\ v.target # None
    BY <1>1, <2>2
  <2>10. v.error = None \/ (v.error = u.error /\ <<"versions", arg.by>> # <<"target", "retry">>)
    BY <1>1
  <2>11. TargetTokens(u) /\ v.calls = Sent(u.calls, "versions", arg) /\ v.target = u.target
    BY <1>1 DEF Loadable, k
  <2> QED
    BY <2>3, <2>4, <2>5, <2>6, <2>7, <2>8, <2>9, <2>10, <2>11, TokensSent DEF new
<1>8. TargetSignals(v) /\ TargetTypes(v, updates, count)
  BY <1>1 DEF TargetSignals, TargetTypes, Loadable, SameHistory, SameTold
<1>9. updates + Saves(k) <= 1 + u.acts + more
  BY <1>4, BoundSent DEF Loadable, TargetCalls, k
<1>10. TargetBase(v, updates, count, more)
  BY <1>1, <1>6, <1>7, <1>8, <1>9 DEF TargetBase, SameHistory, SameTold
<1>11. VersionsListed(v)
  BY <1>1 DEF VersionsListed
<1>12. \A l : l # "versions" /\ Pending(u.calls, l) => Pending(k, l)
  <2>1. \A c \in u.calls : c.lane # "versions" => c \in k
    BY SentCalls DEF Loadable, TargetCalls, k
  <2> QED
    BY <2>1 DEF Pending
<1>13. TargetShown(v)
  BY <1>1, <1>12 DEF TargetShown, SameHistory, SameTold
<1> QED
  BY <1>10, <1>11, <1>13 DEF TargetInv

LEMMA LoadTargetBase ==
  ASSUME NEW updates \in Nat, NEW count \in Nat, NEW more \in Nat, NEW told \in Nat,
         NEW u, Loadable(u, updates, count, more, told, u.toldVersions),
         TargetSignals(u), u.failed \cap {"save", "deactivate"} = {},
         \A c \in u.calls : c.lane # "target",
         NEW n, Reaches(n, count), NEW by,
         \/ /\ by \in {"save", "deactivate"}
            /\ NoneHolds(u.calls, SaveLanes, SaveLoads) /\ u.saving /\ u.target # None
         \/ by \in {"effect", "retry"} /\ u.target = None,
         NEW v, v = Target!LoadTarget(u, n, by)
  PROVE  /\ TargetBase(v, updates, count, more) /\ TargetShown(v) /\ IsTargetPage(v)
         /\ VersionsListed(u) => VersionsListed(v)
         /\ SameHistory(v, u) /\ v.target = u.target
<1> DEFINE arg == Target!Arg(n, by)
           new == Call("target", arg)
           k == Sent(u.calls, "target", arg)
<1>1. /\ IsTargetPage(v) /\ SameHistory(v, u)
      /\ v.target = u.target /\ v.error = None /\ v.versions = u.versions
      /\ v.saving = u.saving /\ v.versioning = u.versioning
      /\ v.calls = k
  BY LoadTargetIs DEF Loadable
<1>2. arg.page = n /\ arg.by = by
  BY DEF Target!Arg
<1>3. IsCall(new) /\ new.lane = "target" /\ new.arg = arg /\ new.reply = Waiting /\ new.live
  BY CallFields
<1>4. u.toldConfig \in Nat /\ u.toldVersions \in Nat /\ u.acts \in Nat
  BY DEF Loadable, TargetTypes
<1> HIDE DEF arg, new, k
<1>5. TargetCall(new, updates, count, u.toldConfig, u.toldVersions)
  BY <1>2, <1>3 DEF TargetCall, TargetLoad, Target!Lane
<1>6. TargetCalls(k, updates, count, u.toldConfig, u.toldVersions)
  BY <1>4, <1>5, TargetCallsSent DEF Loadable, k, new
<1>7. TargetTokens(v)
  <2>1. Holds(new, SaveLanes, SaveLoads) =>
           NoneHolds(u.calls, SaveLanes, SaveLoads) /\ v.saving /\ v.target # None
    BY <1>1, <1>2, <1>3 DEF Holds, SaveLanes, SaveLoads
  <2>2. ~Holds(new, MakeLanes, MakeLoads)
    BY <1>2, <1>3 DEF Holds, MakeLanes, MakeLoads
  <2>3. Holds(new, {}, FirstLoads) => NoneHolds(u.calls, {}, FirstLoads) /\ v.target = None
    <3>1. Holds(new, {}, FirstLoads) => by \in {"effect", "retry"}
      BY <1>2, <1>3 DEF Holds, FirstLoads
    <3>2. NoneHolds(u.calls, {}, FirstLoads)
      BY DEF NoneHolds, Holds, FirstLoads
    <3> QED
      BY <1>1, <3>1, <3>2
  <2>4. AreCalls(u.calls)
    BY DEF Loadable, TargetCalls
  <2>5. v.target = None => v.toldConfig = 0 /\ v.failed = {} /\ v.alone = {}
    BY <1>1 DEF Loadable, TargetTokens, SameHistory, SameTold
  <2>6. u.saving => v.saving
    BY <1>1
  <2>7. u.versioning => v.versioning
    BY <1>1
  <2>8. v.error = None
    BY <1>1
  <2>9. TargetTokens(u) /\ v.calls = Sent(u.calls, "target", arg) /\ v.target = u.target
    BY <1>1 DEF Loadable, k
  <2> QED
    BY <2>1, <2>2, <2>3, <2>4, <2>5, <2>6, <2>7, <2>8, <2>9, TokensSent DEF new
<1>8. TargetSignals(v) /\ TargetTypes(v, updates, count)
  BY <1>1 DEF TargetSignals, TargetTypes, Loadable, SameHistory, SameTold
<1>9. updates + Saves(k) <= 1 + u.acts + more
  BY <1>4, BoundSent DEF Loadable, TargetCalls, k
<1>10. TargetBase(v, updates, count, more)
  BY <1>1, <1>6, <1>7, <1>8, <1>9 DEF TargetBase, SameHistory, SameTold
<1>11. \A l : l # "target" /\ Pending(u.calls, l) => Pending(k, l)
  <2>1. \A c \in u.calls : c.lane # "target" => c \in k
    BY SentCalls DEF Loadable, TargetCalls, k
  <2> QED
    BY <2>1 DEF Pending
<1>12. VersionsListed(u) => VersionsListed(v)
  BY <1>1, <1>11 DEF VersionsListed, SameHistory, SameTold
<1>13. Pending(k, "target")
  <2>1. new \in k
    BY SentCalls DEF Loadable, TargetCalls, k, new
  <2> QED
    BY <1>3, <2>1 DEF Pending
<1>14. TargetShown(v)
  BY <1>1, <1>13 DEF TargetShown
<1> QED
  BY <1>1, <1>10, <1>12, <1>14

LEMMA LoadTargetInv ==
  ASSUME NEW updates \in Nat, NEW count \in Nat, NEW more \in Nat, NEW told \in Nat,
         NEW u, Loadable(u, updates, count, more, told, u.toldVersions),
         TargetSignals(u), VersionsListed(u), u.failed \cap {"save", "deactivate"} = {},
         \A c \in u.calls : c.lane # "target",
         NEW n, Reaches(n, count), NEW by,
         \/ /\ by \in {"save", "deactivate"}
            /\ NoneHolds(u.calls, SaveLanes, SaveLoads) /\ u.saving /\ u.target # None
         \/ by \in {"effect", "retry"} /\ u.target = None,
         NEW v, v = Target!LoadTarget(u, n, by)
  PROVE  TargetInv(v, updates, count, more)
  BY LoadTargetBase DEF TargetInv

(* With nothing to hold the buttons back, no load of the target runs.      *)
LEMMA NoTargetCall ==
  ASSUME NEW updates, NEW count, NEW toldConfig, NEW toldVersions,
         NEW calls, TargetCalls(calls, updates, count, toldConfig, toldVersions),
         NoneHolds(calls, SaveLanes, SaveLoads), NoneHolds(calls, {}, FirstLoads)
  PROVE  \A c \in calls : c.lane # "target"
<1> SUFFICES ASSUME NEW c \in calls, c.lane = "target" PROVE FALSE
  OBVIOUS
<1>1. c.arg.by \in {"effect", "retry", "save", "deactivate"}
  BY DEF TargetCalls, TargetCall, TargetLoad
<1> QED
  BY <1>1 DEF NoneHolds, Holds, SaveLoads, FirstLoads

-----------------------------------------------------------------------------
(* ---- What an answer holds, and what waited for it. -------------------- *)

(* What the page gets of a call: an error that can be seen, or the data of *)
(* the server's answer.                                                    *)
LEMMA OutcomeOf ==
  ASSUME NEW c, c.reply = Waiting \/ c.reply \in Refusal \/ \E s : c.reply = <<Answered(s)>>,
         NEW o \in Target!OutcomesOf(c)
  PROVE  \/ o.kind # "data" /\ o # None
         \/ o.kind = "data" /\ c.reply = <<Answered(o.value)>> /\ c.reply # Waiting
<1>1. /\ c.reply = Waiting => o \in Lost
      /\ c.reply # Waiting => o \in Outcomes(c.reply[1])
  BY TargetRequests, TargetAnswers DEF Target!OutcomesOf
<1>2. o \in Lost => o.kind # "data" /\ o # None
  BY LostCalls, NoneAssumption
<1>3. CASE c.reply = Waiting
  BY <1>1, <1>2, <1>3
<1>4. CASE c.reply \in Refusal
  <2>1. PICK r \in {Target!Inactive, Target!DuplicateName, Target!DuplicateVersion} :
          c.reply = <<r>>
    BY <1>4 DEF Refusal
  <2>2. c.reply # Waiting /\ c.reply[1] = r
    BY <2>1 DEF Waiting
  <2>3. o = request(r) \/ o \in Lost
    BY <1>1, <2>2 DEF Outcomes
  <2>4. request(r) # None
    BY NoneAssumption
  <2>5. \E code : r = Refused(409, code)
    BY TargetAnswers DEF Target!Inactive, Target!DuplicateName, Target!DuplicateVersion
  <2>6. request(r).kind # "data"
    BY <2>5, RefusedIsError
  <2> QED
    BY <1>2, <2>3, <2>4, <2>6
<1>5. CASE \E s : c.reply = <<Answered(s)>>
  <2>1. PICK s : c.reply = <<Answered(s)>>
    BY <1>5
  <2>2. c.reply # Waiting /\ c.reply[1] = Answered(s)
    BY <2>1 DEF Waiting
  <2>3. o = Data(s) \/ o \in Lost
    BY <1>1, <2>2, AnsweredIsData DEF Outcomes
  <2>4. Data(s).kind = "data" /\ Data(s).value = s
    BY DEF Data
  <2> QED
    BY <1>2, <2>1, <2>2, <2>3, <2>4
<1> QED
  BY <1>3, <1>4, <1>5

LEMMA SeenFields ==
  ASSUME NEW n, NEW a
  PROVE  Target!Seen(n, a).value = n /\ Target!Seen(n, a).active = a
  BY DEF Target!Seen

(* Answers that are the same tell the same.                                *)
LEMMA SameAnswer ==
  ASSUME NEW s, NEW t, <<Answered(s)>> = <<Answered(t)>>
  PROVE  s = t
<1>1. Answered(s) = Answered(t)
  OBVIOUS
<1>2. Answered(s).value = s /\ Answered(t).value = t
  BY DEF Answered, Response
<1> QED
  BY <1>1, <1>2

LEMMA SavingEnds ==
  ASSUME NEW updates \in Nat, NEW count \in Nat, NEW more \in Nat,
         NEW u, TargetInv(u, updates, count, more), NoneHolds(u.calls, SaveLanes, SaveLoads),
         NEW v, v = [u EXCEPT !.saving = FALSE]
  PROVE  TargetInv(v, updates, count, more) /\ v.versions = u.versions
<1> DEFINE no == FALSE
<1>1. v = [u EXCEPT !.saving = no]
  OBVIOUS
<1>2. ~no
  OBVIOUS
<1> HIDE DEF no
<1>3. /\ IsTargetPage(v) /\ SameHistory(v, u)
      /\ v.target = u.target /\ v.error = u.error /\ v.versions = u.versions
      /\ v.saving = no /\ v.versioning = u.versioning /\ v.calls = u.calls
  BY <1>1 DEF TargetInv, TargetBase, IsTargetPage, SameHistory, SameTold
<1>4. TargetSignals(v) /\ TargetTypes(v, updates, count)
  BY <1>2, <1>3 DEF TargetInv, TargetBase, TargetSignals, TargetTypes, SameHistory, SameTold
<1>5. v.target = None => v.failed = {} /\ v.alone = {}
  BY <1>3 DEF TargetInv, TargetBase, TargetTokens, SameHistory, SameTold
<1>6. TargetBase(v, updates, count, more)
  BY <1>3, <1>4, <1>5, BaseKept DEF TargetInv, SameHistory
<1> QED
  BY <1>3, <1>6 DEF TargetInv, VersionsListed, TargetShown, SameHistory, SameTold

LEMMA VersioningEnds ==
  ASSUME NEW updates \in Nat, NEW count \in Nat, NEW more \in Nat,
         NEW u, TargetInv(u, updates, count, more), NoneHolds(u.calls, MakeLanes, MakeLoads),
         NEW v, v = [u EXCEPT !.versioning = FALSE]
  PROVE  TargetInv(v, updates, count, more)
<1> DEFINE no == FALSE
<1>1. v = [u EXCEPT !.versioning = no]
  OBVIOUS
<1>2. ~no
  OBVIOUS
<1> HIDE DEF no
<1>3. /\ IsTargetPage(v) /\ SameHistory(v, u)
      /\ v.target = u.target /\ v.error = u.error /\ v.versions = u.versions
      /\ v.saving = u.saving /\ v.versioning = no /\ v.calls = u.calls
  BY <1>1 DEF TargetInv, TargetBase, IsTargetPage, SameHistory, SameTold
<1>4. TargetSignals(v) /\ TargetTypes(v, updates, count)
  BY <1>2, <1>3 DEF TargetInv, TargetBase, TargetSignals, TargetTypes, SameHistory, SameTold
<1>5. v.target = None => v.failed = {} /\ v.alone = {}
  BY <1>3 DEF TargetInv, TargetBase, TargetTokens, SameHistory, SameTold
<1>6. TargetBase(v, updates, count, more)
  BY <1>3, <1>4, <1>5, BaseKept DEF TargetInv, SameHistory
<1> QED
  BY <1>3, <1>6 DEF TargetInv, VersionsListed, TargetShown, SameHistory, SameTold

(* The action that waited for a load goes on once that load has ended.     *)
LEMMA ThenInv ==
  ASSUME NEW updates \in Nat, NEW count \in Nat, NEW more \in Nat,
         NEW u, TargetInv(u, updates, count, more),
         NEW c, c.lane = "target" => Reaches(c.arg.page, count),
         Holds(c, SaveLanes, SaveLoads) =>
           NoneHolds(u.calls, SaveLanes, SaveLoads) /\ u.saving /\ u.target # None,
         Holds(c, MakeLanes, MakeLoads) => NoneHolds(u.calls, MakeLanes, MakeLoads),
         NEW v, v = Target!Then(u, c)
  PROVE  TargetInv(v, updates, count, more)
<1>1. CASE c.lane = "target" /\ c.arg.by = "save"
  <2>1. Holds(c, SaveLanes, SaveLoads)
    BY <1>1 DEF Holds, SaveLoads
  <2>2. v = [u EXCEPT !.saving = FALSE]
    BY <1>1 DEF Target!Then
  <2> QED
    BY <2>1, <2>2, SavingEnds
<1>2. CASE c.lane = "target" /\ c.arg.by = "deactivate"
  <2>1. Holds(c, SaveLanes, SaveLoads)
    BY <1>2 DEF Holds, SaveLoads
  <2>2. v = Target!LoadVersions(u, c.arg.page, "deactivate")
    BY <1>2 DEF Target!Then
  <2>3. "snapshot" \notin u.failed
    BY <2>1 DEF TargetInv, TargetBase, TargetSignals
  <2>4. Loadable(u, updates, count, more, u.toldConfig, u.toldVersions) /\ u.toldVersions \in Nat
    BY DEF TargetInv, TargetBase, Loadable, TargetTypes
  <2>5. TargetSignals(u) /\ TargetShown(u)
    BY DEF TargetInv, TargetBase
  <2>6. Reaches(c.arg.page, count)
    BY <1>2
  <2> QED
    BY <2>1, <2>2, <2>3, <2>4, <2>5, <2>6, LoadVersionsInv
<1>3. CASE c.lane = "versions" /\ c.arg.by = "deactivate"
  <2>1. Holds(c, SaveLanes, SaveLoads)
    BY <1>3 DEF Holds, SaveLoads
  <2>2. v = [u EXCEPT !.saving = FALSE]
    BY <1>3 DEF Target!Then
  <2> QED
    BY <2>1, <2>2, SavingEnds
<1>4. CASE c.lane = "versions" /\ c.arg.by = "snapshot"
  <2>1. Holds(c, MakeLanes, MakeLoads)
    BY <1>4 DEF Holds, MakeLoads
  <2>2. v = [u EXCEPT !.versioning = FALSE]
    BY <1>4 DEF Target!Then
  <2> QED
    BY <2>1, <2>2, VersioningEnds
<1>5. CASE /\ ~(c.lane = "target" /\ c.arg.by \in {"save", "deactivate"})
           /\ ~(c.lane = "versions" /\ c.arg.by \in {"deactivate", "snapshot"})
  <2>1. v = u
    BY <1>5 DEF Target!Then
  <2> QED
    BY <2>1
<1> QED
  BY <1>1, <1>2, <1>3, <1>4, <1>5

-----------------------------------------------------------------------------
(* ---- It receives the target. ------------------------------------------ *)

(* The page after the last one has no rows: the last is not past the end.   *)
LEMMA Divided ==
  ASSUME NEW m \in Nat
  PROVE  m \div Size \in Nat /\ m < Size * (m \div Size + 1)
  BY SizeAssumption

LEMMA Monotone ==
  ASSUME NEW a \in Int, NEW b \in Int, a <= b
  PROVE  a * Size <= b * Size
<1>1. b * Size - a * Size = (b - a) * Size
  BY SizeAssumption
<1>2. (b - a) * Size >= 0
  BY SizeAssumption
<1>3. a * Size \in Int /\ b * Size \in Int
  BY SizeAssumption
<1> QED
  BY <1>1, <1>2, <1>3

LEMMA NotPastTheEnd ==
  ASSUME NEW count \in Nat, NEW n, Reaches(n, count)
  PROVE  ~(n > (count + Size - 1) \div Size)
<1> DEFINE m == count + Size - 1
           q == m \div Size
<1>1. Size \in Nat /\ Size >= 1 /\ m \in Nat /\ m = count + Size - 1 /\ n \in Nat
  BY SizeAssumption DEF Reaches
<1>2. q \in Nat /\ m < Size * (q + 1)
  BY <1>1, Divided
<1> HIDE DEF q, m
<1>3. ASSUME n > q PROVE FALSE
  <2>1. q * Size <= (n - 1) * Size
    BY <1>1, <1>2, <1>3, Monotone
  <2>2. Size * (q + 1) = q * Size + Size
    BY <1>1, <1>2
  <2>3. q * Size \in Int /\ (n - 1) * Size \in Int
    BY <1>1, <1>2
  <2>4. (n - 1) * Size < count
    BY DEF Reaches
  <2> HIDE DEF Reaches
  <2> QED
    BY <1>1, <1>2, <2>1, <2>2, <2>3, <2>4
<1> QED
  BY <1>3 DEF q, m

LEMMA EndedIs ==
  ASSUME NEW u, IsTargetPage(u), NEW c, NEW v, v = [u EXCEPT !.calls = Target!Ended(@, c)]
  PROVE  v = [u EXCEPT !.calls = Ended(u.calls, c)]
  BY TargetRequests

\* What a call that has ended held up is free.
Freed(c, u) ==
  /\ Holds(c, SaveLanes, SaveLoads) =>
       NoneHolds(u.calls, SaveLanes, SaveLoads) /\ u.saving /\ u.target # None
  /\ Holds(c, MakeLanes, MakeLoads) =>
       NoneHolds(u.calls, MakeLanes, MakeLoads) /\ u.versioning /\ u.target # None
  /\ Holds(c, {}, FirstLoads) => u.target = None
  /\ NoneHolds(u.calls, {}, FirstLoads) \/ (u.target = None /\ ~Holds(c, {}, FirstLoads))

(* What holds of a page after one of its calls has ended, and what the     *)
(* call was.                                                               *)
LEMMA ReadEnded ==
  ASSUME NEW updates \in Nat, NEW count \in Nat, NEW more \in Nat,
         NEW p, TargetInv(p, updates, count, more), NEW c \in p.calls,
         NEW u, u = [p EXCEPT !.calls = Target!Ended(@, c)]
  PROVE  /\ TargetBase(u, updates, count, more)
         /\ c.lane # "snapshot" => VersionsListed(u)
         /\ c.lane \notin {"save", "target"} => TargetShown(u)
         /\ SameHistory(u, p)
         /\ u.target = p.target /\ u.error = p.error /\ u.versions = p.versions
         /\ u.saving = p.saving /\ u.versioning = p.versioning
         /\ Freed(c, u)
         /\ IsCall(c) /\ TargetCall(c, updates, count, p.toldConfig, p.toldVersions)
<1> DEFINE k == Ended(p.calls, c)
<1>1. IsTargetPage(p) /\ TargetBase(p, updates, count, more)
  BY DEF TargetInv, TargetBase
<1>2. u = [p EXCEPT !.calls = k]
  BY <1>1, EndedIs
<1>3. Fewer(k, p.calls, c)
  BY <1>1, FewerEnded DEF TargetBase
<1>4. TargetCalls(k, updates, count, p.toldConfig, p.toldVersions)
  <2>1. p.toldConfig \in Nat /\ p.toldVersions \in Nat
    BY <1>1 DEF TargetBase, TargetTypes
  <2> QED
    BY <1>1, <2>1, TargetCallsEnded DEF TargetBase
<1> HIDE DEF k
<1>5. /\ TargetBase(u, updates, count, more)
      /\ c.lane # "snapshot" /\ VersionsListed(p) => VersionsListed(u)
      /\ c.lane \notin {"save", "target"} /\ TargetShown(p) => TargetShown(u)
  BY <1>1, <1>2, <1>3, <1>4, EndedBase
<1>6. /\ SameHistory(u, p) /\ u.calls = k
      /\ u.target = p.target /\ u.error = p.error /\ u.versions = p.versions
      /\ u.saving = p.saving /\ u.versioning = p.versioning
  BY <1>1, <1>2, CallsFields
<1>7. Holds(c, SaveLanes, SaveLoads) =>
        NoneHolds(k, SaveLanes, SaveLoads) /\ p.saving /\ p.target # None
  BY <1>1, <1>3 DEF Fewer, TargetBase, TargetTokens, NoneHolds
<1>8. Holds(c, MakeLanes, MakeLoads) =>
        NoneHolds(k, MakeLanes, MakeLoads) /\ p.versioning /\ p.target # None
  BY <1>1, <1>3 DEF Fewer, TargetBase, TargetTokens, NoneHolds
<1>9. /\ Holds(c, {}, FirstLoads) => p.target = None
      /\ NoneHolds(k, {}, FirstLoads) \/ (p.target = None /\ ~Holds(c, {}, FirstLoads))
  BY <1>1, <1>3 DEF Fewer, TargetBase, TargetTokens, NoneHolds
<1>10. IsCall(c) /\ TargetCall(c, updates, count, p.toldConfig, p.toldVersions)
  BY <1>1 DEF TargetBase, TargetCalls, AreCalls
<1>11. Freed(c, u)
  BY <1>6, <1>7, <1>8, <1>9 DEF Freed
<1> QED
  BY <1>5, <1>6, <1>10, <1>11 DEF TargetInv

LEMMA ReceiveTargetInv ==
  ASSUME NEW updates \in Nat, NEW count \in Nat, NEW more \in Nat,
         NEW p, TargetInv(p, updates, count, more), NEW c \in p.calls, c.lane = "target",
         NEW u, u = [p EXCEPT !.calls = Target!Ended(@, c)], NEW o \in Target!OutcomesOf(c),
         NEW v, v = Target!Then(Target!TargetLoaded(u, o), c)
  PROVE  TargetInv(v, updates, count, more)
<1>1. /\ TargetBase(u, updates, count, more) /\ VersionsListed(u) /\ SameHistory(u, p)
      /\ Freed(c, u) /\ TargetCall(c, updates, count, p.toldConfig, p.toldVersions)
  BY ReadEnded
<1>2. TargetLoad(c, updates, p.toldConfig) /\ Reaches(c.arg.page, count)
  BY <1>1 DEF TargetCall
<1>3. NoneHolds(u.calls, {}, FirstLoads)
  <2>1. Holds(c, SaveLanes, SaveLoads) \/ Holds(c, {}, FirstLoads)
    BY <1>2 DEF TargetLoad, Holds, SaveLoads, FirstLoads
  <2> QED
    BY <1>1, <2>1 DEF Freed
<1>4. \/ o.kind # "data" /\ o # None
      \/ o.kind = "data" /\ c.reply = <<Answered(o.value)>> /\ c.reply # Waiting
  <2>1. c.reply = Waiting \/ c.reply \in Refusal \/ \E s : c.reply = <<Answered(s)>>
    BY <1>2 DEF TargetLoad
  <2> QED
    BY <2>1, OutcomeOf
<1> DEFINE x == Target!TargetLoaded(u, o)
<1>5. IsTargetPage(u)
  BY <1>1 DEF TargetBase
<1>6. TargetInv(x, updates, count, more) /\ x.calls = u.calls /\ x.saving = u.saving
        /\ (u.target # None => x.target # None)
  <2>1. CASE o.kind # "data"
    <3>1. x = [u EXCEPT !.error = o] /\ o # None
      BY <1>4, <2>1 DEF Target!TargetLoaded
    <3> HIDE DEF x
    <3>2. /\ IsTargetPage(x) /\ SameHistory(x, u)
          /\ x.target = u.target /\ x.error = o /\ x.versions = u.versions
          /\ x.saving = u.saving /\ x.versioning = u.versioning /\ x.calls = u.calls
      BY <1>5, <3>1 DEF IsTargetPage, SameHistory, SameTold
    <3>3. TargetSignals(x) /\ TargetTypes(x, updates, count)
      BY <1>1, <3>1, <3>2 DEF TargetBase, TargetSignals, TargetTypes, SameHistory, SameTold
    <3>4. x.target = None => x.failed = {} /\ x.alone = {}
      BY <1>1, <3>2 DEF TargetBase, TargetTokens, SameHistory
    <3>5. TargetBase(x, updates, count, more)
      BY <1>1, <1>3, <3>2, <3>3, <3>4, BaseKept DEF SameHistory
    <3> QED
      BY <1>1, <3>1, <3>2, <3>5 DEF TargetInv, VersionsListed, TargetShown, SameHistory, SameTold
  <2>2. CASE o.kind = "data"
    <3>1. PICK n \in p.toldConfig..updates, a \in BOOLEAN :
            c.reply = <<Answered(Target!Seen(n, a))>>
      BY <1>2, <1>4, <2>2 DEF TargetLoad
    <3>2. o.value = Target!Seen(n, a)
      BY <1>4, <2>2, <3>1, SameAnswer
    <3>3. o.value.value = n /\ o.value.active = a
      BY <3>2, SeenFields
    <3> DEFINE t == [config |-> n, active |-> a]
    <3>4. x = [u EXCEPT !.target = t]
      BY <2>2, <3>3 DEF Target!TargetLoaded
    <3>5. p.toldConfig \in Nat /\ p.toldConfig = u.toldConfig
      BY <1>1 DEF TargetBase, TargetTypes, SameHistory, SameTold
    <3>6. t.config = n /\ n \in 0..updates /\ n >= u.toldConfig /\ t # None
      <4>1. n \in 0..updates /\ n >= u.toldConfig
        BY <3>5
      <4>2. t \in [config : Nat, active : BOOLEAN]
        BY <4>1
      <4> QED
        BY <4>1, <4>2, NoneAssumption
    <3> HIDE DEF x, t
    <3>7. /\ IsTargetPage(x) /\ SameHistory(x, u)
          /\ x.target = t /\ x.error = u.error /\ x.versions = u.versions
          /\ x.saving = u.saving /\ x.versioning = u.versioning /\ x.calls = u.calls
      BY <1>5, <3>4 DEF IsTargetPage, SameHistory, SameTold
    <3>8. TargetSignals(x) /\ TargetTypes(x, updates, count)
      BY <1>1, <3>6, <3>7 DEF TargetBase, TargetSignals, TargetTypes, SameHistory, SameTold
    <3>9. TargetBase(x, updates, count, more)
      BY <1>1, <1>3, <3>6, <3>7, <3>8, BaseKept DEF SameHistory
    <3> QED
      BY <1>1, <3>6, <3>7, <3>9 DEF TargetInv, VersionsListed, TargetShown, SameHistory, SameTold
  <2> QED
    BY <2>1, <2>2
<1> HIDE DEF x
<1>7. v = Target!Then(x, c)
  BY DEF x
<1>8. Holds(c, SaveLanes, SaveLoads) =>
        NoneHolds(x.calls, SaveLanes, SaveLoads) /\ x.saving /\ x.target # None
  BY <1>1, <1>6 DEF Freed
<1>9. Holds(c, MakeLanes, MakeLoads) => NoneHolds(x.calls, MakeLanes, MakeLoads)
  BY <1>1, <1>6 DEF Freed
<1> QED
  BY <1>1, <1>2, <1>6, <1>8, <1>9, <1>7, ThenInv

-----------------------------------------------------------------------------
(* ---- It receives a page of the versions. ------------------------------ *)

LEMMA ReachesOne ==
  ASSUME NEW n, NEW count \in Nat, Reaches(n, count)
  PROVE  Reaches(1, count)
<1>1. (n - 1) * Size >= 0 /\ (n - 1) * Size \in Int
  BY SizeAssumption DEF Reaches
<1>2. count > 0
  BY <1>1 DEF Reaches
<1>3. (1 - 1) * Size = 0
  BY SizeAssumption
<1> QED
  BY <1>2, <1>3 DEF Reaches

\* Beside its list the page is the same.
SameBeside(x, u) == x.calls = u.calls /\ x.saving = u.saving /\ x.target = u.target

(* A list that was read, or not, is at rest.                               *)
LEMMA ListedInv ==
  ASSUME NEW updates \in Nat, NEW count \in Nat, NEW more \in Nat,
         NEW u, TargetInv(u, updates, count, more),
         NEW w, IsVersions(w), NEW x, x = [u EXCEPT !.versions = w],
         \/ /\ w.error # None /\ w.page = u.versions.page /\ w.total = u.versions.total
         \/ /\ w.error = u.versions.error /\ w.rows = w.page /\ Reaches(w.page, count)
            /\ w.total \in 0..count /\ w.total >= u.toldVersions
  PROVE  TargetInv(x, updates, count, more) /\ SameBeside(x, u)
<1>1. /\ IsTargetPage(x) /\ SameHistory(x, u)
      /\ x.target = u.target /\ x.error = u.error /\ x.versions = w
      /\ x.saving = u.saving /\ x.versioning = u.versioning /\ x.calls = u.calls
  BY DEF TargetInv, TargetBase, IsTargetPage, SameHistory, SameTold
<1>2. TargetSignals(x) /\ TargetTypes(x, updates, count)
  BY <1>1 DEF TargetInv, TargetBase, TargetSignals, TargetTypes, SameHistory, SameTold
<1>3. x.target = None => x.failed = {} /\ x.alone = {}
  BY <1>1 DEF TargetInv, TargetBase, TargetTokens, SameHistory, SameTold
<1>4. TargetBase(x, updates, count, more)
  BY <1>1, <1>2, <1>3, BaseKept DEF TargetInv, SameHistory
<1>5. VersionsListed(x)
  BY <1>1 DEF VersionsListed, SameHistory, SameTold
<1>6. TargetShown(x)
  BY <1>1 DEF TargetInv, TargetShown, SameHistory, SameTold
<1> QED
  BY <1>1, <1>4, <1>5, <1>6 DEF TargetInv, SameBeside

LEMMA ReceiveVersionsInv ==
  ASSUME NEW updates \in Nat, NEW count \in Nat, NEW more \in Nat,
         NEW p, TargetInv(p, updates, count, more), NEW c \in p.calls, c.lane = "versions",
         NEW u, u = [p EXCEPT !.calls = Target!Ended(@, c)], NEW o \in Target!OutcomesOf(c),
         NEW v, v = IF Target!IsCurrent(c) THEN Target!VersionsLoaded(u, c, o)
                    ELSE Target!Then(u, c)
  PROVE  TargetInv(v, updates, count, more)
<1>1. /\ TargetBase(u, updates, count, more) /\ VersionsListed(u) /\ TargetShown(u)
      /\ SameHistory(u, p) /\ Freed(c, u)
      /\ TargetCall(c, updates, count, p.toldConfig, p.toldVersions)
  BY ReadEnded
<1>2. VersionsLoad(c, count, p.toldVersions) /\ Reaches(c.arg.page, count)
  BY <1>1 DEF TargetCall
<1>3. TargetInv(u, updates, count, more)
  BY <1>1 DEF TargetInv
<1>4. ASSUME NEW x, TargetInv(x, updates, count, more), SameBeside(x, u),
             v = Target!Then(x, c)
      PROVE  TargetInv(v, updates, count, more)
  <2>1. Holds(c, SaveLanes, SaveLoads) =>
          NoneHolds(x.calls, SaveLanes, SaveLoads) /\ x.saving /\ x.target # None
    BY <1>1, <1>4 DEF Freed, SameBeside
  <2>2. Holds(c, MakeLanes, MakeLoads) => NoneHolds(x.calls, MakeLanes, MakeLoads)
    BY <1>1, <1>4 DEF Freed, SameBeside
  <2> QED
    BY <1>2, <1>4, <2>1, <2>2, ThenInv
<1>5. CASE ~c.live
  <2>1. v = Target!Then(u, c)
    BY <1>5 DEF Target!IsCurrent
  <2> QED
    BY <1>3, <1>4, <2>1 DEF SameBeside
<1>6. CASE c.live
  <2>1. v = Target!VersionsLoaded(u, c, o)
    BY <1>6 DEF Target!IsCurrent
  <2>2. \/ o.kind # "data" /\ o # None
        \/ o.kind = "data" /\ c.reply = <<Answered(o.value)>> /\ c.reply # Waiting
    <3>1. c.reply = Waiting \/ c.reply \in Refusal \/ \E s : c.reply = <<Answered(s)>>
      BY <1>2 DEF VersionsLoad
    <3> QED
      BY <3>1, OutcomeOf
  <2> DEFINE w == u.versions
             no == FALSE
  <2>3. PICK list : list = [w EXCEPT !.loading = no, !.refreshing = no]
    OBVIOUS
  <2>4. list = [u.versions EXCEPT !.loading = FALSE, !.refreshing = FALSE]
    BY <2>3
  <2>5. IsTargetPage(u) /\ IsVersions(w)
    BY <1>1 DEF TargetBase, IsTargetPage
  <2> HIDE DEF w, no
  <2>6. /\ IsVersions(list) /\ list.page = w.page /\ list.rows = w.rows /\ list.total = w.total
        /\ list.error = w.error
    BY <2>3, <2>5 DEF IsVersions
  <2>7. CASE o.kind # "data"
    <3>1. PICK y : y = [list EXCEPT !.error = o]
      OBVIOUS
    <3>2. IsVersions(y) /\ y.page = w.page /\ y.total = w.total /\ y.error = o
      BY <2>6, <3>1 DEF IsVersions
    <3>3. PICK x : x = [u EXCEPT !.versions = y]
      OBVIOUS
    <3>4. v = Target!Then(x, c)
      BY <2>1, <2>4, <2>7, <3>1, <3>3 DEF Target!VersionsLoaded
    <3>5. TargetInv(x, updates, count, more) /\ SameBeside(x, u)
      <4>1. y.error # None /\ y.page = u.versions.page /\ y.total = u.versions.total
        BY <2>2, <2>7, <3>2 DEF w
      <4> QED
        BY <1>3, <3>2, <3>3, <4>1, ListedInv
    <3> QED
      BY <1>4, <3>4, <3>5
  <2>8. CASE o.kind = "data"
    <3>1. PICK n \in 0..count : /\ c.reply = <<Answered(Target!Seen(n, TRUE))>>
                                /\ Reaches(c.arg.page, n) /\ (c.live => n >= p.toldVersions)
      BY <1>2, <2>2, <2>8 DEF VersionsLoad
    <3>2. o.value = Target!Seen(n, TRUE)
      BY <2>2, <2>8, <3>1, SameAnswer
    <3>3. o.value.value = n
      BY <3>2, SeenFields
    <3>4. ~(c.arg.page > (o.value.value + Size - 1) \div Size)
      BY <3>1, <3>3, NotPastTheEnd
    <3>5. PICK y : y = [list EXCEPT !.page = c.arg.page, !.rows = c.arg.page,
                                    !.total = o.value.value]
      OBVIOUS
    <3>6. /\ IsVersions(y) /\ y.page = c.arg.page /\ y.rows = c.arg.page /\ y.total = n
          /\ y.error = w.error
      BY <2>6, <3>3, <3>5 DEF IsVersions
    <3>7. PICK x : x = [u EXCEPT !.versions = y]
      OBVIOUS
    <3>8. v = Target!Then(x, c)
      BY <2>1, <2>4, <2>8, <3>4, <3>5, <3>7 DEF Target!VersionsLoaded
    <3>9. n >= u.toldVersions
      BY <1>1, <1>6, <3>1 DEF SameHistory, SameTold
    <3>10. TargetInv(x, updates, count, more) /\ SameBeside(x, u)
      <4>1. /\ y.error = u.versions.error /\ y.rows = y.page /\ Reaches(y.page, count)
            /\ y.total \in 0..count /\ y.total >= u.toldVersions
        BY <1>2, <3>6, <3>9 DEF w
      <4> QED
        BY <1>3, <3>6, <3>7, <4>1, ListedInv
    <3> QED
      BY <1>4, <3>8, <3>10
  <2> QED
    BY <2>7, <2>8
<1>7. c.live \in BOOLEAN
  BY DEF TargetInv, TargetBase, TargetCalls, AreCalls, IsCall
<1> QED
  BY <1>5, <1>6, <1>7

-----------------------------------------------------------------------------
(* ---- It receives the answer to a save. -------------------------------- *)

(* The page once a mutation of its own has ended, and what that was.       *)
LEMMA MutationEnded ==
  ASSUME NEW updates \in Nat, NEW count \in Nat, NEW more \in Nat,
         NEW p, TargetInv(p, updates, count, more), NEW c \in p.calls,
         c.lane \in {"save", "deactivate", "snapshot"}, c.live,
         NEW u, u = [p EXCEPT !.calls = Target!EndedMutation(@, c)]
  PROVE  /\ TargetBase(u, updates, count, more)
         /\ c.lane # "snapshot" => VersionsListed(u)
         /\ c.lane # "save" => TargetShown(u)
         /\ Freed(c, u)
         /\ TargetCall(c, updates, count, u.toldConfig, u.toldVersions)
<1> DEFINE k == EndedMutation(p.calls, c)
<1>1. IsTargetPage(p) /\ TargetBase(p, updates, count, more)
  BY DEF TargetInv, TargetBase
<1>2. u = [p EXCEPT !.calls = k]
  BY <1>1, TargetRequests
<1>3. IsCall(c) /\ TargetCall(c, updates, count, p.toldConfig, p.toldVersions)
  BY <1>1 DEF TargetBase, TargetCalls, AreCalls
<1>4. c.arg.by = "user"
  BY <1>3 DEF TargetCall
<1>5. AreCalls(p.calls) /\ OneLive(p.calls)
  BY <1>1 DEF TargetBase, TargetCalls
<1>6. Fewer(k, p.calls, c)
  BY <1>1, <1>4, <1>5, FewerEndedMutation DEF TargetBase
<1>7. TargetCalls(k, updates, count, p.toldConfig, p.toldVersions)
  <2>1. p.toldConfig \in Nat /\ p.toldVersions \in Nat
    BY <1>1 DEF TargetBase, TargetTypes
  <2>2. c.lane # "target"
    OBVIOUS
  <2> QED
    BY <1>1, <2>1, <2>2, TargetCallsEndedMutation DEF TargetBase
<1> HIDE DEF k
<1>8. /\ TargetBase(u, updates, count, more)
      /\ c.lane # "snapshot" /\ VersionsListed(p) => VersionsListed(u)
      /\ c.lane \notin {"save", "target"} /\ TargetShown(p) => TargetShown(u)
  BY <1>1, <1>2, <1>6, <1>7, EndedBase
<1>9. /\ SameHistory(u, p) /\ u.calls = k
      /\ u.target = p.target /\ u.error = p.error /\ u.versions = p.versions
      /\ u.saving = p.saving /\ u.versioning = p.versioning
  BY <1>1, <1>2, CallsFields
<1>10. Holds(c, SaveLanes, SaveLoads) =>
        NoneHolds(k, SaveLanes, SaveLoads) /\ p.saving /\ p.target # None
  BY <1>1, <1>6 DEF Fewer, TargetBase, TargetTokens, NoneHolds
<1>11. Holds(c, MakeLanes, MakeLoads) =>
        NoneHolds(k, MakeLanes, MakeLoads) /\ p.versioning /\ p.target # None
  BY <1>1, <1>6 DEF Fewer, TargetBase, TargetTokens, NoneHolds
<1>12. /\ Holds(c, {}, FirstLoads) => p.target = None
       /\ NoneHolds(k, {}, FirstLoads) \/ (p.target = None /\ ~Holds(c, {}, FirstLoads))
  BY <1>1, <1>6 DEF Fewer, TargetBase, TargetTokens, NoneHolds
<1>13. Freed(c, u)
  BY <1>9, <1>10, <1>11, <1>12 DEF Freed
<1> QED
  BY <1>3, <1>8, <1>9, <1>13 DEF TargetInv, SameHistory, SameTold

(* A change of the target that failed.                                     *)
LEMMA SaveFails ==
  ASSUME NEW updates \in Nat, NEW count \in Nat, NEW more \in Nat,
         NEW u, TargetBase(u, updates, count, more), VersionsListed(u),
         NoneHolds(u.calls, SaveLanes, SaveLoads), NoneHolds(u.calls, {}, FirstLoads),
         u.target # None, NEW lane, lane \in {"save", "deactivate"}, NEW o, o # None,
         NEW v, v = Target!Failed([u EXCEPT !.saving = FALSE, !.error = o], lane)
  PROVE  TargetInv(v, updates, count, more)
<1> DEFINE no == FALSE
           f == u.failed \cup ({lane} \cap u.alone)
<1>1. PICK x : x = [u EXCEPT !.saving = no, !.error = o]
  OBVIOUS
<1>2. v = [x EXCEPT !.failed = @ \cup ({lane} \cap x.alone)]
  BY <1>1 DEF Target!Failed
<1>3. ~no
  OBVIOUS
<1>4. lane # "snapshot"
  OBVIOUS
<1>5. "snapshot" \in f => "snapshot" \in u.failed
  BY <1>4
<1> HIDE DEF no
<1>6. /\ IsTargetPage(x) /\ SameHistory(x, u)
      /\ x.target = u.target /\ x.error = o /\ x.versions = u.versions
      /\ x.saving = no /\ x.versioning = u.versioning /\ x.calls = u.calls
  BY <1>1 DEF TargetBase, IsTargetPage, SameHistory, SameTold
<1>7. v = [x EXCEPT !.failed = f]
  BY <1>2, <1>6 DEF SameHistory
<1> HIDE DEF f
<1>8. /\ IsTargetPage(v) /\ SameTold(v, u) /\ v.acts = u.acts
      /\ v.target = u.target /\ v.error = o /\ v.versions = u.versions
      /\ v.saving = no /\ v.versioning = u.versioning /\ v.calls = u.calls
      /\ v.failed = f /\ v.alone = u.alone
  BY <1>6, <1>7 DEF IsTargetPage, SameHistory, SameTold
<1>9. TargetSignals(v) /\ TargetTypes(v, updates, count)
  BY <1>3, <1>5, <1>8 DEF TargetBase, TargetSignals, TargetTypes, SameTold
<1>10. TargetBase(v, updates, count, more)
  BY <1>8, <1>9, BaseKept
<1>11. VersionsListed(v)
  BY <1>8 DEF VersionsListed, SameTold
<1>12. TargetShown(v)
  BY <1>8 DEF TargetShown
<1> QED
  BY <1>10, <1>11, <1>12 DEF TargetInv

LEMMA DataIsNoRefusal ==
  ASSUME NEW s
  PROVE  <<Answered(s)>> \notin Refusal
<1>1. /\ request(Target!Inactive).kind # "data" /\ request(Target!DuplicateName).kind # "data"
      /\ request(Target!DuplicateVersion).kind # "data"
  BY TargetAnswers, RefusedIsError
     DEF Target!Inactive, Target!DuplicateName, Target!DuplicateVersion
<1>2. request(Answered(s)).kind = "data"
  BY AnsweredIsData DEF Data
<1>3. \A r, t : <<r>> = <<t>> => r = t
  OBVIOUS
<1> QED
  BY <1>1, <1>2, <1>3 DEF Refusal

LEMMA LatestIs ==
  ASSUME NEW n \in Nat, NEW told \in 0..n, NEW value \in 0..n
  PROVE  Target!Latest(told, value) \in 0..n
  BY DEF Target!Latest

(* What the page is told of its own save it reads again.                   *)
LEMMA ReceiveSaveInv ==
  ASSUME NEW updates \in Nat, NEW count \in Nat, NEW more \in Nat,
         NEW p, TargetInv(p, updates, count, more), NEW c \in p.calls, c.lane = "save", c.live,
         NEW u, u = [p EXCEPT !.calls = Target!EndedMutation(@, c)],
         NEW o \in Target!OutcomesOf(c),
         NEW v, v = IF o.kind = "data"
                    THEN Target!LoadTarget(
                           [u EXCEPT !.toldConfig = Target!Latest(@, o.value.value)], 1, "save")
                    ELSE Target!Failed([u EXCEPT !.saving = FALSE, !.error = o], "save")
  PROVE  TargetInv(v, updates, count, more)
<1>1. /\ TargetBase(u, updates, count, more) /\ VersionsListed(u) /\ Freed(c, u)
      /\ TargetCall(c, updates, count, u.toldConfig, u.toldVersions)
  BY MutationEnded
<1>2. /\ NoneHolds(u.calls, SaveLanes, SaveLoads) /\ u.saving /\ u.target # None
      /\ NoneHolds(u.calls, {}, FirstLoads)
  <2>1. Holds(c, SaveLanes, SaveLoads)
    BY DEF Holds, SaveLanes
  <2> QED
    BY <1>1, <2>1 DEF Freed
<1>3. c.reply = Waiting \/ c.reply \in Refusal \/ Told(c, updates)
  BY <1>1 DEF TargetCall
<1>4. \/ o.kind # "data" /\ o # None
      \/ o.kind = "data" /\ c.reply = <<Answered(o.value)>> /\ c.reply # Waiting
  BY <1>3, OutcomeOf DEF Told
<1>5. CASE o.kind # "data"
  <2>1. v = Target!Failed([u EXCEPT !.saving = FALSE, !.error = o], "save") /\ o # None
    BY <1>4, <1>5
  <2> QED
    BY <1>1, <1>2, <2>1, SaveFails
<1>6. CASE o.kind = "data"
  <2>1. o.value.value \in 0..updates
    <3>1. PICK n \in 0..updates : c.reply = <<Answered(Target!Seen(n, TRUE))>>
      BY <1>3, <1>4, <1>6, DataIsNoRefusal DEF Told
    <3>2. o.value = Target!Seen(n, TRUE)
      BY <1>4, <1>6, <3>1, SameAnswer
    <3>3. Target!Seen(n, TRUE).value = n
      BY SeenFields
    <3> QED
      BY <3>2, <3>3
  <2> DEFINE t == Target!Latest(u.toldConfig, o.value.value)
  <2>2. t \in 0..updates
    BY <1>1, <2>1, LatestIs DEF TargetBase, TargetTypes
  <2>3. PICK x : x = [u EXCEPT !.toldConfig = t]
    OBVIOUS
  <2>4. v = Target!LoadTarget(x, 1, "save")
    BY <1>6, <2>3
  <2> HIDE DEF t
  <2>5. /\ IsTargetPage(x) /\ x.toldConfig = t /\ x.toldVersions = u.toldVersions
        /\ x.alone = u.alone /\ x.failed = u.failed /\ x.acts = u.acts
        /\ x.target = u.target /\ x.error = u.error /\ x.versions = u.versions
        /\ x.saving = u.saving /\ x.versioning = u.versioning /\ x.calls = u.calls
    BY <1>1, <2>3 DEF TargetBase, IsTargetPage
  <2>6. Loadable(x, updates, count, more, u.toldConfig, x.toldVersions)
    BY <1>1, <1>2, <2>2, <2>5 DEF Loadable, TargetBase, TargetTokens, TargetTypes
  <2>7. TargetSignals(x) /\ VersionsListed(x)
    BY <1>1, <2>5 DEF TargetBase, TargetSignals, VersionsListed
  <2>8. x.failed \cap {"save", "deactivate"} = {}
    BY <1>1, <1>2, <2>5 DEF TargetBase, TargetSignals
  <2>9. \A d \in x.calls : d.lane # "target"
    BY <1>1, <1>2, <2>5, NoTargetCall DEF TargetBase
  <2>10. Reaches(1, count)
    BY <1>1, ReachesOne DEF TargetBase, TargetTypes
  <2>11. NoneHolds(x.calls, SaveLanes, SaveLoads) /\ x.saving /\ x.target # None
    BY <1>2, <2>5
  <2>12. u.toldConfig \in Nat
    BY <1>1 DEF TargetBase, TargetTypes
  <2> QED
    BY <2>4, <2>6, <2>7, <2>8, <2>9, <2>10, <2>11, <2>12, LoadTargetInv
<1> QED
  BY <1>5, <1>6

-----------------------------------------------------------------------------
(* ---- It receives the answers to a deactivation and a snapshot. -------- *)

LEMMA ReceiveDeactivateInv ==
  ASSUME NEW updates \in Nat, NEW count \in Nat, NEW more \in Nat,
         NEW p, TargetInv(p, updates, count, more), NEW c \in p.calls,
         c.lane = "deactivate", c.live,
         NEW u, u = [p EXCEPT !.calls = Target!EndedMutation(@, c)],
         NEW o \in Target!OutcomesOf(c),
         NEW v, v = IF o.kind = "data" THEN Target!LoadTarget(u, c.arg.page, "deactivate")
                    ELSE Target!Failed([u EXCEPT !.saving = FALSE, !.error = o], "deactivate")
  PROVE  TargetInv(v, updates, count, more)
<1>1. /\ TargetBase(u, updates, count, more) /\ VersionsListed(u) /\ Freed(c, u)
      /\ TargetCall(c, updates, count, u.toldConfig, u.toldVersions)
  BY MutationEnded
<1>2. /\ NoneHolds(u.calls, SaveLanes, SaveLoads) /\ u.saving /\ u.target # None
      /\ NoneHolds(u.calls, {}, FirstLoads)
  <2>1. Holds(c, SaveLanes, SaveLoads)
    BY DEF Holds, SaveLanes
  <2> QED
    BY <1>1, <2>1 DEF Freed
<1>3. CASE o.kind # "data"
  <2>1. v = Target!Failed([u EXCEPT !.saving = FALSE, !.error = o], "deactivate")
    BY <1>3
  <2>2. o # None
    <3>1. c.reply = Waiting \/ c.reply \in Refusal \/ \E s : c.reply = <<Answered(s)>>
      BY <1>1 DEF TargetCall
    <3> QED
      BY <1>3, <3>1, OutcomeOf
  <2> QED
    BY <1>1, <1>2, <2>1, <2>2, SaveFails
<1>4. CASE o.kind = "data"
  <2>1. v = Target!LoadTarget(u, c.arg.page, "deactivate")
    BY <1>4
  <2>2. Loadable(u, updates, count, more, u.toldConfig, u.toldVersions)
    BY <1>1 DEF Loadable, TargetBase
  <2>3. TargetSignals(u) /\ u.failed \cap {"save", "deactivate"} = {}
    BY <1>1, <1>2 DEF TargetBase, TargetSignals
  <2>4. \A d \in u.calls : d.lane # "target"
    BY <1>1, <1>2, NoTargetCall DEF TargetBase
  <2>5. Reaches(c.arg.page, count)
    BY <1>1 DEF TargetCall
  <2>6. u.toldConfig \in Nat
    BY <1>1 DEF TargetBase, TargetTypes
  <2> QED
    BY <1>1, <1>2, <2>1, <2>2, <2>3, <2>4, <2>5, <2>6, LoadTargetInv
<1> QED
  BY <1>3, <1>4

(* A version that was not made.                                            *)
LEMMA SnapshotFails ==
  ASSUME NEW updates \in Nat, NEW count \in Nat, NEW more \in Nat,
         NEW u, TargetBase(u, updates, count, more), TargetShown(u),
         NoneHolds(u.calls, MakeLanes, MakeLoads), u.target # None, NEW o, o # None,
         NEW v, v = Target!Failed([u EXCEPT !.versioning = FALSE, !.versions.error = o], "snapshot")
  PROVE  TargetInv(v, updates, count, more)
<1> DEFINE no == FALSE
           f == u.failed \cup ({"snapshot"} \cap u.alone)
<1>1. PICK w : w = [u.versions EXCEPT !.error = o]
  OBVIOUS
<1>2. IsTargetPage(u) /\ IsVersions(u.versions)
  BY DEF TargetBase, IsTargetPage
<1>3. /\ IsVersions(w) /\ w.page = u.versions.page /\ w.total = u.versions.total
      /\ w.error = o
  BY <1>1, <1>2 DEF IsVersions
<1>4. PICK x : x = [u EXCEPT !.versioning = no, !.versions = w]
  OBVIOUS
<1>5. x = [u EXCEPT !.versioning = FALSE, !.versions.error = o]
  BY <1>1, <1>2, <1>4 DEF IsTargetPage
<1>6. v = [x EXCEPT !.failed = @ \cup ({"snapshot"} \cap x.alone)]
  BY <1>5 DEF Target!Failed
<1>7. /\ ~no
      /\ f \cap {"save", "deactivate"} # {} => u.failed \cap {"save", "deactivate"} # {}
      /\ "snapshot" \in f => "snapshot" \in u.failed \cup u.alone
  OBVIOUS
<1> HIDE DEF no
<1>8. /\ IsTargetPage(x) /\ SameHistory(x, u)
      /\ x.target = u.target /\ x.error = u.error /\ x.versions = w
      /\ x.saving = u.saving /\ x.versioning = no /\ x.calls = u.calls
  BY <1>2, <1>3, <1>4 DEF IsTargetPage, SameHistory, SameTold
<1>9. v = [x EXCEPT !.failed = f]
  BY <1>6, <1>8 DEF SameHistory
<1> HIDE DEF f
<1>10. /\ IsTargetPage(v) /\ SameTold(v, u) /\ v.acts = u.acts
       /\ v.target = u.target /\ v.error = u.error /\ v.versions = w
       /\ v.saving = u.saving /\ v.versioning = no /\ v.calls = u.calls
       /\ v.failed = f /\ v.alone = u.alone
  BY <1>8, <1>9 DEF IsTargetPage, SameHistory, SameTold
<1>11. TargetSignals(v)
  BY <1>3, <1>7, <1>10 DEF TargetBase, TargetSignals
<1>12. TargetTypes(v, updates, count)
  BY <1>3, <1>10 DEF TargetBase, TargetTypes, SameTold
<1>13. TargetBase(v, updates, count, more)
  BY <1>10, <1>11, <1>12, BaseKept
<1>14. VersionsListed(v)
  BY <1>3, <1>10 DEF VersionsListed
<1>15. TargetShown(v)
  BY <1>10 DEF TargetShown, SameTold
<1> QED
  BY <1>13, <1>14, <1>15 DEF TargetInv

(* What the page is told of its own version it reads again.                *)
LEMMA ReceiveSnapshotInv ==
  ASSUME NEW updates \in Nat, NEW count \in Nat, NEW more \in Nat,
         NEW p, TargetInv(p, updates, count, more), NEW c \in p.calls,
         c.lane = "snapshot", c.live,
         NEW u, u = [p EXCEPT !.calls = Target!EndedMutation(@, c)],
         NEW o \in Target!OutcomesOf(c),
         NEW v, v = IF o.kind = "data"
                    THEN Target!LoadVersions(
                           [u EXCEPT !.versions.page = 1,
                                     !.toldVersions = Target!Latest(@, o.value.value)],
                           1, "snapshot")
                    ELSE Target!Failed([u EXCEPT !.versioning = FALSE, !.versions.error = o],
                                       "snapshot")
  PROVE  TargetInv(v, updates, count, more)
<1>1. /\ TargetBase(u, updates, count, more) /\ TargetShown(u) /\ Freed(c, u)
      /\ TargetCall(c, updates, count, u.toldConfig, u.toldVersions)
  BY MutationEnded
<1>2. NoneHolds(u.calls, MakeLanes, MakeLoads) /\ u.versioning /\ u.target # None
  <2>1. Holds(c, MakeLanes, MakeLoads)
    BY DEF Holds, MakeLanes
  <2> QED
    BY <1>1, <2>1 DEF Freed
<1>3. c.reply = Waiting \/ c.reply \in Refusal \/ Told(c, count)
  BY <1>1 DEF TargetCall
<1>4. \/ o.kind # "data" /\ o # None
      \/ o.kind = "data" /\ c.reply = <<Answered(o.value)>> /\ c.reply # Waiting
  BY <1>3, OutcomeOf DEF Told
<1>5. CASE o.kind # "data"
  <2>1. /\ v = Target!Failed([u EXCEPT !.versioning = FALSE, !.versions.error = o], "snapshot")
        /\ o # None
    BY <1>4, <1>5
  <2> QED
    BY <1>1, <1>2, <2>1, SnapshotFails
<1>6. CASE o.kind = "data"
  <2>1. o.value.value \in 0..count
    <3>1. PICK n \in 0..count : c.reply = <<Answered(Target!Seen(n, TRUE))>>
      BY <1>3, <1>4, <1>6, DataIsNoRefusal DEF Told
    <3>2. o.value = Target!Seen(n, TRUE)
      BY <1>4, <1>6, <3>1, SameAnswer
    <3>3. Target!Seen(n, TRUE).value = n
      BY SeenFields
    <3> QED
      BY <3>2, <3>3
  <2> DEFINE t == Target!Latest(u.toldVersions, o.value.value)
  <2>2. t \in 0..count
    BY <1>1, <2>1, LatestIs DEF TargetBase, TargetTypes
  <2>3. PICK w : w = [u.versions EXCEPT !.page = 1]
    OBVIOUS
  <2>4. PICK x : x = [u EXCEPT !.versions = w, !.toldVersions = t]
    OBVIOUS
  <2>5. IsTargetPage(u) /\ IsVersions(u.versions)
    BY <1>1 DEF TargetBase, IsTargetPage
  <2>6. v = Target!LoadVersions(x, 1, "snapshot")
    BY <1>6, <2>3, <2>4, <2>5 DEF IsTargetPage
  <2> HIDE DEF t
  <2>7. IsVersions(w) /\ w.page = 1 /\ w.total = u.versions.total /\ w.error = u.versions.error
    BY <2>3, <2>5 DEF IsVersions
  <2>8. /\ IsTargetPage(x) /\ x.toldConfig = u.toldConfig /\ x.toldVersions = t
        /\ x.alone = u.alone /\ x.failed = u.failed /\ x.acts = u.acts
        /\ x.target = u.target /\ x.error = u.error /\ x.versions = w
        /\ x.saving = u.saving /\ x.versioning = u.versioning /\ x.calls = u.calls
    BY <2>4, <2>5, <2>7 DEF IsTargetPage
  <2>9. Reaches(1, count)
    BY <1>1, ReachesOne DEF TargetBase, TargetTypes
  <2>10. Loadable(x, updates, count, more, x.toldConfig, u.toldVersions)
    BY <1>1, <2>2, <2>7, <2>8, <2>9 DEF Loadable, TargetBase, TargetTokens, TargetTypes
  <2>11. TargetSignals(x)
    BY <1>1, <2>7, <2>8 DEF TargetBase, TargetSignals
  <2>12. TargetShown(x)
    BY <1>1, <2>8 DEF TargetShown
  <2>13. "snapshot" \notin x.failed
    BY <1>1, <1>2, <2>8 DEF TargetBase, TargetSignals
  <2>14. NoneHolds(x.calls, MakeLanes, MakeLoads) /\ x.versioning /\ x.target # None
    BY <1>2, <2>8
  <2>15. u.toldVersions \in Nat
    BY <1>1 DEF TargetBase, TargetTypes
  <2> QED
    BY <2>6, <2>9, <2>10, <2>11, <2>12, <2>13, <2>14, <2>15, LoadVersionsInv
<1> QED
  BY <1>5, <1>6

-----------------------------------------------------------------------------
(* ---- What its user does. ---------------------------------------------- *)

LEMMA ActIs ==
  ASSUME NEW u, IsTargetPage(u), NEW v, v = Target!Act(u)
  PROVE  /\ IsTargetPage(v) /\ SameTold(v, u)
         /\ v.target = u.target /\ v.error = u.error /\ v.versions = u.versions
         /\ v.saving = u.saving /\ v.versioning = u.versioning /\ v.calls = u.calls
         /\ v.alone = {} /\ v.failed = {} /\ v.acts = u.acts + 1
<1> DEFINE none == {}
           n == u.acts + 1
<1>1. v = [u EXCEPT !.alone = none, !.failed = none, !.acts = n]
  BY DEF Target!Act
<1> HIDE DEF none, n
<1>2. /\ IsTargetPage(v) /\ SameTold(v, u)
      /\ v.target = u.target /\ v.error = u.error /\ v.versions = u.versions
      /\ v.saving = u.saving /\ v.versioning = u.versioning /\ v.calls = u.calls
      /\ v.alone = none /\ v.failed = none /\ v.acts = n
  BY <1>1 DEF IsTargetPage, SameTold
<1> QED
  BY <1>2 DEF none, n

\* The act of some lane has begun.
Acted(v, u, lane) ==
  /\ IsTargetPage(v) /\ SameTold(v, u) /\ v.target = u.target
  /\ v.alone \subseteq {lane} /\ (u.saving => v.alone = {})
  /\ v.failed = {} /\ v.acts = u.acts + 1

LEMMA ActAloneIs ==
  ASSUME NEW u, IsTargetPage(u), NEW lane, NEW v, v = Target!ActAlone(u, lane)
  PROVE  /\ Acted(v, u, lane) /\ v.error = u.error /\ v.versions = u.versions
         /\ v.saving = u.saving /\ v.versioning = u.versioning /\ v.calls = u.calls
<1> DEFINE a == IF u.saving \/ u.versioning THEN {} ELSE {lane}
<1>1. PICK x : x = Target!Act(u)
  OBVIOUS
<1>2. /\ IsTargetPage(x) /\ SameTold(x, u)
      /\ x.target = u.target /\ x.error = u.error /\ x.versions = u.versions
      /\ x.saving = u.saving /\ x.versioning = u.versioning /\ x.calls = u.calls
      /\ x.alone = {} /\ x.failed = {} /\ x.acts = u.acts + 1
  BY <1>1, ActIs
<1>3. v = [x EXCEPT !.alone = a]
  BY <1>1 DEF Target!ActAlone
<1>4. a \subseteq {lane} /\ (u.saving => a = {})
  OBVIOUS
<1> HIDE DEF a
<1>5. /\ IsTargetPage(v) /\ SameTold(v, x)
      /\ v.target = x.target /\ v.error = x.error /\ v.versions = x.versions
      /\ v.saving = x.saving /\ v.versioning = x.versioning /\ v.calls = x.calls
      /\ v.alone = a /\ v.failed = x.failed /\ v.acts = x.acts
  BY <1>2, <1>3 DEF IsTargetPage, SameTold
<1> QED
  BY <1>2, <1>4, <1>5 DEF Acted, SameTold

(* A change of the target is asked for.                                    *)
LEMMA SaveSent ==
  ASSUME NEW updates \in Nat, NEW count \in Nat, NEW more \in Nat,
         NEW p, TargetInv(p, updates, count, more), p.target # None, ~p.saving,
         NEW lane, lane \in {"save", "deactivate"}, NEW arg, arg.by = "user",
         lane = "save" => arg = Target!Arg(1, "user"), Reaches(arg.page, count),
         NEW v, Acted(v, p, lane), v.versions = p.versions, v.saving,
         v.versioning = p.versioning, v.calls = Sent(p.calls, lane, arg),
         v.error = p.error \/ (v.error = None /\ lane = "save")
  PROVE  TargetInv(v, updates, count, more)
<1> DEFINE new == Call(lane, arg)
           k == Sent(p.calls, lane, arg)
<1>1. /\ TargetBase(p, updates, count, more) /\ AreCalls(p.calls)
      /\ p.toldConfig \in Nat /\ p.toldVersions \in Nat /\ p.acts \in Nat
  BY DEF TargetInv, TargetBase, TargetCalls, TargetTypes
<1>2. IsCall(new) /\ new.lane = lane /\ new.arg = arg /\ new.reply = Waiting /\ new.live
  BY CallFields
<1>3. v.calls = k
  OBVIOUS
<1>4. lane # "target" /\ lane # "versions" /\ lane # "snapshot"
  OBVIOUS
<1> HIDE DEF new, k
<1>5. TargetCall(new, updates, count, p.toldConfig, p.toldVersions)
  BY <1>2 DEF TargetCall, Target!Lane
<1>6. TargetCalls(k, updates, count, p.toldConfig, p.toldVersions)
  BY <1>1, <1>4, <1>5, TargetCallsSent DEF TargetBase, k, new
<1>7. NoneHolds(p.calls, SaveLanes, SaveLoads)
  BY <1>1 DEF TargetBase, TargetTokens
<1>8. TargetTokens(v)
  <2>1. ~Holds(new, MakeLanes, MakeLoads) /\ ~Holds(new, {}, FirstLoads)
    BY <1>2 DEF Holds, MakeLanes, MakeLoads, FirstLoads
  <2>2. v.target = p.target /\ v.target # None /\ <<lane, arg.by>> # <<"target", "retry">>
    BY <1>4 DEF Acted
  <2>3. p.saving => v.saving
    OBVIOUS
  <2>4. p.versioning => v.versioning
    OBVIOUS
  <2>5. TargetTokens(p)
    BY <1>1 DEF TargetBase
  <2> QED
    BY <1>1, <1>7, <2>1, <2>2, <2>3, <2>4, <2>5, TokensSent DEF new
<1>9. TargetSignals(v) /\ TargetTypes(v, updates, count)
  BY <1>1, <1>4 DEF TargetBase, TargetSignals, TargetTypes, Acted, SameTold
<1>10. updates + Saves(k) <= 1 + v.acts + more
  <2>1. \A c \in p.calls : c.lane = "save" => ~c.live
    BY <1>7 DEF NoneHolds, Holds, SaveLanes
  <2>2. Saves(k) <= Saves(p.calls) + 1
    BY <1>1, <2>1, SentSaves DEF k
  <2>3. Saves(k) \in Nat /\ Saves(p.calls) \in Nat
    BY SavesType
  <2>4. updates + Saves(p.calls) <= 1 + p.acts + more /\ v.acts = p.acts + 1
    BY <1>1 DEF TargetBase, Acted
  <2> QED
    BY <1>1, <2>2, <2>3, <2>4
<1>11. TargetBase(v, updates, count, more)
  BY <1>3, <1>6, <1>8, <1>9, <1>10 DEF TargetBase, Acted, SameTold
<1>12. \A l : l # lane /\ Pending(p.calls, l) => Pending(k, l)
  <2>1. \A c \in p.calls : c.lane # lane => c \in k
    BY <1>1, SentCalls DEF k
  <2> QED
    BY <2>1 DEF Pending
<1>13. Pending(k, lane)
  <2>1. new \in k
    BY <1>1, SentCalls DEF k, new
  <2> QED
    BY <1>2, <2>1 DEF Pending
<1>14. VersionsListed(v)
  BY <1>3, <1>4, <1>12 DEF TargetInv, VersionsListed, Acted, SameTold
<1>15. TargetShown(v)
  BY <1>3, <1>12, <1>13 DEF TargetInv, TargetShown, Acted, SameTold
<1> QED
  BY <1>11, <1>14, <1>15 DEF TargetInv

(* A version is asked for.                                                 *)
LEMMA SnapshotSent ==
  ASSUME NEW updates \in Nat, NEW count \in Nat, NEW more \in Nat,
         NEW p, TargetInv(p, updates, count, more), p.target # None, ~p.versioning,
         NEW arg, arg.by = "user",
         NEW v, Acted(v, p, "snapshot"), v.versions.page = p.versions.page,
         v.versions.total = p.versions.total, v.error = p.error,
         v.saving = p.saving, v.versioning, v.calls = Sent(p.calls, "snapshot", arg)
  PROVE  TargetInv(v, updates, count, more)
<1> DEFINE new == Call("snapshot", arg)
           k == Sent(p.calls, "snapshot", arg)
<1>1. /\ TargetBase(p, updates, count, more) /\ AreCalls(p.calls)
      /\ p.toldConfig \in Nat /\ p.toldVersions \in Nat /\ p.acts \in Nat
  BY DEF TargetInv, TargetBase, TargetCalls, TargetTypes
<1>2. IsCall(new) /\ new.lane = "snapshot" /\ new.arg = arg /\ new.reply = Waiting /\ new.live
  BY CallFields
<1>3. v.calls = k
  OBVIOUS
<1> HIDE DEF new, k
<1>4. TargetCall(new, updates, count, p.toldConfig, p.toldVersions)
  BY <1>2 DEF TargetCall, Target!Lane
<1>5. TargetCalls(k, updates, count, p.toldConfig, p.toldVersions)
  BY <1>1, <1>4, TargetCallsSent DEF TargetBase, k, new
<1>6. NoneHolds(p.calls, MakeLanes, MakeLoads)
  BY <1>1 DEF TargetBase, TargetTokens
<1>7. TargetTokens(v)
  <2>1. ~Holds(new, SaveLanes, SaveLoads) /\ ~Holds(new, {}, FirstLoads)
    BY <1>2 DEF Holds, SaveLanes, SaveLoads, FirstLoads
  <2>2. v.target = p.target /\ v.target # None /\ <<"snapshot", arg.by>> # <<"target", "retry">>
    BY DEF Acted
  <2>3. p.saving => v.saving
    OBVIOUS
  <2>4. p.versioning => v.versioning
    OBVIOUS
  <2>5. TargetTokens(p)
    BY <1>1 DEF TargetBase
  <2> QED
    BY <1>1, <1>6, <2>1, <2>2, <2>3, <2>4, <2>5, TokensSent DEF new
<1>8. TargetSignals(v) /\ TargetTypes(v, updates, count)
  BY <1>1 DEF TargetBase, TargetSignals, TargetTypes, Acted, SameTold
<1>9. updates + Saves(k) <= 1 + v.acts + more
  <2>1. updates + Saves(k) <= 1 + p.acts + more
    BY <1>1, BoundSent DEF TargetBase, k
  <2>2. Saves(k) \in Nat
    BY SavesType
  <2> QED
    BY <1>1, <2>1, <2>2 DEF Acted
<1>10. TargetBase(v, updates, count, more)
  BY <1>3, <1>5, <1>7, <1>8, <1>9 DEF TargetBase, Acted, SameTold
<1>11. \A l : l # "snapshot" /\ Pending(p.calls, l) => Pending(k, l)
  <2>1. \A c \in p.calls : c.lane # "snapshot" => c \in k
    BY <1>1, SentCalls DEF k
  <2> QED
    BY <2>1 DEF Pending
<1>12. Pending(k, "snapshot")
  <2>1. new \in k
    BY <1>1, SentCalls DEF k, new
  <2> QED
    BY <1>2, <2>1 DEF Pending
<1>13. VersionsListed(v)
  BY <1>3, <1>12 DEF VersionsListed
<1>14. TargetShown(v)
  BY <1>3, <1>11 DEF TargetInv, TargetShown, Acted, SameTold
<1> QED
  BY <1>10, <1>13, <1>14 DEF TargetInv

(* Another page of the list, or the same once more.                        *)
LEMMA PageTurned ==
  ASSUME NEW updates \in Nat, NEW count \in Nat, NEW more \in Nat,
         NEW p, TargetInv(p, updates, count, more), NEW n, Reaches(n, count),
         NEW by, by \in {"turn", "retry"}, NEW v, v = Target!LoadVersions(Target!Act(p), n, by)
  PROVE  TargetInv(v, updates, count, more)
<1>1. PICK u : u = Target!Act(p)
  OBVIOUS
<1>2. TargetBase(p, updates, count, more) /\ IsTargetPage(p)
  BY DEF TargetInv, TargetBase
<1>3. /\ IsTargetPage(u) /\ SameTold(u, p)
      /\ u.target = p.target /\ u.error = p.error /\ u.versions = p.versions
      /\ u.saving = p.saving /\ u.versioning = p.versioning /\ u.calls = p.calls
      /\ u.alone = {} /\ u.failed = {} /\ u.acts = p.acts + 1
  BY <1>1, <1>2, ActIs
<1>4. p.acts \in Nat /\ p.toldVersions \in Nat
  BY <1>2 DEF TargetBase, TargetTypes
<1>5. updates + Saves(u.calls) <= 1 + u.acts + more
  <2>1. Saves(u.calls) \in Nat
    BY SavesType
  <2> QED
    BY <1>2, <1>3, <1>4, <2>1 DEF TargetBase
<1>6. TargetTokens(u) /\ TargetTypes(u, updates, count)
  BY <1>2, <1>3, <1>4 DEF TargetBase, TargetTokens, TargetTypes, SameTold
<1>7. Loadable(u, updates, count, more, u.toldConfig, u.toldVersions)
  BY <1>2, <1>3, <1>5, <1>6 DEF Loadable, TargetBase, SameTold
<1>8. TargetSignals(u) /\ "snapshot" \notin u.failed
  BY <1>3 DEF TargetSignals
<1>9. TargetShown(u)
  BY <1>3 DEF TargetInv, TargetShown, SameTold
<1>10. u.toldVersions \in Nat /\ v = Target!LoadVersions(u, n, by)
  BY <1>1, <1>3, <1>4 DEF SameTold
<1>11. by # "deactivate" /\ by # "snapshot"
  OBVIOUS
<1> QED
  BY <1>7, <1>8, <1>9, <1>10, <1>11, LoadVersionsInv

(* The target is read again after it could not be shown.                   *)
LEMMA TargetRetried ==
  ASSUME NEW updates \in Nat, NEW count \in Nat, NEW more \in Nat,
         NEW p, TargetInv(p, updates, count, more), p.target = None, p.error # None,
         \A c \in p.calls : c.arg.by # "effect", NEW v, v = Target!LoadTarget(p, 1, "retry")
  PROVE  TargetInv(v, updates, count, more)
<1>1. TargetBase(p, updates, count, more) /\ VersionsListed(p)
  BY DEF TargetInv
<1>2. NoneHolds(p.calls, SaveLanes, SaveLoads)
  BY <1>1 DEF TargetBase, TargetTokens
<1>3. NoneHolds(p.calls, {}, FirstLoads)
  <2>1. \A c \in p.calls : <<c.lane, c.arg.by>> # <<"target", "retry">>
    BY <1>1 DEF TargetBase, TargetTokens
  <2> QED
    BY <2>1 DEF NoneHolds, Holds, FirstLoads
<1>4. \A c \in p.calls : c.lane # "target"
  BY <1>1, <1>2, <1>3, NoTargetCall DEF TargetBase
<1>5. Loadable(p, updates, count, more, p.toldConfig, p.toldVersions) /\ p.toldConfig \in Nat
  BY <1>1 DEF TargetBase, Loadable, TargetTypes
<1>6. TargetSignals(p) /\ p.failed \cap {"save", "deactivate"} = {}
  BY <1>1 DEF TargetBase, TargetTokens
<1>7. Reaches(1, count)
  BY <1>1, ReachesOne DEF TargetBase, TargetTypes
<1> QED
  BY <1>1, <1>4, <1>5, <1>6, <1>7, LoadTargetInv

-----------------------------------------------------------------------------
(* ---- What its server commits and answers. ----------------------------- *)

\* Of the calls none holds up or awaits what none did.
Keeps(k, calls) ==
  /\ \A lanes, loads : /\ OneHolds(calls, lanes, loads) => OneHolds(k, lanes, loads)
                       /\ NoneHolds(calls, lanes, loads) => NoneHolds(k, lanes, loads)
  /\ \A d \in k : \E e \in calls : d.lane = e.lane /\ d.arg = e.arg
  /\ \A l : Pending(calls, l) => Pending(k, l)

\* What is committed only grows, by no more saves than were asked for.
Grows(updates, count, updates2, count2) ==
  /\ updates \in Nat /\ updates2 \in Nat /\ updates <= updates2
  /\ count \in Nat /\ count2 \in Nat /\ count <= count2
Bounded(updates, calls, acts, more) == updates + Saves(calls) <= 1 + acts + more

\* Of the page only the calls are others.
OnlyCalls(v, u) ==
  /\ IsTargetPage(v) /\ SameHistory(v, u)
  /\ v.target = u.target /\ v.error = u.error /\ v.versions = u.versions
  /\ v.saving = u.saving /\ v.versioning = u.versioning

(* The server commits, and answers: of the page only its calls change.     *)
LEMMA CommittedInv ==
  ASSUME NEW updates, NEW count, NEW more, NEW updates2, NEW count2, NEW more2,
         Grows(updates, count, updates2, count2), NEW p, TargetInv(p, updates, count, more),
         NEW v, OnlyCalls(v, p),
         TargetCalls(v.calls, updates2, count2, p.toldConfig, p.toldVersions),
         Keeps(v.calls, p.calls),
         Bounded(updates2, v.calls, p.acts, more2)
  PROVE  TargetInv(v, updates2, count2, more2)
<1>1. TargetBase(p, updates, count, more)
  BY DEF TargetInv
<1>2. /\ updates \in Nat /\ updates2 \in Nat /\ updates <= updates2
      /\ count \in Nat /\ count2 \in Nat /\ count <= count2
  BY DEF Grows
<1>3. /\ IsTargetPage(v) /\ SameHistory(v, p)
      /\ v.target = p.target /\ v.error = p.error /\ v.versions = p.versions
      /\ v.saving = p.saving /\ v.versioning = p.versioning
  BY DEF OnlyCalls
<1>4. TargetTokens(v)
  <2>1. TargetTokens(p)
    BY <1>1 DEF TargetBase
  <2>2. (\A c \in v.calls : <<c.lane, c.arg.by>> # <<"target", "retry">>) \/ v.error = None
    BY <1>3, <2>1 DEF TargetTokens, Keeps
  <2>3. /\ OneHolds(v.calls, SaveLanes, SaveLoads)
        /\ NoneHolds(v.calls, SaveLanes, SaveLoads) \/ (v.saving /\ v.target # None)
    BY <1>3, <2>1 DEF TargetTokens, Keeps
  <2>4. /\ OneHolds(v.calls, MakeLanes, MakeLoads)
        /\ NoneHolds(v.calls, MakeLanes, MakeLoads) \/ (v.versioning /\ v.target # None)
    BY <1>3, <2>1 DEF TargetTokens, Keeps
  <2>5. /\ OneHolds(v.calls, {}, FirstLoads)
        /\ NoneHolds(v.calls, {}, FirstLoads) \/ v.target = None
    BY <1>3, <2>1 DEF TargetTokens, Keeps
  <2>6. v.target = None => v.toldConfig = 0 /\ v.failed = {} /\ v.alone = {}
    BY <1>3, <2>1 DEF TargetTokens, SameHistory, SameTold
  <2> QED
    BY <2>2, <2>3, <2>4, <2>5, <2>6 DEF TargetTokens
<1>5. TargetSignals(v)
  BY <1>1, <1>3 DEF TargetBase, TargetSignals, SameHistory
<1>6. TargetTypes(v, updates2, count2)
  <2>1. 0..updates \subseteq 0..updates2 /\ 0..count \subseteq 0..count2
    BY <1>2
  <2>2. TargetTypes(p, updates, count)
    BY <1>1 DEF TargetBase
  <2>3. Reaches(v.versions.page, count2)
    BY <1>3, <1>2, <2>2, ReachesMore DEF TargetTypes
  <2> QED
    BY <1>3, <2>1, <2>2, <2>3 DEF TargetTypes, SameHistory, SameTold
<1>7. TargetBase(v, updates2, count2, more2)
  BY <1>4, <1>5, <1>6, <1>3 DEF Bounded, TargetBase, SameHistory, SameTold
<1>8. VersionsListed(v) /\ TargetShown(v)
  BY <1>3 DEF TargetInv, VersionsListed, TargetShown, SameHistory, SameTold, Keeps
<1> QED
  BY <1>7, <1>8 DEF TargetInv

LEMMA RepliedInv ==
  ASSUME NEW updates \in Nat, NEW count \in Nat, NEW more \in Nat,
         NEW updates2 \in Nat, NEW count2 \in Nat, updates <= updates2, count <= count2,
         NEW p, TargetInv(p, updates, count, more), NEW c \in p.calls, c.reply = Waiting,
         updates2 = updates \/ (updates2 = updates + 1 /\ c.lane = "save"),
         NEW answer,
         \A d : IsCall(d) /\ ServedBy(d, c, answer)
                  => TargetCall(d, updates2, count2, p.toldConfig, p.toldVersions),
         NEW k, k = Served(p.calls, c, answer) \/ (~c.live /\ k = Ended(p.calls, c)),
         NEW v, v = [p EXCEPT !.calls = k]
  PROVE  TargetInv(v, updates2, count2, more)
<1>1. /\ TargetBase(p, updates, count, more) /\ IsTargetPage(p)
      /\ TargetCalls(p.calls, updates, count, p.toldConfig, p.toldVersions)
      /\ p.toldConfig \in Nat /\ p.toldVersions \in Nat /\ p.acts \in Nat
  BY DEF TargetInv, TargetBase, TargetTypes
<1>2. AreCalls(p.calls) /\ OneLive(p.calls)
  BY <1>1 DEF TargetCalls
<1>3. /\ IsTargetPage(v) /\ SameHistory(v, p)
      /\ v.target = p.target /\ v.error = p.error /\ v.versions = p.versions
      /\ v.saving = p.saving /\ v.versioning = p.versioning /\ v.calls = k
  BY <1>1, CallsFields
<1>4. TargetCalls(p.calls, updates2, count2, p.toldConfig, p.toldVersions)
  BY <1>1, TargetCallsGrow
<1>5. /\ TargetCalls(k, updates2, count2, p.toldConfig, p.toldVersions) /\ Keeps(k, p.calls)
      /\ \A d \in k : (d \in p.calls /\ d # c) \/ d.reply # Waiting
  <2>1. CASE k = Served(p.calls, c, answer)
    <3>1. TargetCalls(k, updates2, count2, p.toldConfig, p.toldVersions)
      BY <1>1, <1>4, <2>1, TargetCallsServed
    <3>2. \A lanes, loads : /\ OneHolds(p.calls, lanes, loads) => OneHolds(k, lanes, loads)
                            /\ NoneHolds(p.calls, lanes, loads) => NoneHolds(k, lanes, loads)
      BY <1>2, <2>1, ServedHolds
    <3>3. /\ \A d \in k : (d \in p.calls /\ d # c) \/ ServedBy(d, c, answer)
          /\ \E d \in k : ServedBy(d, c, answer)
          /\ \A d \in p.calls : d # c => d \in k
      BY <1>2, <2>1, ServedFacts
    <3>4. \A d \in k : \E e \in p.calls : d.lane = e.lane /\ d.arg = e.arg
      BY <3>3 DEF ServedBy
    <3>5. \A l : Pending(p.calls, l) => Pending(k, l)
      BY <3>3 DEF ServedBy, Pending
    <3>6. \A d \in k : (d \in p.calls /\ d # c) \/ d.reply # Waiting
      <4>1. <<answer>> # Waiting
        BY DEF Waiting
      <4> QED
        BY <3>3, <4>1 DEF ServedBy
    <3> QED
      BY <3>1, <3>2, <3>4, <3>5, <3>6 DEF Keeps
  <2>2. CASE ~c.live /\ k = Ended(p.calls, c)
    <3>1. k = p.calls \ {c}
      BY <2>2 DEF Ended
    <3>2. TargetCalls(k, updates2, count2, p.toldConfig, p.toldVersions)
      BY <1>1, <1>4, <2>2, TargetCallsEnded
    <3> QED
      BY <2>2, <3>1, <3>2 DEF Keeps, OneHolds, NoneHolds, Pending
  <2> QED
    BY <2>1, <2>2
<1>6. updates2 + Saves(k) <= 1 + p.acts + more
  <2>1. Saves(k) \in Nat /\ Saves(p.calls) \in Nat
    BY SavesType
  <2>2. Saves(k) <= Saves(p.calls)
    BY <1>2, <1>5, SeenSaves
  <2>3. ASSUME c.lane = "save" PROVE Saves(k) + 1 <= Saves(p.calls)
    <3>1. Unserved(c)
      BY <2>3 DEF Unserved
    <3>2. \A d \in p.calls : Unserved(d) => d.arg = c.arg
      BY <1>1, <2>3 DEF TargetCalls, TargetCall, Unserved
    <3> QED
      BY <1>2, <1>5, <3>1, <3>2, SeenSaves
  <2>4. updates + Saves(p.calls) <= 1 + p.acts + more
    BY <1>1 DEF TargetBase
  <2> QED
    BY <1>1, <2>1, <2>2, <2>3, <2>4
<1>7. OnlyCalls(v, p)
  BY <1>3 DEF OnlyCalls
<1>8. /\ TargetCalls(v.calls, updates2, count2, p.toldConfig, p.toldVersions)
      /\ Keeps(v.calls, p.calls) /\ Bounded(updates2, v.calls, p.acts, more)
  BY <1>3, <1>5, <1>6 DEF Bounded
<1>9. Grows(updates, count, updates2, count2)
  BY DEF Grows
<1> QED
  BY <1>7, <1>8, <1>9, CommittedInv

LEMMA ElsewhereInv ==
  ASSUME NEW updates \in Nat, NEW count \in Nat, NEW more \in Nat,
         NEW updates2 \in Nat, NEW count2 \in Nat, NEW p, TargetInv(p, updates, count, more),
         updates <= updates2, updates2 <= updates + 1, count <= count2
  PROVE  TargetInv(p, updates2, count2, more + 1)
<1>1. /\ IsTargetPage(p) /\ p.toldConfig \in Nat /\ p.toldVersions \in Nat
      /\ TargetCalls(p.calls, updates, count, p.toldConfig, p.toldVersions)
      /\ p.acts \in Nat /\ updates + Saves(p.calls) <= 1 + p.acts + more
  BY DEF TargetInv, TargetBase, TargetTypes
<1>2. TargetCalls(p.calls, updates2, count2, p.toldConfig, p.toldVersions)
  BY <1>1, TargetCallsGrow
<1>3. Bounded(updates2, p.calls, p.acts, more + 1)
  <2>1. Saves(p.calls) \in Nat
    BY SavesType
  <2> QED
    BY <1>1, <2>1 DEF Bounded
<1>4. OnlyCalls(p, p) /\ Keeps(p.calls, p.calls)
  BY <1>1 DEF OnlyCalls, SameHistory, SameTold, Keeps
<1>5. Grows(updates, count, updates2, count2)
  BY DEF Grows
<1> QED
  BY <1>1, <1>2, <1>3, <1>4, <1>5, CommittedInv

-----------------------------------------------------------------------------
(* ---- The page with its server. ---------------------------------------- *)

(* What the server answers to each call of the page.                       *)
LEMMA ReadAnswered ==
  ASSUME NEW updates \in Nat, NEW count \in Nat, NEW toldConfig \in 0..updates,
         NEW toldVersions \in 0..count, NEW active \in BOOLEAN,
         NEW c, TargetCall(c, updates, count, toldConfig, toldVersions),
         c.lane \in {"target", "versions"},
         NEW answer, answer = Answered(IF c.lane = "target" THEN Target!Seen(updates, active)
                                       ELSE Target!Seen(count, TRUE)),
         NEW d, IsCall(d), ServedBy(d, c, answer)
  PROVE  TargetCall(d, updates, count, toldConfig, toldVersions)
<1>1. d.lane = c.lane /\ d.arg = c.arg /\ d.reply = <<answer>> /\ d.live = c.live
  BY DEF ServedBy
<1>2. d.lane \in Target!Lane /\ Reaches(d.arg.page, count)
  BY <1>1 DEF TargetCall
<1>3. d.lane = "target" => TargetLoad(d, updates, toldConfig)
  <2>1. updates \in toldConfig..updates
    OBVIOUS
  <2> QED
    BY <1>1, <2>1 DEF TargetCall, TargetLoad
<1>4. d.lane = "versions" => VersionsLoad(d, count, toldVersions)
  <2>1. count \in 0..count /\ count >= toldVersions
    OBVIOUS
  <2> QED
    BY <1>1, <1>2, <2>1 DEF VersionsLoad
<1>5. d.lane \notin {"save", "deactivate", "snapshot"}
  BY <1>1
<1> QED
  BY <1>1, <1>2, <1>3, <1>4, <1>5 DEF TargetCall

LEMMA SaveAnswered ==
  ASSUME NEW updates \in Nat, NEW count \in Nat, NEW toldConfig, NEW toldVersions,
         NEW c, TargetCall(c, updates, count, toldConfig, toldVersions), c.lane = "save",
         NEW updates2 \in Nat, NEW answer,
         <<answer>> \in Refusal \/ answer = Answered(Target!Seen(updates2, TRUE)),
         NEW d, IsCall(d), ServedBy(d, c, answer)
  PROVE  TargetCall(d, updates2, count, toldConfig, toldVersions)
<1>1. d.lane = c.lane /\ d.arg = c.arg /\ d.reply = <<answer>> /\ d.live = c.live
  BY DEF ServedBy
<1>2. updates2 \in 0..updates2
  OBVIOUS
<1> QED
  BY <1>1, <1>2 DEF TargetCall, Told

LEMMA DeactivateAnswered ==
  ASSUME NEW updates \in Nat, NEW count \in Nat, NEW toldConfig, NEW toldVersions,
         NEW c, TargetCall(c, updates, count, toldConfig, toldVersions), c.lane = "deactivate",
         NEW answer, <<answer>> \in Refusal \/ answer = Answered(Target!Seen(updates, FALSE)),
         NEW d, IsCall(d), ServedBy(d, c, answer)
  PROVE  TargetCall(d, updates, count, toldConfig, toldVersions)
<1>1. d.lane = c.lane /\ d.arg = c.arg /\ d.reply = <<answer>> /\ d.live = c.live
  BY DEF ServedBy
<1>2. updates \in 0..updates
  OBVIOUS
<1> QED
  BY <1>1, <1>2 DEF TargetCall

LEMMA SnapshotAnswered ==
  ASSUME NEW updates \in Nat, NEW count \in Nat, NEW toldConfig, NEW toldVersions,
         NEW c, TargetCall(c, updates, count, toldConfig, toldVersions), c.lane = "snapshot",
         NEW count2 \in Nat, NEW answer,
         <<answer>> \in Refusal \/ answer = Answered(Target!Seen(count2, TRUE)),
         NEW d, IsCall(d), ServedBy(d, c, answer)
  PROVE  TargetCall(d, updates, count2, toldConfig, toldVersions)
<1>1. d.lane = c.lane /\ d.arg = c.arg /\ d.reply = <<answer>> /\ d.live = c.live
  BY DEF ServedBy
<1>2. count2 \in 0..count2
  OBVIOUS
<1> QED
  BY <1>1, <1>2 DEF TargetCall, Told

LEMMA Refusals ==
  /\ <<Target!Inactive>> \in Refusal /\ <<Target!DuplicateName>> \in Refusal
  /\ <<Target!DuplicateVersion>> \in Refusal
  BY DEF Refusal
-----------------------------------------------------------------------------
TargetSide ==
  /\ targetActive \in BOOLEAN /\ config \in Nat /\ others \in Nat
  /\ captured \in Seq(Nat) /\ \A i \in 1..Len(captured) : captured[i] <= config
  /\ TargetInv(targetPage, config, Len(captured), others)
  /\ targetPage.acts + others <= MaxTargetActs

LEMMA TargetReplies ==
  ASSUME NEW c, NEW answer, Target!Reply(c, answer)
  PROVE  /\ c.live => targetPage' = [targetPage EXCEPT !.calls = Served(targetPage.calls, c, answer)]
         /\ ~c.live => targetPage' = [targetPage EXCEPT !.calls = Ended(targetPage.calls, c)]
  BY TargetRequests DEF Target!Reply

TargetAnswer(c, answer) ==
  targetPage' = [targetPage EXCEPT !.calls = Served(targetPage.calls, c, answer)]

(* One step of a server for one call, given what it commits and answers.   *)
LEMMA TargetServed ==
  ASSUME TargetSide, NEW updates \in Nat, NEW count \in Nat,
         updates = config \/ updates = config + 1, Len(captured) <= count,
         NEW c \in targetPage.calls, c.reply = Waiting, updates = config \/ c.lane = "save",
         NEW answer,
         \A d : IsCall(d) /\ ServedBy(d, c, answer)
                  => TargetCall(d, updates, count, targetPage.toldConfig, targetPage.toldVersions),
         TargetAnswer(c, answer) \/ Target!Reply(c, answer)
  PROVE  TargetInv(targetPage', updates, count, others) /\ targetPage'.acts = targetPage.acts
<1>1. /\ config \in Nat /\ others \in Nat /\ Len(captured) \in Nat
      /\ TargetInv(targetPage, config, Len(captured), others)
  BY DEF TargetSide
<1>2. c.live \in BOOLEAN /\ IsTargetPage(targetPage)
  BY <1>1 DEF TargetInv, TargetBase, TargetCalls, AreCalls, IsCall
<1>3. PICK k : /\ k = Served(targetPage.calls, c, answer)
                    \/ (~c.live /\ k = Ended(targetPage.calls, c))
               /\ targetPage' = [targetPage EXCEPT !.calls = k]
  BY <1>2, TargetReplies DEF TargetAnswer
<1>4. PICK n : n = Len(captured) /\ n \in Nat
  BY <1>1
<1>5. updates = config \/ (updates = config + 1 /\ c.lane = "save")
  OBVIOUS
<1>6. config <= updates /\ n <= count
  BY <1>1, <1>4
<1>7. TargetInv(targetPage, config, n, others)
  BY <1>1, <1>4
<1>8. PICK v : v = targetPage' /\ v = [targetPage EXCEPT !.calls = k]
  BY <1>3
<1>9. TargetInv(v, updates, count, others)
  BY <1>1, <1>3, <1>4, <1>5, <1>6, <1>7, <1>8, RepliedInv
<1>10. SameHistory(v, targetPage)
  BY <1>2, <1>8, CallsFields
<1> QED
  BY <1>8, <1>9, <1>10 DEF SameHistory

-----------------------------------------------------------------------------
(* ---- Every step of the server. ---------------------------------------- *)

LEMMA TargetSideFacts ==
  ASSUME TargetSide
  PROVE  /\ config \in Nat /\ others \in Nat /\ Len(captured) \in Nat
         /\ TargetInv(targetPage, config, Len(captured), others)
         /\ targetPage.acts \in Nat /\ targetPage.toldConfig \in 0..config
         /\ targetPage.toldVersions \in 0..Len(captured)
         /\ \A c \in targetPage.calls : TargetCall(c, config, Len(captured),
                targetPage.toldConfig, targetPage.toldVersions)
  BY DEF TargetSide, TargetInv, TargetBase, TargetTypes, TargetCalls

LEMMA AppendIs ==
  ASSUME captured \in Seq(Nat), config \in Nat, \A i \in 1..Len(captured) : captured[i] <= config,
         NEW seq, seq = Append(captured, config)
  PROVE  /\ seq \in Seq(Nat) /\ Len(seq) = Len(captured) + 1
         /\ \A i \in 1..Len(seq) : seq[i] <= config
  OBVIOUS

LEMMA ServeReadSide ==
  ASSUME TargetSide, NEW c \in targetPage.calls, Target!ServeRead(c)
  PROVE  TargetSide'
<1>1. PICK n : n = Len(captured)
  OBVIOUS
<1>2. /\ config \in Nat /\ others \in Nat /\ n \in Nat
      /\ targetPage.toldConfig \in 0..config /\ targetPage.toldVersions \in 0..n
      /\ TargetCall(c, config, n, targetPage.toldConfig, targetPage.toldVersions)
  BY <1>1, TargetSideFacts
<1> DEFINE answer == Answered(IF c.lane = "target" THEN Target!Seen(config, targetActive)
                              ELSE Target!Seen(n, TRUE))
<1>3. /\ c.lane \in {"target", "versions"} /\ c.reply = Waiting
      /\ TargetAnswer(c, answer)
      /\ targetActive' = targetActive /\ config' = config /\ captured' = captured
      /\ others' = others
  BY <1>1, TargetRequests, TargetAnswers DEF Target!ServeRead, TargetAnswer
<1> HIDE DEF answer
<1>4. \A d : IsCall(d) /\ ServedBy(d, c, answer)
               => TargetCall(d, config, n, targetPage.toldConfig, targetPage.toldVersions)
  BY <1>2, <1>3, ReadAnswered DEF answer, TargetSide
<1>5. TargetInv(targetPage', config, n, others) /\ targetPage'.acts = targetPage.acts
  BY <1>1, <1>2, <1>3, <1>4, TargetServed
<1> QED
  BY <1>1, <1>3, <1>5 DEF TargetSide

LEMMA ServeSaveSide ==
  ASSUME TargetSide, NEW c \in targetPage.calls, Target!ServeSave(c)
  PROVE  TargetSide'
<1>1. PICK n : n = Len(captured)
  OBVIOUS
<1>2. /\ config \in Nat /\ others \in Nat /\ n \in Nat
      /\ TargetCall(c, config, n, targetPage.toldConfig, targetPage.toldVersions)
  BY <1>1, TargetSideFacts
<1>3. /\ c.lane = "save" /\ c.reply = Waiting
      /\ targetActive' = targetActive /\ captured' = captured /\ others' = others
  BY TargetRequests DEF Target!ServeSave
<1>4. PICK answer :
        /\ Target!Reply(c, answer)
        /\ \/ config' = config /\ <<answer>> \in Refusal
           \/ config' = config + 1 /\ answer = Answered(Target!Seen(config + 1, TRUE))
  BY TargetAnswers, Refusals DEF Target!ServeSave
<1>5. config' = config \/ config' = config + 1
  BY <1>4
<1>6. PICK m \in Nat : m = config' /\ (m = config \/ m = config + 1)
  BY <1>2, <1>5
<1>7. \A d : IsCall(d) /\ ServedBy(d, c, answer)
               => TargetCall(d, m, n, targetPage.toldConfig, targetPage.toldVersions)
  <2>1. <<answer>> \in Refusal \/ answer = Answered(Target!Seen(m, TRUE))
    BY <1>4, <1>6
  <2> QED
    BY <1>2, <1>3, <2>1, SaveAnswered
<1>8. TargetInv(targetPage', m, n, others) /\ targetPage'.acts = targetPage.acts
  BY <1>1, <1>2, <1>3, <1>4, <1>6, <1>7, TargetServed
<1> QED
  BY <1>1, <1>2, <1>3, <1>6, <1>8 DEF TargetSide

LEMMA ServeDeactivateSide ==
  ASSUME TargetSide, NEW c \in targetPage.calls, Target!ServeDeactivate(c)
  PROVE  TargetSide'
<1>1. PICK n : n = Len(captured)
  OBVIOUS
<1>2. /\ config \in Nat /\ others \in Nat /\ n \in Nat
      /\ TargetCall(c, config, n, targetPage.toldConfig, targetPage.toldVersions)
  BY <1>1, TargetSideFacts
<1>3. /\ c.lane = "deactivate" /\ c.reply = Waiting /\ targetActive' = FALSE
      /\ config' = config /\ captured' = captured /\ others' = others
  BY TargetRequests DEF Target!ServeDeactivate
<1>4. PICK answer :
        /\ Target!Reply(c, answer)
        /\ <<answer>> \in Refusal \/ answer = Answered(Target!Seen(config, FALSE))
  BY TargetAnswers, Refusals DEF Target!ServeDeactivate
<1>5. \A d : IsCall(d) /\ ServedBy(d, c, answer)
               => TargetCall(d, config, n, targetPage.toldConfig, targetPage.toldVersions)
  BY <1>2, <1>3, <1>4, DeactivateAnswered
<1>6. TargetInv(targetPage', config, n, others) /\ targetPage'.acts = targetPage.acts
  BY <1>1, <1>2, <1>3, <1>4, <1>5, TargetServed
<1> QED
  BY <1>1, <1>3, <1>6 DEF TargetSide

LEMMA ServeSnapshotSide ==
  ASSUME TargetSide, NEW c \in targetPage.calls, Target!ServeSnapshot(c)
  PROVE  TargetSide'
<1>1. PICK n : n = Len(captured)
  OBVIOUS
<1>2. /\ config \in Nat /\ others \in Nat /\ n \in Nat
      /\ TargetCall(c, config, n, targetPage.toldConfig, targetPage.toldVersions)
  BY <1>1, TargetSideFacts
<1>3. /\ c.lane = "snapshot" /\ c.reply = Waiting /\ targetActive' = targetActive
      /\ config' = config /\ others' = others
  BY TargetRequests DEF Target!ServeSnapshot
<1>4. PICK answer :
        /\ Target!Reply(c, answer)
        /\ \/ captured' = captured /\ <<answer>> \in Refusal
           \/ captured' = Append(captured, config) /\ answer = Answered(Target!Seen(n + 1, TRUE))
  BY <1>1, TargetAnswers, Refusals DEF Target!ServeSnapshot
<1>5. captured' = captured \/ captured' = Append(captured, config)
  BY <1>4
<1>6. captured' = Append(captured, config) => Len(captured') = n + 1
  BY <1>1, <1>2 DEF TargetSide
<1>7. PICK m \in Nat : /\ m = Len(captured') /\ (m = n \/ m = n + 1)
                       /\ captured' = Append(captured, config) => m = n + 1
  BY <1>1, <1>2, <1>5, <1>6
<1>8. \A d : IsCall(d) /\ ServedBy(d, c, answer)
               => TargetCall(d, config, m, targetPage.toldConfig, targetPage.toldVersions)
  <2>1. <<answer>> \in Refusal \/ answer = Answered(Target!Seen(m, TRUE))
    <3>1. CASE captured' = captured /\ <<answer>> \in Refusal
      BY <3>1
    <3>2. CASE captured' = Append(captured, config) /\ answer = Answered(Target!Seen(n + 1, TRUE))
      <4>1. m = n + 1
        BY <1>7, <3>2
      <4> QED
        BY <3>2, <4>1
    <3> QED
      BY <1>4, <3>1, <3>2
  <2> QED
    BY <1>2, <1>3, <2>1, SnapshotAnswered
<1>9. TargetInv(targetPage', config, m, others) /\ targetPage'.acts = targetPage.acts
  <2>1. n <= m
    BY <1>2, <1>7
  <2> QED
    BY <1>1, <1>2, <1>3, <1>4, <1>8, <2>1, TargetServed
<1>10. captured' \in Seq(Nat) /\ \A i \in 1..Len(captured') : captured'[i] <= config
  BY <1>4, AppendIs DEF TargetSide
<1> QED
  BY <1>3, <1>7, <1>9, <1>10 DEF TargetSide

LEMMA ElsewhereSide ==
  ASSUME TargetSide, Target!Elsewhere
  PROVE  TargetSide'
<1>1. PICK n : n = Len(captured)
  OBVIOUS
<1>2. /\ config \in Nat /\ others \in Nat /\ n \in Nat /\ targetPage.acts \in Nat
      /\ TargetInv(targetPage, config, n, others)
  BY <1>1, TargetSideFacts
<1>3. /\ targetPage.acts + others < MaxTargetActs /\ others' = others + 1
      /\ targetPage' = targetPage
      /\ \/ targetActive' = FALSE /\ config' = config /\ captured' = captured
         \/ config' = config + 1 /\ targetActive' = targetActive /\ captured' = captured
         \/ /\ captured' = Append(captured, config) /\ targetActive' = targetActive
            /\ config' = config
  BY DEF Target!Elsewhere
<1>4. /\ captured' \in Seq(Nat) /\ Len(captured') \in Nat /\ Len(captured') >= n
      /\ \A i \in 1..Len(captured') : captured'[i] <= config
  <2>1. CASE captured' = captured
    BY <1>1, <1>2, <2>1 DEF TargetSide
  <2>2. CASE captured' = Append(captured, config)
    <3>1. /\ captured' \in Seq(Nat) /\ Len(captured') = n + 1
          /\ \A i \in 1..Len(captured') : captured'[i] <= config
      BY <1>1, <2>2, AppendIs DEF TargetSide
    <3> QED
      BY <1>2, <3>1
  <2> QED
    BY <1>3, <2>1, <2>2
<1>5. PICK l \in Nat, m \in Nat : /\ l = Len(captured') /\ n <= l
                                  /\ m = config' /\ config <= m /\ m <= config + 1
  BY <1>2, <1>3, <1>4
<1>6. TargetInv(targetPage, m, l, others + 1)
  BY <1>2, <1>5, ElsewhereInv
<1>7. \A i \in 1..Len(captured') : captured'[i] <= config'
  <2>1. \A i \in 1..Len(captured') : captured'[i] \in Nat
    BY <1>4
  <2> QED
    BY <1>2, <1>4, <1>5, <2>1
<1>8. others + 1 \in Nat /\ targetPage.acts + (others + 1) <= MaxTargetActs
  BY <1>2, <1>3, BoundsAssumption
<1>9. targetActive' \in BOOLEAN
  BY <1>3 DEF TargetSide
<1> QED
  BY <1>3, <1>4, <1>5, <1>6, <1>7, <1>8, <1>9 DEF TargetSide

-----------------------------------------------------------------------------
(* ---- Every step of the user and every answer. ------------------------- *)

(* What each act of the user makes of the page.                            *)
LEMMA SaveInv ==
  ASSUME NEW updates \in Nat, NEW count \in Nat, NEW more \in Nat,
         TargetInv(targetPage, updates, count, more), Target!save \/ Target!saveEvaluator
  PROVE  TargetInv(targetPage', updates, count, more)
<1> DEFINE arg == Target!Arg(1, "user")
           k == Sent(targetPage.calls, "save", arg)
           yes == TRUE
<1>1. PICK x : x = Target!ActAlone(targetPage, "save")
  OBVIOUS
<1>2. IsTargetPage(targetPage)
  BY DEF TargetInv, TargetBase
<1>3. /\ Acted(x, targetPage, "save") /\ x.error = targetPage.error
      /\ x.versions = targetPage.versions /\ x.saving = targetPage.saving
      /\ x.versioning = targetPage.versioning /\ x.calls = targetPage.calls
  BY <1>1, <1>2, ActAloneIs
<1>4. /\ targetPage.target # None /\ ~targetPage.saving
      /\ \/ targetPage' = [x EXCEPT !.saving = yes, !.error = None, !.calls = k]
         \/ targetPage' = [x EXCEPT !.saving = yes, !.calls = k]
  BY <1>1, <1>3, TargetRequests DEF Target!save, Target!saveEvaluator, Target!CanAct, Target!Shown
<1>5. arg.by = "user" /\ arg.page = 1
  BY DEF Target!Arg
<1>6. yes
  OBVIOUS
<1> HIDE DEF k, yes, arg
<1>7. PICK v : v = targetPage'
  OBVIOUS
<1>8. /\ Acted(v, targetPage, "save") /\ v.versions = targetPage.versions
      /\ v.saving = yes /\ v.versioning = targetPage.versioning /\ v.calls = k
      /\ v.error = targetPage.error \/ v.error = None
  BY <1>3, <1>4, <1>7 DEF Acted, IsTargetPage, SameTold
<1>9. Reaches(1, count)
  BY ReachesOne DEF TargetInv, TargetBase, TargetTypes
<1>10. TargetInv(v, updates, count, more)
  BY <1>4, <1>5, <1>6, <1>8, <1>9, SaveSent DEF k, arg
<1> QED
  BY <1>7, <1>10

LEMMA DeactivateInv ==
  ASSUME NEW updates \in Nat, NEW count \in Nat, NEW more \in Nat,
         TargetInv(targetPage, updates, count, more), Target!deactivate
  PROVE  TargetInv(targetPage', updates, count, more)
<1> DEFINE arg == Target!Arg(targetPage.versions.page, "user")
           k == Sent(targetPage.calls, "deactivate", arg)
           yes == TRUE
<1>1. PICK x : x = Target!ActAlone(targetPage, "deactivate")
  OBVIOUS
<1>2. IsTargetPage(targetPage)
  BY DEF TargetInv, TargetBase
<1>3. /\ Acted(x, targetPage, "deactivate") /\ x.error = targetPage.error
      /\ x.versions = targetPage.versions /\ x.saving = targetPage.saving
      /\ x.versioning = targetPage.versioning /\ x.calls = targetPage.calls
  BY <1>1, <1>2, ActAloneIs
<1>4. /\ targetPage.target # None /\ ~targetPage.saving
      /\ targetPage' = [x EXCEPT !.saving = yes, !.calls = k]
  BY <1>1, <1>3, TargetRequests DEF Target!deactivate, Target!CanAct, Target!Shown
<1>5. arg.by = "user" /\ arg.page = targetPage.versions.page
  BY DEF Target!Arg
<1>6. yes
  OBVIOUS
<1> HIDE DEF k, yes, arg
<1>7. PICK v : v = targetPage'
  OBVIOUS
<1>8. /\ Acted(v, targetPage, "deactivate") /\ v.versions = targetPage.versions
      /\ v.saving = yes /\ v.versioning = targetPage.versioning /\ v.calls = k
      /\ v.error = targetPage.error
  BY <1>3, <1>4, <1>7 DEF Acted, IsTargetPage, SameTold
<1>9. Reaches(arg.page, count)
  BY <1>5 DEF TargetInv, TargetBase, TargetTypes
<1>10. TargetInv(v, updates, count, more)
  BY <1>4, <1>5, <1>6, <1>8, <1>9, SaveSent DEF k
<1> QED
  BY <1>7, <1>10

LEMMA SnapshotInv ==
  ASSUME NEW updates \in Nat, NEW count \in Nat, NEW more \in Nat,
         TargetInv(targetPage, updates, count, more), Target!snapshot
  PROVE  TargetInv(targetPage', updates, count, more)
<1> DEFINE arg == Target!Arg(1, "user")
           k == Sent(targetPage.calls, "snapshot", arg)
           yes == TRUE
<1>1. PICK x : x = Target!ActAlone(targetPage, "snapshot")
  OBVIOUS
<1>2. IsTargetPage(targetPage) /\ IsVersions(targetPage.versions)
  BY DEF TargetInv, TargetBase, IsTargetPage
<1>3. /\ Acted(x, targetPage, "snapshot") /\ x.error = targetPage.error
      /\ x.versions = targetPage.versions /\ x.saving = targetPage.saving
      /\ x.versioning = targetPage.versioning /\ x.calls = targetPage.calls
  BY <1>1, <1>2, ActAloneIs
<1>4. PICK w : w = [targetPage.versions EXCEPT !.error = None]
  OBVIOUS
<1>5. IsVersions(w) /\ w.page = targetPage.versions.page /\ w.total = targetPage.versions.total
  BY <1>2, <1>4 DEF IsVersions
<1>6. /\ targetPage.target # None /\ ~targetPage.versioning
      /\ targetPage' = [x EXCEPT !.versioning = yes, !.versions = w, !.calls = k]
  BY <1>1, <1>3, <1>4, TargetRequests
  DEF Target!snapshot, Target!CanAct, Target!Shown, Acted, IsTargetPage
<1>7. arg.by = "user" /\ yes
  BY DEF Target!Arg
<1> HIDE DEF k, yes, arg
<1>8. PICK v : v = targetPage'
  OBVIOUS
<1>9. /\ Acted(v, targetPage, "snapshot") /\ v.versions = w
      /\ v.saving = targetPage.saving /\ v.versioning = yes /\ v.calls = k
      /\ v.error = targetPage.error
  BY <1>3, <1>5, <1>6, <1>8 DEF Acted, IsTargetPage, SameTold
<1>10. /\ v.versions.page = targetPage.versions.page /\ v.versions.total = targetPage.versions.total
       /\ v.versioning
  BY <1>5, <1>7, <1>9
<1>11. TargetInv(v, updates, count, more)
  BY <1>6, <1>7, <1>9, <1>10, SnapshotSent DEF k
<1> QED
  BY <1>8, <1>11

LEMMA TurnInv ==
  ASSUME NEW updates \in Nat, NEW count \in Nat, NEW more \in Nat,
         TargetInv(targetPage, updates, count, more), Target!loadVersionPage
  PROVE  TargetInv(targetPage', updates, count, more)
<1>1. PICK n \in {targetPage.versions.page - 1, targetPage.versions.page + 1} \ {0} :
        /\ n > targetPage.versions.page => (n - 1) * Size < targetPage.versions.total
        /\ targetPage' = Target!LoadVersions(Target!Act(targetPage), n, "turn")
  BY DEF Target!loadVersionPage
<1>2. PICK m : m = targetPage.versions.page
  OBVIOUS
<1>3. /\ Reaches(m, count) /\ m \in Nat /\ m >= 1 /\ (m - 1) * Size < count
      /\ targetPage.versions.total \in 0..count
  BY <1>2 DEF TargetInv, TargetBase, TargetTypes, Reaches
<1>4. Reaches(n, count)
  <2>1. CASE n = m - 1
    <3>1. n \in Nat /\ n >= 1
      BY <1>1, <1>3, <2>1
    <3>2. (n - 1) * Size <= (m - 1) * Size
      BY <1>3, <2>1, <3>1, Monotone
    <3>3. (n - 1) * Size \in Int /\ (m - 1) * Size \in Int
      BY <1>3, <3>1, SizeAssumption
    <3>4. (n - 1) * Size < count
      BY <1>3, <3>2, <3>3
    <3> QED
      BY <3>1, <3>4 DEF Reaches
  <2>2. CASE n = m + 1
    <3>1. n \in Nat /\ n >= 1 /\ (n - 1) * Size < targetPage.versions.total
      BY <1>1, <1>2, <1>3, <2>2
    <3>2. (n - 1) * Size \in Int
      BY <3>1, SizeAssumption
    <3>3. (n - 1) * Size < count
      BY <1>3, <3>1, <3>2
    <3> QED
      BY <3>1, <3>3 DEF Reaches
  <2> QED
    BY <1>1, <1>2, <2>1, <2>2
<1> QED
  BY <1>1, <1>4, PageTurned

LEMMA RetryInv ==
  ASSUME NEW updates \in Nat, NEW count \in Nat, NEW more \in Nat,
         TargetInv(targetPage, updates, count, more), Target!Retry
  PROVE  TargetInv(targetPage', updates, count, more)
<1>1. CASE /\ targetPage.target = None /\ ~Target!Loading /\ targetPage.error # None
           /\ targetPage' = Target!LoadTarget(targetPage, 1, "retry")
  BY <1>1, TargetRetried DEF Target!Loading
<1>2. CASE targetPage' = Target!LoadVersions(Target!Act(targetPage), targetPage.versions.page,
                                             "retry")
  <2>1. Reaches(targetPage.versions.page, count)
    BY DEF TargetInv, TargetBase, TargetTypes
  <2> QED
    BY <1>2, <2>1, PageTurned
<1> QED
  BY <1>1, <1>2 DEF Target!Retry, Target!Shown

LEMMA ReceiveInv ==
  ASSUME NEW updates \in Nat, NEW count \in Nat, NEW more \in Nat,
         TargetInv(targetPage, updates, count, more), NEW c \in targetPage.calls,
         \/ Target!ReceiveTarget(c) \/ Target!ReceiveVersions(c)
         \/ Target!ReceiveSave(c) \/ Target!ReceiveDeactivate(c) \/ Target!ReceiveSnapshot(c)
  PROVE  TargetInv(targetPage', updates, count, more)
<1>1. ASSUME Target!ReceiveTarget(c) PROVE TargetInv(targetPage', updates, count, more)
  BY <1>1, ReceiveTargetInv DEF Target!ReceiveTarget
<1>2. ASSUME Target!ReceiveVersions(c) PROVE TargetInv(targetPage', updates, count, more)
  BY <1>2, ReceiveVersionsInv DEF Target!ReceiveVersions
<1>3. ASSUME Target!ReceiveSave(c) PROVE TargetInv(targetPage', updates, count, more)
  BY <1>3, ReceiveSaveInv DEF Target!ReceiveSave
<1>4. ASSUME Target!ReceiveDeactivate(c) PROVE TargetInv(targetPage', updates, count, more)
  BY <1>4, ReceiveDeactivateInv DEF Target!ReceiveDeactivate
<1>5. ASSUME Target!ReceiveSnapshot(c) PROVE TargetInv(targetPage', updates, count, more)
  BY <1>5, ReceiveSnapshotInv DEF Target!ReceiveSnapshot
<1> QED
  BY <1>1, <1>2, <1>3, <1>4, <1>5

-----------------------------------------------------------------------------
(* ---- The next state, the first, and what is shown. -------------------- *)

LEMMA TargetNext ==
  ASSUME TargetSide, Target!Next
  PROVE  TargetSide'
<1>1. PICK n : n = Len(captured)
  OBVIOUS
<1>2. /\ config \in Nat /\ others \in Nat /\ n \in Nat
      /\ TargetInv(targetPage, config, n, others)
  BY <1>1, TargetSideFacts
<1>3. ASSUME Target!User \/ Target!Receive, targetPage'.acts + others <= MaxTargetActs
      PROVE  TargetSide'
  <2>1. /\ targetActive' = targetActive /\ config' = config /\ captured' = captured
        /\ others' = others
    BY <1>3 DEF Target!User, Target!Receive
  <2>2. TargetInv(targetPage', config, n, others)
    <3>1. CASE Target!User
      BY <1>2, <3>1, SaveInv, DeactivateInv, SnapshotInv, TurnInv, RetryInv DEF Target!User
    <3>2. CASE Target!Receive
      BY <1>2, <3>2, ReceiveInv DEF Target!Receive
    <3> QED
      BY <1>3, <3>1, <3>2
  <2> QED
    BY <1>1, <1>3, <2>1, <2>2 DEF TargetSide
<1>4. ASSUME NEW c \in targetPage.calls,
             \/ Target!ServeRead(c) \/ Target!ServeSave(c)
             \/ Target!ServeDeactivate(c) \/ Target!ServeSnapshot(c)
      PROVE  TargetSide'
  BY <1>4, ServeReadSide, ServeSaveSide, ServeDeactivateSide, ServeSnapshotSide
<1>5. ASSUME Target!Elsewhere PROVE TargetSide'
  BY <1>5, ElsewhereSide
<1> QED
  BY <1>3, <1>4, <1>5 DEF Target!Next

(* The page before its first render holds nothing.                         *)
LEMMA NewTargetPage ==
  ASSUME NEW u, u = Target!NewPage
  PROVE  /\ IsTargetPage(u) /\ u.target = None /\ u.error = None /\ u.versions = Target!Unread
         /\ ~u.saving /\ ~u.versioning /\ u.calls = {} /\ u.toldConfig = 0 /\ u.toldVersions = 0
         /\ u.alone = {} /\ u.failed = {} /\ u.acts = 0
  BY DEF Target!NewPage, IsTargetPage, IsVersions, Target!Unread

LEMMA MountedInv ==
  ASSUME NEW updates \in {0, 1}, NEW v, v = Target!Mounted
  PROVE  TargetInv(v, updates, 1, 0) /\ v.acts = 0
<1>1. PICK u : u = Target!NewPage
  OBVIOUS
<1>2. PICK w : w = Target!LoadTarget(u, 1, "effect")
  OBVIOUS
<1>3. v = Target!LoadVersions(w, 1, "effect")
  BY <1>1, <1>2 DEF Target!Mounted
<1>4. /\ IsTargetPage(u) /\ u.target = None /\ u.error = None /\ u.versions = Target!Unread
      /\ ~u.saving /\ ~u.versioning /\ u.calls = {} /\ u.toldConfig = 0 /\ u.toldVersions = 0
      /\ u.alone = {} /\ u.failed = {} /\ u.acts = 0
  BY <1>1, NewTargetPage
<1>5. Reaches(1, 1)
  BY SizeAssumption DEF Reaches
<1>6. u.versions.page = 1 /\ u.versions.total = 0
  BY <1>4 DEF Target!Unread
<1>7. TargetCalls(u.calls, updates, 1, 0, 0)
  BY <1>4 DEF TargetCalls, AreCalls, OneLive
<1>8. TargetTokens(u) /\ TargetTypes(u, updates, 1)
  BY <1>4, <1>5, <1>6 DEF TargetTokens, TargetTypes, OneHolds, NoneHolds
<1>9. TargetSignals(u)
  BY <1>4 DEF TargetSignals
<1>10. updates + Saves(u.calls) <= 1 + u.acts + 0
  BY <1>4 DEF Saves, Count
<1>11. Loadable(u, updates, 1, 0, 0, u.toldVersions)
  BY <1>4, <1>7, <1>8, <1>10 DEF Loadable
<1>12. (\A c \in u.calls : c.lane # "target") /\ u.failed \cap {"save", "deactivate"} = {}
  BY <1>4
<1>13. /\ TargetBase(w, updates, 1, 0) /\ TargetShown(w) /\ IsTargetPage(w)
       /\ SameHistory(w, u) /\ w.target = u.target
  BY <1>2, <1>4, <1>5, <1>9, <1>11, <1>12, LoadTargetBase
<1>14. Loadable(w, updates, 1, 0, w.toldConfig, 0) /\ TargetSignals(w)
  BY <1>4, <1>13 DEF TargetBase, Loadable, SameHistory, SameTold
<1>15. "snapshot" \notin w.failed
  BY <1>4, <1>13 DEF SameHistory
<1>16. TargetInv(v, updates, 1, 0)
  BY <1>3, <1>5, <1>13, <1>14, <1>15, LoadVersionsInv
<1>17. v.acts = 0
  BY <1>3, <1>4, <1>13, LoadVersionsIs DEF SameHistory
<1> QED
  BY <1>16, <1>17

LEMMA TargetInit ==
  ASSUME Target!Init
  PROVE  TargetSide
<1>1. /\ targetActive \in BOOLEAN /\ captured = <<0>> /\ config \in {0, 1} /\ others = 0
      /\ targetPage = Target!Mounted
  BY DEF Target!Init
<1>2. TargetInv(targetPage, config, 1, 0) /\ targetPage.acts = 0
  BY <1>1, MountedInv
<1>3. captured \in Seq(Nat) /\ Len(captured) = 1 /\ \A i \in 1..Len(captured) : captured[i] <= config
  BY <1>1
<1>4. targetPage.acts + others <= MaxTargetActs
  BY <1>1, <1>2, BoundsAssumption
<1> QED
  BY <1>1, <1>2, <1>3, <1>4 DEF TargetSide
-----------------------------------------------------------------------------
LEMMA AtMostOneLive ==
  ASSUME NEW calls, OneLive(calls), NEW l
  PROVE  Cardinality({c \in calls : c.lane = l /\ c.live}) <= 1
<1> DEFINE S == {c \in calls : c.lane = l /\ c.live}
<1>1. CASE S = {}
  BY <1>1, FS_EmptySet
<1>2. CASE S # {}
  <2>1. PICK c : c \in S
    BY <1>2
  <2>2. S = {c}
    BY <2>1 DEF OneLive
  <2>3. Cardinality({c}) = 1
    BY FS_Singleton
  <2> QED
    BY <2>2, <2>3
<1> QED
  BY <1>1, <1>2

LEMMA TargetSideTyped ==
  ASSUME TargetSide
  PROVE  Target!TypeOK
<1>1. PICK n : n = Len(captured)
  OBVIOUS
<1>2. /\ config \in Nat /\ others \in Nat /\ n \in Nat /\ targetPage.acts \in Nat
      /\ TargetInv(targetPage, config, n, others)
  BY <1>1, TargetSideFacts
<1>3. config \in 0..MaxTargetActs + 1
  <2>1. config + Saves(targetPage.calls) <= 1 + targetPage.acts + others
    BY <1>2 DEF TargetInv, TargetBase
  <2>2. Saves(targetPage.calls) \in Nat
    BY SavesType
  <2>3. targetPage.acts + others <= MaxTargetActs
    BY DEF TargetSide
  <2> QED
    BY <1>2, <2>1, <2>2, <2>3, BoundsAssumption
<1>4. \A i \in DOMAIN captured : captured[i] \in 0..config
  <2>1. captured \in Seq(Nat) /\ \A i \in 1..Len(captured) : captured[i] <= config
    BY DEF TargetSide
  <2>2. DOMAIN captured = 1..Len(captured) /\ \A i \in 1..Len(captured) : captured[i] \in Nat
    BY <2>1
  <2> QED
    BY <1>2, <2>1, <2>2
<1>5. /\ targetPage.target = None \/ targetPage.target.config \in 0..config
      /\ targetPage.versions.total \in 0..n
      /\ OneLive(targetPage.calls)
      /\ \A c \in targetPage.calls : c.lane = "target" => c.live
  BY <1>2 DEF TargetInv, TargetBase, TargetTypes, TargetCalls, TargetCall, TargetLoad
<1>6. \A l : Cardinality({c \in targetPage.calls : c.lane = l /\ c.live}) <= 1
  BY <1>5, AtMostOneLive
<1>7. targetActive \in BOOLEAN
  BY DEF TargetSide
<1>8. targetPage.versions.total \in 0..Len(captured)
  BY <1>1, <1>5
<1>9. \A s : Target!Cardinality(s) = Cardinality(s)
  BY DEF Target!Cardinality, Cardinality
<1> QED
  BY <1>3, <1>4, <1>5, <1>6, <1>7, <1>8, <1>9 DEF Target!TypeOK

LEMMA TargetSideShows ==
  ASSUME TargetSide
  PROVE  Target!ListsAreOfThePage /\ Target!ChangesAreShown /\ Target!FailuresAreShown
<1>1. PICK n : n = Len(captured)
  OBVIOUS
<1>2. TargetInv(targetPage, config, n, others)
  BY <1>1, TargetSideFacts
<1>3. /\ TargetTokens(targetPage) /\ TargetSignals(targetPage)
      /\ VersionsListed(targetPage) /\ TargetShown(targetPage)
      /\ \A c \in targetPage.calls :
           c.lane = "target" => c.arg.by \in {"effect", "retry", "save", "deactivate"}
  BY <1>2 DEF TargetInv, TargetBase, TargetCalls, TargetCall, TargetLoad
<1>4. ASSUME Target!AtRest
      PROVE  /\ targetPage.versions.rows = targetPage.versions.page
             /\ targetPage.versions.total >= targetPage.toldVersions
  <2>1. ~Pending(targetPage.calls, "snapshot")
    BY <1>3, <1>4 DEF Target!AtRest, TargetTokens, NoneHolds, Holds, MakeLanes, Pending
  <2> QED
    BY <1>3, <1>4, <2>1 DEF Target!AtRest, VersionsListed
<1>5. ASSUME Target!Shown, ~targetPage.saving, targetPage.error = None
      PROVE  targetPage.target.config >= targetPage.toldConfig
  <2>1. NoneHolds(targetPage.calls, SaveLanes, SaveLoads) /\ NoneHolds(targetPage.calls, {}, FirstLoads)
    BY <1>3, <1>5 DEF TargetTokens, Target!Shown
  <2>2. ~Pending(targetPage.calls, "save")
    BY <2>1 DEF NoneHolds, Holds, SaveLanes, Pending
  <2>3. ~Pending(targetPage.calls, "target")
    BY <1>3, <2>1 DEF NoneHolds, Holds, SaveLoads, FirstLoads, Pending
  <2> QED
    BY <1>3, <1>5, <2>2, <2>3 DEF TargetShown, Target!Shown
<1>6. Target!FailuresAreShown
  BY <1>3 DEF TargetSignals, Target!FailuresAreShown
<1> QED
  BY <1>4, <1>5, <1>6 DEF Target!ListsAreOfThePage, Target!ChangesAreShown

-----------------------------------------------------------------------------
(* ---- The page of a dataset: what is committed only grows. ------------- *)

Rows == [status : {"DRAFT", "APPROVED", "DEPRECATED"}, edits : 0..MaxEdits]

LEMMA RowFields ==
  ASSUME NEW seq \in Seq(Rows), NEW n \in DOMAIN seq
  PROVE  /\ n \in 1..Len(seq) /\ seq[n] \in Rows /\ seq[n].edits \in 0..MaxEdits
         /\ seq[n].edits \in Nat
         /\ seq[n].status \in {"DRAFT", "APPROVED", "DEPRECATED"}
<1>1. DOMAIN seq = 1..Len(seq) /\ seq[n] \in Rows
  OBVIOUS
<1>2. MaxEdits \in Nat
  BY BoundsAssumption
<1> QED
  BY <1>1, <1>2 DEF Rows

LEMMA CoversReflexive ==
  ASSUME NEW seq \in Seq(Rows)
  PROVE  Dataset!Covers(seq, seq)
  BY RowFields DEF Dataset!Covers

(* What is committed later covers what an answer told, also of the others. *)
LEMMA CoversTransitive ==
  ASSUME NEW a \in Seq(Rows), NEW b \in Seq(Rows), NEW c \in Seq(Rows),
         Dataset!Covers(a, b), Dataset!Covers(b, c)
  PROVE  Dataset!Covers(a, c)
<1> SUFFICES ASSUME NEW n \in DOMAIN c
             PROVE  /\ n \in DOMAIN a /\ a[n].edits >= c[n].edits
                    /\ c[n].status = "DRAFT" \/ a[n].status \in {c[n].status, "DEPRECATED"}
  BY DEF Dataset!Covers
<1>1. /\ n \in DOMAIN b /\ b[n].edits >= c[n].edits
      /\ c[n].status = "DRAFT" \/ b[n].status \in {c[n].status, "DEPRECATED"}
  BY DEF Dataset!Covers
<1>2. /\ n \in DOMAIN a /\ a[n].edits >= b[n].edits
      /\ b[n].status = "DRAFT" \/ a[n].status \in {b[n].status, "DEPRECATED"}
  BY <1>1 DEF Dataset!Covers
<1>3. a[n].edits \in Nat /\ b[n].edits \in Nat /\ c[n].edits \in Nat
  BY <1>1, <1>2, RowFields
<1> QED
  BY <1>1, <1>2, <1>3

LEMMA CoversLonger ==
  ASSUME NEW a \in Seq(Rows), NEW b \in Seq(Rows), Dataset!Covers(a, b)
  PROVE  Len(b) <= Len(a)
<1>1. DOMAIN a = 1..Len(a) /\ DOMAIN b = 1..Len(b) /\ Len(a) \in Nat /\ Len(b) \in Nat
  OBVIOUS
<1>2. CASE Len(b) = 0
  BY <1>1, <1>2
<1>3. CASE Len(b) > 0
  <2>1. Len(b) \in DOMAIN b
    BY <1>1, <1>3
  <2>2. Len(b) \in DOMAIN a
    BY <2>1 DEF Dataset!Covers
  <2> QED
    BY <1>1, <2>2
<1> QED
  BY <1>1, <1>2, <1>3

LEMMA AppendCovers ==
  ASSUME NEW seq \in Seq(Rows), NEW s, s = Append(seq, Dataset!Draft)
  PROVE  s \in Seq(Rows) /\ Len(s) = Len(seq) + 1 /\ Dataset!Covers(s, seq)
<1>1. Dataset!Draft \in Rows
  BY BoundsAssumption DEF Rows, Dataset!Draft, Dataset!Row
<1>2. s \in Seq(Rows) /\ Len(s) = Len(seq) + 1 /\ \A n \in 1..Len(seq) : s[n] = seq[n]
  BY <1>1
<1>3. DOMAIN s = 1..Len(s) /\ DOMAIN seq = 1..Len(seq) /\ Len(seq) \in Nat
  BY <1>2
<1>4. ASSUME NEW n \in DOMAIN seq PROVE n \in DOMAIN s /\ s[n] = seq[n] /\ s[n].edits >= seq[n].edits
  BY <1>2, <1>3, RowFields
<1> QED
  BY <1>2, <1>4 DEF Dataset!Covers

LEMMA ChangedCovers ==
  ASSUME NEW seq \in Seq(Rows), NEW n \in 1..Len(seq), NEW action, NEW s,
         s = Dataset!Changed(n, seq, action),
         \/ action = "approve" /\ seq[n].status = "DRAFT"
         \/ action = "deprecate"
         \/ action = "update" /\ seq[n].edits < MaxEdits
  PROVE  s \in Seq(Rows) /\ Len(s) = Len(seq) /\ Dataset!Covers(s, seq)
<1>1. /\ seq[n] \in Rows /\ seq[n].edits \in 0..MaxEdits /\ MaxEdits \in Nat
      /\ seq[n].status \in {"DRAFT", "APPROVED", "DEPRECATED"}
      /\ seq[n] = [status |-> seq[n].status, edits |-> seq[n].edits]
  <2>1. n \in DOMAIN seq
    OBVIOUS
  <2>2. /\ seq[n] \in Rows /\ seq[n].edits \in 0..MaxEdits
        /\ seq[n].status \in {"DRAFT", "APPROVED", "DEPRECATED"}
    BY <2>1, RowFields
  <2>3. seq[n] = [status |-> seq[n].status, edits |-> seq[n].edits]
    BY <2>2 DEF Rows
  <2>4. MaxEdits \in Nat
    BY BoundsAssumption
  <2> QED
    BY <2>2, <2>3, <2>4
<1>2. PICK r \in Rows :
        /\ s = [seq EXCEPT ![n] = r] /\ r.edits >= seq[n].edits
        /\ seq[n].status = "DRAFT" \/ r.status \in {seq[n].status, "DEPRECATED"}
  <2>1. CASE action = "approve"
    <3>1. s = [seq EXCEPT ![n].status = "APPROVED"]
      BY <2>1 DEF Dataset!Changed
    <3> DEFINE r == [status |-> "APPROVED", edits |-> seq[n].edits]
    <3>2. s = [seq EXCEPT ![n] = r]
      BY <1>1, <3>1
    <3>3. r \in Rows
      BY <1>1 DEF Rows
    <3> QED
      BY <1>1, <2>1, <3>2, <3>3
  <2>2. CASE action = "deprecate"
    <3>1. s = [seq EXCEPT ![n].status = "DEPRECATED"]
      BY <2>2 DEF Dataset!Changed
    <3> DEFINE r == [status |-> "DEPRECATED", edits |-> seq[n].edits]
    <3>2. s = [seq EXCEPT ![n] = r]
      BY <1>1, <3>1
    <3>3. r \in Rows
      BY <1>1 DEF Rows
    <3> QED
      BY <1>1, <2>2, <3>2, <3>3
  <2>3. CASE action = "update" /\ seq[n].edits < MaxEdits
    <3>1. s = [seq EXCEPT ![n].edits = @ + 1]
      BY <2>3 DEF Dataset!Changed
    <3> DEFINE r == [status |-> seq[n].status, edits |-> seq[n].edits + 1]
    <3>2. s = [seq EXCEPT ![n] = r]
      BY <1>1, <3>1
    <3>3. r \in Rows
      BY <1>1, <2>3 DEF Rows
    <3> QED
      BY <1>1, <2>3, <3>2, <3>3
  <2> QED
    BY <2>1, <2>2, <2>3
<1>3. s \in Seq(Rows) /\ Len(s) = Len(seq) /\ DOMAIN s = DOMAIN seq
  BY <1>2
<1>4. ASSUME NEW m \in DOMAIN seq
      PROVE  /\ m \in DOMAIN s /\ s[m].edits >= seq[m].edits
             /\ seq[m].status = "DRAFT" \/ s[m].status \in {seq[m].status, "DEPRECATED"}
  <2>1. seq[m].edits \in Nat
    BY RowFields
  <2> QED
    BY <1>2, <1>3, <2>1
<1> QED
  BY <1>3, <1>4 DEF Dataset!Covers

-----------------------------------------------------------------------------
(* ---- What the page is made of. ---------------------------------------- *)

IsList(w) ==
  w = [page |-> w.page, rows |-> w.rows, seen |-> w.seen,
       refreshing |-> w.refreshing, error |-> w.error]

IsDatasetPage(u) ==
  /\ u = [dataset |-> u.dataset, datasetError |-> u.datasetError,
          cases |-> u.cases, versions |-> u.versions,
          editing |-> u.editing, formError |-> u.formError, submitting |-> u.submitting,
          acting |-> u.acting, creating |-> u.creating, calls |-> u.calls,
          toldCases |-> u.toldCases, toldVersions |-> u.toldVersions,
          alone |-> u.alone, failed |-> u.failed, acts |-> u.acts]
  /\ IsList(u.cases) /\ IsList(u.versions)

\* What the page shows beside its lists, and what it remembers.
SameForm(v, u) ==
  /\ v.dataset = u.dataset /\ v.editing = u.editing /\ v.formError = u.formError
  /\ v.submitting = u.submitting /\ v.acting = u.acting /\ v.creating = u.creating
SameMemory(v, u) ==
  /\ v.toldCases = u.toldCases /\ v.toldVersions = u.toldVersions
  /\ v.alone = u.alone /\ v.failed = u.failed
-----------------------------------------------------------------------------
LEMMA DatasetRequests ==
  /\ Dataset!Waiting = Waiting
  /\ \A k, l, a : Dataset!Sent(k, l, a) = Sent(k, l, a)
  /\ \A k, c, a : Dataset!Served(k, c, a) = Served(k, c, a)
  /\ \A k, c : Dataset!Ended(k, c) = Ended(k, c)
  /\ \A k, c : Dataset!EndedMutation(k, c) = EndedMutation(k, c)
  BY DEF Dataset!Waiting, Waiting, Dataset!Sent, Sent, Dataset!Aborted, Aborted,
         Dataset!Call, Call, Dataset!Served, Served, Dataset!Ended, Ended,
         Dataset!EndedMutation, EndedMutation

LEMMA DatasetAnswers ==
  /\ \A r : Dataset!request(r) = request(r)
  /\ \A v : Dataset!Answered(v) = Answered(v)
  /\ \A s, c : Dataset!Refused(s, c) = Refused(s, c)
  /\ Dataset!Lost = Lost
  /\ \A r : Dataset!Outcomes(r) = Outcomes(r)
<1>1. \A r : Dataset!request(r) = request(r)
  BY DEF Dataset!request, request, Dataset!parseResponsePayload, parseResponsePayload,
         Dataset!ThrownAsNetwork, ThrownAsNetwork, Dataset!networkApiError, networkApiError,
         Dataset!parseApiError, parseApiError, Dataset!Error, Error, Dataset!Data, Data,
         Dataset!unexpectedApiError, unexpectedApiError
<1>2. /\ \A v : Dataset!Answered(v) = Answered(v)
      /\ \A s, c : Dataset!Refused(s, c) = Refused(s, c)
      /\ \A s, b, c, v : Dataset!Response(s, b, c, v) = Response(s, b, c, v)
  BY DEF Dataset!Answered, Answered, Dataset!Refused, Refused, Dataset!Response, Response
<1>3. Dataset!Lost = Lost
  <2>1. Dataset!fetchResponse = fetchResponse /\ Dataset!toApiError = toApiError
    BY DEF Dataset!fetchResponse, fetchResponse, Dataset!toApiError, toApiError,
           Dataset!networkApiError, networkApiError, Dataset!Error, Error,
           Dataset!unexpectedApiError, unexpectedApiError
  <2> QED
    BY <1>1, <1>2, <2>1 DEF Dataset!Lost, Lost
<1>4. \A r : Dataset!Outcomes(r) = Outcomes(r)
  BY <1>1, <1>3 DEF Dataset!Outcomes, Outcomes
<1> QED
  BY <1>1, <1>2, <1>3, <1>4

LEMMA DatasetCallsFields ==
  ASSUME NEW u, IsDatasetPage(u), NEW k, NEW v, v = [u EXCEPT !.calls = k]
  PROVE  /\ IsDatasetPage(v) /\ SameForm(v, u) /\ SameMemory(v, u)
         /\ v.cases = u.cases /\ v.versions = u.versions /\ v.calls = k
  BY DEF IsDatasetPage, SameForm, SameMemory

LEMMA LoadDatasetIs ==
  ASSUME NEW u, IsDatasetPage(u), NEW by, NEW v, v = Dataset!LoadDataset(u, by)
  PROVE  /\ IsDatasetPage(v) /\ SameForm(v, u) /\ SameMemory(v, u)
         /\ v.cases = u.cases /\ v.versions = u.versions
         /\ v.calls = Sent(u.calls, "dataset", Dataset!Arg(1, 0, by))
<1> DEFINE k == Sent(u.calls, "dataset", Dataset!Arg(1, 0, by))
<1>1. v = [u EXCEPT !.datasetError = None, !.calls = k]
  BY DatasetRequests DEF Dataset!LoadDataset
<1> HIDE DEF k
<1> QED
  BY <1>1 DEF IsDatasetPage, SameForm, SameMemory, k

LEMMA LoadCasesIs ==
  ASSUME NEW u, IsDatasetPage(u), NEW n, NEW by, NEW v, v = Dataset!LoadCases(u, n, by)
  PROVE  /\ IsDatasetPage(v) /\ SameForm(v, u) /\ SameMemory(v, u)
         /\ v.cases.page = u.cases.page /\ v.cases.seen = u.cases.seen /\ v.cases.refreshing
         /\ v.versions = u.versions
         /\ v.calls = Sent(u.calls, "cases", Dataset!Arg(n, 0, by))
<1> DEFINE k == Sent(u.calls, "cases", Dataset!Arg(n, 0, by))
           yes == TRUE
           no == FALSE
<1>1. PICK w : w = [u.cases EXCEPT !.refreshing = yes, !.error = no]
  OBVIOUS
<1>2. v = [u EXCEPT !.cases = w, !.calls = k]
  BY <1>1, DatasetRequests DEF Dataset!LoadCases, IsDatasetPage
<1>3. yes
  OBVIOUS
<1> HIDE DEF k, yes, no
<1>4. IsList(w) /\ w.page = u.cases.page /\ w.seen = u.cases.seen /\ w.refreshing = yes
  BY <1>1 DEF IsDatasetPage, IsList
<1> QED
  BY <1>2, <1>3, <1>4 DEF IsDatasetPage, SameForm, SameMemory, k

LEMMA LoadSnapshotsIs ==
  ASSUME NEW u, IsDatasetPage(u), NEW n, NEW by, NEW v, v = Dataset!LoadVersions(u, n, by)
  PROVE  /\ IsDatasetPage(v) /\ SameForm(v, u) /\ SameMemory(v, u)
         /\ v.versions.page = u.versions.page /\ v.versions.seen = u.versions.seen
         /\ v.versions.refreshing /\ v.cases = u.cases
         /\ v.calls = Sent(u.calls, "versions", Dataset!Arg(n, 0, by))
<1> DEFINE k == Sent(u.calls, "versions", Dataset!Arg(n, 0, by))
           yes == TRUE
           no == FALSE
<1>1. PICK w : w = [u.versions EXCEPT !.refreshing = yes, !.error = no]
  OBVIOUS
<1>2. v = [u EXCEPT !.versions = w, !.calls = k]
  BY <1>1, DatasetRequests DEF Dataset!LoadVersions, IsDatasetPage
<1>3. yes
  OBVIOUS
<1> HIDE DEF k, yes, no
<1>4. IsList(w) /\ w.page = u.versions.page /\ w.seen = u.versions.seen /\ w.refreshing = yes
  BY <1>1 DEF IsDatasetPage, IsList
<1> QED
  BY <1>2, <1>3, <1>4 DEF IsDatasetPage, SameForm, SameMemory, k

-----------------------------------------------------------------------------
(* ---- Its calls: what they ask for and may have been answered. --------- *)

\* What the dataset holds only grows: changed cases stay, and versions too.
Later(now, count, now2, count2) ==
  /\ now \in Seq(Rows) /\ now2 \in Seq(Rows) /\ Dataset!Covers(now2, now)
  /\ count \in Nat /\ count2 \in Nat /\ count <= count2

Refuses(c) == \E code : c.reply = <<Refused(409, code)>>
TellsCases(c, now, s) ==
  s \in Seq(Rows) /\ Dataset!Covers(now, s) /\ c.reply = <<Answered(Dataset!Seen(s, 0))>>
TellsVersions(c, n) == c.reply = <<Answered(Dataset!Seen(<< >>, n))>>

(* A load of the cases is of a page that exists, also in its answer; one   *)
(* that is wanted is of the page chosen, unless an action asked for it,    *)
(* and its answer covers what the page has been told.                      *)
CasesLoad(c, now, told, chosen) ==
  /\ c.arg.by \in {"effect", "retry", "submit", "transition", "refused"}
  /\ Reaches(c.arg.page, Len(now))
  /\ c.live => c.arg.page = chosen \/ c.arg.by \in {"transition", "refused"}
  /\ c.reply # Waiting =>
       \E s : /\ TellsCases(c, now, s) /\ Reaches(c.arg.page, Len(s))
              /\ (c.live => Dataset!Covers(s, told))

SnapshotsLoad(c, count, told, chosen) ==
  /\ c.arg.by \in {"effect", "retry", "create"} /\ Reaches(c.arg.page, count)
  /\ c.live => c.arg.page = chosen
  /\ c.reply # Waiting =>
       \E n \in 0..count : TellsVersions(c, n) /\ Reaches(c.arg.page, n) /\ (c.live => n >= told)

ChangeCall(c, now) ==
  /\ c.lane = "submit" => c.arg.by = "user" /\ c.arg.case \in 0..Len(now)
  /\ c.lane = "transition" =>
       /\ c.arg.by \in {"approve", "deprecate"} /\ c.arg.case \in 1..Len(now)
       /\ Reaches(c.arg.page, Len(now))
  /\ c.reply = Waiting \/ Refuses(c) \/ \E s : TellsCases(c, now, s)

CreateCall(c, count) ==
  /\ c.arg.by = "user"
  /\ c.reply = Waiting \/ Refuses(c) \/ \E n \in 0..count : TellsVersions(c, n)

DatasetCall(c, now, count, toldCases, toldVersions, casesPage, versionsPage) ==
  /\ IsCall(c)
  /\ c.lane \in {"dataset", "cases", "versions", "submit", "transition", "create"}
  /\ c.lane = "dataset" => c.arg.by \in {"effect", "retry"}
  /\ c.lane = "cases" => CasesLoad(c, now, toldCases, casesPage)
  /\ c.lane = "versions" => SnapshotsLoad(c, count, toldVersions, versionsPage)
  /\ c.lane \in {"submit", "transition"} => ChangeCall(c, now)
  /\ c.lane = "create" => CreateCall(c, count)

DatasetCalls(calls, now, count, toldCases, toldVersions, casesPage, versionsPage) ==
  /\ AreCalls(calls) /\ OneLive(calls)
  /\ \A c \in calls :
       DatasetCall(c, now, count, toldCases, toldVersions, casesPage, versionsPage)
-----------------------------------------------------------------------------
LEMMA LaterReaches ==
  ASSUME NEW now, NEW count, NEW now2, NEW count2, Later(now, count, now2, count2), NEW n
  PROVE  /\ Reaches(n, Len(now)) => Reaches(n, Len(now2))
         /\ Reaches(n, count) => Reaches(n, count2)
         /\ 0..Len(now) \subseteq 0..Len(now2) /\ 1..Len(now) \subseteq 1..Len(now2)
         /\ 0..count \subseteq 0..count2
<1>1. Len(now) \in Nat /\ Len(now2) \in Nat /\ Len(now) <= Len(now2)
  BY CoversLonger DEF Later
<1>2. PICK p \in Nat, q \in Nat : p = Len(now) /\ q = Len(now2) /\ p <= q
  BY <1>1
<1>3. Reaches(n, p) => Reaches(n, q)
  BY <1>2, ReachesMore
<1>4. Reaches(n, count) => Reaches(n, count2)
  BY ReachesMore DEF Later
<1>5. 0..p \subseteq 0..q /\ 1..p \subseteq 1..q /\ 0..count \subseteq 0..count2
  BY <1>2 DEF Later
<1> QED
  BY <1>2, <1>3, <1>4, <1>5

LEMMA TellsLater ==
  ASSUME NEW now, NEW count, NEW now2, NEW count2, Later(now, count, now2, count2),
         NEW c, NEW d, d.reply = c.reply, NEW s, TellsCases(c, now, s)
  PROVE  TellsCases(d, now2, s)
<1>1. Dataset!Covers(now2, s)
  BY CoversTransitive DEF Later, TellsCases
<1> QED
  BY <1>1 DEF TellsCases

(* A copy of a call that is wanted no more than it was.                    *)
LEMMA DatasetCallCopy ==
  ASSUME NEW now, NEW count, NEW now2, NEW count2, Later(now, count, now2, count2),
         NEW tc, NEW tv, NEW cp, NEW vp, NEW tc2, NEW tv2, NEW cp2, NEW vp2,
         NEW c, DatasetCall(c, now, count, tc, tv, cp, vp),
         NEW d, IsCall(d), d.lane = c.lane, d.arg = c.arg, d.reply = c.reply, d.live => c.live,
         c.lane = "cases" => (tc2 = tc /\ cp2 = cp) \/ ~d.live,
         c.lane = "versions" => (tv2 = tv /\ vp2 = vp) \/ ~d.live
  PROVE  DatasetCall(d, now2, count2, tc2, tv2, cp2, vp2)
<1>1. /\ \A n : Reaches(n, Len(now)) => Reaches(n, Len(now2))
      /\ \A n : Reaches(n, count) => Reaches(n, count2)
      /\ 0..Len(now) \subseteq 0..Len(now2) /\ 1..Len(now) \subseteq 1..Len(now2)
      /\ 0..count \subseteq 0..count2
  BY LaterReaches
<1>2. \A s : TellsCases(c, now, s) => TellsCases(d, now2, s)
  BY TellsLater
<1>3. \A n : TellsVersions(c, n) => TellsVersions(d, n)
  BY DEF TellsVersions
<1>4. ASSUME c.lane = "cases" PROVE CasesLoad(d, now2, tc2, cp2)
  <2>1. CasesLoad(c, now, tc, cp)
    BY <1>4 DEF DatasetCall
  <2>2. /\ d.arg.by \in {"effect", "retry", "submit", "transition", "refused"}
        /\ Reaches(d.arg.page, Len(now2))
        /\ d.live => d.arg.page = cp2 \/ d.arg.by \in {"transition", "refused"}
    BY <1>1, <1>4, <2>1 DEF CasesLoad
  <2>3. ASSUME d.reply # Waiting
        PROVE  \E s : /\ TellsCases(d, now2, s) /\ Reaches(d.arg.page, Len(s))
                      /\ (d.live => Dataset!Covers(s, tc2))
    <3>1. PICK s : /\ TellsCases(c, now, s) /\ Reaches(c.arg.page, Len(s))
                   /\ (c.live => Dataset!Covers(s, tc))
      BY <2>1, <2>3 DEF CasesLoad
    <3> QED
      BY <1>2, <1>4, <3>1
  <2> QED
    BY <2>2, <2>3 DEF CasesLoad
<1>5. ASSUME c.lane = "versions" PROVE SnapshotsLoad(d, count2, tv2, vp2)
  <2>1. SnapshotsLoad(c, count, tv, vp)
    BY <1>5 DEF DatasetCall
  <2>2. /\ d.arg.by \in {"effect", "retry", "create"} /\ Reaches(d.arg.page, count2)
        /\ d.live => d.arg.page = vp2
    BY <1>1, <1>5, <2>1 DEF SnapshotsLoad
  <2>3. ASSUME d.reply # Waiting
        PROVE  \E n \in 0..count2 :
                 TellsVersions(d, n) /\ Reaches(d.arg.page, n) /\ (d.live => n >= tv2)
    <3>1. PICK n \in 0..count :
            TellsVersions(c, n) /\ Reaches(c.arg.page, n) /\ (c.live => n >= tv)
      BY <2>1, <2>3 DEF SnapshotsLoad
    <3>2. n \in 0..count2
      BY <1>1
    <3>3. d.live => n >= tv2
      BY <1>5, <3>1
    <3> QED
      BY <1>3, <3>1, <3>2, <3>3
  <2> QED
    BY <2>2, <2>3 DEF SnapshotsLoad
<1>6. ASSUME c.lane \in {"submit", "transition"} PROVE ChangeCall(d, now2)
  <2>1. ChangeCall(c, now)
    BY <1>6 DEF DatasetCall
  <2>2. d.reply = Waiting \/ Refuses(d) \/ \E s : TellsCases(d, now2, s)
    BY <1>2, <2>1 DEF ChangeCall, Refuses
  <2> QED
    BY <1>1, <2>1, <2>2 DEF ChangeCall
<1>7. ASSUME c.lane = "create" PROVE CreateCall(d, count2)
  <2>1. CreateCall(c, count)
    BY <1>7 DEF DatasetCall
  <2> QED
    BY <1>1, <1>3, <2>1 DEF CreateCall, Refuses
<1> QED
  BY <1>4, <1>5, <1>6, <1>7 DEF DatasetCall

LEMMA DatasetCallsGrow ==
  ASSUME NEW now, NEW count, NEW now2, NEW count2, Later(now, count, now2, count2),
         NEW tc, NEW tv, NEW cp, NEW vp,
         NEW calls, DatasetCalls(calls, now, count, tc, tv, cp, vp)
  PROVE  DatasetCalls(calls, now2, count2, tc, tv, cp, vp)
<1>1. ASSUME NEW c \in calls PROVE DatasetCall(c, now2, count2, tc, tv, cp, vp)
  <2>1. IsCall(c) /\ DatasetCall(c, now, count, tc, tv, cp, vp)
    BY DEF DatasetCalls, AreCalls
  <2> QED
    BY <2>1, DatasetCallCopy
<1> QED
  BY <1>1 DEF DatasetCalls

LEMMA LaterReflexive ==
  ASSUME NEW now \in Seq(Rows), NEW count \in Nat
  PROVE  Later(now, count, now, count)
  BY CoversReflexive DEF Later

(* The calls of the lane a call is sent in are no longer wanted: they need *)
(* not tell what the page has been told since, nor be of the page chosen.  *)
LEMMA DatasetCallsSent ==
  ASSUME NEW now \in Seq(Rows), NEW count \in Nat,
         NEW tc, NEW tv, NEW cp, NEW vp, NEW tc2, NEW tv2, NEW cp2, NEW vp2,
         NEW calls, DatasetCalls(calls, now, count, tc, tv, cp, vp),
         NEW lane, NEW arg, DatasetCall(Call(lane, arg), now, count, tc2, tv2, cp2, vp2),
         lane = "cases" \/ (tc2 = tc /\ cp2 = cp), lane = "versions" \/ (tv2 = tv /\ vp2 = vp),
         NEW k, k = Sent(calls, lane, arg)
  PROVE  DatasetCalls(k, now, count, tc2, tv2, cp2, vp2)
<1>1. /\ AreCalls(k) /\ OneLive(k)
      /\ \A d \in k :
           \/ d = Call(lane, arg)
           \/ /\ \E c \in calls : d.lane = c.lane /\ d.arg = c.arg /\ d.reply = c.reply
              /\ d.lane = lane => ~d.live
              /\ d.lane # lane => d \in calls
  BY SentCalls DEF DatasetCalls
<1>2. ASSUME NEW d \in k, d # Call(lane, arg)
      PROVE  DatasetCall(d, now, count, tc2, tv2, cp2, vp2)
  <2>1. IsCall(d)
    BY <1>1 DEF AreCalls
  <2>2. PICK c \in calls : /\ d.lane = c.lane /\ d.arg = c.arg /\ d.reply = c.reply
                           /\ d.live => c.live
                           /\ c.lane = lane => ~d.live
    BY <1>1, <1>2
  <2>3. DatasetCall(c, now, count, tc, tv, cp, vp)
    BY DEF DatasetCalls
  <2>4. c.lane = "cases" => (tc2 = tc /\ cp2 = cp) \/ ~d.live
    BY <2>2
  <2>5. c.lane = "versions" => (tv2 = tv /\ vp2 = vp) \/ ~d.live
    BY <2>2
  <2>6. Later(now, count, now, count)
    BY LaterReflexive
  <2> QED
    BY <2>1, <2>2, <2>3, <2>4, <2>5, <2>6, DatasetCallCopy
<1> QED
  BY <1>1, <1>2 DEF DatasetCalls

LEMMA DatasetCallsFewer ==
  ASSUME NEW now, NEW count, NEW tc, NEW tv, NEW cp, NEW vp,
         NEW calls, DatasetCalls(calls, now, count, tc, tv, cp, vp), NEW k, k \subseteq calls
  PROVE  DatasetCalls(k, now, count, tc, tv, cp, vp)
  BY DEF DatasetCalls, AreCalls, OneLive

LEMMA DatasetCallsEndedMutation ==
  ASSUME NEW now \in Seq(Rows), NEW count \in Nat, NEW tc, NEW tv, NEW cp, NEW vp,
         NEW calls, DatasetCalls(calls, now, count, tc, tv, cp, vp),
         NEW c \in calls, NEW k, k = EndedMutation(calls, c)
  PROVE  DatasetCalls(k, now, count, tc, tv, cp, vp)
<1>1. /\ AreCalls(k) /\ OneLive(k)
      /\ \A d \in k : \/ d \in calls /\ d # c
                      \/ /\ ~d.live /\ d.lane = c.lane /\ d.arg = c.arg /\ d.reply = c.reply
                         /\ c.reply = Waiting
  BY EndedMutationCalls DEF DatasetCalls
<1>2. ASSUME NEW d \in k, d \notin calls PROVE DatasetCall(d, now, count, tc, tv, cp, vp)
  <2>1. IsCall(d) /\ ~d.live /\ d.lane = c.lane /\ d.arg = c.arg /\ d.reply = c.reply
    BY <1>1, <1>2 DEF AreCalls
  <2>2. DatasetCall(c, now, count, tc, tv, cp, vp)
    BY DEF DatasetCalls
  <2>3. Later(now, count, now, count)
    BY LaterReflexive
  <2> QED
    BY <2>1, <2>2, <2>3, DatasetCallCopy
<1> QED
  BY <1>1, <1>2 DEF DatasetCalls

LEMMA DatasetCallsServed ==
  ASSUME NEW now, NEW count, NEW tc, NEW tv, NEW cp, NEW vp,
         NEW calls, DatasetCalls(calls, now, count, tc, tv, cp, vp),
         NEW c \in calls, NEW answer, NEW k, k = Served(calls, c, answer),
         \A d : IsCall(d) /\ ServedBy(d, c, answer)
                  => DatasetCall(d, now, count, tc, tv, cp, vp)
  PROVE  DatasetCalls(k, now, count, tc, tv, cp, vp)
<1>1. /\ AreCalls(k) /\ OneLive(k)
      /\ \A d \in k : (d \in calls /\ d # c) \/ ServedBy(d, c, answer)
  BY ServedFacts DEF DatasetCalls
<1> QED
  BY <1>1 DEF DatasetCalls, AreCalls

-----------------------------------------------------------------------------
(* ---- What holds up its actions, and what it signals. ------------------ *)

SubmitLanes == {"submit"}
SubmitLoads == {<<"cases", "submit">>}
TransitLanes == {"transition"}
TransitLoads == {<<"cases", "transition">>, <<"cases", "refused">>}
CreateLanes == {"create"}
CreateLoads == {<<"versions", "create">>}

DatasetTokens(u) ==
  /\ OneHolds(u.calls, SubmitLanes, SubmitLoads)
  /\ NoneHolds(u.calls, SubmitLanes, SubmitLoads) \/ u.submitting
  /\ OneHolds(u.calls, TransitLanes, TransitLoads)
  /\ NoneHolds(u.calls, TransitLanes, TransitLoads) \/ u.acting # 0
  /\ OneHolds(u.calls, CreateLanes, CreateLoads)
  /\ NoneHolds(u.calls, CreateLanes, CreateLoads) \/ u.creating

\* The calls that hold up the transition and are wanted are of this page,
\* and the reloads among them put its error back.
TransitsAt(calls, n) ==
  \A c \in calls : Holds(c, TransitLanes, TransitLoads) /\ c.live => c.arg.page = n
TransitsRefused(calls) ==
  \A c \in calls : Holds(c, TransitLanes, TransitLoads) => c.arg.by = "refused"

\* Of what is signalled nothing but the errors of the lists has changed.
SameTransits(k, calls) ==
  /\ \A n : TransitsAt(calls, n) => TransitsAt(k, n)
  /\ TransitsRefused(calls) => TransitsRefused(k)

(* An error that signals a failure stays until the next act: what would    *)
(* clear it is not under way, or puts it back.                             *)
DatasetSignals(u) ==
  /\ "submit" \in u.failed => u.formError
  /\ "transition" \in u.failed \cup u.alone =>
       ~u.submitting /\ ~u.creating /\ TransitsAt(u.calls, u.cases.page)
  /\ "transition" \in u.failed => (u.cases.error \/ u.acting # 0) /\ TransitsRefused(u.calls)
  /\ "create" \in u.failed \cup u.alone => ~u.submitting /\ u.acting = 0
  /\ "create" \in u.failed => u.versions.error /\ ~u.creating

DatasetTypes(u, now, count) ==
  /\ u.dataset \in {None, "active", "inactive"}
  /\ u.cases.seen \in Seq(Rows) /\ Dataset!Covers(now, u.cases.seen)
  /\ Reaches(u.cases.page, Len(now))
  /\ u.versions.seen \in 0..count /\ Reaches(u.versions.page, count)
  /\ u.editing \in 0..Len(now) /\ u.acting \in 0..Len(now)
  /\ u.toldCases \in Seq(Rows) /\ Dataset!Covers(now, u.toldCases)
  /\ u.toldVersions \in 0..count

\* What stands before the reload of a list that was told of something, or
\* turned: the calls of the list's lane may not have it.
DatasetReady(u, now, count, toldCases, toldVersions, casesPage, versionsPage) ==
  /\ IsDatasetPage(u)
  /\ DatasetCalls(u.calls, now, count, toldCases, toldVersions, casesPage, versionsPage)
  /\ DatasetTokens(u) /\ DatasetTypes(u, now, count)

DatasetBase(u, now, count) ==
  /\ DatasetReady(u, now, count, u.toldCases, u.toldVersions, u.cases.page, u.versions.page)
  /\ DatasetSignals(u)

CasesListed(u) ==
  \/ u.cases.refreshing \/ u.cases.error \/ Pending(u.calls, "transition")
  \/ u.cases.rows = u.cases.page /\ Dataset!Covers(u.cases.seen, u.toldCases)

SnapshotsListed(u) ==
  \/ u.versions.refreshing \/ u.versions.error \/ Pending(u.calls, "create")
  \/ u.versions.rows = u.versions.page /\ u.versions.seen >= u.toldVersions

DatasetInv(u, now, count) == DatasetBase(u, now, count) /\ CasesListed(u) /\ SnapshotsListed(u)
-----------------------------------------------------------------------------
(* What a call that is sent leaves of what is signalled.                   *)
LEMMA SentTransits ==
  ASSUME NEW calls, AreCalls(calls), NEW lane, NEW arg, NEW k, k = Sent(calls, lane, arg)
  PROVE  /\ ~Holds(Call(lane, arg), TransitLanes, TransitLoads) => SameTransits(k, calls)
         /\ NoneHolds(calls, TransitLanes, TransitLoads) =>
              TransitsAt(k, arg.page) /\ (arg.by = "refused" => TransitsRefused(k))
<1> DEFINE new == Call(lane, arg)
<1>1. \A d \in k : \/ d = new
                   \/ \E c \in calls : IsCall(c) /\ d = GivenUp(c, {lane})
  <2>1. \A d \in k : d = new \/ \E c \in calls : d = GivenUp(c, {lane})
    BY DEF Sent, Aborted, GivenUp
  <2> QED
    BY <2>1 DEF AreCalls
<1>2. IsCall(new) /\ new.lane = lane /\ new.arg = arg
  BY CallFields
<1> HIDE DEF new
<1>3. ASSUME NEW d \in k, d # new, Holds(d, TransitLanes, TransitLoads)
      PROVE  \E c \in calls : /\ Holds(c, TransitLanes, TransitLoads)
                              /\ d.arg = c.arg /\ (d.live => c.live)
  <2>1. PICK c \in calls : IsCall(c) /\ d = GivenUp(c, {lane})
    BY <1>1, <1>3
  <2>2. Holds(c, TransitLanes, TransitLoads)
    BY <1>3, <2>1, GivenUpHolds
  <2>3. /\ IsCall(d) /\ d.lane = c.lane /\ d.arg = c.arg /\ d.reply = c.reply
        /\ c.lane \in {lane} => ~d.live
        /\ c.lane \notin {lane} => d = c
    BY <2>1, GivenUpFields
  <2> QED
    BY <2>2, <2>3
<1>4. ASSUME ~Holds(new, TransitLanes, TransitLoads)
      PROVE  SameTransits(k, calls)
  <2>1. \A n : TransitsAt(calls, n) => TransitsAt(k, n)
    BY <1>3, <1>4 DEF TransitsAt
  <2>2. TransitsRefused(calls) => TransitsRefused(k)
    BY <1>3, <1>4 DEF TransitsRefused
  <2> QED
    BY <2>1, <2>2 DEF SameTransits
<1>5. ASSUME NoneHolds(calls, TransitLanes, TransitLoads)
      PROVE  TransitsAt(k, arg.page) /\ (arg.by = "refused" => TransitsRefused(k))
  <2>1. \A d \in k : Holds(d, TransitLanes, TransitLoads) => d = new
    BY <1>3, <1>5 DEF NoneHolds
  <2> QED
    BY <1>2, <2>1 DEF TransitsAt, TransitsRefused
<1> QED
  BY <1>4, <1>5 DEF new

LEMMA DatasetTokensSent ==
  ASSUME NEW u, AreCalls(u.calls), DatasetTokens(u), NEW lane, NEW arg,
         NEW v, v.calls = Sent(u.calls, lane, arg),
         u.submitting => v.submitting, u.acting # 0 => v.acting # 0, u.creating => v.creating,
         Holds(Call(lane, arg), SubmitLanes, SubmitLoads) =>
           NoneHolds(u.calls, SubmitLanes, SubmitLoads) /\ v.submitting,
         Holds(Call(lane, arg), TransitLanes, TransitLoads) =>
           NoneHolds(u.calls, TransitLanes, TransitLoads) /\ v.acting # 0,
         Holds(Call(lane, arg), CreateLanes, CreateLoads) =>
           NoneHolds(u.calls, CreateLanes, CreateLoads) /\ v.creating
  PROVE  DatasetTokens(v)
<1> DEFINE new == Call(lane, arg)
           k == Sent(u.calls, lane, arg)
<1>1. /\ OneHolds(k, SubmitLanes, SubmitLoads)
      /\ ~Holds(new, SubmitLanes, SubmitLoads) /\ NoneHolds(u.calls, SubmitLanes, SubmitLoads)
              => NoneHolds(k, SubmitLanes, SubmitLoads)
  BY SentHolds DEF DatasetTokens
<1>2. /\ OneHolds(k, TransitLanes, TransitLoads)
      /\ ~Holds(new, TransitLanes, TransitLoads) /\ NoneHolds(u.calls, TransitLanes, TransitLoads)
              => NoneHolds(k, TransitLanes, TransitLoads)
  BY SentHolds DEF DatasetTokens
<1>3. /\ OneHolds(k, CreateLanes, CreateLoads)
      /\ ~Holds(new, CreateLanes, CreateLoads) /\ NoneHolds(u.calls, CreateLanes, CreateLoads)
              => NoneHolds(k, CreateLanes, CreateLoads)
  BY SentHolds DEF DatasetTokens
<1> HIDE DEF new, k
<1>4. v.calls = k
  BY DEF k
<1>5. /\ Holds(new, SubmitLanes, SubmitLoads) => v.submitting
      /\ Holds(new, TransitLanes, TransitLoads) => v.acting # 0
      /\ Holds(new, CreateLanes, CreateLoads) => v.creating
  BY DEF new
<1>6. NoneHolds(k, SubmitLanes, SubmitLoads) \/ v.submitting
  BY <1>1, <1>5 DEF DatasetTokens
<1>7. NoneHolds(k, TransitLanes, TransitLoads) \/ v.acting # 0
  BY <1>2, <1>5 DEF DatasetTokens
<1>8. NoneHolds(k, CreateLanes, CreateLoads) \/ v.creating
  BY <1>3, <1>5 DEF DatasetTokens
<1> QED
  BY <1>1, <1>2, <1>3, <1>4, <1>6, <1>7, <1>8 DEF DatasetTokens

(* Fewer calls hold up no more.                                            *)
LEMMA FewerHolds ==
  ASSUME NEW calls, NEW k, k \subseteq calls
  PROVE  /\ \A lanes, loads : OneHolds(calls, lanes, loads) => OneHolds(k, lanes, loads)
         /\ \A lanes, loads : NoneHolds(calls, lanes, loads) => NoneHolds(k, lanes, loads)
         /\ SameTransits(k, calls)
  BY DEF OneHolds, NoneHolds, SameTransits, TransitsAt, TransitsRefused

-----------------------------------------------------------------------------
(* ---- Its loads. ------------------------------------------------------- *)

LEMMA LoadDatasetReady ==
  ASSUME NEW now \in Seq(Rows), NEW count \in Nat, NEW tc, NEW tv, NEW cp, NEW vp,
         NEW u, DatasetReady(u, now, count, tc, tv, cp, vp),
         NEW by, by \in {"effect", "retry"}, NEW v, v = Dataset!LoadDataset(u, by)
  PROVE  /\ DatasetReady(v, now, count, tc, tv, cp, vp)
         /\ SameForm(v, u) /\ SameMemory(v, u) /\ v.cases = u.cases /\ v.versions = u.versions
         /\ SameTransits(v.calls, u.calls)
         /\ CasesListed(u) => CasesListed(v)
         /\ SnapshotsListed(u) => SnapshotsListed(v)
<1> DEFINE arg == Dataset!Arg(1, 0, by)
           new == Call("dataset", arg)
           k == Sent(u.calls, "dataset", arg)
<1>1. /\ IsDatasetPage(v) /\ SameForm(v, u) /\ SameMemory(v, u)
      /\ v.cases = u.cases /\ v.versions = u.versions /\ v.calls = k
  BY LoadDatasetIs DEF DatasetReady
<1>2. arg.by = by
  BY DEF Dataset!Arg
<1>3. IsCall(new) /\ new.lane = "dataset" /\ new.arg = arg /\ new.reply = Waiting /\ new.live
  BY CallFields
<1>4. DatasetCalls(u.calls, now, count, tc, tv, cp, vp) /\ AreCalls(u.calls) /\ DatasetTokens(u)
  BY DEF DatasetReady, DatasetCalls
<1> HIDE DEF arg, new, k
<1>5. DatasetCall(new, now, count, tc, tv, cp, vp)
  BY <1>2, <1>3 DEF DatasetCall
<1>6. DatasetCalls(k, now, count, tc, tv, cp, vp)
  BY <1>4, <1>5, DatasetCallsSent DEF k, new
<1>7. /\ ~Holds(new, SubmitLanes, SubmitLoads) /\ ~Holds(new, TransitLanes, TransitLoads)
      /\ ~Holds(new, CreateLanes, CreateLoads)
  BY <1>3 DEF Holds, SubmitLanes, SubmitLoads, TransitLanes, TransitLoads, CreateLanes, CreateLoads
<1>8. DatasetTokens(v)
  <2>1. u.submitting => v.submitting
    BY <1>1 DEF SameForm
  <2>2. u.acting # 0 => v.acting # 0
    BY <1>1 DEF SameForm
  <2>3. u.creating => v.creating
    BY <1>1 DEF SameForm
  <2> QED
    BY <1>1, <1>4, <1>7, <2>1, <2>2, <2>3, DatasetTokensSent DEF k, new
<1>9. DatasetTypes(v, now, count)
  BY <1>1 DEF DatasetReady, DatasetTypes, SameForm, SameMemory
<1>10. SameTransits(k, u.calls)
  BY <1>4, <1>7, SentTransits DEF k, new
<1>11. \A l : l # "dataset" /\ Pending(u.calls, l) => Pending(k, l)
  <2>1. \A c \in u.calls : c.lane # "dataset" => c \in k
    BY <1>4, SentCalls DEF k
  <2> QED
    BY <2>1 DEF Pending
<1>12. CasesListed(u) => CasesListed(v)
  BY <1>1, <1>11 DEF CasesListed, SameMemory
<1>13. SnapshotsListed(u) => SnapshotsListed(v)
  BY <1>1, <1>11 DEF SnapshotsListed, SameMemory
<1> QED
  BY <1>1, <1>6, <1>8, <1>9, <1>10, <1>12, <1>13 DEF DatasetReady

LEMMA LoadCasesReady ==
  ASSUME NEW now \in Seq(Rows), NEW count \in Nat, NEW tc, NEW tv, NEW cp, NEW vp,
         NEW u, DatasetReady(u, now, count, tc, tv, cp, vp),
         NEW n, Reaches(n, Len(now)),
         NEW by, by \in {"effect", "retry", "submit", "transition", "refused"},
         n = u.cases.page \/ by \in {"transition", "refused"},
         by = "submit" => NoneHolds(u.calls, SubmitLanes, SubmitLoads) /\ u.submitting,
         by \in {"transition", "refused"} =>
           NoneHolds(u.calls, TransitLanes, TransitLoads) /\ u.acting # 0,
         NEW v, v = Dataset!LoadCases(u, n, by)
  PROVE  /\ DatasetReady(v, now, count, u.toldCases, tv, u.cases.page, vp)
         /\ SameForm(v, u) /\ SameMemory(v, u)
         /\ v.cases.page = u.cases.page /\ v.versions = u.versions
         /\ by \notin {"transition", "refused"} => SameTransits(v.calls, u.calls)
         /\ by \in {"transition", "refused"} => TransitsAt(v.calls, n)
         /\ by = "refused" => TransitsRefused(v.calls)
         /\ CasesListed(v)
         /\ SnapshotsListed(u) => SnapshotsListed(v)
<1> DEFINE arg == Dataset!Arg(n, 0, by)
           new == Call("cases", arg)
           k == Sent(u.calls, "cases", arg)
<1>1. /\ IsDatasetPage(v) /\ SameForm(v, u) /\ SameMemory(v, u)
      /\ v.cases.page = u.cases.page /\ v.cases.seen = u.cases.seen /\ v.cases.refreshing
      /\ v.versions = u.versions /\ v.calls = k
  BY LoadCasesIs DEF DatasetReady
<1>2. arg.by = by /\ arg.page = n
  BY DEF Dataset!Arg
<1>3. IsCall(new) /\ new.lane = "cases" /\ new.arg = arg /\ new.reply = Waiting /\ new.live
  BY CallFields
<1>4. DatasetCalls(u.calls, now, count, tc, tv, cp, vp) /\ AreCalls(u.calls) /\ DatasetTokens(u)
  BY DEF DatasetReady, DatasetCalls
<1> HIDE DEF arg, new, k
<1>5. DatasetCall(new, now, count, u.toldCases, tv, u.cases.page, vp)
  <2>1. CasesLoad(new, now, u.toldCases, u.cases.page)
    BY <1>2, <1>3 DEF CasesLoad
  <2> QED
    BY <1>3, <2>1 DEF DatasetCall
<1>6. DatasetCalls(k, now, count, u.toldCases, tv, u.cases.page, vp)
  BY <1>4, <1>5, DatasetCallsSent DEF k, new
<1>7. /\ Holds(new, SubmitLanes, SubmitLoads) => by = "submit"
      /\ Holds(new, TransitLanes, TransitLoads) => by \in {"transition", "refused"}
      /\ ~Holds(new, CreateLanes, CreateLoads)
  BY <1>2, <1>3
     DEF Holds, SubmitLanes, SubmitLoads, TransitLanes, TransitLoads, CreateLanes, CreateLoads
<1>8. DatasetTokens(v)
  <2>1. u.submitting => v.submitting
    BY <1>1 DEF SameForm
  <2>2. u.acting # 0 => v.acting # 0
    BY <1>1 DEF SameForm
  <2>3. u.creating => v.creating
    BY <1>1 DEF SameForm
  <2>4. Holds(new, SubmitLanes, SubmitLoads) =>
          NoneHolds(u.calls, SubmitLanes, SubmitLoads) /\ v.submitting
    BY <1>7, <2>1
  <2>5. Holds(new, TransitLanes, TransitLoads) =>
          NoneHolds(u.calls, TransitLanes, TransitLoads) /\ v.acting # 0
    BY <1>7, <2>2
  <2> QED
    BY <1>1, <1>4, <1>7, <2>1, <2>2, <2>3, <2>4, <2>5, DatasetTokensSent DEF k, new
<1>9. DatasetTypes(v, now, count)
  BY <1>1 DEF DatasetReady, DatasetTypes, SameForm, SameMemory
<1>10. /\ by \notin {"transition", "refused"} => SameTransits(k, u.calls)
       /\ by \in {"transition", "refused"} => TransitsAt(k, n)
       /\ by = "refused" => TransitsRefused(k)
  BY <1>2, <1>4, <1>7, SentTransits DEF k, new
<1>11. \A l : l # "cases" /\ Pending(u.calls, l) => Pending(k, l)
  <2>1. \A c \in u.calls : c.lane # "cases" => c \in k
    BY <1>4, SentCalls DEF k
  <2> QED
    BY <2>1 DEF Pending
<1>12. CasesListed(v)
  BY <1>1 DEF CasesListed
<1>13. SnapshotsListed(u) => SnapshotsListed(v)
  BY <1>1, <1>11 DEF SnapshotsListed, SameMemory
<1> QED
  BY <1>1, <1>6, <1>8, <1>9, <1>10, <1>12, <1>13 DEF DatasetReady

LEMMA LoadSnapshotsReady ==
  ASSUME NEW now \in Seq(Rows), NEW count \in Nat, NEW tc, NEW tv, NEW cp, NEW vp,
         NEW u, DatasetReady(u, now, count, tc, tv, cp, vp),
         NEW n, Reaches(n, count), n = u.versions.page,
         NEW by, by \in {"effect", "retry", "create"},
         by = "create" => NoneHolds(u.calls, CreateLanes, CreateLoads) /\ u.creating,
         NEW v, v = Dataset!LoadVersions(u, n, by)
  PROVE  /\ DatasetReady(v, now, count, tc, u.toldVersions, cp, u.versions.page)
         /\ SameForm(v, u) /\ SameMemory(v, u)
         /\ v.versions.page = u.versions.page /\ v.cases = u.cases
         /\ SameTransits(v.calls, u.calls)
         /\ SnapshotsListed(v)
         /\ CasesListed(u) => CasesListed(v)
<1> DEFINE arg == Dataset!Arg(n, 0, by)
           new == Call("versions", arg)
           k == Sent(u.calls, "versions", arg)
<1>1. /\ IsDatasetPage(v) /\ SameForm(v, u) /\ SameMemory(v, u)
      /\ v.versions.page = u.versions.page /\ v.versions.seen = u.versions.seen
      /\ v.versions.refreshing /\ v.cases = u.cases /\ v.calls = k
  BY LoadSnapshotsIs DEF DatasetReady
<1>2. arg.by = by /\ arg.page = n
  BY DEF Dataset!Arg
<1>3. IsCall(new) /\ new.lane = "versions" /\ new.arg = arg /\ new.reply = Waiting /\ new.live
  BY CallFields
<1>4. DatasetCalls(u.calls, now, count, tc, tv, cp, vp) /\ AreCalls(u.calls) /\ DatasetTokens(u)
  BY DEF DatasetReady, DatasetCalls
<1> HIDE DEF arg, new, k
<1>5. DatasetCall(new, now, count, tc, u.toldVersions, cp, u.versions.page)
  <2>1. SnapshotsLoad(new, count, u.toldVersions, u.versions.page)
    BY <1>2, <1>3 DEF SnapshotsLoad
  <2> QED
    BY <1>3, <2>1 DEF DatasetCall
<1>6. DatasetCalls(k, now, count, tc, u.toldVersions, cp, u.versions.page)
  BY <1>4, <1>5, DatasetCallsSent DEF k, new
<1>7. /\ ~Holds(new, SubmitLanes, SubmitLoads) /\ ~Holds(new, TransitLanes, TransitLoads)
      /\ Holds(new, CreateLanes, CreateLoads) => by = "create"
  BY <1>2, <1>3
     DEF Holds, SubmitLanes, SubmitLoads, TransitLanes, TransitLoads, CreateLanes, CreateLoads
<1>8. DatasetTokens(v)
  <2>1. u.submitting => v.submitting
    BY <1>1 DEF SameForm
  <2>2. u.acting # 0 => v.acting # 0
    BY <1>1 DEF SameForm
  <2>3. u.creating => v.creating
    BY <1>1 DEF SameForm
  <2>4. Holds(new, CreateLanes, CreateLoads) =>
          NoneHolds(u.calls, CreateLanes, CreateLoads) /\ v.creating
    BY <1>7, <2>3
  <2> QED
    BY <1>1, <1>4, <1>7, <2>1, <2>2, <2>3, <2>4, DatasetTokensSent DEF k, new
<1>9. DatasetTypes(v, now, count)
  BY <1>1 DEF DatasetReady, DatasetTypes, SameForm, SameMemory
<1>10. SameTransits(k, u.calls)
  BY <1>4, <1>7, SentTransits DEF k, new
<1>11. \A l : l # "versions" /\ Pending(u.calls, l) => Pending(k, l)
  <2>1. \A c \in u.calls : c.lane # "versions" => c \in k
    BY <1>4, SentCalls DEF k
  <2> QED
    BY <2>1 DEF Pending
<1>12. SnapshotsListed(v)
  BY <1>1 DEF SnapshotsListed
<1>13. CasesListed(u) => CasesListed(v)
  BY <1>1, <1>11 DEF CasesListed, SameMemory
<1> QED
  BY <1>1, <1>6, <1>8, <1>9, <1>10, <1>12, <1>13 DEF DatasetReady

-----------------------------------------------------------------------------
(* ---- The effect of a page that was turned. ---------------------------- *)

(* Some of the calls are given up for good.                                *)
Remains(v, u) == \E k \in SUBSET u.calls : v = [u EXCEPT !.calls = k]

LEMMA FewerReady ==
  ASSUME NEW now, NEW count, NEW tc, NEW tv, NEW cp, NEW vp,
         NEW u, DatasetReady(u, now, count, tc, tv, cp, vp), NEW v, Remains(v, u)
  PROVE  /\ DatasetReady(v, now, count, tc, tv, cp, vp)
         /\ SameForm(v, u) /\ SameMemory(v, u) /\ v.cases = u.cases /\ v.versions = u.versions
         /\ SameTransits(v.calls, u.calls)
<1>1. PICK k \in SUBSET u.calls : v = [u EXCEPT !.calls = k]
  BY DEF Remains
<1>2. /\ IsDatasetPage(v) /\ SameForm(v, u) /\ SameMemory(v, u)
      /\ v.cases = u.cases /\ v.versions = u.versions /\ v.calls = k
  BY <1>1, DatasetCallsFields DEF DatasetReady
<1>3. DatasetCalls(k, now, count, tc, tv, cp, vp)
  BY DatasetCallsFewer DEF DatasetReady
<1>4. /\ \A lanes, loads : OneHolds(u.calls, lanes, loads) => OneHolds(k, lanes, loads)
      /\ \A lanes, loads : NoneHolds(u.calls, lanes, loads) => NoneHolds(k, lanes, loads)
      /\ SameTransits(k, u.calls)
  BY FewerHolds
<1>5. DatasetTokens(v)
  BY <1>2, <1>4 DEF DatasetReady, DatasetTokens, SameForm
<1>6. DatasetTypes(v, now, count)
  BY <1>2 DEF DatasetReady, DatasetTypes, SameForm, SameMemory
<1> QED
  BY <1>2, <1>3, <1>4, <1>5, <1>6 DEF DatasetReady

(* The effect reloads everything: no failure may be shown by the error of  *)
(* a list, which it clears, but one whose action is still to end.          *)
LEMMA EffectInv ==
  ASSUME NEW now \in Seq(Rows), NEW count \in Nat, NEW tc, NEW tv, NEW cp, NEW vp,
         NEW u, DatasetReady(u, now, count, tc, tv, cp, vp), DatasetSignals(u),
         "transition" \notin u.failed \cup u.alone, "create" \notin u.failed,
         NEW v, v = Dataset!Effect(u)
  PROVE  DatasetInv(v, now, count)
<1>1. PICK x : x = [u EXCEPT !.calls = {c \in u.calls : c.arg.by # "effect"}]
  OBVIOUS
<1>2. Remains(x, u)
  BY <1>1 DEF Remains
<1>3. PICK y : y = Dataset!LoadDataset(x, "effect")
  OBVIOUS
<1>4. PICK z : z = Dataset!LoadCases(y, u.cases.page, "effect")
  OBVIOUS
<1>5. v = Dataset!LoadVersions(z, u.versions.page, "effect")
  BY <1>1, <1>3, <1>4 DEF Dataset!Effect
<1>6. /\ DatasetReady(x, now, count, tc, tv, cp, vp)
      /\ SameForm(x, u) /\ SameMemory(x, u) /\ x.cases = u.cases /\ x.versions = u.versions
  BY <1>2, FewerReady
<1>7. /\ DatasetReady(y, now, count, tc, tv, cp, vp)
      /\ SameForm(y, x) /\ SameMemory(y, x) /\ y.cases = x.cases /\ y.versions = x.versions
  BY <1>3, <1>6, LoadDatasetReady
<1>8. Reaches(u.cases.page, Len(now)) /\ Reaches(u.versions.page, count)
  BY DEF DatasetReady, DatasetTypes
<1>9. /\ DatasetReady(z, now, count, y.toldCases, tv, y.cases.page, vp)
      /\ SameForm(z, y) /\ SameMemory(z, y)
      /\ z.cases.page = y.cases.page /\ z.versions = y.versions /\ CasesListed(z)
  BY <1>4, <1>6, <1>7, <1>8, LoadCasesReady
<1>10. u.versions.page = z.versions.page
  BY <1>6, <1>7, <1>9
<1>11. /\ DatasetReady(v, now, count, y.toldCases, z.toldVersions, y.cases.page, z.versions.page)
       /\ SameForm(v, z) /\ SameMemory(v, z)
       /\ v.versions.page = z.versions.page /\ v.cases = z.cases
       /\ SnapshotsListed(v) /\ (CasesListed(z) => CasesListed(v))
  BY <1>5, <1>8, <1>9, <1>10, LoadSnapshotsReady
<1>12. DatasetReady(v, now, count, v.toldCases, v.toldVersions, v.cases.page, v.versions.page)
  BY <1>9, <1>11 DEF SameMemory
<1>13. SameForm(v, u) /\ SameMemory(v, u)
  BY <1>6, <1>7, <1>9, <1>11 DEF SameForm, SameMemory
<1>14. DatasetSignals(v)
  BY <1>13 DEF DatasetSignals, SameForm, SameMemory
<1> QED
  BY <1>9, <1>11, <1>12, <1>14 DEF DatasetInv, DatasetBase

(* What is rendered next: if a page number has changed, the effect runs.   *)
LEMMA RenderedInv ==
  ASSUME NEW now \in Seq(Rows), NEW count \in Nat,
         NEW p, NEW u, NEW cp,
         DatasetReady(u, now, count, u.toldCases, u.toldVersions, cp, u.versions.page),
         DatasetSignals(u),
         \/ /\ cp = u.cases.page /\ CasesListed(u) /\ SnapshotsListed(u)
            /\ p.cases.page = u.cases.page /\ p.versions.page = u.versions.page
         \/ "transition" \notin u.failed \cup u.alone /\ "create" \notin u.failed
            /\ (cp = u.cases.page \/ cp = p.cases.page)
            /\ CasesListed(u) /\ SnapshotsListed(u),
         NEW v, v = Dataset!Rendered(p, u)
  PROVE  DatasetInv(v, now, count)
<1>1. CASE p.cases.page = u.cases.page /\ p.versions.page = u.versions.page
  <2>1. v = u
    BY <1>1 DEF Dataset!Rendered
  <2>2. cp = u.cases.page /\ CasesListed(u) /\ SnapshotsListed(u)
    BY <1>1
  <2> QED
    BY <2>1, <2>2 DEF DatasetInv, DatasetBase
<1>2. CASE ~(p.cases.page = u.cases.page /\ p.versions.page = u.versions.page)
  <2>1. v = Dataset!Effect(u)
    BY <1>2 DEF Dataset!Rendered
  <2>2. "transition" \notin u.failed \cup u.alone /\ "create" \notin u.failed
    BY <1>2
  <2> QED
    BY <2>1, <2>2, EffectInv
<1> QED
  BY <1>1, <1>2

-----------------------------------------------------------------------------
(* ---- A load that has ended. ------------------------------------------- *)

\* What a call that has ended held up is free.
DatasetFreed(c, u) ==
  /\ Holds(c, SubmitLanes, SubmitLoads) =>
       NoneHolds(u.calls, SubmitLanes, SubmitLoads) /\ u.submitting
  /\ Holds(c, TransitLanes, TransitLoads) =>
       NoneHolds(u.calls, TransitLanes, TransitLoads) /\ u.acting # 0
  /\ Holds(c, CreateLanes, CreateLoads) =>
       NoneHolds(u.calls, CreateLanes, CreateLoads) /\ u.creating

\* Of the calls one has ended: what stays of it holds up nothing.
Lessened(k, calls, c) ==
  /\ \A d \in k : \/ d \in calls /\ d # c
                  \/ ~d.live /\ <<d.lane, d.arg.by>> \notin SubmitLoads \cup TransitLoads \cup CreateLoads
  /\ \A d \in calls : d # c => d \in k

LEMMA LessenedHolds ==
  ASSUME NEW calls, NEW c, NEW k, Lessened(k, calls, c), NEW lanes, NEW loads,
         loads \subseteq SubmitLoads \cup TransitLoads \cup CreateLoads,
         OneHolds(calls, lanes, loads)
  PROVE  /\ OneHolds(k, lanes, loads)
         /\ NoneHolds(calls, lanes, loads) \/ (Holds(c, lanes, loads) /\ c \in calls)
              => NoneHolds(k, lanes, loads)
<1>1. ASSUME NEW d \in k, Holds(d, lanes, loads) PROVE d \in calls /\ d # c
  BY <1>1 DEF Lessened, Holds
<1> QED
  BY <1>1 DEF OneHolds, NoneHolds

Loses(u, p, c, now, count) ==
  \E k : /\ u = [p EXCEPT !.calls = k] /\ Lessened(k, p.calls, c)
         /\ DatasetCalls(k, now, count, p.toldCases, p.toldVersions,
                         p.cases.page, p.versions.page)

LEMMA DatasetLessened ==
  ASSUME NEW now \in Seq(Rows), NEW count \in Nat,
         NEW p, DatasetInv(p, now, count), NEW c \in p.calls,
         NEW u, Loses(u, p, c, now, count)
  PROVE  /\ DatasetBase(u, now, count)
         /\ c.lane # "transition" => CasesListed(u)
         /\ c.lane # "create" => SnapshotsListed(u)
         /\ SameForm(u, p) /\ SameMemory(u, p) /\ u.cases = p.cases /\ u.versions = p.versions
         /\ DatasetFreed(c, u)
<1>1. PICK k : /\ u = [p EXCEPT !.calls = k] /\ Lessened(k, p.calls, c)
               /\ DatasetCalls(k, now, count, p.toldCases, p.toldVersions,
                               p.cases.page, p.versions.page)
  BY DEF Loses
<1>2. /\ IsDatasetPage(u) /\ SameForm(u, p) /\ SameMemory(u, p)
      /\ u.cases = p.cases /\ u.versions = p.versions /\ u.calls = k
  <2>1. IsDatasetPage(p)
    BY DEF DatasetInv, DatasetBase, DatasetReady
  <2>2. u = [p EXCEPT !.calls = k]
    BY <1>1
  <2> QED
    BY <2>1, <2>2 DEF IsDatasetPage, SameForm, SameMemory
<1>3. DatasetTokens(p)
  BY DEF DatasetInv, DatasetBase, DatasetReady
<1>4. /\ OneHolds(k, SubmitLanes, SubmitLoads)
      /\ NoneHolds(p.calls, SubmitLanes, SubmitLoads) \/ Holds(c, SubmitLanes, SubmitLoads)
           => NoneHolds(k, SubmitLanes, SubmitLoads)
  BY <1>1, <1>3, LessenedHolds DEF DatasetTokens
<1>5. /\ OneHolds(k, TransitLanes, TransitLoads)
      /\ NoneHolds(p.calls, TransitLanes, TransitLoads) \/ Holds(c, TransitLanes, TransitLoads)
           => NoneHolds(k, TransitLanes, TransitLoads)
  BY <1>1, <1>3, LessenedHolds DEF DatasetTokens
<1>6. /\ OneHolds(k, CreateLanes, CreateLoads)
      /\ NoneHolds(p.calls, CreateLanes, CreateLoads) \/ Holds(c, CreateLanes, CreateLoads)
           => NoneHolds(k, CreateLanes, CreateLoads)
  BY <1>1, <1>3, LessenedHolds DEF DatasetTokens
<1>7. DatasetTokens(u)
  BY <1>2, <1>3, <1>4, <1>5, <1>6 DEF DatasetTokens, SameForm
<1>8. DatasetTypes(u, now, count)
  BY <1>2 DEF DatasetInv, DatasetBase, DatasetReady, DatasetTypes, SameForm, SameMemory
<1>9. SameTransits(k, p.calls)
  <2>1. ASSUME NEW d \in k, Holds(d, TransitLanes, TransitLoads) PROVE d \in p.calls
    BY <1>1, <2>1 DEF Lessened, Holds
  <2> QED
    BY <2>1 DEF SameTransits, TransitsAt, TransitsRefused
<1>10. DatasetSignals(u)
  BY <1>2, <1>9 DEF DatasetInv, DatasetBase, DatasetSignals, SameForm, SameMemory, SameTransits
<1>11. DatasetBase(u, now, count)
  BY <1>1, <1>2, <1>7, <1>8, <1>10 DEF DatasetBase, DatasetReady, SameMemory
<1>12. \A l : l # c.lane /\ Pending(p.calls, l) => Pending(k, l)
  BY <1>1 DEF Pending, Lessened
<1>13. c.lane # "transition" => CasesListed(u)
  BY <1>2, <1>12 DEF DatasetInv, CasesListed, SameMemory
<1>14. c.lane # "create" => SnapshotsListed(u)
  BY <1>2, <1>12 DEF DatasetInv, SnapshotsListed, SameMemory
<1>15. DatasetFreed(c, u)
  <2>1. Holds(c, SubmitLanes, SubmitLoads) => p.submitting
    BY <1>3 DEF DatasetTokens, NoneHolds
  <2>2. Holds(c, TransitLanes, TransitLoads) => p.acting # 0
    BY <1>3 DEF DatasetTokens, NoneHolds
  <2>3. Holds(c, CreateLanes, CreateLoads) => p.creating
    BY <1>3 DEF DatasetTokens, NoneHolds
  <2> QED
    BY <1>2, <1>4, <1>5, <1>6, <2>1, <2>2, <2>3 DEF DatasetFreed, SameForm
<1> QED
  BY <1>2, <1>11, <1>13, <1>14, <1>15

(* The page once a call has ended, and what that was.                      *)
DatasetAfter(u, p, c, now, count) ==
  /\ DatasetBase(u, now, count)
  /\ c.lane # "transition" => CasesListed(u)
  /\ c.lane # "create" => SnapshotsListed(u)
  /\ SameForm(u, p) /\ SameMemory(u, p) /\ u.cases = p.cases /\ u.versions = p.versions
  /\ DatasetFreed(c, u)
  /\ DatasetCall(c, now, count, u.toldCases, u.toldVersions, u.cases.page, u.versions.page)

LEMMA DatasetEnded ==
  ASSUME NEW now \in Seq(Rows), NEW count \in Nat,
         NEW p, DatasetInv(p, now, count), NEW c \in p.calls,
         NEW u, \/ /\ u = [p EXCEPT !.calls = Dataset!Ended(@, c)]
                   /\ c.lane \in {"dataset", "cases", "versions"}
                \/ /\ u = [p EXCEPT !.calls = Dataset!EndedMutation(@, c)]
                   /\ c.lane \in {"submit", "transition", "create"}
  PROVE  DatasetAfter(u, p, c, now, count)
<1>1. /\ IsDatasetPage(p) /\ AreCalls(p.calls)
      /\ DatasetCalls(p.calls, now, count, p.toldCases, p.toldVersions, p.cases.page, p.versions.page)
  BY DEF DatasetInv, DatasetBase, DatasetReady, DatasetCalls
<1>2. DatasetCall(c, now, count, p.toldCases, p.toldVersions, p.cases.page, p.versions.page)
  BY <1>1 DEF DatasetCalls
<1>3. Loses(u, p, c, now, count)
  <2>1. CASE u = [p EXCEPT !.calls = Dataset!Ended(@, c)]
    <3>1. PICK k : k = Ended(p.calls, c)
      OBVIOUS
    <3>2. k = p.calls \ {c}
      BY <3>1 DEF Ended
    <3>3. Lessened(k, p.calls, c)
      BY <3>2 DEF Lessened
    <3>4. DatasetCalls(k, now, count, p.toldCases, p.toldVersions, p.cases.page, p.versions.page)
      BY <1>1, <3>2, DatasetCallsFewer
    <3>5. u = [p EXCEPT !.calls = k]
      BY <1>1, <2>1, <3>1, DatasetRequests
    <3> QED
      BY <3>3, <3>4, <3>5 DEF Loses
  <2>2. CASE /\ u = [p EXCEPT !.calls = Dataset!EndedMutation(@, c)]
             /\ c.lane \in {"submit", "transition", "create"}
    <3>1. PICK k : k = EndedMutation(p.calls, c)
      OBVIOUS
    <3>2. /\ \A d \in k : \/ d \in p.calls /\ d # c
                          \/ ~d.live /\ d.lane = c.lane
          /\ \A d \in p.calls : d # c => d \in k
      BY <1>1, <3>1, EndedMutationCalls
    <3>3. Lessened(k, p.calls, c)
      BY <2>2, <3>2 DEF Lessened, SubmitLoads, TransitLoads, CreateLoads
    <3>4. DatasetCalls(k, now, count, p.toldCases, p.toldVersions, p.cases.page, p.versions.page)
      BY <1>1, <3>1, DatasetCallsEndedMutation
    <3>5. u = [p EXCEPT !.calls = k]
      BY <1>1, <2>2, <3>1, DatasetRequests
    <3> QED
      BY <3>3, <3>4, <3>5 DEF Loses
  <2> QED
    BY <2>1, <2>2
<1>4. /\ DatasetBase(u, now, count)
      /\ c.lane # "transition" => CasesListed(u)
      /\ c.lane # "create" => SnapshotsListed(u)
      /\ SameForm(u, p) /\ SameMemory(u, p) /\ u.cases = p.cases /\ u.versions = p.versions
      /\ DatasetFreed(c, u)
  BY <1>3, DatasetLessened
<1> QED
  BY <1>2, <1>4 DEF DatasetAfter, SameMemory

(* What the page gets of a call: an error, or the data of the server's     *)
(* answer.                                                                 *)
LEMMA DatasetOutcome ==
  ASSUME NEW c, c.reply = Waiting \/ Refuses(c) \/ \E s : c.reply = <<Answered(s)>>,
         NEW o \in Dataset!OutcomesOf(c), o.kind = "data"
  PROVE  c.reply = <<Answered(o.value)>> /\ c.reply # Waiting /\ ~Refuses(c)
<1>1. /\ c.reply = Waiting => o \in Lost
      /\ c.reply # Waiting => o \in Outcomes(c.reply[1])
  BY DatasetRequests, DatasetAnswers DEF Dataset!OutcomesOf
<1>2. o \notin Lost
  BY LostCalls
<1>3. ~Refuses(c)
  <2>1. SUFFICES ASSUME Refuses(c) PROVE FALSE
    OBVIOUS
  <2>2. PICK code : c.reply = <<Refused(409, code)>>
    BY <2>1 DEF Refuses
  <2>3. c.reply # Waiting /\ c.reply[1] = Refused(409, code)
    BY <2>2 DEF Waiting
  <2>4. o = request(Refused(409, code))
    BY <1>1, <1>2, <2>3 DEF Outcomes
  <2> QED
    BY <2>4, RefusedIsError
<1>4. PICK s : c.reply = <<Answered(s)>>
  BY <1>1, <1>2, <1>3
<1>5. c.reply # Waiting /\ c.reply[1] = Answered(s)
  BY <1>4 DEF Waiting
<1>6. o = Data(s)
  BY <1>1, <1>2, <1>5, AnsweredIsData DEF Outcomes
<1>7. Data(s).value = s
  BY DEF Data
<1> QED
  BY <1>3, <1>4, <1>5, <1>6, <1>7

LEMMA DatasetSeen ==
  ASSUME NEW s, NEW n
  PROVE  Dataset!Seen(s, n).cases = s /\ Dataset!Seen(s, n).versions = n
  BY DEF Dataset!Seen

-----------------------------------------------------------------------------
(* ---- It receives the dataset; what waited for a reload goes on. ------- *)

\* What an action waits for is as before.
SameBusy(v, u) ==
  /\ v.formError = u.formError /\ v.submitting = u.submitting
  /\ v.acting = u.acting /\ v.creating = u.creating

LEMMA DatasetFormKept ==
  ASSUME NEW now \in Seq(Rows), NEW count \in Nat,
         NEW u, DatasetInv(u, now, count), NEW v, IsDatasetPage(v),
         SameMemory(v, u), SameBusy(v, u),
         v.calls = u.calls, v.cases = u.cases, v.versions = u.versions,
         v.dataset \in {None, "active", "inactive"}, v.editing \in 0..Len(now)
  PROVE  DatasetInv(v, now, count)
<1>1. DatasetTokens(v)
  BY DEF DatasetInv, DatasetBase, DatasetReady, DatasetTokens, SameBusy
<1>2. DatasetTypes(v, now, count)
  BY DEF DatasetInv, DatasetBase, DatasetReady, DatasetTypes, SameBusy, SameMemory
<1>3. DatasetSignals(v)
  BY DEF DatasetInv, DatasetBase, DatasetSignals, SameBusy, SameMemory
<1>4. CasesListed(v) /\ SnapshotsListed(v)
  BY DEF DatasetInv, CasesListed, SnapshotsListed, SameMemory
<1>5. DatasetCalls(v.calls, now, count, v.toldCases, v.toldVersions, v.cases.page, v.versions.page)
  BY DEF DatasetInv, DatasetBase, DatasetReady, SameMemory
<1> QED
  BY <1>1, <1>2, <1>3, <1>4, <1>5 DEF DatasetInv, DatasetBase, DatasetReady

LEMMA ReceiveDatasetInv ==
  ASSUME NEW now \in Seq(Rows), NEW count \in Nat,
         NEW p, DatasetInv(p, now, count), NEW c \in p.calls, c.lane = "dataset",
         NEW u, u = [p EXCEPT !.calls = Dataset!Ended(@, c)],
         NEW o, NEW v, v = Dataset!DatasetLoaded(u, o)
  PROVE  DatasetInv(v, now, count)
<1>1. DatasetInv(u, now, count)
  <2>1. DatasetAfter(u, p, c, now, count)
    BY DatasetEnded
  <2> QED
    BY <2>1 DEF DatasetAfter, DatasetInv
<1>2. IsDatasetPage(u) /\ u.dataset \in {None, "active", "inactive"} /\ u.editing \in 0..Len(now)
  BY <1>1 DEF DatasetInv, DatasetBase, DatasetReady, DatasetTypes
<1>3. CASE o.kind = "data"
  <2>1. PICK d \in {"active", "inactive"} : d = IF o.value THEN "active" ELSE "inactive"
    OBVIOUS
  <2>2. v = [u EXCEPT !.dataset = d]
    BY <1>3, <2>1 DEF Dataset!DatasetLoaded
  <2>3. /\ IsDatasetPage(v) /\ SameMemory(v, u) /\ SameBusy(v, u)
        /\ v.calls = u.calls /\ v.cases = u.cases /\ v.versions = u.versions
        /\ v.dataset = d /\ v.editing = u.editing
    BY <1>2, <2>2 DEF IsDatasetPage, SameMemory, SameBusy
  <2> QED
    BY <1>1, <1>2, <2>3, DatasetFormKept
<1>4. CASE o.kind # "data" /\ u.dataset = None
  <2>1. v = [u EXCEPT !.datasetError = o]
    BY <1>4 DEF Dataset!DatasetLoaded
  <2>2. /\ IsDatasetPage(v) /\ SameMemory(v, u) /\ SameBusy(v, u)
        /\ v.calls = u.calls /\ v.cases = u.cases /\ v.versions = u.versions
        /\ v.dataset = u.dataset /\ v.editing = u.editing
    BY <1>2, <2>1 DEF IsDatasetPage, SameMemory, SameBusy
  <2> QED
    BY <1>1, <1>2, <2>2, DatasetFormKept
<1>5. CASE ~(o.kind = "data") /\ ~(o.kind # "data" /\ u.dataset = None)
  <2>1. v = u
    BY <1>5 DEF Dataset!DatasetLoaded
  <2> QED
    BY <1>1, <2>1
<1> QED
  BY <1>3, <1>4, <1>5

\* What waited for the reload is free, and it may end.
ThenFree(c, u) ==
  /\ c.arg.by = "submit" => NoneHolds(u.calls, SubmitLanes, SubmitLoads)
  /\ c.arg.by \in {"transition", "refused"} => NoneHolds(u.calls, TransitLanes, TransitLoads)
  /\ c.arg.by = "create" => NoneHolds(u.calls, CreateLanes, CreateLoads)
  /\ c.arg.by = "transition" => "transition" \notin u.failed

\* A page on which a list may have been turned and is not yet reloaded.
DatasetTurned(u, now, count, cp) ==
  /\ DatasetReady(u, now, count, u.toldCases, u.toldVersions, cp, u.versions.page)
  /\ DatasetSignals(u) /\ CasesListed(u) /\ SnapshotsListed(u)

\* The pages chosen are the same, and what is remembered.
SamePages(v, u) ==
  v.cases.page = u.cases.page /\ v.versions.page = u.versions.page /\ SameMemory(v, u)

LEMMA ThenTurned ==
  ASSUME NEW now \in Seq(Rows), NEW count \in Nat, NEW cp,
         NEW u, DatasetTurned(u, now, count, cp), NEW c, ThenFree(c, u),
         NEW v, v = Dataset!Then(u, c.arg.by)
  PROVE  DatasetTurned(v, now, count, cp) /\ SamePages(v, u)
<1> DEFINE yes == TRUE
           no == FALSE
<1>1. /\ IsDatasetPage(u) /\ DatasetTokens(u) /\ DatasetTypes(u, now, count)
      /\ DatasetCalls(u.calls, now, count, u.toldCases, u.toldVersions, cp, u.versions.page)
      /\ DatasetSignals(u) /\ CasesListed(u) /\ SnapshotsListed(u)
  BY DEF DatasetTurned, DatasetReady
<1>2. 0 \in 0..Len(now)
  OBVIOUS
<1>3. CASE c.arg.by = "submit"
  <2>1. v = [u EXCEPT !.submitting = no]
    BY <1>3 DEF Dataset!Then
  <2>2. ~no
    OBVIOUS
  <2> HIDE DEF no
  <2>3. /\ IsDatasetPage(v) /\ v.calls = u.calls /\ v.cases = u.cases /\ v.versions = u.versions
        /\ SameMemory(v, u) /\ v.dataset = u.dataset /\ v.editing = u.editing
        /\ v.formError = u.formError /\ v.acting = u.acting /\ v.creating = u.creating
        /\ v.submitting = no
    BY <1>1, <2>1 DEF IsDatasetPage, SameMemory
  <2>4. DatasetTokens(v)
    BY <1>1, <1>3, <2>3 DEF DatasetTokens, ThenFree
  <2>5. DatasetTypes(v, now, count)
    BY <1>1, <2>3 DEF DatasetTypes, SameMemory
  <2>6. DatasetSignals(v)
    BY <1>1, <2>2, <2>3 DEF DatasetSignals, SameMemory
  <2>7. CasesListed(v) /\ SnapshotsListed(v)
    BY <1>1, <2>3 DEF CasesListed, SnapshotsListed, SameMemory
  <2>8. DatasetCalls(v.calls, now, count, v.toldCases, v.toldVersions, cp, v.versions.page)
    BY <1>1, <2>3 DEF SameMemory
  <2> QED
    BY <2>3, <2>4, <2>5, <2>6, <2>7, <2>8 DEF DatasetTurned, DatasetReady, SamePages
<1>4. CASE c.arg.by = "create"
  <2>1. v = [u EXCEPT !.creating = no]
    BY <1>4 DEF Dataset!Then
  <2>2. ~no
    OBVIOUS
  <2> HIDE DEF no
  <2>3. /\ IsDatasetPage(v) /\ v.calls = u.calls /\ v.cases = u.cases /\ v.versions = u.versions
        /\ SameMemory(v, u) /\ v.dataset = u.dataset /\ v.editing = u.editing
        /\ v.formError = u.formError /\ v.acting = u.acting /\ v.submitting = u.submitting
        /\ v.creating = no
    BY <1>1, <2>1 DEF IsDatasetPage, SameMemory
  <2>4. DatasetTokens(v)
    BY <1>1, <1>4, <2>3 DEF DatasetTokens, ThenFree
  <2>5. DatasetTypes(v, now, count)
    BY <1>1, <2>3 DEF DatasetTypes, SameMemory
  <2>6. DatasetSignals(v)
    BY <1>1, <2>2, <2>3 DEF DatasetSignals, SameMemory
  <2>7. CasesListed(v) /\ SnapshotsListed(v)
    BY <1>1, <2>3 DEF CasesListed, SnapshotsListed, SameMemory
  <2>8. DatasetCalls(v.calls, now, count, v.toldCases, v.toldVersions, cp, v.versions.page)
    BY <1>1, <2>3 DEF SameMemory
  <2> QED
    BY <2>3, <2>4, <2>5, <2>6, <2>7, <2>8 DEF DatasetTurned, DatasetReady, SamePages
<1>5. CASE c.arg.by = "transition"
  <2>1. v = [u EXCEPT !.acting = 0]
    BY <1>5 DEF Dataset!Then
  <2>2. /\ IsDatasetPage(v) /\ v.calls = u.calls /\ v.cases = u.cases /\ v.versions = u.versions
        /\ SameMemory(v, u) /\ v.dataset = u.dataset /\ v.editing = u.editing
        /\ v.formError = u.formError /\ v.submitting = u.submitting /\ v.creating = u.creating
        /\ v.acting = 0
    BY <1>1, <2>1 DEF IsDatasetPage, SameMemory
  <2>3. DatasetTokens(v)
    BY <1>1, <1>5, <2>2 DEF DatasetTokens, ThenFree
  <2>4. DatasetTypes(v, now, count)
    BY <1>1, <1>2, <2>2 DEF DatasetTypes, SameMemory
  <2>5. DatasetSignals(v)
    BY <1>1, <1>5, <2>2 DEF DatasetSignals, SameMemory, ThenFree
  <2>6. CasesListed(v) /\ SnapshotsListed(v)
    BY <1>1, <2>2 DEF CasesListed, SnapshotsListed, SameMemory
  <2>7. DatasetCalls(v.calls, now, count, v.toldCases, v.toldVersions, cp, v.versions.page)
    BY <1>1, <2>2 DEF SameMemory
  <2> QED
    BY <2>2, <2>3, <2>4, <2>5, <2>6, <2>7 DEF DatasetTurned, DatasetReady, SamePages
<1>6. CASE c.arg.by = "refused"
  <2>1. PICK w : w = [u.cases EXCEPT !.error = yes]
    OBVIOUS
  <2>2. v = [u EXCEPT !.acting = 0, !.cases = w]
    BY <1>1, <1>6, <2>1 DEF Dataset!Then, IsDatasetPage
  <2>3. yes
    OBVIOUS
  <2> HIDE DEF yes
  <2>4. IsList(w) /\ w.page = u.cases.page /\ w.seen = u.cases.seen /\ w.error = yes
    BY <1>1, <2>1 DEF IsDatasetPage, IsList
  <2>5. /\ IsDatasetPage(v) /\ v.calls = u.calls /\ v.cases = w /\ v.versions = u.versions
        /\ SameMemory(v, u) /\ v.dataset = u.dataset /\ v.editing = u.editing
        /\ v.formError = u.formError /\ v.submitting = u.submitting /\ v.creating = u.creating
        /\ v.acting = 0
    BY <1>1, <2>2, <2>4 DEF IsDatasetPage, SameMemory
  <2>6. DatasetTokens(v)
    BY <1>1, <1>6, <2>5 DEF DatasetTokens, ThenFree
  <2>7. DatasetTypes(v, now, count)
    BY <1>1, <1>2, <2>5, <2>4 DEF DatasetTypes, SameMemory
  <2>8. DatasetSignals(v)
    BY <1>1, <2>3, <2>5, <2>4 DEF DatasetSignals, SameMemory
  <2>9. CasesListed(v) /\ SnapshotsListed(v)
    BY <1>1, <2>3, <2>5, <2>4 DEF CasesListed, SnapshotsListed, SameMemory
  <2>10. DatasetCalls(v.calls, now, count, v.toldCases, v.toldVersions, cp, v.versions.page)
    BY <1>1, <2>5 DEF SameMemory
  <2> QED
    BY <2>5, <2>6, <2>7, <2>8, <2>9, <2>10, <2>4 DEF DatasetTurned, DatasetReady, SamePages
<1>7. CASE c.arg.by \notin {"submit", "create", "transition", "refused"}
  <2>1. v = u
    BY <1>7 DEF Dataset!Then
  <2> QED
    BY <2>1 DEF SamePages, SameMemory
<1> QED
  BY <1>3, <1>4, <1>5, <1>6, <1>7

-----------------------------------------------------------------------------
(* ---- A list that was read, or could not be. --------------------------- *)

\* A reload an action waits for holds it up, and puts the error of one
\* that failed back.
LEMMA LoadEnded ==
  ASSUME NEW now \in Seq(Rows), NEW count \in Nat,
         NEW p, DatasetInv(p, now, count), NEW c \in p.calls, c.lane \in {"cases", "versions"},
         NEW u, u = [p EXCEPT !.calls = Dataset!Ended(@, c)]
  PROVE  /\ DatasetTurned(u, now, count, u.cases.page) /\ SamePages(u, p) /\ ThenFree(c, u)
         /\ c.lane = "cases" => CasesLoad(c, now, u.toldCases, u.cases.page)
         /\ c.lane = "versions" => SnapshotsLoad(c, count, u.toldVersions, u.versions.page)
         /\ c.arg.by \in {"transition", "refused"} => Holds(c, TransitLanes, TransitLoads)
         /\ c.arg.by \in {"transition", "refused"} => u.acting # 0
<1>1. /\ DatasetBase(u, now, count) /\ CasesListed(u) /\ SnapshotsListed(u)
      /\ SameMemory(u, p) /\ u.cases = p.cases /\ u.versions = p.versions /\ DatasetFreed(c, u)
      /\ DatasetCall(c, now, count, u.toldCases, u.toldVersions, u.cases.page, u.versions.page)
  <2>1. \/ /\ u = [p EXCEPT !.calls = Dataset!Ended(@, c)]
           /\ c.lane \in {"dataset", "cases", "versions"}
        \/ /\ u = [p EXCEPT !.calls = Dataset!EndedMutation(@, c)]
           /\ c.lane \in {"submit", "transition", "create"}
    OBVIOUS
  <2>2. DatasetAfter(u, p, c, now, count)
    BY <2>1, DatasetEnded
  <2> QED
    BY <2>2 DEF DatasetAfter
<1>2. /\ c.lane = "cases" => CasesLoad(c, now, u.toldCases, u.cases.page)
      /\ c.lane = "versions" => SnapshotsLoad(c, count, u.toldVersions, u.versions.page)
  BY <1>1 DEF DatasetCall
<1>3. /\ c.arg.by = "submit" => Holds(c, SubmitLanes, SubmitLoads)
      /\ c.arg.by \in {"transition", "refused"} => Holds(c, TransitLanes, TransitLoads)
      /\ c.arg.by = "create" => Holds(c, CreateLanes, CreateLoads)
  BY <1>2 DEF CasesLoad, SnapshotsLoad, Holds, SubmitLoads, TransitLoads, CreateLoads
<1>4. c.arg.by = "transition" => "transition" \notin u.failed
  <2>1. "transition" \in p.failed => TransitsRefused(p.calls)
    BY DEF DatasetInv, DatasetBase, DatasetSignals
  <2> QED
    BY <1>1, <1>3, <2>1 DEF TransitsRefused, SameMemory
<1>5. ThenFree(c, u)
  BY <1>1, <1>3, <1>4 DEF ThenFree, DatasetFreed
<1>6. DatasetTurned(u, now, count, u.cases.page) /\ SamePages(u, p)
  BY <1>1 DEF DatasetTurned, DatasetBase, SamePages
<1>7. c.arg.by \in {"transition", "refused"} => u.acting # 0
  BY <1>1, <1>3 DEF DatasetFreed
<1> QED
  BY <1>2, <1>3, <1>5, <1>6, <1>7

LEMMA RenderedTurned ==
  ASSUME NEW now \in Seq(Rows), NEW count \in Nat, NEW p, NEW u,
         DatasetTurned(u, now, count, p.cases.page),
         \/ u.cases.page = p.cases.page /\ u.versions.page = p.versions.page
         \/ "transition" \notin u.failed \cup u.alone /\ "create" \notin u.failed,
         NEW v, v = Dataset!Rendered(p, u)
  PROVE  DatasetInv(v, now, count)
<1>1. /\ DatasetReady(u, now, count, u.toldCases, u.toldVersions, p.cases.page, u.versions.page)
      /\ DatasetSignals(u) /\ CasesListed(u) /\ SnapshotsListed(u)
  BY DEF DatasetTurned
<1>2. \/ /\ p.cases.page = u.cases.page /\ CasesListed(u) /\ SnapshotsListed(u)
         /\ p.cases.page = u.cases.page /\ p.versions.page = u.versions.page
      \/ "transition" \notin u.failed \cup u.alone /\ "create" \notin u.failed
         /\ (p.cases.page = u.cases.page \/ p.cases.page = p.cases.page)
         /\ CasesListed(u) /\ SnapshotsListed(u)
  BY <1>1
<1> QED
  BY <1>1, <1>2, RenderedInv

\* Beside its lists the page is the same.
SameBut(v, u) ==
  /\ IsDatasetPage(v) /\ v.calls = u.calls /\ v.dataset = u.dataset /\ v.editing = u.editing
  /\ SameBusy(v, u) /\ SameMemory(v, u)

WithCases(x, u, w) == x = [u EXCEPT !.cases = w]
WithVersions(x, u, w) == x = [u EXCEPT !.versions = w]

LEMMA CasesListIs ==
  ASSUME NEW u, IsDatasetPage(u), NEW w, IsList(w), NEW x, x = [u EXCEPT !.cases = w]
  PROVE  SameBut(x, u) /\ x.cases = w /\ x.versions = u.versions
  BY DEF SameBut, IsDatasetPage, SameBusy, SameMemory

LEMMA VersionsListIs ==
  ASSUME NEW u, IsDatasetPage(u), NEW w, IsList(w), NEW x, x = [u EXCEPT !.versions = w]
  PROVE  SameBut(x, u) /\ x.versions = w /\ x.cases = u.cases
  BY DEF SameBut, IsDatasetPage, SameBusy, SameMemory

\* A list whose read has ended: it has an error, or what the page was told.
CasesRead(w, u, now) ==
  /\ w.error = u.cases.error \/ w.error
  /\ w.error \/ (w.rows = w.page /\ Dataset!Covers(w.seen, u.toldCases))
  /\ w.seen \in Seq(Rows) /\ Dataset!Covers(now, w.seen) /\ Reaches(w.page, Len(now))
  /\ w.page = u.cases.page \/ NoneHolds(u.calls, TransitLanes, TransitLoads)
SnapshotsRead(w, u, count) ==
  /\ w.error = u.versions.error \/ w.error
  /\ w.error \/ (w.rows = w.page /\ w.seen >= u.toldVersions)
  /\ w.seen \in 0..count /\ w.page = u.versions.page

(* The page whose list of cases has been read, or not.                     *)
LEMMA CasesLoadedTurned ==
  ASSUME NEW now \in Seq(Rows), NEW count \in Nat,
         NEW u, DatasetTurned(u, now, count, u.cases.page),
         NEW w, IsList(w), NEW x, WithCases(x, u, w),
         CasesRead(w, u, now)
  PROVE  DatasetTurned(x, now, count, u.cases.page) /\ SameBut(x, u)
         /\ x.cases = w /\ x.versions = u.versions
<1>1. SameBut(x, u) /\ x.cases = w /\ x.versions = u.versions
  BY CasesListIs DEF DatasetTurned, DatasetReady, WithCases
<1>2. DatasetTokens(x)
  BY <1>1 DEF DatasetTurned, DatasetReady, DatasetTokens, SameBut, SameBusy
<1>3. DatasetTypes(x, now, count)
  BY <1>1 DEF DatasetTurned, DatasetReady, DatasetTypes, SameBut, SameBusy, SameMemory, CasesRead
<1>4. DatasetSignals(x)
  <2>1. TransitsAt(u.calls, u.cases.page) => TransitsAt(x.calls, x.cases.page)
    BY <1>1 DEF SameBut, TransitsAt, NoneHolds, CasesRead
  <2>2. u.cases.error => x.cases.error
    BY <1>1 DEF CasesRead
  <2> QED
    BY <1>1, <2>1, <2>2 DEF DatasetTurned, DatasetSignals, SameBut, SameBusy, SameMemory
<1>5. CasesListed(x) /\ SnapshotsListed(x)
  BY <1>1 DEF DatasetTurned, CasesListed, SnapshotsListed, SameBut, SameMemory, CasesRead
<1>6. DatasetCalls(x.calls, now, count, x.toldCases, x.toldVersions, u.cases.page, x.versions.page)
  BY <1>1 DEF DatasetTurned, DatasetReady, SameBut, SameMemory
<1> QED
  BY <1>1, <1>2, <1>3, <1>4, <1>5, <1>6 DEF DatasetTurned, DatasetReady, SameBut

LEMMA VersionsLoadedTurned ==
  ASSUME NEW now \in Seq(Rows), NEW count \in Nat,
         NEW u, DatasetTurned(u, now, count, u.cases.page),
         NEW w, IsList(w), NEW x, WithVersions(x, u, w),
         SnapshotsRead(w, u, count)
  PROVE  DatasetTurned(x, now, count, u.cases.page) /\ SameBut(x, u)
         /\ x.versions = w /\ x.cases = u.cases
<1>1. SameBut(x, u) /\ x.versions = w /\ x.cases = u.cases
  BY VersionsListIs DEF DatasetTurned, DatasetReady, WithVersions
<1>2. DatasetTokens(x)
  BY <1>1 DEF DatasetTurned, DatasetReady, DatasetTokens, SameBut, SameBusy
<1>3. DatasetTypes(x, now, count)
  BY <1>1 DEF DatasetTurned, DatasetReady, DatasetTypes, SameBut, SameBusy, SameMemory, SnapshotsRead
<1>4. DatasetSignals(x)
  BY <1>1 DEF DatasetTurned, DatasetSignals, SameBut, SameBusy, SameMemory, SnapshotsRead
<1>5. CasesListed(x) /\ SnapshotsListed(x)
  BY <1>1 DEF DatasetTurned, CasesListed, SnapshotsListed, SameBut, SameMemory, SnapshotsRead
<1>6. DatasetCalls(x.calls, now, count, x.toldCases, x.toldVersions, u.cases.page, x.versions.page)
  BY <1>1 DEF DatasetTurned, DatasetReady, SameBut, SameMemory, SnapshotsRead
<1> QED
  BY <1>1, <1>2, <1>3, <1>4, <1>5, <1>6 DEF DatasetTurned, DatasetReady, SameBut

-----------------------------------------------------------------------------
(* ---- It receives a page of the cases and of the versions. ------------- *)

\* If the page of a list has changed, no failure is left to its error.
MayTurn(x, u) ==
  \/ x.cases.page = u.cases.page /\ x.versions.page = u.versions.page
  \/ "transition" \notin u.failed \cup u.alone /\ "create" \notin u.failed

LEMMA LoadReceived ==
  ASSUME NEW now \in Seq(Rows), NEW count \in Nat, NEW p, NEW c, NEW u,
         SamePages(u, p), ThenFree(c, u),
         NEW x, DatasetTurned(x, now, count, u.cases.page), SameBut(x, u), MayTurn(x, u),
         NEW v, v = Dataset!Rendered(p, Dataset!Then(x, c.arg.by))
  PROVE  DatasetInv(v, now, count)
<1>1. PICK y : y = Dataset!Then(x, c.arg.by)
  OBVIOUS
<1>2. ThenFree(c, x)
  BY DEF ThenFree, SameBut, SameMemory
<1>3. DatasetTurned(y, now, count, u.cases.page) /\ SamePages(y, x)
  BY <1>1, <1>2, ThenTurned
<1>4. u.cases.page = p.cases.page
  BY DEF SamePages
<1>5. \/ y.cases.page = p.cases.page /\ y.versions.page = p.versions.page
      \/ "transition" \notin y.failed \cup y.alone /\ "create" \notin y.failed
  BY <1>3 DEF MayTurn, SamePages, SameMemory, SameBut
<1>6. v = Dataset!Rendered(p, y)
  BY <1>1
<1>7. DatasetTurned(y, now, count, p.cases.page)
  BY <1>3, <1>4
<1> QED
  BY <1>5, <1>6, <1>7, RenderedTurned

LEMMA ListFailedIs ==
  ASSUME NEW w, IsList(w), NEW y, y = Dataset!ListFailed(w)
  PROVE  /\ IsList(y) /\ y.page = w.page /\ y.seen = w.seen /\ y.error
<1> DEFINE yes == TRUE
           no == FALSE
<1>1. y = [w EXCEPT !.refreshing = no, !.error = yes]
  BY DEF Dataset!ListFailed
<1>2. yes
  OBVIOUS
<1> HIDE DEF yes, no
<1> QED
  BY <1>1, <1>2 DEF IsList

LEMMA LoadedIs ==
  ASSUME NEW w, IsList(w), NEW total \in Nat, NEW n, Reaches(n, total), NEW seen,
         NEW y, y = Dataset!Loaded(w, n, seen, total)
  PROVE  /\ IsList(y) /\ y.page = n /\ y.rows = n /\ y.seen = seen /\ y.error = w.error
<1> DEFINE no == FALSE
<1>1. ~(n > (total + Size - 1) \div Size)
  BY NotPastTheEnd
<1>2. total # 0
  <2>1. (n - 1) * Size >= 0 /\ (n - 1) * Size \in Int
    BY SizeAssumption DEF Reaches
  <2> QED
    BY <2>1 DEF Reaches
<1>3. y = [w EXCEPT !.rows = n, !.page = n, !.seen = seen, !.refreshing = no]
  BY <1>1, <1>2 DEF Dataset!Loaded
<1> HIDE DEF no
<1> QED
  BY <1>3 DEF IsList

\* The page with one of its lists read.
CasesLoadedOn(x, u, n, now, count) ==
  /\ DatasetTurned(x, now, count, u.cases.page) /\ SameBut(x, u)
  /\ x.versions = u.versions /\ x.cases.page \in {u.cases.page, n}
SnapshotsLoadedOn(x, u, now, count) ==
  /\ DatasetTurned(x, now, count, u.cases.page) /\ SameBut(x, u)
  /\ x.cases = u.cases /\ x.versions.page = u.versions.page

(* What the answer to a load that is wanted makes of the page.             *)
LEMMA CasesReceived ==
  ASSUME NEW now \in Seq(Rows), NEW count \in Nat,
         NEW u, DatasetTurned(u, now, count, u.cases.page), NEW c, c.live, ThenFree(c, u),
         CasesLoad(c, now, u.toldCases, u.cases.page),
         NEW o \in Dataset!OutcomesOf(c), NEW x, x = Dataset!CasesLoaded(u, c.arg.page, o)
  PROVE  CasesLoadedOn(x, u, c.arg.page, now, count)
<1>1. IsDatasetPage(u) /\ IsList(u.cases) /\ DatasetTypes(u, now, count)
  BY DEF DatasetTurned, DatasetReady, IsDatasetPage
<1>2. \E w : /\ WithCases(x, u, w) /\ IsList(w) /\ CasesRead(w, u, now)
             /\ w.page \in {u.cases.page, c.arg.page}
  <2>1. CASE o.kind # "data"
    <3>1. PICK w : w = Dataset!ListFailed(u.cases)
      OBVIOUS
    <3>2. WithCases(x, u, w)
      BY <1>1, <2>1, <3>1 DEF Dataset!CasesLoaded, IsDatasetPage, WithCases
    <3>3. IsList(w) /\ w.page = u.cases.page /\ w.seen = u.cases.seen /\ w.error
      BY <1>1, <3>1, ListFailedIs
    <3>4. CasesRead(w, u, now)
      BY <1>1, <3>3 DEF DatasetTypes, CasesRead
    <3> QED
      BY <3>2, <3>3, <3>4
  <2>2. CASE o.kind = "data"
    <3>1. c.reply = <<Answered(o.value)>> /\ c.reply # Waiting
      <4>1. c.reply = Waiting \/ Refuses(c) \/ \E s : c.reply = <<Answered(s)>>
        BY DEF CasesLoad, TellsCases
      <4> QED
        BY <2>2, <4>1, DatasetOutcome
    <3>2. PICK s : /\ TellsCases(c, now, s) /\ Reaches(c.arg.page, Len(s))
                   /\ Dataset!Covers(s, u.toldCases)
      BY <3>1 DEF CasesLoad
    <3>3. o.value = Dataset!Seen(s, 0)
      BY <3>1, <3>2, SameAnswer DEF TellsCases
    <3>4. o.value.cases = s
      BY <3>3, DatasetSeen
    <3>5. PICK total \in Nat : total = Len(s)
      BY <3>2 DEF TellsCases
    <3>6. PICK w : w = Dataset!Loaded(u.cases, c.arg.page, s, total)
      OBVIOUS
    <3>7. WithCases(x, u, w)
      BY <1>1, <2>2, <3>4, <3>5, <3>6 DEF Dataset!CasesLoaded, IsDatasetPage, WithCases
    <3>8. IsList(w) /\ w.page = c.arg.page /\ w.rows = c.arg.page /\ w.seen = s
            /\ w.error = u.cases.error
      BY <1>1, <3>2, <3>5, <3>6, LoadedIs
    <3>9. c.arg.page = u.cases.page \/ NoneHolds(u.calls, TransitLanes, TransitLoads)
      BY DEF CasesLoad, ThenFree
    <3>10. CasesRead(w, u, now)
      BY <3>2, <3>8, <3>9 DEF TellsCases, CasesLoad, CasesRead
    <3> QED
      BY <3>7, <3>8, <3>10
  <2> QED
    BY <2>1, <2>2
<1>3. PICK w : /\ WithCases(x, u, w) /\ IsList(w) /\ CasesRead(w, u, now)
               /\ w.page \in {u.cases.page, c.arg.page}
  BY <1>2
<1>4. /\ DatasetTurned(x, now, count, u.cases.page) /\ SameBut(x, u)
      /\ x.cases = w /\ x.versions = u.versions
  BY <1>3, CasesLoadedTurned
<1> QED
  BY <1>3, <1>4 DEF CasesLoadedOn

LEMMA SnapshotsReceived ==
  ASSUME NEW now \in Seq(Rows), NEW count \in Nat,
         NEW u, DatasetTurned(u, now, count, u.cases.page), NEW c, c.live,
         SnapshotsLoad(c, count, u.toldVersions, u.versions.page),
         NEW o \in Dataset!OutcomesOf(c), NEW x, x = Dataset!VersionsLoaded(u, c.arg.page, o)
  PROVE  SnapshotsLoadedOn(x, u, now, count)
<1>1. IsDatasetPage(u) /\ IsList(u.versions) /\ DatasetTypes(u, now, count)
  BY DEF DatasetTurned, DatasetReady, IsDatasetPage
<1>2. \E w : WithVersions(x, u, w) /\ IsList(w) /\ SnapshotsRead(w, u, count)
  <2>1. CASE o.kind # "data"
    <3>1. PICK w : w = Dataset!ListFailed(u.versions)
      OBVIOUS
    <3>2. WithVersions(x, u, w)
      BY <1>1, <2>1, <3>1 DEF Dataset!VersionsLoaded, IsDatasetPage, WithVersions
    <3>3. IsList(w) /\ w.page = u.versions.page /\ w.seen = u.versions.seen /\ w.error
      BY <1>1, <3>1, ListFailedIs
    <3>4. SnapshotsRead(w, u, count)
      BY <1>1, <3>3 DEF DatasetTypes, SnapshotsRead
    <3> QED
      BY <3>2, <3>3, <3>4
  <2>2. CASE o.kind = "data"
    <3>1. c.reply = <<Answered(o.value)>> /\ c.reply # Waiting
      <4>1. c.reply = Waiting \/ Refuses(c) \/ \E s : c.reply = <<Answered(s)>>
        BY DEF SnapshotsLoad, TellsVersions
      <4> QED
        BY <2>2, <4>1, DatasetOutcome
    <3>2. PICK n \in 0..count : /\ TellsVersions(c, n) /\ Reaches(c.arg.page, n)
                                /\ n >= u.toldVersions
      BY <3>1 DEF SnapshotsLoad
    <3>3. o.value = Dataset!Seen(<< >>, n)
      BY <3>1, <3>2, SameAnswer DEF TellsVersions
    <3>4. o.value.versions = n
      BY <3>3, DatasetSeen
    <3>5. PICK w : w = Dataset!Loaded(u.versions, c.arg.page, n, n)
      OBVIOUS
    <3>6. WithVersions(x, u, w)
      BY <1>1, <2>2, <3>4, <3>5 DEF Dataset!VersionsLoaded, IsDatasetPage, WithVersions
    <3>7. n \in Nat
      BY <3>2
    <3>8. IsList(w) /\ w.page = c.arg.page /\ w.rows = c.arg.page /\ w.seen = n
            /\ w.error = u.versions.error
      BY <1>1, <3>2, <3>5, <3>7, LoadedIs
    <3>9. SnapshotsRead(w, u, count)
      BY <3>2, <3>8 DEF SnapshotsLoad, SnapshotsRead
    <3> QED
      BY <3>6, <3>8, <3>9
  <2> QED
    BY <2>1, <2>2
<1>3. PICK w : WithVersions(x, u, w) /\ IsList(w) /\ SnapshotsRead(w, u, count)
  BY <1>2
<1>4. /\ DatasetTurned(x, now, count, u.cases.page) /\ SameBut(x, u)
      /\ x.versions = w /\ x.cases = u.cases
  BY <1>3, VersionsLoadedTurned
<1> QED
  BY <1>3, <1>4 DEF SnapshotsRead, SnapshotsLoadedOn

LEMMA ReceiveCasesInv ==
  ASSUME NEW now \in Seq(Rows), NEW count \in Nat,
         NEW p, DatasetInv(p, now, count), NEW c \in p.calls, c.lane = "cases",
         NEW u, u = [p EXCEPT !.calls = Dataset!Ended(@, c)], NEW o \in Dataset!OutcomesOf(c),
         NEW v, v = Dataset!Rendered(p, Dataset!Then(
                      IF Dataset!IsCurrent(c) THEN Dataset!CasesLoaded(u, c.arg.page, o) ELSE u,
                      c.arg.by))
  PROVE  DatasetInv(v, now, count)
<1>1. /\ DatasetTurned(u, now, count, u.cases.page) /\ SamePages(u, p) /\ ThenFree(c, u)
      /\ CasesLoad(c, now, u.toldCases, u.cases.page)
      /\ c.arg.by \in {"transition", "refused"} => Holds(c, TransitLanes, TransitLoads)
      /\ c.arg.by \in {"transition", "refused"} => u.acting # 0
  BY LoadEnded
<1>2. PICK x : /\ x = IF Dataset!IsCurrent(c) THEN Dataset!CasesLoaded(u, c.arg.page, o) ELSE u
  OBVIOUS
<1>3. v = Dataset!Rendered(p, Dataset!Then(x, c.arg.by))
  BY <1>2
<1>4. CASE ~c.live
  <2>1. x = u
    BY <1>2, <1>4 DEF Dataset!IsCurrent
  <2>2. SameBut(x, u) /\ MayTurn(x, u)
    BY <1>1, <2>1 DEF SameBut, SameBusy, SameMemory, MayTurn, DatasetTurned, DatasetReady
  <2>3. DatasetTurned(x, now, count, u.cases.page)
    BY <1>1, <2>1
  <2> QED
    BY <1>1, <1>3, <2>2, <2>3, LoadReceived
<1>5. CASE c.live
  <2>1. x = Dataset!CasesLoaded(u, c.arg.page, o)
    BY <1>2, <1>5 DEF Dataset!IsCurrent
  <2>2. /\ DatasetTurned(x, now, count, u.cases.page) /\ SameBut(x, u)
        /\ x.versions = u.versions /\ x.cases.page \in {u.cases.page, c.arg.page}
    <3>1. CasesLoadedOn(x, u, c.arg.page, now, count)
      BY <1>1, <1>5, <2>1, CasesReceived
    <3> QED
      BY <3>1 DEF CasesLoadedOn
  <2>3. ASSUME c.arg.page # u.cases.page PROVE MayTurn(x, u)
    <3>1. Holds(c, TransitLanes, TransitLoads) /\ u.acting # 0
      BY <1>1, <1>5, <2>3 DEF CasesLoad
    <3>2. "create" \notin u.failed
      BY <1>1, <3>1 DEF DatasetTurned, DatasetSignals
    <3>3. "transition" \in p.failed \cup p.alone => c.arg.page = p.cases.page
      BY <1>5, <3>1 DEF DatasetInv, DatasetBase, DatasetSignals, TransitsAt
    <3>4. "transition" \notin u.failed \cup u.alone
      BY <1>1, <2>3, <3>3 DEF SamePages, SameMemory
    <3> QED
      BY <3>2, <3>4 DEF MayTurn
  <2>4. MayTurn(x, u)
    BY <2>2, <2>3 DEF MayTurn
  <2> QED
    BY <1>1, <1>3, <2>2, <2>4, LoadReceived
<1> QED
  BY <1>4, <1>5

LEMMA ReceiveSnapshotsInv ==
  ASSUME NEW now \in Seq(Rows), NEW count \in Nat,
         NEW p, DatasetInv(p, now, count), NEW c \in p.calls, c.lane = "versions",
         NEW u, u = [p EXCEPT !.calls = Dataset!Ended(@, c)], NEW o \in Dataset!OutcomesOf(c),
         NEW v, v = Dataset!Rendered(p, Dataset!Then(
                      IF Dataset!IsCurrent(c) THEN Dataset!VersionsLoaded(u, c.arg.page, o) ELSE u,
                      c.arg.by))
  PROVE  DatasetInv(v, now, count)
<1>1. /\ DatasetTurned(u, now, count, u.cases.page) /\ SamePages(u, p) /\ ThenFree(c, u)
      /\ SnapshotsLoad(c, count, u.toldVersions, u.versions.page)
  BY LoadEnded
<1>2. PICK x : x = IF Dataset!IsCurrent(c) THEN Dataset!VersionsLoaded(u, c.arg.page, o) ELSE u
  OBVIOUS
<1>3. v = Dataset!Rendered(p, Dataset!Then(x, c.arg.by))
  BY <1>2
<1>4. CASE ~c.live
  <2>1. x = u
    BY <1>2, <1>4 DEF Dataset!IsCurrent
  <2>2. SameBut(x, u) /\ MayTurn(x, u)
    BY <1>1, <2>1 DEF SameBut, SameBusy, SameMemory, MayTurn, DatasetTurned, DatasetReady
  <2>3. DatasetTurned(x, now, count, u.cases.page)
    BY <1>1, <2>1
  <2> QED
    BY <1>1, <1>3, <2>2, <2>3, LoadReceived
<1>5. CASE c.live
  <2>1. x = Dataset!VersionsLoaded(u, c.arg.page, o)
    BY <1>2, <1>5 DEF Dataset!IsCurrent
  <2>2. /\ DatasetTurned(x, now, count, u.cases.page) /\ SameBut(x, u)
        /\ x.cases = u.cases /\ x.versions.page = u.versions.page
    <3>1. SnapshotsLoadedOn(x, u, now, count)
      BY <1>1, <1>5, <2>1, SnapshotsReceived
    <3> QED
      BY <3>1 DEF SnapshotsLoadedOn
  <2>3. MayTurn(x, u)
    BY <2>2 DEF MayTurn
  <2> QED
    BY <1>1, <1>3, <2>2, <2>3, LoadReceived
<1> QED
  BY <1>4, <1>5

-----------------------------------------------------------------------------
(* ---- A mutation that has ended. --------------------------------------- *)

\* The action whose call has ended is the only one of its kind, and the
\* page is as it was.
MutationAfter(u, p, c, now, count) ==
  /\ DatasetBase(u, now, count)
  /\ c.lane # "transition" => CasesListed(u)
  /\ c.lane # "create" => SnapshotsListed(u)
  /\ SameMemory(u, p) /\ u.cases = p.cases
  /\ c.lane = "submit" => NoneHolds(u.calls, SubmitLanes, SubmitLoads) /\ u.submitting
  /\ c.lane = "transition" =>
       /\ NoneHolds(u.calls, TransitLanes, TransitLoads) /\ u.acting # 0
       /\ "transition" \notin u.failed
       /\ "transition" \in u.alone => c.arg.page = u.cases.page
  /\ c.lane = "create" => NoneHolds(u.calls, CreateLanes, CreateLoads) /\ u.creating
  /\ c.lane \in {"submit", "transition"} => ChangeCall(c, now)
  /\ c.lane = "create" => CreateCall(c, count)

LEMMA DatasetMutationEnded ==
  ASSUME NEW now \in Seq(Rows), NEW count \in Nat,
         NEW p, DatasetInv(p, now, count), NEW c \in p.calls, c.live,
         c.lane \in {"submit", "transition", "create"},
         NEW u, u = [p EXCEPT !.calls = Dataset!EndedMutation(@, c)]
  PROVE  MutationAfter(u, p, c, now, count)
<1>1. /\ DatasetBase(u, now, count)
      /\ c.lane # "transition" => CasesListed(u)
      /\ c.lane # "create" => SnapshotsListed(u)
      /\ SameForm(u, p) /\ SameMemory(u, p) /\ u.cases = p.cases /\ u.versions = p.versions
      /\ DatasetFreed(c, u)
      /\ DatasetCall(c, now, count, u.toldCases, u.toldVersions, u.cases.page, u.versions.page)
  <2>1. \/ /\ u = [p EXCEPT !.calls = Dataset!Ended(@, c)]
           /\ c.lane \in {"dataset", "cases", "versions"}
        \/ /\ u = [p EXCEPT !.calls = Dataset!EndedMutation(@, c)]
           /\ c.lane \in {"submit", "transition", "create"}
    OBVIOUS
  <2>2. DatasetAfter(u, p, c, now, count)
    BY <2>1, DatasetEnded
  <2> QED
    BY <2>2 DEF DatasetAfter
<1>2. /\ c.lane = "submit" => Holds(c, SubmitLanes, SubmitLoads)
      /\ c.lane = "transition" => Holds(c, TransitLanes, TransitLoads)
      /\ c.lane = "create" => Holds(c, CreateLanes, CreateLoads)
  BY DEF Holds, SubmitLanes, TransitLanes, CreateLanes
<1>3. /\ c.lane \in {"submit", "transition"} => ChangeCall(c, now)
      /\ c.lane = "create" => CreateCall(c, count)
  BY <1>1 DEF DatasetCall
<1>4. ASSUME c.lane = "transition"
      PROVE  /\ "transition" \notin u.failed
             /\ "transition" \in u.alone => c.arg.page = u.cases.page
  <2>1. c.arg.by # "refused"
    BY <1>3, <1>4 DEF ChangeCall
  <2>2. "transition" \in p.failed => TransitsRefused(p.calls)
    BY DEF DatasetInv, DatasetBase, DatasetSignals
  <2>3. "transition" \in p.alone => TransitsAt(p.calls, p.cases.page)
    BY DEF DatasetInv, DatasetBase, DatasetSignals
  <2>4. "transition" \notin p.failed
    BY <1>2, <1>4, <2>1, <2>2 DEF TransitsRefused
  <2>5. "transition" \in p.alone => c.arg.page = p.cases.page
    BY <1>2, <1>4, <2>3 DEF TransitsAt
  <2> QED
    BY <1>1, <2>4, <2>5 DEF SameMemory
<1>5. c.lane = "submit" => NoneHolds(u.calls, SubmitLanes, SubmitLoads) /\ u.submitting
  BY <1>1, <1>2 DEF DatasetFreed
<1>6. c.lane = "transition" => NoneHolds(u.calls, TransitLanes, TransitLoads) /\ u.acting # 0
  BY <1>1, <1>2 DEF DatasetFreed
<1>7. c.lane = "create" => NoneHolds(u.calls, CreateLanes, CreateLoads) /\ u.creating
  BY <1>1, <1>2 DEF DatasetFreed
<1>8. c.lane = "transition" =>
       /\ NoneHolds(u.calls, TransitLanes, TransitLoads) /\ u.acting # 0
       /\ "transition" \notin u.failed
       /\ "transition" \in u.alone => c.arg.page = u.cases.page
  BY <1>4, <1>6
<1>9. /\ DatasetBase(u, now, count)
      /\ c.lane # "transition" => CasesListed(u)
      /\ c.lane # "create" => SnapshotsListed(u)
      /\ SameMemory(u, p) /\ u.cases = p.cases
  BY <1>1
<1>10. MutationAfter(u, p, c, now, count)
  BY <1>3, <1>5, <1>7, <1>8, <1>9 DEF MutationAfter
<1> QED
  BY <1>10

LEMMA RenderedAfter ==
  ASSUME NEW now \in Seq(Rows), NEW count \in Nat, NEW p, NEW u, DatasetInv(u, now, count),
         "transition" \notin u.failed \cup u.alone, "create" \notin u.failed,
         NEW v, v = Dataset!Rendered(p, u)
  PROVE  DatasetInv(v, now, count)
<1>1. CASE p.cases.page = u.cases.page /\ p.versions.page = u.versions.page
  BY <1>1 DEF Dataset!Rendered
<1>2. CASE ~(p.cases.page = u.cases.page /\ p.versions.page = u.versions.page)
  <2>1. v = Dataset!Effect(u)
    BY <1>2 DEF Dataset!Rendered
  <2>2. /\ DatasetReady(u, now, count, u.toldCases, u.toldVersions, u.cases.page, u.versions.page)
        /\ DatasetSignals(u)
    BY DEF DatasetInv, DatasetBase
  <2> QED
    BY <2>1, <2>2, EffectInv
<1> QED
  BY <1>1, <1>2

RemembersCases(x, u, now) ==
  \E told \in Seq(Rows) : Dataset!Covers(now, told) /\ x = [u EXCEPT !.toldCases = told]

(* What an answer tells of the cases is remembered, unless it is older.    *)
LEMMA ToldIs ==
  ASSUME NEW now \in Seq(Rows), NEW u, IsDatasetPage(u),
         u.toldCases \in Seq(Rows), Dataset!Covers(now, u.toldCases),
         NEW s \in Seq(Rows), Dataset!Covers(now, s), NEW x, x = Dataset!Told(u, s)
  PROVE  RemembersCases(x, u, now)
<1>1. CASE Dataset!Covers(u.toldCases, s)
  <2>1. x = [u EXCEPT !.toldCases = u.toldCases]
    BY <1>1 DEF Dataset!Told, IsDatasetPage
  <2> QED
    BY <2>1 DEF RemembersCases
<1>2. CASE ~Dataset!Covers(u.toldCases, s)
  <2>1. x = [u EXCEPT !.toldCases = s]
    BY <1>2 DEF Dataset!Told, IsDatasetPage
  <2> QED
    BY <2>1 DEF RemembersCases
<1> QED
  BY <1>1, <1>2

LEMMA ChangeTold ==
  ASSUME NEW now, NEW c, ChangeCall(c, now), NEW o \in Dataset!OutcomesOf(c), o.kind = "data"
  PROVE  o.value.cases \in Seq(Rows) /\ Dataset!Covers(now, o.value.cases)
<1>1. c.reply = Waiting \/ Refuses(c) \/ \E s : c.reply = <<Answered(s)>>
  BY DEF ChangeCall, TellsCases
<1>2. c.reply = <<Answered(o.value)>> /\ c.reply # Waiting /\ ~Refuses(c)
  BY <1>1, DatasetOutcome
<1>3. PICK s : TellsCases(c, now, s)
  BY <1>2 DEF ChangeCall
<1>4. o.value = Dataset!Seen(s, 0)
  BY <1>2, <1>3, SameAnswer DEF TellsCases
<1> QED
  BY <1>3, <1>4, DatasetSeen DEF TellsCases

LEMMA CreateTold ==
  ASSUME NEW count, NEW c, CreateCall(c, count), NEW o \in Dataset!OutcomesOf(c), o.kind = "data"
  PROVE  o.value.versions \in 0..count
<1>1. c.reply = Waiting \/ Refuses(c) \/ \E s : c.reply = <<Answered(s)>>
  BY DEF CreateCall, TellsVersions
<1>2. c.reply = <<Answered(o.value)>> /\ c.reply # Waiting /\ ~Refuses(c)
  BY <1>1, DatasetOutcome
<1>3. PICK n \in 0..count : TellsVersions(c, n)
  BY <1>2 DEF CreateCall
<1>4. o.value = Dataset!Seen(<< >>, n)
  BY <1>2, <1>3, SameAnswer DEF TellsVersions
<1> QED
  BY <1>3, <1>4, DatasetSeen

-----------------------------------------------------------------------------
(* ---- It receives the answer to a case that was submitted. ------------- *)

\* What the page holds before the reload that an action asks for.
SubmitTold(y, u, now) ==
  \E told, w :
    /\ told \in Seq(Rows) /\ Dataset!Covers(now, told) /\ w = [u.cases EXCEPT !.page = 1]
    /\ y = [u EXCEPT !.toldCases = told, !.editing = 0, !.cases = w]

LEMMA SubmitToldReady ==
  ASSUME NEW now \in Seq(Rows), NEW count \in Nat,
         NEW u, DatasetBase(u, now, count), u.submitting, NEW y, SubmitTold(y, u, now)
  PROVE  /\ DatasetReady(y, now, count, u.toldCases, u.toldVersions, u.cases.page, u.versions.page)
         /\ DatasetSignals(y) /\ y.calls = u.calls /\ y.cases.page = 1
         /\ y.versions = u.versions /\ y.toldVersions = u.toldVersions /\ y.submitting
         /\ "transition" \notin y.failed \cup y.alone /\ "create" \notin y.failed
         /\ SnapshotsListed(u) => SnapshotsListed(y)
<1>1. PICK told, w :
        /\ told \in Seq(Rows) /\ Dataset!Covers(now, told) /\ w = [u.cases EXCEPT !.page = 1]
        /\ y = [u EXCEPT !.toldCases = told, !.editing = 0, !.cases = w]
  BY DEF SubmitTold
<1>2. /\ IsDatasetPage(u) /\ IsList(u.cases) /\ DatasetTokens(u) /\ DatasetTypes(u, now, count)
      /\ DatasetCalls(u.calls, now, count, u.toldCases, u.toldVersions, u.cases.page, u.versions.page)
      /\ DatasetSignals(u)
  BY DEF DatasetBase, DatasetReady, IsDatasetPage
<1>3. IsList(w) /\ w.page = 1 /\ w.seen = u.cases.seen /\ w.error = u.cases.error
  BY <1>1, <1>2 DEF IsList
<1>4. /\ IsDatasetPage(y) /\ y.calls = u.calls /\ y.cases = w /\ y.versions = u.versions
      /\ SameBusy(y, u) /\ y.dataset = u.dataset /\ y.editing = 0
      /\ y.toldCases = told /\ y.toldVersions = u.toldVersions
      /\ y.alone = u.alone /\ y.failed = u.failed
  BY <1>1, <1>2, <1>3 DEF IsDatasetPage, SameBusy
<1>5. DatasetTokens(y)
  BY <1>2, <1>4 DEF DatasetTokens, SameBusy
<1>6. DatasetTypes(y, now, count)
  <2>1. Reaches(1, Len(now))
    <3>1. Len(now) \in Nat
      OBVIOUS
    <3> QED
      BY <1>2, <3>1, ReachesOne DEF DatasetTypes
  <2>2. 0 \in 0..Len(now)
    OBVIOUS
  <2> QED
    BY <1>1, <1>2, <1>3, <1>4, <2>1, <2>2 DEF DatasetTypes, SameBusy
<1>7. "transition" \notin y.failed \cup y.alone /\ "create" \notin y.failed \cup y.alone
  BY <1>2, <1>4 DEF DatasetSignals
<1>8. DatasetSignals(y)
  BY <1>2, <1>4, <1>7 DEF DatasetSignals, SameBusy
<1>9. SnapshotsListed(u) => SnapshotsListed(y)
  BY <1>4 DEF SnapshotsListed
<1>10. DatasetCalls(y.calls, now, count, u.toldCases, u.toldVersions, u.cases.page, u.versions.page)
  BY <1>2, <1>4
<1> QED
  BY <1>3, <1>4, <1>5, <1>6, <1>7, <1>8, <1>9, <1>10 DEF DatasetReady, SameBusy

LEMMA SubmitToldInv ==
  ASSUME NEW now \in Seq(Rows), NEW count \in Nat,
         NEW u, DatasetBase(u, now, count), SnapshotsListed(u), u.submitting,
         NoneHolds(u.calls, SubmitLanes, SubmitLoads), NEW y, SubmitTold(y, u, now),
         NEW p, NEW v, v = Dataset!Rendered(p, Dataset!LoadCases(y, 1, "submit"))
  PROVE  DatasetInv(v, now, count)
<1>1. /\ DatasetReady(y, now, count, u.toldCases, u.toldVersions, u.cases.page, u.versions.page)
      /\ DatasetSignals(y) /\ y.calls = u.calls /\ y.cases.page = 1
      /\ y.versions = u.versions /\ y.toldVersions = u.toldVersions /\ y.submitting
      /\ "transition" \notin y.failed \cup y.alone /\ "create" \notin y.failed
      /\ SnapshotsListed(y)
  BY SubmitToldReady
<1>2. PICK z : z = Dataset!LoadCases(y, 1, "submit")
  OBVIOUS
<1>3. Reaches(1, Len(now))
  BY <1>1 DEF DatasetReady, DatasetTypes
<1>4. /\ DatasetReady(z, now, count, y.toldCases, u.toldVersions, y.cases.page, u.versions.page)
      /\ SameForm(z, y) /\ SameMemory(z, y)
      /\ z.cases.page = y.cases.page /\ z.versions = y.versions
      /\ SameTransits(z.calls, y.calls) /\ CasesListed(z) /\ SnapshotsListed(z)
  BY <1>1, <1>2, <1>3, LoadCasesReady
<1>5. DatasetReady(z, now, count, z.toldCases, z.toldVersions, z.cases.page, z.versions.page)
  BY <1>1, <1>4 DEF SameMemory
<1>6. DatasetSignals(z)
  BY <1>1, <1>4 DEF DatasetSignals, SameForm, SameMemory
<1>7. DatasetInv(z, now, count)
  BY <1>4, <1>5, <1>6 DEF DatasetInv, DatasetBase
<1>8. "transition" \notin z.failed \cup z.alone /\ "create" \notin z.failed
  BY <1>1, <1>4 DEF SameMemory
<1>9. v = Dataset!Rendered(p, z)
  BY <1>2
<1> QED
  BY <1>7, <1>8, <1>9, RenderedAfter

LEMMA SubmitFailedInv ==
  ASSUME NEW now \in Seq(Rows), NEW count \in Nat,
         NEW u, DatasetBase(u, now, count), CasesListed(u), SnapshotsListed(u),
         NoneHolds(u.calls, SubmitLanes, SubmitLoads),
         NEW v, v = Dataset!Failed([u EXCEPT !.submitting = FALSE, !.formError = TRUE], "submit")
  PROVE  DatasetInv(v, now, count)
<1> DEFINE yes == TRUE
           no == FALSE
           f == u.failed \cup ({"submit"} \cap u.alone)
<1>1. /\ IsDatasetPage(u) /\ DatasetTokens(u) /\ DatasetTypes(u, now, count)
      /\ DatasetCalls(u.calls, now, count, u.toldCases, u.toldVersions, u.cases.page, u.versions.page)
      /\ DatasetSignals(u)
  BY DEF DatasetBase, DatasetReady
<1>2. v = [u EXCEPT !.submitting = no, !.formError = yes, !.failed = f]
  BY <1>1 DEF Dataset!Failed, IsDatasetPage
<1>3. yes /\ ~no
  OBVIOUS
<1>4. /\ "create" \in f <=> "create" \in u.failed
      /\ "transition" \in f <=> "transition" \in u.failed
  OBVIOUS
<1> HIDE DEF yes, no, f
<1>5. /\ IsDatasetPage(v) /\ v.calls = u.calls /\ v.cases = u.cases /\ v.versions = u.versions
      /\ v.submitting = no /\ v.formError = yes /\ v.acting = u.acting /\ v.creating = u.creating
      /\ v.dataset = u.dataset /\ v.editing = u.editing
      /\ v.toldCases = u.toldCases /\ v.toldVersions = u.toldVersions
      /\ v.alone = u.alone /\ v.failed = f
  BY <1>1, <1>2 DEF IsDatasetPage
<1>6. DatasetTokens(v)
  BY <1>1, <1>5 DEF DatasetTokens
<1>7. DatasetTypes(v, now, count)
  BY <1>1, <1>5 DEF DatasetTypes
<1>8. DatasetSignals(v)
  BY <1>1, <1>3, <1>4, <1>5 DEF DatasetSignals
<1>9. CasesListed(v) /\ SnapshotsListed(v)
  BY <1>5 DEF CasesListed, SnapshotsListed
<1>10. DatasetCalls(v.calls, now, count, v.toldCases, v.toldVersions, v.cases.page, v.versions.page)
  BY <1>1, <1>5
<1> QED
  BY <1>5, <1>6, <1>7, <1>8, <1>9, <1>10 DEF DatasetInv, DatasetBase, DatasetReady

SubmitReceived(p, u, o) ==
  IF o.kind = "data"
  THEN Dataset!Rendered(p, Dataset!LoadCases(
         [Dataset!Told(u, o.value.cases) EXCEPT !.editing = 0, !.cases.page = 1], 1, "submit"))
  ELSE Dataset!Failed([u EXCEPT !.submitting = FALSE, !.formError = TRUE], "submit")

LEMMA ReceiveSubmitInv ==
  ASSUME NEW now \in Seq(Rows), NEW count \in Nat,
         NEW p, DatasetInv(p, now, count), NEW c \in p.calls, c.lane = "submit", c.live,
         NEW u, u = [p EXCEPT !.calls = Dataset!EndedMutation(@, c)],
         NEW o \in Dataset!OutcomesOf(c),
         NEW v, v = SubmitReceived(p, u, o)
  PROVE  DatasetInv(v, now, count)
<1>1. MutationAfter(u, p, c, now, count)
  BY DatasetMutationEnded
<1>2. /\ DatasetBase(u, now, count) /\ CasesListed(u) /\ SnapshotsListed(u)
      /\ NoneHolds(u.calls, SubmitLanes, SubmitLoads) /\ u.submitting /\ ChangeCall(c, now)
  BY <1>1 DEF MutationAfter
<1>3. IsDatasetPage(u) /\ u.toldCases \in Seq(Rows) /\ Dataset!Covers(now, u.toldCases)
  BY <1>2 DEF DatasetBase, DatasetReady, DatasetTypes
<1>4. CASE o.kind = "data"
  <2>1. o.value.cases \in Seq(Rows) /\ Dataset!Covers(now, o.value.cases)
    BY <1>2, <1>4, ChangeTold
  <2>2. PICK told \in Seq(Rows) :
          /\ Dataset!Covers(now, told)
          /\ Dataset!Told(u, o.value.cases) = [u EXCEPT !.toldCases = told]
    <3>1. PICK s : s = o.value.cases
      OBVIOUS
    <3>2. PICK x : x = Dataset!Told(u, s)
      OBVIOUS
    <3>3. RemembersCases(x, u, now)
      BY <1>3, <2>1, <3>1, <3>2, ToldIs
    <3> QED
      BY <3>1, <3>2, <3>3 DEF RemembersCases
  <2>3. PICK w : w = [u.cases EXCEPT !.page = 1]
    OBVIOUS
  <2>4. PICK y : y = [u EXCEPT !.toldCases = told, !.editing = 0, !.cases = w]
    OBVIOUS
  <2>5. y = [[u EXCEPT !.toldCases = told] EXCEPT !.editing = 0, !.cases.page = 1]
    BY <1>3, <2>3, <2>4 DEF IsDatasetPage
  <2>6. SubmitTold(y, u, now)
    BY <2>2, <2>3, <2>4 DEF SubmitTold
  <2>7. v = Dataset!Rendered(p, Dataset!LoadCases(y, 1, "submit"))
    BY <1>4, <2>2, <2>5 DEF SubmitReceived
  <2> QED
    BY <1>2, <2>6, <2>7, SubmitToldInv
<1>5. CASE o.kind # "data"
  <2>1. v = Dataset!Failed([u EXCEPT !.submitting = FALSE, !.formError = TRUE], "submit")
    BY <1>5 DEF SubmitReceived
  <2> QED
    BY <1>2, <2>1, SubmitFailedInv
<1> QED
  BY <1>4, <1>5

-----------------------------------------------------------------------------
(* ---- It receives the answer to a transition. -------------------------- *)

\* What stands when the call of a transition has ended.
TransitionEnded(u, n, now, count) ==
  /\ DatasetBase(u, now, count) /\ SnapshotsListed(u)
  /\ NoneHolds(u.calls, TransitLanes, TransitLoads) /\ u.acting # 0
  /\ "transition" \notin u.failed /\ Reaches(n, Len(now))
  /\ "transition" \in u.alone => n = u.cases.page

LEMMA TransitionDoneInv ==
  ASSUME NEW now \in Seq(Rows), NEW count \in Nat, NEW u, NEW n,
         TransitionEnded(u, n, now, count),
         NEW y, RemembersCases(y, u, now), NEW v, v = Dataset!LoadCases(y, n, "transition")
  PROVE  DatasetInv(v, now, count)
<1>1. PICK told \in Seq(Rows) : Dataset!Covers(now, told) /\ y = [u EXCEPT !.toldCases = told]
  BY DEF RemembersCases
<1>2. /\ IsDatasetPage(u) /\ DatasetTokens(u) /\ DatasetTypes(u, now, count)
      /\ DatasetCalls(u.calls, now, count, u.toldCases, u.toldVersions, u.cases.page, u.versions.page)
      /\ DatasetSignals(u) /\ SnapshotsListed(u)
      /\ NoneHolds(u.calls, TransitLanes, TransitLoads) /\ u.acting # 0
      /\ "transition" \notin u.failed /\ Reaches(n, Len(now))
      /\ "transition" \in u.alone => n = u.cases.page
  BY DEF TransitionEnded, DatasetBase, DatasetReady
<1>3. /\ IsDatasetPage(y) /\ SameForm(y, u) /\ y.calls = u.calls
      /\ y.cases = u.cases /\ y.versions = u.versions
      /\ y.toldCases = told /\ y.toldVersions = u.toldVersions
      /\ y.alone = u.alone /\ y.failed = u.failed
  BY <1>1, <1>2 DEF IsDatasetPage, SameForm
<1>4. DatasetTokens(y)
  BY <1>2, <1>3 DEF DatasetTokens, SameForm
<1>5. DatasetTypes(y, now, count)
  BY <1>1, <1>2, <1>3 DEF DatasetTypes, SameForm
<1>6. DatasetReady(y, now, count, u.toldCases, u.toldVersions, u.cases.page, u.versions.page)
  BY <1>2, <1>3, <1>4, <1>5 DEF DatasetReady
<1>7. NoneHolds(y.calls, TransitLanes, TransitLoads) /\ y.acting # 0
  BY <1>2, <1>3 DEF SameForm
<1>8. /\ DatasetReady(v, now, count, y.toldCases, u.toldVersions, y.cases.page, u.versions.page)
      /\ SameForm(v, y) /\ SameMemory(v, y)
      /\ v.cases.page = y.cases.page /\ v.versions = y.versions
      /\ TransitsAt(v.calls, n) /\ CasesListed(v)
      /\ SnapshotsListed(y) => SnapshotsListed(v)
  BY <1>2, <1>6, <1>7, LoadCasesReady
<1>9. SnapshotsListed(v)
  BY <1>2, <1>3, <1>8 DEF SnapshotsListed
<1>10. DatasetReady(v, now, count, v.toldCases, v.toldVersions, v.cases.page, v.versions.page)
  BY <1>3, <1>8 DEF SameMemory
<1>11. "transition" \in v.alone => TransitsAt(v.calls, v.cases.page)
  BY <1>2, <1>3, <1>8 DEF SameMemory
<1>12. DatasetSignals(v)
  BY <1>2, <1>3, <1>8, <1>11 DEF DatasetSignals, SameForm, SameMemory
<1> QED
  BY <1>8, <1>9, <1>10, <1>12 DEF DatasetInv, DatasetBase

LEMMA TransitionFailedInv ==
  ASSUME NEW now \in Seq(Rows), NEW count \in Nat, NEW u, NEW n,
         TransitionEnded(u, n, now, count),
         NEW y, y = Dataset!Failed(u, "transition"),
         NEW v, v = Dataset!LoadCases(y, n, "refused")
  PROVE  DatasetInv(v, now, count)
<1> DEFINE f == u.failed \cup ({"transition"} \cap u.alone)
<1>1. /\ IsDatasetPage(u) /\ DatasetTokens(u) /\ DatasetTypes(u, now, count)
      /\ DatasetCalls(u.calls, now, count, u.toldCases, u.toldVersions, u.cases.page, u.versions.page)
      /\ DatasetSignals(u) /\ SnapshotsListed(u)
      /\ NoneHolds(u.calls, TransitLanes, TransitLoads) /\ u.acting # 0
      /\ "transition" \notin u.failed /\ Reaches(n, Len(now))
      /\ "transition" \in u.alone => n = u.cases.page
  BY DEF TransitionEnded, DatasetBase, DatasetReady
<1>2. y = [u EXCEPT !.failed = f]
  BY <1>1 DEF Dataset!Failed, IsDatasetPage
<1>3. /\ "create" \in f <=> "create" \in u.failed
      /\ "submit" \in f <=> "submit" \in u.failed
      /\ "transition" \in f => "transition" \in u.alone
  BY <1>1
<1> HIDE DEF f
<1>4. /\ IsDatasetPage(y) /\ SameForm(y, u) /\ y.calls = u.calls
      /\ y.cases = u.cases /\ y.versions = u.versions
      /\ y.toldCases = u.toldCases /\ y.toldVersions = u.toldVersions
      /\ y.alone = u.alone /\ y.failed = f
  BY <1>2, <1>1 DEF IsDatasetPage, SameForm
<1>5. DatasetTokens(y)
  BY <1>1, <1>4 DEF DatasetTokens, SameForm
<1>6. DatasetTypes(y, now, count)
  BY <1>1, <1>4 DEF DatasetTypes, SameForm
<1>7. DatasetReady(y, now, count, u.toldCases, u.toldVersions, u.cases.page, u.versions.page)
  BY <1>1, <1>4, <1>5, <1>6 DEF DatasetReady
<1>8. NoneHolds(y.calls, TransitLanes, TransitLoads) /\ y.acting # 0
  BY <1>1, <1>4 DEF SameForm
<1>9. /\ DatasetReady(v, now, count, y.toldCases, u.toldVersions, y.cases.page, u.versions.page)
      /\ SameForm(v, y) /\ SameMemory(v, y)
      /\ v.cases.page = y.cases.page /\ v.versions = y.versions
      /\ TransitsAt(v.calls, n) /\ TransitsRefused(v.calls) /\ CasesListed(v)
      /\ SnapshotsListed(y) => SnapshotsListed(v)
  BY <1>1, <1>7, <1>8, LoadCasesReady
<1>10. SnapshotsListed(v)
  BY <1>1, <1>4, <1>9 DEF SnapshotsListed
<1>11. DatasetReady(v, now, count, v.toldCases, v.toldVersions, v.cases.page, v.versions.page)
  BY <1>4, <1>9 DEF SameMemory
<1>12. "transition" \in v.failed \cup v.alone =>
          "transition" \in u.alone /\ TransitsAt(v.calls, v.cases.page)
  BY <1>1, <1>4, <1>9, <1>3 DEF SameMemory
<1>13. DatasetSignals(v)
  BY <1>1, <1>4, <1>9, <1>12, <1>3 DEF DatasetSignals, SameForm, SameMemory
<1> QED
  BY <1>9, <1>10, <1>11, <1>13 DEF DatasetInv, DatasetBase

LEMMA ReceiveTransitionInv ==
  ASSUME NEW now \in Seq(Rows), NEW count \in Nat,
         NEW p, DatasetInv(p, now, count), NEW c \in p.calls, c.lane = "transition", c.live,
         NEW u, u = [p EXCEPT !.calls = Dataset!EndedMutation(@, c)],
         NEW o \in Dataset!OutcomesOf(c),
         NEW v, v = IF o.kind = "data"
                    THEN Dataset!LoadCases(Dataset!Told(u, o.value.cases), c.arg.page, "transition")
                    ELSE Dataset!LoadCases(Dataset!Failed(u, "transition"), c.arg.page, "refused")
  PROVE  DatasetInv(v, now, count)
<1>1. MutationAfter(u, p, c, now, count)
  BY DatasetMutationEnded
<1>2. /\ DatasetBase(u, now, count) /\ SnapshotsListed(u)
      /\ NoneHolds(u.calls, TransitLanes, TransitLoads) /\ u.acting # 0
      /\ "transition" \notin u.failed
      /\ "transition" \in u.alone => c.arg.page = u.cases.page
      /\ ChangeCall(c, now)
  BY <1>1 DEF MutationAfter
<1>3. IsDatasetPage(u) /\ u.toldCases \in Seq(Rows) /\ Dataset!Covers(now, u.toldCases)
  BY <1>2 DEF DatasetBase, DatasetReady, DatasetTypes
<1>4. Reaches(c.arg.page, Len(now))
  BY <1>2 DEF ChangeCall
<1>5. TransitionEnded(u, c.arg.page, now, count)
  BY <1>2, <1>4 DEF TransitionEnded
<1>6. CASE o.kind = "data"
  <2>1. o.value.cases \in Seq(Rows) /\ Dataset!Covers(now, o.value.cases)
    BY <1>2, <1>6, ChangeTold
  <2>2. PICK s : s = o.value.cases
    OBVIOUS
  <2>3. PICK y : y = Dataset!Told(u, s)
    OBVIOUS
  <2>4. RemembersCases(y, u, now)
    BY <1>3, <2>1, <2>2, <2>3, ToldIs
  <2>5. v = Dataset!LoadCases(y, c.arg.page, "transition")
    BY <1>6, <2>2, <2>3
  <2> QED
    BY <1>5, <2>4, <2>5, TransitionDoneInv
<1>7. CASE o.kind # "data"
  <2>1. v = Dataset!LoadCases(Dataset!Failed(u, "transition"), c.arg.page, "refused")
    BY <1>7
  <2> QED
    BY <1>5, <2>1, TransitionFailedInv
<1> QED
  BY <1>6, <1>7

-----------------------------------------------------------------------------
(* ---- It receives the answer to a version that was made. --------------- *)

\* What stands when the call that makes a version has ended.
CreateEnded(u, now, count) ==
  /\ DatasetBase(u, now, count) /\ CasesListed(u)
  /\ NoneHolds(u.calls, CreateLanes, CreateLoads) /\ u.creating

CreateTurned(y, u, count) ==
  \E told, w :
    /\ told \in 0..count /\ w = [u.versions EXCEPT !.page = 1]
    /\ y = [u EXCEPT !.versions = w, !.toldVersions = told]

LEMMA CreateDoneInv ==
  ASSUME NEW now \in Seq(Rows), NEW count \in Nat, NEW u, CreateEnded(u, now, count),
         NEW y, CreateTurned(y, u, count),
         NEW p, NEW v, v = Dataset!Rendered(p, Dataset!LoadVersions(y, 1, "create"))
  PROVE  DatasetInv(v, now, count)
<1>1. PICK told, w :
        /\ told \in 0..count /\ w = [u.versions EXCEPT !.page = 1]
        /\ y = [u EXCEPT !.versions = w, !.toldVersions = told]
  BY DEF CreateTurned
<1>2. /\ IsDatasetPage(u) /\ IsList(u.versions) /\ DatasetTokens(u) /\ DatasetTypes(u, now, count)
      /\ DatasetCalls(u.calls, now, count, u.toldCases, u.toldVersions, u.cases.page, u.versions.page)
      /\ DatasetSignals(u) /\ CasesListed(u)
      /\ NoneHolds(u.calls, CreateLanes, CreateLoads) /\ u.creating
  BY DEF CreateEnded, DatasetBase, DatasetReady, IsDatasetPage
<1>3. IsList(w) /\ w.page = 1 /\ w.seen = u.versions.seen
  BY <1>1, <1>2 DEF IsList
<1>4. /\ IsDatasetPage(y) /\ SameForm(y, u) /\ y.calls = u.calls
      /\ y.cases = u.cases /\ y.versions = w
      /\ y.toldCases = u.toldCases /\ y.toldVersions = told
      /\ y.alone = u.alone /\ y.failed = u.failed
  BY <1>1, <1>2, <1>3 DEF IsDatasetPage, SameForm
<1>5. DatasetTokens(y)
  BY <1>2, <1>4 DEF DatasetTokens, SameForm
<1>6. Reaches(1, count)
  BY <1>2, ReachesOne DEF DatasetTypes
<1>7. DatasetTypes(y, now, count)
  BY <1>1, <1>2, <1>3, <1>4, <1>6 DEF DatasetTypes, SameForm
<1>8. DatasetReady(y, now, count, u.toldCases, u.toldVersions, u.cases.page, u.versions.page)
  BY <1>2, <1>4, <1>5, <1>7 DEF DatasetReady
<1>9. "transition" \notin u.failed \cup u.alone /\ "create" \notin u.failed
  BY <1>2 DEF DatasetSignals
<1>10. NoneHolds(y.calls, CreateLanes, CreateLoads) /\ y.creating /\ 1 = y.versions.page
  BY <1>2, <1>3, <1>4 DEF SameForm
<1>11. PICK z : z = Dataset!LoadVersions(y, 1, "create")
  OBVIOUS
<1>12. /\ DatasetReady(z, now, count, u.toldCases, y.toldVersions, u.cases.page, y.versions.page)
       /\ SameForm(z, y) /\ SameMemory(z, y)
       /\ z.versions.page = y.versions.page /\ z.cases = y.cases
       /\ SameTransits(z.calls, y.calls) /\ SnapshotsListed(z)
       /\ CasesListed(y) => CasesListed(z)
  BY <1>6, <1>8, <1>10, <1>11, LoadSnapshotsReady
<1>13. CasesListed(z)
  BY <1>2, <1>4, <1>12 DEF CasesListed
<1>14. DatasetReady(z, now, count, z.toldCases, z.toldVersions, z.cases.page, z.versions.page)
  BY <1>4, <1>12 DEF SameMemory
<1>15. "transition" \notin z.failed \cup z.alone /\ "create" \notin z.failed
  BY <1>4, <1>9, <1>12 DEF SameMemory
<1>16. DatasetSignals(z)
  BY <1>2, <1>4, <1>12, <1>15 DEF DatasetSignals, SameForm, SameMemory
<1>17. DatasetInv(z, now, count)
  BY <1>12, <1>13, <1>14, <1>16 DEF DatasetInv, DatasetBase
<1>18. v = Dataset!Rendered(p, z)
  BY <1>11
<1> QED
  BY <1>15, <1>17, <1>18, RenderedAfter

LEMMA CreateFailedInv ==
  ASSUME NEW now \in Seq(Rows), NEW count \in Nat, NEW u, CreateEnded(u, now, count),
         NEW v, v = Dataset!Failed([u EXCEPT !.creating = FALSE, !.versions.error = TRUE], "create")
  PROVE  DatasetInv(v, now, count)
<1> DEFINE yes == TRUE
           no == FALSE
           f == u.failed \cup ({"create"} \cap u.alone)
<1>1. /\ IsDatasetPage(u) /\ IsList(u.versions) /\ DatasetTokens(u) /\ DatasetTypes(u, now, count)
      /\ DatasetCalls(u.calls, now, count, u.toldCases, u.toldVersions, u.cases.page, u.versions.page)
      /\ DatasetSignals(u) /\ CasesListed(u)
      /\ NoneHolds(u.calls, CreateLanes, CreateLoads)
  BY DEF CreateEnded, DatasetBase, DatasetReady, IsDatasetPage
<1>2. PICK w : w = [u.versions EXCEPT !.error = yes]
  OBVIOUS
<1>3. v = [u EXCEPT !.creating = no, !.versions = w, !.failed = f]
  BY <1>1, <1>2 DEF Dataset!Failed, IsDatasetPage
<1>4. yes /\ ~no
  OBVIOUS
<1>5. /\ "create" \in f \cup u.alone <=> "create" \in u.failed \cup u.alone
      /\ "submit" \in f <=> "submit" \in u.failed
      /\ "transition" \in f <=> "transition" \in u.failed
  OBVIOUS
<1> HIDE DEF yes, no, f
<1>6. IsList(w) /\ w.page = u.versions.page /\ w.seen = u.versions.seen /\ w.error = yes
  BY <1>1, <1>2 DEF IsList
<1>7. /\ IsDatasetPage(v) /\ v.calls = u.calls /\ v.cases = u.cases /\ v.versions = w
      /\ v.submitting = u.submitting /\ v.formError = u.formError
      /\ v.acting = u.acting /\ v.creating = no
      /\ v.dataset = u.dataset /\ v.editing = u.editing
      /\ v.toldCases = u.toldCases /\ v.toldVersions = u.toldVersions
      /\ v.alone = u.alone /\ v.failed = f
  BY <1>1, <1>3, <1>6 DEF IsDatasetPage
<1>8. DatasetTokens(v)
  BY <1>1, <1>7 DEF DatasetTokens
<1>9. DatasetTypes(v, now, count)
  BY <1>1, <1>6, <1>7 DEF DatasetTypes
<1>10. DatasetSignals(v)
  <2>1. "create" \in v.failed \cup v.alone => ~u.submitting /\ u.acting = 0
    BY <1>1, <1>5, <1>7 DEF DatasetSignals
  <2>2. v.versions.error /\ ~v.creating
    BY <1>4, <1>6, <1>7
  <2>3. "transition" \in v.failed \cup v.alone => ~v.submitting /\ TransitsAt(v.calls, v.cases.page)
    BY <1>1, <1>5, <1>7 DEF DatasetSignals
  <2>4. "transition" \in v.failed => (v.cases.error \/ v.acting # 0) /\ TransitsRefused(v.calls)
    BY <1>1, <1>5, <1>7 DEF DatasetSignals
  <2>5. "submit" \in v.failed => v.formError
    BY <1>1, <1>5, <1>7 DEF DatasetSignals
  <2> QED
    BY <1>7, <2>1, <2>2, <2>3, <2>4, <2>5 DEF DatasetSignals
<1>11. CasesListed(v) /\ SnapshotsListed(v)
  BY <1>1, <1>4, <1>6, <1>7 DEF CasesListed, SnapshotsListed
<1>12. DatasetCalls(v.calls, now, count, v.toldCases, v.toldVersions, v.cases.page, v.versions.page)
  BY <1>1, <1>6, <1>7
<1> QED
  BY <1>7, <1>8, <1>9, <1>10, <1>11, <1>12 DEF DatasetInv, DatasetBase, DatasetReady

CreateReceived(p, u, o) ==
  IF o.kind = "data"
  THEN Dataset!Rendered(p, Dataset!LoadVersions(
         [u EXCEPT !.versions.page = 1,
                   !.toldVersions = IF @ > o.value.versions THEN @ ELSE o.value.versions],
         1, "create"))
  ELSE Dataset!Failed([u EXCEPT !.creating = FALSE, !.versions.error = TRUE], "create")

LEMMA ReceiveCreateInv ==
  ASSUME NEW now \in Seq(Rows), NEW count \in Nat,
         NEW p, DatasetInv(p, now, count), NEW c \in p.calls, c.lane = "create", c.live,
         NEW u, u = [p EXCEPT !.calls = Dataset!EndedMutation(@, c)],
         NEW o \in Dataset!OutcomesOf(c),
         NEW v, v = CreateReceived(p, u, o)
  PROVE  DatasetInv(v, now, count)
<1>1. MutationAfter(u, p, c, now, count)
  BY DatasetMutationEnded
<1>2. /\ DatasetBase(u, now, count) /\ CasesListed(u)
      /\ NoneHolds(u.calls, CreateLanes, CreateLoads) /\ u.creating
      /\ CreateCall(c, count)
  BY <1>1 DEF MutationAfter
<1>3. CreateEnded(u, now, count)
  BY <1>2 DEF CreateEnded
<1>4. IsDatasetPage(u) /\ u.toldVersions \in 0..count
  BY <1>2 DEF DatasetBase, DatasetReady, DatasetTypes
<1>5. CASE o.kind = "data"
  <2>1. o.value.versions \in 0..count
    BY <1>2, <1>5, CreateTold
  <2>2. PICK told \in 0..count :
          told = IF u.toldVersions > o.value.versions THEN u.toldVersions ELSE o.value.versions
    BY <1>4, <2>1
  <2>3. PICK w : w = [u.versions EXCEPT !.page = 1]
    OBVIOUS
  <2>4. PICK y : y = [u EXCEPT !.versions = w, !.toldVersions = told]
    OBVIOUS
  <2>5. CreateTurned(y, u, count)
    BY <2>3, <2>4 DEF CreateTurned
  <2>6. y = [u EXCEPT !.versions.page = 1,
                      !.toldVersions = IF @ > o.value.versions THEN @ ELSE o.value.versions]
    BY <1>4, <2>2, <2>3, <2>4 DEF IsDatasetPage
  <2>7. v = Dataset!Rendered(p, Dataset!LoadVersions(y, 1, "create"))
    BY <1>5, <2>6 DEF CreateReceived
  <2> QED
    BY <1>3, <2>5, <2>7, CreateDoneInv
<1>6. CASE o.kind # "data"
  <2>1. v = Dataset!Failed([u EXCEPT !.creating = FALSE, !.versions.error = TRUE], "create")
    BY <1>6 DEF CreateReceived
  <2> QED
    BY <1>3, <2>1, CreateFailedInv
<1> QED
  BY <1>5, <1>6

-----------------------------------------------------------------------------
(* ---- Its user submits a case, changes its status, or makes a version. - *)

\* An action has sent its call, and nothing else is left of what failed.
DatasetActed(y, p, lane, arg, now) ==
  /\ IsDatasetPage(y) /\ y.calls = Sent(p.calls, lane, arg)
  /\ y.dataset = p.dataset /\ y.editing = p.editing
  /\ y.toldCases = p.toldCases /\ y.toldVersions = p.toldVersions
  /\ y.failed = {} /\ y.alone \subseteq {lane}
  /\ y.alone # {} => ~p.submitting /\ ~p.creating /\ p.acting = 0
  /\ lane = "submit" => ~p.submitting /\ y.submitting
  /\ lane # "submit" => y.submitting = p.submitting
  /\ lane = "transition" =>
       p.acting = 0 /\ y.acting \in 1..Len(now) /\ arg.page = p.cases.page
  /\ lane # "transition" => y.acting = p.acting /\ y.cases = p.cases
  /\ lane = "create" => ~p.creating /\ y.creating
  /\ lane # "create" => y.creating = p.creating /\ y.versions = p.versions
  /\ y.cases.page = p.cases.page /\ y.cases.seen = p.cases.seen
  /\ y.versions.page = p.versions.page /\ y.versions.seen = p.versions.seen

LEMMA DatasetActedInv ==
  ASSUME NEW now \in Seq(Rows), NEW count \in Nat, NEW p, DatasetInv(p, now, count),
         NEW lane, lane \in {"submit", "transition", "create"}, NEW arg,
         DatasetCall(Call(lane, arg), now, count, p.toldCases, p.toldVersions,
                     p.cases.page, p.versions.page),
         NEW y, DatasetActed(y, p, lane, arg, now)
  PROVE  DatasetInv(y, now, count)
<1> DEFINE k == Sent(p.calls, lane, arg)
           new == Call(lane, arg)
<1>1. /\ IsDatasetPage(p) /\ DatasetTokens(p) /\ DatasetTypes(p, now, count)
      /\ DatasetCalls(p.calls, now, count, p.toldCases, p.toldVersions, p.cases.page, p.versions.page)
      /\ AreCalls(p.calls) /\ CasesListed(p) /\ SnapshotsListed(p)
  BY DEF DatasetInv, DatasetBase, DatasetReady, DatasetCalls
<1>2. IsCall(new) /\ new.lane = lane /\ new.arg = arg /\ new.live
  BY CallFields
<1>3. DatasetCalls(k, now, count, p.toldCases, p.toldVersions, p.cases.page, p.versions.page)
  BY <1>1, DatasetCallsSent
<1>4. /\ \A d \in p.calls : d.lane # lane => d \in k
      /\ new \in k
  BY <1>1, SentCalls DEF Sent
<1>5. NoneHolds(p.calls, TransitLanes, TransitLoads) => TransitsAt(k, arg.page)
  BY <1>1, SentTransits
<1>6. new.arg.by \in {"user", "approve", "deprecate"}
  BY <1>2 DEF DatasetCall, ChangeCall, CreateCall
<1> HIDE DEF k, new
<1>7. /\ Holds(new, SubmitLanes, SubmitLoads) => lane = "submit"
      /\ Holds(new, TransitLanes, TransitLoads) => lane = "transition"
      /\ Holds(new, CreateLanes, CreateLoads) => lane = "create"
  BY <1>2, <1>6
     DEF Holds, SubmitLanes, SubmitLoads, TransitLanes, TransitLoads, CreateLanes, CreateLoads
<1>8. DatasetTokens(y)
  <2>1. p.submitting => y.submitting
    BY DEF DatasetActed
  <2>2. p.acting # 0 => y.acting # 0
    BY DEF DatasetActed
  <2>3. p.creating => y.creating
    BY DEF DatasetActed
  <2>4. Holds(new, SubmitLanes, SubmitLoads) =>
          NoneHolds(p.calls, SubmitLanes, SubmitLoads) /\ y.submitting
    BY <1>1, <1>7 DEF DatasetActed, DatasetTokens
  <2>5. Holds(new, TransitLanes, TransitLoads) =>
          NoneHolds(p.calls, TransitLanes, TransitLoads) /\ y.acting # 0
    BY <1>1, <1>7 DEF DatasetActed, DatasetTokens
  <2>6. Holds(new, CreateLanes, CreateLoads) =>
          NoneHolds(p.calls, CreateLanes, CreateLoads) /\ y.creating
    BY <1>1, <1>7 DEF DatasetActed, DatasetTokens
  <2>7. y.calls = Sent(p.calls, lane, arg)
    BY DEF DatasetActed
  <2> QED
    BY <1>1, <2>1, <2>2, <2>3, <2>4, <2>5, <2>6, <2>7, DatasetTokensSent DEF new
<1>9. DatasetTypes(y, now, count)
  <2>1. 1..Len(now) \subseteq 0..Len(now)
    OBVIOUS
  <2>2. y.acting \in 0..Len(now)
    BY <1>1, <2>1 DEF DatasetActed, DatasetTypes
  <2> QED
    BY <1>1, <2>2 DEF DatasetActed, DatasetTypes
<1>10. DatasetSignals(y)
  <2>1. lane = "transition" => TransitsAt(y.calls, y.cases.page)
    <3>1. lane = "transition" => NoneHolds(p.calls, TransitLanes, TransitLoads)
      BY <1>1 DEF DatasetActed, DatasetTokens
    <3> QED
      BY <1>5, <3>1 DEF DatasetActed, k
  <2>2. \A l : l \in y.failed \cup y.alone =>
               l = lane /\ ~p.submitting /\ ~p.creating /\ p.acting = 0
    BY DEF DatasetActed
  <2>3. "transition" \in y.failed \cup y.alone =>
          ~y.submitting /\ ~y.creating /\ TransitsAt(y.calls, y.cases.page)
    BY <2>1, <2>2 DEF DatasetActed
  <2>4. "create" \in y.failed \cup y.alone => ~y.submitting /\ y.acting = 0
    BY <2>2 DEF DatasetActed
  <2>5. y.failed = {}
    BY DEF DatasetActed
  <2> QED
    BY <2>3, <2>4, <2>5 DEF DatasetSignals
<1>11. CasesListed(y)
  <2>1. CASE lane = "transition"
    BY <1>2, <1>4, <2>1 DEF CasesListed, Pending, DatasetActed, k
  <2>2. CASE lane # "transition"
    <3>1. Pending(p.calls, "transition") => Pending(k, "transition")
      BY <1>4, <2>2 DEF Pending
    <3> QED
      BY <1>1, <2>2, <3>1 DEF CasesListed, DatasetActed, k
  <2> QED
    BY <2>1, <2>2
<1>12. SnapshotsListed(y)
  <2>1. CASE lane = "create"
    BY <1>2, <1>4, <2>1 DEF SnapshotsListed, Pending, DatasetActed, k
  <2>2. CASE lane # "create"
    <3>1. Pending(p.calls, "create") => Pending(k, "create")
      BY <1>4, <2>2 DEF Pending
    <3> QED
      BY <1>1, <2>2, <3>1 DEF SnapshotsListed, DatasetActed, k
  <2> QED
    BY <2>1, <2>2
<1>13. DatasetCalls(y.calls, now, count, y.toldCases, y.toldVersions, y.cases.page, y.versions.page)
  BY <1>3 DEF DatasetActed, k
<1>14. IsDatasetPage(y)
  BY DEF DatasetActed
<1> QED
  BY <1>8, <1>9, <1>10, <1>11, <1>12, <1>13, <1>14 DEF DatasetInv, DatasetBase, DatasetReady

\* The mutations an action is alone among.
Alone(u, lane) == IF u.submitting \/ u.creating \/ u.acting # 0 THEN {} ELSE {lane}

LEMMA SubmitCaseInv ==
  ASSUME NEW now \in Seq(Rows), NEW count \in Nat, NEW p, DatasetInv(p, now, count),
         ~p.submitting,
         NEW y, y = [Dataset!ActAlone(p, "submit") EXCEPT
                       !.submitting = TRUE, !.formError = FALSE,
                       !.calls = Dataset!Sent(@, "submit", Dataset!Arg(1, p.editing, "user"))]
  PROVE  DatasetInv(y, now, count)
<1> DEFINE arg == Dataset!Arg(1, p.editing, "user")
           k == Sent(p.calls, "submit", arg)
           new == Call("submit", arg)
           a == Alone(p, "submit")
           none == {}
           yes == TRUE
           no == FALSE
<1>1. IsDatasetPage(p) /\ DatasetTypes(p, now, count)
  BY DEF DatasetInv, DatasetBase, DatasetReady
<1>2. arg.by = "user" /\ arg.case = p.editing
  BY DEF Dataset!Arg
<1>3. y = [p EXCEPT !.alone = a, !.failed = none, !.acts = p.acts + 1,
                    !.submitting = yes, !.formError = no, !.calls = k]
  BY <1>1, DatasetRequests DEF Dataset!ActAlone, Dataset!Act, IsDatasetPage, Alone
<1>4. yes /\ none = {}
  OBVIOUS
<1>5. IsCall(new) /\ new.lane = "submit" /\ new.arg = arg /\ new.reply = Waiting
  BY CallFields
<1>6. a \subseteq {"submit"} /\ (a # {} => ~p.submitting /\ ~p.creating /\ p.acting = 0)
  BY DEF Alone
<1> HIDE DEF arg, k, new, a, none, yes, no
<1>7. DatasetCall(new, now, count, p.toldCases, p.toldVersions, p.cases.page, p.versions.page)
  BY <1>1, <1>2, <1>5 DEF DatasetCall, ChangeCall, DatasetTypes
<1>8. DatasetActed(y, p, "submit", arg, now)
  <2>1. /\ IsDatasetPage(y) /\ y.calls = k /\ y.dataset = p.dataset /\ y.editing = p.editing
        /\ y.toldCases = p.toldCases /\ y.toldVersions = p.toldVersions
        /\ y.failed = none /\ y.alone = a /\ y.submitting = yes
        /\ y.acting = p.acting /\ y.creating = p.creating
        /\ y.cases = p.cases /\ y.versions = p.versions
    BY <1>1, <1>3 DEF IsDatasetPage
  <2> QED
    BY <1>4, <1>6, <2>1 DEF DatasetActed, k
<1> QED
  BY <1>7, <1>8, DatasetActedInv DEF new

LEMMA CreateVersionInv ==
  ASSUME NEW now \in Seq(Rows), NEW count \in Nat, NEW p, DatasetInv(p, now, count),
         ~p.creating,
         NEW y, y = [Dataset!ActAlone(p, "create") EXCEPT
                       !.creating = TRUE, !.versions.error = FALSE,
                       !.calls = Dataset!Sent(@, "create", Dataset!Arg(1, 0, "user"))]
  PROVE  DatasetInv(y, now, count)
<1> DEFINE arg == Dataset!Arg(1, 0, "user")
           k == Sent(p.calls, "create", arg)
           new == Call("create", arg)
           a == Alone(p, "create")
           none == {}
           yes == TRUE
           no == FALSE
<1>1. IsDatasetPage(p) /\ IsList(p.versions)
  BY DEF DatasetInv, DatasetBase, DatasetReady, IsDatasetPage
<1>2. arg.by = "user"
  BY DEF Dataset!Arg
<1>3. PICK w : w = [p.versions EXCEPT !.error = no]
  OBVIOUS
<1>4. y = [p EXCEPT !.alone = a, !.failed = none, !.acts = p.acts + 1,
                    !.creating = yes, !.versions = w, !.calls = k]
  BY <1>1, <1>3, DatasetRequests DEF Dataset!ActAlone, Dataset!Act, IsDatasetPage, Alone
<1>5. yes /\ none = {}
  OBVIOUS
<1>6. IsCall(new) /\ new.lane = "create" /\ new.arg = arg /\ new.reply = Waiting
  BY CallFields
<1>7. a \subseteq {"create"} /\ (a # {} => ~p.submitting /\ ~p.creating /\ p.acting = 0)
  BY DEF Alone
<1> HIDE DEF arg, k, new, a, none, yes, no
<1>8. DatasetCall(new, now, count, p.toldCases, p.toldVersions, p.cases.page, p.versions.page)
  BY <1>2, <1>6 DEF DatasetCall, CreateCall
<1>9. IsList(w) /\ w.page = p.versions.page /\ w.seen = p.versions.seen
  BY <1>1, <1>3 DEF IsList
<1>10. DatasetActed(y, p, "create", arg, now)
  <2>1. /\ IsDatasetPage(y) /\ y.calls = k /\ y.dataset = p.dataset /\ y.editing = p.editing
        /\ y.toldCases = p.toldCases /\ y.toldVersions = p.toldVersions
        /\ y.failed = none /\ y.alone = a /\ y.creating = yes
        /\ y.acting = p.acting /\ y.submitting = p.submitting
        /\ y.cases = p.cases /\ y.versions = w
    BY <1>1, <1>4, <1>9 DEF IsDatasetPage
  <2> QED
    BY <1>5, <1>7, <1>9, <2>1 DEF DatasetActed, k
<1> QED
  BY <1>8, <1>10, DatasetActedInv DEF new

LEMMA TransitionInv ==
  ASSUME NEW now \in Seq(Rows), NEW count \in Nat, NEW p, DatasetInv(p, now, count),
         p.acting = 0, NEW n \in DOMAIN p.cases.seen,
         NEW action, action \in {"approve", "deprecate"},
         NEW y, y = [Dataset!ActAlone(p, "transition") EXCEPT
                       !.acting = n, !.cases.error = FALSE,
                       !.calls = Dataset!Sent(@, "transition",
                                              Dataset!Arg(p.cases.page, n, action))]
  PROVE  DatasetInv(y, now, count)
<1> DEFINE arg == Dataset!Arg(p.cases.page, n, action)
           k == Sent(p.calls, "transition", arg)
           new == Call("transition", arg)
           a == Alone(p, "transition")
           none == {}
           no == FALSE
<1>1. IsDatasetPage(p) /\ IsList(p.cases) /\ DatasetTypes(p, now, count)
  BY DEF DatasetInv, DatasetBase, DatasetReady, IsDatasetPage
<1>2. arg.by = action /\ arg.case = n /\ arg.page = p.cases.page
  BY DEF Dataset!Arg
<1>3. PICK w : w = [p.cases EXCEPT !.error = no]
  OBVIOUS
<1>4. y = [p EXCEPT !.alone = a, !.failed = none, !.acts = p.acts + 1,
                    !.acting = n, !.cases = w, !.calls = k]
  BY <1>1, <1>3, DatasetRequests DEF Dataset!ActAlone, Dataset!Act, IsDatasetPage, Alone
<1>5. none = {}
  OBVIOUS
<1>6. IsCall(new) /\ new.lane = "transition" /\ new.arg = arg /\ new.reply = Waiting
  BY CallFields
<1>7. a \subseteq {"transition"} /\ (a # {} => ~p.submitting /\ ~p.creating /\ p.acting = 0)
  BY DEF Alone
<1>8. n \in 1..Len(now)
  BY <1>1 DEF DatasetTypes, Dataset!Covers
<1> HIDE DEF arg, k, new, a, none, no
<1>9. DatasetCall(new, now, count, p.toldCases, p.toldVersions, p.cases.page, p.versions.page)
  BY <1>1, <1>2, <1>6, <1>8 DEF DatasetCall, ChangeCall, DatasetTypes
<1>10. IsList(w) /\ w.page = p.cases.page /\ w.seen = p.cases.seen
  BY <1>1, <1>3 DEF IsList
<1>11. DatasetActed(y, p, "transition", arg, now)
  <2>1. /\ IsDatasetPage(y) /\ y.calls = k /\ y.dataset = p.dataset /\ y.editing = p.editing
        /\ y.toldCases = p.toldCases /\ y.toldVersions = p.toldVersions
        /\ y.failed = none /\ y.alone = a /\ y.acting = n
        /\ y.submitting = p.submitting /\ y.creating = p.creating
        /\ y.cases = w /\ y.versions = p.versions
    BY <1>1, <1>4, <1>10 DEF IsDatasetPage
  <2> QED
    BY <1>2, <1>5, <1>7, <1>8, <1>10, <2>1 DEF DatasetActed, k
<1> QED
  BY <1>9, <1>11, DatasetActedInv DEF new

-----------------------------------------------------------------------------
(* ---- Its user edits, turns a page, or tries again. -------------------- *)

LEMMA EditInv ==
  ASSUME NEW now \in Seq(Rows), NEW count \in Nat, NEW p, DatasetInv(p, now, count),
         NEW n \in 0..Len(now), NEW y, y = [p EXCEPT !.editing = n]
  PROVE  DatasetInv(y, now, count)
<1>1. IsDatasetPage(p) /\ DatasetTypes(p, now, count)
  BY DEF DatasetInv, DatasetBase, DatasetReady
<1>2. /\ IsDatasetPage(y) /\ SameMemory(y, p) /\ SameBusy(y, p)
      /\ y.calls = p.calls /\ y.cases = p.cases /\ y.versions = p.versions
      /\ y.dataset = p.dataset /\ y.editing = n
  BY <1>1 DEF IsDatasetPage, SameMemory, SameBusy
<1> QED
  BY <1>1, <1>2, DatasetFormKept DEF DatasetTypes

LEMMA ActInv ==
  ASSUME NEW now \in Seq(Rows), NEW count \in Nat, NEW p, DatasetInv(p, now, count),
         NEW y, y = Dataset!Act(p)
  PROVE  /\ DatasetInv(y, now, count) /\ y.failed = {} /\ y.alone = {}
         /\ y.cases = p.cases /\ y.versions = p.versions
<1> DEFINE none == {}
<1>1. /\ IsDatasetPage(p) /\ DatasetTokens(p) /\ DatasetTypes(p, now, count)
      /\ DatasetCalls(p.calls, now, count, p.toldCases, p.toldVersions, p.cases.page, p.versions.page)
      /\ CasesListed(p) /\ SnapshotsListed(p)
  BY DEF DatasetInv, DatasetBase, DatasetReady
<1>2. y = [p EXCEPT !.alone = none, !.failed = none, !.acts = p.acts + 1]
  BY <1>1 DEF Dataset!Act, IsDatasetPage
<1>3. none = {}
  OBVIOUS
<1> HIDE DEF none
<1>4. /\ IsDatasetPage(y) /\ SameForm(y, p) /\ y.calls = p.calls
      /\ y.cases = p.cases /\ y.versions = p.versions
      /\ y.toldCases = p.toldCases /\ y.toldVersions = p.toldVersions
      /\ y.failed = none /\ y.alone = none
  BY <1>1, <1>2 DEF IsDatasetPage, SameForm
<1>5. DatasetTokens(y)
  BY <1>1, <1>4 DEF DatasetTokens, SameForm
<1>6. DatasetTypes(y, now, count)
  BY <1>1, <1>4 DEF DatasetTypes, SameForm
<1>7. DatasetSignals(y)
  BY <1>3, <1>4 DEF DatasetSignals
<1>8. CasesListed(y) /\ SnapshotsListed(y)
  BY <1>1, <1>4 DEF CasesListed, SnapshotsListed
<1>9. DatasetCalls(y.calls, now, count, y.toldCases, y.toldVersions, y.cases.page, y.versions.page)
  BY <1>1, <1>4
<1> QED
  BY <1>3, <1>4, <1>5, <1>6, <1>7, <1>8, <1>9 DEF DatasetInv, DatasetBase, DatasetReady

(* The page chosen next is one that exists.                                *)
LEMMA TurnedReaches ==
  ASSUME NEW list, NEW total \in Nat, NEW count \in Nat, total <= count,
         Reaches(list.page, count), NEW n \in Dataset!Turned(list, total)
  PROVE  Reaches(n, count)
<1>1. /\ list.page \in Nat /\ n \in {list.page - 1, list.page + 1} /\ n >= 1
      /\ n > list.page => (n - 1) * Size < total
  BY DEF Dataset!Turned, Reaches
<1>2. CASE n = list.page + 1
  <2>1. n \in Nat /\ (n - 1) * Size < total
    BY <1>1, <1>2
  <2>2. Reaches(n, total)
    BY <1>1, <2>1 DEF Reaches
  <2> QED
    BY <2>2, ReachesMore
<1>3. CASE n = list.page - 1
  <2>1. n - 1 \in Int /\ list.page - 1 \in Int /\ n - 1 <= list.page - 1 /\ n \in Nat
    BY <1>1, <1>3
  <2>2. (n - 1) * Size <= (list.page - 1) * Size
    BY <2>1, Monotone
  <2>3. PICK a \in Int, b \in Int : a = (n - 1) * Size /\ b = (list.page - 1) * Size
    BY <2>1, SizeAssumption
  <2>4. a <= b /\ b < count
    BY <2>2, <2>3 DEF Reaches
  <2>5. a < count
    BY <2>4
  <2> QED
    BY <1>1, <2>1, <2>3, <2>5 DEF Reaches
<1> QED
  BY <1>1, <1>2, <1>3

LEMMA MoveCasesInv ==
  ASSUME NEW now \in Seq(Rows), NEW count \in Nat, NEW p, DatasetInv(p, now, count),
         NEW n \in Dataset!Turned(p.cases, Len(p.cases.seen)),
         NEW v, v = Dataset!Effect([Dataset!Act(p) EXCEPT !.cases.page = n])
  PROVE  DatasetInv(v, now, count)
<1>1. DatasetTypes(p, now, count)
  BY DEF DatasetInv, DatasetBase, DatasetReady
<1>2. PICK total \in Nat, rows \in Nat :
        total = Len(p.cases.seen) /\ rows = Len(now) /\ total <= rows
  <2>1. p.cases.seen \in Seq(Rows) /\ Dataset!Covers(now, p.cases.seen)
    BY <1>1 DEF DatasetTypes
  <2>2. Len(p.cases.seen) <= Len(now)
    BY <2>1, CoversLonger
  <2>3. Len(p.cases.seen) \in Nat /\ Len(now) \in Nat
    BY <2>1
  <2> QED
    BY <2>2, <2>3
<1>3. Reaches(n, Len(now))
  <2>1. Reaches(p.cases.page, rows) /\ n \in Dataset!Turned(p.cases, total)
    BY <1>1, <1>2 DEF DatasetTypes
  <2>2. Reaches(n, rows)
    BY <1>2, <2>1, TurnedReaches
  <2> QED
    BY <1>2, <2>2
<1>4. PICK y : y = Dataset!Act(p)
  OBVIOUS
<1>5. /\ DatasetInv(y, now, count) /\ y.failed = {} /\ y.alone = {}
  BY <1>4, ActInv
<1>6. /\ IsDatasetPage(y) /\ IsList(y.cases) /\ DatasetTokens(y) /\ DatasetTypes(y, now, count)
      /\ DatasetCalls(y.calls, now, count, y.toldCases, y.toldVersions, y.cases.page, y.versions.page)
  BY <1>5 DEF DatasetInv, DatasetBase, DatasetReady, IsDatasetPage
<1>7. PICK w : w = [y.cases EXCEPT !.page = n]
  OBVIOUS
<1>8. PICK x : x = [y EXCEPT !.cases = w]
  OBVIOUS
<1>9. v = Dataset!Effect(x)
  BY <1>4, <1>6, <1>7, <1>8 DEF IsDatasetPage
<1>10. IsList(w) /\ w.page = n /\ w.seen = y.cases.seen
  BY <1>6, <1>7 DEF IsList
<1>11. SameBut(x, y) /\ x.cases = w /\ x.versions = y.versions
  BY <1>6, <1>8, <1>10, CasesListIs
<1>12. DatasetTokens(x)
  BY <1>6, <1>11 DEF DatasetTokens, SameBut, SameBusy
<1>13. DatasetTypes(x, now, count)
  BY <1>3, <1>6, <1>10, <1>11 DEF DatasetTypes, SameBut, SameBusy, SameMemory
<1>14. DatasetReady(x, now, count, y.toldCases, y.toldVersions, y.cases.page, y.versions.page)
  BY <1>6, <1>11, <1>12, <1>13 DEF DatasetReady, SameBut
<1>15. x.failed = {} /\ x.alone = {}
  BY <1>5, <1>11 DEF SameBut, SameMemory
<1>16. /\ DatasetSignals(x) /\ "transition" \notin x.failed \cup x.alone
       /\ "create" \notin x.failed
  BY <1>15 DEF DatasetSignals
<1> QED
  BY <1>9, <1>14, <1>16, EffectInv

LEMMA MoveVersionsInv ==
  ASSUME NEW now \in Seq(Rows), NEW count \in Nat, NEW p, DatasetInv(p, now, count),
         NEW n \in Dataset!Turned(p.versions, p.versions.seen),
         NEW v, v = Dataset!Effect([Dataset!Act(p) EXCEPT !.versions.page = n])
  PROVE  DatasetInv(v, now, count)
<1>1. DatasetTypes(p, now, count)
  BY DEF DatasetInv, DatasetBase, DatasetReady
<1>2. Reaches(n, count)
  <2>1. PICK total \in Nat : total = p.versions.seen /\ total <= count
    BY <1>1 DEF DatasetTypes
  <2>2. Reaches(p.versions.page, count) /\ n \in Dataset!Turned(p.versions, total)
    BY <1>1, <2>1 DEF DatasetTypes
  <2> QED
    BY <2>1, <2>2, TurnedReaches
<1>3. PICK y : y = Dataset!Act(p)
  OBVIOUS
<1>4. /\ DatasetInv(y, now, count) /\ y.failed = {} /\ y.alone = {}
  BY <1>3, ActInv
<1>5. /\ IsDatasetPage(y) /\ IsList(y.versions) /\ DatasetTokens(y) /\ DatasetTypes(y, now, count)
      /\ DatasetCalls(y.calls, now, count, y.toldCases, y.toldVersions, y.cases.page, y.versions.page)
  BY <1>4 DEF DatasetInv, DatasetBase, DatasetReady, IsDatasetPage
<1>6. PICK w : w = [y.versions EXCEPT !.page = n]
  OBVIOUS
<1>7. PICK x : x = [y EXCEPT !.versions = w]
  OBVIOUS
<1>8. v = Dataset!Effect(x)
  BY <1>3, <1>5, <1>6, <1>7 DEF IsDatasetPage
<1>9. IsList(w) /\ w.page = n /\ w.seen = y.versions.seen
  BY <1>5, <1>6 DEF IsList
<1>10. SameBut(x, y) /\ x.versions = w /\ x.cases = y.cases
  BY <1>5, <1>7, <1>9, VersionsListIs
<1>11. DatasetTokens(x)
  BY <1>5, <1>10 DEF DatasetTokens, SameBut, SameBusy
<1>12. DatasetTypes(x, now, count)
  BY <1>2, <1>5, <1>9, <1>10 DEF DatasetTypes, SameBut, SameBusy, SameMemory
<1>13. DatasetReady(x, now, count, y.toldCases, y.toldVersions, y.cases.page, y.versions.page)
  BY <1>5, <1>10, <1>11, <1>12 DEF DatasetReady, SameBut
<1>14. x.failed = {} /\ x.alone = {}
  BY <1>4, <1>10 DEF SameBut, SameMemory
<1>15. /\ DatasetSignals(x) /\ "transition" \notin x.failed \cup x.alone
       /\ "create" \notin x.failed
  BY <1>14 DEF DatasetSignals
<1> QED
  BY <1>8, <1>13, <1>15, EffectInv

LEMMA RetryDatasetInv ==
  ASSUME NEW now \in Seq(Rows), NEW count \in Nat, NEW p, DatasetInv(p, now, count),
         NEW v, v = Dataset!LoadDataset(p, "retry")
  PROVE  DatasetInv(v, now, count)
<1>1. /\ DatasetReady(p, now, count, p.toldCases, p.toldVersions, p.cases.page, p.versions.page)
      /\ DatasetSignals(p) /\ CasesListed(p) /\ SnapshotsListed(p)
  BY DEF DatasetInv, DatasetBase
<1>2. /\ DatasetReady(v, now, count, p.toldCases, p.toldVersions, p.cases.page, p.versions.page)
      /\ SameForm(v, p) /\ SameMemory(v, p) /\ v.cases = p.cases /\ v.versions = p.versions
      /\ SameTransits(v.calls, p.calls)
      /\ CasesListed(p) => CasesListed(v)
      /\ SnapshotsListed(p) => SnapshotsListed(v)
  BY <1>1, LoadDatasetReady
<1>3. DatasetReady(v, now, count, v.toldCases, v.toldVersions, v.cases.page, v.versions.page)
  BY <1>2 DEF SameMemory
<1>4. DatasetSignals(v)
  BY <1>1, <1>2 DEF DatasetSignals, SameForm, SameMemory, SameTransits
<1> QED
  BY <1>1, <1>2, <1>3, <1>4 DEF DatasetInv, DatasetBase

LEMMA RetryCasesInv ==
  ASSUME NEW now \in Seq(Rows), NEW count \in Nat, NEW p, DatasetInv(p, now, count),
         NEW v, v = Dataset!LoadCases(Dataset!Act(p), p.cases.page, "retry")
  PROVE  DatasetInv(v, now, count)
<1>1. PICK y : y = Dataset!Act(p)
  OBVIOUS
<1>2. /\ DatasetInv(y, now, count) /\ y.failed = {} /\ y.alone = {}
      /\ y.cases = p.cases /\ y.versions = p.versions
  BY <1>1, ActInv
<1>3. /\ DatasetReady(y, now, count, y.toldCases, y.toldVersions, y.cases.page, y.versions.page)
      /\ SnapshotsListed(y)
  BY <1>2 DEF DatasetInv, DatasetBase
<1>4. Reaches(p.cases.page, Len(now)) /\ p.cases.page = y.cases.page
  BY <1>2, <1>3 DEF DatasetReady, DatasetTypes
<1>5. v = Dataset!LoadCases(y, p.cases.page, "retry")
  BY <1>1
<1>6. /\ DatasetReady(v, now, count, y.toldCases, y.toldVersions, y.cases.page, y.versions.page)
      /\ SameForm(v, y) /\ SameMemory(v, y)
      /\ v.cases.page = y.cases.page /\ v.versions = y.versions /\ CasesListed(v)
      /\ SnapshotsListed(y) => SnapshotsListed(v)
  BY <1>3, <1>4, <1>5, LoadCasesReady
<1>7. DatasetReady(v, now, count, v.toldCases, v.toldVersions, v.cases.page, v.versions.page)
  BY <1>6 DEF SameMemory
<1>8. DatasetSignals(v)
  BY <1>2, <1>6 DEF DatasetSignals, SameMemory
<1> QED
  BY <1>3, <1>6, <1>7, <1>8 DEF DatasetInv, DatasetBase

LEMMA RetryVersionsInv ==
  ASSUME NEW now \in Seq(Rows), NEW count \in Nat, NEW p, DatasetInv(p, now, count),
         NEW v, v = Dataset!LoadVersions(Dataset!Act(p), p.versions.page, "retry")
  PROVE  DatasetInv(v, now, count)
<1>1. PICK y : y = Dataset!Act(p)
  OBVIOUS
<1>2. /\ DatasetInv(y, now, count) /\ y.failed = {} /\ y.alone = {}
      /\ y.cases = p.cases /\ y.versions = p.versions
  BY <1>1, ActInv
<1>3. /\ DatasetReady(y, now, count, y.toldCases, y.toldVersions, y.cases.page, y.versions.page)
      /\ CasesListed(y)
  BY <1>2 DEF DatasetInv, DatasetBase
<1>4. Reaches(p.versions.page, count) /\ p.versions.page = y.versions.page
  BY <1>2, <1>3 DEF DatasetReady, DatasetTypes
<1>5. v = Dataset!LoadVersions(y, p.versions.page, "retry")
  BY <1>1
<1>6. /\ DatasetReady(v, now, count, y.toldCases, y.toldVersions, y.cases.page, y.versions.page)
      /\ SameForm(v, y) /\ SameMemory(v, y)
      /\ v.versions.page = y.versions.page /\ v.cases = y.cases /\ SnapshotsListed(v)
      /\ CasesListed(y) => CasesListed(v)
  BY <1>3, <1>4, <1>5, LoadSnapshotsReady
<1>7. DatasetReady(v, now, count, v.toldCases, v.toldVersions, v.cases.page, v.versions.page)
  BY <1>6 DEF SameMemory
<1>8. DatasetSignals(v)
  BY <1>2, <1>6 DEF DatasetSignals, SameMemory
<1> QED
  BY <1>3, <1>6, <1>7, <1>8 DEF DatasetInv, DatasetBase

-----------------------------------------------------------------------------
(* ---- What its server commits and answers. ----------------------------- *)

\* Of the page only the calls are others.
OnlyDatasetCalls(v, u) ==
  /\ IsDatasetPage(v) /\ SameForm(v, u) /\ SameMemory(v, u)
  /\ v.cases = u.cases /\ v.versions = u.versions

(* The server commits, and answers: of the page only its calls change.     *)
LEMMA DatasetCommittedInv ==
  ASSUME NEW now, NEW count, NEW now2, NEW count2, Later(now, count, now2, count2),
         NEW p, DatasetInv(p, now, count), NEW v, OnlyDatasetCalls(v, p),
         DatasetCalls(v.calls, now2, count2, p.toldCases, p.toldVersions,
                      p.cases.page, p.versions.page),
         Keeps(v.calls, p.calls), SameTransits(v.calls, p.calls)
  PROVE  DatasetInv(v, now2, count2)
<1>1. /\ IsDatasetPage(v) /\ SameForm(v, p) /\ SameMemory(v, p)
      /\ v.cases = p.cases /\ v.versions = p.versions
  BY DEF OnlyDatasetCalls
<1>2. /\ DatasetTokens(p) /\ DatasetTypes(p, now, count) /\ DatasetSignals(p)
      /\ CasesListed(p) /\ SnapshotsListed(p)
  BY DEF DatasetInv, DatasetBase, DatasetReady
<1>3. DatasetTokens(v)
  BY <1>1, <1>2 DEF DatasetTokens, Keeps, SameForm
<1>4. DatasetTypes(v, now2, count2)
  <2>1. /\ Reaches(p.cases.page, Len(now)) => Reaches(p.cases.page, Len(now2))
        /\ 0..Len(now) \subseteq 0..Len(now2) /\ 0..count \subseteq 0..count2
    BY LaterReaches
  <2>2. Reaches(p.versions.page, count) => Reaches(p.versions.page, count2)
    BY LaterReaches
  <2>3. /\ p.cases.seen \in Seq(Rows) /\ Dataset!Covers(now, p.cases.seen)
        /\ p.toldCases \in Seq(Rows) /\ Dataset!Covers(now, p.toldCases)
    BY <1>2 DEF DatasetTypes
  <2>4. now \in Seq(Rows) /\ now2 \in Seq(Rows) /\ Dataset!Covers(now2, now)
    BY DEF Later
  <2>5. Dataset!Covers(now2, p.cases.seen)
    BY <2>3, <2>4, CoversTransitive
  <2>6. Dataset!Covers(now2, p.toldCases)
    BY <2>3, <2>4, CoversTransitive
  <2>7. /\ p.dataset \in {None, "active", "inactive"}
        /\ Reaches(p.cases.page, Len(now))
        /\ p.versions.seen \in 0..count /\ Reaches(p.versions.page, count)
        /\ p.editing \in 0..Len(now) /\ p.acting \in 0..Len(now)
        /\ p.toldVersions \in 0..count
    BY <1>2 DEF DatasetTypes
  <2>8. /\ Reaches(p.cases.page, Len(now2)) /\ Reaches(p.versions.page, count2)
        /\ p.versions.seen \in 0..count2 /\ p.toldVersions \in 0..count2
        /\ p.editing \in 0..Len(now2) /\ p.acting \in 0..Len(now2)
    BY <2>1, <2>2, <2>7
  <2> QED
    BY <1>1, <2>3, <2>5, <2>6, <2>7, <2>8 DEF DatasetTypes, SameForm, SameMemory
<1>5. DatasetSignals(v)
  <2>1. /\ TransitsAt(p.calls, p.cases.page) => TransitsAt(v.calls, v.cases.page)
        /\ TransitsRefused(p.calls) => TransitsRefused(v.calls)
    BY <1>1 DEF SameTransits
  <2> QED
    BY <1>1, <1>2, <2>1 DEF DatasetSignals, SameForm, SameMemory
<1>6. DatasetCalls(v.calls, now2, count2, v.toldCases, v.toldVersions,
                   v.cases.page, v.versions.page)
  BY <1>1 DEF SameMemory
<1>7. DatasetBase(v, now2, count2)
  BY <1>1, <1>3, <1>4, <1>5, <1>6 DEF DatasetBase, DatasetReady
<1>8. CasesListed(v) /\ SnapshotsListed(v)
  BY <1>1, <1>2 DEF CasesListed, SnapshotsListed, SameMemory, Keeps
<1> QED
  BY <1>7, <1>8 DEF DatasetInv

(* An answer takes the place of the call's silence; nobody waits for the   *)
(* answer to a mutation that was given up.                                 *)
LEMMA DatasetRepliedInv ==
  ASSUME NEW now, NEW count, NEW now2, NEW count2, Later(now, count, now2, count2),
         NEW p, DatasetInv(p, now, count), NEW c \in p.calls, NEW answer,
         \A d : IsCall(d) /\ ServedBy(d, c, answer)
                  => DatasetCall(d, now2, count2, p.toldCases, p.toldVersions,
                                 p.cases.page, p.versions.page),
         NEW k, k = Served(p.calls, c, answer) \/ (~c.live /\ k = Ended(p.calls, c)),
         NEW v, v = [p EXCEPT !.calls = k]
  PROVE  DatasetInv(v, now2, count2)
<1>1. /\ IsDatasetPage(p)
      /\ DatasetCalls(p.calls, now, count, p.toldCases, p.toldVersions,
                      p.cases.page, p.versions.page)
  BY DEF DatasetInv, DatasetBase, DatasetReady
<1>2. AreCalls(p.calls) /\ OneLive(p.calls)
  BY <1>1 DEF DatasetCalls
<1>3. OnlyDatasetCalls(v, p) /\ v.calls = k
  BY <1>1, DatasetCallsFields DEF OnlyDatasetCalls
<1>4. DatasetCalls(p.calls, now2, count2, p.toldCases, p.toldVersions,
                   p.cases.page, p.versions.page)
  BY <1>1, DatasetCallsGrow
<1>5. /\ DatasetCalls(k, now2, count2, p.toldCases, p.toldVersions,
                      p.cases.page, p.versions.page)
      /\ Keeps(k, p.calls) /\ SameTransits(k, p.calls)
  <2>1. CASE k = Served(p.calls, c, answer)
    <3>1. DatasetCalls(k, now2, count2, p.toldCases, p.toldVersions,
                       p.cases.page, p.versions.page)
      BY <1>4, <2>1, DatasetCallsServed
    <3>2. \A lanes, loads : /\ OneHolds(p.calls, lanes, loads) => OneHolds(k, lanes, loads)
                            /\ NoneHolds(p.calls, lanes, loads) => NoneHolds(k, lanes, loads)
      BY <1>2, <2>1, ServedHolds
    <3>3. /\ \A d \in k : (d \in p.calls /\ d # c) \/ ServedBy(d, c, answer)
          /\ \E d \in k : ServedBy(d, c, answer)
          /\ \A d \in p.calls : d # c => d \in k
      BY <1>2, <2>1, ServedFacts
    <3>4. \A d \in k : \E e \in p.calls : d.lane = e.lane /\ d.arg = e.arg
      BY <3>3 DEF ServedBy
    <3>5. \A l : Pending(p.calls, l) => Pending(k, l)
      BY <3>3 DEF ServedBy, Pending
    <3>6. \A d \in k : Holds(d, TransitLanes, TransitLoads)
                         => \E e \in p.calls : /\ Holds(e, TransitLanes, TransitLoads)
                                               /\ d.arg = e.arg /\ d.live = e.live
      BY <3>3 DEF ServedBy, Holds, TransitLanes, TransitLoads
    <3>7. SameTransits(k, p.calls)
      BY <3>6 DEF SameTransits, TransitsAt, TransitsRefused
    <3> QED
      BY <3>1, <3>2, <3>4, <3>5, <3>7 DEF Keeps
  <2>2. CASE ~c.live /\ k = Ended(p.calls, c)
    <3>1. k = p.calls \ {c}
      BY <2>2 DEF Ended
    <3>2. k \subseteq p.calls
      BY <3>1
    <3>3. DatasetCalls(k, now2, count2, p.toldCases, p.toldVersions,
                       p.cases.page, p.versions.page)
      BY <1>4, <3>2, DatasetCallsFewer
    <3>4. SameTransits(k, p.calls)
      BY <3>2, FewerHolds
    <3> QED
      BY <2>2, <3>1, <3>3, <3>4 DEF Keeps, OneHolds, NoneHolds, Pending
  <2> QED
    BY <2>1, <2>2
<1>6. /\ DatasetCalls(v.calls, now2, count2, p.toldCases, p.toldVersions,
                      p.cases.page, p.versions.page)
      /\ Keeps(v.calls, p.calls) /\ SameTransits(v.calls, p.calls)
  BY <1>3, <1>5
<1> QED
  BY <1>3, <1>6, DatasetCommittedInv

-----------------------------------------------------------------------------
(* ---- The page with its server. ---------------------------------------- *)

\* The answer of the server that holds this state of the dataset.
DatasetAnswer(c, answer, now, count) ==
  CASE c.lane = "cases" -> answer = Answered(Dataset!Seen(now, 0))
    [] c.lane = "versions" -> answer = Answered(Dataset!Seen(<< >>, count))
    [] c.lane \in {"submit", "transition"} ->
         answer = Answered(Dataset!Seen(now, 0)) \/ \E code : answer = Refused(409, code)
    [] c.lane = "create" ->
         answer = Answered(Dataset!Seen(<< >>, count)) \/ \E code : answer = Refused(409, code)

LEMMA DatasetCallAnswered ==
  ASSUME NEW now \in Seq(Rows), NEW count \in Nat,
         NEW tc, NEW tv, NEW cp, NEW vp, Dataset!Covers(now, tc), tv \in 0..count,
         NEW c, DatasetCall(c, now, count, tc, tv, cp, vp),
         NEW answer, c.lane # "dataset", DatasetAnswer(c, answer, now, count),
         NEW d, IsCall(d), ServedBy(d, c, answer)
  PROVE  DatasetCall(d, now, count, tc, tv, cp, vp)
<1>1. d.lane = c.lane /\ d.arg = c.arg /\ d.reply = <<answer>> /\ d.live = c.live
  BY DEF ServedBy
<1>2. Dataset!Covers(now, now)
  BY CoversReflexive
<1>3. c.lane \in {"cases", "versions", "submit", "transition", "create"}
  BY DEF DatasetCall
<1>4. CASE c.lane = "cases"
  <2>1. answer = Answered(Dataset!Seen(now, 0))
    BY <1>4 DEF DatasetAnswer
  <2>2. TellsCases(d, now, now)
    BY <1>1, <1>2, <2>1 DEF TellsCases
  <2>3. CasesLoad(c, now, tc, cp)
    BY <1>4 DEF DatasetCall
  <2>4. CasesLoad(d, now, tc, cp)
    BY <1>1, <2>2, <2>3 DEF CasesLoad
  <2> QED
    BY <1>1, <1>4, <2>4 DEF DatasetCall
<1>5. CASE c.lane = "versions"
  <2>1. answer = Answered(Dataset!Seen(<< >>, count))
    BY <1>5 DEF DatasetAnswer
  <2>2. TellsVersions(d, count)
    BY <1>1, <2>1 DEF TellsVersions
  <2>3. SnapshotsLoad(c, count, tv, vp)
    BY <1>5 DEF DatasetCall
  <2>4. count \in 0..count /\ count >= tv
    OBVIOUS
  <2>5. SnapshotsLoad(d, count, tv, vp)
    BY <1>1, <2>2, <2>3, <2>4 DEF SnapshotsLoad
  <2> QED
    BY <1>1, <1>5, <2>5 DEF DatasetCall
<1>6. CASE c.lane \in {"submit", "transition"}
  <2>1. answer = Answered(Dataset!Seen(now, 0)) \/ \E code : answer = Refused(409, code)
    BY <1>6 DEF DatasetAnswer
  <2>2. Refuses(d) \/ TellsCases(d, now, now)
    BY <1>1, <1>2, <2>1 DEF TellsCases, Refuses
  <2>3. ChangeCall(c, now)
    BY <1>6 DEF DatasetCall
  <2>4. ChangeCall(d, now)
    BY <1>1, <2>2, <2>3 DEF ChangeCall
  <2> QED
    BY <1>1, <1>6, <2>4 DEF DatasetCall
<1>7. CASE c.lane = "create"
  <2>1. answer = Answered(Dataset!Seen(<< >>, count)) \/ \E code : answer = Refused(409, code)
    BY <1>7 DEF DatasetAnswer
  <2>2. Refuses(d) \/ TellsVersions(d, count)
    BY <1>1, <2>1 DEF TellsVersions, Refuses
  <2>3. CreateCall(c, count)
    BY <1>7 DEF DatasetCall
  <2>4. count \in 0..count
    OBVIOUS
  <2>5. CreateCall(d, count)
    BY <1>1, <2>2, <2>3, <2>4 DEF CreateCall
  <2> QED
    BY <1>1, <1>7, <2>5 DEF DatasetCall
<1> QED
  BY <1>3, <1>4, <1>5, <1>6, <1>7

(* The page after the server has committed and answered a call of it.      *)
LEMMA DatasetServed ==
  ASSUME NEW now, NEW count, NEW now2, NEW count2, Later(now, count, now2, count2),
         NEW p, DatasetInv(p, now, count), NEW c \in p.calls, c.lane # "dataset",
         NEW answer, DatasetAnswer(c, answer, now2, count2),
         NEW k, k = Served(p.calls, c, answer) \/ (~c.live /\ k = Ended(p.calls, c)),
         NEW v, v = [p EXCEPT !.calls = k]
  PROVE  DatasetInv(v, now2, count2)
<1>1. now2 \in Seq(Rows) /\ count2 \in Nat /\ now \in Seq(Rows) /\ count \in Nat
  BY DEF Later
<1>2. /\ DatasetCalls(p.calls, now, count, p.toldCases, p.toldVersions,
                      p.cases.page, p.versions.page)
      /\ p.toldCases \in Seq(Rows) /\ Dataset!Covers(now, p.toldCases)
      /\ p.toldVersions \in 0..count
  BY DEF DatasetInv, DatasetBase, DatasetReady, DatasetTypes
<1>3. DatasetCalls(p.calls, now2, count2, p.toldCases, p.toldVersions,
                   p.cases.page, p.versions.page)
  BY <1>2, DatasetCallsGrow
<1>4. DatasetCall(c, now2, count2, p.toldCases, p.toldVersions,
                  p.cases.page, p.versions.page)
  BY <1>3 DEF DatasetCalls
<1>5. Dataset!Covers(now2, p.toldCases)
  BY <1>1, <1>2, CoversTransitive DEF Later
<1>6. p.toldVersions \in 0..count2
  BY <1>2, LaterReaches
<1>7. \A d : IsCall(d) /\ ServedBy(d, c, answer)
               => DatasetCall(d, now2, count2, p.toldCases, p.toldVersions,
                              p.cases.page, p.versions.page)
  BY <1>1, <1>4, <1>5, <1>6, DatasetCallAnswered
<1> QED
  BY <1>7, DatasetRepliedInv
-----------------------------------------------------------------------------
DatasetSide ==
  /\ usable \in BOOLEAN /\ cases \in Seq(Rows) /\ Len(cases) <= MaxCases
  /\ snapshots \in Seq(SUBSET (Nat \X Nat))
  /\ DatasetInv(datasetPage, cases, Len(snapshots))

LEMMA DatasetSideFacts ==
  ASSUME DatasetSide, NEW n, n = Len(snapshots)
  PROVE  /\ n \in Nat /\ DatasetInv(datasetPage, cases, n) /\ Later(cases, n, cases, n)
         /\ \A c \in datasetPage.calls :
              DatasetCall(c, cases, n, datasetPage.toldCases, datasetPage.toldVersions,
                          datasetPage.cases.page, datasetPage.versions.page)
<1>1. n \in Nat /\ DatasetInv(datasetPage, cases, n) /\ cases \in Seq(Rows)
  BY DEF DatasetSide
<1>2. Later(cases, n, cases, n)
  BY <1>1, LaterReflexive
<1>3. \A c \in datasetPage.calls :
        DatasetCall(c, cases, n, datasetPage.toldCases, datasetPage.toldVersions,
                    datasetPage.cases.page, datasetPage.versions.page)
  BY <1>1 DEF DatasetInv, DatasetBase, DatasetReady, DatasetCalls
<1> QED
  BY <1>1, <1>2, <1>3

LEMMA DatasetReplies ==
  ASSUME NEW c, NEW answer, Dataset!Reply(c, answer)
  PROVE  \E k : /\ k = Served(datasetPage.calls, c, answer)
                   \/ (~c.live /\ k = Ended(datasetPage.calls, c))
                /\ datasetPage' = [datasetPage EXCEPT !.calls = k]
<1>1. CASE c.live
  <2>1. datasetPage' = [datasetPage EXCEPT !.calls = Served(datasetPage.calls, c, answer)]
    BY <1>1, DatasetRequests DEF Dataset!Reply
  <2> QED
    BY <2>1
<1>2. CASE ~c.live
  <2>1. datasetPage' = [datasetPage EXCEPT !.calls = Ended(datasetPage.calls, c)]
    BY <1>2, DatasetRequests DEF Dataset!Reply
  <2> QED
    BY <1>2, <2>1
<1> QED
  BY <1>1, <1>2

-----------------------------------------------------------------------------
(* ---- The server answers a read, or a change of the cases. ------------- *)

LEMMA DatasetCommits ==
  ASSUME DatasetSide, NEW n, n = Len(snapshots), NEW c \in datasetPage.calls,
         c.lane # "dataset", NEW now2, NEW count2, Later(cases, n, now2, count2),
         NEW answer, Dataset!Reply(c, answer), DatasetAnswer(c, answer, now2, count2)
  PROVE  DatasetInv(datasetPage', now2, count2)
<1>1. DatasetInv(datasetPage, cases, n)
  BY DatasetSideFacts
<1>2. PICK k : /\ k = Served(datasetPage.calls, c, answer)
                  \/ (~c.live /\ k = Ended(datasetPage.calls, c))
               /\ datasetPage' = [datasetPage EXCEPT !.calls = k]
  BY DatasetReplies
<1> QED
  BY <1>1, <1>2, DatasetServed

(* A change of the cases that is committed, or refused, and answered.      *)
LEMMA ServeChangeSide ==
  ASSUME DatasetSide, NEW c \in datasetPage.calls, c.lane \in {"submit", "transition"},
         NEW allowed \in BOOLEAN, NEW seq, NEW refusal,
         Dataset!Serve(c, allowed, seq, refusal),
         allowed => seq \in Seq(Rows) /\ Len(seq) <= MaxCases /\ Dataset!Covers(seq, cases),
         usable' = usable, snapshots' = snapshots
  PROVE  DatasetSide'
<1>1. PICK n : n = Len(snapshots)
  OBVIOUS
<1>2. n \in Nat /\ Later(cases, n, cases, n) /\ cases \in Seq(Rows)
  BY <1>1, DatasetSideFacts DEF DatasetSide
<1>3. CASE allowed
  <2>1. /\ cases' = seq /\ Dataset!Reply(c, Dataset!Answered(Dataset!Committed(c.lane, seq, 0)))
        /\ seq \in Seq(Rows) /\ Len(seq) <= MaxCases /\ Dataset!Covers(seq, cases)
    BY <1>3 DEF Dataset!Serve
  <2>2. Dataset!Committed(c.lane, seq, 0) = Dataset!Seen(seq, 0)
    BY DEF Dataset!Committed
  <2>3. Dataset!Reply(c, Answered(Dataset!Seen(seq, 0)))
    BY <2>1, <2>2, DatasetAnswers
  <2>4. DatasetAnswer(c, Answered(Dataset!Seen(seq, 0)), seq, n)
    BY DEF DatasetAnswer
  <2>5. Later(cases, n, seq, n)
    BY <1>2, <2>1 DEF Later
  <2>6. DatasetInv(datasetPage', seq, n)
    BY <1>1, <2>3, <2>4, <2>5, DatasetCommits
  <2> QED
    BY <1>1, <2>1, <2>6 DEF DatasetSide
<1>4. CASE ~allowed
  <2>1. cases' = cases /\ Dataset!Reply(c, Refused(409, refusal))
    BY <1>4, DatasetAnswers DEF Dataset!Serve
  <2>2. DatasetAnswer(c, Refused(409, refusal), cases, n)
    BY DEF DatasetAnswer
  <2>3. DatasetInv(datasetPage', cases, n)
    BY <1>1, <1>2, <2>1, <2>2, DatasetCommits
  <2> QED
    BY <1>1, <2>1, <2>3 DEF DatasetSide
<1> QED
  BY <1>3, <1>4

LEMMA ServeDatasetReadSide ==
  ASSUME DatasetSide, NEW c \in datasetPage.calls, Dataset!ServeRead(c)
  PROVE  DatasetSide'
<1>1. PICK n : n = Len(snapshots)
  OBVIOUS
<1>2. n \in Nat /\ Later(cases, n, cases, n)
  BY <1>1, DatasetSideFacts
<1>3. PICK answer : answer = Answered(Dataset!Committed(c.lane, cases, n))
  OBVIOUS
<1>4. /\ c.lane \in {"cases", "versions"}
      /\ datasetPage' = [datasetPage EXCEPT !.calls = Served(datasetPage.calls, c, answer)]
      /\ usable' = usable /\ cases' = cases /\ snapshots' = snapshots
  BY <1>1, <1>3, DatasetRequests, DatasetAnswers DEF Dataset!ServeRead
<1>5. DatasetAnswer(c, answer, cases, n)
  BY <1>3, <1>4 DEF DatasetAnswer, Dataset!Committed
<1>6. DatasetInv(datasetPage, cases, n)
  BY <1>1, DatasetSideFacts
<1>7. DatasetInv(datasetPage', cases, n)
  BY <1>2, <1>4, <1>5, <1>6, DatasetServed
<1> QED
  BY <1>1, <1>4, <1>7 DEF DatasetSide

-----------------------------------------------------------------------------
(* ---- The server carries out a mutation of the cases. ------------------ *)

LEMMA ServeSubmitSide ==
  ASSUME DatasetSide, NEW c \in datasetPage.calls, Dataset!ServeSubmit(c)
  PROVE  DatasetSide'
<1>1. /\ c.lane = "submit" /\ usable' = usable /\ snapshots' = snapshots
      /\ cases \in Seq(Rows) /\ Len(cases) <= MaxCases /\ usable \in BOOLEAN
  BY DEF Dataset!ServeSubmit, DatasetSide
<1>2. PICK n : n = c.arg.case
  OBVIOUS
<1>3. n \in 0..Len(cases)
  <2>1. ChangeCall(c, cases)
    BY <1>1, DatasetSideFacts DEF DatasetCall
  <2> QED
    BY <1>1, <1>2, <2>1 DEF ChangeCall
<1>4. CASE n = 0 /\ Len(cases) < MaxCases
                 /\ Dataset!Serve(c, usable, Append(cases, Dataset!Draft), "DATASET_INACTIVE")
  <2>1. PICK s : s = Append(cases, Dataset!Draft)
    OBVIOUS
  <2>2. s \in Seq(Rows) /\ Len(s) = Len(cases) + 1 /\ Dataset!Covers(s, cases)
    BY <1>1, <2>1, AppendCovers
  <2>3. Len(s) <= MaxCases
    <3>1. Len(cases) \in Nat /\ MaxCases \in Nat
      BY <1>1, BoundsAssumption
    <3> QED
      BY <1>4, <2>2, <3>1
  <2>4. Dataset!Serve(c, usable, s, "DATASET_INACTIVE")
    BY <1>4, <2>1
  <2>5. c.lane \in {"submit", "transition"}
    BY <1>1
  <2> QED
    BY <1>1, <2>2, <2>3, <2>4, <2>5, ServeChangeSide
<1>5. CASE Dataset!Serve(c, FALSE, cases, "DUPLICATE_CASE_KEY_IN_DATASET")
  <2>1. Dataset!Covers(cases, cases)
    BY <1>1, CoversReflexive
  <2>2. c.lane \in {"submit", "transition"}
    BY <1>1
  <2>3. FALSE \in BOOLEAN
    OBVIOUS
  <2> QED
    BY <1>1, <1>5, <2>1, <2>2, <2>3, ServeChangeSide
<1>6. CASE n # 0 /\ cases[n].edits < MaxEdits
                 /\ Dataset!Serve(c, Dataset!CanUpdate(n), Dataset!Changed(n, cases, "update"),
                                  "RESOURCE_IMMUTABLE")
  <2>1. PICK s : s = Dataset!Changed(n, cases, "update")
    OBVIOUS
  <2>2. n \in 1..Len(cases)
    BY <1>3, <1>6
  <2>3. s \in Seq(Rows) /\ Len(s) = Len(cases) /\ Dataset!Covers(s, cases)
    BY <1>1, <1>6, <2>1, <2>2, ChangedCovers
  <2>4. c.lane \in {"submit", "transition"} /\ Dataset!CanUpdate(n) \in BOOLEAN
    BY <1>1 DEF Dataset!CanUpdate
  <2>5. Len(s) <= MaxCases
    BY <1>1, <2>3
  <2>6. Dataset!Serve(c, Dataset!CanUpdate(n), s, "RESOURCE_IMMUTABLE")
    BY <1>6, <2>1
  <2> QED
    BY <1>1, <2>3, <2>4, <2>5, <2>6, ServeChangeSide
<1>7. \/ n = 0 /\ Len(cases) < MaxCases
           /\ Dataset!Serve(c, usable, Append(cases, Dataset!Draft), "DATASET_INACTIVE")
      \/ Dataset!Serve(c, FALSE, cases, "DUPLICATE_CASE_KEY_IN_DATASET")
      \/ n # 0 /\ cases[n].edits < MaxEdits
           /\ Dataset!Serve(c, Dataset!CanUpdate(n), Dataset!Changed(n, cases, "update"),
                            "RESOURCE_IMMUTABLE")
  BY <1>2 DEF Dataset!ServeSubmit
<1> QED
  BY <1>4, <1>5, <1>6, <1>7

LEMMA ServeTransitionSide ==
  ASSUME DatasetSide, NEW c \in datasetPage.calls, Dataset!ServeTransition(c)
  PROVE  DatasetSide'
<1>1. /\ c.lane = "transition" /\ usable' = usable /\ snapshots' = snapshots
      /\ cases \in Seq(Rows) /\ Len(cases) <= MaxCases
  BY DEF Dataset!ServeTransition, DatasetSide
<1>2. PICK n, action : n = c.arg.case /\ action = c.arg.by
  OBVIOUS
<1>3. n \in 1..Len(cases) /\ action \in {"approve", "deprecate"}
  <2>1. ChangeCall(c, cases)
    BY <1>1, DatasetSideFacts DEF DatasetCall
  <2> QED
    BY <1>1, <1>2, <2>1 DEF ChangeCall
<1>4. PICK s : s = Dataset!Changed(n, cases, action)
  OBVIOUS
<1>5. PICK allowed \in BOOLEAN :
        /\ Dataset!Serve(c, allowed, s, "INVALID_STATE_TRANSITION")
        /\ allowed /\ action = "approve" => cases[n].status = "DRAFT"
  <2>1. CASE action = "approve"
    <3>1. Dataset!Serve(c, Dataset!CanApprove(n), s, "INVALID_STATE_TRANSITION")
      BY <1>2, <1>4, <2>1 DEF Dataset!ServeTransition
    <3>2. Dataset!CanApprove(n) \in BOOLEAN /\ (Dataset!CanApprove(n) => cases[n].status = "DRAFT")
      BY DEF Dataset!CanApprove
    <3> QED
      BY <3>1, <3>2
  <2>2. CASE action = "deprecate"
    <3>1. Dataset!Serve(c, Dataset!CanDeprecate(n), s, "INVALID_STATE_TRANSITION")
      BY <1>2, <1>4, <2>2 DEF Dataset!ServeTransition
    <3>2. Dataset!CanDeprecate(n) \in BOOLEAN
      BY DEF Dataset!CanDeprecate
    <3> QED
      BY <2>2, <3>1, <3>2
  <2> QED
    BY <1>3, <2>1, <2>2
<1>6. allowed => s \in Seq(Rows) /\ Len(s) <= MaxCases /\ Dataset!Covers(s, cases)
  <2>1. SUFFICES ASSUME allowed
                 PROVE  s \in Seq(Rows) /\ Len(s) <= MaxCases /\ Dataset!Covers(s, cases)
    OBVIOUS
  <2>2. \/ action = "approve" /\ cases[n].status = "DRAFT"
        \/ action = "deprecate"
        \/ action = "update" /\ cases[n].edits < MaxEdits
    BY <1>3, <1>5, <2>1
  <2>3. s \in Seq(Rows) /\ Len(s) = Len(cases) /\ Dataset!Covers(s, cases)
    BY <1>1, <1>3, <1>4, <2>2, ChangedCovers
  <2> QED
    BY <1>1, <2>3
<1>7. c.lane \in {"submit", "transition"}
  BY <1>1
<1> QED
  BY <1>1, <1>5, <1>6, <1>7, ServeChangeSide

-----------------------------------------------------------------------------
(* ---- The server makes a version; others change the dataset. ----------- *)

LEMMA ServeCreateSide ==
  ASSUME DatasetSide, NEW c \in datasetPage.calls, Dataset!ServeCreate(c)
  PROVE  DatasetSide'
<1>1. PICK n : n = Len(snapshots)
  OBVIOUS
<1>2. n \in Nat /\ Later(cases, n, cases, n) /\ cases \in Seq(Rows)
  BY <1>1, DatasetSideFacts DEF DatasetSide
<1>3. c.lane = "create" /\ usable' = usable /\ cases' = cases
  BY DEF Dataset!ServeCreate
<1>4. CASE Dataset!CanSnapshot
  <2>1. PICK answer : answer = Answered(Dataset!Seen(<< >>, n + 1))
    OBVIOUS
  <2>2. /\ snapshots' = Append(snapshots, Dataset!Approved(cases))
        /\ Dataset!Reply(c, answer)
    BY <1>1, <1>4, <2>1, DatasetAnswers DEF Dataset!ServeCreate, Dataset!Committed
  <2>3. Dataset!Approved(cases) \in SUBSET (Nat \X Nat)
    <3>1. ASSUME NEW m \in DOMAIN cases PROVE <<m, cases[m].edits>> \in Nat \X Nat
      <4>1. m \in 1..Len(cases) /\ cases[m].edits \in Nat
        BY <1>2, RowFields
      <4>2. m \in Nat
        BY <1>2, <4>1
      <4> QED
        BY <4>1, <4>2
    <3> QED
      BY <3>1 DEF Dataset!Approved
  <2>4. snapshots' \in Seq(SUBSET (Nat \X Nat)) /\ Len(snapshots') = n + 1
    <3>1. snapshots \in Seq(SUBSET (Nat \X Nat))
      BY DEF DatasetSide
    <3> HIDE DEF Dataset!Approved
    <3> QED
      BY <1>1, <2>2, <2>3, <3>1
  <2>5. Later(cases, n, cases, n + 1)
    BY <1>2 DEF Later
  <2>6. DatasetAnswer(c, answer, cases, n + 1)
    BY <1>3, <2>1 DEF DatasetAnswer
  <2>7. DatasetInv(datasetPage', cases, n + 1)
    BY <1>1, <1>3, <2>2, <2>5, <2>6, DatasetCommits
  <2> QED
    BY <1>3, <2>4, <2>7 DEF DatasetSide
<1>5. CASE ~Dataset!CanSnapshot
  <2>1. /\ snapshots' = snapshots
        /\ Dataset!Reply(c, Refused(409, "DUPLICATE_DATASET_VERSION"))
    BY <1>5, DatasetAnswers DEF Dataset!ServeCreate
  <2>2. DatasetAnswer(c, Refused(409, "DUPLICATE_DATASET_VERSION"), cases, n)
    BY <1>3 DEF DatasetAnswer
  <2>3. DatasetInv(datasetPage', cases, n)
    BY <1>1, <1>2, <1>3, <2>1, <2>2, DatasetCommits
  <2> QED
    BY <1>1, <1>3, <2>1, <2>3 DEF DatasetSide
<1> QED
  BY <1>4, <1>5

(* What other users change, the page does not see until it asks.           *)
LEMMA DatasetElsewhereSide ==
  ASSUME DatasetSide, Dataset!Elsewhere
  PROVE  DatasetSide'
<1>1. PICK n : n = Len(snapshots)
  OBVIOUS
<1>2. /\ n \in Nat /\ DatasetInv(datasetPage, cases, n) /\ cases \in Seq(Rows)
      /\ usable \in BOOLEAN /\ Len(cases) <= MaxCases
  BY <1>1, DatasetSideFacts DEF DatasetSide
<1>3. /\ snapshots' = snapshots /\ datasetPage' = datasetPage
      /\ usable' = usable \/ usable' = FALSE
      /\ \/ cases' = cases
         \/ \E m \in 1..Len(cases), action \in {"approve", "deprecate"} :
              /\ cases' = Dataset!Changed(m, cases, action)
              /\ action = "approve" => cases[m].status = "DRAFT"
         \/ Len(cases) < MaxCases /\ cases' = Append(cases, Dataset!Draft)
  <2>1. DOMAIN cases = 1..Len(cases)
    BY <1>2
  <2> QED
    BY <2>1 DEF Dataset!Elsewhere, Dataset!CanApprove
<1>4. PICK now2 : now2 = cases'
  OBVIOUS
<1>5. now2 \in Seq(Rows) /\ Dataset!Covers(now2, cases) /\ Len(now2) <= MaxCases
  <2>1. CASE now2 = cases
    BY <1>2, <2>1, CoversReflexive
  <2>2. ASSUME NEW m \in 1..Len(cases), NEW action \in {"approve", "deprecate"},
               now2 = Dataset!Changed(m, cases, action),
               action = "approve" => cases[m].status = "DRAFT"
        PROVE  now2 \in Seq(Rows) /\ Dataset!Covers(now2, cases) /\ Len(now2) <= MaxCases
    <3>1. \/ action = "approve" /\ cases[m].status = "DRAFT"
          \/ action = "deprecate"
          \/ action = "update" /\ cases[m].edits < MaxEdits
      BY <2>2
    <3>2. now2 \in Seq(Rows) /\ Len(now2) = Len(cases) /\ Dataset!Covers(now2, cases)
      BY <1>2, <2>2, <3>1, ChangedCovers
    <3> QED
      BY <1>2, <3>2
  <2>3. CASE Len(cases) < MaxCases /\ now2 = Append(cases, Dataset!Draft)
    <3>1. now2 \in Seq(Rows) /\ Len(now2) = Len(cases) + 1 /\ Dataset!Covers(now2, cases)
      BY <1>2, <2>3, AppendCovers
    <3>2. Len(cases) \in Nat /\ MaxCases \in Nat
      BY <1>2, BoundsAssumption
    <3> QED
      BY <2>3, <3>1, <3>2
  <2> QED
    BY <1>3, <1>4, <2>1, <2>2, <2>3
<1>6. Later(cases, n, now2, n)
  BY <1>2, <1>5 DEF Later
<1>7. DatasetInv(datasetPage, now2, n)
  <2>1. /\ IsDatasetPage(datasetPage)
        /\ DatasetCalls(datasetPage.calls, cases, n, datasetPage.toldCases,
                        datasetPage.toldVersions, datasetPage.cases.page,
                        datasetPage.versions.page)
    BY <1>2 DEF DatasetInv, DatasetBase, DatasetReady
  <2>2. DatasetCalls(datasetPage.calls, now2, n, datasetPage.toldCases,
                     datasetPage.toldVersions, datasetPage.cases.page,
                     datasetPage.versions.page)
    BY <1>6, <2>1, DatasetCallsGrow
  <2>3. OnlyDatasetCalls(datasetPage, datasetPage)
    BY <2>1 DEF OnlyDatasetCalls, SameForm, SameMemory
  <2>4. Keeps(datasetPage.calls, datasetPage.calls)
    BY DEF Keeps
  <2>5. SameTransits(datasetPage.calls, datasetPage.calls)
    BY DEF SameTransits
  <2> QED
    BY <1>2, <1>6, <2>2, <2>3, <2>4, <2>5, DatasetCommittedInv
<1> QED
  BY <1>1, <1>2, <1>3, <1>4, <1>5, <1>7 DEF DatasetSide

-----------------------------------------------------------------------------
(* ---- The first state, and every step of the user. --------------------- *)

(* The page before its first render holds nothing.                         *)
LEMMA NewDatasetPage ==
  ASSUME NEW u, u = Dataset!NewPage
  PROVE  /\ IsDatasetPage(u) /\ u.dataset = None
         /\ u.cases.page = 1 /\ u.cases.seen = << >>
         /\ u.versions.page = 1 /\ u.versions.seen = 0
         /\ u.editing = 0 /\ ~u.submitting /\ u.acting = 0 /\ ~u.creating /\ u.calls = {}
         /\ u.toldCases = << >> /\ u.toldVersions = 0 /\ u.alone = {} /\ u.failed = {}
  BY DEF Dataset!NewPage, IsDatasetPage, IsList, Dataset!Unread

LEMMA DatasetInit ==
  ASSUME Dataset!Init
  PROVE  DatasetSide
<1>1. PICK u : u = Dataset!NewPage
  OBVIOUS
<1>2. PICK now : now = <<Dataset!Row("APPROVED", 0), Dataset!Draft>>
  OBVIOUS
<1>3. now \in Seq(Rows) /\ Len(now) = 2
  <2>1. Dataset!Row("APPROVED", 0) \in Rows /\ Dataset!Draft \in Rows
    BY BoundsAssumption DEF Rows, Dataset!Draft, Dataset!Row
  <2> HIDE DEF Rows
  <2> QED
    BY <1>2, <2>1
<1>4. /\ IsDatasetPage(u) /\ u.dataset = None
      /\ u.cases.page = 1 /\ u.cases.seen = << >> /\ u.versions.page = 1 /\ u.versions.seen = 0
      /\ u.editing = 0 /\ ~u.submitting /\ u.acting = 0 /\ ~u.creating /\ u.calls = {}
      /\ u.toldCases = << >> /\ u.toldVersions = 0 /\ u.alone = {} /\ u.failed = {}
  BY <1>1, NewDatasetPage
<1>5. DatasetCalls(u.calls, now, 1, u.toldCases, u.toldVersions, u.cases.page, u.versions.page)
  BY <1>4 DEF DatasetCalls, AreCalls, OneLive
<1>6. DatasetTokens(u)
  BY <1>4 DEF DatasetTokens, OneHolds, NoneHolds
<1>7. DatasetTypes(u, now, 1)
  <2>1. Reaches(1, 1) /\ Reaches(1, 2)
    BY SizeAssumption DEF Reaches
  <2>2. << >> \in Seq(Rows) /\ Dataset!Covers(now, << >>)
    BY DEF Dataset!Covers
  <2> QED
    BY <1>3, <1>4, <2>1, <2>2 DEF DatasetTypes
<1>8. DatasetSignals(u)
  BY <1>4 DEF DatasetSignals
<1>9. DatasetReady(u, now, 1, u.toldCases, u.toldVersions, u.cases.page, u.versions.page)
  BY <1>4, <1>5, <1>6, <1>7 DEF DatasetReady
<1>10. /\ cases = now /\ usable = TRUE /\ snapshots = <<{<<1, 0>>}>>
       /\ datasetPage = Dataset!Effect(u)
  BY <1>1, <1>2 DEF Dataset!Init
<1>11. "transition" \notin u.failed \cup u.alone /\ "create" \notin u.failed
  BY <1>4
<1>12. 1 \in Nat
  OBVIOUS
<1>13. DatasetInv(datasetPage, now, 1)
  BY <1>3, <1>8, <1>9, <1>10, <1>11, <1>12, EffectInv
<1>14. snapshots \in Seq(SUBSET (Nat \X Nat)) /\ Len(snapshots) = 1
  <2>1. {<<1, 0>>} \in SUBSET (Nat \X Nat)
    OBVIOUS
  <2> QED
    BY <1>10, <2>1
<1>15. Len(cases) <= MaxCases
  BY <1>3, <1>10, BoundsAssumption
<1> QED
  BY <1>3, <1>10, <1>13, <1>14, <1>15 DEF DatasetSide
-----------------------------------------------------------------------------
LEMMA VisibleSeen ==
  ASSUME NEW now \in Seq(Rows), NEW count, NEW p, DatasetInv(p, now, count),
         NEW n \in Dataset!VisibleCases(p.cases)
  PROVE  n \in DOMAIN p.cases.seen /\ n \in 0..Len(now)
<1>1. p.cases.seen \in Seq(Rows) /\ Dataset!Covers(now, p.cases.seen)
  BY DEF DatasetInv, DatasetBase, DatasetReady, DatasetTypes
<1>2. n \in DOMAIN p.cases.seen
  BY DEF Dataset!VisibleCases
<1>3. n \in DOMAIN now
  BY <1>1, <1>2 DEF Dataset!Covers
<1>4. n \in 1..Len(now) /\ Len(now) \in Nat
  BY <1>3
<1> QED
  BY <1>2, <1>4

LEMMA DatasetUserInv ==
  ASSUME NEW now \in Seq(Rows), now = cases, NEW count \in Nat,
         DatasetInv(datasetPage, now, count), Dataset!User
  PROVE  DatasetInv(datasetPage', now, count)
<1>1. CASE Dataset!EditCase
  <2>1. PICK n \in Dataset!VisibleCases(datasetPage.cases) :
          datasetPage' = [datasetPage EXCEPT !.editing = n]
    BY <1>1 DEF Dataset!EditCase
  <2>2. n \in 0..Len(now)
    BY VisibleSeen
  <2> QED
    BY <2>1, <2>2, EditInv
<1>2. CASE Dataset!CancelEdit
  <2>1. datasetPage' = [datasetPage EXCEPT !.editing = 0]
    BY <1>2 DEF Dataset!CancelEdit
  <2>2. 0 \in 0..Len(now)
    OBVIOUS
  <2> QED
    BY <2>1, <2>2, EditInv
<1>3. CASE Dataset!submitCase
  BY <1>3, SubmitCaseInv DEF Dataset!submitCase
<1>4. CASE Dataset!transition
  <2>1. PICK n \in Dataset!VisibleCases(datasetPage.cases), action \in {"approve", "deprecate"} :
          datasetPage' = [Dataset!ActAlone(datasetPage, "transition") EXCEPT
                            !.acting = n, !.cases.error = FALSE,
                            !.calls = Dataset!Sent(@, "transition",
                                        Dataset!Arg(datasetPage.cases.page, n, action))]
    BY <1>4 DEF Dataset!transition
  <2>2. n \in DOMAIN datasetPage.cases.seen
    BY VisibleSeen
  <2>3. datasetPage.acting = 0
    BY <1>4 DEF Dataset!transition
  <2> QED
    BY <2>1, <2>2, <2>3, TransitionInv
<1>5. CASE Dataset!createVersion
  BY <1>5, CreateVersionInv DEF Dataset!createVersion
<1>6. CASE Dataset!MovePage
  <2>1. \/ \E n \in Dataset!Turned(datasetPage.cases, Len(datasetPage.cases.seen)) :
             datasetPage' = Dataset!Effect([Dataset!Act(datasetPage) EXCEPT !.cases.page = n])
        \/ \E n \in Dataset!Turned(datasetPage.versions, datasetPage.versions.seen) :
             datasetPage' = Dataset!Effect([Dataset!Act(datasetPage) EXCEPT !.versions.page = n])
    BY <1>6 DEF Dataset!MovePage
  <2> QED
    BY <2>1, MoveCasesInv, MoveVersionsInv
<1>7. CASE Dataset!Retry
  <2>1. \/ datasetPage' = Dataset!LoadDataset(datasetPage, "retry")
        \/ datasetPage' = Dataset!LoadCases(Dataset!Act(datasetPage), datasetPage.cases.page, "retry")
        \/ datasetPage' = Dataset!LoadVersions(Dataset!Act(datasetPage),
                                               datasetPage.versions.page, "retry")
    BY <1>7 DEF Dataset!Retry
  <2> QED
    BY <2>1, RetryDatasetInv, RetryCasesInv, RetryVersionsInv
<1> QED
  BY <1>1, <1>2, <1>3, <1>4, <1>5, <1>6, <1>7 DEF Dataset!User

-----------------------------------------------------------------------------
(* ---- Every answer, the next state, and what is shown. ----------------- *)

LEMMA DatasetReceiveInv ==
  ASSUME NEW now \in Seq(Rows), NEW count \in Nat,
         DatasetInv(datasetPage, now, count), Dataset!Receive
  PROVE  DatasetInv(datasetPage', now, count)
<1>1. PICK c \in datasetPage.calls :
        \/ Dataset!ReceiveDataset(c) \/ Dataset!ReceiveCases(c) \/ Dataset!ReceiveVersions(c)
        \/ Dataset!ReceiveSubmit(c) \/ Dataset!ReceiveTransition(c) \/ Dataset!ReceiveCreate(c)
  BY DEF Dataset!Receive
<1>2. PICK u : u = [datasetPage EXCEPT !.calls = Dataset!Ended(@, c)]
  OBVIOUS
<1>3. PICK w : w = [datasetPage EXCEPT !.calls = Dataset!EndedMutation(@, c)]
  OBVIOUS
<1>4. CASE Dataset!ReceiveDataset(c)
  <2>1. c.lane = "dataset" /\ \E o : datasetPage' = Dataset!DatasetLoaded(u, o)
    BY <1>2, <1>4 DEF Dataset!ReceiveDataset
  <2> QED
    BY <1>2, <2>1, ReceiveDatasetInv
<1>5. CASE Dataset!ReceiveCases(c)
  <2>1. c.lane = "cases"
    BY <1>5 DEF Dataset!ReceiveCases
  <2>2. PICK o \in Dataset!OutcomesOf(c) :
          datasetPage' = Dataset!Rendered(datasetPage, Dataset!Then(
            IF Dataset!IsCurrent(c) THEN Dataset!CasesLoaded(u, c.arg.page, o) ELSE u,
            c.arg.by))
    BY <1>2, <1>5 DEF Dataset!ReceiveCases
  <2> QED
    BY <1>2, <2>1, <2>2, ReceiveCasesInv
<1>6. CASE Dataset!ReceiveVersions(c)
  <2>1. c.lane = "versions"
    BY <1>6 DEF Dataset!ReceiveVersions
  <2>2. PICK o \in Dataset!OutcomesOf(c) :
          datasetPage' = Dataset!Rendered(datasetPage, Dataset!Then(
            IF Dataset!IsCurrent(c) THEN Dataset!VersionsLoaded(u, c.arg.page, o) ELSE u,
            c.arg.by))
    BY <1>2, <1>6 DEF Dataset!ReceiveVersions
  <2> QED
    BY <1>2, <2>1, <2>2, ReceiveSnapshotsInv
<1>7. CASE Dataset!ReceiveSubmit(c)
  <2>1. c.lane = "submit" /\ c.live
    BY <1>7 DEF Dataset!ReceiveSubmit
  <2>2. PICK o \in Dataset!OutcomesOf(c) :
          datasetPage' = SubmitReceived(datasetPage, w, o)
    BY <1>3, <1>7 DEF Dataset!ReceiveSubmit, SubmitReceived
  <2> QED
    BY <1>3, <2>1, <2>2, ReceiveSubmitInv
<1>8. CASE Dataset!ReceiveTransition(c)
  <2>1. c.lane = "transition" /\ c.live
    BY <1>8 DEF Dataset!ReceiveTransition
  <2>2. PICK o \in Dataset!OutcomesOf(c) :
          datasetPage' = IF o.kind = "data"
                         THEN Dataset!LoadCases(Dataset!Told(w, o.value.cases), c.arg.page,
                                                "transition")
                         ELSE Dataset!LoadCases(Dataset!Failed(w, "transition"), c.arg.page,
                                                "refused")
    BY <1>3, <1>8 DEF Dataset!ReceiveTransition
  <2> QED
    BY <1>3, <2>1, <2>2, ReceiveTransitionInv
<1>9. CASE Dataset!ReceiveCreate(c)
  <2>1. c.lane = "create" /\ c.live
    BY <1>9 DEF Dataset!ReceiveCreate
  <2>2. PICK o \in Dataset!OutcomesOf(c) :
          datasetPage' = CreateReceived(datasetPage, w, o)
    BY <1>3, <1>9 DEF Dataset!ReceiveCreate, CreateReceived
  <2> QED
    BY <1>3, <2>1, <2>2, ReceiveCreateInv
<1> QED
  BY <1>1, <1>4, <1>5, <1>6, <1>7, <1>8, <1>9

LEMMA DatasetNext ==
  ASSUME DatasetSide, Dataset!Next
  PROVE  DatasetSide'
<1>1. ASSUME Dataset!User \/ Dataset!Receive PROVE DatasetSide'
  <2>1. PICK n : n = Len(snapshots)
    OBVIOUS
  <2>2. n \in Nat /\ DatasetInv(datasetPage, cases, n) /\ cases \in Seq(Rows)
    BY <2>1, DatasetSideFacts DEF DatasetSide
  <2>3. usable' = usable /\ cases' = cases /\ snapshots' = snapshots
    BY <1>1 DEF Dataset!User, Dataset!Receive
  <2>4. DatasetInv(datasetPage', cases, n)
    BY <1>1, <2>2, DatasetUserInv, DatasetReceiveInv
  <2> QED
    BY <2>1, <2>3, <2>4 DEF DatasetSide
<1>2. ASSUME NEW c \in datasetPage.calls,
             \/ Dataset!ServeRead(c) \/ Dataset!ServeSubmit(c)
             \/ Dataset!ServeTransition(c) \/ Dataset!ServeCreate(c)
      PROVE  DatasetSide'
  BY <1>2, ServeDatasetReadSide, ServeSubmitSide, ServeTransitionSide, ServeCreateSide
<1>3. ASSUME Dataset!Elsewhere PROVE DatasetSide'
  BY <1>3, DatasetElsewhereSide
<1> QED
  BY <1>1, <1>2, <1>3 DEF Dataset!Next
-----------------------------------------------------------------------------
LEMMA DatasetSideTyped ==
  ASSUME DatasetSide
  PROVE  Dataset!TypeOK
<1>1. PICK n : n = Len(snapshots)
  OBVIOUS
<1>2. DatasetInv(datasetPage, cases, n)
  BY <1>1, DatasetSideFacts
<1>3. usable \in BOOLEAN /\ cases \in Seq(Rows) /\ Len(cases) <= MaxCases
  BY DEF DatasetSide
<1>4. /\ datasetPage.dataset \in {None, "active", "inactive"}
      /\ datasetPage.editing \in 0..Len(cases) /\ datasetPage.acting \in 0..Len(cases)
      /\ OneLive(datasetPage.calls)
  BY <1>2 DEF DatasetInv, DatasetBase, DatasetReady, DatasetTypes, DatasetCalls
<1>5. \A m \in DOMAIN cases :
        cases[m] \in [status : {"DRAFT", "APPROVED", "DEPRECATED"}, edits : 0..MaxEdits]
  <2>1. \A m \in DOMAIN cases : cases[m] \in Rows
    BY <1>3
  <2> QED
    BY <2>1 DEF Rows
<1>6. 0..Len(cases) \subseteq 0..MaxCases
  <2>1. Len(cases) \in Nat /\ MaxCases \in Nat
    BY <1>3, BoundsAssumption
  <2> QED
    BY <1>3, <2>1
<1>7. \A l : Cardinality({c \in datasetPage.calls : c.lane = l /\ c.live}) <= 1
  BY <1>4, AtMostOneLive
<1>8. \A s : Dataset!Cardinality(s) = Cardinality(s)
  BY DEF Dataset!Cardinality, Cardinality
<1> QED
  BY <1>3, <1>4, <1>5, <1>6, <1>7, <1>8 DEF Dataset!TypeOK

LEMMA DatasetSideShows ==
  ASSUME DatasetSide
  PROVE  Dataset!ListsAreOfThePage /\ Dataset!ChangesAreShown /\ Dataset!FailuresAreShown
<1>1. PICK n : n = Len(snapshots)
  OBVIOUS
<1>2. DatasetInv(datasetPage, cases, n)
  BY <1>1, DatasetSideFacts
<1>3. /\ DatasetTokens(datasetPage) /\ DatasetSignals(datasetPage)
      /\ CasesListed(datasetPage) /\ SnapshotsListed(datasetPage)
  BY <1>2 DEF DatasetInv, DatasetBase, DatasetReady
<1>4. ASSUME Dataset!AtRest(datasetPage.cases, datasetPage.acting # 0)
      PROVE  /\ datasetPage.cases.rows = datasetPage.cases.page
             /\ Dataset!Covers(datasetPage.cases.seen, datasetPage.toldCases)
  <2>1. NoneHolds(datasetPage.calls, TransitLanes, TransitLoads)
    BY <1>3, <1>4 DEF Dataset!AtRest, DatasetTokens
  <2>2. ~Pending(datasetPage.calls, "transition")
    BY <2>1 DEF NoneHolds, Holds, TransitLanes, Pending
  <2> QED
    BY <1>3, <1>4, <2>2 DEF Dataset!AtRest, CasesListed
<1>5. ASSUME Dataset!AtRest(datasetPage.versions, datasetPage.creating)
      PROVE  /\ datasetPage.versions.rows = datasetPage.versions.page
             /\ datasetPage.versions.seen >= datasetPage.toldVersions
  <2>1. NoneHolds(datasetPage.calls, CreateLanes, CreateLoads)
    BY <1>3, <1>5 DEF Dataset!AtRest, DatasetTokens
  <2>2. ~Pending(datasetPage.calls, "create")
    BY <2>1 DEF NoneHolds, Holds, CreateLanes, Pending
  <2> QED
    BY <1>3, <1>5, <2>2 DEF Dataset!AtRest, SnapshotsListed
<1>6. Dataset!FailuresAreShown
  BY <1>3 DEF DatasetSignals, Dataset!FailuresAreShown
<1> QED
  BY <1>4, <1>5, <1>6 DEF Dataset!ListsAreOfThePage, Dataset!ChangesAreShown

-----------------------------------------------------------------------------
(* ---- The page that is open. ------------------------------------------- *)

\* The page that is not open, and what it would show, stay as they were.
DatasetClosed ==
  usable = TRUE /\ cases = << >> /\ snapshots = << >> /\ datasetPage = Dataset!NewPage
TargetClosed ==
  targetActive = TRUE /\ config = 0 /\ captured = <<0>> /\ targetPage = Target!NewPage

IInv ==
  \/ open = "dataset" /\ DatasetSide /\ TargetClosed
  \/ open \in {"target", "evaluator"} /\ TargetSide /\ DatasetClosed
-----------------------------------------------------------------------------
LEMMA InitInv == Init => IInv
<1>1. CASE open = "dataset" /\ Dataset!Init /\ TargetClosed
  BY <1>1, DatasetInit DEF IInv
<1>2. CASE Target!Init /\ DatasetClosed
  <2>1. open \in {"target", "evaluator"}
    BY <1>2 DEF Target!Init
  <2> QED
    BY <1>2, <2>1, TargetInit DEF IInv
<1> QED
  BY <1>1, <1>2 DEF Init, TargetClosed, DatasetClosed

LEMMA NextInv == IInv /\ [Next]_vars => IInv'
<1> SUFFICES ASSUME IInv, [Next]_vars PROVE IInv'
  OBVIOUS
<1>1. CASE UseDataset
  <2>1. open = "dataset" /\ DatasetSide /\ TargetClosed
    BY <1>1 DEF IInv, UseDataset
  <2>2. DatasetSide'
    BY <1>1, <2>1, DatasetNext DEF UseDataset
  <2>3. open' = open /\ TargetClosed'
    BY <1>1, <2>1 DEF UseDataset, targetVars, TargetClosed
  <2> QED
    BY <2>1, <2>2, <2>3 DEF IInv
<1>2. CASE UseTarget
  <2>1. open \in {"target", "evaluator"} /\ TargetSide /\ DatasetClosed
    BY <1>2 DEF IInv, UseTarget
  <2>2. TargetSide'
    BY <1>2, <2>1, TargetNext DEF UseTarget
  <2>3. DatasetClosed'
    BY <1>2, <2>1 DEF UseTarget, datasetVars, DatasetClosed
  <2>4. open' = open
    BY <1>2 DEF UseTarget, Target!Next, Target!User, Target!Receive, Target!Elsewhere,
                Target!ServeRead, Target!ServeSave, Target!ServeDeactivate, Target!ServeSnapshot
  <2> QED
    BY <2>1, <2>2, <2>3, <2>4 DEF IInv
<1>3. CASE UNCHANGED vars
  <2>1. /\ open' = open /\ others' = others /\ usable' = usable /\ cases' = cases
        /\ snapshots' = snapshots /\ datasetPage' = datasetPage
        /\ targetActive' = targetActive /\ config' = config /\ captured' = captured
        /\ targetPage' = targetPage
    BY <1>3 DEF vars, datasetVars, targetVars
  <2> QED
    BY <2>1 DEF IInv, DatasetSide, TargetSide, DatasetClosed, TargetClosed
<1> QED
  BY <1>1, <1>2, <1>3 DEF Next

LEMMA AlwaysIInv == Spec => []IInv
<1> QED
  BY InitInv, NextInv, PTL DEF Spec

LEMMA DatasetClosedTyped == DatasetClosed => Dataset!TypeOK
<1> SUFFICES ASSUME DatasetClosed PROVE Dataset!TypeOK
  OBVIOUS
<1>1. /\ datasetPage.dataset = None /\ datasetPage.editing = 0 /\ datasetPage.acting = 0
      /\ datasetPage.calls = {}
  BY NewDatasetPage DEF DatasetClosed
<1>2. \A l : Cardinality({c \in datasetPage.calls : c.lane = l /\ c.live}) <= 1
  BY <1>1, AtMostOneLive DEF OneLive
<1>3. 0 \in 0..MaxCases
  BY BoundsAssumption
<1>4. \A n \in DOMAIN cases :
        cases[n] \in [status : {"DRAFT", "APPROVED", "DEPRECATED"}, edits : 0..MaxEdits]
  <2>1. DOMAIN cases = {}
    BY DEF DatasetClosed
  <2> QED
    BY <2>1
<1>5. usable \in BOOLEAN
  BY DEF DatasetClosed
<1>6. \A s : Dataset!Cardinality(s) = Cardinality(s)
  BY DEF Dataset!Cardinality, Cardinality
<1> QED
  BY <1>1, <1>2, <1>3, <1>4, <1>5, <1>6 DEF Dataset!TypeOK

LEMMA TargetClosedTyped == TargetClosed => Target!TypeOK
<1> SUFFICES ASSUME TargetClosed PROVE Target!TypeOK
  OBVIOUS
<1>1. /\ targetPage.target = None /\ targetPage.versions.total = 0 /\ targetPage.calls = {}
  BY NewTargetPage DEF TargetClosed, Target!Unread
<1>2. \A l : Cardinality({c \in targetPage.calls : c.lane = l /\ c.live}) <= 1
  BY <1>1, AtMostOneLive DEF OneLive
<1>3. targetActive \in BOOLEAN /\ config \in 0..MaxTargetActs + 1
  BY BoundsAssumption DEF TargetClosed
<1>4. (\A i \in DOMAIN captured : captured[i] \in 0..config) /\ 0 \in 0..Len(captured)
  BY DEF TargetClosed
<1>5. \A s : Target!Cardinality(s) = Cardinality(s)
  BY DEF Target!Cardinality, Cardinality
<1> QED
  BY <1>1, <1>2, <1>3, <1>4, <1>5 DEF Target!TypeOK
-----------------------------------------------------------------------------
(* What the pages hold, and of each kind of request one at most is wanted. *)
THEOREM PagesAreTyped == Spec => []TypeOK
<1>1. IInv => TypeOK
  BY DatasetSideTyped, TargetSideTyped, DatasetClosedTyped, TargetClosedTyped DEF IInv, TypeOK
<1> QED
  BY AlwaysIInv, <1>1, PTL

(* A list at rest without an error holds the rows of the page its          *)
(* pagination shows, whatever was turned, made or reloaded meanwhile.      *)
THEOREM RowsAreOfThePage == Spec => []ListsAreOfThePage
<1>1. IInv => ListsAreOfThePage
  BY DatasetSideShows, TargetSideShows DEF IInv, ListsAreOfThePage
<1> QED
  BY AlwaysIInv, <1>1, PTL

(* What the page has been told that it changed is shown: no answer read    *)
(* before the change stays on the screen without an error beside it.       *)
THEOREM ChangesStayShown == Spec => []ChangesAreShown
<1>1. IInv => ChangesAreShown
  BY DatasetSideShows, TargetSideShows DEF IInv, ChangesAreShown
<1> QED
  BY AlwaysIInv, <1>1, PTL

(* A change that failed, while nothing else was done on the page, is       *)
(* signalled until the next act of the user.                               *)
THEOREM FailuresStayShown == Spec => []FailuresAreShown
<1>1. IInv => FailuresAreShown
  BY DatasetSideShows, TargetSideShows DEF IInv, FailuresAreShown
<1> QED
  BY AlwaysIInv, <1>1, PTL
=============================================================================
