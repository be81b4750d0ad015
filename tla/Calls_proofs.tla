---------------------------- MODULE Calls_proofs ----------------------------
(***************************************************************************)
(* The lemmas that the proofs about the pages share.  What aborting,       *)
(* sending and answering do to the calls in flight, for any lanes and      *)
(* arguments (Requests); and what a lost call and an answered one become   *)
(* (ApiClient).                                                            *)
(***************************************************************************)
EXTENDS ApiClient, Requests, TLAPS

IsCall(c) ==
  /\ c = [lane |-> c.lane, arg |-> c.arg, reply |-> c.reply, live |-> c.live]
  /\ c.live \in BOOLEAN

AreCalls(calls) == \A c \in calls : IsCall(c)

\* Of each lane at most one call is live.
OneLive(calls) ==
  \A c, d \in calls : c.lane = d.lane /\ c.live /\ d.live => c = d

GivenUp(c, lanes) == [c EXCEPT !.live = @ /\ c.lane \notin lanes]
-----------------------------------------------------------------------------
LEMMA CallFields ==
  ASSUME NEW lane, NEW arg
  PROVE  LET c == Call(lane, arg)
         IN IsCall(c) /\ c.lane = lane /\ c.arg = arg /\ c.reply = Waiting /\ c.live
  BY DEF Call, IsCall

LEMMA GivenUpFields ==
  ASSUME NEW c, IsCall(c), NEW lanes, NEW d, d = GivenUp(c, lanes)
  PROVE  /\ IsCall(d) /\ d.lane = c.lane /\ d.arg = c.arg /\ d.reply = c.reply
         /\ c.lane \in lanes => ~d.live
         /\ c.lane \notin lanes => d = c
<1> DEFINE b == c.live /\ c.lane \notin lanes
<1>1. d = [c EXCEPT !.live = b]
  BY DEF GivenUp
<1>2. b \in BOOLEAN /\ (c.lane \in lanes => b = FALSE) /\ (c.lane \notin lanes => b = c.live)
  BY DEF IsCall
<1> HIDE DEF b
<1>3. d = [lane |-> c.lane, arg |-> c.arg, reply |-> c.reply, live |-> b]
  BY <1>1 DEF IsCall
<1>4. /\ d.lane = c.lane /\ d.arg = c.arg /\ d.reply = c.reply /\ d.live = b
  BY <1>3
<1>5. IsCall(d)
  BY <1>2, <1>3, <1>4 DEF IsCall
<1>6. c.lane \notin lanes => d = c
  BY <1>2, <1>3 DEF IsCall
<1> QED
  BY <1>2, <1>4, <1>5, <1>6

(* Aborting some lanes touches the calls of no other, and leaves none live *)
(* in those.                                                               *)
LEMMA AbortedCalls ==
  ASSUME NEW calls, AreCalls(calls), NEW lanes
  PROVE  /\ \A d \in Aborted(calls, lanes) :
              /\ IsCall(d)
              /\ \E c \in calls : d.lane = c.lane /\ d.arg = c.arg /\ d.reply = c.reply
              /\ d.lane \in lanes => ~d.live
              /\ d.lane \notin lanes => d \in calls
         /\ \A c \in calls : c.lane \notin lanes => c \in Aborted(calls, lanes)
<1>1. ASSUME NEW d \in Aborted(calls, lanes)
      PROVE  /\ IsCall(d)
             /\ \E c \in calls : d.lane = c.lane /\ d.arg = c.arg /\ d.reply = c.reply
             /\ d.lane \in lanes => ~d.live
             /\ d.lane \notin lanes => d \in calls
  <2>1. PICK c \in calls : d = GivenUp(c, lanes)
    BY DEF Aborted, GivenUp
  <2>2. IsCall(c)
    BY DEF AreCalls
  <2>3. /\ IsCall(d) /\ d.lane = c.lane /\ d.arg = c.arg /\ d.reply = c.reply
        /\ c.lane \in lanes => ~d.live
        /\ c.lane \notin lanes => d = c
    BY <2>1, <2>2, GivenUpFields
  <2> QED
    BY <2>3
<1>2. ASSUME NEW c \in calls, c.lane \notin lanes PROVE c \in Aborted(calls, lanes)
  <2> DEFINE d == GivenUp(c, lanes)
  <2>1. d \in Aborted(calls, lanes)
    BY DEF Aborted, GivenUp
  <2>2. IsCall(c)
    BY DEF AreCalls
  <2>3. d = c
    BY <1>2, <2>2, GivenUpFields
  <2> QED
    BY <2>1, <2>3
<1> QED
  BY <1>1, <1>2

(* After a call is sent it is the live one of its lane, and the calls of    *)
(* the other lanes are what they were.                                     *)
LEMMA SentCalls ==
  ASSUME NEW calls, AreCalls(calls), NEW lane, NEW arg
  PROVE  /\ AreCalls(Sent(calls, lane, arg))
         /\ Call(lane, arg) \in Sent(calls, lane, arg)
         /\ \A d \in Sent(calls, lane, arg) :
              \/ d = Call(lane, arg)
              \/ /\ \E c \in calls : d.lane = c.lane /\ d.arg = c.arg /\ d.reply = c.reply
                 /\ d.lane = lane => ~d.live
                 /\ d.lane # lane => d \in calls
         /\ \A c \in calls : c.lane # lane => c \in Sent(calls, lane, arg)
         /\ OneLive(calls) => OneLive(Sent(calls, lane, arg))
<1> DEFINE new == Call(lane, arg)
           old == Aborted(calls, {lane})
<1>1. IsCall(new) /\ new.lane = lane
  BY CallFields
<1>2. Sent(calls, lane, arg) = old \cup {new}
  BY DEF Sent
<1>3. /\ \A d \in old :
              /\ IsCall(d)
              /\ \E c \in calls : d.lane = c.lane /\ d.arg = c.arg /\ d.reply = c.reply
              /\ d.lane = lane => ~d.live
              /\ d.lane # lane => d \in calls
      /\ \A c \in calls : c.lane # lane => c \in old
  BY AbortedCalls
<1> HIDE DEF new, old
<1>4. OneLive(calls) => OneLive(old \cup {new})
  BY <1>1, <1>3 DEF OneLive
<1> QED
  BY <1>1, <1>2, <1>3, <1>4 DEF AreCalls, new

(* The answer to a call changes its reply and nothing else.                *)
LEMMA ServedCall ==
  ASSUME NEW c, IsCall(c), NEW reply
  PROVE  LET d == [c EXCEPT !.reply = reply]
         IN IsCall(d) /\ d.lane = c.lane /\ d.arg = c.arg /\ d.reply = reply /\ d.live = c.live
<1> DEFINE d == [c EXCEPT !.reply = reply]
<1>1. d = [lane |-> c.lane, arg |-> c.arg, reply |-> reply, live |-> c.live]
  BY DEF IsCall
<1> HIDE DEF d
<1>2. d.lane = c.lane /\ d.arg = c.arg /\ d.reply = reply /\ d.live = c.live
  BY <1>1
<1>3. IsCall(d)
  BY <1>1, <1>2 DEF IsCall
<1> QED
  BY <1>2, <1>3 DEF d

LEMMA ServedCalls ==
  ASSUME NEW calls, AreCalls(calls), NEW c \in calls, NEW answer
  PROVE  /\ AreCalls(Served(calls, c, answer))
         /\ \A d \in Served(calls, c, answer) :
              \/ d \in calls /\ d # c
              \/ /\ d.lane = c.lane /\ d.arg = c.arg /\ d.reply = <<answer>>
                 /\ d.live = c.live
         /\ \E d \in Served(calls, c, answer) :
              d.lane = c.lane /\ d.arg = c.arg /\ d.reply = <<answer>> /\ d.live = c.live
         /\ \A d \in calls : d # c => d \in Served(calls, c, answer)
         /\ OneLive(calls) => OneLive(Served(calls, c, answer))
<1> DEFINE reply == <<answer>>
           e == [c EXCEPT !.reply = reply]
<1>1. IsCall(c)
  BY DEF AreCalls
<1>2. Served(calls, c, answer) = (calls \ {c}) \cup {e}
  BY DEF Served
<1> HIDE DEF reply
<1>3. IsCall(e) /\ e.lane = c.lane /\ e.arg = c.arg /\ e.reply = reply /\ e.live = c.live
  BY <1>1, ServedCall
<1> HIDE DEF e
<1>4. OneLive(calls) => OneLive((calls \ {c}) \cup {e})
  BY <1>3 DEF OneLive
<1> QED
  BY <1>2, <1>3, <1>4 DEF AreCalls, reply

ServedBy(d, c, answer) ==
  d.lane = c.lane /\ d.arg = c.arg /\ d.reply = <<answer>> /\ d.live = c.live

LEMMA ServedFacts ==
  ASSUME NEW calls, AreCalls(calls), OneLive(calls), NEW c \in calls, NEW answer,
         NEW k, k = Served(calls, c, answer)
  PROVE  /\ AreCalls(k) /\ OneLive(k)
         /\ \A d \in k : (d \in calls /\ d # c) \/ ServedBy(d, c, answer)
         /\ \E d \in k : ServedBy(d, c, answer)
         /\ \A d \in calls : d # c => d \in k
<1>1. AreCalls(k)
  BY ServedCalls
<1>2. OneLive(k)
  BY ServedCalls
<1>3. \A d \in k : \/ d \in calls /\ d # c
                  \/ /\ d.lane = c.lane /\ d.arg = c.arg /\ d.reply = <<answer>>
                     /\ d.live = c.live
  BY ServedCalls
<1>4. \E d \in k : d.lane = c.lane /\ d.arg = c.arg /\ d.reply = <<answer>> /\ d.live = c.live
  BY ServedCalls
<1>5. \A d \in calls : d # c => d \in k
  BY ServedCalls
<1>6. \A d \in k : (d \in calls /\ d # c) \/ ServedBy(d, c, answer)
  BY <1>3 DEF ServedBy
<1>7. \E d \in k : ServedBy(d, c, answer)
  BY <1>4 DEF ServedBy
<1> QED
  BY <1>1, <1>2, <1>5, <1>6, <1>7

(* A mutation that ends unanswered stays in flight, no longer live.        *)
LEMMA EndedMutationCalls ==
  ASSUME NEW calls, AreCalls(calls), NEW c \in calls
  PROVE  /\ AreCalls(EndedMutation(calls, c))
         /\ \A d \in EndedMutation(calls, c) :
              \/ d \in calls /\ d # c
              \/ /\ ~d.live /\ d.lane = c.lane /\ d.arg = c.arg /\ d.reply = c.reply
                 /\ c.reply = Waiting
         /\ \A d \in calls : d # c => d \in EndedMutation(calls, c)
         /\ OneLive(calls) => OneLive(EndedMutation(calls, c))
<1> DEFINE e == [c EXCEPT !.live = FALSE]
<1>1. IsCall(c)
  BY DEF AreCalls
<1>2. e = [lane |-> c.lane, arg |-> c.arg, reply |-> c.reply, live |-> FALSE]
  <2> DEFINE no == FALSE
  <2>1. e = [c EXCEPT !.live = no]
    OBVIOUS
  <2> HIDE DEF no, e
  <2>2. e = [lane |-> c.lane, arg |-> c.arg, reply |-> c.reply, live |-> no]
    BY <1>1, <2>1 DEF IsCall
  <2> QED
    BY <2>2 DEF no
<1>3. EndedMutation(calls, c) \subseteq (calls \ {c}) \cup {e}
  <2> SUFFICES ASSUME NEW d \in EndedMutation(calls, c), d \notin calls \ {c} PROVE d = e
    OBVIOUS
  <2>1. PICK x \in {c} : d = [x EXCEPT !.live = FALSE]
    BY DEF EndedMutation, Ended
  <2>2. x = c
    OBVIOUS
  <2> QED
    BY <2>1, <2>2
<1>4. \A d \in calls : d # c => d \in EndedMutation(calls, c)
  BY DEF EndedMutation, Ended
<1>7. \A d \in EndedMutation(calls, c) : d \in calls \ {c} \/ c.reply = Waiting
  BY DEF EndedMutation, Ended
<1> HIDE DEF e
<1>5. IsCall(e) /\ ~e.live /\ e.lane = c.lane /\ e.arg = c.arg /\ e.reply = c.reply
  BY <1>2 DEF IsCall
<1>6. OneLive(calls) => OneLive(EndedMutation(calls, c))
  BY <1>3, <1>5 DEF OneLive
<1> QED
  BY <1>3, <1>4, <1>5, <1>6, <1>7 DEF AreCalls
-----------------------------------------------------------------------------
LEMMA LostCalls ==
  \A o \in Lost : /\ o.kind # "data" /\ o.value = None /\ o.status # 404
                  /\ o.code \in {"NETWORK_ERROR", "UNEXPECTED_RESPONSE"}
<1>1. request(Response(503, "markup", None, None)) = networkApiError
  BY DEF request, Response, parseResponsePayload, ThrownAsNetwork
<1> QED
  BY <1>1 DEF Lost, fetchResponse, toApiError, networkApiError, unexpectedApiError, Error

LEMMA AnsweredIsData == \A n : request(Answered(n)) = Data(n)
  BY DEF Answered, Response, request, parseResponsePayload

(* A refusal below 500 reaches the page with its status and code, and      *)
(* without data.                                                           *)
LEMMA RefusedIsError ==
  ASSUME NEW code, NEW status \in {404, 409}
  PROVE  LET o == request(Refused(status, code))
         IN o.kind # "data" /\ o.status = status /\ o.code = code /\ o.value = None
<1> DEFINE retryable == status >= 500
<1>1. request(Refused(status, code)) = parseApiError(status, "envelope", code)
  BY DEF request, Refused, Response, parseResponsePayload, ThrownAsNetwork
<1>2. parseApiError(status, "envelope", code) = Error("application", status, code, retryable)
  BY DEF parseApiError
<1> HIDE DEF retryable
<1> QED
  BY <1>1, <1>2 DEF Error
=============================================================================
