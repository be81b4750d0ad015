------------------------------ MODULE Requests ------------------------------
(***************************************************************************)
(* The requests a page has in flight.  Each kind of request of a page has  *)
(* a lane of its own: an AbortController and a request counter, kept in    *)
(* refs.  A new request aborts the one before it in its lane; a call whose *)
(* controller and number are no longer the lane's is not live.  An abort   *)
(* may come too late, so the answer of a call that is not live may still   *)
(* come, and a server may still work on it.                                *)
(***************************************************************************)
Waiting == << >>     \* the server has not answered yet

Call(lane, arg) ==
  [lane |-> lane, arg |-> arg, reply |-> Waiting, live |-> TRUE]

(* The calls after those of some lanes have been aborted.                  *)
Aborted(calls, lanes) ==
  {[c EXCEPT !.live = @ /\ c.lane \notin lanes] : c \in calls}

\* Mutant: a new call leaves the one before it current.
Sent_NoAbort(calls, lane, arg) == calls \cup {Call(lane, arg)}

Sent(calls, lane, arg) == Aborted(calls, {lane}) \cup {Call(lane, arg)}

Served(calls, c, answer) == (calls \ {c}) \cup {[c EXCEPT !.reply = <<answer>>]}

(* The page has got the call's outcome.  A mutation that fails before the   *)
(* server has answered may still be carried out.                           *)
Ended(calls, c) == calls \ {c}
EndedMutation(calls, c) ==
  Ended(calls, c) \cup
    {[d EXCEPT !.live = FALSE] : d \in {e \in {c} : e.reply = Waiting}}

Pending(calls, lane) == \E c \in calls : c.lane = lane /\ c.live
Settled(calls) == \A c \in calls : ~c.live
=============================================================================
