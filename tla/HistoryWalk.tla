---------------------------- MODULE HistoryWalk ----------------------------
(***************************************************************************)
(* Looking an experiment up in a project's history.  The server has no     *)
(* lookup by experiment: both panels of the experiment page read the list, *)
(* newest first, page after page, while experiments are added to it, and   *)
(* the server counts and reads each page in two statements.                *)
(***************************************************************************)
EXTENDS ApiClient, Requests, Naturals, FiniteSets

CONSTANTS Experiment,    \* experiments of the project, listed sooner or later
          Current,       \* the one whose page is open
          Size           \* rows of a page of the list

ASSUME ExperimentAssumption == IsFiniteSet(Experiment) /\ Current \in Experiment
ASSUME SizeAssumption == Size \in Nat \ {0}

VARIABLES position,      \* listed experiment -> its place in the list
          lookups        \* the walks over the list that are under way

Listed == DOMAIN position

(* An experiment is listed by its creation time, once it is committed or,  *)
(* in a list of completed ones, completed; none is ever removed.           *)
Inserted(x, k) ==
  [y \in Listed \cup {x} |->
     CASE y = x -> k
       [] y # x /\ position[y] >= k -> position[y] + 1
       [] OTHER -> position[y]]

Insert ==
  /\ \E x \in Experiment \ Listed, k \in 1..Cardinality(Listed) + 1 :
       position' = Inserted(x, k)
  /\ UNCHANGED lookups

(* ---- findLatestResultId and loadHistorySnapshot. ------------------------ *)

(* A walk: its page, the total counted for that page (0: not yet), what it  *)
(* has read, and what it read of the current experiment.  Of history: what *)
(* was listed when it began, and whether the list grew between the count   *)
(* of the page it read last and the rows of that page.                     *)
NewWalk ==
  [page |-> 1, counted |-> 0, seen |-> {}, latest |-> None,
   start |-> Listed, grew |-> FALSE]

StartWalk(lane) == Sent(lookups, lane, NewWalk)

RowsOf(page) == {x \in Listed : (page - 1) * Size < position[x] /\ position[x] <= page * Size}

CountRows(c) ==
  /\ c.reply = Waiting /\ c.arg.counted = 0
  /\ lookups' = (lookups \ {c}) \cup {[c EXCEPT !.arg.counted = Cardinality(Listed)]}
  /\ UNCHANGED position

(* The first page that lists the current experiment gives its latest gate  *)
(* result, or comparison, of that moment.                                  *)

\* Mutant: the rows of a page take the place of those before.
AfterPage_RowsReplaced(w, latest) ==
  LET rows == RowsOf(w.page)
  IN [w EXCEPT !.seen = rows,
               !.latest = IF Current \in rows THEN latest ELSE @,
               !.grew = Cardinality(Listed) # w.counted]

AfterPage(w, latest) ==
  LET rows == RowsOf(w.page)
  IN [w EXCEPT !.seen = @ \cup rows,
               !.latest = IF Current \in rows \ w.seen THEN latest ELSE @,
               !.grew = Cardinality(Listed) # w.counted]

\* Mutant: only the first page is read.
AtLastPage_First(w) == TRUE

(* page >= totalPages, the total being rounded up to whole pages.          *)
AtLastPage(w) == w.counted <= w.page * Size

(* findLatestResultId ends where it finds the experiment.                  *)
ReadRows(c, latest) ==
  /\ c.reply = Waiting /\ c.arg.counted > 0
  /\ LET w == AfterPage(c.arg, latest)
     IN lookups' = (lookups \ {c}) \cup
          {IF (c.lane = "restore" /\ Current \in w.seen) \/ AtLastPage(w)
           THEN [c EXCEPT !.arg = w, !.reply = <<Answered(w.latest)>>]
           ELSE [c EXCEPT !.arg = [w EXCEPT !.page = @ + 1, !.counted = 0]]}
  /\ UNCHANGED position

(* Each of its requests may be lost, and the walk with it.                 *)
WalkOutcomes(c) == IF c.reply = Waiting THEN Lost ELSE Outcomes(c.reply[1])
-----------------------------------------------------------------------------
(* What was listed when the walk began is on a page that has been read, or *)
(* still ahead.                                                            *)
NonePassed(w) ==
  \A x \in w.start \ w.seen : x \in Listed /\ position[x] > (w.page - 1) * Size

(* Everything that was listed when the walk began has been read, unless     *)
(* one more was listed between the count of the last page and its rows.    *)
IsComplete(w) == w.grew \/ w.start \subseteq w.seen

(* The list only moves to the right, so that a walk meets rows twice but    *)
(* passes none: at its end it has found the experiment or read everything. *)
WalkSkipsNone ==
  \A c \in lookups :
    IF c.reply = Waiting THEN NonePassed(c.arg)
    ELSE IsComplete(c.arg) \/ (c.lane = "restore" /\ Current \in c.arg.seen)
=============================================================================
