------------------------ MODULE AnalysisPanels_proofs ------------------------
(***************************************************************************)
(* Proofs about AnalysisPanels for every number of experiments, of rows of *)
(* a page and of policies, and without the bound on late calls.            *)
(***************************************************************************)
EXTENDS AnalysisPanels, Calls_proofs, FiniteSetTheorems

IsWalk(w) ==
  w = [page |-> w.page, counted |-> w.counted, seen |-> w.seen,
       latest |-> w.latest, start |-> w.start, grew |-> w.grew]

\* The list has a place for each of its experiments and no others.
PlacesInv ==
  /\ Current \in Listed /\ Listed \subseteq Experiment
  /\ position \in [Listed -> Nat]
  /\ \A x \in Listed : position[x] \in 1..Cardinality(Listed)
  /\ \A x, y \in Listed : position[x] = position[y] => x = y

(* A walk has read nothing but the list, page after page of it.            *)
PagesInv(w) ==
  /\ w.page \in Nat /\ w.page >= 1 /\ (w.page - 1) * Size < Cardinality(Listed)
  /\ w.counted \in 0..Cardinality(Listed)
  /\ Current \in w.start /\ w.start \subseteq Listed /\ w.seen \subseteq Listed

\* A walk that has not ended has passed none; one that has was complete then.
WalkInv(c) ==
  /\ IsCall(c) /\ c.lane \in WalkLane /\ IsWalk(c.arg) /\ PagesInv(c.arg)
  /\ c.reply = Waiting => NonePassed(c.arg)
  /\ c.reply # Waiting =>
       /\ c.reply = <<Answered(c.arg.latest)>>
       /\ IsComplete(c.arg) \/ (c.lane = "restore" /\ Current \in c.arg.seen)

WalksInv(calls) == OneLive(calls) /\ \A c \in calls : WalkInv(c)

HistoryInv == PlacesInv /\ WalksInv(lookups)
-----------------------------------------------------------------------------
LEMMA ListedFinite ==
  PlacesInv => IsFiniteSet(Listed) /\ Cardinality(Listed) \in Nat /\ Cardinality(Listed) >= 1
<1> SUFFICES ASSUME PlacesInv
             PROVE  IsFiniteSet(Listed) /\ Cardinality(Listed) \in Nat /\ Cardinality(Listed) >= 1
  OBVIOUS
<1>1. IsFiniteSet(Listed) /\ Cardinality(Listed) \in Nat
  BY ExperimentAssumption, FS_Subset, FS_CardinalityType DEF PlacesInv
<1>2. Cardinality(Listed) # 0
  BY <1>1, FS_EmptySet DEF PlacesInv
<1> QED
  BY <1>1, <1>2

(* A new walk has everything ahead of it.                                  *)
LEMMA NewWalkInv ==
  ASSUME PlacesInv, NEW lane \in WalkLane
  PROVE  WalkInv(Call(lane, NewWalk))
<1> DEFINE w == NewWalk
<1>1. /\ IsWalk(w) /\ w.page = 1 /\ w.counted = 0 /\ w.seen = {} /\ w.start = Listed
      /\ w.latest = None
  BY DEF NewWalk, IsWalk
<1>0. (w.page - 1) * Size = 0
  BY <1>1, SizeAssumption
<1>2. NonePassed(w)
  <2>1. \A x \in Listed : position[x] > 0
    BY ListedFinite DEF PlacesInv
  <2> QED
    BY <1>0, <1>1, <2>1 DEF NonePassed
<1>3. PagesInv(w)
  <2>1. Current \in Listed
    BY DEF PlacesInv
  <2> HIDE DEF w
  <2> QED
    BY <1>0, <1>1, <2>1, ListedFinite DEF PagesInv
<1> HIDE DEF w
<1>4. LET c == Call(lane, w) IN c.arg = w /\ c.lane = lane /\ c.reply = Waiting /\ IsCall(c)
  BY CallFields
<1>5. WalkInv(Call(lane, w))
  BY <1>1, <1>2, <1>3, <1>4 DEF WalkInv
<1> QED
  BY <1>5 DEF w

(* What is said of a walk does not depend on whether it is still wanted.   *)
LEMMA SameWalk ==
  ASSUME NEW c, WalkInv(c), NEW d, IsCall(d),
         d.lane = c.lane, d.arg = c.arg, d.reply = c.reply
  PROVE  WalkInv(d)
BY DEF WalkInv

LEMMA WalksAreCalls == \A calls : WalksInv(calls) => AreCalls(calls)
BY DEF WalksInv, WalkInv, AreCalls

LEMMA AbortedInv ==
  ASSUME NEW calls, WalksInv(calls), NEW lanes
  PROVE  WalksInv(Aborted(calls, lanes))
<1>1. \A d \in Aborted(calls, lanes) :
        /\ IsCall(d)
        /\ \E c \in calls : d.lane = c.lane /\ d.arg = c.arg /\ d.reply = c.reply
        /\ d.lane \in lanes => ~d.live
        /\ d.lane \notin lanes => d \in calls
  BY WalksAreCalls, AbortedCalls
<1>2. OneLive(Aborted(calls, lanes))
  BY <1>1 DEF OneLive, WalksInv
<1>3. \A d \in Aborted(calls, lanes) : WalkInv(d)
  BY <1>1, SameWalk DEF WalksInv
<1> QED
  BY <1>2, <1>3 DEF WalksInv

LEMMA SentInv ==
  ASSUME PlacesInv, NEW calls, WalksInv(calls), NEW lane \in WalkLane
  PROVE  WalksInv(Sent(calls, lane, NewWalk))
<1>1. WalksInv(Aborted(calls, {lane}))
  BY AbortedInv
<1>2. WalkInv(Call(lane, NewWalk))
  BY NewWalkInv
<1>3. OneLive(Sent(calls, lane, NewWalk))
  BY SentCalls, WalksAreCalls DEF WalksInv
<1> QED
  BY <1>1, <1>2, <1>3 DEF Sent, WalksInv

LEMMA StartWalkInv ==
  ASSUME HistoryInv, NEW lane \in WalkLane
  PROVE  WalksInv(StartWalk(lane))
BY SentInv DEF HistoryInv, StartWalk

LEMMA EndedInv ==
  ASSUME NEW calls, WalksInv(calls), NEW c
  PROVE  WalksInv(Ended(calls, c))
BY DEF Ended, WalksInv, OneLive
-----------------------------------------------------------------------------
(* An insertion adds a place and moves others to the right.                *)
LEMMA InsertedPlaces ==
  ASSUME PlacesInv, NEW x \in Experiment \ Listed, NEW k \in 1..Cardinality(Listed) + 1,
         position' = Inserted(x, k)
  PROVE  /\ PlacesInv' /\ Cardinality(Listed') \in Nat
         /\ Listed \subseteq Listed' /\ Cardinality(Listed') >= Cardinality(Listed)
         /\ \A y \in Listed : position'[y] >= position[y]
<1>1. Listed' = Listed \cup {x}
  BY DEF Inserted, Listed
<1>2. Cardinality(Listed') = Cardinality(Listed) + 1 /\ Cardinality(Listed) \in Nat
  BY <1>1, ListedFinite, FS_AddElement
<1>3. \A y \in Listed : position[y] \in 1..Cardinality(Listed)
  BY DEF PlacesInv
<1>4. position'[x] = k
  BY DEF Inserted
<1>5. \A y \in Listed : position'[y] = IF position[y] >= k THEN position[y] + 1 ELSE position[y]
  BY DEF Inserted
<1>6. \A y \in Listed : position'[y] \in Nat /\ position'[y] >= position[y]
                        /\ position'[y] \in 1..Cardinality(Listed) + 1
  BY <1>2, <1>3, <1>5
<1>7. \A y \in Listed' : position'[y] \in Nat /\ position'[y] \in 1..Cardinality(Listed')
  BY <1>1, <1>2, <1>4, <1>6
<1>8. position' = [y \in Listed' |-> position'[y]]
  BY <1>1 DEF Inserted
<1>9. Listed' \subseteq Experiment
  BY <1>1 DEF PlacesInv
<1>10. position' \in [Listed' -> Nat]
  BY <1>7, <1>8
<1>11. \A y, z \in Listed' : position'[y] = position'[z] => y = z
  <2>1. \A y \in Listed : position'[y] # k
    BY <1>2, <1>3, <1>5
  <2>2. \A y, z \in Listed : position'[y] = position'[z] => position[y] = position[z]
    BY <1>2, <1>3, <1>5
  <2>3. \A y, z \in Listed : position[y] = position[z] => y = z
    BY DEF PlacesInv
  <2> QED
    BY <1>1, <1>4, <2>1, <2>2, <2>3
<1>12. Current \in Listed'
  BY <1>1 DEF PlacesInv
<1> QED
  BY <1>1, <1>2, <1>6, <1>7, <1>9, <1>10, <1>11, <1>12 DEF PlacesInv

LEMMA InsertInv == HistoryInv /\ Insert => HistoryInv'
<1> SUFFICES ASSUME HistoryInv, Insert PROVE HistoryInv'
  OBVIOUS
<1>1. PICK x \in Experiment \ Listed, k \in 1..Cardinality(Listed) + 1 :
        position' = Inserted(x, k)
  BY DEF Insert
<1>2. /\ PlacesInv' /\ Cardinality(Listed') \in Nat
      /\ Listed \subseteq Listed' /\ Cardinality(Listed') >= Cardinality(Listed)
      /\ \A y \in Listed : position'[y] >= position[y]
  BY <1>1, InsertedPlaces DEF HistoryInv
<1>3. ASSUME NEW c, WalkInv(c) PROVE WalkInv(c)'
  <2>1. NonePassed(c.arg) => NonePassed(c.arg)'
    <3> SUFFICES ASSUME NonePassed(c.arg), NEW y \in c.arg.start \ c.arg.seen
                 PROVE  y \in Listed' /\ position'[y] > (c.arg.page - 1) * Size
      BY DEF NonePassed
    <3> DEFINE m == (c.arg.page - 1) * Size
    <3>1. y \in Listed /\ position[y] > m
      BY DEF NonePassed
    <3>2. m \in Int
      BY <1>3, SizeAssumption DEF WalkInv, PagesInv
    <3>3. position[y] \in Nat /\ position'[y] \in Nat /\ position'[y] >= position[y]
      BY <1>2, <3>1 DEF HistoryInv, PlacesInv
    <3> HIDE DEF m
    <3>4. position'[y] > m
      BY <3>1, <3>2, <3>3
    <3> QED
      BY <1>2, <3>1, <3>4 DEF m
  <2>2. PagesInv(c.arg)'
    <3> DEFINE m == (c.arg.page - 1) * Size
    <3>1. PagesInv(c.arg) /\ m \in Int
      BY <1>3, SizeAssumption DEF WalkInv, PagesInv
    <3>2. Cardinality(Listed) \in Nat /\ Cardinality(Listed') \in Nat
      BY <1>2, ListedFinite DEF HistoryInv
    <3>3. m < Cardinality(Listed')
      <4>1. m < Cardinality(Listed)
        BY <3>1 DEF PagesInv
      <4> HIDE DEF m
      <4> QED
        BY <1>2, <3>1, <3>2, <4>1
    <3> QED
      BY <1>2, <3>1, <3>2, <3>3 DEF PagesInv
  <2> QED
    BY <1>2, <1>3, <2>1, <2>2 DEF WalkInv, IsComplete
<1>4. lookups' = lookups
  BY DEF Insert
<1> QED
  BY <1>2, <1>3, <1>4 DEF HistoryInv, WalksInv
-----------------------------------------------------------------------------
(* A call takes the place of another.                                      *)
LEMMA ReplacedInv ==
  ASSUME HistoryInv, NEW c \in lookups, NEW d, WalkInv(d), d.lane = c.lane, d.live = c.live,
         lookups' = (lookups \ {c}) \cup {d}, UNCHANGED position
  PROVE  HistoryInv'
<1>1. PlacesInv'
  BY DEF HistoryInv, PlacesInv, Listed
<1>2. WalksInv((lookups \ {c}) \cup {d})
  BY DEF HistoryInv, WalksInv, OneLive
<1>3. \A e : WalkInv(e) <=> WalkInv(e)'
  BY DEF WalkInv, PagesInv, NonePassed, Listed, IsComplete
<1> QED
  BY <1>1, <1>2, <1>3 DEF HistoryInv, WalksInv

(* What reading a page does to what a walk knows of the experiment.         *)
Advanced(c, d, latest) ==
  /\ d.lane = c.lane /\ d.live = c.live
  /\ \/ d.arg.latest = latest
     \/ d.arg.latest = c.arg.latest /\ (Current \in d.arg.seen => Current \in c.arg.seen)

Advances(c, latest) ==
  \E d : lookups' = (lookups \ {c}) \cup {d} /\ Advanced(c, d, latest)

LEMMA CountRowsInv ==
  ASSUME HistoryInv, NEW c \in lookups, NEW latest, CountRows(c)
  PROVE  HistoryInv' /\ Advances(c, latest)
<1> DEFINE n == Cardinality(Listed)
           d == [c EXCEPT !.arg.counted = n]
<1>1. WalkInv(c)
  BY DEF HistoryInv, WalksInv
<1>2. n \in 0..Cardinality(Listed)
  BY ListedFinite DEF HistoryInv
<1> HIDE DEF n
<1>3. /\ IsCall(d) /\ d.lane = c.lane /\ d.reply = c.reply /\ d.live = c.live
      /\ d.arg = [c.arg EXCEPT !.counted = n]
  BY <1>1 DEF WalkInv, IsCall
<1>4. /\ IsWalk(d.arg) /\ d.arg.page = c.arg.page /\ d.arg.counted = n
      /\ d.arg.seen = c.arg.seen /\ d.arg.start = c.arg.start /\ d.arg.latest = c.arg.latest
  BY <1>1, <1>3 DEF WalkInv, IsWalk
<1> HIDE DEF d
<1>5. PagesInv(d.arg)
  BY <1>1, <1>2, <1>4 DEF WalkInv, PagesInv
<1>6. WalkInv(d)
  BY <1>1, <1>3, <1>4, <1>5 DEF WalkInv, NonePassed, CountRows
<1>7. lookups' = (lookups \ {c}) \cup {d} /\ UNCHANGED position
  BY DEF CountRows, n, d
<1>8. Advances(c, latest)
  BY <1>3, <1>4, <1>7 DEF Advances, Advanced
<1> QED
  BY <1>3, <1>6, <1>7, <1>8, ReplacedInv

(* What a walk holds after a page.                                         *)
LEMMA AfterPageFields ==
  ASSUME NEW r, IsWalk(r), NEW latest
  PROVE  LET w == AfterPage(r, latest)
         IN /\ IsWalk(w) /\ w.page = r.page /\ w.counted = r.counted
            /\ w.seen = r.seen \cup RowsOf(r.page) /\ w.start = r.start
            /\ w.latest = IF Current \in RowsOf(r.page) \ r.seen THEN latest ELSE r.latest
            /\ ~w.grew => Cardinality(Listed) = r.counted
<1> DEFINE rows == RowsOf(r.page)
           l == IF Current \in rows \ r.seen THEN latest ELSE r.latest
           g == Cardinality(Listed) # r.counted
           w == AfterPage(r, latest)
<1>1. w = [r EXCEPT !.seen = r.seen \cup rows, !.latest = l, !.grew = g]
  BY DEF AfterPage
<1>2. ~g => Cardinality(Listed) = r.counted
  OBVIOUS
<1> HIDE DEF rows, l, g, w
<1>3. w = [page |-> r.page, counted |-> r.counted, seen |-> r.seen \cup rows,
           latest |-> l, start |-> r.start, grew |-> g]
  BY <1>1 DEF IsWalk
<1>4. /\ w.page = r.page /\ w.counted = r.counted /\ w.seen = r.seen \cup rows
      /\ w.latest = l /\ w.start = r.start /\ w.grew = g
  BY <1>3
<1>5. IsWalk(w)
  BY <1>3, <1>4 DEF IsWalk
<1>6. ~w.grew => Cardinality(Listed) = r.counted
  BY <1>2, <1>4
<1> QED
  BY <1>4, <1>5, <1>6 DEF w, rows, l

(* The rows of a page that has been read are behind the walk.              *)
LEMMA PageIsRead ==
  ASSUME HistoryInv, NEW c \in lookups, c.reply = Waiting, NEW latest
  PROVE  LET w == AfterPage(c.arg, latest)
         IN /\ \A x \in w.start \ w.seen : x \in Listed /\ position[x] > c.arg.page * Size
            /\ AtLastPage(w) => IsComplete(w)
<1> DEFINE w == AfterPage(c.arg, latest)
           m == (c.arg.page - 1) * Size
           n == c.arg.page * Size
<1>1. WalkInv(c) /\ NonePassed(c.arg)
  BY DEF HistoryInv, WalksInv, WalkInv
<1>2. /\ w.page = c.arg.page /\ w.counted = c.arg.counted
      /\ w.seen = c.arg.seen \cup RowsOf(c.arg.page) /\ w.start = c.arg.start
      /\ ~w.grew => Cardinality(Listed) = c.arg.counted
  BY <1>1, AfterPageFields DEF WalkInv
<1>3. m \in Int /\ n \in Int
  BY <1>1, SizeAssumption DEF WalkInv, PagesInv
<1> HIDE DEF w, m, n
<1>4. RowsOf(c.arg.page) = {x \in Listed : m < position[x] /\ position[x] <= n}
  BY DEF RowsOf, m, n
<1>5. ASSUME NEW x \in w.start \ w.seen PROVE x \in Listed /\ position[x] > n
  <2>1. x \in Listed /\ position[x] > m
    BY <1>1, <1>2 DEF NonePassed, m
  <2>2. position[x] \in Nat
    BY <2>1 DEF HistoryInv, PlacesInv
  <2> QED
    BY <1>2, <1>3, <1>4, <2>1, <2>2
<1>6. AtLastPage(w) => IsComplete(w)
  <2> SUFFICES ASSUME w.counted <= n, ~w.grew, NEW x \in w.start \ w.seen PROVE FALSE
    BY <1>2 DEF AtLastPage, IsComplete, n
  <2>1. position[x] \in 1..Cardinality(Listed) /\ Cardinality(Listed) \in Nat
    BY <1>5, ListedFinite DEF HistoryInv, PlacesInv
  <2> QED
    BY <1>2, <1>3, <1>5, <2>1
<1> QED
  BY <1>5, <1>6 DEF w, n

LEMMA ReadRowsInv ==
  ASSUME HistoryInv, NEW c \in lookups, NEW latest, ReadRows(c, latest)
  PROVE  HistoryInv' /\ Advances(c, latest)
<1> DEFINE w == AfterPage(c.arg, latest)
           ends == (c.lane = "restore" /\ Current \in w.seen) \/ AtLastPage(w)
           d == [c EXCEPT !.arg = w, !.reply = <<Answered(w.latest)>>]
           v == [w EXCEPT !.page = @ + 1, !.counted = 0]
           e == [c EXCEPT !.arg = v]
<1>1. WalkInv(c) /\ c.reply = Waiting
  BY DEF HistoryInv, WalksInv, ReadRows
<1>2. /\ IsWalk(w) /\ w.page = c.arg.page /\ w.counted = c.arg.counted
      /\ w.start = c.arg.start /\ w.seen \subseteq Listed
  <2>1. w.seen = c.arg.seen \cup RowsOf(c.arg.page) /\ RowsOf(c.arg.page) \subseteq Listed
    BY <1>1, AfterPageFields DEF WalkInv, RowsOf
  <2> QED
    BY <1>1, <2>1, AfterPageFields DEF WalkInv, PagesInv
<1>3. /\ \A x \in w.start \ w.seen : x \in Listed /\ position[x] > c.arg.page * Size
      /\ AtLastPage(w) => IsComplete(w)
  BY <1>1, PageIsRead
<1>7. \/ w.latest = latest
      \/ w.latest = c.arg.latest /\ (Current \in w.seen => Current \in c.arg.seen)
  <2>1. /\ w.seen = c.arg.seen \cup RowsOf(c.arg.page)
        /\ w.latest = IF Current \in RowsOf(c.arg.page) \ c.arg.seen
                      THEN latest ELSE c.arg.latest
    BY <1>1, AfterPageFields DEF WalkInv
  <2> QED
    BY <2>1
<1>4. /\ lookups' = (lookups \ {c}) \cup {IF ends THEN d ELSE e}
      /\ UNCHANGED position
  BY DEF ReadRows
<1>5. ASSUME ends PROVE WalkInv(d) /\ Advanced(c, d, latest)
  <2> DEFINE reply == <<Answered(w.latest)>>
  <2>1. reply # Waiting
    BY DEF Waiting
  <2> HIDE DEF w, reply
  <2>2. d = [c EXCEPT !.arg = w, !.reply = reply]
    BY DEF reply
  <2> HIDE DEF d
  <2>3. d = [lane |-> c.lane, arg |-> w, reply |-> reply, live |-> c.live]
    BY <1>1, <2>2 DEF WalkInv, IsCall
  <2>4. IsCall(d) /\ d.arg = w /\ d.lane = c.lane /\ d.reply = reply /\ d.live = c.live
    BY <1>1, <2>3 DEF IsCall, WalkInv
  <2>5. PagesInv(w)
    BY <1>1, <1>2 DEF WalkInv, PagesInv
  <2> QED
    BY <1>1, <1>2, <1>3, <1>5, <1>7, <2>1, <2>4, <2>5 DEF WalkInv, Advanced, reply, ends
<1>6. ASSUME ~ends PROVE WalkInv(e) /\ Advanced(c, e, latest)
  <2> DEFINE p == w.page + 1
  <2>0. v = [w EXCEPT !.page = p, !.counted = 0]
    OBVIOUS
  <2> HIDE DEF w, p, v
  <2>1. v = [page |-> p, counted |-> 0, seen |-> w.seen, latest |-> w.latest,
             start |-> w.start, grew |-> w.grew]
    BY <1>2, <2>0 DEF IsWalk
  <2>2. /\ IsWalk(v) /\ v.page = p /\ v.counted = 0
        /\ v.seen = w.seen /\ v.start = w.start /\ v.latest = w.latest
    BY <2>1 DEF IsWalk
  <2>3. IsCall(e) /\ e.arg = v /\ e.lane = c.lane /\ e.reply = Waiting /\ e.live = c.live
    BY <1>1 DEF WalkInv, IsCall
  <2> HIDE DEF e
  <2>4. v.page \in Nat /\ v.page >= 1 /\ v.page - 1 = c.arg.page
    BY <1>1, <1>2, <2>2 DEF WalkInv, PagesInv, p
  <2>5. NonePassed(v)
    BY <1>3, <2>2, <2>4 DEF NonePassed
  <2>6. (v.page - 1) * Size < Cardinality(Listed)
    <3> DEFINE m == c.arg.page * Size
    <3>1. m \in Int
      BY <1>1, SizeAssumption DEF WalkInv, PagesInv
    <3>2. ~(c.arg.counted <= m)
      BY <1>2, <1>6 DEF ends, AtLastPage, w
    <3>3. c.arg.counted \in 0..Cardinality(Listed) /\ Cardinality(Listed) \in Nat
      BY <1>1, ListedFinite DEF WalkInv, PagesInv, HistoryInv
    <3> HIDE DEF m
    <3>4. m < Cardinality(Listed)
      BY <3>1, <3>2, <3>3
    <3> QED
      BY <2>4, <3>4 DEF m
  <2>7. PagesInv(v)
    <3>1. w.start = c.arg.start /\ w.seen \subseteq Listed
      BY <1>1, <1>2 DEF WalkInv, PagesInv
    <3> QED
      BY <1>1, <2>2, <2>4, <2>6, <3>1, ListedFinite DEF WalkInv, PagesInv, HistoryInv
  <2> QED
    BY <1>1, <1>2, <1>7, <2>2, <2>3, <2>4, <2>5, <2>7 DEF WalkInv, Advanced
<1> HIDE DEF w, ends, d, v, e
<1> QED
  BY <1>4, <1>5, <1>6, ReplacedInv DEF Advanced, Advances

LEMMA WalkStep == HistoryInv /\ Walk => HistoryInv'
<1> SUFFICES ASSUME HistoryInv, Walk PROVE HistoryInv'
  OBVIOUS
<1>1. CASE Insert
  BY <1>1, InsertInv
<1>2. CASE \E c \in lookups : CountRows(c) \/ ReadRows(c, LatestFor(c))
  <2>1. PICK c \in lookups : CountRows(c) \/ ReadRows(c, LatestFor(c))
    BY <1>2
  <2>2. CASE CountRows(c)
    BY <2>2, CountRowsInv
  <2>3. CASE ReadRows(c, LatestFor(c))
    BY <2>3, ReadRowsInv
  <2> QED
    BY <2>1, <2>2, <2>3
<1> QED
  BY <1>1, <1>2 DEF Walk
-----------------------------------------------------------------------------
(* What a panel does to the walks: it begins one, ends one or aborts some. *)
PanelLookups ==
  \/ UNCHANGED lookups
  \/ \E lane \in WalkLane : lookups' = StartWalk(lane)
  \/ \E c \in lookups : lookups' = Ended(lookups, c)
  \/ \E calls \in SUBSET lookups :
       \/ lookups' = Aborted(calls, {"candidates"})
       \/ lookups' = Sent(Aborted(calls, {"candidates"}), "candidates", NewWalk)

LEMMA PanelLookupsInv ==
  ASSUME HistoryInv, UNCHANGED position, PanelLookups PROVE HistoryInv'
<1>1. PlacesInv /\ WalksInv(lookups)
  BY DEF HistoryInv
<1>2. WalksInv(lookups')
  <2>1. CASE UNCHANGED lookups
    BY <1>1, <2>1
  <2>2. ASSUME NEW lane \in WalkLane, lookups' = StartWalk(lane) PROVE WalksInv(lookups')
    BY <2>2, StartWalkInv
  <2>3. ASSUME NEW c \in lookups, lookups' = Ended(lookups, c) PROVE WalksInv(lookups')
    BY <1>1, <2>3, EndedInv
  <2>4. ASSUME NEW calls \in SUBSET lookups,
               \/ lookups' = Aborted(calls, {"candidates"})
               \/ lookups' = Sent(Aborted(calls, {"candidates"}), "candidates", NewWalk)
        PROVE  WalksInv(lookups')
    <3>1. WalksInv(calls)
      BY <1>1 DEF WalksInv, OneLive
    <3>2. WalksInv(Aborted(calls, {"candidates"}))
      BY <3>1, AbortedInv
    <3>3. WalksInv(Sent(Aborted(calls, {"candidates"}), "candidates", NewWalk))
      BY <1>1, <3>2, SentInv DEF WalkLane
    <3> QED
      BY <2>4, <3>2, <3>3
  <2> QED
    BY <2>1, <2>2, <2>3, <2>4 DEF PanelLookups
<1>3. PlacesInv'
  BY <1>1 DEF PlacesInv, Listed
<1>4. \A c : WalkInv(c) <=> WalkInv(c)'
  BY DEF WalkInv, PagesInv, NonePassed, Listed, IsComplete
<1> QED
  BY <1>2, <1>3, <1>4 DEF HistoryInv, WalksInv

LEMMA GateLookups == GateNext(completed) => PanelLookups
<1> SUFFICES ASSUME GateNext(completed) PROVE PanelLookups
  OBVIOUS
<1>1. CASE submitPolicy(completed) \/ RetryEvaluation \/ EvaluateElsewhere(completed)
  BY <1>1 DEF submitPolicy, RetryEvaluation, EvaluateElsewhere, PanelLookups
<1>2. CASE RetryRestore
  BY <1>2 DEF RetryRestore, restoreLatest, PanelLookups, WalkLane
<1>3. ASSUME NEW c \in gate.calls, ServeCreate(c) \/ ServeEvaluate(c) PROVE PanelLookups
  BY <1>3 DEF ServeCreate, ServeEvaluate, PanelLookups
<1>4. ASSUME NEW c \in lookups, ReceiveRestore(c) PROVE PanelLookups
  BY <1>4 DEF ReceiveRestore, PanelLookups
<1>5. ASSUME NEW c \in gate.calls, ReceiveCreate(c) PROVE PanelLookups
  BY <1>5 DEF ReceiveCreate, PanelLookups
<1>6. ASSUME NEW c \in gate.calls, ReceiveEvaluate(c) PROVE PanelLookups
  <2>1. \/ UNCHANGED lookups
        \/ \E g : restoreLatest(g, FALSE)
    BY <1>6 DEF ReceiveEvaluate
  <2> QED
    BY <2>1 DEF restoreLatest, PanelLookups, WalkLane
<1> QED
  BY <1>1, <1>2, <1>3, <1>4, <1>5, <1>6 DEF GateNext, ReceiveGate

LEMMA ExperimentChangedLookups == ASSUME NEW done, ExperimentChanged(done) PROVE PanelLookups
<1> DEFINE calls == {c \in lookups : c.lane = "candidates" /\ c.reply # Waiting}
<1>1. calls \in SUBSET lookups
  OBVIOUS
<1>2. \/ lookups' = Sent(Aborted(calls, {"candidates"}), "candidates", NewWalk)
      \/ lookups' = Aborted(calls, {"candidates"})
  BY DEF ExperimentChanged
<1> QED
  BY <1>1, <1>2 DEF PanelLookups

LEMMA ComparisonLookups == ComparisonNext(completed) => PanelLookups
<1> SUFFICES ASSUME ComparisonNext(completed) PROVE PanelLookups
  OBVIOUS
<1>1. CASE SelectBaseline \/ submitComparison(completed) \/ CompareElsewhere(completed)
  BY <1>1 DEF SelectBaseline, submitComparison, CompareElsewhere, PanelLookups
<1>2. CASE RefreshCandidates(completed)
  BY <1>2 DEF RefreshCandidates, loadCandidates, PanelLookups, WalkLane
<1>3. ASSUME NEW c \in comparison.calls, ServeCompare(c) PROVE PanelLookups
  BY <1>3 DEF ServeCompare, PanelLookups
<1>4. ASSUME NEW c \in lookups, ReceiveCandidates(c) \/ ReceiveRecovery(c) PROVE PanelLookups
  BY <1>4 DEF ReceiveCandidates, ReceiveRecovery, PanelLookups
<1>5. ASSUME NEW c \in comparison.calls, ReceiveCompare(c) PROVE PanelLookups
  <2>1. UNCHANGED lookups \/ lookups' = StartWalk("recover")
    BY <1>5 DEF ReceiveCompare
  <2> QED
    BY <2>1 DEF PanelLookups, WalkLane
<1> QED
  BY <1>1, <1>2, <1>3, <1>4, <1>5 DEF ComparisonNext, ReceiveComparison
-----------------------------------------------------------------------------
LEMMA HistoryInit == Init => HistoryInv
<1> SUFFICES ASSUME Init PROVE HistoryInv
  OBVIOUS
<1>1. PICK X \in SUBSET Experiment : Current \in X /\ position \in Places(X)
  BY DEF Init
<1>2. Listed = X /\ \A x \in X : position[x] \in 1..Cardinality(X)
  BY <1>1 DEF Places, Listed
<1>3. Cardinality(X) \in Nat
  BY ExperimentAssumption, FS_Subset, FS_CardinalityType
<1>4. PlacesInv
  BY <1>1, <1>2, <1>3 DEF PlacesInv, Places
<1>5. \E lane \in WalkLane : lookups \subseteq {Call(lane, NewWalk)}
  BY DEF Init, WalkLane
<1> QED
  BY <1>4, <1>5, NewWalkInv DEF HistoryInv, WalksInv, OneLive

LEMMA HistoryNext == HistoryInv /\ [Next]_vars => HistoryInv'
<1> SUFFICES ASSUME HistoryInv, [Next]_vars PROVE HistoryInv'
  OBVIOUS
<1>1. CASE Walk
  BY <1>1, WalkStep
<1>2. CASE UseGate
  BY <1>2, GateLookups, PanelLookupsInv DEF UseGate
<1>3. CASE UseComparison
  BY <1>3, ComparisonLookups, PanelLookupsInv DEF UseComparison
<1>4. CASE ReloadExperiment
  <2>1. PanelLookups
    BY <1>4, ExperimentChangedLookups DEF ReloadExperiment, PanelLookups
  <2> QED
    BY <1>4, <2>1, PanelLookupsInv DEF ReloadExperiment
<1>5. CASE UNCHANGED vars
  BY <1>5, PanelLookupsInv DEF vars, PanelLookups
<1> QED
  BY <1>1, <1>2, <1>3, <1>4, <1>5 DEF Next
-----------------------------------------------------------------------------
(* ---- The gate panel. ---------------------------------------------------- *)

AE == request(AlreadyEvaluated)

IsGate(g) ==
  g = [policy |-> g.policy, result |-> g.result, restoreError |-> g.restoreError,
       createError |-> g.createError, evaluationError |-> g.evaluationError,
       pending |-> g.pending, missed |-> g.missed, flags |-> g.flags, calls |-> g.calls]

Recorded(pol, res) == pol \subseteq Policy /\ res \in Seq(Policy) /\ Members(res) \subseteq pol

(* A call of the panel, and what the server has answered to it, if it has.  *)
GateCall(c, pol, res) ==
  /\ c.lane \in {"create", "evaluate"} /\ c.arg \in Policy
  /\ c.lane = "evaluate" => c.arg \in pol
  /\ c.reply # Waiting =>
       /\ c.live /\ c.arg \in pol
       /\ c.lane = "create" => c.reply \in {<<Answered(c.arg)>>, <<DuplicateName>>}
       /\ c.lane = "evaluate" => /\ c.arg \in Members(res)
                                 /\ c.reply \in {<<Answered(c.arg)>>, <<AlreadyEvaluated>>}

GateCalls(calls, pol, res) ==
  AreCalls(calls) /\ OneLive(calls) /\ \A c \in calls : GateCall(c, pol, res)

AtForm(g) == g.result = None /\ g.restoreError = None

Walking(g) ==
  /\ Settled(g.calls) /\ AtForm(g)
  /\ \/ g.pending = None /\ g.flags = {"restoring"}
     \/ /\ g.pending # None /\ g.policy # None /\ g.evaluationError = g.pending
        /\ g.flags = {"evaluating", "recovering"}

Creating(g) == AtForm(g) /\ g.pending = None /\ g.flags = {"creating"} /\ g.policy = None

Evaluating(g, policy) ==
  /\ AtForm(g) /\ g.pending = None /\ g.flags = {"evaluating"}
  /\ g.policy = policy /\ g.evaluationError = None

(* The panel does one thing at a time, and its flags say what.             *)
ActivityInv(g, W) ==
  /\ \A c \in W : c.live /\ c.lane = "restore" /\ Walking(g)
  /\ \A c \in g.calls : c.live =>
       IF c.lane = "create" THEN Creating(g) ELSE Evaluating(g, c.arg)
  /\ W = {} /\ Settled(g.calls) => g.flags = {} /\ g.pending = None

(* What is shown is stored, and an error that a result refutes has been     *)
(* looked into.                                                            *)
OutcomeInv(g, W, res) ==
  /\ g.result # None =>
       g.result = g.policy /\ g.result \in Members(res) /\ g.restoreError = None
  /\ g.policy = None => g.evaluationError = None
  /\ g.policy # None /\ g.result = None /\ "evaluating" \notin g.flags =>
       g.evaluationError # None
  /\ g.evaluationError = AE =>
       res # << >> /\ \A c \in W : Current \in c.arg.seen => c.arg.latest # None
  /\ W = {} /\ Settled(g.calls) /\ g.evaluationError = AE =>
       g.restoreError # None \/ g.missed
  /\ \A c \in W : c.arg.latest \in Members(res) \cup {None}

GateInv(g, W, pol, res) ==
  /\ IsGate(g) /\ g.policy \in pol \cup {None} /\ g.flags \subseteq GateFlag
  /\ Recorded(pol, res) /\ GateCalls(g.calls, pol, res)
  /\ ActivityInv(g, W) /\ OutcomeInv(g, W, res)
-----------------------------------------------------------------------------
LEMMA Appended ==
  ASSUME NEW S, NEW q \in Seq(S), NEW x \in S
  PROVE  LET r == Append(q, x)
         IN /\ r \in Seq(S) /\ r # << >> /\ Members(r) = Members(q) \cup {x} /\ LatestOf(r) = x
<1> DEFINE r == Append(q, x)
<1>1. /\ r \in Seq(S) /\ Len(r) = Len(q) + 1 /\ Len(q) \in Nat
      /\ r[Len(q) + 1] = x /\ \A i \in 1..Len(q) : r[i] = q[i]
  OBVIOUS
<1>2. DOMAIN r = 1..Len(q) + 1 /\ DOMAIN q = 1..Len(q)
  BY <1>1
<1>3. r # << >>
  BY <1>1
<1> HIDE DEF r
<1>4. Members(r) = Members(q) \cup {x}
  <2>1. ASSUME NEW y \in Members(r) PROVE y \in Members(q) \cup {x}
    <3>1. PICK i \in DOMAIN r : y = r[i]
      BY DEF Members
    <3>2. i = Len(q) + 1 \/ i \in 1..Len(q)
      BY <1>1, <1>2
    <3> QED
      BY <1>1, <1>2, <3>1, <3>2 DEF Members
  <2>2. ASSUME NEW y \in Members(q) \cup {x} PROVE y \in Members(r)
    <3>1. CASE y = x
      <4>1. Len(q) + 1 \in DOMAIN r
        BY <1>1, <1>2
      <4> QED
        BY <1>1, <3>1, <4>1 DEF Members
    <3>2. CASE y \in Members(q)
      <4>1. PICK i \in DOMAIN q : y = q[i]
        BY <3>2 DEF Members
      <4>2. i \in DOMAIN r /\ y = r[i]
        BY <1>1, <1>2, <4>1
      <4> QED
        BY <4>2 DEF Members
    <3> QED
      BY <3>1, <3>2
  <2> QED
    BY <2>1, <2>2
<1>5. LatestOf(r) = x
  BY <1>1, <1>3 DEF LatestOf
<1> QED
  BY <1>1, <1>3, <1>4, <1>5 DEF r

LEMMA LatestIsMember ==
  ASSUME NEW S, NEW q \in Seq(S)
  PROVE  /\ Members(q) \subseteq S
         /\ q # << >> => LatestOf(q) \in Members(q)
         /\ q = << >> => LatestOf(q) = None /\ Members(q) = {}
<1>1. Members(q) \subseteq S
  BY DEF Members
<1>2. ASSUME q # << >> PROVE LatestOf(q) \in Members(q)
  <2>1. Len(q) \in DOMAIN q
    BY <1>2
  <2> QED
    BY <1>2, <2>1 DEF LatestOf, Members
<1>3. ASSUME q = << >> PROVE LatestOf(q) = None /\ Members(q) = {}
  <2>1. DOMAIN q = {}
    BY <1>3
  <2> QED
    BY <1>3, <2>1 DEF LatestOf, Members
<1> QED
  BY <1>1, <1>2, <1>3

LEMMA NoneIsNoName == None \notin Policy /\ None \notin Experiment /\ None # AE
BY NoneAssumption DEF AE

LEMMA AEFacts == AE.kind # "data" /\ AE.code = "QUALITY_GATE_ALREADY_EVALUATED"
BY RefusedIsError DEF AE, AlreadyEvaluated

LEMMA LostIsNone == \A o \in Lost : o # None /\ o # AE
BY NoneAssumption, LostCalls, AEFacts

(* A call sent while none is live is the only live one.                    *)
LEMMA SentAtRest ==
  ASSUME NEW calls, AreCalls(calls), Settled(calls), NEW lane, NEW arg,
         NEW k, k = Sent(calls, lane, arg)
  PROVE  /\ AreCalls(k) /\ OneLive(k) /\ Call(lane, arg) \in k
         /\ \A d \in k : \/ d = Call(lane, arg)
                        \/ /\ ~d.live
                           /\ \E c \in calls : d.lane = c.lane /\ d.arg = c.arg /\ d.reply = c.reply
<1>1. OneLive(calls)
  BY DEF Settled, OneLive
<1>2. /\ AreCalls(k) /\ Call(lane, arg) \in k /\ OneLive(k)
      /\ \A d \in k : \/ d = Call(lane, arg)
                     \/ /\ \E c \in calls : d.lane = c.lane /\ d.arg = c.arg /\ d.reply = c.reply
                        /\ d.lane = lane => ~d.live
                        /\ d.lane # lane => d \in calls
  BY <1>1, SentCalls
<1> QED
  BY <1>2 DEF Settled

LEMMA GateSent ==
  ASSUME NEW calls, NEW pol, NEW res, GateCalls(calls, pol, res), Settled(calls),
         NEW lane \in {"create", "evaluate"}, NEW arg \in Policy,
         lane = "evaluate" => arg \in pol, NEW k, k = Sent(calls, lane, arg)
  PROVE  /\ GateCalls(k, pol, res) /\ ~Settled(k)
         /\ \A d \in k : d.live => d.lane = lane /\ d.arg = arg
<1> DEFINE new == Call(lane, arg)
<1>1. new.lane = lane /\ new.arg = arg /\ new.reply = Waiting /\ new.live
  BY CallFields
<1> HIDE DEF new
<1>2. /\ AreCalls(k) /\ OneLive(k) /\ new \in k
      /\ \A d \in k : \/ d = new
                     \/ /\ ~d.live
                        /\ \E c \in calls : d.lane = c.lane /\ d.arg = c.arg /\ d.reply = c.reply
  BY SentAtRest DEF GateCalls, new
<1>3. ASSUME NEW d \in k PROVE GateCall(d, pol, res)
  <2>1. CASE d = new
    BY <1>1, <2>1 DEF GateCall
  <2>2. CASE d # new
    <3>1. PICK c \in calls : d.lane = c.lane /\ d.arg = c.arg /\ d.reply = c.reply
      BY <1>2, <2>2
    <3>2. GateCall(c, pol, res) /\ ~c.live
      BY DEF GateCalls, Settled
    <3> QED
      BY <3>1, <3>2 DEF GateCall
  <2> QED
    BY <2>1, <2>2
<1> QED
  BY <1>1, <1>2, <1>3 DEF GateCalls, Settled

(* The panel at rest: nothing is under way.                                *)
LEMMA GateRest ==
  ASSUME NEW g, NEW W, NEW pol, NEW res, GateInv(g, W, pol, res),
         g.flags \cap {"creating", "evaluating", "recovering"} = {}, "restoring" \notin g.flags
  PROVE  W = {} /\ Settled(g.calls) /\ g.flags = {} /\ g.pending = None
<1>1. W = {}
  BY DEF GateInv, ActivityInv, Walking
<1>2. Settled(g.calls)
  BY DEF GateInv, ActivityInv, Creating, Evaluating, Settled
<1> QED
  BY <1>1, <1>2 DEF GateInv, ActivityInv

LEMMA SubmitPolicyInv ==
  ASSUME GateInv(gate, lookups, policies, gateResults), submitPolicy(completed)
  PROVE  GateInv(gate', lookups', policies', gateResults')
<1>1. PICK name \in Policy :
        gate' = [gate EXCEPT !.createError = None, !.flags = @ \cup {"creating"},
                             !.calls = Sent(@, "create", name)]
  BY DEF submitPolicy
<1>2. /\ AtForm(gate) /\ gate.policy = None
      /\ lookups = {} /\ Settled(gate.calls) /\ gate.flags = {} /\ gate.pending = None
  BY GateRest DEF submitPolicy, CanCreate, FormShown, GateBusy, AtForm
<1> DEFINE k == Sent(gate.calls, "create", name)
           f == gate.flags \cup {"creating"}
<1>3. f = {"creating"}
  BY <1>2
<1>4. /\ GateCalls(k, policies, gateResults) /\ ~Settled(k)
      /\ \A d \in k : d.live => d.lane = "create" /\ d.arg = name
  BY <1>2, GateSent DEF GateInv
<1>5. gate' = [gate EXCEPT !.createError = None, !.flags = f, !.calls = k]
  BY <1>1
<1> HIDE DEF k, f
<1>6. gate' = [policy |-> gate.policy, result |-> gate.result,
               restoreError |-> gate.restoreError, createError |-> None,
               evaluationError |-> gate.evaluationError, pending |-> gate.pending,
               missed |-> gate.missed, flags |-> f, calls |-> k]
  BY <1>5 DEF GateInv, IsGate
<1>7. /\ IsGate(gate') /\ gate'.policy = gate.policy /\ gate'.result = gate.result
      /\ gate'.restoreError = gate.restoreError
      /\ gate'.evaluationError = gate.evaluationError /\ gate'.pending = gate.pending
      /\ gate'.missed = gate.missed /\ gate'.flags = f /\ gate'.calls = k
  BY <1>6 DEF IsGate
<1>8. lookups' = {} /\ policies' = policies /\ gateResults' = gateResults
  BY <1>2 DEF submitPolicy
<1>9. ActivityInv(gate', {})
  BY <1>2, <1>3, <1>4, <1>7 DEF ActivityInv, Creating, AtForm
<1>10. OutcomeInv(gate', {}, gateResults)
  BY <1>2, <1>3, <1>4, <1>7 DEF GateInv, OutcomeInv, AtForm
<1> QED
  BY <1>2, <1>3, <1>4, <1>7, <1>8, <1>9, <1>10 DEF GateInv, GateFlag

LEMMA EvaluateInv ==
  ASSUME NEW g, NEW pol, NEW res, IsGate(g), Recorded(pol, res),
         GateCalls(g.calls, pol, res), Settled(g.calls), AtForm(g),
         g.pending = None, g.flags = {}, g.policy \in pol,
         NEW v, v = evaluateExistingPolicy(g, g.policy)
  PROVE  GateInv(v, {}, pol, res)
<1> DEFINE k == Sent(g.calls, "evaluate", g.policy)
           f == g.flags \cup {"evaluating"}
<1>1. f = {"evaluating"}
  OBVIOUS
<1>2. g.policy \in Policy /\ g.policy # None
  BY NoneIsNoName DEF Recorded
<1>3. /\ GateCalls(k, pol, res) /\ ~Settled(k)
      /\ \A d \in k : d.live => d.lane = "evaluate" /\ d.arg = g.policy
  BY <1>2, GateSent
<1>4. v = [g EXCEPT !.flags = f, !.evaluationError = None, !.calls = k]
  BY DEF evaluateExistingPolicy
<1> HIDE DEF k, f
<1>5. v = [policy |-> g.policy, result |-> g.result, restoreError |-> g.restoreError,
           createError |-> g.createError, evaluationError |-> None,
           pending |-> g.pending, missed |-> g.missed, flags |-> f, calls |-> k]
  BY <1>4 DEF IsGate
<1>6. /\ IsGate(v) /\ v.policy = g.policy /\ v.result = g.result
      /\ v.restoreError = g.restoreError /\ v.evaluationError = None
      /\ v.pending = g.pending /\ v.flags = f /\ v.calls = k
  BY <1>5 DEF IsGate
<1>7. ActivityInv(v, {})
  BY <1>1, <1>3, <1>6 DEF ActivityInv, Evaluating, AtForm
<1>8. OutcomeInv(v, {}, res)
  BY <1>1, <1>2, <1>3, <1>6, NoneIsNoName DEF OutcomeInv, AtForm
<1> QED
  BY <1>1, <1>3, <1>6, <1>7, <1>8 DEF GateInv, GateFlag

LEMMA RetryEvaluationInv ==
  ASSUME GateInv(gate, lookups, policies, gateResults), RetryEvaluation
  PROVE  GateInv(gate', lookups', policies', gateResults')
<1>1. /\ AtForm(gate) /\ gate.policy # None
      /\ lookups = {} /\ Settled(gate.calls) /\ gate.flags = {} /\ gate.pending = None
  BY GateRest DEF RetryEvaluation, CanEvaluate, FormShown, GateBusy, AtForm
<1>2. GateInv(evaluateExistingPolicy(gate, gate.policy), {}, policies, gateResults)
  BY <1>1, EvaluateInv DEF GateInv
<1> QED
  BY <1>1, <1>2 DEF RetryEvaluation

(* A lookup begins when nothing is under way.                              *)
LEMMA RestoringInv ==
  ASSUME NEW g, NEW pol, NEW res, IsGate(g), g.policy \in pol \cup {None},
         Recorded(pol, res), GateCalls(g.calls, pol, res), Settled(g.calls),
         g.result = None, NEW f,
         \/ f = {"restoring"} /\ g.pending = None
         \/ /\ f = {"evaluating", "recovering"} /\ g.pending # None
            /\ g.policy # None /\ g.evaluationError = g.pending,
         g.policy = None => g.evaluationError = None,
         g.policy # None => g.evaluationError # None,
         g.evaluationError = AE => res # << >>,
         NEW v, v = [g EXCEPT !.restoreError = None, !.flags = f],
         NEW W, W \subseteq {Call("restore", NewWalk)}, W # {}
  PROVE  GateInv(v, W, pol, res)
<1>3. v = [policy |-> g.policy, result |-> g.result, restoreError |-> None,
           createError |-> g.createError, evaluationError |-> g.evaluationError,
           pending |-> g.pending, missed |-> g.missed, flags |-> f, calls |-> g.calls]
  BY DEF IsGate
<1>4. /\ IsGate(v) /\ v.policy = g.policy /\ v.result = None /\ v.restoreError = None
      /\ v.evaluationError = g.evaluationError
      /\ v.pending = g.pending /\ v.flags = f /\ v.calls = g.calls
  BY <1>3 DEF IsGate
<1>5. \A c \in W : c.lane = "restore" /\ c.live /\ c.arg = NewWalk
  BY CallFields
<1>6. NewWalk.seen = {} /\ NewWalk.latest = None
  BY DEF NewWalk
<1>7. Walking(v)
  BY <1>4 DEF Walking, AtForm
<1>8. ActivityInv(v, W)
  BY <1>4, <1>5, <1>7 DEF ActivityInv, Settled
<1>9. OutcomeInv(v, W, res)
  BY <1>4, <1>5, <1>6 DEF OutcomeInv
<1> QED
  BY <1>4, <1>8, <1>9 DEF GateInv, GateFlag

LEMMA StartWalkOnly ==
  ASSUME NEW lane, lookups = {}
  PROVE  StartWalk(lane) = {Call(lane, NewWalk)}
BY DEF StartWalk, Sent, Aborted

LEMMA RetryRestoreInv ==
  ASSUME GateInv(gate, lookups, policies, gateResults), RetryRestore
  PROVE  GateInv(gate', lookups', policies', gateResults')
<1>1. gate.restoreError # None /\ gate' = Restoring(gate, TRUE)
      /\ lookups' = StartWalk("restore") /\ policies' = policies /\ gateResults' = gateResults
  BY DEF RetryRestore, restoreLatest
<1>2. lookups = {} /\ Settled(gate.calls) /\ gate.result = None
  BY <1>1 DEF GateInv, ActivityInv, OutcomeInv, Walking, Creating, Evaluating, AtForm, Settled
<1>3. gate.flags = {} /\ gate.pending = None
  BY <1>2 DEF GateInv, ActivityInv
<1>4. /\ gate.policy = None => gate.evaluationError = None
      /\ gate.policy # None => gate.evaluationError # None
      /\ gate.evaluationError = AE => gateResults # << >>
  BY <1>2, <1>3 DEF GateInv, OutcomeInv
<1>5. lookups' = {Call("restore", NewWalk)}
  BY <1>1, <1>2, StartWalkOnly
<1>6. GateInv(gate', lookups', policies, gateResults)
  <2> DEFINE v == gate'
             W == lookups'
             f == gate.flags \cup {"restoring"}
  <2>0. f = {"restoring"}
    BY <1>3
  <2>1. /\ v = [gate EXCEPT !.restoreError = None, !.flags = f]
        /\ W \subseteq {Call("restore", NewWalk)} /\ W # {}
    BY <1>1, <1>5 DEF Restoring
  <2> HIDE DEF v, W, f
  <2>2. /\ IsGate(gate) /\ gate.policy \in policies \cup {None}
        /\ Recorded(policies, gateResults) /\ GateCalls(gate.calls, policies, gateResults)
    BY DEF GateInv
  <2>3. GateInv(v, W, policies, gateResults)
    BY <1>2, <1>3, <1>4, <2>0, <2>1, <2>2, RestoringInv
  <2> QED
    BY <2>3 DEF v, W
<1> QED
  BY <1>1, <1>6
-----------------------------------------------------------------------------
(* The server stores more and never less.                                  *)
Grown(pol, res, pol2, res2) ==
  /\ Recorded(pol2, res2) /\ pol \subseteq pol2 /\ Members(res) \subseteq Members(res2)
  /\ res # << >> => res2 # << >>

LEMMA GrownOutcome ==
  ASSUME NEW g, NEW W, NEW pol, NEW res, NEW pol2, NEW res2,
         OutcomeInv(g, W, res), Grown(pol, res, pol2, res2)
  PROVE  OutcomeInv(g, W, res2)
BY DEF OutcomeInv, Grown

LEMMA GrownCall ==
  ASSUME NEW pol, NEW res, NEW pol2, NEW res2, Grown(pol, res, pol2, res2),
         NEW c, GateCall(c, pol, res)
  PROVE  GateCall(c, pol2, res2)
BY DEF GateCall, Grown

LEMMA AnsweredInv ==
  ASSUME NEW g, NEW W, NEW pol, NEW res, NEW pol2, NEW res2,
         GateInv(g, W, pol, res), Grown(pol, res, pol2, res2),
         NEW c \in g.calls, c.reply = Waiting, NEW answer,
         c.arg \in pol2,
         c.lane = "create" => answer \in {Answered(c.arg), DuplicateName},
         c.lane = "evaluate" => /\ c.arg \in Members(res2)
                                /\ answer \in {Answered(c.arg), AlreadyEvaluated},
         NEW k, k = Answer(g.calls, c, answer), NEW v, v = [g EXCEPT !.calls = k]
  PROVE  GateInv(v, W, pol2, res2)
<1>1. AreCalls(g.calls) /\ OneLive(g.calls) /\ \A d \in g.calls : GateCall(d, pol2, res2)
  BY GrownCall DEF GateInv, GateCalls
<1>2. /\ AreCalls(k) /\ OneLive(k) /\ (Settled(k) <=> Settled(g.calls))
      /\ \A d \in k : \/ d \in g.calls
                      \/ c.live /\ ServedBy(d, c, answer)
  <2>1. CASE c.live
    <3>1. k = Served(g.calls, c, answer)
      BY <2>1 DEF Answer
    <3>2. /\ AreCalls(k) /\ OneLive(k)
          /\ \A d \in k : (d \in g.calls /\ d # c) \/ ServedBy(d, c, answer)
          /\ \E d \in k : ServedBy(d, c, answer)
      BY <1>1, <3>1, ServedFacts
    <3>3. ~Settled(k) /\ ~Settled(g.calls)
      BY <2>1, <3>2 DEF Settled, ServedBy
    <3> QED
      BY <2>1, <3>2, <3>3
  <2>2. CASE ~c.live
    <3>1. k = g.calls \ {c}
      BY <2>2 DEF Answer, Ended
    <3>2. AreCalls(k) /\ OneLive(k)
      BY <1>1, <3>1 DEF AreCalls, OneLive
    <3>3. Settled(k) <=> Settled(g.calls)
      BY <2>2, <3>1 DEF Settled
    <3> QED
      BY <3>1, <3>2, <3>3
  <2> QED
    BY <2>1, <2>2
<1>3. ASSUME NEW d \in k PROVE GateCall(d, pol2, res2)
  <2>1. CASE d \in g.calls
    BY <1>1, <2>1
  <2>2. CASE c.live /\ ServedBy(d, c, answer)
    <3>1. /\ d.lane = c.lane /\ d.arg = c.arg /\ d.reply = <<answer>> /\ d.live = c.live
      BY <2>2 DEF ServedBy
    <3>2. GateCall(c, pol2, res2)
      BY <1>1
    <3>3. /\ d.lane \in {"create", "evaluate"} /\ d.arg \in Policy /\ d.live
          /\ d.lane = "evaluate" => d.arg \in pol2
      BY <2>2, <3>1, <3>2 DEF GateCall
    <3> QED
      BY <3>1, <3>3 DEF GateCall
  <2> QED
    BY <1>2, <2>1, <2>2
<1>4. v = [policy |-> g.policy, result |-> g.result, restoreError |-> g.restoreError,
           createError |-> g.createError, evaluationError |-> g.evaluationError,
           pending |-> g.pending, missed |-> g.missed, flags |-> g.flags, calls |-> k]
  BY DEF GateInv, IsGate
<1>5. /\ IsGate(v) /\ v.policy = g.policy /\ v.result = g.result
      /\ v.restoreError = g.restoreError /\ v.evaluationError = g.evaluationError
      /\ v.pending = g.pending /\ v.missed = g.missed /\ v.flags = g.flags /\ v.calls = k
  BY <1>4 DEF IsGate
<1>6. ActivityInv(v, W)
  <2>1. ASSUME NEW d \in W PROVE d.live /\ d.lane = "restore" /\ Walking(v)
    BY <1>2, <1>5 DEF GateInv, ActivityInv, Walking, AtForm
  <2>2. ASSUME NEW d \in k, d.live
        PROVE  IF d.lane = "create" THEN Creating(v) ELSE Evaluating(v, d.arg)
    <3>1. PICK e \in g.calls : e.live /\ d.lane = e.lane /\ d.arg = e.arg
      BY <1>2, <2>2 DEF ServedBy
    <3> QED
      BY <1>5, <3>1 DEF GateInv, ActivityInv, Creating, Evaluating, AtForm
  <2>3. W = {} /\ Settled(k) => v.flags = {} /\ v.pending = None
    BY <1>2, <1>5 DEF GateInv, ActivityInv
  <2> QED
    BY <1>5, <2>1, <2>2, <2>3 DEF ActivityInv
<1>7. OutcomeInv(v, W, res2)
  <2>1. OutcomeInv(g, W, res2)
    BY GrownOutcome DEF GateInv
  <2> QED
    BY <1>2, <1>5, <2>1 DEF OutcomeInv
<1> QED
  BY <1>1, <1>2, <1>3, <1>5, <1>6, <1>7 DEF GateInv, GateCalls, Grown

LEMMA ServeCreateInv ==
  ASSUME GateInv(gate, lookups, policies, gateResults), NEW c \in gate.calls, ServeCreate(c)
  PROVE  GateInv(gate', lookups', policies', gateResults')
<1> DEFINE answer == IF c.arg \in policies THEN DuplicateName ELSE Answered(c.arg)
           k == Answer(gate.calls, c, answer)
           v == [gate EXCEPT !.calls = k]
           more == policies \cup {c.arg}
<1>1. c.lane = "create" /\ c.reply = Waiting /\ c.arg \in Policy
  BY DEF ServeCreate, GateInv, GateCalls, GateCall
<1>2. gate' = v /\ lookups' = lookups /\ policies' = more /\ gateResults' = gateResults
  BY DEF ServeCreate
<1>3. answer \in {Answered(c.arg), DuplicateName}
  OBVIOUS
<1>4. Grown(policies, gateResults, more, gateResults)
  BY <1>1 DEF Grown, Recorded, GateInv
<1> HIDE DEF answer
<1>5. c.arg \in more
  OBVIOUS
<1> HIDE DEF more
<1>6. GateInv(v, lookups, more, gateResults)
  BY <1>1, <1>3, <1>4, <1>5, AnsweredInv
<1> QED
  BY <1>2, <1>6

LEMMA MoreResults ==
  ASSUME NEW pol, NEW res, Recorded(pol, res), NEW p \in Policy
  PROVE  /\ p \in pol => Grown(pol, res, pol, Append(res, p))
         /\ Grown(pol, res, pol \cup {p}, Append(res, p))
         /\ Grown(pol, res, pol, res) /\ Members(Append(res, p)) = Members(res) \cup {p}
<1> DEFINE r == Append(res, p)
<1>1. r \in Seq(Policy) /\ r # << >> /\ Members(r) = Members(res) \cup {p}
  BY Appended DEF Recorded
<1> HIDE DEF r
<1>2. /\ p \in pol => Grown(pol, res, pol, r)
      /\ Grown(pol, res, pol \cup {p}, r) /\ Grown(pol, res, pol, res)
  BY <1>1 DEF Grown, Recorded
<1> QED
  BY <1>1, <1>2 DEF r

LEMMA ServeEvaluateInv ==
  ASSUME GateInv(gate, lookups, policies, gateResults), NEW c \in gate.calls, ServeEvaluate(c)
  PROVE  GateInv(gate', lookups', policies', gateResults')
<1> DEFINE evaluated == c.arg \in Members(gateResults)
           answer == IF evaluated THEN AlreadyEvaluated ELSE Answered(c.arg)
           k == Answer(gate.calls, c, answer)
           v == [gate EXCEPT !.calls = k]
           more == IF evaluated THEN gateResults ELSE Append(gateResults, c.arg)
<1>1. c.lane = "evaluate" /\ c.reply = Waiting /\ c.arg \in Policy /\ c.arg \in policies
  BY DEF ServeEvaluate, GateInv, GateCalls, GateCall
<1>2. gate' = v /\ lookups' = lookups /\ policies' = policies /\ gateResults' = more
  BY DEF ServeEvaluate
<1>3. answer \in {Answered(c.arg), AlreadyEvaluated}
  OBVIOUS
<1>4. Grown(policies, gateResults, policies, more) /\ c.arg \in Members(more)
  <2>1. Recorded(policies, gateResults)
    BY DEF GateInv
  <2>2. CASE evaluated
    BY <1>1, <2>1, <2>2, MoreResults
  <2>3. CASE ~evaluated
    <3>1. more = Append(gateResults, c.arg)
      BY <2>3
    <3> QED
      BY <1>1, <2>1, <3>1, MoreResults
  <2> QED
    BY <2>2, <2>3
<1> HIDE DEF answer, more
<1>5. GateInv(v, lookups, policies, more)
  BY <1>1, <1>3, <1>4, AnsweredInv
<1> QED
  BY <1>2, <1>5

LEMMA EvaluateElsewhereInv ==
  ASSUME GateInv(gate, lookups, policies, gateResults), EvaluateElsewhere(completed)
  PROVE  GateInv(gate', lookups', policies', gateResults')
<1>1. PICK p \in Policy : policies' = policies \cup {p} /\ gateResults' = Append(gateResults, p)
  BY DEF EvaluateElsewhere
<1> DEFINE pol == policies \cup {p}
           res == Append(gateResults, p)
<1>2. Grown(policies, gateResults, pol, res)
  BY MoreResults DEF GateInv
<1> HIDE DEF res, pol
<1>3. GateCalls(gate.calls, pol, res)
  BY <1>2, GrownCall DEF GateInv, GateCalls
<1>4. OutcomeInv(gate, lookups, res)
  BY <1>2, GrownOutcome DEF GateInv
<1>5. GateInv(gate, lookups, pol, res)
  BY <1>2, <1>3, <1>4 DEF GateInv, Grown
<1> QED
  BY <1>1, <1>5 DEF EvaluateElsewhere, pol, res
-----------------------------------------------------------------------------
(* What the outcome of a lookup leaves of the panel g.                     *)
Took(v, g, o) ==
  /\ o.kind # "data" =>
       /\ v.policy = g.policy /\ v.result = g.result
       /\ v.restoreError = o /\ v.evaluationError = g.evaluationError
  /\ o.kind = "data" /\ o.value = None =>
       /\ v.policy = g.policy /\ v.result = None
       /\ v.restoreError = g.restoreError /\ v.evaluationError = g.evaluationError
  /\ o.kind = "data" /\ o.value # None =>
       /\ v.policy = o.value /\ v.result = o.value
       /\ v.restoreError = g.restoreError /\ v.evaluationError = None

LEMMA RestoredFields ==
  ASSUME NEW g, IsGate(g), NEW o, NEW v, v = Restored(g, o)
  PROVE  /\ IsGate(v) /\ v.calls = g.calls /\ v.flags = g.flags /\ v.pending = g.pending
         /\ v.missed = g.missed
         /\ Took(v, g, o)
<1>1. CASE o.kind # "data"
  <2>1. v = [policy |-> g.policy, result |-> g.result, restoreError |-> o,
             createError |-> g.createError, evaluationError |-> g.evaluationError,
             pending |-> g.pending, missed |-> g.missed, flags |-> g.flags, calls |-> g.calls]
    <3>1. v = [g EXCEPT !.restoreError = o]
      BY <1>1 DEF Restored
    <3> QED
      BY <3>1 DEF IsGate
  <2> QED
    BY <1>1, <2>1 DEF IsGate, Took
<1>2. CASE o.kind = "data" /\ o.value = None
  <2>1. v = [policy |-> g.policy, result |-> None, restoreError |-> g.restoreError,
             createError |-> g.createError, evaluationError |-> g.evaluationError,
             pending |-> g.pending, missed |-> g.missed, flags |-> g.flags, calls |-> g.calls]
    <3>1. v = [g EXCEPT !.result = None]
      BY <1>2 DEF Restored
    <3> QED
      BY <3>1 DEF IsGate
  <2> QED
    BY <1>2, <2>1 DEF IsGate, Took
<1>3. CASE o.kind = "data" /\ o.value # None
  <2>1. v = [policy |-> o.value, result |-> o.value, restoreError |-> g.restoreError,
             createError |-> g.createError, evaluationError |-> None,
             pending |-> g.pending, missed |-> g.missed, flags |-> g.flags, calls |-> g.calls]
    <3>1. v = [g EXCEPT !.policy = o.value, !.result = o.value, !.evaluationError = None]
      BY <1>3 DEF Restored
    <3> QED
      BY <3>1 DEF IsGate
  <2> QED
    BY <1>3, <2>1 DEF IsGate, Took
<1> QED
  BY <1>1, <1>2, <1>3

(* A lookup, and the evaluation it may belong to, end.                     *)
LEMMA RestoreEndedFields ==
  ASSUME NEW g, IsGate(g), Walking(g), NEW c, NEW o, NEW v, v = RestoreEnded(g, c, o)
  PROVE  /\ IsGate(v) /\ v.calls = g.calls /\ v.flags = {} /\ v.pending = None
         /\ v.missed = c.arg.grew
         /\ Took(v, g, o)
<1> DEFINE f == g.flags \ {"restoring", "recovering"}
<1>1. IF g.pending = None THEN f = {} ELSE f \ {"evaluating"} = {}
  BY DEF Walking
<1>0. PICK m : m = c.arg.grew
  OBVIOUS
<1>8. PICK t : t = [g EXCEPT !.flags = f, !.missed = m]
  OBVIOUS
<1>9. PICK u : u = Restored(t, o)
  OBVIOUS
<1>2. IF g.pending = None THEN v = u ELSE v = EvaluationEnded(u, o)
  BY <1>0, <1>8, <1>9 DEF RestoreEnded
<1> HIDE DEF f
<1>3. t = [policy |-> g.policy, result |-> g.result, restoreError |-> g.restoreError,
           createError |-> g.createError, evaluationError |-> g.evaluationError,
           pending |-> g.pending, missed |-> m, flags |-> f, calls |-> g.calls]
  BY <1>8 DEF IsGate
<1>4. /\ IsGate(t) /\ t.policy = g.policy /\ t.result = g.result
      /\ t.restoreError = g.restoreError /\ t.evaluationError = g.evaluationError
      /\ t.pending = g.pending /\ t.missed = m /\ t.flags = f /\ t.calls = g.calls
  BY <1>3 DEF IsGate
<1>5. /\ IsGate(u) /\ u.calls = g.calls /\ u.flags = f /\ u.pending = g.pending
      /\ u.missed = m
      /\ Took(u, g, o)
  <2>1. IsGate(t) /\ u = Restored(t, o)
    BY <1>4, <1>9
  <2>2. /\ IsGate(u) /\ u.calls = t.calls /\ u.flags = t.flags /\ u.pending = t.pending
        /\ u.missed = t.missed
        /\ Took(u, t, o)
    BY <2>1, RestoredFields
  <2> QED
    BY <1>4, <2>2 DEF Took
<1>6. CASE g.pending = None
  BY <1>0, <1>1, <1>2, <1>5, <1>6
<1>7. CASE g.pending # None
  <2> DEFINE recovered == o.kind = "data" /\ o.value # None
             x == IF recovered THEN u.evaluationError ELSE u.pending
             h == u.flags \ {"evaluating"}
  <2>1. v = [u EXCEPT !.flags = h, !.pending = None, !.evaluationError = x]
    BY <1>2, <1>7 DEF EvaluationEnded
  <2>2. h = {}
    BY <1>1, <1>5, <1>7
  <2>3. x = u.evaluationError
    BY <1>5, <1>7 DEF Walking, Took
  <2> HIDE DEF x, h
  <2>4. v = [policy |-> u.policy, result |-> u.result, restoreError |-> u.restoreError,
             createError |-> u.createError, evaluationError |-> x,
             pending |-> None, missed |-> u.missed, flags |-> h, calls |-> u.calls]
    BY <1>5, <2>1 DEF IsGate
  <2>5. /\ IsGate(v) /\ v.policy = u.policy /\ v.result = u.result
        /\ v.restoreError = u.restoreError /\ v.evaluationError = x
        /\ v.pending = None /\ v.missed = u.missed /\ v.flags = h /\ v.calls = u.calls
    BY <2>4 DEF IsGate
  <2> QED
    BY <1>0, <1>5, <2>2, <2>3, <2>5 DEF Took
<1> QED
  BY <1>6, <1>7

LEMMA WalkOutcome ==
  ASSUME NEW c, WalkInv(c), NEW o \in WalkOutcomes(c)
  PROVE  \/ o \in Lost
         \/ c.reply # Waiting /\ o.kind = "data" /\ o.value = c.arg.latest
<1>1. CASE c.reply = Waiting
  BY <1>1 DEF WalkOutcomes
<1>2. CASE c.reply # Waiting
  <2>1. c.reply = <<Answered(c.arg.latest)>>
    BY <1>2 DEF WalkInv
  <2>2. c.reply[1] = Answered(c.arg.latest)
    BY <2>1
  <2>3. o = request(Answered(c.arg.latest)) \/ o \in Lost
    BY <1>2, <2>2 DEF WalkOutcomes, Outcomes
  <2> QED
    BY <1>2, <2>3, AnsweredIsData DEF Data
<1> QED
  BY <1>1, <1>2

LEMMA ReceiveRestoreInv ==
  ASSUME HistoryInv, GateInv(gate, lookups, policies, gateResults),
         NEW c \in lookups, ReceiveRestore(c)
  PROVE  GateInv(gate', lookups', policies', gateResults')
<1>1. WalkInv(c) /\ c.live /\ c.lane = "restore" /\ Walking(gate)
  BY DEF HistoryInv, WalksInv, GateInv, ActivityInv
<1>2. lookups' = {} /\ policies' = policies /\ gateResults' = gateResults
  <2>1. \A d \in lookups : d.live /\ d.lane = "restore"
    BY DEF GateInv, ActivityInv
  <2>2. OneLive(lookups)
    BY DEF HistoryInv, WalksInv
  <2>3. lookups = {c}
    BY <1>1, <2>1, <2>2 DEF OneLive
  <2> QED
    BY <2>3 DEF ReceiveRestore, Ended
<1>3. PICK o \in WalkOutcomes(c) : gate' = RestoreEnded(gate, c, o)
  BY DEF ReceiveRestore
<1> DEFINE v == gate'
<1>4. v = RestoreEnded(gate, c, o) /\ IsGate(gate)
  BY <1>3 DEF GateInv
<1> HIDE DEF v
<1>5. /\ IsGate(v) /\ v.calls = gate.calls /\ v.flags = {} /\ v.pending = None
      /\ v.missed = c.arg.grew
      /\ Took(v, gate, o)
  BY <1>1, <1>4, RestoreEndedFields
<1>6. /\ Settled(gate.calls) /\ gate.result = None /\ gate.restoreError = None
      /\ gate.policy = None => gate.evaluationError = None
      /\ gate.evaluationError = AE /\ Current \in c.arg.seen => c.arg.latest # None
      /\ gate.evaluationError = AE => gateResults # << >>
      /\ c.arg.latest \in Members(gateResults) \cup {None}
      /\ Members(gateResults) \subseteq policies /\ policies \subseteq Policy
  BY <1>1 DEF GateInv, Recorded, OutcomeInv, Walking, AtForm
<1>7. gate.policy # None => gate.evaluationError # None
  BY <1>1, <1>6 DEF GateInv, OutcomeInv, Walking
<1>8. ActivityInv(v, {})
  BY <1>5, <1>6 DEF ActivityInv, Settled
<1>9. OutcomeInv(v, {}, gateResults) /\ v.policy \in policies \cup {None}
  <2>0. gate.policy \in policies \cup {None}
    BY DEF GateInv
  <2>1. CASE o \in Lost
    <3>1. o.kind # "data" /\ o # None
      BY <2>1, LostCalls, LostIsNone
    <3> QED
      BY <1>5, <1>6, <1>7, <2>0, <3>1, NoneIsNoName DEF OutcomeInv, Took
  <2>2. CASE c.reply # Waiting /\ o.kind = "data" /\ o.value = c.arg.latest
    <3>1. CASE o.value = None
      <4>1. gate.evaluationError = AE => c.arg.grew
        <5>1. IsComplete(c.arg) \/ Current \in c.arg.seen
          BY <1>1, <2>2 DEF WalkInv
        <5>2. c.arg.grew \/ Current \in c.arg.seen
          BY <1>1, <5>1 DEF WalkInv, PagesInv, IsComplete
        <5> QED
          BY <1>6, <2>2, <3>1, <5>2
      <4> QED
        BY <1>5, <1>6, <1>7, <2>0, <2>2, <3>1, <4>1, NoneIsNoName DEF OutcomeInv, Took
    <3>2. CASE o.value # None
      BY <1>5, <1>6, <2>2, <3>2, NoneIsNoName DEF OutcomeInv, Took
    <3> QED
      BY <3>1, <3>2
  <2> QED
    BY <1>1, <1>3, <2>1, <2>2, WalkOutcome
<1>10. GateInv(v, {}, policies, gateResults)
  BY <1>5, <1>8, <1>9 DEF GateInv
<1> QED
  BY <1>2, <1>10 DEF v

(* The answer to the call under way comes, or is lost.                     *)
LEMMA GateEnded ==
  ASSUME NEW g, NEW W, NEW pol, NEW res, GateInv(g, W, pol, res),
         NEW c \in g.calls, c.live, NEW k, k = EndedMutation(g.calls, c)
  PROVE  W = {} /\ Settled(k) /\ GateCalls(k, pol, res)
<1>1. W = {}
  BY DEF GateInv, ActivityInv, Walking, Settled
<1>2. AreCalls(g.calls) /\ OneLive(g.calls) /\ \A d \in g.calls : GateCall(d, pol, res)
  BY DEF GateInv, GateCalls
<1>3. /\ AreCalls(k) /\ OneLive(k)
      /\ \A d \in k : \/ d \in g.calls /\ d # c
                     \/ /\ ~d.live /\ d.lane = c.lane /\ d.arg = c.arg /\ d.reply = c.reply
                        /\ c.reply = Waiting
  BY <1>2, EndedMutationCalls
<1>4. ASSUME NEW d \in g.calls, d.live PROVE d = c
  <2>1. d.lane = c.lane
    <3>1. /\ IF d.lane = "create" THEN g.flags = {"creating"} ELSE g.flags = {"evaluating"}
          /\ IF c.lane = "create" THEN g.flags = {"creating"} ELSE g.flags = {"evaluating"}
      BY <1>4 DEF GateInv, ActivityInv, Creating, Evaluating
    <3>2. d.lane \in {"create", "evaluate"} /\ c.lane \in {"create", "evaluate"}
      BY <1>2 DEF GateCall
    <3>3. {"creating"} # {"evaluating"}
      OBVIOUS
    <3> QED
      BY <3>1, <3>2, <3>3
  <2> QED
    BY <1>2, <1>4, <2>1 DEF OneLive
<1>5. Settled(k)
  BY <1>3, <1>4 DEF Settled
<1>6. \A d \in k : GateCall(d, pol, res)
  BY <1>2, <1>3 DEF GateCall
<1> QED
  BY <1>1, <1>3, <1>5, <1>6 DEF GateCalls

LEMMA MutationOutcome ==
  ASSUME NEW pol, NEW res, NEW c, GateCall(c, pol, res), NEW o \in OutcomesOfMutation(c)
  PROVE  /\ o.kind = "data" => c.reply # Waiting /\ o.value = c.arg
         /\ c.lane = "evaluate" /\ o.kind # "data" =>
              o # None /\ (o = AE => c.arg \in Members(res))
<1>1. CASE o \in Lost
  BY <1>1, LostCalls, LostIsNone
<1>2. CASE o \notin Lost
  <2>1. c.reply # Waiting /\ o = request(c.reply[1])
    BY <1>2 DEF OutcomesOfMutation, Outcomes
  <2>2. CASE c.reply = <<Answered(c.arg)>>
    <3>1. c.reply[1] = Answered(c.arg)
      BY <2>2
    <3> QED
      BY <2>1, <3>1, AnsweredIsData DEF Data
  <2>3. CASE c.reply = <<DuplicateName>>
    <3>1. c.reply[1] = DuplicateName
      BY <2>3
    <3>2. o.kind # "data" /\ o = request(DuplicateName)
      BY <2>1, <3>1, RefusedIsError DEF DuplicateName
    <3>3. CASE c.lane = "evaluate"
      <4>1. c.reply = <<Answered(c.arg)>> \/ c.reply = <<AlreadyEvaluated>>
        BY <2>1, <3>3 DEF GateCall
      <4>2. c.reply[1] = Answered(c.arg) \/ c.reply[1] = AlreadyEvaluated
        BY <4>1
      <4>3. o = AE
        <5>1. request(Answered(c.arg)).kind = "data"
          BY AnsweredIsData DEF Data
        <5>2. c.reply[1] # Answered(c.arg)
          BY <2>1, <3>2, <5>1
        <5> QED
          BY <2>1, <4>2, <5>2 DEF AE
      <4> QED
        BY <2>1, <3>2, <3>3, <4>3, NoneIsNoName DEF GateCall
    <3> QED
      BY <3>2, <3>3
  <2>4. CASE c.reply = <<AlreadyEvaluated>> /\ c.lane = "evaluate"
    <3>1. c.reply[1] = AlreadyEvaluated
      BY <2>4
    <3>2. o = AE
      BY <2>1, <3>1 DEF AE
    <3> QED
      BY <2>1, <2>4, <3>2, AEFacts, NoneIsNoName DEF GateCall
  <2> QED
    BY <2>1, <2>2, <2>3, <2>4 DEF GateCall
<1> QED
  BY <1>1, <1>2

LEMMA ReceiveCreateInv ==
  ASSUME GateInv(gate, lookups, policies, gateResults), NEW c \in gate.calls, ReceiveCreate(c)
  PROVE  GateInv(gate', lookups', policies', gateResults')
<1>1. PICK k : k = EndedMutation(gate.calls, c)
  OBVIOUS
<1>2. PICK f : f = gate.flags \ {"creating"}
  OBVIOUS
<1>3. PICK g : g = [gate EXCEPT !.calls = k, !.flags = f]
  OBVIOUS
<1>4. PICK o \in OutcomesOfMutation(c) :
        gate' = IF o.kind = "data"
                THEN evaluateExistingPolicy([g EXCEPT !.policy = o.value], o.value)
                ELSE [g EXCEPT !.createError = o]
  BY <1>1, <1>2, <1>3 DEF ReceiveCreate
<1>5. c.lane = "create" /\ c.live /\ UNCHANGED <<policies, gateResults, lookups>>
  BY DEF ReceiveCreate
<1>6. lookups = {} /\ Settled(k) /\ GateCalls(k, policies, gateResults)
  BY <1>1, <1>5, GateEnded
<1>7. Creating(gate) /\ GateCall(c, policies, gateResults)
  BY <1>5 DEF GateInv, ActivityInv, GateCalls
<1>8. f = {}
  BY <1>2, <1>7 DEF Creating
<1>9. g = [policy |-> gate.policy, result |-> gate.result,
           restoreError |-> gate.restoreError, createError |-> gate.createError,
           evaluationError |-> gate.evaluationError, pending |-> gate.pending,
           missed |-> gate.missed, flags |-> f, calls |-> k]
  BY <1>3 DEF GateInv, IsGate
<1>10. /\ IsGate(g) /\ g.policy = None /\ g.result = None /\ g.restoreError = None
       /\ g.evaluationError = gate.evaluationError /\ g.pending = None
       /\ g.missed = gate.missed /\ g.flags = {} /\ g.calls = k
  BY <1>7, <1>8, <1>9 DEF IsGate, Creating, AtForm
<1>11. CASE o.kind = "data"
  <2>1. PICK h : h = [g EXCEPT !.policy = o.value]
    OBVIOUS
  <2>2. h = [policy |-> o.value, result |-> g.result, restoreError |-> g.restoreError,
             createError |-> g.createError, evaluationError |-> g.evaluationError,
             pending |-> g.pending, missed |-> g.missed, flags |-> g.flags, calls |-> g.calls]
    BY <1>10, <2>1 DEF IsGate
  <2>3. /\ IsGate(h) /\ h.policy = o.value /\ h.result = None /\ h.restoreError = None
        /\ h.pending = None /\ h.flags = {} /\ h.calls = k
    BY <1>10, <2>2 DEF IsGate
  <2>4. h.policy \in policies
    BY <1>7, <1>11, <2>3, MutationOutcome DEF GateCall
  <2>5. gate' = evaluateExistingPolicy(h, h.policy)
    BY <1>4, <1>11, <2>1, <2>3
  <2>6. Recorded(policies, gateResults)
    BY DEF GateInv
  <2>7. GateInv(evaluateExistingPolicy(h, h.policy), {}, policies, gateResults)
    BY <1>6, <2>3, <2>4, <2>6, EvaluateInv DEF AtForm
  <2> QED
    BY <1>5, <1>6, <2>5, <2>7
<1>12. CASE o.kind # "data"
  <2>1. PICK v : v = [g EXCEPT !.createError = o]
    OBVIOUS
  <2>2. v = [policy |-> g.policy, result |-> g.result, restoreError |-> g.restoreError,
             createError |-> o, evaluationError |-> g.evaluationError,
             pending |-> g.pending, missed |-> g.missed, flags |-> g.flags, calls |-> g.calls]
    BY <1>10, <2>1 DEF IsGate
  <2>3. /\ IsGate(v) /\ v.policy = None /\ v.result = None /\ v.restoreError = None
        /\ v.evaluationError = gate.evaluationError /\ v.pending = None
        /\ v.flags = {} /\ v.calls = k
    BY <1>10, <2>2 DEF IsGate
  <2>4. gate.evaluationError = None
    BY <1>7 DEF GateInv, OutcomeInv, Creating
  <2>5. ActivityInv(v, {}) /\ OutcomeInv(v, {}, gateResults)
    BY <1>6, <2>3, <2>4, NoneIsNoName DEF ActivityInv, OutcomeInv, Settled
  <2>6. GateInv(v, {}, policies, gateResults)
    BY <1>6, <2>3, <2>5 DEF GateInv
  <2> QED
    BY <1>4, <1>5, <1>6, <1>12, <2>1, <2>6
<1> QED
  BY <1>11, <1>12

LEMMA ReceiveEvaluateInv ==
  ASSUME GateInv(gate, lookups, policies, gateResults), NEW c \in gate.calls, ReceiveEvaluate(c)
  PROVE  GateInv(gate', lookups', policies', gateResults')
<1>1. PICK k : k = EndedMutation(gate.calls, c)
  OBVIOUS
<1>2. PICK g : g = [gate EXCEPT !.calls = k]
  OBVIOUS
<1>3. PICK f : f = g.flags \ {"evaluating"}
  OBVIOUS
<1>4. PICK r : r = g.flags \cup {"recovering"}
  OBVIOUS
<1>5. PICK o \in OutcomesOfMutation(c) :
        IF o.kind = "data"
        THEN gate' = [g EXCEPT !.result = o.value, !.flags = f] /\ UNCHANGED lookups
        ELSE restoreLatest([g EXCEPT !.evaluationError = o, !.pending = o, !.flags = r], FALSE)
  BY <1>1, <1>2, <1>3, <1>4 DEF ReceiveEvaluate
<1>6. c.lane = "evaluate" /\ c.live /\ UNCHANGED <<policies, gateResults>>
  BY DEF ReceiveEvaluate
<1>7. lookups = {} /\ Settled(k) /\ GateCalls(k, policies, gateResults)
  BY <1>1, <1>6, GateEnded
<1>8. /\ Evaluating(gate, c.arg) /\ GateCall(c, policies, gateResults)
      /\ Recorded(policies, gateResults)
  BY <1>6 DEF GateInv, ActivityInv, GateCalls
<1>9. g = [policy |-> gate.policy, result |-> gate.result,
           restoreError |-> gate.restoreError, createError |-> gate.createError,
           evaluationError |-> gate.evaluationError, pending |-> gate.pending,
           missed |-> gate.missed, flags |-> gate.flags, calls |-> k]
  BY <1>2 DEF GateInv, IsGate
<1>10. /\ IsGate(g) /\ g.policy = c.arg /\ g.result = None /\ g.restoreError = None
       /\ g.evaluationError = None /\ g.pending = None /\ g.flags = {"evaluating"}
       /\ g.calls = k
  BY <1>8, <1>9 DEF IsGate, Evaluating, AtForm
<1>11. f = {} /\ r = {"evaluating", "recovering"}
  BY <1>3, <1>4, <1>10
<1>12. c.arg \in policies /\ c.arg \in Policy /\ c.arg # None
  BY <1>6, <1>8, NoneIsNoName DEF GateCall
<1>13. CASE o.kind = "data"
  <2>1. PICK v : v = [g EXCEPT !.result = o.value, !.flags = f]
    OBVIOUS
  <2>2. v = [policy |-> g.policy, result |-> o.value, restoreError |-> g.restoreError,
             createError |-> g.createError, evaluationError |-> g.evaluationError,
             pending |-> g.pending, missed |-> g.missed, flags |-> f, calls |-> g.calls]
    BY <1>10, <2>1 DEF IsGate
  <2>3. c.reply # Waiting /\ o.value = c.arg
    BY <1>8, <1>13, MutationOutcome
  <2>4. /\ IsGate(v) /\ v.policy = c.arg /\ v.result = c.arg /\ v.restoreError = None
        /\ v.evaluationError = None /\ v.pending = None /\ v.flags = {} /\ v.calls = k
    BY <1>10, <1>11, <2>2, <2>3 DEF IsGate
  <2>5. c.arg \in Members(gateResults)
    BY <1>6, <1>8, <2>3 DEF GateCall
  <2>6. ActivityInv(v, {}) /\ OutcomeInv(v, {}, gateResults)
    BY <1>7, <1>12, <2>4, <2>5, NoneIsNoName DEF ActivityInv, OutcomeInv, Settled
  <2>7. GateInv(v, {}, policies, gateResults)
    BY <1>7, <1>8, <1>12, <2>4, <2>6 DEF GateInv
  <2>8. gate' = v /\ lookups' = {}
    BY <1>5, <1>7, <1>13, <2>1
  <2> QED
    BY <1>6, <2>7, <2>8
<1>14. CASE o.kind # "data"
  <2>1. PICK h : h = [g EXCEPT !.evaluationError = o, !.pending = o, !.flags = r]
    OBVIOUS
  <2>2. h = [policy |-> g.policy, result |-> g.result, restoreError |-> g.restoreError,
             createError |-> g.createError, evaluationError |-> o,
             pending |-> o, missed |-> g.missed, flags |-> r, calls |-> g.calls]
    BY <1>10, <2>1 DEF IsGate
  <2>3. /\ IsGate(h) /\ h.policy = c.arg /\ h.result = None
        /\ h.evaluationError = o /\ h.pending = o /\ h.flags = r /\ h.calls = k
    BY <1>10, <2>2 DEF IsGate
  <2>4. gate' = Restoring(h, FALSE) /\ lookups' = StartWalk("restore")
    BY <1>5, <1>14, <2>1 DEF restoreLatest
  <2>5. PICK f2 : f2 = h.flags \cup IF FALSE THEN {"restoring"} ELSE {}
    OBVIOUS
  <2>6. PICK v : v = [h EXCEPT !.restoreError = None, !.flags = f2]
    OBVIOUS
  <2>7. gate' = v /\ f2 = {"evaluating", "recovering"}
    BY <1>11, <2>3, <2>4, <2>5, <2>6 DEF Restoring
  <2>8. PICK W : W = {Call("restore", NewWalk)}
    OBVIOUS
  <2>9. lookups' = W /\ W # {}
    BY <1>7, <2>4, <2>8, StartWalkOnly
  <2>10. o # None /\ (o = AE => gateResults # << >>)
    BY <1>6, <1>8, <1>14, MutationOutcome, LatestIsMember DEF Recorded
  <2>11. GateInv(v, W, policies, gateResults)
    BY <1>7, <1>8, <1>12, <2>3, <2>6, <2>7, <2>8, <2>9, <2>10, RestoringInv
  <2> QED
    BY <1>6, <2>7, <2>9, <2>11
<1> QED
  BY <1>13, <1>14

(* What the server or the list does to a walk keeps what it knows right.   *)
LEMMA GateWalkInv ==
  ASSUME GateInv(gate, lookups, policies, gateResults), NEW c \in lookups,
         Advances(c, LatestFor(c))
  PROVE  GateInv(gate, lookups', policies, gateResults)
<1>1. PICK d : /\ lookups' = (lookups \ {c}) \cup {d} /\ d.lane = c.lane /\ d.live = c.live
              /\ \/ d.arg.latest = LatestFor(c)
                 \/ /\ d.arg.latest = c.arg.latest
                    /\ Current \in d.arg.seen => Current \in c.arg.seen
  BY DEF Advances, Advanced
<1>2. c.lane = "restore" /\ c.live /\ Walking(gate)
  BY DEF GateInv, ActivityInv
<1>3. LatestFor(c) = LatestOf(gateResults)
  BY <1>2 DEF LatestFor
<1>4. /\ LatestOf(gateResults) \in Members(gateResults) \cup {None}
      /\ gateResults # << >> => LatestOf(gateResults) # None
  BY LatestIsMember, NoneIsNoName DEF GateInv, Recorded
<1> DEFINE W == lookups'
<1>5. W = (lookups \ {c}) \cup {d}
  BY <1>1
<1> HIDE DEF W
<1>6. W # {} /\ lookups # {}
  BY <1>5
<1>7. ActivityInv(gate, W)
  BY <1>1, <1>2, <1>5, <1>6 DEF GateInv, ActivityInv
<1>8. OutcomeInv(gate, W, gateResults)
  <2>1. OutcomeInv(gate, lookups, gateResults)
    BY DEF GateInv
  <2>2. d.arg.latest \in Members(gateResults) \cup {None}
    BY <1>1, <1>3, <1>4, <2>1 DEF OutcomeInv
  <2>3. gate.evaluationError = AE /\ Current \in d.arg.seen => d.arg.latest # None
    BY <1>1, <1>3, <1>4, <2>1 DEF OutcomeInv
  <2> QED
    BY <1>5, <1>6, <2>1, <2>2, <2>3 DEF OutcomeInv
<1> QED
  BY <1>7, <1>8 DEF GateInv, W

LEMMA UseGateInv ==
  ASSUME HistoryInv, GateInv(gate, lookups, policies, gateResults), GateNext(completed)
  PROVE  GateInv(gate', lookups', policies', gateResults')
<1>1. CASE submitPolicy(completed)
  BY <1>1, SubmitPolicyInv
<1>2. CASE RetryEvaluation \/ RetryRestore
  BY <1>2, RetryEvaluationInv, RetryRestoreInv
<1>3. CASE EvaluateElsewhere(completed)
  BY <1>3, EvaluateElsewhereInv
<1>4. CASE \E c \in gate.calls : ServeCreate(c) \/ ServeEvaluate(c)
  BY <1>4, ServeCreateInv, ServeEvaluateInv
<1>5. CASE ReceiveGate
  BY <1>5, ReceiveRestoreInv, ReceiveCreateInv, ReceiveEvaluateInv DEF ReceiveGate
<1> QED
  BY <1>1, <1>2, <1>3, <1>4, <1>5 DEF GateNext

(* A panel that has just opened.                                           *)
LEMMA OpenedInv ==
  ASSUME NEW v, v = Restoring(NewGate, TRUE)
  PROVE  /\ GateInv(v, {Call("restore", NewWalk)}, {}, << >>)
         /\ GateInv(NewGate, {}, {}, << >>)
<1> DEFINE g == NewGate
<1>1. /\ IsGate(g) /\ g.policy = None /\ g.result = None /\ g.restoreError = None
      /\ g.evaluationError = None /\ g.pending = None /\ g.flags = {} /\ g.calls = {}
  BY DEF NewGate, IsGate
<1>2. Restoring(g, TRUE) = [g EXCEPT !.restoreError = None, !.flags = g.flags \cup {"restoring"}]
  BY DEF Restoring
<1> HIDE DEF g
<1>3. PICK f : f = g.flags \cup {"restoring"}
  OBVIOUS
<1>4. v = [g EXCEPT !.restoreError = None, !.flags = f] /\ f = {"restoring"}
  BY <1>1, <1>2, <1>3 DEF g
<1>5. Members(<< >>) = {} /\ << >> \in Seq(Policy)
  BY DEF Members
<1>6. Recorded({}, << >>) /\ GateCalls(g.calls, {}, << >>) /\ Settled(g.calls)
  BY <1>1, <1>5 DEF Recorded, GateCalls, AreCalls, OneLive, Settled
<1>7. PICK W : W = {Call("restore", NewWalk)}
  OBVIOUS
<1>8. GateInv(v, W, {}, << >>)
  BY <1>1, <1>4, <1>6, <1>7, NoneIsNoName, RestoringInv
<1>9. GateInv(g, {}, {}, << >>)
  BY <1>1, <1>6, NoneIsNoName DEF GateInv, ActivityInv, OutcomeInv
<1> QED
  BY <1>7, <1>8, <1>9 DEF g

(* ---- The comparison panel. ---------------------------------------------- *)

IsComparison(p) ==
  p = [candidates |-> p.candidates, selected |-> p.selected,
       candidateError |-> p.candidateError, comparisonError |-> p.comparisonError,
       asked |-> p.asked, exists |-> p.exists, missed |-> p.missed, pushed |-> p.pushed,
       flags |-> p.flags, calls |-> p.calls]

(* The experiments that the current one can be compared with.              *)
Others == Listed \ {Current}

(* The server keeps one comparison for each baseline.                      *)
Compared(cs, X) ==
  cs \in Seq(X) /\ \A i, j \in DOMAIN cs : cs[i] = cs[j] => i = j

CompareCall(c, X, cs) ==
  /\ c.lane = "compare" /\ c.arg \in X
  /\ c.reply # Waiting =>
       c.arg \in Members(cs) /\ c.reply \in {<<Answered(c.arg)>>, <<AlreadyExists>>}

CompareCalls(calls, X, cs) == AreCalls(calls) /\ \A c \in calls : CompareCall(c, X, cs)

(* The panel will take the answer to the call.                             *)
Answering(c) == c.live \/ c.reply # Waiting
Unsettled(p) == p.pushed = None /\ p.comparisonError = None /\ "comparing" \in p.flags

(* One submission is under way at a time: its call, or the lookup that     *)
(* recovers it.                                                            *)
SubmissionInv(p, W) ==
  /\ \A c, d \in p.calls : Answering(c) /\ Answering(d) => c = d
  /\ \A c \in p.calls : Answering(c) =>
       /\ Unsettled(p) /\ c.arg = p.asked /\ ~p.exists
       /\ \A d \in W : d.lane # "recover"
  /\ \A c \in W : c.lane = "recover" => c.live /\ Unsettled(p)
  /\ "recovering" \in p.flags => \E c \in W : c.lane = "recover"
  /\ "comparing" \in p.flags =>
       \/ \E c \in p.calls : Answering(c)
       \/ \E c \in W : c.lane = "recover"

LoadingInv(p, W) ==
  /\ \A c \in W : c.lane \in {"candidates", "recover"}
  /\ p.flags \cap {"loadingCandidates", "refreshingCandidates"} # {} =>
       \E c \in W : c.lane = "candidates" /\ c.live

(* What is shown is stored; a comparison that exists is missed only where   *)
(* the last page grew, or once another is the latest, never the first      *)
(* again.                                                                  *)
RecoveryInv(p, W, cs) ==
  /\ p.pushed # None => p.pushed = p.asked /\ p.asked \in Members(cs)
  /\ p.exists => p.asked \in Members(cs)
  /\ p.exists /\ p.comparisonError = RecoveryUnavailable =>
       LatestOf(cs) # p.asked \/ p.missed
  /\ \A c \in W : c.lane = "recover" =>
       /\ c.arg.latest \in Members(cs) \cup {None}
       /\ p.exists /\ Current \in c.arg.seen =>
            c.arg.latest # None /\ (c.arg.latest = p.asked \/ LatestOf(cs) # p.asked)

PanelFields(p, X) ==
  /\ IsComparison(p) /\ p.candidates \subseteq X /\ p.selected \in p.candidates \cup {None}
  /\ p.flags \subseteq ComparisonFlag

ComparisonInv(p, W, cs, X, done) ==
  /\ PanelFields(p, X) /\ Compared(cs, X) /\ CompareCalls(p.calls, X, cs)
  /\ SubmissionInv(p, W) /\ LoadingInv(p, W) /\ RecoveryInv(p, W, cs)
  /\ ~done => p = NewComparison /\ W = {}
-----------------------------------------------------------------------------
LEMMA RUFacts ==
  /\ RecoveryUnavailable.code = "BASELINE_COMPARISON_RECOVERY_UNAVAILABLE"
  /\ RecoveryUnavailable # None
BY NoneAssumption DEF RecoveryUnavailable, Error

LEMMA LostAreNotRU == \A o \in Lost : o # RecoveryUnavailable
BY LostCalls, RUFacts

(* One more comparison: of another baseline than all before.               *)
LEMMA MoreCompared ==
  ASSUME NEW cs, NEW X, Compared(cs, X), NEW x \in X, x \notin Members(cs),
         NEW q, q = Append(cs, x)
  PROVE  Compared(q, X) /\ Members(q) = Members(cs) \cup {x} /\ LatestOf(q) = x
<1>1. cs \in Seq(X)
  BY DEF Compared
<1>2. q \in Seq(X) /\ Members(q) = Members(cs) \cup {x} /\ LatestOf(q) = x
  BY <1>1, Appended
<1>3. /\ Len(cs) \in Nat /\ DOMAIN cs = 1..Len(cs) /\ DOMAIN q = 1..Len(cs) + 1
      /\ q[Len(cs) + 1] = x /\ \A i \in DOMAIN cs : q[i] = cs[i] /\ cs[i] # x
  BY <1>1 DEF Members
<1>4. ASSUME NEW i \in DOMAIN q, NEW j \in DOMAIN q, q[i] = q[j] PROVE i = j
  <2>1. /\ i \in DOMAIN cs \/ i = Len(cs) + 1
        /\ j \in DOMAIN cs \/ j = Len(cs) + 1
    BY <1>3
  <2> QED
    BY <1>3, <1>4, <2>1 DEF Compared
<1> QED
  BY <1>2, <1>4 DEF Compared

(* The server stores more: what the panel relies on stays true.            *)
LEMMA MoreRecovered ==
  ASSUME NEW p, NEW W, NEW cs, NEW x, NEW q, RecoveryInv(p, W, cs), x \notin Members(cs),
         Members(q) = Members(cs) \cup {x}, LatestOf(q) = x
  PROVE  RecoveryInv(p, W, q)
BY DEF RecoveryInv

LEMMA MoreCompareCalls ==
  ASSUME NEW calls, NEW X, NEW Y, NEW cs, NEW q, CompareCalls(calls, X, cs),
         X \subseteq Y, Members(cs) \subseteq Members(q)
  PROVE  CompareCalls(calls, Y, q)
BY DEF CompareCalls, CompareCall

LEMMA CompareElsewhereInv ==
  ASSUME ComparisonInv(comparison, lookups, comparisons, Others, completed),
         CompareElsewhere(completed)
  PROVE  ComparisonInv(comparison', lookups', comparisons', Others, completed)
<1>1. PICK x \in Listed \ (Baselines \cup {Current}) : comparisons' = Append(comparisons, x)
  BY DEF CompareElsewhere
<1>2. completed /\ comparison' = comparison /\ lookups' = lookups
  BY DEF CompareElsewhere
<1>3. x \in Others /\ x \notin Members(comparisons)
  BY DEF Others, Baselines, Members
<1> DEFINE q == Append(comparisons, x)
<1>4. Compared(q, Others) /\ Members(q) = Members(comparisons) \cup {x} /\ LatestOf(q) = x
  BY <1>3, MoreCompared DEF ComparisonInv
<1> HIDE DEF q
<1>5. RecoveryInv(comparison, lookups, q)
  BY <1>3, <1>4, MoreRecovered DEF ComparisonInv
<1>6. CompareCalls(comparison.calls, Others, q)
  BY <1>4, MoreCompareCalls DEF ComparisonInv
<1>7. ComparisonInv(comparison, lookups, q, Others, completed)
  BY <1>2, <1>4, <1>5, <1>6 DEF ComparisonInv
<1> QED
  BY <1>1, <1>2, <1>7 DEF q

LEMMA SelectBaselineInv ==
  ASSUME ComparisonInv(comparison, lookups, comparisons, Others, completed), SelectBaseline
  PROVE  ComparisonInv(comparison', lookups', comparisons', Others, completed)
<1>1. PICK x \in comparison.candidates \ {comparison.selected} :
        comparison' = [comparison EXCEPT !.selected = x, !.comparisonError = None]
  BY DEF SelectBaseline
<1>2. ~ComparisonBusy /\ comparisons' = comparisons /\ lookups' = lookups
  BY DEF SelectBaseline
<1>3. PICK p : p = comparison
  OBVIOUS
<1>4. PICK v : v = [p EXCEPT !.selected = x, !.comparisonError = None]
  OBVIOUS
<1>5. IsComparison(p)
  BY <1>3 DEF ComparisonInv, PanelFields
<1>6. v = [candidates |-> p.candidates, selected |-> x,
           candidateError |-> p.candidateError, comparisonError |-> None,
           asked |-> p.asked, exists |-> p.exists, missed |-> p.missed,
           pushed |-> p.pushed, flags |-> p.flags, calls |-> p.calls]
  BY <1>4, <1>5 DEF IsComparison
<1>7. /\ IsComparison(v) /\ v.candidates = p.candidates /\ v.selected = x
      /\ v.comparisonError = None /\ v.asked = p.asked /\ v.exists = p.exists
      /\ v.missed = p.missed /\ v.pushed = p.pushed /\ v.flags = p.flags /\ v.calls = p.calls
  BY <1>6 DEF IsComparison
<1>8. /\ PanelFields(p, Others) /\ CompareCalls(p.calls, Others, comparisons)
      /\ Compared(comparisons, Others)
      /\ SubmissionInv(p, lookups) /\ LoadingInv(p, lookups)
      /\ RecoveryInv(p, lookups, comparisons)
  BY <1>3 DEF ComparisonInv
<1>9. completed
  <2>1. NewComparison.candidates = {}
    BY DEF NewComparison
  <2> QED
    BY <1>1, <2>1 DEF ComparisonInv
<1>10. PanelFields(v, Others)
  BY <1>1, <1>3, <1>7, <1>8 DEF PanelFields
<1>11. SubmissionInv(v, lookups) /\ LoadingInv(v, lookups)
  BY <1>7, <1>8 DEF SubmissionInv, LoadingInv, Unsettled
<1>12. RecoveryInv(v, lookups, comparisons)
  BY <1>7, <1>8, RUFacts DEF RecoveryInv
<1>13. ComparisonInv(v, lookups, comparisons, Others, completed)
  BY <1>7, <1>8, <1>9, <1>10, <1>11, <1>12 DEF ComparisonInv
<1> QED
  BY <1>1, <1>2, <1>3, <1>4, <1>13

(* Both are about what the panel shows of a submission and about the walks  *)
(* that recover one, and about nothing else.                               *)
SameSubmission(p, v) ==
  /\ v.calls = p.calls /\ v.asked = p.asked /\ v.exists = p.exists /\ v.missed = p.missed
  /\ v.pushed = p.pushed /\ v.comparisonError = p.comparisonError
  /\ \A f \in {"comparing", "recovering"} : f \in v.flags <=> f \in p.flags

LEMMA SameSubmissionInv ==
  ASSUME NEW p, NEW W, NEW cs, SubmissionInv(p, W), RecoveryInv(p, W, cs),
         NEW v, SameSubmission(p, v),
         NEW V, \A d \in V : d.lane = "recover" => d \in W,
         \A d \in W : d.lane = "recover" => d \in V
  PROVE  SubmissionInv(v, V) /\ RecoveryInv(v, V, cs)
<1>1. \A f : f \in {"comparing", "recovering"} => (f \in v.flags <=> f \in p.flags)
  BY DEF SameSubmission
<1>2. "comparing" \in v.flags <=> "comparing" \in p.flags
  BY <1>1
<1>3. "recovering" \in v.flags <=> "recovering" \in p.flags
  BY <1>1
<1>4. Unsettled(v) <=> Unsettled(p)
  BY <1>2 DEF Unsettled, SameSubmission
<1>5. SubmissionInv(v, V)
  BY <1>2, <1>3, <1>4 DEF SubmissionInv, SameSubmission
<1>6. RecoveryInv(v, V, cs)
  BY DEF RecoveryInv, SameSubmission
<1> QED
  BY <1>5, <1>6

LEMMA SubmitComparisonInv ==
  ASSUME ComparisonInv(comparison, lookups, comparisons, Others, completed),
         submitComparison(completed)
  PROVE  ComparisonInv(comparison', lookups', comparisons', Others, completed)
<1>1. PICK p : p = comparison
  OBVIOUS
<1>2. PICK k : k = Sent(p.calls, "compare", p.selected)
  OBVIOUS
<1>3. PICK f : f = p.flags \cup {"comparing"}
  OBVIOUS
<1>4. PICK v : v = [p EXCEPT !.comparisonError = None, !.asked = p.selected,
                             !.exists = FALSE, !.pushed = None, !.flags = f, !.calls = k]
  OBVIOUS
<1>5. /\ completed /\ p.selected # None /\ ~ComparisonBusy
      /\ comparison' = v /\ comparisons' = comparisons /\ lookups' = lookups
  BY <1>1, <1>2, <1>3, <1>4 DEF submitComparison
<1>6. /\ PanelFields(p, Others) /\ CompareCalls(p.calls, Others, comparisons)
      /\ Compared(comparisons, Others)
      /\ SubmissionInv(p, lookups) /\ LoadingInv(p, lookups)
      /\ RecoveryInv(p, lookups, comparisons)
  BY <1>1 DEF ComparisonInv
<1>7. v = [candidates |-> p.candidates, selected |-> p.selected,
           candidateError |-> p.candidateError, comparisonError |-> None,
           asked |-> p.selected, exists |-> FALSE, missed |-> p.missed,
           pushed |-> None, flags |-> f, calls |-> k]
  BY <1>4, <1>6 DEF PanelFields, IsComparison
<1>8. /\ IsComparison(v) /\ v.candidates = p.candidates /\ v.selected = p.selected
      /\ v.comparisonError = None /\ v.asked = p.selected /\ ~v.exists
      /\ v.pushed = None /\ v.flags = f /\ v.calls = k
  BY <1>7 DEF IsComparison
<1>9. /\ "comparing" \notin p.flags /\ "recovering" \notin p.flags
      /\ p.flags \subseteq ComparisonFlag
  BY <1>1, <1>5, <1>6 DEF ComparisonBusy, PanelFields
<1>10. (\A c \in p.calls : ~Answering(c)) /\ \A c \in lookups : c.lane # "recover"
  BY <1>6, <1>9 DEF SubmissionInv, Unsettled
<1>11. p.selected \in Others
  BY <1>5, <1>6 DEF PanelFields
<1>12. PICK new : new = Call("compare", p.selected)
  OBVIOUS
<1>13. new.lane = "compare" /\ new.arg = p.selected /\ new.reply = Waiting /\ new.live
  BY <1>12, CallFields
<1>14. AreCalls(p.calls) /\ Settled(p.calls)
  BY <1>6, <1>10 DEF CompareCalls, Settled, Answering
<1>15. /\ AreCalls(k) /\ new \in k
       /\ \A d \in k : \/ d = new
                      \/ /\ ~d.live
                         /\ \E c \in p.calls : d.lane = c.lane /\ d.arg = c.arg /\ d.reply = c.reply
  BY <1>2, <1>12, <1>14, SentAtRest
<1>16. \A d \in k : Answering(d) => d = new
  BY <1>10, <1>15 DEF Answering
<1>17. CompareCalls(k, Others, comparisons)
  BY <1>6, <1>11, <1>13, <1>15 DEF CompareCalls, CompareCall
<1>18. SubmissionInv(v, lookups)
  <2>1. Unsettled(v) /\ "comparing" \in v.flags /\ "recovering" \notin v.flags
    BY <1>3, <1>8, <1>9 DEF Unsettled
  <2>2. Answering(new)
    BY <1>13 DEF Answering
  <2> QED
    BY <1>8, <1>10, <1>13, <1>15, <1>16, <2>1, <2>2 DEF SubmissionInv
<1>19. LoadingInv(v, lookups)
  <2>1. v.flags \cap {"loadingCandidates", "refreshingCandidates"}
          = p.flags \cap {"loadingCandidates", "refreshingCandidates"}
    BY <1>3, <1>8
  <2> QED
    BY <1>6, <2>1 DEF LoadingInv
<1>20. RecoveryInv(v, lookups, comparisons)
  BY <1>8, <1>10, RUFacts DEF RecoveryInv
<1>21. PanelFields(v, Others)
  BY <1>3, <1>6, <1>8, <1>9 DEF PanelFields, ComparisonFlag
<1>22. ComparisonInv(v, lookups, comparisons, Others, completed)
  BY <1>5, <1>6, <1>8, <1>17, <1>18, <1>19, <1>20, <1>21 DEF ComparisonInv
<1> QED
  BY <1>5, <1>22

(* The candidates are read, again or for the first time: any walk that     *)
(* recovers goes on.                                                       *)
LEMMA LoadingStarted ==
  ASSUME NEW W, WalksInv(W), NEW V, V = Sent(W, "candidates", NewWalk)
  PROVE  /\ \A d \in V : d.lane = "recover" => d \in W
         /\ \A d \in W : d.lane = "recover" => d \in V
         /\ \E d \in V : d.lane = "candidates" /\ d.live
         /\ (\A d \in W : d.lane \in {"candidates", "recover"}) =>
              \A d \in V : d.lane \in {"candidates", "recover"}
<1>1. PICK new : new = Call("candidates", NewWalk)
  OBVIOUS
<1>2. new.lane = "candidates" /\ new.live
  BY <1>1, CallFields
<1>3. AreCalls(W)
  BY WalksAreCalls
<1>4. /\ new \in V
      /\ \A d \in V : \/ d = new
                     \/ /\ \E c \in W : d.lane = c.lane /\ d.arg = c.arg /\ d.reply = c.reply
                        /\ d.lane = "candidates" => ~d.live
                        /\ d.lane # "candidates" => d \in W
      /\ \A c \in W : c.lane # "candidates" => c \in V
  BY <1>1, <1>3, SentCalls
<1> QED
  BY <1>2, <1>4

LEMMA RefreshCandidatesInv ==
  ASSUME HistoryInv, ComparisonInv(comparison, lookups, comparisons, Others, completed),
         RefreshCandidates(completed)
  PROVE  ComparisonInv(comparison', lookups', comparisons', Others, completed)
<1>1. PICK p : p = comparison
  OBVIOUS
<1>2. PICK f : f = p.flags \cup {IF p.candidates # {} THEN "refreshingCandidates"
                                 ELSE "loadingCandidates"}
  OBVIOUS
<1>3. PICK v : v = [p EXCEPT !.candidateError = None, !.flags = f]
  OBVIOUS
<1>4. PICK V : V = Sent(lookups, "candidates", NewWalk)
  OBVIOUS
<1>5. completed /\ comparison' = v /\ comparisons' = comparisons /\ lookups' = V
  BY <1>1, <1>2, <1>3, <1>4 DEF RefreshCandidates, loadCandidates, StartWalk
<1>6. /\ PanelFields(p, Others) /\ CompareCalls(p.calls, Others, comparisons)
      /\ Compared(comparisons, Others)
      /\ SubmissionInv(p, lookups) /\ LoadingInv(p, lookups)
      /\ RecoveryInv(p, lookups, comparisons)
  BY <1>1 DEF ComparisonInv
<1>7. v = [candidates |-> p.candidates, selected |-> p.selected,
           candidateError |-> None, comparisonError |-> p.comparisonError,
           asked |-> p.asked, exists |-> p.exists, missed |-> p.missed,
           pushed |-> p.pushed, flags |-> f, calls |-> p.calls]
  BY <1>3, <1>6 DEF PanelFields, IsComparison
<1>8. /\ IsComparison(v) /\ v.candidates = p.candidates /\ v.selected = p.selected
      /\ v.comparisonError = p.comparisonError /\ v.asked = p.asked /\ v.exists = p.exists
      /\ v.missed = p.missed /\ v.pushed = p.pushed /\ v.flags = f /\ v.calls = p.calls
  BY <1>7 DEF IsComparison
<1>9. SameSubmission(p, v)
  BY <1>2, <1>8 DEF SameSubmission
<1>10. /\ \A d \in V : d.lane = "recover" => d \in lookups
       /\ \A d \in lookups : d.lane = "recover" => d \in V
       /\ \E d \in V : d.lane = "candidates" /\ d.live
       /\ \A d \in V : d.lane \in {"candidates", "recover"}
  BY <1>4, <1>6, LoadingStarted DEF HistoryInv, LoadingInv
<1>11. SubmissionInv(v, V) /\ RecoveryInv(v, V, comparisons)
  BY <1>6, <1>9, <1>10, SameSubmissionInv
<1>12. LoadingInv(v, V)
  BY <1>10 DEF LoadingInv
<1>13. PanelFields(v, Others)
  BY <1>2, <1>6, <1>8 DEF PanelFields, ComparisonFlag
<1>14. ComparisonInv(v, V, comparisons, Others, completed)
  BY <1>5, <1>6, <1>8, <1>11, <1>12, <1>13 DEF ComparisonInv
<1> QED
  BY <1>5, <1>14

(* The submissions that are aborted: the one that has been answered still  *)
(* has its answer.                                                         *)
LEMMA CompareAborted ==
  ASSUME NEW calls, NEW X, NEW cs, CompareCalls(calls, X, cs),
         NEW k, k = Aborted(calls, {"compare"})
  PROVE  /\ CompareCalls(k, X, cs)
         /\ \A d \in k : ~d.live
         /\ \A d \in k : Answering(d) =>
              \E c \in calls : c.reply # Waiting /\ d.arg = c.arg
         /\ (\E c \in calls : c.reply # Waiting) => \E d \in k : Answering(d)
         /\ (\A c, d \in calls : Answering(c) /\ Answering(d) => c = d) =>
              \A c, d \in k : Answering(c) /\ Answering(d) => c = d
<1>1. AreCalls(calls) /\ \A c \in calls : CompareCall(c, X, cs)
  BY DEF CompareCalls
<1>2. \A d \in k :
        /\ IsCall(d)
        /\ \E c \in calls : d.lane = c.lane /\ d.arg = c.arg /\ d.reply = c.reply
        /\ d.lane = "compare" => ~d.live
  BY <1>1, AbortedCalls
<1>3. \A d \in k : d.lane = "compare" /\ ~d.live /\ CompareCall(d, X, cs)
  BY <1>1, <1>2 DEF CompareCall
<1>4. ASSUME NEW c \in calls, c.reply # Waiting PROVE \E d \in k : Answering(d)
  <2>1. PICK d : d = GivenUp(c, {"compare"})
    OBVIOUS
  <2>2. d.reply = c.reply
    BY <1>1, <2>1, GivenUpFields DEF AreCalls
  <2>3. d \in k
    BY <2>1 DEF Aborted, GivenUp
  <2> QED
    BY <1>4, <2>2, <2>3 DEF Answering
<1>5. ASSUME \A c, d \in calls : Answering(c) /\ Answering(d) => c = d,
             NEW d \in k, NEW e \in k, Answering(d), Answering(e)
      PROVE  d = e
  <2>1. d.reply # Waiting /\ e.reply # Waiting
    BY <1>3, <1>5 DEF Answering
  <2>2. PICK c \in calls : d.lane = c.lane /\ d.arg = c.arg /\ d.reply = c.reply
    BY <1>2
  <2>3. PICK b \in calls : e.lane = b.lane /\ e.arg = b.arg /\ e.reply = b.reply
    BY <1>2
  <2>4. b = c
    BY <1>5, <2>1, <2>2, <2>3 DEF Answering
  <2>5. d.live = FALSE /\ e.live = FALSE /\ IsCall(d) /\ IsCall(e)
    BY <1>2, <1>3 DEF IsCall
  <2>6. /\ d = [lane |-> d.lane, arg |-> d.arg, reply |-> d.reply, live |-> d.live]
        /\ e = [lane |-> e.lane, arg |-> e.arg, reply |-> e.reply, live |-> e.live]
    BY <2>5 DEF IsCall
  <2>7. d.lane = e.lane /\ d.arg = e.arg /\ d.reply = e.reply /\ d.live = e.live
    BY <2>2, <2>3, <2>4, <2>5
  <2> HIDE <2>2, <2>3
  <2> QED
    BY <2>6, <2>7
<1> QED
  BY <1>1, <1>2, <1>3, <1>4, <1>5 DEF CompareCalls, AreCalls, Answering

(* The page holds a new experiment: what was under way is dropped, except  *)
(* a submission that has been answered.                                    *)
LEMMA DroppedInv ==
  ASSUME NEW p, NEW W, NEW cs, NEW X, CompareCalls(p.calls, X, cs),
         SubmissionInv(p, W), RecoveryInv(p, W, cs),
         NEW k, k = Aborted(p.calls, {"compare"}), NEW f,
         f = p.flags \ IF \E c \in p.calls : c.reply # Waiting THEN {}
                       ELSE {"comparing", "recovering"},
         NEW v, v.calls = k, v.asked = p.asked, v.exists = p.exists, v.missed = p.missed,
         v.pushed = p.pushed, v.comparisonError = p.comparisonError,
         "comparing" \in v.flags <=> "comparing" \in f,
         "recovering" \in v.flags <=> "recovering" \in f,
         NEW V, \A d \in V : d.lane = "candidates"
  PROVE  CompareCalls(k, X, cs) /\ SubmissionInv(v, V) /\ RecoveryInv(v, V, cs)
<1>1. /\ CompareCalls(k, X, cs)
      /\ \A d \in k : Answering(d) =>
           \E c \in p.calls : c.reply # Waiting /\ d.arg = c.arg
      /\ (\E c \in p.calls : c.reply # Waiting) => \E d \in k : Answering(d)
      /\ \A c, d \in k : Answering(c) /\ Answering(d) => c = d
  BY CompareAborted DEF SubmissionInv
<1>2. ASSUME NEW c \in p.calls, c.reply # Waiting
      PROVE  /\ Unsettled(v) /\ c.arg = v.asked /\ ~v.exists
             /\ "recovering" \notin v.flags
  <2>1. Answering(c)
    BY <1>2 DEF Answering
  <2>2. /\ Unsettled(p) /\ c.arg = p.asked /\ ~p.exists
        /\ \A d \in W : d.lane # "recover"
    BY <2>1 DEF SubmissionInv
  <2>3. "recovering" \notin p.flags
    BY <2>2 DEF SubmissionInv
  <2>4. f = p.flags
    BY <1>2
  <2> QED
    BY <2>2, <2>3, <2>4 DEF Unsettled
<1>3. ASSUME \A c \in p.calls : ~(c.reply # Waiting)
      PROVE  "comparing" \notin v.flags /\ "recovering" \notin v.flags
  BY <1>3
<1>4. SubmissionInv(v, V)
  BY <1>1, <1>2, <1>3 DEF SubmissionInv
<1>5. RecoveryInv(v, V, cs)
  BY DEF RecoveryInv
<1> QED
  BY <1>1, <1>4, <1>5

LEMMA ExperimentChangedInv ==
  ASSUME HistoryInv, ComparisonInv(comparison, lookups, comparisons, Others, completed),
         completed' \in {completed, TRUE}, ExperimentChanged(completed')
  PROVE  ComparisonInv(comparison', lookups', comparisons', Others, completed')
<1>1. PICK p : p = comparison
  OBVIOUS
<1>2. PICK k : k = Aborted(p.calls, {"compare"})
  OBVIOUS
<1>3. PICK f : f = p.flags \ IF \E c \in p.calls : c.reply # Waiting THEN {}
                             ELSE {"comparing", "recovering"}
  OBVIOUS
<1>4. PICK q : q = [p EXCEPT !.calls = k, !.flags = f]
  OBVIOUS
<1>5. PICK B : B = {c \in lookups : c.lane = "candidates" /\ c.reply # Waiting}
  OBVIOUS
<1>6. PICK A : A = Aborted(B, {"candidates"})
  OBVIOUS
<1>7. /\ IF completed'
         THEN /\ comparison' = [q EXCEPT !.candidateError = None,
                                         !.flags = @ \cup {"loadingCandidates"}]
              /\ lookups' = Sent(A, "candidates", NewWalk)
         ELSE comparison' = [q EXCEPT !.candidates = {}] /\ lookups' = A
      /\ comparisons' = comparisons
  BY <1>1, <1>2, <1>3, <1>4, <1>5, <1>6 DEF ExperimentChanged
<1>8. /\ PanelFields(p, Others) /\ CompareCalls(p.calls, Others, comparisons)
      /\ Compared(comparisons, Others)
      /\ SubmissionInv(p, lookups) /\ LoadingInv(p, lookups)
      /\ RecoveryInv(p, lookups, comparisons)
  BY <1>1 DEF ComparisonInv
<1>9. q = [candidates |-> p.candidates, selected |-> p.selected,
           candidateError |-> p.candidateError, comparisonError |-> p.comparisonError,
           asked |-> p.asked, exists |-> p.exists, missed |-> p.missed,
           pushed |-> p.pushed, flags |-> f, calls |-> k]
  BY <1>4, <1>8 DEF PanelFields, IsComparison
<1>10. WalksInv(A) /\ \A d \in A : d.lane = "candidates"
  <2>1. WalksInv(lookups)
    BY DEF HistoryInv
  <2>2. WalksInv(B)
    BY <1>5, <2>1 DEF WalksInv, OneLive
  <2>3. \A d \in A : \E c \in B : d.lane = c.lane
    BY <1>6, <2>2, WalksAreCalls, AbortedCalls
  <2> QED
    BY <1>5, <1>6, <2>2, <2>3, AbortedInv
<1>11. CASE completed'
  <2>1. PICK g : g = q.flags \cup {"loadingCandidates"}
    OBVIOUS
  <2>2. PICK v : v = [q EXCEPT !.candidateError = None, !.flags = g]
    OBVIOUS
  <2>3. PICK V : V = Sent(A, "candidates", NewWalk)
    OBVIOUS
  <2>4. comparison' = v /\ lookups' = V
    BY <1>7, <1>11, <2>1, <2>2, <2>3
  <2>5. v = [candidates |-> p.candidates, selected |-> p.selected,
             candidateError |-> None, comparisonError |-> p.comparisonError,
             asked |-> p.asked, exists |-> p.exists, missed |-> p.missed,
             pushed |-> p.pushed, flags |-> g, calls |-> k]
    BY <1>9, <2>2
  <2>6. /\ IsComparison(v) /\ v.candidates = p.candidates /\ v.selected = p.selected
        /\ v.comparisonError = p.comparisonError /\ v.asked = p.asked /\ v.exists = p.exists
        /\ v.missed = p.missed /\ v.pushed = p.pushed /\ v.flags = g /\ v.calls = k
    BY <2>5 DEF IsComparison
  <2>7. g = f \cup {"loadingCandidates"}
    BY <1>9, <2>1
  <2>8. (\E d \in V : d.lane = "candidates" /\ d.live) /\ \A d \in V : d.lane = "candidates"
    <3>1. \A d \in A : d.lane \in {"candidates", "recover"}
      BY <1>10
    <3>2. /\ \A d \in V : d.lane = "recover" => d \in A
          /\ \E d \in V : d.lane = "candidates" /\ d.live
          /\ \A d \in V : d.lane \in {"candidates", "recover"}
      BY <1>10, <2>3, <3>1, LoadingStarted
    <3> QED
      BY <1>10, <3>2
  <2>9. /\ CompareCalls(k, Others, comparisons)
        /\ SubmissionInv(v, V) /\ RecoveryInv(v, V, comparisons)
    <3>1. /\ "comparing" \in v.flags <=> "comparing" \in f
          /\ "recovering" \in v.flags <=> "recovering" \in f
      BY <2>6, <2>7
    <3>2. /\ CompareCalls(p.calls, Others, comparisons)
          /\ SubmissionInv(p, lookups) /\ RecoveryInv(p, lookups, comparisons)
          /\ \A d \in V : d.lane = "candidates"
      BY <1>8, <2>8
    <3>3. /\ v.calls = k /\ v.asked = p.asked /\ v.exists = p.exists /\ v.missed = p.missed
          /\ v.pushed = p.pushed /\ v.comparisonError = p.comparisonError
      BY <2>6
    <3> HIDE <1>4, <1>5, <1>6, <1>9, <2>1, <2>2, <2>3, <2>5
    <3> QED
      BY <1>2, <1>3, <3>1, <3>2, <3>3, DroppedInv
  <2>10. LoadingInv(v, V)
    BY <2>8 DEF LoadingInv
  <2>11. PanelFields(v, Others)
    BY <1>3, <1>8, <2>6, <2>7 DEF PanelFields, ComparisonFlag
  <2>12. ComparisonInv(v, V, comparisons, Others, completed')
    BY <1>8, <1>11, <2>6, <2>9, <2>10, <2>11 DEF ComparisonInv
  <2> QED
    BY <1>7, <2>4, <2>12
<1>12. CASE ~completed'
  <2>1. ~completed
    BY <1>12
  <2>2. p = NewComparison /\ lookups = {}
    BY <1>1, <2>1 DEF ComparisonInv
  <2>3. p.calls = {} /\ p.flags = {} /\ p.candidates = {}
    BY <2>2 DEF NewComparison
  <2>4. k = {} /\ f = {}
    BY <1>2, <1>3, <2>3 DEF Aborted
  <2>5. A = {}
    BY <1>5, <1>6, <2>2 DEF Aborted
  <2>6. PICK v : v = [q EXCEPT !.candidates = {}]
    OBVIOUS
  <2>7. v = [candidates |-> p.candidates, selected |-> p.selected,
             candidateError |-> p.candidateError, comparisonError |-> p.comparisonError,
             asked |-> p.asked, exists |-> p.exists, missed |-> p.missed,
             pushed |-> p.pushed, flags |-> p.flags, calls |-> p.calls]
    BY <1>9, <2>3, <2>4, <2>6
  <2>8. v = p
    BY <1>8, <2>7 DEF PanelFields, IsComparison
  <2>9. comparison' = comparison /\ lookups' = lookups
    BY <1>1, <1>7, <1>12, <2>2, <2>5, <2>6, <2>8
  <2> QED
    BY <1>7, <1>12, <2>1, <2>9 DEF ComparisonInv
<1> QED
  BY <1>11, <1>12

(* The calls of a panel, and nothing else of it, are replaced.             *)
LEMMA CallsReplaced ==
  ASSUME NEW p, NEW W, NEW cs, NEW X, PanelFields(p, X), Compared(cs, X),
         LoadingInv(p, W), RecoveryInv(p, W, cs), SubmissionInv(p, W),
         NEW k, CompareCalls(k, X, cs),
         \A c, d \in k : Answering(c) /\ Answering(d) => c = d,
         \A d \in k : Answering(d) => \E c \in p.calls : Answering(c) /\ d.arg = c.arg,
         (\E c \in p.calls : Answering(c)) => \E d \in k : Answering(d),
         NEW v, v = [p EXCEPT !.calls = k]
  PROVE  ComparisonInv(v, W, cs, X, TRUE)
<1>1. v = [candidates |-> p.candidates, selected |-> p.selected,
           candidateError |-> p.candidateError, comparisonError |-> p.comparisonError,
           asked |-> p.asked, exists |-> p.exists, missed |-> p.missed,
           pushed |-> p.pushed, flags |-> p.flags, calls |-> k]
  BY DEF PanelFields, IsComparison
<1>2. /\ IsComparison(v) /\ v.candidates = p.candidates /\ v.selected = p.selected
      /\ v.comparisonError = p.comparisonError /\ v.asked = p.asked /\ v.exists = p.exists
      /\ v.missed = p.missed /\ v.pushed = p.pushed /\ v.flags = p.flags /\ v.calls = k
  BY <1>1 DEF IsComparison
<1>3. Unsettled(v) <=> Unsettled(p)
  BY <1>2 DEF Unsettled
<1>4. SubmissionInv(v, W)
  BY <1>2, <1>3 DEF SubmissionInv
<1>5. RecoveryInv(v, W, cs)
  BY <1>2 DEF RecoveryInv
<1>6. LoadingInv(v, W)
  BY <1>2 DEF LoadingInv
<1>7. PanelFields(v, X)
  BY <1>2 DEF PanelFields
<1> QED
  BY <1>2, <1>4, <1>5, <1>6, <1>7 DEF ComparisonInv

(* There are no submissions before the experiment is completed.            *)
LEMMA OnlyCompleted ==
  ASSUME NEW p, NEW W, NEW cs, NEW X, NEW done, ComparisonInv(p, W, cs, X, done),
         p.calls # {} \/ W # {}
  PROVE  done
<1>1. NewComparison.calls = {}
  BY DEF NewComparison
<1> QED
  BY <1>1 DEF ComparisonInv

(* The server answers a submission, or carries out one that was given up.  *)
LEMMA ServedCompare ==
  ASSUME NEW p, NEW W, NEW cs, NEW X, PanelFields(p, X), Compared(cs, X),
         LoadingInv(p, W), RecoveryInv(p, W, cs), SubmissionInv(p, W),
         CompareCalls(p.calls, X, cs), NEW c \in p.calls, c.reply = Waiting,
         c.arg \in Members(cs), NEW answer \in {Answered(c.arg), AlreadyExists},
         NEW k, k = IF c.live THEN Served(p.calls, c, answer) ELSE Ended(p.calls, c),
         NEW v, v = [p EXCEPT !.calls = k]
  PROVE  ComparisonInv(v, W, cs, X, TRUE)
<1>1. AreCalls(p.calls) /\ \A d \in p.calls : CompareCall(d, X, cs)
  BY DEF CompareCalls
<1>2. CASE c.live
  <2>1. k = Served(p.calls, c, answer)
    BY <1>2
  <2>2. PICK e : e = [c EXCEPT !.reply = <<answer>>]
    OBVIOUS
  <2>3. k = (p.calls \ {c}) \cup {e}
    BY <2>1, <2>2 DEF Served
  <2>4. PICK r : r = <<answer>>
    OBVIOUS
  <2>5. /\ IsCall(e) /\ e.lane = c.lane /\ e.arg = c.arg /\ e.reply = r /\ e.live = c.live
    BY <1>1, <2>2, <2>4, ServedCall DEF AreCalls
  <2>6. r \in {<<Answered(c.arg)>>, <<AlreadyExists>>}
    BY <2>4
  <2>7. CompareCall(e, X, cs)
    BY <1>1, <2>5, <2>6 DEF CompareCall
  <2>8. CompareCalls(k, X, cs)
    BY <1>1, <2>3, <2>5, <2>7 DEF CompareCalls, AreCalls
  <2>9. Answering(c) /\ Answering(e)
    BY <1>2, <2>5 DEF Answering
  <2>10. /\ \A a, d \in k : Answering(a) /\ Answering(d) => a = d
         /\ \A d \in k : Answering(d) => \E a \in p.calls : Answering(a) /\ d.arg = a.arg
         /\ (\E a \in p.calls : Answering(a)) => \E d \in k : Answering(d)
    <3>1. \A a \in p.calls : Answering(a) => a = c
      BY <2>9 DEF SubmissionInv
    <3> QED
      BY <2>3, <2>5, <2>9, <3>1
  <2> QED
    BY <2>8, <2>10, CallsReplaced
<1>3. CASE ~c.live
  <2>1. k = p.calls \ {c}
    BY <1>3 DEF Ended
  <2>2. ~Answering(c)
    BY <1>3 DEF Answering
  <2>3. CompareCalls(k, X, cs)
    BY <1>1, <2>1 DEF CompareCalls, AreCalls
  <2>4. /\ \A a, d \in k : Answering(a) /\ Answering(d) => a = d
        /\ \A d \in k : Answering(d) => \E a \in p.calls : Answering(a) /\ d.arg = a.arg
        /\ (\E a \in p.calls : Answering(a)) => \E d \in k : Answering(d)
    BY <2>1, <2>2 DEF SubmissionInv
  <2> QED
    BY <2>3, <2>4, CallsReplaced
<1> QED
  BY <1>2, <1>3

LEMMA ServeCompareInv ==
  ASSUME ComparisonInv(comparison, lookups, comparisons, Others, completed),
         NEW c \in comparison.calls, ServeCompare(c)
  PROVE  ComparisonInv(comparison', lookups', comparisons', Others, completed)
<1>1. PICK p : p = comparison
  OBVIOUS
<1>2. PICK cs : cs = comparisons
  OBVIOUS
<1>3. PICK q : q = IF c.arg \in Baselines THEN cs ELSE Append(cs, c.arg)
  OBVIOUS
<1>4. PICK answer : answer = IF c.arg \in Baselines THEN AlreadyExists ELSE Answered(c.arg)
  OBVIOUS
<1>5. PICK k : k = IF c.live THEN Served(p.calls, c, answer) ELSE Ended(p.calls, c)
  OBVIOUS
<1>6. PICK v : v = [p EXCEPT !.calls = k]
  OBVIOUS
<1>7. c.reply = Waiting /\ comparisons' = q /\ lookups' = lookups
  BY <1>2, <1>3 DEF ServeCompare
<1>8. comparison' = v
  BY <1>1, <1>4, <1>5, <1>6 DEF ServeCompare
<1>9. completed
  BY OnlyCompleted
<1>10. /\ PanelFields(p, Others) /\ CompareCalls(p.calls, Others, cs)
       /\ Compared(cs, Others) /\ c \in p.calls
       /\ SubmissionInv(p, lookups) /\ LoadingInv(p, lookups)
       /\ RecoveryInv(p, lookups, cs)
  BY <1>1, <1>2 DEF ComparisonInv
<1>11. c.arg \in Others
  BY <1>10 DEF CompareCalls, CompareCall
<1>12. Baselines = Members(cs)
  BY <1>2 DEF Baselines, Members
<1>13. /\ Compared(q, Others) /\ CompareCalls(p.calls, Others, q)
       /\ RecoveryInv(p, lookups, q) /\ c.arg \in Members(q)
  <2>1. CASE c.arg \in Baselines
    BY <1>3, <1>10, <1>12, <2>1
  <2>2. CASE c.arg \notin Baselines
    <3>1. q = Append(cs, c.arg) /\ c.arg \notin Members(cs)
      BY <1>3, <1>12, <2>2
    <3>2. Compared(q, Others) /\ Members(q) = Members(cs) \cup {c.arg} /\ LatestOf(q) = c.arg
      BY <1>10, <1>11, <3>1, MoreCompared
    <3>3. RecoveryInv(p, lookups, q)
      BY <1>10, <3>1, <3>2, MoreRecovered
    <3>4. CompareCalls(p.calls, Others, q)
      BY <1>10, <3>2, MoreCompareCalls
    <3> QED
      BY <3>2, <3>3, <3>4
  <2> QED
    BY <2>1, <2>2
<1>14. answer \in {Answered(c.arg), AlreadyExists}
  BY <1>4
<1>15. ComparisonInv(v, lookups, q, Others, TRUE)
  BY <1>5, <1>6, <1>7, <1>10, <1>13, <1>14, ServedCompare
<1> QED
  BY <1>7, <1>8, <1>9, <1>15 DEF ComparisonInv

(* The candidates that a walk has read, or its error.                      *)
LEMMA LoadedFields ==
  ASSUME NEW p, IsComparison(p), NEW c, NEW o, NEW v, v = CandidatesLoaded(p, c, o),
         p.selected \in p.candidates \cup {None}
  PROVE  /\ IsComparison(v) /\ SameSubmission(p, v)
         /\ v.flags = p.flags \ {"loadingCandidates", "refreshingCandidates"}
         /\ v.candidates \in {p.candidates, Candidates(c)}
         /\ v.selected \in v.candidates \cup {None}
<1>1. PICK f : f = p.flags \ {"loadingCandidates", "refreshingCandidates"}
  OBVIOUS
<1>2. PICK u : u = [p EXCEPT !.flags = f]
  OBVIOUS
<1>3. PICK X : X = Candidates(c)
  OBVIOUS
<1>4. u = [candidates |-> p.candidates, selected |-> p.selected,
           candidateError |-> p.candidateError, comparisonError |-> p.comparisonError,
           asked |-> p.asked, exists |-> p.exists, missed |-> p.missed,
           pushed |-> p.pushed, flags |-> f, calls |-> p.calls]
  BY <1>2 DEF IsComparison
<1>5. PICK s : s = IF u.selected \in X THEN u.selected ELSE None
  OBVIOUS
<1>6. v = IF o.kind = "data" THEN [u EXCEPT !.candidates = X, !.selected = s]
          ELSE [u EXCEPT !.candidateError = o]
  BY <1>1, <1>2, <1>3, <1>5 DEF CandidatesLoaded
<1>7. CASE o.kind = "data"
  <2>1. v = [candidates |-> X, selected |-> s,
             candidateError |-> p.candidateError, comparisonError |-> p.comparisonError,
             asked |-> p.asked, exists |-> p.exists, missed |-> p.missed,
             pushed |-> p.pushed, flags |-> f, calls |-> p.calls]
    BY <1>4, <1>6, <1>7
  <2>2. /\ IsComparison(v) /\ v.candidates = X /\ v.selected = s
        /\ v.comparisonError = p.comparisonError /\ v.asked = p.asked /\ v.exists = p.exists
        /\ v.missed = p.missed /\ v.pushed = p.pushed /\ v.flags = f /\ v.calls = p.calls
    BY <2>1 DEF IsComparison
  <2>3. SameSubmission(p, v)
    BY <1>1, <2>2 DEF SameSubmission
  <2>4. s \in X \cup {None}
    BY <1>5
  <2> QED
    BY <1>1, <1>3, <2>2, <2>3, <2>4
<1>8. CASE o.kind # "data"
  <2>1. v = [candidates |-> p.candidates, selected |-> p.selected,
             candidateError |-> o, comparisonError |-> p.comparisonError,
             asked |-> p.asked, exists |-> p.exists, missed |-> p.missed,
             pushed |-> p.pushed, flags |-> f, calls |-> p.calls]
    BY <1>4, <1>6, <1>8
  <2>2. /\ IsComparison(v) /\ v.candidates = p.candidates /\ v.selected = p.selected
        /\ v.comparisonError = p.comparisonError /\ v.asked = p.asked /\ v.exists = p.exists
        /\ v.missed = p.missed /\ v.pushed = p.pushed /\ v.flags = f /\ v.calls = p.calls
    BY <2>1 DEF IsComparison
  <2>3. SameSubmission(p, v)
    BY <1>1, <2>2 DEF SameSubmission
  <2> QED
    BY <1>1, <2>2, <2>3
<1> QED
  BY <1>7, <1>8

LEMMA ReceiveCandidatesInv ==
  ASSUME HistoryInv, ComparisonInv(comparison, lookups, comparisons, Others, completed),
         NEW c \in lookups, ReceiveCandidates(c)
  PROVE  ComparisonInv(comparison', lookups', comparisons', Others, completed)
<1>1. PICK p : p = comparison
  OBVIOUS
<1>2. PICK V : V = lookups \ {c}
  OBVIOUS
<1>3. /\ c.lane = "candidates" /\ lookups' = V /\ comparisons' = comparisons
      /\ c.live => \E o : comparison' = CandidatesLoaded(p, c, o)
      /\ ~c.live => comparison' = p
  BY <1>1, <1>2 DEF ReceiveCandidates, Ended
<1>4. /\ PanelFields(p, Others) /\ CompareCalls(p.calls, Others, comparisons)
      /\ Compared(comparisons, Others)
      /\ SubmissionInv(p, lookups) /\ LoadingInv(p, lookups)
      /\ RecoveryInv(p, lookups, comparisons)
  BY <1>1 DEF ComparisonInv
<1>5. completed
  BY OnlyCompleted
<1>6. /\ \A d \in V : d.lane = "recover" => d \in lookups
      /\ \A d \in lookups : d.lane = "recover" => d \in V
      /\ \A d \in V : d.lane \in {"candidates", "recover"}
  BY <1>2, <1>3, <1>4 DEF LoadingInv
<1>7. CASE c.live
  <2>1. PICK o : comparison' = CandidatesLoaded(p, c, o)
    BY <1>3, <1>7
  <2>2. PICK v : v = CandidatesLoaded(p, c, o)
    OBVIOUS
  <2>3. /\ IsComparison(v) /\ SameSubmission(p, v)
        /\ v.flags = p.flags \ {"loadingCandidates", "refreshingCandidates"}
        /\ v.candidates \in {p.candidates, Candidates(c)}
        /\ v.selected \in v.candidates \cup {None}
    BY <1>4, <2>2, LoadedFields DEF PanelFields
  <2>4. Candidates(c) \subseteq Others
    BY DEF HistoryInv, WalksInv, WalkInv, PagesInv, Candidates, Others
  <2>5. PanelFields(v, Others)
    BY <1>4, <2>3, <2>4 DEF PanelFields
  <2>6. SubmissionInv(v, V) /\ RecoveryInv(v, V, comparisons)
    BY <1>4, <1>6, <2>3, SameSubmissionInv
  <2>7. LoadingInv(v, V)
    BY <1>6, <2>3 DEF LoadingInv
  <2>8. CompareCalls(v.calls, Others, comparisons)
    BY <1>4, <2>3 DEF SameSubmission
  <2>9. ComparisonInv(v, V, comparisons, Others, completed)
    BY <1>4, <1>5, <2>5, <2>6, <2>7, <2>8 DEF ComparisonInv
  <2> QED
    BY <1>3, <2>1, <2>2, <2>9
<1>8. CASE ~c.live
  <2>1. SubmissionInv(p, V) /\ RecoveryInv(p, V, comparisons)
    <3>1. SameSubmission(p, p)
      BY DEF SameSubmission
    <3> QED
      BY <1>4, <1>6, <3>1, SameSubmissionInv
  <2>2. LoadingInv(p, V)
    BY <1>2, <1>4, <1>6, <1>8 DEF LoadingInv
  <2>3. ComparisonInv(p, V, comparisons, Others, completed)
    BY <1>4, <1>5, <2>1, <2>2 DEF ComparisonInv
  <2> QED
    BY <1>3, <1>8, <2>3
<1> QED
  BY <1>7, <1>8

(* What a lookup leaves of the panel.                                      *)
LEMMA RecoveredFields ==
  ASSUME NEW p, IsComparison(p), NEW c, NEW o, NEW v, v = Recovered(p, c, o)
  PROVE  /\ IsComparison(v) /\ v.candidates = p.candidates /\ v.selected = p.selected
         /\ v.asked = p.asked /\ v.exists = p.exists /\ v.calls = p.calls
         /\ v.flags = p.flags \ {"comparing", "recovering"} /\ v.missed = c.arg.grew
         /\ \/ o.kind # "data" /\ v.comparisonError = o /\ v.pushed = p.pushed
            \/ /\ o.kind = "data" /\ IsTheOneAsked(p, o.value)
               /\ v.comparisonError = p.comparisonError /\ v.pushed = o.value
            \/ /\ o.kind = "data" /\ ~IsTheOneAsked(p, o.value)
               /\ v.comparisonError = RecoveryUnavailable /\ v.pushed = p.pushed
<1>1. PICK f : f = p.flags \ {"comparing", "recovering"}
  OBVIOUS
<1>2. PICK g : g = c.arg.grew
  OBVIOUS
<1>3. PICK u : u = [p EXCEPT !.flags = f, !.missed = g]
  OBVIOUS
<1>4. u = [candidates |-> p.candidates, selected |-> p.selected,
           candidateError |-> p.candidateError, comparisonError |-> p.comparisonError,
           asked |-> p.asked, exists |-> p.exists, missed |-> g,
           pushed |-> p.pushed, flags |-> f, calls |-> p.calls]
  BY <1>3 DEF IsComparison
<1>5. v = CASE o.kind # "data" -> [u EXCEPT !.comparisonError = o]
            [] o.kind = "data" /\ IsTheOneAsked(p, o.value) -> [u EXCEPT !.pushed = o.value]
            [] OTHER -> [u EXCEPT !.comparisonError = RecoveryUnavailable]
  BY <1>1, <1>2, <1>3 DEF Recovered
<1>6. CASE o.kind # "data"
  <2>1. v = [u EXCEPT !.comparisonError = o]
    BY <1>5, <1>6
  <2>2. v = [candidates |-> p.candidates, selected |-> p.selected,
             candidateError |-> p.candidateError, comparisonError |-> o,
             asked |-> p.asked, exists |-> p.exists, missed |-> g,
             pushed |-> p.pushed, flags |-> f, calls |-> p.calls]
    BY <1>4, <2>1
  <2> QED
    BY <1>1, <1>2, <1>6, <2>2 DEF IsComparison
<1>7. CASE o.kind = "data" /\ IsTheOneAsked(p, o.value)
  <2>1. v = [u EXCEPT !.pushed = o.value]
    BY <1>5, <1>7
  <2>2. v = [candidates |-> p.candidates, selected |-> p.selected,
             candidateError |-> p.candidateError, comparisonError |-> p.comparisonError,
             asked |-> p.asked, exists |-> p.exists, missed |-> g,
             pushed |-> o.value, flags |-> f, calls |-> p.calls]
    BY <1>4, <2>1
  <2> QED
    BY <1>1, <1>2, <1>7, <2>2 DEF IsComparison
<1>8. CASE o.kind = "data" /\ ~IsTheOneAsked(p, o.value)
  <2>1. v = [u EXCEPT !.comparisonError = RecoveryUnavailable]
    BY <1>5, <1>8
  <2>2. v = [candidates |-> p.candidates, selected |-> p.selected,
             candidateError |-> p.candidateError, comparisonError |-> RecoveryUnavailable,
             asked |-> p.asked, exists |-> p.exists, missed |-> g,
             pushed |-> p.pushed, flags |-> f, calls |-> p.calls]
    BY <1>4, <2>1
  <2> QED
    BY <1>1, <1>2, <1>8, <2>2 DEF IsComparison
<1> QED
  BY <1>6, <1>7, <1>8

LEMMA ReceiveRecoveryInv ==
  ASSUME HistoryInv, ComparisonInv(comparison, lookups, comparisons, Others, completed),
         NEW c \in lookups, ReceiveRecovery(c)
  PROVE  ComparisonInv(comparison', lookups', comparisons', Others, completed)
<1>1. PICK p : p = comparison
  OBVIOUS
<1>2. PICK V : V = lookups \ {c}
  OBVIOUS
<1>3. PICK o \in WalkOutcomes(c) : comparison' = Recovered(p, c, o)
  BY <1>1 DEF ReceiveRecovery
<1>4. c.lane = "recover" /\ lookups' = V /\ comparisons' = comparisons
  BY <1>2 DEF ReceiveRecovery, Ended
<1>5. PICK v : v = Recovered(p, c, o)
  OBVIOUS
<1>6. /\ PanelFields(p, Others) /\ CompareCalls(p.calls, Others, comparisons)
      /\ Compared(comparisons, Others)
      /\ SubmissionInv(p, lookups) /\ LoadingInv(p, lookups)
      /\ RecoveryInv(p, lookups, comparisons)
  BY <1>1 DEF ComparisonInv
<1>7. completed
  BY OnlyCompleted
<1>8. WalkInv(c) /\ OneLive(lookups)
  BY DEF HistoryInv, WalksInv
<1>9. Unsettled(p) /\ c.live /\ \A d \in p.calls : ~Answering(d)
  BY <1>4, <1>6 DEF SubmissionInv
<1>10. \A d \in V : d.lane = "candidates"
  BY <1>2, <1>4, <1>6, <1>8 DEF SubmissionInv, LoadingInv, OneLive
<1>11. /\ IsComparison(v) /\ v.candidates = p.candidates /\ v.selected = p.selected
       /\ v.asked = p.asked /\ v.exists = p.exists /\ v.calls = p.calls
       /\ v.flags = p.flags \ {"comparing", "recovering"} /\ v.missed = c.arg.grew
       /\ \/ o.kind # "data" /\ v.comparisonError = o /\ v.pushed = p.pushed
          \/ /\ o.kind = "data" /\ IsTheOneAsked(p, o.value)
             /\ v.comparisonError = p.comparisonError /\ v.pushed = o.value
          \/ /\ o.kind = "data" /\ ~IsTheOneAsked(p, o.value)
             /\ v.comparisonError = RecoveryUnavailable /\ v.pushed = p.pushed
  BY <1>5, <1>6, RecoveredFields DEF PanelFields
<1>12. PanelFields(v, Others)
  BY <1>6, <1>11 DEF PanelFields
<1>13. SubmissionInv(v, V)
  BY <1>9, <1>10, <1>11 DEF SubmissionInv
<1>14. LoadingInv(v, V)
  <2>1. v.flags \cap {"loadingCandidates", "refreshingCandidates"}
          = p.flags \cap {"loadingCandidates", "refreshingCandidates"}
    BY <1>11
  <2> QED
    BY <1>2, <1>4, <1>6, <2>1 DEF LoadingInv
<1>15. /\ c.arg.latest \in Members(comparisons) \cup {None}
       /\ p.exists => p.asked \in Members(comparisons)
       /\ p.exists /\ Current \in c.arg.seen =>
            c.arg.latest # None /\ (c.arg.latest = p.asked \/ LatestOf(comparisons) # p.asked)
  BY <1>4, <1>6 DEF RecoveryInv
<1>16. RecoveryInv(v, V, comparisons)
  <2>1. p.pushed = None /\ p.comparisonError = None
    BY <1>9 DEF Unsettled
  <2>2. CASE o \in Lost
    <3>1. o.kind # "data" /\ o # RecoveryUnavailable
      BY <2>2, LostCalls, LostAreNotRU
    <3> QED
      BY <1>10, <1>11, <1>15, <2>1, <3>1 DEF RecoveryInv
  <2>3. CASE c.reply # Waiting /\ o.kind = "data" /\ o.value = c.arg.latest
    <3>1. CASE IsTheOneAsked(p, o.value)
      <4>1. o.value = p.asked /\ o.value \in Members(comparisons)
        BY <1>15, <2>3, <3>1 DEF IsTheOneAsked
      <4> QED
        BY <1>10, <1>11, <1>15, <2>1, <2>3, <3>1, <4>1, RUFacts DEF RecoveryInv
    <3>2. CASE ~IsTheOneAsked(p, o.value)
      <4>1. IsComplete(c.arg)
        BY <1>4, <1>8, <2>3 DEF WalkInv
      <4>2. c.arg.grew \/ Current \in c.arg.seen
        BY <1>8, <4>1 DEF WalkInv, PagesInv, IsComplete
      <4>3. p.exists => LatestOf(comparisons) # p.asked \/ c.arg.grew
        BY <1>15, <2>3, <3>2, <4>2 DEF IsTheOneAsked
      <4> QED
        BY <1>10, <1>11, <1>15, <2>1, <2>3, <3>2, <4>3 DEF RecoveryInv
    <3> QED
      BY <3>1, <3>2
  <2> QED
    BY <1>8, <2>2, <2>3, WalkOutcome
<1>17. ComparisonInv(v, V, comparisons, Others, completed)
  BY <1>6, <1>7, <1>11, <1>12, <1>13, <1>14, <1>16 DEF ComparisonInv
<1> QED
  BY <1>3, <1>4, <1>5, <1>17

(* The answer to a submission ends it, except that of a lost call, which   *)
(* the server may still carry out.                                         *)
LEMMA CompareEnded ==
  ASSUME NEW calls, NEW X, NEW cs, CompareCalls(calls, X, cs),
         NEW c \in calls, \A d \in calls : Answering(d) => d = c,
         NEW k, k = EndedMutation(calls, c)
  PROVE  CompareCalls(k, X, cs) /\ \A d \in k : ~Answering(d)
<1>1. AreCalls(calls) /\ \A d \in calls : CompareCall(d, X, cs)
  BY DEF CompareCalls
<1>2. /\ AreCalls(k)
      /\ \A d \in k : \/ d \in calls /\ d # c
                     \/ /\ ~d.live /\ d.lane = c.lane /\ d.arg = c.arg /\ d.reply = c.reply
                        /\ c.reply = Waiting
  BY <1>1, EndedMutationCalls
<1>3. \A d \in k : CompareCall(d, X, cs)
  BY <1>1, <1>2 DEF CompareCall
<1>4. \A d \in k : ~Answering(d)
  BY <1>2 DEF Answering
<1> QED
  BY <1>2, <1>3, <1>4 DEF CompareCalls

(* The answer is the comparison that was asked for, or that it exists.     *)
LEMMA CompareOutcome ==
  ASSUME NEW c, NEW X, NEW cs, CompareCall(c, X, cs),
         NEW o \in IF c.reply = Waiting THEN Lost ELSE Outcomes(c.reply[1])
  PROVE  /\ o.kind = "data" => o.value = c.arg /\ c.arg \in Members(cs)
         /\ o.code = AlreadyExists.code /\ o.kind # "data" => c.arg \in Members(cs)
<1>0. AlreadyExists.code = "BASELINE_COMPARISON_ALREADY_EXISTS"
  BY DEF AlreadyExists, Refused, Response
<1>1. CASE o \in Lost
  BY <1>0, <1>1, LostCalls
<1>2. CASE o \notin Lost
  <2>1. c.reply # Waiting /\ o = request(c.reply[1])
    BY <1>2 DEF Outcomes
  <2>2. c.arg \in Members(cs)
    BY <2>1 DEF CompareCall
  <2>3. CASE c.reply = <<Answered(c.arg)>>
    <3>1. c.reply[1] = Answered(c.arg)
      BY <2>3
    <3> QED
      BY <2>1, <2>2, <3>1, AnsweredIsData DEF Data
  <2>4. CASE c.reply = <<AlreadyExists>>
    <3>1. c.reply[1] = AlreadyExists
      BY <2>4
    <3> QED
      BY <2>1, <2>2, <3>1, RefusedIsError DEF AlreadyExists
  <2> QED
    BY <2>1, <2>3, <2>4 DEF CompareCall
<1> QED
  BY <1>1, <1>2

(* A submission that ends is settled, unless it is to be recovered.        *)
LEMMA SettledCompare ==
  ASSUME NEW p, NEW W, NEW cs, NEW X, PanelFields(p, X), Compared(cs, X),
         LoadingInv(p, W), RecoveryInv(p, W, cs), Unsettled(p),
         "recovering" \notin p.flags, \A d \in W : d.lane # "recover", ~p.exists,
         NEW k, CompareCalls(k, X, cs), \A d \in k : ~Answering(d),
         NEW v, IsComparison(v), v.candidates = p.candidates, v.selected = p.selected,
         v.asked = p.asked, v.exists = p.exists, v.calls = k,
         v.flags = p.flags \ {"comparing"},
         v.pushed = None \/ (v.pushed = p.asked /\ p.asked \in Members(cs))
  PROVE  ComparisonInv(v, W, cs, X, TRUE)
<1>1. PanelFields(v, X)
  BY DEF PanelFields
<1>2. SubmissionInv(v, W)
  BY DEF SubmissionInv
<1>3. LoadingInv(v, W)
  <2>1. v.flags \cap {"loadingCandidates", "refreshingCandidates"}
          = p.flags \cap {"loadingCandidates", "refreshingCandidates"}
    OBVIOUS
  <2> QED
    BY <2>1 DEF LoadingInv
<1>4. RecoveryInv(v, W, cs)
  BY DEF RecoveryInv
<1> QED
  BY <1>1, <1>2, <1>3, <1>4 DEF ComparisonInv

(* A lookup begins for a submission that went unanswered or exists.        *)
LEMMA RecoveringCompare ==
  ASSUME NEW p, NEW cs, NEW X, PanelFields(p, X), Compared(cs, X),
         AreCalls(lookups), LoadingInv(p, lookups), Unsettled(p),
         \A d \in lookups : d.lane # "recover",
         NEW k, CompareCalls(k, X, cs), \A d \in k : ~Answering(d),
         NEW v, IsComparison(v), v.candidates = p.candidates, v.selected = p.selected,
         v.asked = p.asked, v.exists => p.asked \in Members(cs), v.calls = k,
         v.flags = p.flags \cup {"recovering"},
         v.pushed = p.pushed, v.comparisonError = p.comparisonError,
         NEW V, V = StartWalk("recover")
  PROVE  ComparisonInv(v, V, cs, X, TRUE)
<1>1. PICK new : new = Call("recover", NewWalk)
  OBVIOUS
<1>2. new.lane = "recover" /\ new.live /\ new.arg = NewWalk
  BY <1>1, CallFields
<1>3. /\ new \in V
      /\ \A d \in V : \/ d = new
                     \/ /\ \E c \in lookups : d.lane = c.lane /\ d.arg = c.arg /\ d.reply = c.reply
                        /\ d.lane = "recover" => ~d.live
                        /\ d.lane # "recover" => d \in lookups
      /\ \A c \in lookups : c.lane # "recover" => c \in V
  BY <1>1, SentCalls DEF StartWalk
<1>4. \A d \in V : d = new \/ (d \in lookups /\ d.lane # "recover")
  BY <1>3
<1>5. NewWalk.seen = {} /\ NewWalk.latest = None
  BY DEF NewWalk
<1>6. PanelFields(v, X)
  BY DEF PanelFields, ComparisonFlag
<1>7. SubmissionInv(v, V)
  <2>1. Unsettled(v)
    BY DEF Unsettled
  <2> QED
    BY <1>2, <1>3, <1>4, <2>1 DEF SubmissionInv
<1>8. LoadingInv(v, V)
  <2>1. v.flags \cap {"loadingCandidates", "refreshingCandidates"}
          = p.flags \cap {"loadingCandidates", "refreshingCandidates"}
    OBVIOUS
  <2> QED
    BY <1>2, <1>3, <1>4, <2>1 DEF LoadingInv
<1>9. RecoveryInv(v, V, cs)
  BY <1>2, <1>4, <1>5, RUFacts DEF RecoveryInv, Unsettled
<1> QED
  BY <1>6, <1>7, <1>8, <1>9 DEF ComparisonInv

LEMMA ReceiveCompareInv ==
  ASSUME HistoryInv, ComparisonInv(comparison, lookups, comparisons, Others, completed),
         NEW c \in comparison.calls, ReceiveCompare(c)
  PROVE  ComparisonInv(comparison', lookups', comparisons', Others, completed)
<1>1. PICK p : p = comparison
  OBVIOUS
<1>2. PICK k : k = EndedMutation(p.calls, c)
  OBVIOUS
<1>3. PICK q : q = [p EXCEPT !.calls = k]
  OBVIOUS
<1>4. c.live \/ c.reply # Waiting
  BY DEF ReceiveCompare
<1>5. comparisons' = comparisons
  BY DEF ReceiveCompare
<1>6. PICK o \in IF c.reply = Waiting THEN Lost ELSE Outcomes(c.reply[1]) :
        CASE o.kind = "data" ->
               /\ comparison' = [q EXCEPT !.pushed = o.value, !.flags = @ \ {"comparing"}]
               /\ UNCHANGED lookups
          [] /\ o.kind # "data" /\ ~c.live
             /\ o = networkApiError \/ o.code = AlreadyExists.code ->
               /\ comparison' = [q EXCEPT !.flags = @ \ {"comparing"}]
               /\ UNCHANGED lookups
          [] /\ o.kind # "data" /\ c.live
             /\ o = networkApiError \/ o.code = AlreadyExists.code ->
               /\ comparison' = [q EXCEPT !.exists = o.code = AlreadyExists.code,
                                          !.flags = @ \cup {"recovering"}]
               /\ lookups' = StartWalk("recover")
          [] OTHER ->
               /\ comparison' = [q EXCEPT !.comparisonError = o, !.flags = @ \ {"comparing"}]
               /\ UNCHANGED lookups
  BY <1>1, <1>2, <1>3 DEF ReceiveCompare
<1>7. /\ PanelFields(p, Others) /\ CompareCalls(p.calls, Others, comparisons)
      /\ Compared(comparisons, Others)
      /\ SubmissionInv(p, lookups) /\ LoadingInv(p, lookups)
      /\ RecoveryInv(p, lookups, comparisons)
  BY <1>1 DEF ComparisonInv
<1>8. completed
  BY OnlyCompleted
<1>9. c \in p.calls /\ Answering(c)
  BY <1>1, <1>4 DEF Answering
<1>10. /\ Unsettled(p) /\ c.arg = p.asked /\ ~p.exists
       /\ \A d \in lookups : d.lane # "recover"
       /\ \A d \in p.calls : Answering(d) => d = c
       /\ "recovering" \notin p.flags
  BY <1>7, <1>9 DEF SubmissionInv
<1>11. CompareCalls(k, Others, comparisons) /\ \A d \in k : ~Answering(d)
  BY <1>2, <1>7, <1>9, <1>10, CompareEnded
<1>12. /\ o.kind = "data" => o.value = p.asked /\ p.asked \in Members(comparisons)
       /\ o.code = AlreadyExists.code /\ o.kind # "data" => p.asked \in Members(comparisons)
  <2>1. CompareCall(c, Others, comparisons)
    BY <1>7, <1>9 DEF CompareCalls
  <2> QED
    BY <1>10, <2>1, CompareOutcome
<1>13. q = [candidates |-> p.candidates, selected |-> p.selected,
            candidateError |-> p.candidateError, comparisonError |-> p.comparisonError,
            asked |-> p.asked, exists |-> p.exists, missed |-> p.missed,
            pushed |-> p.pushed, flags |-> p.flags, calls |-> k]
  BY <1>3, <1>7 DEF PanelFields, IsComparison
<1>14. PICK f : f = q.flags \ {"comparing"}
  OBVIOUS
<1>15. PICK g : g = q.flags \cup {"recovering"}
  OBVIOUS
<1>16. f = p.flags \ {"comparing"} /\ g = p.flags \cup {"recovering"}
  BY <1>13, <1>14, <1>15
<1>17. CASE o.kind = "data"
  <2>1. PICK v : v = [q EXCEPT !.pushed = o.value, !.flags = f]
    OBVIOUS
  <2>2. comparison' = v /\ lookups' = lookups
    BY <1>6, <1>14, <1>17, <2>1
  <2>3. v = [candidates |-> p.candidates, selected |-> p.selected,
             candidateError |-> p.candidateError, comparisonError |-> p.comparisonError,
             asked |-> p.asked, exists |-> p.exists, missed |-> p.missed,
             pushed |-> o.value, flags |-> f, calls |-> k]
    BY <1>13, <2>1
  <2>4. /\ IsComparison(v) /\ v.candidates = p.candidates /\ v.selected = p.selected
        /\ v.asked = p.asked /\ v.exists = p.exists /\ v.calls = k
        /\ v.flags = p.flags \ {"comparing"} /\ v.pushed = o.value
    BY <1>16, <2>3 DEF IsComparison
  <2>5. ComparisonInv(v, lookups, comparisons, Others, TRUE)
    BY <1>7, <1>10, <1>11, <1>12, <1>17, <2>4, SettledCompare
  <2> QED
    BY <1>5, <1>8, <2>2, <2>5 DEF ComparisonInv
<1>18. CASE o.kind # "data" /\ ~c.live /\ (o = networkApiError \/ o.code = AlreadyExists.code)
  <2>1. PICK v : v = [q EXCEPT !.flags = f]
    OBVIOUS
  <2>2. comparison' = v /\ lookups' = lookups
    BY <1>6, <1>14, <1>18, <2>1
  <2>3. v = [candidates |-> p.candidates, selected |-> p.selected,
             candidateError |-> p.candidateError, comparisonError |-> p.comparisonError,
             asked |-> p.asked, exists |-> p.exists, missed |-> p.missed,
             pushed |-> p.pushed, flags |-> f, calls |-> k]
    BY <1>13, <2>1
  <2>4. /\ IsComparison(v) /\ v.candidates = p.candidates /\ v.selected = p.selected
        /\ v.asked = p.asked /\ v.exists = p.exists /\ v.calls = k
        /\ v.flags = p.flags \ {"comparing"} /\ v.pushed = None
    BY <1>10, <1>16, <2>3 DEF IsComparison, Unsettled
  <2>5. ComparisonInv(v, lookups, comparisons, Others, TRUE)
    BY <1>7, <1>10, <1>11, <2>4, SettledCompare
  <2> QED
    BY <1>5, <1>8, <2>2, <2>5 DEF ComparisonInv
<1>19. CASE o.kind # "data" /\ c.live /\ (o = networkApiError \/ o.code = AlreadyExists.code)
  <2>1. PICK b : b = (o.code = AlreadyExists.code)
    OBVIOUS
  <2>2. PICK v : v = [q EXCEPT !.exists = b, !.flags = g]
    OBVIOUS
  <2>3. PICK V : V = StartWalk("recover")
    OBVIOUS
  <2>4. comparison' = v /\ lookups' = V
    BY <1>6, <1>15, <1>19, <2>1, <2>2, <2>3
  <2>5. v = [candidates |-> p.candidates, selected |-> p.selected,
             candidateError |-> p.candidateError, comparisonError |-> p.comparisonError,
             asked |-> p.asked, exists |-> b, missed |-> p.missed,
             pushed |-> p.pushed, flags |-> g, calls |-> k]
    BY <1>13, <2>2
  <2>6. /\ IsComparison(v) /\ v.candidates = p.candidates /\ v.selected = p.selected
        /\ v.asked = p.asked /\ v.exists = b /\ v.calls = k
        /\ v.flags = p.flags \cup {"recovering"} /\ v.pushed = p.pushed
        /\ v.comparisonError = p.comparisonError
    BY <1>16, <2>5 DEF IsComparison
  <2>7. v.exists => p.asked \in Members(comparisons)
    BY <1>12, <1>19, <2>1, <2>6
  <2>8. AreCalls(lookups)
    BY WalksAreCalls DEF HistoryInv
  <2>9. ComparisonInv(v, V, comparisons, Others, TRUE)
    BY <1>7, <1>10, <1>11, <2>3, <2>6, <2>7, <2>8, RecoveringCompare
  <2> QED
    BY <1>5, <1>8, <2>4, <2>9 DEF ComparisonInv
<1>20. CASE /\ o.kind # "data"
            /\ ~(o = networkApiError \/ o.code = AlreadyExists.code)
  <2>1. PICK v : v = [q EXCEPT !.comparisonError = o, !.flags = f]
    OBVIOUS
  <2>2. comparison' = v /\ lookups' = lookups
    BY <1>6, <1>14, <1>20, <2>1
  <2>3. v = [candidates |-> p.candidates, selected |-> p.selected,
             candidateError |-> p.candidateError, comparisonError |-> o,
             asked |-> p.asked, exists |-> p.exists, missed |-> p.missed,
             pushed |-> p.pushed, flags |-> f, calls |-> k]
    BY <1>13, <2>1
  <2>4. /\ IsComparison(v) /\ v.candidates = p.candidates /\ v.selected = p.selected
        /\ v.asked = p.asked /\ v.exists = p.exists /\ v.calls = k
        /\ v.flags = p.flags \ {"comparing"} /\ v.pushed = None
    BY <1>10, <1>16, <2>3 DEF IsComparison, Unsettled
  <2>5. ComparisonInv(v, lookups, comparisons, Others, TRUE)
    BY <1>7, <1>10, <1>11, <2>4, SettledCompare
  <2> QED
    BY <1>5, <1>8, <2>2, <2>5 DEF ComparisonInv
<1> QED
  BY <1>17, <1>18, <1>19, <1>20

LEMMA UseComparisonInv ==
  ASSUME HistoryInv, ComparisonInv(comparison, lookups, comparisons, Others, completed),
         ComparisonNext(completed)
  PROVE  ComparisonInv(comparison', lookups', comparisons', Others, completed)
<1>1. CASE SelectBaseline
  BY <1>1, SelectBaselineInv
<1>2. CASE submitComparison(completed)
  BY <1>2, SubmitComparisonInv
<1>3. CASE RefreshCandidates(completed)
  BY <1>3, RefreshCandidatesInv
<1>4. CASE CompareElsewhere(completed)
  BY <1>4, CompareElsewhereInv
<1>5. CASE \E c \in comparison.calls : ServeCompare(c)
  BY <1>5, ServeCompareInv
<1>6. CASE ReceiveComparison
  BY <1>6, ReceiveCandidatesInv, ReceiveRecoveryInv, ReceiveCompareInv DEF ReceiveComparison
<1> QED
  BY <1>1, <1>2, <1>3, <1>4, <1>5, <1>6 DEF ComparisonNext

(* What the server or the list does to a walk that recovers a submission.  *)
LEMMA ComparisonWalkInv ==
  ASSUME HistoryInv, ComparisonInv(comparison, lookups, comparisons, Others, completed),
         NEW c \in lookups, Advances(c, LatestFor(c))
  PROVE  ComparisonInv(comparison, lookups', comparisons, Others, completed)
<1>1. PICK d : /\ lookups' = (lookups \ {c}) \cup {d} /\ d.lane = c.lane /\ d.live = c.live
              /\ \/ d.arg.latest = LatestFor(c)
                 \/ /\ d.arg.latest = c.arg.latest
                    /\ Current \in d.arg.seen => Current \in c.arg.seen
  BY DEF Advances, Advanced
<1>2. PICK p : p = comparison
  OBVIOUS
<1>3. PICK cs : cs = comparisons
  OBVIOUS
<1>4. PICK V : V = (lookups \ {c}) \cup {d}
  OBVIOUS
<1>5. completed
  BY OnlyCompleted
<1>6. /\ PanelFields(p, Others) /\ CompareCalls(p.calls, Others, cs)
      /\ Compared(cs, Others)
      /\ SubmissionInv(p, lookups) /\ LoadingInv(p, lookups)
      /\ RecoveryInv(p, lookups, cs)
  BY <1>2, <1>3 DEF ComparisonInv
<1>7. SubmissionInv(p, V) /\ LoadingInv(p, V)
  BY <1>1, <1>4, <1>6 DEF SubmissionInv, LoadingInv
<1>8. c.lane = "recover" => LatestFor(c) = LatestOf(cs)
  BY <1>3 DEF LatestFor, LatestBaseline, LatestOf
<1>9. /\ LatestOf(cs) \in Members(cs) \cup {None}
      /\ p.exists => LatestOf(cs) # None
  <2>1. /\ Members(cs) \subseteq Others
        /\ cs # << >> => LatestOf(cs) \in Members(cs)
        /\ cs = << >> => LatestOf(cs) = None /\ Members(cs) = {}
    BY <1>6, LatestIsMember DEF Compared
  <2>2. None \notin Others
    BY NoneIsNoName DEF HistoryInv, PlacesInv, Others
  <2> QED
    BY <1>6, <2>1, <2>2 DEF RecoveryInv
<1>10. RecoveryInv(p, V, cs)
  <2>1. ASSUME d.lane = "recover"
        PROVE  /\ d.arg.latest \in Members(cs) \cup {None}
               /\ p.exists /\ Current \in d.arg.seen =>
                    d.arg.latest # None /\ (d.arg.latest = p.asked \/ LatestOf(cs) # p.asked)
    <3>1. c.lane = "recover" /\ LatestFor(c) = LatestOf(cs)
      BY <1>1, <1>8, <2>1
    <3>2. CASE d.arg.latest = LatestFor(c)
      BY <1>9, <3>1, <3>2
    <3>3. CASE d.arg.latest # LatestFor(c)
      <4>1. /\ c.arg.latest \in Members(cs) \cup {None}
            /\ p.exists /\ Current \in c.arg.seen =>
                 c.arg.latest # None /\ (c.arg.latest = p.asked \/ LatestOf(cs) # p.asked)
        BY <1>6, <3>1 DEF RecoveryInv
      <4> QED
        BY <1>1, <3>3, <4>1
    <3> QED
      BY <3>2, <3>3
  <2> QED
    BY <1>4, <1>6, <2>1 DEF RecoveryInv
<1>11. ComparisonInv(p, V, cs, Others, completed)
  BY <1>5, <1>6, <1>7, <1>10 DEF ComparisonInv
<1> QED
  BY <1>1, <1>2, <1>3, <1>4, <1>11

(* More experiments to compare with.                                       *)
LEMMA MoreOthers ==
  ASSUME NEW p, NEW W, NEW cs, NEW X, NEW done, ComparisonInv(p, W, cs, X, done),
         NEW Y, X \subseteq Y
  PROVE  ComparisonInv(p, W, cs, Y, done)
<1>1. Compared(cs, Y)
  BY DEF ComparisonInv, Compared
<1>2. CompareCalls(p.calls, Y, cs)
  BY MoreCompareCalls DEF ComparisonInv
<1>3. PanelFields(p, Y)
  BY DEF ComparisonInv, PanelFields
<1> QED
  BY <1>1, <1>2, <1>3 DEF ComparisonInv

LEMMA ComparisonOpenedInv ==
  ASSUME NEW X, NEW v, v = [NewComparison EXCEPT !.flags = {"loadingCandidates"}]
  PROVE  /\ ComparisonInv(NewComparison, {}, << >>, X, FALSE)
         /\ ComparisonInv(v, {Call("candidates", NewWalk)}, << >>, X, TRUE)
<1>1. PICK p : p = NewComparison
  OBVIOUS
<1>2. /\ IsComparison(p) /\ p.candidates = {} /\ p.selected = None
      /\ p.comparisonError = None /\ ~p.exists /\ p.pushed = None
      /\ p.flags = {} /\ p.calls = {}
  BY <1>1 DEF NewComparison, IsComparison
<1>3. PICK f : f = {"loadingCandidates"}
  OBVIOUS
<1>4. v = [candidates |-> p.candidates, selected |-> p.selected,
           candidateError |-> p.candidateError, comparisonError |-> p.comparisonError,
           asked |-> p.asked, exists |-> p.exists, missed |-> p.missed,
           pushed |-> p.pushed, flags |-> f, calls |-> p.calls]
  BY <1>1, <1>2, <1>3 DEF IsComparison
<1>5. /\ IsComparison(v) /\ v.candidates = {} /\ v.selected = None
      /\ v.comparisonError = None /\ ~v.exists /\ v.pushed = None
      /\ v.flags = f /\ v.calls = {}
  <2>1. /\ v.candidates = p.candidates /\ v.selected = p.selected
        /\ v.candidateError = p.candidateError /\ v.comparisonError = p.comparisonError
        /\ v.asked = p.asked /\ v.exists = p.exists /\ v.missed = p.missed
        /\ v.pushed = p.pushed /\ v.flags = f /\ v.calls = p.calls
    BY <1>4
  <2> QED
    BY <1>2, <1>4, <2>1 DEF IsComparison
<1>6. PICK new : new = Call("candidates", NewWalk)
  OBVIOUS
<1>7. new.lane = "candidates" /\ new.live
  BY <1>6, CallFields
<1>8. PICK cs : cs = << >>
  OBVIOUS
<1>9. Compared(cs, X) /\ \A calls : calls = {} => CompareCalls(calls, X, cs)
  BY <1>8 DEF Compared, CompareCalls, AreCalls
<1>10. ComparisonInv(p, {}, cs, X, FALSE)
  <2>1. SubmissionInv(p, {}) /\ LoadingInv(p, {}) /\ RecoveryInv(p, {}, cs) /\ PanelFields(p, X)
    BY <1>2 DEF SubmissionInv, LoadingInv, RecoveryInv, PanelFields
  <2> QED
    BY <1>1, <1>2, <1>9, <2>1 DEF ComparisonInv
<1>11. ComparisonInv(v, {new}, cs, X, TRUE)
  <2>1. "comparing" \notin v.flags /\ "recovering" \notin v.flags
    BY <1>3, <1>5
  <2>2. SubmissionInv(v, {new}) /\ LoadingInv(v, {new}) /\ RecoveryInv(v, {new}, cs)
    BY <1>5, <1>7, <2>1 DEF SubmissionInv, LoadingInv, RecoveryInv
  <2>3. PanelFields(v, X)
    BY <1>3, <1>5 DEF PanelFields, ComparisonFlag
  <2> QED
    BY <1>5, <1>9, <2>2, <2>3 DEF ComparisonInv
<1> QED
  BY <1>1, <1>6, <1>8, <1>10, <1>11
-----------------------------------------------------------------------------
(* One panel has the walks; the other is at rest.                          *)
PanelInv ==
  \/ /\ panel = "gate" /\ GateInv(gate, lookups, policies, gateResults)
     /\ ComparisonInv(comparison, {}, comparisons, Others, FALSE)
  \/ /\ panel = "comparison" /\ GateInv(gate, {}, policies, gateResults)
     /\ ComparisonInv(comparison, lookups, comparisons, Others, completed)

IInv == HistoryInv /\ PanelInv

LEMMA PanelInit == Init => PanelInv
<1> SUFFICES ASSUME Init PROVE PanelInv
  OBVIOUS
<1>1. policies = {} /\ gateResults = << >> /\ comparisons = << >>
  BY DEF Init
<1>2. /\ GateInv(Restoring(NewGate, TRUE), {Call("restore", NewWalk)}, {}, << >>)
      /\ GateInv(NewGate, {}, {}, << >>)
  BY OpenedInv
<1>3. /\ ComparisonInv(NewComparison, {}, << >>, Others, FALSE)
      /\ ComparisonInv([NewComparison EXCEPT !.flags = {"loadingCandidates"}],
                       {Call("candidates", NewWalk)}, << >>, Others, TRUE)
  BY ComparisonOpenedInv
<1>4. CASE panel = "gate"
  <2>1. /\ gate = Restoring(NewGate, TRUE) /\ comparison = NewComparison
        /\ lookups = {Call("restore", NewWalk)}
    BY <1>4 DEF Init
  <2> QED
    BY <1>1, <1>2, <1>3, <1>4, <2>1 DEF PanelInv
<1>5. CASE panel = "comparison" /\ completed
  <2>1. /\ gate = NewGate
        /\ comparison = [NewComparison EXCEPT !.flags = {"loadingCandidates"}]
        /\ lookups = {Call("candidates", NewWalk)}
    BY <1>5 DEF Init
  <2>2. completed = TRUE
    BY <1>5 DEF Init
  <2> QED
    BY <1>1, <1>2, <1>3, <1>5, <2>1, <2>2 DEF PanelInv
<1>6. CASE panel = "comparison" /\ ~completed
  <2>1. gate = NewGate /\ comparison = NewComparison /\ lookups = {}
    BY <1>6 DEF Init
  <2>2. completed = FALSE
    BY <1>6 DEF Init
  <2> QED
    BY <1>1, <1>2, <1>3, <1>6, <2>1, <2>2 DEF PanelInv
<1> QED
  BY <1>4, <1>5, <1>6 DEF Init

LEMMA WalkPanelInv == IInv /\ Walk => PanelInv'
<1> SUFFICES ASSUME IInv, Walk PROVE PanelInv'
  OBVIOUS
<1>1. HistoryInv /\ PanelInv /\ UNCHANGED <<gateVars, comparisonVars, panel, completed>>
  BY DEF IInv, Walk
<1>2. UNCHANGED <<gate, policies, gateResults, comparison, comparisons, panel, completed>>
  BY <1>1 DEF gateVars, comparisonVars
<1>3. CASE Insert
  <2>1. PICK x \in Experiment \ Listed, k \in 1..Cardinality(Listed) + 1 :
          position' = Inserted(x, k)
    BY <1>3 DEF Insert
  <2>2. Others \subseteq Others'
    BY <1>1, <2>1, InsertedPlaces DEF HistoryInv, Others
  <2>3. lookups' = lookups
    BY <1>3 DEF Insert
  <2>4. \A p, W, cs, done :
          ComparisonInv(p, W, cs, Others, done) => ComparisonInv(p, W, cs, Others', done)
    BY <2>2, MoreOthers
  <2> QED
    BY <1>1, <1>2, <2>3, <2>4 DEF PanelInv
<1>4. CASE \E c \in lookups : CountRows(c) \/ ReadRows(c, LatestFor(c))
  <2>1. PICK c \in lookups : CountRows(c) \/ ReadRows(c, LatestFor(c))
    BY <1>4
  <2>2. Advances(c, LatestFor(c))
    BY <1>1, <2>1, CountRowsInv, ReadRowsInv
  <2>3. Others' = Others
    BY <2>1 DEF CountRows, ReadRows, Others, Listed
  <2>4. CASE panel = "gate"
    <3>1. /\ GateInv(gate, lookups, policies, gateResults)
          /\ ComparisonInv(comparison, {}, comparisons, Others, FALSE)
      BY <1>1, <2>4 DEF PanelInv
    <3>2. GateInv(gate, lookups', policies, gateResults)
      BY <2>2, <3>1, GateWalkInv
    <3> QED
      BY <1>2, <2>3, <2>4, <3>1, <3>2 DEF PanelInv
  <2>5. CASE panel = "comparison"
    <3>1. /\ GateInv(gate, {}, policies, gateResults)
          /\ ComparisonInv(comparison, lookups, comparisons, Others, completed)
      BY <1>1, <2>5 DEF PanelInv
    <3>2. ComparisonInv(comparison, lookups', comparisons, Others, completed)
      BY <1>1, <2>2, <3>1, ComparisonWalkInv
    <3> QED
      BY <1>2, <2>3, <2>5, <3>1, <3>2 DEF PanelInv
  <2> QED
    BY <1>1, <2>4, <2>5 DEF PanelInv
<1> QED
  BY <1>3, <1>4 DEF Walk

LEMMA PanelNext == IInv /\ [Next]_vars => PanelInv'
<1> SUFFICES ASSUME IInv, [Next]_vars PROVE PanelInv'
  OBVIOUS
<1>1. HistoryInv /\ PanelInv
  BY DEF IInv
<1>2. CASE Walk
  BY <1>2, WalkPanelInv
<1>3. CASE UseGate
  <2>1. /\ panel = "gate" /\ GateNext(completed)
        /\ UNCHANGED <<position, comparison, comparisons, panel, completed>>
    BY <1>3 DEF UseGate, comparisonVars
  <2>2. /\ GateInv(gate, lookups, policies, gateResults)
        /\ ComparisonInv(comparison, {}, comparisons, Others, FALSE)
    BY <1>1, <2>1 DEF PanelInv
  <2>3. GateInv(gate', lookups', policies', gateResults')
    BY <1>1, <2>1, <2>2, UseGateInv
  <2>4. Others' = Others
    BY <2>1 DEF Others, Listed
  <2> QED
    BY <2>1, <2>2, <2>3, <2>4 DEF PanelInv
<1>4. CASE UseComparison
  <2>1. /\ panel = "comparison" /\ ComparisonNext(completed)
        /\ UNCHANGED <<position, gate, policies, gateResults, panel, completed>>
    BY <1>4 DEF UseComparison, gateVars
  <2>2. /\ GateInv(gate, {}, policies, gateResults)
        /\ ComparisonInv(comparison, lookups, comparisons, Others, completed)
    BY <1>1, <2>1 DEF PanelInv
  <2>3. ComparisonInv(comparison', lookups', comparisons', Others, completed)
    BY <1>1, <2>1, <2>2, UseComparisonInv
  <2>4. Others' = Others
    BY <2>1 DEF Others, Listed
  <2> QED
    BY <2>1, <2>2, <2>3, <2>4 DEF PanelInv
<1>5. CASE ReloadExperiment
  <2>1. /\ UNCHANGED <<position, gate, policies, gateResults, panel>>
        /\ completed' \in {completed, TRUE}
        /\ IF panel = "comparison" THEN ExperimentChanged(completed')
           ELSE UNCHANGED <<comparison, comparisons, lookups>>
    BY <1>5 DEF ReloadExperiment, gateVars, comparisonVars
  <2>2. Others' = Others
    BY <2>1 DEF Others, Listed
  <2>3. CASE panel = "comparison"
    <3>1. /\ GateInv(gate, {}, policies, gateResults)
          /\ ComparisonInv(comparison, lookups, comparisons, Others, completed)
      BY <1>1, <2>3 DEF PanelInv
    <3>2. ComparisonInv(comparison', lookups', comparisons', Others, completed')
      BY <1>1, <2>1, <2>3, <3>1, ExperimentChangedInv
    <3> QED
      BY <2>1, <2>2, <2>3, <3>1, <3>2 DEF PanelInv
  <2>4. CASE panel = "gate"
    BY <1>1, <2>1, <2>2, <2>4 DEF PanelInv
  <2> QED
    BY <1>1, <2>3, <2>4 DEF PanelInv
<1>6. CASE UNCHANGED vars
  <2>1. /\ UNCHANGED <<position, lookups, gate, policies, gateResults, comparison, comparisons>>
        /\ UNCHANGED <<panel, completed>>
    BY <1>6 DEF vars, gateVars, comparisonVars
  <2>2. Others' = Others
    BY <2>1 DEF Others, Listed
  <2> QED
    BY <1>1, <2>1, <2>2 DEF PanelInv
<1> QED
  BY <1>2, <1>3, <1>4, <1>5, <1>6 DEF Next

-----------------------------------------------------------------------------
LEMMA Invariant == Spec => []IInv
<1>1. Init => IInv
  BY HistoryInit, PanelInit DEF IInv
<1>2. IInv /\ [Next]_vars => IInv'
  BY HistoryNext, PanelNext DEF IInv
<1> QED
  BY <1>1, <1>2, PTL DEF Spec

(* At rest the gate has no lookup.                                         *)
LEMMA Rested ==
  IInv /\ AtRest => GateInv(gate, {}, policies, gateResults) /\ Settled(gate.calls)
<1> SUFFICES ASSUME IInv, AtRest
             PROVE  GateInv(gate, {}, policies, gateResults) /\ Settled(gate.calls)
  OBVIOUS
<1>1. Settled(gate.calls) /\ Settled(lookups)
  BY DEF AtRest, Settled
<1>2. CASE panel = "gate"
  <2>1. GateInv(gate, lookups, policies, gateResults)
    BY <1>2 DEF IInv, PanelInv
  <2>2. lookups = {}
    BY <1>1, <2>1 DEF GateInv, ActivityInv, Settled
  <2> QED
    BY <1>1, <2>1, <2>2
<1>3. CASE panel = "comparison"
  BY <1>1, <1>3 DEF IInv, PanelInv
<1> QED
  BY <1>2, <1>3 DEF IInv, PanelInv

(* What the two panels have in common, whichever is used.                  *)
LEMMA PanelFacts ==
  IInv => /\ \E W : GateInv(gate, W, policies, gateResults)
          /\ \E W, done : /\ ComparisonInv(comparison, W, comparisons, Others, done)
                          /\ W \subseteq lookups
<1> SUFFICES ASSUME IInv
             PROVE  /\ \E W : GateInv(gate, W, policies, gateResults)
                    /\ \E W, done : /\ ComparisonInv(comparison, W, comparisons, Others, done)
                                    /\ W \subseteq lookups
  OBVIOUS
<1>1. CASE panel = "gate"
  <2> DEFINE no == FALSE
  <2>1. /\ GateInv(gate, lookups, policies, gateResults)
        /\ ComparisonInv(comparison, {}, comparisons, Others, no)
    BY <1>1 DEF IInv, PanelInv
  <2>2. {} \subseteq lookups
    OBVIOUS
  <2> HIDE DEF no
  <2> QED
    BY <2>1, <2>2
<1>2. CASE panel = "comparison"
  <2>1. /\ GateInv(gate, {}, policies, gateResults)
        /\ ComparisonInv(comparison, lookups, comparisons, Others, completed)
    BY <1>2 DEF IInv, PanelInv
  <2>2. lookups \subseteq lookups
    OBVIOUS
  <2> QED
    BY <2>1, <2>2
<1> QED
  BY <1>1, <1>2 DEF IInv, PanelInv

(* A walk over a history that grows meanwhile passes no experiment: when   *)
(* findLatestResultId or loadHistorySnapshot ends, it has met everything   *)
(* that was listed when it began, unless the last page grew between its    *)
(* count and its rows, or it has found the experiment it looks for.        *)
THEOREM NoWalkSkips == Spec => []WalkSkipsNone
<1>1. HistoryInv => WalkSkipsNone
  BY DEF HistoryInv, WalksInv, WalkInv, WalkSkipsNone
<1> QED
  BY HistoryInit, HistoryNext, <1>1, PTL DEF Spec

(* What the panels show was committed: a gate result is that of the policy   *)
(* on the screen, and the comparison the router is sent to is one of the   *)
(* baseline submitted last, whatever was lost, late, aborted or recovered. *)
THEOREM ResultsAreCommitted == Spec => []ShownIsCommitted
<1>1. IInv => ShownIsCommitted
  <2> SUFFICES ASSUME IInv PROVE ShownIsCommitted
    OBVIOUS
  <2>1. PICK W : GateInv(gate, W, policies, gateResults)
    BY PanelFacts
  <2>2. PICK V, done : ComparisonInv(comparison, V, comparisons, Others, done)
    BY PanelFacts
  <2>3. Baselines = Members(comparisons)
    BY DEF Baselines, Members
  <2>4. gate.result # None => gate.result = gate.policy /\ gate.result \in Members(gateResults)
    BY <2>1 DEF GateInv, OutcomeInv
  <2>5. comparison.pushed # None =>
          comparison.pushed = comparison.asked /\ comparison.asked \in Members(comparisons)
    BY <2>2 DEF ComparisonInv, RecoveryInv
  <2> QED
    BY <2>3, <2>4, <2>5 DEF ShownIsCommitted
<1> QED
  BY Invariant, <1>1, PTL

(* When no answer is awaited neither panel is busy, and the gate panel of a *)
(* completed experiment shows a result or leaves a button that works.      *)
THEOREM GateIsNoDeadEnd == Spec => []GateWayForward
<1>1. IInv => GateWayForward
  <2> SUFFICES ASSUME IInv, AtRest
               PROVE  /\ gate.flags = {} /\ comparison.flags = {}
                      /\ completed =>
                           gate.result # None \/ gate.restoreError # None
                             \/ CanCreate(TRUE) \/ CanEvaluate
    BY DEF GateWayForward
  <2>1. GateInv(gate, {}, policies, gateResults) /\ Settled(gate.calls)
    BY Rested
  <2>2. gate.flags = {}
    BY <2>1 DEF GateInv, ActivityInv
  <2>3. comparison.flags = {}
    <3>1. PICK V, done : /\ ComparisonInv(comparison, V, comparisons, Others, done)
                         /\ V \subseteq lookups
      BY PanelFacts
    <3>2. \A c \in V : ~c.live
      BY <3>1 DEF AtRest, Settled
    <3>3. \A c \in comparison.calls : ~Answering(c)
      BY DEF AtRest, Answering
    <3>4. comparison.flags \subseteq ComparisonFlag
      BY <3>1 DEF ComparisonInv, PanelFields
    <3>5. "comparing" \notin comparison.flags /\ "recovering" \notin comparison.flags
      BY <3>1, <3>2, <3>3 DEF ComparisonInv, SubmissionInv
    <3>6. comparison.flags \cap {"loadingCandidates", "refreshingCandidates"} = {}
      BY <3>1, <3>2 DEF ComparisonInv, LoadingInv
    <3> QED
      BY <3>4, <3>5, <3>6 DEF ComparisonFlag
  <2>4. gate.policy # None /\ gate.result = None => gate.evaluationError # None
    BY <2>1, <2>2 DEF GateInv, OutcomeInv
  <2>5. gate.flags \cap {"creating", "evaluating", "recovering"} = {}
    BY <2>2
  <2> QED
    BY <2>2, <2>3, <2>4, <2>5 DEF CanCreate, CanEvaluate, FormShown, GateBusy
<1> QED
  BY Invariant, <1>1, PTL

(* An evaluation that the server refuses as done before is found again by  *)
(* the lookup after it, unless that fails, or misses because the list grew *)
(* between the count and the rows of its last page.                        *)
THEOREM EvaluatedIsFound == Spec => []AlreadyEvaluatedIsFound
<1>1. IInv => AlreadyEvaluatedIsFound
  BY Rested DEF AlreadyEvaluatedIsFound, GateInv, OutcomeInv, AE
<1> QED
  BY Invariant, <1>1, PTL

(* recoverComparison gives up on a comparison that exists only if it is no *)
(* longer the latest one of the experiment, or the list grew between the   *)
(* count and the rows of the last page of its lookup.                      *)
THEOREM LatestIsRecovered == Spec => []RecoveryFailsOnlyWhenNotLatest
<1>1. IInv => RecoveryFailsOnlyWhenNotLatest
  <2> SUFFICES ASSUME IInv PROVE RecoveryFailsOnlyWhenNotLatest
    OBVIOUS
  <2>1. PICK V, done : ComparisonInv(comparison, V, comparisons, Others, done)
    BY PanelFacts
  <2>2. LatestBaseline = LatestOf(comparisons)
    BY DEF LatestBaseline, LatestOf
  <2>3. comparison.exists /\ comparison.comparisonError = RecoveryUnavailable =>
          LatestOf(comparisons) # comparison.asked \/ comparison.missed
    BY <2>1 DEF ComparisonInv, RecoveryInv
  <2> QED
    BY <2>2, <2>3 DEF RecoveryFailsOnlyWhenNotLatest
<1> QED
  BY Invariant, <1>1, PTL

(* A page of a walk is a page of the list.                                 *)
LEMMA PageBound ==
  ASSUME NEW n \in Nat, NEW s \in Nat \ {0} PROVE n <= n * s
OBVIOUS

(* Everything the panels hold is of the project, no walk leaves the list,  *)
(* and of each lane at most one walk is live.                              *)
THEOREM PanelsAreTyped == Spec => []TypeOK
<1>1. IInv => TypeOK
  <2> SUFFICES ASSUME IInv PROVE TypeOK
    OBVIOUS
  <2>1. HistoryInv /\ PlacesInv /\ WalksInv(lookups)
    BY DEF IInv, HistoryInv
  <2>2. PICK W : GateInv(gate, W, policies, gateResults)
    BY PanelFacts
  <2>3. PICK V, done : ComparisonInv(comparison, V, comparisons, Others, done)
    BY PanelFacts
  <2>4. Current \in Listed /\ Listed \subseteq Experiment /\ position \in Places(Listed)
    <3>1. position \in [Listed -> 1..Cardinality(Listed)]
      BY <2>1 DEF PlacesInv
    <3> QED
      BY <2>1, <3>1 DEF PlacesInv, Places
  <2>5. /\ policies \subseteq Policy /\ Members(gateResults) \subseteq policies
        /\ gate.policy \in policies \cup {None} /\ gate.result \in policies \cup {None}
        /\ gate.flags \subseteq GateFlag
    BY <2>2 DEF GateInv, Recorded, OutcomeInv
  <2>6. /\ Baselines \subseteq Listed \ {Current}
        /\ comparison.candidates \subseteq Listed \ {Current}
        /\ comparison.selected \in comparison.candidates \cup {None}
        /\ comparison.flags \subseteq ComparisonFlag
    <3>1. Members(comparisons) \subseteq Others
      BY <2>3, LatestIsMember DEF ComparisonInv, Compared
    <3>2. Baselines = Members(comparisons)
      BY DEF Baselines, Members
    <3> QED
      BY <2>3, <3>1, <3>2 DEF ComparisonInv, PanelFields, Others
  <2>7. ASSUME NEW c \in lookups
        PROVE  c.lane \in WalkLane /\ c.arg.page \in 1..Cardinality(Experiment)
    <3>1. WalkInv(c)
      BY <2>1 DEF WalksInv
    <3>2. PICK n : n = c.arg.page - 1
      OBVIOUS
    <3>3. n \in Nat /\ c.arg.page = n + 1 /\ n * Size < Cardinality(Listed)
      BY <3>1, <3>2 DEF WalkInv, PagesInv
    <3>4. n <= n * Size /\ n * Size \in Nat
      BY <3>3, SizeAssumption, PageBound
    <3>5. /\ Cardinality(Listed) <= Cardinality(Experiment)
          /\ Cardinality(Experiment) \in Nat /\ Cardinality(Listed) \in Nat
      BY <2>4, ExperimentAssumption, FS_Subset, FS_CardinalityType
    <3>6. n + 1 <= Cardinality(Listed)
      BY <3>3, <3>4, <3>5
    <3> QED
      BY <3>1, <3>3, <3>5, <3>6 DEF WalkInv
  <2>8. ASSUME NEW l \in WalkLane
        PROVE  Cardinality({c \in lookups : c.lane = l /\ c.live}) <= 1
    <3>1. PICK S : S = {c \in lookups : c.lane = l /\ c.live}
      OBVIOUS
    <3>2. \A c, d \in S : c = d
      BY <2>1, <3>1 DEF WalksInv, OneLive
    <3>3. S = {} \/ \E c : S = {c}
      BY <3>2
    <3>4. Cardinality(S) <= 1
      <4>1. CASE S = {}
        <5>1. Cardinality(S) = 0
          BY <4>1, FS_EmptySet
        <5> QED
          BY <5>1
      <4>2. CASE \E c : S = {c}
        <5>1. Cardinality(S) = 1
          BY <4>2, FS_Singleton
        <5> QED
          BY <5>1
      <4> QED
        BY <3>3, <4>1, <4>2
    <3> QED
      BY <3>1, <3>4
  <2> QED
    BY <2>4, <2>5, <2>6, <2>7, <2>8 DEF TypeOK
<1> QED
  BY Invariant, <1>1, PTL
=============================================================================
