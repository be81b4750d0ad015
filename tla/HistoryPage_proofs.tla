------------------------- MODULE HistoryPage_proofs -------------------------
(***************************************************************************)
(* Proofs about HistoryPage for every number of experiments, every set of  *)
(* periods and any number of superseded calls.                             *)
(***************************************************************************)
EXTENDS HistoryPage, Calls_proofs, FiniteSetTheorems

Loading(u) == u.flags \cap {"loading", "refreshing"} # {}
Wanted(c) == c.lane = "history" /\ c.live

IsPage(u) ==
  u = [query |-> u.query, rows |-> u.rows, error |-> u.error,
       downloadFailed |-> u.downloadFailed, flags |-> u.flags, calls |-> u.calls]

(* An answer to a query: on a page within its own total there are rows, or *)
(* a match went between the count and the rows.                            *)
AnswerInv(q, a) ==
  /\ a.total \in 0..MaxExperiments /\ a.items \in BOOLEAN /\ a.overtaken \in BOOLEAN
  /\ q.page <= a.total => a.items \/ a.overtaken

(* What is in flight asks for a query, counts experiments for it, and is    *)
(* refused or answered.                                                    *)
Counted(k) == k = NotYet \/ \E S \in SUBSET Experiment : k = <<S>>
Asking(arg, q) == \E k : Counted(k) /\ arg = [query |-> q, counted |-> k]
Replied(reply, q) ==
  \/ reply = Waiting \/ reply = <<InvalidRange>>
  \/ \E a : AnswerInv(q, a) /\ reply = <<Answered(a)>>
Known(c) ==
  c.lane = "history" => \E q \in Queries : Asking(c.arg, q) /\ Replied(c.reply, q)
CallsInv(calls) == AreCalls(calls) /\ \A c \in calls : Known(c)

\* An empty page is that of an empty list, or was overtaken.
RowsInv(rows) ==
  /\ rows.query \in Queries \cup {None}
  /\ rows.total \in 0..MaxExperiments
  /\ rows.items \in BOOLEAN /\ rows.overtaken \in BOOLEAN
  /\ rows.items \/ rows.total = 0 \/ rows.overtaken

\* The errors are those of lost and refused calls, and the flags the page's.
Signals == {"loading", "refreshing", "downloading"}
SignalsInv(u) ==
  /\ u.error \in {None} \cup Lost \cup {request(InvalidRange)}
  /\ u.downloadFailed \in BOOLEAN /\ u.flags \subseteq Signals

PageInv(u) ==
  /\ IsPage(u) /\ SignalsInv(u)
  /\ u.query \in Queries
  /\ RowsInv(u.rows) /\ CallsInv(u.calls)

\* The one call that is wanted is that of the query, and shown as loading.
WantedInv(u) ==
  /\ \A c \in u.calls : Wanted(c) => c.arg.query = u.query
  /\ OneLive(u.calls)
  /\ Pending(u.calls, "history") => Loading(u)

ListInv(u) ==
  /\ Loading(u) => u.error = None
  /\ ~Loading(u) /\ u.error = None => u.rows.query = u.query

(* The page number is being corrected: the URL will have another one.      *)
Clamping(u) == Loading(u) /\ ~Pending(u.calls, "history")

Target == IF navigation # None THEN navigation ELSE url
Agree(q, r) == q.status = r.status /\ q.page = r.page

UrlInv ==
  /\ url \in Queries /\ navigation \in Queries \cup {None}
  /\ IF Clamping(ui) THEN Target.page # ui.query.page ELSE Agree(Target, ui.query)

IInv == PageInv(ui) /\ WantedInv(ui) /\ ListInv(ui) /\ UrlInv

\* The experiments are numbered as they are created.
DoneInv == done \in UNION {[1..n -> BOOLEAN] : n \in 0..MaxExperiments}
-----------------------------------------------------------------------------
(* Load: whatever was wanted before, the one call wanted now is this one.   *)
LEMMA LoadInv ==
  ASSUME NEW u, PageInv(u), OneLive(u.calls), NEW q, u.query = q
  PROVE  LET v == Load(u, q)
         IN /\ PageInv(v) /\ WantedInv(v) /\ ListInv(v) /\ ~Clamping(v)
            /\ v.query = q
<1> DEFINE f == u.flags \cup {IF u.rows.items THEN "refreshing" ELSE "loading"}
           kept == u.calls \ Unanswered(u.calls)
           k == Sent(kept, "history", Asked(q))
           v == Load(u, q)
           new == Call("history", Asked(q))
<1>1. v = [u EXCEPT !.error = None, !.flags = f, !.calls = k]
  BY DEF Load
<1>2. f \cap {"loading", "refreshing"} # {} /\ (u.flags \subseteq Signals => f \subseteq Signals)
  BY DEF Signals
<1>3. /\ new.lane = "history" /\ new.arg = Asked(q) /\ new.reply = Waiting /\ new.live
  BY CallFields
<1>4. /\ AreCalls(k) /\ new \in k /\ OneLive(k)
      /\ \A d \in k :
           \/ d = new
           \/ /\ \E c \in u.calls : d.lane = c.lane /\ d.arg = c.arg /\ d.reply = c.reply
              /\ d.lane = "history" => ~d.live
  <2>1. AreCalls(kept) /\ OneLive(kept) /\ kept \subseteq u.calls
    BY DEF PageInv, CallsInv, AreCalls, OneLive
  <2> HIDE DEF kept
  <2> QED
    BY <2>1, SentCalls
<1> HIDE DEF f, k, v, new
<1>5. v = [query |-> u.query, rows |-> u.rows, error |-> None,
           downloadFailed |-> u.downloadFailed, flags |-> f, calls |-> k]
  BY <1>1 DEF PageInv, IsPage
<1>6. /\ v.query = q /\ v.rows = u.rows /\ v.error = None
      /\ v.flags = f /\ v.calls = k /\ v.downloadFailed = u.downloadFailed /\ IsPage(v)
  BY <1>5 DEF IsPage
<1>7. Known(new)
  <2>1. Asking(Asked(q), q)
    BY DEF Asking, Asked, Counted
  <2> QED
    BY <1>3, <2>1 DEF Known, PageInv, Replied
<1>8. CallsInv(k)
  BY <1>4, <1>7 DEF CallsInv, PageInv, Known
<1>9. \A d \in k : Wanted(d) => d = new
  BY <1>4 DEF Wanted
<1>10. Pending(k, "history")
  BY <1>3, <1>4 DEF Pending
<1>11. PageInv(v)
  BY <1>2, <1>6, <1>8 DEF PageInv, SignalsInv
<1>12. Loading(v)
  BY <1>2, <1>6 DEF Loading
<1>13. WantedInv(v)
  BY <1>3, <1>4, <1>6, <1>9, <1>12 DEF WantedInv, Asked
<1> QED
  BY <1>6, <1>10, <1>11, <1>12, <1>13 DEF ListInv, Clamping, v

(* SetQuery does so for any query.                                         *)
LEMMA SetQueryInv ==
  ASSUME NEW u, PageInv(u), OneLive(u.calls), NEW q \in Queries
  PROVE  LET v == SetQuery(u, q)
         IN /\ PageInv(v) /\ WantedInv(v) /\ ListInv(v) /\ ~Clamping(v)
            /\ v.query = q
<1> DEFINE w == [u EXCEPT !.query = q]
<1>1. w = [query |-> q, rows |-> u.rows, error |-> u.error,
           downloadFailed |-> u.downloadFailed, flags |-> u.flags, calls |-> u.calls]
  BY DEF PageInv, IsPage
<1>2. PageInv(w) /\ w.query = q /\ w.calls = u.calls
  BY <1>1 DEF PageInv, IsPage, SignalsInv
<1> HIDE DEF w
<1>3. SetQuery(u, q) = Load(w, q)
  BY DEF SetQuery, w
<1> QED
  BY <1>2, <1>3, LoadInv
-----------------------------------------------------------------------------
LEMMA PrimedPage ==
  ASSUME NEW v, PageInv(v), WantedInv(v), ListInv(v), ui' = v
  PROVE  PageInv(ui)' /\ WantedInv(ui)' /\ ListInv(ui)'
BY DEF PageInv, IsPage, SignalsInv, RowsInv, CallsInv, AreCalls, Known, WantedInv,
       ListInv, Loading, OneLive, Pending, Wanted

(* A step that loads a query the URL agrees with, or will.                 *)
LEMMA QueryStep ==
  ASSUME NEW u, PageInv(u), OneLive(u.calls), NEW q \in Queries, ui' = SetQuery(u, q),
         url' \in Queries, navigation' \in Queries \cup {None}, Agree(Target', q)
  PROVE  IInv'
<1> DEFINE v == SetQuery(u, q)
<1>1. PageInv(v) /\ WantedInv(v) /\ ListInv(v) /\ ~Clamping(v) /\ v.query = q
  BY SetQueryInv
<1> HIDE DEF v
<1>2. ui' = v
  BY DEF v
<1>3. UrlInv'
  BY <1>1, <1>2 DEF UrlInv, Clamping, Agree
<1>4. PageInv(ui)' /\ WantedInv(ui)' /\ ListInv(ui)'
  BY <1>1, <1>2, PrimedPage
<1> QED
  BY <1>3, <1>4 DEF IInv

(* A step that leaves list, query and URL as they are.                     *)
LEMMA CalmStep ==
  ASSUME IInv, NEW v, PageInv(v), ui' = v, UNCHANGED <<url, navigation>>,
         v.query = ui.query, v.rows = ui.rows, v.error = ui.error,
         Loading(v) <=> Loading(ui),
         Pending(v.calls, "history") <=> Pending(ui.calls, "history"),
         OneLive(v.calls), \A c \in v.calls : Wanted(c) => c.arg.query = ui.query
  PROVE  IInv'
<1>1. PageInv(ui)'
  BY DEF PageInv, IsPage, SignalsInv, RowsInv, CallsInv, AreCalls, Known
<1>2. WantedInv(v) /\ ListInv(v)
  BY DEF IInv, WantedInv, ListInv
<1>3. WantedInv(ui)' /\ ListInv(ui)'
  BY <1>2 DEF WantedInv, ListInv, Loading, OneLive, Pending, Wanted
<1>4. UrlInv'
  BY DEF IInv, UrlInv, Clamping, Target, Agree
<1> QED
  BY <1>1, <1>3, <1>4 DEF IInv

(* What the fields of the page are after each kind of update.              *)
LEMMA CallsRecord ==
  ASSUME NEW u, IsPage(u), NEW k, NEW v, v = [u EXCEPT !.calls = k]
  PROVE  /\ IsPage(v) /\ v.query = u.query /\ v.rows = u.rows
         /\ v.error = u.error /\ v.flags = u.flags /\ v.calls = k
         /\ v.downloadFailed = u.downloadFailed
BY DEF IsPage

CsvSent(u, k, f, b) == [u EXCEPT !.downloadFailed = b, !.flags = f, !.calls = k]
LEMMA CsvSentRecord ==
  ASSUME NEW u, IsPage(u), NEW k, NEW f, NEW b, NEW v, v = CsvSent(u, k, f, b)
  PROVE  /\ IsPage(v) /\ v.query = u.query /\ v.rows = u.rows
         /\ v.error = u.error /\ v.flags = f /\ v.calls = k
         /\ v.downloadFailed = b
BY DEF IsPage, CsvSent

CsvEnded(u, k, f, b) == [u EXCEPT !.calls = k, !.flags = f, !.downloadFailed = b]
LEMMA CsvRecord ==
  ASSUME NEW u, IsPage(u), NEW k, NEW f, NEW b, NEW v, v = CsvEnded(u, k, f, b)
  PROVE  /\ IsPage(v) /\ v.query = u.query /\ v.rows = u.rows
         /\ v.error = u.error /\ v.flags = f /\ v.calls = k
         /\ v.downloadFailed = b
BY DEF IsPage, CsvEnded

Failed(u, e, f) == [u EXCEPT !.error = e, !.flags = f]
LEMMA FailedRecord ==
  ASSUME NEW u, IsPage(u), NEW e, NEW f, NEW v, v = Failed(u, e, f)
  PROVE  /\ IsPage(v) /\ v.query = u.query /\ v.rows = u.rows
         /\ v.error = e /\ v.flags = f /\ v.calls = u.calls
         /\ v.downloadFailed = u.downloadFailed
BY DEF IsPage, Failed

Filled(u, r, f) == [u EXCEPT !.rows = r, !.flags = f]
LEMMA LoadedRecord ==
  ASSUME NEW u, IsPage(u), NEW r, NEW f, NEW v, v = Filled(u, r, f)
  PROVE  /\ IsPage(v) /\ v.query = u.query /\ v.rows = r
         /\ v.error = u.error /\ v.flags = f /\ v.calls = u.calls
         /\ v.downloadFailed = u.downloadFailed
BY DEF IsPage, Filled

LEMMA FirstPage == \A p \in Period, s \in Statuses : Query(p, s, 1) \in Queries
  BY BoundsAssumption DEF Query, Queries

LEMMA QueryFields ==
  ASSUME NEW p \in Period, NEW q \in Queries
  PROVE  syncUrl(q, p) \in Queries /\ Agree(syncUrl(q, p), q)
  BY DEF syncUrl, Query, Queries, Agree

(* applyFilters, resetFilters and movePage send the URL after the query.   *)
LEMMA SyncStep ==
  ASSUME IInv, NEW u, PageInv(u), OneLive(u.calls), NEW q \in Queries, NEW p \in Period,
         navigation' = syncUrl(q, p), ui' = SetQuery(u, q), UNCHANGED url
  PROVE  IInv'
<1>1. navigation' \in Queries /\ Agree(navigation', q)
  BY QueryFields
<1>2. navigation' # None
  BY <1>1, NoneAssumption
<1>3. Agree(Target', q)
  BY <1>1, <1>2 DEF Target
<1>4. url' \in Queries
  BY DEF IInv, UrlInv
<1> QED
  BY <1>1, <1>3, <1>4, QueryStep

LEMMA applyFiltersInv == ASSUME IInv, applyFilters PROVE IInv'
<1>1. PICK dates \in Period, status \in Statuses :
        LET q == Query(dates, status, 1)
        IN navigation' = syncUrl(q, dates) /\ ui' = SetQuery(ui, q)
  BY DEF applyFilters
<1>2. PageInv(ui) /\ OneLive(ui.calls)
  BY DEF IInv, WantedInv
<1>3. Query(dates, status, 1) \in Queries
  BY FirstPage
<1> QED
  BY <1>1, <1>2, <1>3, SyncStep DEF applyFilters

LEMMA resetFiltersInv == ASSUME IInv, resetFilters PROVE IInv'
<1> DEFINE q == Query(Whole, "any", 1)
<1>1. q \in Queries /\ Whole \in Period
  BY FirstPage, PeriodAssumption DEF Statuses
<1>2. navigation' = syncUrl(q, Whole) /\ ui' = SetQuery(ui, q) /\ UNCHANGED url
  BY DEF resetFilters
<1> HIDE DEF q
<1>3. PageInv(ui) /\ OneLive(ui.calls)
  BY DEF IInv, WantedInv
<1> QED
  BY <1>1, <1>2, <1>3, SyncStep

LEMMA movePageInv == ASSUME IInv, movePage PROVE IInv'
<1>1. PICK page \in 1..ui.rows.total, dates \in Period :
        LET q == [ui.query EXCEPT !.page = page]
        IN navigation' = syncUrl(q, dates) /\ ui' = SetQuery(ui, q)
  BY DEF movePage
<1>2. PageInv(ui) /\ OneLive(ui.calls)
  BY DEF IInv, WantedInv
<1>3. page \in 1..MaxExperiments
  BY <1>2, BoundsAssumption DEF PageInv, RowsInv
<1>4. [ui.query EXCEPT !.page = page] \in Queries
  BY <1>2, <1>3 DEF PageInv, Queries
<1> QED
  BY <1>1, <1>2, <1>4, SyncStep DEF movePage

LEMMA RetryInv == ASSUME IInv, Retry PROVE IInv'
<1> DEFINE v == Load(ui, ui.query)
<1>1. PageInv(v) /\ WantedInv(v) /\ ListInv(v) /\ ~Clamping(v) /\ v.query = ui.query
  BY LoadInv DEF IInv, WantedInv
<1>2. ui' = v /\ UNCHANGED <<url, navigation>>
  BY DEF Retry
<1>3. Agree(Target, ui.query)
  BY DEF Retry, IInv, ListInv, UrlInv, Clamping
<1> HIDE DEF v
<1>4. UrlInv'
  BY <1>1, <1>2, <1>3 DEF IInv, UrlInv, Clamping, Target, Agree
<1>5. PageInv(ui)' /\ WantedInv(ui)' /\ ListInv(ui)'
  BY <1>1, <1>2, PrimedPage
<1> QED
  BY <1>4, <1>5 DEF IInv

LEMMA NavigateInv == ASSUME IInv, Navigate PROVE IInv'
<1>1. /\ navigation \in Queries /\ url' = navigation /\ navigation' = None
      /\ Target = navigation /\ Target' = navigation
  BY DEF Navigate, IInv, UrlInv, Target
<1>2. CASE ui' = SetQuery(ui, navigation)
  <2>1. Agree(Target', navigation)
    BY <1>1 DEF Agree
  <2> QED
    BY <1>1, <1>2, <2>1, QueryStep DEF IInv, WantedInv
<1>3. CASE ui' = ui
  <2>1. UrlInv'
    BY <1>1, <1>3 DEF IInv, UrlInv, Clamping, Agree
  <2>2. PageInv(ui)' /\ WantedInv(ui)' /\ ListInv(ui)'
    BY <1>3, PrimedPage DEF IInv
  <2> QED
    BY <2>1, <2>2 DEF IInv
<1> QED
  BY <1>2, <1>3 DEF Navigate

LEMMA exportCsvInv == ASSUME IInv, exportCsv PROVE IInv'
<1> DEFINE f == ui.flags \cup {"downloading"}
           k == Sent(ui.calls, "csv", Filter(ui.query))
           b == FALSE
           v == [ui EXCEPT !.downloadFailed = b, !.flags = f, !.calls = k]
           new == Call("csv", Filter(ui.query))
<1>1. ui' = v /\ UNCHANGED <<url, navigation>>
  BY DEF exportCsv
<1>2. /\ f \cap {"loading", "refreshing"} = ui.flags \cap {"loading", "refreshing"}
      /\ ui.flags \subseteq Signals => f \subseteq Signals
      /\ b \in BOOLEAN
  BY DEF Signals
<1>3. AreCalls(ui.calls) /\ OneLive(ui.calls)
  BY DEF IInv, PageInv, CallsInv, WantedInv
<1>4. /\ AreCalls(k) /\ OneLive(k)
      /\ \A d \in k : d = new \/ d.lane = "csv" \/ d \in ui.calls
      /\ \A c \in ui.calls : c.lane # "csv" => c \in k
  BY <1>3, SentCalls
<1>5. new.lane = "csv"
  BY CallFields
<1> HIDE DEF f, k, b, v, new
<1>6. /\ IsPage(v) /\ v.query = ui.query /\ v.rows = ui.rows
      /\ v.error = ui.error /\ v.flags = f /\ v.calls = k /\ v.downloadFailed = b
  <2>1. IsPage(ui)
    BY DEF IInv, PageInv
  <2>2. v = CsvSent(ui, k, f, b)
    BY DEF v, CsvSent
  <2> QED
    BY <2>1, <2>2, CsvSentRecord
<1>7. \A d \in k : d.lane = "csv" \/ d \in ui.calls
  BY <1>4, <1>5
<1>8. CallsInv(k)
  BY <1>4, <1>7 DEF CallsInv, Known, IInv, PageInv
<1>9. PageInv(v)
  BY <1>2, <1>6, <1>8 DEF IInv, PageInv, SignalsInv
<1>10. \A c \in k : Wanted(c) => c.arg.query = ui.query
  BY <1>7 DEF Wanted, IInv, WantedInv
<1>11. Pending(k, "history") <=> Pending(ui.calls, "history")
  BY <1>4, <1>7 DEF Pending
<1> QED
  BY <1>1, <1>2, <1>4, <1>6, <1>9, <1>10, <1>11, CalmStep DEF Loading

LEMMA ReceiveCsvInv == ASSUME IInv, NEW c \in ui.calls, ReceiveCsv(c) PROVE IInv'
<1>1. PICK o \in CsvAnswers :
        ui' = [ui EXCEPT !.calls = Ended(@, c), !.flags = @ \ {"downloading"},
                         !.downloadFailed = o.kind # "data"]
  BY DEF ReceiveCsv
<1> DEFINE f == ui.flags \ {"downloading"}
           k == Ended(ui.calls, c)
           b == o.kind # "data"
           v == [ui EXCEPT !.calls = k, !.flags = f, !.downloadFailed = b]
<1>2. ui' = v /\ UNCHANGED <<url, navigation>> /\ c.lane = "csv"
  BY <1>1 DEF ReceiveCsv
<1>3. /\ f \cap {"loading", "refreshing"} = ui.flags \cap {"loading", "refreshing"}
      /\ ui.flags \subseteq Signals => f \subseteq Signals
      /\ b \in BOOLEAN
  BY DEF Signals
<1>4. k = ui.calls \ {c}
  BY DEF Ended
<1> HIDE DEF f, k, b, v
<1>5. /\ IsPage(v) /\ v.query = ui.query /\ v.rows = ui.rows
      /\ v.error = ui.error /\ v.flags = f /\ v.calls = k /\ v.downloadFailed = b
  <2>1. IsPage(ui)
    BY DEF IInv, PageInv
  <2>2. v = CsvEnded(ui, k, f, b)
    BY DEF v, CsvEnded
  <2> QED
    BY <2>1, <2>2, CsvRecord
<1>6. CallsInv(k) /\ OneLive(k)
  BY <1>4 DEF CallsInv, AreCalls, OneLive, IInv, PageInv, WantedInv
<1>7. PageInv(v)
  BY <1>3, <1>5, <1>6 DEF IInv, PageInv, SignalsInv
<1>8. \A d \in k : Wanted(d) => d.arg.query = ui.query
  BY <1>4 DEF IInv, WantedInv
<1>9. Pending(k, "history") <=> Pending(ui.calls, "history")
  BY <1>2, <1>4 DEF Pending
<1> QED
  BY <1>2, <1>3, <1>5, <1>6, <1>7, <1>8, <1>9, CalmStep DEF Loading

LEMMA Matches ==
  ASSUME NEW q \in Queries
  PROVE  Matching(q) \in SUBSET Experiment
  BY PeriodAssumption DEF Matching, Queries, Experiment

LEMMA Sizes ==
  /\ \A S \in SUBSET Experiment : Cardinality(S) \in 0..MaxExperiments
  /\ \A S, T \in SUBSET Experiment : S \subseteq T => Cardinality(S) <= Cardinality(T)
<1>1. IsFiniteSet(Experiment) /\ Cardinality(Experiment) = MaxExperiments
  BY BoundsAssumption, FS_Interval DEF Experiment
<1>2. \A S \in SUBSET Experiment : IsFiniteSet(S)
  BY <1>1, FS_Subset
<1>3. \A S, T \in SUBSET Experiment : S \subseteq T => Cardinality(S) <= Cardinality(T)
  BY <1>2, FS_Subset
<1>4. ASSUME NEW S \in SUBSET Experiment PROVE Cardinality(S) \in 0..MaxExperiments
  <2>1. Cardinality(S) \in Nat
    BY <1>2, FS_CardinalityType
  <2>2. Cardinality(S) <= MaxExperiments
    BY <1>1, FS_Subset
  <2> QED
    BY <2>1, <2>2, BoundsAssumption
<1> QED
  BY <1>3, <1>4

(* A step of the server leaves the page as it was but for the one call it   *)
(* works on, which stays a live one for the same query.                    *)
LEMMA ServerStep ==
  ASSUME IInv, NEW c \in ui.calls, Wanted(c), NEW e, IsCall(e), Known(e), Wanted(e),
         e.arg.query = c.arg.query,
         ui' = [ui EXCEPT !.calls = (ui.calls \ {c}) \cup {e}],
         UNCHANGED <<url, navigation>>
  PROVE  IInv'
<1> DEFINE k == (ui.calls \ {c}) \cup {e}
           v == [ui EXCEPT !.calls = k]
<1>1. AreCalls(k) /\ OneLive(k)
  BY DEF IInv, PageInv, CallsInv, AreCalls, WantedInv, OneLive, Wanted
<1>2. CallsInv(k)
  BY <1>1 DEF CallsInv, IInv, PageInv
<1>3. \A d \in k : Wanted(d) => d.arg.query = ui.query
  BY DEF IInv, WantedInv
<1>4. Pending(k, "history") /\ Pending(ui.calls, "history")
  BY DEF Pending, Wanted
<1>5. ui' = v
  OBVIOUS
<1> HIDE DEF k, v
<1>6. /\ IsPage(v) /\ v.query = ui.query /\ v.rows = ui.rows
      /\ v.error = ui.error /\ v.flags = ui.flags /\ v.calls = k
      /\ v.downloadFailed = ui.downloadFailed
  BY CallsRecord DEF IInv, PageInv, v
<1>7. PageInv(v)
  BY <1>2, <1>6 DEF IInv, PageInv, SignalsInv
<1> QED
  BY <1>1, <1>3, <1>4, <1>5, <1>6, <1>7, CalmStep DEF Loading

(* What a call that is known asks for.                                     *)
LEMMA KnownQuery ==
  ASSUME NEW c, Known(c), c.lane = "history"
  PROVE  /\ c.arg.query \in Queries /\ Counted(c.arg.counted)
         /\ c.arg = [query |-> c.arg.query, counted |-> c.arg.counted]
         /\ Replied(c.reply, c.arg.query)
<1>1. PICK q \in Queries : Asking(c.arg, q) /\ Replied(c.reply, q)
  BY DEF Known
<1>2. PICK k : Counted(k) /\ c.arg = [query |-> q, counted |-> k]
  BY <1>1 DEF Asking
<1>3. c.arg.query = q /\ c.arg.counted = k
  BY <1>2
<1> QED
  BY <1>1, <1>2, <1>3

(* The server answers: a call that is answered correctly stays known.       *)
LEMMA AnswerStep ==
  ASSUME IInv, NEW c \in ui.calls, c.lane = "history", c.live,
         NEW r, Replied(<<r>>, c.arg.query),
         ui' = [ui EXCEPT !.calls = Served(ui.calls, c, r)],
         UNCHANGED <<url, navigation>>
  PROVE  IInv'
<1> DEFINE reply == <<r>>
           e == [c EXCEPT !.reply = reply]
<1>1. IsCall(c) /\ Known(c)
  BY DEF IInv, PageInv, CallsInv, AreCalls
<1>2. ui' = [ui EXCEPT !.calls = (ui.calls \ {c}) \cup {e}]
  BY DEF Served
<1> HIDE DEF reply
<1>3. IsCall(e) /\ e.lane = c.lane /\ e.arg = c.arg /\ e.reply = reply /\ e.live = c.live
  BY <1>1, ServedCall
<1> HIDE DEF e
<1>4. Asking(e.arg, c.arg.query) /\ c.arg.query \in Queries
  BY <1>1, <1>3, KnownQuery DEF Asking
<1>5. Known(e)
  BY <1>3, <1>4 DEF Known, reply
<1>6. Wanted(c) /\ Wanted(e) /\ e.arg.query = c.arg.query
  BY <1>3 DEF Wanted
<1> QED
  BY <1>2, <1>3, <1>5, <1>6, ServerStep

LEMMA CountRowsInv == ASSUME IInv, NEW c \in ui.calls, CountRows(c) PROVE IInv'
<1>1. /\ c.lane = "history" /\ c.live /\ c.reply = Waiting
      /\ IsCall(c) /\ Known(c) /\ UNCHANGED <<url, navigation>>
  BY DEF CountRows, IInv, PageInv, CallsInv, AreCalls
<1> DEFINE S == Matching(c.arg.query)
           arg == [c.arg EXCEPT !.counted = <<S>>]
           e == [c EXCEPT !.arg.counted = <<S>>]
<1>2. CASE ui' = [ui EXCEPT !.calls = Served(ui.calls, c, InvalidRange)]
  BY <1>1, <1>2, AnswerStep DEF Replied
<1>3. CASE ui' = [ui EXCEPT !.calls = (ui.calls \ {c}) \cup {e}]
  <2>1. c.arg.query \in Queries /\ c.arg = [query |-> c.arg.query, counted |-> c.arg.counted]
    BY <1>1, KnownQuery
  <2>2. S \in SUBSET Experiment
    BY <2>1, Matches
  <2> HIDE DEF S
  <2>3. arg = [query |-> c.arg.query, counted |-> <<S>>]
    BY <2>1
  <2>4. e = [c EXCEPT !.arg = arg]
    OBVIOUS
  <2> HIDE DEF arg, e
  <2>5. e = [lane |-> c.lane, arg |-> arg, reply |-> c.reply, live |-> c.live]
    BY <1>1, <2>4 DEF IsCall
  <2>6. IsCall(e) /\ e.lane = c.lane /\ e.arg = arg /\ e.reply = Waiting /\ e.live
    BY <1>1, <2>5 DEF IsCall
  <2>7. Asking(arg, c.arg.query) /\ arg.query = c.arg.query
    BY <2>2, <2>3 DEF Asking, Counted
  <2>8. Known(e) /\ Wanted(e) /\ Wanted(c)
    BY <1>1, <2>1, <2>6, <2>7 DEF Known, Replied, Wanted
  <2> QED
    BY <1>1, <1>3, <2>6, <2>7, <2>8, ServerStep DEF e
<1> QED
  BY <1>2, <1>3 DEF CountRows

(* If no match that was counted has gone, there are at least as many when   *)
(* the rows are read, and a page within the count has one.                 *)
LEMMA AnswerToCount ==
  ASSUME NEW q \in Queries, NEW S \in SUBSET Experiment, NEW T \in SUBSET Experiment
  PROVE  AnswerInv(q, Answer(Cardinality(S), q.page <= Cardinality(T), ~(S \subseteq T)))
<1>1. Cardinality(S) \in 0..MaxExperiments /\ Cardinality(T) \in 0..MaxExperiments
  BY Sizes
<1>2. S \subseteq T => Cardinality(S) <= Cardinality(T)
  BY Sizes
<1>3. q.page \in Nat
  BY BoundsAssumption DEF Queries
<1> DEFINE n == Cardinality(S)
           m == Cardinality(T)
           items == q.page <= m
           overtaken == ~(S \subseteq T)
           a == Answer(n, items, overtaken)
<1>4. q.page <= n => items \/ overtaken
  BY <1>1, <1>2, <1>3, BoundsAssumption
<1>5. items \in BOOLEAN /\ overtaken \in BOOLEAN
  OBVIOUS
<1> HIDE DEF items, overtaken, n, m
<1>6. a.total = n /\ a.items = items /\ a.overtaken = overtaken
  BY DEF Answer
<1>7. n \in 0..MaxExperiments
  BY <1>1 DEF n
<1> HIDE DEF a
<1>8. AnswerInv(q, a)
  BY <1>4, <1>5, <1>6, <1>7 DEF AnswerInv
<1> QED
  BY <1>8 DEF a, n, m, items, overtaken

LEMMA ReadRowsInv == ASSUME IInv, NEW c \in ui.calls, ReadRows(c) PROVE IInv'
<1> DEFINE q == c.arg.query
           S == c.arg.counted[1]
           T == Matching(q)
           a == Answer(Cardinality(S), q.page <= Cardinality(T), ~(S \subseteq T))
           r == Answered(a)
<1>1. /\ c.lane = "history" /\ c.live /\ c.arg.counted # NotYet
      /\ Known(c) /\ UNCHANGED <<url, navigation>>
      /\ ui' = [ui EXCEPT !.calls = Served(ui.calls, c, r)]
  BY DEF ReadRows, IInv, PageInv, CallsInv
<1>2. q \in Queries /\ Counted(c.arg.counted)
  BY <1>1, KnownQuery
<1>3. S \in SUBSET Experiment
  BY <1>1, <1>2 DEF Counted
<1>4. T \in SUBSET Experiment
  BY <1>2, Matches
<1>5. AnswerInv(q, a)
  BY <1>2, <1>3, <1>4, AnswerToCount
<1> HIDE DEF a
<1>6. Replied(<<r>>, c.arg.query)
  BY <1>5 DEF Replied
<1> HIDE DEF r
<1> QED
  BY <1>1, <1>6, AnswerStep
-----------------------------------------------------------------------------
LEMMA RefusedRange ==
  LET o == request(InvalidRange) IN o.kind # "data"
<1> DEFINE status == 422
           code == "INVALID_HISTORY_DATE_RANGE"
           retryable == status >= 500
<1>1. InvalidRange = Response(status, "envelope", code, None)
  BY DEF InvalidRange, Refused
<1>2. request(InvalidRange) = parseApiError(status, "envelope", code)
  BY <1>1 DEF request, Response, parseResponsePayload, ThrownAsNetwork
<1>3. parseApiError(status, "envelope", code) = Error("application", status, code, retryable)
  BY DEF parseApiError
<1> HIDE DEF retryable
<1> QED
  BY <1>2, <1>3 DEF Error

(* What the page gets of a call for the list: an answer, an error or        *)
(* nothing.                                                                *)
LEMMA ListOutcomes ==
  ASSUME NEW c, Known(c), c.lane = "history",
         NEW o \in IF c.reply = Waiting THEN Lost ELSE Outcomes(c.reply[1])
  PROVE  \/ o.kind # "data" /\ o \in Lost \cup {request(InvalidRange)}
         \/ o.kind = "data" /\ AnswerInv(c.arg.query, o.value)
<1>1. CASE o \in Lost
  BY <1>1, LostCalls
<1>2. CASE o \notin Lost
  <2>1. c.reply # Waiting /\ o = request(c.reply[1])
    BY <1>2 DEF Outcomes
  <2>2. Replied(c.reply, c.arg.query)
    BY KnownQuery
  <2>3. CASE c.reply = <<InvalidRange>>
    <3>1. o = request(InvalidRange)
      BY <2>1, <2>3
    <3> QED
      BY <3>1, RefusedRange
  <2>4. ASSUME NEW a, AnswerInv(c.arg.query, a), c.reply = <<Answered(a)>>
        PROVE  o.kind = "data" /\ AnswerInv(c.arg.query, o.value)
    <3>1. o = Data(a)
      BY <2>1, <2>4, AnsweredIsData
    <3>2. o.kind = "data" /\ o.value = a
      BY <3>1 DEF Data
    <3> QED
      BY <2>4, <3>2
  <2> QED
    BY <2>1, <2>2, <2>3, <2>4 DEF Replied
<1> QED
  BY <1>1, <1>2

(* The page once a call has ended, the list having been wanted or not.     *)
LEMMA EndedCall ==
  ASSUME IInv, NEW c \in ui.calls, c.lane = "history",
         NEW u, u = [ui EXCEPT !.calls = Ended(ui.calls, c)]
  PROVE  /\ PageInv(u) /\ WantedInv(u) /\ ListInv(u)
         /\ u.query = ui.query /\ u.rows = ui.rows
         /\ u.error = ui.error /\ u.flags = ui.flags
         /\ c.live => ~Pending(u.calls, "history") /\ Loading(u) /\ c.arg.query = ui.query
         /\ ~c.live => (Pending(u.calls, "history") <=> Pending(ui.calls, "history"))
<1> DEFINE k == Ended(ui.calls, c)
<1>1. k = ui.calls \ {c}
  BY DEF Ended
<1> HIDE DEF k
<1>2. /\ IsPage(u) /\ u.query = ui.query /\ u.rows = ui.rows
      /\ u.error = ui.error /\ u.flags = ui.flags /\ u.calls = k
      /\ u.downloadFailed = ui.downloadFailed
  <2>1. u = [ui EXCEPT !.calls = k]
    BY DEF k
  <2>2. IsPage(ui)
    BY DEF IInv, PageInv
  <2> QED
    BY <2>1, <2>2, CallsRecord
<1>3. CallsInv(k) /\ OneLive(k)
  BY <1>1 DEF IInv, PageInv, CallsInv, AreCalls, WantedInv, OneLive
<1>4. PageInv(u)
  BY <1>2, <1>3 DEF IInv, PageInv, SignalsInv
<1>5. c.live => ~Pending(k, "history")
  BY <1>1 DEF IInv, WantedInv, OneLive, Pending
<1>6. c.live => Pending(ui.calls, "history") /\ Wanted(c)
  BY DEF Pending, Wanted
<1>7. ~c.live => (Pending(k, "history") <=> Pending(ui.calls, "history"))
  BY <1>1 DEF Pending
<1>8. /\ \A d \in k : Wanted(d) => d.arg.query = ui.query
      /\ Pending(k, "history") => Loading(u)
      /\ c.live => Loading(u) /\ c.arg.query = ui.query
      /\ Loading(u) <=> Loading(ui)
  BY <1>1, <1>2, <1>5, <1>6, <1>7 DEF IInv, WantedInv, Loading
<1> QED
  BY <1>2, <1>3, <1>4, <1>5, <1>7, <1>8 DEF IInv, WantedInv, ListInv

(* A load that ends while the URL agrees with its query.                   *)
LEMMA SettledStep ==
  ASSUME IInv, NEW v, PageInv(v), WantedInv(v), ListInv(v), ~Loading(v), ui' = v,
         UNCHANGED <<url, navigation>>, v.query = ui.query,
         \E c \in ui.calls : Wanted(c)
  PROVE  IInv'
<1>1. Pending(ui.calls, "history")
  BY DEF Wanted, Pending
<1>2. UrlInv'
  BY <1>1 DEF IInv, UrlInv, Clamping, Target, Agree, Loading
<1> QED
  BY <1>2, PrimedPage DEF IInv

(* A page number is corrected to that of a page that exists; one that       *)
(* stands is within the total, or the list is empty.                       *)
LEMMA CanonicalPage ==
  ASSUME NEW q \in Queries, NEW n \in 0..MaxExperiments
  PROVE  /\ Canonical(q, n) \in 1..MaxExperiments
         /\ Canonical(q, n) = q.page => n = 0 \/ q.page <= n
  BY BoundsAssumption DEF Canonical, Queries

LEMMA ReceiveListInv == ASSUME IInv, NEW c \in ui.calls, ReceiveList(c) PROVE IInv'
<1> DEFINE u == [ui EXCEPT !.calls = Ended(ui.calls, c)]
           asked == c.arg.query
<1>1. c.lane = "history" /\ Known(c) /\ url' = url /\ asked \in Queries
  BY KnownQuery DEF ReceiveList, IInv, PageInv, CallsInv
<1>2. /\ PageInv(u) /\ WantedInv(u) /\ ListInv(u)
      /\ u.query = ui.query /\ u.rows = ui.rows
      /\ u.error = ui.error /\ u.flags = ui.flags
      /\ c.live => ~Pending(u.calls, "history") /\ Loading(u) /\ asked = ui.query
      /\ ~c.live => (Pending(u.calls, "history") <=> Pending(ui.calls, "history"))
  BY <1>1, EndedCall
<1>3. PICK o \in IF c.reply = Waiting THEN Lost ELSE Outcomes(c.reply[1]) :
        CASE ~IsCurrent(c) -> ui' = u /\ UNCHANGED navigation
          [] IsCurrent(c) /\ o.kind = "data" ->
               LET page == Canonical(asked, o.value.total)
               IN IF page # asked.page
                  THEN /\ \E dates \in Period :
                            navigation' = syncUrl([asked EXCEPT !.page = page], dates)
                       /\ ui' = u
                  ELSE ui' = ListLoaded(u, asked, o.value) /\ UNCHANGED navigation
          [] OTHER -> ui' = ListFailed(u, o) /\ UNCHANGED navigation
  BY DEF ReceiveList
<1>4. \/ o.kind # "data" /\ o \in Lost \cup {request(InvalidRange)}
      \/ o.kind = "data" /\ AnswerInv(asked, o.value)
  BY <1>1, <1>3, ListOutcomes
<1> HIDE DEF u, asked
<1>5. CASE ~c.live
  <2>1. ui' = u /\ UNCHANGED navigation
    BY <1>3, <1>5 DEF IsCurrent
  <2>2. OneLive(u.calls) /\ \A d \in u.calls : Wanted(d) => d.arg.query = ui.query
    BY <1>2 DEF WantedInv
  <2> QED
    BY <1>1, <1>2, <1>5, <2>1, <2>2, CalmStep DEF Loading
<1>6. CASE c.live /\ o.kind = "data" /\ Canonical(asked, o.value.total) # asked.page
  <2> DEFINE page == Canonical(asked, o.value.total)
             q == [asked EXCEPT !.page = page]
  <2>1. PICK dates \in Period : navigation' = syncUrl(q, dates) /\ ui' = u
    BY <1>3, <1>6 DEF IsCurrent
  <2>2. page \in 1..MaxExperiments
    BY <1>1, <1>4, <1>6, CanonicalPage DEF AnswerInv
  <2> HIDE DEF page
  <2>3. q \in Queries /\ q.page = page
    BY <1>1, <2>2 DEF Queries
  <2> HIDE DEF q
  <2>4. navigation' \in Queries /\ navigation'.page = page
    BY <2>1, <2>3, QueryFields DEF Agree
  <2>5. Target'.page # u.query.page
    BY <1>2, <1>6, <2>4, NoneAssumption DEF Target, page
  <2>6. UrlInv'
    BY <1>1, <1>2, <1>6, <2>1, <2>4, <2>5 DEF IInv, UrlInv, Clamping
  <2>7. PageInv(ui)' /\ WantedInv(ui)' /\ ListInv(ui)'
    BY <1>2, <2>1, PrimedPage
  <2> QED
    BY <2>6, <2>7 DEF IInv
<1>7. CASE c.live /\ o.kind = "data" /\ Canonical(asked, o.value.total) = asked.page
  <2> DEFINE a == o.value
             r == [query |-> asked, total |-> a.total, items |-> a.items,
                   overtaken |-> a.overtaken]
             f == u.flags \ {"loading", "refreshing"}
             v == [u EXCEPT !.rows = r, !.flags = f]
  <2>1. ui' = v /\ UNCHANGED navigation
    BY <1>3, <1>7 DEF IsCurrent, ListLoaded
  <2>2. RowsInv(r) /\ r.query = asked
    <3>1. AnswerInv(asked, a)
      BY <1>4, <1>7
    <3>2. a.total = 0 \/ asked.page <= a.total
      BY <1>1, <1>7, <3>1, CanonicalPage DEF AnswerInv
    <3> HIDE DEF a
    <3> QED
      BY <1>1, <3>1, <3>2 DEF RowsInv, AnswerInv
  <2>3. f \cap {"loading", "refreshing"} = {} /\ f \subseteq u.flags
    OBVIOUS
  <2> HIDE DEF r, f, v
  <2>4. /\ IsPage(v) /\ v.query = u.query /\ v.rows = r
        /\ v.error = u.error /\ v.flags = f /\ v.calls = u.calls
        /\ v.downloadFailed = u.downloadFailed
    <3>1. v = Filled(u, r, f)
      BY DEF v, Filled
    <3> QED
      BY <1>2, <3>1, LoadedRecord DEF PageInv
  <2>5. PageInv(v) /\ WantedInv(v) /\ ListInv(v) /\ ~Loading(v)
    BY <1>2, <1>7, <2>2, <2>3, <2>4 DEF PageInv, SignalsInv, WantedInv, ListInv, Loading
  <2> QED
    BY <1>1, <1>2, <1>7, <2>1, <2>4, <2>5, SettledStep DEF Wanted
<1>8. CASE c.live /\ o.kind # "data"
  <2> DEFINE f == u.flags \ {"loading", "refreshing"}
             v == [u EXCEPT !.error = o, !.flags = f]
  <2>1. ui' = v /\ UNCHANGED navigation
    BY <1>3, <1>8 DEF IsCurrent, ListFailed
  <2>2. f \cap {"loading", "refreshing"} = {} /\ f \subseteq u.flags /\ o # None
    BY <1>4, <1>8, NoneAssumption
  <2> HIDE DEF f, v
  <2>3. /\ IsPage(v) /\ v.query = u.query /\ v.rows = u.rows
        /\ v.error = o /\ v.flags = f /\ v.calls = u.calls
        /\ v.downloadFailed = u.downloadFailed
    <3>1. v = Failed(u, o, f)
      BY DEF v, Failed
    <3> QED
      BY <1>2, <3>1, FailedRecord DEF PageInv
  <2>4. PageInv(v) /\ WantedInv(v) /\ ListInv(v) /\ ~Loading(v)
    BY <1>2, <1>4, <1>8, <2>2, <2>3 DEF PageInv, SignalsInv, WantedInv, ListInv, Loading
  <2> QED
    BY <1>1, <1>2, <1>8, <2>1, <2>3, <2>4, SettledStep DEF Wanted
<1> QED
  BY <1>5, <1>6, <1>7, <1>8
-----------------------------------------------------------------------------
LEMMA InitInv == Init => IInv
<1> SUFFICES ASSUME Init PROVE IInv
  OBVIOUS
<1>1. url \in Queries
  BY BoundsAssumption, PeriodAssumption DEF Init, Query, Queries
<1>2. NewPage(url) = [query |-> url, rows |-> NoRows, error |-> None,
                      downloadFailed |-> FALSE, flags |-> {"loading"}, calls |-> {}]
  BY DEF NewPage
<1>3. PageInv(NewPage(url)) /\ OneLive(NewPage(url).calls)
  <2>1. RowsInv(NoRows)
    BY BoundsAssumption DEF RowsInv, NoRows
  <2>2. CallsInv({}) /\ OneLive({})
    BY DEF CallsInv, AreCalls, OneLive
  <2>4. /\ IsPage(NewPage(url)) /\ NewPage(url).query = url
        /\ NewPage(url).rows = NoRows
        /\ NewPage(url).calls = {} /\ SignalsInv(NewPage(url))
    BY <1>2 DEF IsPage, SignalsInv, Signals
  <2> QED
    BY <1>1, <2>1, <2>2, <2>4 DEF PageInv
<1>4. PageInv(ui) /\ WantedInv(ui) /\ ListInv(ui) /\ ~Clamping(ui) /\ ui.query = url
  BY <1>1, <1>3, SetQueryInv DEF Init
<1>5. navigation = None
  BY DEF Init
<1> QED
  BY <1>1, <1>4, <1>5 DEF IInv, UrlInv, Target, Agree

LEMMA NextInv == IInv /\ [Next]_vars => IInv'
<1> SUFFICES ASSUME IInv, [Next]_vars PROVE IInv'
  OBVIOUS
<1>1. CASE User
  BY <1>1, applyFiltersInv, resetFiltersInv, movePageInv, RetryInv, exportCsvInv
    DEF User
<1>2. CASE Navigate
  BY <1>2, NavigateInv
<1>3. CASE UNCHANGED <<url, navigation, ui>>
  <2>1. UrlInv'
    BY <1>3 DEF IInv, UrlInv, Clamping, Target, Agree
  <2>2. PageInv(ui)' /\ WantedInv(ui)' /\ ListInv(ui)'
    BY <1>3, PrimedPage DEF IInv
  <2> QED
    BY <2>1, <2>2 DEF IInv
<1>4. ASSUME NEW c \in ui.calls,
             CountRows(c) \/ ReadRows(c) \/ ReceiveList(c) \/ ReceiveCsv(c)
      PROVE  IInv'
  BY <1>4, CountRowsInv, ReadRowsInv, ReceiveListInv, ReceiveCsvInv
<1> QED
  BY <1>1, <1>2, <1>3, <1>4 DEF Next, Create, Run, vars
-----------------------------------------------------------------------------
LEMMA AlwaysIInv == Safe => []IInv
  BY InitInv, NextInv, PTL DEF Safe

LEMMA RestMeansShown == IInv => ListIsOfTheQuery
<1> SUFFICES ASSUME IInv, AtRest
             PROVE  ui.rows.query = ui.query /\ [url EXCEPT !.period = ui.query.period] = ui.query
  BY DEF ListIsOfTheQuery
<1>1. ~Loading(ui) /\ ui.error = None /\ navigation = None
  BY DEF AtRest, Loading
<1>2. ui.rows.query = ui.query
  BY <1>1 DEF IInv, ListInv
<1>3. Agree(url, ui.query) /\ url \in Queries /\ ui.query \in Queries
  BY <1>1 DEF IInv, UrlInv, PageInv, Clamping, Target
<1>4. [url EXCEPT !.period = ui.query.period] = ui.query
  BY <1>3 DEF Agree, Queries
<1> QED
  BY <1>2, <1>4

(* However filters, pages, retries, late answers and the router interleave, *)
(* a list at rest is that of the query, and the URL has its page and status. *)
THEOREM ListFollowsQuery == Safe => []ListIsOfTheQuery
  BY AlwaysIInv, RestMeansShown, PTL

LEMMA Counting == ASSUME NEW n \in Nat PROVE Cardinality(1..n) = n
  BY FS_Interval

LEMMA InitDone == Init => DoneInv
<1> SUFFICES ASSUME Init PROVE DoneInv
  OBVIOUS
<1>1. {0, MaxExperiments - 1} \subseteq 0..MaxExperiments
  BY BoundsAssumption
<1> QED
  BY <1>1 DEF Init, DoneInv

LEMMA NextDone == DoneInv /\ [Next]_vars => DoneInv'
<1> SUFFICES ASSUME DoneInv, [Next]_vars PROVE DoneInv'
  OBVIOUS
<1>1. PICK n \in 0..MaxExperiments : done \in [1..n -> BOOLEAN]
  BY DEF DoneInv
<1>2. CASE Create
  <2>1. Cardinality(DOMAIN done) = n
    BY <1>1, Counting, BoundsAssumption
  <2>2. n + 1 \in 0..MaxExperiments /\ done' = [x \in 1..n + 1 |-> x \in 1..n /\ done[x]]
    BY <1>1, <1>2, <2>1, BoundsAssumption DEF Create
  <2>3. \A x \in 1..n + 1 : (x \in 1..n /\ done[x]) \in BOOLEAN
    BY <1>1
  <2>4. done' \in [1..n + 1 -> BOOLEAN]
    BY <2>2, <2>3
  <2> QED
    BY <2>2, <2>4 DEF DoneInv
<1>3. CASE Run
  BY <1>1, <1>3 DEF Run, DoneInv
<1>4. CASE UNCHANGED done
  BY <1>4 DEF DoneInv
<1> QED
  BY <1>2, <1>3, <1>4
    DEF Next, vars, User, applyFilters, resetFilters, movePage, Retry, exportCsv,
        Navigate, CountRows, ReadRows, ReceiveList, ReceiveCsv

(* Experiments, query, URL, rows, error and flags keep to their sets, and  *)
(* of each lane one request at most is wanted.                             *)
THEOREM HistoryIsTyped == Safe => []TypeOK
<1>1. Safe => []DoneInv
  BY InitDone, NextDone, PTL DEF Safe
<1>2. ASSUME IInv PROVE \A l \in {"history", "csv"} :
                          Cardinality({c \in ui.calls : c.lane = l /\ c.live}) <= 1
  <2> TAKE l \in {"history", "csv"}
  <2> DEFINE S == {c \in ui.calls : c.lane = l /\ c.live}
  <2>1. \A c, d \in S : c = d
    BY <1>2 DEF IInv, WantedInv, OneLive
  <2> HIDE DEF S
  <2>2. CASE S = {}
    <3>1. Cardinality(S) = 0
      BY <2>2, FS_EmptySet
    <3> QED
      BY <3>1 DEF S
  <2>3. CASE S # {}
    <3>1. PICK c \in S : TRUE
      BY <2>3
    <3>2. S = {c}
      BY <2>1, <3>1
    <3>3. Cardinality(S) = 1
      BY <3>2, FS_Singleton
    <3> QED
      BY <3>3 DEF S
  <2> QED
    BY <2>2, <2>3
<1>3. IInv /\ DoneInv => TypeOK
  <2> SUFFICES ASSUME IInv, DoneInv PROVE TypeOK
    OBVIOUS
  <2>1. PageInv(ui) /\ url \in Queries /\ navigation \in Queries \cup {None}
    BY DEF IInv, UrlInv
  <2>2. SignalsInv(ui) /\ RowsInv(ui.rows) /\ ui.query \in Queries
    BY <2>1 DEF PageInv
  <2> QED
    BY <1>2, <2>1, <2>2 DEF TypeOK, DoneInv, SignalsInv, Signals, RowsInv
<1> QED
  BY <1>1, <1>3, AlwaysIInv, PTL

(* Whatever is created and carried out while the page asks, an empty list   *)
(* at rest is that of a filter nothing matched when its matches were        *)
(* counted, or of one that lost a counted match before its rows were read. *)
THEOREM EmptyListIsExplained == Safe => []EmptyIsExplained
<1>1. IInv => EmptyIsExplained
  BY DEF IInv, PageInv, RowsInv, EmptyIsExplained
<1> QED
  BY AlwaysIInv, <1>1, PTL

(* A list that counts as loading has a request or a navigation to end that, *)
(* but for the correction to the URL that is shown.                        *)
THEOREM LoadingHasCause == Safe => []IndicatorHasCause
<1>1. IInv => IndicatorHasCause
  BY DEF IInv, UrlInv, Clamping, Loading, Target, IndicatorHasCause
<1> QED
  BY AlwaysIInv, <1>1, PTL

(* The CSV file asked for at rest has the filters of the list.              *)
THEOREM ExportFollowsList == Safe => ExportMatchesList
<1>1. ASSUME IInv, AtRest, exportCsv
      PROVE  \E c \in ui'.calls : c.lane = "csv" /\ c.arg = Filter(ui.rows.query)
  <2> DEFINE k == Sent(ui.calls, "csv", Filter(ui.query))
             new == Call("csv", Filter(ui.query))
  <2>1. ui.rows.query = ui.query
    BY <1>1, RestMeansShown DEF ListIsOfTheQuery
  <2>2. new \in k /\ new.lane = "csv" /\ new.arg = Filter(ui.query)
    BY <1>1, SentCalls, CallFields DEF IInv, PageInv, CallsInv
  <2>3. ui'.calls = k
    <3> DEFINE f == ui.flags \cup {"downloading"}
               b == FALSE
    <3>1. ui' = [ui EXCEPT !.downloadFailed = b, !.flags = f, !.calls = k]
      BY <1>1 DEF exportCsv
    <3> HIDE DEF f, b, k
    <3>2. ui' = CsvSent(ui, k, f, b)
      BY <3>1 DEF CsvSent
    <3> QED
      BY <1>1, <3>2, CsvSentRecord DEF IInv, PageInv
  <2> QED
    BY <2>1, <2>2, <2>3
<1>2. IInv => [AtRest /\ exportCsv =>
                 \E c \in ui'.calls : c.lane = "csv" /\ c.arg = Filter(ui.rows.query)]_vars
  BY <1>1
<1> QED
  BY AlwaysIInv, <1>2, PTL DEF ExportMatchesList
=============================================================================
