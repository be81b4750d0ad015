---------------------------- MODULE HistoryPage ----------------------------
(***************************************************************************)
(* The list of a project's experiments (project-history-client.tsx), its   *)
(* filters, pages and CSV file, with the URL that keeps them.  Filters are *)
(* a period and a status; sorting and the other statuses are like the      *)
(* latter and left out.  A page of the list holds one experiment.          *)
(***************************************************************************)
EXTENDS ApiClient, Requests, Naturals, FiniteSets

CONSTANTS InPeriod,      \* period -> experiments created in it
          Whole,         \* the period of an empty date range
          Reversed,      \* periods whose start is after their end
          MaxExperiments,\* bound: experiments of the project
          MaxBeside      \* bound: calls under way beside the latest for the list

Period == DOMAIN InPeriod
Experiment == 1..MaxExperiments

ASSUME PeriodAssumption == /\ InPeriod \in [Period -> SUBSET Experiment]
                           /\ Whole \in Period /\ InPeriod[Whole] = Experiment
                           /\ Reversed \subseteq Period \ {Whole}
ASSUME BoundsAssumption == MaxExperiments \in Nat \ {0} /\ MaxBeside \in Nat

VARIABLES done,          \* committed: experiment -> it was carried out
          url,           \* the query of the URL that is shown
          navigation,    \* the query router.replace() was last asked for, or None
          ui             \* what the page holds

vars == <<done, url, navigation, ui>>

Statuses == {"any", "CREATED"}
Query(period, status, page) == [period |-> period, status |-> status, page |-> page]
Filter(q) == [period |-> q.period, status |-> q.status]
Queries == [period : Period, status : Statuses, page : 1..MaxExperiments]

InvalidRange == Refused(422, "INVALID_HISTORY_DATE_RANGE")

(* None is no query and no error.                                          *)
ASSUME NoneAssumption == None \notin Queries \cup Lost \cup {request(InvalidRange)}

(* ---- The server: experiments 1, 2, ... were created in this order. ------ *)

Matching(q) ==
  {x \in DOMAIN done \cap InPeriod[q.period] : q.status = "any" \/ ~done[x]}

Create ==
  /\ Cardinality(DOMAIN done) < MaxExperiments
  /\ done' = [x \in 1..Cardinality(DOMAIN done) + 1 |-> x \in DOMAIN done /\ done[x]]
  /\ UNCHANGED <<url, navigation, ui>>

Run ==
  /\ \E x \in DOMAIN done : ~done[x] /\ done' = [done EXCEPT ![x] = TRUE]
  /\ UNCHANGED <<url, navigation, ui>>

(* ---- The page. ----------------------------------------------------------- *)

(* A call for the list: the query asked for, and the experiments that were  *)
(* counted for it, if they were.  A call for the file: its filter.         *)
NotYet == << >>
Asked(q) == [query |-> q, counted |-> NotYet]

(* A load that is aborted before it was answered brings nothing any more:   *)
(* AbortError and the request counter both make load() return.             *)
Unanswered(calls) == {c \in calls : c.lane = "history" /\ c.reply = Waiting}

Load(u, q) ==
  [u EXCEPT !.error = None,
            !.flags = @ \cup {IF u.rows.items THEN "refreshing" ELSE "loading"},
            !.calls = Sent(@ \ Unanswered(@), "history", Asked(q))]

(* setQuery with a new object: its effect loads it.                        *)
SetQuery(u, q) == Load([u EXCEPT !.query = q], q)

(* syncUrl takes the period from the date inputs.  What stands there is     *)
(* what was typed last, applied or not: any period, whenever it is read.   *)
syncUrl(q, dates) == Query(dates, q.status, q.page)

(* The answer shown: its total, whether it has items, and of history:       *)
(* whether a match that was counted had gone when the rows were read.      *)
Answer(total, items, overtaken) ==
  [total |-> total, items |-> items, overtaken |-> overtaken]
NoRows == [query |-> None, total |-> 0, items |-> FALSE, overtaken |-> FALSE]

(* A page past the last one is asked for again under its corrected number, *)
(* by way of the URL; until then the list counts as loading.               *)
\* Mutant: the page number is not corrected.
Canonical_NoClamp(q, total) == q.page

Canonical(q, total) ==
  IF total = 0 THEN 1 ELSE IF q.page > total THEN total ELSE q.page

ListLoaded(u, q, answer) ==
  [u EXCEPT !.rows = [query |-> q, total |-> answer.total, items |-> answer.items,
                      overtaken |-> answer.overtaken],
            !.flags = @ \ {"loading", "refreshing"}]

\* Mutant: an error ends the indicator of a first load only.
ListFailed_StillRefreshing(u, o) ==
  [u EXCEPT !.error = o, !.flags = @ \ {"loading"}]

ListFailed(u, o) ==
  [u EXCEPT !.error = o, !.flags = @ \ {"loading", "refreshing"}]
-----------------------------------------------------------------------------
NewPage(q) ==
  [query |-> q, rows |-> NoRows, error |-> None,
   downloadFailed |-> FALSE, flags |-> {"loading"}, calls |-> {}]

(* The page is opened at any URL, also at a page that does not exist, or    *)
(* with a period that the date inputs would not apply.                     *)
Init ==
  /\ done \in UNION {[1..n -> BOOLEAN] : n \in {0, MaxExperiments - 1}}
  /\ url \in {Query(d, s, p) : d \in {Whole} \cup Reversed, s \in Statuses,
                               p \in {1, MaxExperiments}}
  /\ navigation = None
  /\ ui = SetQuery(NewPage(url), url)

Idle == "refreshing" \notin ui.flags

(* A reversed range is refused by the form.                                *)
applyFilters ==
  /\ Idle
  /\ \E dates \in Period \ Reversed, status \in Statuses :
       LET q == Query(dates, status, 1)
       IN /\ navigation' = syncUrl(q, dates)
          /\ ui' = SetQuery(ui, q)
  /\ UNCHANGED <<done, url>>

resetFilters ==
  /\ Idle
  /\ LET q == Query(Whole, "any", 1)
     IN /\ navigation' = syncUrl(q, Whole)
        /\ ui' = SetQuery(ui, q)
  /\ UNCHANGED <<done, url>>

(* Pagination: the buttons of a list that has rows.                        *)
movePage ==
  /\ Idle /\ ui.rows.items
  /\ \E page \in {ui.rows.query.page - 1, ui.rows.query.page + 1} \cap 1..ui.rows.total,
        dates \in Period :
       LET q == [ui.query EXCEPT !.page = page]
       IN /\ navigation' = syncUrl(q, dates)
          /\ ui' = SetQuery(ui, q)
  /\ UNCHANGED <<done, url>>

Retry ==
  /\ ui.error # None /\ ui.error.code # InvalidRange.code
  /\ ui.error.retryable \/ ui.rows.items
  /\ ui' = Load(ui, ui.query)
  /\ UNCHANGED <<done, url, navigation>>

\* Mutant: the file is asked for with the period in the date inputs.
exportCsv_TypedDates ==
  /\ ui.flags \cap {"downloading", "loading"} = {}
  /\ \E dates \in Period :
       ui' = [ui EXCEPT !.downloadFailed = FALSE,
                        !.flags = @ \cup {"downloading"},
                        !.calls = Sent(@, "csv", Filter(syncUrl(ui.query, dates)))]
  /\ UNCHANGED <<done, url, navigation>>

exportCsv ==
  /\ ui.flags \cap {"downloading", "loading"} = {}
  /\ ui' = [ui EXCEPT !.downloadFailed = FALSE,
                      !.flags = @ \cup {"downloading"},
                      !.calls = Sent(@, "csv", Filter(ui.query))]
  /\ UNCHANGED <<done, url, navigation>>

(* The router shows the URL it was asked for last.  The page it renders    *)
(* takes the query from the URL, if that has changed.                      *)
Navigate ==
  /\ navigation # None
  /\ url' = navigation /\ navigation' = None
  /\ ui' = IF navigation # url /\ navigation # ui.query
           THEN SetQuery(ui, navigation) ELSE ui
  /\ UNCHANGED done
-----------------------------------------------------------------------------
(* list_history: the count and the page of the matches, newest first, are   *)
(* two statements, each with the state committed by then.  What the server *)
(* makes of an aborted call that it has not answered changes nothing; one  *)
(* that was answered first may still be delivered.                         *)
CountRows(c) ==
  /\ c.lane = "history" /\ c.live /\ c.reply = Waiting /\ c.arg.counted = NotYet
  /\ ui' = [ui EXCEPT !.calls =
       IF c.arg.query.period \in Reversed
       THEN Served(@, c, InvalidRange)
       ELSE (@ \ {c}) \cup {[c EXCEPT !.arg.counted = <<Matching(c.arg.query)>>]}]
  /\ UNCHANGED <<done, url, navigation>>

(* The page has rows if its offset lies within the matches.                *)
ReadRows(c) ==
  /\ c.lane = "history" /\ c.live /\ c.reply = Waiting /\ c.arg.counted # NotYet
  /\ LET matches == Matching(c.arg.query)
         counted == c.arg.counted[1]
         answer == Answer(Cardinality(counted),
                          c.arg.query.page <= Cardinality(matches),
                          ~(counted \subseteq matches))
     IN ui' = [ui EXCEPT !.calls = Served(@, c, Answered(answer))]
  /\ UNCHANGED <<done, url, navigation>>

\* Mutant: an answer is taken whether or not it is still wanted.
IsCurrent_Always(c) == TRUE

IsCurrent(c) == c.live

ReceiveList(c) ==
  /\ c.lane = "history"
  /\ LET u == [ui EXCEPT !.calls = Ended(@, c)]
         answered(o) ==
           LET page == Canonical(c.arg.query, o.value.total)
           IN IF page # c.arg.query.page
              THEN /\ \E dates \in Period :
                        navigation' = syncUrl([c.arg.query EXCEPT !.page = page], dates)
                   /\ ui' = u
              ELSE ui' = ListLoaded(u, c.arg.query, o.value) /\ UNCHANGED navigation
     IN \E o \in IF c.reply = Waiting THEN Lost ELSE Outcomes(c.reply[1]) :
          CASE ~IsCurrent(c) -> ui' = u /\ UNCHANGED navigation
            [] IsCurrent(c) /\ o.kind = "data" -> answered(o)
            [] OTHER -> ui' = ListFailed(u, o) /\ UNCHANGED navigation
  /\ UNCHANGED <<done, url>>

(* The file is saved, or the error of a JSON answer shown.                 *)
CsvAnswers ==
  {downloadCsv(Response(200, "csv", None, "file")),
   downloadCsv(Refused(409, "CSV_EXPORT_ROW_LIMIT_EXCEEDED")),
   downloadCsv(Response(200, "json", None, None)), fetchResponse}

ReceiveCsv(c) ==
  /\ c.lane = "csv"
  /\ \E o \in CsvAnswers :
       ui' = [ui EXCEPT !.calls = Ended(@, c), !.flags = @ \ {"downloading"},
                        !.downloadFailed = o.kind # "data"]
  /\ UNCHANGED <<done, url, navigation>>
-----------------------------------------------------------------------------
User == applyFilters \/ resetFilters \/ movePage \/ Retry \/ exportCsv

(* Superseded calls that may still be answered, and the file's.             *)
Beside == Cardinality({c \in ui.calls : ~c.live \/ c.lane = "csv"})

Next ==
  \/ User /\ Beside' <= MaxBeside
  \/ Navigate /\ Beside' <= MaxBeside
  \/ Create \/ Run
  \/ \E c \in ui.calls : CountRows(c) \/ ReadRows(c) \/ ReceiveList(c) \/ ReceiveCsv(c)

Safe == Init /\ [][Next]_vars
-----------------------------------------------------------------------------
TypeOK ==
  /\ done \in UNION {[1..n -> BOOLEAN] : n \in 0..MaxExperiments}
  /\ url \in Queries /\ navigation \in Queries \cup {None}
  /\ ui.query \in Queries
  /\ ui.rows.query \in Queries \cup {None} /\ ui.rows.total \in 0..MaxExperiments
  /\ ui.rows.items \in BOOLEAN /\ ui.rows.overtaken \in BOOLEAN
  /\ ui.error \in {None} \cup Lost \cup {request(InvalidRange)}
  /\ ui.downloadFailed \in BOOLEAN
  /\ ui.flags \subseteq {"loading", "refreshing", "downloading"}
  /\ \A l \in {"history", "csv"} :
       Cardinality({c \in ui.calls : c.lane = l /\ c.live}) <= 1

(* No load is shown or under way, no error, and the URL has been shown.    *)
AtRest ==
  /\ ui.flags \cap {"loading", "refreshing"} = {}
  /\ ui.error = None /\ navigation = None

(* At rest the list is the one of the query, and the URL names its page    *)
(* and status: neither a late answer nor a late navigation, nor the        *)
(* correction of a page number, leaves list, filters and URL apart.  The   *)
(* URL's period may differ: it is the one typed when a page was last       *)
(* turned, applied or not.                                                 *)
ListIsOfTheQuery ==
  AtRest => ui.rows.query = ui.query /\ [url EXCEPT !.period = ui.query.period] = ui.query

(* A list at rest that has no rows, and is shown as an empty one without    *)
(* its pagination, is the list of a filter that nothing matched when its   *)
(* matches were counted, unless one of them was lost to the filter before  *)
(* the rows were read.  A page past the last one, opened by a bookmark or  *)
(* emptied before the count, is not left standing.                         *)
EmptyIsExplained ==
  AtRest /\ ~ui.rows.items => ui.rows.total = 0 \/ ui.rows.overtaken

(* The file asked for while the list is at rest has the list's filters,    *)
(* whatever has been typed since they were applied.                        *)
ExportMatchesList ==
  [][AtRest /\ exportCsv =>
       \E c \in ui'.calls : c.lane = "csv" /\ c.arg = Filter(ui.rows.query)]_vars

(* While the list counts as loading, a request or a navigation is on its   *)
(* way to end that.  The exception shows in the URL: a page number that    *)
(* was corrected to the one the URL already has brings no navigation.      *)
IndicatorHasCause ==
  ui.flags \cap {"loading", "refreshing"} # {} =>
    Pending(ui.calls, "history") \/ navigation # None \/ url # ui.query
=============================================================================
