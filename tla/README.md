# EvalOps: a TLA+ model of the evaluation workflow

EvalOps evaluates AI answers: a *project* owns *datasets* of *evaluation cases*, *targets* that
answer and *evaluators* that judge. Each of the three originals is mutable; immutable *versions*
are made of it, an *experiment* refers to one version of each, and an experiment is run once.
*Quality gates* and *baseline comparisons* are computed from finished experiments. The backend
(`backend/src`, FastAPI, SQLAlchemy async, PostgreSQL) holds all the state; the frontend
(`apps/web/src`, Next.js) shows it and triggers its changes, over connections that lose, delay
and reorder answers.

This directory holds TLA+ modules of the parts that carry this logic, TLC configurations that
check them on small instances and TLAPS proofs for every size. Paths below are relative to the
repository.

## 1. The system

| component | state | operations | what is hard | what makes it correct |
|---|---|---|---|---|
| dataset lifecycle (`evaluation_case_service`, `dataset_version_service`, `dataset_service`) | cases with a status, versions with their rows, `is_active` | create, update, approve, deprecate, create_version, deactivate | reads without locks before the write; only `create_version` locks (the dataset row) | versions are an append-only registry; hash and rows agree; a captured case is no draft |
| experiments (`experiment_service`) | experiment row, its results | create, run, get, results | double run, abort inside a run, readers during a run, deactivation meanwhile | run at most once and atomically, outcome determined by the three versions, counters agree with results |
| execution of a case (`execute_version` of targets and evaluators) | none | fixed response, CONTAINS / NOT_CONTAINS / REGEX | error paths | verdict and error code |
| targets, evaluators | configuration, versions | update, create_version | the same lock and hash scheme as datasets | version registry |
| projects | name, slug, `is_active` | create, update | check-then-insert of the slug | unique slug, no reactivation |
| quality gates, baseline comparisons | policies, results; comparisons, case rows | create policy, evaluate; create, list | duplicates, row locks, decimal rounding | one result per pair, no deadlock |
| history, trend, CSV export | none (reads) | list, export, trend | count and page are two statements | nobody who walks the pages misses an experiment |
| summary, dashboard, demo seed | none; a fixed graph | aggregates; seed | none that time changes | |
| API client (`lib/api/client.ts`, `errors.ts`) | none | `request`, `parseApiError`, `toApiError`, `downloadCsv` | a call may be cut at three places | every loss becomes an error that the page can act on |
| experiment page (`experiment-detail-client.tsx`) | experiment, scope, names, a page of results, the run | load, verify, run, reload, retry, turn pages | a run is followed by loads that other loads supersede; answers late or lost | an outcome shown stays; the loss of a run is signalled; a run is not repeated blindly |
| experiment form (`experiment-create-client.tsx`) | three choices, six paged lists, the submission | choose, turn pages, retry, submit | choices change faster than lists arrive | lists follow the choice; one form, one experiment |
| panels (`quality-gate-panel.tsx`, `baseline-comparison-panel.tsx`) | policy, result, candidates, comparison | create, evaluate, restore, compare, recover | no lookup by experiment: both walk a history that grows; answers lost after the commit | a walk skips none; what was committed is found or an error says to try again |
| history page (`project-history-client.tsx`, `DateRangeFilter`) | query, URL, list | filter, turn pages, export, navigate | query, URL and list change at different times; page numbers are corrected | at rest the three agree; the file is the list's |
| dataset, target, evaluator pages (`*-detail-client.tsx`) | original, lists, forms | every mutation, then a reload | reloads overlap with page turns and with each other | what was changed is shown; what failed is said |

On the backend components talk through the database only: one `AsyncSession`, that is one
transaction at READ COMMITTED, per HTTP request (`infrastructure/database.py`). A request that
fails or is cancelled closes its session without commit. The frontend talks to the backend by
HTTP through the API client. Within a page, a request is superseded by aborting its
`AbortController` and by counting requests in a ref; nothing tells the server.

## 2. Modules

| module | models |
|---|---|
| `VersionRegistry` | abstract: what a set of versions promises: numbers 1, 2, 3, ..., no form twice, nothing removed, nothing after the original is closed |
| `DatasetLifecycle` | cases, versions and deactivation of one dataset; refines `VersionRegistry` |
| `CaseExecution` | the verdict of one case as a function of target and evaluator version |
| `ExperimentLedger` | abstract: what experiments promise: planned once, carried out at most once and at once, with the outcome of the plan |
| `ExperimentLifecycle` | create, run and read experiments while resources are deactivated; refines `ExperimentLedger` |
| `ApiClient` | what a page gets from a call: data, or an error of a kind |
| `Requests` | the requests of a page in flight, in lanes |
| `ExperimentPage` | the page of one experiment against its stored status |
| `ExperimentForm` | the form of a new experiment |
| `HistoryPage` | the list of experiments, its filters and its URL |
| `HistoryWalk`, `QualityGatePanel`, `ComparisonPanel`, composed by `AnalysisPanels` | the two panels and the history that both look things up in |
| `DatasetPage`, `TargetPage`, composed by `ResourcePages` | the pages on which originals are edited and versioned |
| `*_proofs` | the theorems and lemmas about the module of that name; `Calls_proofs`: the lemmas about `ApiClient` and `Requests` |
| `MC*` | constants for TLC |

### DatasetLifecycle

`cases`, `versions` (with their rows), `projectActive`, `datasetActive` are the tables; `lock` is
the holder of the dataset row under `FOR UPDATE`; `req[s]` is one request: its operation, the
statement it sends next and the rows it has read. Each statement is an action, so any other
request may run between two statements:

| code | actions |
|---|---|
| `create_case` | LoadDataset, LoadProject, CheckDuplicateKey, InsertCase |
| `update_case` | LoadCase (status checked here), LoadDataset, LoadProject, SaveContent |
| `approve_case`, `deprecate_case` | LoadCase, LoadDataset, LoadProject (status checked here), SaveStatus |
| `create_version` | LockDataset, LoadProject, SelectApproved, CheckHash, ReadMaxVersion, InsertVersion (flush of the version row), InsertRows (its case rows and the commit) |
| `update_dataset` with `is_active = False` | LoadDataset, LoadProject, CloseDataset |
| `update_project` with `is_active = False` | LoadProject, CloseProject |
| an error answer, a lost connection | End, Abort: nothing is stored, the lock goes |

The last flush and the commit of a request are one step: what is flushed before the commit is
seen by no other request. `create_version` flushes twice: a request that ends between its version
row and its case rows leaves neither, because both are stored by the one commit. (With a commit after the version
row as well, TLC finds `HashDescribesRows` violated by the version without its rows.) The ORM writes changed columns only, so an update of the content
leaves the status as it finds it and the reverse; `SaveContent` and `SaveStatus` write to the row
as it is by then. Inserts of cases and the deactivation wait for `FOR UPDATE` (foreign key and
row lock). The editable columns of a case are one value, `Canon` is the normal form that
`_canonical_snapshot` hashes (NFC, trimmed, sorted lists), and SHA-256 is taken as free of
collisions. A key names one row: nothing deletes cases.

### ExperimentLifecycle and CaseExecution

A run is one transaction that starts with `SELECT ... FOR UPDATE` of the experiment. Its
status RUNNING, its counters and its results are flushed during the run but not visible; the
model keeps them in `req[s].tally` and `req[s].work` until `CommitRun`. RUNNING is therefore
never a stored status.

| code | actions |
|---|---|
| `create_experiment` | LoadDataset, LoadProject, LoadTarget, LoadEvaluator, InsertExperiment |
| `run_experiment` | LockExperiment, the four loads, ExecuteCase for each case, CommitRun |
| `get_experiment`, then `list_results` by the same client | ReadExperiment, ListResults |
| updates that deactivate a project, dataset, target or evaluator | Deactivate |

The dataset, target and evaluator version are immutable rows, so reading them is no step. Primary
keys are `uuid4`: `Fresh` says that no two requests draw the same. A target answers one fixed
response for all cases, so every case of a run has the same verdict: that is the code
(`target_service.py:173-190`), not a simplification. Texts and operands are abstract, related by
`Matches`; every error path of the two `execute_version` that a stored configuration can reach
is a branch of `Execute`; the `except Exception` of `run_experiment` is reached by a pattern on which `re.compile`
raises something else than `re.error` (`Raising`). A database error inside a case leaves a transaction that cannot go on: `Abort`.
The two codes that a stored version cannot reach are left out:
`UNSUPPORTED_RESPONSE_STRATEGY` and `UNSUPPORTED_EVALUATOR_TYPE`.

### ApiClient and Requests

A response is its status and the sort of its body (`markup`, `broken`, `envelope`, ...); `request`,
`parseApiError` and `downloadCsv` are functions of it. `Lost` is the set of what a page gets when
the answer does not arrive: `fetch` throws (`networkApiError`), a proxy answers 503 in markup (the
same), or the body is cut. The last is *not* a network error: `response.text()` throws outside the
`try` of `fetchResponse` (`client.ts:84`), and `toApiError` makes the non-retryable
`UNEXPECTED_RESPONSE` of it. The pages show no retry button for a cut body; the models have that.

A *lane* of `Requests` is one `AbortController` with its counter. `Sent` aborts the lane's previous
call and adds a live one; `Served` gives a call the server's answer; `Ended` takes it out when the page
gets the outcome. A call that is not live may still be served and still deliver, as an abort may come
too late, and the page's own check (`signal.aborted`, the counter) is what drops it: the models
have each page's check, not a general one. `EndedMutation` leaves a mutation that the page gave up
where the server can still carry it out. Every page action `User` is bounded by `MaxLate` such calls
(`MaxBeside` in `HistoryPage`).

### ExperimentPage

| code | actions and operators |
|---|---|
| `loadExperiment`, `verifyScope`, `resolveMetadata`, `loadResults` | LoadExperiment, VerifyScope, ResolveMetadata, LoadResults (each in its lane, with `retainData` and the abort of the lanes that the code aborts) |
| their answers | ReceiveExperiment, ReceiveScope, ReceiveMetadata, ReceiveResults |
| `execute()` and what it awaits | ClickRun → ReceiveRun (RunAnswered) → ReceiveExperiment (ExperimentReloaded) → ReceiveResults (RunEnded) |
| retry buttons, result pagination, another visit | Retry, MoveResultPage, Reopen |
| what is rendered | View, CanRun |
| server | ServeExperiment, ScopeAnswers, ServeRun; RunElsewhere: another client runs the experiment |

A load that `execute()` awaits carries `awaited`; when another load supersedes it, `execute()` goes
on with what an aborted load returns. Whatever the run's answer is, an outcome, a refusal or
nothing, the same reload follows.

### ExperimentForm

`usePageResource` is `Load`, `ListLoaded` and `KeyChanged` (the effect on a new key, which keeps the rows);
`Select` is the change handler that clears a version; actions are SelectParent, SelectVersion,
MovePage, Retry, Submit (`createSelectedExperiment`), and DeactivateElsewhere. A version is its
resource and the page that lists it; which rows can be chosen is `Choices`, and `Unused` is a list that is
switched off. The resources stand on pages of their list (`ParentPage`), and of those on the page loaded the active ones can be
chosen (`usable`); `Key` is the resource whose versions a list shows. `created` counts the experiments that this form has made.

### HistoryPage

| code | actions |
|---|---|
| `setQuery` and the effect that loads | SetQuery, Load |
| `syncUrl`, `router.replace`, `useSearchParams` | `navigation`, then Navigate: the URL comes later than the query |
| `applyFilters`, `resetFilters`, `movePage`, retry | applyFilters, resetFilters, movePage, Retry |
| the answer, with the correction of the page | ReceiveList with Canonical |
| `exportCsv` | exportCsv, ReceiveCsv |
| `list_history` | CountRows, ReadRows: the count and the page are two statements |
| other users | Create, Run |

The period stands for the two dates; the status for status, sort order and the other filters. What stands in the date
inputs is no variable: `syncUrl` is given any period, and `applyFilters` any that is not `Reversed` (its check of the two dates); a
URL with a reversed period is refused by the server (`InvalidRange`). Between the two statements a match may be carried
out and leave the filter, so the answer is a total and whether its page has items, which is what the page looks at: it shows "no
match" and no pagination when there are none. `overtaken` is history: a match that was counted was gone when the rows were read. A load that
was aborted before the server answered it is taken out at once (`Unanswered`), as `load` drops whatever becomes of it.

### AnalysisPanels

`HistoryWalk` is the loop that reads page after page of the history for one experiment
(`restoreLatest`, `recoverComparison`) or for all (`loadCandidates`): CountRows and ReadRows are the
two statements of `list_history`, `Insert` puts an experiment anywhere in the list between any two of
them: the gate walks experiments by creation, newest first, but one committed later can be listed below.

| code | actions |
|---|---|
| `restoreLatest`, its retry | Restoring, Restored, RetryRestore |
| `submitPolicy`, `evaluateExistingPolicy`, retry | submitPolicy, ReceiveCreate, evaluateExistingPolicy, ReceiveEvaluate, RetryEvaluation |
| `loadCandidates`, refresh, select | loadCandidates, CandidatesLoaded, RefreshCandidates, SelectBaseline |
| `submitComparison`, `recoverComparison` | submitComparison, ReceiveCompare, Recovered |
| effects on a new experiment object | ExperimentChanged |
| server and other users | ServeCreate, ServeEvaluate, ServeCompare; EvaluateElsewhere, CompareElsewhere |

The panels share the history and the experiment; `AnalysisPanels` uses one at a time (`panel`), the
other being at rest, as neither writes what the other reads.

### ResourcePages

`DatasetPage`: cases and versions, each with its page; EditCase, submitCase, transition (approve,
deprecate), createVersion, MovePage, Retry. `TargetPage`: save (or saveEvaluator), deactivate,
snapshot, loadVersionPage, Retry. A mutation that is answered runs the reload of the code (`Then`)
with the page number of the closure that started it; `by` says which chain of loads a call belongs to.
The server's side is one step for each request, refused as the services refuse it; `Elsewhere` is another user.
`ResourcePages` opens one of the pages by INSTANCE.

## 3. Runs

| run | instance | shows |
|---|---|---|
| `dataset_versions` | 2 requests, 2 cases, 1 content | types; the unique constraints of the versions are never met; the versions implement `VersionRegistry` |
| `dataset_edits` | 2 requests, 1 case, 3 contents, two of them spellings of one normal form | hash and rows of a version agree under concurrent edits; a captured case is never a draft again; every request ends |
| `approved_case_edited` (violation) | the same | finding 1 |
| `experiment_runs` | 2 requests, 2 experiments, 2 cases, 2 targets, 3 evaluators | types; runs exclude each other; counters, status and error code agree with the results; a reader that is told of the end of a run finds all its results; the experiments implement `ExperimentLedger` |
| `experiment_requests` | 3 requests on 1 experiment | every request ends |
| `inactive_experiment` (violation) | 2 requests on 1 experiment | finding 2 |
| `experiment_page` | 5 lanes, 1 name to look up, 2 pages of results | the page is never blank; an outcome shown stays; a lost run is signalled; rows are of the page asked for last; no indicator is left on; `execute()` ends |
| `experiment_form` | 1 kind, 2 resources with 2 pages and 1 page of versions, on one page of their list, 2 experiments | a list at rest is of the choice above it; indicators and requests agree; what is submitted stays on the form; a second experiment only if the first went unanswered; a submission ends |
| `experiment_form_version` (violation) | the same, on two pages of their list | finding 3 |
| `history_page` | 2 experiments, 3 periods (one reversed), 2 statuses, 1 row per page | list, query and URL agree at rest; an empty list is that of a filter that nothing matched, or that lost a match between count and rows; the export has the list's filters; loading has a cause |
| `analysis_panels` | 3 experiments, 1 row per page, 2 policies | a walk skips none; what is shown is committed; the gate has a way forward; a repeated evaluation or comparison is found or said to be lost |
| `resource_pages` | 3 cases, 1 edit of each, 3 acts on a page, 1 row per page | lists are of their page; changes are shown; failures are said |

**Bounds.** Two requests are enough for each race between a read and a write; a request that ends
starts again, so runs are unbounded sequences of requests. Two cases let a version capture some
and not all, two experiments show that a run leaves the other alone. Three requests on one
experiment make two of them wait. No counter of the backend is capped: version numbers are bounded because a
hash is stored once and the contents are finite. On the frontend `MaxLate = 1` lets a superseded call overlap with the
live calls of all lanes (`MaxBeside = 1` in `HistoryPage` counts the file's call too), and its answer come before, between or after theirs: a guard against late answers
looks at one call at a time. `MaxCreated = 2` is one more experiment than there should be; two
pages of results, one and two pages of versions, and one row per page give every turn, a first and
a last page, and a page that becomes too high. Three experiments let one be inserted behind, and
one before, the row being read. In `ResourcePages` the acts are counted (`MaxDatasetActs`,
`MaxTargetActs`): three are a mutation, a page turned while it runs and another user's change. One `Kind` in
`experiment_form` is enough for what is checked: the kinds have lists of their own and meet only in
`CanSubmit`; the pages of the resources' own list meet the rest in `SelectParent` only, so the passing run has one of them, and the
proofs any number. Distinct states: about 0.2 and 0.4 million in the dataset runs, 0.4 in `experiment_runs`, 0.5 in `experiment_page`, 0.35 in
`experiment_form`, 3.4 in `history_page`, 1.4 in `analysis_panels` and 1.7 in `resource_pages`. Symmetry (requests, cases, experiments other than
the current, policies) is used for safety only.

**Mutants.** Every property has one, a plausible bug (a dropped `FOR UPDATE`, a missing `coalesce`, a
forgotten abort, an indicator left on, a page not corrected) that makes TLC find it violated; the mutants stand
beside the definitions they change, marked as such.

**Fairness.** On the backend a request that can go on does: the server keeps running its coroutine, and PostgreSQL
queues the requests that wait for a row lock. This is strong fairness for each request
(`SF_vars(Proceed(s))`), because a waiter is enabled only while the lock is free. `Start`,
`Abort` and deactivations need not happen. On the frontend the only assumption is that `fetch` ends, with an answer
or an error: weak fairness of the receipt of the calls of `execute()` (`RunEnds`) and of the
submission (`SubmissionEnds`). Nothing is assumed of the user, of other clients or of the server.

**Deadlock** is checked on the backend. A page may come to rest with nothing to do, so the frontend runs
say `CHECK_DEADLOCK FALSE`; what "at rest" may look like is what their properties say.

### Findings

1. **An approved case can be edited** (`evaluation_case_service.py:75`). `README.md:139` says
   that an approved or deprecated case cannot be modified. `update_case` checks the status that it
   read; the later `UPDATE` has no condition on the status and no lock was taken. If the case is
   approved in between, its content changes after the approval. What the code does keep: a
   version never disagrees with its hash (`HashDescribesRows`) and the case does not fall back to
   DRAFT (`VersionedCaseIsNoDraft`).
2. **A deactivated resource can still get experiments** (`experiment_service.py:47`).
   `README.md:140` says that inactive resources can only be read. The four `is_active` flags are
   read one after the other without locks; a deactivation that commits between a read and the
   commit of the create or the run is missed.
3. **A version of the resource chosen before can be submitted under the new choice**
   (`experiment-create-client.tsx:93`). `README.md:158` says that only the answer of the last request is reflected, and
   `docs/frontend/STATE_AND_ERROR_CONTRACT.md:6` that while loading there are no data to show. `usePageResource` keeps
   the old resource's rows while those of the new one load. The select is disabled by `loading` only:
   it opens again when the load fails, or when a page is turned meanwhile (`refreshing` instead of `loading`),
   and offers the old rows. The server accepts them: the version exists in the project.

### Exceptions the properties name

What the code does and the properties had to leave room for, each told in a comment where it is left:

- The URL's period may differ from the list's: `movePage` writes what is typed in the date inputs,
  applied or not (`project-history-client.tsx:251-255`). Hence `ListIsOfTheQuery` compares page and status.
- A list stays "refreshing" when its page is corrected to the one that the URL has already: no
  navigation follows, so nothing reloads it (`164-169`). Hence `url # ui.query` in `IndicatorHasCause`.
- The error of a mutation is cleared by the next load of its list, whoever begins it, and even without an act of the user's: a case
  submitted beside a failing `createVersion` goes back to page 1, whose effect loads all lists. `FailuresAreShown` is about
  mutations that were alone on the page: there the one load that follows the failure (`dataset-detail-client.tsx:221-224`) must not clear it.
- "No match" may be said of a filter that an experiment matches. Status CREATED, page 2 of 2: the count is 2, a run commits, and the
  rows at that offset are none (`history_service.py:172-178`). The page corrects its number by the total only, so it stays on page 2,
  says that nothing matches and hides its pagination (`project-history-client.tsx:366`, `379`), although
  `docs/frontend/STATE_AND_ERROR_CONTRACT.md:75` calls a list empty when its total is 0. `EmptyIsExplained` says that there is no
  other such case: an empty list had nothing to count, or was `overtaken`.
- A walk over the history may miss what was listed when it began if the list grows between the count and the rows of the *last*
  page it reads (`grew`, in `IsComplete`, `AlreadyEvaluatedIsFound` and `RecoveryFailsOnlyWhenNotLatest`): an older count says that there is no
  page after it.
- When the scope check of a page is repeated and fails, the page keeps the experiment and says "no results"
  (`experiment-detail-client.tsx:570-576`).
- A comparison being submitted is aborted without a word when the experiment object changes
  (`baseline-comparison-panel.tsx:162-168`); `pushed` and `asked` are of the last submission.
- A comparison that exists is found only while it is the latest of its experiment
  (`RecoveryFailsOnlyWhenNotLatest`), as the history carries only the latest.

## 4. Proofs

The theorems hold for every value of the constants that the named assumptions of the modules allow: any sets of
requests, cases, contents and versions, any finite set of cases of a dataset version or experiments of a
history, any page size, any number of pages and of superseded calls. None of the invariants is inductive alone;
each module has an `IInv` with named parts.

`DatasetLifecycle_proofs` proves for any sets of requests, cases and contents and any normal form:
type correctness, `NoVersionConflict`, `HashDescribesRows`, `VersionedCaseIsNoDraft`, and that
every step is a step of `VersionRegistry` or leaves its variables unchanged. The invariants are not
inductive alone. `IInv` adds

- `HoldsLock`: a request at a step of `create_version` after the lock holds the lock, so at most one does;
- `ActiveIsCurrent`: what it read of `datasets.is_active` is still true, because deactivation waits;
- `ChecksHold`: no stored version has its hash, and once the maximum is read its number is the next;
- `NoGap`: the numbers of the versions are an initial segment of 1, 2, 3, ...;
- `CapturedIsNoDraft`: the cases it has selected are not drafts, as no action makes a draft of one.

The assumptions are those of the module: `Canon` is a function on contents and `None` is none of
the other values.

`ExperimentLifecycle_proofs` proves for any sets of requests, experiments and versions and any finite
set of cases: type correctness, `RunsAreExclusive`, `OutcomeMatchesResults`, `ReaderSeesWholeRun`,
and that every step is a step of `ExperimentLedger` or shows nothing. None of these is inductive:
what the commit stores is right only because of what the loop did before it. `IInv` adds

- `Requests`: each kind of request stays at the steps of its handler;
- `Work`: what a run has counted is the tally (`TallyOf`) of the cases it has evaluated, all with the
  one result of its plan, and at the commit these are all the cases of the dataset version;
- `Claims`: a new experiment is known to its request only; an experiment at work is locked by its run
  and unchanged since it was locked; what a reader was told stays true;
- `Rows`: the rest of a row and its results are determined by its status and its plan.

`CountOne` (one more case of the same result gives the tally of one more case) carries the loop;
`Inserted` and `Committed` say what the two writing steps store, and the refinement follows from
them. The assumptions are those of the modules: `Case` is finite, `CasesOf` and the snapshots are
functions on the versions, and `None` is none of the other values.

`Calls_proofs` is what the pages share: a lane has at most one live call
(`OneLive`) and sending, serving and ending keep that; a lost call is never data and never a 404.

`HistoryPage_proofs` proves all five safety properties of its run.
`IInv` is `PageInv` (fields, calls, known answers), `WantedInv` (the live list call is for the query),
`ListInv` (unless loading or failed, the rows are the query's) and `UrlInv`: the last
navigation, or else the URL, agrees with the query, *except* while the page is `Clamping`: loading
without a call, because the answer has sent it to another page number. That exception is the
argument: a correction leaves list, query and URL apart on purpose, and the navigation it asks for is what joins them.

`AnalysisPanels_proofs` proves all six safety properties of its run, without the bound on late calls. `IInv` is `HistoryInv` and
`PanelInv`. `HistoryInv` is `PlacesInv` (the list is a permutation of its experiments)
and `WalksInv`: what was listed when a walk began and stands before the page it reads next has been seen. An
insertion only pushes rows back, to pages that are still to come, and a count older than the rows can end the
walk only behind the last of those; `WalkSkipsNone` follows. `PanelInv` is about the panel that is used: `GateInv` says that the gate does
one thing at a time, told by its flags (`ActivityInv`), and what its errors say of the stored results (`OutcomeInv`);
`ComparisonInv` that one submission is under way, its call or the lookup that recovers it (`SubmissionInv`),
and that a recovering walk has either read the comparison that was asked for or another is the latest by now
(`RecoveryInv`), which stays so because the server keeps one comparison for each baseline (`Compared`). The walks
and the panels meet in `Advances`: a page either leaves what a walk knows or gives it the latest result of that moment.
The assumption is that `None` is no experiment, policy or error.

`ExperimentPage_proofs` proves all six safety properties of its run. `IInv` is `PageOK`: `Core` holds at every moment
of the page's life: `CallsInv` (one live call per lane, `Known` answers), `FlagsInv` (an indicator has a live call in its lane),
`StatusInv` (an outcome shown, or on its way in an answer, is the stored one), `ResultsInv`;
`LoadedInv` and `ScopeInv` say that the page is not blank; `ExecuteInv` follows `execute()`: it has one
call at a time, the load it awaits is live, and a run that was carried out is shown, signalled, pending or awaited.
`Steady` (an outcome shown stays) is proved with the invariant, action by action.

`ExperimentForm_proofs` proves all five safety properties of its run, for any sets of resources and versions and any
numbers of pages. `IInv` is `StoredInv` and `PageInv`: `FieldsInv`; `CallsInv` (one live call per lane, `Known` answers);
`ListsInv`, which says of every list that its indicator is on exactly while a request of it is live (`Shows`), and of a list of
versions that what is loaded or being loaded is of the choice above it (`OfChoice`); and `SubmitInv`: an experiment that was made is
that of the submission under way, unless an answer was lost or the form is being left. `ListChanged`, the
effect of a change of one list and its calls on the rest, carries choices, pages and answers alike.

`ResourcePages_proofs` proves all four safety properties of its run, for any size of a page, any number of cases,
edits and acts, and without the bound on late calls. `IInv` says of the page that is open, with its server, `TargetSide` or
`DatasetSide`, and of the other that it has not been rendered. Both sides are built alike:

- *Calls* (`TargetCalls`, `DatasetCalls`): one live call per lane; a load is of a page that exists (`Reaches`), also in its
  answer, and while it is wanted it is of the page chosen and its answer is no older than what the page has been told.
  An answer need not be what is committed now, only covered by it: `Later` is what the server's steps preserve
  (cases keep their edits and their way through the states, `Covers`; versions and the configuration only count up);
- *Tokens* (`TargetTokens`, `DatasetTokens`): at most one call holds up each action, the live mutation or the reload that
  was chained to it, live or not (`Holds`, `OneHolds`), and none once the button is free. So when `Then` frees the button, no other
  call waits to be shown, and at rest there is no mutation whose reload is still to come;
- *Signals* (`TargetSignals`, `DatasetSignals`): after a failure what could clear its error is not under way, or puts it back:
  a reload for a transition that failed is marked `refused` and sets the error again, and while it is wanted it is of
  the page shown (`TransitsAt`), so that its answer turns no page and the effect does not clear the error either;
- *Listed* (`VersionsListed`, `TargetShown`, `CasesListed`, `SnapshotsListed`): the property, weakened by
  what explains an exception: a load under way, an error, or a mutation whose reload will follow.

None of the parts is inductive alone. That a list's page is corrected when it lies past the end needs the integer division of
`totalPages` (`Divided`, `NotPastTheEnd`); that the stored configuration stays within the type needs the number of saves not yet
carried out (`Saves`), since a save that was given up may still be. The steps that take a page apart (an outcome, the chained
`Then`, the effect of a render) are lemmas over pages alone, with the committed state before and after as parameters. The assumptions are that a page
has rows, that the dataset may hold its two first cases (`MaxCases >= 2`, a condition of the instance) and that `None` is
neither an error nor a target (`NoneAssumption`).

Liveness stays with TLC, as does everything about fairness: `EveryRequestEnds`, `RunEnds` and `SubmissionEnds`. Every
other property of a passing run is proved. That SHA-256 has no collisions and
that PostgreSQL's locks and unique constraints work as modelled is assumed.

## 5. Not modelled

| what | why |
|---|---|
| creation and renaming of projects and datasets, their unique names and slugs | one check and one insert; the race is known (the loser meets the unique constraint, outside a `try`: 500 instead of 409) and a test of the constraint shows it |
| `create_version` of targets and evaluators statement by statement | the same lock, hash and maximum as `DatasetLifecycle`; the pages take it as one step |
| verdict of a gate (rates, half-even rounding), classification of the cases of a comparison | arithmetic on one value and comparison of two lists: no step of anybody else in between |
| locks of `create_comparison` | one SELECT takes both rows, ordered by key |
| trend, readiness, overview, the limit of the export | reads that keep nothing; the export's two statements are those of `HistoryWalk` |
| comparison page, project overview, registries, project list | a list with a request counter as in the modelled pages, with fewer actions |
| demo seed | one transaction of a script that nobody runs beside another |
| rendering, texts, schemas, migrations, repository scripts | no behaviour over time |

In the dataset page the texts of the forms are left out, and so is that an edit opened while another is submitted is wiped by
its success. Nothing in the system deletes, so corrections of a page number on the
pages of originals are reached by a page opened too high only.
