------------------------ MODULE ExperimentPage_proofs ------------------------
(***************************************************************************)
(* Proofs about ExperimentPage for any number of pages of results, of      *)
(* versions to look up and of superseded calls.                            *)
(***************************************************************************)
EXTENDS ExperimentPage, Calls_proofs, FiniteSetTheorems

IsPage(u) ==
  u = [experiment |-> u.experiment, experimentError |-> u.experimentError,
       runError |-> u.runError, pending |-> u.pending,
       scopeVerified |-> u.scopeVerified, scopeNotFound |-> u.scopeNotFound,
       scopeError |-> u.scopeError, metadataErrors |-> u.metadataErrors,
       results |-> u.results, asked |-> u.asked, resultError |-> u.resultError,
       flags |-> u.flags, calls |-> u.calls]

Busy(u, flags, lane) == u.flags \cap flags # {} => Pending(u.calls, lane)
IsDone(u) == u.experiment \in Done

(* What the server has answered to a call, if it has.                      *)
Known(c) ==
  /\ c.lane \in Lane /\ c.arg.awaited \in BOOLEAN
  /\ c.arg.awaited => c.lane \in {"experiment", "results"}
  /\ c.lane = "experiment" /\ c.reply # Waiting =>
       \E s \in Status : c.reply = <<Answered(s)>>
  /\ c.lane = "run" /\ c.reply # Waiting =>
       \/ \E s \in Done : c.reply = <<Answered(s)>>
       \/ \E code \in {"DATASET_INACTIVE", "INVALID_STATE_TRANSITION"} :
            c.reply = <<Refused(409, code)>>

FieldsInv(u) ==
  /\ IsPage(u)
  /\ u.experiment \in Status \cup {None}
  /\ u.experimentError \in MaybeError /\ u.runError \in MaybeError
  /\ u.pending \in MaybeError /\ u.scopeError \in MaybeError /\ u.resultError \in MaybeError
  /\ u.scopeVerified \in BOOLEAN /\ u.scopeNotFound \in BOOLEAN
  /\ u.metadataErrors \subseteq Part
  /\ u.results \in 0..ResultPages /\ u.asked \in 0..ResultPages
  /\ u.flags \subseteq Flag

CallsInv(u) ==
  /\ AreCalls(u.calls) /\ OneLive(u.calls)
  /\ \A c \in u.calls : Known(c)

FlagsInv(u) ==
  /\ Busy(u, {"initialLoading", "refreshing"}, "experiment")
  /\ Busy(u, {"resultLoading", "resultRefreshing"}, "results")
  /\ Busy(u, {"scopeChecking"}, "scope")
  /\ Busy(u, {"metadataLoading"}, "metadata")

(* An outcome that is shown or on its way is the one that is stored.       *)
StatusInv(u, s) ==
  /\ s \in Status
  /\ IsDone(u) => u.experiment = s
  /\ \A c \in u.calls : \A t \in Status : c.live /\ c.reply = <<Answered(t)>> =>
       /\ c.lane \in {"experiment", "run"}
       /\ t \in Done => t = s
       /\ c.lane = "experiment" /\ IsDone(u) => t = u.experiment

ResultsInv(u) ==
  /\ u.results > 0 \/ u.resultError # None => IsDone(u)
  /\ \A c \in u.calls : c.live /\ c.lane = "results" =>
       c.arg.page = u.asked /\ c.arg.page > 0 /\ IsDone(u)
  /\ \A c \in u.calls : c.live /\ c.lane = "scope" =>
       c.arg.status \in Status /\ (c.arg.status \in Done => IsDone(u))
  /\ u.results > 0 /\ ~Pending(u.calls, "results") /\ u.resultError = None =>
       u.results = u.asked

Core(u, s) == FieldsInv(u) /\ CallsInv(u) /\ FlagsInv(u) /\ StatusInv(u, s) /\ ResultsInv(u)

LoadedInv(u) ==
  u.experiment = None => u.experimentError # None \/ "initialLoading" \in u.flags
ScopeInv(u) ==
  u.experiment # None =>
    u.scopeVerified \/ "scopeChecking" \in u.flags \/ u.scopeNotFound \/ u.scopeError # None

Awaited(c) == c.lane = "experiment" /\ c.arg.awaited

AwaitedInv(u, s, ran) ==
  \A c \in u.calls : Awaited(c) =>
    /\ c.live /\ u.experimentError = None
    /\ u.pending # None \/ IsDone(u)
    /\ ran /\ c.reply # Waiting => c.reply = <<Answered(s)>>

ExecuteInv(u, s, ran) ==
  /\ \A c, d \in u.calls : OfExecute(c) /\ OfExecute(d) => c = d
  /\ "running" \in u.flags <=> \E c \in u.calls : OfExecute(c)
  /\ "running" \in u.flags => u.experiment # None /\ u.runError = None
  /\ AwaitedInv(u, s, ran)
  /\ ran => /\ s \in Done
            /\ \/ IsDone(u) \/ u.runError # None \/ Pending(u.calls, "run")
               \/ \E c \in u.calls : Awaited(c)

PageOK(u, s, ran) ==
  /\ Core(u, s) /\ LoadedInv(u) /\ ScopeInv(u)
  /\ ran \in BOOLEAN /\ ExecuteInv(u, s, ran)

IInv == PageOK(ui, stored, ranHere)

(* A step of the page under which an outcome stays.                        *)
Steady == IsDone(ui) => ui'.experiment = ui.experiment
-----------------------------------------------------------------------------
(* What two states of the page have in common.                             *)
SameExperiment(u, v) ==
  v.experiment = u.experiment /\ v.experimentError = u.experimentError
SameRun(u, v) == v.runError = u.runError /\ v.pending = u.pending
SameScope(u, v) ==
  /\ v.scopeVerified = u.scopeVerified /\ v.scopeNotFound = u.scopeNotFound
  /\ v.scopeError = u.scopeError
SameMetadata(u, v) == v.metadataErrors = u.metadataErrors
SameResults(u, v) ==
  v.results = u.results /\ v.asked = u.asked /\ v.resultError = u.resultError

(* What each loader, and each end of a call, changes.                      *)
LEMMA LoadResultsFields ==
  ASSUME NEW u, IsPage(u), NEW page, NEW retain, NEW awaited,
         NEW v, v = LoadResults(u, page, retain, awaited)
  PROVE  /\ IsPage(v) /\ SameExperiment(u, v) /\ SameRun(u, v) /\ SameScope(u, v)
         /\ SameMetadata(u, v)
         /\ v.results = u.results /\ v.asked = page /\ v.resultError = None
         /\ \E f \in {"resultRefreshing", "resultLoading"} : v.flags = u.flags \cup {f}
         /\ v.calls = Sent(u.calls, "results", Arg(awaited, None, page))
<1> DEFINE f == IF retain THEN "resultRefreshing" ELSE "resultLoading"
           fs == u.flags \cup {f}
           k == Sent(u.calls, "results", Arg(awaited, None, page))
<1>1. v = [u EXCEPT !.resultError = None, !.asked = page, !.flags = fs, !.calls = k]
  BY DEF LoadResults
<1>2. f \in {"resultRefreshing", "resultLoading"} /\ fs = u.flags \cup {f}
  OBVIOUS
<1> HIDE DEF f, fs, k
<1> QED
  BY <1>1, <1>2 DEF IsPage, SameExperiment, SameRun, SameScope, SameMetadata, k

LEMMA ResolveMetadataFields ==
  ASSUME NEW u, IsPage(u), NEW v, v = ResolveMetadata(u)
  PROVE  /\ IsPage(v) /\ SameExperiment(u, v) /\ SameRun(u, v) /\ SameScope(u, v)
         /\ SameResults(u, v) /\ v.metadataErrors = {}
         /\ v.flags = u.flags \cup {"metadataLoading"}
         /\ v.calls = Sent(u.calls, "metadata", ForView(None, 0))
<1> DEFINE fs == u.flags \cup {"metadataLoading"}
           k == Sent(u.calls, "metadata", ForView(None, 0))
<1>1. v = [u EXCEPT !.metadataErrors = {}, !.flags = fs, !.calls = k]
  BY DEF ResolveMetadata
<1> HIDE DEF fs, k
<1> QED
  BY <1>1 DEF IsPage, SameExperiment, SameRun, SameScope, SameResults, fs, k

LEMMA VerifyScopeFields ==
  ASSUME NEW u, IsPage(u), NEW current, NEW v, v = VerifyScope(u, current)
  PROVE  /\ IsPage(v) /\ SameExperiment(u, v) /\ SameRun(u, v) /\ SameMetadata(u, v)
         /\ SameResults(u, v)
         /\ v.scopeVerified = u.scopeVerified /\ v.scopeError = None
         /\ v.scopeNotFound \in BOOLEAN
         /\ v.flags = u.flags \cup {"scopeChecking"}
         /\ v.calls = Sent(u.calls, "scope", ForView(current, 0))
<1> DEFINE no == FALSE
           fs == u.flags \cup {"scopeChecking"}
           k == Sent(u.calls, "scope", ForView(current, 0))
<1>1. v = [u EXCEPT !.scopeError = None, !.scopeNotFound = no, !.flags = fs, !.calls = k]
  BY DEF VerifyScope
<1>2. no \in BOOLEAN
  OBVIOUS
<1> HIDE DEF no, fs, k
<1>3. /\ IsPage(v) /\ SameExperiment(u, v) /\ SameRun(u, v) /\ SameMetadata(u, v)
      /\ SameResults(u, v)
      /\ v.scopeVerified = u.scopeVerified /\ v.scopeError = None
      /\ v.scopeNotFound = no /\ v.flags = fs /\ v.calls = k
  BY <1>1 DEF IsPage, SameExperiment, SameRun, SameMetadata, SameResults
<1> QED
  BY <1>2, <1>3 DEF fs, k

LEMMA LoadExperimentFields ==
  ASSUME NEW u, IsPage(u), NEW retain, NEW include, NEW v, v = LoadExperiment(u, retain, include)
  PROVE  /\ IsPage(v) /\ v.experiment = u.experiment /\ v.experimentError = None
         /\ SameRun(u, v) /\ SameScope(u, v) /\ SameMetadata(u, v) /\ SameResults(u, v)
         /\ v.flags = u.flags \cup {IF retain THEN "refreshing" ELSE "initialLoading"}
         /\ v.calls = Sent(u.calls, "experiment", Arg(~include, None, 0))
<1> DEFINE fs == u.flags \cup {IF retain THEN "refreshing" ELSE "initialLoading"}
           k == Sent(u.calls, "experiment", Arg(~include, None, 0))
<1>1. v = [u EXCEPT !.experimentError = None, !.flags = fs, !.calls = k]
  BY DEF LoadExperiment
<1> HIDE DEF fs, k
<1>2. /\ IsPage(v) /\ v.experiment = u.experiment /\ v.experimentError = None
      /\ SameRun(u, v) /\ SameScope(u, v) /\ SameMetadata(u, v) /\ SameResults(u, v)
      /\ v.flags = fs /\ v.calls = k
  BY <1>1 DEF IsPage, SameRun, SameScope, SameMetadata, SameResults
<1> QED
  BY <1>2 DEF fs, k

LEMMA ExecuteFields ==
  ASSUME NEW u, IsPage(u), NEW v, v = Execute(u)
  PROVE  /\ IsPage(v) /\ SameExperiment(u, v) /\ SameScope(u, v) /\ SameMetadata(u, v)
         /\ SameResults(u, v) /\ v.runError = None /\ v.pending = u.pending
         /\ v.flags = u.flags \cup {"running"}
         /\ v.calls = Sent(u.calls, "run", ForView(None, 0))
<1> DEFINE fs == u.flags \cup {"running"}
           k == Sent(u.calls, "run", ForView(None, 0))
<1>1. v = [u EXCEPT !.runError = None, !.flags = fs, !.calls = k]
  BY DEF Execute
<1> HIDE DEF fs, k
<1> QED
  BY <1>1 DEF IsPage, SameExperiment, SameScope, SameMetadata, SameResults, fs, k

WithCalls(u, k) == [u EXCEPT !.calls = k]
LEMMA CallsFields ==
  ASSUME NEW u, IsPage(u), NEW k, NEW v, v = WithCalls(u, k)
  PROVE  /\ IsPage(v) /\ SameExperiment(u, v) /\ SameRun(u, v) /\ SameScope(u, v)
         /\ SameMetadata(u, v) /\ SameResults(u, v) /\ v.flags = u.flags /\ v.calls = k
BY DEF WithCalls, IsPage, SameExperiment, SameRun, SameScope, SameMetadata, SameResults

WithFlags(u, f) == [u EXCEPT !.flags = f]
LEMMA FlagsFields ==
  ASSUME NEW u, IsPage(u), NEW f, NEW v, v = WithFlags(u, f)
  PROVE  /\ IsPage(v) /\ SameExperiment(u, v) /\ SameRun(u, v) /\ SameScope(u, v)
         /\ SameMetadata(u, v) /\ SameResults(u, v) /\ v.flags = f /\ v.calls = u.calls
BY DEF WithFlags, IsPage, SameExperiment, SameRun, SameScope, SameMetadata, SameResults

WithExperiment(u, e) == [u EXCEPT !.experiment = e]
LEMMA ShownFields ==
  ASSUME NEW u, IsPage(u), NEW e, NEW v, v = WithExperiment(u, e)
  PROVE  /\ IsPage(v) /\ v.experiment = e /\ v.experimentError = u.experimentError
         /\ SameRun(u, v) /\ SameScope(u, v) /\ SameMetadata(u, v) /\ SameResults(u, v)
         /\ v.flags = u.flags /\ v.calls = u.calls
BY DEF WithExperiment, IsPage, SameRun, SameScope, SameMetadata, SameResults

WithExperimentError(u, e) == [u EXCEPT !.experimentError = e]
LEMMA ExperimentErrorFields ==
  ASSUME NEW u, IsPage(u), NEW e, NEW v, v = WithExperimentError(u, e)
  PROVE  /\ IsPage(v) /\ v.experiment = u.experiment /\ v.experimentError = e
         /\ SameRun(u, v) /\ SameScope(u, v) /\ SameMetadata(u, v) /\ SameResults(u, v)
         /\ v.flags = u.flags /\ v.calls = u.calls
BY DEF WithExperimentError, IsPage, SameRun, SameScope, SameMetadata, SameResults

WithAnswer(u, e, p) == [u EXCEPT !.experiment = e, !.pending = p]
LEMMA AnswerFields ==
  ASSUME NEW u, IsPage(u), NEW e, NEW p, NEW v, v = WithAnswer(u, e, p)
  PROVE  /\ IsPage(v) /\ v.experiment = e /\ v.experimentError = u.experimentError
         /\ v.runError = u.runError /\ v.pending = p
         /\ SameScope(u, v) /\ SameMetadata(u, v) /\ SameResults(u, v)
         /\ v.flags = u.flags /\ v.calls = u.calls
BY DEF WithAnswer, IsPage, SameScope, SameMetadata, SameResults

WithRunError(u, e) == [u EXCEPT !.runError = e]
LEMMA RunErrorFields ==
  ASSUME NEW u, IsPage(u), NEW e, NEW v, v = WithRunError(u, e)
  PROVE  /\ IsPage(v) /\ SameExperiment(u, v) /\ v.runError = e /\ v.pending = u.pending
         /\ SameScope(u, v) /\ SameMetadata(u, v) /\ SameResults(u, v)
         /\ v.flags = u.flags /\ v.calls = u.calls
BY DEF WithRunError, IsPage, SameExperiment, SameScope, SameMetadata, SameResults

LEMMA RunEndedFields ==
  ASSUME NEW u, IsPage(u), NEW v, v = RunEnded(u)
  PROVE  /\ IsPage(v) /\ SameExperiment(u, v) /\ v.runError = u.runError /\ v.pending = None
         /\ SameScope(u, v) /\ SameMetadata(u, v) /\ SameResults(u, v)
         /\ v.flags = u.flags \ {"running"} /\ v.calls = u.calls
<1> DEFINE fs == u.flags \ {"running"}
<1>1. v = [u EXCEPT !.flags = fs, !.pending = None]
  BY DEF RunEnded
<1> HIDE DEF fs
<1> QED
  BY <1>1 DEF IsPage, SameExperiment, SameScope, SameMetadata, SameResults, fs

WithVerified(u, b) == [u EXCEPT !.scopeVerified = b]
LEMMA VerifiedFields ==
  ASSUME NEW u, IsPage(u), NEW b, NEW v, v = WithVerified(u, b)
  PROVE  /\ IsPage(v) /\ SameExperiment(u, v) /\ SameRun(u, v) /\ SameMetadata(u, v)
         /\ SameResults(u, v) /\ v.flags = u.flags /\ v.calls = u.calls
         /\ v.scopeVerified = b /\ v.scopeNotFound = u.scopeNotFound
         /\ v.scopeError = u.scopeError
BY DEF WithVerified, IsPage, SameExperiment, SameRun, SameMetadata, SameResults

WithNotFound(u, b, n) == [u EXCEPT !.scopeVerified = b, !.scopeNotFound = n]
LEMMA NotFoundFields ==
  ASSUME NEW u, IsPage(u), NEW b, NEW n, NEW v, v = WithNotFound(u, b, n)
  PROVE  /\ IsPage(v) /\ SameExperiment(u, v) /\ SameRun(u, v) /\ SameMetadata(u, v)
         /\ SameResults(u, v) /\ v.flags = u.flags /\ v.calls = u.calls
         /\ v.scopeVerified = b /\ v.scopeNotFound = n /\ v.scopeError = u.scopeError
BY DEF WithNotFound, IsPage, SameExperiment, SameRun, SameMetadata, SameResults

WithScopeError(u, e) == [u EXCEPT !.scopeError = e]
LEMMA ScopeErrorFields ==
  ASSUME NEW u, IsPage(u), NEW e, NEW v, v = WithScopeError(u, e)
  PROVE  /\ IsPage(v) /\ SameExperiment(u, v) /\ SameRun(u, v) /\ SameMetadata(u, v)
         /\ SameResults(u, v) /\ v.flags = u.flags /\ v.calls = u.calls
         /\ v.scopeVerified = u.scopeVerified /\ v.scopeNotFound = u.scopeNotFound
         /\ v.scopeError = e
BY DEF WithScopeError, IsPage, SameExperiment, SameRun, SameMetadata, SameResults

LEMMA ResultsLoadedFields ==
  ASSUME NEW u, IsPage(u), NEW c, NEW o, NEW v, v = ResultsLoaded(u, c, o)
  PROVE  /\ IsPage(v) /\ SameExperiment(u, v) /\ SameRun(u, v) /\ SameScope(u, v)
         /\ SameMetadata(u, v) /\ v.asked = u.asked
         /\ IF o.kind = "data"
            THEN v.results = c.arg.page /\ v.resultError = u.resultError
            ELSE v.results = u.results /\ v.resultError = o
         /\ v.flags = u.flags \ {"resultLoading", "resultRefreshing"} /\ v.calls = u.calls
<1> DEFINE r == IF o.kind = "data" THEN c.arg.page ELSE u.results
           e == IF o.kind = "data" THEN u.resultError ELSE o
           fs == u.flags \ {"resultLoading", "resultRefreshing"}
<1>1. v = [u EXCEPT !.results = r, !.resultError = e, !.flags = fs]
  BY DEF ResultsLoaded
<1> HIDE DEF r, e, fs
<1>2. /\ IsPage(v) /\ SameExperiment(u, v) /\ SameRun(u, v) /\ SameScope(u, v)
      /\ SameMetadata(u, v) /\ v.asked = u.asked
      /\ v.results = r /\ v.resultError = e /\ v.flags = fs /\ v.calls = u.calls
  BY <1>1 DEF IsPage, SameExperiment, SameRun, SameScope, SameMetadata
<1> QED
  BY <1>2 DEF r, e, fs

LEMMA MetadataResolvedFields ==
  ASSUME NEW u, IsPage(u), NEW failed, NEW v, v = MetadataResolved(u, failed)
  PROVE  /\ IsPage(v) /\ SameExperiment(u, v) /\ SameRun(u, v) /\ SameScope(u, v)
         /\ SameResults(u, v) /\ v.metadataErrors = failed
         /\ v.flags = u.flags \ {"metadataLoading"} /\ v.calls = u.calls
<1> DEFINE fs == u.flags \ {"metadataLoading"}
<1>1. v = [u EXCEPT !.metadataErrors = failed, !.flags = fs]
  BY DEF MetadataResolved
<1> HIDE DEF fs
<1> QED
  BY <1>1 DEF IsPage, SameExperiment, SameRun, SameScope, SameResults, fs
-----------------------------------------------------------------------------
(* What sending and ending a call mean for what is pending.                *)
LEMMA SentPending ==
  ASSUME NEW calls, AreCalls(calls), NEW lane, NEW arg,
         NEW k, k = Sent(calls, lane, arg)
  PROVE  /\ Pending(k, lane)
         /\ \A l : l # lane => (Pending(k, l) <=> Pending(calls, l))
         /\ \A d \in k : d.live => d = Call(lane, arg) \/ (d \in calls /\ d.lane # lane)
<1>1. LET c == Call(lane, arg) IN c.lane = lane /\ c.live
  BY CallFields
<1>2. /\ Call(lane, arg) \in k
      /\ \A d \in k : \/ d = Call(lane, arg)
                      \/ (d.lane = lane => ~d.live) /\ (d.lane # lane => d \in calls)
      /\ \A c \in calls : c.lane # lane => c \in k
  BY SentCalls
<1> QED
  BY <1>1, <1>2 DEF Pending

LEMMA SentKnown ==
  ASSUME NEW calls, AreCalls(calls), \A c \in calls : Known(c),
         NEW lane, NEW arg, Known(Call(lane, arg)), NEW k, k = Sent(calls, lane, arg)
  PROVE  \A d \in k : Known(d)
<1>1. \A d \in k : \/ d = Call(lane, arg)
                   \/ \E c \in calls : d.lane = c.lane /\ d.arg = c.arg /\ d.reply = c.reply
  BY SentCalls
<1> QED
  BY <1>1 DEF Known

(* The calls after one has ended; a run may stay, no longer live.          *)
IsEnded(k, calls, c) ==
  /\ AreCalls(k) /\ OneLive(k)
  /\ \A d \in k : Known(d)
  /\ \A d \in k : \/ d \in calls /\ d # c
                  \/ ~d.live /\ d.lane = "run" /\ c.lane = "run" /\ ~d.arg.awaited
  /\ \A d \in calls : d # c => d \in k

LEMMA EndedIs ==
  ASSUME NEW u, CallsInv(u), NEW c \in u.calls
  PROVE  /\ IsEnded(Ended(u.calls, c), u.calls, c)
         /\ c.lane = "run" => IsEnded(EndedMutation(u.calls, c), u.calls, c)
<1>1. IsEnded(Ended(u.calls, c), u.calls, c)
  BY DEF IsEnded, Ended, CallsInv, AreCalls, OneLive
<1>2. ASSUME c.lane = "run" PROVE IsEnded(EndedMutation(u.calls, c), u.calls, c)
  <2> DEFINE k == EndedMutation(u.calls, c)
  <2>1. /\ AreCalls(k) /\ OneLive(k)
        /\ \A d \in k : \/ d \in u.calls /\ d # c
                        \/ ~d.live /\ d.lane = c.lane /\ d.arg = c.arg /\ d.reply = c.reply
        /\ \A d \in u.calls : d # c => d \in k
    BY EndedMutationCalls DEF CallsInv
  <2>2. Known(c) /\ ~c.arg.awaited
    BY <1>2 DEF CallsInv, Known
  <2>3. \A d \in k : Known(d)
    BY <2>1, <2>2 DEF CallsInv, Known
  <2> HIDE DEF k
  <2>4. IsEnded(k, u.calls, c)
    BY <1>2, <2>1, <2>2, <2>3 DEF IsEnded
  <2> QED
    BY <2>4 DEF k
<1> QED
  BY <1>1, <1>2

LEMMA EndedPending ==
  ASSUME NEW u, CallsInv(u), NEW c \in u.calls, NEW k, IsEnded(k, u.calls, c)
  PROVE  /\ \A l : Pending(k, l) => Pending(u.calls, l)
         /\ \A l : l # c.lane \/ ~c.live => (Pending(u.calls, l) => Pending(k, l))
         /\ c.live => ~Pending(k, c.lane)
         /\ \A d \in k : d.live => d \in u.calls /\ d # c
BY DEF IsEnded, Pending, CallsInv, OneLive
-----------------------------------------------------------------------------
(* The core of the invariant, under what the page can do to its calls.     *)
FlagsOf(lane) ==
  CASE lane = "experiment" -> {"initialLoading", "refreshing"}
    [] lane = "results" -> {"resultLoading", "resultRefreshing"}
    [] lane = "scope" -> {"scopeChecking"}
    [] lane = "metadata" -> {"metadataLoading"}
    [] lane = "run" -> {"running"}

LEMMA CoreSent ==
  ASSUME NEW s, NEW u, Core(u, s), NEW v, FieldsInv(v),
         NEW lane, NEW arg, Known(Call(lane, arg)), v.calls = Sent(u.calls, lane, arg),
         NEW f \in FlagsOf(lane), v.flags = u.flags \cup {f},
         v.experiment = u.experiment, v.results = u.results,
         lane # "results" => v.asked = u.asked /\ v.resultError = u.resultError,
         lane = "results" =>
           v.asked = arg.page /\ arg.page > 0 /\ IsDone(u) /\ v.resultError = None,
         lane = "scope" => arg.status \in Status /\ (arg.status \in Done => IsDone(u))
  PROVE  Core(v, s)
<1> DEFINE new == Call(lane, arg)
<1>1. /\ Pending(v.calls, lane)
      /\ \A l : l # lane => (Pending(v.calls, l) <=> Pending(u.calls, l))
      /\ \A d \in v.calls : d.live => d = new \/ (d \in u.calls /\ d.lane # lane)
  BY SentPending DEF Core, CallsInv
<1>2. CallsInv(v)
  <2>1. AreCalls(v.calls) /\ OneLive(v.calls)
    BY SentCalls DEF Core, CallsInv
  <2>2. \A d \in v.calls : Known(d)
    BY SentKnown DEF Core, CallsInv
  <2> QED
    BY <2>1, <2>2 DEF CallsInv
<1>3. new.lane = lane /\ new.arg = arg /\ new.reply = Waiting
  BY CallFields
<1> HIDE DEF new
<1>4. lane \in Lane
  BY <1>3 DEF Known, new
<1>5. FlagsInv(v)
  BY <1>1, <1>4 DEF FlagsInv, Busy, FlagsOf, Core, Lane
<1>6. StatusInv(v, s)
  <2>1. \A t : <<Answered(t)>> # Waiting
    BY DEF Waiting
  <2> QED
    BY <1>1, <1>3, <2>1 DEF StatusInv, IsDone, Core
<1>7. ResultsInv(v)
  BY <1>1, <1>3 DEF ResultsInv, IsDone, Core, FieldsInv
<1> QED
  BY <1>2, <1>5, <1>6, <1>7 DEF Core

LEMMA CoreEnded ==
  ASSUME NEW s, NEW u, Core(u, s), NEW c \in u.calls, NEW v, FieldsInv(v),
         IsEnded(v.calls, u.calls, c),
         v.flags \subseteq u.flags,
         c.live /\ c.lane # "run" => v.flags \cap FlagsOf(c.lane) = {},
         v.experiment = u.experiment, v.asked = u.asked,
         c.live /\ c.lane = "results" =>
           v.results = c.arg.page \/ (v.results = u.results /\ v.resultError # None),
         ~(c.live /\ c.lane = "results") =>
           v.results = u.results /\ v.resultError = u.resultError
  PROVE  Core(v, s)
<1>1. /\ \A l : Pending(v.calls, l) => Pending(u.calls, l)
      /\ \A l : l # c.lane \/ ~c.live => (Pending(u.calls, l) => Pending(v.calls, l))
      /\ \A d \in v.calls : d.live => d \in u.calls /\ d # c
  BY EndedPending DEF Core
<1>2. CallsInv(v)
  BY DEF IsEnded, CallsInv
<1>3. FlagsInv(v)
  BY <1>1 DEF FlagsInv, Busy, FlagsOf, Core
<1>4. StatusInv(v, s)
  BY <1>1 DEF StatusInv, IsDone, Core
<1>5. ResultsInv(v)
  <2>1. CASE c.live /\ c.lane = "results"
    BY <1>1, <2>1 DEF ResultsInv, IsDone, Core
  <2>2. CASE ~(c.live /\ c.lane = "results")
    <3>1. Pending(u.calls, "results") => Pending(v.calls, "results")
      BY <1>1, <2>2
    <3> QED
      BY <1>1, <2>2, <3>1 DEF ResultsInv, IsDone, Core
  <2> QED
    BY <2>1, <2>2
<1> QED
  BY <1>2, <1>3, <1>4, <1>5 DEF Core

(* An experiment is shown that no load under way contradicts.              *)
LEMMA CoreShown ==
  ASSUME NEW s, NEW u, Core(u, s), NEW v, FieldsInv(v),
         v.calls = u.calls, v.flags = u.flags, SameResults(u, v),
         v.experiment \in Status, v.experiment \in Done => v.experiment = s,
         IsDone(u) => v.experiment = u.experiment,
         \A c \in u.calls : c.live /\ c.lane = "experiment" => c.reply = Waiting
  PROVE  Core(v, s)
<1>1. \A t : <<Answered(t)>> # Waiting
  BY DEF Waiting
<1>2. CallsInv(v) /\ FlagsInv(v)
  BY DEF Core, CallsInv, FlagsInv, Busy
<1>3. StatusInv(v, s)
  BY <1>1 DEF Core, StatusInv, IsDone
<1>4. ResultsInv(v)
  BY DEF Core, ResultsInv, SameResults, IsDone
<1> QED
  BY <1>2, <1>3, <1>4 DEF Core

(* What is not the core's business may change.                             *)
LEMMA CoreKept ==
  ASSUME NEW s, NEW u, Core(u, s), NEW v, FieldsInv(v), v.calls = u.calls,
         v.experiment = u.experiment, SameResults(u, v),
         v.flags \subseteq u.flags
  PROVE  Core(v, s)
BY DEF Core, CallsInv, FlagsInv, Busy, StatusInv, ResultsInv, SameResults, IsDone
-----------------------------------------------------------------------------
(* execute(), under what the page can do to its calls.                     *)
LEMMA AwaitedLane ==
  ASSUME NEW c, Known(c)
  PROVE  /\ OfExecute(c) => c.lane \in {"experiment", "results", "run"}
         /\ Awaited(c) => OfExecute(c)
BY DEF Known, OfExecute, Awaited

LEMMA ExecuteSent ==
  ASSUME NEW s, NEW ran, NEW u, CallsInv(u), ExecuteInv(u, s, ran),
         NEW v, NEW lane, lane # "run", NEW arg, ~arg.awaited,
         v.calls = Sent(u.calls, lane, arg),
         lane = "experiment" => ~\E c \in u.calls : Awaited(c),
         "running" \in v.flags <=> "running" \in u.flags,
         SameRun(u, v), v.experiment = u.experiment,
         v.experimentError = u.experimentError \/ v.experimentError = None
  PROVE  ExecuteInv(v, s, ran)
<1> DEFINE new == Call(lane, arg)
<1>1. /\ new.lane = lane /\ new.arg = arg /\ new.reply = Waiting
      /\ ~OfExecute(new) /\ ~Awaited(new)
  BY CallFields DEF OfExecute, Awaited
<1>2. /\ AreCalls(v.calls)
      /\ \A d \in v.calls :
           \/ d = new
           \/ /\ \E c \in u.calls : d.lane = c.lane /\ d.arg = c.arg /\ d.reply = c.reply
              /\ d.lane = lane => ~d.live
              /\ d.lane # lane => d \in u.calls
      /\ \A c \in u.calls : c.lane # lane => c \in v.calls
  BY SentCalls DEF CallsInv
<1>3. \A l : l # lane => (Pending(v.calls, l) <=> Pending(u.calls, l))
  BY SentPending DEF CallsInv
<1> HIDE DEF new
<1>4. \A d \in v.calls : OfExecute(d) =>
        /\ \E c \in u.calls : OfExecute(c) /\ d.lane = c.lane /\ d.arg = c.arg /\ d.reply = c.reply
        /\ d.lane = lane => ~d.live
        /\ d.lane # lane => d \in u.calls
  BY <1>1, <1>2 DEF OfExecute
<1>5. \A d, e \in v.calls : OfExecute(d) /\ OfExecute(e) => d = e
  <2> SUFFICES ASSUME NEW d \in v.calls, NEW e \in v.calls, OfExecute(d), OfExecute(e)
               PROVE  d = e
    OBVIOUS
  <2>1. PICK c \in u.calls : OfExecute(c) /\ d.lane = c.lane /\ d.arg = c.arg /\ d.reply = c.reply
    BY <1>4
  <2>2. e.lane = c.lane /\ e.arg = c.arg /\ e.reply = c.reply
    BY <1>4, <2>1 DEF ExecuteInv
  <2>3. CASE d.lane = lane
    <3>1. d.live = FALSE /\ e.live = FALSE
      BY <1>2, <1>4, <2>1, <2>2, <2>3 DEF AreCalls, IsCall
    <3> QED
      BY <1>2, <2>1, <2>2, <3>1 DEF AreCalls, IsCall
  <2>4. CASE d.lane # lane
    BY <1>4, <2>1, <2>2, <2>4 DEF ExecuteInv
  <2> QED
    BY <2>3, <2>4
<1>6. (\E d \in v.calls : OfExecute(d)) <=> (\E c \in u.calls : OfExecute(c))
  <2>1. ASSUME NEW c \in u.calls, OfExecute(c) PROVE \E d \in v.calls : OfExecute(d)
    <3>1. CASE c.lane # lane
      BY <1>2, <2>1, <3>1
    <3>2. CASE c.lane = lane
      <4>1. c.arg.awaited
        BY <2>1, <3>2 DEF OfExecute
      <4> DEFINE d == GivenUp(c, {lane})
      <4>2. d \in v.calls
        BY DEF Sent, Aborted, GivenUp
      <4>3. d.arg = c.arg
        BY GivenUpFields DEF CallsInv, AreCalls
      <4> QED
        BY <4>1, <4>2, <4>3 DEF OfExecute
    <3> QED
      BY <3>1, <3>2
  <2> QED
    BY <1>4, <2>1
<1>7. \A d \in v.calls : Awaited(d) => d \in u.calls
  BY <1>1, <1>2 DEF Awaited
<1>8. (\E c \in u.calls : Awaited(c)) => \E d \in v.calls : Awaited(d)
  BY <1>2 DEF Awaited
<1>9. AwaitedInv(v, s, ran)
  BY <1>7 DEF ExecuteInv, AwaitedInv, SameRun, IsDone
<1> QED
  BY <1>3, <1>5, <1>6, <1>8, <1>9 DEF ExecuteInv, SameRun, IsDone

(* A call that execute() does not await has ended.                         *)
LEMMA ExecuteEnded ==
  ASSUME NEW s, NEW ran, NEW u, CallsInv(u), ExecuteInv(u, s, ran),
         NEW c \in u.calls, ~OfExecute(c), NEW v, IsEnded(v.calls, u.calls, c),
         "running" \in v.flags <=> "running" \in u.flags,
         SameRun(u, v),
         u.experiment # None => v.experiment # None,
         IsDone(u) => IsDone(v),
         v.experimentError = u.experimentError \/ (c.live /\ c.lane = "experiment")
  PROVE  ExecuteInv(v, s, ran)
<1>1. /\ \A d \in v.calls : \/ d \in u.calls /\ d # c
                            \/ ~d.live /\ d.lane = "run" /\ ~d.arg.awaited
      /\ \A d \in u.calls : d # c => d \in v.calls
      /\ AreCalls(v.calls)
  BY DEF IsEnded
<1>2. \A d \in v.calls : OfExecute(d) => d \in u.calls
  BY <1>1 DEF OfExecute
<1>3. \A d \in u.calls : OfExecute(d) => d \in v.calls
  BY <1>1
<1>4. \A d \in u.calls : Awaited(d) => OfExecute(d)
  BY AwaitedLane DEF CallsInv
<1>5. \A d \in v.calls : Awaited(d) => d \in u.calls
  BY <1>1 DEF Awaited
<1>6. Pending(u.calls, "run") => Pending(v.calls, "run")
  <2>1. ASSUME NEW d \in u.calls, d.lane = "run", d.live PROVE d \in v.calls
    BY <1>3, <2>1 DEF OfExecute
  <2> QED
    BY <2>1 DEF Pending
<1>7. AwaitedInv(v, s, ran)
  <2> SUFFICES ASSUME NEW d \in v.calls, Awaited(d)
               PROVE  /\ d.live /\ v.experimentError = None
                      /\ v.pending # None \/ IsDone(v)
                      /\ ran /\ d.reply # Waiting => d.reply = <<Answered(s)>>
    BY DEF AwaitedInv
  <2>1. /\ d \in u.calls /\ d.live /\ u.experimentError = None
        /\ u.pending # None \/ IsDone(u)
        /\ ran /\ d.reply # Waiting => d.reply = <<Answered(s)>>
    BY <1>5 DEF ExecuteInv, AwaitedInv
  <2>2. ~(c.live /\ c.lane = "experiment")
    BY <1>4, <2>1 DEF CallsInv, OneLive, Awaited
  <2> QED
    BY <2>1, <2>2 DEF SameRun
<1>8. ran => \/ ~\E d \in u.calls : Awaited(d)
             \/ \E d \in v.calls : Awaited(d)
  BY <1>3, <1>4
<1> QED
  BY <1>2, <1>3, <1>6, <1>7, <1>8 DEF ExecuteInv, SameRun

(* Nothing of execute() is left once what it awaits has ended.             *)
LEMMA ExecuteOver ==
  ASSUME NEW s, NEW ran, NEW u, CallsInv(u), ExecuteInv(u, s, ran),
         NEW c \in u.calls, OfExecute(c), NEW v, IsEnded(v.calls, u.calls, c)
  PROVE  ~\E d \in v.calls : OfExecute(d)
<1>1. \A d \in v.calls : OfExecute(d) => d \in u.calls /\ d # c
  BY DEF IsEnded, OfExecute
<1> QED
  BY <1>1 DEF ExecuteInv

LEMMA ExecuteDone ==
  ASSUME NEW s, NEW ran, NEW u, CallsInv(u), ~\E d \in u.calls : OfExecute(d),
         "running" \notin u.flags,
         ran => s \in Done /\ (IsDone(u) \/ u.runError # None)
  PROVE  ExecuteInv(u, s, ran)
<1>1. ~\E d \in u.calls : Awaited(d)
  BY AwaitedLane DEF CallsInv
<1> QED
  BY <1>1 DEF ExecuteInv, AwaitedInv

(* execute() goes on with one more call: the run, or a load it awaits.     *)
LEMMA ExecuteGoesOn ==
  ASSUME NEW s, NEW ran, NEW u, AreCalls(u.calls), \A c \in u.calls : Known(c),
         ~\E d \in u.calls : OfExecute(d),
         NEW v, NEW lane, NEW arg, v.calls = Sent(u.calls, lane, arg),
         lane = "run" \/ arg.awaited,
         "running" \in v.flags, v.experiment # None, v.runError = None,
         lane = "experiment" =>
           v.experimentError = None /\ (v.pending # None \/ IsDone(v)),
         ran => s \in Done /\ (IsDone(v) \/ lane \in {"run", "experiment"}),
         lane = "run" => ~arg.awaited
  PROVE  ExecuteInv(v, s, ran)
<1> DEFINE new == Call(lane, arg)
<1>1. new.lane = lane /\ new.arg = arg /\ new.reply = Waiting /\ new.live
  BY CallFields
<1>2. /\ new \in v.calls
      /\ \A d \in v.calls :
           \/ d = new
           \/ /\ \E c \in u.calls : d.lane = c.lane /\ d.arg = c.arg /\ d.reply = c.reply
              /\ d.lane = lane => ~d.live
              /\ d.lane # lane => d \in u.calls
  BY SentCalls
<1> HIDE DEF new
<1>3. \A d \in v.calls : OfExecute(d) <=> d = new
  BY <1>1, <1>2 DEF OfExecute
<1>4. \A d \in v.calls : Awaited(d) => d = new
  <2>1. \A c \in u.calls : ~c.arg.awaited
    BY DEF OfExecute
  <2> QED
    BY <1>2, <2>1 DEF Awaited
<1>5. AwaitedInv(v, s, ran)
  BY <1>1, <1>4 DEF AwaitedInv, Awaited
<1>6. lane = "run" => Pending(v.calls, "run")
  BY <1>1, <1>2 DEF Pending
<1>7. lane = "experiment" => Awaited(new)
  BY <1>1 DEF Awaited
<1> QED
  BY <1>2, <1>3, <1>5, <1>6, <1>7 DEF ExecuteInv
-----------------------------------------------------------------------------
(* The steps the actions are made of.                                      *)
LEMMA PrimedPage ==
  ASSUME NEW v, NEW s, NEW ran, PageOK(v, s, ran), ui' = v, stored' = s, ranHere' = ran
  PROVE  IInv'
<1>1. /\ FieldsInv(ui)' /\ FlagsInv(ui)' /\ LoadedInv(ui)' /\ ScopeInv(ui)'
  BY DEF PageOK, Core, FieldsInv, IsPage, FlagsInv, Busy, Pending, LoadedInv, ScopeInv
<1>2. CallsInv(ui)'
  BY DEF PageOK, Core, CallsInv, AreCalls, OneLive, Known, IsCall
<1>3. StatusInv(ui, stored)' /\ ResultsInv(ui)'
  BY DEF PageOK, Core, StatusInv, ResultsInv, IsDone, Pending
<1>4. ExecuteInv(ui, stored, ranHere)' /\ ranHere' \in BOOLEAN
  BY DEF PageOK, ExecuteInv, AwaitedInv, Awaited, OfExecute, IsDone, Pending
<1> QED
  BY <1>1, <1>2, <1>3, <1>4 DEF IInv, PageOK, Core

LEMMA ArgFields ==
  ASSUME NEW awaited \in BOOLEAN, NEW status, NEW page, NEW arg, arg = Arg(awaited, status, page)
  PROVE  /\ arg.awaited \in BOOLEAN /\ (arg.awaited <=> awaited)
         /\ arg.status = status /\ arg.page = page
BY DEF Arg

LEMMA KnownCall ==
  ASSUME NEW lane \in Lane, NEW arg, arg.awaited \in BOOLEAN,
         arg.awaited => lane \in {"experiment", "results"}
  PROVE  Known(Call(lane, arg))
<1> DEFINE new == Call(lane, arg)
<1>1. new.lane = lane /\ new.arg = arg /\ new.reply = Waiting
  BY CallFields
<1> HIDE DEF new
<1>2. Known(new)
  BY <1>1 DEF Known
<1> QED
  BY <1>2 DEF new

LEMMA ForViewCall ==
  ASSUME NEW lane \in Lane, NEW status, NEW page, NEW arg, arg = ForView(status, page)
  PROVE  /\ Known(Call(lane, arg)) /\ ~arg.awaited
         /\ arg.status = status /\ arg.page = page
<1> DEFINE no == FALSE
<1>1. no \in BOOLEAN /\ ~no
  OBVIOUS
<1>2. arg = Arg(no, status, page)
  BY DEF ForView
<1> HIDE DEF no
<1> QED
  BY <1>1, <1>2, ArgFields, KnownCall

LEMMA LoadResultsCore ==
  ASSUME NEW s, NEW u, Core(u, s), IsDone(u), NEW page \in 1..ResultPages,
         NEW retain, NEW awaited \in BOOLEAN, NEW v, v = LoadResults(u, page, retain, awaited)
  PROVE  Core(v, s)
<1> DEFINE arg == Arg(awaited, None, page)
<1>1. PICK f \in {"resultRefreshing", "resultLoading"} :
        /\ IsPage(v) /\ SameExperiment(u, v) /\ SameRun(u, v) /\ SameScope(u, v)
        /\ SameMetadata(u, v)
        /\ v.results = u.results /\ v.asked = page /\ v.resultError = None
        /\ v.flags = u.flags \cup {f}
        /\ v.calls = Sent(u.calls, "results", arg)
  BY LoadResultsFields DEF Core, FieldsInv
<1>2. FieldsInv(v)
  BY <1>1, ResultPagesAssumption
  DEF Core, FieldsInv, SameExperiment, SameRun, SameScope, SameMetadata, MaybeError, Flag
<1>3. arg.page = page /\ arg.awaited \in BOOLEAN
  BY ArgFields
<1> HIDE DEF arg
<1>4. Known(Call("results", arg))
  BY <1>3, KnownCall DEF Lane
<1>5. f \in FlagsOf("results")
  BY DEF FlagsOf
<1> QED
  BY <1>1, <1>2, <1>3, <1>4, <1>5, CoreSent DEF SameExperiment

LEMMA LoadResultsStep ==
  ASSUME NEW s, NEW ran, NEW u, PageOK(u, s, ran), IsDone(u), NEW page \in 1..ResultPages,
         NEW retain, NEW awaited \in BOOLEAN, ~awaited,
         NEW v, v = LoadResults(u, page, retain, awaited)
  PROVE  PageOK(v, s, ran) /\ v.experiment = u.experiment
<1> DEFINE arg == Arg(awaited, None, page)
<1>1. PICK f \in {"resultRefreshing", "resultLoading"} :
        /\ SameExperiment(u, v) /\ SameRun(u, v) /\ SameScope(u, v)
        /\ v.flags = u.flags \cup {f}
        /\ v.calls = Sent(u.calls, "results", arg)
  BY LoadResultsFields DEF PageOK, Core, FieldsInv
<1>2. Core(v, s)
  BY LoadResultsCore DEF PageOK
<1>3. ~arg.awaited
  BY ArgFields
<1> HIDE DEF arg
<1>4. ExecuteInv(v, s, ran)
  <2>1. CallsInv(u) /\ ExecuteInv(u, s, ran)
    BY DEF PageOK, Core
  <2> QED
    BY <1>1, <1>3, <2>1, ExecuteSent DEF SameExperiment
<1> QED
  BY <1>1, <1>2, <1>4 DEF PageOK, LoadedInv, ScopeInv, SameExperiment, SameScope

LEMMA ResolveMetadataStep ==
  ASSUME NEW s, NEW ran, NEW u, PageOK(u, s, ran), NEW v, v = ResolveMetadata(u)
  PROVE  PageOK(v, s, ran) /\ v.experiment = u.experiment
<1> DEFINE arg == ForView(None, 0)
<1>1. /\ IsPage(v) /\ SameExperiment(u, v) /\ SameRun(u, v) /\ SameScope(u, v)
      /\ SameResults(u, v) /\ v.metadataErrors = {}
      /\ v.flags = u.flags \cup {"metadataLoading"}
      /\ v.calls = Sent(u.calls, "metadata", arg)
  BY ResolveMetadataFields DEF PageOK, Core, FieldsInv
<1>2. FieldsInv(v)
  BY <1>1 DEF PageOK, Core, FieldsInv, SameExperiment, SameRun, SameScope, SameResults, Flag
<1>3. ~arg.awaited /\ Known(Call("metadata", arg))
  BY ForViewCall DEF Lane
<1> HIDE DEF arg
<1>4. Core(v, s)
  <2>1. "metadataLoading" \in FlagsOf("metadata")
    BY DEF FlagsOf
  <2> QED
    BY <1>1, <1>2, <1>3, <2>1, CoreSent DEF PageOK, SameExperiment, SameResults
<1>5. ExecuteInv(v, s, ran)
  <2>1. CallsInv(u) /\ ExecuteInv(u, s, ran)
    BY DEF PageOK, Core
  <2> QED
    BY <1>1, <1>3, <2>1, ExecuteSent DEF SameExperiment
<1> QED
  BY <1>1, <1>4, <1>5 DEF PageOK, LoadedInv, ScopeInv, SameExperiment, SameScope

(* VerifyScope starts anew: nothing is asked of what was verified before.   *)
LEMMA VerifyScopeStep ==
  ASSUME NEW s, NEW ran, ran \in BOOLEAN, NEW u, Core(u, s), LoadedInv(u), ExecuteInv(u, s, ran),
         u.experiment # None, NEW v, v = VerifyScope(u, u.experiment)
  PROVE  PageOK(v, s, ran) /\ v.experiment = u.experiment
<1> DEFINE arg == ForView(u.experiment, 0)
<1>1. /\ IsPage(v) /\ SameExperiment(u, v) /\ SameRun(u, v) /\ SameMetadata(u, v)
      /\ SameResults(u, v)
      /\ v.scopeVerified = u.scopeVerified /\ v.scopeError = None
      /\ v.scopeNotFound \in BOOLEAN
      /\ v.flags = u.flags \cup {"scopeChecking"}
      /\ v.calls = Sent(u.calls, "scope", arg)
  BY VerifyScopeFields DEF Core, FieldsInv
<1>2. FieldsInv(v)
  BY <1>1 DEF Core, FieldsInv, SameExperiment, SameRun, SameMetadata, SameResults, MaybeError, Flag
<1>3. ~arg.awaited /\ Known(Call("scope", arg)) /\ arg.status = u.experiment
  BY ForViewCall DEF Lane
<1> HIDE DEF arg
<1>4. Core(v, s)
  <2>1. "scopeChecking" \in FlagsOf("scope")
    BY DEF FlagsOf
  <2>2. u.experiment \in Status
    BY DEF Core, FieldsInv
  <2> QED
    BY <1>1, <1>2, <1>3, <2>1, <2>2, CoreSent DEF SameExperiment, SameResults, IsDone
<1>5. ExecuteInv(v, s, ran)
  BY <1>1, <1>3, ExecuteSent DEF Core, SameExperiment
<1> QED
  BY <1>1, <1>4, <1>5 DEF PageOK, LoadedInv, ScopeInv, SameExperiment

LEMMA LoadExperimentCore ==
  ASSUME NEW s, NEW u, Core(u, s), NEW retain, NEW include \in BOOLEAN,
         NEW v, v = LoadExperiment(u, retain, include)
  PROVE  Core(v, s)
<1> DEFINE arg == Arg(~include, None, 0)
           f == IF retain THEN "refreshing" ELSE "initialLoading"
<1>1. /\ IsPage(v) /\ v.experiment = u.experiment /\ v.experimentError = None
      /\ SameRun(u, v) /\ SameScope(u, v) /\ SameMetadata(u, v) /\ SameResults(u, v)
      /\ v.flags = u.flags \cup {f}
      /\ v.calls = Sent(u.calls, "experiment", arg)
  BY LoadExperimentFields DEF Core, FieldsInv
<1>2. f \in {"initialLoading", "refreshing"} /\ f \in FlagsOf("experiment")
  BY DEF FlagsOf
<1>3. arg.awaited \in BOOLEAN
  BY ArgFields
<1> HIDE DEF arg, f
<1>4. FieldsInv(v)
  BY <1>1, <1>2
  DEF Core, FieldsInv, SameRun, SameScope, SameMetadata, SameResults, MaybeError, Flag
<1>5. Known(Call("experiment", arg))
  BY <1>3, KnownCall DEF Lane
<1> QED
  BY <1>1, <1>2, <1>4, <1>5, CoreSent DEF SameResults

(* A load for the view, while execute() awaits no other.                   *)
IsTrue(b) == b = TRUE
IsFalse(b) == b = FALSE

LEMMA LoadForView ==
  ASSUME NEW s, NEW ran, NEW u, Core(u, s), ScopeInv(u), ExecuteInv(u, s, ran),
         \A c \in u.calls : ~Awaited(c),
         NEW retain, NEW include, IsTrue(include), NEW v, v = LoadExperiment(u, retain, include)
  PROVE  /\ Core(v, s) /\ ScopeInv(v) /\ ExecuteInv(v, s, ran)
         /\ v.experiment = u.experiment
         /\ IsFalse(retain) => "initialLoading" \in v.flags
<1> DEFINE arg == Arg(~include, None, 0)
<1>1. /\ v.experiment = u.experiment /\ v.experimentError = None
      /\ SameRun(u, v) /\ SameScope(u, v)
      /\ v.flags = u.flags \cup {IF retain THEN "refreshing" ELSE "initialLoading"}
      /\ v.calls = Sent(u.calls, "experiment", arg)
  BY LoadExperimentFields DEF Core, FieldsInv
<1>2. include \in BOOLEAN
  BY DEF IsTrue
<1>3. ~arg.awaited
  <2>1. arg.awaited \in BOOLEAN /\ (arg.awaited <=> ~include)
    BY ArgFields
  <2> HIDE DEF arg
  <2> QED
    BY <2>1 DEF IsTrue
<1>4. Core(v, s)
  BY <1>2, LoadExperimentCore
<1> HIDE DEF arg
<1>5. ExecuteInv(v, s, ran)
  BY <1>1, <1>3, ExecuteSent DEF Core
<1>6. IsFalse(retain) => "initialLoading" \in v.flags
  BY <1>1 DEF IsFalse
<1> QED
  BY <1>1, <1>4, <1>5, <1>6 DEF ScopeInv, SameScope

LEMMA FirstLoadStep ==
  ASSUME NEW s, NEW ran, ran \in BOOLEAN, NEW u, Core(u, s), ScopeInv(u), ExecuteInv(u, s, ran),
         \A c \in u.calls : ~Awaited(c), NEW retain, IsFalse(retain),
         NEW include, IsTrue(include), NEW v, v = LoadExperiment(u, retain, include)
  PROVE  PageOK(v, s, ran) /\ v.experiment = u.experiment
BY LoadForView DEF PageOK, LoadedInv

LEMMA ReloadStep ==
  ASSUME NEW s, NEW ran, ran \in BOOLEAN, NEW u, Core(u, s), ScopeInv(u), ExecuteInv(u, s, ran),
         \A c \in u.calls : ~Awaited(c), u.experiment # None,
         NEW retain, NEW include, IsTrue(include), NEW v, v = LoadExperiment(u, retain, include)
  PROVE  PageOK(v, s, ran) /\ v.experiment = u.experiment
BY LoadForView DEF PageOK, LoadedInv
-----------------------------------------------------------------------------
LEMMA NoneIsNothing == None \notin Status /\ None \notin Done /\ None \in MaybeError
  BY NoneAssumption DEF Status, MaybeError

(* A page just opened: what was in flight has been aborted.                *)
LEMMA OpenedPage ==
  ASSUME NEW s \in Status, NEW k, AreCalls(k),
         \A c \in k : ~c.live /\ c.lane = "run" /\ Known(c),
         NEW ran, ran = FALSE, NEW retain, IsFalse(retain),
         NEW include, IsTrue(include),
         NEW v, v = LoadExperiment(WithCalls(NewPage, k), retain, include)
  PROVE  PageOK(v, s, ran)
<1> DEFINE n == NewPage
           u == WithCalls(n, k)
<1>1. IsPage(n)
  BY DEF NewPage, IsPage
<1>2. /\ n.experiment = None /\ n.experimentError = None /\ n.runError = None
      /\ n.pending = None /\ n.scopeError = None /\ n.resultError = None
      /\ n.scopeVerified \in BOOLEAN /\ n.scopeNotFound \in BOOLEAN
      /\ n.metadataErrors = {} /\ n.results = 0 /\ n.asked = 0 /\ n.flags = {}
  BY DEF NewPage
<1> HIDE DEF n
<1>3. /\ IsPage(u) /\ SameExperiment(n, u) /\ SameRun(n, u) /\ SameScope(n, u)
      /\ SameMetadata(n, u) /\ SameResults(n, u) /\ u.flags = n.flags /\ u.calls = k
  BY <1>1, CallsFields
<1> HIDE DEF u
<1>4. FieldsInv(u)
  BY <1>2, <1>3, NoneIsNothing, ResultPagesAssumption
  DEF FieldsInv, SameExperiment, SameRun, SameScope, SameMetadata, SameResults
<1>5. ~IsDone(u) /\ u.experiment = None /\ u.flags = {}
  BY <1>2, <1>3, NoneIsNothing DEF IsDone, SameExperiment
<1>6. CallsInv(u)
  BY <1>3 DEF CallsInv, OneLive
<1>7. Core(u, s)
  BY <1>2, <1>3, <1>4, <1>5, <1>6
  DEF Core, FlagsInv, Busy, StatusInv, ResultsInv, SameResults
<1>8. \A c \in u.calls : ~OfExecute(c) /\ ~Awaited(c)
  BY <1>3 DEF Known, OfExecute, Awaited
<1>9. ExecuteInv(u, s, ran)
  BY <1>5, <1>6, <1>8, ExecuteDone
<1>10. ScopeInv(u)
  BY <1>5 DEF ScopeInv
<1> QED
  BY <1>7, <1>8, <1>9, <1>10, FirstLoadStep DEF u, n

LEMMA ReopenInv == ASSUME IInv, Reopen PROVE IInv'
<1> DEFINE k == {c \in Aborted(ui.calls, Lane) : c.lane = "run"}
           no == FALSE
           yes == TRUE
           v == LoadExperiment(WithCalls(NewPage, k), no, yes)
<1>1. ui' = v /\ ranHere' = no /\ stored' = stored
  BY DEF Reopen, WithCalls
<1>2. AreCalls(ui.calls) /\ (\A c \in ui.calls : Known(c)) /\ stored \in Status
  BY DEF IInv, PageOK, Core, CallsInv, StatusInv
<1>3. \A d \in Aborted(ui.calls, Lane) :
        /\ IsCall(d)
        /\ \E c \in ui.calls : d.lane = c.lane /\ d.arg = c.arg /\ d.reply = c.reply
        /\ d.lane \in Lane => ~d.live
  BY <1>2, AbortedCalls
<1>4. AreCalls(k) /\ \A c \in k : ~c.live /\ c.lane = "run" /\ Known(c)
  BY <1>2, <1>3 DEF AreCalls, Known
<1>5. IsFalse(no) /\ no = FALSE /\ IsTrue(yes)
  BY DEF IsFalse, IsTrue
<1> HIDE DEF no, yes, k
<1>6. PageOK(v, stored, no)
  BY <1>2, <1>4, <1>5, OpenedPage
<1> HIDE DEF v
<1> QED
  BY <1>1, <1>6, PrimedPage

LEMMA InitInv == Init => IInv
<1> SUFFICES ASSUME Init PROVE IInv
  OBVIOUS
<1> DEFINE k == {}
           no == FALSE
           yes == TRUE
           v == LoadExperiment(WithCalls(NewPage, k), no, yes)
<1>1. WithCalls(NewPage, k) = NewPage
  <2> DEFINE b == FALSE
             m == [experiment |-> None, experimentError |-> None,
                   runError |-> None, pending |-> None,
                   scopeVerified |-> b, scopeNotFound |-> b, scopeError |-> None,
                   metadataErrors |-> {}, results |-> 0, asked |-> 0, resultError |-> None,
                   flags |-> {}, calls |-> {}]
  <2>1. NewPage = m
    BY DEF NewPage
  <2> HIDE DEF b
  <2>2. [m EXCEPT !.calls = {}] = m
    OBVIOUS
  <2> QED
    BY <2>1, <2>2 DEF WithCalls
<1>2. ui = v /\ ranHere = no /\ stored \in Status
  BY <1>1 DEF Init
<1>3. AreCalls(k) /\ \A c \in k : ~c.live /\ c.lane = "run" /\ Known(c)
  BY DEF AreCalls
<1>4. IsFalse(no) /\ no = FALSE /\ IsTrue(yes)
  BY DEF IsFalse, IsTrue
<1> HIDE DEF no, yes, k
<1>5. PageOK(v, stored, no)
  BY <1>2, <1>3, <1>4, OpenedPage
<1> HIDE DEF v
<1> QED
  BY <1>2, <1>5 DEF IInv

LEMMA ClickRunInv == ASSUME IInv, ClickRun PROVE IInv' /\ Steady
<1> DEFINE v == Execute(ui)
           arg == ForView(None, 0)
<1>1. ui' = v /\ stored' = stored /\ ranHere' = ranHere
  BY DEF ClickRun
<1>2. ui.experiment = "CREATED" /\ "running" \notin ui.flags
  BY DEF ClickRun, CanRun
<1>3. Core(ui, stored) /\ FieldsInv(ui) /\ CallsInv(ui) /\ ExecuteInv(ui, stored, ranHere)
  BY DEF IInv, PageOK, Core
<1>4. /\ IsPage(v) /\ SameExperiment(ui, v) /\ SameScope(ui, v) /\ SameMetadata(ui, v)
      /\ SameResults(ui, v) /\ v.runError = None /\ v.pending = ui.pending
      /\ v.flags = ui.flags \cup {"running"}
      /\ v.calls = Sent(ui.calls, "run", arg)
  BY <1>3, ExecuteFields DEF FieldsInv
<1> HIDE DEF v
<1>5. FieldsInv(v)
  BY <1>3, <1>4, NoneIsNothing
  DEF FieldsInv, SameExperiment, SameScope, SameMetadata, SameResults, Flag
<1>6. Known(Call("run", arg)) /\ ~arg.awaited
  BY ForViewCall DEF Lane
<1> HIDE DEF arg
<1>7. Core(v, stored)
  <2>1. "running" \in FlagsOf("run")
    BY DEF FlagsOf
  <2> QED
    BY <1>3, <1>4, <1>5, <1>6, <2>1, CoreSent DEF SameExperiment, SameResults
<1>8. ExecuteInv(v, stored, ranHere)
  <2>1. AreCalls(ui.calls) /\ (\A c \in ui.calls : Known(c)) /\ ~\E d \in ui.calls : OfExecute(d)
    BY <1>2, <1>3 DEF CallsInv, ExecuteInv
  <2>2. v.experiment # None /\ "running" \in v.flags
    BY <1>2, <1>4, NoneIsNothing DEF SameExperiment, Status
  <2>3. ranHere => stored \in Done
    BY <1>3 DEF ExecuteInv
  <2> QED
    BY <1>4, <1>6, <2>1, <2>2, <2>3, ExecuteGoesOn
<1>9. PageOK(v, stored, ranHere)
  BY <1>4, <1>7, <1>8 DEF IInv, PageOK, LoadedInv, ScopeInv, SameExperiment, SameScope
<1> QED
  BY <1>1, <1>4, <1>9, PrimedPage DEF Steady, SameExperiment

(* execute() awaits nothing while an error of a load or a run is shown.    *)
LEMMA NothingAwaited ==
  ASSUME IInv
  PROVE  ui.experiment = None \/ ui.experimentError # None \/ ui.runError # None =>
           \A c \in ui.calls : ~Awaited(c)
<1>1. \A c \in ui.calls : Awaited(c) => OfExecute(c)
  BY AwaitedLane DEF IInv, PageOK, Core, CallsInv
<1> QED
  BY <1>1 DEF IInv, PageOK, ExecuteInv, AwaitedInv

LEMMA RetryInv == ASSUME IInv, Retry PROVE IInv' /\ Steady
<1> DEFINE no == FALSE
           yes == TRUE
<1>1. IsFalse(no) /\ IsTrue(yes) /\ ~no /\ no \in BOOLEAN
  BY DEF IsFalse, IsTrue
<1> HIDE DEF no, yes
<1>2. /\ PageOK(ui, stored, ranHere) /\ Core(ui, stored) /\ ScopeInv(ui) /\ LoadedInv(ui)
      /\ ExecuteInv(ui, stored, ranHere) /\ ranHere \in BOOLEAN
  BY DEF IInv, PageOK
<1>3. stored' = stored /\ ranHere' = ranHere
  BY DEF Retry
<1>4. CASE View = "failed" /\ ui' = LoadExperiment(ui, no, yes)
  <2>1. ui.experiment = None
    BY <1>4 DEF View
  <2>2. PageOK(ui', stored, ranHere) /\ ui'.experiment = ui.experiment
    BY <1>1, <1>2, <1>4, <2>1, NothingAwaited, FirstLoadStep
  <2> QED
    BY <1>3, <2>2, PrimedPage DEF Steady
<1>5. CASE /\ View = "page" /\ (ui.experimentError # None \/ ui.runError # None)
           /\ ui' = LoadExperiment(ui, yes, yes)
  <2>1. ui.experiment # None
    BY <1>5 DEF View
  <2>2. \A c \in ui.calls : ~Awaited(c)
    BY <1>5, NothingAwaited
  <2>3. IsTrue(yes)
    BY <1>1
  <2>4. ui' = LoadExperiment(ui, yes, yes)
    BY <1>5
  <2>5. PageOK(ui', stored, ranHere) /\ ui'.experiment = ui.experiment
    BY <1>2, <2>1, <2>2, <2>3, <2>4, ReloadStep
  <2> QED
    BY <1>3, <2>5, PrimedPage DEF Steady
<1>6. CASE View = "scopeFailed" /\ ui' = VerifyScope(ui, ui.experiment)
  <2>1. ui.experiment # None
    BY <1>6 DEF View
  <2>2. PageOK(ui', stored, ranHere) /\ ui'.experiment = ui.experiment
    BY <1>2, <1>6, <2>1, VerifyScopeStep
  <2> QED
    BY <1>3, <2>2, PrimedPage DEF Steady
<1>7. CASE ui' = ResolveMetadata(ui)
  <2>1. PageOK(ui', stored, ranHere) /\ ui'.experiment = ui.experiment
    BY <1>2, <1>7, ResolveMetadataStep
  <2> QED
    BY <1>3, <2>1, PrimedPage DEF Steady
<1>8. CASE /\ ui.resultError # None
           /\ ui' = LoadResults(ui, IF ui.results = 0 THEN 1 ELSE ui.results, ui.results > 0, no)
  <2> DEFINE page == IF ui.results = 0 THEN 1 ELSE ui.results
             retain == ui.results > 0
  <2>1. page \in 1..ResultPages
    BY <1>2, ResultPagesAssumption DEF Core, FieldsInv
  <2>2. IsDone(ui)
    BY <1>2, <1>8 DEF Core, ResultsInv
  <2>3. ui' = LoadResults(ui, page, retain, no)
    BY <1>8
  <2> HIDE DEF page, retain
  <2>4. PageOK(ui', stored, ranHere) /\ ui'.experiment = ui.experiment
    BY <1>1, <1>2, <2>1, <2>2, <2>3, LoadResultsStep
  <2> QED
    BY <1>3, <2>4, PrimedPage DEF Steady
<1> QED
  BY <1>4, <1>5, <1>6, <1>7, <1>8 DEF Retry, no, yes

LEMMA MoveResultPageInv == ASSUME IInv, MoveResultPage PROVE IInv' /\ Steady
<1> DEFINE no == FALSE
           yes == TRUE
<1>1. no \in BOOLEAN /\ ~no
  OBVIOUS
<1>2. PICK page \in {ui.results - 1, ui.results + 1} \cap 1..ResultPages :
        ui' = LoadResults(ui, page, yes, no)
  BY DEF MoveResultPage
<1>3. stored' = stored /\ ranHere' = ranHere /\ page \in 1..ResultPages /\ IsDone(ui)
  BY DEF MoveResultPage, IInv, PageOK, Core, ResultsInv
<1> HIDE DEF no, yes
<1>4. PageOK(ui', stored, ranHere) /\ ui'.experiment = ui.experiment
  BY <1>1, <1>2, <1>3, LoadResultsStep DEF IInv
<1> QED
  BY <1>3, <1>4, PrimedPage DEF Steady
-----------------------------------------------------------------------------
(* The server answers a call, and may have carried the experiment out.     *)
LEMMA AnswersDiffer ==
  /\ \A s, t : <<Answered(s)>> = <<Answered(t)>> => s = t
  /\ \A s, status, code : status # 200 => <<Answered(s)>> # <<Refused(status, code)>>
  /\ \A s : <<s>> # Waiting
<1>1. \A s, t : Answered(s) = Answered(t) => s = t
  BY DEF Answered, Response
<1>2. \A s, status, code : status # 200 => Answered(s) # Refused(status, code)
  BY DEF Answered, Refused, Response
<1>3. \A s, t : <<s>> = <<t>> => s = t
  OBVIOUS
<1>4. \A s : <<s>> # Waiting
  BY DEF Waiting
<1> QED
  BY <1>1, <1>2, <1>3, <1>4

IsAnswer(c, answer, s) ==
  \/ c.lane = "experiment" /\ answer = Answered(s)
  \/ c.lane = "run" /\ s \in Done /\ answer = Answered(s)
  \/ /\ c.lane = "run"
     /\ \E code \in {"DATASET_INACTIVE", "INVALID_STATE_TRANSITION"} : answer = Refused(409, code)

LEMMA ServedStep ==
  ASSUME NEW s \in Status, NEW ran, NEW u, PageOK(u, s, ran),
         NEW c \in u.calls, c.reply = Waiting, NEW answer, IsAnswer(c, answer, s),
         NEW v, v = WithCalls(u, Served(u.calls, c, answer))
  PROVE  PageOK(v, s, ran) /\ v.experiment = u.experiment
<1> DEFINE k == Served(u.calls, c, answer)
<1>1. Core(u, s) /\ FieldsInv(u) /\ CallsInv(u)
  BY DEF PageOK, Core
<1>k. k = Served(u.calls, c, answer)
  OBVIOUS
<1> HIDE DEF k
<1>a. AreCalls(u.calls) /\ OneLive(u.calls)
  BY <1>1 DEF CallsInv
<1>b. /\ AreCalls(k) /\ OneLive(k)
      /\ \A d \in k : (d \in u.calls /\ d # c) \/ ServedBy(d, c, answer)
      /\ \E d \in k : ServedBy(d, c, answer)
      /\ \A d \in u.calls : d # c => d \in k
  BY <1>a, <1>k, ServedFacts
<1>c. \A d \in u.calls : \E e \in k : e.lane = d.lane /\ e.arg = d.arg /\ e.live = d.live
  BY <1>b DEF ServedBy
<1>d. \A d \in k : \/ d \in u.calls /\ d # c
                  \/ /\ d.lane = c.lane /\ d.arg = c.arg /\ d.reply = <<answer>>
                     /\ d.live = c.live
  BY <1>b DEF ServedBy
<1>e. \A l : Pending(k, l) <=> Pending(u.calls, l)
  BY <1>c, <1>d DEF Pending
<1>2. /\ AreCalls(k) /\ OneLive(k)
      /\ \A d \in k : \/ d \in u.calls /\ d # c
                      \/ /\ d.lane = c.lane /\ d.arg = c.arg /\ d.reply = <<answer>>
                         /\ d.live = c.live
      /\ \A d \in u.calls : \E e \in k :
           e.lane = d.lane /\ e.arg = d.arg /\ e.live = d.live
      /\ \A d \in u.calls : d # c => d \in k
      /\ \A l : Pending(k, l) <=> Pending(u.calls, l)
  BY <1>b, <1>c, <1>d, <1>e
<1>3. /\ IsPage(v) /\ SameExperiment(u, v) /\ SameRun(u, v) /\ SameScope(u, v)
      /\ SameMetadata(u, v) /\ SameResults(u, v) /\ v.flags = u.flags /\ v.calls = k
  BY <1>1, <1>k, CallsFields DEF FieldsInv
<1>4. FieldsInv(v)
  BY <1>1, <1>3
  DEF FieldsInv, SameExperiment, SameRun, SameScope, SameMetadata, SameResults
<1>5. CallsInv(v)
  <2>1. ASSUME NEW d \in k PROVE Known(d)
    <3>1. CASE d \in u.calls
      BY <1>1, <3>1 DEF CallsInv
    <3>2. CASE /\ d.lane = c.lane /\ d.arg = c.arg /\ d.reply = <<answer>>
               /\ d.live = c.live
      <4>1. Known(c)
        BY <1>1 DEF CallsInv
      <4>2. d.lane \in {"experiment", "run"}
        BY <3>2 DEF IsAnswer
      <4>3. d.lane = "experiment" => \E t \in Status : d.reply = <<Answered(t)>>
        BY <3>2 DEF IsAnswer
      <4>4. d.lane = "run" =>
              \/ \E t \in Done : d.reply = <<Answered(t)>>
              \/ \E code \in {"DATASET_INACTIVE", "INVALID_STATE_TRANSITION"} :
                   d.reply = <<Refused(409, code)>>
        BY <3>2 DEF IsAnswer
      <4> QED
        BY <3>2, <4>1, <4>3, <4>4 DEF Known
    <3> QED
      BY <1>2, <3>1, <3>2
  <2> QED
    BY <1>2, <1>3, <2>1 DEF CallsInv
<1>6. FlagsInv(v)
  BY <1>1, <1>2, <1>3 DEF Core, FlagsInv, Busy
<1>7. StatusInv(v, s)
  <2> SUFFICES ASSUME NEW d \in k, NEW t \in Status, d.live, d.reply = <<Answered(t)>>
               PROVE  /\ d.lane \in {"experiment", "run"}
                      /\ t \in Done => t = s
                      /\ d.lane = "experiment" /\ IsDone(u) => t = u.experiment
    BY <1>1, <1>3 DEF StatusInv, Core, IsDone, SameExperiment
  <2>1. CASE d \in u.calls
    BY <1>1, <2>1 DEF StatusInv, Core
  <2>2. CASE d.lane = c.lane /\ d.reply = <<answer>>
    <3>1. t = s /\ d.lane \in {"experiment", "run"}
      BY <2>2, AnswersDiffer DEF IsAnswer
    <3> QED
      BY <1>1, <3>1 DEF StatusInv, Core
  <2> QED
    BY <1>2, <2>1, <2>2
<1>8. ResultsInv(v)
  <2>1. \A d \in k : \E e \in u.calls : e.lane = d.lane /\ e.arg = d.arg /\ e.live = d.live
    BY <1>2
  <2> QED
    BY <1>1, <1>2, <1>3, <2>1 DEF ResultsInv, Core, IsDone, SameExperiment, SameResults
<1>9. ExecuteInv(v, s, ran)
  <2>1. ExecuteInv(u, s, ran)
    BY DEF PageOK
  <2>2. \A d \in k : OfExecute(d) =>
          \/ d \in u.calls /\ d # c
          \/ /\ d.lane = c.lane /\ d.arg = c.arg /\ d.reply = <<answer>>
             /\ d.live = c.live /\ OfExecute(c)
    BY <1>2 DEF OfExecute
  <2>3. \A d, e \in k : OfExecute(d) /\ OfExecute(e) => d = e
    BY <1>2, <2>1, <2>2 DEF ExecuteInv, AreCalls, IsCall
  <2>4. (\E d \in k : OfExecute(d)) <=> (\E d \in u.calls : OfExecute(d))
    BY <1>2 DEF OfExecute
  <2>5. (\E d \in k : Awaited(d)) <=> (\E d \in u.calls : Awaited(d))
    BY <1>2 DEF Awaited
  <2>6. AwaitedInv(v, s, ran)
    <3> SUFFICES ASSUME NEW d \in k, Awaited(d)
                 PROVE  /\ d.live /\ u.experimentError = None
                        /\ u.pending # None \/ IsDone(u)
                        /\ ran /\ d.reply # Waiting => d.reply = <<Answered(s)>>
      BY <1>3 DEF AwaitedInv, IsDone, SameExperiment, SameRun
    <3>1. CASE d \in u.calls
      BY <2>1, <3>1 DEF ExecuteInv, AwaitedInv
    <3>2. CASE d.lane = c.lane /\ d.arg = c.arg /\ d.reply = <<answer>> /\ d.live = c.live
      <4>1. Awaited(c)
        BY <3>2 DEF Awaited
      <4>2. answer = Answered(s)
        BY <4>1 DEF Awaited, IsAnswer
      <4> QED
        BY <2>1, <3>2, <4>1, <4>2 DEF ExecuteInv, AwaitedInv
    <3> QED
      BY <1>2, <3>1, <3>2
  <2> QED
    BY <1>2, <1>3, <2>1, <2>3, <2>4, <2>5, <2>6
    DEF ExecuteInv, IsDone, SameExperiment, SameRun
<1>10. LoadedInv(v) /\ ScopeInv(v)
  BY <1>3 DEF PageOK, LoadedInv, ScopeInv, SameExperiment, SameScope
<1> QED
  BY <1>3, <1>4, <1>5, <1>6, <1>7, <1>8, <1>9, <1>10 DEF PageOK, Core, SameExperiment

(* The server's record of the experiment ends: no page has seen that yet.   *)
LEMMA CarriedOut ==
  ASSUME NEW s, s \notin Done, NEW t \in Done, NEW u, NEW ran, PageOK(u, s, ran),
         NEW now \in BOOLEAN, now => ran \/ Pending(u.calls, "run")
  PROVE  PageOK(u, t, now)
<1>1. Core(u, t)
  <2>1. Core(u, s) /\ t \in Status
    BY DEF PageOK, Status
  <2>2. StatusInv(u, s) /\ ~IsDone(u)
    BY <2>1 DEF Core, StatusInv, IsDone
  <2>3. \A c \in u.calls : \A r \in Status : c.live /\ c.reply = <<Answered(r)>> =>
          c.lane \in {"experiment", "run"} /\ r \notin Done
    BY <2>2 DEF StatusInv
  <2>4. StatusInv(u, t)
    BY <2>1, <2>2, <2>3 DEF StatusInv
  <2> QED
    BY <2>1, <2>4 DEF Core
<1>2. ~ran /\ ExecuteInv(u, s, ran)
  BY DEF PageOK, ExecuteInv
<1>3. now => ~\E d \in u.calls : Awaited(d)
  <2> SUFFICES ASSUME now, NEW d \in u.calls, Awaited(d) PROVE FALSE
    OBVIOUS
  <2>1. PICK c \in u.calls : c.lane = "run" /\ c.live
    BY <1>2 DEF Pending
  <2>2. OfExecute(c) /\ OfExecute(d)
    BY <2>1 DEF OfExecute, Awaited
  <2> QED
    BY <1>2, <2>1, <2>2 DEF ExecuteInv, Awaited
<1>4. ExecuteInv(u, t, now)
  BY <1>2, <1>3 DEF ExecuteInv, AwaitedInv
<1> QED
  BY <1>1, <1>4 DEF PageOK

LEMMA ServeExperimentInv ==
  ASSUME IInv, NEW c \in ui.calls, ServeExperiment(c) PROVE IInv' /\ Steady
<1>1. /\ ui' = WithCalls(ui, Served(ui.calls, c, Answered(stored)))
      /\ c.reply = Waiting /\ c.lane = "experiment"
      /\ stored' = stored /\ ranHere' = ranHere
  BY DEF ServeExperiment, WithCalls
<1>2. IsAnswer(c, Answered(stored), stored)
  BY <1>1 DEF IsAnswer
<1>3. PageOK(ui, stored, ranHere) /\ stored \in Status
  BY DEF IInv, PageOK, Core, StatusInv
<1>4. PageOK(ui', stored, ranHere) /\ ui'.experiment = ui.experiment
  BY <1>1, <1>2, <1>3, ServedStep
<1> QED
  BY <1>1, <1>4, PrimedPage DEF Steady

LEMMA ServeRunInv ==
  ASSUME IInv, NEW c \in ui.calls, ServeRun(c) PROVE IInv' /\ Steady
<1>1. PageOK(ui, stored, ranHere) /\ stored \in Status /\ Done \subseteq Status
  BY DEF IInv, PageOK, Core, StatusInv, Status
<1>2. c.reply = Waiting /\ c.lane = "run"
  BY DEF ServeRun
<1>3. CASE /\ stored = "CREATED" /\ ranHere' = c.live /\ stored' \in Done
           /\ ui' = WithCalls(ui, Served(ui.calls, c, Answered(stored')))
  <2>1. IsAnswer(c, Answered(stored'), stored')
    BY <1>2, <1>3 DEF IsAnswer
  <2>2. c.live \in BOOLEAN
    BY <1>1 DEF PageOK, Core, CallsInv, AreCalls, IsCall
  <2>3. c.live => Pending(ui.calls, "run")
    BY <1>2 DEF Pending
  <2>4. stored \notin Done
    BY <1>3 DEF Done
  <2>5. PageOK(ui, stored', c.live)
    BY <1>1, <1>3, <2>2, <2>3, <2>4, CarriedOut
  <2>6. PageOK(ui', stored', c.live) /\ ui'.experiment = ui.experiment
    BY <1>1, <1>2, <1>3, <2>1, <2>5, ServedStep
  <2> QED
    BY <1>3, <2>6, PrimedPage DEF Steady
<1>4. CASE /\ \E code \in {"DATASET_INACTIVE", "INVALID_STATE_TRANSITION"} :
                ui' = WithCalls(ui, Served(ui.calls, c, Refused(409, code)))
           /\ stored' = stored /\ ranHere' = ranHere
  <2>1. PICK code \in {"DATASET_INACTIVE", "INVALID_STATE_TRANSITION"} :
          ui' = WithCalls(ui, Served(ui.calls, c, Refused(409, code)))
    BY <1>4
  <2>2. IsAnswer(c, Refused(409, code), stored)
    BY <1>2 DEF IsAnswer
  <2>3. PageOK(ui', stored, ranHere) /\ ui'.experiment = ui.experiment
    BY <1>1, <1>2, <2>1, <2>2, ServedStep
  <2> QED
    BY <1>4, <2>3, PrimedPage DEF Steady
<1> QED
  BY <1>3, <1>4 DEF ServeRun, WithCalls

LEMMA RunElsewhereInv == ASSUME IInv, RunElsewhere PROVE IInv' /\ Steady
<1>1. /\ stored \notin Done /\ stored' \in Done /\ ui' = ui /\ ranHere' = ranHere
      /\ PageOK(ui, stored, ranHere) /\ ranHere \in BOOLEAN
  BY DEF RunElsewhere, IInv, PageOK, Done
<1>2. PageOK(ui, stored', ranHere)
  BY <1>1, CarriedOut
<1> QED
  BY <1>1, <1>2, PrimedPage DEF Steady
-----------------------------------------------------------------------------

(* What the page may get of a load of the experiment, and of a run.        *)
IsError(o) == o.kind # "data" /\ o.value = None /\ o \in MaybeError /\ o # None

LEMMA LostIsError == \A o \in Lost : IsError(o)
  BY LostCalls, NoneAssumption DEF IsError, MaybeError

LEMMA RefusalIsError ==
  ASSUME NEW code \in {"DATASET_INACTIVE", "INVALID_STATE_TRANSITION"}
  PROVE  IsError(request(Refused(409, code)))
<1> DEFINE o == request(Refused(409, code))
<1>1. o.kind # "data" /\ o.value = None
  BY RefusedIsError
<1>2. o \in RunErrors
  BY DEF RunErrors
<1> HIDE DEF o
<1>3. IsError(o)
  BY <1>1, <1>2, NoneAssumption DEF IsError, MaybeError
<1> QED
  BY <1>3 DEF o

LEMMA OutcomeOf ==
  ASSUME NEW c, NEW o \in OutcomesOf(c)
  PROVE  \/ IsError(o)
         \/ c.reply # Waiting /\ o = request(c.reply[1])
<1>1. CASE c.reply = Waiting
  BY <1>1, LostIsError DEF OutcomesOf
<1>2. CASE c.reply # Waiting
  BY <1>2, LostIsError DEF OutcomesOf, Outcomes
<1> QED
  BY <1>1, <1>2

LEMMA DataFields ==
  ASSUME NEW t, NEW o, o = request(Answered(t))
  PROVE  o.kind = "data" /\ o.value = t
BY AnsweredIsData DEF Data

LEMMA ExperimentOutcome ==
  ASSUME NEW c, Known(c), c.lane = "experiment", NEW o \in OutcomesOf(c)
  PROVE  \/ IsError(o)
         \/ o.kind = "data" /\ o.value \in Status /\ c.reply = <<Answered(o.value)>>
<1>1. CASE c.reply # Waiting /\ o = request(c.reply[1])
  <2>1. PICK t \in Status : c.reply = <<Answered(t)>>
    BY <1>1 DEF Known
  <2>2. o = request(Answered(t))
    BY <1>1, <2>1
  <2>3. o.kind = "data" /\ o.value = t
    BY <2>2, DataFields
  <2> QED
    BY <2>1, <2>3
<1> QED
  BY <1>1, OutcomeOf

LEMMA RunOutcome ==
  ASSUME NEW c, Known(c), c.lane = "run", NEW o \in OutcomesOf(c)
  PROVE  \/ IsError(o)
         \/ o.kind = "data" /\ o.value \in Done /\ c.reply = <<Answered(o.value)>>
<1>1. CASE c.reply # Waiting /\ o = request(c.reply[1])
  <2>1. CASE \E t \in Done : c.reply = <<Answered(t)>>
    <3>1. PICK t \in Done : c.reply = <<Answered(t)>>
      BY <2>1
    <3>2. o = request(Answered(t))
      BY <1>1, <3>1
    <3>3. o.kind = "data" /\ o.value = t
      BY <3>2, DataFields
    <3> QED
      BY <3>1, <3>3
  <2>2. CASE \E code \in {"DATASET_INACTIVE", "INVALID_STATE_TRANSITION"} :
               c.reply = <<Refused(409, code)>>
    <3>1. PICK code \in {"DATASET_INACTIVE", "INVALID_STATE_TRANSITION"} :
                 c.reply = <<Refused(409, code)>>
      BY <2>2
    <3>2. o = request(Refused(409, code))
      BY <1>1, <3>1
    <3> QED
      BY <3>2, RefusalIsError
  <2> QED
    BY <1>1, <2>1, <2>2 DEF Known
<1> QED
  BY <1>1, OutcomeOf
-----------------------------------------------------------------------------
(* A call ends at the page.                                                *)
LEMMA EndedFields ==
  ASSUME NEW u, IsPage(u), NEW k, NEW f, NEW v, v = WithFlags(WithCalls(u, k), f)
  PROVE  /\ IsPage(v) /\ SameExperiment(u, v) /\ SameRun(u, v) /\ SameScope(u, v)
         /\ SameMetadata(u, v) /\ SameResults(u, v) /\ v.flags = f /\ v.calls = k
<1> DEFINE w == WithCalls(u, k)
<1>1. /\ IsPage(w) /\ SameExperiment(u, w) /\ SameRun(u, w) /\ SameScope(u, w)
      /\ SameMetadata(u, w) /\ SameResults(u, w) /\ w.calls = k
  BY CallsFields
<1> HIDE DEF w
<1>2. v = WithFlags(w, f)
  BY DEF w
<1>3. /\ IsPage(v) /\ SameExperiment(w, v) /\ SameRun(w, v) /\ SameScope(w, v)
      /\ SameMetadata(w, v) /\ SameResults(w, v) /\ v.flags = f /\ v.calls = w.calls
  BY <1>1, <1>2, FlagsFields
<1> QED
  BY <1>1, <1>3 DEF SameExperiment, SameRun, SameScope, SameMetadata, SameResults

(* The call and its indicator are gone; nothing is done with the outcome.  *)
LEMMA EndedCore ==
  ASSUME NEW s, NEW u, Core(u, s), NEW c \in u.calls, NEW k, IsEnded(k, u.calls, c),
         ~(c.live /\ c.lane = "results"), NEW f, f \subseteq u.flags,
         c.live /\ c.lane # "run" => f \cap FlagsOf(c.lane) = {},
         NEW v, v = WithFlags(WithCalls(u, k), f)
  PROVE  Core(v, s)
<1>1. /\ IsPage(v) /\ SameExperiment(u, v) /\ SameRun(u, v) /\ SameScope(u, v)
      /\ SameMetadata(u, v) /\ SameResults(u, v) /\ v.flags = f /\ v.calls = k
  BY EndedFields DEF Core, FieldsInv
<1>2. FieldsInv(v)
  BY <1>1
  DEF Core, FieldsInv, SameExperiment, SameRun, SameScope, SameMetadata, SameResults
<1> QED
  BY <1>1, <1>2, CoreEnded DEF SameExperiment, SameResults

LEMMA EndedExecute ==
  ASSUME NEW s, NEW ran, NEW u, Core(u, s), ExecuteInv(u, s, ran), NEW c \in u.calls,
         NEW k, IsEnded(k, u.calls, c), ~OfExecute(c), NEW f,
         "running" \in f <=> "running" \in u.flags,
         NEW v, v = WithFlags(WithCalls(u, k), f)
  PROVE  ExecuteInv(v, s, ran)
<1>1. SameExperiment(u, v) /\ SameRun(u, v) /\ v.flags = f /\ v.calls = k
  BY EndedFields DEF Core, FieldsInv
<1>2. CallsInv(u)
  BY DEF Core
<1> QED
  BY <1>1, <1>2, ExecuteEnded DEF SameExperiment, IsDone

(* The answer of a call that is no longer wanted.                          *)
LEMMA DroppedInv ==
  ASSUME IInv, NEW c \in ui.calls, ~c.live, ~OfExecute(c), NEW k, IsEnded(k, ui.calls, c),
         ui' = WithCalls(ui, k), stored' = stored, ranHere' = ranHere
  PROVE  IInv' /\ Steady
<1> DEFINE v == WithCalls(ui, k)
<1>1. /\ Core(ui, stored) /\ FieldsInv(ui) /\ CallsInv(ui) /\ LoadedInv(ui) /\ ScopeInv(ui)
      /\ ExecuteInv(ui, stored, ranHere) /\ ranHere \in BOOLEAN
  BY DEF IInv, PageOK, Core
<1>2. /\ IsPage(v) /\ SameExperiment(ui, v) /\ SameRun(ui, v) /\ SameScope(ui, v)
      /\ SameMetadata(ui, v) /\ SameResults(ui, v) /\ v.flags = ui.flags /\ v.calls = k
  BY <1>1, CallsFields DEF FieldsInv
<1>3. ui' = v
  OBVIOUS
<1> HIDE DEF v
<1>4. FieldsInv(v)
  BY <1>1, <1>2
  DEF FieldsInv, SameExperiment, SameRun, SameScope, SameMetadata, SameResults
<1>5. Core(v, stored)
  BY <1>1, <1>2, <1>4, CoreEnded DEF SameExperiment, SameResults
<1>6. ExecuteInv(v, stored, ranHere)
  BY <1>1, <1>2, ExecuteEnded DEF SameExperiment, IsDone
<1>7. PageOK(v, stored, ranHere)
  BY <1>1, <1>2, <1>5, <1>6 DEF PageOK, LoadedInv, ScopeInv, SameExperiment, SameScope
<1> QED
  BY <1>2, <1>3, <1>7, PrimedPage DEF Steady, SameExperiment

LEMMA ReceiveMetadataInv ==
  ASSUME IInv, NEW c \in ui.calls, ReceiveMetadata(c) PROVE IInv' /\ Steady
<1> DEFINE k == Ended(ui.calls, c)
           u == WithCalls(ui, k)
<1>1. /\ Core(ui, stored) /\ FieldsInv(ui) /\ CallsInv(ui) /\ LoadedInv(ui) /\ ScopeInv(ui)
      /\ ExecuteInv(ui, stored, ranHere) /\ ranHere \in BOOLEAN
  BY DEF IInv, PageOK, Core
<1>2. c.lane = "metadata" /\ stored' = stored /\ ranHere' = ranHere
  BY DEF ReceiveMetadata
<1>3. IsEnded(k, ui.calls, c)
  BY <1>1, EndedIs
<1>4. ~OfExecute(c)
  BY <1>1, <1>2 DEF CallsInv, Known, OfExecute
<1>5. IF c.live THEN \E failed \in SUBSET Part : ui' = MetadataResolved(u, failed) ELSE ui' = u
  BY DEF ReceiveMetadata, IsCurrent, WithCalls
<1> HIDE DEF k
<1>6. /\ IsPage(u) /\ SameExperiment(ui, u) /\ SameRun(ui, u) /\ SameScope(ui, u)
      /\ SameMetadata(ui, u) /\ SameResults(ui, u) /\ u.flags = ui.flags /\ u.calls = k
  BY <1>1, CallsFields DEF FieldsInv
<1>7. CASE ~c.live
  BY <1>2, <1>3, <1>4, <1>5, <1>7, DroppedInv
<1>8. CASE c.live
  <2> HIDE DEF u
  <2>1. PICK failed \in SUBSET Part : ui' = MetadataResolved(u, failed)
    BY <1>5, <1>8
  <2> DEFINE v == MetadataResolved(u, failed)
  <2>2. /\ IsPage(v) /\ SameExperiment(u, v) /\ SameRun(u, v) /\ SameScope(u, v)
        /\ SameResults(u, v) /\ v.metadataErrors = failed
        /\ v.flags = u.flags \ {"metadataLoading"} /\ v.calls = u.calls
    BY <1>6, MetadataResolvedFields
  <2> HIDE DEF v
  <2>3. /\ SameExperiment(ui, v) /\ SameRun(ui, v) /\ SameScope(ui, v) /\ SameResults(ui, v)
        /\ v.flags = ui.flags \ {"metadataLoading"} /\ v.calls = k
    BY <1>6, <2>2 DEF SameExperiment, SameRun, SameScope, SameResults
  <2>4. FieldsInv(v)
    BY <1>1, <2>2, <2>3 DEF FieldsInv, SameExperiment, SameRun, SameScope, SameResults
  <2>5. Core(v, stored)
    <3>1. v.flags \cap FlagsOf(c.lane) = {}
      BY <1>2, <2>3 DEF FlagsOf
    <3> QED
      BY <1>1, <1>2, <1>3, <2>3, <2>4, <3>1, CoreEnded DEF SameExperiment, SameResults
  <2>6. ExecuteInv(v, stored, ranHere)
    <3>1. "running" \in v.flags <=> "running" \in ui.flags
      BY <2>3
    <3> QED
      BY <1>1, <1>3, <1>4, <2>3, <3>1, ExecuteEnded DEF SameExperiment, IsDone
  <2>7. PageOK(v, stored, ranHere)
    BY <1>1, <2>3, <2>5, <2>6 DEF PageOK, LoadedInv, ScopeInv, SameExperiment, SameScope
  <2> QED
    BY <1>2, <2>1, <2>3, <2>7, PrimedPage DEF v, Steady, SameExperiment
<1> QED
  BY <1>7, <1>8

(* What execute() does once the load it awaits has ended.                  *)
LEMMA ReloadedPage ==
  ASSUME NEW s, NEW ran, ran \in BOOLEAN, NEW u, Core(u, s), ScopeInv(u),
         ~\E d \in u.calls : OfExecute(d),
         "running" \in u.flags, u.experiment # None, u.runError = None,
         NEW loaded, u.pending = None \/ loaded \in Done => IsDone(u),
         ran => s \in Done, NEW v, v = ExperimentReloaded(u, loaded)
  PROVE  PageOK(v, s, ran) /\ v.experiment = u.experiment
<1>1. FieldsInv(u) /\ IsPage(u) /\ CallsInv(u) /\ AreCalls(u.calls) /\ \A c \in u.calls : Known(c)
  BY DEF Core, FieldsInv, CallsInv
<1>2. CASE u.pending = None \/ loaded \in Done
  <2> DEFINE no == FALSE
             yes == TRUE
             arg == Arg(yes, None, 1)
  <2>1. v = LoadResults(u, 1, no, yes)
    BY <1>2 DEF ExperimentReloaded
  <2>2. yes \in BOOLEAN /\ yes
    OBVIOUS
  <2> HIDE DEF no, yes
  <2>a. arg.awaited \in BOOLEAN /\ (arg.awaited <=> yes)
    BY <2>2, ArgFields
  <2>4. 1 \in 1..ResultPages
    BY ResultPagesAssumption
  <2>5. Core(v, s)
    BY <1>2, <2>1, <2>2, <2>4, LoadResultsCore
  <2>6. PICK f \in {"resultRefreshing", "resultLoading"} :
          /\ SameExperiment(u, v) /\ SameRun(u, v) /\ SameScope(u, v)
          /\ v.flags = u.flags \cup {f}
          /\ v.calls = Sent(u.calls, "results", arg)
    BY <1>1, <2>1, LoadResultsFields
  <2> HIDE DEF arg
  <2>3. arg.awaited
    BY <2>2, <2>a
  <2>7. ExecuteInv(v, s, ran)
    <3>1. "running" \in v.flags /\ v.experiment # None /\ v.runError = None
      BY <2>6 DEF SameExperiment, SameRun
    <3>2. ran => s \in Done /\ IsDone(v)
      BY <1>2, <2>6 DEF SameExperiment, IsDone
    <3> QED
      BY <1>1, <2>3, <2>6, <3>1, <3>2, ExecuteGoesOn
  <2> QED
    BY <2>5, <2>6, <2>7 DEF PageOK, LoadedInv, ScopeInv, SameExperiment, SameScope
<1>3. CASE ~(u.pending = None \/ loaded \in Done)
  <2> DEFINE w == WithRunError(u, u.pending)
  <2>1. v = RunEnded(w)
    BY <1>3 DEF ExperimentReloaded, WithRunError
  <2>2. /\ IsPage(w) /\ SameExperiment(u, w) /\ w.runError = u.pending /\ w.pending = u.pending
        /\ SameScope(u, w) /\ SameMetadata(u, w) /\ SameResults(u, w)
        /\ w.flags = u.flags /\ w.calls = u.calls
    BY <1>1, RunErrorFields
  <2> HIDE DEF w
  <2>3. /\ IsPage(v) /\ SameExperiment(w, v) /\ v.runError = w.runError /\ v.pending = None
        /\ SameScope(w, v) /\ SameMetadata(w, v) /\ SameResults(w, v)
        /\ v.flags = w.flags \ {"running"} /\ v.calls = w.calls
    BY <2>1, <2>2, RunEndedFields
  <2>4. /\ SameExperiment(u, v) /\ SameScope(u, v) /\ SameMetadata(u, v) /\ SameResults(u, v)
        /\ v.runError = u.pending /\ v.pending = None
        /\ v.flags = u.flags \ {"running"} /\ v.calls = u.calls
    BY <2>2, <2>3 DEF SameExperiment, SameScope, SameMetadata, SameResults
  <2>5. FieldsInv(v)
    BY <1>1, <2>3, <2>4, NoneIsNothing
    DEF FieldsInv, SameExperiment, SameScope, SameMetadata, SameResults
  <2>6. Core(v, s)
    BY <2>4, <2>5, CoreKept DEF SameExperiment
  <2>7. ExecuteInv(v, s, ran)
    <3>1. CallsInv(v) /\ "running" \notin v.flags /\ v.runError # None
      BY <1>3, <2>4, <2>6 DEF Core
    <3> QED
      BY <2>4, <3>1, ExecuteDone
  <2> QED
    BY <2>4, <2>6, <2>7 DEF PageOK, LoadedInv, ScopeInv, SameExperiment, SameScope
<1> QED
  BY <1>2, <1>3

LEMMA ReceiveResultsInv ==
  ASSUME IInv, NEW c \in ui.calls, ReceiveResults(c) PROVE IInv' /\ Steady
<1> DEFINE k == Ended(ui.calls, c)
           u == WithCalls(ui, k)
<1>1. /\ Core(ui, stored) /\ FieldsInv(ui) /\ CallsInv(ui) /\ LoadedInv(ui) /\ ScopeInv(ui)
      /\ ExecuteInv(ui, stored, ranHere) /\ ranHere \in BOOLEAN /\ ResultsInv(ui)
  BY DEF IInv, PageOK, Core
<1>2. c.lane = "results" /\ stored' = stored /\ ranHere' = ranHere
  BY DEF ReceiveResults
<1>3. IsEnded(k, ui.calls, c)
  BY <1>1, EndedIs
<1>4. OfExecute(c) <=> c.arg.awaited
  BY <1>2 DEF OfExecute
<1>5. PICK o \in Outcomes(Answered(None)) :
        ui' = IF c.arg.awaited
              THEN RunEnded(IF c.live THEN ResultsLoaded(u, c, o) ELSE u)
              ELSE IF c.live THEN ResultsLoaded(u, c, o) ELSE u
  BY DEF ReceiveResults, IsCurrent, WithCalls
<1> DEFINE w == IF c.live THEN ResultsLoaded(u, c, o) ELSE u
<1> HIDE DEF k
<1>6. /\ IsPage(u) /\ SameExperiment(ui, u) /\ SameRun(ui, u) /\ SameScope(ui, u)
      /\ SameMetadata(ui, u) /\ SameResults(ui, u) /\ u.flags = ui.flags /\ u.calls = k
  BY <1>1, CallsFields DEF FieldsInv
<1>7. ui' = IF c.arg.awaited THEN RunEnded(w) ELSE w
  BY <1>5
<1>8. o.kind # "data" => o \in MaybeError /\ o # None
  <2>1. CASE o \in Lost
    BY <2>1, LostIsError DEF IsError
  <2>2. CASE o = request(Answered(None))
    BY <2>2, DataFields
  <2> QED
    BY <2>1, <2>2 DEF Outcomes
<1>9. c.live => c.arg.page = ui.asked /\ c.arg.page > 0 /\ IsDone(ui)
  BY <1>1, <1>2 DEF ResultsInv
<1> HIDE DEF u
<1>10. /\ IsPage(w) /\ SameExperiment(ui, w) /\ SameRun(ui, w) /\ SameScope(ui, w)
       /\ SameMetadata(ui, w) /\ w.asked = ui.asked /\ w.calls = k
  BY <1>6, ResultsLoadedFields
  DEF SameExperiment, SameRun, SameScope, SameMetadata, SameResults
<1>11. /\ w.flags = IF c.live THEN ui.flags \ {"resultLoading", "resultRefreshing"} ELSE ui.flags
       /\ ~c.live => w.results = ui.results /\ w.resultError = ui.resultError
       /\ c.live /\ o.kind = "data" => w.results = c.arg.page /\ w.resultError = ui.resultError
       /\ c.live /\ o.kind # "data" => w.results = ui.results /\ w.resultError = o
  <2>1. CASE ~c.live
    <3>1. w = u
      BY <2>1
    <3> QED
      BY <1>6, <2>1, <3>1 DEF SameResults
  <2>2. CASE c.live
    <3>1. w = ResultsLoaded(u, c, o)
      BY <2>2
    <3> HIDE DEF w
    <3>2. /\ IF o.kind = "data"
             THEN w.results = c.arg.page /\ w.resultError = u.resultError
             ELSE w.results = u.results /\ w.resultError = o
          /\ w.flags = u.flags \ {"resultLoading", "resultRefreshing"}
      BY <1>6, <3>1, ResultsLoadedFields
    <3> QED
      BY <1>6, <2>2, <3>2 DEF SameResults
  <2> QED
    BY <2>1, <2>2
<1> HIDE DEF w
<1>12. FieldsInv(w)
  BY <1>1, <1>8, <1>9, <1>10, <1>11
  DEF FieldsInv, SameExperiment, SameRun, SameScope, SameMetadata
<1>13. Core(w, stored)
  <2>1. w.flags \subseteq ui.flags
    BY <1>11
  <2>2. c.live => w.flags \cap FlagsOf(c.lane) = {}
    BY <1>2, <1>11 DEF FlagsOf
  <2>3. c.live => w.results = c.arg.page \/ (w.results = ui.results /\ w.resultError # None)
    BY <1>8, <1>11
  <2> QED
    BY <1>1, <1>2, <1>3, <1>10, <1>11, <1>12, <2>1, <2>2, <2>3, CoreEnded DEF SameExperiment
<1>14. "running" \in w.flags <=> "running" \in ui.flags
  BY <1>11
<1>15. CASE ~c.arg.awaited
  <2>1. ExecuteInv(w, stored, ranHere)
    BY <1>1, <1>3, <1>4, <1>10, <1>14, <1>15, ExecuteEnded DEF SameExperiment, IsDone
  <2>2. PageOK(w, stored, ranHere)
    <3>1. \A f \in {"initialLoading", "scopeChecking"} : f \in ui.flags => f \in w.flags
      BY <1>11
    <3> QED
      BY <1>1, <1>10, <1>13, <2>1, <3>1
      DEF PageOK, LoadedInv, ScopeInv, SameExperiment, SameScope
  <2> QED
    BY <1>2, <1>7, <1>10, <1>15, <2>2, PrimedPage DEF Steady, SameExperiment
<1>16. CASE c.arg.awaited
  <2> DEFINE v == RunEnded(w)
  <2>1. /\ IsPage(v) /\ SameExperiment(w, v) /\ v.runError = w.runError /\ v.pending = None
        /\ SameScope(w, v) /\ SameMetadata(w, v) /\ SameResults(w, v)
        /\ v.flags = w.flags \ {"running"} /\ v.calls = w.calls
    BY <1>10, RunEndedFields
  <2> HIDE DEF v
  <2>2. FieldsInv(v)
    BY <1>10, <1>12, <2>1, NoneIsNothing
    DEF FieldsInv, SameExperiment, SameScope, SameMetadata, SameResults
  <2>3. Core(v, stored)
    BY <1>13, <2>1, <2>2, CoreKept DEF SameExperiment
  <2>4. "running" \in ui.flags /\ ui.experiment # None
    BY <1>1, <1>4, <1>16 DEF ExecuteInv
  <2>5. ~\E d \in v.calls : OfExecute(d)
    <3>1. IsEnded(v.calls, ui.calls, c)
      BY <1>3, <1>10, <2>1
    <3> QED
      BY <1>1, <1>4, <1>16, <3>1, ExecuteOver
  <2>6. ranHere => stored \in Done /\ IsDone(v)
    <3> SUFFICES ASSUME ranHere PROVE stored \in Done /\ IsDone(v)
      OBVIOUS
    <3>1. /\ stored \in Done /\ ui.runError = None
          /\ \A d \in ui.calls : OfExecute(d) => d = c
      BY <1>1, <1>4, <1>16, <2>4 DEF ExecuteInv
    <3>2. ~Pending(ui.calls, "run")
      BY <1>2, <3>1 DEF Pending, OfExecute
    <3>3. ~\E d \in ui.calls : Awaited(d)
      BY <1>2, <3>1 DEF Awaited, OfExecute
    <3>4. IsDone(ui)
      BY <1>1, <3>1, <3>2, <3>3 DEF ExecuteInv
    <3> QED
      BY <1>10, <2>1, <3>1, <3>4 DEF IsDone, SameExperiment
  <2>7. ExecuteInv(v, stored, ranHere)
    <3>1. CallsInv(v) /\ "running" \notin v.flags
      BY <2>1, <2>3 DEF Core
    <3> QED
      BY <2>5, <2>6, <3>1, ExecuteDone
  <2>8. v.experiment = ui.experiment /\ v.experiment # None
    BY <1>10, <2>1, <2>4 DEF SameExperiment
  <2>9. ScopeInv(v)
    <3>1. "scopeChecking" \in ui.flags => "scopeChecking" \in v.flags
      BY <1>11, <2>1
    <3> QED
      BY <1>1, <1>10, <2>1, <2>8, <3>1 DEF ScopeInv, SameScope
  <2>10. PageOK(v, stored, ranHere)
    BY <1>1, <2>3, <2>7, <2>8, <2>9 DEF PageOK, LoadedInv
  <2>11. ui' = v
    BY <1>7, <1>16 DEF v
  <2> QED
    BY <1>2, <2>8, <2>10, <2>11, PrimedPage DEF Steady
<1> QED
  BY <1>15, <1>16

(* What the page may get of the lookup that verifies its scope.            *)
LEMMA ScopeOutcome ==
  ASSUME NEW r \in ScopeAnswers, NEW o \in Outcomes(r)
  PROVE  \/ IsError(o)
         \/ o.kind = "data"
         \/ o.status = 404
<1>1. CASE o \in Lost
  BY <1>1, LostIsError
<1>2. CASE o = request(r)
  <2>1. CASE \E t \in {"found", "none"} : r = Answered(t)
    BY <1>2, <2>1, DataFields
  <2>2. CASE r = Refused(404, "PROJECT_NOT_FOUND")
    <3> DEFINE code == "PROJECT_NOT_FOUND"
    <3>1. o = request(Refused(404, code))
      BY <1>2, <2>2
    <3> HIDE DEF code
    <3> QED
      BY <3>1, RefusedIsError
  <2> QED
    BY <2>1, <2>2 DEF ScopeAnswers
<1> QED
  BY <1>1, <1>2 DEF Outcomes

LEMMA ReceiveScopeInv ==
  ASSUME IInv, NEW c \in ui.calls, ReceiveScope(c) PROVE IInv' /\ Steady
<1> DEFINE k == Ended(ui.calls, c)
           u == WithCalls(ui, k)
           w == WithFlags(u, u.flags \ {"scopeChecking"})
           no == FALSE
           yes == TRUE
           y == ResolveMetadata(WithVerified(w, yes))
<1>1. /\ Core(ui, stored) /\ FieldsInv(ui) /\ CallsInv(ui) /\ LoadedInv(ui) /\ ScopeInv(ui)
      /\ ExecuteInv(ui, stored, ranHere) /\ ranHere \in BOOLEAN /\ ResultsInv(ui)
  BY DEF IInv, PageOK, Core
<1>2. c.lane = "scope" /\ stored' = stored /\ ranHere' = ranHere
  BY DEF ReceiveScope
<1>3. IsEnded(k, ui.calls, c)
  BY <1>1, EndedIs
<1>4. ~OfExecute(c)
  BY <1>1, <1>2 DEF CallsInv, Known, OfExecute
<1>5. PICK r \in ScopeAnswers : \E o \in Outcomes(r) :
        ui' = IF c.live THEN ScopeVerified(u, c, o) ELSE u
  BY DEF ReceiveScope, IsCurrent, WithCalls
<1>6. PICK o \in Outcomes(r) : ui' = IF c.live THEN ScopeVerified(u, c, o) ELSE u
  BY <1>5
<1>7. ScopeVerified(u, c, o) =
        IF o.kind = "data" /\ o.value = "found"
        THEN IF c.arg.status \in Done THEN LoadResults(y, 1, no, no) ELSE y
        ELSE IF o.kind = "data" \/ o.status = 404 \/ o.code = "PROJECT_NOT_FOUND"
        THEN WithNotFound(w, no, yes)
        ELSE WithScopeError(w, o)
  BY DEF ScopeVerified, WithFlags, WithVerified, WithNotFound, WithScopeError
<1>8. no \in BOOLEAN /\ yes \in BOOLEAN /\ ~no /\ IsTrue(yes)
  BY DEF IsTrue
<1> HIDE DEF k, no, yes
<1>9. CASE ~c.live
  BY <1>2, <1>3, <1>4, <1>6, <1>9, DroppedInv
<1>10. CASE c.live
  <2>1. u.flags = ui.flags
    BY <1>1, CallsFields DEF FieldsInv
  <2> DEFINE f == ui.flags \ {"scopeChecking"}
  <2>2. w = WithFlags(WithCalls(ui, k), f)
    BY <2>1
  <2>3. /\ f \subseteq ui.flags /\ f \cap FlagsOf(c.lane) = {}
        /\ "running" \in f <=> "running" \in ui.flags
        /\ "initialLoading" \in f <=> "initialLoading" \in ui.flags
    BY <1>2 DEF FlagsOf
  <2> HIDE DEF w, u, f
  <2>4. /\ IsPage(w) /\ SameExperiment(ui, w) /\ SameRun(ui, w) /\ SameScope(ui, w)
        /\ SameMetadata(ui, w) /\ SameResults(ui, w) /\ w.flags = f /\ w.calls = k
    BY <1>1, <2>2, EndedFields DEF FieldsInv
  <2>5. Core(w, stored)
    BY <1>1, <1>2, <1>3, <2>2, <2>3, EndedCore
  <2>6. ExecuteInv(w, stored, ranHere)
    BY <1>1, <1>3, <1>4, <2>2, <2>3, EndedExecute
  <2>7. LoadedInv(w) /\ w.experiment = ui.experiment
    BY <1>1, <2>3, <2>4 DEF LoadedInv, SameExperiment
  <2>8. ASSUME NEW v, FieldsInv(v), SameExperiment(w, v), SameRun(w, v), SameResults(w, v),
               v.flags = w.flags, v.calls = w.calls, ScopeInv(v)
        PROVE  PageOK(v, stored, ranHere)
    <3>1. Core(v, stored)
      BY <2>5, <2>8, CoreKept DEF SameExperiment
    <3>2. ExecuteInv(v, stored, ranHere)
      BY <2>6, <2>8 DEF ExecuteInv, AwaitedInv, SameExperiment, SameRun, IsDone
    <3>3. LoadedInv(v)
      BY <2>7, <2>8 DEF LoadedInv, SameExperiment
    <3> QED
      BY <1>1, <2>8, <3>1, <3>2, <3>3 DEF PageOK
  <2>9. FieldsInv(w)
    BY <2>5 DEF Core
  <2>10. CASE o.kind = "data" /\ o.value = "found"
    <3> DEFINE x == WithVerified(w, yes)
    <3>1. /\ IsPage(x) /\ SameExperiment(w, x) /\ SameRun(w, x) /\ SameMetadata(w, x)
          /\ SameResults(w, x) /\ x.flags = w.flags /\ x.calls = w.calls
          /\ x.scopeVerified = yes /\ x.scopeNotFound = w.scopeNotFound
          /\ x.scopeError = w.scopeError
      BY <2>4, VerifiedFields
    <3>2. y = ResolveMetadata(x)
      OBVIOUS
    <3> HIDE DEF x, y
    <3>3. FieldsInv(x)
      BY <1>8, <2>9, <3>1
      DEF FieldsInv, SameExperiment, SameRun, SameMetadata, SameResults
    <3>4. ScopeInv(x)
      BY <1>8, <3>1 DEF ScopeInv, IsTrue
    <3>5. PageOK(x, stored, ranHere)
      BY <2>8, <3>1, <3>3, <3>4
    <3>6. PageOK(y, stored, ranHere) /\ y.experiment = x.experiment
      BY <3>2, <3>5, ResolveMetadataStep
    <3>7. x.experiment = ui.experiment
      BY <2>7, <3>1 DEF SameExperiment
    <3>8. CASE c.arg.status \in Done
      <4>1. ui' = LoadResults(y, 1, no, no)
        BY <1>6, <1>7, <1>10, <2>10, <3>8
      <4>2. IsDone(y)
        BY <1>1, <1>2, <1>10, <3>6, <3>7, <3>8 DEF ResultsInv, IsDone
      <4>3. 1 \in 1..ResultPages
        BY ResultPagesAssumption
      <4>4. PageOK(ui', stored, ranHere) /\ ui'.experiment = y.experiment
        BY <1>8, <3>6, <4>1, <4>2, <4>3, LoadResultsStep
      <4> QED
        BY <1>2, <3>6, <3>7, <4>4, PrimedPage DEF Steady
    <3>9. CASE c.arg.status \notin Done
      <4>1. ui' = y
        BY <1>6, <1>7, <1>10, <2>10, <3>9
      <4> QED
        BY <1>2, <3>6, <3>7, <4>1, PrimedPage DEF Steady
    <3> QED
      BY <3>8, <3>9
  <2>11. CASE /\ ~(o.kind = "data" /\ o.value = "found")
              /\ o.kind = "data" \/ o.status = 404 \/ o.code = "PROJECT_NOT_FOUND"
    <3> DEFINE v == WithNotFound(w, no, yes)
    <3>1. ui' = v
      BY <1>6, <1>7, <1>10, <2>11
    <3>2. /\ IsPage(v) /\ SameExperiment(w, v) /\ SameRun(w, v) /\ SameMetadata(w, v)
          /\ SameResults(w, v) /\ v.flags = w.flags /\ v.calls = w.calls
          /\ v.scopeVerified = no /\ v.scopeNotFound = yes /\ v.scopeError = w.scopeError
      BY <2>4, NotFoundFields
    <3> HIDE DEF v
    <3>3. FieldsInv(v)
      BY <1>8, <2>9, <3>2
      DEF FieldsInv, SameExperiment, SameRun, SameMetadata, SameResults
    <3>4. ScopeInv(v)
      BY <1>8, <3>2 DEF ScopeInv, IsTrue
    <3>5. PageOK(v, stored, ranHere)
      BY <2>8, <3>2, <3>3, <3>4
    <3> QED
      BY <1>2, <2>7, <3>1, <3>2, <3>5, PrimedPage DEF Steady, SameExperiment
  <2>12. CASE ~(o.kind = "data" \/ o.status = 404 \/ o.code = "PROJECT_NOT_FOUND")
    <3> DEFINE v == WithScopeError(w, o)
    <3>1. ui' = v
      BY <1>6, <1>7, <1>10, <2>12
    <3>2. /\ IsPage(v) /\ SameExperiment(w, v) /\ SameRun(w, v) /\ SameMetadata(w, v)
          /\ SameResults(w, v) /\ v.flags = w.flags /\ v.calls = w.calls
          /\ v.scopeVerified = w.scopeVerified /\ v.scopeNotFound = w.scopeNotFound
          /\ v.scopeError = o
      BY <2>4, ScopeErrorFields
    <3> HIDE DEF v
    <3>3. o \in MaybeError /\ o # None
      BY <2>12, ScopeOutcome DEF IsError
    <3>4. FieldsInv(v)
      BY <2>9, <3>2, <3>3
      DEF FieldsInv, SameExperiment, SameRun, SameMetadata, SameResults
    <3>5. ScopeInv(v)
      BY <3>2, <3>3 DEF ScopeInv
    <3>6. PageOK(v, stored, ranHere)
      BY <2>8, <3>2, <3>4, <3>5
    <3> QED
      BY <1>2, <2>7, <3>1, <3>2, <3>6, PrimedPage DEF Steady, SameExperiment
  <2> QED
    BY <2>10, <2>11, <2>12
<1> QED
  BY <1>9, <1>10

LEMMA ReceiveExperimentInv ==
  ASSUME IInv, NEW c \in ui.calls, ReceiveExperiment(c) PROVE IInv' /\ Steady
<1> DEFINE k == Ended(ui.calls, c)
           u == WithCalls(ui, k)
           w == WithFlags(u, u.flags \ {"initialLoading", "refreshing"})
           f == ui.flags \ {"initialLoading", "refreshing"}
<1>1. /\ Core(ui, stored) /\ FieldsInv(ui) /\ CallsInv(ui) /\ LoadedInv(ui) /\ ScopeInv(ui)
      /\ ExecuteInv(ui, stored, ranHere) /\ ranHere \in BOOLEAN /\ StatusInv(ui, stored)
  BY DEF IInv, PageOK, Core
<1>2. c.lane = "experiment" /\ stored' = stored /\ ranHere' = ranHere
  BY DEF ReceiveExperiment
<1>3. IsEnded(k, ui.calls, c)
  BY <1>1, EndedIs
<1>4. PICK o \in OutcomesOf(c) :
        LET loaded == IF c.live THEN ExperimentLoaded(u, c, o) ELSE u
        IN ui' = IF c.arg.awaited /\ "running" \in u.flags
                 THEN ExperimentReloaded(loaded, IF c.live THEN o.value ELSE None)
                 ELSE loaded
  BY DEF ReceiveExperiment, IsCurrent, WithCalls
<1>5. u.flags = ui.flags
  BY <1>1, CallsFields DEF FieldsInv
<1>6. w = WithFlags(WithCalls(ui, k), f)
  BY <1>5
<1>7. c.arg.awaited => c.live /\ "running" \in ui.flags /\ ui.runError = None
                       /\ ui.experiment # None /\ (ui.pending # None \/ IsDone(ui))
  BY <1>1, <1>2 DEF ExecuteInv, AwaitedInv, Awaited, OfExecute
<1>8. OfExecute(c) <=> c.arg.awaited
  BY <1>2 DEF OfExecute
<1>9. /\ f \subseteq ui.flags /\ f \cap FlagsOf(c.lane) = {}
      /\ "running" \in f <=> "running" \in ui.flags
      /\ "scopeChecking" \in f <=> "scopeChecking" \in ui.flags
  BY <1>2 DEF FlagsOf
<1>10. \/ IsError(o)
       \/ o.kind = "data" /\ o.value \in Status /\ c.reply = <<Answered(o.value)>>
  BY <1>1, <1>2, ExperimentOutcome DEF CallsInv
<1> DEFINE e == IF o.kind = "data" THEN WithExperiment(w, o.value) ELSE WithExperimentError(w, o)
<1>11. ExperimentLoaded(u, c, o) =
         IF o.kind = "data" /\ ~c.arg.awaited THEN VerifyScope(e, o.value) ELSE e
  BY DEF ExperimentLoaded, WithFlags, WithExperiment, WithExperimentError
<1>12. CASE ~c.live
  <2>1. ~c.arg.awaited
    BY <1>7, <1>12
  <2>2. ui' = WithCalls(ui, k)
    BY <1>4, <1>12, <2>1
  <2> QED
    BY <1>2, <1>3, <1>8, <1>12, <2>1, <2>2, DroppedInv
<1>13. CASE c.live
  <2>1. ui' = IF c.arg.awaited THEN ExperimentReloaded(e, o.value)
              ELSE IF o.kind = "data" THEN VerifyScope(e, o.value) ELSE e
    BY <1>4, <1>5, <1>7, <1>11, <1>13
  <2> HIDE DEF w, u, k, f
  <2>2. /\ IsPage(w) /\ SameExperiment(ui, w) /\ SameRun(ui, w) /\ SameScope(ui, w)
        /\ SameMetadata(ui, w) /\ SameResults(ui, w) /\ w.flags = f /\ w.calls = k
    BY <1>1, <1>6, EndedFields DEF FieldsInv
  <2>3. Core(w, stored)
    BY <1>1, <1>2, <1>3, <1>6, <1>9, EndedCore
  <2>4. /\ IsPage(e) /\ SameRun(w, e) /\ SameScope(w, e) /\ SameMetadata(w, e)
        /\ SameResults(w, e) /\ e.flags = w.flags /\ e.calls = w.calls
        /\ o.kind = "data" => /\ e.experiment = o.value
                              /\ e.experimentError = w.experimentError
        /\ o.kind # "data" => e.experiment = w.experiment /\ e.experimentError = o
    <3>1. CASE o.kind = "data"
      <4>1. e = WithExperiment(w, o.value)
        BY <3>1
      <4> HIDE DEF e
      <4> QED
        BY <2>2, <3>1, <4>1, ShownFields
    <3>2. CASE o.kind # "data"
      <4>1. e = WithExperimentError(w, o)
        BY <3>2
      <4> HIDE DEF e
      <4> QED
        BY <2>2, <3>2, <4>1, ExperimentErrorFields
    <3> QED
      BY <3>1, <3>2
  <2> HIDE DEF e
  <2>5. /\ SameRun(ui, e) /\ SameScope(ui, e) /\ e.flags = f /\ e.calls = k
        /\ o.kind = "data" => /\ e.experiment = o.value
                              /\ e.experimentError = ui.experimentError
        /\ o.kind # "data" => e.experiment = ui.experiment /\ e.experimentError = o
    BY <2>2, <2>4 DEF SameExperiment, SameRun, SameScope
  <2>6. o.kind = "data" => /\ o.value \in Status
                           /\ o.value \in Done => o.value = stored
                           /\ IsDone(ui) => o.value = ui.experiment
    BY <1>1, <1>2, <1>10, <1>13 DEF StatusInv, IsError
  <2>7. o.kind # "data" => o \in MaybeError /\ o # None /\ o.value = None
    BY <1>10 DEF IsError
  <2>8. FieldsInv(e)
    <3>1. FieldsInv(w)
      BY <2>3 DEF Core
    <3> QED
      BY <2>4, <2>6, <2>7, <3>1
      DEF FieldsInv, SameRun, SameScope, SameMetadata, SameResults
  <2>9. IsDone(ui) => e.experiment = ui.experiment
    BY <2>5, <2>6
  <2>10. Core(e, stored)
    <3>1. CASE o.kind # "data"
      BY <2>3, <2>4, <2>8, <3>1, CoreKept
    <3>2. CASE o.kind = "data"
      <4>1. ~Pending(k, "experiment")
        BY <1>1, <1>2, <1>3, <1>13, EndedPending
      <4>2. \A d \in w.calls : d.live /\ d.lane = "experiment" => d.reply = Waiting
        BY <2>2, <4>1 DEF Pending
      <4>3. IsDone(w) => e.experiment = w.experiment
        BY <2>2, <2>9 DEF SameExperiment, IsDone
      <4> QED
        BY <2>3, <2>4, <2>6, <2>8, <3>2, <4>2, <4>3, CoreShown
    <3> QED
      BY <3>1, <3>2
  <2>11. e.experiment # None \/ e.experimentError # None
    BY <2>5, <2>6, <2>7, NoneIsNothing
  <2>12. ui.experiment # None => e.experiment # None /\ ScopeInv(e)
    BY <1>1, <1>9, <2>5, <2>6, NoneIsNothing DEF ScopeInv, SameScope
  <2>13. CASE ~c.arg.awaited
    <3>1. ExecuteInv(e, stored, ranHere)
      <4>1. IsDone(ui) => IsDone(e)
        BY <2>9 DEF IsDone
      <4> QED
        BY <1>1, <1>2, <1>3, <1>8, <1>9, <1>13, <2>5, <2>12, <2>13, <4>1, ExecuteEnded
    <3>2. LoadedInv(e)
      BY <2>11 DEF LoadedInv
    <3>3. CASE o.kind = "data"
      <4>1. ui' = VerifyScope(e, e.experiment) /\ e.experiment # None
        BY <2>1, <2>5, <2>6, <2>13, <3>3, NoneIsNothing
      <4>2. PageOK(ui', stored, ranHere) /\ ui'.experiment = e.experiment
        BY <1>1, <2>10, <3>1, <3>2, <4>1, VerifyScopeStep
      <4> QED
        BY <1>2, <2>9, <4>2, PrimedPage DEF Steady
    <3>4. CASE o.kind # "data"
      <4>1. ui' = e
        BY <2>1, <2>13, <3>4
      <4>2. ScopeInv(e)
        BY <1>1, <1>9, <2>5, <3>4 DEF ScopeInv, SameScope
      <4>3. PageOK(e, stored, ranHere)
        BY <1>1, <2>10, <3>1, <3>2, <4>2 DEF PageOK
      <4> QED
        BY <1>2, <2>9, <4>1, <4>3, PrimedPage DEF Steady
    <3> QED
      BY <3>3, <3>4
  <2>14. CASE c.arg.awaited
    <3>1. ui' = ExperimentReloaded(e, o.value)
      BY <2>1, <2>14
    <3>2. ~\E d \in e.calls : OfExecute(d)
      <4>1. IsEnded(e.calls, ui.calls, c)
        BY <1>3, <2>5
      <4> QED
        BY <1>1, <1>8, <2>14, <4>1, ExecuteOver
    <3>3. "running" \in e.flags /\ e.experiment # None /\ e.runError = None /\ ScopeInv(e)
      BY <1>7, <1>9, <2>5, <2>12, <2>14 DEF SameRun
    <3>4. e.pending = None \/ o.value \in Done => IsDone(e)
      BY <1>7, <2>5, <2>7, <2>9, <2>14, NoneIsNothing DEF SameRun, IsDone
    <3>5. ranHere => stored \in Done
      BY <1>1 DEF ExecuteInv
    <3>6. PageOK(ui', stored, ranHere) /\ ui'.experiment = e.experiment
      BY <1>1, <2>10, <3>1, <3>2, <3>3, <3>4, <3>5, ReloadedPage
    <3> QED
      BY <1>2, <2>9, <3>6, PrimedPage DEF Steady
  <2> QED
    BY <2>13, <2>14
<1> QED
  BY <1>12, <1>13

LEMMA ReceiveRunInv ==
  ASSUME IInv, NEW c \in ui.calls, ReceiveRun(c) PROVE IInv' /\ Steady
<1> DEFINE k == EndedMutation(ui.calls, c)
           u == WithCalls(ui, k)
<1>1. /\ Core(ui, stored) /\ FieldsInv(ui) /\ CallsInv(ui) /\ LoadedInv(ui) /\ ScopeInv(ui)
      /\ ExecuteInv(ui, stored, ranHere) /\ ranHere \in BOOLEAN /\ StatusInv(ui, stored)
  BY DEF IInv, PageOK, Core
<1>2. c.lane = "run" /\ stored' = stored /\ ranHere' = ranHere
  BY DEF ReceiveRun
<1>3. IsEnded(k, ui.calls, c)
  BY <1>1, <1>2, EndedIs
<1>4. PICK o \in OutcomesOf(c) : ui' = IF c.live THEN RunAnswered(u, o) ELSE u
  BY DEF ReceiveRun, IsCurrent, WithCalls
<1>5. ~c.arg.awaited
  BY <1>1, <1>2 DEF CallsInv, Known
<1>6. CASE ~c.live
  <2>1. ui' = WithCalls(ui, k) /\ ~OfExecute(c)
    BY <1>4, <1>5, <1>6 DEF OfExecute
  <2> HIDE DEF k
  <2> QED
    BY <1>2, <1>3, <1>6, <2>1, DroppedInv
<1>7. CASE c.live
  <2> DEFINE e == IF o.kind = "data" THEN o.value ELSE u.experiment
             p == IF o.kind = "data" THEN None ELSE o
             no == FALSE
             yes == TRUE
             a == WithAnswer(u, e, p)
             v == LoadExperiment(a, yes, no)
             y == LoadExperiment(u, yes, no)
             arg == Arg(~no, None, 0)
             f == IF yes THEN "refreshing" ELSE "initialLoading"
  <2>1. ui' = v
    BY <1>4, <1>7 DEF RunAnswered, WithAnswer
  <2>2. no \in BOOLEAN /\ ~no
    OBVIOUS
  <2> HIDE DEF k
  <2>3. /\ IsPage(u) /\ SameExperiment(ui, u) /\ SameRun(ui, u) /\ SameScope(ui, u)
        /\ SameMetadata(ui, u) /\ SameResults(ui, u) /\ u.flags = ui.flags /\ u.calls = k
    BY <1>1, CallsFields DEF FieldsInv
  <2> HIDE DEF u
  <2>4. /\ e = IF o.kind = "data" THEN o.value ELSE u.experiment
        /\ p = IF o.kind = "data" THEN None ELSE o
    OBVIOUS
  <2> HIDE DEF e, p, no, yes, a
  <2>5. /\ IsPage(a) /\ a.experiment = e /\ a.experimentError = u.experimentError
        /\ a.runError = u.runError /\ a.pending = p
        /\ SameScope(u, a) /\ SameMetadata(u, a) /\ SameResults(u, a)
        /\ a.flags = u.flags /\ a.calls = u.calls
    BY <2>3, AnswerFields DEF a
  <2>6. arg.awaited \in BOOLEAN /\ (arg.awaited <=> ~no)
    BY <2>2, ArgFields
  <2>7. /\ IsPage(v) /\ v.experiment = a.experiment /\ v.experimentError = None
        /\ SameRun(a, v) /\ SameScope(a, v) /\ SameMetadata(a, v) /\ SameResults(a, v)
        /\ v.flags = a.flags \cup {f} /\ v.calls = Sent(a.calls, "experiment", arg)
    BY <2>5, LoadExperimentFields
  <2>8. /\ IsPage(y) /\ y.experiment = u.experiment /\ y.experimentError = None
        /\ SameRun(u, y) /\ SameScope(u, y) /\ SameMetadata(u, y) /\ SameResults(u, y)
        /\ y.flags = u.flags \cup {f} /\ y.calls = Sent(u.calls, "experiment", arg)
    BY <2>3, LoadExperimentFields
  <2>9. f \in {"refreshing", "initialLoading"}
    OBVIOUS
  <2>10. FieldsInv(u)
    BY <1>1, <2>3
    DEF FieldsInv, SameExperiment, SameRun, SameScope, SameMetadata, SameResults
  <2>11. Core(u, stored)
    BY <1>1, <1>2, <1>3, <2>3, <2>10, CoreEnded DEF SameExperiment, SameResults
  <2>12. Core(y, stored)
    BY <2>2, <2>11, LoadExperimentCore
  <2> HIDE DEF arg, f, v, y
  <2>13. \/ IsError(o)
         \/ o.kind = "data" /\ o.value \in Done /\ c.reply = <<Answered(o.value)>>
    BY <1>1, <1>2, RunOutcome DEF CallsInv
  <2>14. o.kind = "data" => o.value \in Done /\ o.value = stored
    BY <1>1, <1>7, <2>13 DEF StatusInv, IsError, Status
  <2>15. o.kind # "data" => o \in MaybeError /\ o # None
    BY <2>13 DEF IsError
  <2>16. /\ "running" \in ui.flags /\ ui.experiment # None /\ ui.runError = None
         /\ OfExecute(c)
         /\ ranHere => stored \in Done
    BY <1>1, <1>2, <1>7 DEF ExecuteInv, OfExecute
  <2>17. /\ e \in Status /\ e # None
         /\ IsDone(ui) => e = ui.experiment
         /\ e \in Done => e = stored
    BY <1>1, <2>3, <2>4, <2>14, <2>16, NoneIsNothing
    DEF SameExperiment, IsDone, StatusInv, FieldsInv, Status
  <2>18. p \in MaybeError /\ (p # None \/ e \in Done)
    BY <2>4, <2>14, <2>15, NoneIsNothing
  <2>19. /\ v.experiment = e /\ v.experimentError = None /\ v.runError = ui.runError
         /\ v.pending = p /\ SameScope(ui, v) /\ v.calls = y.calls /\ v.flags = y.flags
         /\ SameResults(y, v) /\ SameMetadata(y, v) /\ SameScope(y, v)
         /\ v.calls = Sent(u.calls, "experiment", arg) /\ v.flags = ui.flags \cup {f}
    BY <2>3, <2>5, <2>7, <2>8
    DEF SameExperiment, SameRun, SameScope, SameMetadata, SameResults
  <2>20. FieldsInv(v)
    <3>1. FieldsInv(y)
      BY <2>12 DEF Core
    <3>2. v.runError = y.runError
      BY <2>3, <2>8, <2>19 DEF SameRun
    <3> QED
      BY <2>7, <2>17, <2>18, <2>19, <3>1, <3>2, NoneIsNothing
      DEF FieldsInv, SameMetadata, SameResults, SameScope
  <2>21. Core(v, stored)
    <3>1. \A d \in y.calls : d.live /\ d.lane = "experiment" => d.reply = Waiting
      <4>1. \A d \in y.calls : d.live =>
              d = Call("experiment", arg) \/ (d \in u.calls /\ d.lane # "experiment")
        BY <2>8, <2>11, SentPending DEF Core, CallsInv
      <4>2. Call("experiment", arg).reply = Waiting
        BY CallFields
      <4> QED
        BY <4>1, <4>2
    <3>2. IsDone(y) => v.experiment = y.experiment
      BY <2>3, <2>8, <2>17, <2>19 DEF SameExperiment, IsDone
    <3> QED
      BY <2>12, <2>17, <2>19, <2>20, <3>1, <3>2, CoreShown
  <2>22. ExecuteInv(v, stored, ranHere)
    <3>1. ~\E d \in u.calls : OfExecute(d)
      <4>1. IsEnded(u.calls, ui.calls, c)
        BY <1>3, <2>3
      <4> QED
        BY <1>1, <2>16, <4>1, ExecuteOver
    <3>2. AreCalls(u.calls) /\ \A d \in u.calls : Known(d)
      BY <2>11 DEF Core, CallsInv
    <3>3. /\ "running" \in v.flags /\ v.experiment # None /\ v.runError = None
          /\ v.pending # None \/ IsDone(v)
      BY <2>16, <2>17, <2>18, <2>19 DEF IsDone
    <3>4. arg.awaited
      BY <2>2, <2>6
    <3> QED
      BY <2>16, <2>19, <3>1, <3>2, <3>3, <3>4, ExecuteGoesOn
  <2>23. PageOK(v, stored, ranHere)
    BY <1>1, <2>16, <2>17, <2>19, <2>21, <2>22 DEF PageOK, LoadedInv, ScopeInv, SameScope
  <2> QED
    BY <1>2, <2>1, <2>17, <2>19, <2>23, PrimedPage DEF Steady
<1> QED
  BY <1>6, <1>7
-----------------------------------------------------------------------------
(* Every step keeps the invariant, and but for Reopen an outcome shown.     *)
LEMMA StepInv ==
  ASSUME IInv, [Next]_vars
  PROVE  IInv' /\ (~Reopen => Steady)
<1>1. CASE UNCHANGED vars
  <2>1. ui' = ui /\ stored' = stored /\ ranHere' = ranHere
    BY <1>1 DEF vars
  <2>2. PageOK(ui, stored, ranHere)
    BY DEF IInv
  <2> QED
    BY <2>1, <2>2, PrimedPage DEF Steady
<1>2. CASE User
  BY <1>2, ReopenInv, ClickRunInv, RetryInv, MoveResultPageInv DEF User
<1>3. CASE Server
  BY <1>3, ServeExperimentInv, ServeRunInv DEF Server
<1>4. CASE RunElsewhere
  BY <1>4, RunElsewhereInv
<1>5. CASE \E c \in ui.calls : Receive(c)
  BY <1>5, ReceiveMetadataInv, ReceiveScopeInv, ReceiveExperimentInv, ReceiveResultsInv,
     ReceiveRunInv DEF Receive
<1> QED
  BY <1>1, <1>2, <1>3, <1>4, <1>5 DEF Next

(* No step of the page, of its server or of another window breaks IInv.     *)
THEOREM InvHolds == Safe => []IInv
<1>1. IInv /\ [Next]_vars => IInv'
  BY StepInv
<1> QED
  BY InitInv, <1>1, PTL DEF Safe

(* The page always shows something: what it holds, that it is loading, or  *)
(* an error, in whichever order its loads end.                             *)
THEOREM AlwaysShown == Safe => []NeverBlank
<1>1. IInv => NeverBlank
  BY DEF IInv, PageOK, LoadedInv, ScopeInv, NeverBlank, View
<1> QED
  BY <1>1, InvHolds, PTL

(* An outcome that the page has shown stays until the page is left: no     *)
(* load begun before the run, and no answer that comes late, undoes it.    *)
THEOREM OutcomeStays == Safe => StatusNeverRegresses
<1>1. IInv /\ [Next]_vars =>
        [ui.experiment \in Done /\ ~Reopen => ui'.experiment = ui.experiment]_vars
  BY StepInv DEF Steady, IsDone
<1> QED
  BY <1>1, InvHolds, PTL DEF Safe, StatusNeverRegresses

(* A run of this page that the server carried out is shown, or its loss    *)
(* is, once no call of the page is under way.                              *)
THEOREM LostRunIsShown == Safe => []LostRunIsSignalled
<1>1. IInv => LostRunIsSignalled
  <2> SUFFICES ASSUME IInv, ranHere, Settled(ui.calls)
               PROVE  ui.experiment = stored \/ ui.runError # None
    BY DEF LostRunIsSignalled
  <2>1. ExecuteInv(ui, stored, ranHere) /\ StatusInv(ui, stored)
    BY DEF IInv, PageOK, Core
  <2>2. ~Pending(ui.calls, "run") /\ ~\E c \in ui.calls : Awaited(c)
    BY <2>1 DEF Settled, Pending, ExecuteInv, AwaitedInv
  <2>3. IsDone(ui) \/ ui.runError # None
    BY <2>1, <2>2 DEF ExecuteInv
  <2> QED
    BY <2>1, <2>3 DEF StatusInv
<1> QED
  BY <1>1, InvHolds, PTL

(* The rows are those of the page of results asked for last, and there are *)
(* none for an experiment that has not been run.                           *)
THEOREM RowsOfTheLatestPage == Safe => []LatestPageWins
<1>1. IInv => LatestPageWins
  BY DEF IInv, PageOK, Core, ResultsInv, IsDone, LatestPageWins
<1> QED
  BY <1>1, InvHolds, PTL

(* Every indicator of the page has a request that will end it.             *)
THEOREM IndicatorsEnd == Safe => []IndicatorHasRequest
<1>1. IInv => IndicatorHasRequest
  BY DEF IInv, PageOK, Core, FlagsInv, Busy, ExecuteInv, IndicatorHasRequest
<1> QED
  BY <1>1, InvHolds, PTL

ScopeIsKnown == inScope \in BOOLEAN

(* The page's state stays within its types, and of each lane at most one   *)
(* call is live.                                                           *)
THEOREM TypesHold == Safe => []TypeOK
<1>1. ScopeIsKnown /\ [Next]_vars => ScopeIsKnown'
  BY DEF ScopeIsKnown, Next, vars, User, Reopen, ClickRun, Retry, MoveResultPage, Server,
     ServeExperiment, ServeRun, RunElsewhere, Receive, ReceiveMetadata, ReceiveScope, ReceiveExperiment,
     ReceiveResults, ReceiveRun
<1>2. Init => ScopeIsKnown
  BY DEF Init, ScopeIsKnown
<1>3. Safe => []ScopeIsKnown
  BY <1>1, <1>2, PTL DEF Safe
<1>4. IInv /\ ScopeIsKnown => TypeOK
  <2> SUFFICES ASSUME IInv, ScopeIsKnown PROVE TypeOK
    OBVIOUS
  <2>1. /\ FieldsInv(ui) /\ OneLive(ui.calls) /\ stored \in Status /\ ranHere \in BOOLEAN
    BY DEF IInv, PageOK, Core, CallsInv, StatusInv
  <2>2. ASSUME NEW l \in Lane
        PROVE  Cardinality({c \in ui.calls : c.lane = l /\ c.live}) <= 1
    <3> DEFINE S == {c \in ui.calls : c.lane = l /\ c.live}
    <3>1. \A c, d \in S : c = d
      BY <2>1 DEF OneLive
    <3> HIDE DEF S
    <3>2. Cardinality(S) <= 1
      <4>1. CASE S = {}
        BY <4>1, FS_EmptySet
      <4>2. CASE S # {}
        <5>1. PICK c : S = {c}
          BY <3>1, <4>2
        <5>2. Cardinality({c}) = 1
          BY FS_Singleton
        <5> QED
          BY <5>1, <5>2
      <4> QED
        BY <4>1, <4>2
    <3> QED
      BY <3>2 DEF S
  <2> QED
    BY <2>1, <2>2 DEF TypeOK, FieldsInv, ScopeIsKnown
<1> QED
  BY <1>3, <1>4, InvHolds, PTL
=============================================================================
