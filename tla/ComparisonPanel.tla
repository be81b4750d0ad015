-------------------------- MODULE ComparisonPanel --------------------------
(***************************************************************************)
(* The comparison of an experiment with a baseline                         *)
(* (baseline-comparison-panel.tsx).  The candidates are read by a walk over *)
(* the whole list of completed experiments; a comparison whose creation    *)
(* went unanswered, or that already existed, is looked up by another.      *)
(* All experiments of the model share one dataset version.  The server     *)
(* keeps comparisons for good, one for each pair.                          *)
(***************************************************************************)
EXTENDS HistoryWalk, Sequences

VARIABLES comparisons,   \* committed: the baselines of the current experiment
          comparison     \* what the panel holds

comparisonVars == <<comparisons, comparison>>

LatestBaseline == IF comparisons = << >> THEN None ELSE comparisons[Len(comparisons)]
Baselines == {comparisons[i] : i \in DOMAIN comparisons}

ComparisonFlag == {"loadingCandidates", "refreshingCandidates", "comparing", "recovering"}

NewComparison ==
  [candidates |-> {}, selected |-> None,
   candidateError |-> None, comparisonError |-> None,
   asked |-> None,       \* baselineExperimentId of the last submit
   exists |-> FALSE,     \* history: its answer was that it exists
   missed |-> FALSE,     \* history: the last page the last lookup read grew
   pushed |-> None,      \* comparison the last submit asked the router for
   flags |-> {}, calls |-> {}]

RecoveryUnavailable ==
  Error("application", 409, "BASELINE_COMPARISON_RECOVERY_UNAVAILABLE", FALSE)

(* The snapshot that a finished walk over the whole list is.               *)

\* Mutant: the experiment itself is among its baselines.
Candidates_WithCurrent(c) == c.arg.seen

Candidates(c) == c.arg.seen \ {Current}

loadCandidates(p, retainData) ==
  /\ comparison' = [p EXCEPT !.candidateError = None,
                             !.flags = @ \cup {IF retainData THEN "refreshingCandidates"
                                               ELSE "loadingCandidates"}]
  /\ lookups' = StartWalk("candidates")

CandidatesLoaded(p, c, o) ==
  LET u == [p EXCEPT !.flags = @ \ {"loadingCandidates", "refreshingCandidates"}]
  IN IF o.kind = "data"
     THEN [u EXCEPT !.candidates = Candidates(c),
                    !.selected = IF @ \in Candidates(c) THEN @ ELSE None]
     ELSE [u EXCEPT !.candidateError = o]

\* Mutant: the comparison found is not checked against the one asked for.
IsTheOneAsked_Unchecked(p, found) == found # None

IsTheOneAsked(p, found) == found # None /\ found = p.asked

(* recoverComparison: History has the latest comparison only.              *)
Recovered(p, c, o) ==
  LET u == [p EXCEPT !.flags = @ \ {"comparing", "recovering"}, !.missed = c.arg.grew]
  IN CASE o.kind # "data" -> [u EXCEPT !.comparisonError = o]
       [] o.kind = "data" /\ IsTheOneAsked(p, o.value) -> [u EXCEPT !.pushed = o.value]
       [] OTHER -> [u EXCEPT !.comparisonError = RecoveryUnavailable]
-----------------------------------------------------------------------------
ComparisonBusy == comparison.flags \cap {"comparing", "recovering"} # {}
LoadingCandidates ==
  comparison.flags \cap {"loadingCandidates", "refreshingCandidates"} # {}

(* While candidates are read again, a selection may change; a submission   *)
(* locks it.                                                               *)
SelectBaseline ==
  /\ ~ComparisonBusy
  /\ \E x \in comparison.candidates \ {comparison.selected} :
       comparison' = [comparison EXCEPT !.selected = x, !.comparisonError = None]
  /\ UNCHANGED <<comparisons, lookups>>

submitComparison(completed) ==
  /\ completed /\ comparison.selected # None /\ ~ComparisonBusy
  /\ "loadingCandidates" \notin comparison.flags
  /\ comparison' = [comparison EXCEPT !.comparisonError = None,
                                      !.asked = comparison.selected,
                                      !.exists = FALSE, !.pushed = None,
                                      !.flags = @ \cup {"comparing"},
                                      !.calls = Sent(@, "compare", comparison.selected)]
  /\ UNCHANGED <<comparisons, lookups>>

(* "Check the candidates again", and the retry button beside their error.  *)
RefreshCandidates(completed) ==
  /\ completed
  /\ \/ comparison.candidateError # None
     \/ ~ComparisonBusy /\ ~LoadingCandidates
  /\ loadCandidates(comparison, comparison.candidates # {})
  /\ UNCHANGED comparisons

(* The page holds a new experiment object: the effect aborts the requests   *)
(* of the old one and reads the candidates.  A submission, or its recovery, *)
(* whose answer was not there yet ends without a word; an answer that was  *)
(* there is still taken.                                                   *)
ExperimentChanged(completed) ==
  /\ LET answered == \E c \in comparison.calls : c.reply # Waiting
         p == [comparison EXCEPT
                 !.calls = Aborted(@, {"compare"}),
                 !.flags = @ \ IF answered THEN {} ELSE {"comparing", "recovering"}]
         aborted == Aborted({c \in lookups : c.lane = "candidates" /\ c.reply # Waiting},
                            {"candidates"})
     IN IF completed
        THEN /\ comparison' = [p EXCEPT !.candidateError = None,
                                        !.flags = @ \cup {"loadingCandidates"}]
             /\ lookups' = Sent(aborted, "candidates", NewWalk)
        ELSE /\ comparison' = [p EXCEPT !.candidates = {}]
             /\ lookups' = aborted
  /\ UNCHANGED comparisons
-----------------------------------------------------------------------------
AlreadyExists == Refused(409, "BASELINE_COMPARISON_ALREADY_EXISTS")

ServeCompare(c) ==
  /\ c.lane = "compare" /\ c.reply = Waiting
  /\ LET exists == c.arg \in Baselines
     IN /\ comparisons' = IF exists THEN comparisons ELSE Append(comparisons, c.arg)
        /\ comparison' = [comparison EXCEPT !.calls =
             IF c.live THEN Served(@, c, IF exists THEN AlreadyExists ELSE Answered(c.arg))
             ELSE Ended(@, c)]
  /\ UNCHANGED lookups

CompareElsewhere(completed) ==
  /\ completed
  /\ \E x \in Listed \ (Baselines \cup {Current}) : comparisons' = Append(comparisons, x)
  /\ UNCHANGED <<comparison, lookups>>
-----------------------------------------------------------------------------
ReceiveCandidates(c) ==
  /\ c.lane = "candidates"
  /\ IF c.live
     THEN \E o \in WalkOutcomes(c) : comparison' = CandidatesLoaded(comparison, c, o)
     ELSE UNCHANGED comparison
  /\ lookups' = Ended(lookups, c)
  /\ UNCHANGED comparisons

ReceiveRecovery(c) ==
  /\ c.lane = "recover"
  /\ \E o \in WalkOutcomes(c) : comparison' = Recovered(comparison, c, o)
  /\ lookups' = Ended(lookups, c)
  /\ UNCHANGED comparisons

(* An answer that nobody gave, and one that says that the comparison       *)
(* exists, are recovered from.  The refusals that send the user back to    *)
(* the candidates (a baseline that is unknown, not completed, of another   *)
(* project or version) do not occur: a candidate stays what it was.  The   *)
(* recovery of a submission that was aborted is aborted as it begins.      *)
ReceiveCompare(c) ==
  /\ c.lane = "compare" /\ (c.live \/ c.reply # Waiting)
  /\ LET p == [comparison EXCEPT !.calls = EndedMutation(@, c)]
     IN \E o \in IF c.reply = Waiting THEN Lost ELSE Outcomes(c.reply[1]) :
          CASE o.kind = "data" ->
                 /\ comparison' = [p EXCEPT !.pushed = o.value, !.flags = @ \ {"comparing"}]
                 /\ UNCHANGED lookups
            [] /\ o.kind # "data" /\ ~c.live
               /\ o = networkApiError \/ o.code = AlreadyExists.code ->
                 /\ comparison' = [p EXCEPT !.flags = @ \ {"comparing"}]
                 /\ UNCHANGED lookups
            [] /\ o.kind # "data" /\ c.live
               /\ o = networkApiError \/ o.code = AlreadyExists.code ->
                 /\ comparison' = [p EXCEPT !.exists = o.code = AlreadyExists.code,
                                            !.flags = @ \cup {"recovering"}]
                 /\ lookups' = StartWalk("recover")
            [] OTHER ->
                 /\ comparison' = [p EXCEPT !.comparisonError = o, !.flags = @ \ {"comparing"}]
                 /\ UNCHANGED lookups
  /\ UNCHANGED comparisons
-----------------------------------------------------------------------------
ReceiveComparison ==
  \/ \E c \in lookups : ReceiveCandidates(c) \/ ReceiveRecovery(c)
  \/ \E c \in comparison.calls : ReceiveCompare(c)

ComparisonNext(completed) ==
  \/ SelectBaseline \/ submitComparison(completed) \/ RefreshCandidates(completed)
  \/ CompareElsewhere(completed)
  \/ \E c \in comparison.calls : ServeCompare(c)
  \/ ReceiveComparison
=============================================================================
