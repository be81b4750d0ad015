--------------------------- MODULE ResourcePages ---------------------------
(***************************************************************************)
(* The pages on which a project's resources are edited and versioned.      *)
(* They share nothing but the server; the one that is open is chosen at    *)
(* the start.                                                              *)
(***************************************************************************)
EXTENDS ApiClient, Requests

CONSTANTS Size,          \* rows of a page
          MaxCases,      \* bound: cases of the dataset
          MaxEdits,      \* bound: updates of one case
          MaxDatasetActs, MaxTargetActs,  \* bounds: what is done to either page
          MaxLate        \* bound: superseded calls that are still under way

ASSUME SizeAssumption == Size \in Nat \ {0}
(* The dataset has two cases to begin with.                                *)
ASSUME BoundsAssumption ==
  {MaxCases, MaxEdits, MaxDatasetActs, MaxTargetActs, MaxLate} \subseteq Nat /\ MaxCases >= 2

VARIABLES open,          \* "dataset", "target" or "evaluator"
          others, usable, cases, snapshots, datasetPage,
          targetActive, config, captured, targetPage

datasetVars == <<usable, cases, snapshots, datasetPage>>
targetVars == <<targetActive, config, captured, targetPage>>
vars == <<open, others, datasetVars, targetVars>>

Dataset == INSTANCE DatasetPage WITH page <- datasetPage, MaxActs <- MaxDatasetActs
Target == INSTANCE TargetPage WITH page <- targetPage, kind <- open, MaxActs <- MaxTargetActs

(* None is no error of a call, and nothing a page may hold of its target.  *)
ASSUME NoneAssumption ==
  None \notin Lost \cup [config : Nat, active : BOOLEAN]
            \cup {request(r) : r \in {Target!Inactive, Target!DuplicateName,
                                     Target!DuplicateVersion}}

(* The page that is not open has not been rendered.                        *)
Init ==
  \/ /\ open = "dataset" /\ Dataset!Init
     /\ targetActive = TRUE /\ config = 0 /\ captured = <<0>> /\ targetPage = Target!NewPage
  \/ /\ Target!Init
     /\ usable = TRUE /\ cases = << >> /\ snapshots = << >> /\ datasetPage = Dataset!NewPage

UseDataset == open = "dataset" /\ Dataset!Next /\ UNCHANGED <<open, targetVars>>
UseTarget == open # "dataset" /\ Target!Next /\ UNCHANGED datasetVars

Next == UseDataset \/ UseTarget

Spec == Init /\ [][Next]_vars
-----------------------------------------------------------------------------
TypeOK == Dataset!TypeOK /\ Target!TypeOK /\ open \in {"dataset", "target", "evaluator"}

(* A list at rest without an error holds the rows of the page its          *)
(* pagination shows, whatever was turned, made or reloaded meanwhile.      *)
ListsAreOfThePage ==
  /\ open = "dataset" => Dataset!ListsAreOfThePage
  /\ open # "dataset" => Target!ListsAreOfThePage

(* What the page has been told that it changed is shown: no answer read    *)
(* before the change stays on the screen without an error beside it.       *)
ChangesAreShown ==
  /\ open = "dataset" => Dataset!ChangesAreShown
  /\ open # "dataset" => Target!ChangesAreShown

(* A change that failed, while nothing else was done on the page, is       *)
(* signalled until the next act of the user: the reload that follows the   *)
(* failure does not take its error away.                                   *)
FailuresAreShown ==
  /\ open = "dataset" => Dataset!FailuresAreShown
  /\ open # "dataset" => Target!FailuresAreShown
=============================================================================
