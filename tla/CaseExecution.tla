---------------------------- MODULE CaseExecution ----------------------------
(***************************************************************************)
(* What one evaluation case of an experiment yields: the FIXED response of *)
(* the target version is given to the evaluator version.  Both are         *)
(* snapshots, so the result is a function of the two of them; texts and    *)
(* operands are abstract, related by the substring or regex match.  A       *)
(* database error within a case leaves a transaction that only Abort ends. *)
(***************************************************************************)
CONSTANTS Text,            \* texts a target can answer with
          Operand,         \* valid operands: expected, forbidden, pattern
          Matches,         \* <<text, operand>>: the operand is found in the text
          TargetVersion,
          TargetSnapshot,  \* the fixed_response of a version
          EvaluatorVersion,
          EvaluatorSnapshot, \* its type and operand
          None

NoObject == "no object"    \* fixed_response is missing or is not an object
NoText == "no text"        \* it is an object without a string "text"
Invalid == "invalid"       \* _validate_config or re.compile rejects the config
Raising == "raising"       \* re.compile raises another exception, as OverflowError

EvaluatorType == {"CONTAINS", "NOT_CONTAINS", "REGEX"}

ASSUME SnapshotAssumption ==
  /\ TargetSnapshot \in [TargetVersion -> Text \cup {NoObject, NoText}]
  /\ EvaluatorSnapshot \in
       [EvaluatorVersion -> [type : EvaluatorType, operand : Operand \cup {Invalid, Raising}]]
ASSUME MatchAssumption == Matches \subseteq Text \X Operand

Verdict == {"PASS", "FAIL", "ERROR"}
ErrorCode ==
  {"INVALID_TARGET_CONFIGURATION", "INVALID_EVALUATOR_CONFIGURATION", "EXECUTION_ERROR"}
Result == [status : Verdict, code : ErrorCode \cup {None}]

Answered(status) == [status |-> status, code |-> None]
Failed(code) == [status |-> "ERROR", code |-> code]

\* EvaluatorService.execute_version on what the target answered.
Evaluate(evaluator, response) ==
  LET found == <<response, evaluator.operand>> \in Matches
  IN  CASE response = NoText \/ evaluator.operand = Invalid ->
             Failed("INVALID_EVALUATOR_CONFIGURATION")
        [] response # NoText /\ evaluator.operand = Raising -> Failed("EXECUTION_ERROR")
        [] OTHER -> Answered(IF found = (evaluator.type # "NOT_CONTAINS")
                               THEN "PASS" ELSE "FAIL")

\* One iteration of the loop of run_experiment.
Execute(tv, ev) ==
  IF TargetSnapshot[tv] = NoObject
    THEN Failed("INVALID_TARGET_CONFIGURATION")
    ELSE Evaluate(EvaluatorSnapshot[ev], TargetSnapshot[tv])
=============================================================================
