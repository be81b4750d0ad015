-------------------------- MODULE ExperimentLedger --------------------------
(***************************************************************************)
(* What the experiments of EvalOps promise: an experiment is planned once, *)
(* is carried out at most once and in one step, its outcome is the one its *)
(* plan determines, and nothing about it changes afterwards.               *)
(***************************************************************************)
CONSTANTS Experiment,
          Plan,        \* the versions an experiment is made of
          Expected,    \* the outcome each plan determines
          None

VARIABLE ledger        \* per experiment: its state, its plan, its outcome

Unplanned == [state |-> "absent", plan |-> None, outcome |-> None]

Init == ledger = [e \in Experiment |-> Unplanned]

Create(e, p) ==
  /\ ledger[e].state = "absent"
  /\ ledger' = [ledger EXCEPT ![e] =
                  [state |-> "created", plan |-> p, outcome |-> None]]

CarryOut(e) ==
  /\ ledger[e].state = "created"
  /\ ledger' = [ledger EXCEPT ![e] =
                  [state |-> "done", plan |-> ledger[e].plan,
                   outcome |-> Expected[ledger[e].plan]]]

Next == \E e \in Experiment : CarryOut(e) \/ \E p \in Plan : Create(e, p)

Spec == Init /\ [][Next]_ledger
=============================================================================
