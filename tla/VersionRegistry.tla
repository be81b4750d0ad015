--------------------------- MODULE VersionRegistry ---------------------------
(***************************************************************************)
(* What every versioned resource of EvalOps (dataset, target, evaluator)   *)
(* promises: a log of published snapshots that only grows, whose numbers   *)
(* are 1, 2, 3, ... without gap or repetition, in which no content occurs  *)
(* twice, and to which nothing is added once the resource is deactivated.  *)
(***************************************************************************)
EXTENDS Naturals

CONSTANT Form          \* the contents that can be published, up to normalisation

VARIABLES published,   \* the set of snapshots, [number, form]
          open         \* the resource has not been deactivated

vars == <<published, open>>

Init == published = {} /\ open = TRUE

IsNextNumber(n) ==
  /\ \A v \in published : v.number < n
  /\ \A m \in 1..(n - 1) : \E v \in published : v.number = m

Publish(n, f) ==
  /\ open
  /\ IsNextNumber(n)
  /\ \A v \in published : v.form # f
  /\ published' = published \cup {[number |-> n, form |-> f]}
  /\ UNCHANGED open

Close == open' = FALSE /\ UNCHANGED published

Next ==
  \/ Close
  \/ \E n \in {1} \cup {v.number + 1 : v \in published}, f \in Form : Publish(n, f)

Spec == Init /\ [][Next]_vars
=============================================================================
