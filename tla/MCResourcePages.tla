-------------------------- MODULE MCResourcePages --------------------------
(* The constants of ResourcePages are small numbers: nothing to define.      *)
EXTENDS ResourcePages
=============================================================================
