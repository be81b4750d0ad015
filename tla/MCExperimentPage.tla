-------------------------- MODULE MCExperimentPage --------------------------
(* One name to look up; the constants are given in ExperimentPage.cfg.      *)
EXTENDS ExperimentPage
=============================================================================
