---------------------------- MODULE MCExperiment ----------------------------
(* Three experiments, of which the first and the last share their files, as  *)
(* those with the default parameters do.                                     *)
EXTENDS Experiment

MCSuffix == <<1, 2, 1>>
==============================================================================
