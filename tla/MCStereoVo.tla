----------------------------- MODULE MCStereoVo -----------------------------
(* Model-checking instance of StereoVo: long enough for two failed runs with *)
(* a recovery in between, each reaching the lost-track threshold.             *)
EXTENDS StereoVo
=============================================================================
