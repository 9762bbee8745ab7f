---------------------------- MODULE MCMetricLane ----------------------------
(***************************************************************************)
(* Instance of MetricLane for TLC.                                         *)
(***************************************************************************)
EXTENDS MetricLane
=============================================================================
