--------------------------- MODULE MCPortForward ----------------------------
(***************************************************************************)
(* Instances of PortForward for TLC.  The starts of a run differ in kind,  *)
(* so there is no symmetry to declare.                                     *)
(***************************************************************************)
EXTENDS PortForward
=============================================================================
