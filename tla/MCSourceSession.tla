-------------------------- MODULE MCSourceSession ---------------------------
(***************************************************************************)
(* Instances of SourceSession for TLC.                                     *)
(***************************************************************************)
EXTENDS SourceSession, TLC

EmitterSymmetry == Permutations(Emitters)
=============================================================================
