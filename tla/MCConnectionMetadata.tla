------------------------ MODULE MCConnectionMetadata ------------------------
(***************************************************************************)
(* Instances of ConnectionMetadata for TLC.  Both runs check liveness, so  *)
(* neither declares a symmetry.                                            *)
(***************************************************************************)
EXTENDS ConnectionMetadata
=============================================================================
