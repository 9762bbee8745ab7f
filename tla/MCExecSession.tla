--------------------------- MODULE MCExecSession ----------------------------
(***************************************************************************)
(* Instances of ExecSession for TLC.                                       *)
(***************************************************************************)
EXTENDS ExecSession

\* All requests ask for the same session ID.
SameId == [c \in Creates |-> CHOOSE i \in Ids : TRUE]
=============================================================================
