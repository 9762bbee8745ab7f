-------------------------- MODULE MCSettingsCommit --------------------------
(***************************************************************************)
(* Instance of SettingsCommit for TLC: a remote commit of two settings, a  *)
(* local one of one of them, and a reset or a registration that changes    *)
(* its type.                                                               *)
(***************************************************************************)
EXTENDS SettingsCommit

CONSTANTS r1, l1, p1

KindOf ==
  [w \in Writers |-> CASE w = r1 -> "remote" [] w = l1 -> "local" [] OTHER -> "plugin"]

Numbers == [type |-> "integer", default |-> "0"]
Flags == [type |-> "toggle", default |-> "false"]

InitialSettings == [s \in {"a", "b"} |-> Numbers]

\* c is registered by p1 only.
Changes ==
  [w \in Writers |->
     CASE w = r1 -> [s \in {"a", "b"} |-> "1.0"]
       [] w = l1 -> [s \in {"b"} |-> "2"]
       [] OTHER -> [s \in {"b", "c"} |-> IF s = "b" THEN Flags ELSE Numbers]]

OneCategory == [s \in Settings |-> "plugin"]

NormalForm ==
  [integer |-> [v \in {"1.0", "2"} |-> IF v = "1.0" THEN "1" ELSE v],
   toggle |-> [v \in {"1.0", "2"} |-> None]]
=============================================================================
