---------------------------- MODULE MCLogSession ----------------------------
(***************************************************************************)
(* Instances of LogSession for TLC.                                        *)
(***************************************************************************)
EXTENDS LogSession, TLC

CONSTANTS c1, c2

\* Both requests ask for the same session ID.
SameId == [c \in Creates |-> CHOOSE i \in Ids : TRUE]

\* Only the first request's resource has sources.
FirstHasSources == [c \in Creates |-> IF c = c1 THEN Sources ELSE {}]

\* No action tells the sources apart.
SourceSymmetry == Permutations(Sources)
=============================================================================
