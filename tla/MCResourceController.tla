------------------------ MODULE MCResourceController ------------------------
(***************************************************************************)
(* Instances of ResourceController for TLC.  Each run gives its callers    *)
(* the methods its question is about.                                      *)
(***************************************************************************)
EXTENDS ResourceController, TLC

CONSTANTS p1, p2, p3

\* Two callers start, join, lease and stop one connection; the second is also
\* the host that edits the inventory and closes.
InventoryCalls ==
  [p \in Callers |-> IF p = p1 THEN {"start", "lease", "stop"}
                     ELSE {"start", "stop", "load", "overlay", "update", "delete", "close"}]

\* Connections are used, stopped and replaced in batches, racing Close.
BatchCalls ==
  [p \in Callers |-> CASE p = p1 -> {"start", "lease"}
                       [] p = p2 -> {"load", "stop"}
                       [] OTHER  -> {"close"}]

\* One caller starts a connection and gives up; nobody else is there.
StartCalls == [p \in Callers |-> {"load", "start"}]

\* No caller is tied to a connection or a generation.
RegistrySymmetry == Permutations(Generations) \cup Permutations(Ids)

OneProfile == Profiles

\* The native profile and one for another endpoint that leaves the private data
\* to be inherited.
NativeAndOverride ==
  {[public |-> "a", private |-> "s", display |-> "d"],
   [public |-> "b", private |-> Nil, display |-> "e"]}
=============================================================================
