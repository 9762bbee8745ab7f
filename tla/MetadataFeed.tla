---------------------------- MODULE MetadataFeed ----------------------------
(***************************************************************************)
(* What WatchConnectionMetadata promises: a subscriber is given the state  *)
(* of every known connection as of its subscription, then each later       *)
(* revision of each connection exactly once and in order, until the        *)
(* subscription ends.  How revisions are queued, that a slow subscriber is *)
(* dropped, and when, is left open.                                        *)
(***************************************************************************)
EXTENDS Naturals

CONSTANTS Ids, Subscribers

VARIABLES
  revision,  \* the latest revision of each connection, 0 while unknown
  open,      \* the open subscriptions
  start,     \* what was published when each subscription began
  seen       \* the last revision each subscriber was given

feed == <<revision, open, start, seen>>

Nothing == [id \in Ids |-> 0]

Init ==
  /\ revision = Nothing
  /\ open = {}
  /\ start = [s \in Subscribers |-> Nothing]
  /\ seen = [s \in Subscribers |-> Nothing]

\* One section may publish several revisions, of several connections.
Publish ==
  /\ revision' \in [Ids -> Nat]
  /\ \A id \in Ids : revision'[id] >= revision[id]
  /\ UNCHANGED <<open, start, seen>>

Subscribe(s) ==
  /\ s \notin open
  /\ open' = open \cup {s}
  /\ start' = [start EXCEPT ![s] = revision]
  /\ seen' = [seen EXCEPT ![s] = Nothing]
  /\ UNCHANGED revision

\* The state at the beginning first, then revision after revision.
Deliver(s, id) ==
  LET next == IF seen[s][id] = 0 /\ start[s][id] > 0 THEN start[s][id] ELSE seen[s][id] + 1 IN
  /\ s \in open
  /\ next <= revision[id]
  /\ seen' = [seen EXCEPT ![s][id] = next]
  /\ UNCHANGED <<revision, open, start>>

End(s) ==
  /\ s \in open
  /\ open' = open \ {s}
  /\ start' = [start EXCEPT ![s] = Nothing]
  /\ seen' = [seen EXCEPT ![s] = Nothing]
  /\ UNCHANGED revision

Next ==
  \/ Publish
  \/ \E s \in Subscribers :
       Subscribe(s) \/ End(s) \/ \E id \in Ids : Deliver(s, id)

Spec == Init /\ [][Next]_feed
=============================================================================
