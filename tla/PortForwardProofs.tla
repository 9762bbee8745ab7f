------------------------- MODULE PortForwardProofs --------------------------
(***************************************************************************)
(* Theorems about PortForward for any sets of starts, session IDs, closers *)
(* and events.                                                             *)
(***************************************************************************)
EXTENDS PortForward, TLAPS

-----------------------------------------------------------------------------
(* The inductive invariant.                                                *)

Creating == {"none", "lease", "begin", "forward", "ready", "admit", "publish"}
Leasing == {"begin", "forward", "ready", "admit", "publish", "hold"}
Deciding == {"fence", "detach", "reject", "cleanup"}

\* What the goroutines of a start have established so far.
Progress(p) ==
  LET s == start[p]
      t == tunnel[p]
  IN
  /\ s.caller = "idle" => s.worker = "none"
  /\ s.worker \in Creating => s.created = "none" /\ t.monitor = "none"
  /\ s.worker \in {"ready", "admit", "publish"} => t.id # None
  /\ s.worker = "hold" => s.created = "session"
  /\ s.worker = "done" => s.created # "none"
  /\ s.created = "session" => t.id # None /\ t.monitor # "none"
  /\ s.created = "error" => t.cause # "live" /\ t.monitor = "none"
  /\ s.caller \in Deciding \cup {"accepted"} => s.created = "session"

\* A request hook that has begun belongs to a request that has ended, and no
\* hook is left when the request can no longer refuse the session.
Hooks(p) ==
  LET s == start[p] IN
  /\ s.hook = "fired" => s.cancelled
  /\ s.caller = "accepted" => s.hook = "off"
  /\ p \notin Resource /\ (s.worker = "publish" \/ s.created = "session") => s.hook = "off"

\* The leases that the goroutines of a resource start hold.
Leased(p) ==
  LET s == start[p] IN
  /\ <<p, "inner">> \in leases => p \in Resource
  /\ s.worker \in {"lease", "hold"} => p \in Resource
  /\ s.caller \in Deciding => p \in Resource
  /\ s.worker = "lease" => s.caller = "creating"
  /\ p \in Resource =>
       /\ s.caller = "creating" => <<p, "outer">> \in leases
       /\ s.worker \in Leasing => <<p, "inner">> \in leases
       /\ s.worker = "done" => tunnel[p].cause # "live"

\* How a monitor comes to report a failure.
Failures(p) ==
  LET t == tunnel[p] IN
  /\ t.errCh = "late" => t.cause \in Intentional
  /\ t.monitor = "fail" => t.errCh = "error"
  /\ t.state = "FAILED" => t.errCh = "error"

Own(p) == Progress(p) /\ Hooks(p) /\ Leased(p) /\ Failures(p)

\* The map and the close calls name published sessions; a refused start that is
\* closing a session no longer finds its own in the map.
Entries ==
  /\ \A i \in Ids : sessions[i] # None =>
       tunnel[sessions[i]].id = i /\ tunnel[sessions[i]].monitor # "none"
  /\ \A c \in Closers \cup Starts : close[c].at # None => tunnel[close[c].at].monitor # "none"
  /\ \A p \in Starts : close[p].at # None =>
       start[p].caller = "cleanup" /\ sessions[tunnel[p].id] # p

\* Once the section of StopAll has run, no monitor starts; a drained generation
\* has no lease.
Ended ==
  /\ stopAll # "idle" => stopped
  /\ stopped => \A i \in Ids : sessions[i] = None
  /\ stopAll = "clean" => \A p \in Starts : ~Monitoring(p)
  /\ generation = "drained" => leases = {}

IInv ==
  /\ TypeOK
  /\ \A p \in Starts : Own(p)
  /\ Entries /\ Ended
  /\ NoOrphanTunnel /\ FailedStartLeavesNoTunnel

-----------------------------------------------------------------------------
(* What the updates of one start and of one tunnel do.                     *)

LEMMA StartFacts ==
  ASSUME TypeOK, NEW p \in Starts, NEW r \in StartRecords, SetStart(p, r)
  PROVE  /\ start' \in [Starts -> StartRecords]
         /\ start'[p] = r
         /\ \A q \in Starts : q # p => start'[q] = start[q]
  BY DEF TypeOK, SetStart

LEMMA TunnelFacts ==
  ASSUME TypeOK, NEW p \in Starts, NEW r \in Tunnels, SetTunnel(p, r)
  PROVE  /\ tunnel' \in [Starts -> Tunnels]
         /\ tunnel'[p] = r
         /\ \A q \in Starts : q # p => tunnel'[q] = tunnel[q]
  BY DEF TypeOK, SetTunnel

LEMMA CancelFacts ==
  ASSUME NEW t \in Tunnels, NEW cause \in {"closed", "stopped", "other"}
  PROVE  /\ Cancel(t, cause) \in Tunnels
         /\ Cancel(t, cause).cause = IF t.cause = "live" THEN cause ELSE t.cause
         /\ Cancel(t, cause).id = t.id
         /\ Cancel(t, cause).state = t.state
         /\ Cancel(t, cause).errCh = t.errCh
         /\ Cancel(t, cause).monitor = t.monitor
  BY DEF Cancel, Tunnels

LEMMA TransitionFacts ==
  ASSUME NEW t \in Tunnels, NEW to \in {"STOPPED", "FAILED"}
  PROVE  /\ Transition(t, to) \in Tunnels
         /\ Transition(t, to).state \in {t.state, to}
         /\ Transition(t, to).cause = t.cause
         /\ Transition(t, to).id = t.id
         /\ Transition(t, to).errCh = t.errCh
         /\ Transition(t, to).monitor = t.monitor
  BY DEF Transition, Tunnels

LEMMA StopHookFacts ==
  ASSUME NEW s \in StartRecords
  PROVE  /\ StopHook(s) \in StartRecords
         /\ StopHook(s).hook = IF s.hook = "armed" THEN "off" ELSE s.hook
         /\ StopHook(s).caller = s.caller /\ StopHook(s).worker = s.worker
         /\ StopHook(s).created = s.created /\ StopHook(s).cancelled = s.cancelled
  BY DEF StopHook, StartRecords

LEMMA ArmHookFacts ==
  ASSUME NEW s \in StartRecords
  PROVE  /\ ArmHook(s) \in StartRecords
         /\ ArmHook(s).hook = IF s.cancelled THEN "fired" ELSE "armed"
         /\ ArmHook(s).caller = s.caller /\ ArmHook(s).worker = s.worker
         /\ ArmHook(s).created = s.created /\ ArmHook(s).cancelled = s.cancelled
  BY DEF ArmHook, StartRecords

LEMMA ReportFacts ==
  ASSUME NEW s \in StartRecords, NEW w \in {"hold", "done"}, NEW c \in {"session", "error"}
  PROVE  LET r == [s EXCEPT !.worker = w, !.created = c] IN
         /\ r \in StartRecords /\ r.worker = w /\ r.created = c
         /\ r.caller = s.caller /\ r.hook = s.hook /\ r.cancelled = s.cancelled
  BY DEF StartRecords

LEMMA WorkerFacts ==
  ASSUME NEW s \in StartRecords, NEW w \in Creating \cup {"hold", "done"}
  PROVE  LET r == [s EXCEPT !.worker = w] IN
         /\ r \in StartRecords /\ r.worker = w /\ r.created = s.created
         /\ r.caller = s.caller /\ r.hook = s.hook /\ r.cancelled = s.cancelled
  BY DEF StartRecords, Creating

LEMMA CallerFacts ==
  ASSUME NEW s \in StartRecords, NEW c \in Deciding \cup {"creating", "accepted", "failed"}
  PROVE  LET r == [s EXCEPT !.caller = c] IN
         /\ r \in StartRecords /\ r.caller = c /\ r.created = s.created
         /\ r.worker = s.worker /\ r.hook = s.hook /\ r.cancelled = s.cancelled
  BY DEF StartRecords, Deciding

-----------------------------------------------------------------------------
(* Most steps move one start and its tunnel and leave the map and the      *)
(* close calls alone: they are all instances of OwnStep.                   *)

\* Only p's start, tunnel and leases change.
Others(p) ==
  /\ \A q \in Starts : q # p => start'[q] = start[q] /\ tunnel'[q] = tunnel[q]
  /\ \A q \in Starts, k \in {"outer", "inner"} :
       q # p => (<<q, k>> \in leases' <=> <<q, k>> \in leases)

\* p stays published, and does not become an orphan or a failure.
Keeps(p) ==
  /\ tunnel[p].monitor # "none" =>
       tunnel'[p].monitor # "none" /\ tunnel'[p].id = tunnel[p].id
  /\ Monitoring(p)' => Monitoring(p)
  /\ close[p].at # None => start'[p].caller = start[p].caller
  /\ start'[p].worker \in {"hold", "done"} /\ tunnel'[p].cause = "live" =>
       start[p].worker \in {"hold", "done"} /\ tunnel[p].cause = "live"
  /\ start'[p].caller = "failed" /\ start'[p].worker # "none" /\ tunnel'[p].cause = "live" =>
       \/ BeingClosed(p)
       \/ start[p].caller = "failed" /\ start[p].worker # "none" /\ tunnel[p].cause = "live"

LEMMA OwnStep ==
  ASSUME IInv, NEW p \in Starts, Others(p), Keeps(p), Own(p)',
         start' \in [Starts -> StartRecords], tunnel' \in [Starts -> Tunnels],
         leases' \in SUBSET Leases, generation = "drained" => leases' = {},
         UNCHANGED <<manager, generation>>
  PROVE  IInv'
  <1>1. TypeOK'
    BY DEF IInv, TypeOK, manager
  <1>2. \A q \in Starts : Own(q)'
    <2>1. ASSUME NEW q \in Starts, q # p
          PROVE  Own(q)'
      BY <2>1 DEF IInv, Own, Progress, Hooks, Leased, Failures, Others
    <2> QED BY <2>1
  <1>3. UNCHANGED <<close, sessions, stopped, stopAll>>
    BY DEF manager
  <1>4. Entries'
    <2>1. \A q \in Starts : tunnel[q].monitor # "none" =>
            tunnel'[q].monitor # "none" /\ tunnel'[q].id = tunnel[q].id
      BY DEF Others, Keeps
    <2>2. \A i \in Ids : sessions[i] # None => sessions[i] \in Starts
      BY DEF IInv, TypeOK
    <2>3. \A c \in Closers \cup Starts : close[c].at # None => close[c].at \in Starts
      BY DEF IInv, TypeOK, NoClose
    <2>4. \A q \in Starts : close[q].at # None =>
            start'[q].caller = "cleanup" /\ sessions[tunnel'[q].id] # q
      <3>1. ASSUME NEW q \in Starts, close[q].at # None
            PROVE  start[q].caller = "cleanup" /\ sessions[tunnel[q].id] # q
        BY <3>1 DEF IInv, Entries
      <3>2. ASSUME NEW q \in Starts, close[q].at # None
            PROVE  tunnel[q].monitor # "none"
        BY <3>1, <3>2 DEF IInv, Own, Progress, Deciding
      <3>3. \A q \in Starts : close[q].at # None => start'[q].caller = start[q].caller
        BY DEF Others, Keeps
      <3> QED BY <2>1, <3>1, <3>2, <3>3
    <2> QED BY <1>3, <2>1, <2>2, <2>3, <2>4 DEF IInv, Entries
  <1>5. Ended'
    <2>1. \A q \in Starts : Monitoring(q)' => Monitoring(q)
      BY DEF Others, Keeps, Monitoring
    <2> QED BY <1>3, <2>1 DEF IInv, Ended
  <1>6. NoOrphanTunnel'
    <2>1. \A q \in Starts : BeingClosed(q)' <=> BeingClosed(q)
      BY <1>3 DEF BeingClosed
    <2>2. ASSUME NEW q \in Starts, start'[q].worker \in {"hold", "done"}, tunnel'[q].cause = "live"
          PROVE  /\ start[q].worker \in {"hold", "done"} /\ tunnel[q].cause = "live"
                 /\ tunnel'[q].id = tunnel[q].id
      <3>1. start[q].worker \in {"hold", "done"} /\ tunnel[q].cause = "live"
        BY <2>2 DEF Others, Keeps
      <3>2. start[q] \in StartRecords
        BY DEF IInv, TypeOK
      <3>3. tunnel[q].monitor # "none"
        BY <3>1, <3>2 DEF IInv, Own, Progress, StartRecords
      <3> QED BY <3>1, <3>3 DEF Others, Keeps
    <2> QED BY <1>3, <2>1, <2>2 DEF IInv, NoOrphanTunnel
  <1>7. FailedStartLeavesNoTunnel'
    <2>1. \A q \in Starts : BeingClosed(q)' <=> BeingClosed(q)
      BY <1>3 DEF BeingClosed
    <2> QED BY <2>1 DEF IInv, FailedStartLeavesNoTunnel, Others, Keeps
  <1> QED BY <1>1, <1>2, <1>4, <1>5, <1>6, <1>7 DEF IInv

\* Only the start changes.
LEMMA StartMove ==
  ASSUME IInv, NEW p \in Starts, NEW r \in StartRecords, SetStart(p, r),
         UNCHANGED <<tunnel, manager, registry>>, Own(p)',
         close[p].at # None => r.caller = start[p].caller,
         r.worker \in {"hold", "done"} => start[p].worker \in {"hold", "done"},
         r.caller = "failed" /\ r.worker # "none" /\ tunnel[p].cause = "live" =>
           BeingClosed(p) \/ (start[p].caller = "failed" /\ start[p].worker # "none")
  PROVE  IInv'
  <1>1. /\ start' \in [Starts -> StartRecords]
        /\ start'[p] = r
        /\ \A q \in Starts : q # p => start'[q] = start[q]
    BY StartFacts DEF IInv
  <1>2. Others(p) /\ Keeps(p)
    BY <1>1 DEF Others, Keeps, registry, Monitoring
  <1>3. tunnel' \in [Starts -> Tunnels] /\ leases' \in SUBSET Leases
    BY DEF IInv, TypeOK, registry
  <1>4. generation = "drained" => leases' = {}
    BY DEF IInv, Ended, registry
  <1> QED BY <1>1, <1>2, <1>3, <1>4, OwnStep DEF registry

\* Only the tunnel changes, and it does not come to life.
LEMMA TunnelMove ==
  ASSUME IInv, NEW p \in Starts, NEW r \in Tunnels, SetTunnel(p, r),
         UNCHANGED <<start, manager, registry>>, Own(p)',
         r.id = tunnel[p].id,
         r.cause = "live" => tunnel[p].cause = "live",
         r.monitor = tunnel[p].monitor
           \/ (tunnel[p].monitor \notin {"none", "done"} /\ r.monitor # "none")
  PROVE  IInv'
  <1>1. /\ tunnel' \in [Starts -> Tunnels]
        /\ tunnel'[p] = r
        /\ \A q \in Starts : q # p => tunnel'[q] = tunnel[q]
    BY TunnelFacts DEF IInv
  <1>2. Others(p) /\ Keeps(p)
    BY <1>1 DEF Others, Keeps, registry, Monitoring
  <1>3. start' \in [Starts -> StartRecords] /\ leases' \in SUBSET Leases
    BY DEF IInv, TypeOK, registry
  <1>4. generation = "drained" => leases' = {}
    BY DEF IInv, Ended, registry
  <1> QED BY <1>1, <1>2, <1>3, <1>4, OwnStep DEF registry

\* The records of a start and of its tunnel in a state of the invariant.
LEMMA Records ==
  ASSUME IInv, NEW p \in Starts
  PROVE  start[p] \in StartRecords /\ tunnel[p] \in Tunnels /\ Own(p) /\ leases \in SUBSET Leases
  BY DEF IInv, TypeOK

\* A close call is in progress only for a refused start.
LEMMA ClosesInCleanup ==
  ASSUME IInv, NEW p \in Starts, start[p].caller # "cleanup"
  PROVE  close[p].at = None
  BY DEF IInv, Entries

-----------------------------------------------------------------------------
(* The steps of a start.                                                   *)

LEMMA StartPortForwardSessionStep ==
  ASSUME IInv, NEW p \in Starts, StartPortForwardSession(p)
  PROVE  IInv'
  <1> DEFINE r == [start[p] EXCEPT !.caller = "creating", !.worker = "begin"]
  <1>1. start[p] \in StartRecords /\ tunnel[p] \in Tunnels /\ Own(p)
    BY Records
  <1>2. /\ r \in StartRecords /\ r.caller = "creating" /\ r.worker = "begin"
        /\ r.created = start[p].created /\ r.hook = start[p].hook /\ r.cancelled = start[p].cancelled
    BY <1>1 DEF StartRecords
  <1>3. SetStart(p, r) /\ start'[p] = r /\ UNCHANGED <<tunnel, manager, registry>>
    BY <1>1, <1>2, StartFacts DEF StartPortForwardSession, IInv
  <1>4. start[p].caller = "idle" /\ start[p].worker = "none" /\ p \notin Resource
    BY <1>1 DEF StartPortForwardSession, Own, Progress
  <1>5. Own(p)'
    BY <1>1, <1>2, <1>3, <1>4
       DEF Own, Progress, Hooks, Leased, Failures, registry, Creating, Leasing, Deciding
  <1> QED BY <1>2, <1>3, <1>4, <1>5, StartMove, ClosesInCleanup

LEMMA StartResourcePortForwardSessionStep ==
  ASSUME IInv, NEW p \in Starts, StartResourcePortForwardSession(p)
  PROVE  IInv'
  <1>1. /\ start[p] \in StartRecords /\ tunnel[p] \in Tunnels /\ Own(p)
        /\ leases \in SUBSET Leases /\ TypeOK
    BY Records DEF IInv
  <1>2. start[p].caller = "idle" /\ start[p].worker = "none" /\ p \in Resource /\ close[p].at = None
    BY <1>1, ClosesInCleanup DEF StartResourcePortForwardSession, Own, Progress
  <1>3. UNCHANGED <<tunnel, manager, generation>>
    BY DEF StartResourcePortForwardSession
  <1>4. CASE /\ generation = "live" /\ ~start[p].cancelled
             /\ SetStart(p, ArmHook([start[p] EXCEPT !.caller = "creating", !.worker = "lease"]))
             /\ leases' = leases \cup {<<p, "outer">>}
    <2> DEFINE s == [start[p] EXCEPT !.caller = "creating", !.worker = "lease"]
    <2>1. /\ s \in StartRecords /\ s.caller = "creating" /\ s.worker = "lease"
          /\ s.created = start[p].created /\ s.cancelled = start[p].cancelled
      BY <1>1 DEF StartRecords
    <2>2. /\ ArmHook(s) \in StartRecords
          /\ ArmHook(s).caller = "creating" /\ ArmHook(s).worker = "lease"
          /\ ArmHook(s).created = start[p].created /\ ArmHook(s).cancelled = start[p].cancelled
          /\ ArmHook(s).hook \in {"armed", "fired"}
          /\ ArmHook(s).hook = "fired" => ArmHook(s).cancelled
      BY <2>1, ArmHookFacts
    <2>3. /\ start' \in [Starts -> StartRecords]
          /\ start'[p] = ArmHook(s)
          /\ \A q \in Starts : q # p => start'[q] = start[q]
      BY <1>1, <1>4, <2>2, StartFacts
    <2>4. leases' \in SUBSET Leases
      BY <1>1, <1>4 DEF Leases
    <2>5. Own(p)'
      BY <1>1, <1>2, <1>3, <1>4, <2>2, <2>3
         DEF Own, Progress, Hooks, Leased, Failures, Creating, Leasing, Deciding
    <2>6. Others(p)
      BY <1>3, <1>4, <2>3 DEF Others
    <2>7. Keeps(p)
      BY <1>2, <1>3, <2>2, <2>3 DEF Keeps, Monitoring
    <2>8. tunnel' \in [Starts -> Tunnels]
      BY <1>1, <1>3 DEF TypeOK
    <2> QED BY <1>3, <1>4, <2>3, <2>4, <2>5, <2>6, <2>7, <2>8, OwnStep
  <1>5. CASE SetStart(p, [start[p] EXCEPT !.caller = "failed"]) /\ UNCHANGED leases
    <2> DEFINE r == [start[p] EXCEPT !.caller = "failed"]
    <2>1. /\ r \in StartRecords /\ r.caller = "failed" /\ r.worker = start[p].worker
          /\ r.created = start[p].created /\ r.hook = start[p].hook /\ r.cancelled = start[p].cancelled
      BY <1>1 DEF StartRecords
    <2>2. SetStart(p, r) /\ start'[p] = r /\ UNCHANGED <<tunnel, manager, registry>>
      BY <1>1, <1>3, <1>5, <2>1, StartFacts DEF registry
    <2>3. Own(p)'
      BY <1>1, <1>2, <2>1, <2>2
         DEF Own, Progress, Hooks, Leased, Failures, registry, Creating, Leasing, Deciding
    <2> QED BY <1>2, <2>1, <2>2, <2>3, StartMove
  <1> QED BY <1>4, <1>5 DEF StartResourcePortForwardSession

\* A creation that fails, at whatever stage.
LEMMA FailStep ==
  ASSUME IInv, NEW p \in Starts, Fail(p), start[p].worker \in Creating \ {"none"}
  PROVE  IInv'
  <1> DEFINE s == Unhooked(p)
             r == [s EXCEPT !.worker = "done", !.created = "error"]
             t == Cancel(tunnel[p], "other")
  <1>1. /\ start[p] \in StartRecords /\ tunnel[p] \in Tunnels /\ Own(p)
        /\ leases \in SUBSET Leases /\ TypeOK
    BY Records DEF IInv
  <1>2. /\ s \in StartRecords /\ s.caller = start[p].caller
        /\ s.cancelled = start[p].cancelled /\ s.hook \in {"off", start[p].hook}
    BY <1>1, StopHookFacts DEF Unhooked
  <1>3. /\ r \in StartRecords /\ r.caller = s.caller /\ r.worker = "done" /\ r.created = "error"
        /\ r.hook = s.hook /\ r.cancelled = s.cancelled
    BY <1>2, ReportFacts
  <1>4. /\ start' \in [Starts -> StartRecords]
        /\ start'[p] = r
        /\ \A q \in Starts : q # p => start'[q] = start[q]
    BY <1>1, <1>3, StartFacts DEF Fail
  <1>5. /\ t \in Tunnels /\ t.cause # "live" /\ (tunnel[p].cause # "live" => t.cause = tunnel[p].cause)
        /\ t.id = tunnel[p].id /\ t.state = tunnel[p].state
        /\ t.errCh = tunnel[p].errCh /\ t.monitor = tunnel[p].monitor
    BY <1>1, CancelFacts
  <1>6. /\ tunnel' \in [Starts -> Tunnels]
        /\ tunnel'[p] = t
        /\ \A q \in Starts : q # p => tunnel'[q] = tunnel[q]
    BY <1>1, <1>5, TunnelFacts DEF Fail
  <1>7. leases' = leases \ {<<p, "inner">>} /\ UNCHANGED <<manager, generation>>
    BY DEF Fail
  <1>8. start[p].created = "none" /\ tunnel[p].monitor = "none"
    BY <1>1 DEF Own, Progress
  <1>9. start[p].caller \notin Deciding \cup {"accepted"}
    BY <1>1, <1>8 DEF Own, Progress
  <1>10. start[p].caller # "idle"
    BY <1>1 DEF Own, Progress
  <1>11. Own(p)'
    <2>1. Progress(p)'
      BY <1>2, <1>3, <1>4, <1>5, <1>6, <1>8, <1>9, <1>10 DEF Progress, Creating
    <2>2. Hooks(p)'
      BY <1>1, <1>2, <1>3, <1>4, <1>9 DEF Own, Hooks
    <2>3. Leased(p)'
      BY <1>1, <1>2, <1>3, <1>4, <1>5, <1>6, <1>7, <1>9 DEF Own, Leased, Leasing
    <2>4. Failures(p)'
      BY <1>1, <1>5, <1>6 DEF Own, Failures, Intentional
    <2> QED BY <2>1, <2>2, <2>3, <2>4 DEF Own
  <1>12. Others(p)
    BY <1>4, <1>6, <1>7 DEF Others
  <1>13. Keeps(p)
    <2>1. close[p].at = None
      BY <1>9, ClosesInCleanup DEF Deciding
    <2> QED BY <1>4, <1>5, <1>6, <1>8, <2>1 DEF Keeps, Monitoring
  <1>14. leases' \in SUBSET Leases /\ (generation = "drained" => leases' = {})
    BY <1>1, <1>7 DEF IInv, Ended
  <1> QED BY <1>4, <1>6, <1>7, <1>11, <1>12, <1>13, <1>14, OwnStep

\* The worker moves on to another stage of creation.
LEMMA AdvanceStep ==
  ASSUME IInv, NEW p \in Starts,
         NEW w \in {"forward", "ready", "admit", "publish"},
         start[p].worker \in {"begin", "forward", "ready", "admit"},
         NEW s \in StartRecords, s.caller = start[p].caller, s.created = start[p].created,
         s.hook = "fired" => s.cancelled,
         w = "publish" /\ p \notin Resource => s.hook = "off",
         SetStart(p, [s EXCEPT !.worker = w]),
         w \in {"ready", "admit", "publish"} => tunnel[p].id # None,
         UNCHANGED <<tunnel, manager, registry>>
  PROVE  IInv'
  <1> DEFINE r == [s EXCEPT !.worker = w]
  <1>1. start[p] \in StartRecords /\ tunnel[p] \in Tunnels /\ Own(p) /\ TypeOK
    BY Records DEF IInv
  <1>2. /\ r \in StartRecords /\ r.worker = w /\ r.created = s.created
        /\ r.caller = s.caller /\ r.hook = s.hook /\ r.cancelled = s.cancelled
    BY WorkerFacts DEF Creating
  <1>3. start'[p] = r
    BY <1>1, <1>2, StartFacts
  <1>4. /\ start[p].created = "none" /\ tunnel[p].monitor = "none"
        /\ start[p].caller \notin Deciding \cup {"accepted", "idle"}
    BY <1>1 DEF Own, Progress, Creating
  <1>5. p \in Resource => <<p, "inner">> \in leases
    BY <1>1 DEF Own, Leased, Leasing
  <1>6. Progress(p)'
    BY <1>2, <1>3, <1>4 DEF Progress, Creating
  <1>7. Hooks(p)'
    BY <1>2, <1>3, <1>4 DEF Hooks
  <1>8. Leased(p)'
    BY <1>1, <1>2, <1>3, <1>4, <1>5 DEF Own, Leased, Leasing, registry
  <1>9. Failures(p)'
    BY <1>1 DEF Own, Failures
  <1>10. close[p].at = None
    BY <1>4, ClosesInCleanup DEF Deciding
  <1>11. ~(r.caller = "failed" /\ tunnel[p].cause = "live") \/ start[p].caller = "failed"
    BY <1>2
  <1>12. r.worker \notin {"hold", "done"} /\ start[p].worker # "none"
    BY <1>2
  <1>13. r.caller = start[p].caller
    BY <1>2
  <1> QED BY <1>2, <1>6, <1>7, <1>8, <1>9, <1>11, <1>12, <1>13, StartMove DEF Own

LEMMA WorkerLeaseStep ==
  ASSUME IInv, NEW p \in Starts, WorkerLease(p)
  PROVE  IInv'
  <1>1. /\ start[p] \in StartRecords /\ tunnel[p] \in Tunnels /\ Own(p)
        /\ leases \in SUBSET Leases /\ TypeOK /\ start[p].worker = "lease"
    BY Records DEF IInv, WorkerLease, Working
  <1>2. CASE Fail(p)
    BY <1>1, <1>2, FailStep DEF Creating
  <1>3. CASE /\ generation = "live"
             /\ leases' = leases \cup {<<p, "inner">>}
             /\ Advance(p, "begin")
             /\ UNCHANGED <<tunnel, manager, generation>>
    <2> DEFINE r == [start[p] EXCEPT !.worker = "begin"]
    <2>1. /\ r \in StartRecords /\ r.worker = "begin" /\ r.created = start[p].created
          /\ r.caller = start[p].caller /\ r.hook = start[p].hook
          /\ r.cancelled = start[p].cancelled
      BY <1>1, WorkerFacts DEF Creating
    <2>2. /\ start' \in [Starts -> StartRecords]
          /\ start'[p] = r
          /\ \A q \in Starts : q # p => start'[q] = start[q]
      BY <1>1, <1>3, <2>1, StartFacts DEF Advance
    <2>3. start[p].caller = "creating" /\ p \in Resource /\ close[p].at = None
      BY <1>1, ClosesInCleanup DEF Own, Leased
    <2>4. Own(p)'
      BY <1>1, <1>3, <2>1, <2>2, <2>3
         DEF Own, Progress, Hooks, Leased, Failures, Creating, Leasing, Deciding
    <2>5. Others(p)
      BY <1>3, <2>2 DEF Others
    <2>6. Keeps(p)
      BY <1>3, <2>1, <2>2, <2>3 DEF Keeps, Monitoring
    <2>7. tunnel' \in [Starts -> Tunnels] /\ leases' \in SUBSET Leases
      BY <1>1, <1>3 DEF TypeOK, Leases
    <2> QED BY <1>3, <2>2, <2>4, <2>5, <2>6, <2>7, OwnStep
  <1> QED BY <1>2, <1>3 DEF WorkerLease

LEMMA BeginStep ==
  ASSUME IInv, NEW p \in Starts, Begin(p)
  PROVE  IInv'
  <1>1. start[p] \in StartRecords /\ Own(p) /\ start[p].worker = "begin"
    BY Records DEF Begin, Working
  <1>2. CASE Fail(p)
    BY <1>1, <1>2, FailStep DEF Creating
  <1>3. CASE /\ SetStart(p, [Hooked(p) EXCEPT !.worker = "forward"])
             /\ UNCHANGED <<tunnel, manager, registry>>
    <2>1. /\ Hooked(p) \in StartRecords /\ Hooked(p).caller = start[p].caller
          /\ Hooked(p).created = start[p].created
          /\ Hooked(p).hook = "fired" => Hooked(p).cancelled
      BY <1>1, ArmHookFacts DEF Hooked, Own, Hooks
    <2> QED BY <1>1, <1>3, <2>1, AdvanceStep
  <1> QED BY <1>2, <1>3 DEF Begin

LEMMA WaitForwarderReadyStep ==
  ASSUME IInv, NEW p \in Starts, WaitForwarderReady(p)
  PROVE  IInv'
  <1>1. start[p] \in StartRecords /\ Own(p) /\ start[p].worker = "ready"
    BY Records DEF WaitForwarderReady, Working
  <1>2. CASE Fail(p)
    BY <1>1, <1>2, FailStep DEF Creating
  <1>3. CASE Advance(p, "admit") /\ UNCHANGED <<tunnel, manager, registry>>
    <2>1. tunnel[p].id # None /\ (start[p].hook = "fired" => start[p].cancelled)
      BY <1>1 DEF Own, Progress, Hooks
    <2>2. SetStart(p, [start[p] EXCEPT !.worker = "admit"])
      BY <1>3 DEF Advance
    <2> QED BY <1>1, <1>3, <2>1, <2>2, AdvanceStep
  <1> QED BY <1>2, <1>3 DEF WaitForwarderReady

LEMMA AdmitCreatedStep ==
  ASSUME IInv, NEW p \in Starts, AdmitCreated(p)
  PROVE  IInv'
  <1>1. start[p] \in StartRecords /\ Own(p) /\ start[p].worker = "admit"
    BY Records DEF AdmitCreated, Working
  <1>2. CASE RequestEnded(p)
    BY <1>1, <1>2, FailStep DEF Creating, AdmitCreated
  <1>3. CASE ~RequestEnded(p)
    <2>1. tunnel[p].id # None /\ (start[p].hook = "fired" => start[p].cancelled)
      BY <1>1 DEF Own, Progress, Hooks
    <2>2. /\ Unhooked(p) \in StartRecords /\ Unhooked(p).caller = start[p].caller
          /\ Unhooked(p).created = start[p].created /\ Unhooked(p).cancelled = start[p].cancelled
      BY <1>1, StopHookFacts DEF Unhooked
    <2>3. Unhooked(p).hook = "fired" => Unhooked(p).cancelled
      BY <1>1, <2>1, <2>2, StopHookFacts DEF Unhooked
    <2>4. p \notin Resource => Unhooked(p).hook = "off"
      <3>1. ASSUME p \notin Resource
            PROVE  ~start[p].cancelled
        BY <1>3, <3>1 DEF RequestEnded
      <3>2. start[p].hook \in {"off", "armed", "fired"}
        BY <1>1 DEF StartRecords
      <3> QED BY <1>1, <2>1, <3>1, <3>2, StopHookFacts DEF Unhooked
    <2>5. /\ SetStart(p, [Unhooked(p) EXCEPT !.worker = "publish"])
          /\ UNCHANGED <<tunnel, manager, registry>>
      BY <1>3 DEF AdmitCreated
    <2> QED BY <1>1, <2>1, <2>2, <2>3, <2>4, <2>5, AdvanceStep
  <1> QED BY <1>2, <1>3

LEMMA ForwarderReturnsStep ==
  ASSUME IInv, NEW p \in Starts, ForwarderReturns(p)
  PROVE  IInv'
  <1>1. /\ start[p] \in StartRecords /\ tunnel[p] \in Tunnels /\ Own(p)
        /\ leases \in SUBSET Leases /\ TypeOK /\ start[p].worker = "forward"
    BY Records DEF IInv, ForwarderReturns, Working
  <1>2. CASE Fail(p)
    BY <1>1, <1>2, FailStep DEF Creating
  <1>3. ASSUME NEW i \in Named \cup {p},
               SetTunnel(p, [tunnel[p] EXCEPT !.id = i]), Advance(p, "ready"),
               UNCHANGED <<manager, registry>>
        PROVE  IInv'
    <2> DEFINE r == [start[p] EXCEPT !.worker = "ready"]
               t == [tunnel[p] EXCEPT !.id = i]
    <2>1. /\ r \in StartRecords /\ r.worker = "ready" /\ r.created = start[p].created
          /\ r.caller = start[p].caller /\ r.hook = start[p].hook
          /\ r.cancelled = start[p].cancelled
      BY <1>1, WorkerFacts DEF Creating
    <2>2. /\ start' \in [Starts -> StartRecords]
          /\ start'[p] = r
          /\ \A q \in Starts : q # p => start'[q] = start[q]
      BY <1>1, <1>3, <2>1, StartFacts DEF Advance
    <2>3. i \in Ids /\ i # None
      BY ForwardAssumption DEF Ids
    <2>4. /\ t \in Tunnels /\ t.id = i /\ t.cause = tunnel[p].cause /\ t.state = tunnel[p].state
          /\ t.errCh = tunnel[p].errCh /\ t.monitor = tunnel[p].monitor
      BY <1>1, <2>3 DEF Tunnels
    <2>5. /\ tunnel' \in [Starts -> Tunnels]
          /\ tunnel'[p] = t
          /\ \A q \in Starts : q # p => tunnel'[q] = tunnel[q]
      BY <1>1, <1>3, <2>4, TunnelFacts
    <2>6. /\ start[p].caller \notin Deciding \cup {"accepted", "idle"}
          /\ start[p].created = "none" /\ tunnel[p].monitor = "none"
      BY <1>1 DEF Own, Progress, Creating
    <2>7. close[p].at = None
      BY <2>6, ClosesInCleanup DEF Deciding
    <2>8. Own(p)'
      BY <1>1, <1>3, <2>1, <2>2, <2>3, <2>4, <2>5, <2>6
         DEF Own, Progress, Hooks, Leased, Failures, Creating, Leasing, Deciding, registry
    <2>9. Others(p)
      BY <1>3, <2>2, <2>5 DEF Others, registry
    <2>10. Keeps(p)
      BY <1>1, <2>1, <2>2, <2>4, <2>5, <2>6, <2>7 DEF Keeps, Monitoring
    <2>11. leases' \in SUBSET Leases /\ (generation = "drained" => leases' = {})
      BY <1>1, <1>3 DEF IInv, Ended, registry
    <2> QED BY <1>3, <2>2, <2>5, <2>8, <2>9, <2>10, <2>11, OwnStep DEF registry
  <1> QED BY <1>2, <1>3 DEF ForwarderReturns

LEMMA HoldStep ==
  ASSUME IInv, NEW p \in Starts, Hold(p)
  PROVE  IInv'
  <1> DEFINE r == [start[p] EXCEPT !.worker = "done"]
  <1>1. /\ start[p] \in StartRecords /\ tunnel[p] \in Tunnels /\ Own(p)
        /\ leases \in SUBSET Leases /\ TypeOK
        /\ start[p].worker = "hold" /\ tunnel[p].cause # "live"
    BY Records DEF IInv, Hold, Working
  <1>2. /\ r \in StartRecords /\ r.worker = "done" /\ r.created = start[p].created
        /\ r.caller = start[p].caller /\ r.hook = start[p].hook
        /\ r.cancelled = start[p].cancelled
    BY <1>1, WorkerFacts
  <1>3. /\ start' \in [Starts -> StartRecords]
        /\ start'[p] = r
        /\ \A q \in Starts : q # p => start'[q] = start[q]
    BY <1>1, <1>2, StartFacts DEF Hold, Advance
  <1>4. leases' = leases \ {<<p, "inner">>} /\ UNCHANGED <<tunnel, manager, generation>>
    BY DEF Hold
  <1>5. start[p].caller # "idle"
    BY <1>1 DEF Own, Progress
  <1>6. Own(p)'
    BY <1>1, <1>2, <1>3, <1>4, <1>5
       DEF Own, Progress, Hooks, Leased, Failures, Creating, Leasing, Deciding
  <1>7. Others(p)
    BY <1>3, <1>4 DEF Others
  <1>8. Keeps(p)
    BY <1>1, <1>2, <1>3, <1>4 DEF Keeps, Monitoring
  <1>9. /\ tunnel' \in [Starts -> Tunnels] /\ leases' \in SUBSET Leases
        /\ generation = "drained" => leases' = {}
    BY <1>1, <1>4 DEF TypeOK, IInv, Ended
  <1> QED BY <1>3, <1>4, <1>6, <1>7, <1>8, <1>9, OwnStep

LEMMA CreationReturnsStep ==
  ASSUME IInv, NEW p \in Starts, CreationReturns(p)
  PROVE  IInv'
  <1> DEFINE c == IF start[p].created = "session" THEN "accepted" ELSE "failed"
             r == [start[p] EXCEPT !.caller = c]
  <1>1. start[p] \in StartRecords /\ tunnel[p] \in Tunnels /\ Own(p) /\ TypeOK
    BY Records DEF IInv
  <1>2. p \notin Resource /\ start[p].caller = "creating" /\ start[p].created \in {"session", "error"}
    BY <1>1 DEF CreationReturns, StartRecords
  <1>3. /\ r \in StartRecords /\ r.caller = c /\ r.created = start[p].created
        /\ r.worker = start[p].worker /\ r.hook = start[p].hook /\ r.cancelled = start[p].cancelled
    BY <1>1, CallerFacts
  <1>4. SetStart(p, r) /\ start'[p] = r /\ UNCHANGED <<tunnel, manager, registry>>
    BY <1>1, <1>3, StartFacts DEF CreationReturns
  <1>5. Own(p)'
    BY <1>1, <1>2, <1>3, <1>4
       DEF Own, Progress, Hooks, Leased, Failures, registry, Creating, Leasing, Deciding
  <1>6. r.caller = "failed" => tunnel[p].cause # "live"
    BY <1>1, <1>2, <1>3 DEF Own, Progress
  <1> QED BY <1>2, <1>3, <1>4, <1>5, <1>6, StartMove, ClosesInCleanup

LEMMA CreatedReceivedStep ==
  ASSUME IInv, NEW p \in Starts, CreatedReceived(p)
  PROVE  IInv'
  <1>1. /\ start[p] \in StartRecords /\ tunnel[p] \in Tunnels /\ Own(p)
        /\ leases \in SUBSET Leases /\ TypeOK
    BY Records DEF IInv
  <1>2. /\ p \in Resource /\ start[p].caller = "creating"
        /\ start[p].created \in {"session", "error"} /\ close[p].at = None
    BY <1>1, ClosesInCleanup DEF CreatedReceived, StartRecords
  <1>3. UNCHANGED <<tunnel, manager, generation>>
    BY DEF CreatedReceived
  <1>4. CASE start[p].created = "session"
    <2> DEFINE r == [start[p] EXCEPT !.caller = "fence"]
    <2>1. /\ r \in StartRecords /\ r.caller = "fence" /\ r.created = start[p].created
          /\ r.worker = start[p].worker /\ r.hook = start[p].hook /\ r.cancelled = start[p].cancelled
      BY <1>1, CallerFacts DEF Deciding
    <2>2. SetStart(p, r) /\ start'[p] = r /\ UNCHANGED <<tunnel, manager, registry>>
      BY <1>1, <1>3, <1>4, <2>1, StartFacts DEF CreatedReceived, registry
    <2>3. Own(p)'
      BY <1>1, <1>2, <1>4, <2>1, <2>2
         DEF Own, Progress, Hooks, Leased, Failures, registry, Creating, Leasing, Deciding
    <2> QED BY <1>2, <2>1, <2>2, <2>3, StartMove
  <1>5. CASE start[p].created = "error"
    <2> DEFINE s == StopHook(start[p])
               r == [s EXCEPT !.caller = "failed"]
    <2>1. /\ s \in StartRecords /\ s.worker = start[p].worker /\ s.created = "error"
          /\ s.cancelled = start[p].cancelled /\ s.hook \in {"off", start[p].hook}
      BY <1>1, <1>5, StopHookFacts
    <2>2. /\ r \in StartRecords /\ r.caller = "failed" /\ r.created = "error"
          /\ r.worker = start[p].worker /\ r.cancelled = start[p].cancelled
          /\ r.hook \in {"off", start[p].hook}
      BY <2>1, CallerFacts
    <2>3. /\ start' \in [Starts -> StartRecords]
          /\ start'[p] = r
          /\ \A q \in Starts : q # p => start'[q] = start[q]
      BY <1>1, <1>5, <2>2, StartFacts DEF CreatedReceived
    <2>4. leases' = leases \ {<<p, "outer">>}
      BY <1>5 DEF CreatedReceived
    <2>5. tunnel[p].cause # "live"
      BY <1>1, <1>5 DEF Own, Progress
    <2>6. Own(p)'
      BY <1>1, <1>2, <1>3, <1>5, <2>2, <2>3, <2>4
         DEF Own, Progress, Hooks, Leased, Failures, Creating, Leasing, Deciding
    <2>7. Others(p)
      BY <1>3, <2>3, <2>4 DEF Others
    <2>8. Keeps(p)
      BY <1>2, <1>3, <2>2, <2>3, <2>5 DEF Keeps, Monitoring
    <2>9. /\ tunnel' \in [Starts -> Tunnels] /\ leases' \in SUBSET Leases
          /\ generation = "drained" => leases' = {}
      BY <1>1, <1>3, <2>4 DEF TypeOK, IInv, Ended
    <2> QED BY <1>3, <2>3, <2>6, <2>7, <2>8, <2>9, OwnStep
  <1> QED BY <1>2, <1>4, <1>5

LEMMA FenceStep ==
  ASSUME IInv, NEW p \in Starts, Fence(p)
  PROVE  IInv'
  <1>1. /\ start[p] \in StartRecords /\ tunnel[p] \in Tunnels /\ Own(p)
        /\ leases \in SUBSET Leases /\ TypeOK /\ start[p].caller = "fence"
    BY Records DEF IInv, Fence
  <1>2. PICK c \in {"detach", "reject"} : SetStart(p, [start[p] EXCEPT !.caller = c])
    BY DEF Fence
  <1> DEFINE r == [start[p] EXCEPT !.caller = c]
  <1>3. /\ r \in StartRecords /\ r.caller = c /\ r.created = start[p].created
        /\ r.worker = start[p].worker /\ r.hook = start[p].hook /\ r.cancelled = start[p].cancelled
    BY <1>1, CallerFacts DEF Deciding
  <1>4. /\ start' \in [Starts -> StartRecords]
        /\ start'[p] = r
        /\ \A q \in Starts : q # p => start'[q] = start[q]
    BY <1>1, <1>2, <1>3, StartFacts
  <1>5. leases' = leases \ {<<p, "outer">>} /\ UNCHANGED <<tunnel, manager, generation>>
    BY DEF Fence
  <1>6. close[p].at = None
    BY <1>1, ClosesInCleanup
  <1>7. Own(p)'
    BY <1>1, <1>3, <1>4, <1>5
       DEF Own, Progress, Hooks, Leased, Failures, Creating, Leasing, Deciding
  <1>8. Others(p)
    BY <1>4, <1>5 DEF Others
  <1>9. Keeps(p)
    BY <1>3, <1>4, <1>5, <1>6 DEF Keeps, Monitoring
  <1>10. /\ tunnel' \in [Starts -> Tunnels] /\ leases' \in SUBSET Leases
         /\ generation = "drained" => leases' = {}
    BY <1>1, <1>5 DEF TypeOK, IInv, Ended
  <1> QED BY <1>4, <1>5, <1>7, <1>8, <1>9, <1>10, OwnStep

LEMMA DetachStep ==
  ASSUME IInv, NEW p \in Starts, Detach(p)
  PROVE  IInv'
  <1>1. start[p] \in StartRecords /\ tunnel[p] \in Tunnels /\ Own(p) /\ TypeOK
    BY Records DEF IInv
  <1>2. start[p].caller \in {"detach", "reject"} /\ start[p].created = "session" /\ p \in Resource
    BY <1>1 DEF Detach, Own, Progress, Leased, Deciding
  <1>3. PICK c \in {"cleanup", "accepted"} :
          /\ SetStart(p, [StopHook(start[p]) EXCEPT !.caller = c])
          /\ c = "accepted" => ~start[p].cancelled
    BY DEF Detach
  <1> DEFINE s == StopHook(start[p])
             r == [s EXCEPT !.caller = c]
  <1>4. /\ s \in StartRecords /\ s.worker = start[p].worker /\ s.created = "session"
        /\ s.cancelled = start[p].cancelled
        /\ s.hook = IF start[p].hook = "armed" THEN "off" ELSE start[p].hook
    BY <1>1, <1>2, StopHookFacts
  <1>5. /\ r \in StartRecords /\ r.caller = c /\ r.created = "session"
        /\ r.worker = s.worker /\ r.cancelled = s.cancelled /\ r.hook = s.hook
    BY <1>4, CallerFacts DEF Deciding
  <1>6. start'[p] = r /\ UNCHANGED <<tunnel, manager, registry>>
    BY <1>1, <1>3, <1>5, StartFacts DEF Detach
  <1>7. start[p].hook \in {"off", "armed", "fired"} /\ (start[p].hook = "fired" => start[p].cancelled)
    BY <1>1 DEF StartRecords, Own, Hooks
  <1>8. Hooks(p)'
    BY <1>2, <1>3, <1>4, <1>5, <1>6, <1>7 DEF Hooks
  <1>9. Progress(p)' /\ Leased(p)' /\ Failures(p)'
    BY <1>1, <1>2, <1>4, <1>5, <1>6
       DEF Own, Progress, Leased, Failures, registry, Creating, Leasing, Deciding
  <1>10. close[p].at = None
    BY <1>2, ClosesInCleanup
  <1>11. r.caller # "failed" /\ r.worker = start[p].worker
    BY <1>4, <1>5
  <1> QED BY <1>3, <1>5, <1>6, <1>8, <1>9, <1>10, <1>11, StartMove DEF Own

-----------------------------------------------------------------------------
(* The steps of a tunnel, and of the contexts.                             *)

LEMMA MonitorWakesStep ==
  ASSUME IInv, NEW p \in Starts, MonitorWakes(p)
  PROVE  IInv'
  <1>1. start[p] \in StartRecords /\ tunnel[p] \in Tunnels /\ Own(p) /\ TypeOK
    BY Records DEF IInv
  <1>2. PICK m \in {"stop", "fail"} :
          /\ SetTunnel(p, [tunnel[p] EXCEPT !.monitor = m])
          /\ m = "fail" => Judge(tunnel[p]) = "fail"
    BY DEF MonitorWakes, Judge
  <1> DEFINE t == [tunnel[p] EXCEPT !.monitor = m]
  <1>3. /\ t \in Tunnels /\ t.monitor = m /\ t.id = tunnel[p].id /\ t.cause = tunnel[p].cause
        /\ t.state = tunnel[p].state /\ t.errCh = tunnel[p].errCh
    BY <1>1 DEF Tunnels
  <1>4. tunnel'[p] = t
    BY <1>1, <1>2, <1>3, TunnelFacts
  <1>5. tunnel[p].monitor = "select" /\ UNCHANGED <<start, manager, registry>>
    BY DEF MonitorWakes
  <1>6. m = "fail" => tunnel[p].errCh = "error"
    BY <1>1, <1>2 DEF Judge, Own, Failures
  <1>7. Own(p)'
    BY <1>1, <1>3, <1>4, <1>5, <1>6
       DEF Own, Progress, Hooks, Leased, Failures, registry
  <1> QED BY <1>2, <1>3, <1>5, <1>7, TunnelMove

LEMMA MonitorTransitionsStep ==
  ASSUME IInv, NEW p \in Starts, MonitorTransitions(p)
  PROVE  IInv'
  <1> DEFINE to == IF tunnel[p].monitor = "stop" THEN "STOPPED" ELSE "FAILED"
             u == Transition(tunnel[p], to)
             t == [u EXCEPT !.monitor = "exit"]
  <1>1. start[p] \in StartRecords /\ tunnel[p] \in Tunnels /\ Own(p) /\ TypeOK
    BY Records DEF IInv
  <1>2. /\ u \in Tunnels /\ u.state \in {tunnel[p].state, to} /\ u.cause = tunnel[p].cause
        /\ u.id = tunnel[p].id /\ u.errCh = tunnel[p].errCh
    BY <1>1, TransitionFacts
  <1>3. /\ t \in Tunnels /\ t.monitor = "exit" /\ t.state = u.state /\ t.cause = u.cause
        /\ t.id = u.id /\ t.errCh = u.errCh
    BY <1>2 DEF Tunnels
  <1>4. SetTunnel(p, t) /\ UNCHANGED <<start, manager, registry>>
    BY DEF MonitorTransitions
  <1>5. tunnel'[p] = t
    BY <1>1, <1>3, <1>4, TunnelFacts
  <1>6. tunnel[p].monitor \in {"stop", "fail"}
    BY DEF MonitorTransitions
  <1>7. t.state = "FAILED" => t.errCh = "error"
    BY <1>1, <1>2, <1>3, <1>6 DEF Own, Failures
  <1>8. Own(p)'
    BY <1>1, <1>2, <1>3, <1>4, <1>5, <1>6, <1>7
       DEF Own, Progress, Hooks, Leased, Failures, registry
  <1> QED BY <1>2, <1>3, <1>4, <1>6, <1>8, TunnelMove

LEMMA MonitorExitsStep ==
  ASSUME IInv, NEW p \in Starts, MonitorExits(p)
  PROVE  IInv'
  <1> DEFINE u == Cancel(tunnel[p], "other")
             t == [u EXCEPT !.monitor = "done"]
  <1>1. start[p] \in StartRecords /\ tunnel[p] \in Tunnels /\ Own(p) /\ TypeOK
    BY Records DEF IInv
  <1>2. /\ u \in Tunnels /\ u.state = tunnel[p].state /\ u.id = tunnel[p].id
        /\ u.errCh = tunnel[p].errCh /\ u.cause # "live"
        /\ tunnel[p].cause # "live" => u.cause = tunnel[p].cause
    BY <1>1, CancelFacts
  <1>3. /\ t \in Tunnels /\ t.monitor = "done" /\ t.state = u.state /\ t.cause = u.cause
        /\ t.id = u.id /\ t.errCh = u.errCh
    BY <1>2 DEF Tunnels
  <1>4. SetTunnel(p, t) /\ tunnel[p].monitor = "exit" /\ UNCHANGED <<start, manager, registry>>
    BY DEF MonitorExits
  <1>5. tunnel'[p] = t
    BY <1>1, <1>3, <1>4, TunnelFacts
  <1>6. Own(p)'
    BY <1>1, <1>2, <1>3, <1>4, <1>5
       DEF Own, Progress, Hooks, Leased, Failures, registry, Intentional
  <1> QED BY <1>2, <1>3, <1>4, <1>6, TunnelMove

LEMMA NativeEndsStep ==
  ASSUME IInv, NEW p \in Starts, NativeEnds(p)
  PROVE  IInv'
  <1>1. start[p] \in StartRecords /\ tunnel[p] \in Tunnels /\ Own(p) /\ TypeOK
    BY Records DEF IInv
  <1>2. PICK e \in {"clean", "error", "late"} :
          /\ SetTunnel(p, [tunnel[p] EXCEPT !.errCh = e])
          /\ e = "late" => tunnel[p].cause \in Intentional
    BY DEF NativeEnds
  <1> DEFINE t == [tunnel[p] EXCEPT !.errCh = e]
  <1>3. /\ t \in Tunnels /\ t.errCh = e /\ t.id = tunnel[p].id /\ t.cause = tunnel[p].cause
        /\ t.state = tunnel[p].state /\ t.monitor = tunnel[p].monitor
    BY <1>1 DEF Tunnels
  <1>4. tunnel'[p] = t
    BY <1>1, <1>2, <1>3, TunnelFacts
  <1>5. /\ tunnel[p].errCh = "open" /\ tunnel[p].monitor = "select"
        /\ UNCHANGED <<start, manager, registry>>
    BY DEF NativeEnds
  <1>6. Own(p)'
    BY <1>1, <1>2, <1>3, <1>4, <1>5 DEF Own, Progress, Hooks, Leased, Failures, registry
  <1> QED BY <1>2, <1>3, <1>5, <1>6, TunnelMove

LEMMA RetireReachesStep ==
  ASSUME IInv, NEW p \in Starts, RetireReaches(p)
  PROVE  IInv'
  <1> DEFINE t == Cancel(tunnel[p], "other")
  <1>1. start[p] \in StartRecords /\ tunnel[p] \in Tunnels /\ Own(p) /\ TypeOK
    BY Records DEF IInv
  <1>2. /\ t \in Tunnels /\ t.state = tunnel[p].state /\ t.id = tunnel[p].id
        /\ t.errCh = tunnel[p].errCh /\ t.cause # "live" /\ t.monitor = tunnel[p].monitor
        /\ tunnel[p].cause # "live" => t.cause = tunnel[p].cause
    BY <1>1, CancelFacts
  <1>3. SetTunnel(p, t) /\ UNCHANGED <<start, manager, registry>>
    BY DEF RetireReaches
  <1>4. tunnel'[p] = t
    BY <1>1, <1>2, <1>3, TunnelFacts
  <1>5. Own(p)'
    BY <1>1, <1>2, <1>3, <1>4
       DEF Own, Progress, Hooks, Leased, Failures, registry, Intentional
  <1> QED BY <1>2, <1>3, <1>5, TunnelMove

LEMMA CancelRequestStep ==
  ASSUME IInv, NEW p \in Starts, CancelRequest(p)
  PROVE  IInv'
  <1> DEFINE h == IF start[p].hook = "armed" THEN "fired" ELSE start[p].hook
             r == [start[p] EXCEPT !.cancelled = TRUE, !.hook = h]
  <1>1. start[p] \in StartRecords /\ tunnel[p] \in Tunnels /\ Own(p) /\ TypeOK
    BY Records DEF IInv
  <1>2. /\ r \in StartRecords /\ r.cancelled = TRUE /\ r.hook = h /\ r.caller = start[p].caller
        /\ r.worker = start[p].worker /\ r.created = start[p].created
    BY <1>1 DEF StartRecords
  <1>3. SetStart(p, r) /\ UNCHANGED <<tunnel, manager, registry>>
    BY <1>1 DEF CancelRequest, StartRecords
  <1>4. start'[p] = r
    BY <1>1, <1>2, <1>3, StartFacts
  <1>5. Own(p)'
    BY <1>1, <1>2, <1>3, <1>4 DEF Own, Progress, Hooks, Leased, Failures, registry
  <1> QED BY <1>2, <1>3, <1>5, StartMove

LEMMA HookRunsStep ==
  ASSUME IInv, NEW p \in Starts, HookRuns(p)
  PROVE  IInv'
  <1> DEFINE r == [start[p] EXCEPT !.hook = "off"]
             t == Cancel(tunnel[p], "other")
  <1>1. /\ start[p] \in StartRecords /\ tunnel[p] \in Tunnels /\ Own(p) /\ TypeOK
        /\ leases \in SUBSET Leases
    BY Records DEF IInv
  <1>2. /\ r \in StartRecords /\ r.hook = "off" /\ r.caller = start[p].caller
        /\ r.worker = start[p].worker /\ r.created = start[p].created
        /\ r.cancelled = start[p].cancelled
    BY <1>1 DEF StartRecords
  <1>3. /\ start' \in [Starts -> StartRecords]
        /\ start'[p] = r
        /\ \A q \in Starts : q # p => start'[q] = start[q]
    BY <1>1, <1>2, StartFacts DEF HookRuns
  <1>4. /\ t \in Tunnels /\ t.state = tunnel[p].state /\ t.id = tunnel[p].id
        /\ t.errCh = tunnel[p].errCh /\ t.cause # "live" /\ t.monitor = tunnel[p].monitor
        /\ tunnel[p].cause # "live" => t.cause = tunnel[p].cause
    BY <1>1, CancelFacts
  <1>5. /\ tunnel' \in [Starts -> Tunnels]
        /\ tunnel'[p] = t
        /\ \A q \in Starts : q # p => tunnel'[q] = tunnel[q]
    BY <1>1, <1>4, TunnelFacts DEF HookRuns
  <1>6. UNCHANGED <<manager, registry>>
    BY DEF HookRuns
  <1>7. Own(p)'
    BY <1>1, <1>2, <1>3, <1>4, <1>5, <1>6
       DEF Own, Progress, Hooks, Leased, Failures, registry, Intentional
  <1>8. Others(p)
    BY <1>3, <1>5, <1>6 DEF Others, registry
  <1>9. Keeps(p)
    BY <1>2, <1>3, <1>4, <1>5 DEF Keeps, Monitoring
  <1>10. leases' \in SUBSET Leases /\ (generation = "drained" => leases' = {})
    BY <1>1, <1>6 DEF IInv, Ended, registry
  <1> QED BY <1>3, <1>5, <1>6, <1>7, <1>8, <1>9, <1>10, OwnStep DEF registry

-----------------------------------------------------------------------------
(* The steps on the map and the close calls.                               *)

\* A published session has an ID of its own.
LEMMA PublishedId ==
  ASSUME IInv, NEW p \in Starts, start[p].worker \in {"hold", "done"}, tunnel[p].cause = "live"
  PROVE  tunnel[p].id \in Ids /\ tunnel[p].id # None
  <1>1. start[p] \in StartRecords /\ tunnel[p] \in Tunnels /\ Own(p)
    BY Records
  <1>2. start[p].created = "session"
    BY <1>1 DEF Own, Progress, StartRecords
  <1> QED BY <1>1, <1>2 DEF Own, Progress, Tunnels

\* A close call in progress works on a session.
LEMMA CloseTarget ==
  ASSUME IInv, NEW c \in Closers \cup Starts
  PROVE  /\ close[c].pc = "idle" => close[c] = NoClose
         /\ close[c].pc # "idle" => close[c] \in [pc : {"cancel", "stop"}, at : Starts]
  BY DEF IInv, TypeOK, NoClose

LEMMA PublishSessionStep ==
  ASSUME IInv, NEW p \in Starts, PublishSession(p)
  PROVE  IInv'
  <1> DEFINE r == [start[p] EXCEPT !.worker = Settled(p), !.created = "session"]
             t == [tunnel[p] EXCEPT !.state = "ACTIVE", !.monitor = "select"]
             i == tunnel[p].id
  <1>1. /\ start[p] \in StartRecords /\ tunnel[p] \in Tunnels /\ Own(p) /\ TypeOK
        /\ start[p].worker = "publish"
    BY Records DEF IInv, PublishSession, Working
  <1>2. CASE Fail(p)
    BY <1>1, <1>2, FailStep DEF Creating
  <1>3. CASE ~stopped /\ sessions[i] = None /\ Publish(p)
    <2>0. Settled(p) \in {"hold", "done"} /\ (p \in Resource <=> Settled(p) = "hold")
      BY DEF Settled
    <2>1. /\ r \in StartRecords /\ r.worker = Settled(p) /\ r.created = "session"
          /\ r.caller = start[p].caller /\ r.hook = start[p].hook
          /\ r.cancelled = start[p].cancelled
      BY <1>1, <2>0, ReportFacts
    <2>2. /\ start' \in [Starts -> StartRecords]
          /\ start'[p] = r
          /\ \A q \in Starts : q # p => start'[q] = start[q]
      BY <1>1, <1>3, <2>1, StartFacts DEF Publish
    <2>3. /\ t \in Tunnels /\ t.id = i /\ t.cause = tunnel[p].cause /\ t.state = "ACTIVE"
          /\ t.errCh = tunnel[p].errCh /\ t.monitor = "select"
      BY <1>1 DEF Tunnels
    <2>4. /\ tunnel' \in [Starts -> Tunnels]
          /\ tunnel'[p] = t
          /\ \A q \in Starts : q # p => tunnel'[q] = tunnel[q]
      BY <1>1, <1>3, <2>3, TunnelFacts DEF Publish
    <2>5. i \in Ids /\ i # None
      BY <1>1 DEF Own, Progress, Tunnels
    <2>6. /\ sessions' \in [Ids -> Starts \cup {None}]
          /\ sessions'[i] = p
          /\ \A j \in Ids : j # i => sessions'[j] = sessions[j]
      BY <1>1, <1>3, <2>5 DEF TypeOK, Publish
    <2>7. UNCHANGED <<close, stopped, stopAll, generation, leases>>
      BY <1>3 DEF Publish, registry
    <2>8. TypeOK'
      BY <1>1, <2>2, <2>4, <2>6, <2>7 DEF TypeOK
    <2>9. /\ start[p].created = "none" /\ tunnel[p].monitor = "none"
          /\ start[p].caller \notin Deciding \cup {"accepted", "idle"}
      BY <1>1 DEF Own, Progress, Creating
    <2>10. ASSUME NEW q \in Starts
           PROVE  Own(q)'
      <3>1. CASE q = p
        <4>1. Progress(p)'
          BY <2>0, <2>1, <2>2, <2>3, <2>4, <2>5, <2>9 DEF Progress, Creating
        <4>2. Hooks(p)'
          BY <1>1, <2>0, <2>1, <2>2, <2>9 DEF Own, Hooks
        <4>3. Leased(p)'
          BY <1>1, <2>0, <2>1, <2>2, <2>7, <2>9 DEF Own, Leased, Leasing
        <4>4. Failures(p)'
          BY <1>1, <2>3, <2>4 DEF Own, Failures
        <4> QED BY <3>1, <4>1, <4>2, <4>3, <4>4 DEF Own
      <3>2. CASE q # p
        BY <2>2, <2>4, <2>7, <3>2 DEF IInv, Own, Progress, Hooks, Leased, Failures
      <3> QED BY <3>1, <3>2
    <2>11. Entries'
      <3>1. ASSUME NEW j \in Ids, sessions'[j] # None
            PROVE  tunnel'[sessions'[j]].id = j /\ tunnel'[sessions'[j]].monitor # "none"
        <4>1. CASE j = i
          BY <2>3, <2>4, <2>6, <4>1
        <4>2. CASE j # i
          <5>1. sessions'[j] = sessions[j] /\ sessions[j] \in Starts
            BY <1>1, <2>6, <3>1, <4>2 DEF TypeOK
          <5>2. tunnel[sessions[j]].id = j /\ tunnel[sessions[j]].monitor # "none"
            BY <3>1, <5>1 DEF IInv, Entries
          <5> QED BY <2>4, <2>9, <5>1, <5>2
        <4> QED BY <4>1, <4>2
      <3>2. \A c \in Closers \cup Starts : close[c].at # None => tunnel'[close[c].at].monitor # "none"
        <4>1. ASSUME NEW c \in Closers \cup Starts, close[c].at # None
              PROVE  close[c].at \in Starts /\ tunnel[close[c].at].monitor # "none"
          BY <4>1, CloseTarget DEF IInv, Entries, NoClose
        <4> QED BY <2>3, <2>4, <4>1
      <3>3. \A q \in Starts : close[q].at # None =>
              start'[q].caller = "cleanup" /\ sessions'[tunnel'[q].id] # q
        <4>1. ASSUME NEW q \in Starts, close[q].at # None
              PROVE  start[q].caller = "cleanup" /\ sessions[tunnel[q].id] # q
          BY <4>1 DEF IInv, Entries
        <4>2. ASSUME NEW q \in Starts, close[q].at # None
              PROVE  q # p /\ tunnel[q].id \in Ids
          <5>1. q # p
            BY <2>9, <4>1, <4>2 DEF Deciding
          <5>2. tunnel[q] \in Tunnels /\ Own(q)
            BY Records
          <5>3. tunnel[q].id # None
            BY <4>1, <4>2, <5>2 DEF Own, Progress, Deciding
          <5> QED BY <5>1, <5>2, <5>3 DEF Tunnels
        <4> QED BY <2>2, <2>4, <2>6, <4>1, <4>2
      <3> QED BY <2>7, <3>1, <3>2, <3>3 DEF Entries
    <2>12. Ended'
      BY <1>3, <2>7 DEF IInv, Ended
    <2>13. \A q \in Starts : BeingClosed(q)' <=> BeingClosed(q)
      BY <2>7 DEF BeingClosed
    <2>14. NoOrphanTunnel'
      <3>1. ASSUME NEW q \in Starts, q # p,
                   start[q].worker \in {"hold", "done"}, tunnel[q].cause = "live"
            PROVE  sessions'[tunnel[q].id] = q \/ BeingClosed(q)
        <4>1. sessions[tunnel[q].id] = q \/ BeingClosed(q)
          BY <3>1 DEF IInv, NoOrphanTunnel
        <4>2. tunnel[q].id \in Ids /\ q # None
          BY <3>1, PublishedId, ForwardAssumption
        <4> QED BY <1>3, <2>6, <4>1, <4>2
      <3>2. sessions'[tunnel'[p].id] = p
        BY <2>3, <2>4, <2>6
      <3>3. ASSUME NEW q \in Starts, q # p,
                   start'[q].worker \in {"hold", "done"}, tunnel'[q].cause = "live"
            PROVE  sessions'[tunnel'[q].id] = q \/ BeingClosed(q)'
        BY <2>2, <2>4, <2>13, <3>1, <3>3
      <3> QED BY <3>2, <3>3 DEF NoOrphanTunnel
    <2>15. FailedStartLeavesNoTunnel'
      <3>1. ASSUME NEW q \in Starts, start'[q].caller = "failed", start'[q].worker # "none"
            PROVE  tunnel'[q].cause # "live" \/ BeingClosed(q)'
        <4>1. start[q].caller = "failed" /\ start[q].worker # "none"
          BY <1>1, <2>1, <2>2, <3>1
        <4>2. tunnel'[q].cause = tunnel[q].cause
          BY <2>3, <2>4
        <4> QED BY <2>13, <4>1, <4>2 DEF IInv, FailedStartLeavesNoTunnel
      <3> QED BY <3>1 DEF FailedStartLeavesNoTunnel
    <2> QED BY <2>8, <2>10, <2>11, <2>12, <2>14, <2>15 DEF IInv
  <1> QED BY <1>2, <1>3 DEF PublishSession

LEMMA TakeStep ==
  ASSUME IInv, NEW c \in Closers \cup Starts, NEW i \in Ids, close[c].pc = "idle", Take(c, i),
         c \in Starts => start[c].caller = "cleanup" /\ tunnel[c].id = i,
         UNCHANGED <<start, tunnel, stopped, stopAll, registry>>
  PROVE  IInv'
  <1>0. PICK q \in Starts : q = sessions[i]
    BY DEF IInv, TypeOK, Take
  <1>1. TypeOK
    BY DEF IInv
  <1>2. /\ \A d \in Closers \cup Starts : d # c => close'[d] = close[d]
        /\ close'[c] = [pc |-> "cancel", at |-> q]
        /\ close' \in [Closers \cup Starts -> {NoClose} \cup [pc : {"cancel", "stop"}, at : Starts]]
    BY <1>0, <1>1 DEF TypeOK, Take
  <1>3. /\ sessions' \in [Ids -> Starts \cup {None}]
        /\ sessions'[i] = None
        /\ \A j \in Ids : j # i => sessions'[j] = sessions[j]
    BY <1>1 DEF TypeOK, Take
  <1>4. TypeOK'
    BY <1>1, <1>2, <1>3 DEF TypeOK, registry
  <1>5. ASSUME NEW p \in Starts
        PROVE  Own(p)'
    <2>1. Own(p) /\ UNCHANGED <<start, tunnel, leases>>
      BY DEF IInv, registry
    <2> QED BY <2>1 DEF Own, Progress, Hooks, Leased, Failures
  <1>6. ASSUME NEW p \in Starts, BeingClosed(p)
        PROVE  BeingClosed(p)'
    <2>1. PICK d \in Closers \cup Starts : close[d] = [pc |-> "cancel", at |-> p]
      BY <1>6 DEF BeingClosed
    <2>2. d # c
      BY <2>1
    <2> QED BY <1>2, <2>1, <2>2 DEF BeingClosed
  <1>7. BeingClosed(q)'
    BY <1>2 DEF BeingClosed
  <1>8. Entries'
    <2>1. \A j \in Ids : sessions'[j] # None => sessions'[j] = sessions[j]
      BY <1>3
    <2>2. tunnel[q].monitor # "none"
      BY <1>0, ForwardAssumption DEF IInv, Entries
    <2>3. \A p \in Starts : p # c /\ close[p].at # None => tunnel[p].id \in Ids
      <3>1. ASSUME NEW p \in Starts, close[p].at # None
            PROVE  tunnel[p] \in Tunnels /\ Own(p) /\ start[p].caller = "cleanup"
        BY <3>1, Records DEF IInv, Entries
      <3> QED BY <3>1 DEF Own, Progress, Deciding, Tunnels
    <2>4. \A p \in Starts : close'[p].at # None =>
            start[p].caller = "cleanup" /\ sessions'[tunnel[p].id] # p
      <3>1. ASSUME NEW p \in Starts, p = c
            PROVE  start[p].caller = "cleanup" /\ sessions'[tunnel[p].id] # p
        BY <1>3, <3>1, ForwardAssumption
      <3>2. ASSUME NEW p \in Starts, p # c, close'[p].at # None
            PROVE  start[p].caller = "cleanup" /\ sessions'[tunnel[p].id] # p
        <4>1. close[p].at # None
          BY <1>2, <3>2
        <4>2. start[p].caller = "cleanup" /\ sessions[tunnel[p].id] # p
          BY <4>1 DEF IInv, Entries
        <4> QED BY <1>3, <2>3, <3>2, <4>1, <4>2, ForwardAssumption
      <3> QED BY <3>1, <3>2
    <2>5. \A d \in Closers \cup Starts : close'[d].at # None => tunnel[close'[d].at].monitor # "none"
      BY <1>2, <2>2 DEF IInv, Entries
    <2> QED BY <2>1, <2>4, <2>5 DEF IInv, Entries
  <1>9. Ended'
    BY <1>3 DEF IInv, Ended, registry, Monitoring
  <1>10. NoOrphanTunnel'
    <2>1. ASSUME NEW p \in Starts, start[p].worker \in {"hold", "done"}, tunnel[p].cause = "live"
          PROVE  sessions'[tunnel[p].id] = p \/ BeingClosed(p)'
      <3>1. sessions[tunnel[p].id] = p \/ BeingClosed(p)
        BY <2>1 DEF IInv, NoOrphanTunnel
      <3>2. tunnel[p].id \in Ids
        BY <2>1, PublishedId
      <3> QED BY <1>0, <1>3, <1>6, <1>7, <3>1, <3>2
    <2> QED BY <2>1 DEF NoOrphanTunnel
  <1>11. FailedStartLeavesNoTunnel'
    BY <1>6 DEF IInv, FailedStartLeavesNoTunnel
  <1> QED BY <1>4, <1>5, <1>8, <1>9, <1>10, <1>11 DEF IInv

LEMMA CloseLookupStep ==
  ASSUME IInv, NEW c \in Closers, NEW i \in Ids, CloseLookup(c, i)
  PROVE  IInv'
  <1>1. c \in Closers \cup Starts /\ c \notin Starts
    BY ForwardAssumption
  <1> QED BY <1>1, TakeStep DEF CloseLookup

LEMMA CleanupStep ==
  ASSUME IInv, NEW p \in Starts, Cleanup(p)
  PROVE  IInv'
  <1>1. start[p] \in StartRecords /\ tunnel[p] \in Tunnels /\ Own(p) /\ TypeOK
    BY Records DEF IInv
  <1>2. start[p].caller = "cleanup" /\ close[p].pc = "idle" /\ start[p].created = "session"
    BY <1>1 DEF Cleanup, Own, Progress, Deciding
  <1>3. tunnel[p].id \in Ids
    BY <1>1, <1>2 DEF Own, Progress, Tunnels
  <1>4. CASE sessions[tunnel[p].id] # None
    BY <1>2, <1>3, <1>4, TakeStep DEF Cleanup
  <1>5. CASE sessions[tunnel[p].id] = None
    <2> DEFINE r == [start[p] EXCEPT !.caller = "failed"]
    <2>1. /\ r \in StartRecords /\ r.caller = "failed" /\ r.created = start[p].created
          /\ r.worker = start[p].worker /\ r.hook = start[p].hook /\ r.cancelled = start[p].cancelled
      BY <1>1, CallerFacts
    <2>2. SetStart(p, r) /\ UNCHANGED <<tunnel, manager, registry>>
      BY <1>5 DEF Cleanup, manager
    <2>3. start'[p] = r
      BY <1>1, <2>1, <2>2, StartFacts
    <2>4. close[p].at = None
      BY <1>2, CloseTarget DEF NoClose
    <2>5. start[p].worker \in {"hold", "done"}
      BY <1>1, <1>2 DEF Own, Progress, Creating, StartRecords
    <2>6. tunnel[p].cause = "live" => BeingClosed(p)
      BY <1>5, <2>5, ForwardAssumption DEF IInv, NoOrphanTunnel
    <2>7. Own(p)'
      BY <1>1, <1>2, <2>1, <2>2, <2>3
         DEF Own, Progress, Hooks, Leased, Failures, registry, Creating, Leasing, Deciding
    <2> QED BY <2>1, <2>2, <2>4, <2>5, <2>6, <2>7, StartMove
  <1> QED BY <1>4, <1>5

LEMMA CloseCancelStep ==
  ASSUME IInv, NEW c \in Closers \cup Starts, CloseCancel(c)
  PROVE  IInv'
  <1>1. PICK q \in Starts : q = close[c].at
    BY CloseTarget DEF CloseCancel
  <1> DEFINE t == Cancel(tunnel[q], "closed")
  <1>2. start[q] \in StartRecords /\ tunnel[q] \in Tunnels /\ Own(q) /\ TypeOK
    BY Records DEF IInv
  <1>3. /\ t \in Tunnels /\ t.state = tunnel[q].state /\ t.id = tunnel[q].id
        /\ t.errCh = tunnel[q].errCh /\ t.cause # "live" /\ t.monitor = tunnel[q].monitor
        /\ tunnel[q].cause # "live" => t.cause = tunnel[q].cause
    BY <1>2, CancelFacts
  <1>4. /\ SetTunnel(q, t) /\ close' = [close EXCEPT ![c].pc = "stop"]
        /\ UNCHANGED <<start, sessions, stopped, stopAll, generation, leases>>
    BY <1>1 DEF CloseCancel, registry
  <1>5. /\ tunnel' \in [Starts -> Tunnels]
        /\ tunnel'[q] = t
        /\ \A p \in Starts : p # q => tunnel'[p] = tunnel[p]
    BY <1>2, <1>3, <1>4, TunnelFacts
  <1>6. close[c] \in [pc : {"cancel", "stop"}, at : Starts] /\ close[c].pc = "cancel"
    BY CloseTarget DEF CloseCancel
  <1>7. /\ close'[c] = [pc |-> "stop", at |-> q]
        /\ \A d \in Closers \cup Starts : d # c => close'[d] = close[d]
        /\ close' \in [Closers \cup Starts -> {NoClose} \cup [pc : {"cancel", "stop"}, at : Starts]]
    BY <1>1, <1>2, <1>4, <1>6 DEF TypeOK
  <1>8. TypeOK'
    BY <1>2, <1>4, <1>5, <1>7 DEF TypeOK
  <1>9. ASSUME NEW p \in Starts
        PROVE  Own(p)'
    <2>1. CASE p = q
      BY <1>2, <1>3, <1>4, <1>5, <2>1 DEF Own, Progress, Hooks, Leased, Failures, Intentional
    <2>2. CASE p # q
      BY <1>4, <1>5, <2>2 DEF IInv, Own, Progress, Hooks, Leased, Failures
    <2> QED BY <2>1, <2>2
  <1>10. /\ \A p \in Starts : tunnel'[p].id = tunnel[p].id /\ tunnel'[p].monitor = tunnel[p].monitor
         /\ \A d \in Closers \cup Starts : close'[d].at = close[d].at
    BY <1>1, <1>3, <1>5, <1>7
  <1>11. Entries'
    <2>1. \A i \in Ids : sessions[i] # None => sessions[i] \in Starts
      BY <1>2 DEF TypeOK
    <2>2. \A d \in Closers \cup Starts : close[d].at # None => close[d].at \in Starts
      BY <1>2 DEF TypeOK, NoClose
    <2> QED BY <1>4, <1>10, <2>1, <2>2 DEF IInv, Entries
  <1>12. Ended'
    BY <1>4, <1>10 DEF IInv, Ended, Monitoring
  <1>13. ASSUME NEW p \in Starts, p # q, BeingClosed(p)
         PROVE  BeingClosed(p)'
    <2>1. PICK d \in Closers \cup Starts : close[d] = [pc |-> "cancel", at |-> p]
      BY <1>13 DEF BeingClosed
    <2>2. d # c
      BY <1>1, <1>13, <2>1
    <2> QED BY <1>7, <2>1, <2>2 DEF BeingClosed
  <1>14. NoOrphanTunnel' /\ FailedStartLeavesNoTunnel'
    <2>1. ASSUME NEW p \in Starts, tunnel'[p].cause = "live"
          PROVE  p # q /\ tunnel'[p] = tunnel[p]
      BY <1>3, <1>5, <2>1
    <2> QED BY <1>4, <1>13, <2>1 DEF IInv, NoOrphanTunnel, FailedStartLeavesNoTunnel
  <1> QED BY <1>8, <1>9, <1>11, <1>12, <1>14 DEF IInv

LEMMA CloseReturnStep ==
  ASSUME IInv, NEW c \in Closers \cup Starts, CloseReturn(c)
  PROVE  IInv'
  <1>1. PICK q \in Starts : q = close[c].at
    BY CloseTarget DEF CloseReturn
  <1> DEFINE t == Transition(tunnel[q], "STOPPED")
  <1>2. start[q] \in StartRecords /\ tunnel[q] \in Tunnels /\ Own(q) /\ TypeOK
    BY Records DEF IInv
  <1>3. /\ t \in Tunnels /\ t.state \in {tunnel[q].state, "STOPPED"} /\ t.id = tunnel[q].id
        /\ t.errCh = tunnel[q].errCh /\ t.cause = tunnel[q].cause /\ t.monitor = tunnel[q].monitor
    BY <1>2, TransitionFacts
  <1>4. /\ SetTunnel(q, t) /\ close' = [close EXCEPT ![c] = NoClose]
        /\ UNCHANGED <<sessions, stopped, stopAll, generation, leases>>
    BY <1>1 DEF CloseReturn, registry
  <1>5. /\ tunnel' \in [Starts -> Tunnels]
        /\ tunnel'[q] = t
        /\ \A p \in Starts : p # q => tunnel'[p] = tunnel[p]
    BY <1>2, <1>3, <1>4, TunnelFacts
  <1>6. close[c] \in [pc : {"cancel", "stop"}, at : Starts] /\ close[c].pc = "stop"
    BY CloseTarget DEF CloseReturn
  <1>7. /\ close'[c] = NoClose
        /\ \A d \in Closers \cup Starts : d # c => close'[d] = close[d]
        /\ close' \in [Closers \cup Starts -> {NoClose} \cup [pc : {"cancel", "stop"}, at : Starts]]
    BY <1>2, <1>4 DEF TypeOK
  <1>8. /\ start' \in [Starts -> StartRecords]
        /\ \A p \in Starts : p # c => start'[p] = start[p]
        /\ c \in Starts =>
             /\ start[c] \in StartRecords /\ start[c].caller = "cleanup"
             /\ start'[c].caller = "failed" /\ start'[c].worker = start[c].worker
             /\ start'[c].created = start[c].created /\ start'[c].hook = start[c].hook
             /\ start'[c].cancelled = start[c].cancelled
    <2>1. CASE c \in Starts
      <3> DEFINE r == [start[c] EXCEPT !.caller = "failed"]
      <3>1. start[c] \in StartRecords /\ start[c].caller = "cleanup"
        BY <1>1, <2>1, Records, ForwardAssumption DEF IInv, Entries
      <3>2. /\ r \in StartRecords /\ r.caller = "failed" /\ r.created = start[c].created
            /\ r.worker = start[c].worker /\ r.hook = start[c].hook
            /\ r.cancelled = start[c].cancelled
        BY <3>1, CallerFacts
      <3>3. /\ start' \in [Starts -> StartRecords]
            /\ start'[c] = r
            /\ \A p \in Starts : p # c => start'[p] = start[p]
        BY <1>2, <2>1, <3>2, StartFacts DEF CloseReturn
      <3> QED BY <3>1, <3>2, <3>3
    <2>2. CASE c \notin Starts
      BY <1>2, <2>2 DEF CloseReturn, TypeOK
    <2> QED BY <2>1, <2>2
  <1>9. TypeOK'
    BY <1>2, <1>4, <1>5, <1>7, <1>8 DEF TypeOK
  <1>10. \A p \in Starts : /\ tunnel'[p].id = tunnel[p].id /\ tunnel'[p].monitor = tunnel[p].monitor
                           /\ tunnel'[p].cause = tunnel[p].cause /\ tunnel'[p].errCh = tunnel[p].errCh
                           /\ tunnel'[p].state \in {tunnel[p].state, "STOPPED"}
    BY <1>3, <1>5
  <1>11. ASSUME NEW p \in Starts
         PROVE  Own(p)'
    <2>1. Own(p)
      BY DEF IInv
    <2>2. CASE p = c
      BY <1>4, <1>8, <1>10, <2>1, <2>2
         DEF Own, Progress, Hooks, Leased, Failures, Creating, Leasing, Deciding
    <2>3. CASE p # c
      BY <1>4, <1>8, <1>10, <2>1, <2>3 DEF Own, Progress, Hooks, Leased, Failures
    <2> QED BY <2>2, <2>3
  <1>12. Entries'
    <2>1. \A i \in Ids : sessions[i] # None => sessions[i] \in Starts
      BY <1>2 DEF TypeOK
    <2>2. \A d \in Closers \cup Starts : close'[d].at # None =>
            d # c /\ close'[d] = close[d] /\ close[d].at \in Starts
      BY <1>2, <1>7 DEF TypeOK, NoClose
    <2> QED BY <1>4, <1>8, <1>10, <2>1, <2>2 DEF IInv, Entries
  <1>13. Ended'
    BY <1>4, <1>10 DEF IInv, Ended, Monitoring
  <1>14. ASSUME NEW p \in Starts, BeingClosed(p)
         PROVE  BeingClosed(p)'
    <2>1. PICK d \in Closers \cup Starts : close[d] = [pc |-> "cancel", at |-> p]
      BY <1>14 DEF BeingClosed
    <2>2. d # c
      BY <1>6, <2>1
    <2> QED BY <1>7, <2>1, <2>2 DEF BeingClosed
  <1>15. NoOrphanTunnel'
    <2>1. \A p \in Starts : start'[p].worker = start[p].worker
      BY <1>8
    <2> QED BY <1>4, <1>10, <1>14, <2>1 DEF IInv, NoOrphanTunnel
  <1>16. FailedStartLeavesNoTunnel'
    <2>1. ASSUME NEW p \in Starts, p = c, tunnel[p].cause = "live"
          PROVE  BeingClosed(p)
      <3>1. Own(p) /\ start[p] \in StartRecords /\ start[p].caller = "cleanup"
        BY <1>8, <2>1 DEF IInv
      <3>2. start[p].worker \in {"hold", "done"}
        BY <3>1 DEF Own, Progress, Creating, Deciding, StartRecords
      <3>3. sessions[tunnel[p].id] # p
        BY <1>1, <2>1, ForwardAssumption DEF IInv, Entries
      <3> QED BY <2>1, <3>2, <3>3 DEF IInv, NoOrphanTunnel
    <2>2. ASSUME NEW p \in Starts, start'[p].caller = "failed", start'[p].worker # "none"
          PROVE  tunnel'[p].cause # "live" \/ BeingClosed(p)'
      <3>1. CASE p = c
        BY <1>10, <1>14, <2>1, <3>1
      <3>2. CASE p # c
        BY <1>8, <1>10, <1>14, <2>2, <3>2 DEF IInv, FailedStartLeavesNoTunnel
      <3> QED BY <3>1, <3>2
    <2> QED BY <2>2 DEF FailedStartLeavesNoTunnel
  <1> QED BY <1>9, <1>11, <1>12, <1>13, <1>15, <1>16 DEF IInv

LEMMA StopAllStep ==
  ASSUME IInv, StopAll
  PROVE  IInv'
  <1>1. /\ TypeOK /\ stopped' = TRUE /\ stopAll' = "waiting"
        /\ sessions' = [i \in Ids |-> None]
        /\ UNCHANGED <<start, close, generation, leases>>
    BY DEF StopAll, IInv, registry
  <1>2. ASSUME NEW p \in Starts
        PROVE  /\ tunnel'[p] \in Tunnels
               /\ tunnel'[p].id = tunnel[p].id /\ tunnel'[p].monitor = tunnel[p].monitor
               /\ tunnel'[p].errCh = tunnel[p].errCh
               /\ tunnel'[p].state \in {tunnel[p].state, "STOPPED"}
               /\ tunnel[p].cause # "live" => tunnel'[p].cause = tunnel[p].cause
               /\ p \in Registered => tunnel'[p].cause # "live"
    <2>1. tunnel[p] \in Tunnels
      BY <1>1 DEF TypeOK
    <2>2. CASE p \in Registered
      <3> DEFINE k == Cancel(tunnel[p], "stopped")
      <3>1. /\ k \in Tunnels /\ k.cause = (IF tunnel[p].cause = "live" THEN "stopped" ELSE tunnel[p].cause)
            /\ k.id = tunnel[p].id /\ k.state = tunnel[p].state
            /\ k.errCh = tunnel[p].errCh /\ k.monitor = tunnel[p].monitor
        BY <2>1, CancelFacts
      <3>2. tunnel'[p] = Transition(k, "STOPPED")
        BY <2>2 DEF StopAll
      <3> HIDE DEF k
      <3>3. /\ Transition(k, "STOPPED") \in Tunnels
            /\ Transition(k, "STOPPED").state \in {k.state, "STOPPED"}
            /\ Transition(k, "STOPPED").cause = k.cause
            /\ Transition(k, "STOPPED").id = k.id
            /\ Transition(k, "STOPPED").errCh = k.errCh
            /\ Transition(k, "STOPPED").monitor = k.monitor
        BY <3>1, TransitionFacts
      <3> QED BY <3>1, <3>2, <3>3
    <2>3. CASE p \notin Registered
      BY <2>1, <2>3 DEF StopAll
    <2> QED BY <2>2, <2>3
  <1>3. tunnel' \in [Starts -> Tunnels]
    <2>1. tunnel' = [p \in Starts |-> tunnel'[p]]
      BY DEF StopAll
    <2> QED BY <1>2, <2>1
  <1>4. TypeOK'
    BY <1>1, <1>3 DEF TypeOK
  <1>5. ASSUME NEW p \in Starts
        PROVE  Own(p)'
    <2>1. Own(p) /\ tunnel[p] \in Tunnels
      BY <1>1 DEF IInv, TypeOK
    <2>2. tunnel[p].cause \in Intentional => tunnel'[p].cause \in Intentional
      BY <1>2 DEF Intentional
    <2> QED BY <1>1, <1>2, <2>1, <2>2 DEF Own, Progress, Hooks, Leased, Failures
  <1>6. Entries'
    <2>1. \A d \in Closers \cup Starts : close[d].at # None => close[d].at \in Starts
      BY <1>1 DEF TypeOK, NoClose
    <2>2. \A p \in Starts : close[p].at # None => tunnel[p].id \in Ids
      <3>1. ASSUME NEW p \in Starts, close[p].at # None
            PROVE  tunnel[p] \in Tunnels /\ Own(p) /\ start[p].caller = "cleanup"
        BY <3>1, Records DEF IInv, Entries
      <3> QED BY <3>1 DEF Own, Progress, Deciding, Tunnels
    <2> QED BY <1>1, <1>2, <2>1, <2>2, ForwardAssumption DEF IInv, Entries
  <1>7. Ended'
    BY <1>1 DEF IInv, Ended
  <1>8. \A p \in Starts : BeingClosed(p)' <=> BeingClosed(p)
    BY <1>1 DEF BeingClosed
  <1>9. NoOrphanTunnel'
    <2>1. ASSUME NEW p \in Starts, start[p].worker \in {"hold", "done"}, tunnel'[p].cause = "live"
          PROVE  BeingClosed(p)
      <3>1. tunnel[p].cause = "live" /\ p \notin Registered
        BY <1>2, <2>1
      <3>2. tunnel[p].id \in Ids
        BY <2>1, <3>1, PublishedId
      <3>3. sessions[tunnel[p].id] # p
        BY <3>1, <3>2, ForwardAssumption DEF Registered
      <3> QED BY <2>1, <3>1, <3>3 DEF IInv, NoOrphanTunnel
    <2> QED BY <1>1, <1>8, <2>1 DEF NoOrphanTunnel
  <1>10. FailedStartLeavesNoTunnel'
    BY <1>1, <1>2, <1>8 DEF IInv, FailedStartLeavesNoTunnel
  <1> QED BY <1>4, <1>5, <1>6, <1>7, <1>9, <1>10 DEF IInv

LEMMA StopAllReturnStep ==
  ASSUME IInv, StopAllReturn
  PROVE  IInv'
  <1>1. UNCHANGED <<start, tunnel, close, sessions, stopped, generation, leases>>
    BY DEF StopAllReturn, registry
  <1>2. TypeOK'
    BY <1>1 DEF IInv, TypeOK, StopAllReturn
  <1>3. ASSUME NEW p \in Starts
        PROVE  Own(p)'
    <2>1. Own(p)
      BY DEF IInv
    <2> QED BY <1>1, <2>1 DEF Own, Progress, Hooks, Leased, Failures
  <1>4. Entries'
    BY <1>1 DEF IInv, Entries
  <1>5. Ended'
    BY <1>1 DEF IInv, Ended, StopAllReturn, Monitoring
  <1>6. NoOrphanTunnel' /\ FailedStartLeavesNoTunnel'
    BY <1>1 DEF IInv, NoOrphanTunnel, FailedStartLeavesNoTunnel, BeingClosed
  <1> QED BY <1>2, <1>3, <1>4, <1>5, <1>6 DEF IInv

\* The steps of the generation.
LEMMA GenerationStep ==
  ASSUME IInv, Retire \/ Drained
  PROVE  IInv'
  <1>1. UNCHANGED <<start, tunnel, close, sessions, stopped, stopAll, leases>>
    BY DEF Retire, Drained, manager
  <1>2. /\ generation' \in {"live", "stopping", "drained"}
        /\ generation' = "drained" => leases = {}
    BY DEF Retire, Drained
  <1>3. TypeOK'
    BY <1>1, <1>2 DEF IInv, TypeOK
  <1>4. ASSUME NEW p \in Starts
        PROVE  Own(p)'
    <2>1. Own(p)
      BY DEF IInv
    <2> QED BY <1>1, <2>1 DEF Own, Progress, Hooks, Leased, Failures
  <1>5. Entries' /\ Ended'
    BY <1>1, <1>2 DEF IInv, Entries, Ended, Monitoring
  <1>6. NoOrphanTunnel' /\ FailedStartLeavesNoTunnel'
    BY <1>1 DEF IInv, NoOrphanTunnel, FailedStartLeavesNoTunnel, BeingClosed
  <1> QED BY <1>3, <1>4, <1>5, <1>6 DEF IInv

-----------------------------------------------------------------------------
(* The invariant holds.                                                    *)

LEMMA InitIInv == Init => IInv
  <1> SUFFICES ASSUME Init PROVE IInv
    OBVIOUS
  <1> DEFINE s == [caller |-> "idle", worker |-> "none", created |-> "none",
                   cancelled |-> FALSE, hook |-> "off"]
             t == [id |-> None, cause |-> "live", state |-> "none",
                   errCh |-> "open", monitor |-> "none"]
  <1>1. s \in StartRecords /\ t \in Tunnels
    BY DEF StartRecords, Tunnels
  <1>2. \A p \in Starts : start[p] = s /\ tunnel[p] = t /\ close[p] = NoClose
    BY DEF Init
  <1>3. TypeOK
    BY <1>1 DEF Init, TypeOK, NoClose
  <1>4. ASSUME NEW p \in Starts
        PROVE  Own(p)
    <2>1. leases = {}
      BY DEF Init
    <2> QED BY <1>2, <2>1
            DEF Own, Progress, Hooks, Leased, Failures, Creating, Leasing, Deciding
  <1>5. Entries
    <2>1. /\ \A i \in Ids : sessions[i] = None
          /\ \A c \in Closers \cup Starts : close[c].at = None
      BY DEF Init, NoClose
    <2> QED BY <2>1 DEF Entries
  <1>6. Ended
    BY DEF Init, Ended
  <1>7. NoOrphanTunnel /\ FailedStartLeavesNoTunnel
    BY <1>2 DEF NoOrphanTunnel, FailedStartLeavesNoTunnel
  <1> QED BY <1>3, <1>4, <1>5, <1>6, <1>7 DEF IInv

LEMMA StutterIInv ==
  ASSUME IInv, UNCHANGED vars
  PROVE  IInv'
  <1>1. UNCHANGED <<start, tunnel, close, sessions, stopped, stopAll, generation, leases>>
    BY DEF vars
  <1>2. TypeOK' /\ Entries' /\ Ended'
    BY <1>1 DEF IInv, TypeOK, Entries, Ended, Monitoring
  <1>3. ASSUME NEW p \in Starts
        PROVE  Own(p)'
    <2>1. Own(p)
      BY DEF IInv
    <2> QED BY <1>1, <2>1 DEF Own, Progress, Hooks, Leased, Failures
  <1>4. NoOrphanTunnel' /\ FailedStartLeavesNoTunnel'
    BY <1>1 DEF IInv, NoOrphanTunnel, FailedStartLeavesNoTunnel, BeingClosed
  <1> QED BY <1>2, <1>3, <1>4 DEF IInv

LEMMA StepIInv == IInv /\ [Next]_vars => IInv'
  <1> SUFFICES ASSUME IInv, [Next]_vars PROVE IInv'
    OBVIOUS
  <1>1. ASSUME NEW p \in Starts, Enter(p)
        PROVE  IInv'
    BY <1>1, StartPortForwardSessionStep, StartResourcePortForwardSessionStep DEF Enter
  <1>2. ASSUME NEW p \in Starts, Work(p)
        PROVE  IInv'
    BY <1>2, WorkerLeaseStep, BeginStep, ForwarderReturnsStep, WaitForwarderReadyStep,
       AdmitCreatedStep, PublishSessionStep, HoldStep DEF Work
  <1>3. ASSUME NEW p \in Starts, CallerStep(p)
        PROVE  IInv'
    BY <1>3, CreationReturnsStep, CreatedReceivedStep, FenceStep, DetachStep, CleanupStep
       DEF CallerStep
  <1>4. ASSUME NEW p \in Starts, Monitor(p)
        PROVE  IInv'
    BY <1>4, MonitorWakesStep, MonitorTransitionsStep, MonitorExitsStep DEF Monitor
  <1>5. ASSUME NEW p \in Starts,
               CancelRequest(p) \/ HookRuns(p) \/ NativeEnds(p) \/ RetireReaches(p)
        PROVE  IInv'
    BY <1>5, CancelRequestStep, HookRunsStep, NativeEndsStep, RetireReachesStep
  <1>6. ASSUME NEW c \in Closers \cup Starts, CloseStep(c)
        PROVE  IInv'
    BY <1>6, CloseCancelStep, CloseReturnStep DEF CloseStep
  <1> QED BY <1>1, <1>2, <1>3, <1>4, <1>5, <1>6, CloseLookupStep, StopAllStep,
             StopAllReturnStep, GenerationStep, StutterIInv DEF Next

\* The inductive invariant holds in every reachable state.
THEOREM Invariance == Spec => []IInv
  BY InitIInv, StepIInv, PTL DEF Spec

\* Every record, call and map of the manager keeps its type: no call works on a
\* session that does not exist (ClosePortForwardSession's lookup).
THEOREM TypeCorrect == Spec => []TypeOK
  <1>1. IInv => TypeOK
    BY DEF IInv
  <1> QED BY <1>1, Invariance, PTL

\* A live tunnel whose creation is over is registered under its ID or is being
\* closed: publishSession never loses an entry to a duplicate ID, and nothing but
\* a close or StopAll takes one out of the map.
THEOREM NoOrphan == Spec => []NoOrphanTunnel
  <1>1. IInv => NoOrphanTunnel
    BY DEF IInv
  <1> QED BY <1>1, Invariance, PTL

\* A start that returned an error has no live tunnel, unless another close is
\* about to cancel it: the failure paths of createPortForwardSession and the
\* cleanup of a refused resource start together.
THEOREM FailedStartCleansUp == Spec => []FailedStartLeavesNoTunnel
  <1>1. IInv => FailedStartLeavesNoTunnel
    BY DEF IInv
  <1> QED BY <1>1, Invariance, PTL

\* After StopAll no session is registered, and after a clean one no monitor runs:
\* publishSession looks at stopped under the lock that StopAll holds.
THEOREM StopAllFinal == Spec => []StopAllIsFinal
  <1>1. IInv => StopAllIsFinal
    BY DEF IInv, Ended, StopAllIsFinal, Registered
  <1> QED BY <1>1, Invariance, PTL

\* A generation is destroyed only when no tunnel over it lives: the worker of
\* StartResource keeps its lease until the tunnel's context has ended.
THEOREM WithinGeneration == Spec => []TunnelWithinGeneration
  <1>1. ASSUME IInv, generation = "drained", NEW p \in Resource, start[p].worker # "none"
        PROVE  tunnel[p].cause # "live"
    <2>1. p \in Starts
      BY ForwardAssumption
    <2>2. Own(p) /\ start[p] \in StartRecords
      BY <1>1, <2>1, Records
    <2>3. leases = {}
      BY <1>1 DEF IInv, Ended
    <2>4. start[p].worker = "done"
      BY <1>1, <2>2, <2>3 DEF Own, Leased, Leasing, StartRecords
    <2> QED BY <2>2, <2>4 DEF Own, Leased
  <1>2. IInv => TunnelWithinGeneration
    BY <1>1 DEF TunnelWithinGeneration
  <1> QED BY <1>2, Invariance, PTL

\* monitorSession reports FAILED only for an error that the forwarder sent before
\* anyone closed the tunnel.
THEOREM CloseNotFailure == Spec => []CloseIsNotFailure
  <1>1. IInv => CloseIsNotFailure
    BY DEF IInv, Own, Failures, CloseIsNotFailure
  <1> QED BY <1>1, Invariance, PTL

-----------------------------------------------------------------------------
(* Who may cancel an accepted tunnel.                                      *)

\* The step cancels p's tunnel only for a reason an accepted tunnel has.
Spares(p) ==
  start[p].caller = "accepted" /\ tunnel[p].cause = "live" /\ tunnel'[p].cause # "live" =>
    \/ tunnel'[p].cause \in Intentional
    \/ tunnel[p].monitor = "exit"
    \/ p \in Resource /\ generation # "live"

LEMMA TunnelKept ==
  ASSUME NEW p \in Starts, UNCHANGED tunnel
  PROVE  Spares(p)
  BY DEF Spares

\* A step that sets one tunnel.
LEMMA OneTunnel ==
  ASSUME IInv, NEW p \in Starts, NEW q \in Starts, NEW r \in Tunnels, SetTunnel(q, r),
         \/ r.cause = tunnel[q].cause
         \/ start[q].caller # "accepted"
         \/ r.cause \in Intentional
         \/ tunnel[q].monitor = "exit"
         \/ q \in Resource /\ generation # "live"
  PROVE  Spares(p)
  <1>1. /\ tunnel'[q] = r
        /\ \A o \in Starts : o # q => tunnel'[o] = tunnel[o]
    BY TunnelFacts DEF IInv
  <1> QED BY <1>1 DEF Spares

\* While a start creates, its caller has accepted nothing.
LEMMA FailSpares ==
  ASSUME IInv, NEW p \in Starts, NEW q \in Starts, start[q].worker \in Creating, Fail(q)
  PROVE  Spares(p)
  <1>1. tunnel[q] \in Tunnels /\ Own(q)
    BY Records
  <1>2. start[q].caller # "accepted"
    BY <1>1 DEF Own, Progress
  <1>3. Cancel(tunnel[q], "other") \in Tunnels
    BY <1>1, CancelFacts
  <1> QED BY <1>2, <1>3, OneTunnel DEF Fail

LEMMA WorkSpares ==
  ASSUME IInv, NEW p \in Starts, NEW q \in Starts, Work(q)
  PROVE  Spares(p)
  <1>1. tunnel[q] \in Tunnels
    BY Records
  <1>2. CASE WorkerLease(q)
    BY <1>2, FailSpares, TunnelKept DEF WorkerLease, Working, Creating
  <1>3. CASE Begin(q)
    BY <1>3, FailSpares, TunnelKept DEF Begin, Working, Creating
  <1>4. CASE ForwarderReturns(q)
    <2>1. CASE Fail(q)
      BY <1>4, <2>1, FailSpares DEF ForwarderReturns, Working, Creating
    <2>2. ASSUME NEW i \in Named \cup {q}, SetTunnel(q, [tunnel[q] EXCEPT !.id = i])
          PROVE  Spares(p)
      <3>1. /\ [tunnel[q] EXCEPT !.id = i] \in Tunnels
            /\ [tunnel[q] EXCEPT !.id = i].cause = tunnel[q].cause
        BY <1>1 DEF Tunnels, Ids
      <3> QED BY <2>2, <3>1, OneTunnel
    <2> QED BY <1>4, <2>1, <2>2 DEF ForwarderReturns
  <1>5. CASE WaitForwarderReady(q)
    BY <1>5, FailSpares, TunnelKept DEF WaitForwarderReady, Working, Creating
  <1>6. CASE AdmitCreated(q)
    BY <1>6, FailSpares, TunnelKept DEF AdmitCreated, Working, Creating
  <1>7. CASE PublishSession(q)
    <2>1. CASE Fail(q)
      BY <1>7, <2>1, FailSpares DEF PublishSession, Working, Creating
    <2>2. CASE Publish(q)
      <3> DEFINE t == [tunnel[q] EXCEPT !.state = "ACTIVE", !.monitor = "select"]
      <3>1. t \in Tunnels /\ t.cause = tunnel[q].cause
        BY <1>1 DEF Tunnels
      <3>2. SetTunnel(q, t)
        BY <2>2 DEF Publish
      <3> QED BY <3>1, <3>2, OneTunnel
    <2> QED BY <1>7, <2>1, <2>2 DEF PublishSession
  <1>8. CASE Hold(q)
    BY <1>8, TunnelKept DEF Hold
  <1> QED BY <1>2, <1>3, <1>4, <1>5, <1>6, <1>7, <1>8 DEF Work

LEMMA MonitorSpares ==
  ASSUME IInv, NEW p \in Starts, NEW q \in Starts, Monitor(q)
  PROVE  Spares(p)
  <1>1. tunnel[q] \in Tunnels
    BY Records
  <1>2. ASSUME NEW t \in Tunnels, t.cause = tunnel[q].cause,
               NEW m \in {"stop", "fail", "exit"}, SetTunnel(q, [t EXCEPT !.monitor = m])
        PROVE  Spares(p)
    <2>1. [t EXCEPT !.monitor = m] \in Tunnels /\ [t EXCEPT !.monitor = m].cause = tunnel[q].cause
      BY <1>2 DEF Tunnels
    <2> QED BY <1>2, <2>1, OneTunnel
  <1>3. CASE MonitorWakes(q)
    <2>1. Judge(tunnel[q]) \in {"stop", "fail", "exit"}
      BY DEF Judge
    <2> QED BY <1>1, <1>2, <1>3, <2>1 DEF MonitorWakes
  <1>4. CASE MonitorTransitions(q)
    <2>1. ASSUME NEW to \in {"STOPPED", "FAILED"},
                 SetTunnel(q, [Transition(tunnel[q], to) EXCEPT !.monitor = "exit"])
          PROVE  Spares(p)
      <3>1. Transition(tunnel[q], to) \in Tunnels /\ Transition(tunnel[q], to).cause = tunnel[q].cause
        BY <1>1, TransitionFacts
      <3> QED BY <1>2, <2>1, <3>1
    <2> QED BY <1>4, <2>1 DEF MonitorTransitions
  <1>5. CASE MonitorExits(q)
    <2> DEFINE k == Cancel(tunnel[q], "other")
    <2>1. k \in Tunnels
      BY <1>1, CancelFacts
    <2>2. SetTunnel(q, [k EXCEPT !.monitor = "done"]) /\ tunnel[q].monitor = "exit"
      BY <1>5 DEF MonitorExits
    <2> HIDE DEF k
    <2>3. [k EXCEPT !.monitor = "done"] \in Tunnels
      BY <2>1 DEF Tunnels
    <2> QED BY <2>2, <2>3, OneTunnel
  <1> QED BY <1>3, <1>4, <1>5 DEF Monitor

LEMMA SurroundingsSpare ==
  ASSUME IInv, NEW p \in Starts, NEW q \in Starts,
         CancelRequest(q) \/ HookRuns(q) \/ NativeEnds(q) \/ RetireReaches(q)
  PROVE  Spares(p)
  <1>1. tunnel[q] \in Tunnels /\ Own(q)
    BY Records
  <1>2. Cancel(tunnel[q], "other") \in Tunnels
    BY <1>1, CancelFacts
  <1>3. CASE CancelRequest(q)
    BY <1>3, TunnelKept DEF CancelRequest
  <1>4. CASE HookRuns(q)
    <2>1. start[q].caller # "accepted"
      BY <1>1, <1>4 DEF HookRuns, Own, Hooks
    <2> QED BY <1>2, <1>4, <2>1, OneTunnel DEF HookRuns
  <1>5. CASE NativeEnds(q)
    <2>1. PICK e \in {"clean", "late", "error"} : SetTunnel(q, [tunnel[q] EXCEPT !.errCh = e])
      BY <1>5 DEF NativeEnds
    <2>2. /\ [tunnel[q] EXCEPT !.errCh = e] \in Tunnels
          /\ [tunnel[q] EXCEPT !.errCh = e].cause = tunnel[q].cause
      BY <1>1 DEF Tunnels
    <2> QED BY <2>1, <2>2, OneTunnel
  <1>6. CASE RetireReaches(q)
    <2>1. q \in Resource /\ generation # "live"
      BY <1>1, <1>6 DEF RetireReaches, Own, Leased
    <2> QED BY <1>2, <1>6, <2>1, OneTunnel DEF RetireReaches
  <1> QED BY <1>3, <1>4, <1>5, <1>6

LEMMA CloseSpares ==
  ASSUME IInv, NEW p \in Starts, NEW c \in Closers \cup Starts, CloseStep(c)
  PROVE  Spares(p)
  <1>1. PICK q \in Starts : q = close[c].at
    BY CloseTarget DEF CloseStep, CloseCancel, CloseReturn
  <1>2. tunnel[q] \in Tunnels
    BY Records
  <1>3. CASE CloseCancel(c)
    <2>1. /\ Cancel(tunnel[q], "closed") \in Tunnels
          /\ Cancel(tunnel[q], "closed").cause \in {"closed", tunnel[q].cause}
      BY <1>2, CancelFacts
    <2> QED BY <1>1, <1>3, <2>1, OneTunnel DEF CloseCancel, Intentional
  <1>4. CASE CloseReturn(c)
    <2>1. /\ Transition(tunnel[q], "STOPPED") \in Tunnels
          /\ Transition(tunnel[q], "STOPPED").cause = tunnel[q].cause
      BY <1>2, TransitionFacts
    <2> QED BY <1>1, <1>4, <2>1, OneTunnel DEF CloseReturn
  <1> QED BY <1>3, <1>4 DEF CloseStep

LEMMA StopAllSpares ==
  ASSUME IInv, NEW p \in Starts, StopAll
  PROVE  Spares(p)
  <1>1. tunnel[p] \in Tunnels
    BY Records
  <1>2. CASE p \in Registered
    <2> DEFINE k == Cancel(tunnel[p], "stopped")
    <2>1. k \in Tunnels /\ k.cause \in {"stopped", tunnel[p].cause}
      BY <1>1, CancelFacts
    <2>2. tunnel'[p] = Transition(k, "STOPPED")
      BY <1>2 DEF StopAll
    <2> HIDE DEF k
    <2>3. Transition(k, "STOPPED").cause = k.cause
      BY <2>1, TransitionFacts
    <2> QED BY <2>1, <2>2, <2>3 DEF Spares, Intentional
  <1>3. CASE p \notin Registered
    BY <1>3 DEF StopAll, Spares
  <1> QED BY <1>2, <1>3

LEMMA NextSpares ==
  ASSUME IInv, [Next]_vars, NEW p \in Starts
  PROVE  Spares(p)
  <1>1. ASSUME NEW q \in Starts, Enter(q) \/ CallerStep(q)
        PROVE  Spares(p)
    BY <1>1, TunnelKept
       DEF Enter, StartPortForwardSession, StartResourcePortForwardSession,
           CallerStep, CreationReturns, CreatedReceived, Fence, Detach, Cleanup
  <1>2. ASSUME NEW c \in Closers, NEW i \in Ids, CloseLookup(c, i)
        PROVE  Spares(p)
    BY <1>2, TunnelKept DEF CloseLookup
  <1>3. ASSUME StopAllReturn \/ Retire \/ Drained \/ UNCHANGED vars
        PROVE  Spares(p)
    BY <1>3, TunnelKept DEF StopAllReturn, Retire, Drained, vars
  <1> QED BY <1>1, <1>2, <1>3, WorkSpares, MonitorSpares, SurroundingsSpare, CloseSpares,
             StopAllSpares DEF Next

\* Only Close, StopAll, the tunnel's own end or the retirement of its generation
\* cancels an accepted tunnel: stopRequest and the looks at the request around it
\* leave no hook behind that could.
THEOREM OutlivesRequest == Spec => AcceptedTunnelOutlivesRequest
  <1>1. IInv /\ [Next]_vars => [\A p \in Starts : Spares(p)]_vars
    BY NextSpares
  <1>2. Spec => [][\A p \in Starts : Spares(p)]_vars
    BY <1>1, Invariance, PTL DEF Spec
  <1> QED BY <1>2 DEF AcceptedTunnelOutlivesRequest, Spares
=============================================================================
