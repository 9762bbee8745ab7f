---------------------------- MODULE PortForward -----------------------------
(***************************************************************************)
(* The session manager of pkg/v1/networker: creation of static and         *)
(* resource tunnels, their monitors, ClosePortForwardSession and StopAll,  *)
(* together with the generation leases that resource tunnels hold.         *)
(*                                                                         *)
(* A start is one request and the one sessionEntry it may publish, so both *)
(* carry its name.  A resource start has two goroutines: the caller, under *)
(* the outer lease of WithUtilityConnection, and the worker that takes its *)
(* own lease and keeps it for the tunnel's life.  Every other start (a     *)
(* static target, or a resource target without a selected connection) is a *)
(* worker only, and its caller merely waits for it.                        *)
(*                                                                         *)
(* Forwarders are external: they fail, return, become ready, and end with  *)
(* any error at any time.  The connection registry is reduced to what its  *)
(* own model establishes: a generation admits leases until it retires,     *)
(* retirement cancels the leases' contexts and waits for them.  One        *)
(* generation is enough: catalogSlotKey pins both leases of a start to it. *)
(***************************************************************************)
EXTENDS Naturals, FiniteSets

CONSTANTS
  Starts,    \* start requests, and the sessions they publish
  Resource,  \* the starts with a selected connection
  Named,     \* session IDs that forwarders supply, and may supply again
  Closers,   \* goroutines calling ClosePortForwardSession
  Events,    \* what else happens: requests end, StopAll, the client retires
  None       \* no session

ASSUME ForwardAssumption ==
  /\ Resource \subseteq Starts
  /\ Events \subseteq {"cancel", "stop", "retire"}
  /\ Starts \cap Closers = {}
  /\ Starts \cap Named = {}
  /\ None \notin Starts \cup Named

VARIABLES
  start,       \* the goroutines of each start, and its request context
  tunnel,      \* each start's native tunnel, session entry and monitor
  close,       \* the calls of ClosePortForwardSession
  sessions,    \* Manager.sessions: session ID -> entry or None
  stopped,     \* Manager.stopped
  stopAll,     \* the call of StopAll
  generation,  \* the connection's client generation
  leases       \* its outstanding leases

vars == <<start, tunnel, close, sessions, stopped, stopAll, generation, leases>>
manager == <<close, sessions, stopped, stopAll>>
registry == <<generation, leases>>

-----------------------------------------------------------------------------
(* State.                                                                  *)

Ids == Starts \cup Named   \* the UUID drawn for a start is the start itself
Leases == Starts \X {"outer", "inner"}
Intentional == {"closed", "stopped"}

\* hook is the AfterFunc that ties the request's context to the tunnel's;
\* created is the channel on which the worker reports.
StartRecords ==
  [caller : {"idle", "creating", "fence", "detach", "reject", "cleanup", "accepted", "failed"},
   worker : {"none", "lease", "begin", "forward", "ready", "admit", "publish", "hold", "done"},
   created : {"none", "session", "error"},
   cancelled : BOOLEAN, hook : {"off", "armed", "fired"}]

\* cause is the cancellation cause of the tunnel's context, parents included;
\* errCh is what the forwarder has sent: "clean" stands for a closed channel, a
\* nil error and the two sentinels; "late" is an error sent after an intentional
\* stop, which the code cannot tell from "error".
Tunnels ==
  [id : Ids \cup {None}, cause : {"live", "closed", "stopped", "other"},
   state : {"none", "ACTIVE", "PAUSED", "STOPPED", "FAILED"},
   errCh : {"open", "clean", "error", "late"},
   monitor : {"none", "select", "stop", "fail", "exit", "done"}]

CloseCalls == [pc : {"idle", "cancel", "stop"}, at : Starts \cup {None}]
NoClose == [pc |-> "idle", at |-> None]

Init ==
  /\ start = [p \in Starts |-> [caller |-> "idle", worker |-> "none", created |-> "none",
                                cancelled |-> FALSE, hook |-> "off"]]
  /\ tunnel = [p \in Starts |-> [id |-> None, cause |-> "live", state |-> "none",
                                 errCh |-> "open", monitor |-> "none"]]
  /\ close = [c \in Closers \cup Starts |-> NoClose]
  /\ sessions = [i \in Ids |-> None]
  /\ stopped = FALSE
  /\ stopAll = "idle"
  /\ generation = "live"
  /\ leases = {}

SetStart(p, record) == start' = [start EXCEPT ![p] = record]
SetTunnel(p, record) == tunnel' = [tunnel EXCEPT ![p] = record]

\* The first cancellation decides the cause.
Cancel(t, cause) == IF t.cause = "live" THEN [t EXCEPT !.cause = cause] ELSE t

CanTransition(from, to) ==
  from \in {"ACTIVE", "PAUSED"} /\ to \in {"ACTIVE", "PAUSED", "STOPPED", "FAILED"} \ {from}

Transition(t, to) == IF CanTransition(t.state, to) THEN [t EXCEPT !.state = to] ELSE t

\* stop() of the request hook: a hook that has begun runs all the same.
StopHook(s) == IF s.hook = "armed" THEN [s EXCEPT !.hook = "off"] ELSE s

\* context.AfterFunc: on an ended request the hook begins at once.
ArmHook(s) == [s EXCEPT !.hook = IF s.cancelled THEN "fired" ELSE "armed"]

-----------------------------------------------------------------------------
(* Starting a tunnel: the requests.                                        *)

\* StartPortForwardSession: creation runs on the caller's goroutine.
StartPortForwardSession(p) ==
  /\ p \notin Resource /\ start[p].caller = "idle"
  /\ SetStart(p, [start[p] EXCEPT !.caller = "creating", !.worker = "begin"])
  /\ UNCHANGED <<tunnel, manager, registry>>

\* StartResourcePortForwardSession under the outer lease; the lease is refused
\* by a retired generation or for an ended request, and the catalog fence
\* before creation may fail.
StartResourcePortForwardSession(p) ==
  /\ p \in Resource /\ start[p].caller = "idle"
  /\ \/ /\ generation = "live" /\ ~start[p].cancelled
        /\ SetStart(p, ArmHook([start[p] EXCEPT !.caller = "creating", !.worker = "lease"]))
        /\ leases' = leases \cup {<<p, "outer">>}
     \/ /\ SetStart(p, [start[p] EXCEPT !.caller = "failed"])
        /\ UNCHANGED leases
  /\ UNCHANGED <<tunnel, manager, generation>>

\* stopRequest of the worker; the hook of a resource start is its caller's.
Unhooked(p) == IF p \in Resource THEN start[p] ELSE StopHook(start[p])

\* createPortForwardSession fails: the tunnel's context is cancelled, the
\* worker's lease goes back and the error is reported.
Fail(p) ==
  /\ SetTunnel(p, Cancel(tunnel[p], "other"))
  /\ SetStart(p, [Unhooked(p) EXCEPT !.worker = "done", !.created = "error"])
  /\ leases' = leases \ {<<p, "inner">>}
  /\ UNCHANGED <<manager, generation>>

Working(p, label) == start[p].worker = label
Advance(p, label) == SetStart(p, [start[p] EXCEPT !.worker = label])

-----------------------------------------------------------------------------
(* Starting a tunnel: the worker.                                          *)

\* Mutant of WorkerLease: a refused lease is not reported.
WorkerLeaseSilent(p) ==
  /\ Working(p, "lease")
  /\ \/ /\ generation = "live" /\ tunnel[p].cause = "live"
        /\ leases' = leases \cup {<<p, "inner">>}
        /\ Advance(p, "begin")
     \/ Advance(p, "done") /\ UNCHANGED leases
  /\ UNCHANGED <<tunnel, manager, generation>>

\* The worker's own lease, reentrant on the generation of the outer one; it is
\* also refused while the connection's profile is being changed.
WorkerLease(p) ==
  /\ Working(p, "lease")
  /\ \/ /\ generation = "live" /\ tunnel[p].cause = "live"
        /\ leases' = leases \cup {<<p, "inner">>}
        /\ Advance(p, "begin")
        /\ UNCHANGED <<tunnel, manager, generation>>
     \/ Fail(p)

\* The worker ties its tunnel to the request, unless a lease does.
Hooked(p) == IF p \in Resource THEN start[p] ELSE ArmHook(start[p])

\* resolveForwardEndpoint, the tunnel's context and the first look at stopped.
\* A port may be taken or the request invalid.
Begin(p) ==
  /\ Working(p, "begin")
  /\ \/ /\ ~stopped
        /\ SetStart(p, [Hooked(p) EXCEPT !.worker = "forward"])
        /\ UNCHANGED <<tunnel, manager, registry>>
     \/ Fail(p)

\* invokeForwarder: the native tunnel exists, under its own ID or one of ours.
ForwarderReturns(p) ==
  /\ Working(p, "forward")
  /\ \/ \E i \in Named \cup {p} :
          /\ SetTunnel(p, [tunnel[p] EXCEPT !.id = i])
          /\ Advance(p, "ready")
          /\ UNCHANGED <<manager, registry>>
     \/ Fail(p)

\* waitForwarderReady: ready, or an error, the end of the context, a timeout.
WaitForwarderReady(p) ==
  /\ Working(p, "ready")
  /\ \/ Advance(p, "admit") /\ UNCHANGED <<tunnel, manager, registry>>
     \/ Fail(p)

\* The request whose end refuses the session: the caller's own or, for a
\* resource start, the context of the worker's lease.
RequestEnded(p) ==
  IF p \in Resource THEN tunnel[p].cause # "live" ELSE start[p].cancelled

\* stopRequest, then the last look at the request.
AdmitCreated(p) ==
  /\ Working(p, "admit")
  /\ IF RequestEnded(p)
     THEN Fail(p)
     ELSE /\ SetStart(p, [Unhooked(p) EXCEPT !.worker = "publish"])
          /\ UNCHANGED <<tunnel, manager, registry>>

\* A worker with a lease keeps it; any other has finished.
Settled(p) == IF p \in Resource THEN "hold" ELSE "done"

\* The entry is in the map and its monitor runs.
Publish(p) ==
  /\ sessions' = [sessions EXCEPT ![tunnel[p].id] = p]
  /\ SetTunnel(p, [tunnel[p] EXCEPT !.state = "ACTIVE", !.monitor = "select"])
  /\ SetStart(p, [start[p] EXCEPT !.worker = Settled(p), !.created = "session"])
  /\ UNCHANGED <<close, stopped, stopAll, registry>>

\* Mutant of PublishSession: shutdown is not checked again.
PublishSessionLate(p) ==
  /\ Working(p, "publish")
  /\ IF sessions[tunnel[p].id] # None THEN Fail(p) ELSE Publish(p)

\* Mutant of PublishSession: a duplicate ID replaces the entry.
PublishSessionOver(p) ==
  /\ Working(p, "publish")
  /\ IF stopped THEN Fail(p) ELSE Publish(p)

\* publishSession, under Manager.mu.
PublishSession(p) ==
  /\ Working(p, "publish")
  /\ IF stopped \/ sessions[tunnel[p].id] # None THEN Fail(p) ELSE Publish(p)

\* Mutant of Hold: the lease goes back as soon as the session is published.
HoldBriefly(p) ==
  /\ Working(p, "hold")
  /\ Advance(p, "done")
  /\ leases' = leases \ {<<p, "inner">>}
  /\ UNCHANGED <<tunnel, manager, generation>>

\* The worker returns its lease when the session or its lease context ends.
Hold(p) ==
  /\ Working(p, "hold") /\ tunnel[p].cause # "live"
  /\ Advance(p, "done")
  /\ leases' = leases \ {<<p, "inner">>}
  /\ UNCHANGED <<tunnel, manager, generation>>

-----------------------------------------------------------------------------
(* Starting a tunnel: the caller.                                          *)

\* A static start returns what its creation returned.
CreationReturns(p) ==
  /\ p \notin Resource /\ start[p].caller = "creating" /\ start[p].created # "none"
  /\ SetStart(p, [start[p] EXCEPT
                    !.caller = IF start[p].created = "session" THEN "accepted" ELSE "failed"])
  /\ UNCHANGED <<tunnel, manager, registry>>

\* The worker reported; after an error the outer lease and the hook go at once.
CreatedReceived(p) ==
  /\ p \in Resource /\ start[p].caller = "creating" /\ start[p].created # "none"
  /\ IF start[p].created = "session"
     THEN SetStart(p, [start[p] EXCEPT !.caller = "fence"]) /\ UNCHANGED leases
     ELSE /\ SetStart(p, [StopHook(start[p]) EXCEPT !.caller = "failed"])
          /\ leases' = leases \ {<<p, "outer">>}
  /\ UNCHANGED <<tunnel, manager, generation>>

\* The end of WithUtilityConnection: the request, the outer lease's context or
\* the catalog fence may refuse the session that has been created.
Fence(p) ==
  /\ start[p].caller = "fence"
  /\ leases' = leases \ {<<p, "outer">>}
  /\ \/ ~start[p].cancelled /\ SetStart(p, [start[p] EXCEPT !.caller = "detach"])
     \/ SetStart(p, [start[p] EXCEPT !.caller = "reject"])
  /\ UNCHANGED <<tunnel, manager, generation>>

\* Mutant of Detach: the request is not looked at again.
DetachUnchecked(p) ==
  /\ start[p].caller \in {"detach", "reject"}
  /\ SetStart(p, [StopHook(start[p]) EXCEPT
                    !.caller = IF start[p].caller = "reject" THEN "cleanup" ELSE "accepted"])
  /\ UNCHANGED <<tunnel, manager, registry>>

\* Mutant of Detach: a refused session is left to its worker.
DetachLeaving(p) ==
  /\ start[p].caller \in {"detach", "reject"}
  /\ SetStart(p, [StopHook(start[p]) EXCEPT
                    !.caller = IF start[p].caller = "reject" \/ start[p].cancelled
                               THEN "failed" ELSE "accepted"])
  /\ UNCHANGED <<tunnel, manager, registry>>

\* stopRequest and the last look at the request.
Detach(p) ==
  /\ start[p].caller \in {"detach", "reject"}
  /\ SetStart(p, [StopHook(start[p]) EXCEPT
                    !.caller = IF start[p].caller = "reject" \/ start[p].cancelled
                               THEN "cleanup" ELSE "accepted"])
  /\ UNCHANGED <<tunnel, manager, registry>>

-----------------------------------------------------------------------------
(* ClosePortForwardSession, also by the caller of a start that was refused. *)

\* Take the entry with this ID out of the map.
Take(c, i) ==
  /\ sessions[i] # None
  /\ close' = [close EXCEPT ![c] = [pc |-> "cancel", at |-> sessions[i]]]
  /\ sessions' = [sessions EXCEPT ![i] = None]

\* An unknown ID returns an error and changes nothing.
CloseLookup(c, i) ==
  /\ close[c].pc = "idle"
  /\ Take(c, i)
  /\ UNCHANGED <<start, tunnel, stopped, stopAll, registry>>

\* The refused start closes whatever carries its session's ID by now.
Cleanup(p) ==
  /\ start[p].caller = "cleanup" /\ close[p].pc = "idle"
  /\ IF sessions[tunnel[p].id] # None
     THEN Take(p, tunnel[p].id) /\ UNCHANGED start
     ELSE SetStart(p, [start[p] EXCEPT !.caller = "failed"]) /\ UNCHANGED <<close, sessions>>
  /\ UNCHANGED <<tunnel, stopped, stopAll, registry>>

CloseCancel(c) ==
  /\ close[c].pc = "cancel"
  /\ SetTunnel(close[c].at, Cancel(tunnel[close[c].at], "closed"))
  /\ close' = [close EXCEPT ![c].pc = "stop"]
  /\ UNCHANGED <<start, sessions, stopped, stopAll, registry>>

CloseReturn(c) ==
  /\ close[c].pc = "stop"
  /\ SetTunnel(close[c].at, Transition(tunnel[close[c].at], "STOPPED"))
  /\ close' = [close EXCEPT ![c] = NoClose]
  /\ IF c \in Starts THEN SetStart(c, [start[c] EXCEPT !.caller = "failed"]) ELSE UNCHANGED start
  /\ UNCHANGED <<sessions, stopped, stopAll, registry>>

-----------------------------------------------------------------------------
(* StopAll.                                                                *)

Registered == {sessions[i] : i \in Ids} \ {None}

\* Under Manager.mu: cancel and stop every session, and accept no more.
StopAll ==
  /\ "stop" \in Events /\ stopAll # "waiting"
  /\ stopped' = TRUE
  /\ tunnel' = [p \in Starts |-> IF p \in Registered
                                 THEN Transition(Cancel(tunnel[p], "stopped"), "STOPPED")
                                 ELSE tunnel[p]]
  /\ sessions' = [i \in Ids |-> None]
  /\ stopAll' = "waiting"
  /\ UNCHANGED <<start, close, registry>>

Monitoring(p) == tunnel[p].monitor \notin {"none", "done"}

\* wg.Wait returned, or the close timeout ran out and nothing is known.
StopAllReturn ==
  /\ stopAll = "waiting"
  /\ \/ stopAll' = "clean" /\ \A p \in Starts : ~Monitoring(p)
     \/ stopAll' = "idle"
  /\ UNCHANGED <<start, tunnel, close, sessions, stopped, registry>>

-----------------------------------------------------------------------------
(* monitorSession.                                                         *)

\* Mutant of Judge: the cause of the context is not considered.
JudgeByError(t) == IF t.errCh \in {"error", "late"} THEN "fail" ELSE "stop"

\* What the end of a tunnel means: a failure, unless the channel closed, the
\* error is a sentinel or the context was cancelled on purpose.
Judge(t) ==
  IF t.errCh \in {"error", "late"} /\ t.cause \notin Intentional THEN "fail" ELSE "stop"

\* The select: either ready channel may win.
MonitorWakes(p) ==
  /\ tunnel[p].monitor = "select"
  /\ \/ tunnel[p].cause # "live" /\ SetTunnel(p, [tunnel[p] EXCEPT !.monitor = "stop"])
     \/ tunnel[p].errCh # "open" /\ SetTunnel(p, [tunnel[p] EXCEPT !.monitor = Judge(tunnel[p])])
  /\ UNCHANGED <<start, manager, registry>>

MonitorTransitions(p) ==
  /\ tunnel[p].monitor \in {"stop", "fail"}
  /\ LET to == IF tunnel[p].monitor = "stop" THEN "STOPPED" ELSE "FAILED"
     IN SetTunnel(p, [Transition(tunnel[p], to) EXCEPT !.monitor = "exit"])
  /\ UNCHANGED <<start, manager, registry>>

\* Mutant of MonitorExits: the tunnel's context stays as it is.
MonitorExitsOnly(p) ==
  /\ tunnel[p].monitor = "exit"
  /\ SetTunnel(p, [tunnel[p] EXCEPT !.monitor = "done"])
  /\ UNCHANGED <<start, manager, registry>>

\* The deferred cancel and wg.Done.
MonitorExits(p) ==
  /\ tunnel[p].monitor = "exit"
  /\ SetTunnel(p, [Cancel(tunnel[p], "other") EXCEPT !.monitor = "done"])
  /\ UNCHANGED <<start, manager, registry>>

-----------------------------------------------------------------------------
(* The surroundings: contexts, forwarders, the registry.                   *)

\* The request ends, also after it was answered.
CancelRequest(p) ==
  /\ "cancel" \in Events
  /\ ~start[p].cancelled /\ start[p].caller # "failed"
  /\ SetStart(p, [start[p] EXCEPT !.cancelled = TRUE,
                                  !.hook = IF @ = "armed" THEN "fired" ELSE @])
  /\ UNCHANGED <<tunnel, manager, registry>>

\* The goroutine that AfterFunc started on the end of the request.
HookRuns(p) ==
  /\ start[p].hook = "fired"
  /\ SetStart(p, [start[p] EXCEPT !.hook = "off"])
  /\ SetTunnel(p, Cancel(tunnel[p], "other"))
  /\ UNCHANGED <<manager, registry>>

\* The native tunnel ends: errCh is closed or receives an error.  One that ends
\* before its monitor runs is found by it all the same, or fails the creation.
NativeEnds(p) ==
  /\ tunnel[p].errCh = "open" /\ tunnel[p].monitor = "select"
  /\ \E e \in {"clean", IF tunnel[p].cause \in Intentional THEN "late" ELSE "error"} :
       SetTunnel(p, [tunnel[p] EXCEPT !.errCh = e])
  /\ UNCHANGED <<start, manager, registry>>

\* StopConnection or Close of the registry.
Retire ==
  /\ "retire" \in Events
  /\ generation = "live"
  /\ generation' = "stopping"
  /\ UNCHANGED <<start, tunnel, manager, leases>>

\* Mutant of RetireReaches: nothing ties a lease's context to its generation.
RetireReachesNobody(p) ==
  FALSE /\ UNCHANGED vars

\* The AfterFunc that ties a lease's context to its generation.
RetireReaches(p) ==
  /\ generation # "live" /\ <<p, "inner">> \in leases /\ tunnel[p].cause = "live"
  /\ SetTunnel(p, Cancel(tunnel[p], "other"))
  /\ UNCHANGED <<start, manager, registry>>

\* users.Wait returned: the native client is destroyed.
Drained ==
  /\ generation = "stopping" /\ leases = {}
  /\ generation' = "drained"
  /\ UNCHANGED <<start, tunnel, manager, leases>>

-----------------------------------------------------------------------------

Enter(p) == StartPortForwardSession(p) \/ StartResourcePortForwardSession(p)

Work(p) ==
  \/ WorkerLease(p) \/ Begin(p) \/ ForwarderReturns(p) \/ WaitForwarderReady(p)
  \/ AdmitCreated(p) \/ PublishSession(p) \/ Hold(p)

CallerStep(p) == CreationReturns(p) \/ CreatedReceived(p) \/ Fence(p) \/ Detach(p) \/ Cleanup(p)
CloseStep(c) == CloseCancel(c) \/ CloseReturn(c)
Monitor(p) == MonitorWakes(p) \/ MonitorTransitions(p) \/ MonitorExits(p)

Next ==
  \/ \E p \in Starts :
       \/ Enter(p) \/ Work(p) \/ CallerStep(p) \/ Monitor(p)
       \/ CancelRequest(p) \/ HookRuns(p) \/ NativeEnds(p) \/ RetireReaches(p)
  \/ \E c \in Closers, i \in Ids : CloseLookup(c, i)
  \/ \E c \in Closers \cup Starts : CloseStep(c)
  \/ StopAll \/ StopAllReturn \/ Retire \/ Drained

Spec == Init /\ [][Next]_vars

\* Every goroutine that can run does; forwarders return from creation, and the
\* readiness timer runs out.  Nobody has to call, to cancel or to retire, and a
\* native tunnel may live for ever.
Fairness ==
  /\ \A p \in Starts :
       /\ WF_vars(Work(p)) /\ WF_vars(CallerStep(p)) /\ WF_vars(Monitor(p))
       /\ WF_vars(HookRuns(p)) /\ WF_vars(RetireReaches(p))
  /\ \A c \in Closers \cup Starts : WF_vars(CloseStep(c))
  /\ WF_vars(StopAllReturn) /\ WF_vars(Drained)

FairSpec == Spec /\ Fairness

-----------------------------------------------------------------------------
(* Properties.                                                             *)

TypeOK ==
  /\ start \in [Starts -> StartRecords]
  /\ tunnel \in [Starts -> Tunnels]
  /\ close \in [Closers \cup Starts -> {NoClose} \cup [pc : {"cancel", "stop"}, at : Starts]]
  /\ sessions \in [Ids -> Starts \cup {None}]
  /\ stopped \in BOOLEAN
  /\ stopAll \in {"idle", "waiting", "clean"}
  /\ generation \in {"live", "stopping", "drained"}
  /\ leases \in SUBSET Leases

\* A close took p's entry out of the map and will cancel it next.
BeingClosed(p) == \E c \in Closers \cup Starts : close[c] = [pc |-> "cancel", at |-> p]

\* A tunnel that runs can be stopped: once its start has finished creating, a
\* live tunnel is the entry that the map holds under its ID, or a close that
\* took it out of the map is about to cancel it.
NoOrphanTunnel ==
  \A p \in Starts :
    start[p].worker \in {"hold", "done"} /\ tunnel[p].cause = "live" =>
      sessions[tunnel[p].id] = p \/ BeingClosed(p)

\* StopAll is final: nothing is registered after it, and when it returned
\* without a timeout no monitor runs, now or later (publishSession's promise
\* that StopAll cannot race a new WaitGroup admission).
StopAllIsFinal ==
  /\ stopped => Registered = {}
  /\ stopAll = "clean" => \A p \in Starts : ~Monitoring(p)

\* A start that reports failure leaves no tunnel behind, wherever it failed; at
\* most somebody else's close is still about to cancel it.
FailedStartLeavesNoTunnel ==
  \A p \in Starts :
    start[p].caller = "failed" /\ start[p].worker # "none" =>
      tunnel[p].cause # "live" \/ BeingClosed(p)

\* No native tunnel survives the client generation that it runs on: the
\* generation is destroyed only when every tunnel over it has been cancelled.
TunnelWithinGeneration ==
  generation = "drained" =>
    \A p \in Resource : start[p].worker # "none" => tunnel[p].cause # "live"

\* A tunnel closed by Close or StopAll is never reported FAILED because of the
\* error its forwarder sends on being cancelled.
CloseIsNotFailure ==
  \A p \in Starts : tunnel[p].state = "FAILED" => tunnel[p].errCh = "error"

\* An accepted tunnel belongs to the manager: only Close, StopAll, its own end
\* or the retirement of its generation cancels it, never the request.
AcceptedTunnelOutlivesRequest ==
  [][\A p \in Starts :
       start[p].caller = "accepted" /\ tunnel[p].cause = "live" /\ tunnel'[p].cause # "live" =>
         \/ tunnel'[p].cause \in Intentional
         \/ tunnel[p].monitor = "exit"
         \/ p \in Resource /\ generation # "live"]_vars

\* Every start returns, whatever ends, retires or stops meanwhile.
EveryStartReturns ==
  \A p \in Starts :
    start[p].caller # "idle" ~> start[p].caller \in {"accepted", "failed"}

\* The lease of a tunnel that ended goes back although nobody closes the session.
EndedTunnelReleasesLease ==
  \A p \in Resource :
    tunnel[p].state \in {"STOPPED", "FAILED"} ~> <<p, "inner">> \notin leases

\* Tunnels never keep a generation from retiring.
RetirementDrains == generation = "stopping" ~> generation = "drained"

\* Every lease a tunnel takes comes back: when the tunnel ends, and when its
\* generation is to retire.
LeasesComeBack == EndedTunnelReleasesLease /\ RetirementDrains
=============================================================================
