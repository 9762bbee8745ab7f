------------------------- MODULE ResourceController -------------------------
(***************************************************************************)
(* The configured-client registry of pkg/resource/v2: the connection       *)
(* inventory, the native client generations (clientSlot), the leases that  *)
(* borrow them, and Close.  A caller is one goroutine inside one exported  *)
(* method; every section under Controller.mu is one atomic action, every   *)
(* wait, callback and context hook outside it is an action of its own.     *)
(*                                                                         *)
(* The controller modelled has a Lifecycle and no ConnectionMetadata       *)
(* callback, so that metadataAdmitLocked and metadataStopLocked return at  *)
(* once.  Provider callbacks are external: they return any outcome, panic  *)
(* included, after any delay.                                              *)
(***************************************************************************)
EXTENDS Naturals, FiniteSets

CONSTANTS
  Ids,          \* connection IDs
  Publics,      \* public client configurations (endpoint, UID, Data)
  Privates,     \* private sensitive data
  Displays,     \* names, labels and other fields no client is built from
  Offered,      \* the profiles that discovery and hosts supply
  Nil,          \* the private data of a profile that carries none
  Absent,       \* map lookup of a missing connection ID
  Callers,      \* goroutines calling the controller
  Calls,        \* the exported methods each caller invokes
  Generations,  \* identities for clientSlot allocations (bounds the starts)
  None          \* nil slot pointer, and the free configMu

Profiles == [public : Publics, private : Privates \cup {Nil}, display : Displays]
Methods == {"start", "stop", "lease", "load", "overlay", "update", "delete", "close"}

ASSUME RegistryAssumption ==
  /\ Absent \notin Profiles
  /\ Nil \notin Privates
  /\ Offered \subseteq Profiles
  /\ None \notin Generations
  /\ None \notin Callers
  /\ None \notin Ids
  /\ Calls \in [Callers -> SUBSET Methods]

VARIABLES
  closed,        \* Controller.closed, and cancellation of Controller.ctx
  closing,       \* closeOnce: "fresh", "running" or "done"
  desired,       \* nativeConnections, overrides, disabled
  connections,   \* the published effective inventory
  changing,      \* IDs whose configuration is being replaced
  failedStarts,  \* IDs whose last start failed
  clients,       \* the registry: ID -> generation or None
  slot,          \* the clientSlot records
  configMu,      \* holder of configMu, or None
  staged,        \* the inventory the holder of configMu will publish
  call           \* the request each caller is in

registry == <<closed, closing, desired, connections, changing, failedStarts, clients>>
inventory == <<configMu, staged>>
vars == <<registry, slot, inventory, call>>

-----------------------------------------------------------------------------
(* State.                                                                  *)

Inventory == [Ids -> Profiles \cup {Absent}]
Desired == [native : Inventory, overrides : Inventory, disabled : SUBSET Ids]
Leases == Callers \X {1, 2}   \* a request's lease and one reentrant lease

Slots ==
  [id : Ids \cup {None}, profile : Profiles \cup {Absent},
   client : {"none", "live", "stopped", "destroyed"},
   ready : BOOLEAN, err : BOOLEAN, stopping : BOOLEAN, cancelled : BOOLEAN,
   users : SUBSET Leases, destroy : {"fresh", "running", "done"},
   destroyErr : BOOLEAN, hook : {"off", "armed", "fired"}]

FreeSlot ==
  [id |-> None, profile |-> Absent, client |-> "none",
   ready |-> FALSE, err |-> FALSE, stopping |-> FALSE, cancelled |-> FALSE,
   users |-> {}, destroy |-> "fresh",
   destroyErr |-> FALSE, hook |-> "off"]

NewSlot(id) ==
  [FreeSlot EXCEPT !.id = id, !.profile = connections[id], !.hook = "armed"]

Labels ==
  {"idle", "create", "onstart", "record", "ready",
   "wait_created", "wait_joined", "accept",
   "stop_lookup", "stop_mark", "stop_once", "drain", "onstop", "destroy", "unregister",
   "lease_wait", "leased", "nested",
   "apply_next", "close_next", "close_join"}

\* A caller's request: the method's program counter, the connection ID and the
\* slot it works on, where stopSlot returns to, the slots it has yet to stop,
\* and whether its own context is cancelled.
Requests ==
  [pc : Labels, route : Ids \cup {None}, at : Generations \cup {None},
   after : {"idle", "apply_next", "close_next"}, todo : SUBSET Generations, done : BOOLEAN]

Idle ==
  [pc |-> "idle", route |-> None, at |-> None, after |-> "idle", todo |-> {}, done |-> FALSE]

NothingConfigured == [id \in Ids |-> Absent]
EmptyDesired == [native |-> NothingConfigured, overrides |-> NothingConfigured, disabled |-> {}]
NothingStaged ==
  [desired |-> EmptyDesired, connections |-> NothingConfigured, changed |-> {}, err |-> FALSE]

Init ==
  /\ closed = FALSE
  /\ closing = "fresh"
  /\ desired = EmptyDesired
  /\ connections = NothingConfigured
  /\ changing = {}
  /\ failedStarts = {}
  /\ clients = [id \in Ids |-> None]
  /\ slot = [g \in Generations |-> FreeSlot]
  /\ configMu = None
  /\ staged = NothingStaged
  /\ call = [p \in Callers |-> Idle]

Configured(id) == connections[id] # Absent

\* A caller's request and a generation's slot change as a whole.
Become(p, request) == call' = [call EXCEPT ![p] = request]
Update(g, record) == slot' = [slot EXCEPT ![g] = record]

At(p, label) == call[p].pc = label
Goto(p, label) == Become(p, [call[p] EXCEPT !.pc = label])
Return(p) == Become(p, Idle)

\* Requests as they begin: on a slot, or with slots to stop one by one.
Enter(label, g) == [Idle EXCEPT !.pc = label, !.at = g]
Sweep(label, S) == [Idle EXCEPT !.pc = label, !.todo = S]

\* A new request, with a live context of its own.
Call(p, method, request) ==
  /\ At(p, "idle") /\ method \in Calls[p]
  /\ Become(p, request)

Retire(S) ==
  slot' = [g \in Generations |->
             IF g \in S THEN [slot[g] EXCEPT !.stopping = TRUE, !.cancelled = TRUE] ELSE slot[g]]

-----------------------------------------------------------------------------
(* StartConnection.                                                        *)

\* Mutant of Startable: a start does not see the change that is being applied.
StartableChanging(id) == ~closed /\ Configured(id)

Startable(id) == ~closed /\ id \notin changing /\ Configured(id)

\* Mutant of StartCreate: a retiring generation does not hold its route.
StartCreateOver(p, id) ==
  /\ Startable(id) /\ (clients[id] # None => slot[clients[id]].stopping)
  /\ \E g \in Generations :
       /\ slot[g].id = None
       /\ Update(g, NewSlot(id))
       /\ clients' = [clients EXCEPT ![id] = g]
       /\ Call(p, "start", Enter("create", g))
  /\ failedStarts' = failedStarts \ {id}
  /\ UNCHANGED <<closed, closing, desired, connections, changing, inventory>>

\* startSlotLocked: publish a pending generation.
StartCreate(p, id) ==
  /\ Startable(id) /\ clients[id] = None
  /\ \E g \in Generations :
       /\ slot[g].id = None
       /\ Update(g, NewSlot(id))
       /\ clients' = [clients EXCEPT ![id] = g]
       /\ Call(p, "start", Enter("create", g))
  /\ failedStarts' = failedStarts \ {id}
  /\ UNCHANGED <<closed, closing, desired, connections, changing, inventory>>

\* The generation exists: join its startup, whatever became of it.
StartJoin(p, id) ==
  /\ Startable(id) /\ clients[id] # None
  /\ Call(p, "start", Enter("wait_joined", clients[id]))
  /\ UNCHANGED <<registry, slot, inventory>>

\* CreateClient returns a client, an error, or both; nil and a panic are errors.
CreateReturn(p) ==
  LET g == call[p].at IN
  /\ At(p, "create")
  /\ \E client \in {"none", "live"}, err \in BOOLEAN :
       /\ client = "none" => err
       /\ Update(g, [slot[g] EXCEPT !.client = client, !.err = err])
       /\ Goto(p, IF err THEN "record" ELSE "onstart")
  /\ UNCHANGED <<registry, inventory>>

\* OnStart returns; success still fails when the generation was cancelled.
OnStartReturn(p) ==
  LET g == call[p].at IN
  /\ At(p, "onstart")
  /\ \E err \in BOOLEAN :
       /\ slot[g].cancelled => err
       /\ Update(g, [slot[g] EXCEPT !.err = err])
       /\ Goto(p, IF err THEN "record" ELSE "ready")
  /\ UNCHANGED <<registry, inventory>>

\* Mutant of StartRecord: the outcome is kept although the start was retired.
StartRecordStale(p) ==
  /\ At(p, "record")
  /\ failedStarts' = failedStarts \cup {slot[call[p].at].id}
  /\ Goto(p, "ready")
  /\ UNCHANGED <<closed, closing, desired, connections, changing, clients, slot, inventory>>

\* The deferred section that keeps the FAILED outcome of a start in error.
StartRecord(p) ==
  LET g == call[p].at
      s == slot[g]
  IN
  /\ At(p, "record")
  /\ failedStarts' =
       IF clients[s.id] = g /\ ~s.stopping /\ s.id \notin changing /\ ~s.cancelled
       THEN failedStarts \cup {s.id} ELSE failedStarts
  /\ Goto(p, "ready")
  /\ UNCHANGED <<closed, closing, desired, connections, changing, clients, slot, inventory>>

\* close(s.ready); then stop() removes the hook unless it already runs.
StartReady(p) ==
  LET g == call[p].at IN
  /\ At(p, "ready")
  /\ Update(g, [slot[g] EXCEPT !.ready = TRUE, !.hook = IF @ = "armed" THEN "off" ELSE @])
  /\ Goto(p, "wait_created")
  /\ UNCHANGED <<registry, inventory>>

\* select: ready.  A failed or cancelled generation is stopped, by joiners too.
StartObserve(p) ==
  LET s == slot[call[p].at] IN
  /\ At(p, "wait_created") \/ At(p, "wait_joined")
  /\ s.ready
  /\ IF s.err \/ s.cancelled THEN Goto(p, "stop_mark") ELSE Goto(p, "accept")
  /\ UNCHANGED <<registry, slot, inventory>>

\* select: ctx.Done().  Only the creator tears the generation down.
StartAbandon(p) ==
  /\ call[p].done
  /\ \/ At(p, "wait_created") /\ Goto(p, "stop_mark")
     \/ At(p, "wait_joined") /\ Return(p)
  /\ UNCHANGED <<registry, slot, inventory>>

\* The last section: CONNECTED unless retirement began in between.
StartAccept(p) ==
  /\ At(p, "accept")
  /\ Return(p)
  /\ UNCHANGED <<registry, slot, inventory>>

-----------------------------------------------------------------------------
(* stopSlot, shared by starts, stops, inventory changes and Close.         *)

\* Its first section; callers that retired the slot already skip the repeat.
StopMark(p) ==
  /\ At(p, "stop_mark")
  /\ Retire({call[p].at})
  /\ Goto(p, "stop_once")
  /\ UNCHANGED <<registry, inventory>>

\* destroy.Do: the first caller runs the teardown.
StopRun(p) ==
  LET g == call[p].at IN
  /\ At(p, "stop_once")
  /\ slot[g].destroy = "fresh"
  /\ Update(g, [slot[g] EXCEPT !.destroy = "running"])
  /\ Goto(p, "drain")
  /\ UNCHANGED <<registry, inventory>>

\* stopSlot returns; an inventory change joins its teardown error.
StopReturn(p) ==
  /\ IF call[p].after = "idle" THEN Return(p) ELSE Goto(p, call[p].after)
  /\ staged' = IF configMu = p
               THEN [staged EXCEPT !.err = @ \/ slot[call[p].at].destroyErr]
               ELSE staged
  /\ UNCHANGED configMu

\* destroy.Do: later callers block until it is done.
StopJoin(p) ==
  /\ At(p, "stop_once")
  /\ slot[call[p].at].destroy = "done"
  /\ StopReturn(p)
  /\ UNCHANGED <<registry, slot>>

\* <-s.ready; s.users.Wait()
Drain(p) ==
  LET s == slot[call[p].at] IN
  /\ At(p, "drain")
  /\ s.ready /\ s.users = {}
  /\ Goto(p, IF s.client = "none" THEN "unregister" ELSE "onstop")
  /\ UNCHANGED <<registry, slot, inventory>>

OnStopReturn(p) ==
  LET g == call[p].at IN
  /\ At(p, "onstop")
  /\ \E err \in BOOLEAN :
       Update(g, [slot[g] EXCEPT !.client = "stopped", !.destroyErr = err])
  /\ Goto(p, "destroy")
  /\ UNCHANGED <<registry, inventory>>

DestroyReturn(p) ==
  LET g == call[p].at IN
  /\ At(p, "destroy")
  /\ \E err \in BOOLEAN :
       Update(g, [slot[g] EXCEPT !.client = "destroyed", !.destroyErr = @ \/ err])
  /\ Goto(p, "unregister")
  /\ UNCHANGED <<registry, inventory>>

\* Mutant of Unregister: the retired generation keeps its registry entry.
UnregisterNot(p) ==
  /\ At(p, "unregister")
  /\ Update(call[p].at, [slot[call[p].at] EXCEPT !.destroy = "done"])
  /\ StopReturn(p)
  /\ UNCHANGED registry

Unregister(p) ==
  LET g == call[p].at IN
  /\ At(p, "unregister")
  /\ clients' = IF clients[slot[g].id] = g THEN [clients EXCEPT ![slot[g].id] = None] ELSE clients
  /\ Update(g, [slot[g] EXCEPT !.destroy = "done"])
  /\ StopReturn(p)
  /\ UNCHANGED <<closed, closing, desired, connections, changing, failedStarts>>

-----------------------------------------------------------------------------
(* StopConnection and Close.                                               *)

StopConnection(p, id) ==
  /\ ~closed /\ Configured(id)
  /\ Call(p, "stop", [Idle EXCEPT !.pc = "stop_lookup", !.route = id])
  /\ UNCHANGED <<registry, slot, inventory>>

\* The profile may be gone, and the controller closed, by the time mu is held.
StopLookup(p) ==
  LET g == clients[call[p].route] IN
  /\ At(p, "stop_lookup")
  /\ failedStarts' = failedStarts \ {call[p].route}
  /\ Retire({g})
  /\ IF g = None THEN Return(p)
     ELSE Become(p, [call[p] EXCEPT !.pc = "stop_once", !.at = g])
  /\ UNCHANGED <<closed, closing, desired, connections, changing, clients, inventory>>

Registered == {clients[id] : id \in Ids} \ {None}

\* Mutant of Close: generations that are still starting are overlooked.
CloseStarted(p) ==
  LET started == {g \in Registered : slot[g].ready} IN
  /\ closing = "fresh"
  /\ Call(p, "close", Sweep("close_next", started))
  /\ closing' = "running"
  /\ closed' = TRUE
  /\ Retire(started)
  /\ UNCHANGED <<desired, connections, changing, failedStarts, clients, inventory>>

Close(p) ==
  /\ closing = "fresh"
  /\ Call(p, "close", Sweep("close_next", Registered))
  /\ closing' = "running"
  /\ closed' = TRUE
  /\ slot' = [g \in Generations |->
                [slot[g] EXCEPT !.stopping = @ \/ g \in Registered,
                                !.cancelled = @ \/ slot[g].id # None]]
  /\ UNCHANGED <<desired, connections, changing, failedStarts, clients, inventory>>

\* closeOnce makes a concurrent Close wait for the first.
CloseAgain(p) ==
  /\ closing # "fresh"
  /\ Call(p, "close", Enter("close_join", None))
  /\ UNCHANGED <<registry, slot, inventory>>

CloseJoined(p) ==
  /\ At(p, "close_join")
  /\ closing = "done"
  /\ Return(p)
  /\ UNCHANGED <<registry, slot, inventory>>

\* The loop over retired slots, in Close and in applyInventory.
StopNext(p, loop) ==
  /\ At(p, loop)
  /\ \E g \in call[p].todo :
       Become(p, [call[p] EXCEPT !.pc = "stop_once", !.at = g, !.after = loop, !.todo = @ \ {g}])
  /\ UNCHANGED <<registry, slot, inventory>>

CloseReturn(p) ==
  /\ At(p, "close_next") /\ call[p].todo = {}
  /\ Return(p)
  /\ closing' = "done"
  /\ UNCHANGED <<closed, desired, connections, changing, failedStarts, clients, slot, inventory>>

-----------------------------------------------------------------------------
(* Leases: lease, WithConnection, WithClient, CheckConnection and every    *)
(* dispatch method around its provider callback.                           *)

LeaseLookup(p, id) ==
  LET g == clients[id] IN
  /\ ~closed
  /\ g # None
  /\ ~slot[g].stopping
  /\ Call(p, "lease", Enter("lease_wait", g))
  /\ UNCHANGED <<registry, slot, inventory>>

LeaseAbandon(p) ==
  /\ At(p, "lease_wait")
  /\ call[p].done \/ closed
  /\ Return(p)
  /\ UNCHANGED <<registry, slot, inventory>>

\* Mutant of Admissible: retirement since the lookup is not noticed.
AdmissibleStale(g) == ~slot[g].err /\ ~closed

\* The lookup is stale by now: admission checks the slot again.
Admissible(g) ==
  LET s == slot[g] IN ~s.err /\ ~s.stopping /\ ~closed /\ clients[s.id] = g

\* Mutant of LeaseAdmit: a refused lease waits on, as if for another start.
LeaseAdmitWaits(p) ==
  LET g == call[p].at IN
  /\ At(p, "lease_wait")
  /\ slot[g].ready /\ Admissible(g)
  /\ Update(g, [slot[g] EXCEPT !.users = @ \cup {<<p, 1>>}])
  /\ Goto(p, "leased")
  /\ UNCHANGED <<registry, inventory>>

LeaseAdmit(p) ==
  LET g == call[p].at IN
  /\ At(p, "lease_wait")
  /\ slot[g].ready
  /\ IF Admissible(g)
     THEN /\ Update(g, [slot[g] EXCEPT !.users = @ \cup {<<p, 1>>}])
          /\ Goto(p, "leased")
     ELSE Return(p) /\ UNCHANGED slot
  /\ UNCHANGED <<registry, inventory>>

\* A callback reenters the controller with its lease context; a generation
\* that is no longer current is refused and the callback goes on.
LeaseNested(p) ==
  LET g == call[p].at
      s == slot[g]
  IN
  /\ At(p, "leased")
  /\ ~closed /\ ~call[p].done
  /\ clients[s.id] = g /\ ~s.stopping /\ ~s.cancelled
  /\ Update(g, [slot[g] EXCEPT !.users = @ \cup {<<p, 2>>}])
  /\ Goto(p, "nested")
  /\ UNCHANGED <<registry, inventory>>

Release(p, depth) ==
  LET g == call[p].at IN Update(g, [slot[g] EXCEPT !.users = @ \ {<<p, depth>>}])

NestedReturn(p) ==
  /\ At(p, "nested")
  /\ Release(p, 2)
  /\ Goto(p, "leased")
  /\ UNCHANGED <<registry, inventory>>

LeaseReturn(p) ==
  /\ At(p, "leased")
  /\ Release(p, 1)
  /\ Return(p)
  /\ UNCHANGED <<registry, inventory>>

-----------------------------------------------------------------------------
(* Inventory mutation under configMu.                                      *)

\* Display-only edits do not replace a client.
SameConnectionClientConfig(a, b) == a.public = b.public /\ a.private = b.private

\* An override without private data takes it from the first source whose
\* public configuration it repeats: native discovery, then the published one.
InheritOverlayCredentials(override, native, published) ==
  LET Inherits(c) == override.private = Nil /\ c # Absent /\ c.public = override.public
      From(c) == [override EXCEPT !.private = c.private]
  IN IF Inherits(native) THEN From(native)
     ELSE IF Inherits(published) THEN From(published) ELSE override

Effective(d) ==
  [id \in Ids |->
     IF d.overrides[id] # Absent
     THEN InheritOverlayCredentials(d.overrides[id], d.native[id], connections[id])
     ELSE IF id \in d.disabled THEN Absent ELSE d.native[id]]

\* stageInventory: IDs added, removed or given another client configuration.
Changed(effective) ==
  {id \in Ids :
     IF Configured(id) /\ effective[id] # Absent
     THEN ~SameConnectionClientConfig(connections[id], effective[id])
     ELSE Configured(id) \/ effective[id] # Absent}

\* applyInventory up to the first unlock of mu.
Apply(p, method, d) ==
  LET effective == Effective(d)
      changed == Changed(effective)
      retired == {clients[id] : id \in changed} \ {None}
  IN
  /\ configMu = None
  /\ ~closed
  /\ Call(p, method, Sweep("apply_next", retired))
  /\ configMu' = p
  /\ staged' = [desired |-> d, connections |-> effective, changed |-> changed, err |-> FALSE]
  /\ changing' = changing \cup changed
  /\ failedStarts' = failedStarts \ changed
  /\ Retire(retired)
  /\ UNCHANGED <<closed, closing, desired, connections, clients>>

\* Also LoadConnections: discovery runs before configMu and yields any snapshot.
ApplyConnections(p, native) == Apply(p, "load", [desired EXCEPT !.native = native])

\* Upserts and disabled IDs of a valid overlay are disjoint.
ApplyConnectionOverlay(p, overrides, disabled) ==
  /\ \A id \in disabled : overrides[id] = Absent
  /\ Apply(p, "overlay", [desired EXCEPT !.overrides = overrides, !.disabled = disabled])

UpdateConnection(p, id, profile) ==
  Apply(p, "update", [desired EXCEPT !.overrides[id] = profile, !.disabled = @ \ {id}])

DeleteConnection(p, id) ==
  /\ Configured(id)
  /\ Apply(p, "delete",
           [desired EXCEPT !.overrides[id] = Absent,
                           !.disabled = IF desired.native[id] # Absent THEN @ \cup {id} ELSE @ \ {id}])

\* Mutants of ApplyPublish: with slots left to stop; the desired state of a
\* failed change is kept.
ApplyPublishEarly(p) ==
  /\ At(p, "apply_next")
  /\ Return(p)
  /\ IF staged.err \/ call[p].done \/ closed
     THEN UNCHANGED <<desired, connections>>
     ELSE desired' = staged.desired /\ connections' = staged.connections
  /\ changing' = changing \ staged.changed
  /\ configMu' = None
  /\ staged' = NothingStaged
  /\ UNCHANGED <<closed, closing, failedStarts, clients, slot>>

ApplyPublishPartly(p) ==
  /\ At(p, "apply_next") /\ call[p].todo = {}
  /\ Return(p)
  /\ desired' = staged.desired
  /\ connections' = IF staged.err \/ call[p].done \/ closed THEN connections ELSE staged.connections
  /\ changing' = changing \ staged.changed
  /\ configMu' = None
  /\ staged' = NothingStaged
  /\ UNCHANGED <<closed, closing, failedStarts, clients, slot>>

\* The rest of applyInventory: publish, or keep the prior desired state.
ApplyPublish(p) ==
  /\ At(p, "apply_next") /\ call[p].todo = {}
  /\ Return(p)
  /\ IF staged.err \/ call[p].done \/ closed
     THEN UNCHANGED <<desired, connections>>
     ELSE desired' = staged.desired /\ connections' = staged.connections
  /\ changing' = changing \ staged.changed
  /\ configMu' = None
  /\ staged' = NothingStaged
  /\ UNCHANGED <<closed, closing, failedStarts, clients, slot>>

\* The status snapshot, taken in one section under mu.
GetConnectionStatus(id) ==
  LET g == clients[id]
      current == g # None /\ ~slot[g].stopping /\ id \notin changing /\ ~slot[g].cancelled
  IN CASE ~Configured(id) -> "NOT_FOUND"
       [] Configured(id) /\ id \in failedStarts -> "FAILED"
       [] Configured(id) /\ id \notin failedStarts /\ ~current -> "DISCONNECTED"
       [] Configured(id) /\ id \notin failedStarts /\ current ->
            IF ~slot[g].ready THEN "PENDING" ELSE IF slot[g].err THEN "FAILED" ELSE "CONNECTED"

-----------------------------------------------------------------------------
(* Contexts.                                                               *)

Starting == {"create", "onstart", "record", "ready"}

\* Where a method still looks at its context.
HeedsContext(p) ==
  \/ call[p].pc \in Starting \cup {"wait_created", "wait_joined", "lease_wait", "leased", "nested"}
  \/ configMu = p

\* A caller's context ends; the creator's AfterFunc hook starts to run.
CancelCaller(p) ==
  LET g == call[p].at IN
  /\ HeedsContext(p) /\ ~call[p].done
  /\ Become(p, [call[p] EXCEPT !.done = TRUE])
  /\ IF call[p].pc \in Starting
     THEN Update(g, [slot[g] EXCEPT !.hook = IF @ = "armed" THEN "fired" ELSE @])
     ELSE UNCHANGED slot
  /\ UNCHANGED <<registry, inventory>>

\* context.AfterFunc runs s.cancel in its own goroutine, some time later.
HookRuns(g) ==
  /\ slot[g].hook = "fired"
  /\ Update(g, [slot[g] EXCEPT !.hook = "off", !.cancelled = TRUE])
  /\ UNCHANGED <<registry, inventory, call>>

-----------------------------------------------------------------------------
Snapshots == [Ids -> Offered \cup {Absent}]

\* A caller enters the controller.
Begin(p) ==
  \/ \E id \in Ids : StartCreate(p, id) \/ StartJoin(p, id) \/ StopConnection(p, id) \/ LeaseLookup(p, id)
  \/ Close(p) \/ CloseAgain(p)
  \/ \E native \in Snapshots : ApplyConnections(p, native)
  \/ \E overrides \in Snapshots, disabled \in SUBSET Ids : ApplyConnectionOverlay(p, overrides, disabled)
  \/ \E id \in Ids, profile \in Offered : UpdateConnection(p, id, profile)
  \/ \E id \in Ids : DeleteConnection(p, id)

\* A caller already inside takes its next step.
Step(p) ==
  \/ CreateReturn(p) \/ OnStartReturn(p) \/ StartRecord(p) \/ StartReady(p)
  \/ StartObserve(p) \/ StartAbandon(p) \/ StartAccept(p)
  \/ StopLookup(p) \/ StopMark(p) \/ StopRun(p) \/ StopJoin(p) \/ Drain(p)
  \/ OnStopReturn(p) \/ DestroyReturn(p) \/ Unregister(p)
  \/ CloseJoined(p) \/ StopNext(p, "close_next") \/ CloseReturn(p)
  \/ LeaseAbandon(p) \/ LeaseAdmit(p) \/ NestedReturn(p) \/ LeaseReturn(p)
  \/ StopNext(p, "apply_next") \/ ApplyPublish(p)

Next ==
  \/ \E p \in Callers : Begin(p) \/ Step(p) \/ LeaseNested(p) \/ CancelCaller(p)
  \/ \E g \in Generations : HookRuns(g)

Spec == Init /\ [][Next]_vars

(***************************************************************************)
(* Callbacks are required to terminate (a leased one reenters only         *)
(* finitely often, hence SF) and the runtime schedules every goroutine;    *)
(* nobody is required to enter the controller, to reenter it or to cancel. *)
(***************************************************************************)
Fairness ==
  /\ \A p \in Callers : WF_vars(Step(p)) /\ SF_vars(LeaseReturn(p))
  /\ \A g \in Generations : WF_vars(HookRuns(g))

FairSpec == Spec /\ Fairness

-----------------------------------------------------------------------------
(* Properties.                                                             *)

TypeOK ==
  /\ closed \in BOOLEAN
  /\ closing \in {"fresh", "running", "done"}
  /\ desired \in Desired
  /\ connections \in Inventory
  /\ changing \in SUBSET Ids
  /\ failedStarts \in SUBSET Ids
  /\ clients \in [Ids -> Generations \cup {None}]
  /\ slot \in [Generations -> Slots]
  /\ configMu \in Callers \cup {None}
  /\ staged \in [desired : Desired, connections : Inventory, changed : SUBSET Ids, err : BOOLEAN]
  /\ call \in [Callers -> Requests]

\* Client states between a successful CreateClient and the end of DestroyClient.
Alive(g) == slot[g].client \in {"live", "stopped"}

\* stopSlot has called OnStop or DestroyClient on g.
TornDown(g) ==
  \/ slot[g].client \in {"stopped", "destroyed"}
  \/ \E p \in Callers : call[p].at = g /\ call[p].pc \in {"onstop", "destroy"}

\* No callback borrows a client whose teardown callbacks have begun, or a
\* client whose start failed: lease admission (users.Add) and retirement
\* (users.Wait) never overlap, however lookup, retirement and Close interleave.
NoUseAfterTeardown ==
  \A g \in Generations :
    slot[g].users # {} => slot[g].client = "live" /\ ~slot[g].err /\ ~TornDown(g)

\* A connection never has two native clients at once: a restart waits until
\* the previous generation's DestroyClient has returned.
OneClientPerConnection ==
  \A g, h \in Generations :
    Alive(g) /\ Alive(h) /\ slot[g].id = slot[h].id => g = h

\* A client that can still be leased was built from the client configuration
\* that is published: a changed profile never reaches an old generation.
ServesPublishedProfile ==
  \A id \in Ids :
    LET g == clients[id] IN
    g # None => \/ slot[g].stopping
                \/ Configured(id) /\ SameConnectionClientConfig(slot[g].profile, connections[id])

\* What GetConnectionStatus reports is true of the registry: CONNECTED names a
\* live client of the published configuration, PENDING a startup that somebody
\* is running, FAILED a configured profile without a usable client.
StatusIsTruthful ==
  ~closed => \A id \in Ids :
    LET g == clients[id]
        status == GetConnectionStatus(id)
    IN
    /\ status = "CONNECTED" =>
         /\ slot[g].client = "live" /\ ~TornDown(g)
         /\ SameConnectionClientConfig(slot[g].profile, connections[id])
    /\ status = "PENDING" => \E p \in Callers : call[p].at = g /\ call[p].pc \in Starting
    /\ id \in failedStarts =>
         /\ status = "FAILED"
         /\ g # None => slot[g].err

\* The published inventory is what native discovery, overrides and tombstones
\* of the same publication say, up to inherited private data; and no connection
\* is still held back from starting when no change is in progress, whether the
\* last one was published, had a teardown that failed, was cancelled or met Close.
PublishedMatchesDesired ==
  /\ configMu = None => changing = {}
  /\ \A id \in Ids :
       LET want == IF desired.overrides[id] # Absent THEN desired.overrides[id]
                   ELSE IF id \in desired.disabled THEN Absent ELSE desired.native[id]
       IN IF want = Absent THEN ~Configured(id)
          ELSE /\ Configured(id)
               /\ connections[id].public = want.public
               /\ want.private # Nil => connections[id].private = want.private

\* When Close has returned, every native client is destroyed and no lease is
\* out, also for starts that were still inside CreateClient when it began.
CloseLeavesNothing ==
  closing = "done" => \A g \in Generations : ~Alive(g) /\ slot[g].users = {}

\* Publication never overtakes draining: an inventory is published only when
\* no native client of a replaced or removed client configuration is left.
DrainBeforePublish ==
  [][\A g \in Generations :
       LET id == slot[g].id IN
       Alive(g) /\ connections'[id] # connections[id]
         => connections'[id] # Absent /\ SameConnectionClientConfig(slot[g].profile, connections'[id])]_vars

\* A start that was reported CONNECTED belongs to the controller: once its
\* creator has returned, only retirement or Close cancels the generation.  Until
\* then its request may still cancel it, also on the way to stopSlot after the
\* request ended or the start failed.
AcceptedOutlivesRequest ==
  [][\A g \in Generations :
       slot'[g].cancelled /\ ~slot[g].cancelled =>
         \/ slot'[g].stopping \/ closed'
         \/ \E p \in Callers :
              call[p].at = g /\ call[p].pc \in Starting \cup {"wait_created", "accept", "stop_mark"}]_vars

\* Every request that got past configMu returns, whatever mixture of starts,
\* stops, leases, inventory changes and Close it meets: destroy.Do, users.Wait,
\* ready and closeOnce never wait for each other in a cycle.
EveryCallReturns == \A p \in Callers : ~At(p, "idle") ~> At(p, "idle")

\* A generation whose retirement began is destroyed and leaves the registry.
RetirementCompletes ==
  \A g \in Generations :
    slot[g].stopping ~> slot[g].destroy = "done" /\ ~Alive(g) /\ g \notin Registered
=============================================================================
