# Verification of the plugin SDK

TLA+ models of the concurrent core of `omniviewdev/plugin-sdk`, the TLC runs
that check them and the TLAPS proofs about them. `PROJECT.json` is the index:
components, runs, mutants, the map from definitions to source lines, findings,
hazards and theorems.

## The system

A plugin process serves a host over gRPC. The SDK supplies the process's
managers; provider callbacks written by plugin authors do the native work.

| Component | State | Operations | Hard behaviour |
|---|---|---|---|
| **Configured-client registry** `resource/v2/controller_lifecycle.go` | `clients` (one `clientSlot` generation per connection ID), `failedStarts`, `closed`; per slot `ready`, `err`, `stopping`, `users`, `destroy`, a context | `StartConnection`, `StopConnection`, `lease` (under `WithConnection`, `WithClient`, `CheckConnection` and every dispatch), `GetConnectionStatus`, `Close` | starts joined by others, stops during starts, leases admitted after a wait, teardown joined through `sync.Once`, three sources of cancellation |
| **Connection inventory** `controller_inventory.go` | `nativeConnections`, `overrides`, `disabled`, the published `connections`, `changing` | `LoadConnections`, `ApplyConnections`, `ApplyConnectionOverlay`, `UpdateConnection`, `DeleteConnection` | two critical sections with draining in between, several teardowns of which one may fail, inherited private data |
| **Connection metadata** `controller_metadata.go` | revisioned snapshot per connection, the running acquisition, watchers with a queue of 64 | get, refresh, invalidate, watch; hooks in start, stop and publication | observations that outlive their generation, slow watchers |
| **Catalog admission and dispatch** `controller_admission.go`, `controller_dispatch.go` | none of its own; the catalog revision is bound to the generation's nonce | `Catalog`, `Get`, `Enumerate`, `Mutate`, `Action`, ... each `resolve`, callback, `fenceCatalog` | a catalog that changes during a callback; intersection and containment of scopes |
| **Source sessions** `controller_source.go`, `source_phase.go`, `plugin/source.go`, `plugin/source_client.go` | phase and sequence at both ends, a queue of one delivery, the stall timer | begin, snapshot, end, changes, reset, failure; close, transport loss | order of frames, stalls racing acknowledgements, binding resets from several sources |
| **Settings** `settings/provider.go`, `pkg/v1/settings` | store, cancelable write lock, change handlers | commit, set, reset, register, RPC forms | persistence before publication, notification outside the lock |
| **Log sessions** `pkg/v1/logs/manager.go` | session map, status, source contexts, readiness counters, semaphore | create, update options, pause, resume, close; source fan-out, reconnect, source events | status forced by several goroutines, sources disabled and enabled again, readiness threshold |
| **Exec sessions** `pkg/v1/exec/manager.go` | session map, attach flag, output buffer, workers | create, attach, detach, write, resize, close | output against attach and against the close signal; `Close` against creation |
| **Port forwards** `pkg/v1/networker/manager.go` | session map, per-session state machine, `stopped` | start (static and resource), monitor, close, `StopAll` | publication against `StopAll`, late forwarder errors, retained leases |
| **Metric lanes** `pkg/v1/metric/manager.go` | subscriptions per owner, admitted IDs with a byte budget | query, subscribe, unsubscribe, polling | output of retired subscriptions, budget accounting |

The managers borrow native clients from the registry through `WithConnection`;
settings, host bindings, tools, commands and the transport sit around them.
Codecs, validation of single messages, configuration, logging, telemetry and
the conformance corpus have no protocol of their own and are not modelled.

## Modules

- `ResourceController.tla`: the registry and the inventory in one state machine,
  since a start, a lease, a stop, an inventory change and `Close` share one
  mutex and one set of slots.
- `MCResourceController.tla`: the instances TLC checks.
- `ResourceControllerProofs.tla`: theorems and proofs.
- `PortForward.tla`: the session manager of `pkg/v1/networker` and the leases its
  tunnels hold; `MCPortForward.tla`, `PortForwardProofs.tla` as above.
- `ConnectionMetadata.tla`: the metadata snapshots, the observations that refresh
  them and the watchers; `MCConnectionMetadata.tla`, `ConnectionMetadataProofs.tla`.
  `MetadataFeed.tla` is the abstract specification of watching, which it is shown and
  proved to implement.
- `SourceSession.tla`: one source session from the provider's callback through
  controller, emitter, handler and transport to the host; `MCSourceSession.tla`,
  `SourceSessionProofs.tla`.
- `SettingsCommit.tla`: the settings provider composed with the commit stream
  between host and plugin; `MCSettingsCommit.tla`, `SettingsCommitProofs.tla`.
- `LogSession.tla`, `ExecSession.tla`, `MetricLane.tla`: the managers of log
  sessions, terminal sessions and metric streams, each with its `MC` module and its
  `Proofs` module.

`PortForward`, `LogSession`, `ExecSession` and `MetricLane` borrow clients from the
registry. Each models the registry by what `UseSafety` proves of it: a lease is
admitted until the generation retires, retirement cancels the contexts of its
leases and waits until they are returned.

### How `ResourceController` follows the code

A *caller* is one goroutine inside one exported method; `call[p]` is its program
counter, its slot, the slots it still has to stop, and whether its own context
has ended. Every section between `mu.Lock` and `mu.Unlock` is one atomic action.
Everything that blocks or runs outside the mutex is a step of its own: the
provider callbacks (`CreateReturn`, `OnStartReturn`, `OnStopReturn`,
`DestroyReturn`), the deferred record of a failed start and `close(ready)`, the
selects on readiness, `destroy.Do`, `users.Wait` and the goroutine that
`context.AfterFunc` starts.

| Code | Model |
|---|---|
| `StartConnection`, `startSlotLocked`, `startClient` | `StartCreate`/`StartJoin`, `CreateReturn`, `OnStartReturn`, `StartRecord`, `StartReady`, `StartObserve`, `StartAbandon`, `StartAccept` |
| `stopSlot` | `StopMark`, `StopRun`/`StopJoin`, `Drain`, `OnStopReturn`, `DestroyReturn`, `Unregister`, `StopReturn` |
| `StopConnection` | `StopConnection` (the check), `StopLookup` (the section under `mu`), then `stopSlot` |
| `lease` and its users | `LeaseLookup`, `LeaseAbandon`, `LeaseAdmit`, `LeaseNested` (the reentrant lease a callback takes with its own context), `NestedReturn`, `LeaseReturn` |
| `applyInventory` | `Apply` up to the first unlock, `StopNext` and `stopSlot` for each retired slot, `ApplyPublish` |
| its callers | `ApplyConnections`, `ApplyConnectionOverlay`, `UpdateConnection`, `DeleteConnection` |
| `Close` | `Close`, `StopNext`, `CloseReturn`; `CloseAgain`, `CloseJoined` for later callers |
| contexts | `done` (a caller's), `cancelled` (a slot's), `closed` (the controller's); `CancelCaller`, `HookRuns` |

Abstractions, and why they lose nothing the properties speak of:

- A connection profile is a record of three opaque parts: what a client is built
  from (`public`), the private data, and everything `SameConnectionClientConfig`
  ignores (`display`). `Nil` private data differs from any other, as in the code.
- A callback returns after any delay with any outcome; a panic is an error, and
  `CreateClient` may return a client together with an error. Error values are
  one bit.
- `users` is the set of outstanding leases rather than a counter, so the model
  knows whose lease it is; a request holds at most one reentrant lease at a time.
- A caller waiting for `configMu` is one that has not entered yet. A change that
  leaves the inventory untouched after an early return (invalid input, ended
  context, closed controller) is no step.
- `LoadConnections` is `ApplyConnections` of an arbitrary snapshot, because
  discovery runs before the lock.
- The controller has a lifecycle and no metadata callback; then
  `metadataAdmitLocked` and `metadataStopLocked` return at once.
- `Generations` bounds how many slots a run can allocate; the code allocates
  without bound. It is a named constant and the proofs hold for any set.

### How `PortForward` follows the code

A *start* is one request and the one `sessionEntry` it may publish. `start[p]`
holds the program counters of its goroutines, its request and the `AfterFunc` hook
between them; `tunnel[p]` holds the native tunnel, the entry and its monitor.

| Code | Model |
|---|---|
| `StartPortForwardSession` | `StartPortForwardSession`, the worker's steps, `CreationReturns` |
| `StartResourcePortForwardSession` | `StartResourcePortForwardSession` (outer lease, first catalog check), `CreatedReceived`, `Fence` (the end of `WithUtilityConnection`), `Detach` (`stopRequest`, last look at the request), `Cleanup` and a close |
| goroutine of `startLeasedPortForward` | `WorkerLease`, creation, `Hold` |
| `createPortForwardSession` | `Begin`, `ForwarderReturns`, `WaitForwarderReady`, `AdmitCreated`, `PublishSession`; every early return is `Fail` |
| `monitorSession` | `MonitorWakes` (the select), `MonitorTransitions`, `MonitorExits` (the deferred calls) |
| `ClosePortForwardSession` | `CloseLookup` (the section under `mu`), `CloseCancel`, `CloseReturn` |
| `StopAll` | `StopAll` (the section under `mu`), `StopAllReturn` (`wg.Wait` or the timeout) |
| contexts and registry | `CancelRequest`, `HookRuns`, `Retire`, `RetireReaches`, `Drained` |
| forwarders (external) | `ForwarderReturns`, `WaitForwarderReady`, `NativeEnds` |

Abstractions, and why they lose nothing the properties speak of:

- A context is the cause it was cancelled with, or `live`. The tunnel's context is
  a child of its lease's and of `lifetime`, and the first cancellation anywhere up
  that chain decides the cause, so one field stands for the chain.
- What a forwarder sends is `clean` (channel closed, nil, or a sentinel error:
  the monitor treats them alike), an `error`, or a `late` error, one sent after
  an intentional stop. The code cannot tell the last two apart and the actions do
  not either; only `CloseIsNotFailure` does.
- A native tunnel ends only while its monitor is in the select. One that ends
  earlier fails the creation, or is found by the monitor's first select.
- `WaitForwarderReady` may always fail: an error, the end of the context and the
  timer are all possible, and nothing depends on which.
- The registry is one generation that admits leases until it retires, cancels
  their contexts and waits for them: what `UseSafety` proves of
  `ResourceController`. One is enough, since the inner lease of a start is pinned
  to the generation of the outer one.
- Ports, labels, protocols and the forwarder tables decide only whether a creation
  fails. Get, List and Find take snapshots and change nothing; no code pauses a
  session, so `PAUSED` is in the type only.

`Named` bounds the IDs forwarders supply, `Events` switches what else may happen
in a run; the proofs hold for any choice of both.

### How `ConnectionMetadata` follows the code

Everything here runs under `Controller.mu`, so each section is one action; what is
delicate is what happens between sections. Generations and inventory are reduced to
what the metadata hooks see of them.

| Code | Model |
|---|---|
| `metadataPublishLocked` | `Publish` (an unchanged snapshot is no revision), `News` and `Offer` (a full queue drops the watcher), `Announce` |
| `metadataAdmitLocked` | `Admit`, when a start has returned and its slot still serves |
| `metadataStopLocked` | `Stop`, in `StopSlot`, in the stop of a change's retired slots and in `Close` |
| `metadataInventoryLocked` | `PublishInventory`: tombstones for removed IDs, cleared snapshots for changed ones |
| `metadataAcquireLocked`, `metadataObserve` | `Acquire`, `Observing` (the goroutine counts as a user of its slot); the callback returns and its result is committed or discarded in `ObserveCommits` or `ObserveRetired`, which starts the next observation when one is pending; `ObserveReturns` releases the slot |
| `RefreshConnectionMetadata` | the method, `RefreshAbandon` (its context ended), `Answer` |
| `InvalidateConnectionMetadata` | the method: a new observation, or a pending one |
| `WatchConnectionMetadata` | the method (subscription and replay list in one section), `WatchReplays`, `WatchTakes`, `WatchDelivers`, `WatchIsTold` (the queue overflowed or the controller closed), `WatchLeaves` |

Abstractions:

- An entry is its state and the generation that observed it; values, labels and
  times are left out. `GetConnectionMetadata` changes nothing: a configured ID
  always has a snapshot (`TombstonesAreTruthful`), so its lazy initialisation never
  runs.
- A change announces several IDs in an order that Go's map iteration leaves open:
  `Offer` takes any order.
- The goroutine of an observation releases its use of the slot after the section
  that commits its result. Hence a new generation of the same ID cannot be admitted
  while an old observation is still running, and the branches of
  `controller_metadata.go` that take a job over from an older slot are not reachable
  (`RefreshingIsTruthful` states what makes them so, and it is proved).

### How `SourceSession` follows the code

| Code | Model |
|---|---|
| `SourcePhaseTracker.admit` at both ends | `Admits`, `Advance` |
| `controllerSourceEmitter` methods, `fence`, `bindingReset` | `Emit` (the fence passed), `EmitFenced` (it did not, and a reset is sent instead) |
| `sourceEmitter` methods, `send`, `sendEncoded` | `Lock`/`LockHeld`, `SendRefused`/`SendAdmitted`, `Enqueue`, `SendAbandoned`, `Acknowledged`; `Leave` is what the method leaves behind |
| `OpenSource` | `SourceReturns`, `SourceReturnsReset` (a binding reset of its own on the way out) |
| goroutine of `sourceOpenHandler` | `JudgeDone`, `JudgeUnfinished`, `JudgeRefused`, `JudgeLast` |
| its select loop and sender | `LoopTakes`, `LoopHands`, `Sends`, `SendFails`, `LoopSent`, `LoopStalls`, `LoopBreaks`, `LoopDone` |
| `sourceClientStream`, `sourceDeadline` | `Recv`, `RecvEnds`, `RecvExpires`, `HostCloses`, `Arm`, `Disarm`, `TimerRuns` |

Abstractions:

- A frame is its kind and sequence number. Whether its contents pass the checks and
  limits is a choice (`"limit"` in `Events`); a `Snapshot` is split into at most two
  frames.
- A change of the catalog and the retirement of the generation have the same
  effect, a binding reset; a fence may notice the first at any emission. That a
  fence looks at most once a second is about time and left out, as is the mutex that
  serialises those looks.
- The context a callback emits with has ended once the generation retired or a
  binding reset was sent; the callback may also use another one, so an emission may
  then be refused or not.
- The transport holds `Window` frames. A broken stream may lose what it holds.
- A stop of the stall timer that comes too late reads the timer's channel; since the
  timer has fired by then, or the stop has drained it, this does not block.
- With limits that refuse even a reset and a failure frame, a call can end with
  status OK and no terminal frame; the host then reports `RESET_REQUIRED`. A host
  may ask for such limits (`MinSourceFrameBytes` is 1), and is then told nothing
  false; `OkMeansComplete` is about the others and checked without `"limit"`.

### How `SettingsCommit` follows the code

A *writer* is one call that changes settings. `pc[w]` is where it is in the
provider; a remote writer has a second program counter, `client[w]`, on the host's
side of the stream, and one message in flight in each direction.

| Code | Model |
|---|---|
| `Client.CommitSettings` | `Propose`, `ReceivePrepared`, `Persist`, `SendAck`, `ReceiveResult`; every return is `Answer` |
| `Server.CommitSettings` and its persist callback | `ReceiveProposal`, `Offer`, `ReceiveAck`, `Return` |
| `Provider.lock`, `commitSettings` | `Lock` (or the context ended), `Prepare`, `Check` (the last look at the context), `PersistLocally` or the callback, `Publish` |
| `ResetSetting`, `RegisterSettings`, `RegisterChangeHandler` | actions of these names |
| `notifyChangeHandlers` | `SnapshotHandlers`, then `ReadCategory` and `CallHandler` per category, `Finish` |
| end of a call, broken stream, the client's timeout | `Cut` |

A message that is on its way when the stream is cut may be lost or still be
received, at either end. A value is a model value with a type; `Normal` says what
normalization makes of a raw value of a type and which ones are refused, so a
stored value differs from the one that was sent. Validators, the persist function
and handlers are external and return. The result goes to the host only after the
handlers have run, which is why a commit that has been applied can still end as
`uncertain`. `durable` is the host's storage; `unsaved` remembers which settings the
plugin changed without storing them since they were last saved (`ResetSetting` and
`SetSettings` do that by design), so that `DurableIsAppliedOrInDoubt` does not blame a
commit for it. It is empty at first, and persisting a setting takes it out again: the
first commit of a setting and a commit after a reset answer for what they save.

Two things the code does that no property forbids: a handler can be given older
values after newer ones, since each writer reads and calls without a lock
(`ChangesAreNotified` therefore speaks of the newest version a handler was given),
and a registration that gives a setting another type resets its value without
calling a handler.

### How `LogSession` follows the code

| Code | Model |
|---|---|
| `CreateSession`, `CreateResourceSession`, `createSession` | `CreateResourceSession`, `Acquire` (the lease), `Register` (session, lookup and start of the orchestrator under `mu`), `Accept` or `Abandon`, `Release` (the lease, when the session is done) |
| `orchestrateSession`, `finalizeSession` | `ResolveFails`, `SetSources` (the sources become visible to updates), `SetInitial` (`totalSources`, `initialSourceIDs`), `Initialize` (the transition, the watcher, `fanOutSources`); `Drained` (the waits), `CheckStatus`, `FinalizeSession` (the write) |
| `launchSource`, `launchRegisteredSource` | `LaunchSource`, `Dequeue` (the semaphore) |
| `streamWithReconnect`, `openSourceReader`, `consumeSourceReader` | `Attempt`, `GiveUp`, `OpenSourceReader`, `ReadEnds`, `Retry` |
| `markSourceReady`, `transition`, `setStatus` | `MarkSourceReady` with `Total`, `Transition`, `SetStatus` |
| `watchSourceEvents` | `SourceAdded`, `SourceRemoved`, `WatchEnds` |
| `UpdateSessionOptions`, `updateEnabledSources` | `UpdateSessionOptions` (lookup), `UpdateEnabledSources` (the section under `ss.mu`), `RestartSource` |
| `handleCommands` | `ReadCommand` (lookup), `ApplyCommand`; its end is `CloseAll` |
| `CloseSession`, `Close` | `CloseSession` (the section under `mu`), `CloseCancels`; `Close` |

A goroutine of a source is named by session, source and launch number, because one
source can have two: its entry in `sourceCtxs` is deleted by a deferred call of
whichever goroutine ends first, after which an enabled source is launched again
beside the one that runs. The registration of a session and the start of its
orchestrator are one step, as are a cancellation and the status set right after it.
The active sources are a set. Lines, events and back-off times are left out;
whoever reads the output is taken to go on reading it, and the ten seconds
`CloseSession` waits are not modelled, since it returns either way.

`orchestrate` is where `orchestrateSession` is between two of its lock sections:
`resolve`, `sources`, `initial`, `stream`, then `check` and `close` inside
`finalizeSession`, and `done`. `UpdateSessionOptions` acts in all of them. Requests in
`Resolving` are served by a resolver; only those can have no source and a watcher.
`totalSources` and `initialSourceIDs` are written under no lock, and a source launched
by an early update reads them: the model lets it see them as before or after, while in
the code the runtime may also end the process with "concurrent map read and map write".
A refused `CreateSession` leaves nothing and may be made again. `early` and `gaveUp`
are history for the exceptions below: which sources reported before the session was
initializing, and which had a goroutine that was cancelled before it reported.

What the code does in these interleavings decides how the properties read.
`InitializingIsPending` names four situations in which a session stays
`INITIALIZING` although nothing more will be counted:

- `Early`: an update between `setSources` and the transition launches a source that
  reports too soon. It is stored in `readySet` and not counted, or reaches the
  threshold when there is no `INITIALIZING` to leave;
- `Dropped`: an initial source was disabled or removed while it held a slot and had
  not opened yet, and its goroutine returned without a report;
- `Crowded`: a later source took a slot of the semaphore the threshold counts on;
- `Doubled`: a source was disabled and enabled again, and its two goroutines hold two
  slots and count as one.

Without any one of the first three TLC finds the property violated in `logs`; `Doubled`
takes a limit of two and is covered by the theorem. `TerminalStatusSticks` excepts the
step of a pause or resume, which overwrites `ERROR` and `CLOSED` because
`handleCommands` sets the status without looking at it, and it states the window in
`finalizeSession` in which a failure becomes `CLOSED`: the source was enabled again
after the wait and failed between the look at the status and the write (TLC finds that
case too when the exception is dropped). Such a source was added to a wait group that
has been waited for: it runs, briefly, without the lease that `docs/capabilities.md`
says it runs under.

### How `ExecSession` follows the code

| Code | Model |
|---|---|
| `CreateSession`, `CreateResourceSession`, `createSession` | `CreateSession` (first lookup), `StartNative`, `RegisterSession`, `StartWorkers`, `Fence`, `Reject` |
| `handleStream` | `ReadChunk` (buffer and attachment under the session's lock), `EmitChunk` (outside it), `ReadFails` |
| `handleSignals`, `cleanupSession` | `Signalled`, `DeleteEntry`, `EmitClose` |
| `AttachSession`, `DetachSession`, `CloseSession` | actions of these names |
| `Stream`, `handleStreamInput` | `Stream`, `StreamEnds` (which cancels every session) |
| `Close` | `Close` (one sweep), `CloseReturns` (`wg.Wait`) |
| handlers, requests | `HandlerStops`, `RequestEnds` |

Output is a run of numbered chunks and the buffer keeps the last `Capacity`; input
and resizing change no state of the manager. `client[c]` records what an attached
client was replayed and sent, for `AttachmentMissesNothing`. Some behaviour a
reader might not expect, all of it in the model: the sink is installed by the first
`Stream` and never replaced, so a later stream gets no output; output can follow the
close signal of its session; a refused creation closes whatever session has its ID
by then; `Close` sweeps once, so a session registered afterwards is not cancelled
and `Close` waits for it (`EverySessionEnds` says that nothing else keeps it).

### How `MetricLane` follows the code

| Code | Model |
|---|---|
| `StreamMetrics`, `StreamResourceMetrics`, `admitStream`, `connectedStream` | `Open`, `ReleaseLease` |
| `filterStream`, `validateStreamAdmission`, `streamAdmission` | `Reading`, `Subscribe`, `Unsubscribe`, `Admissible`, `Retain`, `Record`, `Pass`, `Reject`, `EndFilter` |
| `stream`, `handleStreamCommand`, `subscribe`, `unsubscribe` | `HandleCommand`, `Start`, `Stop`, `EndLoop`, `CloseNative` |
| `pollSubscription`, `pollOnce` | `PollOnce`, `Query`, `SendOutput`, `Tick`, `EndPoll` |
| `forwardAdmittedStream`, `admitStreamOutput` | `Receive`, `AdmitOutput`, `Deliver`, `EndForward` |
| the caller, the registry, the catalog | `EndRequest`, `CloseInput`, `Retire`, `ChangeCatalog` |

A binding is its catalog revision and whether it is active, and weighs `Full` bytes
while it is and `Compact` as a tombstone; the contents of requests and results are
left out. `late` counts the outputs a caller is given after their subscription was
retired or its catalog replaced: the forwarder looks the binding up, lets go of the
lock and delivers, so one is possible and `LateOutputIsBounded` says that two are
not. The lease of a lane does not wait for its pollers, whose queries take leases of
their own. An unsubscribe that repeats the subscription's target is checked like a
subscription; the model has the plain form.

### Conjunctions

Where several facts are about one hazard and come from one run they are one
property: `MetadataIsConsistent`, `ObservationsSettle`, `WireIsOneSession`,
`OutcomesAreTruthful`, `SessionSettles` and `LeasesComeBack` are conjunctions of
named parts, and each part has a mutant that violates it. The type invariant
of a module documents the shape of the state and is part of its inductive invariant.

### Mutants

Operators named as mutants (`AdmissibleStale`, `CloseStarted`, ...) stand before
the definition they vary. No action uses them; each is a plausible slip in the
code, and shows that the property it is paired with in `PROJECT.json` notices it.

## Runs

| Run | Instance | Checks |
|---|---|---|
| `registry` | 2 connections, 2 generations, 3 callers: one starts and leases, one loads and stops, one closes | `NoUseAfterTeardown`, `OneClientPerConnection`, `StatusIsTruthful`, `CloseLeavesNothing`, `DrainBeforePublish` |
| `inventory` | 1 connection, 2 profiles, 1 generation, a user who also stops, and a host with all inventory methods, start, stop and close | `ServesPublishedProfile`, `PublishedMatchesDesired`; under fairness `EveryCallReturns`, `RetirementCompletes` |
| `tunnels` | a resource and a static start that may get the same ID, 1 closer, `StopAll` | `NoOrphanTunnel`, `FailedStartLeavesNoTunnel`, `StopAllIsFinal`, `CloseIsNotFailure` |
| `leased` | 1 resource start, 1 closer, ending request, `StopAll`, retirement | `TunnelWithinGeneration`, `AcceptedTunnelOutlivesRequest`; under fairness `EveryStartReturns`, `LeasesComeBack` |
| `metadata` | 1 connection, 2 generations, 1 key, 1 refresher, 1 watcher with a queue of 1; late cancellation, changes, close | `MetadataIsConsistent`, `WatchersFollowFeed` (the refinement of `MetadataFeed`); under fairness `EveryRevisionArrives`, `ObservationsSettle` |
| `source_session` | 2 goroutines of the callback, both modes, a transport of 1; retirement, breaks, deadlines | `WireIsOneSession`, `OutcomesAreTruthful`, `FollowingIsUnlimited` |
| `source_liveness` | 1 goroutine, updates, a transport of 1; retirement, breaks, limits | under fairness `SessionSettles` |
| `logs` | 2 creations of one ID, 2 sources, a semaphore of 1, 2 events from outside | `NoOrphanSession`, `InitializingIsPending`, `TerminalStatusSticks` |
| `exec` | 2 creations of one ID, 2 chunks, a buffer of 1, 3 events from outside | `RegisteredWhileRunning`, `AttachmentMissesNothing`; under fairness `EverySessionEnds` |
| `settings` | a remote commit of two settings, a local one of one of them, a reset or registration | `RefusedCommitHasNoEffect`, `DurableIsAppliedOrInDoubt`, `DefinitionsChangeByRegistration`; under fairness `ChangesAreNotified`, `EveryCommitReturns` |
| `metrics` | 2 lanes (1 leased), 2 IDs, room for one binding and one tombstone, 3 events from outside | `LateOutputIsBounded`, `AccountingIsExact`, `AdmittedIsPolled`; under fairness `LaneDrains` |
| `accepted` | one caller, one generation | `AcceptedOutlivesRequest`, which the code violates; a creator that has not yet returned `CONNECTED`, or is on its way to `stopSlot`, is not counted |

Deadlock is checked in the runs of `ResourceController` and `PortForward`. In the
others a controller that was closed, a session that ended or calls that have all
returned have nothing left to do, so a final state is allowed; that nobody is stuck
in it is what the liveness properties say.

Two generations suffice for a restart to meet the teardown of its predecessor, three
callers for a start, a stop and a close (or a lease) to overlap, two connections for
a change that retires several slots. Generations and connections of `registry` are
interchangeable and declared symmetric, as are the goroutines of `source_session` and
the sources of `logs`; runs with fairness declare no symmetry. The two profiles of
`inventory` are a native one and one for another endpoint without private data, each
of which can come from discovery or as an override, so that inheritance, replacement
and edits that leave the client alone all occur. Two starts are what it takes for an
ID to be duplicated or reused; a start has two goroutines, a monitor and a hook of its
own, and a refused start closes a session besides the closer, so two closes overlap.
The proofs lift the bounds of every safety property: the runs show that the interesting
cases occur, and the theorems that nothing depends on their number.

A watcher's queue of 1 stands for the 64 of the code: overflow, and a queue that is
filled to the brim and drained, both happen. `MaxRevision` stops new changes,
refreshes and invalidations, not starts and what follows from them, so that there is
room for a restart with observations of both generations. In `SourceSession`,
`MaxFrames` bounds new emissions only, so every session can still be finished, and
two goroutines that are already inside add frames of every kind: a begin, batches,
the end, changes and a terminal frame. A transport of one frame blocks the sender as
soon as the host stops reading.

In `LogSession`, `ExecSession` and `MetricLane`, `MaxEvents` bounds what comes from
outside (calls, commands, ends of requests, retirement), never what the system does
about it. In `logs` the two events can be any two of close, pause, an update of the
sources, a source event, the end of the request and retirement; two launches of a
source at a time are what the disabled and enabled source needs. The first failure to
open or read is final there (`MaxAttempts` is 0): a reconnect opens the source and
counts it as ready once more, which the second launch does as well. The second creation
has no sources, which is enough for it to take the first one's ID. In `metrics` a
budget of one binding and one tombstone makes every limit bite. In `settings` three
writers are enough for a commit to be prepared before, persisted during and published
after another writer's turn.

**Fairness.** The code documents that callbacks must terminate and must observe
cancellation, and the Go runtime schedules every runnable goroutine: each caller
inside the controller takes weakly fair steps, and a started `AfterFunc`
goroutine eventually runs. A leased callback may reenter the controller only
finitely often, hence strong fairness of its return. Nobody is obliged to call,
to reenter or to cancel. In `PortForward` every runnable goroutine takes weakly
fair steps, `AfterFunc` goroutines included; forwarders return from creation, and
`readyTimeout` bounds the wait for readiness. A native tunnel may live for ever
and nobody has to close it, stop the manager or retire the client.

In `ConnectionMetadata` starts, observations, teardowns and the sinks of watchers
return (weak fairness); nobody has to refresh, watch, change or close. In
`SourceSession` the goroutines inside the emitter and the handler take weakly fair
steps; Go's mutex does not starve a waiter, hence strong fairness for taking
`sourceEmitter.mu`. The callback returns once its context has ended, and a send
either returns or meets the stall timer. The host is owed nothing: it may stop reading
for ever.

In `ExecSession` handlers return, a closed terminal ends the reads on it and the host
reads the stream; a terminal may print and run for ever. In `SettingsCommit` persist
functions and handlers return, and a remote commit ends at the latest with the
client's timeout. In `MetricLane` queries return, the caller reads the output while
the lane lives, and a ready case of a select is taken sooner or later. `LogSession`
is checked for safety only; that a session does not initialize for nothing is stated
as an invariant, because a handler may take any time to open a source.

### What the violated run shows

*`accepted`.* `StartConnection` ties the creator's context to the start with
`context.AfterFunc(ctx, s.cancel)` and calls the returned `stop` when
`startClient` is done. `stop` neither waits for nor undoes a hook that is already
running. If the request ends just before, the caller finds the generation
healthy, returns `CONNECTED`, and then the hook cancels it: an accepted
generation does not outlive its request. TLC's trace is this one: `CancelCaller`,
`StartReady`, `StartObserve`, `StartAccept`, `HookRuns`. The client stays registered with a dead
context, status turns `DISCONNECTED`, and joiners of a later start tear it down.

Modelling met other places where the code does something else than a comment or a
test suggests, which the properties are worded around. `ClosePortForwardSession` is
documented to wait for the session's monitor up to the close timeout; it cancels,
transitions the entry and returns. When the fence after creation refuses a session
that is already published, `StartResourcePortForwardSession` and
`CreateResourceSession` of `exec` close it by ID, and after a close and a reuse of the
ID that is another, healthy session; the refused start's own tunnel is never lost by
it (`NoOrphan` proves that). The sections on logs, terminals and settings name theirs.

## Proofs

Every theorem below holds for all values of the constants that satisfy the module's
named assumption, in particular for any number of actors and without the bounds of the
runs. Each proof has the same shape: an inductive invariant `IInv`, frame lemmas for
what a step leaves alone, one lemma per action, `Invariance`, and the theorems as
consequences. TLC checked each `IInv` on the run's instance before it was proved.

### The registry

`ResourceControllerProofs.tla` proves, for any sets of connections, callers,
generations and profiles that satisfy `RegistryAssumption`:

- `TypeCorrect`: `Spec => []TypeOK`;
- `UseSafety`: `Spec => []NoUseAfterTeardown`;
- `OneClient`: `Spec => []OneClientPerConnection`;
- `ServesPublished`, `PublishesDesired`, `CloseIsComplete` and `StatusTruth`: the
  invariants `ServesPublishedProfile`, `PublishedMatchesDesired`, `CloseLeavesNothing`
  and `StatusIsTruthful`;
- `DrainFirst`: `Spec => DrainBeforePublish`, an action property.

None of them is inductive. The first three follow from `IInv`, the conjunction of

- `References`: which program counters carry a slot, and that it is allocated;
- `Registration`: a registered generation belongs to the ID it is registered
  under, and a generation that is allocated and not finished is registered;
- `SlotPhases`: how `client`, `ready`, `err` and `destroy` of a slot may combine;
- `Startup`: exactly one caller runs the startup of a slot that is not ready;
- `Teardown`: exactly one caller runs the teardown of a slot whose `destroy` is
  running, and where it is in it;
- `Retired`: a slot whose teardown began is marked stopping, and leases are out
  only on ready, error-free, live slots whose drain has not finished.

`UseSafety` needs the last two together: admission requires `~stopping`, teardown
requires `stopping`, and both happen under `mu`. `OneClient` needs `Registration`:
an unfinished generation keeps its registry entry, and there is one entry per ID.
The proof has one lemma per group of actions and one step per conjunct that an
action can disturb.

The others need a second invariant, `CInv`, proved on top of `IInv` (`Commitments`). It
says who still has to do what, and what the published state rests on:

- `Created`: a generation that is not ready has a creator at work on it;
- `Closure`: every generation that is not finished is in the worklist of `Close` or
  being stopped by it, and once `Close` is done there is none. Nothing is added to the
  worklist later, because a start looks at `closed` under the same mutex;
- `Served`: a registered generation, *retired or not*, was built from the published
  client configuration. `ServesPublishedProfile` speaks of those that can be leased
  only; `DrainBeforePublish` needs the stronger form, because a client that is being
  stopped for another reason is still alive at a publication;
- `Staging`: the holder of `configMu` tends every registered generation of a connection
  it changes; these, and no others, are in `changing`, so nobody starts them, and the staged
  inventory keeps the client configuration of all others. With nothing left to tend, no
  changed connection is registered, and publication preserves `Served`;
- `Failures`: a connection in `failedStarts` is configured, not about to change, and its
  generation, if it still has one, has failed;
- `Matches(desired, connections)`, and the same of what is staged.

Steps that leave inventory and registry alone preserve it by one lemma, `SteadyStep`; the
seven that do not (`StartCreate`, `StartRecord`, `Unregister`, `Close`, `CloseReturn`,
`Apply`, `ApplyPublish`) have lemmas of their own.

### Port forwards

`PortForwardProofs.tla` proves, for any sets of starts, IDs and closers that
satisfy `ForwardAssumption`, every safety property of `PortForward` that its
runs check:

- `TypeCorrect`, `NoOrphan`, `FailedStartCleansUp`, `StopAllFinal`,
  `WithinGeneration` and `CloseNotFailure`, each `Spec => []P`;
- `OutlivesRequest`: `Spec => AcceptedTunnelOutlivesRequest`, an action property.

The inductive invariant `IInv` has a part `Own(p)` per start and three parts that
relate them:

- `Progress`: what the labels of the two goroutines of a start say about the
  report, the ID and the monitor;
- `Hooks`: an accepted start has no request hook left, armed or begun;
- `Leased`: a worker past its lease holds it until its tunnel is cancelled;
- `Failures`: a late error implies an intentional cause, and a monitor that
  decides on a failure has seen an error that is not late;
- `Entries`: the map and the close calls name published sessions, and a refused
  start that is closing *some* session no longer finds its own in the map;
- `Ended`: `stopped` empties the map for good, a drained generation has no lease;
- `NoOrphanTunnel` and `FailedStartLeavesNoTunnel` themselves.

The last conjunct of `Entries` is what makes cleanup by ID safe for the start's
own tunnel: if the cleanup takes out another session under the reused ID, the
own entry had left the map before, and by `NoOrphanTunnel` it is cancelled or
about to be. Most steps change one start and its tunnel only; `OwnStep` handles
them once, and each action lemma shows that it is an instance. `PublishSession`,
the close steps and `StopAll` have lemmas that treat each conjunct.

### Terminals

`ExecSessionProofs.tla` proves `TypeCorrect`, `RegistrationIsExact`
(`RegisteredWhileRunning`) and `NothingMissed` (`AttachmentMissesNothing`) for any
creations, IDs, chunks and capacity under `ExecAssumption`. `RegisteredWhileRunning` is
inductive once `Own` says that a creation has no goroutines before `createSession`
starts them. `AttachmentMissesNothing` speaks of quiet moments; `Covered` says what
holds between them: every chunk since the replay was given, dropped for want of a sink,
or is the one `handleStream` has numbered and not yet sent.

### Settings

`SettingsCommitProofs.tla` proves `ErrorsAreClean` (`RefusedCommitHasNoEffect`),
`NoSilentDivergence` (`DurableIsAppliedOrInDoubt`) and the action property
`CommitsKeepDefinitions` (`DefinitionsChangeByRegistration`), for any number of remote,
local and plugin writers and any table `Normal` under `SettingsAssumption` (every writer
changes some setting, every raw value has a normal form or is refused). The invariant has
one part about calls and one about values:

- `Own(w)`: what each end of a commit has done at each label, in particular that a
  plugin is told `saved` only by a host that saved and has not answered an error;
- `Mutex` and `Based`: between preparation and publication a commit holds `writeMu`, so
  the type and default it prepared are the stored ones. Definitions need nothing else;
- `Agreed` and `Saved`: unless the setting is `unsaved`, a durable value is the stored
  one or belongs to a commit that saved and has not published. `Saved` is the subtle
  one: a host can still save after its stream was cut and another commit took the lock,
  so the values a holder finds durable may be those of the late host, which is then the
  one in doubt.

### Metric lanes

`MetricLaneProofs.tla` proves `LateOutput` (`LateOutputIsBounded`), `Accounting`
(`AccountingIsExact`) and `PolledAsAdmitted` (`AdmittedIsPolled`) for any finite sets of
lanes and IDs and any sizes with `Compact <= Full`. `Slot` ties the number of late
outputs to the binding (none while it is active, and current), `InTime` says that the
output the forwarder has let pass is not preceded by a late one, and together they bound
the count by one. `Accounted` writes the sum over the bindings as two products, so that
admitting, retiring and reusing an ID changes a cardinality by one. `Follows` follows a
command through filter and loop: a binding is active exactly if the last command for
its ID, wherever it is, asks for it.

### Log sessions

`LogSessionProofs.tla` proves `TypeCorrect`, `NobodyIsOrphaned` (`NoOrphanSession`),
`NeverWaitsInVain` (`InitializingIsPending`) and the action property `EndsAreKept`
(`TerminalStatusSticks`) for any creations and any finite set of sources, limit of
streams and number of launches and attempts under `LogAssumption`. `Created`, `Reachable`
and `Holding` (calls at work hold a session, and restart sources of a resolved one) give
the first; `Unresolved` says that nothing runs before the sources are listed. The second
rests on `Sound`, which speaks of one session's record and its goroutines:

- `Waits`: unless a source was early, every initial source that reported was counted, and
  a session that still waits has counted fewer than its threshold;
- `Counts`: a source that is read has reported;
- `Enters`: the goroutine that an entry of `sourceCtxs` names works;
- `Attends`: an initial source that has not reported has a goroutine, or one gave up.

`SoundSame` and `SoundStep` are its two frames, for a step that leaves the goroutines
where they are and for a step of one of them, and every action is an instance of one.
If nothing is on its way and no exception holds, `Attends` gives a queued goroutine, and
the slots it waits for are all held by initial sources that are read, no two by the same
one, so by the pigeonhole principle the threshold was reached. Without `Doubled` the last
step fails: the property had been checked
with a semaphore of 1, where two goroutines of one source cannot both hold a slot, and
the attempt to prove it for any limit found the case. `Respects` is what each step does
to a status, and gives the third theorem.

### Source sessions

`SourceSessionProofs.tla` proves `OneSession` (`WireIsOneSession`), `TruthfulOutcomes`
(`OutcomesAreTruthful`) and `NoLateDeadline` (`FollowingIsUnlimited`) for any number of
goroutines in the callback, any window and any events under `SessionAssumption`. The
transport is summed up by two numbers: `OnWire`, the last sequence number it took, and
`WirePhase`, the phase its last frame leads to. A frame the host receives leaves both as
they are, and the server side is related to the host by nothing else.

- `Chain`: the frames in transport continue what the host has seen, one by one.
- `Flowing`: while the handler's context lives, at most one numbered frame is pending;
  it is the next one after `OnWire` and is admitted in `WirePhase`, and if there is none
  the emitter's tracker agrees with the transport. Once the context has ended nothing
  more is handed over, and nothing of this is needed or true.
- `Emission`, `Handled`: who is inside the emitter, and whose frame the handler's loop
  and its sender hold; an acknowledged frame was taken by the transport.
- `Recorded`, `Rooted`: what the emitter remembers as acknowledged or terminal is on the
  wire, and the goroutine that runs `OpenSource` is done only with a terminal frame on the
  wire, an ended context, or a frame that a limit refused.
- `Deadline`: once the host is past the snapshot its current timer is stopped and not
  expired, and a timer callback of an earlier epoch has no effect.

The last alternative of `Rooted` is why `OkMeansComplete` has the hypothesis that no
limit refuses frames. It used to be left out because the run has no `"limit"`; the
theorem holds for any `Events` and has to say it.

### Connection metadata

`ConnectionMetadataProofs.tla` proves, for any finite set of connections and any
generations, keys, observations, refreshers, watchers, capacity and events under
`MetadataAssumption`:

- `TypeCorrect`: `Spec => []TypeOK`;
- `ConsistentMetadata`: `Spec => []MetadataIsConsistent`, all five parts of it;
- `FeedImplemented`: `Spec => WatchersFollowFeed`, the refinement of `MetadataFeed`.

The connections are finite because one section queues an event for each of them; a
Go map is. The inductive invariant `IInv` goes from the registry to the watchers:

- `Registration` and `Staging`: a generation is registered, under its own ID and for a
  published connection, from its start until `stopSlot` is through, and the generations
  of what a staged change touches are among those it retired. So when a change is
  published nothing it changes is registered, hence nothing it changes is observed;
- `Served`: the generation a snapshot shows as active is the registered one, ready, not
  retired, and the controller is open. Every section that retires a generation therefore
  has to take it out of the snapshot in the same section, `Close` and `stageInventory`
  for all connections at once (`ManySnapshots`);
- `Running` and `Observed`: an observation belongs to the ready generation registered
  for its connection, is the one the snapshot runs, and its generation is the one the
  snapshot serves *or is retired*. The alternative is what the teardown's wait is for:
  the retired generation stays registered until its observation is in, so admission
  finds none running, and a result that is superseded is never followed by an
  observation of another generation;
- `Attributed` and `Marked`: facts belong to the generation shown, the current ones to
  a live one; tombstones are those of the removed connections;
- `Replaying`, `Looping` and `Following`, per watcher: what is still to be replayed is
  what the sink was not given of the state at the subscription, and what is in its hand
  and its queue continues, for each connection, what the sink has or will have after the
  replay, up to the published revision. `Continues` says this of a queue by a lower and
  an upper revision, so that appending what a section announces (`ContinuesConcat`) and
  delivering the first event (`ContinuesTail`) are lemmas about sequences alone. A
  watcher that was dropped keeps only the part about the replay.

For the refinement each lemma about a section also shows that the section is
`Unnoticed`: revisions grow, and no sink was given anything. That is `Publish` of the
feed. The steps of a watcher are `Subscribe`, `Deliver` and `End`; `Following` makes a
delivery the next revision and none other, `Replaying` makes a replayed snapshot that of
the subscription. Taking an event from the queue is invisible.

### What is only model-checked

- All liveness properties: they need fairness and `ENABLED`, which are outside the
  prover's reach. Every invariant, action property and refinement that a passing run
  checks is proved.

## Not modelled

- Catalog admission of unary dispatch and the scope algebra
  (`controller_admission.go`): a callback between two looks at a revision. The fences
  of source sessions and metric lanes are modelled with their streams; intersection
  and containment of scopes are pure functions over names and label selectors.
- Codecs and validation of single messages, the unary RPC methods, tools and commands:
  no state of their own beyond tables filled at start.
- Finite metric queries, and metric plugins with a `StreamFunc`: one lease and one
  external call.
- State roots, configuration, logging, profiling, telemetry, the plugin's entry point,
  generated protobuf code, examples and the conformance corpus.

## Plan

Done: the registry with the inventory, port forwards, connection metadata with its
abstract feed, source sessions, settings, log and exec sessions, metric lanes; proofs of
every safety property that the passing runs check, the refinement included. Next:
`CatalogFence`, that results of unary dispatch belong to the revision they were admitted
under.
