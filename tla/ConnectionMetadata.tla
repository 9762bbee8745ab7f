------------------------- MODULE ConnectionMetadata -------------------------
(***************************************************************************)
(* The advisory metadata of pkg/resource/v2: one revisioned snapshot per   *)
(* connection, the observation that refreshes it, and the watchers that    *)
(* replay the snapshots and follow every later revision.                   *)
(*                                                                         *)
(* All of it lives under Controller.mu; every section is one action.  The  *)
(* client generations and the inventory are reduced to what the metadata   *)
(* hooks in them see: readiness, retirement, the drain that waits for      *)
(* users, and the two sections of an inventory change.  The observing      *)
(* callback is external: it returns any update or error after any delay.   *)
(***************************************************************************)
EXTENDS Naturals, Sequences, FiniteSets

CONSTANTS
  Ids,          \* connection IDs
  Generations,  \* client generations (bounds the starts)
  Keys,         \* metadata keys a provider reports
  Jobs,         \* identities of metadataAcquisition
  Refreshers,   \* goroutines calling RefreshConnectionMetadata
  Watchers,     \* goroutines calling WatchConnectionMetadata
  Capacity,     \* length of a watcher's event channel (64 in the code)
  MaxRevision,  \* refreshes, invalidations and changes end at this revision
  Events,       \* what else happens: "cancel", "replace", "close"
  None          \* nil

ASSUME MetadataAssumption ==
  /\ IsFiniteSet(Ids)
  /\ Capacity \in Nat \ {0} /\ MaxRevision \in Nat
  /\ None \notin Ids \cup Generations \cup Jobs
  /\ Events \subseteq {"cancel", "replace", "close"}

VARIABLES
  closed,       \* Controller.closed, and cancellation of Controller.ctx
  connections,  \* the published inventory, as the set of its IDs
  change,       \* the inventory change between its two sections
  clients,      \* the registry: ID -> generation or None
  slot,         \* the client generations
  metadata,     \* connectionMetadataState of each ID
  job,          \* the observations that run
  refresh,      \* the job each refresher waits for
  watch         \* the watchers

registry == <<closed, connections, change, clients>>
vars == <<registry, slot, metadata, job, refresh, watch>>

-----------------------------------------------------------------------------
(* State.                                                                  *)

\* late is a creator's cancellation hook that began before the start returned;
\* users counts the goroutines whose observation is committed but not released.
Slots ==
  [id : Ids \cup {None},
   phase : {"free", "starting", "ready", "failed", "drained", "gone"},
   stopping : BOOLEAN, cancelled : BOOLEAN, late : BOOLEAN, users : Nat]

FreeSlot ==
  [id |-> None, phase |-> "free", stopping |-> FALSE, cancelled |-> FALSE,
   late |-> FALSE, users |-> 0]

\* An entry remembers which generation observed its value.
Entries == [state : {"absent", "current", "stale", "unavailable"}, by : Generations \cup {None}]
NoEntry == [state |-> "absent", by |-> None]
NoEntries == [k \in Keys |-> NoEntry]

\* The published snapshot (generation, active, refreshing, failed, entries) and
\* the state around it.
Metadata ==
  [generation : Generations \cup {None}, active : BOOLEAN, refreshing : BOOLEAN,
   failed : BOOLEAN, entries : [Keys -> Entries], revision : Nat, removed : BOOLEAN,
   slot : Generations \cup {None}, running : Jobs \cup {None}, pending : BOOLEAN]

NoMetadata ==
  [generation |-> None, active |-> FALSE, refreshing |-> FALSE, failed |-> FALSE,
   entries |-> NoEntries, revision |-> 0, removed |-> FALSE,
   slot |-> None, running |-> None, pending |-> FALSE]

Observations == [id : Ids \cup {None}, by : Generations \cup {None}]
NoObservation == [id |-> None, by |-> None]

Changes ==
  [staged : BOOLEAN, next : SUBSET Ids, changed : SUBSET Ids, retired : SUBSET Generations]
NoChange == [staged |-> FALSE, next |-> {}, changed |-> {}, retired |-> {}]

Messages == [id : Ids, revision : Nat, removed : BOOLEAN]

\* replay holds the snapshots yet to be replayed; seen is what the sink was
\* given last, and start what it had been promised as replay.
WatchCalls ==
  [pc : {"idle", "replay", "select", "took"}, replay : SUBSET Messages,
   queue : Seq(Messages), hand : SUBSET Messages, overflow : BOOLEAN,
   start : [Ids -> Nat], seen : [Ids -> Nat]]

Silent == [id \in Ids |-> 0]
NoWatch ==
  [pc |-> "idle", replay |-> {}, queue |-> << >>, hand |-> {}, overflow |-> FALSE,
   start |-> Silent, seen |-> Silent]

Init ==
  /\ closed = FALSE
  /\ connections = {}
  /\ change = NoChange
  /\ clients = [id \in Ids |-> None]
  /\ slot = [g \in Generations |-> FreeSlot]
  /\ metadata = [id \in Ids |-> NoMetadata]
  /\ job = [j \in Jobs |-> NoObservation]
  /\ refresh = [r \in Refreshers |-> None]
  /\ watch = [w \in Watchers |-> NoWatch]

SetSlot(g, record) == slot' = [slot EXCEPT ![g] = record]
SetWatch(w, record) == watch' = [watch EXCEPT ![w] = record]
Room(id) == metadata[id].revision < MaxRevision

\* The jobs no goroutine runs.
Spare == {j \in Jobs : job[j] = NoObservation}

-----------------------------------------------------------------------------
(* Publication.                                                            *)

Snapshot(m) == <<m.generation, m.active, m.refreshing, m.failed, m.entries, m.removed>>

\* metadataPublishLocked: an unchanged snapshot is not a revision.
Publish(m, next) ==
  IF m.revision # 0 /\ Snapshot(m) = Snapshot(next) THEN next
  ELSE [next EXCEPT !.revision = m.revision + 1]

\* A snapshot without generation and entries.
Cleared(m, removed) ==
  Publish(m, [NoMetadata EXCEPT !.revision = m.revision, !.removed = removed,
                                !.running = m.running])

\* Entries whose value can no longer be vouched for.
Aged(entries, states) ==
  [k \in Keys |-> IF entries[k].state \in states
                  THEN [entries[k] EXCEPT !.state = "stale"] ELSE entries[k]]

\* Mutant of Stop: the invalidation of a retired generation stays pending.
StopPending(m, g) ==
  IF m.slot # g THEN m
  ELSE Publish(m, [m EXCEPT !.slot = None, !.active = FALSE, !.refreshing = FALSE,
                            !.entries = Aged(@, {"current"})])

\* metadataStopLocked
Stop(m, g) ==
  IF m.slot # g THEN m
  ELSE Publish(m,
         [m EXCEPT !.slot = None, !.pending = FALSE, !.active = FALSE, !.refreshing = FALSE,
                   !.entries = Aged(@, {"current"})])

\* metadataAcquireLocked: join the observation that runs, or begin j.
Acquire(m, j) ==
  IF m.running # None THEN m
  ELSE Publish(m, [m EXCEPT !.running = j, !.refreshing = TRUE])

\* The goroutine that Acquire starts.
Observing(m, id, j) ==
  IF m.running # None THEN job ELSE [job EXCEPT ![j] = [id |-> id, by |-> m.slot]]

\* The revisions that lead to next, each an event; all of them in one section.
News(next) ==
  UNION {{[id |-> id, revision |-> r, removed |-> next[id].removed] :
            r \in metadata[id].revision + 1 .. next[id].revision} : id \in Ids}

\* Maps are ranged over in any order, the revisions of one ID in theirs.
Arrangements(E) ==
  {es \in [1 .. Cardinality(E) -> E] :
     /\ \A e \in E : \E i \in DOMAIN es : es[i] = e
     /\ \A i, k \in DOMAIN es : i < k /\ es[i].id = es[k].id => es[i].revision < es[k].revision}

Registered(w) == watch[w].pc # "idle" /\ ~watch[w].overflow

\* Mutant of Offer: an event that does not fit is skipped.
OfferLossy(w, es) ==
  IF Registered(w) /\ Len(watch[w].queue) + Len(es) <= Capacity
  THEN [watch[w] EXCEPT !.queue = @ \o es] ELSE watch[w]

\* A watcher without room for an event is told and forgotten.
Offer(w, es) ==
  IF ~Registered(w) THEN watch[w]
  ELSE IF Len(watch[w].queue) + Len(es) <= Capacity
       THEN [watch[w] EXCEPT !.queue = @ \o es]
       ELSE [watch[w] EXCEPT !.queue = @ \o SubSeq(es, 1, Capacity - Len(@)), !.overflow = TRUE]

Announce(next) ==
  /\ metadata' = next
  /\ \E es \in Arrangements(News(next)) : watch' = [w \in Watchers |-> Offer(w, es)]

AnnounceOne(id, m) == Announce([metadata EXCEPT ![id] = m])

-----------------------------------------------------------------------------
(* Client generations.                                                     *)

Startable(id) == ~closed /\ id \in connections \ change.changed

\* startSlotLocked
StartSlot(g, id) ==
  /\ Startable(id) /\ clients[id] = None
  /\ slot[g] = FreeSlot
  /\ SetSlot(g, [FreeSlot EXCEPT !.id = id, !.phase = "starting"])
  /\ clients' = [clients EXCEPT ![id] = g]
  /\ UNCHANGED <<closed, connections, change, metadata, job, refresh, watch>>

\* startClient ends and closes ready; a cancelled start is a failed one.
StartReturns(g) ==
  /\ slot[g].phase = "starting"
  /\ \E ok, late \in BOOLEAN :
       /\ slot[g].cancelled => ~ok
       /\ late => "cancel" \in Events
       /\ SetSlot(g, [slot[g] EXCEPT !.phase = IF ok THEN "ready" ELSE "failed", !.late = late])
  /\ UNCHANGED <<registry, metadata, job, refresh, watch>>

\* The creator's request ends: during the start, or by a hook that ran late.
HookRuns(g) ==
  /\ "cancel" \in Events
  /\ slot[g].phase = "starting" \/ slot[g].late
  /\ ~slot[g].cancelled
  /\ SetSlot(g, [slot[g] EXCEPT !.cancelled = TRUE, !.late = FALSE])
  /\ UNCHANGED <<registry, metadata, job, refresh, watch>>

\* metadataAdmitLocked, from the last section of StartConnection: of the creator
\* and of everyone who joined.
Admit(g) ==
  LET id == slot[g].id
      m == metadata[id]
      new == Publish(m, [m EXCEPT !.slot = g, !.generation = g, !.active = TRUE,
                                  !.refreshing = FALSE, !.failed = FALSE,
                                  !.entries = NoEntries, !.removed = FALSE])
  IN
  /\ slot[g].phase = "ready"
  /\ ~slot[g].stopping /\ ~slot[g].cancelled /\ ~closed /\ clients[id] = g
  /\ m.slot # g
  /\ \E j \in Spare :
       /\ job' = Observing(new, id, j)
       /\ AnnounceOne(id, Acquire(new, j))
  /\ UNCHANGED <<registry, slot, refresh>>

\* The first section of stopSlot and of StopConnection.
StopSlot(g) ==
  /\ slot[g].phase \in {"starting", "ready", "failed"} /\ ~slot[g].stopping
  /\ SetSlot(g, [slot[g] EXCEPT !.stopping = TRUE, !.cancelled = TRUE])
  /\ AnnounceOne(slot[g].id, Stop(metadata[slot[g].id], g))
  /\ UNCHANGED <<registry, job, refresh>>

\* Mutant of Drain: an observation counts as a user only once it returns.
DrainUncounted(g) ==
  /\ slot[g].phase \in {"ready", "failed"} /\ slot[g].stopping
  /\ slot[g].users = 0
  /\ SetSlot(g, [slot[g] EXCEPT !.phase = "drained"])
  /\ UNCHANGED <<registry, metadata, job, refresh, watch>>

\* <-s.ready; s.users.Wait(); then the client is torn down.
Drain(g) ==
  /\ slot[g].phase \in {"ready", "failed"} /\ slot[g].stopping
  /\ slot[g].users = 0 /\ \A j \in Jobs : job[j].by # g
  /\ SetSlot(g, [slot[g] EXCEPT !.phase = "drained"])
  /\ UNCHANGED <<registry, metadata, job, refresh, watch>>

\* The last section of stopSlot.
Unregister(g) ==
  /\ slot[g].phase = "drained"
  /\ SetSlot(g, [slot[g] EXCEPT !.phase = "gone"])
  /\ clients' = IF clients[slot[g].id] = g THEN [clients EXCEPT ![slot[g].id] = None] ELSE clients
  /\ UNCHANGED <<closed, connections, change, metadata, job, refresh, watch>>

Retired(S) ==
  [g \in Generations |->
     IF g \in S THEN [slot[g] EXCEPT !.stopping = TRUE, !.cancelled = TRUE] ELSE slot[g]]

Close ==
  /\ "close" \in Events /\ ~closed
  /\ closed' = TRUE
  /\ slot' = Retired({clients[id] : id \in Ids})
  /\ Announce([id \in Ids |-> IF clients[id] = None THEN metadata[id]
                              ELSE Stop(metadata[id], clients[id])])
  /\ UNCHANGED <<connections, change, clients, job, refresh>>

-----------------------------------------------------------------------------
(* The inventory.                                                          *)

\* stageInventory: next are the configured IDs, and the configuration of the
\* replaced ones differs.
Stage(next, replaced) ==
  LET changed == (connections \ next) \cup (next \ connections) \cup replaced
      retired == {clients[id] : id \in changed} \ {None}
  IN
  /\ ~closed /\ ~change.staged
  /\ replaced \subseteq connections \cap next
  /\ changed # {} /\ \A id \in changed : Room(id)
  /\ change' = [staged |-> TRUE, next |-> next, changed |-> changed, retired |-> retired]
  /\ slot' = Retired(retired)
  /\ Announce([id \in Ids |-> IF id \in changed \cap connections
                              THEN Cleared(metadata[id], FALSE) ELSE metadata[id]])
  /\ UNCHANGED <<closed, connections, clients, job, refresh>>

\* Every retired generation is stopped by now.
Stopped == \A g \in change.retired : slot[g].phase = "gone"

\* Mutant of PublishInventory: an ID that comes back keeps its tombstone.
PublishInventoryKeeps ==
  /\ change.staged /\ Stopped /\ ~closed
  /\ Announce([id \in Ids |-> IF id \in connections \ change.next
                              THEN Cleared(metadata[id], TRUE) ELSE metadata[id]])
  /\ connections' = change.next
  /\ change' = NoChange
  /\ UNCHANGED <<closed, clients, slot, job, refresh>>

\* metadataInventoryLocked, and the publication of the inventory.
PublishInventory ==
  /\ change.staged /\ Stopped /\ ~closed
  /\ Announce([id \in Ids |->
                 CASE id \in connections \ change.next -> Cleared(metadata[id], TRUE)
                   [] id \in change.next /\ (id \notin connections \/ metadata[id].removed)
                        -> Publish(metadata[id], [NoMetadata EXCEPT
                              !.revision = metadata[id].revision, !.slot = metadata[id].slot,
                              !.running = metadata[id].running, !.pending = metadata[id].pending])
                   [] OTHER -> metadata[id]])
  /\ connections' = change.next
  /\ change' = NoChange
  /\ UNCHANGED <<closed, clients, slot, job, refresh>>

\* A teardown error, an ended request or Close: nothing is published.
AbandonInventory ==
  /\ change.staged /\ Stopped
  /\ change' = NoChange
  /\ UNCHANGED <<closed, connections, clients, slot, metadata, job, refresh, watch>>

-----------------------------------------------------------------------------
(* Observations.                                                           *)

Serving(id) ==
  metadata[id].slot # None /\ ~slot[metadata[id].slot].stopping /\ ~closed

\* RefreshConnectionMetadata up to its wait.
RefreshConnectionMetadata(r, id) ==
  /\ refresh[r] = None
  /\ Serving(id) /\ id \notin change.changed /\ Room(id)
  /\ \E j \in IF metadata[id].running = None THEN Spare ELSE {metadata[id].running} :
       /\ refresh' = [refresh EXCEPT ![r] = j]
       /\ job' = Observing(metadata[id], id, j)
       /\ AnnounceOne(id, Acquire(metadata[id], j))
  /\ UNCHANGED <<registry, slot>>

\* select: ctx.Done()
RefreshAbandon(r) ==
  /\ refresh[r] # None
  /\ refresh' = [refresh EXCEPT ![r] = None]
  /\ UNCHANGED <<registry, slot, metadata, job, watch>>

\* close(job.done) answers whoever waits.
Answer(j) == refresh' = [r \in Refreshers |-> IF refresh[r] = j THEN None ELSE refresh[r]]

\* InvalidateConnectionMetadata
InvalidateConnectionMetadata(id) ==
  LET m == metadata[id] IN
  /\ Serving(id) /\ Room(id)
  /\ \/ /\ m.running # None
        /\ metadata' = [metadata EXCEPT ![id].pending = TRUE]
        /\ UNCHANGED <<job, watch>>
     \/ /\ m.running = None
        /\ \E j \in Spare :
             /\ job' = Observing(m, id, j)
             /\ AnnounceOne(id, Acquire(m, j))
  /\ UNCHANGED <<registry, slot, refresh>>

\* What the callback may report of a key, applied to its entry.
Observe(entry, report, g) ==
  CASE report = "success" -> [state |-> "current", by |-> g]
    [] report = "failure" /\ entry.state \in {"current", "stale"} -> [entry EXCEPT !.state = "stale"]
    [] report = "failure" -> [state |-> "unavailable", by |-> None]
    [] report = "remove" -> NoEntry
    [] OTHER -> entry

\* The snapshot after an update, or after an error or an update refused.
Updated(m, g, reports) ==
  [m EXCEPT !.running = None, !.refreshing = FALSE, !.failed = FALSE,
            !.entries = [k \in Keys |-> Observe(@[k], reports[k], g)]]
Refused(m) ==
  [m EXCEPT !.running = None, !.refreshing = FALSE, !.failed = TRUE,
            !.entries = Aged(@, {"current", "stale"})]

\* Mutant of Superseded: only the controller's end retires a result.
SupersededByClose(id, g) == closed

\* The generation of an observation was retired or replaced meanwhile.
Superseded(id, g) ==
  metadata[id].slot # g \/ slot[g].stopping \/ slot[g].cancelled \/ closed \/ clients[id] # g

\* The goroutine keeps its users count until after it released mu.
Commit(j, next, again) ==
  LET id == job[j].id IN
  /\ job' = [job EXCEPT ![j] = IF again THEN [id |-> id, by |-> next.slot] ELSE NoObservation]
  /\ AnnounceOne(id, IF again THEN Acquire(next, j) ELSE next)
  /\ Answer(j)
  /\ SetSlot(job[j].by, [slot[job[j].by] EXCEPT !.users = @ + 1])
  /\ UNCHANGED registry

\* Mutant of ObserveRetired: whoever waits for a retired result is not answered.
ObserveRetiredSilently(j) ==
  LET id == job[j].id
      g == job[j].by
  IN
  /\ job[j] # NoObservation /\ Superseded(id, g)
  /\ job' = [job EXCEPT ![j] = NoObservation]
  /\ AnnounceOne(id, Stop([metadata[id] EXCEPT !.running = None], g))
  /\ SetSlot(g, [slot[g] EXCEPT !.users = @ + 1])
  /\ UNCHANGED <<registry, refresh>>

\* metadataObserve retires its result; a newer generation is observed at once.
ObserveRetired(j) ==
  LET id == job[j].id
      g == job[j].by
      mine == metadata[id].running = j
      free == IF mine THEN [metadata[id] EXCEPT !.running = None] ELSE metadata[id]
      next == IF mine /\ slot[g].cancelled THEN Stop(free, g) ELSE free
  IN
  /\ job[j] # NoObservation /\ (~mine \/ Superseded(id, g))
  /\ Commit(j, next, /\ mine /\ ~closed /\ next.slot \notin {None, g}
                     /\ ~slot[next.slot].stopping /\ ~slot[next.slot].cancelled)

\* metadataObserve publishes its result, and a pending invalidation follows.
ObserveCommits(j) ==
  LET id == job[j].id
      g == job[j].by
      m == metadata[id]
  IN
  /\ job[j] # NoObservation /\ m.running = j /\ ~Superseded(id, g)
  /\ \E next \in {Refused(m)} \cup
                 {Updated(m, g, reports) :
                    reports \in [Keys -> {"none", "success", "failure", "remove"}]} :
       Commit(j, Publish(m, [next EXCEPT !.pending = FALSE]), m.pending)

\* Mutant of ObserveReturns: users.Done runs for live generations only.
ObserveReturnsLive(g) ==
  /\ slot[g].users > 0 /\ ~slot[g].stopping
  /\ SetSlot(g, [slot[g] EXCEPT !.users = @ - 1])
  /\ UNCHANGED <<registry, metadata, job, refresh, watch>>

\* users.Done, deferred past the unlock.
ObserveReturns(g) ==
  /\ slot[g].users > 0
  /\ SetSlot(g, [slot[g] EXCEPT !.users = @ - 1])
  /\ UNCHANGED <<registry, metadata, job, refresh, watch>>

-----------------------------------------------------------------------------
(* Watchers.                                                               *)

Message(id) ==
  [id |-> id, revision |-> metadata[id].revision, removed |-> metadata[id].removed]

\* WatchConnectionMetadata: subscribe, with a copy of what there is to replay.
WatchConnectionMetadata(w) ==
  LET known == connections \cup {id \in Ids : metadata[id].removed} IN
  /\ watch[w].pc = "idle" /\ ~closed
  /\ SetWatch(w, [NoWatch EXCEPT
       !.pc = "replay", !.replay = {Message(id) : id \in known},
       !.start = [id \in Ids |-> IF id \in known THEN metadata[id].revision ELSE 0]])
  /\ UNCHANGED <<registry, slot, metadata, job, refresh>>

Deliver(w, e) == [watch[w] EXCEPT !.seen[e.id] = e.revision]

\* The live snapshots in any order, then the tombstones.
WatchReplays(w) ==
  /\ watch[w].pc = "replay"
  /\ \/ \E e \in watch[w].replay :
          /\ e.removed => \A f \in watch[w].replay : f.removed
          /\ SetWatch(w, [Deliver(w, e) EXCEPT !.replay = @ \ {e}])
     \/ watch[w].replay = {} /\ SetWatch(w, [watch[w] EXCEPT !.pc = "select"])
  /\ UNCHANGED <<registry, slot, metadata, job, refresh>>

\* Mutant of WatchTakes: events overtake the replay.
WatchTakesEarly(w) ==
  /\ watch[w].pc \in {"replay", "select"} /\ watch[w].queue # << >>
  /\ SetWatch(w, [watch[w] EXCEPT !.pc = "took", !.queue = Tail(@), !.hand = {Head(watch[w].queue)}])
  /\ UNCHANGED <<registry, slot, metadata, job, refresh>>

\* select: an event
WatchTakes(w) ==
  /\ watch[w].pc = "select" /\ watch[w].queue # << >>
  /\ SetWatch(w, [watch[w] EXCEPT !.pc = "took", !.queue = Tail(@), !.hand = {Head(watch[w].queue)}])
  /\ UNCHANGED <<registry, slot, metadata, job, refresh>>

\* The event is given to the sink unless the watcher was dropped meanwhile.
WatchDelivers(w) ==
  /\ watch[w].pc = "took" /\ ~watch[w].overflow
  /\ \E e \in watch[w].hand :
       SetWatch(w, [Deliver(w, e) EXCEPT !.pc = "select", !.hand = {}])
  /\ UNCHANGED <<registry, slot, metadata, job, refresh>>

\* Mutant of WatchIsTold: the controller's end is not among the select's cases.
WatchIsToldReset(w) ==
  /\ watch[w].overflow /\ watch[w].pc \in {"select", "took"}
  /\ SetWatch(w, NoWatch)
  /\ UNCHANGED <<registry, slot, metadata, job, refresh>>

\* RESET_REQUIRED for a dropped watcher, or the controller's end.
WatchIsTold(w) ==
  /\ \/ watch[w].overflow /\ watch[w].pc \in {"select", "took"}
     \/ closed /\ watch[w].pc = "select"
  /\ SetWatch(w, NoWatch)
  /\ UNCHANGED <<registry, slot, metadata, job, refresh>>

\* The caller's context ends in the select, or the sink returns an error.
WatchLeaves(w) ==
  /\ watch[w].pc # "idle"
  /\ SetWatch(w, NoWatch)
  /\ UNCHANGED <<registry, slot, metadata, job, refresh>>

-----------------------------------------------------------------------------
Next ==
  \/ \E g \in Generations, id \in Ids : StartSlot(g, id)
  \/ \E g \in Generations :
       \/ StartReturns(g) \/ HookRuns(g) \/ Admit(g) \/ StopSlot(g)
       \/ Drain(g) \/ Unregister(g) \/ ObserveReturns(g)
  \/ Close
  \/ \E next, replaced \in SUBSET Ids :
       (replaced # {} => "replace" \in Events) /\ Stage(next, replaced)
  \/ PublishInventory \/ AbandonInventory
  \/ \E r \in Refreshers, id \in Ids : RefreshConnectionMetadata(r, id)
  \/ \E r \in Refreshers : RefreshAbandon(r)
  \/ \E id \in Ids : InvalidateConnectionMetadata(id)
  \/ \E j \in Jobs : ObserveRetired(j) \/ ObserveCommits(j)
  \/ \E w \in Watchers :
       \/ WatchConnectionMetadata(w) \/ WatchReplays(w) \/ WatchTakes(w)
       \/ WatchDelivers(w) \/ WatchIsTold(w) \/ WatchLeaves(w)

Spec == Init /\ [][Next]_vars

\* Callbacks and sinks return, the drain is awaited by whoever stops.
Fairness ==
  /\ \A g \in Generations :
       /\ WF_vars(StartReturns(g)) /\ WF_vars(Drain(g)) /\ WF_vars(Unregister(g))
       /\ WF_vars(ObserveReturns(g))
  /\ \A j \in Jobs : WF_vars(ObserveRetired(j) \/ ObserveCommits(j))
  /\ \A w \in Watchers :
       WF_vars(WatchReplays(w) \/ WatchTakes(w) \/ WatchDelivers(w)) /\ WF_vars(WatchIsTold(w))

FairSpec == Spec /\ Fairness

-----------------------------------------------------------------------------
(* Properties.                                                             *)

\* The state has the shape the Go types give it; a nil or stale pointer
\* dereferenced by a hook would leave it.
TypeOK ==
  /\ closed \in BOOLEAN
  /\ connections \subseteq Ids
  /\ change \in Changes
  /\ clients \in [Ids -> Generations \cup {None}]
  /\ slot \in [Generations -> Slots]
  /\ metadata \in [Ids -> Metadata]
  /\ job \in [Jobs -> Observations]
  /\ refresh \in [Refreshers -> Jobs \cup {None}]
  /\ watch \in [Watchers -> WatchCalls]

\* The messages a watcher has yet to hand to its sink, in order.
Ahead(w) ==
  (IF watch[w].hand = {} THEN << >> ELSE <<CHOOSE e \in watch[w].hand : TRUE>>) \o watch[w].queue

\* What the sink will know of id once the replay is over.
Base(w, id) ==
  IF watch[w].seen[id] = 0 THEN watch[w].start[id] ELSE watch[w].seen[id]

\* A watcher that was not dropped misses no revision and sees none twice: what
\* is ahead of it continues, for each ID, what its sink has or will have from
\* the replay, up to the published revision (WatchConnectionMetadata and
\* metadataPublishLocked).
WatcherMissesNothing ==
  \A w \in Watchers, id \in Ids :
    Registered(w) =>
      LET revisions == [i \in {k \in DOMAIN Ahead(w) : Ahead(w)[k].id = id} |-> Ahead(w)[i].revision]
      IN {revisions[i] : i \in DOMAIN revisions} = Base(w, id) + 1 .. metadata[id].revision
         /\ \A i, k \in DOMAIN revisions : i < k => revisions[i] < revisions[k]

\* Facts are those of the generation the snapshot names, and a current one is
\* only published while that generation serves: nothing a predecessor observed
\* is attributed to its successor, and retirement marks everything stale.
FactsBelongToGeneration ==
  \A id \in Ids, k \in Keys :
    LET m == metadata[id]
        e == m.entries[k]
    IN /\ e.by # None => e.by = m.generation
       /\ e.state = "current" => m.active
       /\ m.active => /\ m.slot = m.generation /\ m.slot # None
                      /\ clients[id] = m.slot /\ ~slot[m.slot].stopping

\* A snapshot says refreshing exactly while an observation of its own generation
\* runs, and no connection is observed twice at once; a pending invalidation has
\* an observation to follow, of the same generation.
RefreshingIsTruthful ==
  \A id \in Ids :
    LET m == metadata[id] IN
    /\ m.refreshing <=> (m.slot # None /\ m.running # None)
    /\ m.refreshing => job[m.running] = [id |-> id, by |-> m.slot]
    /\ m.pending => m.refreshing
    /\ \A j, k \in Jobs : job[j].id = id /\ job[k].id = id => j = k

\* An observation runs on a client that is not torn down: the goroutine counts
\* as a user from before it starts until after its result is in.
ObservesLiveClient ==
  \A j \in Jobs : job[j] # NoObservation => slot[job[j].by].phase = "ready"

\* The tombstone is published for removed IDs, for these only, and is gone when
\* the ID comes back; every configured ID has a snapshot to replay.
TombstonesAreTruthful ==
  \A id \in Ids :
    /\ metadata[id].removed <=> (metadata[id].revision > 0 /\ id \notin connections)
    /\ id \in connections => metadata[id].revision > 0

\* What the controller publishes about connections is consistent whenever its
\* lock is free: facts and refreshing are those of the generation shown, nobody
\* observes a client that is torn down, removed connections are tombstones, and
\* no watcher that is still registered has lost a revision.
MetadataIsConsistent ==
  /\ FactsBelongToGeneration
  /\ RefreshingIsTruthful
  /\ ObservesLiveClient
  /\ TombstonesAreTruthful
  /\ WatcherMissesNothing

\* The watchers implement the feed that WatchConnectionMetadata promises.
Feed ==
  INSTANCE MetadataFeed WITH
    Subscribers <- Watchers,
    revision <- [id \in Ids |-> metadata[id].revision],
    open <- {w \in Watchers : watch[w].pc # "idle"},
    start <- [w \in Watchers |-> watch[w].start],
    seen <- [w \in Watchers |-> watch[w].seen]

\* Every step of the controller is a step of that feed, or invisible to it: a
\* subscriber is given the state at its subscription and then each revision once,
\* in order, whatever is published, dropped or closed in between.
WatchersFollowFeed == Feed!Spec

\* Whoever watches catches up with every connection, tombstones included, or is
\* told that it lost a revision; and every watcher of a closed controller returns.
EveryRevisionArrives ==
  \A w \in Watchers :
    /\ watch[w].pc # "idle"
         ~> watch[w].pc = "idle" \/ \A id \in Ids : watch[w].seen[id] >= metadata[id].revision
    /\ closed ~> watch[w].pc = "idle"

\* A refresh is answered even when its generation retires under it.
EveryRefreshReturns ==
  \A r \in Refreshers : refresh[r] # None ~> refresh[r] = None

\* Observations never keep a retired generation from its teardown.
ObservationsEnd ==
  \A g \in Generations : slot[g].stopping ~> slot[g].phase = "gone"

\* Observations settle, whatever retires, replaces or closes meanwhile: whoever
\* waits for one is answered, and none holds up a teardown.
ObservationsSettle == EveryRefreshReturns /\ ObservationsEnd
=============================================================================
