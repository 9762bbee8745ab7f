----------------------------- MODULE LogSession -----------------------------
(***************************************************************************)
(* The session manager of pkg/v1/logs: creation of sessions, resolution of *)
(* their sources, one goroutine per source that opens and reads a native   *)
(* stream and reconnects, source events, changes of the enabled sources,   *)
(* pause and resume, CloseSession, Close and the end of the command stream.*)
(*                                                                         *)
(* A creation is one request and the one sessionState it may register.  A  *)
(* goroutine of a source is named by its session, its source and a launch  *)
(* number.  Handlers, resolvers and the connection registry are external:  *)
(* a handler opens, fails, ends or breaks at any time; a lease ends only   *)
(* when it is returned, and retirement cancels its context.  Lines and     *)
(* events are not kept: whoever reads them is taken to go on reading.      *)
(***************************************************************************)
EXTENDS Naturals, FiniteSets

CONSTANTS
  Creates,      \* creation requests, and the sessions they register
  Resource,     \* the requests made through CreateResourceSession
  Ids,          \* session IDs
  IdOf,         \* the ID each request asks for
  Sources,      \* log sources
  SourcesOf,    \* the sources a session's resource can have
  Resolving,    \* the requests served by a resolver, not by a handler alone
  Limit,        \* MaxConcurrentStreamsPerSession
  MaxAttempts,  \* ReconnectMaxAttempts
  MaxLaunches,  \* bound: goroutines a source of a session has at a time
  MaxEvents,    \* bound: calls, commands and other events from outside
  Closers,      \* goroutines calling CloseSession
  Updaters,     \* goroutines calling UpdateSessionOptions
  None          \* no session, no goroutine

ASSUME LogAssumption ==
  /\ Resource \subseteq Creates /\ Resolving \subseteq Creates
  /\ IdOf \in [Creates -> Ids]
  /\ IsFiniteSet(Sources) /\ SourcesOf \in [Creates -> SUBSET Sources]
  /\ Limit \in Nat \ {0} /\ MaxLaunches \in Nat \ {0}
  /\ MaxAttempts \in Nat /\ MaxEvents \in Nat
  /\ None \notin Creates \cup 1 .. MaxLaunches

VARIABLES
  call,      \* each creation: its goroutine, request, reply and lease
  session,   \* each sessionState
  producer,  \* the goroutines of each session's sources
  sessions,  \* Manager.sessions: session ID -> session or None
  closed,    \* Manager.closed
  closer,    \* the calls of CloseSession
  updater,   \* the calls of UpdateSessionOptions
  command,   \* the command that handleCommands is at
  events     \* events from outside so far

vars == <<call, session, producer, sessions, closed, closer, updater, command, events>>
calls == <<closer, updater, command>>

-----------------------------------------------------------------------------
(* State.                                                                  *)

Launches == 1 .. MaxLaunches
Statuses == {"CONNECTING", "INITIALIZING", "ACTIVE", "PAUSED", "ERROR", "CLOSED"}

CreateRecords ==
  [pc : {"idle", "acquire", "register", "check", "abandon", "hold", "end"},
   request : BOOLEAN, reply : {"none", "accepted", "refused"}, lease : BOOLEAN]

Phases == {"none", "resolve", "sources", "initial", "stream", "check", "close", "done"}

\* live is the session's context with its parents; orchestrate is what its
\* goroutine is at; sourceCtxs names the launch whose context an entry cancels;
\* ready is readySet and counted the sources that readySources counts.  Two
\* fields are history: the sources that reported ready before the session was
\* initializing, and those that a cancelled goroutine left without a report.
SessionRecords ==
  [live : BOOLEAN, status : Statuses, orchestrate : Phases,
   follow : BOOLEAN, watch : BOOLEAN,
   initial : SUBSET Sources, active : SUBSET Sources,
   sourceCtxs : [Sources -> Launches \cup {None}],
   ready : SUBSET Sources, counted : SUBSET Sources, readied : BOOLEAN,
   early : SUBSET Sources, gaveUp : SUBSET Sources]

\* live is the goroutine's own context.
ProducerRecords ==
  [pc : {"none", "launch", "queued", "try", "open", "read"},
   live : BOOLEAN, attempt : 0 .. MaxAttempts + 1]

NoGoroutine == [pc |-> "none", live |-> TRUE, attempt |-> 0]

Idle == [pc |-> "idle", at |-> None, restart |-> {}]
Targets == Creates \cup {None}

Init ==
  /\ call = [c \in Creates |-> [pc |-> IF c \in Resource THEN "idle" ELSE "register",
                                 request |-> TRUE, reply |-> "none", lease |-> FALSE]]
  /\ session = [c \in Creates |->
                  [live |-> TRUE, status |-> "CONNECTING", orchestrate |-> "none",
                   follow |-> FALSE, watch |-> FALSE, initial |-> {}, active |-> {},
                   sourceCtxs |-> [s \in Sources |-> None], ready |-> {}, counted |-> {},
                   readied |-> FALSE, early |-> {}, gaveUp |-> {}]]
  /\ producer = [c \in Creates |-> [s \in Sources |-> [n \in Launches |-> NoGoroutine]]]
  /\ sessions = [i \in Ids |-> None]
  /\ closed = FALSE
  /\ closer = [k \in Closers |-> None]
  /\ updater = [u \in Updaters |-> Idle]
  /\ command = [pc |-> "idle", at |-> None]
  /\ events = 0

SetCall(c, record) == call' = [call EXCEPT ![c] = record]
SetSession(c, record) == session' = [session EXCEPT ![c] = record]
SetProducer(c, s, n, record) == producer' = [producer EXCEPT ![c][s][n] = record]

\* Something happens that the manager does not decide.
External == events < MaxEvents /\ events' = events + 1

Registered(c) == sessions[IdOf[c]] = c

\* delete of an ID whose entry is c.
Unregister(c) == sessions' = [sessions EXCEPT ![IdOf[c]] = None]

-----------------------------------------------------------------------------
(* Creation.                                                               *)

\* CreateResourceSession starts a goroutine that first takes a lease; the first
\* thing that CreateSession does is to register.
CreateResourceSession(c) ==
  /\ call[c].pc = "idle"
  /\ SetCall(c, [call[c] EXCEPT !.pc = "acquire"])
  /\ UNCHANGED <<session, producer, sessions, closed, calls, events>>

\* WithUtilityConnection: the lease is granted and the bridge from the request
\* is taken down before it fired; or the lease is refused, or the request ended.
Acquire(c) ==
  /\ call[c].pc = "acquire"
  /\ \/ /\ call[c].request
        /\ SetCall(c, [call[c] EXCEPT !.pc = "register", !.lease = TRUE])
     \/ SetCall(c, [call[c] EXCEPT !.pc = "end", !.reply = "refused"])
  /\ UNCHANGED <<session, producer, sessions, closed, calls, events>>

\* createSession: a closed manager and a known ID are refused.  A refused call
\* of CreateSession leaves nothing, and may be made again.
Register(c) ==
  /\ call[c].pc = "register"
  /\ IF closed \/ sessions[IdOf[c]] # None
       THEN /\ SetCall(c, IF c \in Resource
                            THEN [call[c] EXCEPT !.pc = "end", !.reply = "refused", !.lease = FALSE]
                          ELSE call[c])
            /\ UNCHANGED <<session, sessions>>
       ELSE /\ sessions' = [sessions EXCEPT ![IdOf[c]] = c]
            /\ SetSession(c, [session[c] EXCEPT !.orchestrate = "resolve"])
            /\ SetCall(c, IF c \in Resource THEN [call[c] EXCEPT !.pc = "check"]
                          ELSE [call[c] EXCEPT !.pc = "end", !.reply = "accepted"])
  /\ UNCHANGED <<producer, closed, calls, events>>

\* The creation is accepted, or the request has ended meanwhile: the session is
\* cancelled and its entry removed, if it is still this one.
Accept(c) ==
  /\ call[c].pc = "check" /\ call[c].request
  /\ SetCall(c, [call[c] EXCEPT !.pc = "hold", !.reply = "accepted"])
  /\ UNCHANGED <<session, producer, sessions, closed, calls, events>>

\* Mutant of Abandon: the entry under the ID is removed, whoever's it is.
AbandonById(c) ==
  /\ call[c].pc = "check" /\ ~call[c].request
  /\ SetCall(c, [call[c] EXCEPT !.pc = "abandon"])
  /\ SetSession(c, [session[c] EXCEPT !.live = FALSE])
  /\ Unregister(c)
  /\ UNCHANGED <<producer, closed, calls, events>>

Abandon(c) ==
  /\ call[c].pc = "check" /\ ~call[c].request
  /\ SetCall(c, [call[c] EXCEPT !.pc = "abandon"])
  /\ SetSession(c, [session[c] EXCEPT !.live = FALSE])
  /\ IF Registered(c) THEN Unregister(c) ELSE UNCHANGED sessions
  /\ UNCHANGED <<producer, closed, calls, events>>

\* The session is done: the lease goes back and the context it gave ends.
Release(c) ==
  /\ call[c].pc \in {"abandon", "hold"} /\ session[c].orchestrate = "done"
  /\ SetCall(c, [call[c] EXCEPT !.pc = "end", !.lease = FALSE,
                                !.reply = IF @ = "none" THEN "refused" ELSE @])
  /\ SetSession(c, [session[c] EXCEPT !.live = FALSE])
  /\ UNCHANGED <<producer, sessions, closed, calls, events>>

-----------------------------------------------------------------------------
(* orchestrateSession.                                                     *)

\* setStatus forces a status, transition changes an expected one.
SetStatus(r, to) == [r EXCEPT !.status = to]

\* Mutant of Transition: the current status is not looked at.
TransitionAlways(r, from, to) == SetStatus(r, to)

Transition(r, from, to) == IF r.status = from THEN SetStatus(r, to) ELSE r

\* No handler, a failing resolver, or a builder that finds no source.
ResolveFails(c) ==
  /\ session[c].orchestrate = "resolve"
  /\ SetSession(c, [SetStatus(session[c], "ERROR") EXCEPT !.orchestrate = "stream"])
  /\ UNCHANGED <<call, producer, sessions, closed, calls, events>>

\* setSources: the sources are known, and listed where UpdateSessionOptions can
\* see them.  Only a resolver finds no source and still succeeds.
SetSources(c) ==
  /\ session[c].orchestrate = "resolve"
  /\ \E S \in SUBSET SourcesOf[c], follow \in BOOLEAN :
       /\ S = {} => c \in Resolving
       /\ SetSession(c, [session[c] EXCEPT !.orchestrate = "sources",
                                           !.active = S, !.follow = follow])
  /\ UNCHANGED <<call, producer, sessions, closed, calls, events>>

\* totalSources and initialSourceIDs, under no lock.  A source that reports in
\* between finds no ID and does not look at the total, so they are one step.
SetInitial(c) ==
  /\ session[c].orchestrate = "sources"
  /\ SetSession(c, [session[c] EXCEPT !.orchestrate = "initial", !.initial = session[c].active])
  /\ UNCHANGED <<call, producer, sessions, closed, calls, events>>

Working(c, s, n) == producer[c][s][n].pc # "none"

\* A goroutine is started under the first free number.
Unused(c, s, n) == ~Working(c, s, n) /\ \A m \in 1 .. n - 1 : Working(c, s, m)

\* The session is initializing, or ready when there is nothing to open.
Initializing(r) ==
  LET initializing == Transition(r, "CONNECTING", "INITIALIZING")
  IN IF r.initial = {} THEN Transition(initializing, "INITIALIZING", "ACTIVE") ELSE initializing

\* The watcher is started if there is a resolver and it sends events, and
\* fanOutSources launches each source.
Initialize(c) ==
  LET S == session[c].initial IN
  /\ session[c].orchestrate = "initial"
  /\ \A s \in S : \E n \in Launches : Unused(c, s, n)
  /\ \E watch \in BOOLEAN :
       /\ watch => session[c].follow /\ c \in Resolving
       /\ SetSession(c, [Initializing(session[c]) EXCEPT !.orchestrate = "stream", !.watch = watch])
  /\ producer' = [producer EXCEPT ![c] = [s \in Sources |-> [n \in Launches |->
                    IF s \in S /\ Unused(c, s, n) THEN [@[s][n] EXCEPT !.pc = "launch"]
                    ELSE @[s][n]]]]
  /\ UNCHANGED <<call, sessions, closed, calls, events>>

\* fanOutSources returns when the goroutines it started have ended, and
\* finalizeSession waits for the watcher and for every launch since then.
Drained(c) ==
  /\ session[c].orchestrate = "stream" /\ ~session[c].watch
  /\ \A s \in Sources, n \in Launches : ~Working(c, s, n)
  /\ SetSession(c, [session[c] EXCEPT !.orchestrate = "check"])
  /\ UNCHANGED <<call, producer, sessions, closed, calls, events>>

\* finalizeSession keeps the status of a failed session, and forces CLOSED on
\* another under the lock that it takes again.
CheckStatus(c) ==
  /\ session[c].orchestrate = "check"
  /\ SetSession(c, [session[c] EXCEPT !.orchestrate =
                      IF session[c].status = "ERROR" THEN "done" ELSE "close"])
  /\ UNCHANGED <<call, producer, sessions, closed, calls, events>>

FinalizeSession(c) ==
  /\ session[c].orchestrate = "close"
  /\ SetSession(c, [SetStatus(session[c], "CLOSED") EXCEPT !.orchestrate = "done"])
  /\ UNCHANGED <<call, producer, sessions, closed, calls, events>>

-----------------------------------------------------------------------------
(* The goroutines of the sources.                                          *)

Live(c, s, n) == session[c].live /\ producer[c][s][n].live

\* totalSources: in follow mode no more than can stream at a time.
Total(r) == IF r.follow /\ Cardinality(r.initial) > Limit THEN Limit ELSE Cardinality(r.initial)

\* markSourceReady: a source is stored the first time, and counted if it is an
\* initial one; once enough are, the session is ready unless it ended or failed.
MarkSourceReady(r, s) ==
  LET first == s \notin r.ready
      counts == first /\ s \in r.initial
      marked == [r EXCEPT !.ready = @ \cup {s},
                          !.counted = IF counts THEN @ \cup {s} ELSE @,
                          !.gaveUp = @ \ {s},
                          !.early = IF r.orchestrate \in {"sources", "initial"} THEN @ \cup {s} ELSE @]
      enough == counts /\ Cardinality(marked.counted) >= Total(r)
  IN IF enough /\ r.live /\ r.status \notin {"ERROR", "CLOSED"} /\ ~r.readied
       THEN Transition([marked EXCEPT !.readied = TRUE], "INITIALIZING", "ACTIVE")
       ELSE marked

\* The goroutine returns; the source's entry is deleted whoever registered it.
Forget(r, s) == [r EXCEPT !.sourceCtxs[s] = None]
EndProducer(c, s, n) == SetProducer(c, s, n, NoGoroutine)

\* launchSource: a source that is registered already is not launched again.
LaunchSource(c, s, n) ==
  /\ producer[c][s][n].pc = "launch"
  /\ IF session[c].sourceCtxs[s] = None
       THEN /\ SetSession(c, [session[c] EXCEPT !.sourceCtxs[s] = n])
            /\ SetProducer(c, s, n, [producer[c][s][n] EXCEPT !.pc = "queued"])
       ELSE EndProducer(c, s, n) /\ UNCHANGED session
  /\ UNCHANGED <<call, sessions, closed, calls, events>>

Streaming(c) ==
  {p \in Sources \X Launches : producer[c][p[1]][p[2]].pc \in {"try", "open", "read"}}

\* Mutant of Dequeue: a source cancelled in the queue is not counted.
DequeueUncounted(c, s, n) ==
  /\ producer[c][s][n].pc = "queued"
  /\ \/ /\ Live(c, s, n) /\ Cardinality(Streaming(c)) < Limit
        /\ SetProducer(c, s, n, [producer[c][s][n] EXCEPT !.pc = "try"])
        /\ UNCHANGED session
     \/ /\ ~Live(c, s, n)
        /\ SetSession(c, Forget(session[c], s))
        /\ EndProducer(c, s, n)
  /\ UNCHANGED <<call, sessions, closed, calls, events>>

\* launchRegisteredSource waits for the semaphore; a source cancelled meanwhile
\* counts as ready, so that the session does not wait for it.
Dequeue(c, s, n) ==
  /\ producer[c][s][n].pc = "queued"
  /\ \/ /\ Live(c, s, n) /\ Cardinality(Streaming(c)) < Limit
        /\ SetProducer(c, s, n, [producer[c][s][n] EXCEPT !.pc = "try"])
        /\ UNCHANGED session
     \/ /\ ~Live(c, s, n)
        /\ SetSession(c, MarkSourceReady(Forget(session[c], s), s))
        /\ EndProducer(c, s, n)
  /\ UNCHANGED <<call, sessions, closed, calls, events>>

\* A cancelled streamWithReconnect returns, whether its source was counted or not.
GiveUp(r, s) ==
  [Forget(r, s) EXCEPT !.gaveUp = IF r.live /\ s \notin r.ready THEN @ \cup {s} ELSE @]

\* streamWithReconnect at the head of its loop: it gives up when cancelled, and
\* after the last attempt the session has failed.
Attempt(c, s, n) ==
  LET p == producer[c][s][n] IN
  /\ p.pc = "try"
  /\ IF Live(c, s, n) /\ p.attempt <= MaxAttempts
       THEN SetProducer(c, s, n, [p EXCEPT !.pc = "open"]) /\ UNCHANGED session
       ELSE /\ SetSession(c, IF Live(c, s, n) THEN SetStatus(Forget(session[c], s), "ERROR")
                             ELSE GiveUp(session[c], s))
            /\ EndProducer(c, s, n)
  /\ UNCHANGED <<call, sessions, closed, calls, events>>

Retry(p) == [p EXCEPT !.pc = "try", !.attempt = @ + 1]

\* The handler returns a reader, or none.
OpenSourceReader(c, s, n) ==
  LET p == producer[c][s][n] IN
  /\ p.pc = "open"
  /\ \/ SetProducer(c, s, n, [p EXCEPT !.pc = "read"]) /\ SetSession(c, MarkSourceReady(session[c], s))
     \/ SetProducer(c, s, n, Retry(p)) /\ UNCHANGED session
  /\ UNCHANGED <<call, sessions, closed, calls, events>>

\* consumeSourceReader ends: at the end of the stream, or with a read error that
\* is retried unless the source was cancelled.
ReadEnds(c, s, n) ==
  LET p == producer[c][s][n] IN
  /\ p.pc = "read"
  /\ \/ EndProducer(c, s, n) /\ SetSession(c, Forget(session[c], s))
     \/ Live(c, s, n) /\ SetProducer(c, s, n, Retry(p)) /\ UNCHANGED session
  /\ UNCHANGED <<call, sessions, closed, calls, events>>

-----------------------------------------------------------------------------
(* Source events and changes of the enabled sources.                       *)

\* A launch counted in sourceWg.
Spawn(c, s, n, pc) == SetProducer(c, s, n, [producer[c][s][n] EXCEPT !.pc = pc])

\* watchSourceEvents, SourceAdded: unless it is registered, the source is
\* registered, listed and launched.
SourceAdded(c, s) ==
  /\ session[c].watch
  /\ session[c].sourceCtxs[s] = None
  /\ \E n \in Launches :
       /\ Unused(c, s, n)
       /\ Spawn(c, s, n, "queued")
       /\ SetSession(c, [session[c] EXCEPT !.sourceCtxs[s] = n, !.active = @ \cup {s}])
  /\ External
  /\ UNCHANGED <<call, sessions, closed, calls>>

\* cancel of the launches that the entries of S belong to.
Cancelled(c, S) ==
  [s \in Sources |-> [n \in Launches |->
     IF s \in S /\ session[c].sourceCtxs[s] = n
       THEN [producer[c][s][n] EXCEPT !.live = FALSE] ELSE producer[c][s][n]]]

SourceRemoved(c, s) ==
  /\ session[c].watch
  /\ producer' = [producer EXCEPT ![c] = Cancelled(c, {s})]
  /\ SetSession(c, [session[c] EXCEPT !.active = @ \ {s}])
  /\ External
  /\ UNCHANGED <<call, sessions, closed, calls>>

\* The session is cancelled or the resolver closes its channel.
WatchEnds(c) ==
  /\ session[c].watch
  /\ SetSession(c, [session[c] EXCEPT !.watch = FALSE])
  /\ UNCHANGED <<call, producer, sessions, closed, calls, events>>

\* UpdateSessionOptions looks the session up, then works without Manager.mu.
UpdateSessionOptions(u) ==
  /\ updater[u].pc = "idle"
  /\ \E c \in Creates :
       /\ Registered(c)
       /\ updater' = [updater EXCEPT ![u] = [pc |-> "apply", at |-> c, restart |-> {}]]
  /\ External
  /\ UNCHANGED <<call, session, producer, sessions, closed, closer, command>>

\* The call at the point of launching S again; it returns when S is empty.
Restarting(c, S) == IF S = {} THEN Idle ELSE [pc |-> "restart", at |-> c, restart |-> S]

\* updateEnabledSources under sourceMu: disabled sources are cancelled and
\* forgotten; listed sources without an entry are to be launched again.
UpdateEnabledSources(u) ==
  LET c == updater[u].at IN
  /\ updater[u].pc = "apply"
  /\ \E enabled \in SUBSET SourcesOf[c] :
       LET disabled == Sources \ enabled
           kept == [session[c] EXCEPT !.sourceCtxs = [s \in Sources |->
                      IF s \in disabled THEN None ELSE @[s]]]
       IN /\ producer' = [producer EXCEPT ![c] = Cancelled(c, disabled)]
          /\ SetSession(c, kept)
          /\ updater' = [updater EXCEPT ![u] =
               Restarting(c, {s \in kept.active \cap enabled : kept.sourceCtxs[s] = None})]
  /\ UNCHANGED <<call, sessions, closed, closer, command, events>>

\* sourceWg.Add and go: under no lock, whatever became of the session.
RestartSource(u, s) ==
  LET c == updater[u].at IN
  /\ updater[u].pc = "restart" /\ s \in updater[u].restart
  /\ \E n \in Launches : Unused(c, s, n) /\ Spawn(c, s, n, "launch")
  /\ updater' = [updater EXCEPT ![u] = Restarting(c, @.restart \ {s})]
  /\ UNCHANGED <<call, session, sessions, closed, closer, command, events>>

-----------------------------------------------------------------------------
(* Commands and closing.                                                   *)

\* handleCommands looks the session up and then forces its status.
ReadCommand ==
  /\ command.pc = "idle"
  /\ \E c \in Creates, m \in {"pause", "resume"} : Registered(c) /\ command' = [pc |-> m, at |-> c]
  /\ External
  /\ UNCHANGED <<call, session, producer, sessions, closed, closer, updater>>

ApplyCommand ==
  /\ command.pc # "idle"
  /\ SetSession(command.at, SetStatus(session[command.at],
                                      IF command.pc = "pause" THEN "PAUSED" ELSE "ACTIVE"))
  /\ command' = [pc |-> "idle", at |-> None]
  /\ UNCHANGED <<call, producer, sessions, closed, closer, updater, events>>

\* CloseSession: the entry goes first, then the session is cancelled; the call
\* then waits for it for ten seconds, which nothing depends on.
CloseSession(k) ==
  /\ closer[k] = None
  /\ \E c \in Creates : Registered(c) /\ Unregister(c) /\ closer' = [closer EXCEPT ![k] = c]
  /\ External
  /\ UNCHANGED <<call, session, producer, closed, updater, command>>

CloseCancels(k) ==
  LET c == closer[k] IN
  /\ c # None
  /\ SetSession(c, [SetStatus(session[c], "CLOSED") EXCEPT !.live = FALSE])
  /\ closer' = [closer EXCEPT ![k] = None]
  /\ UNCHANGED <<call, producer, sessions, closed, updater, command, events>>

\* Close refuses later sessions; closeAll, at the end of the command stream,
\* does not, and leaves the status to finalizeSession.
Close ==
  /\ ~closed
  /\ closed' = TRUE
  /\ session' = [c \in Creates |-> IF Registered(c)
                   THEN [SetStatus(session[c], "CLOSED") EXCEPT !.live = FALSE] ELSE session[c]]
  /\ sessions' = [i \in Ids |-> None]
  /\ External
  /\ UNCHANGED <<call, producer, calls>>

CloseAll ==
  /\ session' = [c \in Creates |-> IF Registered(c)
                   THEN [session[c] EXCEPT !.live = FALSE] ELSE session[c]]
  /\ sessions' = [i \in Ids |-> None]
  /\ External
  /\ UNCHANGED <<call, producer, closed, calls>>

\* The request of a creation ends; the generation under a lease is retired.
RequestEnds(c) ==
  /\ c \in Resource /\ call[c].request /\ call[c].reply = "none"
  /\ SetCall(c, [call[c] EXCEPT !.request = FALSE])
  /\ External
  /\ UNCHANGED <<session, producer, sessions, closed, calls>>

Retire(c) ==
  /\ call[c].lease /\ session[c].live
  /\ SetSession(c, [session[c] EXCEPT !.live = FALSE])
  /\ External
  /\ UNCHANGED <<call, producer, sessions, closed, calls>>

-----------------------------------------------------------------------------
(* The specification.                                                      *)

Creating(c) ==
  \/ CreateResourceSession(c) \/ Acquire(c) \/ Register(c)
  \/ Accept(c) \/ Abandon(c) \/ Release(c)
Orchestrating(c) ==
  \/ ResolveFails(c) \/ SetSources(c) \/ SetInitial(c) \/ Initialize(c)
  \/ Drained(c) \/ CheckStatus(c) \/ FinalizeSession(c)
Producing(c, s, n) ==
  \/ LaunchSource(c, s, n) \/ Dequeue(c, s, n) \/ Attempt(c, s, n)
  \/ OpenSourceReader(c, s, n) \/ ReadEnds(c, s, n)

Next ==
  \/ \E c \in Creates :
       \/ Creating(c) \/ Orchestrating(c) \/ WatchEnds(c) \/ RequestEnds(c) \/ Retire(c)
       \/ \E s \in SourcesOf[c] : SourceAdded(c, s) \/ SourceRemoved(c, s)
       \/ \E s \in SourcesOf[c], n \in Launches : Producing(c, s, n)
  \/ \E u \in Updaters :
       \/ UpdateSessionOptions(u) \/ UpdateEnabledSources(u)
       \/ \E s \in Sources : RestartSource(u, s)
  \/ \E k \in Closers : CloseSession(k) \/ CloseCancels(k)
  \/ ReadCommand \/ ApplyCommand \/ Close \/ CloseAll

Spec == Init /\ [][Next]_vars

-----------------------------------------------------------------------------
(* Properties.                                                             *)

TypeOK ==
  /\ call \in [Creates -> CreateRecords]
  /\ session \in [Creates -> SessionRecords]
  /\ producer \in [Creates -> [Sources -> [Launches -> ProducerRecords]]]
  /\ sessions \in [Ids -> Targets]
  /\ closed \in BOOLEAN
  /\ closer \in [Closers -> Targets]
  /\ updater \in [Updaters -> [pc : {"idle", "apply", "restart"}, at : Targets, restart : SUBSET Sources]]
  /\ command \in [pc : {"idle", "pause", "resume"}, at : Targets]
  /\ events \in 0 .. MaxEvents

\* A session whose orchestrateSession runs and that was not cancelled can be
\* found by its ID, or is in the hands of a CloseSession about to cancel it:
\* nothing else could ever close it.  A refused creation leaves neither an
\* orchestrateSession nor a lease behind (Manager.sessions, createSession).
NoOrphanSession ==
  \A c \in Creates :
    /\ session[c].live /\ session[c].orchestrate \notin {"none", "done"} =>
         Registered(c) \/ \E k \in Closers : closer[k] = c
    /\ call[c].reply = "refused" => session[c].orchestrate \in {"none", "done"} /\ ~call[c].lease

\* A source launched by UpdateSessionOptions reported ready before its session
\* was initializing: it was not counted, or counted for no transition.
Early(c) == session[c].early # {}

\* The goroutine of an initial source was cancelled after it had a slot and
\* before it opened, and returned; the source was not counted since.
Dropped(c) == session[c].initial \cap session[c].gaveUp # {}

\* A streaming slot is held by a source that was not there at the beginning.
Crowded(c) == \E p \in Streaming(c) : p[1] \notin session[c].initial

\* A source holds two streaming slots: it was disabled and enabled again while
\* its first goroutine was still reading, or lost its entry to that goroutine.
Doubled(c) == \E p, q \in Streaming(c) : p # q /\ p[1] = q[1]

\* A goroutine that will report its source or give up: it waits for nothing but
\* its handler, or for the streams before it, which are finite or still opening,
\* and not even for these when it was cancelled.
Underway(c, s, n) ==
  \/ producer[c][s][n].pc \in {"launch", "try", "open"}
  \/ /\ producer[c][s][n].pc = "queued"
     /\ \/ ~Live(c, s, n) \/ ~session[c].follow \/ Cardinality(Streaming(c)) < Limit
        \/ \E p \in Streaming(c) : producer[c][p[1]][p[2]].pc # "read"

\* A session does not stay INITIALIZING for nothing: until it is ready, fails or
\* ends, some initial source is still on its way to being counted.  There are
\* four exceptions in which it can wait forever: a source reported before the
\* session was initializing, a goroutine was cancelled between its slot and its
\* stream, or a slot that the threshold counts on was taken by a later source or
\* twice by one source (markSourceReady, totalSources, launchSource).
InitializingIsPending ==
  \A c \in Creates :
    session[c].live /\ session[c].status = "INITIALIZING" =>
      \/ Early(c) \/ Dropped(c) \/ Crowded(c) \/ Doubled(c)
      \/ \E s \in session[c].initial \ session[c].ready, n \in Launches : Underway(c, s, n)

\* The step in which handleCommands forces its status on c.
Commanded(c) == command.pc # "idle" /\ command.at = c /\ command'.pc = "idle"

\* A status that reports an end is replaced by one that does not only in the
\* step of a pause or resume.  A failure is replaced by CLOSED only when the
\* session is closed, or when it came after finalizeSession had seen that there
\* was none: a source enabled again at the last moment failed (finalizeSession,
\* transition and markSourceReady race CloseSession and the failing source).
TerminalStatusSticks ==
  [][\A c \in Creates :
       /\ session[c].status \in {"ERROR", "CLOSED"} =>
            session'[c].status \in {"ERROR", "CLOSED"} \/ Commanded(c)
       /\ session[c].status = "ERROR" /\ session'[c].status = "CLOSED" =>
            ~session'[c].live \/ session[c].orchestrate = "close"
       /\ session[c].status = "ERROR" /\ session'[c].orchestrate = "close" =>
            session[c].orchestrate = "close"]_vars
=============================================================================
