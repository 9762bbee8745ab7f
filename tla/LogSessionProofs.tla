-------------------------- MODULE LogSessionProofs --------------------------
(***************************************************************************)
(* Theorems about LogSession for any sets of requests, session IDs and     *)
(* sources, any limits and any number of goroutines.                       *)
(***************************************************************************)
EXTENDS LogSession, FiniteSetTheorems, TLAPS

-----------------------------------------------------------------------------
(* The inductive invariant.                                                *)

\* Before the sources are listed, and before they are all launched.
Unstarted == {"none", "resolve"}
Before == {"none", "resolve", "sources", "initial"}

\* A goroutine between its registration and its end.
Held == {"queued", "try", "open", "read"}

Updates == [pc : {"idle", "apply", "restart"}, at : Targets, restart : SUBSET Sources]
Goroutines == [Sources -> [Launches -> ProducerRecords]]

\* A creation and the session it registers: no session runs before Register,
\* and a creation that was refused has given back its lease.
Created(c) ==
  /\ call[c].pc \in {"idle", "acquire", "register"} =>
       session[c].orchestrate = "none" /\ call[c].reply = "none"
  /\ call[c].pc \in {"idle", "acquire"} => ~call[c].lease
  /\ call[c].pc \in {"check", "abandon"} => call[c].reply = "none"
  /\ call[c].pc = "hold" => call[c].reply = "accepted"
  /\ call[c].reply = "refused" => session[c].orchestrate \in {"none", "done"} /\ ~call[c].lease

\* A session that runs can be found by who could close it.
Reachable(c) ==
  session[c].live /\ session[c].orchestrate \notin {"none", "done"} =>
    Registered(c) \/ \E k \in Closers : closer[k] = c

\* Until its sources are resolved a session has none.
Unresolved(c) ==
  session[c].orchestrate \in Unstarted =>
    /\ session[c].active = {} /\ session[c].ready = {}
    /\ ~session[c].watch /\ ~session[c].readied
    /\ \A s \in Sources, n \in Launches : producer[c][s][n].pc = "none"

\* Unless a source was early, every initial source that reported was counted; a
\* session that still waits for its sources has counted too few of them.
Waits(r) ==
  /\ r.counted \subseteq r.ready
  /\ r.early = {} => r.ready \cap r.initial = r.counted
  /\ r.orchestrate \in Before =>
       r.status # "INITIALIZING" /\ (r.early = {} => r.ready = {} /\ ~r.readied)
  /\ r.status = "INITIALIZING" /\ r.early = {} =>
       ~r.readied /\ (r.live => Cardinality(r.counted) < Total(r))

\* A source that is read has reported, and attempts are counted up to their limit.
Counts(r, f) ==
  \A s \in Sources, n \in Launches :
    /\ f[s][n].pc = "read" => s \in r.ready
    /\ f[s][n].pc \in {"open", "read"} => f[s][n].attempt <= MaxAttempts

\* The goroutine that an entry names works.
Enters(r, f) ==
  \A s \in Sources : r.sourceCtxs[s] # None => f[s][r.sourceCtxs[s]].pc \in Held

\* An initial source that has not reported has a goroutine, or one gave up.
Attends(r, f) ==
  r.live /\ r.status = "INITIALIZING" =>
    \A s \in r.initial \ r.ready : s \in r.gaveUp \/ \E n \in Launches : f[s][n].pc # "none"

Sound(r, f) == Waits(r) /\ Counts(r, f) /\ Enters(r, f) /\ Attends(r, f)

\* Calls hold a session while they work, and restart sources of a resolved one.
Holding ==
  /\ \A u \in Updaters : updater[u].pc # "idle" => updater[u].at \in Creates
  /\ \A u \in Updaters : updater[u].pc = "restart" => session[updater[u].at].orchestrate \notin Unstarted
  /\ command.pc # "idle" => command.at \in Creates

Invariant(c) ==
  Created(c) /\ Reachable(c) /\ Unresolved(c) /\ Sound(session[c], producer[c])

IInv == TypeOK /\ Holding /\ \A c \in Creates : Invariant(c)

\* What a step does to the status of a session, apart from commands.
Keeps(r, t) ==
  /\ r.status \in {"ERROR", "CLOSED"} => t.status \in {"ERROR", "CLOSED"}
  /\ r.status = "ERROR" /\ t.status = "CLOSED" => ~t.live \/ r.orchestrate = "close"
  /\ r.status = "ERROR" /\ t.orchestrate = "close" => r.orchestrate = "close"

Sticks == \A c \in Creates : Keeps(session[c], session'[c])

\* The part of a record that says which sources there are and which reported.
Untouched(r, t) ==
  /\ t.follow = r.follow /\ t.initial = r.initial /\ t.ready = r.ready
  /\ t.counted = r.counted /\ t.readied = r.readied /\ t.early = r.early

-----------------------------------------------------------------------------
(* What the operators on records return.                                   *)

LEMMA SetStatusFacts ==
  ASSUME NEW r \in SessionRecords, NEW to \in Statuses
  PROVE  LET t == SetStatus(r, to) IN
         /\ t \in SessionRecords /\ t.status = to /\ Untouched(r, t)
         /\ t.live = r.live /\ t.orchestrate = r.orchestrate /\ t.watch = r.watch
         /\ t.active = r.active /\ t.sourceCtxs = r.sourceCtxs /\ t.gaveUp = r.gaveUp
  BY DEF SessionRecords, SetStatus, Untouched

LEMMA TransitionFacts ==
  ASSUME NEW r \in SessionRecords, NEW from \in Statuses, NEW to \in Statuses
  PROVE  LET t == Transition(r, from, to) IN
         /\ t \in SessionRecords /\ Untouched(r, t)
         /\ t.status = IF r.status = from THEN to ELSE r.status
         /\ t.live = r.live /\ t.orchestrate = r.orchestrate /\ t.watch = r.watch
         /\ t.active = r.active /\ t.sourceCtxs = r.sourceCtxs /\ t.gaveUp = r.gaveUp
  <1> DEFINE u == SetStatus(r, to)
  <1>1. /\ u \in SessionRecords /\ u.status = to /\ Untouched(r, u)
        /\ u.live = r.live /\ u.orchestrate = r.orchestrate /\ u.watch = r.watch
        /\ u.active = r.active /\ u.sourceCtxs = r.sourceCtxs /\ u.gaveUp = r.gaveUp
    BY SetStatusFacts
  <1>2. Transition(r, from, to) = IF r.status = from THEN u ELSE r
    BY DEF Transition
  <1> HIDE DEF u
  <1>3. Untouched(r, r)
    BY DEF Untouched
  <1> QED BY <1>1, <1>2, <1>3

\* What cancelling a session changes.
LEMMA CancelFacts ==
  ASSUME NEW r \in SessionRecords
  PROVE  LET t == [r EXCEPT !.live = FALSE] IN
         /\ t \in SessionRecords /\ t.live = FALSE /\ Untouched(r, t)
         /\ t.status = r.status /\ t.orchestrate = r.orchestrate /\ t.watch = r.watch
         /\ t.active = r.active /\ t.sourceCtxs = r.sourceCtxs /\ t.gaveUp = r.gaveUp
  BY DEF SessionRecords, Untouched

LEMMA CloseFacts ==
  ASSUME NEW r \in SessionRecords
  PROVE  LET t == [SetStatus(r, "CLOSED") EXCEPT !.live = FALSE] IN
         /\ t \in SessionRecords /\ t.live = FALSE /\ t.status = "CLOSED" /\ Untouched(r, t)
         /\ t.orchestrate = r.orchestrate /\ t.watch = r.watch
         /\ t.active = r.active /\ t.sourceCtxs = r.sourceCtxs /\ t.gaveUp = r.gaveUp
  BY DEF SessionRecords, SetStatus, Statuses, Untouched

\* The sets of sources that a record holds are finite.
LEMMA Finite ==
  ASSUME NEW S \in SUBSET Sources
  PROVE  IsFiniteSet(S) /\ Cardinality(S) \in Nat
  BY LogAssumption, FS_Subset, FS_CardinalityType

LEMMA TotalFacts ==
  ASSUME NEW r \in SessionRecords
  PROVE  /\ Total(r) \in Nat
         /\ r.initial # {} => Total(r) > 0
         /\ Total(r) <= Cardinality(r.initial)
         /\ r.follow => Total(r) <= Limit
  <1>1. r.initial \in SUBSET Sources
    BY DEF SessionRecords
  <1>2. Cardinality(r.initial) \in Nat /\ IsFiniteSet(r.initial)
    BY <1>1, Finite
  <1>3. r.initial # {} => Cardinality(r.initial) # 0
    BY <1>2, FS_EmptySet
  <1> QED BY <1>2, <1>3, LogAssumption DEF Total

\* Changes of fields that Waits does not look at.
LEMMA WaitsSame ==
  ASSUME NEW r \in SessionRecords, NEW t \in SessionRecords, Waits(r), Untouched(r, t),
         t.status = r.status \/ t.status # "INITIALIZING", t.live => r.live,
         t.orchestrate \in Before => r.orchestrate \in Before
  PROVE  Waits(t)
  BY DEF Waits, Total, Untouched

\* A step that keeps the goroutines where they are, and the reports.
LEMMA SoundSame ==
  ASSUME NEW r \in SessionRecords, NEW t \in SessionRecords, NEW f \in Goroutines, NEW g \in Goroutines,
         Sound(r, f), Untouched(r, t), t.gaveUp = r.gaveUp, t.live => r.live,
         t.status = r.status \/ t.status # "INITIALIZING",
         t.orchestrate \in Before => r.orchestrate \in Before,
         \A s \in Sources : t.sourceCtxs[s] \in {r.sourceCtxs[s], None},
         \A s \in Sources, n \in Launches : g[s][n].pc = f[s][n].pc /\ g[s][n].attempt = f[s][n].attempt
  PROVE  Sound(t, g)
  <1>1. Waits(t)
    BY WaitsSame DEF Sound
  <1>2. Counts(t, g)
    BY DEF Sound, Counts, Untouched
  <1>3. Enters(t, g)
    <2> SUFFICES ASSUME NEW s \in Sources, t.sourceCtxs[s] # None
                 PROVE  g[s][t.sourceCtxs[s]].pc \in Held
      BY DEF Enters
    <2>1. t.sourceCtxs[s] = r.sourceCtxs[s] /\ r.sourceCtxs[s] \in Launches
      BY DEF SessionRecords
    <2> QED BY <2>1 DEF Sound, Enters
  <1>4. Attends(t, g)
    <2> SUFFICES ASSUME t.live, t.status = "INITIALIZING", NEW s \in t.initial \ t.ready
                 PROVE  s \in t.gaveUp \/ \E n \in Launches : g[s][n].pc # "none"
      BY DEF Attends
    <2>1. s \in Sources /\ s \in r.initial \ r.ready /\ r.live /\ r.status = "INITIALIZING"
      BY DEF Untouched, SessionRecords
    <2> QED BY <2>1 DEF Sound, Attends
  <1> QED BY <1>1, <1>2, <1>3, <1>4 DEF Sound

\* A step of one goroutine: it goes on, or its source has reported, was given up
\* or has another goroutine, or the session waits no more.
LEMMA SoundStep ==
  ASSUME NEW r \in SessionRecords, NEW t \in SessionRecords, NEW f \in Goroutines,
         NEW s \in Sources, NEW n \in Launches, NEW p \in ProducerRecords,
         Sound(r, f), Waits(t), t.live => r.live, r.ready \subseteq t.ready, t.initial = r.initial,
         t.status = r.status \/ t.status # "INITIALIZING", r.gaveUp \subseteq t.gaveUp \cup t.ready,
         p.pc = "read" => s \in t.ready, p.pc \in {"open", "read"} => p.attempt <= MaxAttempts,
         t.sourceCtxs[s] = n => p.pc \in Held,
         \A z \in Sources : t.sourceCtxs[z] \in {r.sourceCtxs[z], None} \/ (z = s /\ t.sourceCtxs[z] = n),
         \/ p.pc # "none" \/ s \in t.ready \cup t.gaveUp \/ ~t.live \/ t.status # "INITIALIZING"
         \/ \E m \in Launches : m # n /\ f[s][m].pc # "none"
  PROVE  Sound(t, [f EXCEPT ![s][n] = p])
  <1> DEFINE g == [f EXCEPT ![s][n] = p]
  <1>1. \A z \in Sources, m \in Launches : g[z][m] = IF z = s /\ m = n THEN p ELSE f[z][m]
    BY DEF Goroutines
  <1> HIDE DEF g
  <1>2. Counts(t, g)
    BY <1>1 DEF Sound, Counts
  <1>3. Enters(t, g)
    <2> SUFFICES ASSUME NEW z \in Sources, t.sourceCtxs[z] # None
                 PROVE  g[z][t.sourceCtxs[z]].pc \in Held
      BY DEF Enters
    <2>1. t.sourceCtxs[z] \in Launches
      BY DEF SessionRecords
    <2>2. CASE z = s /\ t.sourceCtxs[z] = n
      BY <1>1, <2>1, <2>2
    <2>3. CASE ~(z = s /\ t.sourceCtxs[z] = n)
      <3>1. t.sourceCtxs[z] = r.sourceCtxs[z] /\ g[z][t.sourceCtxs[z]] = f[z][t.sourceCtxs[z]]
        BY <1>1, <2>1, <2>3
      <3> QED BY <3>1 DEF Sound, Enters
    <2> QED BY <2>2, <2>3
  <1>4. Attends(t, g)
    <2> SUFFICES ASSUME t.live, t.status = "INITIALIZING", NEW z \in t.initial \ t.ready
                 PROVE  z \in t.gaveUp \/ \E m \in Launches : g[z][m].pc # "none"
      BY DEF Attends
    <2>1. z \in Sources /\ z \in r.initial \ r.ready /\ r.live /\ r.status = "INITIALIZING"
      BY DEF SessionRecords
    <2>2. z \in r.gaveUp \/ \E m \in Launches : f[z][m].pc # "none"
      BY <2>1 DEF Sound, Attends
    <2>3. CASE z # s
      BY <1>1, <2>1, <2>2, <2>3
    <2>4. CASE z = s
      BY <1>1, <2>1, <2>2, <2>4
    <2> QED BY <2>3, <2>4
  <1> QED BY <1>2, <1>3, <1>4 DEF g, Sound

\* markSourceReady counts the source, and a session that still waits after it
\* has too few sources.
LEMMA MarkFacts ==
  ASSUME NEW r \in SessionRecords, NEW s \in Sources, Waits(r), r.orchestrate \notin Unstarted
  PROVE  LET m == MarkSourceReady(r, s) IN
         /\ m \in SessionRecords /\ m.ready = r.ready \cup {s} /\ m.gaveUp = r.gaveUp \ {s} /\ Waits(m)
         /\ m.live = r.live /\ m.orchestrate = r.orchestrate /\ m.initial = r.initial
         /\ m.sourceCtxs = r.sourceCtxs /\ (m.status = r.status \/ m.status # "INITIALIZING")
         /\ Keeps(r, m)
  <1> DEFINE counts == s \notin r.ready /\ s \in r.initial
             C == IF counts THEN r.counted \cup {s} ELSE r.counted
             E == IF r.orchestrate \in {"sources", "initial"} THEN r.early \cup {s} ELSE r.early
             d == [r EXCEPT !.ready = @ \cup {s}, !.counted = C, !.gaveUp = @ \ {s}, !.early = E]
             e == [d EXCEPT !.readied = TRUE]
             t == Transition(e, "INITIALIZING", "ACTIVE")
             now == /\ counts /\ Cardinality(d.counted) >= Total(r)
                    /\ r.live /\ r.status \notin {"ERROR", "CLOSED"} /\ ~r.readied
  <1>1. C \in SUBSET Sources /\ E \in SUBSET Sources
    BY DEF SessionRecords
  <1>2. MarkSourceReady(r, s) = IF now THEN t ELSE d
    BY DEF MarkSourceReady
  <1>3. (E = {} => r.early = {} /\ r.orchestrate \notin {"sources", "initial"}) /\ (counts => C = r.counted \cup {s})
        /\ (~counts => C = r.counted)
    OBVIOUS
  <1> HIDE DEF C, E
  <1>4. /\ d \in SessionRecords /\ d.ready = r.ready \cup {s} /\ d.status = r.status
        /\ d.live = r.live /\ d.orchestrate = r.orchestrate /\ d.follow = r.follow
        /\ d.initial = r.initial /\ d.sourceCtxs = r.sourceCtxs /\ d.readied = r.readied
        /\ d.counted = C /\ d.early = E /\ d.gaveUp = r.gaveUp \ {s}
    BY <1>1 DEF SessionRecords
  <1> HIDE DEF d
  <1>5. /\ e \in SessionRecords /\ e.ready = d.ready /\ e.status = d.status
        /\ e.live = d.live /\ e.orchestrate = d.orchestrate /\ e.follow = d.follow
        /\ e.initial = d.initial /\ e.sourceCtxs = d.sourceCtxs
        /\ e.counted = d.counted /\ e.early = d.early /\ e.gaveUp = d.gaveUp
    BY <1>4 DEF SessionRecords
  <1> HIDE DEF e
  <1>6. "INITIALIZING" \in Statuses /\ "ACTIVE" \in Statuses
    BY DEF Statuses
  <1>7. /\ t \in SessionRecords /\ Untouched(e, t)
        /\ t.status = IF e.status = "INITIALIZING" THEN "ACTIVE" ELSE e.status
        /\ t.live = e.live /\ t.orchestrate = e.orchestrate
        /\ t.sourceCtxs = e.sourceCtxs /\ t.gaveUp = e.gaveUp
    BY <1>5, <1>6, TransitionFacts
  <1> HIDE DEF t
  <1>8. C \subseteq d.ready /\ (E = {} => d.ready \cap r.initial = C)
    BY <1>3, <1>4 DEF Waits
  <1>9. r.orchestrate \in Before => r.status # "INITIALIZING" /\ E # {}
    BY <1>3 DEF Waits, Before, Unstarted
  <1>10. Waits(t)
    BY <1>4, <1>5, <1>7, <1>8, <1>9 DEF Waits, Untouched
  <1>11. ASSUME ~now PROVE Waits(d)
    <2>1. ASSUME d.status = "INITIALIZING", E = {}
          PROVE  ~d.readied /\ (d.live => Cardinality(d.counted) < Total(d))
      <3>1. ~r.readied /\ (r.live => Cardinality(r.counted) < Total(r)) /\ Total(d) = Total(r)
        BY <1>3, <1>4, <2>1 DEF Waits, Total
      <3>2. CASE ~counts
        BY <1>3, <1>4, <3>1, <3>2
      <3>3. CASE counts
        <4>1. d.live => ~(Cardinality(d.counted) >= Total(r))
          BY <1>4, <1>11, <2>1, <3>1, <3>3
        <4>2. Cardinality(d.counted) \in Nat /\ Total(r) \in Nat
          BY <1>1, <1>4, Finite, TotalFacts
        <4> QED BY <1>4, <3>1, <4>1, <4>2
      <3> QED BY <3>2, <3>3
    <2> QED BY <1>4, <1>8, <1>9, <2>1 DEF Waits
  <1>12. now => r.status \notin {"ERROR", "CLOSED"}
    OBVIOUS
  <1> HIDE DEF now
  <1> QED BY <1>2, <1>4, <1>5, <1>7, <1>10, <1>11, <1>12 DEF Keeps, Untouched

\* Forget changes nothing but the entry.
LEMMA ForgetFacts ==
  ASSUME NEW r \in SessionRecords, NEW s \in Sources, Waits(r)
  PROVE  LET t == Forget(r, s) IN
         /\ t \in SessionRecords /\ Untouched(r, t) /\ Waits(t) /\ t.gaveUp = r.gaveUp
         /\ t.live = r.live /\ t.orchestrate = r.orchestrate /\ t.status = r.status
         /\ t.sourceCtxs[s] = None
         /\ \A z \in Sources : t.sourceCtxs[z] \in {r.sourceCtxs[z], None}
  <1> DEFINE x == [r.sourceCtxs EXCEPT ![s] = None]
             t == [r EXCEPT !.sourceCtxs = x]
  <1>1. r.sourceCtxs \in [Sources -> Launches \cup {None}]
    BY DEF SessionRecords
  <1>2. /\ x \in [Sources -> Launches \cup {None}] /\ x[s] = None
        /\ \A z \in Sources : x[z] \in {r.sourceCtxs[z], None}
    BY <1>1
  <1>3. t = Forget(r, s)
    BY DEF Forget
  <1> HIDE DEF x
  <1>4. /\ t \in SessionRecords /\ Untouched(r, t) /\ t.gaveUp = r.gaveUp /\ t.sourceCtxs = x
        /\ t.live = r.live /\ t.orchestrate = r.orchestrate /\ t.status = r.status
    BY <1>2 DEF SessionRecords, Untouched
  <1> HIDE DEF t
  <1>5. Waits(t)
    BY <1>4, WaitsSame
  <1> QED BY <1>2, <1>3, <1>4, <1>5

\* A goroutine that gives up leaves its source counted, or in gaveUp.
LEMMA GiveUpFacts ==
  ASSUME NEW r \in SessionRecords, NEW s \in Sources, Waits(r)
  PROVE  LET t == GiveUp(r, s) IN
         /\ t \in SessionRecords /\ Untouched(r, t) /\ Waits(t) /\ r.gaveUp \subseteq t.gaveUp
         /\ s \in t.ready \cup t.gaveUp \/ ~t.live
         /\ t.live = r.live /\ t.orchestrate = r.orchestrate /\ t.status = r.status
         /\ t.sourceCtxs[s] = None
         /\ \A z \in Sources : t.sourceCtxs[z] \in {r.sourceCtxs[z], None}
  <1> DEFINE u == Forget(r, s)
             G == IF r.live /\ s \notin r.ready THEN r.gaveUp \cup {s} ELSE r.gaveUp
             t == [u EXCEPT !.gaveUp = G]
  <1>1. /\ u \in SessionRecords /\ Untouched(r, u) /\ Waits(u) /\ u.gaveUp = r.gaveUp
        /\ u.live = r.live /\ u.orchestrate = r.orchestrate /\ u.status = r.status
        /\ u.sourceCtxs[s] = None
        /\ \A z \in Sources : u.sourceCtxs[z] \in {r.sourceCtxs[z], None}
    BY ForgetFacts
  <1>2. G \in SUBSET Sources /\ r.gaveUp \subseteq G /\ (s \in r.ready \cup G \/ ~r.live)
    BY DEF SessionRecords
  <1>3. GiveUp(r, s) = [u EXCEPT !.gaveUp = IF r.live /\ s \notin r.ready THEN u.gaveUp \cup {s} ELSE u.gaveUp]
    <2> HIDE DEF u
    <2>1. GiveUp(r, s) = [u EXCEPT !.gaveUp = IF r.live /\ s \notin r.ready THEN @ \cup {s} ELSE @]
      BY DEF GiveUp, u
    <2> QED BY <1>1, <2>1 DEF SessionRecords
  <1>4. t = GiveUp(r, s)
    <2> HIDE DEF u
    <2> QED BY <1>1, <1>3
  <1> HIDE DEF u, G
  <1>5. /\ t \in SessionRecords /\ Untouched(u, t) /\ t.gaveUp = G /\ t.sourceCtxs = u.sourceCtxs
        /\ t.live = u.live /\ t.orchestrate = u.orchestrate /\ t.status = u.status
    BY <1>1, <1>2 DEF SessionRecords, Untouched
  <1> HIDE DEF t
  <1>6. Waits(t)
    BY <1>1, <1>5, WaitsSame
  <1>7. Untouched(r, t)
    BY <1>1, <1>5 DEF Untouched
  <1> QED BY <1>1, <1>2, <1>4, <1>5, <1>6, <1>7 DEF Untouched

-----------------------------------------------------------------------------
(* Steps that change one creation, its session and its goroutines.         *)

\* The rest of the state is as it was, and what is left to show is the
\* invariant of this session.
LEMMA Frame ==
  ASSUME IInv, NEW c \in Creates,
         NEW p \in CreateRecords, NEW r \in SessionRecords, NEW f \in Goroutines,
         call' = [call EXCEPT ![c] = p], session' = [session EXCEPT ![c] = r],
         producer' = [producer EXCEPT ![c] = f],
         UNCHANGED <<sessions, closed, closer, command>>, events' \in 0 .. MaxEvents,
         updater' = updater \/ Holding', updater' \in [Updaters -> Updates],
         session[c].orchestrate \notin Unstarted => r.orchestrate \notin Unstarted,
         Created(c)', Reachable(c)', Unresolved(c)', Sound(r, f), Keeps(session[c], r)
  PROVE  IInv' /\ Sticks
  <1>1. /\ TypeOK /\ Holding /\ \A d \in Creates : Invariant(d)
    BY DEF IInv
  <1>2. /\ call' \in [Creates -> CreateRecords] /\ session' \in [Creates -> SessionRecords]
        /\ producer' \in [Creates -> [Sources -> [Launches -> ProducerRecords]]]
        /\ session'[c] = r /\ producer'[c] = f
        /\ \A d \in Creates : d # c => session'[d] = session[d] /\ call'[d] = call[d] /\ producer'[d] = producer[d]
    BY <1>1 DEF TypeOK, Goroutines
  <1>3. TypeOK'
    BY <1>1, <1>2 DEF TypeOK, Updates
  <1>4. Holding'
    BY <1>1, <1>2 DEF Holding
  <1>5. ASSUME NEW d \in Creates, d # c PROVE Invariant(d)'
    <2>1. Created(d)' /\ Reachable(d)' /\ Unresolved(d)'
      BY <1>1, <1>2, <1>5 DEF Invariant, Created, Reachable, Unresolved, Registered
    <2>2. Sound(session'[d], producer'[d])
      BY <1>1, <1>2, <1>5 DEF Invariant
    <2> QED BY <2>1, <2>2 DEF Invariant, Sound, Waits, Total, Counts, Enters, Attends
  <1>6. Invariant(c)'
    <2>1. Sound(session'[c], producer'[c])
      BY <1>2
    <2> QED BY <2>1 DEF Invariant, Sound, Waits, Total, Counts, Enters, Attends
  <1>7. Sticks
    BY <1>2 DEF Sticks, Keeps
  <1> QED BY <1>3, <1>4, <1>5, <1>6, <1>7 DEF IInv

LEMMA EventFacts == ASSUME TypeOK, External \/ UNCHANGED events PROVE events' \in 0 .. MaxEvents
  BY LogAssumption DEF TypeOK, External

LEMMA HereFacts ==
  ASSUME IInv, NEW c \in Creates
  PROVE  /\ TypeOK /\ Holding /\ Created(c) /\ Reachable(c) /\ Unresolved(c)
         /\ Sound(session[c], producer[c]) /\ Waits(session[c])
         /\ call[c] \in CreateRecords /\ session[c] \in SessionRecords /\ producer[c] \in Goroutines
         /\ call = [call EXCEPT ![c] = call[c]] /\ session = [session EXCEPT ![c] = session[c]]
         /\ producer = [producer EXCEPT ![c] = producer[c]]
         /\ updater \in [Updaters -> Updates]
  BY DEF IInv, Invariant, TypeOK, Sound, Goroutines, Updates

\* The session's record changes, its goroutines and creation do not.
LEMMA SessionFrame ==
  ASSUME IInv, NEW c \in Creates, NEW r \in SessionRecords, SetSession(c, r),
         UNCHANGED <<call, producer, sessions, closed, calls>>, External \/ UNCHANGED events,
         r.orchestrate = session[c].orchestrate, r.live => session[c].live,
         Untouched(session[c], r), r.gaveUp = session[c].gaveUp, r.sourceCtxs = session[c].sourceCtxs,
         r.active = {} \/ r.orchestrate \notin Unstarted, ~r.watch \/ r.orchestrate \notin Unstarted,
         r.status = session[c].status
  PROVE  IInv' /\ Sticks
  <1>1. /\ TypeOK /\ Created(c) /\ Reachable(c) /\ Unresolved(c) /\ Sound(session[c], producer[c])
        /\ call[c] \in CreateRecords /\ session[c] \in SessionRecords /\ producer[c] \in Goroutines
        /\ call = [call EXCEPT ![c] = call[c]] /\ producer = [producer EXCEPT ![c] = producer[c]]
        /\ updater \in [Updaters -> Updates]
    BY HereFacts
  <1>2. session' = [session EXCEPT ![c] = r] /\ session'[c] = r /\ events' \in 0 .. MaxEvents
    BY <1>1, EventFacts DEF SetSession, TypeOK
  <1>3. Created(c)' /\ Reachable(c)'
    BY <1>1, <1>2 DEF Created, Reachable, Registered, calls
  <1>4. Unresolved(c)'
    BY <1>1, <1>2 DEF Unresolved, Untouched
  <1>5. Sound(r, producer[c])
    BY <1>1, SoundSame
  <1>6. Keeps(session[c], r)
    BY DEF Keeps
  <1> QED BY <1>1, <1>2, <1>3, <1>4, <1>5, <1>6, Frame DEF calls

\* A goroutine of a resolved session takes a step.
LEMMA ProducerFrame ==
  ASSUME IInv, NEW c \in Creates, NEW s \in Sources, NEW n \in Launches,
         NEW p \in ProducerRecords, SetProducer(c, s, n, p),
         NEW r \in SessionRecords, SetSession(c, r),
         UNCHANGED <<call, sessions, closed, closer, command>>, External \/ UNCHANGED events,
         updater' = updater \/ Holding', updater' \in [Updaters -> Updates],
         session[c].orchestrate \notin Unstarted, r.orchestrate = session[c].orchestrate,
         r.live => session[c].live, Keeps(session[c], r),
         Sound(r, [producer[c] EXCEPT ![s][n] = p])
  PROVE  IInv' /\ Sticks
  <1> DEFINE f == [producer[c] EXCEPT ![s][n] = p]
  <1>1. /\ TypeOK /\ Created(c) /\ Reachable(c)
        /\ call[c] \in CreateRecords /\ producer[c] \in Goroutines
        /\ call = [call EXCEPT ![c] = call[c]]
    BY HereFacts
  <1>2. session' = [session EXCEPT ![c] = r] /\ session'[c] = r /\ events' \in 0 .. MaxEvents
    BY <1>1, EventFacts DEF SetSession, TypeOK
  <1>3. f \in Goroutines
    BY <1>1 DEF Goroutines
  <1>4. producer' = [producer EXCEPT ![c] = f]
    BY <1>1 DEF TypeOK, SetProducer
  <1> HIDE DEF f
  <1>5. Created(c)' /\ Reachable(c)'
    BY <1>1, <1>2 DEF Created, Reachable, Registered
  <1>6. Unresolved(c)'
    BY <1>2 DEF Unresolved
  <1>7. Sound(r, f)
    BY DEF f
  <1> QED BY <1>1, <1>2, <1>3, <1>4, <1>5, <1>6, <1>7, Frame

-----------------------------------------------------------------------------
(* Creation.                                                               *)

\* Only the creation's record and the session's context change.
LEMMA CallFrame ==
  ASSUME IInv, NEW c \in Creates, NEW p \in CreateRecords, SetCall(c, p),
         NEW r \in SessionRecords, session' = [session EXCEPT ![c] = r],
         r.live => session[c].live, r.orchestrate = session[c].orchestrate,
         r.status = session[c].status, Untouched(session[c], r), r.active = session[c].active,
         r.watch = session[c].watch, r.gaveUp = session[c].gaveUp, r.sourceCtxs = session[c].sourceCtxs,
         UNCHANGED <<producer, sessions, closed, calls>>, External \/ UNCHANGED events,
         Created(c)'
  PROVE  IInv' /\ Sticks
  <1>1. /\ TypeOK /\ Reachable(c) /\ Unresolved(c) /\ Sound(session[c], producer[c])
        /\ session[c] \in SessionRecords /\ producer[c] \in Goroutines
        /\ producer = [producer EXCEPT ![c] = producer[c]] /\ updater \in [Updaters -> Updates]
    BY HereFacts
  <1>2. session'[c] = r /\ events' \in 0 .. MaxEvents
    BY <1>1, EventFacts DEF TypeOK
  <1>3. Reachable(c)' /\ Unresolved(c)'
    BY <1>1, <1>2 DEF Reachable, Registered, Unresolved, Untouched, calls
  <1>4. Sound(r, producer[c]) /\ Keeps(session[c], r)
    BY <1>1, SoundSame DEF Keeps
  <1> QED BY <1>1, <1>2, <1>3, <1>4, Frame DEF calls, SetCall

LEMMA CallOnly ==
  ASSUME IInv, NEW c \in Creates, NEW p \in CreateRecords, SetCall(c, p),
         UNCHANGED <<session, producer, sessions, closed, calls>>, External \/ UNCHANGED events,
         Created(c)'
  PROVE  IInv' /\ Sticks
  <1>1. session[c] \in SessionRecords /\ session' = [session EXCEPT ![c] = session[c]]
    BY HereFacts
  <1>2. Untouched(session[c], session[c])
    BY DEF Untouched
  <1> QED BY <1>1, <1>2, CallFrame

LEMMA CreateResourceSessionStep ==
  ASSUME IInv, NEW c \in Creates, CreateResourceSession(c)
  PROVE  IInv' /\ Sticks
  <1> DEFINE p == [call[c] EXCEPT !.pc = "acquire"]
  <1>1. TypeOK /\ Created(c) /\ call[c] \in CreateRecords /\ call[c].pc = "idle" /\ SetCall(c, p)
    BY HereFacts DEF CreateResourceSession
  <1>2. p \in CreateRecords /\ p.pc = "acquire" /\ p.reply = call[c].reply /\ p.lease = call[c].lease
    BY <1>1 DEF CreateRecords
  <1> HIDE DEF p
  <1>3. call'[c] = p
    BY <1>1 DEF SetCall, TypeOK
  <1>4. Created(c)'
    BY <1>1, <1>2, <1>3 DEF Created, CreateResourceSession
  <1> QED BY <1>1, <1>2, <1>4, CallOnly DEF CreateResourceSession

LEMMA AcquireStep ==
  ASSUME IInv, NEW c \in Creates, Acquire(c)
  PROVE  IInv' /\ Sticks
  <1> DEFINE p == [call[c] EXCEPT !.pc = "register", !.lease = TRUE]
             q == [call[c] EXCEPT !.pc = "end", !.reply = "refused"]
  <1>1. /\ TypeOK /\ Created(c) /\ call[c] \in CreateRecords /\ call[c].pc = "acquire"
        /\ SetCall(c, p) \/ SetCall(c, q)
    BY HereFacts DEF Acquire
  <1>2. /\ p \in CreateRecords /\ p.pc = "register" /\ p.reply = call[c].reply
        /\ q \in CreateRecords /\ q.pc = "end" /\ q.reply = "refused" /\ q.lease = call[c].lease
    BY <1>1 DEF CreateRecords
  <1> HIDE DEF p, q
  <1>3. /\ SetCall(c, p) => call'[c] = p
        /\ SetCall(c, q) => call'[c] = q
    BY <1>1 DEF SetCall, TypeOK
  <1>4. Created(c)'
    BY <1>1, <1>2, <1>3 DEF Created, Acquire
  <1> QED BY <1>1, <1>2, <1>4, CallOnly DEF Acquire

LEMMA AcceptStep ==
  ASSUME IInv, NEW c \in Creates, Accept(c)
  PROVE  IInv' /\ Sticks
  <1> DEFINE p == [call[c] EXCEPT !.pc = "hold", !.reply = "accepted"]
  <1>1. TypeOK /\ call[c] \in CreateRecords /\ SetCall(c, p)
    BY HereFacts DEF Accept
  <1>2. p \in CreateRecords /\ p.pc = "hold" /\ p.reply = "accepted"
    BY <1>1 DEF CreateRecords
  <1> HIDE DEF p
  <1>3. call'[c] = p
    BY <1>1 DEF SetCall, TypeOK
  <1>4. Created(c)'
    BY <1>2, <1>3 DEF Created
  <1> QED BY <1>1, <1>2, <1>4, CallOnly DEF Accept

LEMMA RequestEndsStep ==
  ASSUME IInv, NEW c \in Creates, RequestEnds(c)
  PROVE  IInv' /\ Sticks
  <1> DEFINE p == [call[c] EXCEPT !.request = FALSE]
  <1>1. TypeOK /\ Created(c) /\ call[c] \in CreateRecords /\ SetCall(c, p)
    BY HereFacts DEF RequestEnds
  <1>2. p \in CreateRecords /\ p.pc = call[c].pc /\ p.reply = call[c].reply /\ p.lease = call[c].lease
    BY <1>1 DEF CreateRecords
  <1> HIDE DEF p
  <1>3. call'[c] = p
    BY <1>1 DEF SetCall, TypeOK
  <1>4. Created(c)'
    BY <1>1, <1>2, <1>3 DEF Created, RequestEnds
  <1> QED BY <1>1, <1>2, <1>4, CallOnly DEF RequestEnds

LEMMA ReleaseStep ==
  ASSUME IInv, NEW c \in Creates, Release(c)
  PROVE  IInv' /\ Sticks
  <1> DEFINE p == [call[c] EXCEPT !.pc = "end", !.lease = FALSE,
                                  !.reply = IF @ = "none" THEN "refused" ELSE @]
             r == [session[c] EXCEPT !.live = FALSE]
  <1>1. /\ TypeOK /\ call[c] \in CreateRecords /\ SetCall(c, p) /\ SetSession(c, r)
        /\ session[c] \in SessionRecords /\ session[c].orchestrate = "done"
    BY HereFacts DEF Release
  <1>2. p \in CreateRecords /\ p.pc = "end" /\ p.lease = FALSE
    BY <1>1 DEF CreateRecords
  <1>3. /\ r \in SessionRecords /\ r.live = FALSE /\ Untouched(session[c], r)
        /\ r.orchestrate = session[c].orchestrate /\ r.status = session[c].status
        /\ r.active = session[c].active /\ r.watch = session[c].watch
        /\ r.gaveUp = session[c].gaveUp /\ r.sourceCtxs = session[c].sourceCtxs
    BY <1>1, CancelFacts
  <1> HIDE DEF p, r
  <1>4. call'[c] = p /\ session'[c] = r
    BY <1>1 DEF SetCall, SetSession, TypeOK
  <1>5. Created(c)'
    BY <1>1, <1>2, <1>3, <1>4 DEF Created
  <1> QED BY <1>1, <1>2, <1>3, <1>5, CallFrame DEF Release, SetSession

\* An entry is made or removed, and every other session's own entry is left.
LEMMA EntryFrame ==
  ASSUME IInv, NEW c \in Creates, NEW p \in CreateRecords, SetCall(c, p),
         NEW r \in SessionRecords, SetSession(c, r), sessions' \in [Ids -> Targets],
         \A d \in Creates : d # c /\ Registered(d) => Registered(d)',
         UNCHANGED <<producer, closed, calls, events>>,
         Created(c)', Reachable(c)', r.status = session[c].status, Untouched(session[c], r),
         r.active = session[c].active, r.watch = session[c].watch, r.gaveUp = session[c].gaveUp,
         r.sourceCtxs = session[c].sourceCtxs, r.live => session[c].live,
         \/ session[c].orchestrate = "none" /\ r.orchestrate = "resolve"
         \/ r.orchestrate = session[c].orchestrate
  PROVE  IInv' /\ Sticks
  <1>1. /\ TypeOK /\ Holding /\ Unresolved(c) /\ Sound(session[c], producer[c])
        /\ session[c] \in SessionRecords /\ producer[c] \in Goroutines
    BY HereFacts
  <1>2. /\ call' \in [Creates -> CreateRecords] /\ session' \in [Creates -> SessionRecords]
        /\ call'[c] = p /\ session'[c] = r
        /\ \A d \in Creates : d # c => call'[d] = call[d] /\ session'[d] = session[d]
    BY <1>1 DEF TypeOK, SetCall, SetSession
  <1>3. TypeOK'
    BY <1>1, <1>2 DEF TypeOK, calls
  <1>4. Holding'
    BY <1>1, <1>2 DEF Holding, calls, Unstarted
  <1>5. Sound(r, producer[c])
    <2>1. r.orchestrate \in Before => session[c].orchestrate \in Before
      BY DEF Before
    <2> QED BY <1>1, <2>1, SoundSame
  <1>6. Unresolved(c)'
    BY <1>1, <1>2 DEF Unresolved, Unstarted, Untouched
  <1>7. Invariant(c)'
    BY <1>2, <1>5, <1>6 DEF Invariant, Sound, Waits, Total, Counts, Enters, Attends
  <1>8. ASSUME NEW d \in Creates, d # c PROVE Invariant(d)'
    <2>1. Invariant(d) /\ session'[d] = session[d] /\ call'[d] = call[d]
      BY <1>2, <1>8 DEF IInv
    <2>2. Created(d)' /\ Reachable(d)' /\ Unresolved(d)'
      BY <1>8, <2>1 DEF Invariant, Created, Reachable, Unresolved, calls
    <2>3. Sound(session'[d], producer[d])
      BY <2>1 DEF Invariant
    <2> QED BY <2>2, <2>3 DEF Invariant, Sound, Waits, Total, Counts, Enters, Attends
  <1>9. Sticks
    BY <1>2 DEF Sticks, Keeps
  <1> QED BY <1>3, <1>4, <1>7, <1>8, <1>9 DEF IInv

LEMMA RegisterStep ==
  ASSUME IInv, NEW c \in Creates, Register(c)
  PROVE  IInv' /\ Sticks
  <1> DEFINE q == IF c \in Resource
                    THEN [call[c] EXCEPT !.pc = "end", !.reply = "refused", !.lease = FALSE]
                  ELSE call[c]
             p == IF c \in Resource THEN [call[c] EXCEPT !.pc = "check"]
                  ELSE [call[c] EXCEPT !.pc = "end", !.reply = "accepted"]
             r == [session[c] EXCEPT !.orchestrate = "resolve"]
  <1>1. /\ TypeOK /\ Created(c) /\ Unresolved(c) /\ call[c] \in CreateRecords
        /\ session[c] \in SessionRecords /\ call[c].pc = "register"
    BY HereFacts DEF Register
  <1>2. /\ q \in CreateRecords
        /\ q = call[c] \/ (q.pc = "end" /\ q.reply = "refused" /\ q.lease = FALSE)
        /\ p \in CreateRecords /\ p.lease = call[c].lease
        /\ (p.pc = "check" /\ p.reply = call[c].reply) \/ (p.pc = "end" /\ p.reply = "accepted")
    BY <1>1 DEF CreateRecords
  <1>3. /\ r \in SessionRecords /\ r.orchestrate = "resolve" /\ r.live = session[c].live
        /\ r.status = session[c].status /\ Untouched(session[c], r)
        /\ r.active = session[c].active /\ r.watch = session[c].watch
        /\ r.gaveUp = session[c].gaveUp /\ r.sourceCtxs = session[c].sourceCtxs
    BY <1>1 DEF SessionRecords, Untouched, Phases
  <1>a. CASE closed \/ sessions[IdOf[c]] # None
    <2>1. SetCall(c, q) /\ UNCHANGED <<session, sessions, producer, closed, calls, events>>
      BY <1>a DEF Register
    <2> HIDE DEF q
    <2>2. call'[c] = q
      BY <1>1, <2>1 DEF SetCall, TypeOK
    <2>3. Created(c)'
      BY <1>1, <1>2, <2>1, <2>2 DEF Created
    <2> QED BY <1>2, <2>1, <2>3, CallOnly
  <1>b. CASE ~(closed \/ sessions[IdOf[c]] # None)
    <2>1. /\ SetCall(c, p) /\ SetSession(c, r) /\ sessions' = [sessions EXCEPT ![IdOf[c]] = c]
          /\ UNCHANGED <<producer, closed, calls, events>>
      BY <1>b DEF Register
    <2> HIDE DEF p, r
    <2>2. call'[c] = p /\ session'[c] = r
      BY <1>1, <2>1 DEF SetCall, SetSession, TypeOK
    <2>3. IdOf \in [Creates -> Ids] /\ None \notin Creates /\ sessions \in [Ids -> Targets]
      BY <1>1, LogAssumption DEF TypeOK
    <2>4. /\ sessions' \in [Ids -> Targets] /\ Registered(c)'
          /\ \A d \in Creates : d # c /\ Registered(d) => Registered(d)'
      BY <1>b, <2>1, <2>3 DEF Registered, Targets
    <2>5. Created(c)' /\ Reachable(c)'
      BY <1>1, <1>2, <1>3, <2>2, <2>4 DEF Created, Reachable
    <2>6. session[c].orchestrate = "none"
      BY <1>1 DEF Created
    <2> QED BY <1>2, <1>3, <2>1, <2>4, <2>5, <2>6, EntryFrame
  <1> QED BY <1>a, <1>b

LEMMA AbandonStep ==
  ASSUME IInv, NEW c \in Creates, Abandon(c)
  PROVE  IInv' /\ Sticks
  <1> DEFINE p == [call[c] EXCEPT !.pc = "abandon"]
             r == [session[c] EXCEPT !.live = FALSE]
  <1>1. /\ TypeOK /\ Created(c) /\ call[c] \in CreateRecords /\ session[c] \in SessionRecords
        /\ call[c].pc = "check" /\ SetCall(c, p) /\ SetSession(c, r)
        /\ UNCHANGED <<producer, closed, calls, events>>
    BY HereFacts DEF Abandon
  <1>2. p \in CreateRecords /\ p.pc = "abandon" /\ p.reply = call[c].reply
    BY <1>1 DEF CreateRecords
  <1>3. /\ r \in SessionRecords /\ r.live = FALSE /\ Untouched(session[c], r)
        /\ r.orchestrate = session[c].orchestrate /\ r.status = session[c].status
        /\ r.active = session[c].active /\ r.watch = session[c].watch
        /\ r.gaveUp = session[c].gaveUp /\ r.sourceCtxs = session[c].sourceCtxs
    BY <1>1, CancelFacts
  <1> HIDE DEF p, r
  <1>4. call'[c] = p /\ session'[c] = r
    BY <1>1 DEF SetCall, SetSession, TypeOK
  <1>5. IdOf \in [Creates -> Ids] /\ None \notin Creates /\ sessions \in [Ids -> Targets]
    BY <1>1, LogAssumption DEF TypeOK
  <1>6. /\ sessions' \in [Ids -> Targets]
        /\ \A d \in Creates : d # c /\ Registered(d) => Registered(d)'
    BY <1>5 DEF Abandon, Registered, Unregister, Targets
  <1>7. Created(c)' /\ Reachable(c)'
    BY <1>1, <1>2, <1>3, <1>4 DEF Created, Reachable
  <1> QED BY <1>1, <1>2, <1>3, <1>6, <1>7, EntryFrame

LEMMA CreatingStep ==
  ASSUME IInv, NEW c \in Creates, Creating(c)
  PROVE  IInv' /\ Sticks
  BY CreateResourceSessionStep, AcquireStep, RegisterStep, AcceptStep, AbandonStep, ReleaseStep
     DEF Creating

-----------------------------------------------------------------------------
(* orchestrateSession.                                                     *)

\* The orchestration goes on: it has been started and the creation is past it.
LEMMA OrchestrateFrame ==
  ASSUME IInv, NEW c \in Creates, NEW r \in SessionRecords, SetSession(c, r), NEW f \in Goroutines,
         producer' = [producer EXCEPT ![c] = f],
         UNCHANGED <<call, sessions, closed, calls, events>>,
         session[c].orchestrate \notin {"none", "done"}, r.orchestrate \notin Unstarted,
         r.live = session[c].live, Sound(r, f), Keeps(session[c], r)
  PROVE  IInv' /\ Sticks
  <1>1. /\ TypeOK /\ Created(c) /\ Reachable(c) /\ call[c] \in CreateRecords
        /\ call = [call EXCEPT ![c] = call[c]] /\ updater \in [Updaters -> Updates]
    BY HereFacts
  <1>2. session' = [session EXCEPT ![c] = r] /\ session'[c] = r /\ events' \in 0 .. MaxEvents
    BY <1>1, EventFacts DEF SetSession, TypeOK
  <1>3. Created(c)' /\ Reachable(c)'
    BY <1>1, <1>2 DEF Created, Reachable, Registered, calls
  <1>4. Unresolved(c)'
    BY <1>2 DEF Unresolved
  <1> QED BY <1>1, <1>2, <1>3, <1>4, Frame DEF calls

\* A step that no goroutine of a source takes part in.
LEMMA OrchestrateAlone ==
  ASSUME IInv, NEW c \in Creates, NEW r \in SessionRecords, SetSession(c, r),
         UNCHANGED <<call, producer, sessions, closed, calls, events>>,
         session[c].orchestrate \notin {"none", "done"}, r.orchestrate \notin Unstarted,
         r.live = session[c].live, r.sourceCtxs = session[c].sourceCtxs, r.gaveUp = session[c].gaveUp,
         r.ready = session[c].ready, Waits(r), Keeps(session[c], r),
         r.status # "INITIALIZING" \/ (r.status = session[c].status /\ r.initial = session[c].initial)
  PROVE  IInv' /\ Sticks
  <1>1. /\ Sound(session[c], producer[c]) /\ producer[c] \in Goroutines
        /\ producer' = [producer EXCEPT ![c] = producer[c]]
    BY HereFacts
  <1>2. Sound(r, producer[c])
    BY <1>1 DEF Sound, Counts, Enters, Attends
  <1> QED BY <1>1, <1>2, OrchestrateFrame

LEMMA ResolveFailsStep ==
  ASSUME IInv, NEW c \in Creates, ResolveFails(c)
  PROVE  IInv' /\ Sticks
  <1> DEFINE r == [SetStatus(session[c], "ERROR") EXCEPT !.orchestrate = "stream"]
  <1>1. /\ session[c] \in SessionRecords /\ session[c].orchestrate = "resolve" /\ Waits(session[c])
        /\ SetSession(c, r)
    BY HereFacts DEF ResolveFails
  <1>2. /\ r \in SessionRecords /\ r.orchestrate = "stream" /\ r.status = "ERROR"
        /\ r.live = session[c].live /\ Untouched(session[c], r)
        /\ r.gaveUp = session[c].gaveUp /\ r.sourceCtxs = session[c].sourceCtxs
    BY <1>1 DEF SessionRecords, SetStatus, Statuses, Phases, Untouched
  <1> HIDE DEF r
  <1>3. Waits(r) /\ Keeps(session[c], r) /\ r.orchestrate \notin Unstarted /\ r.ready = session[c].ready
    BY <1>1, <1>2, WaitsSame DEF Keeps, Before, Unstarted, Untouched
  <1> QED BY <1>1, <1>2, <1>3, OrchestrateAlone DEF ResolveFails

LEMMA SetSourcesStep ==
  ASSUME IInv, NEW c \in Creates, SetSources(c)
  PROVE  IInv' /\ Sticks
  <1>1. PICK S \in SUBSET SourcesOf[c], follow \in BOOLEAN :
          SetSession(c, [session[c] EXCEPT !.orchestrate = "sources", !.active = S, !.follow = follow])
    BY DEF SetSources
  <1> DEFINE r == [session[c] EXCEPT !.orchestrate = "sources", !.active = S, !.follow = follow]
  <1>2. session[c] \in SessionRecords /\ session[c].orchestrate = "resolve" /\ Waits(session[c])
    BY HereFacts DEF SetSources
  <1>3. S \in SUBSET Sources
    BY LogAssumption
  <1>4. /\ r \in SessionRecords /\ r.orchestrate = "sources" /\ r.status = session[c].status
        /\ r.live = session[c].live /\ r.initial = session[c].initial /\ r.ready = session[c].ready
        /\ r.counted = session[c].counted /\ r.readied = session[c].readied /\ r.early = session[c].early
        /\ r.gaveUp = session[c].gaveUp /\ r.sourceCtxs = session[c].sourceCtxs
    BY <1>2, <1>3 DEF SessionRecords, Phases
  <1>5. SetSession(c, r)
    BY <1>1
  <1> HIDE DEF r
  <1>6. Waits(r) /\ Keeps(session[c], r) /\ r.orchestrate \notin Unstarted
    BY <1>2, <1>4 DEF Waits, Keeps, Before, Unstarted
  <1> QED BY <1>2, <1>4, <1>5, <1>6, OrchestrateAlone DEF SetSources

LEMMA SetInitialStep ==
  ASSUME IInv, NEW c \in Creates, SetInitial(c)
  PROVE  IInv' /\ Sticks
  <1> DEFINE r == [session[c] EXCEPT !.orchestrate = "initial", !.initial = session[c].active]
  <1>1. /\ session[c] \in SessionRecords /\ session[c].orchestrate = "sources" /\ Waits(session[c])
        /\ SetSession(c, r)
    BY HereFacts DEF SetInitial
  <1>2. /\ r \in SessionRecords /\ r.orchestrate = "initial" /\ r.status = session[c].status
        /\ r.live = session[c].live /\ r.ready = session[c].ready
        /\ r.counted = session[c].counted /\ r.readied = session[c].readied /\ r.early = session[c].early
        /\ r.gaveUp = session[c].gaveUp /\ r.sourceCtxs = session[c].sourceCtxs
    BY <1>1 DEF SessionRecords, Phases
  <1> HIDE DEF r
  <1>3. /\ r.status # "INITIALIZING" /\ r.counted \subseteq r.ready
        /\ r.early = {} => r.ready = {} /\ ~r.readied
    BY <1>1, <1>2 DEF Waits, Before
  <1>4. Waits(r) /\ Keeps(session[c], r) /\ r.orchestrate \notin Unstarted
    BY <1>2, <1>3 DEF Waits, Keeps, Unstarted
  <1> QED BY <1>1, <1>2, <1>3, <1>4, OrchestrateAlone DEF SetInitial

\* The record of a session that starts to wait for its sources, if there are any.
LEMMA InitializingFacts ==
  ASSUME NEW r \in SessionRecords, NEW watch \in BOOLEAN, Waits(r), r.orchestrate = "initial"
  PROVE  LET t == [Initializing(r) EXCEPT !.orchestrate = "stream", !.watch = watch] IN
         /\ t \in SessionRecords /\ t.orchestrate = "stream" /\ t.live = r.live /\ Untouched(r, t)
         /\ t.gaveUp = r.gaveUp /\ t.sourceCtxs = r.sourceCtxs /\ Waits(t) /\ Keeps(r, t)
  <1> DEFINE i == Transition(r, "CONNECTING", "INITIALIZING")
             a == Transition(i, "INITIALIZING", "ACTIVE")
             u == IF r.initial = {} THEN a ELSE i
             t == [u EXCEPT !.orchestrate = "stream", !.watch = watch]
  <1>1. "CONNECTING" \in Statuses /\ "INITIALIZING" \in Statuses /\ "ACTIVE" \in Statuses
    BY DEF Statuses
  <1>2. /\ i \in SessionRecords /\ Untouched(r, i) /\ i.live = r.live
        /\ i.status = IF r.status = "CONNECTING" THEN "INITIALIZING" ELSE r.status
        /\ i.sourceCtxs = r.sourceCtxs /\ i.gaveUp = r.gaveUp
    BY <1>1, TransitionFacts
  <1>3. t = [Initializing(r) EXCEPT !.orchestrate = "stream", !.watch = watch]
    BY DEF Initializing
  <1> HIDE DEF i
  <1>4. /\ a \in SessionRecords /\ Untouched(i, a) /\ a.live = i.live
        /\ a.status = IF i.status = "INITIALIZING" THEN "ACTIVE" ELSE i.status
        /\ a.sourceCtxs = i.sourceCtxs /\ a.gaveUp = i.gaveUp
    <2>1. i \in SessionRecords
      BY <1>2
    <2> QED BY <1>1, <2>1, TransitionFacts
  <1> HIDE DEF a
  <1>5. /\ u \in SessionRecords /\ Untouched(r, u) /\ u.live = r.live
        /\ u.status = r.status \/ (r.status = "CONNECTING" /\ u.status \in {"INITIALIZING", "ACTIVE"})
        /\ u.status = "INITIALIZING" => r.initial # {}
        /\ u.sourceCtxs = r.sourceCtxs /\ u.gaveUp = r.gaveUp
    <2>1. CASE r.initial = {}
      <3>1. u = a /\ r.status # "INITIALIZING"
        BY <2>1 DEF Waits, Before
      <3> HIDE DEF u
      <3> QED BY <1>2, <1>4, <3>1 DEF Untouched
    <2>2. CASE r.initial # {}
      <3>1. u = i
        BY <2>2
      <3> HIDE DEF u
      <3> QED BY <1>2, <2>2, <3>1 DEF Untouched
    <2> QED BY <2>1, <2>2
  <1> HIDE DEF u
  <1>6. /\ t \in SessionRecords /\ t.orchestrate = "stream" /\ t.live = u.live /\ Untouched(u, t)
        /\ t.status = u.status /\ t.gaveUp = u.gaveUp /\ t.sourceCtxs = u.sourceCtxs
    BY <1>5 DEF SessionRecords, Phases, Untouched
  <1> HIDE DEF t
  <1>7. Untouched(r, t) /\ Keeps(r, t)
    BY <1>5, <1>6 DEF Untouched, Keeps
  <1>8. Waits(t)
    <2>1. ASSUME t.status = "INITIALIZING", t.early = {}
          PROVE  ~t.readied /\ Cardinality(t.counted) < Total(t)
      <3>1. t.ready = {} /\ ~t.readied /\ t.counted = {} /\ t.initial # {}
        BY <1>5, <1>6, <1>7, <2>1 DEF Waits, Before, Untouched
      <3>2. Cardinality(t.counted) = 0 /\ Total(t) \in Nat /\ Total(t) > 0
        BY <1>6, <3>1, FS_EmptySet, TotalFacts
      <3> QED BY <3>1, <3>2
    <2> QED BY <1>6, <1>7, <2>1 DEF Waits, Before, Untouched
  <1> QED BY <1>3, <1>5, <1>6, <1>7, <1>8

LEMMA InitializeStep ==
  ASSUME IInv, NEW c \in Creates, Initialize(c)
  PROVE  IInv' /\ Sticks
  <1>1. PICK watch \in BOOLEAN :
          SetSession(c, [Initializing(session[c]) EXCEPT !.orchestrate = "stream", !.watch = watch])
    BY DEF Initialize
  <1> DEFINE r == [Initializing(session[c]) EXCEPT !.orchestrate = "stream", !.watch = watch]
             S == session[c].initial
             f == [s \in Sources |-> [n \in Launches |->
                     IF s \in S /\ Unused(c, s, n) THEN [producer[c][s][n] EXCEPT !.pc = "launch"]
                     ELSE producer[c][s][n]]]
  <1>2. /\ TypeOK /\ session[c] \in SessionRecords /\ session[c].orchestrate = "initial"
        /\ Sound(session[c], producer[c]) /\ Waits(session[c]) /\ producer[c] \in Goroutines
        /\ \A s \in S : \E n \in Launches : Unused(c, s, n)
    BY HereFacts DEF Initialize
  <1>3. /\ r \in SessionRecords /\ r.orchestrate = "stream" /\ r.live = session[c].live
        /\ Untouched(session[c], r) /\ r.gaveUp = session[c].gaveUp
        /\ r.sourceCtxs = session[c].sourceCtxs /\ Waits(r) /\ Keeps(session[c], r)
    BY <1>2, InitializingFacts
  <1>4. SetSession(c, r)
    BY <1>1
  <1> HIDE DEF r
  <1>5. producer' = [producer EXCEPT ![c] = f]
    BY <1>2 DEF Initialize, TypeOK
  <1>6. ASSUME NEW s \in Sources, NEW n \in Launches
        PROVE  /\ f[s][n] \in ProducerRecords
               /\ s \in S /\ Unused(c, s, n) => producer[c][s][n].pc = "none" /\ f[s][n].pc = "launch"
               /\ ~(s \in S /\ Unused(c, s, n)) => f[s][n] = producer[c][s][n]
    <2> DEFINE p == [producer[c][s][n] EXCEPT !.pc = "launch"]
    <2>1. producer[c][s][n] \in ProducerRecords
      BY <1>2 DEF Goroutines
    <2>2. p \in ProducerRecords /\ p.pc = "launch"
      BY <2>1 DEF ProducerRecords
    <2>3. f[s][n] = IF s \in S /\ Unused(c, s, n) THEN p ELSE producer[c][s][n]
      OBVIOUS
    <2> HIDE DEF p, f
    <2> QED BY <2>1, <2>2, <2>3 DEF Unused, Working
  <1>7. f \in Goroutines
    BY <1>6 DEF Goroutines
  <1> HIDE DEF f
  <1>8. Counts(r, f)
    BY <1>2, <1>3, <1>6 DEF Sound, Counts, Untouched
  <1>9. Enters(r, f)
    <2> SUFFICES ASSUME NEW s \in Sources, r.sourceCtxs[s] # None
                 PROVE  f[s][r.sourceCtxs[s]].pc \in Held
      BY DEF Enters
    <2>1. r.sourceCtxs[s] \in Launches
      BY <1>3 DEF SessionRecords
    <2>2. producer[c][s][r.sourceCtxs[s]].pc \in Held
      BY <1>2, <1>3 DEF Sound, Enters
    <2> QED BY <1>6, <2>1, <2>2 DEF Held
  <1>10. Attends(r, f)
    <2>1. S \in SUBSET Sources /\ r.initial = S
      BY <1>2, <1>3 DEF SessionRecords, Untouched
    <2> QED BY <1>2, <1>6, <2>1 DEF Attends
  <1>11. Sound(r, f) /\ r.orchestrate \notin Unstarted
    BY <1>3, <1>8, <1>9, <1>10 DEF Sound, Unstarted
  <1> QED BY <1>2, <1>3, <1>4, <1>5, <1>7, <1>11, OrchestrateFrame DEF Initialize

\* Of the steps of finalizeSession, only the last changes more than its place.
LEMMA PlaceFacts ==
  ASSUME NEW r \in SessionRecords, NEW place \in Phases \ Before, Waits(r)
  PROVE  LET t == [r EXCEPT !.orchestrate = place] IN
         /\ t \in SessionRecords /\ t.orchestrate = place /\ t.live = r.live /\ t.status = r.status
         /\ Untouched(r, t) /\ t.gaveUp = r.gaveUp /\ t.sourceCtxs = r.sourceCtxs /\ Waits(t)
  <1> DEFINE t == [r EXCEPT !.orchestrate = place]
  <1>1. /\ t \in SessionRecords /\ t.orchestrate = place /\ t.live = r.live /\ t.status = r.status
        /\ Untouched(r, t) /\ t.gaveUp = r.gaveUp /\ t.sourceCtxs = r.sourceCtxs
    BY DEF SessionRecords, Untouched
  <1> HIDE DEF t
  <1>2. Waits(t)
    BY <1>1, WaitsSame
  <1> QED BY <1>1, <1>2 DEF t

LEMMA DrainedStep ==
  ASSUME IInv, NEW c \in Creates, Drained(c)
  PROVE  IInv' /\ Sticks
  <1> DEFINE r == [session[c] EXCEPT !.orchestrate = "check"]
  <1>1. /\ session[c] \in SessionRecords /\ session[c].orchestrate = "stream" /\ Waits(session[c])
        /\ SetSession(c, r)
    BY HereFacts DEF Drained
  <1>2. "check" \in Phases \ Before
    BY DEF Phases, Before
  <1>3. /\ r \in SessionRecords /\ r.orchestrate = "check" /\ r.live = session[c].live
        /\ r.status = session[c].status /\ Untouched(session[c], r)
        /\ r.gaveUp = session[c].gaveUp /\ r.sourceCtxs = session[c].sourceCtxs /\ Waits(r)
    BY <1>1, <1>2, PlaceFacts
  <1> HIDE DEF r
  <1>4. /\ Keeps(session[c], r) /\ r.orchestrate \notin Unstarted
        /\ r.ready = session[c].ready /\ r.initial = session[c].initial
    BY <1>3 DEF Keeps, Unstarted, Untouched
  <1> QED BY <1>1, <1>3, <1>4, OrchestrateAlone DEF Drained

LEMMA CheckStatusStep ==
  ASSUME IInv, NEW c \in Creates, CheckStatus(c)
  PROVE  IInv' /\ Sticks
  <1> DEFINE place == IF session[c].status = "ERROR" THEN "done" ELSE "close"
             r == [session[c] EXCEPT !.orchestrate = place]
  <1>1. /\ session[c] \in SessionRecords /\ session[c].orchestrate = "check" /\ Waits(session[c])
        /\ SetSession(c, r)
    BY HereFacts DEF CheckStatus
  <1>2. place \in Phases \ Before /\ place \notin Unstarted /\ (session[c].status = "ERROR" => place = "done")
    BY DEF Phases, Before, Unstarted
  <1> HIDE DEF place
  <1>3. /\ r \in SessionRecords /\ r.orchestrate = place /\ r.live = session[c].live
        /\ r.status = session[c].status /\ Untouched(session[c], r)
        /\ r.gaveUp = session[c].gaveUp /\ r.sourceCtxs = session[c].sourceCtxs /\ Waits(r)
    BY <1>1, <1>2, PlaceFacts
  <1> HIDE DEF r
  <1>4. /\ Keeps(session[c], r) /\ r.orchestrate \notin Unstarted
        /\ r.ready = session[c].ready /\ r.initial = session[c].initial
    BY <1>2, <1>3 DEF Keeps, Untouched
  <1> QED BY <1>1, <1>3, <1>4, OrchestrateAlone DEF CheckStatus

LEMMA FinalizeSessionStep ==
  ASSUME IInv, NEW c \in Creates, FinalizeSession(c)
  PROVE  IInv' /\ Sticks
  <1> DEFINE r == [SetStatus(session[c], "CLOSED") EXCEPT !.orchestrate = "done"]
  <1>1. /\ session[c] \in SessionRecords /\ session[c].orchestrate = "close" /\ Waits(session[c])
        /\ SetSession(c, r)
    BY HereFacts DEF FinalizeSession
  <1>2. /\ r \in SessionRecords /\ r.orchestrate = "done" /\ r.status = "CLOSED"
        /\ r.live = session[c].live /\ Untouched(session[c], r)
        /\ r.gaveUp = session[c].gaveUp /\ r.sourceCtxs = session[c].sourceCtxs
    BY <1>1 DEF SessionRecords, SetStatus, Statuses, Phases, Untouched
  <1> HIDE DEF r
  <1>3. Waits(r) /\ Keeps(session[c], r) /\ r.orchestrate \notin Unstarted /\ r.ready = session[c].ready
    BY <1>1, <1>2, WaitsSame DEF Keeps, Before, Unstarted, Untouched
  <1> QED BY <1>1, <1>2, <1>3, OrchestrateAlone DEF FinalizeSession

LEMMA OrchestratingStep ==
  ASSUME IInv, NEW c \in Creates, Orchestrating(c)
  PROVE  IInv' /\ Sticks
  BY ResolveFailsStep, SetSourcesStep, SetInitialStep, InitializeStep,
     DrainedStep, CheckStatusStep, FinalizeSessionStep DEF Orchestrating


-----------------------------------------------------------------------------
(* The goroutines of the sources.                                          *)

LEMMA NoGoroutineFacts ==
  NoGoroutine \in ProducerRecords /\ NoGoroutine.pc = "none"
  BY LogAssumption DEF NoGoroutine, ProducerRecords

\* What holds of a goroutine that works.
LEMMA WorkerFacts ==
  ASSUME IInv, NEW c \in Creates, NEW s \in Sources, NEW n \in Launches, producer[c][s][n].pc # "none"
  PROVE  /\ TypeOK /\ session[c] \in SessionRecords /\ Waits(session[c])
         /\ Sound(session[c], producer[c]) /\ producer[c] \in Goroutines
         /\ producer[c][s][n] \in ProducerRecords
         /\ session[c].orchestrate \notin Unstarted
         /\ producer[c][s][n].pc = "read" => s \in session[c].ready
         /\ producer[c][s][n].pc \in {"open", "read"} => producer[c][s][n].attempt <= MaxAttempts
         /\ session = [session EXCEPT ![c] = session[c]]
         /\ updater \in [Updaters -> Updates]
         /\ Keeps(session[c], session[c]) /\ None # n
  <1>1. /\ TypeOK /\ session[c] \in SessionRecords /\ Waits(session[c]) /\ Unresolved(c)
        /\ Sound(session[c], producer[c]) /\ producer[c] \in Goroutines
        /\ session = [session EXCEPT ![c] = session[c]] /\ updater \in [Updaters -> Updates]
    BY HereFacts
  <1>2. None # n
    BY LogAssumption DEF Launches
  <1>3. producer[c][s][n] \in ProducerRecords
    BY <1>1 DEF Goroutines
  <1>4. Keeps(session[c], session[c])
    BY DEF Keeps
  <1> QED BY <1>1, <1>2, <1>3, <1>4 DEF Unresolved, Sound, Counts

\* A goroutine ends or goes on, and its session's record is one that it left.
LEMMA WorkerFrame ==
  ASSUME IInv, NEW c \in Creates, NEW s \in Sources, NEW n \in Launches, producer[c][s][n].pc # "none",
         NEW p \in ProducerRecords, SetProducer(c, s, n, p),
         NEW r \in SessionRecords, SetSession(c, r),
         UNCHANGED <<call, sessions, closed, calls, events>>,
         r.orchestrate = session[c].orchestrate, r.live = session[c].live, r.initial = session[c].initial,
         session[c].ready \subseteq r.ready, session[c].gaveUp \subseteq r.gaveUp \cup r.ready,
         r.status = session[c].status \/ r.status # "INITIALIZING", Waits(r), Keeps(session[c], r),
         p.pc = "read" => s \in r.ready, p.pc \in {"open", "read"} => p.attempt <= MaxAttempts,
         r.sourceCtxs[s] = n => p.pc \in Held,
         \A z \in Sources : \/ r.sourceCtxs[z] \in {session[c].sourceCtxs[z], None}
                            \/ z = s /\ r.sourceCtxs[z] = n,
         \/ p.pc # "none" \/ s \in r.ready \cup r.gaveUp \/ ~r.live \/ r.status # "INITIALIZING"
         \/ \E m \in Launches : m # n /\ producer[c][s][m].pc # "none"
  PROVE  IInv' /\ Sticks
  <1>1. /\ session[c].orchestrate \notin Unstarted /\ UNCHANGED <<closer, updater, command>>
        /\ session[c] \in SessionRecords /\ producer[c] \in Goroutines
        /\ Sound(session[c], producer[c]) /\ updater' \in [Updaters -> Updates]
    BY WorkerFacts DEF calls
  <1>2. Sound(r, [producer[c] EXCEPT ![s][n] = p])
    BY <1>1, SoundStep
  <1> QED BY <1>1, <1>2, ProducerFrame

\* The goroutine goes on and leaves the session's record alone.
LEMMA WorkerGoesOn ==
  ASSUME IInv, NEW c \in Creates, NEW s \in Sources, NEW n \in Launches, producer[c][s][n].pc # "none",
         NEW p \in ProducerRecords, SetProducer(c, s, n, p),
         UNCHANGED <<call, session, sessions, closed, calls, events>>, p.pc \in {"try", "open"},
         p.pc = "open" => p.attempt <= MaxAttempts
  PROVE  IInv' /\ Sticks
  <1>1. /\ session[c] \in SessionRecords /\ SetSession(c, session[c])
        /\ Waits(session[c]) /\ Keeps(session[c], session[c])
    BY WorkerFacts DEF SetSession
  <1>2. p.pc \in Held /\ p.pc # "none" /\ p.pc # "read"
    BY DEF Held
  <1> QED BY <1>1, <1>2, WorkerFrame

LEMMA LaunchSourceStep ==
  ASSUME IInv, NEW c \in Creates, NEW s \in Sources, NEW n \in Launches, LaunchSource(c, s, n)
  PROVE  IInv' /\ Sticks
  <1> DEFINE p == [producer[c][s][n] EXCEPT !.pc = "queued"]
             x == [session[c].sourceCtxs EXCEPT ![s] = n]
             r == [session[c] EXCEPT !.sourceCtxs = x]
  <1>1. producer[c][s][n].pc = "launch" /\ UNCHANGED <<call, sessions, closed, calls, events>>
    BY DEF LaunchSource
  <1>2. /\ producer[c][s][n] \in ProducerRecords /\ session[c] \in SessionRecords /\ Waits(session[c])
        /\ Sound(session[c], producer[c])
        /\ session = [session EXCEPT ![c] = session[c]] /\ Keeps(session[c], session[c])
    BY <1>1, WorkerFacts
  <1>3. p \in ProducerRecords /\ p.pc = "queued"
    BY <1>2 DEF ProducerRecords
  <1>4. session[c].sourceCtxs \in [Sources -> Launches \cup {None}]
    BY <1>2 DEF SessionRecords
  <1>5. x \in [Sources -> Launches \cup {None}] /\ \A z \in Sources : x[z] = IF z = s THEN n ELSE session[c].sourceCtxs[z]
    BY <1>4
  <1>6. \/ SetSession(c, r) /\ SetProducer(c, s, n, p)
        \/ session[c].sourceCtxs[s] # None /\ SetProducer(c, s, n, NoGoroutine) /\ UNCHANGED session
    BY DEF LaunchSource, EndProducer
  <1> HIDE DEF x
  <1>7. /\ r \in SessionRecords /\ r.orchestrate = session[c].orchestrate /\ r.live = session[c].live
        /\ r.status = session[c].status /\ Untouched(session[c], r) /\ r.gaveUp = session[c].gaveUp
        /\ r.sourceCtxs = x
    BY <1>2, <1>5 DEF SessionRecords, Untouched
  <1> HIDE DEF p, r
  <1>8. /\ Waits(r) /\ Keeps(session[c], r)
        /\ r.ready = session[c].ready /\ r.initial = session[c].initial
    BY <1>2, <1>7, WaitsSame DEF Keeps, Untouched
  <1>9. CASE SetSession(c, r) /\ SetProducer(c, s, n, p)
    <2>1. \A z \in Sources : \/ r.sourceCtxs[z] \in {session[c].sourceCtxs[z], None}
                             \/ z = s /\ r.sourceCtxs[z] = n
      BY <1>5, <1>7
    <2>2. p.pc \in Held /\ p.pc \notin {"none", "open", "read"}
      BY <1>3 DEF Held
    <2> QED BY <1>1, <1>3, <1>7, <1>8, <1>9, <2>1, <2>2, WorkerFrame
  <1>10. CASE session[c].sourceCtxs[s] # None /\ SetProducer(c, s, n, NoGoroutine) /\ UNCHANGED session
    <2>1. SetSession(c, session[c])
      BY <1>2, <1>10 DEF SetSession
    <2>2. session[c].sourceCtxs[s] \in Launches /\ producer[c][s][session[c].sourceCtxs[s]].pc \in Held
      BY <1>2, <1>4, <1>10 DEF Sound, Enters
    <2>3. session[c].sourceCtxs[s] # n /\ producer[c][s][session[c].sourceCtxs[s]].pc # "none"
      BY <1>1, <2>2 DEF Held
    <2>4. \E m \in Launches : m # n /\ producer[c][s][m].pc # "none"
      BY <2>2, <2>3
    <2> QED BY <1>1, <1>2, <1>10, <2>1, <2>3, <2>4, NoGoroutineFacts, WorkerFrame
  <1> QED BY <1>6, <1>9, <1>10

LEMMA DequeueStep ==
  ASSUME IInv, NEW c \in Creates, NEW s \in Sources, NEW n \in Launches, Dequeue(c, s, n)
  PROVE  IInv' /\ Sticks
  <1> DEFINE p == [producer[c][s][n] EXCEPT !.pc = "try"]
             t == Forget(session[c], s)
             r == MarkSourceReady(t, s)
  <1>1. /\ producer[c][s][n].pc # "none" /\ UNCHANGED <<call, sessions, closed, calls, events>>
        /\ \/ SetProducer(c, s, n, p) /\ UNCHANGED session
           \/ SetSession(c, r) /\ SetProducer(c, s, n, NoGoroutine)
    BY DEF Dequeue, EndProducer
  <1>2. /\ producer[c][s][n] \in ProducerRecords /\ session[c] \in SessionRecords /\ Waits(session[c])
        /\ session[c].orchestrate \notin Unstarted /\ None # n
    BY <1>1, WorkerFacts
  <1>3. p \in ProducerRecords /\ p.pc = "try"
    BY <1>2 DEF ProducerRecords
  <1>4. /\ t \in SessionRecords /\ Untouched(session[c], t) /\ Waits(t) /\ t.gaveUp = session[c].gaveUp
        /\ t.live = session[c].live /\ t.orchestrate = session[c].orchestrate /\ t.status = session[c].status
        /\ t.sourceCtxs[s] = None
        /\ \A z \in Sources : t.sourceCtxs[z] \in {session[c].sourceCtxs[z], None}
    BY <1>2, ForgetFacts
  <1> HIDE DEF p, t
  <1>5. /\ r \in SessionRecords /\ Waits(r) /\ r.ready = t.ready \cup {s} /\ r.gaveUp = t.gaveUp \ {s}
        /\ r.live = t.live /\ r.orchestrate = t.orchestrate /\ r.initial = t.initial
        /\ r.sourceCtxs = t.sourceCtxs /\ (r.status = t.status \/ r.status # "INITIALIZING")
        /\ Keeps(t, r)
    BY <1>2, <1>4, MarkFacts
  <1> HIDE DEF r
  <1>6. /\ Keeps(session[c], r) /\ session[c].ready \subseteq r.ready /\ r.initial = session[c].initial
        /\ session[c].gaveUp \subseteq r.gaveUp \cup r.ready /\ s \in r.ready
    BY <1>4, <1>5 DEF Keeps, Untouched
  <1>7. CASE SetSession(c, r) /\ SetProducer(c, s, n, NoGoroutine)
    BY <1>1, <1>2, <1>4, <1>5, <1>6, <1>7, NoGoroutineFacts, WorkerFrame
  <1>8. CASE SetProducer(c, s, n, p) /\ UNCHANGED session
    BY <1>1, <1>3, <1>8, WorkerGoesOn
  <1> QED BY <1>1, <1>7, <1>8

LEMMA AttemptStep ==
  ASSUME IInv, NEW c \in Creates, NEW s \in Sources, NEW n \in Launches, Attempt(c, s, n)
  PROVE  IInv' /\ Sticks
  <1> DEFINE p == [producer[c][s][n] EXCEPT !.pc = "open"]
             t == Forget(session[c], s)
             r == SetStatus(t, "ERROR")
             g == GiveUp(session[c], s)
  <1>1. /\ producer[c][s][n].pc # "none" /\ UNCHANGED <<call, sessions, closed, calls, events>>
        /\ \/ producer[c][s][n].attempt <= MaxAttempts /\ SetProducer(c, s, n, p) /\ UNCHANGED session
           \/ (SetSession(c, r) \/ SetSession(c, g)) /\ SetProducer(c, s, n, NoGoroutine)
    BY DEF Attempt, EndProducer
  <1>2. /\ producer[c][s][n] \in ProducerRecords /\ session[c] \in SessionRecords /\ Waits(session[c])
        /\ None # n
    BY <1>1, WorkerFacts
  <1>3. p \in ProducerRecords /\ p.pc = "open" /\ p.attempt = producer[c][s][n].attempt
    BY <1>2 DEF ProducerRecords
  <1>4. /\ t \in SessionRecords /\ Untouched(session[c], t) /\ Waits(t) /\ t.gaveUp = session[c].gaveUp
        /\ t.live = session[c].live /\ t.orchestrate = session[c].orchestrate /\ t.status = session[c].status
        /\ t.sourceCtxs[s] = None
        /\ \A z \in Sources : t.sourceCtxs[z] \in {session[c].sourceCtxs[z], None}
    BY <1>2, ForgetFacts
  <1>5. /\ g \in SessionRecords /\ Untouched(session[c], g) /\ Waits(g) /\ session[c].gaveUp \subseteq g.gaveUp
        /\ s \in g.ready \cup g.gaveUp \/ ~g.live
        /\ g.live = session[c].live /\ g.orchestrate = session[c].orchestrate /\ g.status = session[c].status
        /\ g.sourceCtxs[s] = None
        /\ \A z \in Sources : g.sourceCtxs[z] \in {session[c].sourceCtxs[z], None}
    BY <1>2, GiveUpFacts
  <1> HIDE DEF p, t, g
  <1>6. "ERROR" \in Statuses
    BY DEF Statuses
  <1>7. /\ r \in SessionRecords /\ r.status = "ERROR" /\ Untouched(t, r) /\ r.live = t.live
        /\ r.orchestrate = t.orchestrate /\ r.sourceCtxs = t.sourceCtxs /\ r.gaveUp = t.gaveUp
    BY <1>4, <1>6, SetStatusFacts
  <1> HIDE DEF r
  <1>8. /\ Waits(r) /\ Keeps(session[c], r) /\ r.ready = session[c].ready /\ r.initial = session[c].initial
    BY <1>4, <1>7, WaitsSame DEF Keeps, Untouched
  <1>9. Keeps(session[c], g) /\ g.ready = session[c].ready /\ g.initial = session[c].initial
    BY <1>5 DEF Keeps, Untouched
  <1>10. CASE SetSession(c, r) /\ SetProducer(c, s, n, NoGoroutine)
    BY <1>1, <1>2, <1>4, <1>7, <1>8, <1>10, NoGoroutineFacts, WorkerFrame
  <1>11. CASE SetSession(c, g) /\ SetProducer(c, s, n, NoGoroutine)
    BY <1>1, <1>2, <1>5, <1>9, <1>11, NoGoroutineFacts, WorkerFrame
  <1>12. CASE producer[c][s][n].attempt <= MaxAttempts /\ SetProducer(c, s, n, p) /\ UNCHANGED session
    BY <1>1, <1>3, <1>12, WorkerGoesOn
  <1> QED BY <1>1, <1>10, <1>11, <1>12

\* A retry is counted: the limit is checked before the handler is called.
LEMMA RetryFacts ==
  ASSUME NEW p \in ProducerRecords, p.attempt <= MaxAttempts
  PROVE  Retry(p) \in ProducerRecords /\ Retry(p).pc = "try"
  <1>1. p.attempt \in 0 .. (MaxAttempts + 1) /\ MaxAttempts \in Nat
    BY LogAssumption DEF ProducerRecords
  <1>2. p.attempt + 1 \in 0 .. (MaxAttempts + 1)
    BY <1>1
  <1> DEFINE a == p.attempt + 1
  <1> HIDE DEF a
  <1>3. a \in 0 .. (MaxAttempts + 1) /\ Retry(p) = [p EXCEPT !.pc = "try", !.attempt = a]
    BY <1>2 DEF a, Retry
  <1> QED BY <1>3 DEF ProducerRecords

LEMMA OpenSourceReaderStep ==
  ASSUME IInv, NEW c \in Creates, NEW s \in Sources, NEW n \in Launches, OpenSourceReader(c, s, n)
  PROVE  IInv' /\ Sticks
  <1> DEFINE p == [producer[c][s][n] EXCEPT !.pc = "read"]
             q == Retry(producer[c][s][n])
             r == MarkSourceReady(session[c], s)
  <1>1. /\ producer[c][s][n].pc = "open" /\ UNCHANGED <<call, sessions, closed, calls, events>>
        /\ \/ SetProducer(c, s, n, p) /\ SetSession(c, r)
           \/ SetProducer(c, s, n, q) /\ UNCHANGED session
    BY DEF OpenSourceReader
  <1>2. /\ producer[c][s][n] \in ProducerRecords /\ session[c] \in SessionRecords /\ Waits(session[c])
        /\ session[c].orchestrate \notin Unstarted /\ producer[c][s][n].attempt <= MaxAttempts
    BY <1>1, WorkerFacts
  <1>3. p \in ProducerRecords /\ p.pc = "read" /\ p.attempt = producer[c][s][n].attempt
    BY <1>2 DEF ProducerRecords
  <1>4. q \in ProducerRecords /\ q.pc = "try"
    BY <1>2, RetryFacts
  <1>5. /\ r \in SessionRecords /\ Waits(r) /\ r.ready = session[c].ready \cup {s}
        /\ r.gaveUp = session[c].gaveUp \ {s} /\ r.initial = session[c].initial
        /\ r.sourceCtxs = session[c].sourceCtxs
        /\ (r.status = session[c].status \/ r.status # "INITIALIZING")
        /\ r.live = session[c].live /\ r.orchestrate = session[c].orchestrate /\ Keeps(session[c], r)
    BY <1>2, MarkFacts
  <1> HIDE DEF p, q, r
  <1>6. /\ s \in r.ready /\ session[c].ready \subseteq r.ready
        /\ session[c].gaveUp \subseteq r.gaveUp \cup r.ready /\ p.pc \in Held /\ p.pc # "none"
    BY <1>3, <1>5 DEF Held
  <1>7. CASE SetProducer(c, s, n, p) /\ SetSession(c, r)
    BY <1>1, <1>2, <1>3, <1>5, <1>6, <1>7, WorkerFrame
  <1>8. CASE SetProducer(c, s, n, q) /\ UNCHANGED session
    BY <1>1, <1>4, <1>8, WorkerGoesOn
  <1> QED BY <1>1, <1>7, <1>8

LEMMA ReadEndsStep ==
  ASSUME IInv, NEW c \in Creates, NEW s \in Sources, NEW n \in Launches, ReadEnds(c, s, n)
  PROVE  IInv' /\ Sticks
  <1> DEFINE q == Retry(producer[c][s][n])
             t == Forget(session[c], s)
  <1>1. /\ producer[c][s][n].pc = "read" /\ UNCHANGED <<call, sessions, closed, calls, events>>
        /\ \/ SetProducer(c, s, n, NoGoroutine) /\ SetSession(c, t)
           \/ SetProducer(c, s, n, q) /\ UNCHANGED session
    BY DEF ReadEnds, EndProducer
  <1>2. /\ producer[c][s][n] \in ProducerRecords /\ session[c] \in SessionRecords /\ Waits(session[c])
        /\ producer[c][s][n].attempt <= MaxAttempts /\ s \in session[c].ready /\ None # n
    BY <1>1, WorkerFacts
  <1>3. q \in ProducerRecords /\ q.pc = "try"
    BY <1>2, RetryFacts
  <1>4. /\ t \in SessionRecords /\ Untouched(session[c], t) /\ Waits(t) /\ t.gaveUp = session[c].gaveUp
        /\ t.live = session[c].live /\ t.orchestrate = session[c].orchestrate /\ t.status = session[c].status
        /\ t.sourceCtxs[s] = None
        /\ \A z \in Sources : t.sourceCtxs[z] \in {session[c].sourceCtxs[z], None}
    BY <1>2, ForgetFacts
  <1> HIDE DEF q, t
  <1>5. Keeps(session[c], t) /\ t.ready = session[c].ready /\ t.initial = session[c].initial
    BY <1>4 DEF Keeps, Untouched
  <1>6. CASE SetProducer(c, s, n, NoGoroutine) /\ SetSession(c, t)
    BY <1>1, <1>2, <1>4, <1>5, <1>6, NoGoroutineFacts, WorkerFrame
  <1>7. CASE SetProducer(c, s, n, q) /\ UNCHANGED session
    BY <1>1, <1>3, <1>7, WorkerGoesOn
  <1> QED BY <1>1, <1>6, <1>7

LEMMA ProducingStep ==
  ASSUME IInv, NEW c \in Creates, NEW s \in Sources, NEW n \in Launches, Producing(c, s, n)
  PROVE  IInv' /\ Sticks
  BY LaunchSourceStep, DequeueStep, AttemptStep, OpenSourceReaderStep, ReadEndsStep DEF Producing

-----------------------------------------------------------------------------
(* Source events and changes of the enabled sources.                       *)

LEMMA WatchFacts ==
  ASSUME IInv, NEW c \in Creates, session[c].watch
  PROVE  session[c].orchestrate \notin Unstarted
  <1>1. Unresolved(c)
    BY HereFacts
  <1> QED BY <1>1 DEF Unresolved

LEMMA SourceAddedStep ==
  ASSUME IInv, NEW c \in Creates, NEW s \in Sources, SourceAdded(c, s)
  PROVE  IInv' /\ Sticks
  <1>1. PICK n \in Launches :
          /\ SetProducer(c, s, n, [producer[c][s][n] EXCEPT !.pc = "queued"])
          /\ SetSession(c, [session[c] EXCEPT !.sourceCtxs[s] = n, !.active = @ \cup {s}])
    BY DEF SourceAdded, Spawn
  <1> DEFINE p == [producer[c][s][n] EXCEPT !.pc = "queued"]
             x == [session[c].sourceCtxs EXCEPT ![s] = n]
             r == [session[c] EXCEPT !.sourceCtxs = x, !.active = @ \cup {s}]
  <1>2. /\ TypeOK /\ session[c] \in SessionRecords /\ Waits(session[c])
        /\ Sound(session[c], producer[c]) /\ producer[c] \in Goroutines
        /\ session[c].watch /\ External /\ UNCHANGED <<call, sessions, closed, calls>>
    BY HereFacts DEF SourceAdded
  <1>3. p \in ProducerRecords /\ p.pc = "queued"
    <2>1. producer[c][s][n] \in ProducerRecords
      BY <1>2 DEF Goroutines
    <2> QED BY <2>1 DEF ProducerRecords
  <1>4. session[c].sourceCtxs \in [Sources -> Launches \cup {None}]
    BY <1>2 DEF SessionRecords
  <1>5. /\ x \in [Sources -> Launches \cup {None}]
        /\ \A z \in Sources : x[z] = IF z = s THEN n ELSE session[c].sourceCtxs[z]
    BY <1>4
  <1>6. SetProducer(c, s, n, p) /\ SetSession(c, r)
    BY <1>1
  <1> HIDE DEF x
  <1>7. /\ r \in SessionRecords /\ r.orchestrate = session[c].orchestrate /\ r.live = session[c].live
        /\ r.status = session[c].status /\ Untouched(session[c], r) /\ r.gaveUp = session[c].gaveUp
        /\ r.sourceCtxs = x
    BY <1>2, <1>5 DEF SessionRecords, Untouched
  <1> HIDE DEF p, r
  <1>8. /\ Waits(r) /\ Keeps(session[c], r)
        /\ r.ready = session[c].ready /\ r.initial = session[c].initial
    BY <1>2, <1>7, WaitsSame DEF Keeps, Untouched
  <1>9. UNCHANGED <<closer, updater, command>> /\ updater' \in [Updaters -> Updates]
    BY <1>2 DEF calls, TypeOK, Updates
  <1>10. session[c].orchestrate \notin Unstarted
    BY <1>2, WatchFacts
  <1>11. Sound(r, [producer[c] EXCEPT ![s][n] = p])
    <2>1. \A z \in Sources : r.sourceCtxs[z] \in {session[c].sourceCtxs[z], None} \/ (z = s /\ r.sourceCtxs[z] = n)
      BY <1>5, <1>7
    <2>2. p.pc \in Held /\ p.pc \notin {"none", "open", "read"}
      BY <1>3 DEF Held
    <2> QED BY <1>2, <1>3, <1>7, <1>8, <2>1, <2>2, SoundStep
  <1> QED BY <1>2, <1>3, <1>6, <1>7, <1>8, <1>9, <1>10, <1>11, ProducerFrame

\* Cancelling contexts changes nothing else of a goroutine.
LEMMA CancelledFacts ==
  ASSUME NEW c \in Creates, NEW S, producer[c] \in Goroutines
  PROVE  /\ Cancelled(c, S) \in Goroutines
         /\ \A s \in Sources, n \in Launches :
              /\ Cancelled(c, S)[s][n].pc = producer[c][s][n].pc
              /\ Cancelled(c, S)[s][n].attempt = producer[c][s][n].attempt
  <1> DEFINE f == Cancelled(c, S)
  <1>1. ASSUME NEW s \in Sources, NEW n \in Launches
        PROVE  /\ f[s][n] \in ProducerRecords /\ f[s][n].pc = producer[c][s][n].pc
               /\ f[s][n].attempt = producer[c][s][n].attempt
    <2> DEFINE p == producer[c][s][n]
               q == [p EXCEPT !.live = FALSE]
    <2>1. p \in ProducerRecords
      BY DEF Goroutines
    <2>2. q \in ProducerRecords /\ q.pc = p.pc /\ q.attempt = p.attempt
      BY <2>1 DEF ProducerRecords
    <2>3. f[s][n] = IF s \in S /\ session[c].sourceCtxs[s] = n THEN q ELSE p
      BY DEF Cancelled
    <2> HIDE DEF f, p, q
    <2>4. f[s][n] \in ProducerRecords /\ f[s][n].pc = p.pc /\ f[s][n].attempt = p.attempt
      BY <2>1, <2>2, <2>3
    <2> QED BY <2>4 DEF p
  <1>2. f \in Goroutines
    BY <1>1 DEF Cancelled, Goroutines
  <1> QED BY <1>1, <1>2

\* A session's sources are cancelled or forgotten.
LEMMA SourcesFrame ==
  ASSUME IInv, NEW c \in Creates, NEW S, NEW r \in SessionRecords,
         producer' = [producer EXCEPT ![c] = Cancelled(c, S)], SetSession(c, r),
         UNCHANGED <<call, sessions, closed, closer, command>>, External \/ UNCHANGED events,
         updater' = updater \/ Holding', updater' \in [Updaters -> Updates],
         r.orchestrate = session[c].orchestrate, r.live = session[c].live,
         r.active \subseteq session[c].active, r.watch = session[c].watch, r.status = session[c].status,
         Untouched(session[c], r), r.gaveUp = session[c].gaveUp,
         \A s \in Sources : r.sourceCtxs[s] \in {session[c].sourceCtxs[s], None}
  PROVE  IInv' /\ Sticks
  <1> DEFINE f == Cancelled(c, S)
  <1>1. /\ TypeOK /\ Created(c) /\ Reachable(c) /\ Unresolved(c) /\ Sound(session[c], producer[c])
        /\ call[c] \in CreateRecords /\ producer[c] \in Goroutines
        /\ call = [call EXCEPT ![c] = call[c]] /\ session[c] \in SessionRecords
    BY HereFacts
  <1>2. /\ f \in Goroutines
        /\ \A s \in Sources, n \in Launches :
             f[s][n].pc = producer[c][s][n].pc /\ f[s][n].attempt = producer[c][s][n].attempt
    BY <1>1, CancelledFacts
  <1> HIDE DEF f
  <1>3. producer' = [producer EXCEPT ![c] = f]
    BY DEF f
  <1>4. /\ session' = [session EXCEPT ![c] = r] /\ session'[c] = r /\ producer'[c] = f
        /\ events' \in 0 .. MaxEvents
    BY <1>1, <1>3, EventFacts DEF SetSession, TypeOK
  <1>5. Created(c)' /\ Reachable(c)'
    BY <1>1, <1>4 DEF Created, Reachable, Registered
  <1>6. Unresolved(c)'
    <2>1. \A s \in Sources, n \in Launches : producer'[c][s][n].pc = producer[c][s][n].pc
      BY <1>2, <1>4
    <2> QED BY <1>1, <1>4, <2>1 DEF Unresolved, Untouched
  <1>7. Sound(r, f) /\ Keeps(session[c], r)
    BY <1>1, <1>2, SoundSame DEF Keeps
  <1> QED BY <1>1, <1>2, <1>3, <1>4, <1>5, <1>6, <1>7, Frame

LEMMA SourceRemovedStep ==
  ASSUME IInv, NEW c \in Creates, NEW s \in Sources, SourceRemoved(c, s)
  PROVE  IInv' /\ Sticks
  <1> DEFINE r == [session[c] EXCEPT !.active = @ \ {s}]
  <1>1. /\ TypeOK /\ session[c] \in SessionRecords
        /\ producer' = [producer EXCEPT ![c] = Cancelled(c, {s})] /\ SetSession(c, r)
        /\ External /\ UNCHANGED <<call, sessions, closed, calls>>
    BY HereFacts DEF SourceRemoved
  <1>2. /\ r \in SessionRecords /\ r.orchestrate = session[c].orchestrate /\ r.live = session[c].live
        /\ r.status = session[c].status /\ Untouched(session[c], r) /\ r.gaveUp = session[c].gaveUp
        /\ r.watch = session[c].watch /\ r.active \subseteq session[c].active
        /\ r.sourceCtxs = session[c].sourceCtxs
    BY <1>1 DEF SessionRecords, Untouched
  <1> HIDE DEF r
  <1>3. UNCHANGED <<closer, updater, command>> /\ updater' \in [Updaters -> Updates]
    BY <1>1 DEF calls, TypeOK, Updates
  <1> QED BY <1>1, <1>2, <1>3, SourcesFrame

LEMMA WatchEndsStep ==
  ASSUME IInv, NEW c \in Creates, WatchEnds(c)
  PROVE  IInv' /\ Sticks
  <1> DEFINE r == [session[c] EXCEPT !.watch = FALSE]
  <1>1. /\ session[c] \in SessionRecords /\ SetSession(c, r)
        /\ session[c].watch /\ UNCHANGED <<call, producer, sessions, closed, calls, events>>
    BY HereFacts DEF WatchEnds
  <1>2. session[c].orchestrate \notin Unstarted
    BY <1>1, WatchFacts
  <1>3. /\ r \in SessionRecords /\ r.orchestrate = session[c].orchestrate /\ r.live = session[c].live
        /\ r.status = session[c].status /\ Untouched(session[c], r) /\ r.gaveUp = session[c].gaveUp
        /\ r.sourceCtxs = session[c].sourceCtxs
    BY <1>1 DEF SessionRecords, Untouched
  <1> HIDE DEF r
  <1> QED BY <1>1, <1>2, <1>3, SessionFrame

\* Sessions and goroutines are left alone, so are the entries.
LEMMA CallsFrame ==
  ASSUME IInv, UNCHANGED <<call, session, producer, sessions, closed, closer>>,
         External \/ UNCHANGED events, Holding', updater' \in [Updaters -> Updates],
         command' \in [pc : {"idle", "pause", "resume"}, at : Targets]
  PROVE  IInv' /\ Sticks
  <1>1. TypeOK'
    <2>1. TypeOK /\ events' \in 0 .. MaxEvents
      BY EventFacts DEF IInv
    <2> QED BY <2>1 DEF TypeOK, Updates
  <1>2. ASSUME NEW c \in Creates PROVE Invariant(c)'
    <2>1. Invariant(c)
      BY DEF IInv
    <2>2. Created(c)' /\ Reachable(c)' /\ Unresolved(c)'
      BY <2>1 DEF Invariant, Created, Reachable, Registered, Unresolved
    <2>3. Sound(session[c], producer[c])'
      BY <2>1 DEF Invariant, Sound, Waits, Total, Counts, Enters, Attends
    <2> QED BY <2>2, <2>3 DEF Invariant
  <1>3. Sticks
    <2>1. \A c \in Creates : Keeps(session[c], session[c])
      BY DEF Keeps
    <2> QED BY <2>1 DEF Sticks
  <1> QED BY <1>1, <1>2, <1>3 DEF IInv

LEMMA UpdateSessionOptionsStep ==
  ASSUME IInv, NEW u \in Updaters, UpdateSessionOptions(u)
  PROVE  IInv' /\ Sticks
  <1>1. PICK c \in Creates : updater' = [updater EXCEPT ![u] = [pc |-> "apply", at |-> c, restart |-> {}]]
    BY DEF UpdateSessionOptions
  <1>2. TypeOK /\ Holding
    BY DEF IInv
  <1>3. /\ External /\ UNCHANGED <<call, session, producer, sessions, closed, closer, command>>
    BY DEF UpdateSessionOptions
  <1>4. /\ updater' \in [Updaters -> Updates]
        /\ updater'[u].pc = "apply" /\ updater'[u].at = c
        /\ \A v \in Updaters : v # u => updater'[v] = updater[v]
    BY <1>1, <1>2 DEF TypeOK, Targets, Updates
  <1>5. Holding'
    BY <1>2, <1>3, <1>4 DEF Holding
  <1>6. command' \in [pc : {"idle", "pause", "resume"}, at : Targets]
    BY <1>2, <1>3 DEF TypeOK
  <1> QED BY <1>3, <1>4, <1>5, <1>6, CallsFrame

LEMMA RestartingFacts ==
  ASSUME NEW c \in Creates, NEW S \in SUBSET Sources
  PROVE  LET z == Restarting(c, S) IN
         /\ z \in Updates
         /\ z.pc = "idle" \/ (z.pc = "restart" /\ z.at = c /\ S # {})
  BY DEF Restarting, Idle, Targets, Updates

\* An updater goes on to restart sources of a resolved session, or returns.
LEMMA UpdaterFacts ==
  ASSUME TypeOK, Holding, NEW u \in Updaters, NEW c \in Creates, NEW S \in SUBSET Sources,
         updater' = [updater EXCEPT ![u] = Restarting(c, S)], command' = command,
         \A d \in Creates : session'[d].orchestrate = session[d].orchestrate,
         S # {} => session[c].orchestrate \notin Unstarted
  PROVE  updater' \in [Updaters -> Updates] /\ Holding'
  <1> DEFINE z == Restarting(c, S)
  <1>1. z \in Updates /\ (z.pc = "idle" \/ (z.pc = "restart" /\ z.at = c /\ S # {}))
    BY RestartingFacts
  <1>2. updater' = [updater EXCEPT ![u] = z] /\ updater \in [Updaters -> Updates]
    BY DEF TypeOK, Updates
  <1> HIDE DEF z
  <1>3. /\ updater' \in [Updaters -> Updates] /\ updater'[u] = z
        /\ \A v \in Updaters : v # u => updater'[v] = updater[v]
    BY <1>1, <1>2
  <1>4. Holding'
    BY <1>1, <1>3 DEF Holding
  <1> QED BY <1>3, <1>4

LEMMA UpdateEnabledSourcesStep ==
  ASSUME IInv, NEW u \in Updaters, UpdateEnabledSources(u)
  PROVE  IInv' /\ Sticks
  <1> DEFINE c == updater[u].at
  <1>1. /\ TypeOK /\ Holding /\ updater[u].pc = "apply"
        /\ UNCHANGED <<call, sessions, closed, closer, command, events>>
    BY DEF IInv, UpdateEnabledSources
  <1>2. c \in Creates
    BY <1>1 DEF Holding
  <1>3. session[c] \in SessionRecords /\ Unresolved(c)
    BY <1>2, HereFacts
  <1>4. PICK enabled \in SUBSET SourcesOf[c] :
          LET disabled == Sources \ enabled
              kept == [session[c] EXCEPT !.sourceCtxs = [s \in Sources |->
                         IF s \in disabled THEN None ELSE @[s]]]
          IN /\ producer' = [producer EXCEPT ![c] = Cancelled(c, disabled)]
             /\ SetSession(c, kept)
             /\ updater' = [updater EXCEPT ![u] =
                  Restarting(c, {s \in kept.active \cap enabled : kept.sourceCtxs[s] = None})]
    BY DEF UpdateEnabledSources
  <1> HIDE DEF c
  <1> DEFINE D == Sources \ enabled
             g == [s \in Sources |-> IF s \in D THEN None ELSE session[c].sourceCtxs[s]]
             r == [session[c] EXCEPT !.sourceCtxs = g]
             S == {s \in r.active \cap enabled : r.sourceCtxs[s] = None}
  <1>5. /\ g \in [Sources -> Launches \cup {None}]
        /\ \A s \in Sources : g[s] \in {session[c].sourceCtxs[s], None}
    BY <1>3 DEF SessionRecords
  <1>6. /\ producer' = [producer EXCEPT ![c] = Cancelled(c, D)] /\ SetSession(c, r)
        /\ updater' = [updater EXCEPT ![u] = Restarting(c, S)]
    BY <1>4
  <1> HIDE DEF g
  <1>7. /\ r \in SessionRecords /\ r.orchestrate = session[c].orchestrate /\ r.live = session[c].live
        /\ r.status = session[c].status /\ Untouched(session[c], r) /\ r.gaveUp = session[c].gaveUp
        /\ r.watch = session[c].watch /\ r.active = session[c].active /\ r.sourceCtxs = g
    BY <1>3, <1>5 DEF SessionRecords, Untouched
  <1> HIDE DEF r, D
  <1>8. S \in SUBSET Sources /\ (S # {} => session[c].orchestrate \notin Unstarted)
    BY <1>3, <1>7 DEF SessionRecords, Unresolved
  <1> HIDE DEF S
  <1>9. \A d \in Creates : session'[d].orchestrate = session[d].orchestrate
    BY <1>1, <1>2, <1>6, <1>7 DEF SetSession, TypeOK
  <1>10. updater' \in [Updaters -> Updates] /\ Holding'
    BY <1>1, <1>2, <1>6, <1>8, <1>9, UpdaterFacts
  <1>11. r.active \subseteq session[c].active /\ \A s \in Sources : r.sourceCtxs[s] \in {session[c].sourceCtxs[s], None}
    BY <1>5, <1>7
  <1> QED BY <1>1, <1>2, <1>6, <1>7, <1>10, <1>11, SourcesFrame

LEMMA RestartSourceStep ==
  ASSUME IInv, NEW u \in Updaters, NEW s \in Sources, RestartSource(u, s)
  PROVE  IInv' /\ Sticks
  <1> DEFINE c == updater[u].at
             S == updater[u].restart \ {s}
  <1>1. /\ TypeOK /\ Holding /\ updater[u].pc = "restart"
        /\ UNCHANGED <<call, session, sessions, closed, closer, command, events>>
    BY DEF IInv, RestartSource
  <1>2. /\ c \in Creates /\ session[c].orchestrate \notin Unstarted
        /\ S \in SUBSET Sources /\ updater' = [updater EXCEPT ![u] = Restarting(c, S)]
    BY <1>1 DEF Holding, TypeOK, RestartSource
  <1>3. PICK n \in Launches : /\ SetProducer(c, s, n, [producer[c][s][n] EXCEPT !.pc = "launch"])
                              /\ producer[c][s][n].pc = "none"
    BY DEF RestartSource, Spawn, Unused, Working
  <1> DEFINE p == [producer[c][s][n] EXCEPT !.pc = "launch"]
  <1> HIDE DEF c, S
  <1>4. /\ session[c] \in SessionRecords /\ Waits(session[c]) /\ Sound(session[c], producer[c])
        /\ producer[c] \in Goroutines /\ session = [session EXCEPT ![c] = session[c]]
    BY <1>2, HereFacts
  <1>5. p \in ProducerRecords /\ p.pc = "launch"
    <2>1. producer[c][s][n] \in ProducerRecords
      BY <1>4 DEF Goroutines
    <2> QED BY <2>1 DEF ProducerRecords
  <1>6. SetProducer(c, s, n, p) /\ SetSession(c, session[c])
    BY <1>1, <1>3, <1>4 DEF SetSession
  <1> HIDE DEF p
  <1>7. updater' \in [Updaters -> Updates] /\ Holding'
    BY <1>1, <1>2, UpdaterFacts
  <1>8. Keeps(session[c], session[c])
    BY DEF Keeps
  <1>9. Sound(session[c], [producer[c] EXCEPT ![s][n] = p])
    <2>1. session[c].sourceCtxs[s] # n
      <3>1. None # n
        BY LogAssumption DEF Launches
      <3> QED BY <1>3, <1>4, <3>1 DEF Sound, Enters, Held
    <2> QED BY <1>4, <1>5, <2>1, SoundStep
  <1> QED BY <1>1, <1>2, <1>4, <1>5, <1>6, <1>7, <1>8, <1>9, ProducerFrame

-----------------------------------------------------------------------------
(* Commands and closing.                                                   *)

LEMMA ReadCommandStep ==
  ASSUME IInv, ReadCommand
  PROVE  IInv' /\ Sticks
  <1>1. PICK c \in Creates, m \in {"pause", "resume"} : command' = [pc |-> m, at |-> c]
    BY DEF ReadCommand
  <1>2. TypeOK /\ Holding /\ External
        /\ UNCHANGED <<call, session, producer, sessions, closed, closer, updater>>
    BY DEF IInv, ReadCommand
  <1>3. command' \in [pc : {"idle", "pause", "resume"}, at : Targets] /\ command'.at = c
    BY <1>1 DEF Targets
  <1>4. Holding'
    BY <1>2, <1>3 DEF Holding
  <1>5. updater' \in [Updaters -> Updates]
    BY <1>2 DEF TypeOK, Updates
  <1> QED BY <1>2, <1>3, <1>4, <1>5, CallsFrame

\* A session ends or gets another status, and everything else of it is kept.
Same(r, t) ==
  /\ Untouched(r, t) /\ t.orchestrate = r.orchestrate /\ t.watch = r.watch
  /\ t.active = r.active /\ t.sourceCtxs = r.sourceCtxs /\ t.gaveUp = r.gaveUp

LEMMA RecordsFrame ==
  ASSUME IInv, session' \in [Creates -> SessionRecords],
         \A c \in Creates :
           /\ session'[c].live => session[c].live
           /\ Same(session[c], session'[c])
           /\ session'[c].status = session[c].status \/ session'[c].status # "INITIALIZING",
         \A c \in Creates : Reachable(c)',
         sessions' \in [Ids -> Targets], closed' \in BOOLEAN, closer' \in [Closers -> Targets],
         command' = command \/ command' = [pc |-> "idle", at |-> None],
         UNCHANGED <<call, producer, updater>>, External \/ UNCHANGED events
  PROVE  IInv'
  <1>1. TypeOK /\ Holding
    BY DEF IInv
  <1>2. /\ command' \in [pc : {"idle", "pause", "resume"}, at : Targets]
        /\ command'.pc # "idle" => command' = command
    BY <1>1 DEF TypeOK, Targets
  <1>3. events' \in 0 .. MaxEvents
    BY <1>1, EventFacts
  <1>4. TypeOK'
    BY <1>1, <1>2, <1>3 DEF TypeOK
  <1>5. Holding'
    BY <1>1, <1>2 DEF Holding, Same
  <1>6. ASSUME NEW c \in Creates PROVE Invariant(c)'
    <2>1. /\ Created(c) /\ Unresolved(c) /\ Sound(session[c], producer[c])
          /\ session[c] \in SessionRecords /\ producer[c] \in Goroutines
      BY HereFacts
    <2>2. Created(c)'
      BY <2>1 DEF Created, Same
    <2>3. Unresolved(c)'
      BY <2>1 DEF Unresolved, Same, Untouched
    <2> DEFINE r == session'[c]
    <2>4. r \in SessionRecords
      OBVIOUS
    <2>5. Sound(r, producer[c])
      BY <2>1, <2>4, SoundSame DEF Same
    <2> QED BY <2>2, <2>3, <2>5 DEF Invariant, Sound, Waits, Total, Counts, Enters, Attends
  <1> QED BY <1>4, <1>5, <1>6 DEF IInv

\* What a step does to the status of a session: it keeps an end, unless it is
\* the step of a command, which changes nothing but the status.
Respects(c) ==
  \/ Keeps(session[c], session'[c])
  \/ /\ Commanded(c) /\ session'[c].status # "CLOSED"
     /\ session'[c].orchestrate = session[c].orchestrate

LEMMA ApplyCommandStep ==
  ASSUME IInv, ApplyCommand
  PROVE  IInv' /\ \A c \in Creates : Respects(c)
  <1> DEFINE c == command.at
             to == IF command.pc = "pause" THEN "PAUSED" ELSE "ACTIVE"
             r == SetStatus(session[c], to)
  <1>1. /\ TypeOK /\ Holding /\ command.pc # "idle" /\ SetSession(c, r)
        /\ command' = [pc |-> "idle", at |-> None]
        /\ UNCHANGED <<call, producer, sessions, closed, closer, updater, events>>
    BY DEF IInv, ApplyCommand
  <1>2. c \in Creates /\ to \in Statuses /\ to \notin {"INITIALIZING", "CLOSED"}
    BY <1>1 DEF Holding, Statuses
  <1> HIDE DEF c, to
  <1>3. session \in [Creates -> SessionRecords]
    BY <1>1 DEF TypeOK
  <1>4. r \in SessionRecords /\ r.live = session[c].live /\ r.status = to /\ Same(session[c], r)
    BY <1>2, <1>3, SetStatusFacts DEF Same
  <1> HIDE DEF r
  <1>5. /\ session' \in [Creates -> SessionRecords] /\ session'[c] = r
        /\ \A d \in Creates : d # c => session'[d] = session[d]
    BY <1>1, <1>2, <1>3, <1>4 DEF SetSession
  <1>6. ASSUME NEW d \in Creates PROVE Reachable(d)'
    <2>1. Reachable(d)
      BY HereFacts
    <2> QED BY <1>1, <1>4, <1>5, <2>1 DEF Reachable, Registered, Same
  <1>7. /\ sessions' \in [Ids -> Targets] /\ closed' \in BOOLEAN /\ closer' \in [Closers -> Targets]
    BY <1>1 DEF TypeOK
  <1>8. \A d \in Creates : Same(session[d], session[d])
    BY DEF Same, Untouched
  <1>9. IInv'
    BY <1>1, <1>2, <1>4, <1>5, <1>6, <1>7, <1>8, RecordsFrame
  <1>10. ASSUME NEW d \in Creates PROVE Respects(d)
    <2>1. CASE d # c
      BY <1>5, <2>1 DEF Respects, Keeps
    <2>2. CASE d = c
      <3>1. Commanded(d)
        BY <1>1, <2>2 DEF Commanded, c
      <3> QED BY <1>2, <1>4, <1>5, <2>2, <3>1 DEF Respects, Same
    <2> QED BY <2>1, <2>2
  <1> QED BY <1>9, <1>10

\* Removing an entry: the sessions of the other entries are still registered.
LEMMA UnregisterFacts ==
  ASSUME TypeOK, NEW c \in Creates, Registered(c), Unregister(c)
  PROVE  /\ sessions' \in [Ids -> Targets]
         /\ \A d \in Creates : d # c /\ Registered(d) => Registered(d)'
  BY LogAssumption DEF TypeOK, Registered, Unregister, Targets

LEMMA CloseSessionStep ==
  ASSUME IInv, NEW k \in Closers, CloseSession(k)
  PROVE  IInv' /\ Sticks
  <1>1. PICK c \in Creates : Registered(c) /\ Unregister(c) /\ closer' = [closer EXCEPT ![k] = c]
    BY DEF CloseSession
  <1>2. /\ TypeOK /\ closer[k] = None /\ External /\ None \notin Creates
        /\ UNCHANGED <<call, session, producer, closed, updater, command>>
    BY LogAssumption DEF IInv, CloseSession
  <1>3. /\ closer' \in [Closers -> Targets] /\ closer'[k] = c
        /\ \A j \in Closers : j # k => closer'[j] = closer[j]
    BY <1>1, <1>2 DEF TypeOK, Targets
  <1>4. /\ sessions' \in [Ids -> Targets]
        /\ \A d \in Creates : d # c /\ Registered(d) => Registered(d)'
    BY <1>1, <1>2, UnregisterFacts
  <1>5. ASSUME NEW d \in Creates PROVE Reachable(d)'
    <2>1. Reachable(d)
      BY HereFacts
    <2>2. (\E j \in Closers : closer[j] = d) => \E j \in Closers : closer'[j] = d
      BY <1>2, <1>3
    <2>3. Registered(d) => Registered(d)' \/ \E j \in Closers : closer'[j] = d
      BY <1>3, <1>4
    <2> QED BY <1>2, <2>1, <2>2, <2>3 DEF Reachable
  <1>6. /\ session' \in [Creates -> SessionRecords] /\ closed' \in BOOLEAN
        /\ \A d \in Creates : Same(session[d], session'[d])
    BY <1>2 DEF TypeOK, Same, Untouched
  <1>7. IInv'
    BY <1>2, <1>3, <1>4, <1>5, <1>6, RecordsFrame
  <1>8. Sticks
    BY <1>2 DEF Sticks, Keeps
  <1> QED BY <1>7, <1>8

LEMMA CloseCancelsStep ==
  ASSUME IInv, NEW k \in Closers, CloseCancels(k)
  PROVE  IInv' /\ Sticks
  <1> DEFINE c == closer[k]
             r == [SetStatus(session[c], "CLOSED") EXCEPT !.live = FALSE]
  <1>1. /\ TypeOK /\ c # None /\ SetSession(c, r) /\ closer' = [closer EXCEPT ![k] = None]
        /\ UNCHANGED <<call, producer, sessions, closed, updater, command, events>>
    BY DEF IInv, CloseCancels
  <1>2. c \in Creates /\ session \in [Creates -> SessionRecords]
    BY <1>1 DEF TypeOK, Targets
  <1>3. /\ closer' \in [Closers -> Targets]
        /\ \A j \in Closers : closer[j] # c => closer'[j] = closer[j]
    BY <1>1, <1>2 DEF TypeOK, Targets
  <1> HIDE DEF c
  <1>4. r \in SessionRecords /\ r.live = FALSE /\ r.status = "CLOSED" /\ Same(session[c], r)
    BY <1>2, CloseFacts DEF Same
  <1> HIDE DEF r
  <1>5. /\ session' \in [Creates -> SessionRecords] /\ session'[c] = r
        /\ \A d \in Creates : d # c => session'[d] = session[d]
    BY <1>1, <1>2, <1>4 DEF SetSession
  <1>6. ASSUME NEW d \in Creates PROVE Reachable(d)'
    <2>1. Reachable(d)
      BY HereFacts
    <2>2. d # c => ((\E j \in Closers : closer[j] = d) => \E j \in Closers : closer'[j] = d)
      BY <1>3
    <2> QED BY <1>1, <1>4, <1>5, <2>1, <2>2 DEF Reachable, Registered
  <1>7. /\ sessions' \in [Ids -> Targets] /\ closed' \in BOOLEAN
        /\ \A d \in Creates : Same(session[d], session[d])
    BY <1>1 DEF TypeOK, Same, Untouched
  <1>8. IInv'
    BY <1>1, <1>3, <1>4, <1>5, <1>6, <1>7, RecordsFrame
  <1>9. Sticks
    BY <1>4, <1>5 DEF Sticks, Keeps, Same
  <1> QED BY <1>8, <1>9

\* Close and closeAll cancel every session that has an entry, with whatever
\* record it is left with, and remove the entries.
LEMMA CloseEveryFrame ==
  ASSUME IInv, NEW f \in [Creates -> SessionRecords],
         \A c \in Creates :
           /\ f[c].live = FALSE /\ Same(session[c], f[c])
           /\ f[c].status = session[c].status \/ f[c].status = "CLOSED",
         session' = [c \in Creates |-> IF Registered(c) THEN f[c] ELSE session[c]],
         sessions' = [i \in Ids |-> None], closed' \in BOOLEAN, External,
         UNCHANGED <<call, producer, calls>>
  PROVE  IInv' /\ Sticks
  <1>1. TypeOK /\ session \in [Creates -> SessionRecords] /\ UNCHANGED <<closer, updater, command>>
    BY DEF IInv, TypeOK, calls
  <1>2. \A c \in Creates : session'[c] = IF Registered(c) THEN f[c] ELSE session[c]
    OBVIOUS
  <1>3. session' \in [Creates -> SessionRecords]
    BY <1>1
  <1>4. sessions' \in [Ids -> Targets] /\ closer' \in [Closers -> Targets]
    BY <1>1 DEF TypeOK, Targets
  <1>5. ASSUME NEW d \in Creates PROVE Reachable(d)'
    <2>1. Reachable(d)
      BY HereFacts
    <2> QED BY <1>1, <1>2, <2>1 DEF Reachable
  <1>6. \A c \in Creates :
           /\ session'[c].live => session[c].live
           /\ Same(session[c], session'[c])
           /\ session'[c].status = session[c].status \/ session'[c].status # "INITIALIZING"
    <2>1. \A c \in Creates : Same(session[c], session[c])
      BY DEF Same, Untouched
    <2> QED BY <1>2, <2>1
  <1>7. IInv'
    BY <1>1, <1>3, <1>4, <1>5, <1>6, RecordsFrame
  <1>8. Sticks
    BY <1>2 DEF Sticks, Keeps, Same
  <1> QED BY <1>7, <1>8

LEMMA CloseStep ==
  ASSUME IInv, Close
  PROVE  IInv' /\ Sticks
  <1> DEFINE f == [c \in Creates |-> [SetStatus(session[c], "CLOSED") EXCEPT !.live = FALSE]]
  <1>1. \A c \in Creates : session[c] \in SessionRecords
    BY HereFacts
  <1>2. \A c \in Creates :
           f[c] \in SessionRecords /\ f[c].live = FALSE /\ f[c].status = "CLOSED" /\ Same(session[c], f[c])
    BY <1>1, CloseFacts DEF Same
  <1>3. /\ session' = [c \in Creates |-> IF Registered(c) THEN f[c] ELSE session[c]]
        /\ sessions' = [i \in Ids |-> None] /\ closed' \in BOOLEAN /\ External
        /\ UNCHANGED <<call, producer, calls>>
    BY DEF Close
  <1>4. f \in [Creates -> SessionRecords]
    BY <1>2
  <1> HIDE DEF f
  <1> QED BY <1>2, <1>3, <1>4, CloseEveryFrame

LEMMA CloseAllStep ==
  ASSUME IInv, CloseAll
  PROVE  IInv' /\ Sticks
  <1> DEFINE f == [c \in Creates |-> [session[c] EXCEPT !.live = FALSE]]
  <1>1. \A c \in Creates : session[c] \in SessionRecords
    BY HereFacts
  <1>2. \A c \in Creates :
           /\ f[c] \in SessionRecords /\ f[c].live = FALSE
           /\ f[c].status = session[c].status /\ Same(session[c], f[c])
    BY <1>1, CancelFacts DEF Same
  <1>3. /\ session' = [c \in Creates |-> IF Registered(c) THEN f[c] ELSE session[c]]
        /\ sessions' = [i \in Ids |-> None] /\ closed' \in BOOLEAN /\ External
        /\ UNCHANGED <<call, producer, calls>>
    BY DEF CloseAll, IInv, TypeOK
  <1>4. f \in [Creates -> SessionRecords]
    BY <1>2
  <1> HIDE DEF f
  <1> QED BY <1>2, <1>3, <1>4, CloseEveryFrame

LEMMA RetireStep ==
  ASSUME IInv, NEW c \in Creates, Retire(c)
  PROVE  IInv' /\ Sticks
  <1> DEFINE r == [session[c] EXCEPT !.live = FALSE]
  <1>1. /\ session[c] \in SessionRecords /\ SetSession(c, r) /\ Unresolved(c)
        /\ External /\ UNCHANGED <<call, producer, sessions, closed, calls>>
    BY HereFacts DEF Retire
  <1>2. /\ r \in SessionRecords /\ r.live = FALSE /\ Untouched(session[c], r)
        /\ r.status = session[c].status /\ r.orchestrate = session[c].orchestrate
        /\ r.watch = session[c].watch /\ r.active = session[c].active
        /\ r.sourceCtxs = session[c].sourceCtxs /\ r.gaveUp = session[c].gaveUp
    BY <1>1, CancelFacts
  <1> HIDE DEF r
  <1>3. (r.active = {} \/ r.orchestrate \notin Unstarted) /\ (~r.watch \/ r.orchestrate \notin Unstarted)
    BY <1>1, <1>2 DEF Unresolved
  <1> QED BY <1>1, <1>2, <1>3, SessionFrame

-----------------------------------------------------------------------------
(* The invariant and what it implies.                                      *)

LEMMA InitInvariant == Init => IInv
  <1> SUFFICES ASSUME Init PROVE IInv
    OBVIOUS
  <1>1. call \in [Creates -> CreateRecords] /\ session \in [Creates -> SessionRecords]
    <2>1. call \in [Creates -> CreateRecords]
      BY DEF Init, CreateRecords
    <2>2. session \in [Creates -> SessionRecords]
      BY DEF Init, SessionRecords, Statuses, Phases
    <2> QED BY <2>1, <2>2
  <1>2. producer \in [Creates -> [Sources -> [Launches -> ProducerRecords]]]
    BY NoGoroutineFacts DEF Init
  <1>3. /\ closer \in [Closers -> Targets] /\ sessions \in [Ids -> Targets]
        /\ updater \in [Updaters -> Updates]
        /\ command \in [pc : {"idle", "pause", "resume"}, at : Targets]
        /\ closed \in BOOLEAN /\ events \in 0 .. MaxEvents
    <2>1. None \in Targets
      BY DEF Targets
    <2>2. Idle \in Updates
      BY <2>1 DEF Idle, Updates
    <2>3. closed \in BOOLEAN /\ events \in 0 .. MaxEvents
      <3>1. closed = FALSE /\ events = 0
        BY DEF Init
      <3>2. closed \in BOOLEAN
        BY <3>1, Zenon
      <3>3. events \in 0 .. MaxEvents
        BY <3>1, LogAssumption
      <3> QED BY <3>2, <3>3
    <2>4. command \in [pc : {"idle", "pause", "resume"}, at : Targets]
      BY <2>1 DEF Init
    <2> QED BY <2>1, <2>2, <2>3, <2>4 DEF Init
  <1>4. TypeOK
    BY <1>1, <1>2, <1>3 DEF TypeOK, Updates
  <1>5. Holding
    BY DEF Init, Holding, Idle
  <1>6. ASSUME NEW c \in Creates PROVE Invariant(c)
    <2>1. call[c].pc \in {"idle", "register"} /\ call[c].reply = "none" /\ call[c].lease = FALSE
      BY DEF Init
    <2>2. /\ session[c].orchestrate = "none" /\ session[c].active = {} /\ session[c].ready = {}
          /\ session[c].counted = {} /\ session[c].watch = FALSE /\ session[c].readied = FALSE
          /\ session[c].status = "CONNECTING" /\ session[c].initial = {}
          /\ \A s \in Sources : session[c].sourceCtxs[s] = None
      BY DEF Init
    <2>3. \A s \in Sources, n \in Launches : producer[c][s][n].pc = "none"
      BY NoGoroutineFacts DEF Init
    <2>4. Created(c) /\ Reachable(c) /\ Unresolved(c)
      BY <2>1, <2>2, <2>3 DEF Created, Reachable, Unresolved
    <2>5. Sound(session[c], producer[c])
      BY <2>2, <2>3 DEF Sound, Waits, Counts, Enters, Attends
    <2> QED BY <2>4, <2>5 DEF Invariant
  <1> QED BY <1>4, <1>5, <1>6 DEF IInv

\* A step keeps the invariant, and it keeps a status that reports an end unless
\* it is the step of a command.
LEMMA NextInvariant ==
  ASSUME IInv, [Next]_vars
  PROVE  IInv' /\ \A c \in Creates : Respects(c)
  <1>1. CASE UNCHANGED vars
    <2>1. /\ UNCHANGED <<call, session, producer, sessions, closed, closer, updater, command>>
          /\ UNCHANGED events
      BY <1>1 DEF vars
    <2>2. TypeOK /\ Holding
      BY DEF IInv
    <2>3. /\ updater' \in [Updaters -> Updates]
          /\ command' \in [pc : {"idle", "pause", "resume"}, at : Targets]
      BY <2>1, <2>2 DEF TypeOK, Updates
    <2>4. Holding'
      BY <2>1, <2>2 DEF Holding
    <2> QED BY <2>1, <2>3, <2>4, CallsFrame DEF Sticks, Respects
  <1>2. ASSUME NEW c \in Creates,
               \/ Creating(c) \/ Orchestrating(c) \/ WatchEnds(c) \/ RequestEnds(c) \/ Retire(c)
               \/ \E s \in SourcesOf[c] : SourceAdded(c, s) \/ SourceRemoved(c, s)
               \/ \E s \in SourcesOf[c], n \in Launches : Producing(c, s, n)
        PROVE  IInv' /\ Sticks
    <2>1. SourcesOf[c] \subseteq Sources
      BY LogAssumption
    <2> QED BY <1>2, <2>1, CreatingStep, OrchestratingStep, WatchEndsStep, RequestEndsStep, RetireStep,
       SourceAddedStep, SourceRemovedStep, ProducingStep
  <1>3. ASSUME NEW u \in Updaters,
               \/ UpdateSessionOptions(u) \/ UpdateEnabledSources(u)
               \/ \E s \in Sources : RestartSource(u, s)
        PROVE  IInv' /\ Sticks
    BY <1>3, UpdateSessionOptionsStep, UpdateEnabledSourcesStep, RestartSourceStep
  <1>4. ASSUME NEW k \in Closers, CloseSession(k) \/ CloseCancels(k)
        PROVE  IInv' /\ Sticks
    BY <1>4, CloseSessionStep, CloseCancelsStep
  <1>5. CASE ReadCommand \/ Close \/ CloseAll
    BY <1>5, ReadCommandStep, CloseStep, CloseAllStep DEF Sticks, Respects
  <1>6. CASE ApplyCommand
    BY <1>6, ApplyCommandStep
  <1> QED BY <1>1, <1>2, <1>3, <1>4, <1>5, <1>6 DEF Next, Sticks, Respects

\* The invariant holds in every reachable state.
THEOREM Invariance == Spec => []IInv
  <1>1. IInv /\ [Next]_vars => IInv'
    BY NextInvariant
  <1> QED BY <1>1, InitInvariant, PTL DEF Spec

\* Every variable keeps its type: calls and commands that wait hold a session
\* that exists, and no goroutine counts attempts beyond the limit.
THEOREM TypeCorrect == Spec => []TypeOK
  <1>1. IInv => TypeOK
    BY DEF IInv
  <1> QED BY <1>1, Invariance, PTL

\* For any number of requests for the same ID, of closers and of ends of the
\* command stream: a session that runs can be found by its ID or is in the hands
\* of a CloseSession, and a refused creation leaves no orchestration and no lease.
THEOREM NobodyIsOrphaned == Spec => []NoOrphanSession
  <1>1. IInv => NoOrphanSession
    BY DEF IInv, Invariant, Created, Reachable, NoOrphanSession
  <1> QED BY <1>1, Invariance, PTL

\* For any number of sources and any limit of concurrent streams: a session that
\* stays INITIALIZING has a source on its way, or one of the four exceptions
\* holds.  If every slot is held by an initial source of its own that is read,
\* as many sources were counted as the threshold asks for.
THEOREM NeverWaitsInVain == Spec => []InitializingIsPending
  <1>1. IInv => InitializingIsPending
    <2> SUFFICES ASSUME IInv, NEW c \in Creates, session[c].live, session[c].status = "INITIALIZING",
                        ~Early(c), ~Dropped(c), ~Crowded(c), ~Doubled(c)
                 PROVE  \E s \in session[c].initial \ session[c].ready, n \in Launches : Underway(c, s, n)
      BY DEF InitializingIsPending
    <2> DEFINE r == session[c]
               R == r.ready \cap r.initial
               T == Streaming(c)
    <2>1. /\ r \in SessionRecords /\ Waits(r) /\ Counts(r, producer[c]) /\ Attends(r, producer[c])
          /\ producer[c] \in Goroutines
      BY HereFacts DEF Sound
    <2>2. r.initial \in SUBSET Sources /\ R \in SUBSET Sources /\ r.counted = R
      BY <2>1 DEF SessionRecords, Waits, Early
    <2>3. /\ Cardinality(R) < Total(r) /\ Total(r) <= Cardinality(r.initial)
          /\ r.follow => Total(r) <= Limit
          /\ Total(r) \in Nat /\ Cardinality(R) \in Nat /\ Cardinality(r.initial) \in Nat
          /\ IsFiniteSet(R) /\ IsFiniteSet(r.initial)
      BY <2>1, <2>2, TotalFacts, Finite DEF Waits, Early
    <2>4. PICK s \in r.initial : s \notin r.ready
      <3>1. R # r.initial
        BY <2>3
      <3> QED BY <3>1
    <2>5. PICK n \in Launches : producer[c][s][n].pc # "none"
      BY <2>1, <2>4 DEF Attends, Dropped
    <2>6. producer[c][s][n].pc \in {"launch", "queued", "try", "open"}
      <3>1. producer[c][s][n] \in ProducerRecords
        BY <2>1, <2>2, <2>4 DEF Goroutines
      <3> QED BY <2>1, <2>2, <2>4, <2>5, <3>1 DEF Counts, ProducerRecords
    <2>7. CASE producer[c][s][n].pc # "queued" \/ ~r.follow \/ Cardinality(T) < Limit
      BY <2>4, <2>6, <2>7 DEF Underway
    <2>8. CASE r.follow /\ ~(Cardinality(T) < Limit)
      <3>1. IsFiniteSet(T) /\ Cardinality(T) \in Nat
        <4>1. IsFiniteSet(Sources) /\ IsFiniteSet(Launches)
          BY LogAssumption, FS_Interval DEF Launches
        <4>2. IsFiniteSet(Sources \X Launches)
          BY <4>1, FS_Product
        <4> QED BY <4>2, FS_Subset, FS_CardinalityType DEF Streaming
      <3>2. Cardinality(R) < Cardinality(T)
        BY <2>3, <2>8, <3>1, LogAssumption
      <3>3. PICK p \in T : producer[c][p[1]][p[2]].pc # "read"
        <4> SUFFICES ASSUME \A p \in T : producer[c][p[1]][p[2]].pc = "read"
                     PROVE  FALSE
          OBVIOUS
        <4> DEFINE f == [p \in T |-> p[1]]
        <4>1. ASSUME NEW p \in T PROVE p[1] \in R
          <5>1. p[1] \in Sources /\ p[2] \in Launches
            BY DEF Streaming
          <5>2. p[1] \in r.ready
            BY <2>1, <5>1 DEF Counts
          <5>3. p[1] \in r.initial
            BY DEF Crowded
          <5> QED BY <5>2, <5>3
        <4>2. f \in [T -> R]
          BY <4>1
        <4>3. \E p, q \in T : p # q /\ f[p] = f[q]
          <5> HIDE DEF f, T, R
          <5> QED BY <2>3, <3>1, <3>2, <4>2, FS_PigeonHole
        <4> QED BY <4>3 DEF Doubled
      <3> QED BY <2>4, <2>6, <3>3 DEF Underway
    <2> QED BY <2>7, <2>8
  <1> QED BY <1>1, Invariance, PTL

\* A status that reports an end is undone by pause and resume only, and a failure
\* becomes CLOSED only when the session is closed or when it came between the
\* check and the write of finalizeSession.
THEOREM EndsAreKept == Spec => TerminalStatusSticks
  <1> DEFINE Kept(c) ==
               /\ session[c].status \in {"ERROR", "CLOSED"} =>
                    session'[c].status \in {"ERROR", "CLOSED"} \/ Commanded(c)
               /\ session[c].status = "ERROR" /\ session'[c].status = "CLOSED" =>
                    ~session'[c].live \/ session[c].orchestrate = "close"
               /\ session[c].status = "ERROR" /\ session'[c].orchestrate = "close" =>
                    session[c].orchestrate = "close"
  <1>1. IInv /\ [Next]_vars => [\A c \in Creates : Kept(c)]_vars
    <2> SUFFICES ASSUME IInv, [Next]_vars, NEW c \in Creates PROVE Kept(c)
      OBVIOUS
    <2>1. Respects(c)
      BY NextInvariant
    <2> QED BY <2>1 DEF Respects, Keeps
  <1> QED BY <1>1, Invariance, PTL DEF Spec, TerminalStatusSticks
=============================================================================
