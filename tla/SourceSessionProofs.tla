------------------------ MODULE SourceSessionProofs -------------------------
(***************************************************************************)
(* Proofs about SourceSession, for any number of goroutines of the         *)
(* callback, any transport window and any events.                          *)
(***************************************************************************)
EXTENDS SourceSession, TLAPS

-----------------------------------------------------------------------------
(* The phases.                                                             *)

\* The phase that an admitted frame leads to.
After(kind) ==
  IF kind \in {"begin", "snapshot"} THEN "snapshot"
  ELSE IF kind = "changes" \/ (kind = "end" /\ mode # "snapshot") THEN "following"
  ELSE "terminal"

\* An admitted frame advances either tracker to the phase of its kind.
LEMMA AdvanceFacts ==
  ASSUME NEW kind \in Kinds, NEW phase \in Phases, Admits(phase, kind)
  PROVE  Advance(phase, kind) = After(kind)
  BY DEF Advance, Admits, After, Terminal, Kinds, Phases

\* Nothing is admitted after the end, and only the first frame before it.
LEMMA AdmitsFacts ==
  ASSUME NEW kind \in Kinds, NEW phase \in Phases
  PROVE  /\ Admits(phase, kind) => phase # "terminal"
         /\ Admits("opening", "begin")
         /\ Admits(phase, kind) /\ phase # "opening" => kind # "begin"
         /\ Admits(phase, kind) /\ phase = "opening" => kind = "begin"
         /\ kind \in {"reset", "failed"} /\ phase \in {"snapshot", "following"} => Admits(phase, kind)
         /\ After(kind) \in Phases \ {"opening"}
         /\ After(kind) = "terminal" <=> Terminal(kind)
  BY DEF Admits, After, Terminal, Kinds, Phases

-----------------------------------------------------------------------------
(* The inductive invariant.  What has reached the transport is described   *)
(* by two numbers, its last frame and the phase that frame leads to; the   *)
(* server side is related to them and to nothing else of wire and host.    *)

\* The last sequence number that the transport took, and its phase.
OnWire == host.sequence + Len(wire)
WirePhase == IF wire = << >> THEN host.phase ELSE After(wire[Len(wire)].kind)

\* The host: its deadline is off once the snapshot is complete.
Watched == {"opening", "snapshot"}
Deadline ==
  /\ host.pc = "recv" <=> host.result = "none"
  /\ \A t \in host.timers : t <= host.epoch
  /\ host.pc = "recv" /\ host.phase \notin Watched => ~host.expired /\ host.epoch \notin host.timers
  /\ host.told \in {"end", "changes", "reset", "failed"} =>
       host.phase \notin Watched /\ ~host.expired /\ host.result # "timeout"

\* The frames in transport continue the session the host has seen.
Chain ==
  /\ \A i \in DOMAIN wire : wire[i].sequence = host.sequence + i
  /\ wire # << >> => Admits(host.phase, wire[1].kind)
  /\ \A i \in DOMAIN wire :
       i + 1 \in DOMAIN wire => Admits(After(wire[i].kind), wire[i + 1].kind)

\* The transport took the frame, and the end of the session with it.
Delivered(frame) ==
  /\ frame.sequence <= OnWire
  /\ Terminal(frame.kind) => WirePhase = "terminal"

\* A goroutine inside the emitter.
Inside(p) == call[p].pc \in {"send", "queue", "ack"}
Emission(p) ==
  /\ Inside(p) <=> emitter.mu = p
  /\ call[p].pc # "idle" => call[p].left >= 1
  /\ call[p].pc \in {"queue", "ack"} =>
       call[p].frame.kind \in {"begin", Kind(call[p].op)} /\ call[p].frame.sequence >= 1
  /\ call[p].pc = "queue" => call[p].ack = "none"
  /\ call[p].pc = "ack" /\ call[p].ack = "ok" => Delivered(call[p].frame)

\* The emitter's own record of the session.
Recorded ==
  /\ emitter.sequence = 0 <=> emitter.phase = "opening"
  /\ emitter.acked <= OnWire
  /\ emitter.terminal => WirePhase = "terminal"

\* The goroutine that runs OpenSource emits at its end only, and leaves an
\* unfinished session behind only if nobody listens or its frame was refused.
Rooted ==
  /\ root.pc \in {"leave", "last"} <=> call[Root].pc # "idle"
  /\ root.pc = "leave" => call[Root].op = "binding"
  /\ root.pc = "last" =>
       \/ call[Root].op = "reset"
       \/ call[Root].op = "failed" /\ emitter.sequence > 0
  /\ root.pc = "done" => cancelled \/ "limit" \in Events \/ WirePhase = "terminal"

\* The handler: its context ends with the stream or with its return, and what
\* it holds was given to it by an emission.
Ended == loop.pc \in {"ok", "error"}
Handled ==
  /\ cancelled <=> broken \/ Ended
  /\ loop.pc \in {"hand", "wait"} =>
       loop.delivery \in Processes /\ call[loop.delivery].pc # "queue"
  /\ loop.queue # None => loop.queue \in Processes /\ call[loop.queue].pc # "queue"
  /\ loop.sender # NoFrame => loop.pc \notin {"select", "hand"} /\ loop.sent = "none"
  /\ loop.sent # "none" => loop.pc \notin {"select", "hand"}
  /\ loop.pc = "wait" /\ loop.sent = "ok" /\ call[loop.delivery].pc = "ack" =>
       Delivered(call[loop.delivery].frame)
  /\ loop.pc = "ok" /\ ~broken => "limit" \in Events \/ WirePhase = "terminal"

\* A frame that was numbered and is not yet on the wire.
Pending(p) ==
  /\ call[p].pc \in {"queue", "ack"} /\ call[p].ack = "none"
  /\ ~(loop.pc = "wait" /\ loop.sent = "ok")

\* While the context lives: the loop works on the one emission inside, whose
\* frame is the next one, and otherwise the wire has all that was numbered.
Flowing ==
  /\ loop.queue # None =>
       loop.pc = "select" /\ call[loop.queue].pc = "ack" /\ call[loop.queue].ack = "none"
  /\ loop.pc \in {"hand", "wait"} =>
       call[loop.delivery].pc = "ack" /\ call[loop.delivery].ack = "none"
  /\ loop.sender # NoFrame => loop.sender = call[loop.delivery].frame
  /\ \A p \in Processes : call[p].pc \in {"queue", "ack"} => call[p].ack # "err"
  /\ \A p \in Processes : Pending(p) =>
       /\ call[p].frame.sequence = OnWire + 1 /\ emitter.sequence = OnWire + 1
       /\ Admits(WirePhase, call[p].frame.kind) /\ emitter.phase = After(call[p].frame.kind)
  /\ (\A p \in Processes : ~Pending(p)) => emitter.sequence = OnWire /\ emitter.phase = WirePhase

Server ==
  /\ \A p \in Processes : Emission(p)
  /\ Recorded /\ Rooted /\ Handled
  /\ ~cancelled => Flowing

IInv == TypeOK /\ Deadline /\ Chain /\ Server

-----------------------------------------------------------------------------
(* Facts that every step needs.                                            *)

LEMMA ProcessFacts == None \notin Processes /\ Root \in Processes
  BY SessionAssumption DEF Processes

LEMMA NoCallFacts == NoCall \in CallStates /\ NoFrame \in Frames
  BY DEF NoCall, NoFrame, CallStates, Frames, Kinds

\* The transport's position and phase have their types.
LEMMA PositionTypes ==
  ASSUME TypeOK
  PROVE  OnWire \in Nat /\ WirePhase \in Phases
  <1>1. host.sequence \in Nat /\ host.phase \in Phases /\ Len(wire) \in Nat
    BY DEF TypeOK, HostStates
  <1>2. wire # << >> => wire[Len(wire)].kind \in Kinds
    <2>1. wire # << >> => wire[Len(wire)] \in Frames
      BY DEF TypeOK
    <2> QED BY <2>1 DEF Frames
  <1>3. ASSUME NEW kind \in Kinds PROVE After(kind) \in Phases
    BY <1>3 DEF After, Phases
  <1> QED BY <1>1, <1>2, <1>3 DEF OnWire, WirePhase

\* A step of the server side alone leaves wire and host as they are.
LEMMA ServerFrame ==
  ASSUME Deadline, Chain, UNCHANGED <<mode, wire, host>>
  PROVE  Deadline' /\ Chain' /\ OnWire' = OnWire /\ WirePhase' = WirePhase
  BY DEF Deadline, Chain, OnWire, WirePhase, After

\* What an emission that changes its own record does to the others.
LEMMA SetCallFacts ==
  ASSUME TypeOK, NEW p \in Processes, NEW record \in CallStates, SetCall(p, record)
  PROVE  /\ call' \in [Processes -> CallStates]
         /\ call'[p] = record
         /\ \A q \in Processes : q # p => call'[q] = call[q]
  BY DEF TypeOK, SetCall

LEMMA CallTypes ==
  ASSUME TypeOK, NEW p \in Processes
  PROVE  /\ call[p] \in CallStates
         /\ call[p].pc \in {"idle", "lock", "send", "queue", "ack"}
         /\ call[p].op \in {"snapshot", "end", "changes", "reset", "binding", "failed"}
         /\ call[p].left \in Nat
         /\ call[p].frame \in Frames
         /\ call[p].frame.kind \in Kinds
         /\ call[p].frame.sequence \in Nat
         /\ call[p].ack \in {"none", "ok", "err"}
  BY DEF TypeOK, CallStates, Frames

\* An emission that was told success with its own frame, not with the Begin.
Earned(p) ==
  call[p].pc = "ack" /\ call[p].ack = "ok" /\ call[p].frame.kind = Kind(call[p].op)

\* The effects of Leave.
LEMMA LeaveFacts ==
  ASSUME TypeOK, NEW p \in Processes, NEW ok \in BOOLEAN, ok => Earned(p), Leave(p, ok)
  PROVE  /\ call' \in [Processes -> CallStates]
         /\ call'[p] = NoCall
         /\ \A q \in Processes : q # p => call'[q] = call[q]
         /\ emitter' \in EmitterStates
         /\ emitter'.mu = None
         /\ emitter'.sequence = emitter.sequence /\ emitter'.phase = emitter.phase
         /\ emitter'.acked = emitter.acked
              \/ (Earned(p) /\ emitter'.acked = call[p].frame.sequence)
         /\ emitter'.terminal => emitter.terminal \/ (Earned(p) /\ Terminal(call[p].frame.kind))
         /\ root' \in RootStates
         /\ p # Root => root'.pc = root.pc
         /\ p = Root => root'.pc = IF root.pc = "leave" THEN "judge" ELSE "done"
  <1>1. /\ call' \in [Processes -> CallStates] /\ call'[p] = NoCall
        /\ \A q \in Processes : q # p => call'[q] = call[q]
    BY SetCallFacts, NoCallFacts DEF Leave
  <1>2. /\ call[p].frame.sequence \in Nat
        /\ call[p].op \in {"snapshot", "end", "changes", "reset", "binding", "failed"}
    BY CallTypes
  <1>3. emitter \in EmitterStates /\ root \in RootStates
    BY DEF TypeOK
  <1>4. emitter' = [emitter EXCEPT
          !.mu = None,
          !.acked = IF ok THEN call[p].frame.sequence ELSE @,
          !.ended = @ \/ (ok /\ call[p].op = "end"),
          !.terminal = @ \/ (ok /\ \/ call[p].op \in {"reset", "binding", "failed"}
                                   \/ call[p].op = "end" /\ mode = "snapshot")]
    BY DEF Leave
  <1>5. /\ emitter' \in EmitterStates
        /\ emitter'.mu = None
        /\ emitter'.sequence = emitter.sequence /\ emitter'.phase = emitter.phase
        /\ emitter'.acked = IF ok THEN call[p].frame.sequence ELSE emitter.acked
    BY <1>2, <1>3, <1>4 DEF EmitterStates
  <1>6. emitter'.terminal => emitter.terminal \/ (Earned(p) /\ Terminal(call[p].frame.kind))
    <2>1. emitter'.terminal =>
            emitter.terminal \/ (ok /\ \/ call[p].op \in {"reset", "binding", "failed"}
                                       \/ call[p].op = "end" /\ mode = "snapshot")
      BY <1>3, <1>4 DEF EmitterStates
    <2> QED BY <2>1 DEF Earned, Terminal, Kind
  <1>7. /\ root' \in RootStates
        /\ p # Root => root'.pc = root.pc
        /\ p = Root => root'.pc = IF root.pc = "leave" THEN "judge" ELSE "done"
    BY <1>3 DEF Leave, RootStates
  <1> QED BY <1>1, <1>5, <1>6, <1>7

-----------------------------------------------------------------------------
(* Emissions.                                                              *)

\* At most the holder of the mutex is inside the emitter.
LEMMA OneInside ==
  ASSUME Server, NEW p \in Processes, NEW q \in Processes, Inside(p), emitter.mu \in {None, q}
  PROVE  p = q
  BY ProcessFacts DEF Server, Emission

\* An emission that leaves: it was told success, or its context has ended, or
\* it had no frame under way.
LEMMA LeaveStep ==
  ASSUME IInv, NEW p \in Processes, NEW ok \in BOOLEAN, ok => Earned(p), Leave(p, ok),
         UNCHANGED <<mode, retired, cancelled, broken, loop, wire, host>>,
         call[p].pc # "idle", emitter.mu \in {None, p},
         ~cancelled => call[p].pc # "queue" /\ (call[p].pc = "ack" => call[p].ack # "none"),
         p = Root /\ root.pc = "last" => cancelled \/ "limit" \in Events \/ WirePhase = "terminal"
  PROVE  IInv'
  <1>1. TypeOK /\ Deadline /\ Chain /\ Server
    BY DEF IInv
  <1>2. /\ call' \in [Processes -> CallStates]
        /\ call'[p] = NoCall
        /\ \A q \in Processes : q # p => call'[q] = call[q]
        /\ emitter' \in EmitterStates
        /\ emitter'.mu = None
        /\ emitter'.sequence = emitter.sequence /\ emitter'.phase = emitter.phase
        /\ emitter'.acked = emitter.acked
              \/ (Earned(p) /\ emitter'.acked = call[p].frame.sequence)
        /\ emitter'.terminal => emitter.terminal \/ (Earned(p) /\ Terminal(call[p].frame.kind))
        /\ root' \in RootStates
        /\ p # Root => root'.pc = root.pc
        /\ p = Root => root'.pc = IF root.pc = "leave" THEN "judge" ELSE "done"
    BY <1>1, LeaveFacts
  <1>3. NoCall.pc = "idle" /\ NoCall.frame = NoFrame
    BY DEF NoCall
  <1>4. Deadline' /\ Chain' /\ OnWire' = OnWire /\ WirePhase' = WirePhase
    BY <1>1, ServerFrame
  <1>5. TypeOK'
    BY <1>1, <1>2 DEF TypeOK
  <1>6. Earned(p) => Delivered(call[p].frame)
    BY <1>1 DEF Server, Emission, Earned
  <1>7. ASSUME NEW q \in Processes PROVE Emission(q)'
    <2>1. CASE q = p
      BY <1>2, <1>3, <2>1, ProcessFacts DEF Emission, Inside
    <2>2. CASE q # p
      <3>1. Emission(q) /\ ~Inside(q)
        BY <1>1, <2>2, OneInside DEF Server
      <3> QED BY <1>2, <1>4, <2>2, <3>1, ProcessFacts DEF Emission, Inside
    <2> QED BY <2>1, <2>2
  <1>8. Recorded'
    BY <1>1, <1>2, <1>4, <1>6 DEF Server, Recorded, Delivered
  <1>9. Rooted'
    <2>1. Rooted
      BY <1>1 DEF Server
    <2>2. CASE p = Root
      BY <1>2, <1>3, <1>4, <2>1, <2>2 DEF Rooted
    <2>3. CASE p # Root
      <3>1. call'[Root] = call[Root]
        BY <1>2, <2>3, ProcessFacts
      <3> QED BY <1>2, <1>4, <2>1, <2>3, <3>1 DEF Rooted
    <2> QED BY <2>2, <2>3
  <1>10. Handled'
    <2>1. Handled
      BY <1>1 DEF Server
    <2>2. \A q \in Processes : call'[q].pc = "ack" => call'[q] = call[q]
      BY <1>2, <1>3
    <2>3. \A q \in Processes : call'[q].pc = "queue" => call'[q] = call[q]
      BY <1>2, <1>3
    <2> QED BY <1>4, <2>1, <2>2, <2>3 DEF Handled, Ended, Delivered, Terminal
  <1>11. ASSUME ~cancelled PROVE Flowing'
    <2>1. Flowing
      BY <1>1, <1>11 DEF Server
    <2>2. \A q \in Processes : Inside(q) => q = p
      BY <1>1, OneInside
    <2>3. \A q \in Processes : ~Pending(q)
      BY <1>11, <2>2 DEF Pending, Inside
    <2>4. \A q \in Processes : call'[q].pc \notin {"queue", "ack"}
      BY <1>2, <1>3, <2>2 DEF Inside
    <2>5. loop.queue = None
      <3>1. ASSUME loop.queue # None PROVE FALSE
        <4>1. loop.queue \in Processes
          BY <1>1, <3>1 DEF TypeOK, LoopStates
        <4> QED BY <1>11, <2>1, <2>2, <3>1, <4>1 DEF Flowing, Inside
      <3> QED BY <3>1
    <2>6. loop.pc \notin {"hand", "wait"}
      <3>1. ASSUME loop.pc \in {"hand", "wait"} PROVE FALSE
        <4>1. loop.delivery \in Processes
          BY <1>1, <3>1 DEF Server, Handled
        <4> QED BY <1>11, <2>1, <2>2, <3>1, <4>1 DEF Flowing, Inside
      <3> QED BY <3>1
    <2>7. loop.sender = NoFrame
      BY <1>1, <1>11, <2>6 DEF Server, Handled, Ended, TypeOK, LoopStates
    <2>8. emitter'.sequence = OnWire' /\ emitter'.phase = WirePhase'
      BY <1>2, <1>4, <2>1, <2>3 DEF Flowing
    <2> QED BY <2>4, <2>5, <2>6, <2>7, <2>8 DEF Flowing, Pending
  <1> QED BY <1>4, <1>5, <1>7, <1>8, <1>9, <1>10, <1>11 DEF IInv, Server

\* The checks of an emission, or of send, refuse it; its context ends.
LEMMA RefusedStep ==
  ASSUME IInv, NEW p \in Processes, Lock(p) \/ SendRefused(p) \/ SendAbandoned(p)
  PROVE  IInv'
  <1>1. TypeOK /\ Server
    BY DEF IInv
  <1>2. /\ Leave(p, FALSE) /\ call[p].pc # "idle"
        /\ UNCHANGED <<mode, retired, cancelled, broken, loop, wire, host>>
    BY DEF Lock, SendRefused, SendAbandoned
  <1>3. emitter.mu \in {None, p}
    BY <1>1 DEF Lock, SendRefused, SendAbandoned, Server, Emission, Inside
  <1>4. ~cancelled => call[p].pc # "queue" /\ (call[p].pc = "ack" => call[p].ack # "none")
    BY DEF Lock, SendRefused, SendAbandoned
  <1>5. ASSUME p = Root, root.pc = "last", ~cancelled, "limit" \notin Events
        PROVE  WirePhase = "terminal"
    <2>1. Rooted /\ Recorded /\ Flowing
      BY <1>1, <1>5 DEF Server
    <2>2. \/ call[p].op = "reset"
          \/ call[p].op = "failed" /\ emitter.sequence > 0
      BY <1>5, <2>1 DEF Rooted
    <2>3. CASE Lock(p)
      BY <2>1, <2>2, <2>3 DEF Lock, Recorded
    <2>4. CASE SendRefused(p)
      <3>1. call[p].pc = "send" /\ ~Admits(emitter.phase, NextKind(p))
        BY <1>5, <2>4 DEF SendRefused, OwnContextEnded
      <3>2. \A q \in Processes : ~Pending(q)
        BY <1>1, <1>3, <3>1, OneInside DEF Pending, Inside
      <3>3. emitter.phase = WirePhase
        BY <2>1, <3>2 DEF Flowing
      <3>4. emitter.phase \in Phases /\ emitter.sequence \in Nat
        BY <1>1 DEF TypeOK, EmitterStates
      <3>5. CASE emitter.sequence = 0
        <4>1. NextKind(p) = "begin" /\ emitter.phase = "opening"
          BY <2>1, <2>2, <3>5 DEF NextKind, Recorded
        <4> QED BY <3>1, <4>1 DEF Admits
      <3>6. CASE emitter.sequence # 0
        <4>1. NextKind(p) \in {"reset", "failed"} /\ emitter.phase # "opening"
          BY <2>1, <2>2, <3>6 DEF NextKind, Recorded, Kind
        <4> QED BY <3>1, <3>3, <3>4, <4>1 DEF Admits, Phases
      <3> QED BY <3>5, <3>6
    <2>5. CASE SendAbandoned(p)
      BY <1>5, <2>5 DEF SendAbandoned
    <2> QED BY <2>3, <2>4, <2>5
  <1>6. p = Root /\ root.pc = "last" => cancelled \/ "limit" \in Events \/ WirePhase = "terminal"
    BY <1>5
  <1>7. FALSE \in BOOLEAN /\ (FALSE => Earned(p))
    OBVIOUS
  <1> HIDE DEF Earned, Leave
  <1> QED BY <1>2, <1>3, <1>4, <1>6, <1>7, LeaveStep

\* A goroutine enters a method of the emitter.
LEMMA EnterStep ==
  ASSUME IInv, NEW p \in Processes, NEW record \in CallStates,
         call[p].pc = "idle", record.pc = "lock", record.left >= 1,
         SetCall(p, record), root' \in RootStates, Rooted',
         UNCHANGED <<mode, emitter, retired, cancelled, broken, loop, wire, host>>
  PROVE  IInv'
  <1>1. TypeOK /\ Deadline /\ Chain /\ Server
    BY DEF IInv
  <1>2. /\ call' \in [Processes -> CallStates]
        /\ call'[p] = record
        /\ \A q \in Processes : q # p => call'[q] = call[q]
    BY <1>1, SetCallFacts
  <1>3. Deadline' /\ Chain' /\ OnWire' = OnWire /\ WirePhase' = WirePhase
    BY <1>1, ServerFrame
  <1>4. TypeOK'
    BY <1>1, <1>2 DEF TypeOK
  <1>5. ASSUME NEW q \in Processes PROVE Emission(q)'
    <2>1. Emission(q)
      BY <1>1 DEF Server
    <2>2. CASE q = p
      BY <1>2, <2>1, <2>2 DEF Emission, Inside
    <2>3. CASE q # p
      BY <1>2, <1>3, <2>1, <2>3 DEF Emission, Inside, Delivered, Terminal
    <2> QED BY <2>2, <2>3
  <1>6. \A q \in Processes :
          call'[q].pc \in {"queue", "ack"} \/ call[q].pc \in {"queue", "ack"} =>
            call'[q] = call[q]
    BY <1>2
  <1>7. Recorded'
    BY <1>1, <1>3 DEF Server, Recorded
  <1>8. Handled'
    BY <1>1, <1>3, <1>6 DEF Server, Handled, Ended, Delivered, Terminal
  <1>9. ASSUME ~cancelled PROVE Flowing'
    <2>1. Flowing /\ Handled
      BY <1>1, <1>9 DEF Server
    <2>2. loop.queue # None => loop.queue \in Processes
      BY <1>1 DEF TypeOK, LoopStates
    <2>3. loop.sender # NoFrame => loop.pc = "wait"
      BY <1>1, <1>9, <2>1 DEF Handled, Ended, TypeOK, LoopStates
    <2>4. \A q \in Processes : Pending(q)' <=> Pending(q)
      BY <1>6 DEF Pending
    <2>5. /\ loop.queue # None =>
               loop.pc = "select" /\ call'[loop.queue].pc = "ack" /\ call'[loop.queue].ack = "none"
          /\ loop.pc \in {"hand", "wait"} =>
               call'[loop.delivery].pc = "ack" /\ call'[loop.delivery].ack = "none"
          /\ loop.sender # NoFrame => loop.sender = call'[loop.delivery].frame
      BY <1>6, <2>1, <2>2, <2>3 DEF Flowing, Handled
    <2>6. \A q \in Processes : call'[q].pc \in {"queue", "ack"} => call'[q].ack # "err"
      BY <1>6, <2>1 DEF Flowing
    <2>7. \A q \in Processes : Pending(q)' =>
            /\ call'[q].frame.sequence = OnWire + 1 /\ emitter.sequence = OnWire + 1
            /\ Admits(WirePhase, call'[q].frame.kind) /\ emitter.phase = After(call'[q].frame.kind)
      BY <1>6, <2>1, <2>4 DEF Flowing, Pending
    <2>8. (\A q \in Processes : ~Pending(q)') => emitter.sequence = OnWire /\ emitter.phase = WirePhase
      BY <2>1, <2>4 DEF Flowing
    <2> QED BY <1>3, <2>5, <2>6, <2>7, <2>8 DEF Flowing, After
  <1> QED BY <1>3, <1>4, <1>5, <1>7, <1>8, <1>9 DEF IInv, Server

\* The record of an emission that begins.
Begun(op, left) == [NoCall EXCEPT !.pc = "lock", !.op = op, !.left = left]
LEMMA BegunFacts ==
  ASSUME NEW left \in Nat, left >= 1,
         NEW op \in {"snapshot", "end", "changes", "reset", "binding", "failed"}
  PROVE  /\ Begun(op, left) \in CallStates
         /\ Begun(op, left).pc = "lock"
         /\ Begun(op, left).left >= 1
         /\ Begun(op, left).op = op
  <1>1. PICK c \in CallStates : c = NoCall
    BY NoCallFacts
  <1>2. Begun(op, left) = [c EXCEPT !.pc = "lock", !.op = op, !.left = left]
    BY <1>1 DEF Begun
  <1> QED BY <1>2 DEF CallStates

LEMMA EmitStep ==
  ASSUME IInv, NEW p \in Emitters, NEW op \in {"snapshot", "end", "changes", "reset"},
         NEW left \in 1 .. 2, Emit(p, op, left) \/ EmitFenced(p)
  PROVE  IInv'
  <1>1. TypeOK /\ Rooted
    BY DEF IInv, Server
  <1>2. p \in Processes /\ p # Root
    BY SessionAssumption DEF Processes
  <1>3. PICK record \in CallStates : record.pc = "lock" /\ record.left >= 1 /\ SetCall(p, record)
    <2>1. CASE Emit(p, op, left)
      <3> DEFINE r == Begun(op, left)
      <3>1. r \in CallStates /\ r.pc = "lock" /\ r.left >= 1
        BY BegunFacts
      <3>2. SetCall(p, r)
        BY <2>1 DEF Emit, Begun
      <3> QED BY <3>1, <3>2
    <2>2. CASE EmitFenced(p)
      <3> DEFINE r == Begun("binding", 1)
      <3>1. r \in CallStates /\ r.pc = "lock" /\ r.left >= 1
        BY BegunFacts
      <3>2. SetCall(p, r)
        BY <2>2 DEF EmitFenced, Begun
      <3> QED BY <3>1, <3>2
    <2> QED BY <2>1, <2>2
  <1>4. /\ call[p].pc = "idle" /\ root' = root
        /\ UNCHANGED <<mode, emitter, retired, cancelled, broken, loop, wire, host>>
    BY DEF Emit, EmitFenced
  <1>5. Rooted' /\ root' \in RootStates
    <2>1. call'[Root] = call[Root]
      BY <1>1, <1>2, <1>3, SetCallFacts, ProcessFacts
    <2>2. WirePhase' = WirePhase
      BY <1>4, ServerFrame DEF IInv
    <2> QED BY <1>1, <1>4, <2>1, <2>2 DEF Rooted, TypeOK
  <1> QED BY <1>2, <1>3, <1>4, <1>5, EnterStep

\* Root sends a reset when the generation retired, and the last frame.
LEMMA RootEmitStep ==
  ASSUME IInv, NEW op \in {"binding", "reset", "failed"}, RootEmits(op),
         root.pc \in {"source", "judge"}, root' \in RootStates,
         \/ root'.pc = "leave" /\ op = "binding"
         \/ root'.pc = "last" /\ (op = "reset" \/ (op = "failed" /\ emitter.sequence > 0)),
         UNCHANGED <<mode, emitter, retired, cancelled, broken, loop, wire, host>>
  PROVE  IInv'
  <1> DEFINE r == Begun(op, 1)
  <1>1. TypeOK /\ Rooted
    BY DEF IInv, Server
  <1>2. r \in CallStates /\ r.pc = "lock" /\ r.left >= 1 /\ r.op = op
    BY BegunFacts
  <1>3. SetCall(Root, r)
    BY DEF RootEmits, Begun
  <1> HIDE DEF r
  <1>4. call'[Root] = r /\ call[Root].pc = "idle"
    BY <1>1, <1>2, <1>3, SetCallFacts, ProcessFacts, CallTypes DEF Rooted
  <1>5. Rooted'
    BY <1>2, <1>4 DEF Rooted
  <1> QED BY <1>2, <1>3, <1>4, <1>5, EnterStep, ProcessFacts

LEMMA SourceReturnsResetStep ==
  ASSUME IInv, NEW ok \in BOOLEAN, SourceReturnsReset(ok)
  PROVE  IInv'
  <1>1. root \in RootStates
    BY DEF IInv, TypeOK
  <1>2. root' = [root EXCEPT !.pc = "leave", !.ok = ok]
    BY DEF SourceReturnsReset
  <1>3. root' \in RootStates /\ root'.pc = "leave"
    BY <1>1, <1>2 DEF RootStates
  <1> QED BY <1>3, RootEmitStep DEF SourceReturnsReset

LEMMA JudgeLastStep ==
  ASSUME IInv, JudgeLast
  PROVE  IInv'
  <1>1. root \in RootStates
    BY DEF IInv, TypeOK
  <1>2. root' \in RootStates /\ root'.pc = "last"
    BY <1>1 DEF RootStates, JudgeLast
  <1> QED BY <1>2, RootEmitStep DEF JudgeLast

\* Root alone moves: what the emitter holds is as before.
LEMMA RootStep ==
  ASSUME IInv, root' \in RootStates,
         UNCHANGED <<mode, emitter, call, cancelled, broken, loop, wire, host>>,
         retired' \in BOOLEAN,
         root'.pc \in {"leave", "last"} <=> root.pc \in {"leave", "last"},
         root'.pc \in {"leave", "last"} => root'.pc = root.pc,
         root'.pc = "done" => cancelled \/ "limit" \in Events \/ WirePhase = "terminal"
  PROVE  IInv'
  <1>1. TypeOK /\ Deadline /\ Chain /\ Server
    BY DEF IInv
  <1>2. Deadline' /\ Chain' /\ OnWire' = OnWire /\ WirePhase' = WirePhase
    BY <1>1, ServerFrame
  <1>3. TypeOK'
    BY <1>1 DEF TypeOK
  <1>4. ASSUME NEW q \in Processes PROVE Emission(q)'
    BY <1>1, <1>2 DEF Server, Emission, Inside, Delivered, Terminal
  <1>5. Recorded' /\ Handled'
    BY <1>1, <1>2 DEF Server, Recorded, Handled, Ended, Delivered, Terminal
  <1>6. Rooted'
    BY <1>1, <1>2 DEF Server, Rooted
  <1>7. ~cancelled => Flowing'
    BY <1>1, <1>2 DEF Server, Flowing, Pending, After
  <1> QED BY <1>2, <1>3, <1>4, <1>5, <1>6, <1>7 DEF IInv, Server

LEMMA JudgeStep ==
  ASSUME IInv,
         \/ \E ok \in BOOLEAN : SourceReturns(ok)
         \/ JudgeDone \/ JudgeUnfinished \/ JudgeRefused \/ Retire
  PROVE  IInv'
  <1>1. TypeOK /\ Server /\ root \in RootStates
    BY DEF IInv, TypeOK
  <1>2. ASSUME NEW ok \in BOOLEAN, SourceReturns(ok) PROVE IInv'
    <2>1. root' = [root EXCEPT !.pc = "judge", !.ok = ok \/ (root.reset /\ mode = "updates")]
      BY <1>2 DEF SourceReturns
    <2>2. root' \in RootStates /\ root'.pc = "judge"
      BY <1>1, <2>1 DEF RootStates
    <2>3. retired' \in BOOLEAN
      BY <1>1, <1>2 DEF SourceReturns, TypeOK
    <2> QED BY <1>2, <2>2, <2>3, RootStep DEF SourceReturns
  <1>3. CASE JudgeDone
    <2>1. root' \in RootStates /\ root'.pc = "done" /\ retired' \in BOOLEAN
      BY <1>1, <1>3 DEF RootStates, JudgeDone, TypeOK
    <2>2. cancelled \/ WirePhase = "terminal"
      BY <1>1, <1>3 DEF JudgeDone, Server, Recorded
    <2> QED BY <1>3, <2>1, <2>2, RootStep DEF JudgeDone
  <1>4. CASE JudgeUnfinished
    <2>1. root' \in RootStates /\ root'.pc = root.pc /\ retired' \in BOOLEAN
      BY <1>1, <1>4 DEF RootStates, JudgeUnfinished, TypeOK
    <2> QED BY <1>4, <2>1, RootStep DEF JudgeUnfinished
  <1>5. CASE JudgeRefused
    <2>1. root' \in RootStates /\ root'.pc = "refused" /\ retired' \in BOOLEAN
      BY <1>1, <1>5 DEF RootStates, JudgeRefused, TypeOK
    <2> QED BY <1>5, <2>1, RootStep DEF JudgeRefused
  <1>6. CASE Retire
    <2>1. root' = root /\ retired' \in BOOLEAN
      BY <1>6 DEF Retire
    <2>2. root.pc = "done" => cancelled \/ "limit" \in Events \/ WirePhase = "terminal"
      BY <1>1 DEF Server, Rooted
    <2> QED BY <1>1, <1>6, <2>1, <2>2, RootStep DEF Retire
  <1> QED BY <1>2, <1>3, <1>4, <1>5, <1>6

\* While one goroutine is inside, or none, and has no frame under way, the loop
\* has nothing to do and the wire has every numbered frame.
LEMMA Quiet ==
  ASSUME IInv, ~cancelled, NEW p \in Processes, emitter.mu \in {None, p},
         call[p].pc # "queue", call[p].pc = "ack" => call[p].ack # "none"
  PROVE  /\ \A q \in Processes : Inside(q) => q = p
         /\ loop.queue = None /\ loop.pc = "select" /\ loop.sender = NoFrame
         /\ emitter.sequence = OnWire /\ emitter.phase = WirePhase
  <1>1. TypeOK /\ Server /\ Flowing /\ Handled
    BY DEF IInv, Server
  <1>2. \A q \in Processes : Inside(q) => q = p
    BY <1>1, OneInside
  <1>3. ASSUME NEW q \in Processes PROVE ~(call[q].pc = "ack" /\ call[q].ack = "none")
    BY <1>2 DEF Inside
  <1>4. loop.pc \notin {"hand", "wait"}
    BY <1>1, <1>3 DEF Flowing, Handled
  <1>5. loop.pc = "select"
    BY <1>1, <1>4 DEF Handled, Ended, TypeOK, LoopStates
  <1>6. loop.queue = None
    BY <1>1, <1>3 DEF Flowing, TypeOK, LoopStates
  <1>7. loop.sender = NoFrame
    BY <1>1, <1>5 DEF Handled
  <1>8. \A q \in Processes : ~Pending(q)
    BY <1>2 DEF Pending, Inside
  <1>9. emitter.sequence = OnWire /\ emitter.phase = WirePhase
    BY <1>1, <1>8 DEF Flowing
  <1> QED BY <1>2, <1>5, <1>6, <1>7, <1>9

\* The mutex is taken, or the next frame of the same emission is due.
LEMMA ToSend ==
  ASSUME IInv, NEW p \in Processes, NEW record \in CallStates, SetCall(p, record),
         record.pc = "send", record.left >= 1, record.op = call[p].op,
         emitter.mu \in {None, p}, call[p].pc \notin {"idle", "queue"},
         call[p].pc = "ack" => call[p].ack # "none",
         emitter' \in EmitterStates, emitter'.mu = p, emitter'.sequence = emitter.sequence,
         emitter'.phase = emitter.phase, emitter'.terminal = emitter.terminal,
         emitter'.acked <= OnWire,
         UNCHANGED <<mode, root, retired, cancelled, broken, loop, wire, host>>
  PROVE  IInv'
  <1>1. TypeOK /\ Deadline /\ Chain /\ Server
    BY DEF IInv
  <1>2. /\ call' \in [Processes -> CallStates]
        /\ call'[p] = record
        /\ \A q \in Processes : q # p => call'[q] = call[q]
    BY <1>1, SetCallFacts
  <1>3. Deadline' /\ Chain' /\ OnWire' = OnWire /\ WirePhase' = WirePhase
    BY <1>1, ServerFrame
  <1>4. TypeOK'
    BY <1>1, <1>2 DEF TypeOK
  <1>5. ASSUME NEW q \in Processes PROVE Emission(q)'
    <2>1. CASE q = p
      BY <1>2, <2>1 DEF Emission, Inside
    <2>2. CASE q # p
      <3>1. Emission(q) /\ ~Inside(q)
        BY <1>1, <2>2, OneInside DEF Server
      <3> QED BY <1>2, <2>2, <3>1 DEF Emission, Inside
    <2> QED BY <2>1, <2>2
  <1>6. Recorded'
    BY <1>1, <1>3 DEF Server, Recorded
  <1>7. Rooted'
    <2>1. Rooted
      BY <1>1 DEF Server
    <2>2. call'[Root].pc # "idle" <=> call[Root].pc # "idle"
      BY <1>2, ProcessFacts
    <2>3. call'[Root].op = call[Root].op
      BY <1>2, ProcessFacts
    <2> QED BY <1>3, <2>1, <2>2, <2>3 DEF Rooted
  <1>8. Handled'
    <2>1. Handled
      BY <1>1 DEF Server
    <2>2. \A q \in Processes : call'[q].pc \in {"queue", "ack"} => call'[q] = call[q]
      BY <1>2
    <2> QED BY <1>3, <2>1, <2>2 DEF Handled, Ended, Delivered, Terminal
  <1>9. ASSUME ~cancelled PROVE Flowing'
    <2>1. /\ \A q \in Processes : Inside(q) => q = p
          /\ loop.queue = None /\ loop.pc = "select" /\ loop.sender = NoFrame
          /\ emitter.sequence = OnWire /\ emitter.phase = WirePhase
      BY <1>9, Quiet
    <2>2. \A q \in Processes : call'[q].pc \notin {"queue", "ack"}
      BY <1>2, <2>1 DEF Inside
    <2> QED BY <1>3, <2>1, <2>2 DEF Flowing, Pending
  <1> QED BY <1>3, <1>4, <1>5, <1>6, <1>7, <1>8, <1>9 DEF IInv, Server

LEMMA LockHeldStep ==
  ASSUME IInv, NEW p \in Processes, LockHeld(p)
  PROVE  IInv'
  <1> DEFINE r == [call[p] EXCEPT !.pc = "send"]
  <1>1. TypeOK /\ Server /\ Emission(p) /\ Recorded
    BY DEF IInv, Server
  <1>2. call[p].pc = "lock" /\ emitter.mu = None
    BY DEF LockHeld
  <1>3. call[p] \in CallStates /\ call[p].left >= 1
    BY <1>1, <1>2, CallTypes DEF Emission
  <1>4. r \in CallStates /\ r.pc = "send" /\ r.left >= 1 /\ r.op = call[p].op
    BY <1>3 DEF CallStates
  <1>5. SetCall(p, r)
    BY DEF LockHeld
  <1> HIDE DEF r
  <1>6. /\ emitter' \in EmitterStates /\ emitter'.mu = p /\ emitter'.sequence = emitter.sequence
        /\ emitter'.phase = emitter.phase /\ emitter'.terminal = emitter.terminal
        /\ emitter'.acked = emitter.acked
    BY <1>1 DEF LockHeld, TypeOK, EmitterStates
  <1>7. emitter'.acked <= OnWire
    BY <1>1, <1>6 DEF Recorded
  <1> QED BY <1>2, <1>4, <1>5, <1>6, <1>7, ToSend DEF LockHeld

\* An emission is acknowledged: it goes on or leaves.
LEMMA AcknowledgedStep ==
  ASSUME IInv, NEW p \in Processes, Acknowledged(p)
  PROVE  IInv'
  <1> DEFINE left == IF call[p].frame.kind = "begin" THEN call[p].left ELSE call[p].left - 1
  <1>1. TypeOK /\ Server /\ Emission(p) /\ Recorded /\ Rooted
    BY DEF IInv, Server
  <1>2. /\ call[p].pc = "ack" /\ call[p].ack # "none"
        /\ UNCHANGED <<mode, retired, cancelled, broken, loop, wire, host>>
    BY DEF Acknowledged
  <1>3. call[p] \in CallStates /\ call[p].left \in Nat /\ call[p].left >= 1 /\ emitter.mu = p
    BY <1>1, <1>2, CallTypes DEF Emission, Inside
  <1>4. left \in Nat /\ (call[p].frame.kind = "begin" => left > 0)
    BY <1>3
  <1>5. call[p].ack = "ok" => Delivered(call[p].frame)
    BY <1>1, <1>2 DEF Emission
  <1>6. CASE call[p].ack = "ok" /\ left > 0
    <2> DEFINE r == [call[p] EXCEPT !.pc = "send", !.left = left]
    <2>1. SetCall(p, r) /\ root' = root
          /\ emitter' = [emitter EXCEPT !.acked = call[p].frame.sequence]
      BY <1>6 DEF Acknowledged
    <2> HIDE DEF left
    <2>2. r \in CallStates /\ r.pc = "send" /\ r.left >= 1 /\ r.op = call[p].op
      <3>1. call[p] \in CallStates /\ left \in Nat /\ left >= 1
        BY <1>3, <1>4, <1>6
      <3> QED BY <3>1 DEF CallStates
    <2> HIDE DEF r
    <2>3. call[p].frame.sequence \in Nat
      BY <1>1, CallTypes
    <2>4. emitter \in EmitterStates
      BY <1>1 DEF TypeOK
    <2>5. /\ emitter' \in EmitterStates /\ emitter'.mu = p /\ emitter'.sequence = emitter.sequence
          /\ emitter'.phase = emitter.phase /\ emitter'.terminal = emitter.terminal
          /\ emitter'.acked = call[p].frame.sequence
      BY <1>3, <2>1, <2>3, <2>4 DEF EmitterStates
    <2>6. emitter'.acked <= OnWire
      BY <1>5, <1>6, <2>5 DEF Delivered
    <2> QED BY <1>2, <1>3, <2>1, <2>2, <2>5, <2>6, ToSend
  <1>7. CASE ~(call[p].ack = "ok" /\ left > 0)
    <2> DEFINE ok == call[p].ack = "ok"
    <2>1. Leave(p, ok) /\ ok \in BOOLEAN
      BY <1>7 DEF Acknowledged
    <2>2. ok => Earned(p)
      BY <1>1, <1>2, <1>4, <1>7 DEF Emission, Earned
    <2>3. p = Root /\ root.pc = "last" => cancelled \/ WirePhase = "terminal"
      <3>1. CASE ok
        <4>1. Earned(p) /\ Delivered(call[p].frame)
          BY <1>5, <2>2, <3>1
        <4> QED BY <1>1, <4>1 DEF Rooted, Earned, Delivered, Terminal, Kind
      <3>2. CASE ~ok
        <4>1. call[p].ack = "err"
          BY <1>1, <1>2, <3>2, CallTypes
        <4> QED BY <1>1, <1>2, <4>1 DEF Server, Flowing
      <3> QED BY <3>1, <3>2
    <2>4. ~cancelled => call[p].pc # "queue" /\ (call[p].pc = "ack" => call[p].ack # "none")
      BY <1>2
    <2> HIDE DEF ok
    <2> QED BY <1>2, <1>3, <2>1, <2>2, <2>3, <2>4, LeaveStep
  <1> QED BY <1>6, <1>7

\* The next frame is admitted and numbered.
LEMMA SendAdmittedStep ==
  ASSUME IInv, NEW p \in Processes, SendAdmitted(p)
  PROVE  IInv'
  <1> DEFINE kind == NextKind(p)
             frame == [kind |-> kind, sequence |-> emitter.sequence + 1]
             r == [call[p] EXCEPT !.pc = "queue", !.ack = "none", !.frame = frame]
  <1>1. TypeOK /\ Deadline /\ Chain /\ Server /\ Emission(p)
    BY DEF IInv, Server
  <1>2. /\ call[p].pc = "send" /\ ~cancelled /\ Admits(emitter.phase, kind)
        /\ UNCHANGED <<mode, root, retired, cancelled, broken, loop, wire, host>>
    BY DEF SendAdmitted
  <1>3. emitter.mu = p
    BY <1>1, <1>2 DEF Emission, Inside
  <1>4. /\ \A q \in Processes : Inside(q) => q = p
        /\ loop.queue = None /\ loop.pc = "select" /\ loop.sender = NoFrame
        /\ emitter.sequence = OnWire /\ emitter.phase = WirePhase
    BY <1>2, <1>3, Quiet
  <1>5. emitter \in EmitterStates /\ emitter.sequence \in Nat /\ emitter.phase \in Phases
    BY <1>1 DEF TypeOK, EmitterStates
  <1>6. kind \in Kinds /\ kind \in {"begin", Kind(call[p].op)}
    BY <1>1, CallTypes DEF NextKind, Kind, Kinds
  <1>7. After(kind) \in Phases /\ After(kind) # "opening" /\ Advance(emitter.phase, kind) = After(kind)
    BY <1>2, <1>5, <1>6, AdvanceFacts, AdmitsFacts
  <1>8. SetCall(p, r) /\ emitter' = [emitter EXCEPT !.sequence = @ + 1, !.phase = Advance(@, kind)]
    BY DEF SendAdmitted
  <1> HIDE DEF kind
  <1>9. frame \in Frames /\ frame.kind = kind /\ frame.sequence = emitter.sequence + 1
    BY <1>5, <1>6 DEF Frames
  <1> HIDE DEF frame
  <1>10. /\ r \in CallStates /\ r.pc = "queue" /\ r.ack = "none" /\ r.frame = frame
         /\ r.op = call[p].op /\ r.left = call[p].left
    <2>1. call[p] \in CallStates /\ frame \in Frames
      BY <1>1, <1>9, CallTypes
    <2> QED BY <2>1 DEF CallStates
  <1> HIDE DEF r
  <1>11. /\ emitter' \in EmitterStates /\ emitter'.mu = p
         /\ emitter'.sequence = emitter.sequence + 1 /\ emitter'.phase = After(kind)
         /\ emitter'.acked = emitter.acked /\ emitter'.terminal = emitter.terminal
    <2> DEFINE phase == After(kind)
               sequence == emitter.sequence + 1
    <2>1. emitter' = [emitter EXCEPT !.sequence = sequence, !.phase = phase]
      BY <1>7, <1>8
    <2>2. phase \in Phases /\ sequence \in Nat /\ emitter \in EmitterStates
      BY <1>5, <1>7
    <2> HIDE DEF phase, sequence
    <2>3. /\ emitter' \in EmitterStates /\ emitter'.mu = emitter.mu
          /\ emitter'.sequence = sequence /\ emitter'.phase = phase
          /\ emitter'.acked = emitter.acked /\ emitter'.terminal = emitter.terminal
      BY <2>1, <2>2 DEF EmitterStates
    <2> QED BY <1>3, <2>3 DEF phase, sequence
  <1>12. /\ call' \in [Processes -> CallStates]
         /\ call'[p] = r
         /\ \A q \in Processes : q # p => call'[q] = call[q]
    BY <1>1, <1>8, <1>10, SetCallFacts
  <1>13. Deadline' /\ Chain' /\ OnWire' = OnWire /\ WirePhase' = WirePhase
    BY <1>1, <1>2, ServerFrame
  <1>14. TypeOK'
    BY <1>1, <1>2, <1>11, <1>12 DEF TypeOK
  <1>15. ASSUME NEW q \in Processes PROVE Emission(q)'
    <2>1. CASE q = p
      BY <1>1, <1>2, <1>5, <1>6, <1>9, <1>10, <1>11, <1>12, <2>1 DEF Emission, Inside
    <2>2. CASE q # p
      <3>1. Emission(q) /\ ~Inside(q)
        BY <1>1, <1>4, <2>2 DEF Server
      <3> QED BY <1>11, <1>12, <2>2, <3>1 DEF Emission, Inside
    <2> QED BY <2>1, <2>2
  <1>16. Recorded'
    BY <1>1, <1>5, <1>7, <1>11, <1>13 DEF Server, Recorded
  <1>17. Rooted'
    <2>1. Rooted
      BY <1>1 DEF Server
    <2>2. call'[Root].pc # "idle" <=> call[Root].pc # "idle"
      BY <1>2, <1>10, <1>12, ProcessFacts
    <2>3. call'[Root].op = call[Root].op
      BY <1>10, <1>12, ProcessFacts
    <2> QED BY <1>2, <1>5, <1>11, <1>13, <2>1, <2>2, <2>3 DEF Rooted
  <1>18. Handled'
    BY <1>1, <1>2, <1>4 DEF Server, Handled, Ended
  <1>19. Flowing'
    <2>1. \A q \in Processes : Pending(q)' <=> q = p
      BY <1>2, <1>4, <1>10, <1>12 DEF Pending, Inside
    <2>3. \A q \in Processes : call'[q].pc \in {"queue", "ack"} => q = p
      BY <1>4, <1>12 DEF Inside
    <2>4. /\ call'[p].frame.sequence = OnWire' + 1 /\ emitter'.sequence = OnWire' + 1
          /\ Admits(WirePhase', call'[p].frame.kind) /\ emitter'.phase = After(call[p].frame.kind)'
      BY <1>2, <1>4, <1>9, <1>10, <1>11, <1>12, <1>13 DEF After
    <2> QED BY <1>2, <1>4, <1>10, <1>12, <2>1, <2>3, <2>4 DEF Flowing
  <1> QED BY <1>13, <1>14, <1>15, <1>16, <1>17, <1>18, <1>19 DEF IInv, Server

\* The frame is put into the queue of one.
LEMMA EnqueueStep ==
  ASSUME IInv, NEW p \in Processes, Enqueue(p)
  PROVE  IInv'
  <1> DEFINE r == [call[p] EXCEPT !.pc = "ack"]
  <1>1. TypeOK /\ Deadline /\ Chain /\ Server /\ Emission(p) /\ Handled
    BY DEF IInv, Server
  <1>2. /\ call[p].pc = "queue" /\ loop.queue = None /\ SetCall(p, r)
        /\ loop' = [loop EXCEPT !.queue = p]
        /\ UNCHANGED <<mode, emitter, root, retired, cancelled, broken, wire, host>>
    BY DEF Enqueue
  <1>3. /\ r \in CallStates /\ r.pc = "ack" /\ r.ack = call[p].ack /\ r.frame = call[p].frame
        /\ r.op = call[p].op /\ r.left = call[p].left
    <2>1. call[p] \in CallStates
      BY <1>1, CallTypes
    <2> QED BY <2>1 DEF CallStates
  <1> HIDE DEF r
  <1>4. /\ call' \in [Processes -> CallStates]
        /\ call'[p] = r
        /\ \A q \in Processes : q # p => call'[q] = call[q]
    BY <1>1, <1>2, <1>3, SetCallFacts
  <1>5. /\ loop' \in LoopStates /\ loop'.queue = p /\ loop'.pc = loop.pc
        /\ loop'.delivery = loop.delivery /\ loop'.sender = loop.sender /\ loop'.sent = loop.sent
    BY <1>1, <1>2 DEF TypeOK, LoopStates
  <1>6. call[p].ack = "none" /\ Inside(p) /\ emitter.mu = p
    BY <1>1, <1>2 DEF Emission, Inside
  <1>7. Deadline' /\ Chain' /\ OnWire' = OnWire /\ WirePhase' = WirePhase
    BY <1>1, <1>2, ServerFrame
  <1>8. TypeOK'
    BY <1>1, <1>2, <1>4, <1>5 DEF TypeOK
  <1>9. ASSUME NEW q \in Processes PROVE Emission(q)'
    <2>1. CASE q = p
      BY <1>1, <1>2, <1>3, <1>4, <1>6, <2>1 DEF Emission, Inside
    <2>2. CASE q # p
      BY <1>1, <1>2, <1>4, <1>7, <2>2 DEF Server, Emission, Inside, Delivered, Terminal
    <2> QED BY <2>1, <2>2
  <1>10. Recorded'
    BY <1>1, <1>2, <1>7 DEF Server, Recorded
  <1>11. Rooted'
    <2>1. Rooted
      BY <1>1 DEF Server
    <2>2. call'[Root].pc # "idle" <=> call[Root].pc # "idle"
      BY <1>2, <1>3, <1>4, ProcessFacts
    <2>3. call'[Root].op = call[Root].op
      BY <1>3, <1>4, ProcessFacts
    <2> QED BY <1>2, <1>7, <2>1, <2>2, <2>3 DEF Rooted
  <1>12. loop.pc \in {"hand", "wait"} => loop.delivery \in Processes /\ loop.delivery # p
    BY <1>1, <1>2 DEF Handled
  <1>13. Handled'
    <2>1. loop.pc \in {"hand", "wait"} => call'[loop.delivery] = call[loop.delivery]
      BY <1>4, <1>12
    <2>2. loop'.queue \in Processes /\ call'[loop'.queue].pc # "queue"
      BY <1>3, <1>4, <1>5
    <2> QED BY <1>1, <1>2, <1>5, <1>7, <2>1, <2>2 DEF Handled, Ended, Delivered, Terminal
  <1>14. ASSUME ~cancelled PROVE Flowing'
    <2>1. Flowing
      BY <1>1, <1>14 DEF Server
    <2>2. \A q \in Processes : Inside(q) => q = p
      BY <1>1, <1>6, OneInside
    <2>3. loop.pc = "select" /\ loop.sender = NoFrame
      <3>1. loop.pc \notin {"hand", "wait"}
        BY <1>12, <2>1, <2>2 DEF Flowing, Inside
      <3> QED BY <1>1, <1>14, <3>1 DEF Handled, Ended, TypeOK, LoopStates
    <2>4. \A q \in Processes : Pending(q)' <=> q = p
      BY <1>3, <1>4, <1>5, <1>6, <2>2, <2>3 DEF Pending, Inside
    <2>5. \A q \in Processes : call'[q].pc \in {"queue", "ack"} => q = p
      BY <1>4, <2>2 DEF Inside
    <2>6. Pending(p)
      BY <1>2, <1>6, <2>3 DEF Pending
    <2>7. /\ call'[p].frame.sequence = OnWire' + 1 /\ emitter'.sequence = OnWire' + 1
          /\ Admits(WirePhase', call'[p].frame.kind) /\ emitter'.phase = After(call[p].frame.kind)'
      BY <1>2, <1>3, <1>4, <1>7, <2>1, <2>6 DEF Flowing, After
    <2> QED BY <1>2, <1>3, <1>4, <1>5, <1>6, <2>3, <2>4, <2>5, <2>7 DEF Flowing
  <1> QED BY <1>2, <1>7, <1>8, <1>9, <1>10, <1>11, <1>13, <1>14 DEF IInv, Server

-----------------------------------------------------------------------------
(* The handler's loop.                                                     *)

\* Only the loop moves.
LEMMA LoopStep ==
  ASSUME IInv, loop' \in LoopStates, Handled', ~cancelled => Flowing',
         UNCHANGED <<mode, emitter, call, root, retired, cancelled, broken, wire, host>>
  PROVE  IInv'
  <1>1. TypeOK /\ Deadline /\ Chain /\ Server
    BY DEF IInv
  <1>2. Deadline' /\ Chain' /\ OnWire' = OnWire /\ WirePhase' = WirePhase
    BY <1>1, ServerFrame
  <1>3. TypeOK'
    BY <1>1 DEF TypeOK
  <1>4. ASSUME NEW q \in Processes PROVE Emission(q)'
    BY <1>1, <1>2 DEF Server, Emission, Inside, Delivered, Terminal
  <1>5. Recorded' /\ Rooted'
    BY <1>1, <1>2 DEF Server, Recorded, Rooted
  <1> QED BY <1>2, <1>3, <1>4, <1>5 DEF IInv, Server

LEMMA LoopTakesStep ==
  ASSUME IInv, LoopTakes
  PROVE  IInv'
  <1>1. TypeOK /\ Deadline /\ Chain /\ Server /\ Handled
    BY DEF IInv, Server
  <1>2. /\ loop.pc = "select" /\ loop.queue # None
        /\ loop' = [loop EXCEPT !.pc = "hand", !.delivery = loop.queue, !.queue = None]
        /\ UNCHANGED <<mode, emitter, call, root, retired, cancelled, broken, wire, host>>
    BY DEF LoopTakes
  <1>3. loop \in LoopStates /\ loop.queue \in Processes
    BY <1>1, <1>2 DEF TypeOK, LoopStates
  <1>4. /\ loop' \in LoopStates /\ loop'.pc = "hand" /\ loop'.delivery = loop.queue
        /\ loop'.queue = None /\ loop'.sender = loop.sender /\ loop'.sent = loop.sent
    BY <1>2, <1>3 DEF LoopStates
  <1>5. OnWire' = OnWire /\ WirePhase' = WirePhase
    BY <1>1, <1>2, ServerFrame
  <1>6. Handled'
    BY <1>1, <1>2, <1>3, <1>4, <1>5 DEF Handled, Ended
  <1>7. ASSUME ~cancelled PROVE Flowing'
    <2>1. Flowing
      BY <1>1, <1>7 DEF Server
    <2>2. loop.sender = NoFrame
      BY <1>1, <1>2 DEF Handled
    <2>3. \A q \in Processes : Pending(q)' <=> Pending(q)
      BY <1>2, <1>4 DEF Pending
    <2> QED BY <1>2, <1>4, <1>5, <2>1, <2>2, <2>3 DEF Flowing, After
  <1> QED BY <1>2, <1>4, <1>6, <1>7, LoopStep

LEMMA LoopHandsStep ==
  ASSUME IInv, LoopHands
  PROVE  IInv'
  <1> DEFINE frame == call[loop.delivery].frame
  <1>1. TypeOK /\ Deadline /\ Chain /\ Server /\ Handled
    BY DEF IInv, Server
  <1>2. /\ loop.pc = "hand" /\ loop.sender = NoFrame
        /\ loop' = [loop EXCEPT !.pc = "wait", !.sender = frame]
        /\ UNCHANGED <<mode, emitter, call, root, retired, cancelled, broken, wire, host>>
    BY DEF LoopHands
  <1>3. loop \in LoopStates /\ loop.delivery \in Processes /\ loop.sent = "none"
    BY <1>1, <1>2 DEF TypeOK, Handled
  <1>4. frame \in Frames
    BY <1>1, <1>3, CallTypes
  <1> HIDE DEF frame
  <1>5. /\ loop' \in LoopStates /\ loop'.pc = "wait" /\ loop'.delivery = loop.delivery
        /\ loop'.queue = loop.queue /\ loop'.sender = frame /\ loop'.sent = loop.sent
    BY <1>2, <1>3, <1>4 DEF LoopStates
  <1>6. OnWire' = OnWire /\ WirePhase' = WirePhase
    BY <1>1, <1>2, ServerFrame
  <1>7. Handled'
    BY <1>1, <1>2, <1>3, <1>5, <1>6 DEF Handled, Ended
  <1>8. ASSUME ~cancelled PROVE Flowing'
    <2>1. Flowing
      BY <1>1, <1>8 DEF Server
    <2>2. loop.queue = None
      BY <1>2, <2>1 DEF Flowing
    <2>3. \A q \in Processes : Pending(q)' <=> Pending(q)
      BY <1>2, <1>3, <1>5 DEF Pending
    <2>4. frame = call'[loop'.delivery].frame
      BY <1>2, <1>5 DEF frame
    <2> QED BY <1>2, <1>5, <1>6, <2>1, <2>2, <2>3, <2>4 DEF Flowing, After
  <1> QED BY <1>2, <1>5, <1>7, <1>8, LoopStep

LEMMA SendFailsStep ==
  ASSUME IInv, SendFails
  PROVE  IInv'
  <1>1. TypeOK /\ Deadline /\ Chain /\ Server /\ Handled
    BY DEF IInv, Server
  <1>2. /\ loop.sender # NoFrame /\ cancelled
        /\ loop' = [loop EXCEPT !.sender = NoFrame, !.sent = "err"]
        /\ UNCHANGED <<mode, emitter, call, root, retired, cancelled, broken, wire, host>>
    BY <1>1 DEF SendFails, Handled, Ended
  <1>3. loop \in LoopStates
    BY <1>1 DEF TypeOK
  <1>4. /\ loop' \in LoopStates /\ loop'.pc = loop.pc /\ loop'.delivery = loop.delivery
        /\ loop'.queue = loop.queue /\ loop'.sender = NoFrame /\ loop'.sent = "err"
    BY <1>2, <1>3, NoCallFacts DEF LoopStates
  <1>5. OnWire' = OnWire /\ WirePhase' = WirePhase
    BY <1>1, <1>2, ServerFrame
  <1>6. Handled'
    BY <1>1, <1>2, <1>4, <1>5 DEF Handled, Ended
  <1> QED BY <1>2, <1>4, <1>6, LoopStep

\* An acknowledgement changes nothing else of an emission.
LEMMA SetAckFacts ==
  ASSUME TypeOK, NEW p \in Processes, NEW ack \in {"none", "ok", "err"}, SetAck(p, ack)
  PROVE  /\ call' \in [Processes -> CallStates]
         /\ \A q \in Processes :
              /\ call'[q].pc = call[q].pc /\ call'[q].op = call[q].op
              /\ call'[q].left = call[q].left /\ call'[q].frame = call[q].frame
              /\ q # p => call'[q] = call[q]
         /\ call'[p].ack = ack
  <1> DEFINE r == [call[p] EXCEPT !.ack = ack]
  <1>1. SetCall(p, r)
    BY DEF SetAck
  <1>2. call[p] \in CallStates
    BY CallTypes
  <1>3. /\ r \in CallStates /\ r.pc = call[p].pc /\ r.op = call[p].op /\ r.left = call[p].left
        /\ r.frame = call[p].frame /\ r.ack = ack
    BY <1>2 DEF CallStates
  <1> HIDE DEF r
  <1>4. /\ call' \in [Processes -> CallStates]
        /\ call'[p] = r
        /\ \A q \in Processes : q # p => call'[q] = call[q]
    BY <1>1, <1>3, SetCallFacts
  <1> QED BY <1>3, <1>4

\* The context ends, with the handler or with the stream; the emission that
\* waited may be told.
LEMMA EndStep ==
  ASSUME IInv, cancelled' = TRUE, broken' \in BOOLEAN, broken => broken', loop' \in LoopStates,
         loop'.queue = loop.queue, loop'.delivery = loop.delivery,
         loop'.sender = loop.sender, loop'.sent = loop.sent,
         \/ loop'.pc \in {"ok", "error"}
         \/ broken' /\ loop'.pc = loop.pc,
         loop'.pc = "ok" /\ ~broken' => "limit" \in Events \/ WirePhase = "terminal",
         call' \in [Processes -> CallStates],
         \A q \in Processes :
           /\ call'[q].pc = call[q].pc /\ call'[q].op = call[q].op
           /\ call'[q].left = call[q].left /\ call'[q].frame = call[q].frame
           /\ call[q].pc = "queue" => call'[q].ack = call[q].ack
           /\ call[q].pc = "ack" /\ call'[q].ack = "ok" => Delivered(call[q].frame),
         UNCHANGED <<mode, emitter, root, retired, wire, host>>
  PROVE  IInv'
  <1>1. TypeOK /\ Deadline /\ Chain /\ Server
    BY DEF IInv
  <1>2. Deadline' /\ Chain' /\ OnWire' = OnWire /\ WirePhase' = WirePhase
    BY <1>1, ServerFrame
  <1>3. TypeOK'
    BY <1>1 DEF TypeOK
  <1>4. ASSUME NEW q \in Processes PROVE Emission(q)'
    BY <1>1, <1>2 DEF Server, Emission, Inside, Delivered, Terminal
  <1>5. Recorded'
    BY <1>1, <1>2 DEF Server, Recorded
  <1>6. Rooted'
    BY <1>1, <1>2, ProcessFacts DEF Server, Rooted
  <1>7. Handled'
    <2>1. Handled
      BY <1>1 DEF Server
    <2>2. loop.queue # None => loop.queue \in Processes
      BY <1>1 DEF TypeOK, LoopStates
    <2>3. cancelled' <=> broken' \/ Ended'
      BY DEF Ended
    <2>4. loop'.pc \in {"select", "hand", "wait"} => loop'.pc = loop.pc
      OBVIOUS
    <2>5. loop'.pc \in {"hand", "wait"} =>
            loop'.delivery \in Processes /\ call'[loop'.delivery].pc # "queue"
      BY <2>1, <2>4 DEF Handled
    <2>6. loop'.queue # None => loop'.queue \in Processes /\ call'[loop'.queue].pc # "queue"
      BY <2>1, <2>2 DEF Handled
    <2>7. loop'.pc = "wait" /\ loop'.sent = "ok" /\ call'[loop'.delivery].pc = "ack" =>
            Delivered(call[loop.delivery].frame) /\ call'[loop'.delivery].frame = call[loop.delivery].frame
      BY <2>1, <2>4 DEF Handled
    <2> QED BY <1>2, <2>1, <2>3, <2>4, <2>5, <2>6, <2>7 DEF Handled, Delivered, Terminal
  <1> QED BY <1>2, <1>3, <1>4, <1>5, <1>6, <1>7 DEF IInv, Server

\* The handler returns, or the stream breaks, and the waiting emission is
\* refused or left alone.
LEMMA BreakStep ==
  ASSUME IInv, LoopStalls \/ LoopBreaks \/ LoopDone \/ StreamBreaks
  PROVE  IInv'
  <1>1. TypeOK /\ Server /\ Handled /\ Rooted /\ loop \in LoopStates
    BY DEF IInv, Server, TypeOK
  <1>2. /\ cancelled' = TRUE
        /\ UNCHANGED <<mode, emitter, root, retired, wire, host>>
    BY DEF LoopStalls, LoopBreaks, LoopDone, StreamBreaks, HandlerReturns
  <1>3. broken' \in BOOLEAN /\ (broken => broken')
    BY <1>1 DEF LoopStalls, LoopBreaks, LoopDone, StreamBreaks, TypeOK
  <1>4. /\ loop' \in LoopStates
        /\ loop'.queue = loop.queue /\ loop'.delivery = loop.delivery
        /\ loop'.sender = loop.sender /\ loop'.sent = loop.sent
        /\ \/ loop'.pc = "error" /\ ~StreamBreaks
           \/ loop'.pc = "ok" /\ LoopDone /\ root.pc = "done"
           \/ broken' /\ loop'.pc = loop.pc /\ StreamBreaks
    <2>1. CASE LoopStalls
      BY <1>1, <2>1 DEF LoopStalls, LoopStates, StreamBreaks
    <2>2. CASE LoopBreaks
      BY <1>1, <2>2 DEF LoopBreaks, HandlerReturns, LoopStates, StreamBreaks
    <2>3. CASE LoopDone
      <3>1. CASE root.pc = "done"
        BY <1>1, <2>3, <3>1 DEF LoopDone, HandlerReturns, LoopStates
      <3>2. CASE root.pc # "done"
        <4>1. loop' = [loop EXCEPT !.pc = "error"]
          BY <2>3, <3>2 DEF LoopDone, HandlerReturns
        <4>2. loop'.pc = "error" /\ loop.pc = "select"
          BY <1>1, <2>3, <4>1 DEF LoopDone, LoopStates
        <4>3. ~StreamBreaks
          BY <4>2 DEF StreamBreaks
        <4> QED BY <1>1, <4>1, <4>3 DEF LoopStates
      <3> QED BY <3>1, <3>2
    <2>4. CASE StreamBreaks
      BY <1>1, <2>4 DEF StreamBreaks
    <2> QED BY <2>1, <2>2, <2>3, <2>4
  <1>5. ASSUME loop'.pc = "ok", ~broken' PROVE "limit" \in Events \/ WirePhase = "terminal"
    <2>1. CASE LoopDone /\ root.pc = "done"
      BY <1>1, <1>5, <2>1 DEF LoopDone, Handled, Rooted, Ended
    <2>2. CASE StreamBreaks
      BY <1>5, <2>2 DEF StreamBreaks
    <2> QED BY <1>4, <1>5, <2>1, <2>2
  <1>6. /\ call' \in [Processes -> CallStates]
        /\ \A q \in Processes :
             /\ call'[q].pc = call[q].pc /\ call'[q].op = call[q].op
             /\ call'[q].left = call[q].left /\ call'[q].frame = call[q].frame
             /\ call[q].pc = "queue" => call'[q].ack = call[q].ack
             /\ call[q].pc = "ack" /\ call'[q].ack = "ok" => Delivered(call[q].frame)
    <2>1. CASE loop.pc = "wait" /\ SetAck(loop.delivery, "err")
      <3>1. loop.delivery \in Processes /\ call[loop.delivery].pc # "queue"
        BY <1>1, <2>1 DEF Handled
      <3>2. /\ call' \in [Processes -> CallStates]
            /\ \A q \in Processes :
                 /\ call'[q].pc = call[q].pc /\ call'[q].op = call[q].op
                 /\ call'[q].left = call[q].left /\ call'[q].frame = call[q].frame
                 /\ q # loop.delivery => call'[q] = call[q]
            /\ call'[loop.delivery].ack = "err"
        BY <1>1, <2>1, <3>1, SetAckFacts
      <3>3. \A q \in Processes : Emission(q)
        BY <1>1 DEF Server
      <3> QED BY <3>1, <3>2, <3>3 DEF Emission
    <2>2. CASE UNCHANGED call
      BY <1>1, <2>2 DEF Server, Emission, TypeOK
    <2> QED BY <2>1, <2>2 DEF LoopStalls, LoopBreaks, LoopDone, StreamBreaks
  <1>7. \/ loop'.pc \in {"ok", "error"}
        \/ broken' /\ loop'.pc = loop.pc
    BY <1>4
  <1> QED BY <1>2, <1>3, <1>4, <1>5, <1>6, <1>7, EndStep

\* The sender reports; the emission is told, and the session goes on or ends.
LEMMA LoopSentStep ==
  ASSUME IInv, LoopSent
  PROVE  IInv'
  <1> DEFINE d == loop.delivery
  <1>1. TypeOK /\ Deadline /\ Chain /\ Server /\ Handled /\ loop \in LoopStates
    BY DEF IInv, Server, TypeOK
  <1>2. /\ loop.pc = "wait" /\ loop.sent \in {"ok", "err"} /\ SetAck(d, loop.sent)
        /\ UNCHANGED <<mode, emitter, root, retired, broken, wire, host>>
    BY <1>1 DEF LoopSent, LoopStates
  <1>3. d \in Processes /\ call[d].pc # "queue"
    BY <1>1, <1>2 DEF Handled
  <1>4. /\ call' \in [Processes -> CallStates]
        /\ \A q \in Processes :
             /\ call'[q].pc = call[q].pc /\ call'[q].op = call[q].op
             /\ call'[q].left = call[q].left /\ call'[q].frame = call[q].frame
             /\ q # d => call'[q] = call[q]
        /\ call'[d].ack = loop.sent
    BY <1>1, <1>2, <1>3, SetAckFacts
  <1>5. call[d].pc = "ack" /\ loop.sent = "ok" => Delivered(call[d].frame)
    BY <1>1, <1>2 DEF Handled
  <1>6. \A q \in Processes :
          /\ call[q].pc = "queue" => call'[q].ack = call[q].ack
          /\ call[q].pc = "ack" /\ call'[q].ack = "ok" => Delivered(call[q].frame)
    BY <1>1, <1>3, <1>4, <1>5 DEF Server, Emission
  <1>7. OnWire' = OnWire /\ WirePhase' = WirePhase /\ Deadline' /\ Chain'
    BY <1>1, <1>2, ServerFrame
  <1>8. CASE loop.sent = "ok" /\ ~Terminal(call[d].frame.kind)
    <2>1. /\ loop' = [loop EXCEPT !.pc = "select", !.delivery = None, !.sent = "none"]
          /\ cancelled' = cancelled
      BY <1>8 DEF LoopSent
    <2>2. /\ loop' \in LoopStates /\ loop'.pc = "select" /\ loop'.delivery = None
          /\ loop'.sent = "none" /\ loop'.queue = loop.queue /\ loop'.sender = loop.sender
      BY <1>1, <2>1 DEF LoopStates
    <2>3. TypeOK'
      BY <1>1, <1>2, <1>4, <2>1, <2>2 DEF TypeOK
    <2>4. ASSUME NEW q \in Processes PROVE Emission(q)'
      BY <1>1, <1>2, <1>4, <1>6, <1>7 DEF Server, Emission, Inside, Delivered, Terminal
    <2>5. Recorded' /\ Rooted'
      BY <1>1, <1>2, <1>4, <1>7, <2>1, ProcessFacts DEF Server, Recorded, Rooted
    <2>6. loop.sender = NoFrame
      BY <1>1, <1>2 DEF Handled
    <2>7. Handled'
      BY <1>1, <1>2, <1>4, <1>7, <2>1, <2>2, <2>6 DEF Handled, Ended
    <2>8. ASSUME ~cancelled PROVE Flowing'
      <3>1. Flowing
        BY <1>1, <2>8 DEF Server
      <3>2. loop.queue = None /\ call[d].pc = "ack"
        BY <1>2, <3>1 DEF Flowing
      <3>3. \A q \in Processes : Inside(q) => q = d
        <4>1. emitter.mu = d
          BY <1>1, <1>3, <3>2 DEF Server, Emission, Inside
        <4> QED BY <1>1, <1>3, <4>1, OneInside
      <3>4. \A q \in Processes : ~Pending(q) /\ ~Pending(q)'
        BY <1>2, <1>4, <1>8, <3>3 DEF Pending, Inside
      <3>5. \A q \in Processes : call'[q].pc \in {"queue", "ack"} => call'[q].ack = "ok"
        BY <1>4, <1>8, <3>3 DEF Inside
      <3>6. emitter'.sequence = OnWire' /\ emitter'.phase = WirePhase'
        BY <1>2, <1>7, <3>1, <3>4 DEF Flowing
      <3> QED BY <2>2, <2>6, <3>2, <3>4, <3>5, <3>6 DEF Flowing
    <2> QED BY <1>7, <2>1, <2>3, <2>4, <2>5, <2>7, <2>8 DEF IInv, Server
  <1>9. CASE ~(loop.sent = "ok" /\ ~Terminal(call[d].frame.kind))
    <2> DEFINE pc == IF loop.sent = "ok" THEN "ok" ELSE "error"
    <2>1. loop' = [loop EXCEPT !.pc = pc] /\ cancelled' = TRUE
      BY <1>9 DEF LoopSent, HandlerReturns
    <2>2. /\ loop' \in LoopStates /\ loop'.pc = pc
          /\ loop'.queue = loop.queue /\ loop'.delivery = loop.delivery
          /\ loop'.sender = loop.sender /\ loop'.sent = loop.sent
      BY <1>1, <2>1 DEF LoopStates
    <2>3. ASSUME pc = "ok", ~broken PROVE WirePhase = "terminal"
      <3>1. loop.sent = "ok" /\ Terminal(call[d].frame.kind) /\ ~cancelled
        BY <1>1, <1>2, <1>9, <2>3 DEF Handled, Ended
      <3>2. call[d].pc = "ack"
        BY <1>1, <1>2, <3>1 DEF Server, Flowing
      <3> QED BY <1>5, <3>1, <3>2 DEF Delivered
    <2>4. broken' \in BOOLEAN /\ broken' = broken
      BY <1>1, <1>2 DEF TypeOK
    <2>5. pc \in {"ok", "error"}
      OBVIOUS
    <2> HIDE DEF pc
    <2> QED BY <1>2, <1>4, <1>6, <2>1, <2>2, <2>3, <2>4, <2>5, EndStep
  <1> QED BY <1>8, <1>9

-----------------------------------------------------------------------------
(* The transport and the host.                                             *)

\* The transport takes the one frame that is pending.
LEMMA SendsStep ==
  ASSUME IInv, Sends
  PROVE  IInv'
  <1> DEFINE d == loop.delivery
             f == loop.sender
  <1>1. TypeOK /\ Deadline /\ Chain /\ Server /\ Handled
    BY DEF IInv, Server
  <1>2. /\ f # NoFrame /\ ~broken /\ loop.pc \notin {"ok", "error"}
        /\ wire' = Append(wire, f)
        /\ loop' = [loop EXCEPT !.sender = NoFrame, !.sent = "ok"]
        /\ UNCHANGED <<mode, emitter, call, root, retired, cancelled, broken, host>>
    BY DEF Sends
  <1>3. loop \in LoopStates /\ f \in Frames /\ wire \in Seq(Frames) /\ host \in HostStates
    BY <1>1 DEF TypeOK, LoopStates
  <1>4. ~cancelled /\ loop.pc = "wait" /\ loop.sent = "none" /\ d \in Processes
    BY <1>1, <1>2, <1>3 DEF Handled, Ended, LoopStates
  <1>5. Flowing
    BY <1>1, <1>4 DEF Server
  <1>6. call[d].pc = "ack" /\ call[d].ack = "none" /\ f = call[d].frame /\ loop.queue = None
    BY <1>2, <1>4, <1>5 DEF Flowing
  <1>7. /\ f.sequence = OnWire + 1 /\ emitter.sequence = OnWire + 1
        /\ Admits(WirePhase, f.kind) /\ emitter.phase = After(f.kind)
    <2>1. Pending(d)
      BY <1>4, <1>6 DEF Pending
    <2> QED BY <1>4, <1>5, <1>6, <2>1 DEF Flowing
  <1>8. f.kind \in Kinds /\ f.sequence \in Nat
    BY <1>3 DEF Frames
  <1>9. /\ loop' \in LoopStates /\ loop'.pc = "wait" /\ loop'.delivery = d /\ loop'.queue = None
        /\ loop'.sender = NoFrame /\ loop'.sent = "ok"
    <2>1. NoFrame \in Frames
      BY NoCallFacts
    <2> QED BY <1>2, <1>3, <1>4, <1>6, <2>1 DEF LoopStates
  <1> HIDE DEF f, d
  <1>10. /\ wire' \in Seq(Frames) /\ Len(wire') = Len(wire) + 1 /\ Len(wire) \in Nat
         /\ wire'[Len(wire) + 1] = f /\ wire' # << >>
         /\ \A i \in 1 .. Len(wire) : wire'[i] = wire[i]
    BY <1>2, <1>3
  <1>11. host.sequence \in Nat /\ OnWire \in Nat /\ WirePhase \in Phases
    BY <1>1, <1>3, PositionTypes DEF HostStates
  <1>12. OnWire' = OnWire + 1 /\ WirePhase' = After(f.kind)
    <2>1. OnWire' = OnWire + 1
      <3>1. /\ Len(wire') = Len(wire) + 1 /\ Len(wire) \in Nat
            /\ host' = host /\ host.sequence \in Nat
        BY <1>2, <1>10, <1>11
      <3> QED BY <3>1 DEF OnWire
    <2>2. WirePhase' = After(f.kind)
      BY <1>2, <1>10 DEF WirePhase, After
    <2> QED BY <2>1, <2>2
  <1>13. WirePhase # "terminal" /\ (WirePhase' = "terminal" <=> Terminal(f.kind))
    BY <1>7, <1>8, <1>11, <1>12, AdmitsFacts
  <1>14. Chain'
    <2>1. DOMAIN wire = 1 .. Len(wire) /\ DOMAIN wire' = 1 .. Len(wire) + 1
      BY <1>3, <1>10
    <2>2. ASSUME NEW i \in DOMAIN wire' PROVE wire'[i].sequence = host'.sequence + i
      <3>1. CASE i = Len(wire) + 1
        BY <1>2, <1>7, <1>10, <1>11, <3>1 DEF OnWire
      <3>2. CASE i \in 1 .. Len(wire)
        BY <1>1, <1>2, <1>10, <2>1, <3>2 DEF Chain
      <3> QED BY <1>10, <2>1, <3>1, <3>2
    <2>3. Admits(host'.phase, wire'[1].kind)
      <3>1. CASE wire = << >>
        <4>1. wire'[1] = f /\ WirePhase = host.phase
          BY <1>10, <3>1 DEF WirePhase
        <4> QED BY <1>2, <1>7, <4>1
      <3>2. CASE wire # << >>
        <4>1. 1 \in 1 .. Len(wire)
          BY <1>3, <3>2
        <4> QED BY <1>1, <1>2, <1>10, <3>2, <4>1 DEF Chain
      <3> QED BY <3>1, <3>2
    <2>4. ASSUME NEW i \in DOMAIN wire', i + 1 \in DOMAIN wire'
          PROVE  Admits(After(wire'[i].kind), wire'[i + 1].kind)
      <3>1. i \in 1 .. Len(wire) /\ wire'[i] = wire[i]
        BY <1>10, <2>1, <2>4
      <3>2. CASE i = Len(wire)
        <4>1. wire # << >> /\ WirePhase = After(wire[i].kind)
          BY <1>3, <3>1, <3>2 DEF WirePhase
        <4>2. wire'[i + 1] = f
          BY <1>10, <3>2
        <4> QED BY <1>7, <3>1, <4>1, <4>2
      <3>3. CASE i # Len(wire)
        <4>1. i + 1 \in 1 .. Len(wire)
          BY <1>10, <3>1, <3>3
        <4> QED BY <1>1, <1>10, <2>1, <3>1, <4>1 DEF Chain
      <3> QED BY <3>2, <3>3
    <2>5. ASSUME NEW i \in DOMAIN wire', i + 1 \in DOMAIN wire'
          PROVE  Admits(After(wire[i].kind), wire[i + 1].kind)'
      <3>1. Admits(After(wire'[i].kind), wire'[i + 1].kind)
        BY <2>4, <2>5
      <3> QED BY <1>2, <3>1 DEF After, Admits
    <2> QED BY <2>2, <2>3, <2>5 DEF Chain
  <1>15. Deadline'
    BY <1>1, <1>2 DEF Deadline
  <1>16. TypeOK'
    BY <1>1, <1>2, <1>9, <1>10 DEF TypeOK
  <1>17. ASSUME NEW q \in Processes PROVE Emission(q)'
    <2>1. Emission(q) /\ call[q].frame.sequence \in Nat
      BY <1>1, CallTypes DEF Server
    <2> QED BY <1>2, <1>11, <1>12, <1>13, <2>1 DEF Emission, Inside, Delivered, Terminal
  <1>18. Recorded'
    <2>1. Recorded /\ emitter.acked \in Nat
      BY <1>1 DEF Server, TypeOK, EmitterStates
    <2> QED BY <1>2, <1>11, <1>12, <1>13, <2>1 DEF Recorded
  <1>19. Rooted'
    BY <1>1, <1>2, <1>13 DEF Server, Rooted
  <1>20. Handled'
    <2>1. call[d].frame.sequence <= OnWire' /\ (Terminal(call[d].frame.kind) => WirePhase' = "terminal")
      BY <1>6, <1>7, <1>11, <1>12, <1>13 DEF d, f
    <2>2. Delivered(call[loop.delivery].frame)'
      BY <1>2, <1>9, <2>1 DEF Delivered, Terminal
    <2> QED BY <1>1, <1>2, <1>4, <1>9, <2>2 DEF Handled, Ended, d
  <1>21. Flowing'
    <2>1. \A q \in Processes : ~Pending(q)'
      BY <1>9 DEF Pending
    <2>2. call'[d].pc = "ack" /\ call'[d].ack = "none"
      BY <1>2, <1>6 DEF d
    <2>3. emitter'.sequence = OnWire' /\ emitter'.phase = WirePhase'
      BY <1>2, <1>7, <1>12
    <2>4. \A q \in Processes : call'[q].pc \in {"queue", "ack"} => call'[q].ack # "err"
      BY <1>2, <1>5 DEF Flowing
    <2> QED BY <1>2, <1>9, <2>1, <2>2, <2>3, <2>4 DEF Flowing
  <1> QED BY <1>2, <1>14, <1>15, <1>16, <1>17, <1>18, <1>19, <1>20, <1>21 DEF IInv, Server

\* A step of the host leaves the server's part alone when it leaves the
\* transport's position and phase alone.
LEMMA HostFrame ==
  ASSUME Server, UNCHANGED server, OnWire' = OnWire, WirePhase' = WirePhase
  PROVE  Server'
  <1>1. /\ mode' = mode /\ emitter' = emitter /\ call' = call /\ root' = root
        /\ cancelled' = cancelled /\ broken' = broken /\ loop' = loop
    BY DEF server
  <1>2. ASSUME NEW q \in Processes PROVE Emission(q)'
    BY <1>1 DEF Server, Emission, Inside, Delivered, Terminal
  <1>3. Recorded' /\ Rooted' /\ Handled'
    BY <1>1 DEF Server, Recorded, Rooted, Handled, Ended, Delivered, Terminal
  <1>4. ~cancelled => Flowing'
    BY <1>1 DEF Server, Flowing, Pending, After
  <1> QED BY <1>1, <1>2, <1>3, <1>4 DEF Server

\* A stopped timer leaves only callbacks of earlier epochs.
LEMMA SettleFacts ==
  ASSUME NEW g \in HostStates, \A t \in g.timers : t <= g.epoch,
         NEW kind \in Kinds, NEW h \in Settle(g, kind)
  PROVE  /\ h \in HostStates
         /\ h.pc = g.pc /\ h.phase = g.phase /\ h.sequence = g.sequence
         /\ h.expired = g.expired /\ h.told = g.told /\ h.result = g.result
         /\ \A t \in h.timers : t <= h.epoch
         /\ kind \in {"end", "reset", "failed"} => h.epoch \notin h.timers
         /\ kind = "changes" => h = g
  <1> DEFINE e == g.epoch + 1
  <1>1. g.epoch \in Nat /\ e \in Nat /\ g.timers \in SUBSET Nat
    BY DEF HostStates
  <1>2. \A S \in Unstoppable(g) : S \subseteq g.timers
    BY DEF Unstoppable
  <1>3. CASE kind \in {"begin", "snapshot"} /\ ~g.expired
    <2>1. PICK S \in Unstoppable(g) : h = [g EXCEPT !.epoch = @ + 1, !.timers = S \cup {e}]
      BY <1>3 DEF Settle, Arm
    <2> DEFINE T == S \cup {e}
    <2>2. T \in SUBSET Nat /\ \A t \in T : t <= e
      BY <1>1, <1>2
    <2>3. h = [g EXCEPT !.epoch = e, !.timers = T]
      BY <2>1
    <2> HIDE DEF e, T
    <2>4. /\ h \in HostStates
          /\ h.pc = g.pc /\ h.phase = g.phase /\ h.sequence = g.sequence
          /\ h.expired = g.expired /\ h.told = g.told /\ h.result = g.result
          /\ h.timers = T /\ h.epoch = e
      BY <1>1, <2>2, <2>3 DEF HostStates
    <2> QED BY <1>3, <2>2, <2>4
  <1>4. CASE kind \in {"end", "reset", "failed"}
    <2>1. PICK S \in Unstoppable(g) : h = [g EXCEPT !.epoch = @ + 1, !.timers = S]
      BY <1>4 DEF Settle, Disarm
    <2>2. S \in SUBSET Nat /\ e \notin S /\ \A t \in S : t <= e
      BY <1>1, <1>2
    <2>3. h = [g EXCEPT !.epoch = e, !.timers = S]
      BY <2>1
    <2> HIDE DEF e
    <2>4. /\ h \in HostStates
          /\ h.pc = g.pc /\ h.phase = g.phase /\ h.sequence = g.sequence
          /\ h.expired = g.expired /\ h.told = g.told /\ h.result = g.result
          /\ h.timers = S /\ h.epoch = e
      BY <1>1, <2>2, <2>3 DEF HostStates
    <2> QED BY <1>4, <2>2, <2>4
  <1>5. CASE ~(kind \in {"begin", "snapshot"} /\ ~g.expired) /\ kind \notin {"end", "reset", "failed"}
    BY <1>5 DEF Settle
  <1> QED BY <1>3, <1>4, <1>5

LEMMA ClosedFacts ==
  ASSUME NEW h \in HostStates, NEW result \in {"eof", "reset", "timeout", "other"}
  PROVE  /\ Closed(h, result) \in HostStates
         /\ Closed(h, result).pc = "closed" /\ Closed(h, result).result = result
         /\ Closed(h, result).sequence = h.sequence /\ Closed(h, result).phase = h.phase
         /\ Closed(h, result).expired = h.expired /\ Closed(h, result).told = h.told
         /\ Closed(h, result).timers = {} /\ Closed(h, result).epoch \in Nat
  <1> DEFINE e == h.epoch + 1
             c == Closed(h, result)
  <1>1. e \in Nat
    BY DEF HostStates
  <1>2. c = [h EXCEPT !.pc = "closed", !.epoch = e, !.timers = {}, !.result = result]
    BY DEF Closed
  <1> HIDE DEF e, c
  <1>3. /\ c \in HostStates /\ c.pc = "closed" /\ c.result = result
        /\ c.sequence = h.sequence /\ c.phase = h.phase
        /\ c.expired = h.expired /\ c.told = h.told
        /\ c.timers = {} /\ c.epoch = e
    BY <1>1, <1>2 DEF HostStates
  <1> QED BY <1>1, <1>3 DEF c

\* The host ends, for a reason that is a timeout only if the deadline passed.
LEMMA CloseStep ==
  ASSUME IInv, NEW result \in {"eof", "reset", "timeout", "other"}, host.pc = "recv",
         result = "timeout" => host.expired, host' = Closed(host, result), UNCHANGED <<server, wire>>
  PROVE  IInv'
  <1>1. TypeOK /\ Deadline /\ Chain /\ Server /\ host \in HostStates
    BY DEF IInv, TypeOK
  <1>2. /\ host' \in HostStates /\ host'.pc = "closed" /\ host'.result = result
        /\ host'.sequence = host.sequence /\ host'.phase = host.phase
        /\ host'.expired = host.expired /\ host'.told = host.told /\ host'.timers = {}
    BY <1>1, ClosedFacts
  <1>3. mode' = mode
    BY DEF server
  <1>4. OnWire' = OnWire /\ WirePhase' = WirePhase /\ Chain'
    BY <1>1, <1>2, <1>3 DEF OnWire, WirePhase, After, Chain
  <1>5. Deadline'
    BY <1>1, <1>2 DEF Deadline
  <1>6. TypeOK'
    BY <1>1, <1>2 DEF TypeOK, server
  <1> QED BY <1>1, <1>4, <1>5, <1>6, HostFrame DEF IInv

LEMMA HostEndsStep ==
  ASSUME IInv, RecvEnds \/ RecvExpires \/ HostCloses
  PROVE  IInv'
  <1>1. CASE RecvEnds
    <2> DEFINE result == IF host.expired THEN "timeout"
                         ELSE IF loop.pc = "error" /\ (host.sequence = 0 \/ loop.stalled) THEN "other"
                         ELSE TransportError
    <2>1. result \in {"eof", "reset", "timeout", "other"} /\ (result = "timeout" => host.expired)
      BY DEF TransportError
    <2>2. host' = Closed(host, result) /\ host.pc = "recv" /\ UNCHANGED <<server, wire>>
      BY <1>1 DEF RecvEnds
    <2> HIDE DEF result
    <2> QED BY <2>1, <2>2, CloseStep
  <1>2. CASE RecvExpires
    BY <1>2, CloseStep DEF RecvExpires
  <1>3. CASE HostCloses
    BY <1>3, CloseStep DEF HostCloses
  <1> QED BY <1>1, <1>2, <1>3

LEMMA TimerRunsStep ==
  ASSUME IInv, NEW t \in host.timers, TimerRuns(t)
  PROVE  IInv'
  <1>1. TypeOK /\ Deadline /\ Chain /\ Server /\ host \in HostStates
    BY DEF IInv, TypeOK
  <1>2. /\ host' = [host EXCEPT !.timers = @ \ {t}, !.expired = @ \/ t = host.epoch]
        /\ host.pc = "recv" /\ UNCHANGED <<server, wire>>
    BY DEF TimerRuns
  <1>3. /\ host' \in HostStates /\ host'.pc = host.pc /\ host'.result = host.result
        /\ host'.sequence = host.sequence /\ host'.phase = host.phase
        /\ host'.told = host.told /\ host'.epoch = host.epoch /\ host'.timers = host.timers \ {t}
    BY <1>1, <1>2 DEF HostStates
  <1>4. host'.expired => host.expired \/ t = host.epoch
    BY <1>1, <1>2 DEF HostStates
  <1>5. mode' = mode
    BY <1>2 DEF server
  <1>6. OnWire' = OnWire /\ WirePhase' = WirePhase /\ Chain'
    BY <1>1, <1>2, <1>3, <1>5 DEF OnWire, WirePhase, After, Chain
  <1>7. Deadline'
    BY <1>1, <1>2, <1>3, <1>4 DEF Deadline
  <1>8. TypeOK'
    BY <1>1, <1>2, <1>3 DEF TypeOK, server
  <1> QED BY <1>1, <1>2, <1>6, <1>7, <1>8, HostFrame DEF IInv

\* The host takes a frame: its own tracker accepts it.
LEMMA RecvStep ==
  ASSUME IInv, Recv
  PROVE  IInv'
  <1> DEFINE f == Head(wire)
             g == [host EXCEPT !.sequence = f.sequence, !.phase = Advance(@, f.kind)]
  <1>1. TypeOK /\ Deadline /\ Chain /\ Server /\ host \in HostStates /\ wire \in Seq(Frames)
    BY DEF IInv, TypeOK
  <1>2. host.pc = "recv" /\ wire # << >> /\ wire' = Tail(wire) /\ UNCHANGED server
    BY DEF Recv
  <1>3. /\ Len(wire) \in Nat \ {0} /\ DOMAIN wire = 1 .. Len(wire)
        /\ f = wire[1] /\ f \in Frames
        /\ wire' \in Seq(Frames) /\ Len(wire') = Len(wire) - 1
        /\ DOMAIN wire' = 1 .. Len(wire) - 1
        /\ \A i \in 1 .. Len(wire) - 1 : wire'[i] = wire[i + 1]
    BY <1>1, <1>2
  <1>4. /\ f.kind \in Kinds /\ f.sequence \in Nat
        /\ host.sequence \in Nat /\ host.phase \in Phases /\ host.told \in Kinds \cup {"nothing"}
    BY <1>1, <1>3 DEF Frames, HostStates
  <1>5. f.sequence = host.sequence + 1 /\ Admits(host.phase, f.kind)
    <2>1. 1 \in DOMAIN wire
      BY <1>3
    <2> QED BY <1>1, <1>2, <1>3, <2>1 DEF Chain
  <1>6. Advance(host.phase, f.kind) = After(f.kind) /\ After(f.kind) \in Phases
    BY <1>4, <1>5, AdvanceFacts, AdmitsFacts
  <1>7. PICK h \in Settle(g, f.kind) :
          host' = IF h.expired THEN Closed(h, "timeout") ELSE [h EXCEPT !.told = f.kind]
    BY <1>5 DEF Recv
  <1>8. /\ g \in HostStates /\ g.phase = After(f.kind) /\ g.sequence = f.sequence /\ g.pc = host.pc
        /\ g.epoch = host.epoch /\ g.timers = host.timers /\ g.expired = host.expired
        /\ g.told = host.told /\ g.result = host.result
    <2> DEFINE phase == After(f.kind)
               sequence == f.sequence
    <2>1. g = [host EXCEPT !.sequence = sequence, !.phase = phase]
      BY <1>6
    <2>2. phase \in Phases /\ sequence \in Nat
      BY <1>4, <1>6
    <2> HIDE DEF phase, sequence, g
    <2>3. /\ g \in HostStates /\ g.phase = phase /\ g.sequence = sequence /\ g.pc = host.pc
          /\ g.epoch = host.epoch /\ g.timers = host.timers /\ g.expired = host.expired
          /\ g.told = host.told /\ g.result = host.result
      BY <1>1, <2>1, <2>2 DEF HostStates
    <2> QED BY <2>3 DEF phase, sequence
  <1> HIDE DEF f, g
  <1>9. \A t \in g.timers : t <= g.epoch
    BY <1>1, <1>8 DEF Deadline
  <1>10. /\ h \in HostStates
         /\ h.pc = g.pc /\ h.phase = g.phase /\ h.sequence = g.sequence
         /\ h.expired = g.expired /\ h.told = g.told /\ h.result = g.result
         /\ \A t \in h.timers : t <= h.epoch
         /\ f.kind \in {"end", "reset", "failed"} => h.epoch \notin h.timers
         /\ f.kind = "changes" => h = g
    BY <1>4, <1>7, <1>8, <1>9, SettleFacts
  <1>11. After(f.kind) \notin Watched =>
           f.kind \in {"end", "reset", "failed"}
             \/ (f.kind = "changes" /\ host.phase \notin Watched)
    BY <1>4, <1>5 DEF After, Admits, Kinds, Watched
  <1>12. host.phase \notin Watched => f.kind \notin {"begin", "snapshot"} /\ After(f.kind) \notin Watched
    BY <1>4, <1>5 DEF After, Admits, Kinds, Watched
  <1>13. f.kind \in {"end", "changes", "reset", "failed"} => After(f.kind) \notin Watched
    BY DEF After, Watched
  <1>14. host' \in HostStates /\ host'.sequence = f.sequence /\ host'.phase = After(f.kind) /\ Deadline'
    <2>1. CASE h.expired
      <3>1. host' = Closed(h, "timeout")
        BY <1>7, <2>1
      <3>2. /\ host' \in HostStates
            /\ host'.pc = "closed" /\ host'.result = "timeout"
            /\ host'.sequence = h.sequence /\ host'.phase = h.phase
            /\ host'.expired = h.expired /\ host'.told = h.told
            /\ host'.timers = {} /\ host'.epoch \in Nat
        BY <1>10, <3>1, ClosedFacts
      <3>3. host.expired /\ host'.told = host.told
        BY <1>8, <1>10, <2>1, <3>2
      <3>4. host.told \notin {"end", "changes", "reset", "failed"}
        BY <1>1, <3>3 DEF Deadline
      <3> QED BY <1>8, <1>10, <3>2, <3>3, <3>4 DEF Deadline
    <2>2. CASE ~h.expired
      <3>1. host' = [h EXCEPT !.told = f.kind]
        BY <1>7, <2>2
      <3>2. /\ host' \in HostStates /\ host'.pc = h.pc /\ host'.phase = h.phase
            /\ host'.sequence = h.sequence /\ host'.epoch = h.epoch /\ host'.timers = h.timers
            /\ host'.expired = h.expired /\ host'.result = h.result /\ host'.told = f.kind
        BY <1>4, <1>10, <3>1 DEF HostStates
      <3>3. host'.pc = "recv" /\ host'.result = "none"
        BY <1>1, <1>2, <1>8, <1>10, <3>2 DEF Deadline
      <3>4. host'.phase \notin Watched => host'.epoch \notin host'.timers
        <4>1. CASE f.kind = "changes" /\ host.phase \notin Watched
          BY <1>1, <1>2, <1>8, <1>10, <3>2, <4>1 DEF Deadline
        <4>2. CASE f.kind \in {"end", "reset", "failed"}
          BY <1>10, <3>2, <4>2
        <4> QED BY <1>8, <1>10, <1>11, <3>2, <4>1, <4>2
      <3>5. \A t \in host'.timers : t <= host'.epoch
        BY <1>10, <3>2
      <3>6. ~host'.expired /\ host'.phase = After(f.kind) /\ host'.sequence = f.sequence
        BY <1>8, <1>10, <2>2, <3>2
      <3> QED BY <1>13, <3>2, <3>3, <3>4, <3>5, <3>6 DEF Deadline, Watched
    <2> QED BY <2>1, <2>2
  <1>15. mode' = mode
    BY <1>2 DEF server
  <1>16. OnWire' = OnWire
    <2>1. /\ Len(wire) \in Nat /\ Len(wire') = Len(wire) - 1
          /\ host.sequence \in Nat /\ host'.sequence = host.sequence + 1
      BY <1>3, <1>4, <1>5, <1>14
    <2> QED BY <2>1 DEF OnWire
  <1>17. WirePhase' = WirePhase
    <2>1. CASE Len(wire) = 1
      <3>1. wire' = << >> /\ wire[Len(wire)] = f
        BY <1>1, <1>2, <1>3, <2>1
      <3> QED BY <1>2, <1>14, <3>1 DEF WirePhase
    <2>2. CASE Len(wire) # 1
      <3>1. wire' # << >> /\ wire'[Len(wire')] = wire[Len(wire)]
        BY <1>3, <2>2
      <3> QED BY <1>2, <1>15, <3>1 DEF WirePhase, After
    <2> QED BY <2>1, <2>2
  <1>18. Chain'
    <2>1. ASSUME NEW i \in DOMAIN wire' PROVE wire'[i].sequence = host'.sequence + i
      <3>1. i \in 1 .. Len(wire) - 1 /\ i + 1 \in DOMAIN wire /\ wire'[i] = wire[i + 1]
        BY <1>3
      <3>2. wire[i + 1].sequence = host.sequence + (i + 1)
        BY <1>1, <3>1 DEF Chain
      <3>3. host.sequence \in Nat /\ host'.sequence = host.sequence + 1
        BY <1>4, <1>5, <1>14
      <3>4. i \in Nat
        BY <1>3, <3>1
      <3> QED BY <3>1, <3>2, <3>3, <3>4
    <2>2. wire' # << >> => Admits(host'.phase, wire'[1].kind)
      <3>1. SUFFICES ASSUME wire' # << >> PROVE Admits(host'.phase, wire'[1].kind)
        OBVIOUS
      <3>2. 1 \in DOMAIN wire /\ 1 + 1 \in DOMAIN wire /\ wire'[1] = wire[1 + 1]
        BY <1>3, <3>1
      <3> QED BY <1>1, <1>3, <1>14, <3>2 DEF Chain
    <2>3. ASSUME NEW i \in DOMAIN wire', i + 1 \in DOMAIN wire'
          PROVE  Admits(After(wire[i].kind), wire[i + 1].kind)'
      <3>1. /\ i + 1 \in DOMAIN wire /\ (i + 1) + 1 \in DOMAIN wire
            /\ wire'[i] = wire[i + 1] /\ wire'[i + 1] = wire[(i + 1) + 1]
        BY <1>3, <2>3
      <3>2. Admits(After(wire[i + 1].kind), wire[(i + 1) + 1].kind)
        BY <1>1, <3>1 DEF Chain
      <3>3. Admits(After(wire'[i].kind), wire'[i + 1].kind)
        BY <3>1, <3>2
      <3> QED BY <1>15, <3>3 DEF After, Admits
    <2> QED BY <2>1, <2>2, <2>3 DEF Chain
  <1>19. TypeOK'
    BY <1>1, <1>2, <1>3, <1>14 DEF TypeOK, server
  <1> QED BY <1>1, <1>2, <1>14, <1>16, <1>17, <1>18, <1>19, HostFrame DEF IInv

-----------------------------------------------------------------------------
(* Theorems.                                                               *)

LEMMA InitInvariant == Init => IInv
  <1> SUFFICES ASSUME Init PROVE IInv
    OBVIOUS
  <1>1. /\ NoCall \in CallStates /\ NoFrame \in Frames /\ NoCall.pc = "idle"
    BY NoCallFacts DEF NoCall
  <1>2. TypeOK
    <2>1. emitter \in EmitterStates
      BY DEF Init, EmitterStates, Phases
    <2>2. root \in RootStates
      BY DEF Init, RootStates
    <2>3. loop \in LoopStates
      BY <1>1 DEF Init, LoopStates
    <2>4. host \in HostStates
      BY DEF Init, Opened, HostStates, Phases
    <2>5. wire \in Seq(Frames)
      BY DEF Init
    <2> QED BY <1>1, <2>1, <2>2, <2>3, <2>4, <2>5 DEF Init, TypeOK
  <1>3. Deadline
    BY DEF Init, Opened, Deadline, Watched
  <1>4. Chain
    BY DEF Init, Chain
  <1>5. OnWire = 0 /\ WirePhase = "opening"
    BY DEF Init, Opened, OnWire, WirePhase
  <1>6. \A p \in Processes : call[p].pc = "idle"
    BY <1>1 DEF Init
  <1>7. Server
    <2>1. ASSUME NEW p \in Processes PROVE Emission(p)
      BY <1>6, ProcessFacts DEF Init, Emission, Inside
    <2>2. Recorded
      BY <1>5 DEF Init, Recorded
    <2>3. Rooted
      BY <1>6, ProcessFacts DEF Init, Rooted
    <2>4. Handled
      BY DEF Init, Handled, Ended
    <2>5. Flowing
      BY <1>5, <1>6 DEF Init, Flowing, Pending
    <2> QED BY <2>1, <2>2, <2>3, <2>4, <2>5 DEF Server
  <1> QED BY <1>2, <1>3, <1>4, <1>7 DEF IInv

LEMMA StutterStep ==
  ASSUME IInv, UNCHANGED vars
  PROVE  IInv'
  <1>1. TypeOK /\ Deadline /\ Chain /\ Server
    BY DEF IInv
  <1>2. UNCHANGED server /\ UNCHANGED <<mode, wire, host>>
    BY DEF vars, server
  <1>3. Deadline' /\ Chain' /\ OnWire' = OnWire /\ WirePhase' = WirePhase
    BY <1>1, <1>2, ServerFrame
  <1>4. TypeOK'
    BY <1>1, <1>2 DEF TypeOK, server
  <1> QED BY <1>1, <1>2, <1>3, <1>4, HostFrame DEF IInv

LEMMA NextInvariant == IInv /\ [Next]_vars => IInv'
  <1> SUFFICES ASSUME IInv, [Next]_vars PROVE IInv'
    OBVIOUS
  <1>1. CASE UNCHANGED vars
    BY <1>1, StutterStep
  <1>2. ASSUME NEW p \in Emitters,
               NEW op \in {"snapshot", "end", "changes", "reset"}, NEW left \in 1 .. 2,
               Emit(p, op, left)
        PROVE  IInv'
    BY <1>2, EmitStep
  <1>3. ASSUME NEW p \in Emitters, EmitFenced(p) PROVE IInv'
    <2>1. "snapshot" \in {"snapshot", "end", "changes", "reset"} /\ 1 \in 1 .. 2
      OBVIOUS
    <2> QED BY <1>3, <2>1, EmitStep
  <1>4. ASSUME NEW p \in Processes,
               \/ Lock(p) \/ LockHeld(p) \/ SendRefused(p) \/ SendAdmitted(p)
               \/ Enqueue(p) \/ SendAbandoned(p) \/ Acknowledged(p)
        PROVE  IInv'
    BY <1>4, RefusedStep, LockHeldStep, SendAdmittedStep, EnqueueStep, AcknowledgedStep
  <1>5. ASSUME NEW ok \in BOOLEAN, SourceReturns(ok) \/ SourceReturnsReset(ok) PROVE IInv'
    BY <1>5, JudgeStep, SourceReturnsResetStep
  <1>6. CASE JudgeDone \/ JudgeUnfinished \/ JudgeRefused \/ JudgeLast \/ Retire
    BY <1>6, JudgeStep, JudgeLastStep
  <1>7. CASE LoopTakes \/ LoopHands \/ Sends \/ SendFails \/ LoopSent
    BY <1>7, LoopTakesStep, LoopHandsStep, SendsStep, SendFailsStep, LoopSentStep
  <1>8. CASE LoopStalls \/ LoopBreaks \/ LoopDone \/ StreamBreaks
    BY <1>8, BreakStep
  <1>9. CASE Recv \/ RecvEnds \/ RecvExpires \/ HostCloses
    BY <1>9, RecvStep, HostEndsStep
  <1>10. ASSUME NEW t \in host.timers, TimerRuns(t) PROVE IInv'
    BY <1>10, TimerRunsStep
  <1> QED BY <1>1, <1>2, <1>3, <1>4, <1>5, <1>6, <1>7, <1>8, <1>9, <1>10 DEF Next

\* The invariant holds in every reachable state.
THEOREM Invariance == Spec => []IInv
  BY InitInvariant, NextInvariant, PTL DEF Spec

\* A terminal phase of the transport shows in the host or on the wire.
LEMMA TerminalShows ==
  ASSUME IInv, WirePhase = "terminal"
  PROVE  host.phase = "terminal" \/ \E i \in DOMAIN wire : Terminal(wire[i].kind)
  <1>1. wire \in Seq(Frames)
    BY DEF IInv, TypeOK
  <1>2. CASE wire = << >>
    BY <1>2 DEF WirePhase
  <1>3. CASE wire # << >>
    <2>1. Len(wire) \in DOMAIN wire /\ wire[Len(wire)] \in Frames
      BY <1>1, <1>3
    <2>2. wire[Len(wire)].kind \in Kinds /\ After(wire[Len(wire)].kind) = "terminal"
      BY <1>3, <2>1 DEF WirePhase, Frames
    <2>3. Terminal(wire[Len(wire)].kind)
      BY <2>2 DEF After, Terminal, Kinds
    <2> QED BY <2>1, <2>3
  <1> QED BY <1>2, <1>3

\* Whatever the goroutines of a callback emit, and however the stream breaks:
\* the host's SourcePhaseTracker accepts every frame, and nothing follows the end.
THEOREM OneSession == Spec => []WireIsOneSession
  <1>1. IInv => WireIsOneSession
    <2> SUFFICES ASSUME IInv PROVE WireIsOneSession
      OBVIOUS
    <2>1. /\ wire \in Seq(Frames) /\ Chain /\ Recorded
          /\ host.sequence \in Nat
      BY DEF IInv, TypeOK, Server, HostStates
    <2>2. HostAcceptsWire
      <3>1. wire # << >> => Head(wire) = wire[1] /\ 1 \in DOMAIN wire
        BY <2>1
      <3> QED BY <2>1, <3>1 DEF HostAcceptsWire, Chain
    <2>3. ASSUME NEW i \in DOMAIN wire, Terminal(wire[i].kind) PROVE i = Len(wire)
      <3>1. ASSUME i # Len(wire) PROVE FALSE
        <4>1. /\ DOMAIN wire = 1 .. Len(wire) /\ Len(wire) \in Nat
              /\ wire[i] \in Frames /\ i \in 1 .. Len(wire)
          BY <2>1, <2>3
        <4>2. i + 1 \in 1 .. Len(wire)
          BY <3>1, <4>1
        <4>3. wire[i].kind \in Kinds
          BY <4>1 DEF Frames
        <4>4. i + 1 \in DOMAIN wire /\ wire[i].kind \in Kinds
          BY <4>1, <4>2, <4>3
        <4>5. Admits(After(wire[i].kind), wire[i + 1].kind)
          BY <2>1, <4>4 DEF Chain
        <4>6. After(wire[i].kind) = "terminal"
          BY <2>3, <4>4 DEF After, Terminal, Kinds
        <4> QED BY <4>5, <4>6 DEF Admits
      <3> QED BY <3>1
    <2>4. emitter.terminal =>
            host.phase = "terminal" \/ \E i \in DOMAIN wire : Terminal(wire[i].kind)
      BY <2>1, TerminalShows DEF Recorded
    <2> QED BY <2>2, <2>3, <2>4 DEF WireIsOneSession, TerminalIsLast
  <1> QED BY <1>1, Invariance, PTL

\* An emission that was told success, and an RPC that ended with status OK,
\* were handed to the transport; frames that a limit refuses excepted for OK.
THEOREM TruthfulOutcomes == Spec => []OutcomesAreTruthful
  <1>1. IInv => OutcomesAreTruthful
    <2> SUFFICES ASSUME IInv PROVE OutcomesAreTruthful
      OBVIOUS
    <2>1. AcknowledgedWasSent
      BY DEF IInv, Server, Recorded, OnWire, AcknowledgedWasSent
    <2>2. OkMeansComplete
      BY TerminalShows DEF IInv, Server, Handled, OkMeansComplete
    <2> QED BY <2>1, <2>2 DEF OutcomesAreTruthful
  <1> QED BY <1>1, Invariance, PTL

\* A host that was handed the end of the snapshot is never timed out, however
\* late the callback of a stopped timer runs.
THEOREM NoLateDeadline == Spec => []FollowingIsUnlimited
  <1>1. IInv => FollowingIsUnlimited
    BY DEF IInv, Deadline, FollowingIsUnlimited
  <1> QED BY <1>1, Invariance, PTL
=============================================================================
