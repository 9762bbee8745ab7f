---------------------------- MODULE SourceSession ---------------------------
(***************************************************************************)
(* One source session of pkg/resource/v2: the goroutines of the provider's *)
(* source callback emit frames through the controller's fence and the      *)
(* sourceEmitter; the handler of the Open stream takes them one at a time, *)
(* has them sent and acknowledges them; the host's sourceClientStream      *)
(* checks every frame and watches over the snapshot's progress.            *)
(*                                                                         *)
(* Every emission ends up in sourceEmitter.send, under its mutex for as    *)
(* long as the frames take.  The source callback, gRPC and the host's      *)
(* reader are external: they return, fail, block or stop at any time.      *)
(***************************************************************************)
EXTENDS Naturals, Sequences, FiniteSets

CONSTANTS
  Emitters,   \* goroutines of the source callback that use its emitter
  Modes,      \* requests: SourceModeSnapshot ("snapshot") or with "updates"
  Window,     \* frames the transport takes before SendMsg blocks
  MaxFrames,  \* the callback emits nothing beyond this sequence number
  Events,     \* what else happens: the generation retires or its catalog changes
              \* ("retire"), the stream breaks, a limit refuses a frame, the host's
              \* deadline passes
  Root,       \* the goroutine that runs OpenSource
  None

ASSUME SessionAssumption ==
  /\ Modes \subseteq {"snapshot", "updates"}
  /\ Window \in Nat \ {0} /\ MaxFrames \in Nat
  /\ Events \subseteq {"retire", "break", "limit", "timeout"}
  /\ Root \notin Emitters /\ None \notin Emitters \cup {Root}

VARIABLES
  mode,       \* request.Mode
  emitter,    \* sourceEmitter and its SourcePhaseTracker
  call,       \* the emission each goroutine is in
  root,       \* OpenSource and the goroutine that runs it
  retired,    \* the generation whose lease OpenSource holds
  cancelled,  \* the handler's context
  broken,     \* the stream's context
  loop,       \* the handler's select loop and its sender goroutine
  wire,       \* frames sent and not yet received
  host        \* sourceClientStream

server == <<mode, emitter, call, root, retired, cancelled, broken, loop>>
vars == <<server, wire, host>>

-----------------------------------------------------------------------------
(* State.                                                                  *)

Processes == Emitters \cup {Root}
Phases == {"opening", "snapshot", "following", "terminal"}
Kinds == {"begin", "snapshot", "end", "changes", "reset", "failed"}
Frames == [kind : Kinds, sequence : Nat]
NoFrame == [kind |-> "begin", sequence |-> 0]

\* acked is the last sequence number whose emission was told that it was sent.
EmitterStates ==
  [mu : Processes \cup {None}, sequence : Nat, phase : Phases,
   ended : BOOLEAN, terminal : BOOLEAN, acked : Nat]

\* op is the method, "binding" the controller's bindingReset; left counts the
\* frames a Snapshot is split into.
CallStates ==
  [pc : {"idle", "lock", "send", "queue", "ack"},
   op : {"snapshot", "end", "changes", "reset", "binding", "failed"},
   left : Nat, frame : Frames, ack : {"none", "ok", "err"}]
NoCall ==
  [pc |-> "idle", op |-> "reset", left |-> 0, frame |-> NoFrame, ack |-> "none"]

\* reset is controllerSourceEmitter.reset.
RootStates ==
  [pc : {"source", "leave", "judge", "last", "done", "refused"}, ok : BOOLEAN, reset : BOOLEAN]

LoopStates ==
  [pc : {"select", "hand", "wait", "ok", "error"},
   queue : Processes \cup {None}, delivery : Processes \cup {None},
   sender : Frames, sent : {"none", "ok", "err"}, stalled : BOOLEAN]

\* timers are the deadline callbacks that may still run, by their epoch.
HostStates ==
  [pc : {"recv", "closed"}, phase : Phases, sequence : Nat, epoch : Nat,
   timers : SUBSET Nat, expired : BOOLEAN, told : Kinds \cup {"nothing"},
   result : {"none", "eof", "reset", "timeout", "other"}]

\* OpenSourceStream: the deadline for the Begin is armed.
Opened ==
  [pc |-> "recv", phase |-> "opening", sequence |-> 0, epoch |-> 1,
   timers |-> {1}, expired |-> FALSE, told |-> "nothing", result |-> "none"]

Init ==
  /\ mode \in Modes
  /\ emitter = [mu |-> None, sequence |-> 0, phase |-> "opening",
                ended |-> FALSE, terminal |-> FALSE, acked |-> 0]
  /\ call = [p \in Processes |-> NoCall]
  /\ root = [pc |-> "source", ok |-> TRUE, reset |-> FALSE]
  /\ retired = FALSE
  /\ cancelled = FALSE
  /\ broken = FALSE
  /\ loop = [pc |-> "select", queue |-> None, delivery |-> None,
             sender |-> NoFrame, sent |-> "none", stalled |-> FALSE]
  /\ wire = << >>
  /\ host = Opened

SetCall(p, record) == call' = [call EXCEPT ![p] = record]

-----------------------------------------------------------------------------
(* SourcePhaseTracker.                                                     *)

Terminal(kind) == kind \in {"reset", "failed"} \/ (kind = "end" /\ mode = "snapshot")

Advance(phase, kind) ==
  IF kind = "begin" THEN "snapshot"
  ELSE IF Terminal(kind) THEN "terminal"
  ELSE IF kind = "end" THEN "following"
  ELSE phase

\* admit: which frames a session may have next.
Admits(phase, kind) ==
  \/ kind = "begin" /\ phase = "opening"
  \/ kind \in {"snapshot", "end"} /\ phase = "snapshot"
  \/ kind = "changes" /\ phase = "following"
  \/ kind \in {"reset", "failed"} /\ phase \in {"snapshot", "following"}

-----------------------------------------------------------------------------
(* Emissions: the callback's goroutines, and root's own.                   *)

\* The callback may emit; the page loop of a snapshot is one goroutine.
Emitting ==
  /\ emitter.sequence < MaxFrames /\ root.pc = "source"
  /\ mode = "snapshot" => \A p \in Emitters : call[p].pc = "idle"

\* A method of controllerSourceEmitter whose fence passed.
Emit(p, op, left) ==
  /\ call[p].pc = "idle" /\ Emitting
  /\ ~retired \/ cancelled
  /\ op = "snapshot" \/ left = 1
  /\ mode = "snapshot" => op \in {"snapshot", "end"}
  /\ SetCall(p, [NoCall EXCEPT !.pc = "lock", !.op = op, !.left = left])
  /\ UNCHANGED <<mode, emitter, root, retired, cancelled, broken, loop, wire, host>>

\* Its fence failed: the generation is retired, or the catalog changed.
EmitFenced(p) ==
  /\ call[p].pc = "idle" /\ Emitting
  /\ (retired /\ ~cancelled) \/ "retire" \in Events
  /\ SetCall(p, [NoCall EXCEPT !.pc = "lock", !.op = "binding", !.left = 1])
  /\ UNCHANGED <<mode, emitter, root, retired, cancelled, broken, loop, wire, host>>

\* Mutant of Leave: a terminal frame counts as sent though it was refused.
LeaveTerminal(p, ok) ==
  LET op == call[p].op IN
  /\ emitter' = [emitter EXCEPT
       !.mu = None,
       !.acked = IF ok THEN call[p].frame.sequence ELSE @,
       !.ended = @ \/ (ok /\ op = "end"),
       !.terminal = @ \/ op \in {"reset", "binding", "failed"}
                      \/ (ok /\ op = "end" /\ mode = "snapshot")]
  /\ SetCall(p, NoCall)
  /\ root' = [root EXCEPT
       !.reset = @ \/ op = "binding" \/ (ok /\ op = "reset" /\ p # Root),
       !.pc = IF p # Root THEN @ ELSE IF root.pc = "leave" THEN "judge" ELSE "done",
       !.ok = IF p = Root /\ root.pc = "leave" THEN ok \/ root.ok ELSE @]

\* What an emission leaves behind: ended and terminal after success, and the
\* fence's reset flag, which bindingReset sets whatever became of its frame.
Leave(p, ok) ==
  LET op == call[p].op IN
  /\ emitter' = [emitter EXCEPT
       !.mu = None,
       !.acked = IF ok THEN call[p].frame.sequence ELSE @,
       !.ended = @ \/ (ok /\ op = "end"),
       !.terminal = @ \/ (ok /\ \/ op \in {"reset", "binding", "failed"}
                                \/ op = "end" /\ mode = "snapshot")]
  /\ SetCall(p, NoCall)
  /\ root' = [root EXCEPT
       !.reset = @ \/ op = "binding" \/ (ok /\ op = "reset" /\ p # Root),
       !.pc = IF p # Root THEN @ ELSE IF root.pc = "leave" THEN "judge" ELSE "done",
       !.ok = IF p = Root /\ root.pc = "leave" THEN ok \/ root.ok ELSE @]

\* The context that an emission is given has ended, as those of the lease and of
\* the callback have; root and bindingReset give the handler's own.
OwnContextEnded(p) ==
  p # Root /\ call[p].op # "binding" /\ (retired \/ root.reset)

\* e.mu.Lock(), and the checks before the first frame.
Lock(p) ==
  /\ call[p].pc = "lock" /\ emitter.mu = None
  /\ \/ /\ call[p].op = "snapshot"
        /\ cancelled \/ OwnContextEnded(p) \/ emitter.ended \/ emitter.terminal
     \/ call[p].op = "failed" /\ emitter.terminal
  /\ Leave(p, FALSE)
  /\ UNCHANGED <<mode, retired, cancelled, broken, loop, wire, host>>

\* Mutant of LockHeld: frames are numbered and queued without the mutex.
LockHeldByOthers(p) ==
  /\ call[p].pc = "lock"
  /\ call[p].op = "snapshot" => ~cancelled /\ ~emitter.ended /\ ~emitter.terminal
  /\ call[p].op = "failed" => ~emitter.terminal
  /\ emitter' = [emitter EXCEPT !.mu = p]
  /\ SetCall(p, [call[p] EXCEPT !.pc = "send"])
  /\ UNCHANGED <<mode, root, retired, cancelled, broken, loop, wire, host>>

LockHeld(p) ==
  /\ call[p].pc = "lock" /\ emitter.mu = None
  /\ call[p].op = "snapshot" => ~cancelled /\ ~emitter.ended /\ ~emitter.terminal
  /\ call[p].op = "failed" => ~emitter.terminal
  /\ emitter' = [emitter EXCEPT !.mu = p]
  /\ SetCall(p, [call[p] EXCEPT !.pc = "send"])
  /\ UNCHANGED <<mode, root, retired, cancelled, broken, loop, wire, host>>

Kind(op) == IF op = "binding" THEN "reset" ELSE op

\* The frame to send now: failure does not begin a session, the others do.
NextKind(p) ==
  IF emitter.sequence = 0 /\ call[p].op # "failed" THEN "begin" ELSE Kind(call[p].op)

\* send: a context has ended, or the tracker or a limit refuses the frame.
SendRefused(p) ==
  /\ call[p].pc = "send"
  /\ \/ cancelled \/ OwnContextEnded(p)
     \/ ~Admits(emitter.phase, NextKind(p))
     \/ "limit" \in Events
  /\ Leave(p, FALSE)
  /\ UNCHANGED <<mode, retired, cancelled, broken, loop, wire, host>>

\* send: the frame is admitted and numbered before it is queued.
SendAdmitted(p) ==
  LET kind == NextKind(p) IN
  /\ call[p].pc = "send"
  /\ ~cancelled /\ Admits(emitter.phase, kind)
  /\ emitter' = [emitter EXCEPT !.sequence = @ + 1, !.phase = Advance(@, kind)]
  /\ SetCall(p, [call[p] EXCEPT !.pc = "queue", !.ack = "none",
                                !.frame = [kind |-> kind, sequence |-> emitter.sequence + 1]])
  /\ UNCHANGED <<mode, root, retired, cancelled, broken, loop, wire, host>>

\* e.queue <- d
Enqueue(p) ==
  /\ call[p].pc = "queue" /\ loop.queue = None
  /\ loop' = [loop EXCEPT !.queue = p]
  /\ SetCall(p, [call[p] EXCEPT !.pc = "ack"])
  /\ UNCHANGED <<mode, emitter, root, retired, cancelled, broken, wire, host>>

\* Mutant of SendAbandoned: once queued, an emission waits for its ack alone.
SendAbandonedUnqueued(p) ==
  /\ cancelled
  /\ call[p].pc = "queue"
  /\ Leave(p, FALSE)
  /\ UNCHANGED <<mode, retired, cancelled, broken, loop, wire, host>>

\* <-e.ctx.Done() while queueing, or while no acknowledgement is there.
SendAbandoned(p) ==
  /\ cancelled
  /\ call[p].pc = "queue" \/ (call[p].pc = "ack" /\ call[p].ack = "none")
  /\ Leave(p, FALSE)
  /\ UNCHANGED <<mode, retired, cancelled, broken, loop, wire, host>>

\* <-d.ack: a Begin is followed by the frame itself, a Snapshot by the rest.
Acknowledged(p) ==
  LET c == call[p]
      left == IF c.frame.kind = "begin" THEN c.left ELSE c.left - 1
  IN
  /\ c.pc = "ack" /\ c.ack # "none"
  /\ IF c.ack = "ok" /\ left > 0
     THEN /\ SetCall(p, [c EXCEPT !.pc = "send", !.left = left])
          /\ emitter' = [emitter EXCEPT !.acked = c.frame.sequence]
          /\ UNCHANGED root
     ELSE Leave(p, c.ack = "ok")
  /\ UNCHANGED <<mode, retired, cancelled, broken, loop, wire, host>>

-----------------------------------------------------------------------------
(* OpenSource returns, and the root goroutine ends the session.            *)

\* Root emits by itself.
RootEmits(op) == SetCall(Root, [NoCall EXCEPT !.pc = "lock", !.op = op, !.left = 1])

\* The callback, or the page loop, returns; a reset it caused is not an error.
SourceReturns(ok) ==
  /\ root.pc = "source"
  /\ mode = "snapshot" =>
       /\ \A p \in Emitters : call[p].pc = "idle"
       /\ ok => emitter.terminal \/ root.reset
  /\ mode = "updates" /\ retired => root.reset \/ cancelled
  /\ root' = [root EXCEPT !.pc = "judge", !.ok = ok \/ (root.reset /\ mode = "updates")]
  /\ UNCHANGED <<mode, emitter, call, retired, cancelled, broken, loop, wire, host>>

\* The generation was retired, or the catalog turns out to have changed.
SourceReturnsReset(ok) ==
  /\ root.pc = "source" /\ mode = "updates" /\ ~root.reset
  /\ \/ retired /\ ~cancelled /\ ~ok
     \/ ok /\ (retired => cancelled) /\ "retire" \in Events
  /\ root' = [root EXCEPT !.pc = "leave", !.ok = ok]
  /\ RootEmits("binding")
  /\ UNCHANGED <<mode, emitter, retired, cancelled, broken, loop, wire, host>>

\* Mutant of JudgeDone: nothing is left to do when the source has returned.
JudgeDoneAlways ==
  /\ root.pc = "judge"
  /\ cancelled \/ emitter.mu = None
  /\ root' = [root EXCEPT !.pc = "done"]
  /\ UNCHANGED <<mode, emitter, call, retired, cancelled, broken, loop, wire, host>>

\* The context ended, or the session is over.
JudgeDone ==
  /\ root.pc = "judge"
  /\ cancelled \/ (root.ok /\ emitter.mu = None /\ emitter.terminal)
  /\ root' = [root EXCEPT !.pc = "done"]
  /\ UNCHANGED <<mode, emitter, call, retired, cancelled, broken, loop, wire, host>>

\* A callback that returned before its snapshot ended failed.
JudgeUnfinished ==
  /\ root.pc = "judge" /\ ~cancelled /\ root.ok
  /\ emitter.mu = None /\ ~emitter.terminal /\ ~emitter.ended
  /\ root' = [root EXCEPT !.ok = FALSE]
  /\ UNCHANGED <<mode, emitter, call, retired, cancelled, broken, loop, wire, host>>

\* Before the first frame the error is the status of the call.
JudgeRefused ==
  /\ root.pc = "judge" /\ ~cancelled /\ ~root.ok
  /\ emitter.mu = None /\ emitter.sequence = 0
  /\ root' = [root EXCEPT !.pc = "refused"]
  /\ UNCHANGED <<mode, emitter, call, retired, cancelled, broken, loop, wire, host>>

\* A followed source that ended is invalidated, one in error has failed.
JudgeLast ==
  /\ root.pc = "judge" /\ ~cancelled /\ emitter.mu = None
  /\ \/ root.ok /\ emitter.ended /\ ~emitter.terminal /\ RootEmits("reset")
     \/ ~root.ok /\ emitter.sequence > 0 /\ RootEmits("failed")
  /\ root' = [root EXCEPT !.pc = "last"]
  /\ UNCHANGED <<mode, emitter, retired, cancelled, broken, loop, wire, host>>

Retire ==
  /\ "retire" \in Events /\ ~retired
  /\ retired' = TRUE
  /\ UNCHANGED <<mode, emitter, call, root, cancelled, broken, loop, wire, host>>

-----------------------------------------------------------------------------
(* sourceOpenHandler's loop and its sender goroutine.                      *)

SetAck(p, ack) == SetCall(p, [call[p] EXCEPT !.ack = ack])

\* The handler returns; its deferred cancel ends the context.
HandlerReturns(result) ==
  /\ loop' = [loop EXCEPT !.pc = result]
  /\ cancelled' = TRUE

LoopTakes ==
  /\ loop.pc = "select" /\ loop.queue # None
  /\ loop' = [loop EXCEPT !.pc = "hand", !.delivery = loop.queue, !.queue = None]
  /\ UNCHANGED <<mode, emitter, call, root, retired, cancelled, broken, wire, host>>

\* Mutant of LoopHands: the emission is acknowledged when its frame is taken over.
LoopHandsAcked ==
  /\ loop.pc = "hand" /\ loop.sender = NoFrame
  /\ loop' = [loop EXCEPT !.pc = "wait", !.sender = call[loop.delivery].frame]
  /\ SetAck(loop.delivery, "ok")
  /\ UNCHANGED <<mode, emitter, root, retired, cancelled, broken, wire, host>>

\* frames <- d.frame, and the stall timer starts.
LoopHands ==
  /\ loop.pc = "hand" /\ loop.sender = NoFrame
  /\ loop' = [loop EXCEPT !.pc = "wait", !.sender = call[loop.delivery].frame]
  /\ UNCHANGED <<mode, emitter, call, root, retired, cancelled, broken, wire, host>>

\* stream.SendMsg returns: never after the stream broke, or the handler returned.
Sends ==
  /\ loop.sender # NoFrame /\ Len(wire) < Window
  /\ ~broken /\ loop.pc \notin {"ok", "error"}
  /\ wire' = Append(wire, loop.sender)
  /\ loop' = [loop EXCEPT !.sender = NoFrame, !.sent = "ok"]
  /\ UNCHANGED <<mode, emitter, call, root, retired, cancelled, broken, host>>

SendFails ==
  /\ loop.sender # NoFrame
  /\ broken \/ loop.pc \in {"ok", "error"}
  /\ loop' = [loop EXCEPT !.sender = NoFrame, !.sent = "err"]
  /\ UNCHANGED <<mode, emitter, call, root, retired, cancelled, broken, wire, host>>

\* <-sent
LoopSent ==
  /\ loop.pc = "wait" /\ loop.sent # "none"
  /\ SetAck(loop.delivery, loop.sent)
  /\ IF loop.sent = "ok" /\ ~Terminal(call[loop.delivery].frame.kind)
     THEN /\ loop' = [loop EXCEPT !.pc = "select", !.delivery = None, !.sent = "none"]
          /\ UNCHANGED cancelled
     ELSE HandlerReturns(IF loop.sent = "ok" THEN "ok" ELSE "error")
  /\ UNCHANGED <<mode, emitter, root, retired, broken, wire, host>>

\* Mutant of LoopStalls: the timer runs only once the send has returned.
LoopStallsLate ==
  /\ loop.pc = "wait" /\ loop.sent # "none"
  /\ SetAck(loop.delivery, "err")
  /\ loop' = [loop EXCEPT !.pc = "error", !.stalled = TRUE]
  /\ cancelled' = TRUE
  /\ UNCHANGED <<mode, emitter, root, retired, broken, wire, host>>

\* <-timer.C: a send that does not return in time, or has just returned.
LoopStalls ==
  /\ loop.pc = "wait"
  /\ SetAck(loop.delivery, "err")
  /\ loop' = [loop EXCEPT !.pc = "error", !.stalled = TRUE]
  /\ cancelled' = TRUE
  /\ UNCHANGED <<mode, emitter, root, retired, broken, wire, host>>

\* <-stream.Context().Done()
LoopBreaks ==
  /\ broken
  /\ \/ loop.pc = "wait" /\ SetAck(loop.delivery, "err")
     \/ loop.pc \in {"select", "hand"} /\ UNCHANGED call
  /\ HandlerReturns("error")
  /\ UNCHANGED <<mode, emitter, root, retired, broken, wire, host>>

\* Mutant of LoopDone: only an error of the source ends the call.
LoopDoneRefused ==
  /\ loop.pc = "select" /\ root.pc = "refused"
  /\ HandlerReturns("error")
  /\ UNCHANGED <<mode, emitter, call, root, retired, broken, wire, host>>

\* <-done
LoopDone ==
  /\ loop.pc = "select" /\ root.pc \in {"done", "refused"}
  /\ HandlerReturns(IF root.pc = "done" THEN "ok" ELSE "error")
  /\ UNCHANGED <<mode, emitter, call, root, retired, broken, wire, host>>

\* The host cancels, or the connection is lost.
StreamBreaks ==
  /\ ~broken /\ loop.pc \notin {"ok", "error"}
  /\ "break" \in Events \/ host.expired \/ host.pc = "closed"
  /\ broken' = TRUE
  /\ cancelled' = TRUE
  /\ UNCHANGED <<mode, emitter, call, root, retired, loop, wire, host>>

-----------------------------------------------------------------------------
(* sourceClientStream.                                                     *)

\* timer.Stop does not reach a callback that has begun.
Unstoppable(h) == IF "timeout" \in Events THEN SUBSET h.timers ELSE {{}}

\* sourceDeadline.arm and stop
Arm(h) ==
  {[h EXCEPT !.epoch = @ + 1, !.timers = S \cup {h.epoch + 1}] : S \in Unstoppable(h)}
Disarm(h) == {[h EXCEPT !.epoch = @ + 1, !.timers = S] : S \in Unstoppable(h)}

\* How a frame moves the deadline.
Settle(h, kind) ==
  IF kind \in {"begin", "snapshot"} /\ ~h.expired THEN Arm(h)
  ELSE IF kind \in {"end", "reset", "failed"} THEN Disarm(h)
  ELSE {h}

Closed(h, result) == [h EXCEPT !.pc = "closed", !.epoch = @ + 1, !.timers = {}, !.result = result]

\* Recv: the frame is admitted by the host's own tracker, moves the deadline,
\* and is handed out unless the deadline has passed.
Recv ==
  LET f == Head(wire) IN
  /\ host.pc = "recv" /\ wire # << >>
  /\ wire' = Tail(wire)
  /\ IF f.sequence = host.sequence + 1 /\ Admits(host.phase, f.kind)
     THEN \E h \in Settle([host EXCEPT !.sequence = f.sequence,
                                       !.phase = Advance(@, f.kind)], f.kind) :
            host' = IF h.expired THEN Closed(h, "timeout") ELSE [h EXCEPT !.told = f.kind]
     ELSE host' = Closed(host, "other")
  /\ UNCHANGED server

\* The end of the stream is the end of the session only after a terminal frame.
TransportError ==
  IF loop.pc = "ok" /\ ~broken /\ host.phase = "terminal" THEN "eof" ELSE "reset"

\* Recv: the stream ended.  Frames in flight may be lost with a broken stream.
RecvEnds ==
  /\ host.pc = "recv"
  /\ broken \/ loop.pc = "error" \/ (loop.pc = "ok" /\ wire = << >>)
  /\ host' = Closed(host,
       IF host.expired THEN "timeout"
       ELSE IF loop.pc = "error" /\ (host.sequence = 0 \/ loop.stalled) THEN "other"
       ELSE TransportError)
  /\ UNCHANGED <<server, wire>>

\* The deadline cancelled the stream's context, and RecvMsg returns.
RecvExpires ==
  /\ host.pc = "recv" /\ host.expired
  /\ host' = Closed(host, "timeout")
  /\ UNCHANGED <<server, wire>>

\* Mutant of TimerRuns: the callback does not look at its epoch.
TimerRunsStale(t) ==
  /\ "timeout" \in Events /\ t \in host.timers /\ host.pc = "recv"
  /\ host' = [host EXCEPT !.timers = @ \ {t}, !.expired = TRUE]
  /\ UNCHANGED <<server, wire>>

\* The callback of a deadline: void when its epoch has passed.
TimerRuns(t) ==
  /\ "timeout" \in Events /\ t \in host.timers /\ host.pc = "recv"
  /\ host' = [host EXCEPT !.timers = @ \ {t}, !.expired = @ \/ t = host.epoch]
  /\ UNCHANGED <<server, wire>>

\* Close, by the owner of the stream.
HostCloses ==
  /\ "break" \in Events /\ host.pc = "recv"
  /\ host' = Closed(host, "other")
  /\ UNCHANGED <<server, wire>>

-----------------------------------------------------------------------------
Next ==
  \/ \E p \in Emitters :
       \/ \E op \in {"snapshot", "end", "changes", "reset"}, left \in 1 .. 2 : Emit(p, op, left)
       \/ EmitFenced(p)
  \/ \E p \in Processes :
       \/ Lock(p) \/ LockHeld(p) \/ SendRefused(p) \/ SendAdmitted(p)
       \/ Enqueue(p) \/ SendAbandoned(p) \/ Acknowledged(p)
  \/ \E ok \in BOOLEAN : SourceReturns(ok) \/ SourceReturnsReset(ok)
  \/ JudgeDone \/ JudgeUnfinished \/ JudgeRefused \/ JudgeLast \/ Retire
  \/ LoopTakes \/ LoopHands \/ Sends \/ SendFails \/ LoopSent
  \/ LoopStalls \/ LoopBreaks \/ LoopDone \/ StreamBreaks
  \/ Recv \/ RecvEnds \/ RecvExpires \/ HostCloses
  \/ \E t \in host.timers : TimerRuns(t)

Spec == Init /\ [][Next]_vars

\* Everything but the callback and the host proceeds by itself; the callback
\* returns once its context has ended, and the stall timer bounds a send.
Fairness ==
  /\ \A p \in Processes :
       WF_vars(SendRefused(p) \/ SendAdmitted(p) \/ Enqueue(p) \/ SendAbandoned(p) \/ Acknowledged(p))
         /\ SF_vars(Lock(p) \/ LockHeld(p))
  /\ WF_vars((retired \/ cancelled \/ root.reset)
              /\ \E ok \in BOOLEAN : SourceReturns(ok) \/ SourceReturnsReset(ok))
  /\ SF_vars(JudgeDone \/ JudgeUnfinished \/ JudgeRefused \/ JudgeLast)
  /\ WF_vars(LoopTakes \/ LoopDone) /\ WF_vars(LoopHands)
  /\ WF_vars(LoopSent \/ LoopStalls) /\ WF_vars(SendFails) /\ WF_vars(LoopBreaks)

FairSpec == Spec /\ Fairness

-----------------------------------------------------------------------------
(* Properties.                                                             *)

\* The state has the shape the Go types give it.
TypeOK ==
  /\ mode \in Modes
  /\ emitter \in EmitterStates
  /\ call \in [Processes -> CallStates]
  /\ root \in RootStates
  /\ retired \in BOOLEAN /\ cancelled \in BOOLEAN /\ broken \in BOOLEAN
  /\ loop \in LoopStates
  /\ wire \in Seq(Frames)
  /\ host \in HostStates

\* Whatever the callback's goroutines do, the host's tracker accepts what comes:
\* no gap and no repetition in the sequence, no frame out of its phase.
HostAcceptsWire ==
  host.pc = "recv" /\ wire # << >> =>
    Head(wire).sequence = host.sequence + 1 /\ Admits(host.phase, Head(wire).kind)

\* An emission is told success only for a frame that the transport took.
AcknowledgedWasSent ==
  host.result = "none" => emitter.acked <= host.sequence + Len(wire)

\* A session ends once: the emitter calls it over only when a terminal frame is
\* on its way or received, and then nothing follows.
TerminalIsLast ==
  /\ emitter.terminal /\ host.result = "none" =>
       host.phase = "terminal" \/ \E i \in DOMAIN wire : Terminal(wire[i].kind)
  /\ \A i \in DOMAIN wire : Terminal(wire[i].kind) => i = Len(wire)

\* An RPC that ends with status OK, on a stream that lives, has delivered a terminal frame to the
\* transport, so that a host that reads on learns how the session ended.  A limit may refuse
\* the handler's own last frame (MinSourceFrameBytes is 1); the call then ends OK without one.
OkMeansComplete ==
  loop.pc = "ok" /\ ~broken /\ host.result = "none" /\ "limit" \notin Events =>
    host.phase = "terminal" \/ \E i \in DOMAIN wire : Terminal(wire[i].kind)

\* The wire carries one session: in sequence, in phase, and ended once.
WireIsOneSession == HostAcceptsWire /\ TerminalIsLast

\* Success means something: an acknowledged emission and a session of status OK
\* were handed to the transport.
OutcomesAreTruthful == AcknowledgedWasSent /\ OkMeansComplete

\* The deadline watches over the snapshot only: a host that was handed the end
\* of the snapshot is never timed out afterwards.
FollowingIsUnlimited ==
  host.told \in {"end", "changes", "reset", "failed"} => ~host.expired /\ host.result # "timeout"

\* No goroutine of the callback stays inside the emitter, though the host may
\* stop reading and the stream may break.
EmissionsReturn ==
  \A p \in Processes : call[p].pc # "idle" ~> call[p].pc = "idle"

\* A retired generation gets its lease back, though the reset it owes the host
\* may meet a host that has stalled.
RetirementReleasesLease ==
  retired ~> root.pc \notin {"source", "leave"}

\* Once the source returned, the call to Open ends.
SessionEnds ==
  root.pc \in {"judge", "last", "done", "refused"} ~> loop.pc \in {"ok", "error"}

\* A session hangs in none of its goroutines, though the host may never read
\* again: emissions return, retirement gets its lease, the call to Open ends.
SessionSettles == EmissionsReturn /\ RetirementReleasesLease /\ SessionEnds
=============================================================================
