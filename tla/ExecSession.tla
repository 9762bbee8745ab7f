---------------------------- MODULE ExecSession -----------------------------
(***************************************************************************)
(* The terminal sessions of pkg/v1/exec: creation, the two goroutines of a *)
(* session (handleStream reads the terminal, handleSignals waits for its   *)
(* end and cleans up), attachment with its replay of buffered output, the  *)
(* sink that all sessions share, CloseSession and Close.                   *)
(*                                                                         *)
(* A creation is one request and the one sessionState it may register.     *)
(* Output is a run of numbered chunks (nextSeq).  Handlers, terminals, the *)
(* admission of WithUtilityConnection and the stream RPC are external.     *)
(* Input and resizing change no state of the manager and are left out.     *)
(***************************************************************************)
EXTENDS Naturals, FiniteSets

CONSTANTS
  Creates,    \* creation requests, and the sessions they register
  Resource,   \* the requests made through CreateResourceSession
  Ids,        \* session IDs
  IdOf,       \* the ID each request asks for
  Capacity,   \* how many chunks the OutputBuffer holds
  MaxChunks,  \* bound: chunks a terminal prints
  MaxEvents,  \* bound: calls and other events from outside
  None        \* no session

ASSUME ExecAssumption ==
  /\ Resource \subseteq Creates
  /\ IdOf \in [Creates -> Ids]
  /\ Capacity \in Nat \ {0} /\ MaxChunks \in Nat /\ MaxEvents \in Nat
  /\ None \notin Creates

VARIABLES
  call,      \* each creation: its goroutine, request and reply
  session,   \* each sessionState and its goroutines
  client,    \* what the attached client of each session was given
  sessions,  \* Manager.sessions: session ID -> session or None
  sink,      \* Manager.sink, by the state of the stream it belongs to
  closing,   \* the call of Close
  events     \* events from outside so far

vars == <<call, session, client, sessions, sink, closing, events>>

-----------------------------------------------------------------------------
(* State.                                                                  *)

Chunks == 0 .. MaxChunks - 1

CreateRecords ==
  [pc : {"idle", "native", "register", "start", "fence", "reject", "end"},
   request : BOOLEAN, reply : {"none", "accepted", "refused"}]

\* live is the session's context; counted tells that Manager.wg knows of it.
SessionRecords ==
  [live : BOOLEAN, stopped : BOOLEAN, terminal : {"none", "open", "closed"},
   stream : {"none", "read", "emit", "end"},
   signals : {"none", "wait", "delete", "signal", "end"},
   attached : BOOLEAN, nextSeq : 0 .. MaxChunks, counted : BOOLEAN]

\* from and known: the replay of the last AttachSession and the chunks since;
\* dropped: chunks the sink did not deliver.
ClientRecords == [from : 0 .. MaxChunks, known : SUBSET Chunks, dropped : SUBSET Chunks]

Init ==
  /\ call = [c \in Creates |-> [pc |-> "idle", request |-> TRUE, reply |-> "none"]]
  /\ session = [c \in Creates |->
                  [live |-> TRUE, stopped |-> FALSE, terminal |-> "none", stream |-> "none",
                   signals |-> "none", attached |-> FALSE, nextSeq |-> 0, counted |-> FALSE]]
  /\ client = [c \in Creates |-> [from |-> 0, known |-> {}, dropped |-> {}]]
  /\ sessions = [i \in Ids |-> None]
  /\ sink = "none"
  /\ closing = "idle"
  /\ events = 0

SetCall(c, record) == call' = [call EXCEPT ![c] = record]
SetSession(c, record) == session' = [session EXCEPT ![c] = record]
Registered(c) == sessions[IdOf[c]] = c
Done(c) == session[c].stream = "end" /\ session[c].signals = "end"

\* Something happens that the manager does not decide.
External == events < MaxEvents /\ events' = events + 1

-----------------------------------------------------------------------------
(* Creation.                                                               *)

\* The creation fails: its context is cancelled and its terminal closed.
Refuse(c) ==
  /\ SetCall(c, [call[c] EXCEPT !.pc = "end", !.reply = "refused"])
  /\ SetSession(c, [session[c] EXCEPT !.live = FALSE,
                      !.terminal = IF @ = "open" THEN "closed" ELSE @])
  /\ UNCHANGED <<client, sessions, sink, closing, events>>

\* createSession: a known ID is refused, and so is a request that has ended.
CreateSession(c) ==
  /\ call[c].pc = "idle"
  /\ IF sessions[IdOf[c]] # None \/ (c \in Resource /\ ~call[c].request)
       THEN Refuse(c)
       ELSE /\ SetCall(c, [call[c] EXCEPT !.pc = "native"])
            /\ SetSession(c, [session[c] EXCEPT !.terminal = "open"])
            /\ UNCHANGED <<client, sessions, sink, closing, events>>

\* The terminal factory and the TTYHandler, which may fail.
StartNative(c) ==
  /\ call[c].pc = "native"
  /\ \/ Refuse(c)
     \/ /\ SetCall(c, [call[c] EXCEPT !.pc = "register"])
        /\ UNCHANGED <<session, client, sessions, sink, closing, events>>

\* registerSession under Manager.mu: the ID is looked up again, and a resource
\* request must not have ended before its bridge to the session is taken down.
Register(c) ==
  /\ sessions' = [sessions EXCEPT ![IdOf[c]] = c]
  /\ SetCall(c, [call[c] EXCEPT !.pc = "start"])
  /\ UNCHANGED <<session, client, sink, closing, events>>

\* Mutant of RegisterSession: the ID is not looked up again.
RegisterSessionOver(c) ==
  /\ call[c].pc = "register"
  /\ IF c \in Resource /\ ~call[c].request THEN Refuse(c) ELSE Register(c)

RegisterSession(c) ==
  /\ call[c].pc = "register"
  /\ IF sessions[IdOf[c]] # None \/ (c \in Resource /\ ~call[c].request)
       THEN Refuse(c) ELSE Register(c)

\* The goroutines are started, and only now does Manager.wg count the session.
StartWorkers(c) ==
  /\ call[c].pc = "start"
  /\ SetSession(c, [session[c] EXCEPT !.stream = "read", !.signals = "wait", !.counted = TRUE])
  /\ SetCall(c, IF c \in Resource THEN [call[c] EXCEPT !.pc = "fence"]
                ELSE [call[c] EXCEPT !.pc = "end", !.reply = "accepted"])
  /\ UNCHANGED <<client, sessions, sink, closing, events>>

\* The second half of WithUtilityConnection accepts the session, or refuses it:
\* then whatever session has the ID is closed.
Fence(c) ==
  /\ call[c].pc = "fence"
  /\ \/ SetCall(c, [call[c] EXCEPT !.pc = "end", !.reply = "accepted"])
     \/ SetCall(c, [call[c] EXCEPT !.pc = "reject"])
  /\ UNCHANGED <<session, client, sessions, sink, closing, events>>

Cancelled(S) == [c \in Creates |-> IF c \in S THEN [session[c] EXCEPT !.live = FALSE] ELSE session[c]]

\* Mutant of Reject: the session is left to itself.
RejectOnly(c) ==
  /\ call[c].pc = "reject"
  /\ SetCall(c, [call[c] EXCEPT !.pc = "end", !.reply = "refused"])
  /\ UNCHANGED <<session, client, sessions, sink, closing, events>>

Reject(c) ==
  /\ call[c].pc = "reject"
  /\ session' = Cancelled({d \in Creates : d = sessions[IdOf[c]]})
  /\ SetCall(c, [call[c] EXCEPT !.pc = "end", !.reply = "refused"])
  /\ UNCHANGED <<client, sessions, sink, closing, events>>

-----------------------------------------------------------------------------
(* handleStream.                                                           *)

\* The terminal prints: the chunk is buffered and the attachment is read under
\* the lock that AttachSession takes.
ReadChunk(c) ==
  LET s == session[c] IN
  /\ s.stream = "read" /\ s.terminal = "open" /\ s.nextSeq < MaxChunks
  /\ SetSession(c, [s EXCEPT !.nextSeq = @ + 1, !.stream = IF s.attached THEN "emit" ELSE "read"])
  /\ UNCHANGED <<call, client, sessions, sink, closing, events>>

\* emitOutput outside the lock.  Without a sink the chunk is lost; the sink of
\* a stream that ended delivers it or drops it.
EmitChunk(c) ==
  LET chunk == session[c].nextSeq - 1 IN
  /\ session[c].stream = "emit"
  /\ \/ /\ sink # "none"
        /\ client' = [client EXCEPT ![c].known = @ \cup {chunk}]
     \/ /\ sink # "live"
        /\ client' = [client EXCEPT ![c].dropped = @ \cup {chunk}]
  /\ SetSession(c, [session[c] EXCEPT !.stream = "read"])
  /\ UNCHANGED <<call, sessions, sink, closing, events>>

\* The end of the output, or a terminal that was closed: the session ends.
ReadFails(c) ==
  /\ session[c].stream = "read"
  /\ SetSession(c, [session[c] EXCEPT !.stream = "end", !.live = FALSE])
  /\ UNCHANGED <<call, client, sessions, sink, closing, events>>

-----------------------------------------------------------------------------
(* handleSignals and cleanupSession.                                       *)

\* The handler stopped or the session was cancelled: the terminal is closed.
Signalled(c) ==
  /\ session[c].signals = "wait" /\ (session[c].stopped \/ ~session[c].live)
  /\ SetSession(c, [session[c] EXCEPT !.signals = "delete", !.terminal = "closed"])
  /\ UNCHANGED <<call, client, sessions, sink, closing, events>>

\* The entry is deleted by its ID.
DeleteEntry(c) ==
  /\ session[c].signals = "delete"
  /\ sessions' = [sessions EXCEPT ![IdOf[c]] = None]
  /\ SetSession(c, [session[c] EXCEPT !.signals = "signal"])
  /\ UNCHANGED <<call, client, sink, closing, events>>

\* The context is cancelled and the closing output is emitted.
EmitClose(c) ==
  /\ session[c].signals = "signal"
  /\ SetSession(c, [session[c] EXCEPT !.signals = "end", !.live = FALSE])
  /\ UNCHANGED <<call, client, sessions, sink, closing, events>>

-----------------------------------------------------------------------------
(* Calls and events from outside.                                          *)

\* Mutant of AttachSession: the buffer is read before the session is attached.
AttachSessionLate(c) ==
  /\ Registered(c) /\ External
  /\ \/ /\ SetSession(c, [session[c] EXCEPT !.attached = TRUE])
        /\ UNCHANGED client
     \/ /\ client' = [client EXCEPT ![c] =
              [from |-> 0, known |-> 0 .. session[c].nextSeq - 1, dropped |-> {}]]
        /\ UNCHANGED session
  /\ UNCHANGED <<call, sessions, sink, closing>>

\* AttachSession: attached is set and the buffer copied under one lock.
AttachSession(c) ==
  LET next == session[c].nextSeq
      from == IF next > Capacity THEN next - Capacity ELSE 0 IN
  /\ Registered(c) /\ External
  /\ SetSession(c, [session[c] EXCEPT !.attached = TRUE])
  /\ client' = [client EXCEPT ![c] = [from |-> from, known |-> from .. next - 1, dropped |-> {}]]
  /\ UNCHANGED <<call, sessions, sink, closing>>

DetachSession(c) ==
  /\ Registered(c) /\ session[c].attached /\ External
  /\ SetSession(c, [session[c] EXCEPT !.attached = FALSE])
  /\ UNCHANGED <<call, client, sessions, sink, closing>>

\* CloseSession cancels, and then waits for the session or for ten seconds.
CloseSession(c) ==
  /\ Registered(c) /\ External
  /\ session' = Cancelled({c})
  /\ UNCHANGED <<call, client, sessions, sink, closing>>

HandlerStops(c) ==
  /\ session[c].terminal = "open" /\ ~session[c].stopped /\ External
  /\ SetSession(c, [session[c] EXCEPT !.stopped = TRUE])
  /\ UNCHANGED <<call, client, sessions, sink, closing>>

\* The request of a creation ends; until the session is registered this cancels it.
RequestEnds(c) ==
  /\ c \in Resource /\ call[c].request /\ call[c].pc # "end" /\ External
  /\ SetCall(c, [call[c] EXCEPT !.request = FALSE])
  /\ session' = IF call[c].pc \in {"native", "register"} THEN Cancelled({c}) ELSE session
  /\ UNCHANGED <<client, sessions, sink, closing>>

\* The first Stream installs the sink, a later one finds it there.
Stream ==
  /\ sink = "none" /\ External
  /\ sink' = "live"
  /\ UNCHANGED <<call, session, client, sessions, closing>>

\* The stream ends.  handleStreamInput sees its context end and cancels all
\* sessions, or sees its input closed and returns.
StreamEnds ==
  /\ sink = "live" /\ External
  /\ sink' = "dead"
  /\ \/ session' = Cancelled({c \in Creates : Registered(c)})
     \/ UNCHANGED session
  /\ UNCHANGED <<call, client, sessions, closing>>

\* Close cancels the sessions it finds and waits for those Manager.wg counts.
Close ==
  /\ closing = "idle" /\ External
  /\ session' = Cancelled({c \in Creates : Registered(c)})
  /\ closing' = "wait"
  /\ UNCHANGED <<call, client, sessions, sink>>

CloseReturns ==
  /\ closing = "wait"
  /\ \A c \in Creates : session[c].counted => Done(c)
  /\ closing' = "end"
  /\ UNCHANGED <<call, session, client, sessions, sink, events>>

-----------------------------------------------------------------------------
(* The specification.                                                      *)

Creating(c) ==
  \/ CreateSession(c) \/ StartNative(c) \/ RegisterSession(c) \/ StartWorkers(c)
  \/ Fence(c) \/ Reject(c)

CleaningUp(c) == Signalled(c) \/ DeleteEntry(c) \/ EmitClose(c)

Next ==
  \/ \E c \in Creates :
       \/ Creating(c) \/ ReadChunk(c) \/ EmitChunk(c) \/ ReadFails(c) \/ CleaningUp(c)
       \/ AttachSession(c) \/ DetachSession(c) \/ CloseSession(c)
       \/ HandlerStops(c) \/ RequestEnds(c)
  \/ Stream \/ StreamEnds \/ Close \/ CloseReturns

Spec == Init /\ [][Next]_vars

\* Goroutines that have begun go on: handlers return, a closed terminal ends
\* the reads on it, and whoever reads the stream goes on reading it.
FairSpec ==
  /\ Spec
  /\ \A c \in Creates :
       /\ WF_vars(Creating(c) /\ call[c].pc # "idle")
       /\ WF_vars(EmitChunk(c))
       /\ WF_vars(ReadFails(c) /\ session[c].terminal = "closed")
       /\ WF_vars(CleaningUp(c))
  /\ WF_vars(CloseReturns)

-----------------------------------------------------------------------------
(* Properties.                                                             *)

TypeOK ==
  /\ call \in [Creates -> CreateRecords]
  /\ session \in [Creates -> SessionRecords]
  /\ client \in [Creates -> ClientRecords]
  /\ sessions \in [Ids -> Creates \cup {None}]
  /\ sink \in {"none", "live", "dead"}
  /\ closing \in {"idle", "wait", "end"}
  /\ events \in 0 .. MaxEvents

\* A session is registered from registerSession to its own cleanup, although
\* two creations may ask for one ID at a time and cleanupSession deletes by ID.
RegisteredWhileRunning ==
  \A c \in Creates :
    (call[c].pc = "start" \/ session[c].signals \in {"wait", "delete"}) <=> Registered(c)

\* An attached client misses nothing: every chunk from the start of its replay
\* on was replayed, sent, dropped by the sink, or is about to be sent
\* (handleStream and AttachSession race for the buffer).
AttachmentMissesNothing ==
  \A c \in Creates :
    session[c].attached =>
      client[c].from .. session[c].nextSeq - 1 \subseteq
        client[c].known \cup client[c].dropped
          \cup (IF session[c].stream = "emit" THEN {session[c].nextSeq - 1} ELSE {})

\* A session that was cancelled, whose handler stopped, whose output ended or
\* whose creation was refused is cleaned up; Close returns, unless a session
\* registered after its sweep, which nothing cancels, keeps it waiting.
EverySessionEnds ==
  /\ \A c \in Creates :
       session[c].counted /\ (~session[c].live \/ session[c].stopped \/ call[c].reply = "refused")
         ~> Done(c)
  /\ closing = "wait" ~> closing = "end" \/ \E c \in Creates : session[c].counted /\ session[c].live
=============================================================================
