------------------------- MODULE ExecSessionProofs --------------------------
(***************************************************************************)
(* Theorems about ExecSession for any sets of creations and session IDs,   *)
(* any assignment of IDs to creations, any buffer and any amount of output. *)
(***************************************************************************)
EXTENDS ExecSession, Integers, TLAPS

-----------------------------------------------------------------------------
(* The inductive invariant.                                                *)

\* A creation has no goroutines before createSession starts them, and the
\* chunk that handleStream is sending was numbered by it.
Own(c) ==
  /\ call[c].pc \in {"idle", "native", "register", "start"} =>
       session[c].stream = "none" /\ session[c].signals = "none"
  /\ session[c].stream = "emit" => session[c].nextSeq > 0

\* What the client of one session was given.
Covered(c) ==
  session[c].attached =>
    \A n \in Chunks :
      client[c].from <= n /\ n < session[c].nextSeq =>
        \/ n \in client[c].known \cup client[c].dropped
        \/ session[c].stream = "emit" /\ n = session[c].nextSeq - 1

IInv ==
  /\ TypeOK
  /\ \A c \in Creates : Own(c)
  /\ \A c \in Creates : Covered(c)
  /\ RegisteredWhileRunning

-----------------------------------------------------------------------------
(* What the updates of one creation, session or client do.                 *)

LEMMA CallFacts ==
  ASSUME TypeOK, NEW c \in Creates, NEW r \in CreateRecords, SetCall(c, r)
  PROVE  /\ call' \in [Creates -> CreateRecords]
         /\ call'[c] = r
         /\ \A d \in Creates : d # c => call'[d] = call[d]
  BY DEF TypeOK, SetCall

LEMMA SessionFacts ==
  ASSUME TypeOK, NEW c \in Creates, NEW r \in SessionRecords, SetSession(c, r)
  PROVE  /\ session' \in [Creates -> SessionRecords]
         /\ session'[c] = r
         /\ \A d \in Creates : d # c => session'[d] = session[d]
  BY DEF TypeOK, SetSession

\* Cancelling sessions changes nothing but their contexts.
LEMMA CancelledFacts ==
  ASSUME TypeOK, NEW S, session' = Cancelled(S)
  PROVE  /\ session' \in [Creates -> SessionRecords]
         /\ \A c \in Creates :
              /\ session'[c].stream = session[c].stream
              /\ session'[c].signals = session[c].signals
              /\ session'[c].attached = session[c].attached
              /\ session'[c].nextSeq = session[c].nextSeq
  <1>1. ASSUME NEW c \in Creates
        PROVE  LET r == [session[c] EXCEPT !.live = FALSE] IN
               /\ r \in SessionRecords /\ r.stream = session[c].stream
               /\ r.signals = session[c].signals /\ r.attached = session[c].attached
               /\ r.nextSeq = session[c].nextSeq
    BY DEF TypeOK, SessionRecords
  <1> QED BY <1>1 DEF Cancelled, TypeOK

\* A step that leaves the goroutines, the attachments, the clients and the map
\* alone, and moves no creation across registerSession or StartWorkers.
LEMMA QuietStep ==
  ASSUME IInv, TypeOK',
         UNCHANGED <<client, sessions>>,
         \A c \in Creates :
           /\ session'[c].stream = session[c].stream
           /\ session'[c].signals = session[c].signals
           /\ session'[c].attached = session[c].attached
           /\ session'[c].nextSeq = session[c].nextSeq
           /\ \/ call'[c].pc = call[c].pc
              \/ call[c].pc # "start" /\ call'[c].pc # "start"
                 /\ (call[c].pc \in {"idle", "native", "register"}
                      \/ call'[c].pc \notin {"idle", "native", "register"})
  PROVE  IInv'
  <1>1. \A c \in Creates : Own(c)'
    BY DEF IInv, Own
  <1>2. \A c \in Creates : Covered(c)'
    BY DEF IInv, Covered
  <1>3. RegisteredWhileRunning'
    BY DEF IInv, RegisteredWhileRunning, Registered
  <1> QED BY <1>1, <1>2, <1>3 DEF IInv

-----------------------------------------------------------------------------
(* Creation.                                                               *)

LEMMA RefuseStep ==
  ASSUME IInv, NEW c \in Creates, call[c].pc \in {"idle", "native", "register"}, Refuse(c)
  PROVE  IInv'
  <1> DEFINE r == [call[c] EXCEPT !.pc = "end", !.reply = "refused"]
             s == [session[c] EXCEPT !.live = FALSE,
                     !.terminal = IF @ = "open" THEN "closed" ELSE @]
  <1>0. TypeOK BY DEF IInv
  <1>1. r \in CreateRecords /\ r.pc = "end"
    BY <1>0 DEF TypeOK, CreateRecords
  <1>2. /\ s \in SessionRecords /\ s.stream = session[c].stream
        /\ s.signals = session[c].signals /\ s.attached = session[c].attached
        /\ s.nextSeq = session[c].nextSeq
    BY <1>0 DEF TypeOK, SessionRecords
  <1>3. SetCall(c, r) /\ SetSession(c, s) /\ UNCHANGED <<client, sessions, sink, closing, events>>
    BY DEF Refuse
  <1> HIDE DEF r, s
  <1>4. /\ call' \in [Creates -> CreateRecords] /\ call'[c] = r
        /\ \A d \in Creates : d # c => call'[d] = call[d]
    BY <1>0, <1>1, <1>3, CallFacts
  <1>5. /\ session' \in [Creates -> SessionRecords] /\ session'[c] = s
        /\ \A d \in Creates : d # c => session'[d] = session[d]
    BY <1>0, <1>2, <1>3, SessionFacts
  <1>6. TypeOK'
    BY <1>0, <1>3, <1>4, <1>5 DEF TypeOK
  <1> QED BY <1>1, <1>2, <1>3, <1>4, <1>5, <1>6, QuietStep

LEMMA CreateStep ==
  ASSUME IInv, NEW c \in Creates, CreateSession(c)
  PROVE  IInv'
  <1> DEFINE r == [call[c] EXCEPT !.pc = "native"]
             s == [session[c] EXCEPT !.terminal = "open"]
  <1>0. TypeOK BY DEF IInv
  <1>a. CASE Refuse(c)
    BY <1>a, RefuseStep DEF CreateSession
  <1>b. CASE SetCall(c, r) /\ SetSession(c, s) /\ UNCHANGED <<client, sessions, sink, closing, events>>
    <2>1. r \in CreateRecords /\ r.pc = "native"
      BY <1>0 DEF TypeOK, CreateRecords
    <2>2. /\ s \in SessionRecords /\ s.stream = session[c].stream
          /\ s.signals = session[c].signals /\ s.attached = session[c].attached
          /\ s.nextSeq = session[c].nextSeq
      BY <1>0 DEF TypeOK, SessionRecords
    <2>3. call[c].pc = "idle"
      BY DEF CreateSession
    <2> HIDE DEF r, s
    <2>4. /\ call' \in [Creates -> CreateRecords] /\ call'[c] = r
          /\ \A d \in Creates : d # c => call'[d] = call[d]
      BY <1>0, <1>b, <2>1, CallFacts
    <2>5. /\ session' \in [Creates -> SessionRecords] /\ session'[c] = s
          /\ \A d \in Creates : d # c => session'[d] = session[d]
      BY <1>0, <1>b, <2>2, SessionFacts
    <2>6. TypeOK'
      BY <1>0, <1>b, <2>4, <2>5 DEF TypeOK
    <2> QED BY <1>b, <2>1, <2>2, <2>3, <2>4, <2>5, <2>6, QuietStep
  <1> QED BY <1>a, <1>b DEF CreateSession

LEMMA NativeStep ==
  ASSUME IInv, NEW c \in Creates, StartNative(c)
  PROVE  IInv'
  <1> DEFINE r == [call[c] EXCEPT !.pc = "register"]
  <1>0. TypeOK /\ call[c].pc = "native" BY DEF IInv, StartNative
  <1>a. CASE Refuse(c)
    BY <1>0, <1>a, RefuseStep
  <1>b. CASE SetCall(c, r) /\ UNCHANGED <<session, client, sessions, sink, closing, events>>
    <2>1. r \in CreateRecords /\ r.pc = "register"
      BY <1>0 DEF TypeOK, CreateRecords
    <2> HIDE DEF r
    <2>2. /\ call' \in [Creates -> CreateRecords] /\ call'[c] = r
          /\ \A d \in Creates : d # c => call'[d] = call[d]
      BY <1>0, <1>b, <2>1, CallFacts
    <2>3. TypeOK'
      BY <1>0, <1>b, <2>2 DEF TypeOK
    <2> QED BY <1>0, <1>b, <2>1, <2>2, <2>3, QuietStep
  <1> QED BY <1>a, <1>b DEF StartNative

\* The ID was free under the lock, so no other session loses its entry.
LEMMA RegisterStep ==
  ASSUME IInv, NEW c \in Creates, RegisterSession(c)
  PROVE  IInv'
  <1> DEFINE r == [call[c] EXCEPT !.pc = "start"]
  <1>0. TypeOK /\ call[c].pc = "register" BY DEF IInv, RegisterSession
  <1>a. CASE Refuse(c)
    BY <1>0, <1>a, RefuseStep
  <1>b. CASE Register(c) /\ sessions[IdOf[c]] = None
    <2>1. r \in CreateRecords /\ r.pc = "start"
      BY <1>0 DEF TypeOK, CreateRecords
    <2>2. SetCall(c, r) /\ UNCHANGED <<session, client, sink, closing, events>>
      BY <1>b DEF Register
    <2> HIDE DEF r
    <2>3. /\ call' \in [Creates -> CreateRecords] /\ call'[c] = r
          /\ \A d \in Creates : d # c => call'[d] = call[d]
      BY <1>0, <2>1, <2>2, CallFacts
    <2>4. /\ sessions' \in [Ids -> Creates \cup {None}]
          /\ IdOf[c] \in Ids /\ sessions'[IdOf[c]] = c
          /\ \A i \in Ids : i # IdOf[c] => sessions'[i] = sessions[i]
      BY <1>0, <1>b, ExecAssumption DEF TypeOK, Register
    <2>5. TypeOK'
      BY <1>0, <2>2, <2>3, <2>4 DEF TypeOK
    <2>6. \A d \in Creates : Own(d)'
      BY <1>0, <2>1, <2>2, <2>3 DEF IInv, Own
    <2>7. \A d \in Creates : Covered(d)'
      BY <2>2 DEF IInv, Covered
    <2>8. RegisteredWhileRunning'
      <3> SUFFICES ASSUME NEW d \in Creates
                   PROVE  (call'[d].pc = "start" \/ session'[d].signals \in {"wait", "delete"})
                            <=> sessions'[IdOf[d]] = d
        BY DEF RegisteredWhileRunning, Registered
      <3>1. CASE d = c
        BY <2>1, <2>3, <2>4, <3>1
      <3>2. CASE d # c
        <4>1. IdOf[d] \in Ids /\ None # d
          BY ExecAssumption
        <4>2. (call[d].pc = "start" \/ session[d].signals \in {"wait", "delete"})
                <=> sessions[IdOf[d]] = d
          BY DEF IInv, RegisteredWhileRunning, Registered
        <4> QED BY <1>b, <2>2, <2>3, <2>4, <3>2, <4>1, <4>2
      <3> QED BY <3>1, <3>2
    <2> QED BY <2>5, <2>6, <2>7, <2>8 DEF IInv
  <1> QED BY <1>a, <1>b DEF RegisterSession

LEMMA WorkersStep ==
  ASSUME IInv, NEW c \in Creates, StartWorkers(c)
  PROVE  IInv'
  <1> DEFINE r == IF c \in Resource THEN [call[c] EXCEPT !.pc = "fence"]
                  ELSE [call[c] EXCEPT !.pc = "end", !.reply = "accepted"]
             s == [session[c] EXCEPT !.stream = "read", !.signals = "wait", !.counted = TRUE]
  <1>0. TypeOK /\ call[c].pc = "start" BY DEF IInv, StartWorkers
  <1>1. r \in CreateRecords /\ r.pc \in {"fence", "end"}
    BY <1>0 DEF TypeOK, CreateRecords
  <1>2. /\ s \in SessionRecords /\ s.stream = "read" /\ s.signals = "wait"
        /\ s.attached = session[c].attached /\ s.nextSeq = session[c].nextSeq
    BY <1>0 DEF TypeOK, SessionRecords
  <1>3. SetCall(c, r) /\ SetSession(c, s) /\ UNCHANGED <<client, sessions, sink, closing, events>>
    BY DEF StartWorkers
  <1> HIDE DEF r, s
  <1>4. /\ call' \in [Creates -> CreateRecords] /\ call'[c] = r
        /\ \A d \in Creates : d # c => call'[d] = call[d]
    BY <1>0, <1>1, <1>3, CallFacts
  <1>5. /\ session' \in [Creates -> SessionRecords] /\ session'[c] = s
        /\ \A d \in Creates : d # c => session'[d] = session[d]
    BY <1>0, <1>2, <1>3, SessionFacts
  <1>6. TypeOK'
    BY <1>0, <1>3, <1>4, <1>5 DEF TypeOK
  <1>7. \A d \in Creates : Own(d)'
    BY <1>1, <1>2, <1>4, <1>5 DEF IInv, Own
  <1>8. \A d \in Creates : Covered(d)'
    <2>1. session[c].stream # "emit"
      BY <1>0 DEF IInv, Own
    <2> QED BY <1>2, <1>3, <1>5, <2>1 DEF IInv, Covered
  <1>9. RegisteredWhileRunning'
    BY <1>0, <1>1, <1>2, <1>3, <1>4, <1>5 DEF IInv, RegisteredWhileRunning, Registered
  <1> QED BY <1>6, <1>7, <1>8, <1>9 DEF IInv

LEMMA FenceStep ==
  ASSUME IInv, NEW c \in Creates, Fence(c)
  PROVE  IInv'
  <1> DEFINE Target(r) == r \in CreateRecords /\ r.pc \in {"end", "reject"}
  <1>0. TypeOK /\ call[c].pc = "fence" BY DEF IInv, Fence
  <1>1. PICK r : Target(r) /\ SetCall(c, r)
    <2>1. /\ Target([call[c] EXCEPT !.pc = "end", !.reply = "accepted"])
          /\ Target([call[c] EXCEPT !.pc = "reject"])
      BY <1>0 DEF TypeOK, CreateRecords
    <2> HIDE DEF Target
    <2> QED BY <2>1 DEF Fence
  <1>2. /\ call' \in [Creates -> CreateRecords] /\ call'[c] = r
        /\ \A d \in Creates : d # c => call'[d] = call[d]
    BY <1>0, <1>1, CallFacts
  <1>3. UNCHANGED <<session, client, sessions, sink, closing, events>>
    BY DEF Fence
  <1>4. TypeOK'
    BY <1>0, <1>2, <1>3 DEF TypeOK
  <1> QED BY <1>0, <1>1, <1>2, <1>3, <1>4, QuietStep

LEMMA RejectStep ==
  ASSUME IInv, NEW c \in Creates, Reject(c)
  PROVE  IInv'
  <1> DEFINE r == [call[c] EXCEPT !.pc = "end", !.reply = "refused"]
  <1>0. TypeOK /\ call[c].pc = "reject" BY DEF IInv, Reject
  <1>1. r \in CreateRecords /\ r.pc = "end"
    BY <1>0 DEF TypeOK, CreateRecords
  <1>2. SetCall(c, r) /\ UNCHANGED <<client, sessions, sink, closing, events>>
    BY DEF Reject
  <1> HIDE DEF r
  <1>3. /\ call' \in [Creates -> CreateRecords] /\ call'[c] = r
        /\ \A d \in Creates : d # c => call'[d] = call[d]
    BY <1>0, <1>1, <1>2, CallFacts
  <1>4. /\ session' \in [Creates -> SessionRecords]
        /\ \A d \in Creates :
             /\ session'[d].stream = session[d].stream
             /\ session'[d].signals = session[d].signals
             /\ session'[d].attached = session[d].attached
             /\ session'[d].nextSeq = session[d].nextSeq
    BY <1>0, CancelledFacts DEF Reject
  <1>5. TypeOK'
    BY <1>0, <1>2, <1>3, <1>4 DEF TypeOK
  <1> QED BY <1>0, <1>1, <1>2, <1>3, <1>4, <1>5, QuietStep

-----------------------------------------------------------------------------
(* handleStream.                                                           *)

\* The chunk of an attached session is pending from the moment it is numbered.
LEMMA ReadStep ==
  ASSUME IInv, NEW c \in Creates, ReadChunk(c)
  PROVE  IInv'
  <1> DEFINE s == [session[c] EXCEPT !.nextSeq = @ + 1,
                     !.stream = IF session[c].attached THEN "emit" ELSE "read"]
  <1>0. /\ TypeOK /\ session[c] \in SessionRecords
        /\ session[c].stream = "read" /\ session[c].nextSeq < MaxChunks
    BY DEF IInv, ReadChunk, TypeOK
  <1>1. session[c].nextSeq \in Nat /\ MaxChunks \in Nat
    BY <1>0, ExecAssumption DEF SessionRecords
  <1>2. /\ s \in SessionRecords /\ s.nextSeq = session[c].nextSeq + 1
        /\ s.stream = (IF session[c].attached THEN "emit" ELSE "read")
        /\ s.signals = session[c].signals /\ s.attached = session[c].attached
    <2>1. session[c].nextSeq + 1 \in 0 .. MaxChunks
      BY <1>0, <1>1
    <2>2. (IF session[c].attached THEN "emit" ELSE "read") \in {"none", "read", "emit", "end"}
      OBVIOUS
    <2> QED BY <1>0, <2>1, <2>2 DEF SessionRecords
  <1>3. SetSession(c, s) /\ UNCHANGED <<call, client, sessions, sink, closing, events>>
    BY DEF ReadChunk
  <1> HIDE DEF s
  <1>4. /\ session' \in [Creates -> SessionRecords] /\ session'[c] = s
        /\ \A d \in Creates : d # c => session'[d] = session[d]
    BY <1>0, <1>2, <1>3, SessionFacts
  <1>5. TypeOK'
    BY <1>0, <1>3, <1>4 DEF TypeOK
  <1>6. \A d \in Creates : Own(d)'
    <2>1. call[c].pc \notin {"idle", "native", "register", "start"}
      BY <1>0 DEF IInv, Own
    <2>2. s.nextSeq > 0 BY <1>1, <1>2
    <2> QED BY <1>3, <1>4, <2>1, <2>2 DEF IInv, Own
  <1>7. ASSUME NEW d \in Creates PROVE Covered(d)'
    <2>1. CASE d # c
      BY <1>3, <1>4, <2>1 DEF IInv, Covered
    <2>2. CASE d = c
      <3> SUFFICES ASSUME session[c].attached, NEW n \in Chunks,
                          client[c].from <= n, n < s.nextSeq
                   PROVE  \/ n \in client[c].known \cup client[c].dropped
                          \/ s.stream = "emit" /\ n = s.nextSeq - 1
        BY <1>2, <1>3, <1>4, <2>2 DEF Covered
      <3>1. n \in Int BY DEF Chunks
      <3>2. CASE n = session[c].nextSeq
        BY <1>1, <1>2, <3>2
      <3>3. CASE n < session[c].nextSeq
        BY <1>0, <3>3 DEF IInv, Covered
      <3> QED BY <1>1, <1>2, <3>1, <3>2, <3>3
    <2> QED BY <2>1, <2>2
  <1>8. RegisteredWhileRunning'
    BY <1>2, <1>3, <1>4 DEF IInv, RegisteredWhileRunning, Registered
  <1> QED BY <1>5, <1>6, <1>7, <1>8 DEF IInv

\* The sink delivers the pending chunk or drops it.
LEMMA EmitStep ==
  ASSUME IInv, NEW c \in Creates, EmitChunk(c)
  PROVE  IInv'
  <1> DEFINE s == [session[c] EXCEPT !.stream = "read"]
             chunk == session[c].nextSeq - 1
  <1>0. /\ TypeOK /\ session[c] \in SessionRecords /\ client[c] \in ClientRecords
        /\ session[c].stream = "emit" /\ session[c].nextSeq > 0
    BY DEF IInv, EmitChunk, TypeOK, Own
  <1>1. /\ s \in SessionRecords /\ s.nextSeq = session[c].nextSeq /\ s.stream = "read"
        /\ s.signals = session[c].signals /\ s.attached = session[c].attached
    BY <1>0 DEF SessionRecords
  <1>2. SetSession(c, s) /\ UNCHANGED <<call, sessions, sink, closing, events>>
    BY DEF EmitChunk
  <1>3. chunk \in Chunks
    BY <1>0, ExecAssumption DEF SessionRecords, Chunks
  <1>4. \/ client' = [client EXCEPT ![c].known = @ \cup {chunk}]
        \/ client' = [client EXCEPT ![c].dropped = @ \cup {chunk}]
    BY DEF EmitChunk
  <1> HIDE DEF s, chunk
  <1>5. /\ client' \in [Creates -> ClientRecords]
        /\ client'[c].from = client[c].from
        /\ client'[c].known \cup client'[c].dropped
             = client[c].known \cup client[c].dropped \cup {chunk}
        /\ \A d \in Creates : d # c => client'[d] = client[d]
    <2>1. LET k == [client[c] EXCEPT !.known = @ \cup {chunk}] IN
          /\ k \in ClientRecords /\ k.from = client[c].from
          /\ k.known = client[c].known \cup {chunk} /\ k.dropped = client[c].dropped
      BY <1>0, <1>3 DEF ClientRecords
    <2>2. LET k == [client[c] EXCEPT !.dropped = @ \cup {chunk}] IN
          /\ k \in ClientRecords /\ k.from = client[c].from
          /\ k.dropped = client[c].dropped \cup {chunk} /\ k.known = client[c].known
      BY <1>0, <1>3 DEF ClientRecords
    <2>3. CASE client' = [client EXCEPT ![c].known = @ \cup {chunk}]
      BY <1>0, <2>1, <2>3 DEF TypeOK
    <2>4. CASE client' = [client EXCEPT ![c].dropped = @ \cup {chunk}]
      BY <1>0, <2>2, <2>4 DEF TypeOK
    <2> QED BY <1>4, <2>3, <2>4
  <1>6. /\ session' \in [Creates -> SessionRecords] /\ session'[c] = s
        /\ \A d \in Creates : d # c => session'[d] = session[d]
    BY <1>0, <1>1, <1>2, SessionFacts
  <1>7. TypeOK'
    BY <1>0, <1>2, <1>5, <1>6 DEF TypeOK
  <1>8. \A d \in Creates : Own(d)'
    <2>1. call[c].pc \notin {"idle", "native", "register", "start"}
      BY <1>0 DEF IInv, Own
    <2> QED BY <1>1, <1>2, <1>6, <2>1 DEF IInv, Own
  <1>9. ASSUME NEW d \in Creates PROVE Covered(d)'
    <2>1. CASE d # c
      BY <1>5, <1>6, <2>1 DEF IInv, Covered
    <2>2. CASE d = c
      <3> SUFFICES ASSUME session[c].attached, NEW n \in Chunks,
                          client[c].from <= n, n < session[c].nextSeq
                   PROVE  n \in client'[c].known \cup client'[c].dropped
        BY <1>1, <1>5, <1>6, <2>2 DEF Covered
      <3>1. n \in client[c].known \cup client[c].dropped \/ n = session[c].nextSeq - 1
        BY DEF IInv, Covered
      <3> QED BY <1>5, <3>1 DEF chunk
    <2> QED BY <2>1, <2>2
  <1>10. RegisteredWhileRunning'
    BY <1>1, <1>2, <1>6 DEF IInv, RegisteredWhileRunning, Registered
  <1> QED BY <1>7, <1>8, <1>9, <1>10 DEF IInv

LEMMA ReadFailsStep ==
  ASSUME IInv, NEW c \in Creates, ReadFails(c)
  PROVE  IInv'
  <1> DEFINE s == [session[c] EXCEPT !.stream = "end", !.live = FALSE]
  <1>0. TypeOK /\ session[c].stream = "read" BY DEF IInv, ReadFails
  <1>1. /\ s \in SessionRecords /\ s.nextSeq = session[c].nextSeq /\ s.stream = "end"
        /\ s.signals = session[c].signals /\ s.attached = session[c].attached
    BY <1>0 DEF TypeOK, SessionRecords
  <1>2. SetSession(c, s) /\ UNCHANGED <<call, client, sessions, sink, closing, events>>
    BY DEF ReadFails
  <1> HIDE DEF s
  <1>3. /\ session' \in [Creates -> SessionRecords] /\ session'[c] = s
        /\ \A d \in Creates : d # c => session'[d] = session[d]
    BY <1>0, <1>1, <1>2, SessionFacts
  <1>4. TypeOK'
    BY <1>0, <1>2, <1>3 DEF TypeOK
  <1>5. \A d \in Creates : Own(d)'
    BY <1>0, <1>1, <1>2, <1>3 DEF IInv, Own
  <1>6. \A d \in Creates : Covered(d)'
    BY <1>0, <1>1, <1>2, <1>3 DEF IInv, Covered
  <1>7. RegisteredWhileRunning'
    BY <1>1, <1>2, <1>3 DEF IInv, RegisteredWhileRunning, Registered
  <1> QED BY <1>4, <1>5, <1>6, <1>7 DEF IInv

-----------------------------------------------------------------------------
(* handleSignals and cleanupSession.                                       *)

LEMMA SignalledStep ==
  ASSUME IInv, NEW c \in Creates, Signalled(c)
  PROVE  IInv'
  <1> DEFINE s == [session[c] EXCEPT !.signals = "delete", !.terminal = "closed"]
  <1>0. TypeOK /\ session[c].signals = "wait" BY DEF IInv, Signalled
  <1>1. /\ s \in SessionRecords /\ s.nextSeq = session[c].nextSeq /\ s.signals = "delete"
        /\ s.stream = session[c].stream /\ s.attached = session[c].attached
    BY <1>0 DEF TypeOK, SessionRecords
  <1>2. SetSession(c, s) /\ UNCHANGED <<call, client, sessions, sink, closing, events>>
    BY DEF Signalled
  <1> HIDE DEF s
  <1>3. /\ session' \in [Creates -> SessionRecords] /\ session'[c] = s
        /\ \A d \in Creates : d # c => session'[d] = session[d]
    BY <1>0, <1>1, <1>2, SessionFacts
  <1>4. TypeOK'
    BY <1>0, <1>2, <1>3 DEF TypeOK
  <1>5. \A d \in Creates : Own(d)'
    BY <1>0, <1>1, <1>2, <1>3 DEF IInv, Own
  <1>6. \A d \in Creates : Covered(d)'
    BY <1>1, <1>2, <1>3 DEF IInv, Covered
  <1>7. RegisteredWhileRunning'
    BY <1>0, <1>1, <1>2, <1>3 DEF IInv, RegisteredWhileRunning, Registered
  <1> QED BY <1>4, <1>5, <1>6, <1>7 DEF IInv

\* The entry deleted by ID is the session's own: it is registered until now.
LEMMA DeleteStep ==
  ASSUME IInv, NEW c \in Creates, DeleteEntry(c)
  PROVE  IInv'
  <1> DEFINE s == [session[c] EXCEPT !.signals = "signal"]
  <1>0. TypeOK /\ session[c].signals = "delete" BY DEF IInv, DeleteEntry
  <1>1. /\ s \in SessionRecords /\ s.nextSeq = session[c].nextSeq /\ s.signals = "signal"
        /\ s.stream = session[c].stream /\ s.attached = session[c].attached
    BY <1>0 DEF TypeOK, SessionRecords
  <1>2. SetSession(c, s) /\ UNCHANGED <<call, client, sink, closing, events>>
    BY DEF DeleteEntry
  <1> HIDE DEF s
  <1>3. /\ session' \in [Creates -> SessionRecords] /\ session'[c] = s
        /\ \A d \in Creates : d # c => session'[d] = session[d]
    BY <1>0, <1>1, <1>2, SessionFacts
  <1>4. /\ sessions' \in [Ids -> Creates \cup {None}]
        /\ IdOf[c] \in Ids /\ sessions'[IdOf[c]] = None
        /\ \A i \in Ids : i # IdOf[c] => sessions'[i] = sessions[i]
    BY <1>0, ExecAssumption DEF TypeOK, DeleteEntry
  <1>5. TypeOK'
    BY <1>0, <1>2, <1>3, <1>4 DEF TypeOK
  <1>6. \A d \in Creates : Own(d)'
    BY <1>0, <1>1, <1>2, <1>3 DEF IInv, Own
  <1>7. \A d \in Creates : Covered(d)'
    BY <1>1, <1>2, <1>3 DEF IInv, Covered
  <1>8. RegisteredWhileRunning'
    <2>1. call[c].pc # "start" /\ sessions[IdOf[c]] = c
      BY <1>0 DEF IInv, Own, RegisteredWhileRunning, Registered
    <2> SUFFICES ASSUME NEW d \in Creates
                 PROVE  (call'[d].pc = "start" \/ session'[d].signals \in {"wait", "delete"})
                          <=> sessions'[IdOf[d]] = d
      BY DEF RegisteredWhileRunning, Registered
    <2>2. IdOf[d] \in Ids /\ None # d
      BY ExecAssumption
    <2>3. CASE d = c
      BY <1>1, <1>2, <1>3, <1>4, <2>1, <2>2, <2>3
    <2>4. CASE d # c
      <3>1. (call[d].pc = "start" \/ session[d].signals \in {"wait", "delete"})
              <=> sessions[IdOf[d]] = d
        BY DEF IInv, RegisteredWhileRunning, Registered
      <3> QED BY <1>2, <1>3, <1>4, <2>1, <2>2, <2>4, <3>1
    <2> QED BY <2>3, <2>4
  <1> QED BY <1>5, <1>6, <1>7, <1>8 DEF IInv

LEMMA EmitCloseStep ==
  ASSUME IInv, NEW c \in Creates, EmitClose(c)
  PROVE  IInv'
  <1> DEFINE s == [session[c] EXCEPT !.signals = "end", !.live = FALSE]
  <1>0. TypeOK /\ session[c].signals = "signal" BY DEF IInv, EmitClose
  <1>1. /\ s \in SessionRecords /\ s.nextSeq = session[c].nextSeq /\ s.signals = "end"
        /\ s.stream = session[c].stream /\ s.attached = session[c].attached
    BY <1>0 DEF TypeOK, SessionRecords
  <1>2. SetSession(c, s) /\ UNCHANGED <<call, client, sessions, sink, closing, events>>
    BY DEF EmitClose
  <1> HIDE DEF s
  <1>3. /\ session' \in [Creates -> SessionRecords] /\ session'[c] = s
        /\ \A d \in Creates : d # c => session'[d] = session[d]
    BY <1>0, <1>1, <1>2, SessionFacts
  <1>4. TypeOK'
    BY <1>0, <1>2, <1>3 DEF TypeOK
  <1>5. \A d \in Creates : Own(d)'
    BY <1>0, <1>1, <1>2, <1>3 DEF IInv, Own
  <1>6. \A d \in Creates : Covered(d)'
    BY <1>1, <1>2, <1>3 DEF IInv, Covered
  <1>7. RegisteredWhileRunning'
    BY <1>0, <1>1, <1>2, <1>3 DEF IInv, RegisteredWhileRunning, Registered
  <1> QED BY <1>4, <1>5, <1>6, <1>7 DEF IInv

-----------------------------------------------------------------------------
(* Calls and events from outside.                                          *)

LEMMA ExternalType ==
  ASSUME TypeOK, External
  PROVE  events' \in 0 .. MaxEvents
  BY ExecAssumption DEF TypeOK, External

\* The replay and the attachment are one critical section, so nothing numbered
\* before it is missing from the replay.
LEMMA AttachStep ==
  ASSUME IInv, NEW c \in Creates, AttachSession(c)
  PROVE  IInv'
  <1> DEFINE s == [session[c] EXCEPT !.attached = TRUE]
             next == session[c].nextSeq
             from == IF next > Capacity THEN next - Capacity ELSE 0
             k == [from |-> from, known |-> from .. next - 1, dropped |-> {}]
  <1>0. TypeOK /\ session[c] \in SessionRecords BY DEF IInv, TypeOK
  <1>1. /\ s \in SessionRecords /\ s.nextSeq = next /\ s.signals = session[c].signals
        /\ s.stream = session[c].stream
    BY <1>0 DEF SessionRecords
  <1>2. /\ SetSession(c, s) /\ client' = [client EXCEPT ![c] = k]
        /\ UNCHANGED <<call, sessions, sink, closing>>
    BY DEF AttachSession
  <1>3. k \in ClientRecords
    <2>1. next \in 0 .. MaxChunks /\ MaxChunks \in Nat /\ Capacity \in Nat
      BY <1>0, ExecAssumption DEF SessionRecords
    <2>2. from \in 0 .. MaxChunks
      BY <2>1
    <2> HIDE DEF from, next
    <2>3. from .. next - 1 \subseteq Chunks
      BY <2>1, <2>2 DEF Chunks
    <2> QED BY <2>2, <2>3 DEF ClientRecords
  <1>4. k.from = from /\ k.known = from .. next - 1
    OBVIOUS
  <1>5. next \in Nat /\ from \in Nat
    BY <1>0, ExecAssumption DEF SessionRecords
  <1>6. events' \in 0 .. MaxEvents
    BY <1>0, ExternalType DEF AttachSession
  <1> HIDE DEF s, k, from
  <1>7. /\ session' \in [Creates -> SessionRecords] /\ session'[c] = s
        /\ \A d \in Creates : d # c => session'[d] = session[d]
    BY <1>0, <1>1, <1>2, SessionFacts
  <1>8. /\ client' \in [Creates -> ClientRecords] /\ client'[c] = k
        /\ \A d \in Creates : d # c => client'[d] = client[d]
    BY <1>0, <1>2, <1>3 DEF TypeOK
  <1>9. TypeOK'
    BY <1>0, <1>2, <1>6, <1>7, <1>8 DEF TypeOK
  <1>10. \A d \in Creates : Own(d)'
    BY <1>1, <1>2, <1>7 DEF IInv, Own
  <1>11. ASSUME NEW d \in Creates PROVE Covered(d)'
    <2>1. CASE d # c
      BY <1>7, <1>8, <2>1 DEF IInv, Covered
    <2>2. CASE d = c
      <3> SUFFICES ASSUME NEW n \in Chunks, k.from <= n, n < s.nextSeq
                   PROVE  n \in k.known
        BY <1>7, <1>8, <2>2 DEF Covered
      <3> HIDE DEF next
      <3>1. n \in Int BY DEF Chunks
      <3> QED BY <1>1, <1>4, <1>5, <3>1
    <2> QED BY <2>1, <2>2
  <1>12. RegisteredWhileRunning'
    BY <1>1, <1>2, <1>7 DEF IInv, RegisteredWhileRunning, Registered
  <1> QED BY <1>9, <1>10, <1>11, <1>12 DEF IInv

LEMMA DetachStep ==
  ASSUME IInv, NEW c \in Creates, DetachSession(c)
  PROVE  IInv'
  <1> DEFINE s == [session[c] EXCEPT !.attached = FALSE]
  <1>0. TypeOK BY DEF IInv
  <1>1. /\ s \in SessionRecords /\ s.nextSeq = session[c].nextSeq
        /\ s.signals = session[c].signals /\ s.stream = session[c].stream /\ ~s.attached
    BY <1>0 DEF TypeOK, SessionRecords
  <1>2. SetSession(c, s) /\ UNCHANGED <<call, client, sessions, sink, closing>>
    BY DEF DetachSession
  <1>3. events' \in 0 .. MaxEvents
    BY <1>0, ExternalType DEF DetachSession
  <1> HIDE DEF s
  <1>4. /\ session' \in [Creates -> SessionRecords] /\ session'[c] = s
        /\ \A d \in Creates : d # c => session'[d] = session[d]
    BY <1>0, <1>1, <1>2, SessionFacts
  <1>5. TypeOK'
    BY <1>0, <1>2, <1>3, <1>4 DEF TypeOK
  <1>6. \A d \in Creates : Own(d)'
    BY <1>1, <1>2, <1>4 DEF IInv, Own
  <1>7. \A d \in Creates : Covered(d)'
    BY <1>1, <1>2, <1>4 DEF IInv, Covered
  <1>8. RegisteredWhileRunning'
    BY <1>1, <1>2, <1>4 DEF IInv, RegisteredWhileRunning, Registered
  <1> QED BY <1>5, <1>6, <1>7, <1>8 DEF IInv

\* CloseSession, the end of the stream and Close only cancel contexts.
LEMMA CancelStep ==
  ASSUME IInv, NEW S, session' = Cancelled(S), External,
         UNCHANGED <<call, client, sessions>>,
         sink' \in {"none", "live", "dead"}, closing' \in {"idle", "wait", "end"}
  PROVE  IInv'
  <1>0. TypeOK BY DEF IInv
  <1>1. /\ session' \in [Creates -> SessionRecords]
        /\ \A d \in Creates :
             /\ session'[d].stream = session[d].stream
             /\ session'[d].signals = session[d].signals
             /\ session'[d].attached = session[d].attached
             /\ session'[d].nextSeq = session[d].nextSeq
    BY <1>0, CancelledFacts
  <1>2. TypeOK'
    BY <1>0, <1>1, ExternalType DEF TypeOK
  <1> QED BY <1>1, <1>2, QuietStep

LEMMA StopsStep ==
  ASSUME IInv, NEW c \in Creates, HandlerStops(c)
  PROVE  IInv'
  <1> DEFINE s == [session[c] EXCEPT !.stopped = TRUE]
  <1>0. TypeOK BY DEF IInv
  <1>1. /\ s \in SessionRecords /\ s.nextSeq = session[c].nextSeq
        /\ s.signals = session[c].signals /\ s.stream = session[c].stream
        /\ s.attached = session[c].attached
    BY <1>0 DEF TypeOK, SessionRecords
  <1>2. SetSession(c, s) /\ UNCHANGED <<call, client, sessions, sink, closing>>
    BY DEF HandlerStops
  <1>3. events' \in 0 .. MaxEvents
    BY <1>0, ExternalType DEF HandlerStops
  <1> HIDE DEF s
  <1>4. /\ session' \in [Creates -> SessionRecords] /\ session'[c] = s
        /\ \A d \in Creates : d # c => session'[d] = session[d]
    BY <1>0, <1>1, <1>2, SessionFacts
  <1>5. TypeOK'
    BY <1>0, <1>2, <1>3, <1>4 DEF TypeOK
  <1> QED BY <1>1, <1>2, <1>4, <1>5, QuietStep

LEMMA RequestStep ==
  ASSUME IInv, NEW c \in Creates, RequestEnds(c)
  PROVE  IInv'
  <1> DEFINE r == [call[c] EXCEPT !.request = FALSE]
  <1>0. TypeOK BY DEF IInv
  <1>1. r \in CreateRecords /\ r.pc = call[c].pc
    BY <1>0 DEF TypeOK, CreateRecords
  <1>2. SetCall(c, r) /\ UNCHANGED <<client, sessions, sink, closing>>
    BY DEF RequestEnds
  <1>3. events' \in 0 .. MaxEvents
    BY <1>0, ExternalType DEF RequestEnds
  <1> HIDE DEF r
  <1>4. /\ call' \in [Creates -> CreateRecords] /\ call'[c] = r
        /\ \A d \in Creates : d # c => call'[d] = call[d]
    BY <1>0, <1>1, <1>2, CallFacts
  <1>5. /\ session' \in [Creates -> SessionRecords]
        /\ \A d \in Creates :
             /\ session'[d].stream = session[d].stream
             /\ session'[d].signals = session[d].signals
             /\ session'[d].attached = session[d].attached
             /\ session'[d].nextSeq = session[d].nextSeq
    <2>1. CASE session' = Cancelled({c})
      BY <1>0, <2>1, CancelledFacts
    <2>2. CASE session' = session
      BY <1>0, <2>2 DEF TypeOK
    <2> QED BY <2>1, <2>2 DEF RequestEnds
  <1>6. TypeOK'
    BY <1>0, <1>2, <1>3, <1>4, <1>5 DEF TypeOK
  <1> QED BY <1>1, <1>2, <1>4, <1>5, <1>6, QuietStep

LEMMA SharedStep ==
  ASSUME IInv, Stream \/ StreamEnds \/ Close \/ CloseReturns
  PROVE  IInv'
  <1>0. TypeOK BY DEF IInv
  <1>a. CASE Stream
    <2>1. TypeOK'
      BY <1>0, <1>a, ExternalType DEF TypeOK, Stream
    <2> QED BY <1>a, <2>1, QuietStep DEF Stream
  <1>b. CASE StreamEnds
    <2>1. CASE session' = Cancelled({c \in Creates : Registered(c)})
      BY <1>0, <1>b, <2>1, CancelStep DEF StreamEnds, TypeOK
    <2>2. CASE UNCHANGED session
      <3>1. TypeOK'
        BY <1>0, <1>b, <2>2, ExternalType DEF TypeOK, StreamEnds
      <3> QED BY <1>b, <2>2, <3>1, QuietStep DEF StreamEnds
    <2> QED BY <1>b, <2>1, <2>2 DEF StreamEnds
  <1>c. CASE Close
    BY <1>0, <1>c, CancelStep DEF Close, TypeOK
  <1>d. CASE CloseReturns
    <2>1. TypeOK'
      BY <1>0, <1>d DEF TypeOK, CloseReturns
    <2> QED BY <1>d, <2>1, QuietStep DEF CloseReturns
  <1> QED BY <1>a, <1>b, <1>c, <1>d

-----------------------------------------------------------------------------
(* The invariant and what it implies.                                      *)

LEMMA InitInvariant == Init => IInv
  <1> SUFFICES ASSUME Init PROVE IInv
    OBVIOUS
  <1> USE ExecAssumption
  <1>1. TypeOK
    BY DEF Init, TypeOK, CreateRecords, SessionRecords, ClientRecords
  <1>2. \A c \in Creates : Own(c) /\ Covered(c)
    BY DEF Init, Own, Covered
  <1>3. RegisteredWhileRunning
    BY DEF Init, RegisteredWhileRunning, Registered
  <1> QED BY <1>1, <1>2, <1>3 DEF IInv

LEMMA NextInvariant == IInv /\ [Next]_vars => IInv'
  <1> SUFFICES ASSUME IInv, [Next]_vars PROVE IInv'
    OBVIOUS
  <1>1. CASE UNCHANGED vars
    <2>1. TypeOK'
      BY <1>1 DEF vars, IInv, TypeOK
    <2> QED BY <1>1, <2>1, QuietStep DEF vars
  <1>2. CASE Stream \/ StreamEnds \/ Close \/ CloseReturns
    BY <1>2, SharedStep
  <1>3. ASSUME NEW c \in Creates, Creating(c)
        PROVE  IInv'
    BY <1>3, CreateStep, NativeStep, RegisterStep, WorkersStep, FenceStep, RejectStep DEF Creating
  <1>4. ASSUME NEW c \in Creates, CleaningUp(c)
        PROVE  IInv'
    BY <1>4, SignalledStep, DeleteStep, EmitCloseStep DEF CleaningUp
  <1>5. ASSUME NEW c \in Creates, ReadChunk(c) \/ EmitChunk(c) \/ ReadFails(c)
        PROVE  IInv'
    BY <1>5, ReadStep, EmitStep, ReadFailsStep
  <1>6. ASSUME NEW c \in Creates,
               \/ AttachSession(c) \/ DetachSession(c) \/ CloseSession(c)
               \/ HandlerStops(c) \/ RequestEnds(c)
        PROVE  IInv'
    <2>1. CASE CloseSession(c)
      BY <2>1, CancelStep DEF CloseSession, IInv, TypeOK
    <2> QED BY <1>6, <2>1, AttachStep, DetachStep, StopsStep, RequestStep
  <1> QED BY <1>1, <1>2, <1>3, <1>4, <1>5, <1>6 DEF Next

THEOREM Invariance == Spec => []IInv
  BY InitInvariant, NextInvariant, PTL DEF Spec

\* Every reachable state is well typed: the chunks a client was given are
\* chunks the terminal printed, whatever attachments and detachments race
\* with handleStream.
THEOREM TypeCorrect == Spec => []TypeOK
  <1>1. IInv => TypeOK
    BY DEF IInv
  <1> QED BY <1>1, Invariance, PTL

\* A session is in Manager.sessions exactly from registerSession to its own
\* cleanupSession, for any number of creations that ask for one ID.
THEOREM RegistrationIsExact == Spec => []RegisteredWhileRunning
  <1>1. IInv => RegisteredWhileRunning
    BY DEF IInv
  <1> QED BY <1>1, Invariance, PTL

\* An attached client is given, or about to be given, every chunk from the
\* start of its replay on, for any buffer capacity and any interleaving of
\* handleStream, AttachSession and DetachSession.
THEOREM NothingMissed == Spec => []AttachmentMissesNothing
  <1>1. IInv => AttachmentMissesNothing
    <2> SUFFICES ASSUME IInv, NEW c \in Creates, session[c].attached,
                        NEW n \in client[c].from .. session[c].nextSeq - 1
                 PROVE  n \in client[c].known \cup client[c].dropped
                          \cup (IF session[c].stream = "emit"
                                  THEN {session[c].nextSeq - 1} ELSE {})
      BY DEF AttachmentMissesNothing
    <2>1. /\ session[c].nextSeq \in 0 .. MaxChunks /\ client[c].from \in 0 .. MaxChunks
          /\ MaxChunks \in Nat
      BY ExecAssumption DEF IInv, TypeOK, SessionRecords, ClientRecords
    <2>2. n \in Chunks /\ client[c].from <= n /\ n < session[c].nextSeq
      BY <2>1 DEF Chunks
    <2> QED BY <2>2 DEF IInv, Covered
  <1> QED BY <1>1, Invariance, PTL
=============================================================================
