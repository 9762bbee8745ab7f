------------------------ MODULE SettingsCommitProofs ------------------------
(***************************************************************************)
(* Theorems about SettingsCommit for any writers, settings, definitions    *)
(* and validators.                                                         *)
(***************************************************************************)
EXTENDS SettingsCommit, TLAPS

-----------------------------------------------------------------------------
(* The inductive invariant.                                                *)

Early == {"idle", "lock", "prepare", "check", "persist"}
Holding == {"prepare", "check", "persist", "await", "publish"}
Ready == {"check", "persist", "await", "publish"}

TypeInv ==
  /\ pc \in [Writers -> Early \cup {"await", "publish", "snapshot", "notify", "end"}]
  /\ writeMu \in Writers \cup {None}
  /\ store \in [Settings -> Stored \cup {None}]
  /\ prepared = [w \in Writers |-> prepared[w]]
  /\ client \in [Remote -> {"idle", "prepare", "persist", "ack", "result", "end"}]
  /\ up \in [Remote -> {"none", "proposal", "saved", "aborted"}]
  /\ down \in [Remote -> {"none", "prepared", "committed", "rejected"}]
  /\ result \in [Writers -> {"none", "applied", "uncertain", "error"}]
  /\ effects \in [Writers -> SUBSET {"saved", "published"}]

\* What a call has done so far, and what it may still answer.
Effects(w) ==
  /\ pc[w] \in Early => effects[w] = {}
  /\ pc[w] \in Holding => w \in Remote \cup Local
  /\ pc[w] \in {"snapshot", "notify"} => "published" \in effects[w]
  /\ pc[w] = "publish" /\ w \in Saves => "saved" \in effects[w]
  /\ "saved" \in effects[w] => w \in Saves
  /\ result[w] = "error" => effects[w] = {}
  /\ result[w] = "applied" /\ "saved" \in effects[w] => "published" \in effects[w]

\* A local call, or one of the plugin: one goroutine.
LocalCall(w) ==
  /\ pc[w] # "end" => result[w] = "none"
  /\ pc[w] \notin {"idle", "await"}

\* The two ends of a remote commit.
RemoteCall(w) ==
  /\ client[w] # "end" => result[w] = "none"
  /\ pc[w] \in Early => client[w] \in {"idle", "prepare", "end"} /\ down[w] = "none"
  /\ client[w] \in {"ack", "result"} /\ w \in Saves => "saved" \in effects[w]
  /\ "saved" \in effects[w] => client[w] \in {"ack", "result", "end"}
  /\ up[w] = "saved" =>
       /\ client[w] \in {"result", "end"} /\ result[w] # "error"
       /\ w \in Saves => "saved" \in effects[w]
  /\ pc[w] = "publish" \/ "published" \in effects[w] => up[w] = "saved"
  /\ down[w] = "committed" => "published" \in effects[w]

Own(w) ==
  /\ Effects(w)
  /\ w \in Remote => RemoteCall(w)
  /\ w \notin Remote => LocalCall(w)

\* From the preparation to the publication a commit holds writeMu, so what it
\* prepared is what is stored, but for the values.
Mutex == \A w \in Writers : pc[w] \in Holding => writeMu = w

Based(w) ==
  pc[w] \in Ready =>
    \A s \in Changed(w) :
      /\ store[s] \in Stored /\ prepared[w][s] \in Stored
      /\ prepared[w][s].type = store[s].type
      /\ prepared[w][s].default = store[s].default

\* A stored value that no commit has published yet.
Open(w) == "saved" \in effects[w] /\ "published" \notin effects[w]

Unpublished(s) ==
  \E w \in Writers : Open(w) /\ s \in Changed(w) /\ durable[s] = prepared[w][s].value

Agreed(s) ==
  durable[s] # None /\ s \notin unsaved => durable[s] = store[s].value \/ Unpublished(s)

\* While a commit that has saved holds writeMu its values, or those of a host
\* that saved late, are the stored ones.
Saved(w) ==
  pc[w] \in Ready /\ "saved" \in effects[w] => \A s \in Changed(w) : Unpublished(s)

IInv ==
  /\ TypeInv
  /\ \A w \in Writers : Own(w)
  /\ Mutex
  /\ \A w \in Writers : Based(w)
  /\ \A s \in Settings : Agreed(s)
  /\ \A w \in Writers : Saved(w)

-----------------------------------------------------------------------------
(* What steps that leave most of the state alone preserve.                 *)

LEMMA OwnFrame ==
  ASSUME NEW w \in Writers, Own(w),
         pc'[w] = pc[w], result'[w] = result[w], effects'[w] = effects[w],
         w \in Remote => client'[w] = client[w] /\ up'[w] = up[w] /\ down'[w] = down[w]
  PROVE  Own(w)'
  BY DEF Own, Effects, LocalCall, RemoteCall

\* Nothing is prepared, stored or published.
LEMMA DataFrame ==
  ASSUME IInv, TypeInv', \A w \in Writers : Own(w)', Mutex',
         UNCHANGED <<store, prepared, durable, effects, unsaved>>,
         \A w \in Writers : pc'[w] \in Ready => pc[w] \in Ready
  PROVE  IInv'
  <1>1. \A w \in Writers : Based(w)'
    BY DEF IInv, Based
  <1>2. \A s \in Settings : Unpublished(s) => Unpublished(s)'
    BY DEF Unpublished, Open
  <1>3. \A s \in Settings : Agreed(s)'
    BY <1>2 DEF IInv, Agreed
  <1>4. \A w \in Writers : Saved(w)'
    BY <1>2, SettingsAssumption DEF IInv, Saved
  <1> QED BY <1>1, <1>3, <1>4 DEF IInv

\* Contexts, handlers and notifications are no part of the invariant.
LEMMA OutsideFrame ==
  ASSUME IInv, UNCHANGED <<provider, ledger, result, client, up, down>>
  PROVE  IInv'
  <1>1. TypeInv'
    BY DEF IInv, TypeInv, provider, ledger
  <1>2. \A v \in Writers : Own(v)'
    BY OwnFrame DEF IInv, provider, ledger
  <1>3. Mutex'
    BY DEF IInv, Mutex, provider
  <1> QED BY <1>1, <1>2, <1>3, DataFrame DEF provider, ledger

LEMMA KindFacts ==
  ASSUME NEW w \in Writers
  PROVE  /\ w \in Remote => w \notin Local
         /\ Kind[w] = "plugin" => w \notin Remote /\ w \notin Local
         /\ w \notin Remote /\ w \notin Local => Kind[w] = "plugin"
         /\ w \in Saves => w \in Remote \cup Local
         /\ w # None
  BY SettingsAssumption DEF Remote, Local

-----------------------------------------------------------------------------
(* The client's end of a commit.                                           *)

LEMMA AnswerFacts ==
  ASSUME TypeInv, NEW w \in Remote, NEW outcome \in {"applied", "uncertain", "error"},
         Answer(w, outcome)
  PROVE  /\ result' \in [Writers -> {"none", "applied", "uncertain", "error"}]
         /\ client' \in [Remote -> {"idle", "prepare", "persist", "ack", "result", "end"}]
         /\ result'[w] = outcome /\ client'[w] = "end"
         /\ \A v \in Writers : v # w => result'[v] = result[v]
         /\ \A v \in Remote : v # w => client'[v] = client[v]
  BY DEF TypeInv, Answer, Remote

\* A step of the client: only its own end of the stream and its answer change.
LEMMA ClientFrame ==
  ASSUME IInv, NEW w \in Remote, TypeInv', Own(w)',
         UNCHANGED <<provider, ledger>>,
         \A v \in Writers : v # w =>
           /\ result'[v] = result[v]
           /\ v \in Remote => client'[v] = client[v] /\ up'[v] = up[v] /\ down'[v] = down[v]
  PROVE  IInv'
  <1>1. ASSUME NEW v \in Writers PROVE Own(v)'
    <2>1. CASE v = w BY <2>1
    <2>2. CASE v # w
      BY <2>2, OwnFrame DEF IInv, provider, ledger
    <2> QED BY <2>1, <2>2
  <1>2. Mutex'
    BY DEF IInv, Mutex, provider
  <1> QED BY <1>1, <1>2, DataFrame DEF provider, ledger

LEMMA ProposeStep ==
  ASSUME IInv, NEW w \in Remote, Propose(w)
  PROVE  IInv'
  <1>0. TypeInv /\ w \in Writers /\ Own(w) BY DEF IInv, Remote
  <1>1. /\ client' \in [Remote -> {"idle", "prepare", "persist", "ack", "result", "end"}]
        /\ up' \in [Remote -> {"none", "proposal", "saved", "aborted"}]
        /\ client'[w] = "prepare" /\ up'[w] = "proposal"
        /\ \A v \in Remote : v # w => client'[v] = client[v] /\ up'[v] = up[v]
    BY <1>0 DEF Propose, TypeInv
  <1>2. client[w] = "idle" /\ UNCHANGED <<provider, ledger, result, down>>
    BY DEF Propose
  <1>3. TypeInv'
    BY <1>0, <1>1, <1>2 DEF TypeInv, provider, ledger
  <1>4. Own(w)'
    BY <1>0, <1>1, <1>2 DEF Own, Effects, RemoteCall, provider, ledger
  <1> QED BY <1>1, <1>2, <1>3, <1>4, ClientFrame

LEMMA ReceivePreparedStep ==
  ASSUME IInv, NEW w \in Remote, ReceivePrepared(w)
  PROVE  IInv'
  <1>0. TypeInv /\ w \in Writers /\ Own(w) BY DEF IInv, Remote
  <1>1. client[w] = "prepare" /\ UNCHANGED <<provider, ledger, up>>
    BY DEF ReceivePrepared
  <1>a. CASE /\ down[w] = "prepared"
             /\ client' = [client EXCEPT ![w] = "persist"]
             /\ down' = [down EXCEPT ![w] = "none"]
             /\ UNCHANGED result
    <2>1. /\ client' \in [Remote -> {"idle", "prepare", "persist", "ack", "result", "end"}]
          /\ down' \in [Remote -> {"none", "prepared", "committed", "rejected"}]
          /\ client'[w] = "persist" /\ down'[w] = "none"
          /\ \A v \in Remote : v # w => client'[v] = client[v] /\ down'[v] = down[v]
      BY <1>0, <1>a DEF TypeInv
    <2>2. TypeInv'
      BY <1>0, <1>1, <1>a, <2>1 DEF TypeInv, provider, ledger
    <2>3. Own(w)'
      BY <1>0, <1>1, <1>a, <2>1 DEF Own, Effects, RemoteCall, provider, ledger
    <2> QED BY <1>1, <1>a, <2>1, <2>2, <2>3, ClientFrame
  <1>b. CASE Answer(w, "error") /\ UNCHANGED down
    <2>1. /\ result' \in [Writers -> {"none", "applied", "uncertain", "error"}]
          /\ client' \in [Remote -> {"idle", "prepare", "persist", "ack", "result", "end"}]
          /\ result'[w] = "error" /\ client'[w] = "end"
          /\ \A v \in Writers : v # w => result'[v] = result[v]
          /\ \A v \in Remote : v # w => client'[v] = client[v]
      BY <1>0, <1>b, AnswerFacts
    <2>2. TypeInv'
      BY <1>0, <1>1, <1>b, <2>1 DEF TypeInv, provider, ledger
    <2>3. effects[w] = {}
      BY <1>0, <1>1 DEF Own, RemoteCall, TypeInv
    <2>4. Own(w)'
      BY <1>0, <1>1, <1>b, <2>1, <2>3 DEF Own, Effects, RemoteCall, provider, ledger
    <2> QED BY <1>1, <1>b, <2>1, <2>2, <2>4, ClientFrame
  <1> QED BY <1>a, <1>b DEF ReceivePrepared

LEMMA SendAckStep ==
  ASSUME IInv, NEW w \in Remote, SendAck(w)
  PROVE  IInv'
  <1>0. TypeInv /\ w \in Writers /\ Own(w) BY DEF IInv, Remote
  <1>1. client[w] = "ack" /\ UNCHANGED <<provider, ledger, down>>
    BY DEF SendAck
  <1>a. CASE Answer(w, "uncertain") /\ UNCHANGED up
    <2>1. /\ result' \in [Writers -> {"none", "applied", "uncertain", "error"}]
          /\ client' \in [Remote -> {"idle", "prepare", "persist", "ack", "result", "end"}]
          /\ result'[w] = "uncertain" /\ client'[w] = "end"
          /\ \A v \in Writers : v # w => result'[v] = result[v]
          /\ \A v \in Remote : v # w => client'[v] = client[v]
      BY <1>0, <1>a, AnswerFacts
    <2>2. TypeInv'
      BY <1>0, <1>1, <1>a, <2>1 DEF TypeInv, provider, ledger
    <2>3. Own(w)'
      BY <1>0, <1>1, <1>a, <2>1 DEF Own, Effects, RemoteCall, provider, ledger
    <2> QED BY <1>1, <1>a, <2>1, <2>2, <2>3, ClientFrame
  <1>b. CASE /\ up' = [up EXCEPT ![w] = "saved"]
             /\ client' = [client EXCEPT ![w] = "result"]
             /\ UNCHANGED result
    <2>1. /\ client' \in [Remote -> {"idle", "prepare", "persist", "ack", "result", "end"}]
          /\ up' \in [Remote -> {"none", "proposal", "saved", "aborted"}]
          /\ client'[w] = "result" /\ up'[w] = "saved"
          /\ \A v \in Remote : v # w => client'[v] = client[v] /\ up'[v] = up[v]
      BY <1>0, <1>b DEF TypeInv
    <2>2. TypeInv'
      BY <1>0, <1>1, <1>b, <2>1 DEF TypeInv, provider, ledger
    <2>3. Own(w)'
      BY <1>0, <1>1, <1>b, <2>1 DEF Own, Effects, RemoteCall, provider, ledger
    <2> QED BY <1>1, <1>b, <2>1, <2>2, <2>3, ClientFrame
  <1> QED BY <1>a, <1>b DEF SendAck

LEMMA ReceiveResultStep ==
  ASSUME IInv, NEW w \in Remote, ReceiveResult(w)
  PROVE  IInv'
  <1>0. TypeInv /\ w \in Writers /\ Own(w) BY DEF IInv, Remote
  <1>1. client[w] = "result" /\ UNCHANGED <<provider, ledger, up, down>>
    BY DEF ReceiveResult
  <1>2. PICK outcome \in {"applied", "uncertain"} :
          Answer(w, outcome) /\ (outcome = "applied" => down[w] = "committed")
    BY DEF ReceiveResult
  <1>3. /\ result' \in [Writers -> {"none", "applied", "uncertain", "error"}]
        /\ client' \in [Remote -> {"idle", "prepare", "persist", "ack", "result", "end"}]
        /\ result'[w] = outcome /\ client'[w] = "end"
        /\ \A v \in Writers : v # w => result'[v] = result[v]
        /\ \A v \in Remote : v # w => client'[v] = client[v]
    BY <1>0, <1>2, AnswerFacts
  <1>4. TypeInv'
    BY <1>0, <1>1, <1>3 DEF TypeInv, provider, ledger
  <1>5. Own(w)'
    BY <1>0, <1>1, <1>2, <1>3 DEF Own, Effects, RemoteCall, provider, ledger
  <1> QED BY <1>1, <1>3, <1>4, <1>5, ClientFrame

-----------------------------------------------------------------------------
(* Persistence.                                                            *)

\* Whoever persists now has the stored values, and has not published them yet.
LEMMA SaveFacts ==
  ASSUME IInv, NEW w \in Writers, Save(w), UNCHANGED prepared, "published" \notin effects[w]
  PROVE  /\ effects' \in [Writers -> SUBSET {"saved", "published"}]
         /\ effects'[w] = effects[w] \cup {"saved"}
         /\ \A v \in Writers : v # w => effects'[v] = effects[v]
         /\ \A s \in Changed(w) : Unpublished(s)'
         /\ \A s \in Settings : Unpublished(s) => Unpublished(s)'
         /\ \A s \in Settings \ Changed(w) : durable'[s] = durable[s]
  <1>1. /\ effects' \in [Writers -> SUBSET {"saved", "published"}]
        /\ effects'[w] = effects[w] \cup {"saved"}
        /\ \A v \in Writers : v # w => effects'[v] = effects[v]
    BY DEF Save, IInv, TypeInv
  <1>2. \A s \in Settings :
          durable'[s] = IF s \in Changed(w) THEN prepared[w][s].value ELSE durable[s]
    BY DEF Save
  <1>3. Changed(w) \subseteq Settings
    BY SettingsAssumption
  <1>4. Open(w)' /\ \A v \in Writers : Open(v) => Open(v)'
    BY <1>1 DEF Open
  <1>5. \A s \in Changed(w) : Unpublished(s)'
    BY <1>2, <1>3, <1>4 DEF Unpublished
  <1>6. \A s \in Settings : Unpublished(s) => Unpublished(s)'
    <2> SUFFICES ASSUME NEW s \in Settings, Unpublished(s), s \notin Changed(w)
                 PROVE  Unpublished(s)'
      BY <1>5
    <2> QED BY <1>2, <1>4 DEF Unpublished
  <1> QED BY <1>1, <1>2, <1>5, <1>6

\* A successful persist function, of the host or of a local caller.
LEMMA SaveFrame ==
  ASSUME IInv, NEW w \in Writers, Save(w), "published" \notin effects[w],
         TypeInv', Own(w)', UNCHANGED <<writeMu, store, prepared>>,
         \A v \in Writers : v # w =>
           /\ pc'[v] = pc[v] /\ result'[v] = result[v]
           /\ v \in Remote => client'[v] = client[v] /\ up'[v] = up[v] /\ down'[v] = down[v],
         pc'[w] \in Ready => pc[w] \in Ready,
         pc'[w] \in Holding => pc[w] \in Holding
  PROVE  IInv'
  <1>1. /\ effects' \in [Writers -> SUBSET {"saved", "published"}]
        /\ effects'[w] = effects[w] \cup {"saved"}
        /\ \A v \in Writers : v # w => effects'[v] = effects[v]
        /\ \A s \in Changed(w) : Unpublished(s)'
        /\ \A s \in Settings : Unpublished(s) => Unpublished(s)'
        /\ \A s \in Settings \ Changed(w) : durable'[s] = durable[s]
    BY SaveFacts
  <1>2. ASSUME NEW v \in Writers PROVE Own(v)'
    <2>1. CASE v = w BY <2>1
    <2>2. CASE v # w
      BY <1>1, <2>2, OwnFrame DEF IInv
    <2> QED BY <2>1, <2>2
  <1>3. Mutex'
    BY DEF IInv, Mutex
  <1>4. \A v \in Writers : Based(v)'
    BY DEF IInv, Based
  <1>5. \A s \in Settings : Agreed(s)'
    <2> SUFFICES ASSUME NEW s \in Settings, s \notin Changed(w) PROVE Agreed(s)'
      BY <1>1 DEF Agreed
    <2> QED BY <1>1 DEF IInv, Agreed, Save
  <1>6. ASSUME NEW v \in Writers PROVE Saved(v)'
    <2>1. CASE v = w
      BY <1>1, <2>1 DEF Saved
    <2>2. CASE v # w
      BY <1>1, <2>2, SettingsAssumption DEF IInv, Saved
    <2> QED BY <2>1, <2>2
  <1> QED BY <1>2, <1>3, <1>4, <1>5, <1>6 DEF IInv

\* The host may persist long after its server gave up.
LEMMA PersistStep ==
  ASSUME IInv, NEW w \in Remote, Persist(w)
  PROVE  IInv'
  <1>0. TypeInv /\ w \in Writers /\ Own(w) BY DEF IInv, Remote
  <1>1. client[w] = "persist" /\ UNCHANGED <<provider, down>>
    BY DEF Persist
  <1>2. effects[w] = {}
    BY <1>0, <1>1 DEF Own, RemoteCall, TypeInv
  <1>a. CASE /\ client' = [client EXCEPT ![w] = "ack"] /\ UNCHANGED <<result, up>>
             /\ IF w \in Saves THEN Save(w) ELSE UNCHANGED ledger
    <2>1. /\ client' \in [Remote -> {"idle", "prepare", "persist", "ack", "result", "end"}]
          /\ client'[w] = "ack"
          /\ \A v \in Remote : v # w => client'[v] = client[v]
      BY <1>0, <1>a DEF TypeInv
    <2>2. CASE w \in Saves /\ Save(w)
      <3>1. /\ effects' \in [Writers -> SUBSET {"saved", "published"}]
            /\ effects'[w] = {"saved"}
        BY <1>0, <1>1, <1>2, <2>2, SaveFacts DEF provider
      <3>2. TypeInv'
        BY <1>0, <1>1, <1>a, <2>1, <3>1 DEF TypeInv, provider
      <3>3. Own(w)'
        BY <1>0, <1>1, <1>2, <1>a, <2>1, <2>2, <3>1 DEF Own, Effects, RemoteCall, provider
      <3> QED BY <1>0, <1>1, <1>2, <1>a, <2>1, <2>2, <3>2, <3>3, SaveFrame DEF provider
    <2>3. CASE w \notin Saves /\ UNCHANGED ledger
      <3>1. TypeInv'
        BY <1>0, <1>1, <1>a, <2>1, <2>3 DEF TypeInv, provider, ledger
      <3>2. Own(w)'
        BY <1>0, <1>1, <1>2, <1>a, <2>1, <2>3 DEF Own, Effects, RemoteCall, provider, ledger
      <3> QED BY <1>1, <1>a, <2>1, <2>3, <3>1, <3>2, ClientFrame DEF ledger
    <2> QED BY <1>a, <2>2, <2>3
  <1>b. CASE /\ Answer(w, "error")
             /\ up' = [up EXCEPT ![w] = IF w \in cut THEN @ ELSE "aborted"]
             /\ UNCHANGED ledger
    <2>1. /\ result' \in [Writers -> {"none", "applied", "uncertain", "error"}]
          /\ client' \in [Remote -> {"idle", "prepare", "persist", "ack", "result", "end"}]
          /\ result'[w] = "error" /\ client'[w] = "end"
          /\ \A v \in Writers : v # w => result'[v] = result[v]
          /\ \A v \in Remote : v # w => client'[v] = client[v]
      BY <1>0, <1>b, AnswerFacts
    <2>2. /\ up' \in [Remote -> {"none", "proposal", "saved", "aborted"}]
          /\ up'[w] \in {up[w], "aborted"}
          /\ \A v \in Remote : v # w => up'[v] = up[v]
      BY <1>0, <1>b DEF TypeInv
    <2>3. TypeInv'
      BY <1>0, <1>1, <1>b, <2>1, <2>2 DEF TypeInv, provider, ledger
    <2>4. Own(w)'
      BY <1>0, <1>1, <1>2, <1>b, <2>1, <2>2 DEF Own, Effects, RemoteCall, provider, ledger
    <2> QED BY <1>1, <1>b, <2>1, <2>2, <2>3, <2>4, ClientFrame
  <1> QED BY <1>a, <1>b DEF Persist

-----------------------------------------------------------------------------
(* The provider's commit, under writeMu.                                   *)

LEMMA PcFacts ==
  ASSUME TypeInv, NEW w \in Writers,
         NEW to \in Early \cup {"await", "publish", "snapshot", "notify", "end"},
         pc' = [pc EXCEPT ![w] = to]
  PROVE  /\ pc' \in [Writers -> Early \cup {"await", "publish", "snapshot", "notify", "end"}]
         /\ pc'[w] = to
         /\ \A v \in Writers : v # w => pc'[v] = pc[v]
  BY DEF TypeInv

LEMMA ReturnFacts ==
  ASSUME TypeInv, NEW w \in Writers, NEW outcome \in {"applied", "error"}, Return(w, outcome)
  PROVE  /\ pc' = [pc EXCEPT ![w] = "end"]
         /\ result' \in [Writers -> {"none", "applied", "uncertain", "error"}]
         /\ down' \in [Remote -> {"none", "prepared", "committed", "rejected"}]
         /\ \A v \in Writers : v # w => result'[v] = result[v]
         /\ \A v \in Remote : v # w => down'[v] = down[v]
         /\ w \in Remote =>
              /\ result' = result
              /\ down'[w] \in {down[w], IF outcome = "applied" THEN "committed" ELSE "rejected"}
         /\ w \notin Remote => result'[w] = outcome
  <1>1. CASE w \in Remote
    <2> DEFINE d == CASE w \in cut -> down[w] [] outcome = "applied" -> "committed"
                      [] OTHER -> "rejected"
    <2>1. pc' = [pc EXCEPT ![w] = "end"] /\ result' = result /\ down' = [down EXCEPT ![w] = d]
      BY <1>1 DEF Return
    <2>2. d \in {down[w], IF outcome = "applied" THEN "committed" ELSE "rejected"}
      OBVIOUS
    <2> HIDE DEF d
    <2> QED BY <1>1, <2>1, <2>2 DEF TypeInv
  <1>2. CASE w \notin Remote
    BY <1>2 DEF Return, TypeInv
  <1> QED BY <1>1, <1>2

\* A step of one writer inside the provider that neither prepares nor writes.
LEMMA ProviderFrame ==
  ASSUME IInv, NEW w \in Writers, TypeInv', Own(w)',
         UNCHANGED <<store, prepared, ledger>>,
         \A v \in Writers : v # w =>
           /\ pc'[v] = pc[v] /\ result'[v] = result[v]
           /\ v \in Remote => client'[v] = client[v] /\ up'[v] = up[v] /\ down'[v] = down[v],
         pc'[w] \in Ready => pc[w] \in Ready,
         pc'[w] \in Holding => writeMu' = w,
         writeMu' = writeMu \/ writeMu \in {w, None}
  PROVE  IInv'
  <1>1. ASSUME NEW v \in Writers PROVE Own(v)'
    <2>1. CASE v = w BY <2>1
    <2>2. CASE v # w
      BY <2>2, OwnFrame DEF IInv, ledger
    <2> QED BY <2>1, <2>2
  <1>2. Mutex'
    BY KindFacts DEF IInv, Mutex
  <1> QED BY <1>1, <1>2, DataFrame DEF ledger

\* A commit fails before it has had an effect, or gives up waiting for the
\* host: only the host knows then whether it stored the values.
LEMMA FailStep ==
  ASSUME IInv, NEW w \in Writers, Fail(w),
         pc[w] \in Early \/ (w \in Remote /\ pc[w] = "await")
  PROVE  IInv'
  <1>0. TypeInv /\ Own(w) BY DEF IInv
  <1>1. /\ Return(w, "error") /\ writeMu' = (IF writeMu = w THEN None ELSE writeMu)
        /\ UNCHANGED <<store, prepared, client, up, ledger>>
    BY DEF Fail
  <1>2. /\ pc' = [pc EXCEPT ![w] = "end"]
        /\ result' \in [Writers -> {"none", "applied", "uncertain", "error"}]
        /\ down' \in [Remote -> {"none", "prepared", "committed", "rejected"}]
        /\ \A v \in Writers : v # w => result'[v] = result[v]
        /\ \A v \in Remote : v # w => down'[v] = down[v]
        /\ w \in Remote => result' = result /\ down'[w] \in {down[w], "rejected"}
        /\ w \notin Remote => result'[w] = "error"
    BY <1>0, <1>1, ReturnFacts
  <1>3. /\ pc' \in [Writers -> Early \cup {"await", "publish", "snapshot", "notify", "end"}]
        /\ pc'[w] = "end"
        /\ \A v \in Writers : v # w => pc'[v] = pc[v]
    BY <1>0, <1>2, PcFacts
  <1>4. TypeInv'
    BY <1>0, <1>1, <1>2, <1>3 DEF TypeInv, ledger
  <1>5. Own(w)'
    <2>1. CASE w \in Remote
      BY <1>0, <1>1, <1>2, <1>3, <2>1 DEF Own, Effects, RemoteCall, ledger, Early, Holding
    <2>2. CASE w \notin Remote
      BY <1>0, <1>1, <1>2, <1>3, <2>2 DEF Own, Effects, LocalCall, ledger, Early, Holding
    <2> QED BY <2>1, <2>2
  <1> QED BY <1>1, <1>2, <1>3, <1>4, <1>5, ProviderFrame DEF Holding, Ready

LEMMA ReceiveProposalStep ==
  ASSUME IInv, NEW w \in Remote, ReceiveProposal(w)
  PROVE  IInv'
  <1>0. TypeInv /\ w \in Writers /\ Own(w) BY DEF IInv, Remote
  <1>1. /\ pc[w] = "idle" /\ up[w] = "proposal" /\ pc' = [pc EXCEPT ![w] = "lock"]
        /\ UNCHANGED <<writeMu, store, prepared, client, down, ledger, result>>
    BY DEF ReceiveProposal
  <1>2. /\ pc' \in [Writers -> Early \cup {"await", "publish", "snapshot", "notify", "end"}]
        /\ pc'[w] = "lock"
        /\ \A v \in Writers : v # w => pc'[v] = pc[v]
    BY <1>0, <1>1, PcFacts DEF Early
  <1>3. /\ up' \in [Remote -> {"none", "proposal", "saved", "aborted"}] /\ up'[w] = "none"
        /\ \A v \in Remote : v # w => up'[v] = up[v]
    BY <1>0 DEF TypeInv, ReceiveProposal
  <1>4. TypeInv'
    BY <1>0, <1>1, <1>2, <1>3 DEF TypeInv, ledger
  <1>5. Own(w)'
    BY <1>0, <1>1, <1>2, <1>3 DEF Own, Effects, RemoteCall, ledger, Early, Holding
  <1> QED BY <1>0, <1>1, <1>2, <1>3, <1>4, <1>5, ProviderFrame DEF Holding, Ready

\* The steps that only move the writer on.
LEMMA AdvanceStep ==
  ASSUME IInv, NEW w \in Writers,
         NEW to \in {"prepare", "persist", "publish", "notify"}, pc' = [pc EXCEPT ![w] = to],
         UNCHANGED <<store, prepared, client, up, down, ledger, result>>,
         \/ to = "prepare" /\ pc[w] = "lock" /\ w \in Remote \cup Local
            /\ writeMu = None /\ writeMu' = w
         \/ to = "persist" /\ pc[w] = "check" /\ UNCHANGED writeMu
         \/ to = "publish" /\ w \in Remote /\ pc[w] = "await" /\ up[w] = "saved"
            /\ UNCHANGED writeMu
         \/ to = "publish" /\ w \in Local \ Saves /\ pc[w] = "persist" /\ UNCHANGED writeMu
         \/ to = "notify" /\ pc[w] = "snapshot" /\ UNCHANGED writeMu
  PROVE  IInv'
  <1>0. TypeInv /\ Own(w) /\ Mutex BY DEF IInv
  <1>1. /\ pc' \in [Writers -> Early \cup {"await", "publish", "snapshot", "notify", "end"}]
        /\ pc'[w] = to
        /\ \A v \in Writers : v # w => pc'[v] = pc[v]
    BY <1>0, PcFacts DEF Early
  <1>2. TypeInv'
    BY <1>0, <1>1 DEF TypeInv, ledger
  <1>3. Own(w)'
    <2>1. CASE w \in Remote
      BY <1>0, <1>1, <2>1, KindFacts DEF Own, Effects, RemoteCall, ledger, Early, Holding
    <2>2. CASE w \notin Remote
      BY <1>0, <1>1, <2>2, KindFacts DEF Own, Effects, LocalCall, ledger, Early, Holding
    <2> QED BY <2>1, <2>2
  <1>4. pc'[w] \in Holding => writeMu' = w
    BY <1>0, <1>1 DEF Mutex, Holding
  <1> QED BY <1>1, <1>2, <1>3, <1>4, ProviderFrame DEF Ready

LEMMA LockStep ==
  ASSUME IInv, NEW w \in Writers, Lock(w)
  PROVE  IInv'
  <1>1. CASE Fail(w)
    BY <1>1, FailStep DEF Lock, Early
  <1>2. CASE /\ writeMu = None /\ writeMu' = w /\ pc' = [pc EXCEPT ![w] = "prepare"]
             /\ UNCHANGED <<store, prepared, stream, notification, ledger, result>>
    BY <1>2, AdvanceStep DEF Lock, stream
  <1> QED BY <1>1, <1>2 DEF Lock

LEMMA CheckStep ==
  ASSUME IInv, NEW w \in Writers, Check(w)
  PROVE  IInv'
  <1>1. CASE Fail(w)
    BY <1>1, FailStep DEF Check, Early
  <1>2. CASE /\ pc' = [pc EXCEPT ![w] = "persist"]
             /\ UNCHANGED <<writeMu, store, prepared, stream, notification, ledger, result>>
    BY <1>2, AdvanceStep DEF Check, stream
  <1> QED BY <1>1, <1>2 DEF Check

\* The prepared settings are the stored ones with valid values in them.
LEMMA PrepareStep ==
  ASSUME IInv, NEW w \in Writers, Prepare(w)
  PROVE  IInv'
  <1>0. /\ TypeInv /\ Own(w) /\ Mutex /\ pc[w] = "prepare"
        /\ Changed(w) \subseteq Settings /\ w \in Remote \cup Local
        /\ effects[w] = {}
    BY SettingsAssumption DEF IInv, Prepare, Own, Effects, Early, Holding
  <1>a. CASE Fail(w)
    BY <1>0, <1>a, FailStep DEF Early
  <1> DEFINE p == [s \in Changed(w) |->
                     [store[s] EXCEPT !.value = Normal[store[s].type][Change[w][s]]]]
  <1>b. CASE /\ ~\E s \in Changed(w) :
                   store[s] = None \/ Normal[store[s].type][Change[w][s]] = None
             /\ prepared' = [prepared EXCEPT ![w] = p]
             /\ pc' = [pc EXCEPT ![w] = "check"]
             /\ UNCHANGED <<writeMu, store, stream, notification, ledger, result>>
    <2>1. /\ pc' \in [Writers -> Early \cup {"await", "publish", "snapshot", "notify", "end"}]
          /\ pc'[w] = "check"
          /\ \A v \in Writers : v # w => pc'[v] = pc[v]
      BY <1>0, <1>b, PcFacts DEF Early
    <2>2. ASSUME NEW s \in Changed(w)
          PROVE  /\ store[s] \in Stored /\ p[s] \in Stored
                 /\ p[s].type = store[s].type /\ p[s].default = store[s].default
      <3> DEFINE n == Normal[store[s].type][Change[w][s]]
      <3>1. store[s] \in Stored /\ n # None
        BY <1>0, <1>b DEF TypeInv
      <3>2. store[s].type \in Types
        BY <3>1 DEF Stored
      <3>3. n \in Values
        BY <1>0, <3>1, <3>2, SettingsAssumption DEF Values
      <3>4. p[s] = [store[s] EXCEPT !.value = n]
        OBVIOUS
      <3> HIDE DEF n, p
      <3> QED BY <3>1, <3>3, <3>4 DEF Stored
    <2> HIDE DEF p
    <2>3. /\ prepared' = [v \in Writers |-> prepared'[v]]
          /\ prepared'[w] = p
          /\ \A v \in Writers : v # w => prepared'[v] = prepared[v]
      BY <1>0, <1>b DEF TypeInv
    <2>4. TypeInv'
      BY <1>0, <1>b, <2>1, <2>3 DEF TypeInv, stream, ledger
    <2>5. ASSUME NEW v \in Writers PROVE Own(v)'
      <3>1. CASE v # w
        BY <1>b, <2>1, <3>1, OwnFrame DEF IInv, stream, ledger
      <3>2. CASE v = w /\ w \in Remote
        BY <1>0, <1>b, <2>1, <3>2
           DEF Own, Effects, RemoteCall, stream, ledger, Early, Holding
      <3>3. CASE v = w /\ w \notin Remote
        BY <1>0, <1>b, <2>1, <3>3
           DEF Own, Effects, LocalCall, stream, ledger, Early, Holding
      <3> QED BY <3>1, <3>2, <3>3
    <2>6. Mutex'
      BY <1>0, <1>b, <2>1 DEF Mutex, Holding
    <2>7. \A v \in Writers : Based(v)'
      BY <1>b, <2>1, <2>2, <2>3 DEF IInv, Based
    <2>8. \A s \in Settings : Unpublished(s) => Unpublished(s)'
      BY <1>0, <1>b, <2>3 DEF Unpublished, Open, ledger
    <2>9. \A s \in Settings : Agreed(s)'
      BY <1>b, <2>8 DEF IInv, Agreed, ledger
    <2>10. ASSUME NEW v \in Writers PROVE Saved(v)'
      <3>1. CASE v = w
        BY <1>0, <1>b, <3>1 DEF Saved, ledger
      <3>2. CASE v # w
        BY <1>b, <2>1, <2>8, <3>2, SettingsAssumption DEF IInv, Saved, ledger
      <3> QED BY <3>1, <3>2
    <2> QED BY <2>4, <2>5, <2>6, <2>7, <2>9, <2>10 DEF IInv
  <1> QED BY <1>a, <1>b DEF Prepare

LEMMA PersistLocallyStep ==
  ASSUME IInv, NEW w \in Writers, PersistLocally(w)
  PROVE  IInv'
  <1>0. TypeInv /\ Own(w) /\ pc[w] = "persist" /\ w \in Local /\ w \notin Remote
    BY KindFacts DEF IInv, PersistLocally
  <1>1. effects[w] = {}
    BY <1>0 DEF Own, Effects, Early
  <1>a. CASE Fail(w)
    BY <1>0, <1>a, FailStep DEF Early
  <1>b. CASE /\ w \in Saves /\ Save(w) /\ pc' = [pc EXCEPT ![w] = "publish"]
             /\ UNCHANGED <<writeMu, store, prepared, stream, notification, result>>
    <2>1. /\ pc' \in [Writers -> Early \cup {"await", "publish", "snapshot", "notify", "end"}]
          /\ pc'[w] = "publish"
          /\ \A v \in Writers : v # w => pc'[v] = pc[v]
      BY <1>0, <1>b, PcFacts
    <2>2. effects' \in [Writers -> SUBSET {"saved", "published"}] /\ effects'[w] = {"saved"}
      BY <1>1, <1>b, SaveFacts
    <2>3. TypeInv'
      BY <1>0, <1>b, <2>1, <2>2 DEF TypeInv, stream
    <2>4. Own(w)'
      BY <1>0, <1>b, <2>1, <2>2 DEF Own, Effects, LocalCall, Early, Holding
    <2> QED BY <1>0, <1>1, <1>b, <2>1, <2>3, <2>4, SaveFrame DEF stream, Ready, Holding
  <1>c. CASE /\ w \notin Saves /\ pc' = [pc EXCEPT ![w] = "publish"]
             /\ UNCHANGED <<writeMu, store, prepared, stream, notification, ledger, result>>
    BY <1>0, <1>c, AdvanceStep DEF stream
  <1> QED BY <1>a, <1>b, <1>c DEF PersistLocally

LEMMA OfferStep ==
  ASSUME IInv, NEW w \in Remote, Offer(w)
  PROVE  IInv'
  <1>0. TypeInv /\ w \in Writers /\ Own(w) /\ Mutex /\ pc[w] = "persist"
    BY DEF IInv, Remote, Offer
  <1>a. CASE Fail(w)
    BY <1>0, <1>a, FailStep DEF Early
  <1>b. CASE /\ pc' = [pc EXCEPT ![w] = "await"]
             /\ down' = [down EXCEPT ![w] = IF w \in cut THEN @ ELSE "prepared"]
             /\ UNCHANGED <<writeMu, store, prepared, client, up, cut, notification, ledger, result>>
    <2>1. /\ pc' \in [Writers -> Early \cup {"await", "publish", "snapshot", "notify", "end"}]
          /\ pc'[w] = "await"
          /\ \A v \in Writers : v # w => pc'[v] = pc[v]
      BY <1>0, <1>b, PcFacts
    <2>2. /\ down' \in [Remote -> {"none", "prepared", "committed", "rejected"}]
          /\ down'[w] \in {down[w], "prepared"}
          /\ \A v \in Remote : v # w => down'[v] = down[v]
      BY <1>0, <1>b DEF TypeInv
    <2>3. TypeInv'
      BY <1>0, <1>b, <2>1, <2>2 DEF TypeInv, ledger
    <2>4. Own(w)'
      BY <1>0, <1>b, <2>1, <2>2 DEF Own, Effects, RemoteCall, ledger, Early, Holding
    <2>5. pc'[w] \in Holding => writeMu' = w
      BY <1>0, <1>b DEF Mutex, Holding
    <2> QED BY <1>0, <1>b, <2>1, <2>2, <2>3, <2>4, <2>5, ProviderFrame DEF Ready
  <1> QED BY <1>a, <1>b DEF Offer

LEMMA ReceiveAckStep ==
  ASSUME IInv, NEW w \in Remote, ReceiveAck(w)
  PROVE  IInv'
  <1>0. w \in Writers /\ pc[w] = "await" BY DEF Remote, ReceiveAck
  <1>1. CASE up[w] = "saved" /\ Accept(w)
    BY <1>0, <1>1, AdvanceStep DEF Accept, stream
  <1>2. CASE Fail(w)
    BY <1>0, <1>2, FailStep
  <1> QED BY <1>1, <1>2 DEF ReceiveAck

\* The prepared settings replace the stored ones.  A saved commit leaves its own
\* values durable and applied, or those of a host that saved after it.
LEMMA PublishStep ==
  ASSUME IInv, NEW w \in Writers, Publish(w)
  PROVE  IInv'
  <1>0. /\ TypeInv /\ Own(w) /\ Based(w) /\ Saved(w) /\ pc[w] = "publish" /\ writeMu = w
        /\ Changed(w) \subseteq Settings
    BY SettingsAssumption DEF IInv, Publish, Mutex, Holding
  <1>1. /\ store' = [s \in Settings |-> IF s \in Changed(w) THEN prepared[w][s] ELSE store[s]]
        /\ writeMu' = None /\ pc' = [pc EXCEPT ![w] = "snapshot"]
        /\ unsaved' = (IF w \in Saves THEN unsaved ELSE unsaved \cup Changed(w))
        /\ UNCHANGED <<prepared, client, up, down, durable, result>>
    BY DEF Publish, PublishPrepared, stream
  <1>2. /\ effects' \in [Writers -> SUBSET {"saved", "published"}]
        /\ effects'[w] = effects[w] \cup {"published"}
        /\ \A v \in Writers : v # w => effects'[v] = effects[v]
    BY <1>0 DEF Publish, PublishPrepared, TypeInv
  <1>3. /\ pc' \in [Writers -> Early \cup {"await", "publish", "snapshot", "notify", "end"}]
        /\ pc'[w] = "snapshot"
        /\ \A v \in Writers : v # w => pc'[v] = pc[v]
    BY <1>0, <1>1, PcFacts
  <1>4. store' \in [Settings -> Stored \cup {None}]
    BY <1>0, <1>1 DEF TypeInv, Based, Ready
  <1>5. TypeInv'
    BY <1>0, <1>1, <1>2, <1>3, <1>4 DEF TypeInv
  <1>6. ASSUME NEW v \in Writers PROVE Own(v)'
    <2>1. CASE v # w
      BY <1>1, <1>2, <1>3, <2>1, OwnFrame DEF IInv
    <2>2. CASE v = w /\ w \in Remote
      BY <1>0, <1>1, <1>2, <1>3, <2>2 DEF Own, Effects, RemoteCall, Early, Holding
    <2>3. CASE v = w /\ w \notin Remote
      BY <1>0, <1>1, <1>2, <1>3, <2>3 DEF Own, Effects, LocalCall, Early, Holding
    <2> QED BY <2>1, <2>2, <2>3
  <1>7. \A v \in Writers : pc'[v] \notin Holding /\ pc'[v] \notin Ready
    BY <1>0, <1>3 DEF IInv, Mutex, Holding, Ready
  <1>8. Mutex' /\ \A v \in Writers : Based(v)' /\ Saved(v)'
    BY <1>7 DEF Mutex, Based, Saved
  <1>9. ASSUME NEW s \in Settings, Unpublished(s)
        PROVE  Unpublished(s)' \/ (s \in Changed(w) /\ durable'[s] = store'[s].value)
    <2>1. PICK v \in Writers : Open(v) /\ s \in Changed(v) /\ durable[s] = prepared[v][s].value
      BY <1>9 DEF Unpublished
    <2>2. CASE v = w
      BY <1>1, <2>1, <2>2
    <2>3. CASE v # w
      BY <1>1, <1>2, <2>1, <2>3 DEF Unpublished, Open
    <2> QED BY <2>2, <2>3
  <1>10. ASSUME NEW s \in Settings PROVE Agreed(s)'
    <2>1. CASE s \notin Changed(w)
      BY <1>1, <1>9, <2>1 DEF IInv, Agreed
    <2>2. CASE s \in Changed(w) /\ w \notin Saves
      BY <1>1, <2>2 DEF Agreed
    <2>3. CASE s \in Changed(w) /\ w \in Saves
      <3>1. Unpublished(s)
        BY <1>0, <2>3 DEF Own, Effects, Saved, Ready
      <3> QED BY <1>9, <3>1 DEF Agreed
    <2> QED BY <2>1, <2>2, <2>3
  <1> QED BY <1>5, <1>6, <1>8, <1>10 DEF IInv

-----------------------------------------------------------------------------
(* The other writers, and the end of a call.                               *)

\* While writeMu is free no commit is between its preparation and publication.
LEMMA FreeFacts ==
  ASSUME IInv, writeMu = None
  PROVE  \A v \in Writers : pc[v] \notin Holding /\ pc[v] \notin Ready
  BY KindFacts DEF IInv, Mutex, Holding, Ready

LEMMA ResetStep ==
  ASSUME IInv, NEW w \in Writers, NEW s \in Changed(w), ResetSetting(w, s)
  PROVE  IInv'
  <1>0. /\ TypeInv /\ Own(w) /\ pc[w] = "lock" /\ writeMu = None
        /\ w \notin Remote /\ w \notin Saves /\ s \in Settings
    BY KindFacts, SettingsAssumption DEF IInv, ResetSetting
  <1>a. CASE Fail(w)
    BY <1>0, <1>a, FailStep DEF Early
  <1>b. CASE /\ store[s] # None
             /\ store' = [store EXCEPT ![s].value = store[s].default]
             /\ prepared' = [prepared EXCEPT ![w] = [x \in {s} |-> store'[s]]]
             /\ pc' = [pc EXCEPT ![w] = "snapshot"]
             /\ effects' = [effects EXCEPT ![w] = {"published"}]
             /\ unsaved' = unsaved \cup {s}
             /\ UNCHANGED <<writeMu, stream, durable, result>>
    <2>1. store[s] \in Stored
      BY <1>0, <1>b DEF TypeInv
    <2>2. [store[s] EXCEPT !.value = store[s].default] \in Stored
      BY <2>1 DEF Stored
    <2>3. /\ store' \in [Settings -> Stored \cup {None}]
          /\ \A x \in Settings : x # s => store'[x] = store[x]
      BY <1>0, <1>b, <2>2 DEF TypeInv
    <2>4. /\ effects' \in [Writers -> SUBSET {"saved", "published"}]
          /\ effects'[w] = {"published"}
          /\ \A v \in Writers : v # w => effects'[v] = effects[v]
      BY <1>0, <1>b DEF TypeInv
    <2>5. /\ pc' \in [Writers -> Early \cup {"await", "publish", "snapshot", "notify", "end"}]
          /\ pc'[w] = "snapshot"
          /\ \A v \in Writers : v # w => pc'[v] = pc[v]
      BY <1>0, <1>b, PcFacts
    <2>6. /\ prepared' = [v \in Writers |-> prepared'[v]]
          /\ \A v \in Writers : v # w => prepared'[v] = prepared[v]
      BY <1>0, <1>b DEF TypeInv
    <2>7. TypeInv'
      BY <1>0, <1>b, <2>3, <2>4, <2>5, <2>6 DEF TypeInv, stream
    <2>8. ASSUME NEW v \in Writers PROVE Own(v)'
      <3>1. CASE v # w
        BY <1>b, <2>4, <2>5, <3>1, OwnFrame DEF IInv, stream
      <3>2. CASE v = w
        BY <1>0, <1>b, <2>4, <2>5, <3>2 DEF Own, Effects, LocalCall, Early, Holding
      <3> QED BY <3>1, <3>2
    <2>9. \A v \in Writers : pc'[v] \notin Holding /\ pc'[v] \notin Ready
      BY <1>0, <2>5, FreeFacts DEF Holding, Ready
    <2>10. Mutex' /\ \A v \in Writers : Based(v)' /\ Saved(v)'
      BY <2>9 DEF Mutex, Based, Saved
    <2>11. \A x \in Settings : Unpublished(x) => Unpublished(x)'
      <3>1. ~Open(w)
        BY <1>0 DEF Own, Effects, Early, Open
      <3> QED BY <1>b, <2>4, <2>6, <3>1 DEF Unpublished, Open
    <2>12. \A x \in Settings : Agreed(x)'
      BY <1>b, <2>3, <2>11 DEF IInv, Agreed
    <2> QED BY <2>7, <2>8, <2>10, <2>12 DEF IInv
  <1> QED BY <1>a, <1>b DEF ResetSetting

LEMMA RedefineFacts ==
  ASSUME TypeInv, NEW w \in Writers, Kind[w] = "plugin", NEW s \in Changed(w)
  PROVE  Redefine(w, s) \in Stored
  <1>1. Change[w][s] \in [type : Types, default : Values] /\ s \in Settings
    BY KindFacts, SettingsAssumption DEF Definitions
  <1>2. Define(Change[w][s]) \in Stored
    BY <1>1 DEF Define, Stored
  <1>3. ASSUME store[s] # None
        PROVE  [Define(Change[w][s]) EXCEPT !.value = store[s].value] \in Stored
    BY <1>1, <1>2, <1>3 DEF TypeInv, Stored
  <1> QED BY <1>2, <1>3 DEF Redefine

LEMMA RegisterStep ==
  ASSUME IInv, NEW w \in Writers, RegisterSettings(w)
  PROVE  IInv'
  <1>0. /\ TypeInv /\ Own(w) /\ pc[w] = "lock" /\ Kind[w] = "plugin" /\ w \notin Remote
        /\ writeMu = None
    BY KindFacts DEF IInv, RegisterSettings, Redefinition
  <1>1. /\ store' = [s \in Settings |-> IF s \in Changed(w) THEN Redefine(w, s) ELSE store[s]]
        /\ Return(w, "applied")
        /\ unsaved' = unsaved \cup {s \in Changed(w) :
                                      store[s] = None \/ store'[s].value # store[s].value}
        /\ UNCHANGED <<writeMu, prepared, client, up, durable, effects>>
    BY DEF RegisterSettings, Redefinition
  <1>2. /\ pc' = [pc EXCEPT ![w] = "end"]
        /\ result' \in [Writers -> {"none", "applied", "uncertain", "error"}]
        /\ down' \in [Remote -> {"none", "prepared", "committed", "rejected"}]
        /\ \A v \in Writers : v # w => result'[v] = result[v]
        /\ \A v \in Remote : v # w => down'[v] = down[v]
        /\ result'[w] = "applied"
    BY <1>0, <1>1, ReturnFacts
  <1>3. /\ pc' \in [Writers -> Early \cup {"await", "publish", "snapshot", "notify", "end"}]
        /\ pc'[w] = "end"
        /\ \A v \in Writers : v # w => pc'[v] = pc[v]
    BY <1>0, <1>2, PcFacts
  <1>4. store' \in [Settings -> Stored \cup {None}]
    BY <1>0, <1>1, RedefineFacts DEF TypeInv
  <1>5. TypeInv'
    BY <1>0, <1>1, <1>2, <1>3, <1>4 DEF TypeInv
  <1>6. ASSUME NEW v \in Writers PROVE Own(v)'
    <2>1. CASE v # w
      BY <1>1, <1>2, <1>3, <2>1, OwnFrame DEF IInv
    <2>2. CASE v = w
      BY <1>0, <1>1, <1>2, <1>3, <2>2 DEF Own, Effects, LocalCall, Early, Holding
    <2> QED BY <2>1, <2>2
  <1>7. \A v \in Writers : pc'[v] \notin Holding /\ pc'[v] \notin Ready
    BY <1>0, <1>3, FreeFacts DEF Holding, Ready
  <1>8. Mutex' /\ \A v \in Writers : Based(v)' /\ Saved(v)'
    BY <1>7 DEF Mutex, Based, Saved
  <1>9. \A s \in Settings : Unpublished(s) => Unpublished(s)'
    BY <1>1 DEF Unpublished, Open
  <1>10. ASSUME NEW s \in Settings PROVE Agreed(s)'
    <2>1. CASE s \notin Changed(w)
      BY <1>1, <1>9, <2>1 DEF IInv, Agreed
    <2>2. CASE s \in Changed(w) /\ store'[s].value = store[s].value
      BY <1>1, <1>9, <2>2 DEF IInv, Agreed
    <2>3. CASE s \in Changed(w) /\ store'[s].value # store[s].value
      BY <1>1, <2>3 DEF Agreed
    <2> QED BY <2>1, <2>2, <2>3
  <1> QED BY <1>5, <1>6, <1>8, <1>10 DEF IInv

LEMMA FinishStep ==
  ASSUME IInv, NEW w \in Writers, Finish(w)
  PROVE  IInv'
  <1>0. TypeInv /\ Own(w) /\ pc[w] = "notify" BY DEF IInv, Finish
  <1>1. Return(w, "applied") /\ UNCHANGED <<writeMu, store, prepared, client, up, ledger>>
    BY DEF Finish
  <1>2. /\ pc' = [pc EXCEPT ![w] = "end"]
        /\ result' \in [Writers -> {"none", "applied", "uncertain", "error"}]
        /\ down' \in [Remote -> {"none", "prepared", "committed", "rejected"}]
        /\ \A v \in Writers : v # w => result'[v] = result[v]
        /\ \A v \in Remote : v # w => down'[v] = down[v]
        /\ w \in Remote => result' = result /\ down'[w] \in {down[w], "committed"}
        /\ w \notin Remote => result'[w] = "applied"
    BY <1>0, <1>1, ReturnFacts
  <1>3. /\ pc' \in [Writers -> Early \cup {"await", "publish", "snapshot", "notify", "end"}]
        /\ pc'[w] = "end"
        /\ \A v \in Writers : v # w => pc'[v] = pc[v]
    BY <1>0, <1>2, PcFacts
  <1>4. TypeInv'
    BY <1>0, <1>1, <1>2, <1>3 DEF TypeInv, ledger
  <1>5. Own(w)'
    <2>1. CASE w \in Remote
      BY <1>0, <1>1, <1>2, <1>3, <2>1 DEF Own, Effects, RemoteCall, ledger, Early, Holding
    <2>2. CASE w \notin Remote
      BY <1>0, <1>1, <1>2, <1>3, <2>2 DEF Own, Effects, LocalCall, ledger, Early, Holding
    <2> QED BY <2>1, <2>2
  <1> QED BY <1>1, <1>2, <1>3, <1>4, <1>5, ProviderFrame DEF Holding, Ready

LEMMA NotifyStep ==
  ASSUME IInv, NEW w \in Writers,
         SnapshotHandlers(w) \/ ReadCategory(w) \/ CallHandler(w) \/ Finish(w)
  PROVE  IInv'
  <1>1. CASE SnapshotHandlers(w)
    BY <1>1, AdvanceStep DEF SnapshotHandlers, stream
  <1>2. CASE ReadCategory(w)
    BY <1>2, OutsideFrame DEF ReadCategory, stream
  <1>3. CASE CallHandler(w)
    BY <1>3, OutsideFrame DEF CallHandler, Called, stream
  <1> QED BY <1>1, <1>2, <1>3, FinishStep

-----------------------------------------------------------------------------
(* The invariant and what it implies.                                      *)

LEMMA InitInvariant == Init => IInv
  <1> SUFFICES ASSUME Init PROVE IInv
    OBVIOUS
  <1>1. store \in [Settings -> Stored \cup {None}]
    <2>1. ASSUME NEW s \in DOMAIN Initial PROVE Define(Initial[s]) \in Stored
      <3>1. Initial[s] \in [type : Types, default : Values]
        BY SettingsAssumption DEF Definitions
      <3> QED BY <3>1 DEF Define, Stored
    <2> QED BY <2>1 DEF Init
  <1>2. TypeInv
    <2>1. pc \in [Writers -> Early \cup {"await", "publish", "snapshot", "notify", "end"}]
      BY DEF Init, Early
    <2> QED BY <1>1, <2>1 DEF Init, TypeInv
  <1>3. \A w \in Writers : pc[w] \in {"idle", "lock"} /\ (pc[w] = "idle" <=> w \in Remote)
    BY DEF Init
  <1>4. \A w \in Writers : Own(w)
    BY <1>3, KindFacts DEF Init, Own, Effects, LocalCall, RemoteCall, Early, Holding
  <1>5. Mutex /\ \A w \in Writers : Based(w) /\ Saved(w)
    BY <1>3 DEF Mutex, Based, Saved, Holding, Ready
  <1>6. \A s \in Settings : Agreed(s)
    BY DEF Init, Agreed
  <1> QED BY <1>2, <1>4, <1>5, <1>6 DEF IInv

LEMMA NextInvariant == IInv /\ [Next]_vars => IInv'
  <1> SUFFICES ASSUME IInv, [Next]_vars PROVE IInv'
    OBVIOUS
  <1>1. CASE UNCHANGED vars
    BY <1>1, OutsideFrame DEF vars, stream
  <1>2. ASSUME NEW w \in Remote, Propose(w) \/ ClientStep(w) PROVE IInv'
    BY <1>2, ProposeStep, ReceivePreparedStep, PersistStep, SendAckStep, ReceiveResultStep
       DEF ClientStep
  <1>3. ASSUME NEW w \in Writers, Cut(w) PROVE IInv'
    BY <1>3, OutsideFrame DEF Cut
  <1>4. ASSUME NEW w \in Writers, ProviderStep(w) PROVE IInv'
    <2>1. CASE w \in Remote /\ ServerStep(w)
      BY <2>1, ReceiveProposalStep, OfferStep, ReceiveAckStep DEF ServerStep
    <2> QED BY <1>4, <2>1, LockStep, PrepareStep, CheckStep, PersistLocallyStep, PublishStep,
               NotifyStep DEF ProviderStep
  <1>5. ASSUME NEW w \in Writers, RegisterSettings(w) PROVE IInv'
    BY <1>5, RegisterStep
  <1>6. ASSUME NEW w \in Writers, NEW s \in Changed(w), ResetSetting(w, s) PROVE IInv'
    BY <1>6, ResetStep
  <1>7. ASSUME NEW c \in Categories, RegisterChangeHandler(c) PROVE IInv'
    BY <1>7, OutsideFrame DEF RegisterChangeHandler, stream
  <1> QED BY <1>1, <1>2, <1>3, <1>4, <1>5, <1>6, <1>7 DEF Next

THEOREM Invariance == Spec => []IInv
  BY InitInvariant, NextInvariant, PTL DEF Spec

\* A call that answered with an error stored nothing and published nothing,
\* however its stream broke and whenever its host persisted.
THEOREM ErrorsAreClean == Spec => []RefusedCommitHasNoEffect
  <1>1. IInv => RefusedCommitHasNoEffect
    BY DEF IInv, Own, Effects, RefusedCommitHasNoEffect
  <1> QED BY <1>1, Invariance, PTL

\* No divergence between the host's storage and the plugin goes unreported:
\* for any number of overlapping remote and local commits, resets and
\* registrations.
THEOREM NoSilentDivergence == Spec => []DurableIsAppliedOrInDoubt
  <1>1. IInv => DurableIsAppliedOrInDoubt
    <2> SUFFICES ASSUME IInv, NEW s \in Settings, durable[s] # None, s \notin unsaved,
                        Unpublished(s)
                 PROVE  \E w \in Saves : /\ InDoubt(w) /\ s \in Changed(w)
                                         /\ durable[s] = prepared[w][s].value
      BY DEF DurableIsAppliedOrInDoubt, IInv, Agreed
    <2>1. PICK w \in Writers : Open(w) /\ s \in Changed(w) /\ durable[s] = prepared[w][s].value
      BY DEF Unpublished
    <2>2. w \in Saves /\ result[w] \in {"none", "uncertain"} /\ "saved" \in effects[w]
      BY <2>1 DEF IInv, TypeInv, Own, Effects, Open
    <2> QED BY <2>1, <2>2 DEF InDoubt
  <1> QED BY <1>1, Invariance, PTL

\* What a step may do to the definition of a setting.
LEMMA StoreStep ==
  ASSUME IInv, [Next]_vars, NEW s \in Settings, Definition(s)' # Definition(s)
  PROVE  \E w \in Writers : /\ Kind[w] = "plugin" /\ s \in Changed(w)
                            /\ pc[w] = "lock" /\ pc'[w] = "end"
  <1>0. TypeInv /\ None \notin Stored BY SettingsAssumption DEF IInv
  <1>1. CASE UNCHANGED store
    BY <1>1 DEF Definition
  <1>2. ASSUME NEW w \in Writers, Publish(w) PROVE FALSE
    <2>1. store'[s] = IF s \in Changed(w) THEN prepared[w][s] ELSE store[s]
      BY <1>2 DEF Publish, PublishPrepared
    <2>2. CASE s \in Changed(w)
      <3>1. /\ store[s] \in Stored /\ store'[s] \in Stored
            /\ store'[s].type = store[s].type /\ store'[s].default = store[s].default
        BY <1>2, <2>1, <2>2 DEF IInv, Based, Ready, Publish
      <3>2. [store'[s] EXCEPT !.value = None] = [store[s] EXCEPT !.value = None]
        BY <3>1 DEF Stored
      <3> QED BY <1>0, <3>1, <3>2 DEF Definition
    <2>3. CASE s \notin Changed(w)
      BY <2>1, <2>3 DEF Definition
    <2> QED BY <2>2, <2>3
  <1>3. ASSUME NEW w \in Writers, NEW x \in Changed(w), ResetSetting(w, x) PROVE FALSE
    <2>1. x \in Settings
      BY SettingsAssumption
    <2>2. CASE UNCHANGED store
      BY <2>2 DEF Definition
    <2>3. CASE store[x] # None /\ store' = [store EXCEPT ![x].value = store[x].default]
      <3>1. CASE s # x
        BY <1>0, <2>3, <3>1 DEF Definition, TypeInv
      <3>2. CASE s = x
        <4>1. store[s] \in Stored /\ store'[s] = [store[s] EXCEPT !.value = store[s].default]
          BY <1>0, <2>3, <3>2 DEF TypeInv
        <4>2. /\ store'[s] \in Stored
              /\ [store'[s] EXCEPT !.value = None] = [store[s] EXCEPT !.value = None]
          BY <4>1 DEF Stored
        <4> QED BY <1>0, <4>1, <4>2 DEF Definition
      <3> QED BY <3>1, <3>2
    <2> QED BY <1>3, <2>2, <2>3 DEF ResetSetting, Fail
  <1>4. ASSUME NEW w \in Writers, RegisterSettings(w)
        PROVE  /\ Kind[w] = "plugin" /\ s \in Changed(w)
               /\ pc[w] = "lock" /\ pc'[w] = "end"
    <2>1. /\ Kind[w] = "plugin" /\ pc[w] = "lock" /\ Return(w, "applied")
          /\ store'[s] = IF s \in Changed(w) THEN Redefine(w, s) ELSE store[s]
      BY <1>4 DEF RegisterSettings, Redefinition
    <2>2. pc'[w] = "end"
      BY <1>0, <2>1, ReturnFacts DEF TypeInv
    <2>3. s \in Changed(w)
      BY <2>1 DEF Definition
    <2> QED BY <2>1, <2>2, <2>3
  <1>5. ASSUME NEW w \in Remote, Propose(w) \/ ClientStep(w) PROVE UNCHANGED store
    BY <1>5 DEF Propose, ClientStep, ReceivePrepared, Persist, SendAck, ReceiveResult, provider
  <1>6. ASSUME NEW w \in Writers, Cut(w) PROVE UNCHANGED store
    BY <1>6 DEF Cut, provider
  <1>7. ASSUME NEW w \in Writers, ProviderStep(w), ~Publish(w) PROVE UNCHANGED store
    BY <1>7 DEF ProviderStep, ServerStep, ReceiveProposal, Offer, ReceiveAck, Accept, Lock,
                Prepare, Check, PersistLocally, SnapshotHandlers, ReadCategory, CallHandler,
                Called, Finish, Fail, provider
  <1>8. ASSUME NEW c \in Categories, RegisterChangeHandler(c) PROVE UNCHANGED store
    BY <1>8 DEF RegisterChangeHandler, provider
  <1>9. CASE UNCHANGED vars
    BY <1>1, <1>9 DEF vars, provider
  <1> QED BY <1>1, <1>2, <1>3, <1>4, <1>5, <1>6, <1>7, <1>8, <1>9 DEF Next

\* Only a registration of the plugin changes a definition: a commit that read
\* the setting as a whole before never publishes it over a newer definition.
THEOREM CommitsKeepDefinitions == Spec => DefinitionsChangeByRegistration
  <1>1. IInv /\ [Next]_vars =>
          [\A s \in Settings : Definition(s)' # Definition(s) =>
             \E w \in Writers : Kind[w] = "plugin" /\ s \in Changed(w) /\ pc[w] = "lock" /\ pc'[w] = "end"]_vars
    BY StoreStep
  <1> QED BY <1>1, Invariance, PTL DEF Spec, DefinitionsChangeByRegistration
=============================================================================
