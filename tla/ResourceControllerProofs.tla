---------------------- MODULE ResourceControllerProofs ----------------------
(***************************************************************************)
(* Theorems about ResourceController for any sets of connections, callers, *)
(* profiles and generations.                                               *)
(***************************************************************************)
EXTENDS ResourceController, TLAPS

-----------------------------------------------------------------------------
(* The inductive invariant.                                                *)

\* Labels at which a request works on the generation call[p].at.
Stopping == {"stop_mark", "stop_once", "drain", "onstop", "destroy", "unregister"}
Tearing == {"drain", "onstop", "destroy", "unregister"}
OnSlot ==
  Starting \cup Stopping \cup {"wait_created", "wait_joined", "accept", "lease_wait", "leased", "nested"}

\* Every request points at an allocated generation, or at a connection.
References ==
  \A p \in Callers :
    /\ call[p].pc \in OnSlot => call[p].at \in Generations /\ slot[call[p].at].id \in Ids
    /\ call[p].pc = "stop_lookup" => call[p].route \in Ids

\* The registry and the slots agree until teardown has finished.
Registration ==
  /\ \A id \in Ids : clients[id] # None => slot[clients[id]].id = id
  /\ \A g \in Generations :
       slot[g].id # None /\ slot[g].destroy # "done" => clients[slot[g].id] = g

\* What each phase of a slot has established.
SlotPhases ==
  \A g \in Generations :
    LET s == slot[g] IN
    /\ s.client # "none" => s.id \in Ids
    /\ s.destroy # "fresh" => s.stopping
    /\ s.users # {} => s.ready /\ ~s.err /\ s.client = "live"
    /\ s.ready /\ ~s.err /\ s.destroy = "fresh" => s.client = "live"
    /\ s.destroy = "done" => s.ready /\ s.client \in {"none", "destroyed"}

\* The creator alone fills in a slot, before it is ready.
Startup ==
  \A p \in Callers :
    LET s == slot[call[p].at] IN
    call[p].pc \in Starting =>
      /\ ~s.ready
      /\ call[p].pc = "onstart" => s.client = "live"
      /\ call[p].pc = "record" => s.err
      /\ call[p].pc = "ready" => s.err \/ s.client = "live"
      /\ \A q \in Callers : call[q].pc \in Starting /\ call[q].at = call[p].at => q = p

\* The winner of destroy.Do alone tears a slot down, after its users are gone.
Teardown ==
  \A p \in Callers :
    LET s == slot[call[p].at] IN
    call[p].pc \in Tearing =>
      /\ s.destroy = "running"
      /\ call[p].pc # "drain" => s.ready /\ s.users = {}
      /\ call[p].pc = "unregister" => s.client \in {"none", "destroyed"}
      /\ \A q \in Callers : call[q].pc \in Tearing /\ call[q].at = call[p].at => q = p

\* Slots waiting to be stopped are retired already; leases sit on ready slots.
Retired ==
  \A p \in Callers :
    /\ call[p].pc = "stop_once" => slot[call[p].at].stopping
    /\ \A g \in call[p].todo : slot[g].stopping /\ slot[g].id \in Ids
    /\ call[p].pc \in {"leased", "nested"} => slot[call[p].at].ready /\ ~slot[call[p].at].err

IInv == TypeOK /\ References /\ Registration /\ SlotPhases /\ Startup /\ Teardown /\ Retired

-----------------------------------------------------------------------------
(* What the updates of one request and of one slot do.                     *)

LEMMA UpdateFacts ==
  ASSUME TypeOK, NEW g \in Generations, NEW r \in Slots, Update(g, r)
  PROVE  /\ slot' \in [Generations -> Slots]
         /\ slot'[g] = r
         /\ \A h \in Generations : h # g => slot'[h] = slot[h]
  BY DEF TypeOK, Update

LEMMA BecomeFacts ==
  ASSUME TypeOK, NEW p \in Callers, NEW r \in Requests, Become(p, r)
  PROVE  /\ call' \in [Callers -> Requests]
         /\ call'[p] = r
         /\ \A q \in Callers : q # p => call'[q] = call[q]
  BY DEF TypeOK, Become

LEMMA GotoFacts ==
  ASSUME TypeOK, NEW p \in Callers, NEW label \in Labels, Goto(p, label)
  PROVE  /\ call' \in [Callers -> Requests]
         /\ call'[p].pc = label /\ call'[p].at = call[p].at
         /\ call'[p].todo = call[p].todo /\ call'[p].after = call[p].after
         /\ \A q \in Callers : q # p => call'[q] = call[q]
  <1>1. call[p] \in Requests
    BY DEF TypeOK
  <1>2. [call[p] EXCEPT !.pc = label] \in Requests
    BY <1>1 DEF Requests
  <1>3. /\ call' \in [Callers -> Requests]
        /\ call'[p] = [call[p] EXCEPT !.pc = label]
        /\ \A q \in Callers : q # p => call'[q] = call[q]
    BY <1>2, BecomeFacts DEF Goto
  <1> QED BY <1>1, <1>3 DEF Requests

LEMMA IdleFacts ==
  /\ Idle \in Requests
  /\ Idle.pc = "idle" /\ Idle.at = None /\ Idle.todo = {} /\ Idle.after = "idle"
  BY DEF Idle, Requests, Labels

LEMMA EnterFacts ==
  ASSUME NEW label \in Labels, NEW g \in Generations \cup {None}
  PROVE  /\ Enter(label, g) \in Requests
         /\ Enter(label, g).pc = label /\ Enter(label, g).at = g
         /\ Enter(label, g).todo = {} /\ Enter(label, g).after = "idle"
  BY DEF Enter, Idle, Requests, Labels

LEMMA SweepFacts ==
  ASSUME NEW label \in Labels, NEW S \in SUBSET Generations
  PROVE  /\ Sweep(label, S) \in Requests
         /\ Sweep(label, S).pc = label
         /\ Sweep(label, S).todo = S /\ Sweep(label, S).after = "idle"
  BY DEF Sweep, Idle, Requests, Labels

LEMMA ReturnFacts ==
  ASSUME TypeOK, NEW p \in Callers, Return(p)
  PROVE  /\ call' \in [Callers -> Requests]
         /\ call'[p].pc = "idle" /\ call'[p].todo = {} /\ call'[p].after = "idle"
         /\ \A q \in Callers : q # p => call'[q] = call[q]
  BY IdleFacts, BecomeFacts DEF Return

\* Slots keep everything the invariant reads, or begin to stop.
Alike ==
  \A g \in Generations :
    /\ slot'[g].id = slot[g].id
    /\ slot'[g].client = slot[g].client
    /\ slot'[g].ready <=> slot[g].ready
    /\ slot'[g].err <=> slot[g].err
    /\ slot'[g].users = slot[g].users
    /\ slot'[g].destroy = slot[g].destroy
    /\ slot[g].stopping => slot'[g].stopping

LEMMA SameSlots == UNCHANGED slot => Alike
  BY DEF Alike

LEMMA RetireFacts ==
  ASSUME TypeOK, NEW S, Retire(S)
  PROVE  /\ slot' \in [Generations -> Slots]
         /\ Alike
         /\ \A g \in Generations : g \in S => slot'[g].stopping
  <1>1. \A g \in Generations : slot[g] \in Slots
    BY DEF TypeOK
  <1>2. \A g \in Generations : [slot[g] EXCEPT !.stopping = TRUE, !.cancelled = TRUE] \in Slots
    BY <1>1 DEF Slots
  <1>3. slot' \in [Generations -> Slots]
    BY <1>1, <1>2 DEF Retire
  <1>4. \A g \in Generations :
          slot'[g] = IF g \in S THEN [slot[g] EXCEPT !.stopping = TRUE, !.cancelled = TRUE] ELSE slot[g]
    BY DEF Retire
  <1>5. \A g \in Generations : g \in S => slot'[g].stopping
    BY <1>1, <1>4 DEF Slots
  <1>6. ASSUME NEW g \in Generations
        PROVE  /\ slot'[g].id = slot[g].id
               /\ slot'[g].client = slot[g].client
               /\ slot'[g].ready <=> slot[g].ready
               /\ slot'[g].err <=> slot[g].err
               /\ slot'[g].users = slot[g].users
               /\ slot'[g].destroy = slot[g].destroy
               /\ slot[g].stopping => slot'[g].stopping
    <2>1. CASE g \in S
      BY <1>1, <1>4, <2>1 DEF Slots
    <2>2. CASE g \notin S
      BY <1>4, <2>2
    <2> QED BY <2>1, <2>2
  <1> QED BY <1>3, <1>5, <1>6 DEF Alike

LEMMA FrameType ==
  ASSUME TypeOK, slot' \in [Generations -> Slots], call' \in [Callers -> Requests],
         UNCHANGED <<registry, inventory>>
  PROVE  TypeOK'
  BY DEF TypeOK, registry, inventory

-----------------------------------------------------------------------------
(* Most steps only move one request to a label that the invariant asks     *)
(* little of: they are all instances of QuietStep.                         *)

\* A request that neither fills in, nor tears down, nor borrows a slot.
Quiet(r) ==
  /\ r.pc \notin Starting \cup Tearing \cup {"leased", "nested"}
  /\ r.pc \in OnSlot => r.at \in Generations /\ slot[r.at].id \in Ids
  /\ r.pc = "stop_lookup" => r.route \in Ids
  /\ r.pc = "stop_once" => slot'[r.at].stopping
  /\ \A g \in r.todo : slot'[g].stopping /\ slot[g].id \in Ids

SameControl(r, s) == r.pc = s.pc /\ r.at = s.at /\ r.todo = s.todo /\ r.route = s.route

LEMMA QuietStep ==
  ASSUME IInv, TypeOK', Alike, clients' = clients,
         NEW p \in Callers,
         \A q \in Callers : q # p => call'[q] = call[q],
         SameControl(call'[p], call[p]) \/ Quiet(call'[p])
  PROVE  IInv'
  <1>1. TypeOK /\ References /\ Registration /\ SlotPhases /\ Startup /\ Teardown /\ Retired
    BY DEF IInv
  <1>2. \A id \in Ids : clients[id] # None => clients[id] \in Generations
    BY <1>1 DEF TypeOK
  <1>3. \A q \in Callers : call[q].todo \subseteq Generations /\ call'[q].todo \subseteq Generations
    BY <1>1 DEF TypeOK, Requests
  <1>4. \A q \in Callers : SameControl(call'[q], call[q]) \/ (q = p /\ Quiet(call'[q]))
    BY DEF SameControl
  <1>5. References'
    BY <1>1, <1>4 DEF References, Alike, Quiet, SameControl
  <1>6. Registration'
    BY <1>1, <1>2 DEF Registration, Alike
  <1>7. SlotPhases'
    BY <1>1 DEF SlotPhases, Alike
  <1>8. Startup'
    BY <1>1, <1>4 DEF Startup, Alike, Quiet, SameControl, References, OnSlot
  <1>9. Teardown'
    BY <1>1, <1>4 DEF Teardown, Alike, Quiet, SameControl, References, OnSlot, Stopping, Tearing
  <1>10. Retired'
    BY <1>1, <1>3, <1>4 DEF Retired, Alike, Quiet, SameControl, References, OnSlot, Stopping
  <1> QED BY <1>5, <1>6, <1>7, <1>8, <1>9, <1>10 DEF IInv

\* A quiet step that leaves the slots and the registry alone.
LEMMA QuietMove ==
  ASSUME IInv, UNCHANGED <<slot, clients>>, TypeOK',
         NEW p \in Callers,
         \A q \in Callers : q # p => call'[q] = call[q],
         call'[p].pc \notin Starting \cup Tearing \cup {"leased", "nested"},
         call'[p].pc \in OnSlot => call'[p].at \in Generations /\ slot[call'[p].at].id \in Ids,
         call'[p].pc = "stop_lookup" => call'[p].route \in Ids,
         call'[p].pc = "stop_once" => slot[call'[p].at].stopping,
         \A g \in call'[p].todo : slot[g].stopping /\ slot[g].id \in Ids
  PROVE  IInv'
  <1>1. Quiet(call'[p])
    BY DEF Quiet
  <1> QED BY <1>1, QuietStep, SameSlots

\* A request that only returns.
LEMMA ReturnStep ==
  ASSUME IInv, NEW p \in Callers, Return(p), UNCHANGED <<slot, clients>>, TypeOK'
  PROVE  IInv'
  <1>1. TypeOK
    BY DEF IInv
  <1>2. /\ call'[p].pc = "idle" /\ call'[p].todo = {}
        /\ \A q \in Callers : q # p => call'[q] = call[q]
    BY <1>1, ReturnFacts
  <1> QED BY <1>2, QuietMove DEF Starting, Tearing, OnSlot, Stopping

LEMMA ReturnType ==
  ASSUME TypeOK, NEW p \in Callers, Return(p), UNCHANGED <<registry, slot, inventory>>
  PROVE  TypeOK'
  <1>1. call' \in [Callers -> Requests]
    BY ReturnFacts
  <1>2. slot' \in [Generations -> Slots]
    BY DEF TypeOK
  <1> QED BY <1>1, <1>2, FrameType

LEMMA StartJoinStep ==
  ASSUME IInv, NEW p \in Callers, NEW id \in Ids, StartJoin(p, id)
  PROVE  IInv'
  <1>1. TypeOK /\ clients[id] \in Generations /\ slot[clients[id]].id \in Ids
    BY DEF IInv, TypeOK, Registration, StartJoin
  <1>2. Enter("wait_joined", clients[id]) \in Requests
    BY <1>1, EnterFacts DEF Labels
  <1>3. /\ call' \in [Callers -> Requests]
        /\ call'[p] = Enter("wait_joined", clients[id])
        /\ \A q \in Callers : q # p => call'[q] = call[q]
    BY <1>1, <1>2, BecomeFacts DEF StartJoin, Call
  <1>4. call'[p].pc = "wait_joined" /\ call'[p].at = clients[id] /\ call'[p].todo = {}
    BY <1>1, <1>3, EnterFacts DEF Labels
  <1>5. UNCHANGED <<registry, slot, inventory>>
    BY DEF StartJoin
  <1>6. TypeOK'
    BY <1>1, <1>3, <1>5, FrameType DEF TypeOK
  <1> QED BY <1>1, <1>3, <1>4, <1>5, <1>6, QuietMove DEF registry, Starting, Tearing, OnSlot, Stopping

LEMMA LeaseLookupStep ==
  ASSUME IInv, NEW p \in Callers, NEW id \in Ids, LeaseLookup(p, id)
  PROVE  IInv'
  <1>1. TypeOK /\ clients[id] \in Generations /\ slot[clients[id]].id \in Ids
    BY DEF IInv, TypeOK, Registration, LeaseLookup
  <1>2. Enter("lease_wait", clients[id]) \in Requests
    BY <1>1, EnterFacts DEF Labels
  <1>3. /\ call' \in [Callers -> Requests]
        /\ call'[p] = Enter("lease_wait", clients[id])
        /\ \A q \in Callers : q # p => call'[q] = call[q]
    BY <1>1, <1>2, BecomeFacts DEF LeaseLookup, Call
  <1>4. call'[p].pc = "lease_wait" /\ call'[p].at = clients[id] /\ call'[p].todo = {}
    BY <1>1, <1>3, EnterFacts DEF Labels
  <1>5. UNCHANGED <<registry, slot, inventory>>
    BY DEF LeaseLookup
  <1>6. TypeOK'
    BY <1>1, <1>3, <1>5, FrameType DEF TypeOK
  <1> QED BY <1>1, <1>3, <1>4, <1>5, <1>6, QuietMove DEF registry, Starting, Tearing, OnSlot, Stopping

LEMMA CloseAgainStep ==
  ASSUME IInv, NEW p \in Callers, CloseAgain(p)
  PROVE  IInv'
  <1>1. TypeOK
    BY DEF IInv
  <1>2. Enter("close_join", None) \in Requests
    BY <1>1, EnterFacts DEF Labels
  <1>3. /\ call' \in [Callers -> Requests]
        /\ call'[p] = Enter("close_join", None)
        /\ \A q \in Callers : q # p => call'[q] = call[q]
    BY <1>1, <1>2, BecomeFacts DEF CloseAgain, Call
  <1>4. call'[p].pc = "close_join" /\ call'[p].at = None /\ call'[p].todo = {}
    BY <1>1, <1>3, EnterFacts DEF Labels
  <1>5. UNCHANGED <<registry, slot, inventory>>
    BY DEF CloseAgain
  <1>6. TypeOK'
    BY <1>1, <1>3, <1>5, FrameType DEF TypeOK
  <1> QED BY <1>1, <1>3, <1>4, <1>5, <1>6, QuietMove DEF registry, Starting, Tearing, OnSlot, Stopping

LEMMA StartObserveStep ==
  ASSUME IInv, NEW p \in Callers, StartObserve(p)
  PROVE  IInv'
  <1>1. TypeOK /\ Retired /\ call[p].at \in Generations /\ slot[call[p].at].id \in Ids
    BY DEF IInv, References, OnSlot, StartObserve, At
  <1>2. PICK label \in {"stop_mark", "accept"} : Goto(p, label)
    BY DEF StartObserve
  <1>3. /\ call' \in [Callers -> Requests]
        /\ call'[p].pc = label /\ call'[p].at = call[p].at /\ call'[p].todo = call[p].todo
        /\ \A q \in Callers : q # p => call'[q] = call[q]
    BY <1>1, <1>2, GotoFacts DEF Labels
  <1>4. UNCHANGED <<registry, slot, inventory>>
    BY DEF StartObserve
  <1>5. TypeOK'
    BY <1>1, <1>3, <1>4, FrameType DEF TypeOK
  <1> QED BY <1>1, <1>3, <1>4, <1>5, QuietMove DEF registry, Starting, Tearing, Retired

LEMMA StartAcceptStep ==
  ASSUME IInv, NEW p \in Callers, StartAccept(p)
  PROVE  IInv'
  <1>1. TypeOK /\ Return(p) /\ UNCHANGED <<registry, slot, inventory>>
    BY DEF IInv, StartAccept
  <1>2. TypeOK'
    BY <1>1, ReturnType
  <1> QED BY <1>1, <1>2, ReturnStep DEF registry

LEMMA CloseJoinedStep ==
  ASSUME IInv, NEW p \in Callers, CloseJoined(p)
  PROVE  IInv'
  <1>1. TypeOK /\ Return(p) /\ UNCHANGED <<registry, slot, inventory>>
    BY DEF IInv, CloseJoined
  <1>2. TypeOK'
    BY <1>1, ReturnType
  <1> QED BY <1>1, <1>2, ReturnStep DEF registry

LEMMA LeaseAbandonStep ==
  ASSUME IInv, NEW p \in Callers, LeaseAbandon(p)
  PROVE  IInv'
  <1>1. TypeOK /\ Return(p) /\ UNCHANGED <<registry, slot, inventory>>
    BY DEF IInv, LeaseAbandon
  <1>2. TypeOK'
    BY <1>1, ReturnType
  <1> QED BY <1>1, <1>2, ReturnStep DEF registry

LEMMA StartAbandonStep ==
  ASSUME IInv, NEW p \in Callers, StartAbandon(p)
  PROVE  IInv'
  <1>1. TypeOK /\ Retired /\ call[p].at \in Generations /\ slot[call[p].at].id \in Ids
    BY DEF IInv, References, OnSlot, StartAbandon, At
  <1>2. UNCHANGED <<registry, slot, inventory>>
    BY DEF StartAbandon
  <1>3. CASE Return(p)
    <2>1. TypeOK'
      BY <1>1, <1>2, <1>3, ReturnType
    <2> QED BY <1>2, <1>3, <2>1, ReturnStep DEF registry
  <1>4. CASE Goto(p, "stop_mark")
    <2>1. /\ call' \in [Callers -> Requests]
          /\ call'[p].pc = "stop_mark" /\ call'[p].at = call[p].at /\ call'[p].todo = call[p].todo
          /\ \A q \in Callers : q # p => call'[q] = call[q]
      BY <1>1, <1>4, GotoFacts DEF Labels
    <2>2. TypeOK'
      BY <1>1, <1>2, <2>1, FrameType DEF TypeOK
    <2> QED BY <1>1, <1>2, <2>1, <2>2, QuietMove DEF registry, Starting, Tearing, Retired
  <1> QED BY <1>3, <1>4 DEF StartAbandon

LEMMA StopConnectionStep ==
  ASSUME IInv, NEW p \in Callers, NEW id \in Ids, StopConnection(p, id)
  PROVE  IInv'
  <1>1. TypeOK
    BY DEF IInv
  <1>2. [Idle EXCEPT !.pc = "stop_lookup", !.route = id] \in Requests
    BY DEF Idle, Requests, Labels
  <1>3. /\ call' \in [Callers -> Requests]
        /\ call'[p] = [Idle EXCEPT !.pc = "stop_lookup", !.route = id]
        /\ \A q \in Callers : q # p => call'[q] = call[q]
    BY <1>1, <1>2, BecomeFacts DEF StopConnection, Call
  <1>4. call'[p].pc = "stop_lookup" /\ call'[p].todo = {} /\ call'[p].route = id
    BY <1>3 DEF Idle
  <1>5. UNCHANGED <<registry, slot, inventory>>
    BY DEF StopConnection
  <1>6. TypeOK'
    BY <1>1, <1>3, <1>5, FrameType DEF TypeOK
  <1>7. \A q \in Callers : q # p => call'[q] = call[q]
    BY <1>3
  <1> QED BY <1>4, <1>5, <1>6, <1>7, QuietMove DEF registry, Starting, Tearing, OnSlot, Stopping

\* stopSlot returns to its caller, which may go on with a loop over slots.
LEMMA StopReturnFacts ==
  ASSUME TypeOK, NEW p \in Callers, StopReturn(p), call[p].at \in Generations
  PROVE  /\ call' \in [Callers -> Requests]
         /\ call'[p].pc = call[p].after
         /\ call'[p].todo \subseteq call[p].todo
         /\ call'[p].after = call[p].after
         /\ call[p].after # "idle" => call'[p].todo = call[p].todo
         /\ \A q \in Callers : q # p => call'[q] = call[q]
         /\ configMu' = configMu
         /\ staged' \in [desired : Desired, connections : Inventory, changed : SUBSET Ids, err : BOOLEAN]
  <1>1. /\ configMu' = configMu
        /\ staged' \in [desired : Desired, connections : Inventory, changed : SUBSET Ids, err : BOOLEAN]
    <2>1. slot[call[p].at].destroyErr \in BOOLEAN
      BY DEF TypeOK, Slots
    <2>2. staged.err \in BOOLEAN
      BY DEF TypeOK
    <2>3. [staged EXCEPT !.err = @ \/ slot[call[p].at].destroyErr]
            \in [desired : Desired, connections : Inventory, changed : SUBSET Ids, err : BOOLEAN]
      BY <2>1, <2>2 DEF TypeOK
    <2> QED BY <2>3 DEF StopReturn, TypeOK
  <1>a. call[p].after \in {"idle", "apply_next", "close_next"}
    BY DEF TypeOK, Requests
  <1>2. CASE call[p].after = "idle"
    BY <1>1, <1>2, ReturnFacts DEF StopReturn
  <1>3. CASE call[p].after # "idle"
    BY <1>1, <1>3, <1>a, GotoFacts DEF StopReturn, Labels
  <1> QED BY <1>2, <1>3

LEMMA StopJoinStep ==
  ASSUME IInv, NEW p \in Callers, StopJoin(p)
  PROVE  IInv'
  <1>1. TypeOK /\ Retired /\ call[p].at \in Generations
    BY DEF IInv, References, OnSlot, Stopping, StopJoin, At
  <1>2. StopReturn(p) /\ UNCHANGED <<registry, slot>>
    BY DEF StopJoin
  <1>3. call[p].after \in {"idle", "apply_next", "close_next"}
    BY <1>1 DEF TypeOK, Requests
  <1>4. /\ call' \in [Callers -> Requests]
        /\ call'[p].pc = call[p].after /\ call'[p].todo \subseteq call[p].todo
        /\ \A q \in Callers : q # p => call'[q] = call[q]
    BY <1>1, <1>2, StopReturnFacts
  <1>5. TypeOK'
    BY <1>1, <1>2, <1>4, StopReturnFacts DEF TypeOK, registry
  <1> QED BY <1>1, <1>2, <1>3, <1>4, <1>5, QuietMove
          DEF registry, Starting, Tearing, OnSlot, Stopping, Retired

LEMMA StopNextStep ==
  ASSUME IInv, NEW p \in Callers, NEW loop \in {"apply_next", "close_next"}, StopNext(p, loop)
  PROVE  IInv'
  <1>1. TypeOK /\ Retired /\ call[p] \in Requests
    BY DEF IInv, TypeOK
  <1>2. PICK g \in call[p].todo :
          Become(p, [call[p] EXCEPT !.pc = "stop_once", !.at = g, !.after = loop, !.todo = @ \ {g}])
    BY DEF StopNext
  <1>3. g \in Generations /\ slot[g].stopping /\ slot[g].id \in Ids
    BY <1>1, <1>2 DEF Requests, Retired
  <1>4. [call[p] EXCEPT !.pc = "stop_once", !.at = g, !.after = loop, !.todo = @ \ {g}] \in Requests
    BY <1>1, <1>3 DEF Requests, Labels
  <1>5. /\ call' \in [Callers -> Requests]
        /\ call'[p] = [call[p] EXCEPT !.pc = "stop_once", !.at = g, !.after = loop, !.todo = @ \ {g}]
    BY <1>1, <1>2, <1>4, BecomeFacts
  <1>6. \A q \in Callers : q # p => call'[q] = call[q]
    BY <1>1, <1>2, <1>4, BecomeFacts
  <1>7. call'[p].pc = "stop_once" /\ call'[p].at = g /\ call'[p].todo = call[p].todo \ {g}
    BY <1>1, <1>5 DEF Requests
  <1>8. UNCHANGED <<registry, slot, inventory>>
    BY DEF StopNext
  <1>9. TypeOK'
    BY <1>1, <1>5, <1>8, FrameType DEF TypeOK
  <1> QED BY <1>1, <1>3, <1>6, <1>7, <1>8, <1>9, QuietMove DEF registry, Starting, Tearing, Retired

LEMMA CloseReturnStep ==
  ASSUME IInv, NEW p \in Callers, CloseReturn(p)
  PROVE  IInv'
  <1>1. TypeOK /\ Return(p) /\ UNCHANGED <<slot, clients>>
    BY DEF IInv, CloseReturn
  <1>2. call' \in [Callers -> Requests]
    BY <1>1, ReturnFacts
  <1>3. TypeOK'
    BY <1>1, <1>2 DEF TypeOK, CloseReturn, inventory
  <1> QED BY <1>1, <1>3, ReturnStep

LEMMA ApplyPublishStep ==
  ASSUME IInv, NEW p \in Callers, ApplyPublish(p)
  PROVE  IInv'
  <1>1. TypeOK /\ Return(p) /\ UNCHANGED <<slot, clients>>
    BY DEF IInv, ApplyPublish
  <1>2. call' \in [Callers -> Requests]
    BY <1>1, ReturnFacts
  <1>3. NothingStaged \in [desired : Desired, connections : Inventory, changed : SUBSET Ids, err : BOOLEAN]
    BY DEF NothingStaged, EmptyDesired, NothingConfigured, Desired, Inventory
  <1>4. desired' \in Desired /\ connections' \in Inventory
    BY <1>1 DEF TypeOK, ApplyPublish
  <1>5. TypeOK'
    BY <1>1, <1>2, <1>3, <1>4 DEF TypeOK, ApplyPublish
  <1> QED BY <1>1, <1>5, ReturnStep

LEMMA StopMarkStep ==
  ASSUME IInv, NEW p \in Callers, StopMark(p)
  PROVE  IInv'
  <1>1. TypeOK /\ Retired /\ call[p].at \in Generations /\ slot[call[p].at].id \in Ids
    BY DEF IInv, References, OnSlot, Stopping, StopMark, At
  <1>2. /\ slot' \in [Generations -> Slots] /\ Alike
        /\ slot'[call[p].at].stopping
    BY <1>1, RetireFacts DEF StopMark
  <1>3. /\ call' \in [Callers -> Requests]
        /\ call'[p].pc = "stop_once" /\ call'[p].at = call[p].at /\ call'[p].todo = call[p].todo
        /\ \A q \in Callers : q # p => call'[q] = call[q]
    BY <1>1, GotoFacts DEF StopMark, Labels
  <1>4. UNCHANGED <<registry, inventory>>
    BY DEF StopMark
  <1>5. TypeOK'
    BY <1>1, <1>2, <1>3, <1>4, FrameType
  <1>6. call[p].todo \subseteq Generations
    BY <1>1 DEF TypeOK, Requests
  <1>7. Quiet(call'[p])
    BY <1>1, <1>2, <1>3, <1>6 DEF Quiet, Starting, Tearing, Retired, Alike
  <1> QED BY <1>2, <1>3, <1>4, <1>5, <1>7, QuietStep DEF registry

LEMMA StopLookupStep ==
  ASSUME IInv, NEW p \in Callers, StopLookup(p)
  PROVE  IInv'
  <1> DEFINE g == clients[call[p].route]
  <1>1. TypeOK /\ Retired /\ call[p] \in Requests /\ call[p].todo \subseteq Generations
    BY DEF IInv, TypeOK, Requests
  <1>a. call[p].route \in Ids
    BY DEF IInv, References, StopLookup, At
  <1>2. slot' \in [Generations -> Slots] /\ Alike /\ (g \in Generations => slot'[g].stopping)
    BY <1>1, RetireFacts DEF StopLookup
  <1>3. UNCHANGED <<closed, closing, desired, connections, changing, clients, inventory>>
    BY DEF StopLookup
  <1>4. CASE g = None
    <2>1. Return(p)
      BY <1>4 DEF StopLookup
    <2>2. /\ call' \in [Callers -> Requests]
          /\ call'[p].pc = "idle" /\ call'[p].todo = {}
          /\ \A q \in Callers : q # p => call'[q] = call[q]
      BY <1>1, <2>1, ReturnFacts
    <2>3. TypeOK'
      BY <1>1, <1>2, <1>3, <2>2 DEF TypeOK, StopLookup, inventory
    <2>4. Quiet(call'[p])
      BY <2>2 DEF Quiet, Starting, Tearing, OnSlot, Stopping
    <2> QED BY <1>2, <1>3, <2>2, <2>3, <2>4, QuietStep
  <1>5. CASE g # None
    <2>1. g \in Generations /\ slot[g].id \in Ids
      BY <1>1, <1>5, <1>a DEF IInv, TypeOK, Registration
    <2>2. Become(p, [call[p] EXCEPT !.pc = "stop_once", !.at = g])
      BY <1>5 DEF StopLookup
    <2> HIDE DEF g
    <2>3. [call[p] EXCEPT !.pc = "stop_once", !.at = g] \in Requests
      BY <1>1, <2>1 DEF Requests, Labels
    <2>4. /\ call' \in [Callers -> Requests]
          /\ call'[p] = [call[p] EXCEPT !.pc = "stop_once", !.at = g]
      BY <1>1, <2>2, <2>3, BecomeFacts
    <2>5. \A q \in Callers : q # p => call'[q] = call[q]
      BY <1>1, <2>2, <2>3, BecomeFacts
    <2>6. call'[p].pc = "stop_once" /\ call'[p].at = g /\ call'[p].todo = call[p].todo
      BY <1>1, <2>4 DEF Requests
    <2>7. TypeOK'
      BY <1>1, <1>2, <1>3, <2>4 DEF TypeOK, StopLookup, inventory
    <2>8. Quiet(call'[p])
      BY <1>1, <1>2, <2>1, <2>6 DEF Quiet, Starting, Tearing, Retired, Alike
    <2> QED BY <1>2, <1>3, <2>5, <2>7, <2>8, QuietStep
  <1> QED BY <1>4, <1>5

LEMMA CloseStep ==
  ASSUME IInv, NEW p \in Callers, Close(p)
  PROVE  IInv'
  <1>1. TypeOK /\ \A g \in Generations : slot[g] \in Slots
    BY DEF IInv, TypeOK
  <1>2. \A g \in Registered : g \in Generations /\ slot[g].id \in Ids
    BY <1>1 DEF IInv, TypeOK, Registration, Registered
  <1>3. /\ call' \in [Callers -> Requests]
        /\ call'[p].pc = "close_next" /\ call'[p].todo = Registered
        /\ \A q \in Callers : q # p => call'[q] = call[q]
    <2>1. Become(p, Sweep("close_next", Registered))
      BY DEF Close, Call
    <2>2. Registered \in SUBSET Generations /\ "close_next" \in Labels
      BY <1>2 DEF Labels
    <2> QED BY <1>1, <2>1, <2>2, SweepFacts, BecomeFacts
  <1>4. ASSUME NEW g \in Generations
        PROVE  /\ slot'[g] \in Slots
               /\ slot'[g].id = slot[g].id
               /\ slot'[g].client = slot[g].client
               /\ slot'[g].ready <=> slot[g].ready
               /\ slot'[g].err <=> slot[g].err
               /\ slot'[g].users = slot[g].users
               /\ slot'[g].destroy = slot[g].destroy
               /\ slot'[g].stopping <=> slot[g].stopping \/ g \in Registered
    <2> DEFINE a == slot[g].stopping \/ g \in Registered
               b == slot[g].cancelled \/ slot[g].id # None
    <2>1. slot'[g] = [slot[g] EXCEPT !.stopping = a, !.cancelled = b]
      BY DEF Close
    <2>2. a \in BOOLEAN /\ b \in BOOLEAN
      OBVIOUS
    <2> HIDE DEF a, b
    <2>3. [slot[g] EXCEPT !.stopping = a, !.cancelled = b] \in Slots
      BY <1>1, <2>2 DEF Slots
    <2>4. slot'[g].stopping = a
      BY <1>1, <2>1 DEF Slots
    <2>5. /\ slot'[g].id = slot[g].id
          /\ slot'[g].client = slot[g].client
          /\ slot'[g].ready = slot[g].ready
          /\ slot'[g].err = slot[g].err
          /\ slot'[g].users = slot[g].users
          /\ slot'[g].destroy = slot[g].destroy
      BY <1>1, <2>1 DEF Slots
    <2> QED BY <2>1, <2>3, <2>4, <2>5 DEF a
  <1>5. Alike
    BY <1>4 DEF Alike
  <1>6. slot' \in [Generations -> Slots]
    BY <1>4 DEF Close
  <1>7. TypeOK'
    BY <1>1, <1>3, <1>6 DEF TypeOK, Close, inventory
  <1>8. Quiet(call'[p])
    BY <1>2, <1>3, <1>4 DEF Quiet, Starting, Tearing, OnSlot, Stopping
  <1>9. clients' = clients
    BY DEF Close
  <1> QED BY <1>3, <1>5, <1>7, <1>8, <1>9, QuietStep

LEMMA EffectiveType ==
  ASSUME TypeOK, NEW d \in Desired
  PROVE  Effective(d) \in Inventory
  <1>1. ASSUME NEW o \in Profiles, NEW n \in Profiles \cup {Absent}, NEW c \in Profiles \cup {Absent}
        PROVE  InheritOverlayCredentials(o, n, c) \in Profiles
    BY DEF InheritOverlayCredentials, Profiles
  <1> QED BY <1>1 DEF Effective, TypeOK, Desired, Inventory

LEMMA ApplyStep ==
  ASSUME IInv, NEW p \in Callers, NEW m, NEW d \in Desired, Apply(p, m, d)
  PROVE  IInv'
  <1> DEFINE effective == Effective(d)
             changed == Changed(effective)
             retired == {clients[id] : id \in changed} \ {None}
  <1>1. TypeOK /\ effective \in Inventory /\ changed \subseteq Ids
    BY EffectiveType DEF IInv, Changed
  <1>2. \A g \in retired : g \in Generations /\ slot[g].id \in Ids
    BY <1>1 DEF IInv, TypeOK, Registration
  <1>3. /\ Call(p, m, Sweep("apply_next", retired))
        /\ Retire(retired)
        /\ configMu' = p
        /\ staged' = [desired |-> d, connections |-> effective, changed |-> changed, err |-> FALSE]
        /\ changing' = changing \cup changed
        /\ failedStarts' = failedStarts \ changed
        /\ UNCHANGED <<closed, closing, desired, connections, clients>>
    BY DEF Apply
  <1> HIDE DEF effective, changed, retired
  <1>4. /\ call' \in [Callers -> Requests]
        /\ call'[p].pc = "apply_next" /\ call'[p].todo = retired
        /\ \A q \in Callers : q # p => call'[q] = call[q]
    BY <1>1, <1>2, <1>3, SweepFacts, BecomeFacts DEF Call, Labels
  <1>5. slot' \in [Generations -> Slots] /\ Alike /\ \A g \in retired : slot'[g].stopping
    BY <1>1, <1>2, <1>3, RetireFacts
  <1>6. TypeOK'
    BY <1>1, <1>3, <1>4, <1>5 DEF TypeOK
  <1>7. Quiet(call'[p])
    BY <1>2, <1>4, <1>5 DEF Quiet, Starting, Tearing, OnSlot, Stopping
  <1> QED BY <1>3, <1>4, <1>5, <1>6, <1>7, QuietStep

LEMMA InventoryStep ==
  ASSUME IInv, NEW p \in Callers,
         \/ \E native \in Snapshots : ApplyConnections(p, native)
         \/ \E overrides \in Snapshots, disabled \in SUBSET Ids :
              ApplyConnectionOverlay(p, overrides, disabled)
         \/ \E id \in Ids, profile \in Offered : UpdateConnection(p, id, profile)
         \/ \E id \in Ids : DeleteConnection(p, id)
  PROVE  IInv'
  <1>1. Snapshots \subseteq Inventory /\ Offered \subseteq Profiles
    BY RegistryAssumption DEF Snapshots, Inventory
  <1>2. desired \in Desired
    BY DEF IInv, TypeOK
  <1>3. CASE \E native \in Snapshots : ApplyConnections(p, native)
    BY <1>1, <1>2, <1>3, ApplyStep DEF ApplyConnections, Desired
  <1>4. CASE \E overrides \in Snapshots, disabled \in SUBSET Ids :
               ApplyConnectionOverlay(p, overrides, disabled)
    BY <1>1, <1>2, <1>4, ApplyStep DEF ApplyConnectionOverlay, Desired
  <1>5. CASE \E id \in Ids, profile \in Offered : UpdateConnection(p, id, profile)
    BY <1>1, <1>2, <1>5, ApplyStep DEF UpdateConnection, Desired, Inventory
  <1>6. CASE \E id \in Ids : DeleteConnection(p, id)
    BY <1>1, <1>2, <1>6, ApplyStep DEF DeleteConnection, Desired, Inventory
  <1> QED BY <1>3, <1>4, <1>5, <1>6

\* The context hook changes nothing the invariant reads.
LEMMA HookFacts ==
  ASSUME TypeOK, NEW g \in Generations, NEW hook \in {"off", "armed", "fired"}, NEW c \in BOOLEAN,
         Update(g, [slot[g] EXCEPT !.hook = hook, !.cancelled = c])
  PROVE  slot' \in [Generations -> Slots] /\ Alike
  <1>1. slot[g] \in Slots
    BY DEF TypeOK
  <1>2. [slot[g] EXCEPT !.hook = hook, !.cancelled = c] \in Slots
    BY <1>1 DEF Slots
  <1>3. /\ slot' \in [Generations -> Slots]
        /\ slot'[g] = [slot[g] EXCEPT !.hook = hook, !.cancelled = c]
        /\ \A h \in Generations : h # g => slot'[h] = slot[h]
    BY <1>2, UpdateFacts
  <1>4. /\ slot'[g].id = slot[g].id
        /\ slot'[g].client = slot[g].client
        /\ slot'[g].ready = slot[g].ready
        /\ slot'[g].err = slot[g].err
        /\ slot'[g].users = slot[g].users
        /\ slot'[g].destroy = slot[g].destroy
        /\ slot'[g].stopping = slot[g].stopping
    BY <1>1, <1>3 DEF Slots
  <1>5. \A h \in Generations : h # g => slot'[h] = slot[h]
    BY <1>3
  <1>6. Alike
    BY <1>4, <1>5 DEF Alike
  <1> QED BY <1>3, <1>6

LEMMA HookRunsStep ==
  ASSUME IInv, NEW g \in Generations, HookRuns(g)
  PROVE  IInv'
  <1>1. TypeOK /\ UNCHANGED <<registry, inventory, call>>
    BY DEF IInv, HookRuns
  <1>2. slot' \in [Generations -> Slots] /\ Alike
    BY <1>1, HookFacts DEF HookRuns
  <1>3. TypeOK'
    BY <1>1, <1>2, FrameType DEF TypeOK
  <1>4. CASE Callers = {}
    BY <1>1, <1>2, <1>3, <1>4
       DEF IInv, References, Registration, SlotPhases, Startup, Teardown, Retired, Alike, TypeOK, registry
  <1>5. ASSUME NEW p \in Callers
        PROVE  IInv'
    BY <1>1, <1>2, <1>3, QuietStep DEF SameControl, registry
  <1> QED BY <1>4, <1>5

LEMMA CancelCallerStep ==
  ASSUME IInv, NEW p \in Callers, CancelCaller(p)
  PROVE  IInv'
  <1> DEFINE g == call[p].at
  <1>1. TypeOK /\ call[p] \in Requests /\ UNCHANGED <<registry, inventory>>
    BY DEF IInv, TypeOK, CancelCaller
  <1>2. [call[p] EXCEPT !.done = TRUE] \in Requests
    BY <1>1 DEF Requests
  <1>3. /\ call' \in [Callers -> Requests]
        /\ call'[p] = [call[p] EXCEPT !.done = TRUE]
        /\ \A q \in Callers : q # p => call'[q] = call[q]
    BY <1>1, <1>2, BecomeFacts DEF CancelCaller
  <1>4. SameControl(call'[p], call[p])
    BY <1>1, <1>3 DEF SameControl, Requests
  <1>5. slot' \in [Generations -> Slots] /\ Alike
    <2>1. CASE call[p].pc \in Starting
      <3>1. g \in Generations
        BY <2>1 DEF IInv, References, OnSlot
      <3>2. PICK hook \in {"off", "armed", "fired"} : Update(g, [slot[g] EXCEPT !.hook = hook])
        <4>1. slot[g].hook \in {"off", "armed", "fired"}
          BY <1>1, <3>1 DEF TypeOK, Slots
        <4> QED BY <2>1, <4>1 DEF CancelCaller
      <3>3. slot[g].cancelled \in BOOLEAN /\ slot[g] \in Slots
        BY <1>1, <3>1 DEF TypeOK, Slots
      <3>4. [slot[g] EXCEPT !.hook = hook] = [slot[g] EXCEPT !.hook = hook, !.cancelled = slot[g].cancelled]
        BY <3>3 DEF Slots
      <3> QED BY <1>1, <3>1, <3>2, <3>3, <3>4, HookFacts
    <2>2. CASE call[p].pc \notin Starting
      BY <1>1, <2>2, SameSlots DEF CancelCaller, TypeOK
    <2> QED BY <2>1, <2>2
  <1>6. TypeOK'
    BY <1>1, <1>3, <1>5, FrameType
  <1>7. \A q \in Callers : q # p => call'[q] = call[q]
    BY <1>3
  <1> QED BY <1>1, <1>4, <1>5, <1>6, <1>7, QuietStep DEF registry

-----------------------------------------------------------------------------
(* The creator's steps.                                                    *)

LEMMA NewSlotFacts ==
  ASSUME TypeOK, NEW id \in Ids
  PROVE  /\ NewSlot(id) \in Slots
         /\ NewSlot(id).id = id
         /\ NewSlot(id).client = "none"
         /\ ~NewSlot(id).ready /\ ~NewSlot(id).err /\ ~NewSlot(id).stopping
         /\ NewSlot(id).users = {}
         /\ NewSlot(id).destroy = "fresh"
  BY DEF TypeOK, Inventory, NewSlot, FreeSlot, Slots

LEMMA StartCreateStep ==
  ASSUME IInv, NEW p \in Callers, NEW id \in Ids, StartCreate(p, id)
  PROVE  IInv'
  <1>1. TypeOK /\ References /\ Registration /\ SlotPhases /\ Startup /\ Teardown /\ Retired
    BY DEF IInv
  <1>2. PICK g \in Generations :
          /\ slot[g].id = None
          /\ Update(g, NewSlot(id))
          /\ clients' = [clients EXCEPT ![id] = g]
          /\ Call(p, "start", Enter("create", g))
    BY DEF StartCreate
  <1>3. slot' \in [Generations -> Slots] /\ slot'[g] = NewSlot(id)
    BY <1>1, <1>2, NewSlotFacts, UpdateFacts
  <1>4. \A h \in Generations : h # g => slot'[h] = slot[h]
    BY <1>1, <1>2, NewSlotFacts, UpdateFacts
  <1>5. /\ slot'[g].id = id /\ slot'[g].client = "none"
        /\ ~slot'[g].ready /\ ~slot'[g].err /\ ~slot'[g].stopping
        /\ slot'[g].users = {} /\ slot'[g].destroy = "fresh"
    BY <1>1, <1>3, NewSlotFacts
  <1>6. /\ call' \in [Callers -> Requests]
        /\ call'[p].pc = "create" /\ call'[p].at = g /\ call'[p].todo = {}
        /\ \A q \in Callers : q # p => call'[q] = call[q]
    <2>1. "create" \in Labels
      BY DEF Labels
    <2>2. Become(p, Enter("create", g))
      BY <1>2 DEF Call
    <2> QED BY <1>1, <2>1, <2>2, EnterFacts, BecomeFacts
  <1>7. clients[id] = None /\ clients' \in [Ids -> Generations \cup {None}]
    BY <1>1, <1>2 DEF StartCreate, TypeOK
  <1>8. clients'[id] = g /\ \A i \in Ids : i # id => clients'[i] = clients[i]
    BY <1>1, <1>2 DEF TypeOK
  <1>9. None \notin Ids /\ None \notin Generations
    BY RegistryAssumption
  <1>10. \A h \in Generations : slot[h].id # None => slot[h].id \in Ids
    BY <1>1 DEF TypeOK, Slots
  <1>11. \A i \in Ids : clients[i] # None => clients[i] \in Generations
    BY <1>1 DEF TypeOK
  <1>12. \A q \in Callers : call[q].todo \subseteq Generations
    BY <1>1 DEF TypeOK, Requests
  <1>13. \A q \in Callers : call[q].pc \in OnSlot => call[q].at \in Generations /\ call[q].at # g
    BY <1>1, <1>2, <1>9 DEF References
  <1>14. TypeOK'
    BY <1>1, <1>3, <1>6, <1>7 DEF TypeOK, StartCreate, inventory
  <1>15. References'
    BY <1>1, <1>4, <1>5, <1>6, <1>13 DEF References, OnSlot, Starting
  <1>16. Registration'
    BY <1>1, <1>2, <1>4, <1>5, <1>7, <1>8, <1>9, <1>10, <1>11 DEF Registration
  <1>17. SlotPhases'
    BY <1>1, <1>4, <1>5 DEF SlotPhases
  <1>18. Startup'
    BY <1>1, <1>4, <1>5, <1>6, <1>13 DEF Startup, OnSlot, Starting
  <1>19. Teardown'
    BY <1>1, <1>4, <1>6, <1>13 DEF Teardown, OnSlot, Stopping, Tearing
  <1>20. Retired'
    BY <1>1, <1>2, <1>4, <1>6, <1>9, <1>12, <1>13 DEF Retired, OnSlot, Stopping
  <1> QED BY <1>14, <1>15, <1>16, <1>17, <1>18, <1>19, <1>20 DEF IInv

\* A step of the creator before the slot is ready: nobody else reads what it sets.
LEMMA CreatorStep ==
  ASSUME IInv, TypeOK', clients' = clients,
         NEW p \in Callers, call[p].pc \in Starting,
         \A q \in Callers : q # p => call'[q] = call[q],
         \A h \in Generations : h # call[p].at => slot'[h] = slot[h],
         call'[p].at = call[p].at, call'[p].todo = call[p].todo,
         LET s == slot[call[p].at] t == slot'[call[p].at] IN
           /\ t.id = s.id /\ t.users = s.users /\ t.destroy = s.destroy
           /\ t.stopping <=> s.stopping
           /\ t.ready => t.err \/ t.client = "live"
           /\ \/ /\ call'[p].pc \in Starting
                 /\ ~t.ready
                 /\ call'[p].pc = "onstart" => t.client = "live"
                 /\ call'[p].pc = "record" => t.err
                 /\ call'[p].pc = "ready" => t.err \/ t.client = "live"
              \/ call'[p].pc = "wait_created"
  PROVE  IInv'
  <1> DEFINE g == call[p].at
  <1>1. TypeOK /\ References /\ Registration /\ SlotPhases /\ Startup /\ Teardown /\ Retired
    BY DEF IInv
  <1>2. g \in Generations /\ slot[g].id \in Ids /\ ~slot[g].ready
    BY <1>1 DEF References, OnSlot, Startup
  <1>3. slot[g].users = {} /\ slot[g].destroy # "done"
    BY <1>1, <1>2 DEF SlotPhases
  <1>4. \A q \in Callers : q # p /\ call[q].at = g => call[q].pc \notin Starting
    BY <1>1 DEF Startup
  <1>5. \A q \in Callers : call[q].at = g => call[q].pc \notin {"onstop", "destroy", "unregister", "leased", "nested"}
    BY <1>1, <1>2 DEF Teardown, Tearing, Retired
  <1>6. \A id \in Ids : clients[id] # None => clients[id] \in Generations
    BY <1>1 DEF TypeOK
  <1>7. \A q \in Callers : call[q].todo \subseteq Generations
    BY <1>1 DEF TypeOK, Requests
  <1>8. slot'[g].id = slot[g].id /\ slot'[g].users = slot[g].users /\ slot'[g].destroy = slot[g].destroy
    OBVIOUS
  <1>9. References'
    BY <1>1, <1>2, <1>8 DEF References, OnSlot, Starting
  <1>10. Registration'
    BY <1>1, <1>6, <1>8 DEF Registration
  <1>11. SlotPhases'
    BY <1>1, <1>2, <1>3, <1>8 DEF SlotPhases
  <1>12. Startup'
    <2>1. \A q \in Callers : q # p /\ call[q].pc \in Starting =>
            call[q].at \in Generations /\ call[q].at # g /\ slot'[call[q].at] = slot[call[q].at]
      BY <1>1, <1>4 DEF References, OnSlot
    <2>2. ASSUME NEW q \in Callers, q # p, call'[q].pc \in Starting
          PROVE  /\ ~slot'[call'[q].at].ready
                 /\ call'[q].pc = "onstart" => slot'[call'[q].at].client = "live"
                 /\ call'[q].pc = "record" => slot'[call'[q].at].err
                 /\ call'[q].pc = "ready" => slot'[call'[q].at].err \/ slot'[call'[q].at].client = "live"
                 /\ \A r \in Callers : call'[r].pc \in Starting /\ call'[r].at = call'[q].at => r = q
      BY <1>1, <2>1, <2>2 DEF Startup
    <2>3. ASSUME call'[p].pc \in Starting
          PROVE  /\ ~slot'[g].ready
                 /\ call'[p].pc = "onstart" => slot'[g].client = "live"
                 /\ call'[p].pc = "record" => slot'[g].err
                 /\ call'[p].pc = "ready" => slot'[g].err \/ slot'[g].client = "live"
                 /\ \A r \in Callers : call'[r].pc \in Starting /\ call'[r].at = g => r = p
      BY <2>1, <2>3 DEF Starting
    <2> QED BY <2>2, <2>3 DEF Startup
  <1>13. Teardown'
    BY <1>1, <1>5, <1>8 DEF Teardown, References, OnSlot, Stopping, Tearing, Starting
  <1>14. Retired'
    BY <1>1, <1>5, <1>7 DEF Retired, References, OnSlot, Stopping, Starting
  <1> QED BY <1>9, <1>10, <1>11, <1>12, <1>13, <1>14 DEF IInv

LEMMA CreateReturnStep ==
  ASSUME IInv, NEW p \in Callers, CreateReturn(p)
  PROVE  IInv'
  <1> DEFINE g == call[p].at
  <1>1. TypeOK /\ call[p].pc = "create" /\ g \in Generations /\ slot[g] \in Slots /\ ~slot[g].ready
    BY DEF IInv, TypeOK, References, OnSlot, Startup, Starting, CreateReturn, At
  <1>2. PICK client \in {"none", "live"}, err \in BOOLEAN :
          /\ client = "none" => err
          /\ Update(g, [slot[g] EXCEPT !.client = client, !.err = err])
          /\ Goto(p, IF err THEN "record" ELSE "onstart")
    BY DEF CreateReturn
  <1>3. [slot[g] EXCEPT !.client = client, !.err = err] \in Slots
    BY <1>1 DEF Slots
  <1>4. /\ slot' \in [Generations -> Slots]
        /\ slot'[g] = [slot[g] EXCEPT !.client = client, !.err = err]
    BY <1>1, <1>2, <1>3, UpdateFacts
  <1>5. \A h \in Generations : h # g => slot'[h] = slot[h]
    BY <1>1, <1>2, <1>3, UpdateFacts
  <1>6. /\ slot'[g].id = slot[g].id /\ slot'[g].users = slot[g].users
        /\ slot'[g].destroy = slot[g].destroy
        /\ slot'[g].stopping = slot[g].stopping /\ slot'[g].ready = slot[g].ready
        /\ slot'[g].client = client /\ slot'[g].err = err
    BY <1>1, <1>4 DEF Slots
  <1>7. /\ call' \in [Callers -> Requests]
        /\ call'[p].pc = (IF err THEN "record" ELSE "onstart")
        /\ call'[p].at = g /\ call'[p].todo = call[p].todo
        /\ \A q \in Callers : q # p => call'[q] = call[q]
    BY <1>1, <1>2, GotoFacts DEF Labels
  <1>8. UNCHANGED <<registry, inventory>>
    BY DEF CreateReturn
  <1>9. TypeOK'
    BY <1>1, <1>4, <1>7, <1>8, FrameType
  <1> QED BY <1>1, <1>2, <1>5, <1>6, <1>7, <1>8, <1>9, CreatorStep DEF registry, Starting

LEMMA OnStartReturnStep ==
  ASSUME IInv, NEW p \in Callers, OnStartReturn(p)
  PROVE  IInv'
  <1> DEFINE g == call[p].at
  <1>1. /\ TypeOK /\ call[p].pc = "onstart" /\ g \in Generations /\ slot[g] \in Slots
        /\ ~slot[g].ready /\ slot[g].client = "live"
    BY DEF IInv, TypeOK, References, OnSlot, Startup, Starting, OnStartReturn, At
  <1>2. PICK err \in BOOLEAN :
          /\ Update(g, [slot[g] EXCEPT !.err = err])
          /\ Goto(p, IF err THEN "record" ELSE "ready")
    BY DEF OnStartReturn
  <1>3. [slot[g] EXCEPT !.err = err] \in Slots
    BY <1>1 DEF Slots
  <1>4. /\ slot' \in [Generations -> Slots]
        /\ slot'[g] = [slot[g] EXCEPT !.err = err]
    BY <1>1, <1>2, <1>3, UpdateFacts
  <1>5. \A h \in Generations : h # g => slot'[h] = slot[h]
    BY <1>1, <1>2, <1>3, UpdateFacts
  <1>6. /\ slot'[g].id = slot[g].id /\ slot'[g].users = slot[g].users
        /\ slot'[g].destroy = slot[g].destroy
        /\ slot'[g].stopping = slot[g].stopping /\ slot'[g].ready = slot[g].ready
        /\ slot'[g].client = slot[g].client /\ slot'[g].err = err
    BY <1>1, <1>4 DEF Slots
  <1>7. /\ call' \in [Callers -> Requests]
        /\ call'[p].pc = (IF err THEN "record" ELSE "ready")
        /\ call'[p].at = g /\ call'[p].todo = call[p].todo
        /\ \A q \in Callers : q # p => call'[q] = call[q]
    BY <1>1, <1>2, GotoFacts DEF Labels
  <1>8. UNCHANGED <<registry, inventory>>
    BY DEF OnStartReturn
  <1>9. TypeOK'
    BY <1>1, <1>4, <1>7, <1>8, FrameType
  <1> QED BY <1>1, <1>2, <1>5, <1>6, <1>7, <1>8, <1>9, CreatorStep DEF registry, Starting

LEMMA StartRecordStep ==
  ASSUME IInv, NEW p \in Callers, StartRecord(p)
  PROVE  IInv'
  <1> DEFINE g == call[p].at
  <1>1. /\ TypeOK /\ call[p].pc = "record" /\ g \in Generations /\ slot[g].id \in Ids
        /\ ~slot[g].ready /\ slot[g].err
    BY DEF IInv, References, OnSlot, Startup, Starting, StartRecord, At
  <1>2. UNCHANGED <<closed, closing, desired, connections, changing, clients, slot, inventory>>
    BY DEF StartRecord
  <1>3. /\ call' \in [Callers -> Requests]
        /\ call'[p].pc = "ready" /\ call'[p].at = g /\ call'[p].todo = call[p].todo
        /\ \A q \in Callers : q # p => call'[q] = call[q]
    BY <1>1, GotoFacts DEF Labels, StartRecord
  <1>4. TypeOK'
    BY <1>1, <1>2, <1>3 DEF TypeOK, StartRecord, inventory
  <1> QED BY <1>1, <1>2, <1>3, <1>4, CreatorStep DEF Starting

LEMMA StartReadyStep ==
  ASSUME IInv, NEW p \in Callers, StartReady(p)
  PROVE  IInv'
  <1> DEFINE g == call[p].at
             hook == IF slot[g].hook = "armed" THEN "off" ELSE slot[g].hook
  <1>1. /\ TypeOK /\ call[p].pc = "ready" /\ g \in Generations /\ slot[g] \in Slots
        /\ slot[g].err \/ slot[g].client = "live"
    BY DEF IInv, TypeOK, References, OnSlot, Startup, Starting, StartReady, At
  <1>2. Update(g, [slot[g] EXCEPT !.ready = TRUE, !.hook = hook])
    BY DEF StartReady
  <1>3. hook \in {"off", "armed", "fired"}
    BY <1>1 DEF Slots
  <1> HIDE DEF hook
  <1>4. [slot[g] EXCEPT !.ready = TRUE, !.hook = hook] \in Slots
    BY <1>1, <1>3 DEF Slots
  <1>5. /\ slot' \in [Generations -> Slots]
        /\ slot'[g] = [slot[g] EXCEPT !.ready = TRUE, !.hook = hook]
    BY <1>1, <1>2, <1>4, UpdateFacts
  <1>6. \A h \in Generations : h # g => slot'[h] = slot[h]
    BY <1>1, <1>2, <1>4, UpdateFacts
  <1>7. /\ slot'[g].id = slot[g].id /\ slot'[g].users = slot[g].users
        /\ slot'[g].destroy = slot[g].destroy
        /\ slot'[g].stopping = slot[g].stopping
        /\ slot'[g].client = slot[g].client /\ slot'[g].err = slot[g].err
    BY <1>1, <1>5 DEF Slots
  <1>8. /\ call' \in [Callers -> Requests]
        /\ call'[p].pc = "wait_created" /\ call'[p].at = g /\ call'[p].todo = call[p].todo
        /\ \A q \in Callers : q # p => call'[q] = call[q]
    BY <1>1, GotoFacts DEF Labels, StartReady
  <1>9. UNCHANGED <<registry, inventory>>
    BY DEF StartReady
  <1>10. TypeOK'
    BY <1>1, <1>5, <1>8, <1>9, FrameType
  <1> QED BY <1>1, <1>6, <1>7, <1>8, <1>9, <1>10, CreatorStep DEF registry, Starting

-----------------------------------------------------------------------------
(* Teardown.                                                               *)

\* A step of the winner of destroy.Do: the client changes when nobody uses it.
LEMMA TeardownStep ==
  ASSUME IInv, TypeOK', clients' = clients,
         NEW p \in Callers,
         \A q \in Callers : q # p => call'[q] = call[q],
         \A h \in Generations : h # call[p].at => slot'[h] = slot[h],
         call'[p].at = call[p].at, call'[p].todo = call[p].todo,
         call[p].pc \in Tearing \/ (call[p].pc = "stop_once" /\ slot[call[p].at].destroy = "fresh"),
         LET s == slot[call[p].at] t == slot'[call[p].at] IN
           /\ t.id = s.id /\ t.users = s.users
           /\ t.ready <=> s.ready
           /\ t.err <=> s.err
           /\ t.stopping <=> s.stopping
           /\ t.destroy = "running"
           /\ t.client # s.client => call[p].pc \in Tearing \ {"drain"}
           /\ call'[p].pc \in Tearing
           /\ call'[p].pc # "drain" => t.ready /\ t.users = {}
           /\ call'[p].pc = "unregister" => t.client \in {"none", "destroyed"}
  PROVE  IInv'
  <1> DEFINE g == call[p].at
  <1>1. TypeOK /\ References /\ Registration /\ SlotPhases /\ Startup /\ Teardown /\ Retired
    BY DEF IInv
  <1>2. g \in Generations /\ slot[g].id \in Ids /\ slot[g].stopping
    BY <1>1 DEF References, OnSlot, Stopping, Tearing, Teardown, Retired, SlotPhases
  <1>3. slot[g].destroy # "done"
    BY <1>1 DEF Teardown
  <1>4. \A q \in Callers : q # p /\ call[q].at = g => call[q].pc \notin Tearing
    BY <1>1 DEF Teardown
  <1>5. slot'[g].client # slot[g].client =>
          slot[g].users = {} /\ \A q \in Callers : call[q].at = g => call[q].pc \notin Starting
    BY <1>1 DEF Teardown, Startup
  <1>6. \A id \in Ids : clients[id] # None => clients[id] \in Generations
    BY <1>1 DEF TypeOK
  <1>7. \A q \in Callers : call[q].todo \subseteq Generations
    BY <1>1 DEF TypeOK, Requests
  <1>8. /\ slot'[g].id = slot[g].id /\ slot'[g].users = slot[g].users /\ slot'[g].destroy = "running"
        /\ slot'[g].ready <=> slot[g].ready
        /\ slot'[g].err <=> slot[g].err
        /\ slot'[g].stopping <=> slot[g].stopping
    OBVIOUS
  <1>9. call'[p].pc \notin Starting \cup {"leased", "nested", "stop_once", "stop_lookup"}
    BY DEF Tearing, Starting
  <1>10. References'
    BY <1>1, <1>2, <1>8, <1>9 DEF References
  <1>11. Registration'
    BY <1>1, <1>3, <1>6, <1>8 DEF Registration
  <1>12. SlotPhases'
    BY <1>1, <1>2, <1>5, <1>8 DEF SlotPhases
  <1>13. Startup'
    BY <1>1, <1>5, <1>8, <1>9 DEF Startup, References, OnSlot
  <1>14. Teardown'
    <2>1. \A q \in Callers : q # p /\ call[q].pc \in Tearing =>
            call[q].at \in Generations /\ call[q].at # g /\ slot'[call[q].at] = slot[call[q].at]
      BY <1>1, <1>4 DEF References, OnSlot, Stopping, Tearing
    <2>2. ASSUME NEW q \in Callers, q # p, call'[q].pc \in Tearing
          PROVE  /\ slot'[call'[q].at].destroy = "running"
                 /\ call'[q].pc # "drain" => slot'[call'[q].at].ready /\ slot'[call'[q].at].users = {}
                 /\ call'[q].pc = "unregister" => slot'[call'[q].at].client \in {"none", "destroyed"}
                 /\ \A r \in Callers : call'[r].pc \in Tearing /\ call'[r].at = call'[q].at => r = q
      BY <1>1, <2>1, <2>2 DEF Teardown
    <2>3. /\ slot'[g].destroy = "running"
          /\ call'[p].pc # "drain" => slot'[g].ready /\ slot'[g].users = {}
          /\ call'[p].pc = "unregister" => slot'[g].client \in {"none", "destroyed"}
          /\ \A r \in Callers : call'[r].pc \in Tearing /\ call'[r].at = g => r = p
      BY <2>1
    <2> QED BY <2>2, <2>3 DEF Teardown
  <1>15. Retired'
    BY <1>1, <1>2, <1>7, <1>8, <1>9 DEF Retired, References, OnSlot, Stopping
  <1> QED BY <1>10, <1>11, <1>12, <1>13, <1>14, <1>15 DEF IInv

LEMMA StopRunStep ==
  ASSUME IInv, NEW p \in Callers, StopRun(p)
  PROVE  IInv'
  <1> DEFINE g == call[p].at
  <1>1. /\ TypeOK /\ call[p].pc = "stop_once" /\ g \in Generations /\ slot[g] \in Slots
        /\ slot[g].destroy = "fresh"
    BY DEF IInv, TypeOK, References, OnSlot, Stopping, StopRun, At
  <1>2. Update(g, [slot[g] EXCEPT !.destroy = "running"])
    BY DEF StopRun
  <1>3. [slot[g] EXCEPT !.destroy = "running"] \in Slots
    BY <1>1 DEF Slots
  <1>4. /\ slot' \in [Generations -> Slots]
        /\ slot'[g] = [slot[g] EXCEPT !.destroy = "running"]
    BY <1>1, <1>2, <1>3, UpdateFacts
  <1>5. \A h \in Generations : h # g => slot'[h] = slot[h]
    BY <1>1, <1>2, <1>3, UpdateFacts
  <1>6. /\ slot'[g].id = slot[g].id /\ slot'[g].users = slot[g].users
        /\ slot'[g].destroy = "running" /\ slot'[g].client = slot[g].client
        /\ slot'[g].stopping = slot[g].stopping
        /\ slot'[g].ready = slot[g].ready /\ slot'[g].err = slot[g].err
    BY <1>1, <1>4 DEF Slots
  <1>7. /\ call' \in [Callers -> Requests]
        /\ call'[p].pc = "drain" /\ call'[p].at = g /\ call'[p].todo = call[p].todo
        /\ \A q \in Callers : q # p => call'[q] = call[q]
    BY <1>1, GotoFacts DEF Labels, StopRun
  <1>8. UNCHANGED <<registry, inventory>>
    BY DEF StopRun
  <1>9. TypeOK'
    BY <1>1, <1>4, <1>7, <1>8, FrameType
  <1> QED BY <1>1, <1>5, <1>6, <1>7, <1>8, <1>9, TeardownStep DEF registry, Tearing

LEMMA DrainStep ==
  ASSUME IInv, NEW p \in Callers, Drain(p)
  PROVE  IInv'
  <1> DEFINE g == call[p].at
             label == IF slot[g].client = "none" THEN "unregister" ELSE "onstop"
  <1>1. /\ TypeOK /\ call[p].pc = "drain" /\ g \in Generations
        /\ slot[g].destroy = "running" /\ slot[g].ready /\ slot[g].users = {}
    BY DEF IInv, References, OnSlot, Stopping, Teardown, Tearing, Drain, At
  <1>2. Goto(p, label) /\ UNCHANGED <<registry, slot, inventory>>
    BY DEF Drain
  <1>3. label \in {"unregister", "onstop"} /\ (label = "unregister" => slot[g].client = "none")
    OBVIOUS
  <1> HIDE DEF label
  <1>4. /\ call' \in [Callers -> Requests]
        /\ call'[p].pc = label /\ call'[p].at = g /\ call'[p].todo = call[p].todo
        /\ \A q \in Callers : q # p => call'[q] = call[q]
    BY <1>1, <1>2, <1>3, GotoFacts DEF Labels
  <1>5. TypeOK'
    BY <1>1, <1>2, <1>4, FrameType DEF TypeOK
  <1> QED BY <1>1, <1>2, <1>3, <1>4, <1>5, TeardownStep DEF registry, Tearing

\* OnStop and DestroyClient return.
LEMMA TeardownCallStep ==
  ASSUME IInv, NEW p \in Callers, OnStopReturn(p) \/ DestroyReturn(p)
  PROVE  IInv'
  <1> DEFINE g == call[p].at
  <1>1. /\ TypeOK /\ call[p].pc \in {"onstop", "destroy"} /\ g \in Generations /\ slot[g] \in Slots
        /\ slot[g].destroy = "running" /\ slot[g].ready /\ slot[g].users = {}
    BY DEF IInv, TypeOK, References, OnSlot, Stopping, Teardown, Tearing, OnStopReturn, DestroyReturn, At
  <1>2. slot[g].destroyErr \in BOOLEAN
    BY <1>1 DEF Slots
  <1>3. PICK client \in {"stopped", "destroyed"}, err \in BOOLEAN, label \in {"destroy", "unregister"} :
          /\ label = "unregister" => client = "destroyed"
          /\ Update(g, [slot[g] EXCEPT !.client = client, !.destroyErr = err])
          /\ Goto(p, label)
    BY <1>2 DEF OnStopReturn, DestroyReturn
  <1>4. [slot[g] EXCEPT !.client = client, !.destroyErr = err] \in Slots
    BY <1>1 DEF Slots
  <1>5. /\ slot' \in [Generations -> Slots]
        /\ slot'[g] = [slot[g] EXCEPT !.client = client, !.destroyErr = err]
    BY <1>1, <1>3, <1>4, UpdateFacts
  <1>6. \A h \in Generations : h # g => slot'[h] = slot[h]
    BY <1>1, <1>3, <1>4, UpdateFacts
  <1>7. /\ slot'[g].id = slot[g].id /\ slot'[g].users = slot[g].users
        /\ slot'[g].destroy = slot[g].destroy /\ slot'[g].client = client
        /\ slot'[g].stopping = slot[g].stopping
        /\ slot'[g].ready = slot[g].ready /\ slot'[g].err = slot[g].err
    BY <1>1, <1>5 DEF Slots
  <1>8. /\ call' \in [Callers -> Requests]
        /\ call'[p].pc = label /\ call'[p].at = g /\ call'[p].todo = call[p].todo
        /\ \A q \in Callers : q # p => call'[q] = call[q]
    BY <1>1, <1>3, GotoFacts DEF Labels
  <1>9. UNCHANGED <<registry, inventory>>
    BY DEF OnStopReturn, DestroyReturn
  <1>10. TypeOK'
    BY <1>1, <1>5, <1>8, <1>9, FrameType
  <1> QED BY <1>1, <1>3, <1>6, <1>7, <1>8, <1>9, <1>10, TeardownStep DEF registry, Tearing

LEMMA UnregisterStep ==
  ASSUME IInv, NEW p \in Callers, Unregister(p)
  PROVE  IInv'
  <1> DEFINE g == call[p].at
  <1>1. TypeOK /\ References /\ Registration /\ SlotPhases /\ Startup /\ Teardown /\ Retired
    BY DEF IInv
  <1>2. /\ call[p].pc = "unregister" /\ g \in Generations /\ slot[g].id \in Ids /\ slot[g] \in Slots
        /\ slot[g].destroy = "running" /\ slot[g].ready /\ slot[g].users = {}
        /\ slot[g].client \in {"none", "destroyed"}
    BY <1>1 DEF TypeOK, References, OnSlot, Stopping, Teardown, Tearing, Unregister, At
  <1>3. clients[slot[g].id] = g
    BY <1>1, <1>2, RegistryAssumption DEF Registration
  <1>4. clients' = [clients EXCEPT ![slot[g].id] = None] /\ Update(g, [slot[g] EXCEPT !.destroy = "done"])
    BY <1>3 DEF Unregister
  <1>5. [slot[g] EXCEPT !.destroy = "done"] \in Slots
    BY <1>2 DEF Slots
  <1>6. /\ slot' \in [Generations -> Slots]
        /\ slot'[g] = [slot[g] EXCEPT !.destroy = "done"]
    BY <1>1, <1>2, <1>4, <1>5, UpdateFacts
  <1>7. \A h \in Generations : h # g => slot'[h] = slot[h]
    BY <1>1, <1>2, <1>4, <1>5, UpdateFacts
  <1>8. /\ slot'[g].id = slot[g].id /\ slot'[g].users = slot[g].users
        /\ slot'[g].destroy = "done" /\ slot'[g].client = slot[g].client
        /\ slot'[g].stopping = slot[g].stopping
        /\ slot'[g].ready = slot[g].ready /\ slot'[g].err = slot[g].err
    BY <1>2, <1>6 DEF Slots
  <1>9. /\ call' \in [Callers -> Requests]
        /\ call'[p].pc = call[p].after /\ call'[p].todo \subseteq call[p].todo
        /\ \A q \in Callers : q # p => call'[q] = call[q]
    BY <1>1, <1>2, StopReturnFacts DEF Unregister
  <1>10. call'[p].pc \in {"idle", "apply_next", "close_next"}
    BY <1>1, <1>9 DEF TypeOK, Requests
  <1>11. call'[p].pc \notin OnSlot /\ call'[p].pc # "stop_lookup"
    BY <1>10 DEF OnSlot, Starting, Stopping
  <1>12. clients' \in [Ids -> Generations \cup {None}]
    BY <1>1, <1>2, <1>4 DEF TypeOK
  <1>13. clients'[slot[g].id] = None /\ \A i \in Ids : i # slot[g].id => clients'[i] = clients[i]
    BY <1>1, <1>2, <1>4 DEF TypeOK
  <1>14. \A i \in Ids : clients[i] # None => clients[i] \in Generations
    BY <1>1 DEF TypeOK
  <1>15. \A h \in Generations : slot[h].id # None => slot[h].id \in Ids
    BY <1>1 DEF TypeOK, Slots
  <1>16. \A q \in Callers : call[q].todo \subseteq Generations
    BY <1>1 DEF TypeOK, Requests
  <1>17. \A q \in Callers : q # p /\ call[q].at = g => call[q].pc \notin Tearing \cup Starting
    BY <1>1, <1>2 DEF Teardown, Startup, Tearing
  <1> HIDE DEF g
  <1>18. TypeOK'
    BY <1>1, <1>2, <1>6, <1>9, <1>12, StopReturnFacts DEF TypeOK, Unregister, g
  <1>19. References'
    BY <1>1, <1>7, <1>8, <1>9, <1>11 DEF References
  <1>20. Registration'
    <2>1. ASSUME NEW i \in Ids, clients'[i] # None
          PROVE  slot'[clients'[i]].id = i
      BY <1>1, <1>3, <1>7, <1>13, <1>14, <2>1 DEF Registration
    <2>2. ASSUME NEW h \in Generations, slot'[h].id # None, slot'[h].destroy # "done"
          PROVE  clients'[slot'[h].id] = h
      BY <1>1, <1>2, <1>3, <1>7, <1>8, <1>13, <1>15, <2>2 DEF Registration
    <2> QED BY <2>1, <2>2 DEF Registration
  <1>21. SlotPhases'
    BY <1>1, <1>2, <1>7, <1>8 DEF SlotPhases
  <1>22. Startup'
    BY <1>1, <1>7, <1>9, <1>11, <1>17 DEF Startup, References, OnSlot
  <1>23. Teardown'
    BY <1>1, <1>7, <1>9, <1>11, <1>17 DEF Teardown, References, OnSlot, Stopping, Tearing
  <1>24. Retired'
    BY <1>1, <1>7, <1>8, <1>9, <1>11, <1>16 DEF Retired, References, OnSlot, Stopping
  <1> QED BY <1>18, <1>19, <1>20, <1>21, <1>22, <1>23, <1>24 DEF IInv

-----------------------------------------------------------------------------
(* Leases.                                                                 *)

LEMMA UsersFacts ==
  ASSUME TypeOK, NEW g \in Generations, NEW users \in SUBSET Leases,
         Update(g, [slot[g] EXCEPT !.users = users])
  PROVE  /\ slot' \in [Generations -> Slots]
         /\ \A h \in Generations : h # g => slot'[h] = slot[h]
         /\ slot'[g].id = slot[g].id /\ slot'[g].users = users
         /\ slot'[g].destroy = slot[g].destroy /\ slot'[g].client = slot[g].client
         /\ slot'[g].stopping = slot[g].stopping
         /\ slot'[g].ready = slot[g].ready /\ slot'[g].err = slot[g].err
  <1>1. slot[g] \in Slots
    BY DEF TypeOK
  <1>2. [slot[g] EXCEPT !.users = users] \in Slots
    BY <1>1 DEF Slots
  <1>3. /\ slot' \in [Generations -> Slots]
        /\ slot'[g] = [slot[g] EXCEPT !.users = users]
        /\ \A h \in Generations : h # g => slot'[h] = slot[h]
    BY <1>2, UpdateFacts
  <1> QED BY <1>1, <1>3 DEF Slots

\* A lease is granted or given back: only users of a started slot change.
LEMMA UsersStep ==
  ASSUME IInv, TypeOK', clients' = clients,
         NEW p \in Callers,
         \A q \in Callers : q # p => call'[q] = call[q],
         \A h \in Generations : h # call[p].at => slot'[h] = slot[h],
         call[p].at \in Generations, slot[call[p].at].id \in Ids,
         call'[p].todo \subseteq call[p].todo,
         \/ call'[p].pc = "idle"
         \/ call'[p].pc \in {"leased", "nested"} /\ call'[p].at = call[p].at,
         LET s == slot[call[p].at] t == slot'[call[p].at] IN
           /\ s.ready /\ ~s.err
           /\ t.id = s.id /\ t.client = s.client /\ t.destroy = s.destroy
           /\ t.ready <=> s.ready
           /\ t.err <=> s.err
           /\ t.stopping <=> s.stopping
           /\ ~s.stopping \/ t.users \subseteq s.users
  PROVE  IInv'
  <1> DEFINE g == call[p].at
  <1>1. TypeOK /\ References /\ Registration /\ SlotPhases /\ Startup /\ Teardown /\ Retired
    BY DEF IInv
  <1>2. \A id \in Ids : clients[id] # None => clients[id] \in Generations
    BY <1>1 DEF TypeOK
  <1>3. \A q \in Callers : call[q].todo \subseteq Generations
    BY <1>1 DEF TypeOK, Requests
  <1>4. call'[p].pc \notin Starting \cup Stopping \cup {"stop_lookup"}
    BY DEF Starting, Stopping
  <1>5. slot'[g].users # {} => slot[g].client = "live"
    BY <1>1 DEF SlotPhases
  <1>6. \/ slot'[g].users = {}
        \/ \A q \in Callers : call[q].at = g => call[q].pc \notin Tearing \ {"drain"}
    BY <1>1 DEF SlotPhases, Teardown
  <1>7. /\ slot'[g].id = slot[g].id /\ slot'[g].client = slot[g].client
        /\ slot'[g].destroy = slot[g].destroy
        /\ slot'[g].ready <=> slot[g].ready
        /\ slot'[g].err <=> slot[g].err
        /\ slot'[g].stopping <=> slot[g].stopping
    OBVIOUS
  <1>8. References'
    BY <1>1, <1>4, <1>7 DEF References, OnSlot
  <1>9. Registration'
    BY <1>1, <1>2, <1>7 DEF Registration
  <1>10. SlotPhases'
    BY <1>1, <1>5, <1>7 DEF SlotPhases
  <1>11. Startup'
    BY <1>1, <1>4, <1>7 DEF Startup, References, OnSlot
  <1>12. Teardown'
    BY <1>1, <1>4, <1>6, <1>7 DEF Teardown, References, OnSlot, Stopping, Tearing
  <1>13. Retired'
    BY <1>1, <1>3, <1>4, <1>7 DEF Retired, References, OnSlot, Stopping
  <1> QED BY <1>8, <1>9, <1>10, <1>11, <1>12, <1>13 DEF IInv

LEMMA LeaseAdmitStep ==
  ASSUME IInv, NEW p \in Callers, LeaseAdmit(p)
  PROVE  IInv'
  <1> DEFINE g == call[p].at
  <1>1. TypeOK /\ g \in Generations /\ slot[g].id \in Ids /\ slot[g].ready
    BY DEF IInv, References, OnSlot, LeaseAdmit, At
  <1>2. UNCHANGED <<registry, inventory>>
    BY DEF LeaseAdmit
  <1>3. CASE Admissible(g)
    <2>1. Update(g, [slot[g] EXCEPT !.users = slot[g].users \cup {<<p, 1>>}]) /\ Goto(p, "leased")
      BY <1>3 DEF LeaseAdmit
    <2>2. slot[g].users \cup {<<p, 1>>} \in SUBSET Leases
      BY <1>1 DEF TypeOK, Slots, Leases
    <2>3. /\ call' \in [Callers -> Requests]
          /\ call'[p].pc = "leased" /\ call'[p].at = g /\ call'[p].todo = call[p].todo
          /\ \A q \in Callers : q # p => call'[q] = call[q]
      BY <1>1, <2>1, GotoFacts DEF Labels
    <2>4. ~slot[g].err /\ ~slot[g].stopping
      BY <1>3 DEF Admissible
    <2>5. TypeOK'
      BY <1>1, <1>2, <2>1, <2>2, <2>3, UsersFacts, FrameType
    <2>6. /\ \A h \in Generations : h # g => slot'[h] = slot[h]
          /\ slot'[g].id = slot[g].id
          /\ slot'[g].destroy = slot[g].destroy /\ slot'[g].client = slot[g].client
          /\ slot'[g].stopping = slot[g].stopping
          /\ slot'[g].ready = slot[g].ready /\ slot'[g].err = slot[g].err
      BY <1>1, <2>1, <2>2, UsersFacts
    <2> QED BY <1>1, <1>2, <2>3, <2>4, <2>5, <2>6, UsersStep DEF registry
  <1>4. CASE ~Admissible(g)
    <2>1. Return(p) /\ UNCHANGED slot
      BY <1>4 DEF LeaseAdmit
    <2>2. TypeOK'
      BY <1>1, <1>2, <2>1, ReturnType
    <2> QED BY <1>2, <2>1, <2>2, ReturnStep DEF registry
  <1> QED BY <1>3, <1>4

LEMMA LeaseNestedStep ==
  ASSUME IInv, NEW p \in Callers, LeaseNested(p)
  PROVE  IInv'
  <1> DEFINE g == call[p].at
  <1>1. /\ TypeOK /\ g \in Generations /\ slot[g].id \in Ids
        /\ slot[g].ready /\ ~slot[g].err /\ ~slot[g].stopping
    BY DEF IInv, References, OnSlot, Retired, LeaseNested, At
  <1>2. /\ Update(g, [slot[g] EXCEPT !.users = slot[g].users \cup {<<p, 2>>}]) /\ Goto(p, "nested")
        /\ UNCHANGED <<registry, inventory>>
    BY DEF LeaseNested
  <1>3. slot[g].users \cup {<<p, 2>>} \in SUBSET Leases
    BY <1>1 DEF TypeOK, Slots, Leases
  <1>4. /\ call' \in [Callers -> Requests]
        /\ call'[p].pc = "nested" /\ call'[p].at = g /\ call'[p].todo = call[p].todo
        /\ \A q \in Callers : q # p => call'[q] = call[q]
    BY <1>1, <1>2, GotoFacts DEF Labels
  <1>5. TypeOK'
    BY <1>1, <1>2, <1>3, <1>4, UsersFacts, FrameType
  <1>6. /\ \A h \in Generations : h # g => slot'[h] = slot[h]
        /\ slot'[g].id = slot[g].id
        /\ slot'[g].destroy = slot[g].destroy /\ slot'[g].client = slot[g].client
        /\ slot'[g].stopping = slot[g].stopping
        /\ slot'[g].ready = slot[g].ready /\ slot'[g].err = slot[g].err
    BY <1>1, <1>2, <1>3, UsersFacts
  <1>7. UNCHANGED clients
    BY <1>2 DEF registry
  <1> QED BY <1>1, <1>4, <1>5, <1>6, <1>7, UsersStep

LEMMA ReleaseStep ==
  ASSUME IInv, NEW p \in Callers, NestedReturn(p) \/ LeaseReturn(p)
  PROVE  IInv'
  <1> DEFINE g == call[p].at
  <1>1. /\ TypeOK /\ g \in Generations /\ slot[g].id \in Ids /\ slot[g].ready /\ ~slot[g].err
    BY DEF IInv, References, OnSlot, Retired, NestedReturn, LeaseReturn, At
  <1>2. UNCHANGED <<registry, inventory>>
    BY DEF NestedReturn, LeaseReturn
  <1>3. PICK depth \in {1, 2} : Update(g, [slot[g] EXCEPT !.users = slot[g].users \ {<<p, depth>>}])
    BY DEF NestedReturn, LeaseReturn, Release
  <1>4. /\ slot[g].users \ {<<p, depth>>} \in SUBSET Leases
        /\ slot[g].users \ {<<p, depth>>} \subseteq slot[g].users
    BY <1>1 DEF TypeOK, Slots
  <1>a. /\ slot' \in [Generations -> Slots]
        /\ \A h \in Generations : h # g => slot'[h] = slot[h]
        /\ slot'[g].id = slot[g].id
        /\ slot'[g].destroy = slot[g].destroy /\ slot'[g].client = slot[g].client
        /\ slot'[g].stopping = slot[g].stopping
        /\ slot'[g].ready = slot[g].ready /\ slot'[g].err = slot[g].err
        /\ slot'[g].users \subseteq slot[g].users
    BY <1>1, <1>3, <1>4, UsersFacts
  <1>5. CASE NestedReturn(p)
    <2>1. /\ call' \in [Callers -> Requests]
          /\ call'[p].pc = "leased" /\ call'[p].at = g /\ call'[p].todo = call[p].todo
          /\ \A q \in Callers : q # p => call'[q] = call[q]
      BY <1>1, <1>5, GotoFacts DEF Labels, NestedReturn
    <2>2. TypeOK'
      BY <1>1, <1>2, <1>a, <2>1, FrameType
    <2> QED BY <1>1, <1>2, <1>a, <2>1, <2>2, UsersStep DEF registry
  <1>6. CASE LeaseReturn(p)
    <2>1. /\ call' \in [Callers -> Requests]
          /\ call'[p].pc = "idle" /\ call'[p].todo = {}
          /\ \A q \in Callers : q # p => call'[q] = call[q]
      BY <1>1, <1>6, ReturnFacts DEF LeaseReturn
    <2>2. TypeOK'
      BY <1>1, <1>2, <1>a, <2>1, FrameType
    <2> QED BY <1>1, <1>2, <1>a, <2>1, <2>2, UsersStep DEF registry
  <1> QED BY <1>5, <1>6

-----------------------------------------------------------------------------
(* The theorems.                                                           *)

LEMMA InitIInv == Init => IInv
  <1> SUFFICES ASSUME Init PROVE IInv
    OBVIOUS
  <1>1. FreeSlot \in Slots
    BY DEF FreeSlot, Slots
  <1>2. EmptyDesired \in Desired /\ NothingConfigured \in Inventory
    BY DEF EmptyDesired, Desired, NothingConfigured, Inventory
  <1>3. NothingStaged \in [desired : Desired, connections : Inventory, changed : SUBSET Ids, err : BOOLEAN]
    BY <1>2 DEF NothingStaged
  <1>4. TypeOK
    BY <1>1, <1>2, <1>3, IdleFacts DEF Init, TypeOK
  <1>5. /\ FreeSlot.id = None /\ FreeSlot.users = {}
        /\ ~FreeSlot.ready /\ FreeSlot.destroy = "fresh" /\ FreeSlot.client = "none"
    BY DEF FreeSlot
  <1>6. \A g \in Generations : slot[g] = FreeSlot
    BY DEF Init
  <1>7. \A p \in Callers : call[p] = Idle
    BY DEF Init
  <1>8. References /\ Startup /\ Teardown /\ Retired
    BY <1>7, IdleFacts
       DEF References, Startup, Teardown, Retired, OnSlot, Starting, Stopping, Tearing
  <1>9. Registration
    BY <1>5, <1>6 DEF Registration, Init
  <1>10. SlotPhases
    BY <1>5, <1>6 DEF SlotPhases
  <1> QED BY <1>4, <1>8, <1>9, <1>10 DEF IInv

LEMMA StepIInv ==
  ASSUME IInv, [Next]_vars
  PROVE  IInv'
  <1>1. ASSUME NEW p \in Callers, Begin(p)
        PROVE  IInv'
    BY <1>1, StartCreateStep, StartJoinStep, StopConnectionStep, LeaseLookupStep, CloseStep,
       CloseAgainStep, InventoryStep DEF Begin
  <1>2. ASSUME NEW p \in Callers, Step(p)
        PROVE  IInv'
    BY <1>2, CreateReturnStep, OnStartReturnStep, StartRecordStep, StartReadyStep,
       StartObserveStep, StartAbandonStep, StartAcceptStep,
       StopLookupStep, StopMarkStep, StopRunStep, StopJoinStep, DrainStep,
       TeardownCallStep, UnregisterStep, CloseJoinedStep, StopNextStep, CloseReturnStep,
       LeaseAbandonStep, LeaseAdmitStep, ReleaseStep, ApplyPublishStep DEF Step
  <1>3. CASE UNCHANGED vars
    BY <1>3 DEF vars, registry, inventory, IInv, TypeOK, References, Registration, SlotPhases,
                Startup, Teardown, Retired
  <1> QED BY <1>1, <1>2, <1>3, LeaseNestedStep, CancelCallerStep, HookRunsStep DEF Next

\* The inductive invariant holds in every reachable state.
THEOREM Invariance == Spec => []IInv
  <1>1. Init => IInv
    BY InitIInv
  <1>2. IInv /\ [Next]_vars => IInv'
    BY StepIInv
  <1> QED BY <1>1, <1>2, PTL DEF Spec

\* Every variable keeps its type.
THEOREM TypeCorrect == Spec => []TypeOK
  <1>1. IInv => TypeOK
    BY DEF IInv
  <1> QED BY <1>1, Invariance, PTL

\* No callback borrows a client whose teardown has begun or whose start failed.
THEOREM UseSafety == Spec => []NoUseAfterTeardown
  <1>1. IInv => NoUseAfterTeardown
    <2> SUFFICES ASSUME IInv, NEW g \in Generations, slot[g].users # {}
                 PROVE  slot[g].client = "live" /\ ~slot[g].err /\ ~TornDown(g)
      BY DEF NoUseAfterTeardown
    <2>1. slot[g].client = "live" /\ ~slot[g].err
      BY DEF IInv, SlotPhases
    <2>2. ASSUME NEW p \in Callers, call[p].at = g, call[p].pc \in {"onstop", "destroy"}
          PROVE  FALSE
      BY <2>2 DEF IInv, Teardown, Tearing
    <2> QED BY <2>1, <2>2 DEF TornDown
  <1> QED BY <1>1, Invariance, PTL

\* A connection never has two native clients at once.
THEOREM OneClient == Spec => []OneClientPerConnection
  <1>1. IInv => OneClientPerConnection
    <2> SUFFICES ASSUME IInv, NEW g \in Generations, NEW h \in Generations,
                        Alive(g), Alive(h), slot[g].id = slot[h].id
                 PROVE  g = h
      BY DEF OneClientPerConnection
    <2>1. slot[g].destroy # "done" /\ slot[h].destroy # "done"
      BY DEF IInv, SlotPhases, Alive
    <2>2. slot[g].id # None
      BY RegistryAssumption DEF IInv, SlotPhases, Alive
    <2> QED BY <2>1, <2>2 DEF IInv, Registration
  <1> QED BY <1>1, Invariance, PTL

-----------------------------------------------------------------------------
(* A second invariant, on top of the first: what Close and an inventory    *)
(* change still have to do, and what the published state is based on.      *)

\* The request that runs Close, and the one that applies an inventory.
Closes(r) == r.pc = "close_next" \/ r.after = "close_next"
Applies(r) == r.pc = "apply_next" \/ r.after = "apply_next"

\* The generations a request is stopping or has yet to stop.
Tends(r, g) ==
  g \in r.todo \/ (r.pc \in Tearing \cup {"stop_once"} /\ r.at = g)

\* A generation that is not ready has a creator; no error is set before it
\* returns from a callback.
Created ==
  /\ \A g \in Generations :
       slot[g].id # None /\ ~slot[g].ready =>
         \E p \in Callers : call[p].pc \in Starting /\ call[p].at = g
  /\ \A p \in Callers : call[p].pc \in {"create", "onstart"} => ~slot[call[p].at].err

\* Close has generations left that it tends, and none when it is done.
Closure ==
  /\ closing # "fresh" => closed
  /\ \A p \in Callers : Closes(call[p]) =>
       /\ closing = "running"
       /\ \A g \in Generations :
            slot[g].id # None => slot[g].destroy = "done" \/ Tends(call[p], g)
       /\ \A q \in Callers : Closes(call[q]) => q = p
  /\ closing = "done" => \A g \in Generations : slot[g].id # None => slot[g].destroy = "done"

\* A registered generation, retired or not, was built from what is published.
Served ==
  \A id \in Ids : clients[id] # None =>
    /\ slot[clients[id]].destroy # "done"
    /\ Configured(id) /\ SameConnectionClientConfig(slot[clients[id]].profile, connections[id])

\* What native discovery, overrides and tombstones ask for.
Matches(want, got) ==
  \A id \in Ids :
    LET w == IF want.overrides[id] # Absent THEN want.overrides[id]
             ELSE IF id \in want.disabled THEN Absent ELSE want.native[id]
    IN IF w = Absent THEN got[id] = Absent
       ELSE /\ got[id] # Absent
            /\ got[id].public = w.public
            /\ w.private # Nil => got[id].private = w.private

\* The inventory that the holder of configMu is about to publish: it keeps
\* every client configuration but those it changes, whose generations it
\* tends and which, and no others, nobody starts meanwhile.
Staging ==
  /\ configMu = None => changing = {}
  /\ \A p \in Callers : Applies(call[p]) =>
       /\ configMu = p
       /\ \A id \in staged.changed : clients[id] # None => Tends(call[p], clients[id])
  /\ configMu # None =>
       /\ changing = staged.changed
       /\ staged.changed \cap failedStarts = {}
       /\ Matches(staged.desired, staged.connections)
       /\ \A id \in Ids \ staged.changed :
            /\ Configured(id) <=> staged.connections[id] # Absent
            /\ Configured(id) => SameConnectionClientConfig(connections[id], staged.connections[id])

\* A recorded failure is that of a configured connection without a client.
Failures ==
  \A id \in failedStarts :
    Configured(id) /\ (clients[id] # None => slot[clients[id]].err)

CInv == Created /\ Closure /\ Served /\ Staging /\ Failures /\ Matches(desired, connections)

-----------------------------------------------------------------------------
(* Steps that leave the inventory and the registry alone.                  *)

\* A slot that keeps what the second invariant reads of it.
Kept(g) ==
  /\ slot'[g].id = slot[g].id /\ slot'[g].profile = slot[g].profile
  /\ slot'[g].destroy = "done" <=> slot[g].destroy = "done"
  /\ slot[g].err => slot'[g].err
  /\ slot[g].ready => slot'[g].ready

\* A request that keeps its role and what it tends.
Carried(p) ==
  /\ Closes(call'[p]) => Closes(call[p])
  /\ Applies(call'[p]) => Applies(call[p])
  /\ Closes(call'[p]) \/ Applies(call'[p]) =>
       \A g \in Generations :
         Tends(call[p], g) => Tends(call'[p], g) \/ slot[g].destroy = "done"
  /\ call[p].pc \in Starting =>
       \/ call'[p].pc \in Starting /\ call'[p].at = call[p].at
       \/ slot'[call[p].at].ready
  /\ call'[p].pc \in {"create", "onstart"} => ~slot'[call'[p].at].err

LEMMA SteadyStep ==
  ASSUME IInv, CInv,
         UNCHANGED <<closed, closing, desired, connections, changing, clients, configMu>>,
         staged'.desired = staged.desired, staged'.connections = staged.connections,
         staged'.changed = staged.changed,
         failedStarts' \subseteq failedStarts,
         \A g \in Generations : Kept(g),
         \A p \in Callers : Carried(p)
  PROVE  CInv'
  <1>1. /\ Created /\ Closure /\ Served /\ Staging /\ Failures
        /\ Matches(desired, connections)
    BY DEF CInv
  <1>2. \A id \in Ids : clients[id] # None => clients[id] \in Generations
    BY DEF IInv, TypeOK
  <1>3. failedStarts \subseteq Ids /\ staged.changed \subseteq Ids
    BY DEF IInv, TypeOK
  <1>4. Created'
    BY <1>1 DEF Created, Kept, Carried
  <1>5. Closure'
    BY <1>1 DEF Closure, Kept, Carried
  <1>6. Served'
    BY <1>1, <1>2 DEF Served, Kept, Configured
  <1>7. Staging'
    <2>1. ASSUME NEW p \in Callers, Applies(call'[p])
          PROVE  /\ configMu' = p
                 /\ \A id \in staged'.changed : clients'[id] # None => Tends(call'[p], clients'[id])
      BY <1>1, <1>2, <1>3, <2>1 DEF Staging, Served, Carried
    <2>2. Matches(staged.desired, staged.connections)' <=> Matches(staged.desired, staged.connections)
      BY DEF Matches
    <2> QED BY <1>1, <2>1, <2>2 DEF Staging, Configured
  <1>8. Failures'
    BY <1>1, <1>2, <1>3 DEF Failures, Kept, Configured
  <1>9. Matches(desired, connections)'
    BY <1>1 DEF Matches
  <1> QED BY <1>4, <1>5, <1>6, <1>7, <1>8, <1>9 DEF CInv

\* No slot changes in what the second invariant reads.
Unmoved == \A g \in Generations : Kept(g) /\ (slot'[g].err => slot[g].err)

LEMMA UnmovedSlots == UNCHANGED slot => Unmoved
  BY DEF Unmoved, Kept

LEMMA UnmovedUpdate ==
  ASSUME TypeOK, NEW g \in Generations, NEW r \in Slots, Update(g, r),
         r.id = slot[g].id, r.profile = slot[g].profile,
         r.destroy = "done" <=> slot[g].destroy = "done",
         r.err = slot[g].err, r.ready = slot[g].ready
  PROVE  Unmoved
  <1>1. slot'[g] = r /\ \A h \in Generations : h # g => slot'[h] = slot[h]
    BY UpdateFacts
  <1> QED BY <1>1 DEF Unmoved, Kept

LEMMA UnmovedRetire ==
  ASSUME TypeOK, NEW S, Retire(S)
  PROVE  Unmoved
  <1>1. ASSUME NEW g \in Generations PROVE Kept(g) /\ (slot'[g].err => slot[g].err)
    <2>1. slot[g] \in Slots
      BY DEF TypeOK
    <2>2. slot'[g] = IF g \in S THEN [slot[g] EXCEPT !.stopping = TRUE, !.cancelled = TRUE] ELSE slot[g]
      BY DEF Retire
    <2>3. CASE g \in S
      BY <2>1, <2>2, <2>3 DEF Slots, Kept
    <2>4. CASE g \notin S
      BY <2>2, <2>4 DEF Kept
    <2> QED BY <2>3, <2>4
  <1> QED BY <1>1 DEF Unmoved

\* A request goes on without a start of its own, outside the loops over slots.
LEMMA PassStep ==
  ASSUME IInv, CInv,
         UNCHANGED <<closed, closing, desired, connections, changing, clients, inventory>>,
         failedStarts' \subseteq failedStarts,
         Unmoved,
         NEW p \in Callers,
         \A q \in Callers : q # p => call'[q] = call[q],
         call[p].pc \notin Starting,
         call'[p].pc \notin Starting \cup {"apply_next", "close_next"},
         \/ call'[p].after = "idle"
         \/ /\ call'[p].after = call[p].after
            /\ call[p].todo \subseteq call'[p].todo
            /\ call[p].pc \in Tearing \cup {"stop_once"} =>
                 call'[p].pc \in Tearing \cup {"stop_once"} /\ call'[p].at = call[p].at
  PROVE  CInv'
  <1>1. Carried(p)
    BY DEF Carried, Closes, Applies, Tends, Starting
  <1>2. ASSUME NEW q \in Callers, q # p PROVE Carried(q)
    <2>1. call'[q] = call[q]
      BY <1>2
    <2>2. call[q].pc \in {"create", "onstart"} => call[q].at \in Generations /\ ~slot[call[q].at].err
      BY DEF IInv, References, OnSlot, Starting, CInv, Created
    <2> QED BY <2>1, <2>2 DEF Carried, Unmoved
  <1>3. \A g \in Generations : Kept(g)
    BY DEF Unmoved
  <1>4. configMu' = configMu /\ staged' = staged
    BY DEF inventory
  <1> QED BY <1>1, <1>2, <1>3, <1>4, SteadyStep

\* Requests that begin, and those that return at once.
LEMMA EntersStep ==
  ASSUME IInv, CInv, NEW p \in Callers, UNCHANGED <<registry, slot, inventory>>,
         call[p].pc \notin Starting, NEW r \in Requests, Become(p, r),
         r.pc \notin Starting \cup {"apply_next", "close_next"}, r.after = "idle"
  PROVE  CInv'
  <1>1. call'[p] = r /\ \A q \in Callers : q # p => call'[q] = call[q]
    BY BecomeFacts DEF IInv
  <1> QED BY <1>1, PassStep, UnmovedSlots DEF registry

LEMMA LookupsKeep ==
  ASSUME IInv, CInv, NEW p \in Callers, NEW id \in Ids,
         StartJoin(p, id) \/ LeaseLookup(p, id) \/ StopConnection(p, id)
  PROVE  CInv'
  <1>1. UNCHANGED <<registry, slot, inventory>> /\ call[p].pc \notin Starting
    BY DEF StartJoin, LeaseLookup, StopConnection, Call, At, Starting
  <1>2. clients[id] \in Generations \cup {None}
    BY DEF IInv, TypeOK
  <1>3. PICK r \in Requests :
          /\ Become(p, r) /\ r.after = "idle"
          /\ r.pc \in {"wait_joined", "lease_wait", "stop_lookup"}
    <2>1. CASE StartJoin(p, id) \/ LeaseLookup(p, id)
      <3>1. PICK label \in {"wait_joined", "lease_wait"} : Become(p, Enter(label, clients[id]))
        BY <2>1 DEF StartJoin, LeaseLookup, Call
      <3>2. label \in Labels
        BY <3>1 DEF Labels
      <3> QED BY <1>2, <3>1, <3>2, EnterFacts
    <2>2. CASE StopConnection(p, id)
      <3> DEFINE r == [Idle EXCEPT !.pc = "stop_lookup", !.route = id]
      <3>1. r \in Requests /\ r.after = "idle" /\ r.pc = "stop_lookup"
        BY DEF Idle, Requests, Labels
      <3>2. Become(p, r)
        BY <2>2 DEF StopConnection, Call
      <3> QED BY <3>1, <3>2
    <2> QED BY <2>1, <2>2
  <1>4. r.pc \notin Starting \cup {"apply_next", "close_next"}
    BY <1>3 DEF Starting
  <1> QED BY <1>1, <1>3, <1>4, EntersStep

LEMMA CloseAgainKeeps ==
  ASSUME IInv, CInv, NEW p \in Callers, CloseAgain(p)
  PROVE  CInv'
  <1>1. UNCHANGED <<registry, slot, inventory>> /\ call[p].pc \notin Starting
    BY DEF CloseAgain, Call, At, Starting
  <1>2. Become(p, Enter("close_join", None)) /\ "close_join" \in Labels
    BY DEF CloseAgain, Call, Labels
  <1>3. /\ Enter("close_join", None) \in Requests
        /\ Enter("close_join", None).pc = "close_join" /\ Enter("close_join", None).after = "idle"
    BY <1>2, EnterFacts
  <1>4. "close_join" \notin Starting \cup {"apply_next", "close_next"}
    BY DEF Starting
  <1> QED BY <1>1, <1>2, <1>3, <1>4, EntersStep

\* The steps after which a request is over.
LEMMA ReturnsKeep ==
  ASSUME IInv, CInv, NEW p \in Callers, Return(p), Unmoved,
         UNCHANGED <<closed, closing, desired, connections, changing, clients, inventory>>,
         failedStarts' \subseteq failedStarts, call[p].pc \notin Starting
  PROVE  CInv'
  <1>1. /\ call'[p].pc = "idle" /\ call'[p].after = "idle"
        /\ \A q \in Callers : q # p => call'[q] = call[q]
    BY ReturnFacts DEF IInv
  <1>2. "idle" \notin Starting \cup {"apply_next", "close_next"}
    BY DEF Starting
  <1> QED BY <1>1, <1>2, PassStep

\* The steps that go from one label to another.
LEMMA GotoKeeps ==
  ASSUME IInv, CInv, NEW p \in Callers, NEW label \in Labels, Goto(p, label), Unmoved,
         UNCHANGED <<registry, inventory>>,
         call[p].pc \notin Starting,
         label \notin Starting \cup {"apply_next", "close_next"},
         call[p].pc \in Tearing \cup {"stop_once"} => label \in Tearing \cup {"stop_once"}
  PROVE  CInv'
  <1>1. /\ call'[p].pc = label /\ call'[p].at = call[p].at
        /\ call'[p].todo = call[p].todo /\ call'[p].after = call[p].after
        /\ \A q \in Callers : q # p => call'[q] = call[q]
    BY GotoFacts DEF IInv
  <1> QED BY <1>1, PassStep DEF registry

LEMMA StartOutcomesKeep ==
  ASSUME IInv, CInv, NEW p \in Callers,
         StartObserve(p) \/ StartAbandon(p) \/ StartAccept(p) \/ CloseJoined(p) \/ LeaseAbandon(p)
  PROVE  CInv'
  <1>1. UNCHANGED <<registry, slot, inventory>> /\ Unmoved
    BY UnmovedSlots DEF StartObserve, StartAbandon, StartAccept, CloseJoined, LeaseAbandon
  <1>2. call[p].pc \in {"wait_created", "wait_joined", "accept", "close_join", "lease_wait"}
    BY DEF StartObserve, StartAbandon, StartAccept, CloseJoined, LeaseAbandon, At
  <1>3. call[p].pc \notin Starting /\ call[p].pc \notin Tearing \cup {"stop_once"}
    BY <1>2 DEF Starting, Tearing
  <1>4. Return(p) \/ \E label \in {"stop_mark", "accept"} : Goto(p, label)
    BY DEF StartObserve, StartAbandon, StartAccept, CloseJoined, LeaseAbandon
  <1>5. CASE Return(p)
    BY <1>1, <1>3, <1>5, ReturnsKeep DEF registry
  <1>6. CASE \E label \in {"stop_mark", "accept"} : Goto(p, label)
    <2>1. PICK label \in {"stop_mark", "accept"} : Goto(p, label)
      BY <1>6
    <2>2. label \in Labels /\ label \notin Starting \cup {"apply_next", "close_next"}
      BY <2>1 DEF Labels, Starting
    <2> QED BY <1>1, <1>3, <2>1, <2>2, GotoKeeps
  <1> QED BY <1>4, <1>5, <1>6

\* stopSlot up to the end of the teardown callbacks.
LEMMA StopMarkKeeps ==
  ASSUME IInv, CInv, NEW p \in Callers, StopMark(p)
  PROVE  CInv'
  <1>1. UNCHANGED <<registry, inventory>> /\ Goto(p, "stop_once") /\ call[p].pc = "stop_mark"
    BY DEF StopMark, At
  <1>2. Unmoved
    BY UnmovedRetire DEF StopMark, IInv
  <1>3. /\ "stop_once" \in Labels /\ "stop_mark" \notin Starting
        /\ "stop_once" \notin Starting \cup {"apply_next", "close_next"}
    BY DEF Labels, Starting
  <1> QED BY <1>1, <1>2, <1>3, GotoKeeps

LEMMA StopLookupKeeps ==
  ASSUME IInv, CInv, NEW p \in Callers, StopLookup(p)
  PROVE  CInv'
  <1> DEFINE g == clients[call[p].route]
  <1>1. /\ UNCHANGED <<closed, closing, desired, connections, changing, clients, inventory>>
        /\ failedStarts' \subseteq failedStarts /\ call[p].pc = "stop_lookup"
    BY DEF StopLookup, At
  <1>2. Unmoved
    BY UnmovedRetire DEF StopLookup, IInv
  <1>3. "stop_lookup" \notin Starting \cup Tearing \cup {"stop_once"}
    BY DEF Starting, Tearing
  <1>4. CASE g = None
    BY <1>1, <1>2, <1>3, <1>4, ReturnsKeep DEF StopLookup
  <1>5. CASE g # None
    <2>1. call[p] \in Requests /\ TypeOK
      BY DEF IInv, TypeOK
    <2>2. g \in Generations
      BY <1>1, <1>5 DEF IInv, TypeOK, References
    <2> HIDE DEF g
    <2>3. [call[p] EXCEPT !.pc = "stop_once", !.at = g] \in Requests
      BY <2>1, <2>2 DEF Requests, Labels
    <2>4. Become(p, [call[p] EXCEPT !.pc = "stop_once", !.at = g])
      BY <1>5 DEF StopLookup, g
    <2>5. /\ call'[p] = [call[p] EXCEPT !.pc = "stop_once", !.at = g]
          /\ \A q \in Callers : q # p => call'[q] = call[q]
      BY <2>1, <2>3, <2>4, BecomeFacts
    <2>6. /\ call'[p].pc = "stop_once" /\ call'[p].after = call[p].after
          /\ call'[p].todo = call[p].todo
      BY <2>1, <2>5 DEF Requests
    <2>7. "stop_once" \notin Starting \cup {"apply_next", "close_next"}
      BY DEF Starting
    <2> QED BY <1>1, <1>2, <1>3, <2>5, <2>6, <2>7, PassStep
  <1> QED BY <1>4, <1>5

LEMMA TeardownsKeep ==
  ASSUME IInv, CInv, NEW p \in Callers,
         StopRun(p) \/ Drain(p) \/ OnStopReturn(p) \/ DestroyReturn(p)
  PROVE  CInv'
  <1> DEFINE g == call[p].at
  <1>1. /\ UNCHANGED <<registry, inventory>>
        /\ call[p].pc \in {"stop_once", "drain", "onstop", "destroy"}
    BY DEF StopRun, Drain, OnStopReturn, DestroyReturn, At
  <1>2. TypeOK /\ g \in Generations /\ slot[g] \in Slots
    BY <1>1 DEF IInv, TypeOK, References, OnSlot, Stopping
  <1>3. PICK label \in Tearing : Goto(p, label)
    BY DEF StopRun, Drain, OnStopReturn, DestroyReturn, Tearing
  <1>4. /\ label \in Labels /\ label \notin Starting \cup {"apply_next", "close_next"}
        /\ call[p].pc \notin Starting
    BY <1>1, <1>3 DEF Labels, Starting, Tearing
  <1>5. Unmoved
    <2>1. CASE StopRun(p)
      <3>1. Update(g, [slot[g] EXCEPT !.destroy = "running"]) /\ slot[g].destroy = "fresh"
        BY <2>1 DEF StopRun
      <3>2. [slot[g] EXCEPT !.destroy = "running"] \in Slots
        BY <1>2 DEF Slots
      <3> HIDE DEF g
      <3> QED BY <1>2, <3>1, <3>2, UnmovedUpdate DEF Slots
    <2>2. CASE Drain(p)
      BY <2>2, UnmovedSlots DEF Drain
    <2>3. CASE OnStopReturn(p) \/ DestroyReturn(p)
      <3>1. slot[g].destroyErr \in BOOLEAN
        BY <1>2 DEF Slots
      <3>2. PICK client \in {"stopped", "destroyed"}, err \in BOOLEAN :
              Update(g, [slot[g] EXCEPT !.client = client, !.destroyErr = err])
        BY <2>3, <3>1 DEF OnStopReturn, DestroyReturn
      <3>3. [slot[g] EXCEPT !.client = client, !.destroyErr = err] \in Slots
        BY <1>2 DEF Slots
      <3> DEFINE r == [slot[g] EXCEPT !.client = client, !.destroyErr = err]
      <3>4. /\ r.id = slot[g].id /\ r.profile = slot[g].profile /\ r.destroy = slot[g].destroy
            /\ r.err = slot[g].err /\ r.ready = slot[g].ready
        BY <1>2 DEF Slots
      <3> HIDE DEF r, g
      <3>5. r \in Slots /\ Update(g, r)
        BY <3>2, <3>3 DEF r
      <3> QED BY <1>2, <3>4, <3>5, UnmovedUpdate
    <2> QED BY <2>1, <2>2, <2>3
  <1> QED BY <1>1, <1>3, <1>4, <1>5, GotoKeeps

\* Leases: only users change.
LEMMA UnmovedUsers ==
  ASSUME TypeOK, NEW g \in Generations, NEW users \in SUBSET Leases,
         Update(g, [slot[g] EXCEPT !.users = users])
  PROVE  Unmoved
  <1>1. slot[g] \in Slots
    BY DEF TypeOK
  <1>2. [slot[g] EXCEPT !.users = users] \in Slots
    BY <1>1 DEF Slots
  <1> QED BY <1>1, <1>2, UnmovedUpdate DEF Slots

LEMMA LeasesKeep ==
  ASSUME IInv, CInv, NEW p \in Callers,
         LeaseAdmit(p) \/ LeaseNested(p) \/ NestedReturn(p) \/ LeaseReturn(p)
  PROVE  CInv'
  <1> DEFINE g == call[p].at
  <1>1. UNCHANGED <<registry, inventory>> /\ call[p].pc \in {"lease_wait", "leased", "nested"}
    BY DEF LeaseAdmit, LeaseNested, NestedReturn, LeaseReturn, At
  <1>2. TypeOK /\ g \in Generations /\ slot[g].users \in SUBSET Leases
    BY <1>1 DEF IInv, TypeOK, References, OnSlot, Slots
  <1>3. call[p].pc \notin Starting \cup Tearing \cup {"stop_once"}
    BY <1>1 DEF Starting, Tearing
  <1>4. Unmoved
    <2>1. CASE UNCHANGED slot
      BY <2>1, UnmovedSlots
    <2>2. CASE ~UNCHANGED slot
      <3>1. \A depth \in {1, 2} :
              /\ slot[g].users \cup {<<p, depth>>} \in SUBSET Leases
              /\ slot[g].users \ {<<p, depth>>} \in SUBSET Leases
        BY <1>2 DEF Leases
      <3>2. PICK users \in SUBSET Leases : Update(g, [slot[g] EXCEPT !.users = users])
        BY <2>2, <3>1 DEF LeaseAdmit, LeaseNested, NestedReturn, LeaseReturn, Release
      <3> QED BY <1>2, <3>2, UnmovedUsers
    <2> QED BY <2>1, <2>2
  <1>5. Return(p) \/ \E label \in {"leased", "nested"} : Goto(p, label)
    BY DEF LeaseAdmit, LeaseNested, NestedReturn, LeaseReturn
  <1>6. CASE Return(p)
    BY <1>1, <1>3, <1>4, <1>6, ReturnsKeep DEF registry
  <1>7. CASE \E label \in {"leased", "nested"} : Goto(p, label)
    <2>1. PICK label \in {"leased", "nested"} : Goto(p, label)
      BY <1>7
    <2>2. label \in Labels /\ label \notin Starting \cup {"apply_next", "close_next"}
      BY <2>1 DEF Labels, Starting
    <2> QED BY <1>1, <1>3, <1>4, <2>1, <2>2, GotoKeeps
  <1> QED BY <1>5, <1>6, <1>7

\* The loops over retired slots.
LEMMA StopNextKeeps ==
  ASSUME IInv, CInv, NEW p \in Callers, NEW loop \in {"apply_next", "close_next"}, StopNext(p, loop)
  PROVE  CInv'
  <1>1. TypeOK /\ call[p] \in Requests /\ call[p].pc = loop /\ UNCHANGED <<registry, slot, inventory>>
    BY DEF IInv, TypeOK, StopNext, At
  <1>2. PICK g \in call[p].todo :
          Become(p, [call[p] EXCEPT !.pc = "stop_once", !.at = g, !.after = loop, !.todo = @ \ {g}])
    BY DEF StopNext
  <1>3. g \in Generations
    BY <1>1, <1>2 DEF Requests
  <1>4. [call[p] EXCEPT !.pc = "stop_once", !.at = g, !.after = loop, !.todo = @ \ {g}] \in Requests
    BY <1>1, <1>3 DEF Requests, Labels
  <1>5. /\ call'[p] = [call[p] EXCEPT !.pc = "stop_once", !.at = g, !.after = loop, !.todo = @ \ {g}]
        /\ \A q \in Callers : q # p => call'[q] = call[q]
    BY <1>1, <1>2, <1>4, BecomeFacts
  <1>6. /\ call'[p].pc = "stop_once" /\ call'[p].at = g
        /\ call'[p].todo = call[p].todo \ {g} /\ call'[p].after = loop
    BY <1>1, <1>5 DEF Requests
  <1>7. Carried(p)
    BY <1>1, <1>6 DEF Carried, Closes, Applies, Tends, Tearing, Starting
  <1>8. ASSUME NEW q \in Callers, q # p PROVE Carried(q)
    <2>1. call'[q] = call[q] /\ slot' = slot
      BY <1>1, <1>5, <1>8
    <2>2. call[q].pc \in {"create", "onstart"} => ~slot[call[q].at].err
      BY DEF CInv, Created
    <2> QED BY <2>1, <2>2 DEF Carried
  <1>9. \A h \in Generations : Kept(h)
    BY <1>1 DEF Kept
  <1> QED BY <1>1, <1>7, <1>8, <1>9, SteadyStep DEF registry, inventory

\* An inventory change that joins a teardown error stages the same inventory.
LEMMA StagedErrFacts ==
  ASSUME TypeOK, NEW p \in Callers, StopReturn(p)
  PROVE  /\ staged'.desired = staged.desired /\ staged'.connections = staged.connections
         /\ staged'.changed = staged.changed
  <1> DEFINE err == staged.err \/ slot[call[p].at].destroyErr
  <1>1. staged' = staged \/ staged' = [staged EXCEPT !.err = err]
    BY DEF StopReturn
  <1> HIDE DEF err
  <1>2. staged \in [desired : Desired, connections : Inventory, changed : SUBSET Ids, err : BOOLEAN]
    BY DEF TypeOK
  <1> QED BY <1>1, <1>2

LEMMA StopJoinKeeps ==
  ASSUME IInv, CInv, NEW p \in Callers, StopJoin(p)
  PROVE  CInv'
  <1>1. /\ TypeOK /\ call[p].pc = "stop_once" /\ call[p].at \in Generations
        /\ slot[call[p].at].destroy = "done" /\ StopReturn(p) /\ UNCHANGED <<registry, slot>>
    BY DEF IInv, References, OnSlot, Stopping, StopJoin, At
  <1>2. /\ call'[p].pc = call[p].after /\ call'[p].after = call[p].after
        /\ call[p].after # "idle" => call'[p].todo = call[p].todo
        /\ \A q \in Callers : q # p => call'[q] = call[q]
        /\ configMu' = configMu
    BY <1>1, StopReturnFacts
  <1>3. call[p].after \in {"idle", "apply_next", "close_next"}
    BY <1>1 DEF TypeOK, Requests
  <1>4. Carried(p)
    BY <1>1, <1>2, <1>3 DEF Carried, Closes, Applies, Tends, Tearing, Starting
  <1>5. ASSUME NEW q \in Callers, q # p PROVE Carried(q)
    <2>1. call'[q] = call[q] /\ slot' = slot
      BY <1>1, <1>2, <1>5
    <2>2. call[q].pc \in {"create", "onstart"} => ~slot[call[q].at].err
      BY DEF CInv, Created
    <2> QED BY <2>1, <2>2 DEF Carried
  <1>6. \A h \in Generations : Kept(h)
    BY <1>1 DEF Kept
  <1>7. /\ staged'.desired = staged.desired /\ staged'.connections = staged.connections
        /\ staged'.changed = staged.changed
    BY <1>1, StagedErrFacts
  <1> QED BY <1>1, <1>2, <1>4, <1>5, <1>6, <1>7, SteadyStep DEF registry

\* The creator's steps up to the announcement of its outcome.
LEMMA CreatorsKeep ==
  ASSUME IInv, CInv, NEW p \in Callers, CreateReturn(p) \/ OnStartReturn(p) \/ StartReady(p)
  PROVE  CInv'
  <1> DEFINE g == call[p].at
  <1>1. /\ TypeOK /\ g \in Generations /\ slot[g] \in Slots /\ call[p] \in Requests
        /\ call[p].pc \in {"create", "onstart", "ready"} /\ UNCHANGED <<registry, inventory>>
    BY DEF IInv, TypeOK, References, OnSlot, Starting, CreateReturn, OnStartReturn, StartReady, At
  <1>2. PICK client \in {"none", "live"}, err \in BOOLEAN, label \in {"onstart", "record", "ready"} :
          CreateReturn(p) \/ OnStartReturn(p) =>
            /\ slot'[g].id = slot[g].id /\ slot'[g].profile = slot[g].profile
            /\ slot'[g].destroy = slot[g].destroy /\ slot'[g].ready = slot[g].ready
            /\ slot'[g].err = err /\ \A h \in Generations : h # g => slot'[h] = slot[h]
            /\ label = "onstart" => ~err
            /\ Goto(p, label)
    <2>1. CASE CreateReturn(p)
      <3>1. PICK client \in {"none", "live"}, err \in BOOLEAN :
              /\ Update(g, [slot[g] EXCEPT !.client = client, !.err = err])
              /\ Goto(p, IF err THEN "record" ELSE "onstart")
        BY <2>1 DEF CreateReturn
      <3>2. [slot[g] EXCEPT !.client = client, !.err = err] \in Slots
        BY <1>1 DEF Slots
      <3>3. /\ slot'[g] = [slot[g] EXCEPT !.client = client, !.err = err]
            /\ \A h \in Generations : h # g => slot'[h] = slot[h]
        BY <1>1, <3>1, <3>2, UpdateFacts
      <3>4. /\ slot'[g].id = slot[g].id /\ slot'[g].profile = slot[g].profile
            /\ slot'[g].destroy = slot[g].destroy /\ slot'[g].ready = slot[g].ready
            /\ slot'[g].err = err
        BY <1>1, <3>3 DEF Slots
      <3>5. CASE err
        BY <3>1, <3>3, <3>4, <3>5
      <3>6. CASE ~err
        BY <3>1, <3>3, <3>4, <3>6
      <3> QED BY <3>5, <3>6
    <2>2. CASE OnStartReturn(p)
      <3>1. PICK err \in BOOLEAN :
              /\ Update(g, [slot[g] EXCEPT !.err = err])
              /\ Goto(p, IF err THEN "record" ELSE "ready")
        BY <2>2 DEF OnStartReturn
      <3>2. [slot[g] EXCEPT !.err = err] \in Slots
        BY <1>1 DEF Slots
      <3>3. /\ slot'[g] = [slot[g] EXCEPT !.err = err]
            /\ \A h \in Generations : h # g => slot'[h] = slot[h]
        BY <1>1, <3>1, <3>2, UpdateFacts
      <3>4. /\ slot'[g].id = slot[g].id /\ slot'[g].profile = slot[g].profile
            /\ slot'[g].destroy = slot[g].destroy /\ slot'[g].ready = slot[g].ready
            /\ slot'[g].err = err
        BY <1>1, <3>3 DEF Slots
      <3>5. CASE err
        BY <3>1, <3>3, <3>4, <3>5
      <3>6. CASE ~err
        BY <3>1, <3>3, <3>4, <3>6
      <3> QED BY <3>5, <3>6
    <2> QED BY <2>1, <2>2
  <1>3. CASE CreateReturn(p) \/ OnStartReturn(p)
    <2>1. ~slot[g].err /\ call[p].pc \in {"create", "onstart"}
      BY <1>3 DEF CInv, Created, CreateReturn, OnStartReturn, At
    <2>2. /\ call'[p].pc = label /\ call'[p].at = g
          /\ call'[p].todo = call[p].todo /\ call'[p].after = call[p].after
          /\ \A q \in Callers : q # p => call'[q] = call[q]
      BY <1>1, <1>2, <1>3, GotoFacts DEF Labels
    <2>3. Carried(p)
      BY <1>2, <1>3, <2>1, <2>2 DEF Carried, Closes, Applies, Tends, Tearing, Starting
    <2>4. ASSUME NEW q \in Callers, q # p PROVE Carried(q)
      <3>1. call'[q] = call[q]
        BY <2>2, <2>4
      <3>2. call[q].pc \in Starting => call[q].at \in Generations /\ call[q].at # g
        BY <1>1, <2>4 DEF IInv, References, OnSlot, Startup, Starting
      <3>3. call[q].pc \in {"create", "onstart"} => ~slot[call[q].at].err
        BY DEF CInv, Created
      <3>4. \A h \in Generations : h # g => slot'[h] = slot[h]
        BY <1>2, <1>3
      <3> QED BY <3>1, <3>2, <3>3, <3>4 DEF Carried, Starting
    <2>5. \A h \in Generations : Kept(h)
      BY <1>2, <1>3, <2>1 DEF Kept
    <2> QED BY <1>1, <2>3, <2>4, <2>5, SteadyStep DEF registry, inventory
  <1>4. CASE StartReady(p)
    <2> DEFINE hook == IF slot[g].hook = "armed" THEN "off" ELSE slot[g].hook
    <2>1. Update(g, [slot[g] EXCEPT !.ready = TRUE, !.hook = hook]) /\ Goto(p, "wait_created")
      BY <1>4 DEF StartReady
    <2>2. hook \in {"off", "armed", "fired"} /\ "wait_created" \in Labels
      BY <1>1 DEF Slots, Labels
    <2> HIDE DEF hook
    <2>3. [slot[g] EXCEPT !.ready = TRUE, !.hook = hook] \in Slots
      BY <1>1, <2>2 DEF Slots
    <2>4. /\ slot'[g] = [slot[g] EXCEPT !.ready = TRUE, !.hook = hook]
          /\ \A h \in Generations : h # g => slot'[h] = slot[h]
      BY <1>1, <2>1, <2>3, UpdateFacts
    <2>5. /\ slot'[g].id = slot[g].id /\ slot'[g].profile = slot[g].profile
          /\ slot'[g].destroy = slot[g].destroy /\ slot'[g].err = slot[g].err /\ slot'[g].ready = TRUE
      BY <1>1, <2>4 DEF Slots
    <2>6. /\ call'[p].pc = "wait_created" /\ call'[p].at = g
          /\ call'[p].todo = call[p].todo /\ call'[p].after = call[p].after
          /\ \A q \in Callers : q # p => call'[q] = call[q]
      BY <1>1, <2>1, <2>2, GotoFacts
    <2>7. Carried(p)
      BY <1>1, <2>5, <2>6 DEF Carried, Closes, Applies, Tends, Tearing
    <2>8. ASSUME NEW q \in Callers, q # p PROVE Carried(q)
      <3>1. call'[q] = call[q]
        BY <2>6, <2>8
      <3>2. call[q].pc \in Starting => call[q].at \in Generations /\ call[q].at # g
        BY <1>1, <2>8 DEF IInv, References, OnSlot, Startup, Starting
      <3>3. call[q].pc \in {"create", "onstart"} => ~slot[call[q].at].err
        BY DEF CInv, Created
      <3> QED BY <2>4, <3>1, <3>2, <3>3 DEF Carried, Starting
    <2>9. \A h \in Generations : Kept(h)
      BY <2>4, <2>5 DEF Kept
    <2> QED BY <1>1, <2>7, <2>8, <2>9, SteadyStep DEF registry, inventory
  <1> QED BY <1>3, <1>4

\* Contexts: a slot's hook and cancellation are no part of the invariant.
LEMMA UnmovedHook ==
  ASSUME TypeOK, NEW g \in Generations, NEW hook \in {"off", "armed", "fired"}, NEW c \in BOOLEAN,
         Update(g, [slot[g] EXCEPT !.hook = hook, !.cancelled = c])
  PROVE  Unmoved
  <1> DEFINE r == [slot[g] EXCEPT !.hook = hook, !.cancelled = c]
  <1>1. slot[g] \in Slots
    BY DEF TypeOK
  <1>2. r \in Slots
    BY <1>1 DEF Slots
  <1>3. /\ r.id = slot[g].id /\ r.profile = slot[g].profile /\ r.destroy = slot[g].destroy
        /\ r.err = slot[g].err /\ r.ready = slot[g].ready
    BY <1>1 DEF Slots
  <1>4. Update(g, r)
    OBVIOUS
  <1> HIDE DEF r
  <1> QED BY <1>2, <1>3, <1>4, UnmovedUpdate

LEMMA SameRequests ==
  ASSUME IInv, CInv, UNCHANGED <<registry, inventory>>, Unmoved,
         \A q \in Callers : SameControl(call'[q], call[q]) /\ call'[q].after = call[q].after
  PROVE  CInv'
  <1>1. ASSUME NEW q \in Callers PROVE Carried(q)
    <2>1. call[q].pc \in {"create", "onstart"} => call[q].at \in Generations /\ ~slot[call[q].at].err
      BY DEF IInv, References, OnSlot, Starting, CInv, Created
    <2>2. SameControl(call'[q], call[q]) /\ call'[q].after = call[q].after
      OBVIOUS
    <2> QED BY <2>1, <2>2 DEF Carried, Unmoved, SameControl, Closes, Applies, Tends
  <1>2. \A g \in Generations : Kept(g)
    BY DEF Unmoved
  <1> QED BY <1>1, <1>2, SteadyStep DEF registry, inventory

LEMMA HookRunsKeeps ==
  ASSUME IInv, CInv, NEW g \in Generations, HookRuns(g)
  PROVE  CInv'
  <1>1. Unmoved
    BY UnmovedHook DEF HookRuns, IInv
  <1>2. \A q \in Callers : SameControl(call'[q], call[q]) /\ call'[q].after = call[q].after
    BY DEF HookRuns, SameControl
  <1> QED BY <1>1, <1>2, SameRequests DEF HookRuns

LEMMA CancelCallerKeeps ==
  ASSUME IInv, CInv, NEW p \in Callers, CancelCaller(p)
  PROVE  CInv'
  <1> DEFINE g == call[p].at
  <1>1. TypeOK /\ call[p] \in Requests /\ UNCHANGED <<registry, inventory>>
    BY DEF IInv, TypeOK, CancelCaller
  <1>2. [call[p] EXCEPT !.done = TRUE] \in Requests
    BY <1>1 DEF Requests
  <1>3. /\ call'[p] = [call[p] EXCEPT !.done = TRUE]
        /\ \A q \in Callers : q # p => call'[q] = call[q]
    BY <1>1, <1>2, BecomeFacts DEF CancelCaller
  <1>4. SameControl(call'[p], call[p]) /\ call'[p].after = call[p].after
    BY <1>1, <1>3 DEF SameControl, Requests
  <1>5. \A q \in Callers : SameControl(call'[q], call[q]) /\ call'[q].after = call[q].after
    BY <1>3, <1>4 DEF SameControl
  <1>6. Unmoved
    <2>1. CASE call[p].pc \in Starting
      <3>1. g \in Generations
        BY <2>1 DEF IInv, References, OnSlot
      <3>2. PICK hook \in {"off", "armed", "fired"} : Update(g, [slot[g] EXCEPT !.hook = hook])
        <4>1. slot[g].hook \in {"off", "armed", "fired"}
          BY <1>1, <3>1 DEF TypeOK, Slots
        <4> QED BY <2>1, <4>1 DEF CancelCaller
      <3>3. slot[g].cancelled \in BOOLEAN /\ slot[g] \in Slots
        BY <1>1, <3>1 DEF TypeOK, Slots
      <3>4. [slot[g] EXCEPT !.hook = hook] = [slot[g] EXCEPT !.hook = hook, !.cancelled = slot[g].cancelled]
        BY <3>3 DEF Slots
      <3> QED BY <1>1, <3>1, <3>2, <3>3, <3>4, UnmovedHook
    <2>2. CASE call[p].pc \notin Starting
      BY <2>2, UnmovedSlots DEF CancelCaller
    <2> QED BY <2>1, <2>2
  <1> QED BY <1>1, <1>5, <1>6, SameRequests

-----------------------------------------------------------------------------
(* Steps that change the registry.                                         *)

\* The failure recorded is that of the registered generation.
LEMMA StartRecordKeeps ==
  ASSUME IInv, CInv, NEW p \in Callers, StartRecord(p)
  PROVE  CInv'
  <1> DEFINE g == call[p].at
  <1>1. /\ TypeOK /\ g \in Generations /\ slot[g].id \in Ids /\ slot[g].err
        /\ call[p].pc = "record"
        /\ UNCHANGED <<closed, closing, desired, connections, changing, clients, slot, inventory>>
    BY DEF IInv, References, OnSlot, Startup, Starting, StartRecord, At
  <1>2. /\ Created /\ Closure /\ Served /\ Staging /\ Failures
        /\ Matches(desired, connections)
    BY DEF CInv
  <1>3. /\ call'[p].pc = "ready" /\ call'[p].at = g
        /\ call'[p].todo = call[p].todo /\ call'[p].after = call[p].after
        /\ \A q \in Callers : q # p => call'[q] = call[q]
    BY <1>1, GotoFacts DEF Labels, StartRecord
  <1>4. \/ failedStarts' = failedStarts
        \/ /\ failedStarts' = failedStarts \cup {slot[g].id}
           /\ clients[slot[g].id] = g /\ slot[g].id \notin changing
    BY DEF StartRecord
  <1>5. \A q \in Callers : /\ Closes(call'[q]) <=> Closes(call[q])
                           /\ Applies(call'[q]) <=> Applies(call[q])
                           /\ \A h \in Generations : Tends(call[q], h) <=> Tends(call'[q], h)
    BY <1>1, <1>3 DEF Closes, Applies, Tends, Tearing
  <1>6. \A id \in Ids : clients[id] # None => clients[id] \in Generations
    BY <1>1 DEF TypeOK
  <1>7. staged.changed \subseteq Ids /\ g # None
    BY <1>1, RegistryAssumption DEF TypeOK
  <1>8. configMu' = configMu /\ staged' = staged
    BY <1>1 DEF inventory
  <1>9. Created'
    BY <1>1, <1>2, <1>3 DEF Created, Starting
  <1>10. Closure'
    BY <1>1, <1>2, <1>5 DEF Closure
  <1>11. Served' /\ Matches(desired, connections)'
    BY <1>1, <1>2 DEF Served, Matches, Configured
  <1>12. Staging'
    <2>1. Matches(staged.desired, staged.connections)' <=> Matches(staged.desired, staged.connections)
      BY <1>8 DEF Matches
    <2>2. configMu # None => staged.changed \cap failedStarts' = {}
      BY <1>2, <1>4 DEF Staging
    <2>3. ASSUME NEW q \in Callers, Applies(call'[q])
          PROVE  /\ configMu = q
                 /\ \A id \in staged.changed : clients[id] # None => Tends(call'[q], clients[id])
      BY <1>2, <1>5, <1>6, <1>7, <2>3 DEF Staging
    <2> QED BY <1>1, <1>2, <1>8, <2>1, <2>2, <2>3 DEF Staging, Configured
  <1>13. Failures'
    <2>1. clients[slot[g].id] = g => Configured(slot[g].id)
      BY <1>1, <1>2, <1>7 DEF Served
    <2> QED BY <1>1, <1>2, <1>4, <2>1 DEF Failures, Configured
  <1> QED BY <1>9, <1>10, <1>11, <1>12, <1>13 DEF CInv

LEMMA NewSlotProfile ==
  ASSUME TypeOK, NEW id \in Ids
  PROVE  NewSlot(id).profile = connections[id]
  BY DEF NewSlot, FreeSlot

\* Nobody starts a connection while it is changed, or after Close.
LEMMA StartCreateKeeps ==
  ASSUME IInv, CInv, NEW p \in Callers, NEW id \in Ids, StartCreate(p, id)
  PROVE  CInv'
  <1>1. /\ TypeOK /\ Startable(id) /\ clients[id] = None
        /\ failedStarts' = failedStarts \ {id}
        /\ UNCHANGED <<closed, closing, desired, connections, changing, inventory>>
    BY DEF IInv, StartCreate
  <1>2. /\ Created /\ Closure /\ Served /\ Staging /\ Failures
        /\ Matches(desired, connections)
    BY DEF CInv
  <1>3. PICK g \in Generations :
          /\ slot[g].id = None
          /\ Update(g, NewSlot(id))
          /\ clients' = [clients EXCEPT ![id] = g]
          /\ Call(p, "start", Enter("create", g))
    BY DEF StartCreate
  <1>4. slot'[g] = NewSlot(id) /\ \A h \in Generations : h # g => slot'[h] = slot[h]
    BY <1>1, <1>3, NewSlotFacts, UpdateFacts
  <1>5. /\ slot'[g].id = id /\ ~slot'[g].ready /\ ~slot'[g].err
        /\ slot'[g].destroy = "fresh" /\ slot'[g].profile = connections[id]
    BY <1>1, <1>4, NewSlotFacts, NewSlotProfile
  <1>6. /\ call'[p].pc = "create" /\ call'[p].at = g /\ call'[p].todo = {} /\ call'[p].after = "idle"
        /\ \A q \in Callers : q # p => call'[q] = call[q]
    <2>1. "create" \in Labels
      BY DEF Labels
    <2>2. Become(p, Enter("create", g))
      BY <1>3 DEF Call
    <2> QED BY <1>1, <2>1, <2>2, EnterFacts, BecomeFacts
  <1>7. clients'[id] = g /\ \A i \in Ids : i # id => clients'[i] = clients[i]
    BY <1>1, <1>3 DEF TypeOK
  <1>8. None \notin Ids /\ g # None /\ call[p].pc = "idle"
    BY <1>3, RegistryAssumption DEF Call, At
  <1>9. \A q \in Callers : call[q].pc \in OnSlot => call[q].at \in Generations /\ call[q].at # g
    BY <1>3, <1>8 DEF IInv, References
  <1>10. \A i \in Ids : clients[i] # None => clients[i] \in Generations /\ clients[i] # g
    BY <1>1, <1>3, <1>8 DEF IInv, TypeOK, Registration
  <1>11. ~Closes(call'[p]) /\ ~Applies(call'[p])
    BY <1>6 DEF Closes, Applies
  <1>12. configMu' = configMu /\ staged' = staged /\ staged.changed \subseteq Ids
    BY <1>1 DEF inventory, TypeOK
  <1>13. Created'
    BY <1>2, <1>4, <1>5, <1>6, <1>8, <1>9 DEF Created, Starting, OnSlot
  <1>14. Closure'
    BY <1>1, <1>2, <1>6, <1>11 DEF Closure, Startable
  <1>15. Served'
    <2>1. SameConnectionClientConfig(slot'[g].profile, connections[id])
      BY <1>5 DEF SameConnectionClientConfig
    <2> QED BY <1>1, <1>2, <1>4, <1>5, <1>7, <1>10, <2>1 DEF Served, Startable, Configured
  <1>16. Staging'
    <2>1. Matches(staged.desired, staged.connections)' <=> Matches(staged.desired, staged.connections)
      BY <1>12 DEF Matches
    <2>2. ASSUME NEW q \in Callers, Applies(call'[q])
          PROVE  /\ configMu = q
                 /\ \A i \in staged.changed : clients'[i] # None => Tends(call'[q], clients'[i])
      <3>1. q # p /\ call'[q] = call[q]
        BY <1>6, <1>11, <2>2
      <3>2. configMu = q /\ q # None
        BY <1>2, <2>2, <3>1, RegistryAssumption DEF Staging
      <3>3. id \notin staged.changed
        BY <1>1, <1>2, <3>2 DEF Staging, Startable
      <3> QED BY <1>2, <1>7, <1>12, <2>2, <3>1, <3>2, <3>3 DEF Staging
    <2> QED BY <1>1, <1>2, <1>12, <2>1, <2>2 DEF Staging, Configured
  <1>17. Failures'
    <2>1. failedStarts \subseteq Ids
      BY <1>1 DEF TypeOK
    <2> QED BY <1>1, <1>2, <1>4, <1>7, <1>10, <2>1 DEF Failures, Configured
  <1>18. Matches(desired, connections)'
    BY <1>1, <1>2 DEF Matches
  <1> QED BY <1>13, <1>14, <1>15, <1>16, <1>17, <1>18 DEF CInv

\* The generation that leaves the registry was the one that was tended.
LEMMA UnregisterKeeps ==
  ASSUME IInv, CInv, NEW p \in Callers, Unregister(p)
  PROVE  CInv'
  <1> DEFINE g == call[p].at
  <1>1. /\ TypeOK /\ g \in Generations /\ slot[g].id \in Ids /\ slot[g] \in Slots
        /\ slot[g].destroy = "running" /\ call[p].pc = "unregister" /\ StopReturn(p)
        /\ UNCHANGED <<closed, closing, desired, connections, changing, failedStarts>>
    BY DEF IInv, TypeOK, References, OnSlot, Stopping, Teardown, Tearing, Unregister, At
  <1>2. /\ Created /\ Closure /\ Served /\ Staging /\ Failures
        /\ Matches(desired, connections)
    BY DEF CInv
  <1>3. clients[slot[g].id] = g /\ g # None
    BY <1>1, RegistryAssumption DEF IInv, Registration
  <1>4. clients' = [clients EXCEPT ![slot[g].id] = None] /\ Update(g, [slot[g] EXCEPT !.destroy = "done"])
    BY <1>3 DEF Unregister
  <1>5. [slot[g] EXCEPT !.destroy = "done"] \in Slots
    BY <1>1 DEF Slots
  <1>6. /\ slot'[g] = [slot[g] EXCEPT !.destroy = "done"]
        /\ \A h \in Generations : h # g => slot'[h] = slot[h]
    BY <1>1, <1>4, <1>5, UpdateFacts
  <1>7. /\ slot'[g].id = slot[g].id /\ slot'[g].destroy = "done" /\ slot'[g].profile = slot[g].profile
        /\ slot'[g].ready = slot[g].ready /\ slot'[g].err = slot[g].err
    BY <1>1, <1>6 DEF Slots
  <1>8. /\ call'[p].pc = call[p].after /\ call'[p].after = call[p].after
        /\ call[p].after # "idle" => call'[p].todo = call[p].todo
        /\ \A q \in Callers : q # p => call'[q] = call[q]
        /\ configMu' = configMu
    BY <1>1, StopReturnFacts
  <1>9. call[p].after \in {"idle", "apply_next", "close_next"}
    BY <1>1 DEF TypeOK, Requests
  <1>10. clients'[slot[g].id] = None /\ \A i \in Ids : i # slot[g].id => clients'[i] = clients[i]
    BY <1>1, <1>4 DEF TypeOK
  <1>11. \A i \in Ids : i # slot[g].id /\ clients[i] # None => clients[i] \in Generations /\ clients[i] # g
    BY <1>1 DEF IInv, TypeOK, Registration
  <1>12. /\ staged'.desired = staged.desired /\ staged'.connections = staged.connections
         /\ staged'.changed = staged.changed
         /\ staged.changed \subseteq Ids /\ failedStarts \subseteq Ids
    BY <1>1, StagedErrFacts DEF TypeOK
  <1>13. /\ Closes(call'[p]) <=> Closes(call[p])
         /\ Applies(call'[p]) <=> Applies(call[p])
         /\ Closes(call'[p]) \/ Applies(call'[p]) =>
              \A h \in Generations : h # g /\ Tends(call[p], h) => Tends(call'[p], h)
    BY <1>1, <1>8, <1>9 DEF Closes, Applies, Tends, Tearing
  <1> HIDE DEF g
  <1>14. Created'
    <2>1. call[p].pc \notin Starting /\ call'[p].pc \notin Starting
      BY <1>1, <1>8, <1>9 DEF Starting
    <2>2. \A q \in Callers : call[q].pc \in Starting => call[q].at \in Generations
      BY DEF IInv, References, OnSlot
    <2>3. \A h \in Generations : /\ slot'[h].id = slot[h].id
                                /\ slot'[h].ready = slot[h].ready /\ slot'[h].err = slot[h].err
      BY <1>6, <1>7
    <2>4. ASSUME NEW h \in Generations, slot'[h].id # None, ~slot'[h].ready
          PROVE  \E q \in Callers : call'[q].pc \in Starting /\ call'[q].at = h
      <3>1. PICK q \in Callers : call[q].pc \in Starting /\ call[q].at = h
        BY <1>2, <2>3, <2>4 DEF Created
      <3> QED BY <1>8, <2>1, <3>1
    <2>5. ASSUME NEW q \in Callers, call'[q].pc \in {"create", "onstart"}
          PROVE  ~slot'[call'[q].at].err
      <3>1. call'[q] = call[q] /\ call[q].pc \in Starting
        BY <1>8, <2>1, <2>5 DEF Starting
      <3> QED BY <1>2, <2>2, <2>3, <2>5, <3>1 DEF Created
    <2> QED BY <2>4, <2>5 DEF Created
  <1>15. Closure'
    BY <1>1, <1>2, <1>6, <1>7, <1>8, <1>13 DEF Closure
  <1>16. Served'
    BY <1>1, <1>2, <1>6, <1>10, <1>11 DEF Served, Configured
  <1>17. Staging'
    <2>1. Matches(staged.desired, staged.connections)' <=> Matches(staged.desired, staged.connections)
      BY <1>12 DEF Matches
    <2>2. ASSUME NEW q \in Callers, Applies(call'[q])
          PROVE  /\ configMu = q
                 /\ \A i \in staged.changed : clients'[i] # None => Tends(call'[q], clients'[i])
      <3>1. Applies(call[q])
        BY <1>8, <1>13, <2>2
      <3>2. ASSUME NEW i \in staged.changed, clients'[i] # None
            PROVE  Tends(call'[q], clients'[i])
        <4>1. /\ i \in Ids /\ i # slot[g].id /\ clients'[i] = clients[i]
              /\ clients[i] \in Generations /\ clients[i] # g
          BY <1>10, <1>11, <1>12, <3>2
        <4>2. Tends(call[q], clients[i])
          BY <1>2, <3>1, <3>2, <4>1 DEF Staging
        <4> QED BY <1>8, <1>13, <2>2, <4>1, <4>2
      <3> QED BY <1>2, <3>1, <3>2 DEF Staging
    <2> QED BY <1>1, <1>2, <1>8, <1>12, <2>1, <2>2 DEF Staging, Configured
  <1>18. Failures'
    BY <1>1, <1>2, <1>6, <1>10, <1>11, <1>12 DEF Failures, Configured
  <1>19. Matches(desired, connections)'
    BY <1>1, <1>2 DEF Matches
  <1> QED BY <1>14, <1>15, <1>16, <1>17, <1>18, <1>19 DEF CInv

\* Close finds every generation that is not finished in the registry.
LEMMA CloseKeeps ==
  ASSUME IInv, CInv, NEW p \in Callers, Close(p)
  PROVE  CInv'
  <1>1. /\ TypeOK /\ closing = "fresh" /\ closing' = "running" /\ closed' = TRUE
        /\ call[p].pc = "idle"
        /\ UNCHANGED <<desired, connections, changing, failedStarts, clients, inventory>>
    BY DEF IInv, Close, Call, At
  <1>2. /\ Created /\ Closure /\ Served /\ Staging /\ Failures
        /\ Matches(desired, connections)
    BY DEF CInv
  <1>3. Registered \in SUBSET Generations
    BY <1>1 DEF TypeOK, Registered
  <1>4. /\ call'[p].pc = "close_next" /\ call'[p].todo = Registered /\ call'[p].after = "idle"
        /\ \A q \in Callers : q # p => call'[q] = call[q]
    <2>1. Become(p, Sweep("close_next", Registered)) /\ "close_next" \in Labels
      BY DEF Close, Call, Labels
    <2> QED BY <1>1, <1>3, <2>1, SweepFacts, BecomeFacts
  <1>5. ASSUME NEW g \in Generations
        PROVE  /\ slot'[g].id = slot[g].id /\ slot'[g].profile = slot[g].profile
               /\ slot'[g].ready = slot[g].ready /\ slot'[g].err = slot[g].err
               /\ slot'[g].destroy = slot[g].destroy
    <2> DEFINE a == slot[g].stopping \/ g \in Registered
               b == slot[g].cancelled \/ slot[g].id # None
    <2>1. slot'[g] = [slot[g] EXCEPT !.stopping = a, !.cancelled = b]
      BY DEF Close
    <2>2. slot[g] \in Slots
      BY <1>1 DEF TypeOK
    <2> HIDE DEF a, b
    <2> QED BY <2>1, <2>2 DEF Slots
  <1>6. \A id \in Ids : clients[id] # None => clients[id] \in Generations
    BY <1>1 DEF TypeOK
  <1>7. Created'
    <2>1. \A q \in Callers : call[q].pc \in Starting => q # p /\ call[q].at \in Generations
      BY <1>1 DEF IInv, References, OnSlot, Starting
    <2>2. "close_next" \notin Starting
      BY DEF Starting
    <2> QED BY <1>2, <1>4, <1>5, <2>1, <2>2 DEF Created, Starting
  <1>8. Closure'
    <2>1. \A q \in Callers : Closes(call'[q]) => q = p
      BY <1>1, <1>2, <1>4 DEF Closure
    <2>2. ASSUME NEW g \in Generations, slot'[g].id # None, slot'[g].destroy # "done"
          PROVE  Tends(call'[p], g)
      <3>1. slot[g].id \in Ids /\ clients[slot[g].id] = g
        BY <1>1, <1>5, <2>2 DEF IInv, TypeOK, Slots, Registration
      <3>2. g \in Registered
        BY <3>1, RegistryAssumption DEF Registered
      <3> QED BY <1>4, <3>2 DEF Tends
    <2> QED BY <1>1, <2>1, <2>2 DEF Closure
  <1>9. Served'
    BY <1>1, <1>2, <1>5, <1>6 DEF Served, Configured
  <1>10. Staging'
    <2>1. configMu' = configMu /\ staged' = staged
      BY <1>1 DEF inventory
    <2>2. Matches(staged.desired, staged.connections)' <=> Matches(staged.desired, staged.connections)
      BY <2>1 DEF Matches
    <2>3. ~Applies(call'[p])
      BY <1>4 DEF Applies
    <2> QED BY <1>1, <1>2, <1>4, <2>1, <2>2, <2>3 DEF Staging, Configured
  <1>11. Failures'
    <2>1. failedStarts \subseteq Ids
      BY <1>1 DEF TypeOK
    <2> QED BY <1>1, <1>2, <1>5, <1>6, <2>1 DEF Failures, Configured
  <1>12. Matches(desired, connections)'
    BY <1>1, <1>2 DEF Matches
  <1> QED BY <1>7, <1>8, <1>9, <1>10, <1>11, <1>12 DEF CInv

LEMMA CloseReturnKeeps ==
  ASSUME IInv, CInv, NEW p \in Callers, CloseReturn(p)
  PROVE  CInv'
  <1>1. /\ TypeOK /\ call[p].pc = "close_next" /\ call[p].todo = {} /\ closing' = "done" /\ Return(p)
        /\ UNCHANGED <<closed, desired, connections, changing, failedStarts, clients, slot, inventory>>
    BY DEF IInv, CloseReturn, At
  <1>2. /\ Created /\ Closure /\ Served /\ Staging /\ Failures
        /\ Matches(desired, connections)
    BY DEF CInv
  <1>3. /\ call'[p].pc = "idle" /\ call'[p].todo = {} /\ call'[p].after = "idle"
        /\ \A q \in Callers : q # p => call'[q] = call[q]
    BY <1>1, ReturnFacts
  <1>4. Closes(call[p]) /\ ~Closes(call'[p]) /\ ~Applies(call'[p])
    BY <1>1, <1>3 DEF Closes, Applies
  <1>5. \A g \in Generations : ~Tends(call[p], g)
    BY <1>1 DEF Tends, Tearing
  <1>6. Created'
    BY <1>1, <1>2, <1>3 DEF Created, Starting
  <1>7. Closure'
    BY <1>1, <1>2, <1>3, <1>4, <1>5 DEF Closure
  <1>8. Served' /\ Failures' /\ Matches(desired, connections)'
    BY <1>1, <1>2 DEF Served, Failures, Matches, Configured
  <1>9. Staging'
    <2>1. configMu' = configMu /\ staged' = staged
      BY <1>1 DEF inventory
    <2>2. Matches(staged.desired, staged.connections)' <=> Matches(staged.desired, staged.connections)
      BY <2>1 DEF Matches
    <2> QED BY <1>1, <1>2, <1>3, <1>4, <2>1, <2>2 DEF Staging, Configured
  <1> QED BY <1>6, <1>7, <1>8, <1>9 DEF CInv

-----------------------------------------------------------------------------
(* Inventory changes.                                                      *)

\* Inheritance adds private data only, and never removes the profile.
LEMMA InheritFacts ==
  ASSUME NEW o \in Profiles, NEW n \in Profiles \cup {Absent}, NEW c \in Profiles \cup {Absent}
  PROVE  LET e == InheritOverlayCredentials(o, n, c) IN
         /\ e \in Profiles /\ e # Absent
         /\ e.public = o.public
         /\ o.private # Nil => e.private = o.private
  <1>1. InheritOverlayCredentials(o, n, c) \in Profiles
    BY DEF InheritOverlayCredentials, Profiles
  <1>2. InheritOverlayCredentials(o, n, c).public = o.public
    BY DEF InheritOverlayCredentials, Profiles
  <1>3. o.private # Nil => InheritOverlayCredentials(o, n, c) = o
    BY DEF InheritOverlayCredentials
  <1>4. Absent \notin Profiles
    BY RegistryAssumption
  <1> QED BY <1>1, <1>2, <1>3, <1>4

\* The effective inventory is what the desired one asks for.
LEMMA EffectiveMatches ==
  ASSUME TypeOK, NEW d \in Desired
  PROVE  Matches(d, Effective(d))
  <1> SUFFICES ASSUME NEW id \in Ids
               PROVE  LET w == IF d.overrides[id] # Absent THEN d.overrides[id]
                               ELSE IF id \in d.disabled THEN Absent ELSE d.native[id]
                      IN IF w = Absent THEN Effective(d)[id] = Absent
                         ELSE /\ Effective(d)[id] # Absent
                              /\ Effective(d)[id].public = w.public
                              /\ w.private # Nil => Effective(d)[id].private = w.private
    BY DEF Matches
  <1>1. /\ d.overrides[id] \in Profiles \cup {Absent} /\ d.native[id] \in Profiles \cup {Absent}
        /\ connections[id] \in Profiles \cup {Absent}
    BY DEF TypeOK, Desired, Inventory
  <1>2. CASE d.overrides[id] # Absent
    <2> DEFINE e == InheritOverlayCredentials(d.overrides[id], d.native[id], connections[id])
    <2>1. Effective(d)[id] = e
      BY <1>2 DEF Effective
    <2>2. d.overrides[id] \in Profiles
      BY <1>1, <1>2
    <2>3. /\ e # Absent /\ e.public = d.overrides[id].public
          /\ d.overrides[id].private # Nil => e.private = d.overrides[id].private
      BY <1>1, <2>2, InheritFacts
    <2> HIDE DEF e
    <2> QED BY <1>2, <2>1, <2>3
  <1>3. CASE d.overrides[id] = Absent
    <2>1. Effective(d)[id] = IF id \in d.disabled THEN Absent ELSE d.native[id]
      BY <1>3 DEF Effective
    <2> QED BY <1>3, <2>1
  <1> QED BY <1>2, <1>3

LEMMA ApplyKeeps ==
  ASSUME IInv, CInv, NEW p \in Callers, NEW m, NEW d \in Desired, Apply(p, m, d)
  PROVE  CInv'
  <1> DEFINE effective == Effective(d)
             changed == Changed(effective)
             retired == {clients[id] : id \in changed} \ {None}
  <1>1. TypeOK /\ effective \in Inventory /\ changed \subseteq Ids
    BY EffectiveType DEF IInv, Changed
  <1>2. /\ Created /\ Closure /\ Served /\ Staging /\ Failures
        /\ Matches(desired, connections)
    BY DEF CInv
  <1>3. /\ Become(p, Sweep("apply_next", retired)) /\ call[p].pc = "idle"
        /\ Retire(retired)
        /\ configMu = None /\ configMu' = p
        /\ staged' = [desired |-> d, connections |-> effective, changed |-> changed, err |-> FALSE]
        /\ changing' = changing \cup changed
        /\ failedStarts' = failedStarts \ changed
        /\ UNCHANGED <<closed, closing, desired, connections, clients>>
    BY DEF Apply, Call, At
  <1>4. Matches(d, effective)
    BY <1>1, EffectiveMatches
  <1>5. \A id \in Ids \ changed :
          /\ Configured(id) <=> effective[id] # Absent
          /\ Configured(id) => SameConnectionClientConfig(connections[id], effective[id])
    BY DEF Changed
  <1>6. \A id \in changed : clients[id] # None => clients[id] \in retired
    OBVIOUS
  <1>7. retired \subseteq Generations
    BY <1>1 DEF TypeOK
  <1> HIDE DEF effective, changed, retired
  <1>8. /\ call'[p].pc = "apply_next" /\ call'[p].todo = retired /\ call'[p].after = "idle"
        /\ \A q \in Callers : q # p => call'[q] = call[q]
    BY <1>1, <1>3, <1>7, SweepFacts, BecomeFacts DEF Labels
  <1>9. Unmoved
    BY <1>1, <1>3, UnmovedRetire
  <1>10. \A id \in Ids : clients[id] # None => clients[id] \in Generations
    BY <1>1 DEF TypeOK
  <1>11. staged'.desired = d /\ staged'.connections = effective /\ staged'.changed = changed
    BY <1>3
  <1>12. Created'
    <2>1. \A q \in Callers : call[q].pc \in Starting => q # p /\ call[q].at \in Generations
      BY <1>3 DEF IInv, References, OnSlot, Starting
    <2>2. "apply_next" \notin Starting
      BY DEF Starting
    <2> QED BY <1>2, <1>8, <1>9, <2>1, <2>2 DEF Created, Unmoved, Kept, Starting
  <1>13. Closure'
    <2>1. ~Closes(call'[p])
      BY <1>8 DEF Closes
    <2> QED BY <1>2, <1>3, <1>8, <1>9, <2>1 DEF Closure, Unmoved, Kept
  <1>14. Served'
    BY <1>2, <1>3, <1>9, <1>10 DEF Served, Unmoved, Kept, Configured
  <1>15. Staging'
    <2>1. ASSUME NEW q \in Callers, Applies(call'[q])
          PROVE  /\ configMu' = q
                 /\ \A id \in staged'.changed : clients'[id] # None => Tends(call'[q], clients'[id])
      <3>1. q = p
        BY <1>2, <1>3, <1>8, <2>1, RegistryAssumption DEF Staging
      <3> QED BY <1>3, <1>6, <1>8, <1>11, <3>1 DEF Tends
    <2>2. Matches(staged.desired, staged.connections)'
      BY <1>4, <1>11 DEF Matches
    <2>3. \A id \in Ids \ changed :
            /\ connections'[id] # Absent <=> effective[id] # Absent
            /\ connections'[id] # Absent => SameConnectionClientConfig(connections'[id], effective[id])
      BY <1>3, <1>5 DEF Configured
    <2>4. changing' = changed /\ changed \cap failedStarts' = {} /\ configMu' # None
      BY <1>2, <1>3, RegistryAssumption DEF Staging
    <2> QED BY <1>11, <2>1, <2>2, <2>3, <2>4 DEF Staging, Configured
  <1>16. Failures'
    <2>1. failedStarts \subseteq Ids
      BY <1>1 DEF TypeOK
    <2> QED BY <1>2, <1>3, <1>9, <1>10, <2>1 DEF Failures, Unmoved, Kept, Configured
  <1>17. Matches(desired, connections)'
    BY <1>2, <1>3 DEF Matches
  <1> QED BY <1>12, <1>13, <1>14, <1>15, <1>16, <1>17 DEF CInv

LEMMA InventoryKeeps ==
  ASSUME IInv, CInv, NEW p \in Callers,
         \/ \E native \in Snapshots : ApplyConnections(p, native)
         \/ \E overrides \in Snapshots, disabled \in SUBSET Ids :
              ApplyConnectionOverlay(p, overrides, disabled)
         \/ \E id \in Ids, profile \in Offered : UpdateConnection(p, id, profile)
         \/ \E id \in Ids : DeleteConnection(p, id)
  PROVE  CInv'
  <1>1. Snapshots \subseteq Inventory /\ Offered \subseteq Profiles
    BY RegistryAssumption DEF Snapshots, Inventory
  <1>2. desired \in Desired
    BY DEF IInv, TypeOK
  <1>3. CASE \E native \in Snapshots : ApplyConnections(p, native)
    BY <1>1, <1>2, <1>3, ApplyKeeps DEF ApplyConnections, Desired
  <1>4. CASE \E overrides \in Snapshots, disabled \in SUBSET Ids :
               ApplyConnectionOverlay(p, overrides, disabled)
    BY <1>1, <1>2, <1>4, ApplyKeeps DEF ApplyConnectionOverlay, Desired
  <1>5. CASE \E id \in Ids, profile \in Offered : UpdateConnection(p, id, profile)
    BY <1>1, <1>2, <1>5, ApplyKeeps DEF UpdateConnection, Desired, Inventory
  <1>6. CASE \E id \in Ids : DeleteConnection(p, id)
    BY <1>1, <1>2, <1>6, ApplyKeeps DEF DeleteConnection, Desired, Inventory
  <1> QED BY <1>3, <1>4, <1>5, <1>6

\* At publication no generation of a changed connection is registered.
LEMMA PublishFacts ==
  ASSUME IInv, CInv, NEW p \in Callers, ApplyPublish(p)
  PROVE  /\ configMu = p /\ configMu # None
         /\ \A id \in staged.changed : clients[id] = None
         /\ \A q \in Callers : Applies(call[q]) => q = p
  <1>1. call[p].pc = "apply_next" /\ call[p].todo = {}
    BY DEF ApplyPublish, At
  <1>2. Applies(call[p]) /\ \A g : ~Tends(call[p], g)
    BY <1>1 DEF Applies, Tends, Tearing
  <1> QED BY <1>2, RegistryAssumption DEF CInv, Staging

LEMMA ApplyPublishKeeps ==
  ASSUME IInv, CInv, NEW p \in Callers, ApplyPublish(p)
  PROVE  CInv'
  <1>1. /\ TypeOK /\ call[p].pc = "apply_next" /\ Return(p) /\ configMu' = None
        /\ UNCHANGED <<closed, closing, failedStarts, clients, slot>>
    BY DEF IInv, ApplyPublish, At
  <1>2. /\ Created /\ Closure /\ Served /\ Staging /\ Failures
        /\ Matches(desired, connections)
    BY DEF CInv
  <1>3. /\ call'[p].pc = "idle" /\ call'[p].after = "idle"
        /\ \A q \in Callers : q # p => call'[q] = call[q]
    BY <1>1, ReturnFacts
  <1>4. \/ UNCHANGED <<desired, connections>>
        \/ desired' = staged.desired /\ connections' = staged.connections
    BY DEF ApplyPublish
  <1>5. /\ configMu # None /\ \A id \in staged.changed : clients[id] = None
        /\ \A q \in Callers : Applies(call[q]) => q = p
    BY PublishFacts
  <1>6. ~Closes(call'[p]) /\ ~Applies(call'[p])
    BY <1>3 DEF Closes, Applies
  <1>7. \A id \in Ids \ staged.changed : Configured(id) =>
          /\ connections'[id] # Absent
          /\ \/ connections'[id] = connections[id]
             \/ SameConnectionClientConfig(connections[id], connections'[id])
    BY <1>2, <1>4, <1>5 DEF Staging, Configured
  <1>8. Created'
    BY <1>1, <1>2, <1>3 DEF Created, Starting
  <1>9. Closure'
    BY <1>1, <1>2, <1>3, <1>6 DEF Closure
  <1>10. Served'
    BY <1>1, <1>2, <1>5, <1>7 DEF Served, Configured, SameConnectionClientConfig
  <1>11. Staging'
    <2>1. changing' = {}
      BY <1>2, <1>5 DEF ApplyPublish, Staging
    <2> QED BY <1>1, <1>3, <1>5, <1>6, <2>1 DEF Staging
  <1>12. Failures'
    <2>1. failedStarts \subseteq Ids \ staged.changed
      BY <1>1, <1>2, <1>5 DEF Staging, TypeOK
    <2> QED BY <1>1, <1>2, <1>7, <2>1 DEF Failures, Configured
  <1>13. Matches(desired, connections)'
    BY <1>2, <1>4, <1>5 DEF Matches, Staging
  <1> QED BY <1>8, <1>9, <1>10, <1>11, <1>12, <1>13 DEF CInv

-----------------------------------------------------------------------------
(* The theorems of the second invariant.                                   *)

LEMMA InitCInv == Init => CInv
  <1> SUFFICES ASSUME Init PROVE CInv
    OBVIOUS
  <1>1. FreeSlot.id = None /\ \A g \in Generations : slot[g] = FreeSlot
    BY DEF Init, FreeSlot
  <1>2. \A p \in Callers : call[p].pc = "idle" /\ call[p].after = "idle"
    BY IdleFacts DEF Init
  <1>3. Created
    BY <1>1, <1>2 DEF Created
  <1>4. Closure
    BY <1>2 DEF Closure, Closes, Init
  <1>5. Served /\ Failures
    BY DEF Served, Failures, Init
  <1>6. Staging
    BY <1>2 DEF Staging, Applies, Init
  <1>7. \A id \in Ids : /\ desired.overrides[id] = Absent /\ desired.native[id] = Absent
                        /\ connections[id] = Absent
    BY DEF Init, EmptyDesired, NothingConfigured
  <1>8. Matches(desired, connections)
    BY <1>7 DEF Matches
  <1> QED BY <1>3, <1>4, <1>5, <1>6, <1>8 DEF CInv

LEMMA StepCInv ==
  ASSUME IInv, CInv, [Next]_vars
  PROVE  CInv'
  <1>1. ASSUME NEW p \in Callers, Begin(p)
        PROVE  CInv'
    BY <1>1, StartCreateKeeps, LookupsKeep, CloseKeeps, CloseAgainKeeps, InventoryKeeps DEF Begin
  <1>2. ASSUME NEW p \in Callers, Step(p)
        PROVE  CInv'
    BY <1>2, CreatorsKeep, StartRecordKeeps, StartOutcomesKeep, StopLookupKeeps, StopMarkKeeps,
       TeardownsKeep, StopJoinKeeps, UnregisterKeeps, StopNextKeeps, CloseReturnKeeps, LeasesKeep,
       ApplyPublishKeeps DEF Step
  <1>3. CASE UNCHANGED vars
    <2>1. UNCHANGED <<registry, inventory>> /\ Unmoved
      BY <1>3, UnmovedSlots DEF vars
    <2>2. \A q \in Callers : SameControl(call'[q], call[q]) /\ call'[q].after = call[q].after
      BY <1>3 DEF vars, SameControl
    <2> QED BY <2>1, <2>2, SameRequests
  <1> QED BY <1>1, <1>2, <1>3, LeasesKeep, CancelCallerKeeps, HookRunsKeeps DEF Next

\* What Close and inventory changes have left to do is in somebody's hands, and
\* what is published is what registered clients were built from.
THEOREM Commitments == Spec => [](IInv /\ CInv)
  <1>1. Init => IInv /\ CInv
    BY InitIInv, InitCInv
  <1>2. (IInv /\ CInv) /\ [Next]_vars => (IInv /\ CInv)'
    BY StepIInv, StepCInv
  <1> QED BY <1>1, <1>2, PTL DEF Spec

\* A client that can still be leased was built from the published client
\* configuration, however starts, stops and inventory changes interleave.
THEOREM ServesPublished == Spec => []ServesPublishedProfile
  <1>1. IInv /\ CInv => ServesPublishedProfile
    BY DEF CInv, Served, ServesPublishedProfile
  <1> QED BY <1>1, Commitments, PTL

\* The published inventory is what discovery, overrides and tombstones of the
\* same publication ask for, and no connection stays held back by a change that
\* is over, however many changes fail half way.
THEOREM PublishesDesired == Spec => []PublishedMatchesDesired
  <1>1. IInv /\ CInv => PublishedMatchesDesired
    BY DEF CInv, Staging, Matches, PublishedMatchesDesired, Configured
  <1> QED BY <1>1, Commitments, PTL

\* When Close has returned, every native client is destroyed and no lease is
\* out, for any number of generations in any phase when it began.
THEOREM CloseIsComplete == Spec => []CloseLeavesNothing
  <1>1. IInv /\ CInv => CloseLeavesNothing
    <2> SUFFICES ASSUME IInv, CInv, closing = "done", NEW g \in Generations
                 PROVE  ~Alive(g) /\ slot[g].users = {}
      BY DEF CloseLeavesNothing
    <2>1. slot[g].id # None => slot[g].destroy = "done"
      BY DEF CInv, Closure
    <2>2. slot[g].destroy = "done" => slot[g].client \in {"none", "destroyed"}
      BY DEF IInv, SlotPhases
    <2>3. slot[g].id = None => slot[g].client = "none"
      BY RegistryAssumption DEF IInv, SlotPhases
    <2>4. slot[g].users # {} => slot[g].client = "live"
      BY DEF IInv, SlotPhases
    <2> QED BY <2>1, <2>2, <2>3, <2>4 DEF Alive
  <1> QED BY <1>1, Commitments, PTL

\* What GetConnectionStatus reports is true of the registry.
THEOREM StatusTruth == Spec => []StatusIsTruthful
  <1>1. IInv /\ CInv => StatusIsTruthful
    <2> SUFFICES ASSUME IInv, CInv, NEW id \in Ids
                 PROVE  LET g == clients[id]
                            status == GetConnectionStatus(id)
                        IN /\ status = "CONNECTED" =>
                                /\ slot[g].client = "live" /\ ~TornDown(g)
                                /\ SameConnectionClientConfig(slot[g].profile, connections[id])
                           /\ status = "PENDING" =>
                                \E p \in Callers : call[p].at = g /\ call[p].pc \in Starting
                           /\ id \in failedStarts => status = "FAILED" /\ (g # None => slot[g].err)
      BY DEF StatusIsTruthful
    <2> DEFINE g == clients[id]
               status == GetConnectionStatus(id)
               current == g # None /\ ~slot[g].stopping /\ id \notin changing /\ ~slot[g].cancelled
    <2>1. g # None => g \in Generations /\ slot[g].id = id
      BY DEF IInv, TypeOK, Registration
    <2>2. /\ status = "CONNECTED" => current /\ slot[g].ready /\ ~slot[g].err
          /\ status = "PENDING" => current /\ ~slot[g].ready
          /\ Configured(id) /\ id \in failedStarts => status = "FAILED"
      BY DEF GetConnectionStatus
    <2>3. id \in failedStarts => Configured(id) /\ (g # None => slot[g].err)
      BY DEF CInv, Failures
    <2> HIDE DEF status
    <2>4. ASSUME status = "CONNECTED"
          PROVE  /\ slot[g].client = "live" /\ ~TornDown(g)
                 /\ SameConnectionClientConfig(slot[g].profile, connections[id])
      <3>1. g \in Generations /\ slot[g].ready /\ ~slot[g].err /\ ~slot[g].stopping
        BY <2>1, <2>2, <2>4
      <3>2. slot[g].destroy = "fresh"
        BY <3>1 DEF IInv, TypeOK, Slots, SlotPhases
      <3>3. slot[g].client = "live"
        BY <3>1, <3>2 DEF IInv, SlotPhases
      <3>4. ~TornDown(g)
        BY <3>2, <3>3 DEF IInv, Teardown, Tearing, TornDown
      <3>5. SameConnectionClientConfig(slot[g].profile, connections[id])
        BY <2>2, <2>4 DEF CInv, Served
      <3> QED BY <3>3, <3>4, <3>5
    <2>5. ASSUME status = "PENDING"
          PROVE  \E p \in Callers : call[p].at = g /\ call[p].pc \in Starting
      BY <2>1, <2>2, <2>5, RegistryAssumption DEF CInv, Created
    <2> QED BY <2>2, <2>3, <2>4, <2>5 DEF status
  <1> QED BY <1>1, Commitments, PTL

\* Only the end of applyInventory changes what is published.
LEMMA OnlyPublish ==
  ASSUME [Next]_vars
  PROVE  connections' = connections \/ \E p \in Callers : ApplyPublish(p)
  <1>1. ASSUME NEW p \in Callers, Begin(p) PROVE connections' = connections
    BY <1>1 DEF Begin, StartCreate, StartJoin, StopConnection, LeaseLookup, Close, CloseAgain,
       ApplyConnections, ApplyConnectionOverlay, UpdateConnection, DeleteConnection, Apply, registry
  <1>2. ASSUME NEW p \in Callers, Step(p), ~ApplyPublish(p) PROVE connections' = connections
    BY <1>2 DEF Step, CreateReturn, OnStartReturn, StartRecord, StartReady, StartObserve, StartAbandon,
       StartAccept, StopLookup, StopMark, StopRun, StopJoin, Drain, OnStopReturn, DestroyReturn,
       Unregister, CloseJoined, StopNext, CloseReturn, LeaseAbandon, LeaseAdmit, NestedReturn,
       LeaseReturn, registry
  <1> QED BY <1>1, <1>2 DEF Next, LeaseNested, CancelCaller, HookRuns, vars, registry

\* Publication never overtakes draining, for any number of retired slots.
THEOREM DrainFirst == Spec => DrainBeforePublish
  <1>1. ASSUME IInv, CInv, [Next]_vars, NEW g \in Generations, Alive(g),
               connections'[slot[g].id] # connections[slot[g].id]
        PROVE  /\ connections'[slot[g].id] # Absent
               /\ SameConnectionClientConfig(slot[g].profile, connections'[slot[g].id])
    <2> DEFINE id == slot[g].id
    <2>1. PICK p \in Callers : ApplyPublish(p)
      BY <1>1, OnlyPublish
    <2>2. connections' = staged.connections
      BY <1>1, <2>1 DEF ApplyPublish
    <2>3. id \in Ids /\ slot[g].destroy # "done" /\ id # None
      BY <1>1, RegistryAssumption DEF IInv, SlotPhases, Alive
    <2>4. clients[id] = g /\ g # None
      BY <1>1, <2>3, RegistryAssumption DEF IInv, Registration
    <2>5. /\ Configured(id) /\ SameConnectionClientConfig(slot[g].profile, connections[id])
      BY <1>1, <2>3, <2>4 DEF CInv, Served
    <2>6. id \notin staged.changed /\ configMu # None
      BY <1>1, <2>1, <2>4, PublishFacts
    <2>7. /\ staged.connections[id] # Absent
          /\ SameConnectionClientConfig(connections[id], staged.connections[id])
      BY <1>1, <2>3, <2>5, <2>6 DEF CInv, Staging
    <2> QED BY <2>2, <2>5, <2>7 DEF SameConnectionClientConfig
  <1>2. (IInv /\ CInv) /\ [Next]_vars =>
          [\A g \in Generations :
             LET id == slot[g].id IN
             Alive(g) /\ connections'[id] # connections[id]
               => connections'[id] # Absent /\ SameConnectionClientConfig(slot[g].profile, connections'[id])]_vars
    BY <1>1
  <1> QED BY <1>2, Commitments, PTL DEF Spec, DrainBeforePublish
=============================================================================
