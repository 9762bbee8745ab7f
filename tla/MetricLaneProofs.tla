-------------------------- MODULE MetricLaneProofs --------------------------
(***************************************************************************)
(* Theorems about MetricLane for any set of lanes, any finite sets of      *)
(* subscription IDs and any sizes and limits.                              *)
(***************************************************************************)
EXTENDS MetricLane, FiniteSetTheorems, TLAPS

-----------------------------------------------------------------------------
(* The inductive invariant.                                                *)

Commands == {"subscribe", "unsubscribe"} \X Ids
Outputs == [id : Ids, kind : {"result", "error", "rejection"}]

LaneRecords ==
  [ctx : {"live", "ended"}, input : {"open", "closed"}, lease : {"none", "held", "released"},
   filter : {"idle", "read", "pass", "reject", "end"}, message : Commands \cup {None},
   loop : {"read", "handle", "wait", "closed"}, command : Commands \cup {None},
   forward : {"receive", "admit", "send", "end"}, output : Outputs \cup {None}]

PollRecords ==
  [pc : {"none", "poll", "query", "send", "wait", "end"}, live : BOOLEAN,
   kind : {"result", "error", None}]

\* What the pollers of a lane send: their IDs have been recorded.
Polled(l) == [id : Used(l), kind : {"result", "error"}]

TypeOK ==
  /\ lane \in [Lanes -> LaneRecords]
  /\ admission \in [Lanes -> [Ids -> Bindings \cup {None}]]
  /\ retained \in [Lanes -> Nat]
  /\ subscriptions \subseteq Keys
  /\ poll \in [Keys -> PollRecords]
  /\ native \in [Lanes -> Seq([id : Ids, kind : {"result", "error"}])]
  /\ \A l \in Lanes : native[l] \in Seq(Polled(l))
  /\ catalog \in {0, 1}
  /\ late \in [Keys -> [retired : Nat, stale : Nat]]

Active(l, i) == admission[l][i] # None /\ admission[l][i].active

\* What the goroutines of a lane hold.  A subscription on its way to the loop
\* has been recorded, and so has the ID of an output that is not a rejection.
Holds(l) ==
  LET r == lane[l] IN
  /\ r.filter = "pass" =>
       /\ r.message \in Commands
       /\ r.message[1] = "subscribe" => admission[l][r.message[2]] # None
  /\ r.filter = "reject" => r.message \in Commands
  /\ r.loop = "handle" =>
       /\ r.command \in Commands
       /\ r.command[1] = "subscribe" => admission[l][r.command[2]] # None
  /\ r.forward \in {"admit", "send"} =>
       /\ r.output \in Outputs
       /\ r.output.kind # "rejection" => admission[l][r.output.id] # None
  /\ r.ctx = "live" /\ r.filter # "end" => r.loop \in {"read", "handle"}

\* Of an output that passed the fences none was late before.
InTime(l) ==
  LET r == lane[l] IN
  r.forward = "send" /\ r.output.kind # "rejection" =>
    /\ late[<<l, r.output.id>>].retired = 0
    /\ r.output.kind = "result" => late[<<l, r.output.id>>].stale = 0

\* A binding, its poller and what was delivered late for it.
Slot(l, i) ==
  LET b == admission[l][i]
      k == <<l, i>> IN
  /\ poll[k].pc # "none" => b # None
  /\ poll[k].pc = "send" => poll[k].kind \in {"result", "error"}
  /\ b # None => (b.active => b.bytes = Full) /\ (b.revision = 1 => catalog = 1)
  /\ b = None \/ b.active => late[k].retired = 0
  /\ b = None \/ (b.active /\ b.revision \in {None, catalog}) => late[k].stale = 0
  /\ late[k].retired <= 1 /\ late[k].stale <= 1

\* What the last command for an ID asks for: the command that the filter holds,
\* else the one that the loop holds, else what the loop has done.
Wanted(l, i) ==
  LET r == lane[l] IN
  IF r.filter = "pass" /\ r.message[2] = i THEN r.message[1] = "subscribe"
    ELSE IF r.loop = "handle" /\ r.command[2] = i THEN r.command[1] = "subscribe"
    ELSE <<l, i>> \in subscriptions /\ poll[<<l, i>>].live

Follows(l) ==
  lane[l].ctx = "live" /\ lane[l].filter # "end" => \A i \in Ids : Active(l, i) <=> Wanted(l, i)

Actives(l) == {i \in Ids : Active(l, i)}
Tombstones(l) == {i \in Ids : admission[l][i] # None /\ ~admission[l][i].active}

Accounted(l) ==
  /\ retained[l] = Full * Cardinality(Actives(l)) + Compact * Cardinality(Tombstones(l))
  /\ retained[l] <= MaxBytes

IInv ==
  /\ TypeOK
  /\ \A l \in Lanes : Holds(l) /\ InTime(l) /\ Follows(l) /\ Accounted(l)
  /\ \A l \in Lanes, i \in Ids : Slot(l, i)

-----------------------------------------------------------------------------
(* Facts about the state.                                                  *)

LEMMA LaneFacts ==
  ASSUME TypeOK, NEW l \in Lanes, NEW r \in LaneRecords, SetLane(l, r)
  PROVE  /\ lane' \in [Lanes -> LaneRecords]
         /\ lane'[l] = r
         /\ \A m \in Lanes : m # l => lane'[m] = lane[m]
  BY DEF TypeOK, SetLane

LEMMA KeyFacts ==
  ASSUME NEW l \in Lanes, NEW i \in Ids
  PROVE  /\ <<l, i>> \in Keys /\ <<l, i>>[1] = l /\ <<l, i>>[2] = i
         /\ \A m, j : <<m, j>> = <<l, i>> <=> m = l /\ j = i
  BY DEF Keys

LEMMA CommandFacts ==
  ASSUME NEW c \in Commands
  PROVE  c[1] \in {"subscribe", "unsubscribe"} /\ c[2] \in Ids
  BY DEF Commands

LEMMA BindingFacts ==
  ASSUME TypeOK, NEW l \in Lanes, NEW i \in Ids
  PROVE  /\ admission[l] \in [Ids -> Bindings \cup {None}]
         /\ admission[l][i] # None =>
              /\ admission[l][i] \in Bindings
              /\ admission[l][i].active \in BOOLEAN
              /\ admission[l][i].revision \in {0, 1, None}
  BY DEF TypeOK, Bindings

LEMMA UsedFacts ==
  ASSUME TypeOK, NEW l \in Lanes
  PROVE  /\ Used(l) = Actives(l) \cup Tombstones(l)
         /\ Actives(l) = {i \in Used(l) : admission[l][i].active}
         /\ Tombstones(l) = {i \in Used(l) : ~admission[l][i].active}
         /\ IsFiniteSet(Used(l)) /\ IsFiniteSet(Actives(l)) /\ IsFiniteSet(Tombstones(l))
         /\ Cardinality(Actives(l)) \in Nat /\ Cardinality(Tombstones(l)) \in Nat
  <1>1. /\ Used(l) = Actives(l) \cup Tombstones(l)
        /\ Actives(l) = {i \in Used(l) : admission[l][i].active}
        /\ Tombstones(l) = {i \in Used(l) : ~admission[l][i].active}
    BY DEF Used, Actives, Tombstones, Active
  <1>2. Used(l) \subseteq Ids /\ Actives(l) \subseteq Ids /\ Tombstones(l) \subseteq Ids
    BY DEF Used, Actives, Tombstones
  <1>3. IsFiniteSet(Used(l)) /\ IsFiniteSet(Actives(l)) /\ IsFiniteSet(Tombstones(l))
    BY <1>2, MetricAssumption, FS_Subset
  <1> QED BY <1>1, <1>3, FS_CardinalityType

\* A sequence of elements of a set is one of elements of a larger set.
LEMMA SeqMonotone ==
  ASSUME NEW S, NEW T, S \subseteq T, NEW q \in Seq(S)
  PROVE  q \in Seq(T)
  OBVIOUS

-----------------------------------------------------------------------------
(* What steps that leave most of the state alone preserve.                 *)

\* A step of one lane's goroutines that changes nothing but what they hold.
LEMMA LaneFrame ==
  ASSUME IInv, NEW l \in Lanes, NEW r \in LaneRecords, SetLane(l, r),
         UNCHANGED <<admitted, polled, late, catalog>>,
         Holds(l)', InTime(l)', Follows(l)'
  PROVE  IInv'
  <1>0. TypeOK BY DEF IInv
  <1>1. /\ lane' \in [Lanes -> LaneRecords] /\ lane'[l] = r
        /\ \A m \in Lanes : m # l => lane'[m] = lane[m]
    BY <1>0, LaneFacts
  <1>2. TypeOK'
    BY <1>0, <1>1 DEF TypeOK, admitted, polled, Polled, Used
  <1>3. ASSUME NEW m \in Lanes PROVE Holds(m)' /\ InTime(m)' /\ Follows(m)'
    <2>1. CASE m = l BY <2>1
    <2>2. CASE m # l
      BY <1>1, <2>2 DEF IInv, Holds, InTime, Follows, Wanted, Active, admitted, polled
    <2> QED BY <2>1, <2>2
  <1>4. \A m \in Lanes : Accounted(m)'
    BY DEF IInv, Accounted, Actives, Tombstones, Active, admitted
  <1>5. \A m \in Lanes, i \in Ids : Slot(m, i)'
    BY DEF IInv, Slot, admitted, polled
  <1> QED BY <1>2, <1>3, <1>4, <1>5 DEF IInv

\* The same, when the step does not touch what the loop and the filter hold.
LEMMA CalmFrame ==
  ASSUME IInv, NEW l \in Lanes, NEW r \in LaneRecords, SetLane(l, r),
         UNCHANGED <<admitted, polled, late, catalog>>,
         r.message = lane[l].message, r.loop = lane[l].loop, r.command = lane[l].command,
         r.filter = lane[l].filter, r.ctx \in {lane[l].ctx, "ended"},
         \/ r.forward = lane[l].forward /\ r.output = lane[l].output
         \/ r.forward \in {"receive", "end"}
  PROVE  IInv'
  <1>0. TypeOK /\ Holds(l) /\ InTime(l) /\ Follows(l) BY DEF IInv
  <1>1. lane'[l] = r
    BY <1>0, LaneFacts
  <1>2. Holds(l)'
    BY <1>0, <1>1 DEF Holds, admitted
  <1>3. InTime(l)'
    BY <1>0, <1>1 DEF InTime
  <1>4. Follows(l)'
    BY <1>0, <1>1 DEF Follows, Wanted, Active, admitted, polled
  <1> QED BY <1>2, <1>3, <1>4, LaneFrame

-----------------------------------------------------------------------------
(* Opening a lane, and what happens to it from outside.                    *)

LEMMA OpenStep ==
  ASSUME IInv, NEW l \in Lanes, Open(l)
  PROVE  IInv'
  <1> DEFINE a == [lane[l] EXCEPT !.ctx = "ended", !.filter = "end", !.loop = "closed",
                                  !.forward = "end"]
             b == [lane[l] EXCEPT !.filter = "read",
                                  !.lease = IF l \in Leased THEN "held" ELSE "none"]
  <1>0. /\ TypeOK /\ Holds(l) /\ InTime(l) /\ Follows(l) /\ lane[l].filter = "idle"
        /\ lane[l] \in LaneRecords /\ UNCHANGED <<admitted, polled, late, catalog>>
    BY DEF IInv, Open, outside, TypeOK
  <1>1. /\ a \in LaneRecords /\ a.ctx = "ended" /\ a.filter = "end" /\ a.loop = "closed"
        /\ a.forward = "end"
    BY <1>0 DEF LaneRecords
  <1>2. /\ b \in LaneRecords /\ b.filter = "read" /\ b.ctx = lane[l].ctx
        /\ b.loop = lane[l].loop /\ b.command = lane[l].command
        /\ b.forward = lane[l].forward /\ b.output = lane[l].output
    <2>1. (IF l \in Leased THEN "held" ELSE "none") \in {"none", "held", "released"}
      OBVIOUS
    <2> QED BY <1>0, <2>1 DEF LaneRecords
  <1>3. SetLane(l, a) \/ SetLane(l, b)
    BY DEF Open
  <1> HIDE DEF a, b
  <1>4. CASE SetLane(l, a)
    <2>1. lane'[l] = a
      BY <1>0, <1>1, <1>4, LaneFacts
    <2>2. Holds(l)' /\ InTime(l)' /\ Follows(l)'
      BY <1>1, <2>1 DEF Holds, InTime, Follows
    <2> QED BY <1>0, <1>1, <1>4, <2>2, LaneFrame
  <1>5. CASE SetLane(l, b)
    <2>1. lane'[l] = b
      BY <1>0, <1>2, <1>5, LaneFacts
    <2>2. Holds(l)' /\ InTime(l)'
      BY <1>0, <1>2, <2>1 DEF Holds, InTime, admitted
    <2>3. Follows(l)'
      BY <1>0, <1>2, <2>1 DEF Follows, Wanted, Active, admitted, polled
    <2> QED BY <1>0, <1>2, <1>5, <2>2, <2>3, LaneFrame
  <1> QED BY <1>3, <1>4, <1>5

LEMMA OutsideStep ==
  ASSUME IInv, NEW l \in Lanes, EndRequest(l) \/ CloseInput(l) \/ ReleaseLease(l) \/ EndForward(l)
  PROVE  IInv'
  <1>0. TypeOK /\ lane[l] \in LaneRecords
    BY DEF IInv, TypeOK
  <1>1. CASE EndRequest(l)
    <2> DEFINE r == [lane[l] EXCEPT !.ctx = "ended"]
    <2>1. /\ r \in LaneRecords /\ r.message = lane[l].message /\ r.loop = lane[l].loop
          /\ r.command = lane[l].command /\ r.filter = lane[l].filter /\ r.ctx = "ended"
          /\ r.forward = lane[l].forward /\ r.output = lane[l].output
      BY <1>0 DEF LaneRecords
    <2>2. SetLane(l, r) /\ UNCHANGED <<admitted, polled, late, catalog>>
      BY <1>1 DEF EndRequest
    <2> HIDE DEF r
    <2> QED BY <2>1, <2>2, CalmFrame
  <1>2. CASE CloseInput(l)
    <2> DEFINE r == [lane[l] EXCEPT !.input = "closed"]
    <2>1. /\ r \in LaneRecords /\ r.message = lane[l].message /\ r.loop = lane[l].loop
          /\ r.command = lane[l].command /\ r.filter = lane[l].filter /\ r.ctx = lane[l].ctx
          /\ r.forward = lane[l].forward /\ r.output = lane[l].output
      BY <1>0 DEF LaneRecords
    <2>2. SetLane(l, r) /\ UNCHANGED <<admitted, polled, late, catalog>>
      BY <1>2 DEF CloseInput
    <2> HIDE DEF r
    <2> QED BY <2>1, <2>2, CalmFrame
  <1>3. CASE ReleaseLease(l)
    <2> DEFINE r == [lane[l] EXCEPT !.lease = "released"]
    <2>1. /\ r \in LaneRecords /\ r.message = lane[l].message /\ r.loop = lane[l].loop
          /\ r.command = lane[l].command /\ r.filter = lane[l].filter /\ r.ctx = lane[l].ctx
          /\ r.forward = lane[l].forward /\ r.output = lane[l].output
      BY <1>0 DEF LaneRecords
    <2>2. SetLane(l, r) /\ UNCHANGED <<admitted, polled, late, catalog>>
      BY <1>3 DEF ReleaseLease, outside
    <2> HIDE DEF r
    <2> QED BY <2>1, <2>2, CalmFrame
  <1>4. CASE EndForward(l)
    <2> DEFINE r == [lane[l] EXCEPT !.forward = "end", !.output = None, !.ctx = "ended"]
    <2>1. /\ r \in LaneRecords /\ r.message = lane[l].message /\ r.loop = lane[l].loop
          /\ r.command = lane[l].command /\ r.filter = lane[l].filter /\ r.ctx = "ended"
          /\ r.forward = "end"
      BY <1>0 DEF LaneRecords
    <2>2. SetLane(l, r) /\ UNCHANGED <<admitted, polled, late, catalog>>
      BY <1>4 DEF EndForward, outside
    <2> HIDE DEF r
    <2> QED BY <2>1, <2>2, CalmFrame
  <1> QED BY <1>1, <1>2, <1>3, <1>4

LEMMA RetireStep ==
  ASSUME IInv, Retire
  PROVE  IInv'
  <1>0. TypeOK /\ UNCHANGED <<admitted, polled, late, catalog>>
    BY DEF IInv, Retire
  <1>1. ASSUME NEW l \in Lanes
        PROVE  LET r == [lane[l] EXCEPT !.ctx = "ended"] IN
               /\ r \in LaneRecords /\ r.message = lane[l].message /\ r.loop = lane[l].loop
               /\ r.command = lane[l].command /\ r.filter = lane[l].filter /\ r.ctx = "ended"
               /\ r.forward = lane[l].forward /\ r.output = lane[l].output
    <2>1. lane[l] \in LaneRecords
      BY <1>0 DEF TypeOK
    <2> QED BY <2>1 DEF LaneRecords
  <1>2. lane' = [l \in Lanes |->
                   IF lane[l].lease = "held" THEN [lane[l] EXCEPT !.ctx = "ended"] ELSE lane[l]]
    BY DEF Retire
  <1>3. /\ lane' \in [Lanes -> LaneRecords]
        /\ \A l \in Lanes :
             /\ lane'[l].message = lane[l].message /\ lane'[l].loop = lane[l].loop
             /\ lane'[l].command = lane[l].command /\ lane'[l].filter = lane[l].filter
             /\ lane'[l].ctx \in {lane[l].ctx, "ended"}
             /\ lane'[l].forward = lane[l].forward /\ lane'[l].output = lane[l].output
    BY <1>0, <1>1, <1>2 DEF TypeOK
  <1>4. TypeOK'
    BY <1>0, <1>3 DEF TypeOK, admitted, polled, Polled, Used
  <1>5. \A l \in Lanes : Holds(l)' /\ InTime(l)'
    BY <1>0, <1>3 DEF IInv, Holds, InTime, admitted
  <1>6. \A l \in Lanes : Follows(l)'
    BY <1>0, <1>3 DEF IInv, Follows, Wanted, Active, admitted, polled
  <1>7. \A l \in Lanes : Accounted(l)'
    BY <1>0 DEF IInv, Accounted, Actives, Tombstones, Active, admitted
  <1>8. \A l \in Lanes, i \in Ids : Slot(l, i)'
    BY <1>0 DEF IInv, Slot, admitted, polled
  <1> QED BY <1>4, <1>5, <1>6, <1>7, <1>8 DEF IInv

\* A reference to the old catalog is not one to the new catalog.
LEMMA CatalogStep ==
  ASSUME IInv, ChangeCatalog
  PROVE  IInv'
  <1>0. /\ TypeOK /\ catalog = 0 /\ catalog' = 1
        /\ UNCHANGED <<lane, admitted, polled, late>>
    BY DEF IInv, ChangeCatalog
  <1>1. TypeOK'
    BY <1>0 DEF TypeOK, admitted, polled, Polled, Used
  <1>2. \A l \in Lanes : Holds(l)' /\ InTime(l)'
    BY <1>0 DEF IInv, Holds, InTime, admitted
  <1>3. \A l \in Lanes : Follows(l)'
    BY <1>0 DEF IInv, Follows, Wanted, Active, admitted, polled
  <1>4. \A l \in Lanes : Accounted(l)'
    BY <1>0 DEF IInv, Accounted, Actives, Tombstones, Active, admitted
  <1>5. ASSUME NEW l \in Lanes, NEW i \in Ids PROVE Slot(l, i)'
    <2>1. /\ Slot(l, i)
          /\ admission[l][i] # None => admission[l][i].revision \in {0, 1, None}
      BY <1>0, BindingFacts DEF IInv
    <2> QED BY <1>0, <2>1, MetricAssumption DEF Slot, admitted, polled
  <1> QED BY <1>1, <1>2, <1>3, <1>4, <1>5 DEF IInv

-----------------------------------------------------------------------------
(* filterStream.                                                           *)

\* One binding of a lane is replaced, and with it what the lane holds.
LEMMA BindingFrame ==
  ASSUME IInv, NEW l \in Lanes, NEW i \in Ids, NEW b \in Bindings,
         admission' = [admission EXCEPT ![l][i] = b],
         NEW r \in LaneRecords, SetLane(l, r),
         UNCHANGED <<polled, late, catalog>>,
         retained' \in [Lanes -> Nat],
         \A m \in Lanes : m # l => retained'[m] = retained[m],
         Accounted(l)', Holds(l)', InTime(l)', Follows(l)', Slot(l, i)'
  PROVE  IInv'
  <1>0. TypeOK BY DEF IInv
  <1>1. /\ lane' \in [Lanes -> LaneRecords] /\ lane'[l] = r
        /\ \A m \in Lanes : m # l => lane'[m] = lane[m]
    BY <1>0, LaneFacts
  <1>2. /\ admission' \in [Lanes -> [Ids -> Bindings \cup {None}]]
        /\ admission'[l][i] = b
        /\ \A j \in Ids : j # i => admission'[l][j] = admission[l][j]
        /\ \A m \in Lanes : m # l => admission'[m] = admission[m]
    BY <1>0 DEF TypeOK
  <1>3. b # None
    BY MetricAssumption
  <1>4. ASSUME NEW m \in Lanes PROVE Used(m) \subseteq Used(m)'
    BY <1>2, <1>3 DEF Used
  <1>5. ASSUME NEW m \in Lanes PROVE native'[m] \in Seq(Polled(m)')
    <2>1. Polled(m) \subseteq Polled(m)'
      BY <1>4 DEF Polled
    <2>2. native'[m] = native[m] /\ native[m] \in Seq(Polled(m))
      BY <1>0 DEF polled, TypeOK
    <2> HIDE DEF Polled
    <2> QED BY <2>1, <2>2, SeqMonotone
  <1>6. TypeOK'
    <2>1. \A m \in Lanes : native'[m] \in Seq(Polled(m))'
      BY <1>5
    <2> QED BY <1>0, <1>1, <1>2, <2>1 DEF TypeOK, polled
  <1>7. ASSUME NEW m \in Lanes PROVE Holds(m)' /\ InTime(m)' /\ Follows(m)' /\ Accounted(m)'
    <2>1. CASE m = l BY <2>1
    <2>2. CASE m # l
      <3>1. Holds(m)' /\ InTime(m)'
        BY <1>1, <1>2, <2>2 DEF IInv, Holds, InTime
      <3>2. Follows(m)'
        BY <1>1, <1>2, <2>2 DEF IInv, Follows, Wanted, Active, polled
      <3>3. Accounted(m)'
        <4>1. Actives(m)' = Actives(m) /\ Tombstones(m)' = Tombstones(m)
          BY <1>2, <2>2 DEF Actives, Tombstones, Active
        <4> QED BY <2>2, <4>1 DEF IInv, Accounted
      <3> QED BY <3>1, <3>2, <3>3
    <2> QED BY <2>1, <2>2
  <1>8. ASSUME NEW m \in Lanes, NEW j \in Ids PROVE Slot(m, j)'
    <2>1. CASE m = l /\ j = i BY <2>1
    <2>2. CASE ~(m = l /\ j = i)
      <3>1. admission'[m][j] = admission[m][j]
        BY <1>2, <2>2
      <3> QED BY <3>1 DEF IInv, Slot, polled
    <2> QED BY <2>1, <2>2
  <1> QED BY <1>6, <1>7, <1>8 DEF IInv

\* An admitted binding adds its bytes.
LEMMA RecordFacts ==
  ASSUME IInv, NEW l \in Lanes, NEW i \in Ids, NEW r \in {0, 1, None},
         Admissible(l, i, r), Record(l, i, r)
  PROVE  /\ retained' \in [Lanes -> Nat]
         /\ \A m \in Lanes : m # l => retained'[m] = retained[m]
         /\ Accounted(l)'
  <1> DEFINE b == [active |-> TRUE, revision |-> r, bytes |-> Full]
             n == Cardinality(Actives(l))
             t == Cardinality(Tombstones(l))
  <1>0. /\ TypeOK /\ retained[l] \in Nat /\ retained[l] = Full * n + Compact * t
        /\ Full \in Nat /\ Compact \in Nat /\ MaxBytes \in Nat
    <2>1. TypeOK /\ Accounted(l)
      BY DEF IInv
    <2>2. retained[l] \in Nat
      BY <2>1 DEF TypeOK
    <2> QED BY <2>1, <2>2, MetricAssumption DEF Accounted
  <1>1. n \in Nat /\ t \in Nat /\ IsFiniteSet(Actives(l))
    BY <1>0, UsedFacts
  <1>2. b \in Bindings /\ b.active
    BY DEF Bindings
  <1>3. /\ admission'[l][i] = b
        /\ \A j \in Ids : j # i => admission'[l][j] = admission[l][j]
        /\ admission[l][i] = None
    BY <1>0 DEF Record, TypeOK, Admissible, Used
  <1> HIDE DEF b
  <1>4. Actives(l)' = Actives(l) \cup {i} /\ i \notin Actives(l)
    BY <1>2, <1>3, MetricAssumption DEF Actives, Active
  <1>5. Tombstones(l)' = Tombstones(l)
    BY <1>2, <1>3 DEF Tombstones
  <1>6. Cardinality(Actives(l)') = n + 1
    BY <1>1, <1>4, FS_AddElement
  <1>7. /\ retained' = [retained EXCEPT ![l] = retained[l] + Full]
        /\ retained[l] + Full <= MaxBytes
    BY <1>0 DEF Record, Admissible
  <1>8. Full * (n + 1) = Full * n + Full
    BY <1>0, <1>1
  <1>9. retained'[l] = Full * (n + 1) + Compact * t /\ retained'[l] <= MaxBytes
    <2>1. retained'[l] = retained[l] + Full
      BY <1>0, <1>7 DEF TypeOK
    <2>2. Full * n \in Nat /\ Compact * t \in Nat
      BY <1>0, <1>1
    <2> QED BY <1>0, <1>7, <1>8, <2>1, <2>2
  <1>10. Accounted(l)'
    BY <1>5, <1>6, <1>9 DEF Accounted
  <1>11. retained' \in [Lanes -> Nat] /\ \A m \in Lanes : m # l => retained'[m] = retained[m]
    BY <1>0, <1>7 DEF TypeOK
  <1> QED BY <1>10, <1>11

\* A retired binding keeps the bytes of its tombstone.
LEMMA RetainFacts ==
  ASSUME IInv, NEW l \in Lanes, NEW i \in Ids, Active(l, i), Retain(l, i)
  PROVE  /\ admission' = [admission EXCEPT ![l][i] =
                            [active |-> FALSE, revision |-> None, bytes |-> Compact]]
         /\ retained' \in [Lanes -> Nat]
         /\ \A m \in Lanes : m # l => retained'[m] = retained[m]
         /\ Accounted(l)'
  <1> DEFINE b == [active |-> FALSE, revision |-> None, bytes |-> Compact]
             n == Cardinality(Actives(l))
             t == Cardinality(Tombstones(l))
  <1>0. /\ TypeOK /\ retained[l] \in Nat /\ retained[l] = Full * n + Compact * t
        /\ retained[l] <= MaxBytes
        /\ Full \in Nat /\ Compact \in Nat /\ Compact <= Full /\ MaxBytes \in Nat
    <2>1. TypeOK /\ Accounted(l)
      BY DEF IInv
    <2>2. retained[l] \in Nat
      BY <2>1 DEF TypeOK
    <2> QED BY <2>1, <2>2, MetricAssumption DEF Accounted
  <1>1. n \in Nat /\ t \in Nat /\ IsFiniteSet(Actives(l)) /\ IsFiniteSet(Tombstones(l))
    BY <1>0, UsedFacts
  <1>2. b \in Bindings /\ ~b.active
    BY DEF Bindings
  <1>3. admission[l][i].bytes = Full
    BY DEF IInv, Slot, Active
  <1>4. /\ admission' = [admission EXCEPT ![l][i] = b]
        /\ retained' = [retained EXCEPT ![l] = retained[l] - (Full - Compact)]
    BY <1>3 DEF Retain, Active
  <1>5. /\ admission'[l][i] = b
        /\ \A j \in Ids : j # i => admission'[l][j] = admission[l][j]
    BY <1>0, <1>4 DEF TypeOK
  <1> HIDE DEF b
  <1>6. Actives(l)' = Actives(l) \ {i} /\ i \in Actives(l)
    BY <1>2, <1>5 DEF Actives, Active
  <1>7. Tombstones(l)' = Tombstones(l) \cup {i} /\ i \notin Tombstones(l)
    BY <1>2, <1>5, MetricAssumption DEF Tombstones, Active
  <1>8. Cardinality(Actives(l)') = n - 1
    BY <1>1, <1>6, FS_RemoveElement
  <1>9. Cardinality(Tombstones(l)') = t + 1
    BY <1>1, <1>7, FS_AddElement
  <1>10. n - 1 \in Nat
    BY <1>1, <1>6, <1>8, FS_RemoveElement, FS_CardinalityType
  <1>11. retained'[l] = retained[l] - (Full - Compact)
    BY <1>0, <1>4 DEF TypeOK
  <1>12. Full * n = Full * (n - 1) + Full /\ Compact * (t + 1) = Compact * t + Compact
    BY <1>0, <1>1
  <1>13. Full * (n - 1) \in Nat /\ Compact * t \in Nat /\ Full * n \in Nat
    BY <1>0, <1>1, <1>10
  <1>14. /\ retained'[l] = Full * (n - 1) + Compact * (t + 1)
         /\ retained'[l] \in Nat /\ retained'[l] <= MaxBytes
    BY <1>0, <1>11, <1>12, <1>13
  <1>15. Accounted(l)'
    BY <1>8, <1>9, <1>14 DEF Accounted
  <1>16. retained' \in [Lanes -> Nat] /\ \A m \in Lanes : m # l => retained'[m] = retained[m]
    BY <1>0, <1>4, <1>11, <1>14 DEF TypeOK
  <1> QED BY <1>4, <1>15, <1>16 DEF b

LEMMA SubscribeStep ==
  ASSUME IInv, NEW l \in Lanes, NEW i \in Ids, NEW v \in {0, 1, None}, Subscribe(l, i, v)
  PROVE  IInv'
  <1> DEFINE pass == [lane[l] EXCEPT !.filter = "pass", !.message = <<"subscribe", i>>]
             reject == [lane[l] EXCEPT !.filter = "reject", !.message = <<"subscribe", i>>]
             b == [active |-> TRUE, revision |-> v, bytes |-> Full]
  <1>0. /\ TypeOK /\ Holds(l) /\ InTime(l) /\ Follows(l) /\ Slot(l, i)
        /\ lane[l] \in LaneRecords /\ lane[l].filter = "read"
        /\ UNCHANGED <<polled, late, catalog>> /\ catalog \in {0, 1}
    BY DEF IInv, TypeOK, Subscribe, Reading
  <1>1. <<"subscribe", i>> \in Commands /\ "subscribe" # "unsubscribe"
    BY DEF Commands
  <1>2. /\ pass \in LaneRecords /\ pass.filter = "pass" /\ pass.message = <<"subscribe", i>>
        /\ pass.loop = lane[l].loop /\ pass.command = lane[l].command /\ pass.ctx = lane[l].ctx
        /\ pass.forward = lane[l].forward /\ pass.output = lane[l].output
    BY <1>0, <1>1 DEF LaneRecords
  <1>3. /\ reject \in LaneRecords /\ reject.filter = "reject"
        /\ reject.message = <<"subscribe", i>>
        /\ reject.loop = lane[l].loop /\ reject.command = lane[l].command
        /\ reject.ctx = lane[l].ctx
        /\ reject.forward = lane[l].forward /\ reject.output = lane[l].output
    BY <1>0, <1>1 DEF LaneRecords
  <1>4. b \in Bindings /\ b # None /\ b.active /\ b.bytes = Full /\ b.revision = v
    <2>1. b \in Bindings /\ b.active /\ b.bytes = Full /\ b.revision = v
      BY DEF Bindings
    <2> HIDE DEF b
    <2> QED BY <2>1, MetricAssumption
  <1>a. CASE Admissible(l, i, v) /\ Record(l, i, v) /\ SetLane(l, pass)
    <2> HIDE DEF pass, reject
    <2>1. lane'[l] = pass
      BY <1>0, <1>2, <1>a, LaneFacts
    <2>2. admission' = [admission EXCEPT ![l][i] = b]
      BY <1>a DEF Record
    <2> HIDE DEF b
    <2>3. /\ admission'[l][i] = b /\ admission[l][i] = None
          /\ \A j \in Ids : j # i => admission'[l][j] = admission[l][j]
      BY <1>0, <1>a, <2>2 DEF TypeOK, Admissible, Used
    <2>4. Holds(l)' /\ InTime(l)'
      BY <1>0, <1>1, <1>2, <1>4, <2>1, <2>3, CommandFacts DEF Holds, InTime, Outputs
    <2>5. Follows(l)'
      <3> SUFFICES ASSUME lane[l].ctx = "live", NEW j \in Ids
                   PROVE  Active(l, j)' <=> Wanted(l, j)'
        BY <1>2, <2>1 DEF Follows
      <3>1. CASE j = i
        BY <1>2, <1>4, <2>1, <2>3, <3>1 DEF Active, Wanted
      <3>2. CASE j # i
        BY <1>0, <1>2, <2>1, <2>3, <3>2 DEF Follows, Active, Wanted, polled
      <3> QED BY <3>1, <3>2
    <2>6. Slot(l, i)'
      <3>1. v = 1 => catalog = 1
        BY <1>a, MetricAssumption DEF Admissible
      <3> QED BY <1>0, <1>4, <2>3, <3>1 DEF Slot, polled
    <2>7. /\ retained' \in [Lanes -> Nat]
          /\ \A m \in Lanes : m # l => retained'[m] = retained[m]
          /\ Accounted(l)'
      BY <1>a, RecordFacts
    <2> QED BY <1>0, <1>2, <1>4, <1>a, <2>2, <2>4, <2>5, <2>6, <2>7, BindingFrame
  <1>b. CASE UNCHANGED admitted /\ SetLane(l, reject)
    <2> HIDE DEF pass, reject
    <2>1. lane'[l] = reject
      BY <1>0, <1>3, <1>b, LaneFacts
    <2>2. Holds(l)' /\ InTime(l)'
      BY <1>0, <1>1, <1>3, <1>b, <2>1 DEF Holds, InTime, admitted
    <2>3. Follows(l)'
      BY <1>0, <1>3, <1>b, <2>1 DEF Follows, Active, Wanted, admitted, polled
    <2> QED BY <1>0, <1>3, <1>b, <2>2, <2>3, LaneFrame
  <1> QED BY <1>a, <1>b DEF Subscribe

LEMMA UnsubscribeStep ==
  ASSUME IInv, NEW l \in Lanes, NEW i \in Ids, Unsubscribe(l, i)
  PROVE  IInv'
  <1> DEFINE pass == [lane[l] EXCEPT !.filter = "pass", !.message = <<"unsubscribe", i>>]
             b == [active |-> FALSE, revision |-> None, bytes |-> Compact]
  <1>0. /\ TypeOK /\ Holds(l) /\ InTime(l) /\ Follows(l) /\ Slot(l, i)
        /\ lane[l] \in LaneRecords /\ lane[l].filter = "read"
        /\ UNCHANGED <<polled, late, catalog>> /\ SetLane(l, pass)
    BY DEF IInv, TypeOK, Unsubscribe, Reading
  <1>1. <<"unsubscribe", i>> \in Commands /\ "subscribe" # "unsubscribe"
    BY DEF Commands
  <1>2. /\ pass \in LaneRecords /\ pass.filter = "pass" /\ pass.message = <<"unsubscribe", i>>
        /\ pass.loop = lane[l].loop /\ pass.command = lane[l].command /\ pass.ctx = lane[l].ctx
        /\ pass.forward = lane[l].forward /\ pass.output = lane[l].output
    BY <1>0, <1>1 DEF LaneRecords
  <1>3. b \in Bindings /\ b # None /\ ~b.active /\ b.revision = None
    <2>1. b \in Bindings /\ ~b.active /\ b.revision = None
      BY DEF Bindings
    <2> HIDE DEF b
    <2> QED BY <2>1, MetricAssumption
  <1> HIDE DEF pass
  <1>4. lane'[l] = pass
    BY <1>0, <1>2, LaneFacts
  <1>a. CASE Active(l, i)
    <2>1. /\ admission' = [admission EXCEPT ![l][i] = b]
          /\ retained' \in [Lanes -> Nat]
          /\ \A m \in Lanes : m # l => retained'[m] = retained[m]
          /\ Accounted(l)'
      BY <1>a, RetainFacts DEF Unsubscribe
    <2> HIDE DEF b
    <2>2. /\ admission'[l][i] = b
          /\ \A j \in Ids : j # i => admission'[l][j] = admission[l][j]
      BY <1>0, <2>1 DEF TypeOK
    <2>3. Holds(l)' /\ InTime(l)'
      BY <1>0, <1>1, <1>2, <1>3, <1>4, <2>2, CommandFacts DEF Holds, InTime, Outputs
    <2>4. Follows(l)'
      <3> SUFFICES ASSUME lane[l].ctx = "live", NEW j \in Ids
                   PROVE  Active(l, j)' <=> Wanted(l, j)'
        BY <1>2, <1>4 DEF Follows
      <3>1. CASE j = i
        BY <1>2, <1>3, <1>4, <2>2, <3>1 DEF Active, Wanted
      <3>2. CASE j # i
        BY <1>0, <1>2, <1>4, <2>2, <3>2 DEF Follows, Active, Wanted, polled
      <3> QED BY <3>1, <3>2
    <2>5. Slot(l, i)'
      BY <1>0, <1>3, <2>2, MetricAssumption DEF Slot, polled
    <2> QED BY <1>0, <1>2, <1>3, <2>1, <2>3, <2>4, <2>5, BindingFrame
  <1>b. CASE ~Active(l, i)
    <2>1. UNCHANGED admitted
      BY <1>b DEF Unsubscribe, Retain, Active
    <2>2. Holds(l)' /\ InTime(l)'
      BY <1>0, <1>1, <1>2, <1>4, <2>1 DEF Holds, InTime, admitted
    <2>3. Follows(l)'
      <3> SUFFICES ASSUME lane[l].ctx = "live", NEW j \in Ids
                   PROVE  Active(l, j)' <=> Wanted(l, j)'
        BY <1>2, <1>4 DEF Follows
      <3>1. CASE j = i
        BY <1>2, <1>4, <1>b, <2>1, <3>1 DEF Active, Wanted, admitted
      <3>2. CASE j # i
        BY <1>0, <1>2, <1>4, <2>1, <3>2 DEF Follows, Active, Wanted, polled, admitted
      <3> QED BY <3>1, <3>2
    <2> QED BY <1>0, <1>2, <2>1, <2>2, <2>3, LaneFrame
  <1> QED BY <1>a, <1>b

LEMMA FilterStep ==
  ASSUME IInv, NEW l \in Lanes, Filter(l)
  PROVE  IInv'
  <1>0. /\ TypeOK /\ Holds(l) /\ InTime(l) /\ Follows(l) /\ lane[l] \in LaneRecords
    BY DEF IInv, TypeOK
  <1>1. CASE Pass(l)
    <2> DEFINE r == [lane[l] EXCEPT !.filter = "read", !.message = None,
                                    !.loop = "handle", !.command = lane[l].message]
    <2>1. /\ lane[l].filter = "pass" /\ lane[l].loop = "read" /\ SetLane(l, r)
          /\ UNCHANGED <<admitted, polled, late, catalog>>
      BY <1>1 DEF Pass, outside
    <2>2. /\ r \in LaneRecords /\ r.filter = "read" /\ r.loop = "handle"
          /\ r.command = lane[l].message /\ r.ctx = lane[l].ctx
          /\ r.forward = lane[l].forward /\ r.output = lane[l].output
      BY <1>0 DEF LaneRecords
    <2> HIDE DEF r
    <2>3. lane'[l] = r
      BY <1>0, <2>1, <2>2, LaneFacts
    <2>4. Holds(l)' /\ InTime(l)'
      BY <1>0, <2>1, <2>2, <2>3 DEF Holds, InTime, admitted
    <2>5. Follows(l)'
      BY <1>0, <2>1, <2>2, <2>3 DEF Follows, Active, Wanted, admitted, polled
    <2> QED BY <2>1, <2>2, <2>4, <2>5, LaneFrame
  <1>2. CASE Reject(l)
    <2> DEFINE o == [id |-> lane[l].message[2], kind |-> "rejection"]
               r == [lane[l] EXCEPT !.filter = "read", !.message = None, !.forward = "admit",
                                    !.output = o]
    <2>1. /\ lane[l].filter = "reject" /\ SetLane(l, r)
          /\ UNCHANGED <<admitted, polled, late, catalog>>
      BY <1>2 DEF Reject, outside
    <2>2. o \in Outputs /\ o.kind = "rejection"
      BY <1>0, <2>1, CommandFacts DEF Holds, Outputs
    <2> HIDE DEF o
    <2>3. /\ r \in LaneRecords /\ r.filter = "read" /\ r.loop = lane[l].loop
          /\ r.command = lane[l].command /\ r.ctx = lane[l].ctx
          /\ r.forward = "admit" /\ r.output = o
      BY <1>0, <2>2 DEF LaneRecords
    <2> HIDE DEF r
    <2>4. lane'[l] = r
      BY <1>0, <2>1, <2>3, LaneFacts
    <2>5. Holds(l)' /\ InTime(l)'
      BY <1>0, <2>1, <2>2, <2>3, <2>4 DEF Holds, InTime, admitted
    <2>6. Follows(l)'
      BY <1>0, <2>1, <2>3, <2>4 DEF Follows, Active, Wanted, admitted, polled
    <2> QED BY <2>1, <2>3, <2>5, <2>6, LaneFrame
  <1>3. CASE EndFilter(l)
    <2> DEFINE r == [lane[l] EXCEPT !.filter = "end", !.message = None]
    <2>1. SetLane(l, r) /\ UNCHANGED <<admitted, polled, late, catalog>>
      BY <1>3 DEF EndFilter, outside
    <2>2. /\ r \in LaneRecords /\ r.filter = "end" /\ r.loop = lane[l].loop
          /\ r.command = lane[l].command
          /\ r.forward = lane[l].forward /\ r.output = lane[l].output
      BY <1>0 DEF LaneRecords
    <2> HIDE DEF r
    <2>3. lane'[l] = r
      BY <1>0, <2>1, <2>2, LaneFacts
    <2>4. Holds(l)' /\ InTime(l)' /\ Follows(l)'
      BY <1>0, <2>1, <2>2, <2>3 DEF Holds, InTime, Follows, admitted
    <2> QED BY <2>1, <2>2, <2>4, LaneFrame
  <1> QED BY <1>1, <1>2, <1>3 DEF Filter

-----------------------------------------------------------------------------
(* The loop of stream().                                                   *)

\* A step of the loop changes the subscriptions of its own lane only.
LEMMA LoopFrame ==
  ASSUME IInv, NEW l \in Lanes, NEW r \in LaneRecords, SetLane(l, r),
         UNCHANGED <<admitted, native, late, catalog>>,
         subscriptions' \subseteq Keys, poll' \in [Keys -> PollRecords],
         \A m \in Lanes, j \in Ids : m # l =>
           /\ <<m, j>> \in subscriptions' <=> <<m, j>> \in subscriptions
           /\ poll'[<<m, j>>] = poll[<<m, j>>],
         \A j \in Ids : Slot(l, j)',
         Holds(l)', InTime(l)', Follows(l)'
  PROVE  IInv'
  <1>0. TypeOK BY DEF IInv
  <1>1. /\ lane' \in [Lanes -> LaneRecords] /\ lane'[l] = r
        /\ \A m \in Lanes : m # l => lane'[m] = lane[m]
    BY <1>0, LaneFacts
  <1>2. TypeOK'
    BY <1>0, <1>1 DEF TypeOK, admitted, Polled, Used
  <1>3. ASSUME NEW m \in Lanes PROVE Holds(m)' /\ InTime(m)' /\ Follows(m)'
    <2>1. CASE m = l BY <2>1
    <2>2. CASE m # l
      <3>1. Holds(m)' /\ InTime(m)'
        BY <1>1, <2>2 DEF IInv, Holds, InTime, admitted
      <3>2. Follows(m)'
        BY <1>1, <2>2 DEF IInv, Follows, Wanted, Active, admitted
      <3> QED BY <3>1, <3>2
    <2> QED BY <2>1, <2>2
  <1>4. \A m \in Lanes : Accounted(m)'
    BY DEF IInv, Accounted, Actives, Tombstones, Active, admitted
  <1>5. ASSUME NEW m \in Lanes, NEW j \in Ids PROVE Slot(m, j)'
    <2>1. CASE m = l BY <2>1
    <2>2. CASE m # l
      BY <2>2 DEF IInv, Slot, admitted
    <2> QED BY <2>1, <2>2
  <1> QED BY <1>2, <1>3, <1>4, <1>5 DEF IInv

LEMMA StopFacts ==
  ASSUME TypeOK, NEW ks, Stop(ks)
  PROVE  /\ subscriptions' = subscriptions \ ks /\ subscriptions' \subseteq Keys
         /\ poll' \in [Keys -> PollRecords]
         /\ \A k \in Keys : poll'[k].pc = poll[k].pc /\ poll'[k].kind = poll[k].kind
         /\ \A k \in Keys : k \notin ks => poll'[k] = poll[k]
  <1>1. ASSUME NEW k \in Keys
        PROVE  LET p == [poll[k] EXCEPT !.live = FALSE] IN
               p \in PollRecords /\ p.pc = poll[k].pc /\ p.kind = poll[k].kind
    <2>1. poll[k] \in PollRecords
      BY DEF TypeOK
    <2> QED BY <2>1 DEF PollRecords
  <1> QED BY <1>1 DEF Stop, TypeOK

LEMMA HandleStep ==
  ASSUME IInv, NEW l \in Lanes, HandleCommand(l)
  PROVE  IInv'
  <1> DEFINE r == [lane[l] EXCEPT !.loop = "read", !.command = None]
             c == lane[l].command
             key == <<l, c[2]>>
             p == [pc |-> "poll", live |-> TRUE, kind |-> None]
  <1>0. /\ TypeOK /\ Holds(l) /\ InTime(l) /\ Follows(l) /\ lane[l] \in LaneRecords
        /\ lane[l].loop = "handle" /\ SetLane(l, r)
        /\ UNCHANGED <<admitted, native, late, catalog>>
    BY DEF IInv, TypeOK, HandleCommand, outside
  <1>1. c \in Commands /\ c[2] \in Ids /\ c[1] \in {"subscribe", "unsubscribe"}
    BY <1>0, CommandFacts DEF Holds
  <1>2. /\ r \in LaneRecords /\ r.loop = "read" /\ r.message = lane[l].message
        /\ r.filter = lane[l].filter /\ r.ctx = lane[l].ctx
        /\ r.forward = lane[l].forward /\ r.output = lane[l].output
    BY <1>0 DEF LaneRecords
  <1>3. IF c[1] = "subscribe" THEN Start(key) ELSE Stop({key} \cap subscriptions)
    BY DEF HandleCommand
  <1>4. key \in Keys /\ \A m \in Lanes, j \in Ids : <<m, j>> \in Keys /\ (<<m, j>> = key <=> m = l /\ j = c[2])
    BY <1>1 DEF Keys
  <1> HIDE DEF r, c, key
  <1>5. lane'[l] = r
    BY <1>0, <1>2, LaneFacts
  <1>6. Holds(l)' /\ InTime(l)'
    BY <1>0, <1>2, <1>5 DEF Holds, InTime, admitted
  <1>7. \A j \in Ids : lane[l].ctx = "live" /\ lane[l].filter # "end" =>
          /\ Active(l, j)' <=> Active(l, j)
          /\ Active(l, j) <=>
               IF lane[l].filter = "pass" /\ lane[l].message[2] = j
                 THEN lane[l].message[1] = "subscribe"
                 ELSE IF c[2] = j THEN c[1] = "subscribe"
                 ELSE <<l, j>> \in subscriptions /\ poll[<<l, j>>].live
    BY <1>0 DEF Follows, Wanted, Active, admitted, c
  <1>a. CASE c[1] = "subscribe"
    <2>1. subscriptions' = subscriptions \cup {key} /\ poll' = [poll EXCEPT ![key] = p]
      BY <1>3, <1>a DEF Start
    <2>2. p \in PollRecords /\ p.live /\ p.pc = "poll"
      BY DEF PollRecords
    <2> HIDE DEF p
    <2>3. /\ poll' \in [Keys -> PollRecords] /\ poll'[key] = p
          /\ \A k \in Keys : k # key => poll'[k] = poll[k]
      BY <1>0, <1>4, <2>1, <2>2 DEF TypeOK
    <2>4. subscriptions' \subseteq Keys
      BY <1>0, <1>4, <2>1 DEF TypeOK
    <2>5. ASSUME NEW j \in Ids PROVE Slot(l, j)'
      <3>1. CASE j = c[2]
        <4>1. admission[l][c[2]] # None
          BY <1>0, <1>a DEF Holds, c
        <4>2. poll'[<<l, j>>] = p
          BY <2>3, <3>1 DEF key
        <4> QED BY <1>0, <2>2, <3>1, <4>1, <4>2 DEF IInv, Slot, admitted
      <3>2. CASE j # c[2]
        <4>1. poll'[<<l, j>>] = poll[<<l, j>>]
          BY <1>4, <2>3, <3>2
        <4> QED BY <1>0, <4>1 DEF IInv, Slot, admitted
      <3> QED BY <3>1, <3>2
    <2>6. Follows(l)'
      <3> SUFFICES ASSUME lane[l].ctx = "live", lane[l].filter # "end", NEW j \in Ids
                   PROVE  Active(l, j)' <=> Wanted(l, j)'
        BY <1>2, <1>5 DEF Follows
      <3>1. Wanted(l, j)' <=>
              IF lane[l].filter = "pass" /\ lane[l].message[2] = j
                THEN lane[l].message[1] = "subscribe"
                ELSE <<l, j>> \in subscriptions' /\ poll'[<<l, j>>].live
        BY <1>2, <1>5 DEF Wanted
      <3>2. CASE j = c[2]
        <4>1. <<l, j>> \in subscriptions' /\ poll'[<<l, j>>].live
          BY <2>1, <2>2, <2>3, <3>2 DEF key
        <4> QED BY <1>7, <1>a, <3>1, <3>2, <4>1
      <3>3. CASE j # c[2]
        <4>1. (<<l, j>> \in subscriptions' <=> <<l, j>> \in subscriptions) /\ poll'[<<l, j>>] = poll[<<l, j>>]
          BY <1>4, <2>1, <2>3, <3>3
        <4> QED BY <1>7, <3>1, <3>3, <4>1
      <3> QED BY <3>2, <3>3
    <2> QED BY <1>0, <1>2, <1>4, <1>6, <2>1, <2>3, <2>4, <2>5, <2>6, LoopFrame
  <1>b. CASE c[1] # "subscribe"
    <2>1. /\ subscriptions' = subscriptions \ ({key} \cap subscriptions)
          /\ subscriptions' \subseteq Keys
          /\ poll' \in [Keys -> PollRecords]
          /\ \A k \in Keys : poll'[k].pc = poll[k].pc /\ poll'[k].kind = poll[k].kind
          /\ \A k \in Keys : k \notin {key} \cap subscriptions => poll'[k] = poll[k]
      BY <1>0, <1>3, <1>b, StopFacts
    <2>2. \A j \in Ids : Slot(l, j)'
      BY <1>0, <1>4, <2>1 DEF IInv, Slot, admitted
    <2>3. Follows(l)'
      <3> SUFFICES ASSUME lane[l].ctx = "live", lane[l].filter # "end", NEW j \in Ids
                   PROVE  Active(l, j)' <=> Wanted(l, j)'
        BY <1>2, <1>5 DEF Follows
      <3>1. Wanted(l, j)' <=>
              IF lane[l].filter = "pass" /\ lane[l].message[2] = j
                THEN lane[l].message[1] = "subscribe"
                ELSE <<l, j>> \in subscriptions' /\ poll'[<<l, j>>].live
        BY <1>2, <1>5 DEF Wanted
      <3>2. CASE j = c[2]
        <4>1. <<l, j>> \notin subscriptions'
          BY <2>1, <3>2 DEF key
        <4> QED BY <1>7, <1>b, <3>1, <3>2, <4>1
      <3>3. CASE j # c[2]
        <4>1. (<<l, j>> \in subscriptions' <=> <<l, j>> \in subscriptions) /\ poll'[<<l, j>>] = poll[<<l, j>>]
          BY <1>4, <2>1, <3>3
        <4> QED BY <1>7, <3>1, <3>3, <4>1
      <3> QED BY <3>2, <3>3
    <2>4. \A m \in Lanes, j \in Ids : m # l =>
            /\ <<m, j>> \in subscriptions' <=> <<m, j>> \in subscriptions
            /\ poll'[<<m, j>>] = poll[<<m, j>>]
      BY <1>4, <2>1
    <2> QED BY <1>0, <1>2, <1>6, <2>1, <2>2, <2>3, <2>4, LoopFrame
  <1> QED BY <1>a, <1>b

LEMMA EndLoopStep ==
  ASSUME IInv, NEW l \in Lanes, EndLoop(l)
  PROVE  IInv'
  <1> DEFINE r == [lane[l] EXCEPT !.loop = "wait"]
             ks == {k \in subscriptions : k[1] = l}
  <1>0. /\ TypeOK /\ Holds(l) /\ InTime(l) /\ lane[l] \in LaneRecords
        /\ lane[l].ctx = "ended" \/ lane[l].filter = "end"
        /\ SetLane(l, r) /\ Stop(ks) /\ UNCHANGED <<admitted, native, late, catalog>>
    BY DEF IInv, TypeOK, EndLoop, LoopMayEnd, Ended, outside
  <1>1. /\ r \in LaneRecords /\ r.loop = "wait" /\ r.message = lane[l].message
        /\ r.filter = lane[l].filter /\ r.ctx = lane[l].ctx
        /\ r.forward = lane[l].forward /\ r.output = lane[l].output
    BY <1>0 DEF LaneRecords
  <1>2. \A m \in Lanes, j \in Ids : <<m, j>> \in Keys /\ (m # l => <<m, j>> \notin ks)
    BY DEF Keys
  <1> HIDE DEF r, ks
  <1>3. lane'[l] = r
    BY <1>0, <1>1, LaneFacts
  <1>4. /\ subscriptions' = subscriptions \ ks /\ subscriptions' \subseteq Keys
        /\ poll' \in [Keys -> PollRecords]
        /\ \A k \in Keys : poll'[k].pc = poll[k].pc /\ poll'[k].kind = poll[k].kind
        /\ \A k \in Keys : k \notin ks => poll'[k] = poll[k]
    BY <1>0, StopFacts
  <1>5. Holds(l)' /\ InTime(l)' /\ Follows(l)'
    BY <1>0, <1>1, <1>3 DEF Holds, InTime, Follows, admitted
  <1>6. \A j \in Ids : Slot(l, j)'
    BY <1>0, <1>2, <1>4 DEF IInv, Slot, admitted
  <1>7. \A m \in Lanes, j \in Ids : m # l =>
          /\ <<m, j>> \in subscriptions' <=> <<m, j>> \in subscriptions
          /\ poll'[<<m, j>>] = poll[<<m, j>>]
    BY <1>2, <1>4
  <1> QED BY <1>0, <1>1, <1>4, <1>5, <1>6, <1>7, LoopFrame

LEMMA CloseNativeStep ==
  ASSUME IInv, NEW l \in Lanes, CloseNative(l)
  PROVE  IInv'
  <1> DEFINE r == [lane[l] EXCEPT !.loop = "closed"]
  <1>0. /\ TypeOK /\ Holds(l) /\ InTime(l) /\ lane[l] \in LaneRecords /\ lane[l].loop = "wait"
        /\ SetLane(l, r) /\ UNCHANGED <<admitted, polled, late, catalog>>
    BY DEF IInv, TypeOK, CloseNative, outside
  <1>1. /\ r \in LaneRecords /\ r.loop = "closed" /\ r.message = lane[l].message
        /\ r.filter = lane[l].filter /\ r.ctx = lane[l].ctx
        /\ r.forward = lane[l].forward /\ r.output = lane[l].output
    BY <1>0 DEF LaneRecords
  <1> HIDE DEF r
  <1>2. lane'[l] = r
    BY <1>0, <1>1, LaneFacts
  <1>3. Holds(l)' /\ InTime(l)' /\ Follows(l)'
    BY <1>0, <1>1, <1>2 DEF Holds, InTime, Follows, admitted
  <1> QED BY <1>0, <1>1, <1>3, LaneFrame

-----------------------------------------------------------------------------
(* pollSubscription.                                                       *)

\* A step of a poller that was started; what it sends bears a recorded ID.
LEMMA PollFrame ==
  ASSUME IInv, NEW k \in Keys, NEW p \in PollRecords, SetPoll(k, p),
         poll[k].pc # "none", p.live = poll[k].live,
         p.pc = "send" => p.kind \in {"result", "error"},
         \/ UNCHANGED native
         \/ /\ poll[k].pc = "send"
            /\ native' = [native EXCEPT ![k[1]] = Append(@, [id |-> k[2], kind |-> poll[k].kind])]
  PROVE  IInv'
  <1>0. TypeOK /\ UNCHANGED <<lane, admitted, subscriptions, late, catalog>>
    BY DEF IInv, SetPoll
  <1>1. /\ poll' \in [Keys -> PollRecords] /\ poll'[k] = p
        /\ \A q \in Keys : q # k => poll'[q] = poll[q]
    BY <1>0 DEF SetPoll, TypeOK
  <1>2. \A l \in Lanes, i \in Ids : <<l, i>> \in Keys
    BY DEF Keys
  <1>3. \A q \in Keys : poll'[q].live = poll[q].live
    BY <1>1
  <1>4. /\ native' \in [Lanes -> Seq([id : Ids, kind : {"result", "error"}])]
        /\ \A l \in Lanes : native'[l] \in Seq(Polled(l))
    <2>1. CASE UNCHANGED native
      BY <1>0, <2>1 DEF TypeOK
    <2>2. CASE /\ poll[k].pc = "send"
               /\ native' = [native EXCEPT ![k[1]] = Append(@, [id |-> k[2], kind |-> poll[k].kind])]
      <3> DEFINE o == [id |-> k[2], kind |-> poll[k].kind]
      <3>1. PICK l \in Lanes, i \in Ids : k = <<l, i>>
        BY DEF Keys
      <3>2. k[1] = l /\ k[2] = i /\ Slot(l, i)
        BY <3>1 DEF IInv
      <3>3. i \in Used(l) /\ poll[k].kind \in {"result", "error"}
        BY <2>2, <3>1, <3>2 DEF Slot, Used
      <3>4. o \in Polled(l) /\ o \in [id : Ids, kind : {"result", "error"}]
        BY <3>2, <3>3 DEF Polled
      <3>5. native' = [native EXCEPT ![l] = Append(native[l], o)]
        BY <2>2, <3>2
      <3> HIDE DEF o
      <3>6. /\ native[l] \in Seq(Polled(l))
            /\ native[l] \in Seq([id : Ids, kind : {"result", "error"}])
        BY <1>0 DEF TypeOK
      <3>7. /\ Append(native[l], o) \in Seq(Polled(l))
            /\ Append(native[l], o) \in Seq([id : Ids, kind : {"result", "error"}])
        BY <3>4, <3>6
      <3> QED BY <1>0, <3>5, <3>7 DEF TypeOK
    <2> QED BY <2>1, <2>2
  <1>5. TypeOK'
    BY <1>0, <1>1, <1>4 DEF TypeOK, admitted, Polled, Used
  <1>6. \A l \in Lanes : Holds(l)' /\ InTime(l)'
    BY <1>0 DEF IInv, Holds, InTime, admitted
  <1>7. \A l \in Lanes : Follows(l)'
    BY <1>0, <1>2, <1>3 DEF IInv, Follows, Wanted, Active, admitted
  <1>8. \A l \in Lanes : Accounted(l)'
    BY <1>0 DEF IInv, Accounted, Actives, Tombstones, Active, admitted
  <1>9. ASSUME NEW l \in Lanes, NEW i \in Ids PROVE Slot(l, i)'
    BY <1>0, <1>1, <1>2 DEF IInv, Slot, admitted
  <1> QED BY <1>5, <1>6, <1>7, <1>8, <1>9 DEF IInv

LEMMA PollerStep ==
  ASSUME IInv, NEW k \in Keys, Poller(k) \/ Tick(k) \/ EndPoll(k)
  PROVE  IInv'
  <1> DEFINE P(pc, kind) == [poll[k] EXCEPT !.pc = pc, !.kind = kind]
             Q(pc) == [poll[k] EXCEPT !.pc = pc]
  <1>0. poll[k] \in PollRecords
    BY DEF IInv, TypeOK
  <1>1. \A pc \in {"poll", "query", "send", "wait", "end"}, kind \in {"result", "error", None} :
          /\ P(pc, kind) \in PollRecords /\ P(pc, kind).live = poll[k].live
          /\ P(pc, kind).pc = pc /\ P(pc, kind).kind = kind
    BY <1>0 DEF PollRecords
  <1>2. \A pc \in {"poll", "query", "wait"} :
          Q(pc) \in PollRecords /\ Q(pc).live = poll[k].live /\ Q(pc).pc = pc
    BY <1>0 DEF PollRecords
  <1>a. CASE PollOnce(k)
    <2>1. PICK pc \in {"wait", "query"} : SetPoll(k, Q(pc))
      BY <1>a DEF PollOnce
    <2>2. poll[k].pc = "poll" /\ UNCHANGED native
      BY <1>a DEF PollOnce
    <2> HIDE DEF Q
    <2> QED BY <1>2, <2>1, <2>2, PollFrame
  <1>b. CASE Query(k)
    <2>1. PICK pc \in {"wait", "send"}, kind \in {"result", "error"} : SetPoll(k, P(pc, kind))
      BY <1>b DEF Query
    <2>2. poll[k].pc = "query" /\ UNCHANGED native
      BY <1>b DEF Query
    <2> HIDE DEF P
    <2> QED BY <1>1, <2>1, <2>2, PollFrame
  <1>c. CASE SendOutput(k)
    <2>1. /\ SetPoll(k, P("wait", None)) /\ poll[k].pc = "send"
          /\ \/ UNCHANGED native
             \/ native' = [native EXCEPT ![k[1]] = Append(@, [id |-> k[2], kind |-> poll[k].kind])]
      BY <1>c DEF SendOutput
    <2> HIDE DEF P
    <2> QED BY <1>1, <2>1, PollFrame
  <1>d. CASE Tick(k)
    <2>1. SetPoll(k, Q("poll")) /\ poll[k].pc = "wait" /\ UNCHANGED native
      BY <1>d DEF Tick
    <2> HIDE DEF Q
    <2> QED BY <1>2, <2>1, PollFrame
  <1>e. CASE EndPoll(k)
    <2>1. SetPoll(k, P("end", None)) /\ poll[k].pc = "wait" /\ UNCHANGED native
      BY <1>e DEF EndPoll
    <2> HIDE DEF P
    <2> QED BY <1>1, <2>1, PollFrame
  <1> QED BY <1>a, <1>b, <1>c, <1>d, <1>e DEF Poller

-----------------------------------------------------------------------------
(* forwardAdmittedStream.                                                  *)

LEMMA ReceiveStep ==
  ASSUME IInv, NEW l \in Lanes, Receive(l)
  PROVE  IInv'
  <1> DEFINE o == Head(native[l])
             r == [lane[l] EXCEPT !.forward = "admit", !.output = o]
  <1>0. /\ TypeOK /\ Holds(l) /\ Follows(l) /\ lane[l] \in LaneRecords
        /\ native[l] # <<>> /\ SetLane(l, r)
        /\ UNCHANGED <<admitted, subscriptions, poll, late, catalog>>
    BY DEF IInv, TypeOK, Receive, outside
  <1>1. /\ native[l] \in Seq(Polled(l))
        /\ native[l] \in Seq([id : Ids, kind : {"result", "error"}])
    BY <1>0 DEF TypeOK
  <1>2. o \in Polled(l)
    BY <1>0, <1>1
  <1>3. /\ Tail(native[l]) \in Seq(Polled(l))
        /\ Tail(native[l]) \in Seq([id : Ids, kind : {"result", "error"}])
    BY <1>0, <1>1
  <1> HIDE DEF o
  <1>4. o \in Outputs /\ admission[l][o.id] # None
    BY <1>2 DEF Polled, Outputs, Used
  <1>5. /\ r \in LaneRecords /\ r.forward = "admit" /\ r.output = o
        /\ r.filter = lane[l].filter /\ r.loop = lane[l].loop /\ r.ctx = lane[l].ctx
        /\ r.message = lane[l].message /\ r.command = lane[l].command
    BY <1>0, <1>4 DEF LaneRecords
  <1> HIDE DEF r
  <1>6. /\ lane' \in [Lanes -> LaneRecords] /\ lane'[l] = r
        /\ \A m \in Lanes : m # l => lane'[m] = lane[m]
    BY <1>0, <1>5, LaneFacts
  <1>7. /\ native' \in [Lanes -> Seq([id : Ids, kind : {"result", "error"}])]
        /\ \A m \in Lanes : native'[m] \in Seq(Polled(m))
    <2>1. native' = [native EXCEPT ![l] = Tail(native[l])]
      BY DEF Receive
    <2> QED BY <1>0, <1>3, <2>1 DEF TypeOK
  <1>8. TypeOK'
    BY <1>0, <1>6, <1>7 DEF TypeOK, admitted, Polled, Used
  <1>9. ASSUME NEW m \in Lanes PROVE Holds(m)' /\ InTime(m)' /\ Follows(m)'
    <2>1. CASE m = l
      <3>1. Holds(m)' /\ InTime(m)'
        BY <1>0, <1>4, <1>5, <1>6, <2>1 DEF Holds, InTime, admitted
      <3>2. Follows(m)'
        BY <1>0, <1>5, <1>6, <2>1 DEF Follows, Wanted, Active, admitted
      <3> QED BY <3>1, <3>2
    <2>2. CASE m # l
      <3>1. Holds(m)' /\ InTime(m)'
        BY <1>0, <1>6, <2>2 DEF IInv, Holds, InTime, admitted
      <3>2. Follows(m)'
        BY <1>0, <1>6, <2>2 DEF IInv, Follows, Wanted, Active, admitted
      <3> QED BY <3>1, <3>2
    <2> QED BY <2>1, <2>2
  <1>10. \A m \in Lanes : Accounted(m)'
    BY <1>0 DEF IInv, Accounted, Actives, Tombstones, Active, admitted
  <1>11. \A m \in Lanes, i \in Ids : Slot(m, i)'
    BY <1>0 DEF IInv, Slot, admitted
  <1> QED BY <1>8, <1>9, <1>10, <1>11 DEF IInv

LEMMA FencedFacts ==
  ASSUME NEW o \in Outputs, NEW b
  PROVE  /\ Fenced(o, b) \in Outputs /\ Fenced(o, b).id = o.id
         /\ Fenced(o, b).kind = "rejection" <=> o.kind = "rejection"
         /\ Fenced(o, b).kind = "result" => b.revision \in {None, catalog}
  <1>1. LET e == [o EXCEPT !.kind = "error"] IN e \in Outputs /\ e.id = o.id /\ e.kind = "error"
    BY DEF Outputs
  <1> QED BY <1>1 DEF Fenced

\* Only the output of an active subscription passes, and a result only with the
\* catalog of its reference.
LEMMA AdmitStep ==
  ASSUME IInv, NEW l \in Lanes, AdmitOutput(l)
  PROVE  IInv'
  <1> DEFINE o == lane[l].output
             b == admission[l][o.id]
             drop == [lane[l] EXCEPT !.forward = "receive", !.output = None]
             f == Fenced(o, b)
             send == [lane[l] EXCEPT !.forward = "send", !.output = f]
  <1>0. /\ TypeOK /\ Holds(l) /\ Follows(l) /\ lane[l] \in LaneRecords
        /\ lane[l].forward = "admit" /\ UNCHANGED <<admitted, polled, late, catalog>>
    BY DEF IInv, TypeOK, AdmitOutput, outside
  <1>1. IF b # None /\ ~b.active /\ o.kind # "rejection" THEN SetLane(l, drop) ELSE SetLane(l, send)
    BY DEF AdmitOutput
  <1>2. o \in Outputs /\ (o.kind # "rejection" => b # None)
    BY <1>0 DEF Holds
  <1>3. o.id \in Ids
    BY <1>2 DEF Outputs
  <1>4. Slot(l, o.id)
    BY <1>3 DEF IInv
  <1>5. /\ drop \in LaneRecords /\ drop.forward = "receive"
        /\ drop.filter = lane[l].filter /\ drop.loop = lane[l].loop /\ drop.ctx = lane[l].ctx
        /\ drop.message = lane[l].message /\ drop.command = lane[l].command
    BY <1>0 DEF LaneRecords
  <1>6. /\ f \in Outputs /\ f.id = o.id /\ (f.kind = "rejection" <=> o.kind = "rejection")
        /\ f.kind = "result" => b.revision \in {None, catalog}
    BY <1>2, FencedFacts
  <1> HIDE DEF f
  <1>7. /\ send \in LaneRecords /\ send.forward = "send" /\ send.output = f
        /\ send.filter = lane[l].filter /\ send.loop = lane[l].loop /\ send.ctx = lane[l].ctx
        /\ send.message = lane[l].message /\ send.command = lane[l].command
    BY <1>0, <1>6 DEF LaneRecords
  <1> HIDE DEF drop, send
  <1>a. CASE b # None /\ ~b.active /\ o.kind # "rejection"
    <2>1. SetLane(l, drop)
      BY <1>1, <1>a
    <2> QED BY <1>0, <1>5, <2>1, CalmFrame
  <1>b. CASE ~(b # None /\ ~b.active /\ o.kind # "rejection")
    <2>1. SetLane(l, send)
      BY <1>1, <1>b
    <2>2. lane'[l] = send
      BY <1>0, <1>7, <2>1, LaneFacts
    <2>3. Holds(l)'
      BY <1>0, <1>2, <1>6, <1>7, <2>2 DEF Holds, admitted
    <2>4. o.kind # "rejection" =>
            /\ late[<<l, o.id>>].retired = 0
            /\ f.kind = "result" => late[<<l, o.id>>].stale = 0
      BY <1>2, <1>4, <1>6, <1>b DEF Slot
    <2>5. InTime(l)'
      BY <1>0, <1>6, <1>7, <2>2, <2>4 DEF InTime
    <2>6. Follows(l)'
      BY <1>0, <1>7, <2>2 DEF Follows, Wanted, Active, admitted, polled
    <2> QED BY <1>0, <1>7, <2>1, <2>3, <2>5, <2>6, LaneFrame
  <1> QED BY <1>a, <1>b

LEMMA CountFacts ==
  ASSUME NEW n \in [retired : Nat, stale : Nat], NEW o \in Outputs, NEW b,
         o.kind # "rejection" => b.active \in BOOLEAN
  PROVE  LET c == CountLate(n, o, b) IN
         /\ c \in [retired : Nat, stale : Nat]
         /\ \/ c = n
            \/ /\ o.kind # "rejection" /\ ~b.active
               /\ c.retired = n.retired + 1 /\ c.stale = n.stale
            \/ /\ o.kind = "result" /\ b.active /\ b.revision \notin {None, catalog}
               /\ c.stale = n.stale + 1 /\ c.retired = n.retired
  <1> DEFINE x == [n EXCEPT !.retired = @ + 1]
             y == [n EXCEPT !.stale = @ + 1]
  <1>1. /\ x \in [retired : Nat, stale : Nat] /\ x.retired = n.retired + 1 /\ x.stale = n.stale
        /\ y \in [retired : Nat, stale : Nat] /\ y.stale = n.stale + 1 /\ y.retired = n.retired
    OBVIOUS
  <1>2. CountLate(n, o, b) =
          IF o.kind # "rejection" /\ ~b.active THEN x
            ELSE IF o.kind = "result" /\ b.revision \notin {None, catalog} THEN y ELSE n
    BY DEF CountLate
  <1>3. \/ CountLate(n, o, b) = n
        \/ o.kind # "rejection" /\ ~b.active /\ CountLate(n, o, b) = x
        \/ /\ o.kind = "result" /\ b.active /\ b.revision \notin {None, catalog}
           /\ CountLate(n, o, b) = y
    <2> HIDE DEF x, y
    <2> QED BY <1>2
  <1> HIDE DEF x, y
  <1> QED BY <1>1, <1>3

\* A late delivery is the first one of its subscription, and the forwarder looks
\* the next output up again.
LEMMA DeliverStep ==
  ASSUME IInv, NEW l \in Lanes, Deliver(l)
  PROVE  IInv'
  <1> DEFINE o == lane[l].output
             b == admission[l][o.id]
             k == <<l, o.id>>
             r == [lane[l] EXCEPT !.forward = "receive", !.output = None]
             n == CountLate(late[k], o, b)
  <1>0. /\ TypeOK /\ Holds(l) /\ InTime(l) /\ Follows(l) /\ lane[l] \in LaneRecords
        /\ lane[l].forward = "send" /\ SetLane(l, r) /\ UNCHANGED <<admitted, polled, catalog>>
    BY DEF IInv, TypeOK, Deliver, outside
  <1>1. late' = [late EXCEPT ![k] = n]
    BY DEF Deliver
  <1>2. o \in Outputs /\ (o.kind # "rejection" => b # None)
    BY <1>0 DEF Holds
  <1>3. o.id \in Ids /\ k \in Keys
    BY <1>2 DEF Outputs, Keys
  <1>4. /\ Slot(l, o.id) /\ late[k] \in [retired : Nat, stale : Nat]
        /\ b # None => b.active \in BOOLEAN
    BY <1>0, <1>3, BindingFacts DEF IInv, TypeOK
  <1>5. /\ n \in [retired : Nat, stale : Nat]
        /\ \/ n = late[k]
           \/ /\ o.kind # "rejection" /\ ~b.active
              /\ n.retired = late[k].retired + 1 /\ n.stale = late[k].stale
           \/ /\ o.kind = "result" /\ b.active /\ b.revision \notin {None, catalog}
              /\ n.stale = late[k].stale + 1 /\ n.retired = late[k].retired
    BY <1>2, <1>4, CountFacts
  <1>6. o.kind # "rejection" => late[k].retired = 0 /\ (o.kind = "result" => late[k].stale = 0)
    BY <1>0 DEF InTime
  <1>7. /\ r \in LaneRecords /\ r.forward = "receive"
        /\ r.filter = lane[l].filter /\ r.loop = lane[l].loop /\ r.ctx = lane[l].ctx
        /\ r.message = lane[l].message /\ r.command = lane[l].command
    BY <1>0 DEF LaneRecords
  <1>8. \A m \in Lanes, i \in Ids : <<m, i>> \in Keys /\ (<<m, i>> = k <=> m = l /\ i = o.id)
    BY DEF Keys
  <1> HIDE DEF o, b, k, r, n
  <1>9. /\ lane' \in [Lanes -> LaneRecords] /\ lane'[l] = r
        /\ \A m \in Lanes : m # l => lane'[m] = lane[m]
    BY <1>0, <1>7, LaneFacts
  <1>10. /\ late' \in [Keys -> [retired : Nat, stale : Nat]] /\ late'[k] = n
         /\ \A q \in Keys : q # k => late'[q] = late[q]
    BY <1>0, <1>1, <1>3, <1>5 DEF TypeOK
  <1>11. TypeOK'
    BY <1>0, <1>9, <1>10 DEF TypeOK, admitted, polled, Polled, Used
  <1>12. ASSUME NEW m \in Lanes PROVE Holds(m)' /\ InTime(m)' /\ Follows(m)'
    <2>1. CASE m = l
      <3>1. Holds(m)' /\ InTime(m)'
        BY <1>0, <1>7, <1>9, <2>1 DEF Holds, InTime, admitted
      <3>2. Follows(m)'
        BY <1>0, <1>7, <1>9, <2>1 DEF Follows, Wanted, Active, admitted, polled
      <3> QED BY <3>1, <3>2
    <2>2. CASE m # l
      <3>1. Holds(m)'
        BY <1>0, <1>9, <2>2 DEF IInv, Holds, admitted
      <3>2. InTime(m)'
        <4> SUFFICES ASSUME lane[m].forward = "send", lane[m].output.kind # "rejection"
                     PROVE  /\ late'[<<m, lane[m].output.id>>].retired = 0
                            /\ lane[m].output.kind = "result" =>
                                 late'[<<m, lane[m].output.id>>].stale = 0
          BY <1>9, <2>2 DEF InTime
        <4>1. Holds(m) /\ InTime(m)
          BY DEF IInv
        <4>2. lane[m].output.id \in Ids
          BY <4>1 DEF Holds, Outputs
        <4>3. late'[<<m, lane[m].output.id>>] = late[<<m, lane[m].output.id>>]
          BY <1>8, <1>10, <2>2, <4>2
        <4> QED BY <4>1, <4>3 DEF InTime
      <3>3. Follows(m)'
        BY <1>0, <1>9, <2>2 DEF IInv, Follows, Wanted, Active, admitted, polled
      <3> QED BY <3>1, <3>2, <3>3
    <2> QED BY <2>1, <2>2
  <1>13. \A m \in Lanes : Accounted(m)'
    BY <1>0 DEF IInv, Accounted, Actives, Tombstones, Active, admitted
  <1>14. ASSUME NEW m \in Lanes, NEW i \in Ids PROVE Slot(m, i)'
    <2>1. CASE m = l /\ i = o.id
      <3>1. admission'[m][i] = b /\ late'[<<m, i>>] = n /\ poll' = poll /\ catalog' = catalog
        BY <1>0, <1>8, <1>10, <2>1 DEF admitted, polled, b, k
      <3>2. /\ b = None \/ b.active => n.retired = 0
            /\ b = None \/ (b.active /\ b.revision \in {None, catalog}) => n.stale = 0
            /\ n.retired <= 1 /\ n.stale <= 1
        BY <1>2, <1>4, <1>5, <1>6 DEF Slot, b, k
      <3> QED BY <1>4, <2>1, <3>1, <3>2 DEF Slot, b
    <2>2. CASE ~(m = l /\ i = o.id)
      <3>1. late'[<<m, i>>] = late[<<m, i>>]
        BY <1>8, <1>10, <2>2
      <3> QED BY <1>0, <3>1 DEF IInv, Slot, admitted, polled
    <2> QED BY <2>1, <2>2
  <1> QED BY <1>11, <1>12, <1>13, <1>14 DEF IInv

-----------------------------------------------------------------------------
(* The invariant and what it implies.                                      *)

LEMMA InitInvariant == Init => IInv
  <1> SUFFICES ASSUME Init PROVE IInv
    OBVIOUS
  <1>1. /\ lane \in [Lanes -> LaneRecords] /\ poll \in [Keys -> PollRecords]
    BY DEF Init, LaneRecords, PollRecords
  <1>2. /\ \A l \in Lanes : native[l] \in Seq(Polled(l))
        /\ native \in [Lanes -> Seq([id : Ids, kind : {"result", "error"}])]
    BY DEF Init
  <1>3. TypeOK
    BY <1>1, <1>2 DEF Init, TypeOK
  <1>4. \A l \in Lanes, i \in Ids : admission[l][i] = None /\ <<l, i>> \in Keys
    BY DEF Init, Keys
  <1>5. \A l \in Lanes : Holds(l) /\ InTime(l)
    BY DEF Init, Holds, InTime
  <1>6. \A l \in Lanes : Follows(l)
    BY <1>4 DEF Init, Follows, Wanted, Active
  <1>7. ASSUME NEW l \in Lanes PROVE Accounted(l)
    <2>1. Actives(l) = {} /\ Tombstones(l) = {}
      BY <1>4 DEF Actives, Tombstones, Active
    <2>2. Cardinality(Actives(l)) = 0 /\ Cardinality(Tombstones(l)) = 0
      BY <2>1, FS_EmptySet
    <2>3. retained[l] = 0
      BY DEF Init
    <2> QED BY <2>2, <2>3, MetricAssumption DEF Accounted
  <1>8. ASSUME NEW l \in Lanes, NEW i \in Ids PROVE Slot(l, i)
    <2> DEFINE k == <<l, i>>
    <2>1. poll[k].pc = "none"
      BY <1>4 DEF Init
    <2>2. late[k].retired = 0 /\ late[k].stale = 0
      BY <1>4 DEF Init
    <2>3. admission[l][i] = None
      BY <1>4
    <2> QED BY <2>1, <2>2, <2>3 DEF Slot
  <1> QED BY <1>3, <1>5, <1>6, <1>7, <1>8 DEF IInv

LEMMA NextInvariant == IInv /\ [Next]_vars => IInv'
  <1> SUFFICES ASSUME IInv, [Next]_vars PROVE IInv'
    OBVIOUS
  <1>1. CASE UNCHANGED vars
    <2>1. TypeOK'
      BY <1>1 DEF IInv, TypeOK, vars, Polled, Used
    <2>2. \A l \in Lanes : Holds(l)' /\ InTime(l)' /\ Follows(l)'
      BY <1>1 DEF IInv, Holds, InTime, Follows, Wanted, Active, vars
    <2>3. \A l \in Lanes : Accounted(l)'
      BY <1>1 DEF IInv, Accounted, Actives, Tombstones, Active, vars
    <2>4. \A l \in Lanes, i \in Ids : Slot(l, i)'
      BY <1>1 DEF IInv, Slot, vars
    <2> QED BY <2>1, <2>2, <2>3, <2>4 DEF IInv
  <1>2. ASSUME NEW l \in Lanes, Open(l) \/ EndRequest(l) \/ CloseInput(l) \/ ReleaseLease(l)
        PROVE  IInv'
    BY <1>2, OpenStep, OutsideStep
  <1>3. ASSUME NEW l \in Lanes, NEW i \in Ids,
               Unsubscribe(l, i) \/ \E r \in {0, 1, None} : Subscribe(l, i, r)
        PROVE  IInv'
    BY <1>3, UnsubscribeStep, SubscribeStep
  <1>4. ASSUME NEW l \in Lanes, Filter(l) \/ Loop(l) \/ Forward(l) \/ EndForward(l)
        PROVE  IInv'
    BY <1>4, FilterStep, HandleStep, EndLoopStep, CloseNativeStep, ReceiveStep, AdmitStep,
       DeliverStep, OutsideStep DEF Loop, Forward
  <1>5. ASSUME NEW k \in Keys, Poller(k) \/ Tick(k) \/ EndPoll(k)
        PROVE  IInv'
    BY <1>5, PollerStep
  <1> QED BY <1>1, <1>2, <1>3, <1>4, <1>5, RetireStep, CatalogStep DEF Next

THEOREM Invariance == Spec => []IInv
  BY InitInvariant, NextInvariant, PTL DEF Spec

\* After a subscription was retired, or its catalog replaced, at most the one
\* output reaches the caller that forwardAdmittedStream had already let pass,
\* for any number of lanes and pollers and any size of their buffers.
THEOREM LateOutput == Spec => []LateOutputIsBounded
  <1>1. IInv => LateOutputIsBounded
    <2> SUFFICES ASSUME IInv, NEW k \in Keys PROVE late[k].retired <= 1 /\ late[k].stale <= 1
      BY DEF LateOutputIsBounded
    <2>1. PICK l \in Lanes, i \in Ids : k = <<l, i>>
      BY DEF Keys
    <2> QED BY <2>1 DEF IInv, Slot
  <1> QED BY <1>1, Invariance, PTL

\* streamAdmission.retainedBytes is exact and within MaxMessageBytes, whatever
\* the sizes and whichever IDs are admitted, retired and used again.
THEOREM Accounting == Spec => []AccountingIsExact
  <1>1. IInv => AccountingIsExact
    <2> SUFFICES ASSUME IInv, NEW l \in Lanes
                 PROVE  /\ retained[l] = Full * Cardinality({i \in Used(l) : admission[l][i].active})
                                  + Compact * Cardinality({i \in Used(l) : ~admission[l][i].active})
                        /\ retained[l] \in 0 .. MaxBytes
      BY DEF AccountingIsExact
    <2>1. TypeOK /\ Accounted(l)
      BY DEF IInv
    <2>2. retained[l] \in Nat
      BY <2>1 DEF TypeOK
    <2>3. /\ Actives(l) = {i \in Used(l) : admission[l][i].active}
          /\ Tombstones(l) = {i \in Used(l) : ~admission[l][i].active}
      BY <2>1, UsedFacts
    <2> QED BY <2>1, <2>2, <2>3, MetricAssumption DEF Accounted
  <1> QED BY <1>1, Invariance, PTL

\* A running lane with no command under way polls exactly the subscriptions it
\* admitted; the shared Manager.subscriptions never mixes up two lanes.
THEOREM PolledAsAdmitted == Spec => []AdmittedIsPolled
  <1>1. IInv => AdmittedIsPolled
    <2> SUFFICES ASSUME IInv, NEW l \in Lanes, ~Ended(l), lane[l].filter = "read",
                        lane[l].loop = "read", NEW i \in Ids
                 PROVE  (admission[l][i] # None /\ admission[l][i].active) <=>
                          (<<l, i>> \in subscriptions /\ poll[<<l, i>>].live)
      BY DEF AdmittedIsPolled
    <2>1. lane[l] \in LaneRecords /\ Follows(l)
      BY DEF IInv, TypeOK
    <2>2. lane[l].ctx = "live"
      BY <2>1 DEF LaneRecords, Ended
    <2> QED BY <2>1, <2>2 DEF Follows, Active, Wanted
  <1> QED BY <1>1, Invariance, PTL
=============================================================================
