----------------------------- MODULE MetricLane -----------------------------
(***************************************************************************)
(* The metric streams of pkg/v1/metric.  A lane is one StreamMetrics or    *)
(* StreamResourceMetrics call with its goroutines: filterStream admits and *)
(* records the inputs, the loop of stream() handles them, each             *)
(* subscription is polled by a goroutine, forwardAdmittedStream applies    *)
(* the lane's fences to the output, and connectedStream holds the lease of *)
(* a resource lane.  All lanes share Manager.subscriptions.                *)
(*                                                                         *)
(* The plugin is one with a QueryFunc and no StreamFunc.  The query, the   *)
(* catalog, the connection generation and the RPC at the far ends of the   *)
(* input and output channels are external.  A catalog is its revision.     *)
(***************************************************************************)
EXTENDS Integers, Sequences, FiniteSets

CONSTANTS
  Lanes,      \* stream calls
  Leased,     \* the lanes of a configured connection
  Ids,        \* subscription IDs
  Full,       \* bytes of an admitted binding
  Compact,    \* bytes of the tombstone of an ID
  MaxBytes,   \* MaxMessageBytes: what a lane may retain
  MaxIds,     \* maxLaneSubscriptionIDs
  Buffer,     \* pollingOutputBuffer
  MaxEvents,  \* bound: inputs, ticks and other events from outside
  None        \* no message, no binding

\* A streamBinding: revision is that of its resource reference, if it has one.
Bindings == [active : BOOLEAN, revision : {0, 1, None}, bytes : {Full, Compact}]

ASSUME MetricAssumption ==
  /\ Leased \subseteq Lanes /\ IsFiniteSet(Lanes) /\ IsFiniteSet(Ids)
  /\ Full \in Nat /\ Compact \in 0 .. Full /\ MaxBytes \in Nat
  /\ MaxIds \in Nat /\ Buffer \in Nat \ {0}
  /\ MaxEvents \in Nat
  /\ None \notin {0, 1} /\ None \notin Bindings

VARIABLES
  lane,           \* each lane: context, input channel, lease and goroutines
  admission,      \* streamAdmission.bindings: lane -> ID -> binding or None
  retained,       \* streamAdmission.retainedBytes of each lane
  subscriptions,  \* the keys of Manager.subscriptions
  poll,           \* the goroutine of each subscription
  native,         \* the output channel of each lane's pollers
  catalog,        \* the revision of the connection's catalog
  retired,        \* the generation of the leased connection was retired
  late,           \* outputs delivered after their subscription lost its claim
  events          \* events from outside so far

vars == <<lane, admission, retained, subscriptions, poll, native, catalog, retired,
          late, events>>

-----------------------------------------------------------------------------
(* State.                                                                  *)

Keys == Lanes \X Ids

\* ctx is the context made by admitStream; message and output are what the
\* filter, the loop and the forwarder hold.
Init ==
  /\ lane = [l \in Lanes |->
               [ctx |-> "live", input |-> "open", lease |-> "none",
                filter |-> "idle", message |-> None, loop |-> "read", command |-> None,
                forward |-> "receive", output |-> None]]
  /\ admission = [l \in Lanes |-> [i \in Ids |-> None]]
  /\ retained = [l \in Lanes |-> 0]
  /\ subscriptions = {}
  /\ poll = [k \in Keys |-> [pc |-> "none", live |-> FALSE, kind |-> None]]
  /\ native = [l \in Lanes |-> <<>>]
  /\ catalog = 0
  /\ retired = FALSE
  /\ late = [k \in Keys |-> [retired |-> 0, stale |-> 0]]
  /\ events = 0

SetLane(l, record) == lane' = [lane EXCEPT ![l] = record]
Ended(l) == lane[l].ctx = "ended"

\* The context of a subscription is a child of its lane's.
Cancelled(k) == ~poll[k].live \/ Ended(k[1])

admitted == <<admission, retained>>
polled == <<subscriptions, poll, native>>
outside == <<catalog, retired, events>>

\* Something happens that the lanes do not decide.
External == events < MaxEvents /\ events' = events + 1

-----------------------------------------------------------------------------
(* Opening a lane, and what happens to it from outside.                    *)

\* connectedStream takes the lease of a resource lane before admitStream; the
\* call is refused when the generation is gone.
Open(l) ==
  /\ lane[l].filter = "idle"
  /\ IF l \in Leased /\ retired
       THEN SetLane(l, [lane[l] EXCEPT !.ctx = "ended", !.filter = "end", !.loop = "closed",
                                       !.forward = "end"])
       ELSE SetLane(l, [lane[l] EXCEPT !.filter = "read",
                                       !.lease = IF l \in Leased THEN "held" ELSE "none"])
  /\ UNCHANGED <<admitted, polled, late, outside>>

\* The caller cancels its request.
EndRequest(l) ==
  /\ External
  /\ lane[l].filter # "idle" /\ ~Ended(l)
  /\ SetLane(l, [lane[l] EXCEPT !.ctx = "ended"])
  /\ UNCHANGED <<admitted, polled, late, catalog, retired>>

\* The caller closes the input channel.
CloseInput(l) ==
  /\ External
  /\ lane[l].filter # "idle" /\ lane[l].input = "open"
  /\ SetLane(l, [lane[l] EXCEPT !.input = "closed"])
  /\ UNCHANGED <<admitted, polled, late, catalog, retired>>

\* The generation is retired: the leases' contexts end.
Retire ==
  /\ External
  /\ ~retired
  /\ retired' = TRUE
  /\ lane' = [l \in Lanes |->
                IF lane[l].lease = "held" THEN [lane[l] EXCEPT !.ctx = "ended"] ELSE lane[l]]
  /\ UNCHANGED <<admitted, polled, late, catalog>>

\* The provider publishes another catalog.
ChangeCatalog ==
  /\ External
  /\ catalog = 0
  /\ catalog' = 1
  /\ UNCHANGED <<lane, admitted, polled, late, retired>>

\* connectedStream's callback returns when the lane finished or its context
\* ended; it does not wait for the pollers, whose queries have their own leases.
ReleaseLease(l) ==
  /\ lane[l].lease = "held" /\ Ended(l)
  /\ SetLane(l, [lane[l] EXCEPT !.lease = "released"])
  /\ UNCHANGED <<admitted, polled, late, outside>>

-----------------------------------------------------------------------------
(* filterStream: admission of the inputs.                                  *)

Used(l) == {i \in Ids : admission[l][i] # None}

\* checkCapacity and checkStreamCatalog.  r is the catalog revision of a resource
\* reference, which only a lane with a connection may have, or None.
Admissible(l, i, r) ==
  /\ i \notin Used(l)
  /\ Cardinality(Used(l)) < MaxIds
  /\ Full <= MaxBytes - retained[l]
  /\ r = None \/ (l \in Leased /\ r = catalog)

\* Mutant of Retain: a retired binding gives back all of its bytes.
RetainNothing(l, i) ==
  IF admission[l][i] # None /\ admission[l][i].active
    THEN /\ admission' = [admission EXCEPT ![l][i] =
                            [active |-> FALSE, revision |-> None, bytes |-> Compact]]
         /\ retained' = [retained EXCEPT ![l] = @ - admission[l][i].bytes]
    ELSE UNCHANGED admitted

\* record of an unsubscription: the binding becomes a tombstone of its ID.
Retain(l, i) ==
  IF admission[l][i] # None /\ admission[l][i].active
    THEN /\ admission' = [admission EXCEPT ![l][i] =
                            [active |-> FALSE, revision |-> None, bytes |-> Compact]]
         /\ retained' = [retained EXCEPT ![l] = @ - (admission[l][i].bytes - Compact)]
    ELSE UNCHANGED admitted

\* record of a subscription.
Record(l, i, r) ==
  /\ admission' = [admission EXCEPT ![l][i] = [active |-> TRUE, revision |-> r, bytes |-> Full]]
  /\ retained' = [retained EXCEPT ![l] = @ + Full]

Reading(l) ==
  /\ lane[l].filter = "read" /\ lane[l].input = "open"
  /\ External
  /\ UNCHANGED <<polled, late, catalog, retired>>

Subscribe(l, i, r) ==
  /\ Reading(l)
  /\ IF Admissible(l, i, r)
       THEN /\ Record(l, i, r)
            /\ SetLane(l, [lane[l] EXCEPT !.filter = "pass", !.message = <<"subscribe", i>>])
       ELSE /\ UNCHANGED admitted
            /\ SetLane(l, [lane[l] EXCEPT !.filter = "reject", !.message = <<"subscribe", i>>])

\* Unsubscribe and Close are the same command.
Unsubscribe(l, i) ==
  /\ Reading(l)
  /\ Retain(l, i)
  /\ SetLane(l, [lane[l] EXCEPT !.filter = "pass", !.message = <<"unsubscribe", i>>])

\* The admitted input is handed to the loop.
Pass(l) ==
  /\ lane[l].filter = "pass" /\ lane[l].loop = "read"
  /\ SetLane(l, [lane[l] EXCEPT !.filter = "read", !.message = None,
                                !.loop = "handle", !.command = lane[l].message])
  /\ UNCHANGED <<admitted, polled, late, outside>>

\* The rejection is handed to the forwarder.
Reject(l) ==
  /\ lane[l].filter = "reject" /\ lane[l].forward = "receive"
  /\ SetLane(l, [lane[l] EXCEPT !.filter = "read", !.message = None, !.forward = "admit",
                                !.output = [id |-> lane[l].message[2], kind |-> "rejection"]])
  /\ UNCHANGED <<admitted, polled, late, outside>>

\* The filter ends with the context or the input, and closes its channel.
EndFilter(l) ==
  /\ lane[l].filter \in {"read", "pass", "reject"}
  /\ Ended(l) \/ (lane[l].filter = "read" /\ lane[l].input = "closed")
  /\ SetLane(l, [lane[l] EXCEPT !.filter = "end", !.message = None])
  /\ UNCHANGED <<admitted, polled, late, outside>>

-----------------------------------------------------------------------------
(* The loop of stream() and Manager.subscriptions.                         *)

Start(k) ==
  /\ subscriptions' = subscriptions \cup {k}
  /\ poll' = [poll EXCEPT ![k] = [pc |-> "poll", live |-> TRUE, kind |-> None]]

Stop(ks) ==
  /\ subscriptions' = subscriptions \ ks
  /\ poll' = [k \in Keys |-> IF k \in ks THEN [poll[k] EXCEPT !.live = FALSE] ELSE poll[k]]

\* Mutant of HandleCommand: a subscription is found by its ID alone.
HandleCommandById(l) ==
  /\ lane[l].loop = "handle"
  /\ LET i == lane[l].command[2] IN
       IF lane[l].command[1] = "subscribe" THEN Start(<<l, i>>)
         ELSE Stop({k \in subscriptions : k[2] = i})
  /\ SetLane(l, [lane[l] EXCEPT !.loop = "read", !.command = None])
  /\ UNCHANGED <<admitted, native, late, outside>>

\* handleStreamCommand.  An admitted ID is new to its lane, so that subscribe
\* never finds a previous entry to cancel.
HandleCommand(l) ==
  /\ lane[l].loop = "handle"
  /\ LET key == <<l, lane[l].command[2]>> IN
       IF lane[l].command[1] = "subscribe" THEN Start(key) ELSE Stop({key} \cap subscriptions)
  /\ SetLane(l, [lane[l] EXCEPT !.loop = "read", !.command = None])
  /\ UNCHANGED <<admitted, native, late, outside>>

LoopMayEnd(l) ==
  /\ lane[l].filter # "idle" /\ lane[l].loop = "read"
  /\ Ended(l) \/ lane[l].filter = "end"

\* Mutant of EndLoop: the lane's subscriptions are left to its context.
EndLoopOnly(l) ==
  /\ LoopMayEnd(l)
  /\ SetLane(l, [lane[l] EXCEPT !.loop = "wait"])
  /\ UNCHANGED <<admitted, polled, late, outside>>

\* The loop ends: the lane's own subscriptions are cancelled and deleted.
EndLoop(l) ==
  /\ LoopMayEnd(l)
  /\ Stop({k \in subscriptions : k[1] = l})
  /\ SetLane(l, [lane[l] EXCEPT !.loop = "wait"])
  /\ UNCHANGED <<admitted, native, late, outside>>

\* The pollers are waited for, then the native output is closed.
CloseNative(l) ==
  /\ lane[l].loop = "wait"
  /\ \A i \in Ids : poll[<<l, i>>].pc \in {"none", "end"}
  /\ SetLane(l, [lane[l] EXCEPT !.loop = "closed"])
  /\ UNCHANGED <<admitted, polled, late, outside>>

-----------------------------------------------------------------------------
(* pollSubscription and pollOnce.                                          *)

SetPoll(k, record) ==
  /\ poll' = [poll EXCEPT ![k] = record]
  /\ UNCHANGED <<lane, admitted, subscriptions, late, catalog, retired>>

\* pollOnce looks at the context before the query.
PollOnce(k) ==
  /\ poll[k].pc = "poll"
  /\ SetPoll(k, [poll[k] EXCEPT !.pc = IF Cancelled(k) THEN "wait" ELSE "query"])
  /\ UNCHANGED <<native, events>>

\* The query answers; the answer to a cancelled subscription is dropped.
Query(k) ==
  /\ poll[k].pc = "query"
  /\ \E kind \in {"result", "error"} :
       SetPoll(k, [poll[k] EXCEPT !.pc = IF Cancelled(k) THEN "wait" ELSE "send", !.kind = kind])
  /\ UNCHANGED <<native, events>>

\* Sending and cancellation race in one select.
SendOutput(k) ==
  /\ poll[k].pc = "send"
  /\ \/ /\ Len(native[k[1]]) < Buffer
        /\ native' = [native EXCEPT ![k[1]] = Append(@, [id |-> k[2], kind |-> poll[k].kind])]
     \/ Cancelled(k) /\ UNCHANGED native
  /\ SetPoll(k, [poll[k] EXCEPT !.pc = "wait", !.kind = None])
  /\ UNCHANGED events

Tick(k) ==
  /\ poll[k].pc = "wait" /\ External
  /\ SetPoll(k, [poll[k] EXCEPT !.pc = "poll"])
  /\ UNCHANGED native

EndPoll(k) ==
  /\ poll[k].pc = "wait" /\ Cancelled(k)
  /\ SetPoll(k, [poll[k] EXCEPT !.pc = "end", !.kind = None])
  /\ UNCHANGED <<native, events>>

-----------------------------------------------------------------------------
(* forwardAdmittedStream.                                                  *)

\* An output of the pollers is received; an ended context is noticed next.
Receive(l) ==
  /\ lane[l].forward = "receive" /\ native[l] # <<>>
  /\ SetLane(l, [lane[l] EXCEPT !.forward = "admit", !.output = Head(native[l])])
  /\ native' = [native EXCEPT ![l] = Tail(@)]
  /\ UNCHANGED <<admitted, subscriptions, poll, late, outside>>

\* The forwarder ends with the context or when the pollers' output is closed
\* and drained; its deferred calls cancel the lane and close the output.
EndForward(l) ==
  /\ lane[l].forward # "end" /\ lane[l].filter # "idle"
  /\ Ended(l) \/ (lane[l].forward = "receive" /\ lane[l].loop = "closed" /\ native[l] = <<>>)
  /\ SetLane(l, [lane[l] EXCEPT !.forward = "end", !.output = None, !.ctx = "ended"])
  /\ UNCHANGED <<admitted, polled, late, outside>>

\* checkStreamCatalog of a result; without a reference there is nothing to check.
Fenced(output, bound) ==
  IF output.kind = "result" /\ bound.revision \notin {None, catalog}
    THEN [output EXCEPT !.kind = "error"] ELSE output

\* Mutant of AdmitOutput: the subscription is not looked up.
AdmitAnyOutput(l) ==
  /\ lane[l].forward = "admit" /\ ~Ended(l)
  /\ SetLane(l, [lane[l] EXCEPT !.forward = "send"])
  /\ UNCHANGED <<admitted, polled, late, outside>>

\* admitStreamOutput: the output of a retired ID is dropped, and a result whose
\* catalog is gone becomes an error.
AdmitOutput(l) ==
  /\ lane[l].forward = "admit" /\ ~Ended(l)
  /\ LET output == lane[l].output
         bound == admission[l][output.id] IN
       IF bound # None /\ ~bound.active /\ output.kind # "rejection"
         THEN SetLane(l, [lane[l] EXCEPT !.forward = "receive", !.output = None])
         ELSE SetLane(l, [lane[l] EXCEPT !.forward = "send", !.output = Fenced(output, bound)])
  /\ UNCHANGED <<admitted, polled, late, outside>>

\* Counts a delivery to a subscription that was retired, or whose catalog is gone.
CountLate(counter, output, bound) ==
  IF output.kind # "rejection" /\ ~bound.active THEN [counter EXCEPT !.retired = @ + 1]
    ELSE IF output.kind = "result" /\ bound.revision \notin {None, catalog}
           THEN [counter EXCEPT !.stale = @ + 1] ELSE counter

\* The caller receives the output, which races the end of the context.
Deliver(l) ==
  /\ lane[l].forward = "send"
  /\ LET output == lane[l].output IN
       late' = [late EXCEPT ![<<l, output.id>>] = CountLate(@, output, admission[l][output.id])]
  /\ SetLane(l, [lane[l] EXCEPT !.forward = "receive", !.output = None])
  /\ UNCHANGED <<admitted, polled, outside>>

-----------------------------------------------------------------------------
(* Specification.                                                          *)

Filter(l) == Pass(l) \/ Reject(l) \/ EndFilter(l)
Loop(l) == HandleCommand(l) \/ EndLoop(l) \/ CloseNative(l)
Forward(l) == Receive(l) \/ AdmitOutput(l) \/ Deliver(l)
Poller(k) == PollOnce(k) \/ Query(k) \/ SendOutput(k)

Next ==
  \/ \E l \in Lanes : Open(l) \/ EndRequest(l) \/ CloseInput(l) \/ ReleaseLease(l)
  \/ \E l \in Lanes, i \in Ids : Unsubscribe(l, i) \/ \E r \in {0, 1, None} : Subscribe(l, i, r)
  \/ \E l \in Lanes : Filter(l) \/ Loop(l) \/ Forward(l) \/ EndForward(l)
  \/ \E k \in Keys : Poller(k) \/ Tick(k) \/ EndPoll(k)
  \/ Retire \/ ChangeCatalog

Spec == Init /\ [][Next]_vars

\* Goroutines go on, a query returns, and the caller reads the output until the
\* lane ends.  A ready case of a select is taken sooner or later: a poller that
\* may end is not kept alive by its ticker, nor a lane by its output.
Fairness ==
  /\ \A l \in Lanes : /\ WF_vars(Filter(l)) /\ WF_vars(Loop(l)) /\ WF_vars(Forward(l))
                      /\ WF_vars(EndForward(l)) /\ WF_vars(ReleaseLease(l))
  /\ \A k \in Keys : WF_vars(Poller(k)) /\ WF_vars(EndPoll(k))

FairSpec == Spec /\ Fairness

-----------------------------------------------------------------------------
(* Properties.                                                             *)

\* Once a subscription was retired at most one of its outputs still reaches the
\* caller, the one the forwarder had looked up before; once its catalog was
\* replaced at most one of its results does.
LateOutputIsBounded == \A k \in Keys : late[k].retired <= 1 /\ late[k].stale <= 1

\* The bytes a lane has accounted for are those of its bindings and tombstones,
\* within the limit, so that no release can wrap the unsigned counter.
AccountingIsExact ==
  \A l \in Lanes :
    /\ retained[l] = Full * Cardinality({i \in Used(l) : admission[l][i].active})
                       + Compact * Cardinality({i \in Used(l) : ~admission[l][i].active})
    /\ retained[l] \in 0 .. MaxBytes

\* A running lane polls exactly the subscriptions it has admitted: no input, end
\* or ID of another lane stops or keeps one of them.
AdmittedIsPolled ==
  \A l \in Lanes : (~Ended(l) /\ lane[l].filter = "read" /\ lane[l].loop = "read") =>
    \A i \in Ids : (admission[l][i] # None /\ admission[l][i].active) <=>
                     (<<l, i>> \in subscriptions /\ poll[<<l, i>>].live)

\* A lane whose request, generation or input ends is taken down completely: its
\* goroutines end, its subscriptions are gone and its lease is released.
LaneDrains ==
  \A l \in Lanes : (lane[l].filter # "idle" /\ (Ended(l) \/ lane[l].input = "closed")) ~>
    /\ lane[l].filter = "end" /\ lane[l].loop = "closed" /\ lane[l].forward = "end"
    /\ lane[l].lease # "held"
    /\ \A i \in Ids : <<l, i>> \notin subscriptions /\ poll[<<l, i>>].pc \in {"none", "end"}
=============================================================================
