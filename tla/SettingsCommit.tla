--------------------------- MODULE SettingsCommit ---------------------------
(***************************************************************************)
(* The settings of a plugin and their commit from the host.  The provider  *)
(* of settings/provider.go serializes its writers with writeMu, validates, *)
(* lets the caller persist, publishes and then calls change handlers.  The *)
(* RPC of pkg/v1/settings puts the persistence of a remote commit on the   *)
(* other end of a stream: the server's persist callback sends the prepared *)
(* values and waits, under writeMu, for the host's acknowledgement.        *)
(*                                                                         *)
(* A writer is one call.  A remote writer is a Client.CommitSettings with  *)
(* the server's handler; a local one calls the provider's CommitSettings   *)
(* (SetSettings when it does not persist); a writer of the plugin itself   *)
(* calls ResetSetting or RegisterSettings.  The stream, the host's         *)
(* storage, the validators and the change handlers are external.           *)
(***************************************************************************)
EXTENDS Naturals, FiniteSets

CONSTANTS
  Writers,     \* calls that write settings
  Kind,        \* "remote", "local" or "plugin", for each writer
  Saves,       \* the remote and local writers with a persist function
  Change,      \* the settings a writer names, with raw values or definitions
  Settings,    \* setting IDs
  CategoryOf,  \* the category of each setting
  Initial,     \* the definitions the provider is built with
  Normal,      \* type -> raw value -> normalized value, or None if invalid
  None         \* no value, no writer

Categories == {CategoryOf[s] : s \in Settings}
Remote == {w \in Writers : Kind[w] = "remote"}
Local == {w \in Writers : Kind[w] = "local"}
Changed(w) == DOMAIN Change[w]

\* The definitions the provider meets, the values settings may have, and what
\* it stores of a setting.
Types == DOMAIN Normal
Definitions ==
  {Initial[s] : s \in DOMAIN Initial}
    \cup UNION {{Change[w][s] : s \in Changed(w)} : w \in Writers \ (Remote \cup Local)}
Values ==
  ({d.default : d \in Definitions}
    \cup UNION {{Normal[t][v] : v \in DOMAIN Normal[t]} : t \in Types}) \ {None}
Stored == [type : Types, default : Values, value : Values]

\* Every type has a validator, and it decides about any raw value.
ASSUME SettingsAssumption ==
  /\ IsFiniteSet(Writers) /\ None \notin Writers /\ None \notin Stored
  /\ \A w \in Writers : Kind[w] \in {"remote", "local", "plugin"}
  /\ Saves \subseteq Remote \cup Local
  /\ \A w \in Writers : Changed(w) \subseteq Settings /\ Changed(w) # {}
  /\ DOMAIN Initial \subseteq Settings
  /\ Definitions \subseteq [type : Types, default : Values]
  /\ \A w \in Remote \cup Local, t \in Types :
       \A s \in Changed(w) : Change[w][s] \in DOMAIN Normal[t]

VARIABLES
  pc,        \* each writer inside the provider
  writeMu,   \* the writer that holds it, or None
  store,     \* provider.store: setting -> its type, default and value, or None
  prepared,  \* each writer: the settings it publishes, or None
  client,    \* each remote writer inside Client.CommitSettings
  up,        \* the message on its way to the server, for each remote writer
  down,      \* the message on its way to the client
  cut,       \* the calls whose context ended or whose stream broke
  durable,   \* what the persist functions stored: setting -> value, or None
  result,    \* what each call returned
  handlers,  \* the categories with a change handler
  pending,   \* each writer: the categories whose handler it still has to call
  held,      \* each writer: the version of the values it read for a handler
  version,   \* category -> how often it was written
  notified,  \* category -> the newest version its handler was given
  effects,   \* what each writer has done: "saved", "published"
  unsaved    \* the settings written without persistence since they were last saved

provider == <<pc, writeMu, store, prepared>>
stream == <<client, up, down, cut>>
notification == <<handlers, pending, held, version, notified>>
ledger == <<durable, effects, unsaved>>
vars == <<provider, stream, notification, ledger, result>>

-----------------------------------------------------------------------------
(* State.                                                                  *)

Define(definition) ==
  [type |-> definition.type, default |-> definition.default, value |-> definition.default]

Init ==
  /\ pc = [w \in Writers |-> IF w \in Remote THEN "idle" ELSE "lock"]
  /\ writeMu = None
  /\ store = [s \in Settings |-> IF s \in DOMAIN Initial THEN Define(Initial[s]) ELSE None]
  /\ prepared = [w \in Writers |-> None]
  /\ client = [w \in Remote |-> "idle"]
  /\ up = [w \in Remote |-> "none"]
  /\ down = [w \in Remote |-> "none"]
  /\ cut = {}
  /\ durable = [s \in Settings |-> None]
  /\ result = [w \in Writers |-> "none"]
  /\ handlers = {}
  /\ pending = [w \in Writers |-> {}]
  /\ held = [w \in Writers |-> None]
  /\ version = [c \in Categories |-> 0]
  /\ notified = [c \in Categories |-> 0]
  /\ effects = [w \in Writers |-> {}]
  /\ unsaved = {}

-----------------------------------------------------------------------------
(* The client's end of a commit.                                           *)

Answer(w, outcome) ==
  /\ result' = [result EXCEPT ![w] = outcome]
  /\ client' = [client EXCEPT ![w] = "end"]

\* The stream is opened and the proposal sent.
Propose(w) ==
  /\ client[w] = "idle"
  /\ client' = [client EXCEPT ![w] = "prepare"]
  /\ up' = [up EXCEPT ![w] = "proposal"]
  /\ UNCHANGED <<provider, notification, ledger, result, down, cut>>

\* The prepared values arrive, or an error: nothing was persisted yet.
ReceivePrepared(w) ==
  /\ client[w] = "prepare"
  /\ \/ /\ down[w] = "prepared"
        /\ client' = [client EXCEPT ![w] = "persist"]
        /\ down' = [down EXCEPT ![w] = "none"]
        /\ UNCHANGED result
     \/ (down[w] = "rejected" \/ w \in cut) /\ Answer(w, "error") /\ UNCHANGED down
  /\ UNCHANGED <<provider, notification, ledger, up, cut>>

\* The values of w are persisted: what was stored before is replaced.
Save(w) ==
  /\ durable' = [s \in Settings |->
                   IF s \in Changed(w) THEN prepared[w][s].value ELSE durable[s]]
  /\ effects' = [effects EXCEPT ![w] = @ \cup {"saved"}]
  /\ unsaved' = unsaved \ Changed(w)

\* The host persists.  On failure the server is told, as far as it is there.
Persist(w) ==
  /\ client[w] = "persist"
  /\ \/ /\ client' = [client EXCEPT ![w] = "ack"]
        /\ IF w \in Saves THEN Save(w) ELSE UNCHANGED ledger
        /\ UNCHANGED <<result, up>>
     \/ /\ w \in Saves
        /\ Answer(w, "error")
        /\ up' = [up EXCEPT ![w] = IF w \in cut THEN @ ELSE "aborted"]
        /\ UNCHANGED ledger
  /\ UNCHANGED <<provider, notification, down, cut>>

\* From here on every failure is durable success with uncertain application.
SendAck(w) ==
  /\ client[w] = "ack"
  /\ IF w \in cut
       THEN Answer(w, "uncertain") /\ UNCHANGED up
       ELSE /\ up' = [up EXCEPT ![w] = "saved"]
            /\ client' = [client EXCEPT ![w] = "result"]
            /\ UNCHANGED result
  /\ UNCHANGED <<provider, notification, ledger, down, cut>>

\* Mutant of ReceiveResult: an error after the acknowledgement is passed on.
ReceiveResultOrError(w) ==
  /\ client[w] = "result"
  /\ \/ down[w] = "committed" /\ Answer(w, "applied")
     \/ (down[w] = "rejected" \/ w \in cut) /\ Answer(w, "error")
  /\ UNCHANGED <<provider, notification, ledger, up, down, cut>>

ReceiveResult(w) ==
  /\ client[w] = "result"
  /\ \/ down[w] = "committed" /\ Answer(w, "applied")
     \/ (down[w] = "rejected" \/ w \in cut) /\ Answer(w, "uncertain")
  /\ UNCHANGED <<provider, notification, ledger, up, down, cut>>

\* The caller cancels, the 30 seconds of a remote commit are over, or its
\* transport breaks: what is under way may still arrive, later messages do not.
Cut(w) ==
  /\ w \notin cut /\ result[w] = "none"
  /\ w \in Local \/ (w \in Remote /\ client[w] # "idle")
  /\ cut' = cut \cup {w}
  /\ UNCHANGED <<provider, notification, ledger, result, client, up, down>>

-----------------------------------------------------------------------------
(* The provider's commit, under writeMu.                                   *)

\* The call returns to its caller, or through the server to the client.
Return(w, outcome) ==
  /\ pc' = [pc EXCEPT ![w] = "end"]
  /\ IF w \in Remote
       THEN /\ down' = [down EXCEPT ![w] = CASE w \in cut -> @
                                             [] outcome = "applied" -> "committed"
                                             [] OTHER -> "rejected"]
            /\ UNCHANGED result
       ELSE result' = [result EXCEPT ![w] = outcome] /\ UNCHANGED down

\* Nothing is published; writeMu is released if it was taken.
Fail(w) ==
  /\ Return(w, "error")
  /\ writeMu' = IF writeMu = w THEN None ELSE writeMu
  /\ UNCHANGED <<store, prepared, client, up, cut, notification, ledger>>

\* The server's handler receives the proposal and calls the provider.
ReceiveProposal(w) ==
  /\ pc[w] = "idle" /\ up[w] = "proposal"
  /\ pc' = [pc EXCEPT ![w] = "lock"]
  /\ up' = [up EXCEPT ![w] = "none"]
  /\ UNCHANGED <<writeMu, store, prepared, client, down, cut, notification, ledger, result>>

\* cancelableMutex.lock: a call that has ended does not keep the gate.  The end
\* of a stream reaches the server's context with some delay.
Lock(w) ==
  /\ pc[w] = "lock" /\ w \in Remote \cup Local
  /\ \/ w \in cut /\ Fail(w)
     \/ /\ writeMu = None
        /\ w \in cut => w \in Remote
        /\ writeMu' = w
        /\ pc' = [pc EXCEPT ![w] = "prepare"]
        /\ UNCHANGED <<store, prepared, stream, notification, ledger, result>>

\* The settings are read under storeMu, their values normalized and validated.
Prepare(w) ==
  /\ pc[w] = "prepare"
  /\ IF \E s \in Changed(w) : store[s] = None \/ Normal[store[s].type][Change[w][s]] = None
       THEN Fail(w)
       ELSE /\ prepared' = [prepared EXCEPT ![w] =
                 [s \in Changed(w) |->
                    [store[s] EXCEPT !.value = Normal[store[s].type][Change[w][s]]]]]
            /\ pc' = [pc EXCEPT ![w] = "check"]
            /\ UNCHANGED <<writeMu, store, stream, notification, ledger, result>>

\* The last look at the context of a commit.
Check(w) ==
  /\ pc[w] = "check"
  /\ \/ w \in cut /\ Fail(w)
     \/ /\ w \in cut => w \in Remote
        /\ pc' = [pc EXCEPT ![w] = "persist"]
        /\ UNCHANGED <<writeMu, store, prepared, stream, notification, ledger, result>>

\* A local persist function stores the values or fails; without one it is skipped.
PersistLocally(w) ==
  /\ pc[w] = "persist" /\ w \in Local
  /\ \/ /\ IF w \in Saves THEN Save(w) ELSE UNCHANGED ledger
        /\ pc' = [pc EXCEPT ![w] = "publish"]
        /\ UNCHANGED <<writeMu, store, prepared, stream, notification, result>>
     \/ w \in Saves /\ Fail(w)

\* The server's persist callback sends the prepared values.
Offer(w) ==
  /\ pc[w] = "persist" /\ w \in Remote
  /\ \/ w \in cut /\ Fail(w)
     \/ /\ pc' = [pc EXCEPT ![w] = "await"]
        /\ down' = [down EXCEPT ![w] = IF w \in cut THEN @ ELSE "prepared"]
        /\ UNCHANGED <<writeMu, store, prepared, client, up, cut, notification, ledger, result>>

\* The callback accepts what the client sent.
Accept(w) ==
  /\ pc' = [pc EXCEPT ![w] = "publish"]
  /\ UNCHANGED <<writeMu, store, prepared, stream, notification, ledger, result>>

\* Mutant of ReceiveAck: a broken stream does not release the callback.
ReceiveAckForever(w) ==
  /\ pc[w] = "await"
  /\ \/ up[w] = "saved" /\ Accept(w)
     \/ up[w] = "aborted" /\ Fail(w)

\* The callback waits for the acknowledgement, an abort or the end of the stream.
ReceiveAck(w) ==
  /\ pc[w] = "await"
  /\ \/ up[w] = "saved" /\ Accept(w)
     \/ (up[w] = "aborted" \/ w \in cut) /\ Fail(w)

\* Writing categories makes a new version of each.
Bump(settings) ==
  version' = [c \in Categories |->
                IF \E s \in settings : CategoryOf[s] = c THEN version[c] + 1 ELSE version[c]]

\* The prepared settings replace the stored ones and writeMu is released.
PublishPrepared(w) ==
  /\ store' = [s \in Settings |-> IF s \in Changed(w) THEN prepared[w][s] ELSE store[s]]
  /\ writeMu' = None
  /\ pc' = [pc EXCEPT ![w] = "snapshot"]
  /\ Bump(Changed(w))
  /\ effects' = [effects EXCEPT ![w] = @ \cup {"published"}]
  /\ unsaved' = IF w \in Saves THEN unsaved ELSE unsaved \cup Changed(w)
  /\ UNCHANGED <<prepared, stream, handlers, pending, held, notified, durable, result>>

\* Mutant of Publish: the context is looked at once more.
PublishUnlessCut(w) ==
  /\ pc[w] = "publish"
  /\ IF w \in cut THEN Fail(w) ELSE PublishPrepared(w)

Publish(w) ==
  /\ pc[w] = "publish"
  /\ PublishPrepared(w)

-----------------------------------------------------------------------------
(* The other writers.                                                      *)

\* ResetSetting: the default becomes the value, under both locks.
ResetSetting(w, s) ==
  /\ pc[w] = "lock" /\ Kind[w] = "plugin" /\ writeMu = None
  /\ IF store[s] = None
       THEN Fail(w)
       ELSE /\ store' = [store EXCEPT ![s].value = store[s].default]
            /\ prepared' = [prepared EXCEPT ![w] = [x \in {s} |-> store'[s]]]
            /\ pc' = [pc EXCEPT ![w] = "snapshot"]
            /\ Bump({s})
            /\ effects' = [effects EXCEPT ![w] = {"published"}]
            /\ unsaved' = unsaved \cup {s}
            /\ UNCHANGED <<writeMu, stream, handlers, pending, held, notified, durable, result>>

\* A setting of the same type keeps its value; otherwise it has its new default.
Redefine(w, s) ==
  IF store[s] # None /\ store[s].type = Change[w][s].type
    THEN [Define(Change[w][s]) EXCEPT !.value = store[s].value]
    ELSE Define(Change[w][s])

\* RegisterSettings replaces definitions and calls no handler.
Redefinition(w) ==
  /\ pc[w] = "lock" /\ Kind[w] = "plugin"
  /\ store' = [s \in Settings |-> IF s \in Changed(w) THEN Redefine(w, s) ELSE store[s]]
  /\ Return(w, "applied")
  /\ unsaved' = unsaved \cup {s \in Changed(w) :
                                store[s] = None \/ store'[s].value # store[s].value}
  /\ UNCHANGED <<writeMu, prepared, client, up, cut, notification, durable, effects>>

\* Mutant of RegisterSettings: only storeMu is taken.
RegisterSettingsUnserialized(w) == Redefinition(w)

RegisterSettings(w) == writeMu = None /\ Redefinition(w)

-----------------------------------------------------------------------------
(* Change handlers, called without a lock.                                 *)

RegisterChangeHandler(c) ==
  /\ handlers' = handlers \cup {c}
  /\ c \notin handlers
  /\ UNCHANGED <<provider, stream, pending, held, version, notified, ledger, result>>

\* The categories w has published settings of.
Written(w) == {CategoryOf[s] : s \in DOMAIN prepared[w]}

\* notifyChangeHandlers copies the handlers of the changed categories ...
SnapshotHandlers(w) ==
  /\ pc[w] = "snapshot"
  /\ pc' = [pc EXCEPT ![w] = "notify"]
  /\ pending' = [pending EXCEPT ![w] = Written(w) \cap handlers]
  /\ UNCHANGED <<writeMu, store, prepared, stream, handlers, held, version, notified, ledger, result>>

\* ... reads the current values of a category under storeMu ...
ReadCategory(w) ==
  /\ pc[w] = "notify" /\ held[w] = None
  /\ \E c \in pending[w] : held' = [held EXCEPT ![w] = [category |-> c, version |-> version[c]]]
  /\ UNCHANGED <<provider, stream, handlers, pending, version, notified, ledger, result>>

\* The handler of c was called with the values w holds.
Called(w, c) ==
  /\ notified' = [notified EXCEPT ![c] = IF @ < held[w].version THEN held[w].version ELSE @]
  /\ pending' = [pending EXCEPT ![w] = @ \ {c}]
  /\ held' = [held EXCEPT ![w] = None]
  /\ UNCHANGED <<provider, stream, handlers, version, ledger, result>>

\* Mutant of CallHandler: no call while another one for the category is due.
CallHandlerOnce(w) ==
  /\ held[w] # None
  /\ IF \E v \in Writers \ {w} : held[v] # None
       THEN /\ pending' = [pending EXCEPT ![w] = @ \ {held[w].category}]
            /\ held' = [held EXCEPT ![w] = None]
            /\ UNCHANGED <<provider, stream, handlers, version, notified, ledger, result>>
       ELSE Called(w, held[w].category)

\* ... and calls the handler with them; its panic is recovered from.
CallHandler(w) ==
  /\ held[w] # None
  /\ Called(w, held[w].category)

\* The call returns, and the server sends the result, after the last handler.
Finish(w) ==
  /\ pc[w] = "notify" /\ pending[w] = {}
  /\ Return(w, "applied")
  /\ UNCHANGED <<writeMu, store, prepared, client, up, cut, notification, ledger>>

-----------------------------------------------------------------------------
(* Specification.                                                          *)

ClientStep(w) == ReceivePrepared(w) \/ Persist(w) \/ SendAck(w) \/ ReceiveResult(w)

ServerStep(w) == ReceiveProposal(w) \/ Offer(w) \/ ReceiveAck(w)

\* The server's handler calls the provider: they are one goroutine.
ProviderStep(w) ==
  \/ w \in Remote /\ ServerStep(w)
  \/ Lock(w) \/ Prepare(w) \/ Check(w) \/ PersistLocally(w) \/ Publish(w)
  \/ SnapshotHandlers(w) \/ ReadCategory(w) \/ CallHandler(w) \/ Finish(w)

Next ==
  \/ \E w \in Remote : Propose(w) \/ ClientStep(w)
  \/ \E w \in Writers : Cut(w) \/ ProviderStep(w) \/ RegisterSettings(w)
  \/ \E w \in Writers : \E s \in Changed(w) : ResetSetting(w, s)
  \/ \E c \in Categories : RegisterChangeHandler(c)

Spec == Init /\ [][Next]_vars

\* Running goroutines go on, persist functions and handlers return, and the
\* timeout of a remote commit fires (client.go:68).
Fairness ==
  /\ \A w \in Remote : WF_vars(ClientStep(w)) /\ WF_vars(Cut(w))
  /\ \A w \in Writers : WF_vars(ProviderStep(w))

FairSpec == Spec /\ Fairness

-----------------------------------------------------------------------------
(* Properties.                                                             *)

\* A commit that returned an error left nothing behind: the host stored none of
\* its values and the plugin published none.  Once a persist function has
\* succeeded no cancellation turns the commit into a failure.
RefusedCommitHasNoEffect == \A w \in Writers : result[w] = "error" => effects[w] = {}

\* A commit whose outcome is open or was reported as uncertain.
InDoubt(w) ==
  /\ "saved" \in effects[w]
  /\ result[w] \in {"none", "uncertain"}

\* Once a setting is persisted, the stored value is the one the plugin works
\* with, unless it belongs to a commit in doubt, or the setting was written
\* without persistence since then: no divergence goes unreported, in any order
\* of overlapping commits, late persistence, lost acknowledgements and timeouts.
DurableIsAppliedOrInDoubt ==
  \A s \in Settings : durable[s] # None /\ s \notin unsaved =>
    \/ durable[s] = store[s].value
    \/ \E w \in Saves : /\ InDoubt(w) /\ s \in Changed(w)
                        /\ durable[s] = prepared[w][s].value

Definition(s) == IF store[s] = None THEN None ELSE [store[s] EXCEPT !.value = None]

\* A registered definition is never undone by a commit that read the setting
\* before the registration and publishes it as a whole afterwards.
DefinitionsChangeByRegistration ==
  [][\A s \in Settings : Definition(s)' # Definition(s) =>
       \E w \in Writers : Kind[w] = "plugin" /\ s \in Changed(w) /\ pc[w] = "lock" /\ pc'[w] = "end"]_vars

\* A category that has a change handler when it is written is eventually
\* reported to it with values at least as new, whatever other writers do.
ChangesAreNotified ==
  \A c \in Categories, n \in 1 .. Cardinality(Writers) :
    (/\ c \in handlers /\ version[c] = n
     /\ \E w \in Writers : pc[w] = "snapshot" /\ c \in Written(w))
    ~> (notified[c] >= n)

\* Every commit returns, however the stream breaks while it holds writeMu or
\* waits for it.
EveryCommitReturns ==
  \A w \in Writers : (pc[w] # "idle" /\ w \in Remote \cup Local) ~> (result[w] # "none")
=============================================================================
