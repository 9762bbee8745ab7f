---------------------- MODULE ConnectionMetadataProofs ----------------------
(***************************************************************************)
(* Theorems about ConnectionMetadata for any finite set of connections, any *)
(* generations, keys, observations and watchers, and any capacity of their *)
(* channels.                                                               *)
(***************************************************************************)
EXTENDS ConnectionMetadata, FiniteSetTheorems, TLAPS

-----------------------------------------------------------------------------
(* The inductive invariant.                                                *)

Unregistered == {"free", "gone"}

\* The registry holds exactly the generations between start and unregistration,
\* each under its own ID, and only for published connections.
Registration ==
  /\ \A g \in Generations :
       slot[g].phase \notin Unregistered => slot[g].id \in Ids /\ clients[slot[g].id] = g
  /\ \A id \in Ids :
       clients[id] # None =>
         /\ slot[clients[id]].phase \notin Unregistered /\ slot[clients[id]].id = id
         /\ id \in connections
  /\ \A g \in Generations : slot[g].stopping => slot[g].cancelled

\* While a change is staged, the generations of what it changes are among those
\* it has retired, and what it adds or removes is among what it changes.
Staging ==
  /\ ~change.staged => change = NoChange
  /\ change.staged =>
       /\ connections \ change.next \subseteq change.changed
       /\ change.next \ connections \subseteq change.changed
  /\ \A id \in change.changed : clients[id] # None => clients[id] \in change.retired

\* The generation a snapshot serves is ready, registered and not retired.
Served(id) ==
  LET m == metadata[id] IN
  /\ m.active <=> m.slot # None
  /\ m.slot # None =>
       /\ m.generation = m.slot /\ clients[id] = m.slot /\ ~closed
       /\ slot[m.slot].phase = "ready" /\ ~slot[m.slot].stopping

\* The observation of a connection, and what its snapshot says about it.
Observed(id) ==
  LET m == metadata[id] IN
  /\ m.refreshing <=> (m.slot # None /\ m.running # None)
  /\ m.pending => m.refreshing
  /\ m.running # None => job[m.running].id = id

\* The facts are those of the generation shown, the current ones of a live one.
Attributed(id) ==
  LET m == metadata[id] IN
  \A k \in Keys :
    /\ m.entries[k].by # None => m.entries[k].by = m.generation
    /\ m.entries[k].state = "current" => m.active

\* Tombstones are those of the removed connections.
Marked(id) ==
  /\ metadata[id].removed <=> (metadata[id].revision > 0 /\ id \notin connections)
  /\ id \in connections => metadata[id].revision > 0

Snapshots == \A id \in Ids : Served(id) /\ Observed(id) /\ Attributed(id) /\ Marked(id)

\* An observation belongs to a ready generation of its connection, which knows of
\* it; once the snapshot has another generation or none, that one is retired.
Running(j) ==
  LET o == job[j] IN
  o # NoObservation =>
    /\ o.id \in Ids /\ o.by \in Generations
    /\ o = [id |-> o.id, by |-> o.by]
    /\ slot[o.by].phase = "ready" /\ slot[o.by].id = o.id
    /\ metadata[o.id].running = j
    /\ metadata[o.id].slot = o.by \/ slot[o.by].stopping

Observers == \A j \in Jobs : Running(j)

\* q holds the revisions of id after low up to high, each once and in order.
Continues(q, id, low, high) ==
  /\ \A i \in 1 .. Len(q) : q[i].id = id => low < q[i].revision /\ q[i].revision <= high
  /\ \A r \in Nat : low < r /\ r <= high =>
       \E i \in 1 .. Len(q) : q[i].id = id /\ q[i].revision = r
  /\ \A i, k \in 1 .. Len(q) :
       i < k /\ q[i].id = id /\ q[k].id = id => q[i].revision < q[k].revision

\* What is still to be replayed is what the sink has not been given of the state
\* at the subscription, one snapshot of each connection.
Replaying(v) ==
  /\ \A e \in v.replay : e.revision = v.start[e.id] /\ e.revision > 0 /\ v.seen[e.id] = 0
  /\ \A e, f \in v.replay : e.id = f.id => e = f
  /\ \A id \in Ids : v.seen[id] = 0 /\ v.start[id] > 0 => \E e \in v.replay : e.id = id

\* Where the event loop of a watcher is.
Looping(v) ==
  /\ v.pc # "replay" => v.replay = {}
  /\ v.pc = "took" => \E e \in Messages : v.hand = {e}
  /\ v.pc # "took" => v.hand = {}
  /\ Len(v.queue) <= Capacity

\* What a watcher has yet to hand to its sink, and what the sink will have of id
\* after the replay: Ahead and Base of one watcher.
Taken(v) == IF v.hand = {} THEN << >> ELSE <<CHOOSE e \in v.hand : TRUE>>
AheadOf(v) == Taken(v) \o v.queue
BaseOf(v, id) == IF v.seen[id] = 0 THEN v.start[id] ELSE v.seen[id]

\* A watcher was promised nothing that is not published; what is ahead of it
\* continues what its sink has, or will have after the replay.
Following(v, m) ==
  /\ \A id \in Ids : v.start[id] <= m[id].revision
  /\ ~v.overflow =>
       \A id \in Ids :
         /\ BaseOf(v, id) <= m[id].revision
         /\ Continues(AheadOf(v), id, BaseOf(v, id), m[id].revision)

Follower(v, m) == v.pc # "idle" => Replaying(v) /\ Looping(v) /\ Following(v, m)

Followers == \A w \in Watchers : Follower(watch[w], metadata)

IInv ==
  /\ TypeOK
  /\ Registration
  /\ Staging
  /\ Snapshots
  /\ Observers
  /\ Followers

-----------------------------------------------------------------------------
(* Revisions in a queue.                                                   *)

\* An empty queue continues a revision up to itself.
LEMMA NothingAhead ==
  ASSUME NEW id, NEW n \in Nat
  PROVE  Continues(<< >>, id, n, n)
  BY DEF Continues

\* The messages of a queue have revisions.
LEMMA QueueType ==
  ASSUME NEW q \in Seq(Messages)
  PROVE  Len(q) \in Nat /\ \A i \in 1 .. Len(q) : q[i] \in Messages /\ q[i].revision \in Nat
<1>1. Len(q) \in Nat /\ \A i \in 1 .. Len(q) : q[i] \in Messages
  OBVIOUS
<1>2. \A e \in Messages : e.revision \in Nat
  BY DEF Messages
<1> QED BY <1>1, <1>2

\* A queue that continues where another ends can be appended to it.
LEMMA ContinuesConcat ==
  ASSUME NEW p \in Seq(Messages), NEW q \in Seq(Messages), NEW id \in Ids,
         NEW a \in Nat, NEW b \in Nat, NEW c \in Nat, a <= b, b <= c,
         Continues(p, id, a, b), Continues(q, id, b, c)
  PROVE  Continues(p \o q, id, a, c)
<1> DEFINE s == p \o q
<1>1. /\ Len(p) \in Nat /\ Len(q) \in Nat
      /\ s \in Seq(Messages) /\ Len(s) = Len(p) + Len(q)
      /\ \A i \in 1 .. Len(s) : s[i] = IF i <= Len(p) THEN p[i] ELSE q[i - Len(p)]
  OBVIOUS
<1>2. /\ \A i \in 1 .. Len(p) : p[i].revision \in Nat
      /\ \A i \in 1 .. Len(q) : q[i].revision \in Nat
  BY QueueType
<1> HIDE DEF s
<1>3. \A i \in 1 .. Len(s) :
        \/ i \in 1 .. Len(p) /\ s[i] = p[i]
        \/ i > Len(p) /\ i - Len(p) \in 1 .. Len(q) /\ s[i] = q[i - Len(p)]
  BY <1>1
<1>4. \A i \in 1 .. Len(s) : s[i].id = id => a < s[i].revision /\ s[i].revision <= c
  <2> SUFFICES ASSUME NEW i \in 1 .. Len(s), s[i].id = id
               PROVE  a < s[i].revision /\ s[i].revision <= c
    OBVIOUS
  <2>1. CASE i \in 1 .. Len(p) /\ s[i] = p[i]
    <3>1. a < p[i].revision /\ p[i].revision <= b /\ p[i].revision \in Nat
      BY <1>2, <2>1 DEF Continues
    <3> QED BY <2>1, <3>1
  <2>2. CASE i - Len(p) \in 1 .. Len(q) /\ s[i] = q[i - Len(p)]
    <3>1. b < s[i].revision /\ s[i].revision <= c /\ s[i].revision \in Nat
      BY <1>2, <2>2 DEF Continues
    <3> QED BY <3>1
  <2> QED BY <1>3, <2>1, <2>2
<1>5. ASSUME NEW r \in Nat, a < r, r <= c
      PROVE  \E i \in 1 .. Len(s) : s[i].id = id /\ s[i].revision = r
  <2>1. CASE r <= b
    <3>1. PICK i \in 1 .. Len(p) : p[i].id = id /\ p[i].revision = r
      BY <1>5, <2>1 DEF Continues
    <3>2. i \in 1 .. Len(s) /\ s[i] = p[i]
      BY <1>1
    <3> QED BY <3>1, <3>2
  <2>2. CASE r > b
    <3>1. PICK i \in 1 .. Len(q) : q[i].id = id /\ q[i].revision = r
      BY <1>5, <2>2 DEF Continues
    <3>2. i + Len(p) \in 1 .. Len(s) /\ ~(i + Len(p) <= Len(p)) /\ (i + Len(p)) - Len(p) = i
      BY <1>1
    <3>3. s[i + Len(p)] = q[i]
      BY <1>1, <3>2
    <3> QED BY <3>1, <3>2, <3>3
  <2> QED BY <2>1, <2>2
<1>6. ASSUME NEW i \in 1 .. Len(s), NEW k \in 1 .. Len(s), i < k, s[i].id = id, s[k].id = id
      PROVE  s[i].revision < s[k].revision
  <2>1. CASE k \in 1 .. Len(p)
    <3>1. i \in 1 .. Len(p) /\ s[i] = p[i] /\ s[k] = p[k]
      BY <1>1, <1>6, <2>1
    <3> QED BY <1>6, <2>1, <3>1 DEF Continues
  <2>2. CASE k > Len(p) /\ i \in 1 .. Len(p)
    <3>1. s[i] = p[i] /\ k - Len(p) \in 1 .. Len(q) /\ s[k] = q[k - Len(p)]
      BY <1>1, <2>2
    <3>2. s[i].revision <= b /\ b < s[k].revision
      BY <1>6, <2>2, <3>1 DEF Continues
    <3> QED BY <1>2, <2>2, <3>1, <3>2
  <2>3. CASE k > Len(p) /\ i > Len(p)
    <3>1. /\ i - Len(p) \in 1 .. Len(q) /\ s[i] = q[i - Len(p)]
          /\ k - Len(p) \in 1 .. Len(q) /\ s[k] = q[k - Len(p)]
          /\ i - Len(p) < k - Len(p)
      BY <1>1, <1>6, <2>3
    <3>2. q[i - Len(p)].revision < q[k - Len(p)].revision
      BY <1>6, <3>1 DEF Continues
    <3> QED BY <3>1, <3>2
  <2> QED BY <1>3, <2>1, <2>2, <2>3
<1>7. Continues(s, id, a, c)
  BY <1>4, <1>5, <1>6 DEF Continues
<1> QED BY <1>7 DEF s

\* The first of what is ahead is the next revision of its connection, and what
\* follows it continues from there.
LEMMA ContinuesTail ==
  ASSUME NEW e \in Messages, NEW q \in Seq(Messages), NEW id \in Ids,
         NEW a \in Nat, NEW b \in Nat, Continues(<<e>> \o q, id, a, b)
  PROVE  /\ e.id = id => e.revision = a + 1 /\ a < b /\ Continues(q, id, a + 1, b)
         /\ e.id # id => Continues(q, id, a, b)
<1> DEFINE s == <<e>> \o q
<1>1. /\ Len(q) \in Nat /\ s \in Seq(Messages) /\ Len(s) = Len(q) + 1 /\ s[1] = e
      /\ \A i \in 1 .. Len(q) : s[i + 1] = q[i]
  OBVIOUS
<1>2. Continues(s, id, a, b)
  OBVIOUS
<1> HIDE DEF s
<1>3. \A i \in 1 .. Len(s) : s[i].revision \in Nat
  BY <1>1, QueueType
<1>4. /\ \A i \in 1 .. Len(q) : i + 1 \in 1 .. Len(s)
      /\ 1 \in 1 .. Len(s)
  BY <1>1
<1>5. \A i \in 1 .. Len(s) : i = 1 \/ (i - 1 \in 1 .. Len(q) /\ s[i] = q[i - 1])
  <2> SUFFICES ASSUME NEW i \in 1 .. Len(s), i # 1
               PROVE  i - 1 \in 1 .. Len(q) /\ s[i] = q[i - 1]
    OBVIOUS
  <2>1. i - 1 \in 1 .. Len(q) /\ (i - 1) + 1 = i
    BY <1>1
  <2> QED BY <1>1, <2>1
<1>6. /\ \A i \in 1 .. Len(s) : s[i].revision \in Nat
      /\ \A i \in 1 .. Len(q) : i + 1 \in 1 .. Len(s)
      /\ 1 \in 1 .. Len(s)
      /\ \A i \in 1 .. Len(s) : i = 1 \/ (i - 1 \in 1 .. Len(q) /\ s[i] = q[i - 1])
  BY <1>3, <1>4, <1>5
<1>7. \A i, k \in 1 .. Len(q) :
        i < k /\ q[i].id = id /\ q[k].id = id => q[i].revision < q[k].revision
  <2> SUFFICES ASSUME NEW i \in 1 .. Len(q), NEW k \in 1 .. Len(q),
                      i < k, q[i].id = id, q[k].id = id
               PROVE  q[i].revision < q[k].revision
    OBVIOUS
  <2>1. i + 1 < k + 1 /\ s[i + 1] = q[i] /\ s[k + 1] = q[k]
    BY <1>1
  <2> QED BY <1>2, <1>6, <2>1 DEF Continues
<1>8. CASE e.id # id
  <2>1. \A i \in 1 .. Len(q) : q[i].id = id => a < q[i].revision /\ q[i].revision <= b
    <3> SUFFICES ASSUME NEW i \in 1 .. Len(q), q[i].id = id
                 PROVE  a < q[i].revision /\ q[i].revision <= b
      OBVIOUS
    <3>1. i + 1 \in 1 .. Len(s) /\ s[i + 1] = q[i]
      BY <1>1, <1>4
    <3> QED BY <1>2, <3>1 DEF Continues
  <2>2. ASSUME NEW r \in Nat, a < r, r <= b
        PROVE  \E i \in 1 .. Len(q) : q[i].id = id /\ q[i].revision = r
    <3>1. PICK i \in 1 .. Len(s) : s[i].id = id /\ s[i].revision = r
      BY <1>2, <2>2 DEF Continues
    <3> QED BY <1>1, <1>6, <1>8, <3>1
  <2> QED BY <1>7, <1>8, <2>1, <2>2 DEF Continues
<1>9. CASE e.id = id
  <2>1. a < e.revision /\ e.revision <= b /\ e.revision \in Nat
    BY <1>1, <1>2, <1>6, <1>9 DEF Continues
  <2>2. \A i \in 1 .. Len(q) : q[i].id = id => e.revision < q[i].revision /\ q[i].revision <= b
    <3> SUFFICES ASSUME NEW i \in 1 .. Len(q), q[i].id = id
                 PROVE  e.revision < q[i].revision /\ q[i].revision <= b
      OBVIOUS
    <3>1. 1 < i + 1 /\ s[i + 1] = q[i] /\ s[1] = e
      BY <1>1
    <3> QED BY <1>2, <1>6, <1>9, <3>1 DEF Continues
  <2>3. e.revision = a + 1
    <3> SUFFICES ASSUME a + 1 < e.revision PROVE FALSE
      BY <2>1
    <3>1. PICK i \in 1 .. Len(s) : s[i].id = id /\ s[i].revision = a + 1
      <4>1. a + 1 \in Nat /\ a < a + 1 /\ a + 1 <= b
        BY <2>1
      <4> QED BY <1>2, <4>1 DEF Continues
    <3>2. i - 1 \in 1 .. Len(q) /\ s[i] = q[i - 1]
      <4>1. i # 1
        BY <1>1, <3>1, <2>1
      <4> QED BY <1>5, <4>1
    <3>3. e.revision < s[i].revision
      BY <2>2, <3>1, <3>2
    <3> QED BY <2>1, <3>1, <3>3
  <2>4. ASSUME NEW r \in Nat, a + 1 < r, r <= b
        PROVE  \E i \in 1 .. Len(q) : q[i].id = id /\ q[i].revision = r
    <3>1. a < r
      BY <2>4
    <3>2. PICK i \in 1 .. Len(s) : s[i].id = id /\ s[i].revision = r
      BY <1>2, <2>4, <3>1 DEF Continues
    <3>3. i # 1
      BY <1>1, <2>3, <2>4, <3>2
    <3> QED BY <1>6, <3>2, <3>3
  <2> QED BY <1>7, <1>9, <2>1, <2>2, <2>3, <2>4 DEF Continues
<1> QED BY <1>8, <1>9

-----------------------------------------------------------------------------
(* Events.                                                                 *)

\* What changes while revisions only grow.
Grows(next) ==
  /\ metadata \in [Ids -> Metadata] /\ next \in [Ids -> Metadata]
  /\ \A id \in Ids : metadata[id].revision <= next[id].revision

\* The revisions of a snapshot are numbers.
LEMMA RevisionType ==
  \A m \in Metadata : m.revision \in Nat /\ m.removed \in BOOLEAN
  BY DEF Metadata

\* One section announces finitely many revisions.
LEMMA NewsFinite ==
  ASSUME NEW next, Grows(next)
  PROVE  IsFiniteSet(News(next)) /\ News(next) \in SUBSET Messages
<1> DEFINE Of(id) == {[id |-> id, revision |-> r, removed |-> next[id].removed] :
                        r \in metadata[id].revision + 1 .. next[id].revision}
           T == {Of(id) : id \in Ids}
<1>1. \A id \in Ids : /\ metadata[id].revision \in Nat /\ next[id].revision \in Nat
                      /\ next[id].removed \in BOOLEAN
  BY RevisionType DEF Grows
<1>2. ASSUME NEW id \in Ids
      PROVE  IsFiniteSet(Of(id)) /\ Of(id) \in SUBSET Messages
  <2> DEFINE I == metadata[id].revision + 1 .. next[id].revision
             f == [r \in I |-> [id |-> id, revision |-> r, removed |-> next[id].removed]]
  <2>1. IsFiniteSet(I)
    <3>1. metadata[id].revision + 1 \in Int /\ next[id].revision \in Int
      BY <1>1
    <3> QED BY <3>1, FS_Interval
  <2>2. f \in Surjection(I, Of(id))
    BY DEF Surjection
  <2>3. IsFiniteSet(Of(id))
    <3> HIDE DEF f, I, Of
    <3> QED BY <2>1, <2>2, FS_Surjection
  <2>4. \A r \in I : r \in Nat
    BY <1>1
  <2>5. Of(id) \in SUBSET Messages
    <3> SUFFICES ASSUME NEW r \in I
                 PROVE  [id |-> id, revision |-> r, removed |-> next[id].removed] \in Messages
      OBVIOUS
    <3> HIDE DEF I
    <3> QED BY <1>1, <2>4 DEF Messages
  <2> QED BY <2>3, <2>5
<1>3. IsFiniteSet(T)
  <2> DEFINE f == [id \in Ids |-> Of(id)]
  <2> HIDE DEF Of
  <2>1. f \in Surjection(Ids, T)
    BY DEF Surjection
  <2>2. IsFiniteSet(Ids)
    BY MetadataAssumption
  <2> HIDE DEF f, T
  <2> QED BY <2>1, <2>2, FS_Surjection
<1>4. News(next) = UNION T
  BY DEF News
<1> HIDE DEF Of
<1>5. \A S \in T : IsFiniteSet(S) /\ S \in SUBSET Messages
  BY <1>2
<1> HIDE DEF T
<1> QED BY <1>3, <1>4, <1>5, FS_UNION

\* In whatever order a section's events are queued, those of one connection
\* continue its old revision up to the new one.
LEMMA Arranged ==
  ASSUME NEW next, Grows(next), NEW es \in Arrangements(News(next))
  PROVE  /\ es \in Seq(Messages)
         /\ \A id \in Ids : Continues(es, id, metadata[id].revision, next[id].revision)
<1> DEFINE n == Cardinality(News(next))
           E == News(next)
<1>1. n \in Nat /\ E \in SUBSET Messages
  BY NewsFinite, FS_CardinalityType
<1>2. /\ es \in [1 .. n -> E]
      /\ \A e \in E : \E i \in DOMAIN es : es[i] = e
      /\ \A i, k \in DOMAIN es : i < k /\ es[i].id = es[k].id => es[i].revision < es[k].revision
  BY DEF Arrangements
<1>3. /\ es \in Seq(Messages) /\ Len(es) = n /\ DOMAIN es = 1 .. n
  <2> HIDE DEF n, E
  <2>1. es \in [1 .. n -> Messages]
    BY <1>1, <1>2
  <2> QED BY <1>1, <2>1
<1>4. ASSUME NEW id \in Ids
      PROVE  Continues(es, id, metadata[id].revision, next[id].revision)
  <2>1. \A i \in 1 .. Len(es) :
          \E j \in Ids : \E r \in metadata[j].revision + 1 .. next[j].revision :
            es[i] = [id |-> j, revision |-> r, removed |-> next[j].removed]
    <3>1. \A e \in E : \E j \in Ids : \E r \in metadata[j].revision + 1 .. next[j].revision :
            e = [id |-> j, revision |-> r, removed |-> next[j].removed]
      BY DEF News
    <3> HIDE DEF n, E
    <3> QED BY <1>2, <1>3, <3>1
  <2>2. metadata[id].revision \in Nat /\ next[id].revision \in Nat
    BY RevisionType DEF Grows
  <2>3. \A i \in 1 .. Len(es) : es[i].id = id =>
          es[i].revision \in metadata[id].revision + 1 .. next[id].revision
    <3> SUFFICES ASSUME NEW i \in 1 .. Len(es), es[i].id = id
                 PROVE  es[i].revision \in metadata[id].revision + 1 .. next[id].revision
      OBVIOUS
    <3>1. PICK j \in Ids : \E r \in metadata[j].revision + 1 .. next[j].revision :
            es[i] = [id |-> j, revision |-> r, removed |-> next[j].removed]
      BY <2>1
    <3>2. PICK r \in metadata[j].revision + 1 .. next[j].revision :
            es[i] = [id |-> j, revision |-> r, removed |-> next[j].removed]
      BY <3>1
    <3>3. es[i].id = j /\ es[i].revision = r
      BY <3>2
    <3> QED BY <3>3
  <2>4. ASSUME NEW r \in Nat, metadata[id].revision < r, r <= next[id].revision
        PROVE  \E i \in 1 .. Len(es) : es[i].id = id /\ es[i].revision = r
    <3>1. r \in metadata[id].revision + 1 .. next[id].revision
      BY <2>2, <2>4
    <3>2. [id |-> id, revision |-> r, removed |-> next[id].removed] \in E
      BY <3>1 DEF News
    <3> HIDE DEF n, E
    <3>3. PICK i \in 1 .. Len(es) :
            es[i] = [id |-> id, revision |-> r, removed |-> next[id].removed]
      BY <1>2, <1>3, <3>2
    <3> QED BY <3>3
  <2>5. \A i, k \in 1 .. Len(es) :
          i < k /\ es[i].id = id /\ es[k].id = id => es[i].revision < es[k].revision
    <3> HIDE DEF n, E
    <3> QED BY <1>2, <1>3
  <2>6. \A i \in 1 .. Len(es) : es[i].id = id =>
          metadata[id].revision < es[i].revision /\ es[i].revision <= next[id].revision
    BY <2>2, <2>3
  <2> QED BY <2>4, <2>5, <2>6 DEF Continues
<1> QED BY <1>3, <1>4

\* The parts of a watcher's record.
LEMMA WatchType ==
  ASSUME NEW v \in WatchCalls
  PROVE  /\ v.pc \in {"idle", "replay", "select", "took"} /\ v.overflow \in BOOLEAN
         /\ v.queue \in Seq(Messages) /\ Len(v.queue) \in Nat
         /\ v.replay \in SUBSET Messages /\ v.hand \in SUBSET Messages
         /\ v.start \in [Ids -> Nat] /\ v.seen \in [Ids -> Nat]
<1>1. /\ v.pc \in {"idle", "replay", "select", "took"} /\ v.overflow \in BOOLEAN
      /\ v.queue \in Seq(Messages)
      /\ v.replay \in SUBSET Messages /\ v.hand \in SUBSET Messages
      /\ v.start \in [Ids -> Nat] /\ v.seen \in [Ids -> Nat]
  BY DEF WatchCalls
<1> QED BY <1>1

\* Concatenation of queues is associative.
LEMMA QueueAssociative ==
  ASSUME NEW s \in Seq(Messages), NEW t \in Seq(Messages), NEW u \in Seq(Messages)
  PROVE  (s \o t) \o u = s \o (t \o u)
  OBVIOUS

\* An offer changes the queue, and drops the watcher if the events do not fit.
LEMMA Offered ==
  ASSUME NEW w \in Watchers, watch[w] \in WatchCalls, NEW es \in Seq(Messages),
         watch[w].pc # "idle" => Len(watch[w].queue) <= Capacity
  PROVE  LET v == watch[w]
             u == Offer(w, es)
         IN /\ u \in WatchCalls
            /\ u.pc = v.pc /\ u.replay = v.replay /\ u.hand = v.hand
            /\ u.start = v.start /\ u.seen = v.seen
            /\ u.pc # "idle" => Len(u.queue) <= Capacity
            /\ u.pc # "idle" /\ ~u.overflow => ~v.overflow /\ u.queue = v.queue \o es
<1> DEFINE v == watch[w]
           u == Offer(w, es)
<1>1. Len(es) \in Nat /\ Len(v.queue) \in Nat /\ Capacity \in Nat /\ v.queue \in Seq(Messages)
  BY WatchType, MetadataAssumption
<1>2. CASE ~Registered(w)
  BY <1>2 DEF Offer, Registered
<1>3. CASE Registered(w) /\ Len(v.queue) + Len(es) <= Capacity
  <2> DEFINE q == v.queue \o es
  <2>1. q \in Seq(Messages) /\ Len(q) <= Capacity
    BY <1>1, <1>3
  <2>2. u = [v EXCEPT !.queue = q]
    BY <1>3 DEF Offer
  <2> HIDE DEF q
  <2>3. /\ u \in WatchCalls
        /\ u.pc = v.pc /\ u.replay = v.replay /\ u.hand = v.hand
        /\ u.start = v.start /\ u.seen = v.seen /\ u.overflow = v.overflow /\ u.queue = q
    <3> HIDE DEF u
    <3> QED BY <2>1, <2>2 DEF WatchCalls
  <2> HIDE DEF u
  <2> QED BY <2>1, <2>3 DEF u, q
<1>4. CASE Registered(w) /\ ~(Len(v.queue) + Len(es) <= Capacity)
  <2> DEFINE k == Capacity - Len(v.queue)
             p == SubSeq(es, 1, k)
             q == v.queue \o p
  <2>1. k \in 0 .. Len(es)
    BY <1>1, <1>4 DEF Registered
  <2>2. p \in Seq(Messages) /\ Len(p) = k
    <3> HIDE DEF k
    <3> QED BY <1>1, <2>1
  <2>3. q \in Seq(Messages) /\ Len(q) <= Capacity
    <3> HIDE DEF p
    <3>1. q \in Seq(Messages) /\ Len(q) = Len(v.queue) + Len(p)
      BY <1>1, <2>2
    <3> HIDE DEF q
    <3> QED BY <1>1, <2>2, <3>1
  <2>4. u = [v EXCEPT !.queue = q, !.overflow = TRUE]
    BY <1>4 DEF Offer
  <2> HIDE DEF q
  <2>5. /\ u \in WatchCalls
        /\ u.pc = v.pc /\ u.replay = v.replay /\ u.hand = v.hand
        /\ u.start = v.start /\ u.seen = v.seen /\ u.overflow = TRUE /\ u.queue = q
    <3> HIDE DEF u
    <3> QED BY <2>3, <2>4 DEF WatchCalls
  <2> HIDE DEF u
  <2> QED BY <2>3, <2>5 DEF u
<1> QED BY <1>2, <1>3, <1>4

\* What is ahead of a watcher is a queue of messages.
LEMMA AheadType ==
  ASSUME NEW v \in WatchCalls, Looping(v)
  PROVE  /\ Taken(v) \in Seq(Messages) /\ AheadOf(v) \in Seq(Messages)
         /\ \A id \in Ids : BaseOf(v, id) \in Nat
<1>1. v.queue \in Seq(Messages) /\ v.start \in [Ids -> Nat] /\ v.seen \in [Ids -> Nat]
  BY WatchType
<1>2. Taken(v) \in Seq(Messages)
  <2>1. CASE v.hand = {}
    BY <2>1 DEF Taken
  <2>2. CASE v.hand # {}
    <3>1. (CHOOSE e \in v.hand : TRUE) \in Messages
      BY <2>2, WatchType
    <3> QED BY <2>2, <3>1 DEF Taken
  <2> QED BY <2>1, <2>2
<1>3. AheadOf(v) \in Seq(Messages)
  BY <1>1, <1>2 DEF AheadOf
<1>4. \A id \in Ids : BaseOf(v, id) \in Nat
  BY <1>1 DEF BaseOf
<1> QED BY <1>2, <1>3, <1>4

\* Announcing keeps every watcher that has room in step, and the others know.
LEMMA OfferFollows ==
  ASSUME NEW w \in Watchers, watch[w] \in WatchCalls, NEW next, Grows(next),
         NEW es \in Arrangements(News(next)), Follower(watch[w], metadata)
  PROVE  Follower(Offer(w, es), next)
<1> DEFINE v == watch[w]
           u == Offer(w, es)
<1>1. es \in Seq(Messages) /\ \A id \in Ids : Continues(es, id, metadata[id].revision, next[id].revision)
  BY Arranged
<1>2. /\ u \in WatchCalls
      /\ u.pc = v.pc /\ u.replay = v.replay /\ u.hand = v.hand
      /\ u.start = v.start /\ u.seen = v.seen
      /\ u.pc # "idle" => Len(u.queue) <= Capacity
      /\ u.pc # "idle" /\ ~u.overflow => ~v.overflow /\ u.queue = v.queue \o es
  BY <1>1, Offered DEF Follower, Looping
<1> HIDE DEF u
<1> SUFFICES ASSUME u.pc # "idle"
             PROVE  Replaying(u) /\ Looping(u) /\ Following(u, next)
  BY DEF Follower, u
<1>3. Replaying(v) /\ Looping(v) /\ Following(v, metadata)
  BY <1>2 DEF Follower
<1> HIDE DEF v
<1>4. Replaying(u) /\ Looping(u)
  BY <1>2, <1>3 DEF Replaying, Looping
<1>5. \A id \in Ids : /\ metadata[id].revision \in Nat /\ next[id].revision \in Nat
                      /\ metadata[id].revision <= next[id].revision
  BY RevisionType DEF Grows
<1>6. v \in WatchCalls /\ v.start \in [Ids -> Nat]
  BY WatchType DEF v
<1>7. \A id \in Ids : u.start[id] <= next[id].revision
  BY <1>2, <1>3, <1>5, <1>6 DEF Following
<1>8. ASSUME ~u.overflow, NEW id \in Ids
      PROVE  /\ BaseOf(u, id) <= next[id].revision
             /\ Continues(AheadOf(u), id, BaseOf(u, id), next[id].revision)
  <2>1. BaseOf(u, id) = BaseOf(v, id) /\ BaseOf(v, id) \in Nat
    BY <1>2, <1>3, <1>6, AheadType DEF BaseOf
  <2>2. AheadOf(u) = AheadOf(v) \o es
    <3>1. Taken(u) = Taken(v) /\ u.queue = v.queue \o es
      BY <1>2, <1>8 DEF Taken
    <3>2. Taken(v) \in Seq(Messages) /\ v.queue \in Seq(Messages)
      BY <1>3, <1>6, AheadType, WatchType
    <3>3. (Taken(v) \o v.queue) \o es = Taken(v) \o (v.queue \o es)
      BY <1>1, <3>2, QueueAssociative
    <3> QED BY <3>1, <3>3 DEF AheadOf
  <2>3. /\ BaseOf(v, id) <= metadata[id].revision
        /\ Continues(AheadOf(v), id, BaseOf(v, id), metadata[id].revision)
    BY <1>2, <1>3, <1>8 DEF Following
  <2>4. AheadOf(v) \in Seq(Messages)
    BY <1>3, <1>6, AheadType
  <2>5. Continues(AheadOf(v) \o es, id, BaseOf(v, id), next[id].revision)
    BY <1>1, <1>5, <2>1, <2>3, <2>4, ContinuesConcat
  <2> QED BY <1>5, <2>1, <2>2, <2>3, <2>5
<1> QED BY <1>4, <1>7, <1>8 DEF Following

\* Nothing a sink was given or promised changes, and revisions only grow.
Unnoticed ==
  /\ \A id \in Ids : metadata[id].revision <= metadata'[id].revision
  /\ \A w \in Watchers : /\ watch'[w].pc = watch[w].pc /\ watch'[w].start = watch[w].start
                         /\ watch'[w].seen = watch[w].seen

\* A section that announces what grew keeps all watchers in step and changes
\* nothing of what their sinks were given.
LEMMA Announced ==
  ASSUME NEW next, Grows(next), watch \in [Watchers -> WatchCalls], Followers, Announce(next)
  PROVE  /\ metadata' = next
         /\ watch' \in [Watchers -> WatchCalls]
         /\ Followers'
         /\ Unnoticed
<1>1. PICK es \in Arrangements(News(next)) : watch' = [w \in Watchers |-> Offer(w, es)]
  BY DEF Announce
<1>2. es \in Seq(Messages)
  BY Arranged
<1>3. ASSUME NEW w \in Watchers
      PROVE  /\ watch'[w] = Offer(w, es) /\ watch'[w] \in WatchCalls
             /\ watch'[w].pc = watch[w].pc /\ watch'[w].start = watch[w].start
             /\ watch'[w].seen = watch[w].seen
             /\ Follower(watch'[w], next)
  <2>1. watch'[w] = Offer(w, es)
    BY <1>1
  <2>2. watch[w] \in WatchCalls /\ Follower(watch[w], metadata)
    BY DEF Followers
  <2>3. Follower(Offer(w, es), next)
    BY <2>2, OfferFollows
  <2>4. /\ Offer(w, es) \in WatchCalls /\ Offer(w, es).pc = watch[w].pc
        /\ Offer(w, es).start = watch[w].start /\ Offer(w, es).seen = watch[w].seen
    BY <1>2, <2>2, Offered DEF Follower, Looping
  <2> QED BY <2>1, <2>3, <2>4
<1>4. metadata' = next
  BY DEF Announce
<1>5. watch' \in [Watchers -> WatchCalls]
  <2>1. \A w \in Watchers : Offer(w, es) \in WatchCalls
    BY <1>3
  <2> QED BY <1>1, <2>1
<1>6. Followers'
  BY <1>3, <1>4 DEF Followers
<1>7. Unnoticed
  BY <1>3, <1>4 DEF Unnoticed, Grows
<1> QED BY <1>4, <1>5, <1>6, <1>7

-----------------------------------------------------------------------------
(* Watchers.                                                               *)

\* A call that is not watching has the shape of one.
LEMMA NoWatchType == NoWatch \in WatchCalls
<1>1. Silent \in [Ids -> Nat] /\ << >> \in Seq(Messages) /\ {} \in SUBSET Messages
  BY DEF Silent
<1> HIDE DEF Silent
<1> QED BY <1>1 DEF NoWatch, WatchCalls

\* A subscription is promised every connection that has a revision: what it does
\* not replay has none.
LEMMA Subscribed ==
  ASSUME NEW known \in SUBSET Ids, metadata \in [Ids -> Metadata],
         \A id \in Ids \ known : metadata[id].revision = 0,
         \A id \in known : metadata[id].revision > 0
  PROVE  LET u == [NoWatch EXCEPT
                     !.pc = "replay", !.replay = {Message(id) : id \in known},
                     !.start = [id \in Ids |-> IF id \in known THEN metadata[id].revision ELSE 0]]
         IN /\ u \in WatchCalls /\ Follower(u, metadata) /\ u.pc = "replay"
            /\ u.start = [id \in Ids |-> metadata[id].revision] /\ u.seen = Silent
<1> DEFINE R == {Message(id) : id \in known}
           s == [id \in Ids |-> IF id \in known THEN metadata[id].revision ELSE 0]
           u == [NoWatch EXCEPT !.pc = "replay", !.replay = R, !.start = s]
<1>1. \A id \in Ids : metadata[id].revision \in Nat /\ metadata[id].removed \in BOOLEAN
  BY RevisionType
<1>2. s = [id \in Ids |-> metadata[id].revision]
  OBVIOUS
<1>3. s \in [Ids -> Nat] /\ Silent \in [Ids -> Nat]
  BY <1>1 DEF Silent
<1>4. /\ R \in SUBSET Messages
      /\ \A e \in R : e.id \in known /\ e = Message(e.id) /\ e.revision = metadata[e.id].revision
      /\ \A id \in known : Message(id) \in R /\ Message(id).id = id
  <2>1. \A id \in known : /\ Message(id) \in Messages /\ Message(id).id = id
                          /\ Message(id).revision = metadata[id].revision
    BY <1>1 DEF Message, Messages
  <2> QED BY <2>1
<1> HIDE DEF R, s
<1>6. /\ u.pc = "replay" /\ u.replay = R /\ u.queue = << >> /\ u.hand = {} /\ u.overflow = FALSE
      /\ u.start = s /\ u.seen = Silent
  BY DEF NoWatch
<1>8. u \in WatchCalls
  <2>1. NoWatch \in WatchCalls
    BY NoWatchType
  <2> QED BY <1>3, <1>4, <2>1 DEF WatchCalls
<1> HIDE DEF u
<1>9. Replaying(u)
  <2>1. \A e \in R : e.revision = s[e.id] /\ e.revision > 0 /\ Silent[e.id] = 0
    BY <1>2, <1>4 DEF Silent
  <2>2. \A e, f \in R : e.id = f.id => e = f
    BY <1>4
  <2>3. \A id \in Ids : s[id] > 0 => \E e \in R : e.id = id
    BY <1>1, <1>2, <1>4
  <2> QED BY <1>6, <2>1, <2>2, <2>3 DEF Replaying
<1>10. Looping(u)
  BY <1>6, MetadataAssumption DEF Looping
<1>11. Following(u, metadata)
  <2>1. AheadOf(u) = << >>
    BY <1>6 DEF AheadOf, Taken
  <2>2. \A id \in Ids : BaseOf(u, id) = metadata[id].revision /\ u.start[id] = metadata[id].revision
    BY <1>2, <1>6 DEF BaseOf, Silent
  <2> QED BY <1>1, <2>1, <2>2, NothingAhead DEF Following
<1> QED BY <1>2, <1>6, <1>8, <1>9, <1>10, <1>11 DEF Follower, u, R, s

\* The replay of a snapshot gives the sink what it was promised.
LEMMA Replayed ==
  ASSUME NEW v \in WatchCalls, NEW m \in [Ids -> Metadata], Follower(v, m), v.pc = "replay",
         NEW e \in v.replay
  PROVE  LET u == [[v EXCEPT !.seen[e.id] = e.revision] EXCEPT !.replay = @ \ {e}]
         IN /\ u \in WatchCalls /\ Follower(u, m) /\ u.pc = "replay" /\ u.start = v.start
            /\ u.seen = [v.seen EXCEPT ![e.id] = e.revision]
            /\ e.id \in Ids /\ v.seen[e.id] = 0 /\ v.start[e.id] = e.revision
            /\ e.revision > 0 /\ e.revision <= m[e.id].revision
<1> DEFINE u == [[v EXCEPT !.seen[e.id] = e.revision] EXCEPT !.replay = @ \ {e}]
<1>1. Replaying(v) /\ Looping(v) /\ Following(v, m)
  BY DEF Follower
<1>2. e \in Messages /\ e.id \in Ids /\ e.revision \in Nat
  BY WatchType DEF Messages
<1>3. v.seen[e.id] = 0 /\ v.start[e.id] = e.revision /\ e.revision > 0 /\ e.revision <= m[e.id].revision
  BY <1>1, <1>2 DEF Replaying, Following
<1> DEFINE s == [v.seen EXCEPT ![e.id] = e.revision]
           R == v.replay \ {e}
<1>4. s \in [Ids -> Nat] /\ R \in SUBSET Messages
  BY <1>2, WatchType
<1>5. \A id \in Ids : s[id] = IF id = e.id THEN e.revision ELSE v.seen[id]
  BY WatchType
<1>6. u = [v EXCEPT !.seen = s, !.replay = R]
  BY DEF WatchCalls
<1> HIDE DEF s, R, u
<1>7. /\ u \in WatchCalls
      /\ u.pc = "replay" /\ u.replay = R /\ u.queue = v.queue /\ u.hand = v.hand
      /\ u.overflow = v.overflow /\ u.start = v.start /\ u.seen = s
  BY <1>4, <1>6 DEF WatchCalls
<1>8. Replaying(u)
  <2>1. \A f \in R : f.revision = v.start[f.id] /\ f.revision > 0 /\ s[f.id] = 0
    <3> SUFFICES ASSUME NEW f \in R
                 PROVE  f.revision = v.start[f.id] /\ f.revision > 0 /\ s[f.id] = 0
      OBVIOUS
    <3>1. f \in v.replay /\ f # e
      BY DEF R
    <3>2. f \in Messages /\ f.id \in Ids
      BY <3>1, WatchType DEF Messages
    <3>3. f.id # e.id
      BY <1>1, <3>1 DEF Replaying
    <3> QED BY <1>1, <1>5, <3>1, <3>2, <3>3 DEF Replaying
  <2>2. \A f, h \in R : f.id = h.id => f = h
    BY <1>1 DEF Replaying, R
  <2>3. ASSUME NEW id \in Ids, s[id] = 0, v.start[id] > 0
        PROVE  \E f \in R : f.id = id
    <3>1. id # e.id /\ v.seen[id] = 0
      BY <1>3, <1>2, <1>5, <2>3
    <3>2. PICK f \in v.replay : f.id = id
      BY <1>1, <2>3, <3>1 DEF Replaying
    <3> QED BY <3>1, <3>2 DEF R
  <2> QED BY <1>7, <2>1, <2>2, <2>3 DEF Replaying
<1>9. Looping(u)
  BY <1>1, <1>7 DEF Looping
<1>10. Following(u, m)
  <2>1. AheadOf(u) = AheadOf(v)
    BY <1>7 DEF AheadOf, Taken
  <2>2. \A id \in Ids : BaseOf(u, id) = BaseOf(v, id)
    BY <1>2, <1>3, <1>5, <1>7 DEF BaseOf
  <2> QED BY <1>1, <1>7, <2>1, <2>2 DEF Following
<1> QED BY <1>2, <1>3, <1>7, <1>8, <1>9, <1>10 DEF Follower, s, u

\* Outside the replay the sink has everything it was promised.
LEMMA ReplayEnds ==
  ASSUME NEW v \in WatchCalls, NEW m \in [Ids -> Metadata], Follower(v, m), v.pc = "replay",
         v.replay = {}
  PROVE  LET u == [v EXCEPT !.pc = "select"]
         IN /\ u \in WatchCalls /\ Follower(u, m) /\ u.pc = "select"
            /\ u.start = v.start /\ u.seen = v.seen
<1> DEFINE u == [v EXCEPT !.pc = "select"]
<1>1. Replaying(v) /\ Looping(v) /\ Following(v, m)
  BY DEF Follower
<1>2. /\ u \in WatchCalls
      /\ u.pc = "select" /\ u.replay = {} /\ u.queue = v.queue /\ u.hand = v.hand
      /\ u.overflow = v.overflow /\ u.start = v.start /\ u.seen = v.seen
  BY DEF WatchCalls
<1> HIDE DEF u
<1>3. AheadOf(u) = AheadOf(v) /\ \A id \in Ids : BaseOf(u, id) = BaseOf(v, id)
  BY <1>2 DEF AheadOf, BaseOf, Taken
<1>4. Replaying(u)
  BY <1>1, <1>2 DEF Replaying
<1>5. Looping(u)
  BY <1>1, <1>2 DEF Looping
<1>6. Following(u, m)
  BY <1>1, <1>2, <1>3 DEF Following
<1> QED BY <1>2, <1>4, <1>5, <1>6 DEF Follower, u

\* Taking an event from the channel changes nothing of what is ahead.
LEMMA TookEvent ==
  ASSUME NEW v \in WatchCalls, NEW m \in [Ids -> Metadata], Follower(v, m), v.pc = "select",
         v.queue # << >>
  PROVE  LET u == [v EXCEPT !.pc = "took", !.queue = Tail(@), !.hand = {Head(v.queue)}]
         IN /\ u \in WatchCalls /\ Follower(u, m) /\ u.pc = "took"
            /\ u.start = v.start /\ u.seen = v.seen
<1> DEFINE u == [v EXCEPT !.pc = "took", !.queue = Tail(@), !.hand = {Head(v.queue)}]
<1>1. Replaying(v) /\ Looping(v) /\ Following(v, m)
  BY DEF Follower
<1> DEFINE t == Tail(v.queue)
           h == Head(v.queue)
<1>2. /\ v.queue \in Seq(Messages) /\ t \in Seq(Messages) /\ h \in Messages
      /\ Len(t) <= Len(v.queue) /\ Len(t) \in Nat /\ Len(v.queue) \in Nat
      /\ <<h>> \o t = v.queue
  <2>1. v.queue \in Seq(Messages)
    BY WatchType
  <2> QED BY <2>1
<1>3. u = [v EXCEPT !.pc = "took", !.queue = t, !.hand = {h}]
  OBVIOUS
<1> HIDE DEF t, h, u
<1>4. /\ u \in WatchCalls
      /\ u.pc = "took" /\ u.replay = v.replay /\ u.queue = t /\ u.hand = {h}
      /\ u.overflow = v.overflow /\ u.start = v.start /\ u.seen = v.seen
  BY <1>2, <1>3 DEF WatchCalls
<1>5. AheadOf(u) = AheadOf(v)
  <2>1. Taken(v) = << >>
    BY <1>1 DEF Looping, Taken
  <2>2. Taken(u) = <<h>>
    BY <1>4 DEF Taken
  <2>3. << >> \o v.queue = v.queue
    BY <1>2
  <2> QED BY <1>2, <1>4, <2>1, <2>2, <2>3 DEF AheadOf
<1>6. \A id \in Ids : BaseOf(u, id) = BaseOf(v, id)
  BY <1>4 DEF BaseOf
<1>7. Replaying(u)
  BY <1>1, <1>4 DEF Replaying
<1>8. Looping(u)
  <2>1. Len(t) <= Capacity
    BY <1>1, <1>2, MetadataAssumption DEF Looping
  <2> QED BY <1>1, <1>2, <1>4, <2>1 DEF Looping
<1>9. Following(u, m)
  BY <1>1, <1>4, <1>5, <1>6 DEF Following
<1> QED BY <1>4, <1>7, <1>8, <1>9 DEF Follower, u

\* The event given to the sink is the next revision of its connection.
LEMMA Delivered ==
  ASSUME NEW v \in WatchCalls, NEW m \in [Ids -> Metadata], Follower(v, m), v.pc = "took",
         ~v.overflow, NEW e \in v.hand
  PROVE  LET u == [[v EXCEPT !.seen[e.id] = e.revision] EXCEPT !.pc = "select", !.hand = {}]
         IN /\ u \in WatchCalls /\ Follower(u, m) /\ u.pc = "select" /\ u.start = v.start
            /\ u.seen = [v.seen EXCEPT ![e.id] = e.revision]
            /\ e.id \in Ids /\ e.revision = v.seen[e.id] + 1 /\ e.revision <= m[e.id].revision
            /\ v.seen[e.id] = 0 => v.start[e.id] = 0
<1> DEFINE u == [[v EXCEPT !.seen[e.id] = e.revision] EXCEPT !.pc = "select", !.hand = {}]
<1>1. Replaying(v) /\ Looping(v) /\ Following(v, m)
  BY DEF Follower
<1>2. /\ e \in Messages /\ e.id \in Ids /\ e.revision \in Nat
      /\ v.queue \in Seq(Messages) /\ v.start \in [Ids -> Nat] /\ v.seen \in [Ids -> Nat]
  BY WatchType DEF Messages
<1>3. v.hand = {e}
  BY <1>1 DEF Looping
<1>4. Taken(v) = <<e>> /\ AheadOf(v) = <<e>> \o v.queue
  BY <1>3 DEF AheadOf, Taken
<1>5. \A id \in Ids : BaseOf(v, id) = v.seen[id] /\ (v.seen[id] = 0 => v.start[id] = 0)
  BY <1>1, <1>2 DEF Replaying, Looping, BaseOf
<1>6. \A id \in Ids : m[id].revision \in Nat
  BY RevisionType
<1>7. \A id \in Ids : v.seen[id] <= m[id].revision /\ Continues(<<e>> \o v.queue, id, v.seen[id], m[id].revision)
  BY <1>1, <1>4, <1>5 DEF Following
<1>8. /\ e.revision = v.seen[e.id] + 1 /\ v.seen[e.id] < m[e.id].revision
      /\ Continues(v.queue, e.id, v.seen[e.id] + 1, m[e.id].revision)
  <2>1. v.seen[e.id] \in Nat /\ m[e.id].revision \in Nat
    BY <1>2, <1>6
  <2> QED BY <1>2, <1>7, <2>1, ContinuesTail
<1>9. \A id \in Ids \ {e.id} : Continues(v.queue, id, v.seen[id], m[id].revision)
  <2> SUFFICES ASSUME NEW id \in Ids \ {e.id}
               PROVE  Continues(v.queue, id, v.seen[id], m[id].revision)
    OBVIOUS
  <2>1. v.seen[id] \in Nat /\ m[id].revision \in Nat
    BY <1>2, <1>6
  <2> QED BY <1>2, <1>7, <2>1, ContinuesTail
<1> DEFINE s == [v.seen EXCEPT ![e.id] = e.revision]
<1>10. s \in [Ids -> Nat] /\ \A id \in Ids : s[id] = IF id = e.id THEN e.revision ELSE v.seen[id]
  BY <1>2
<1>11. u = [v EXCEPT !.seen = s, !.pc = "select", !.hand = {}]
  BY DEF WatchCalls
<1> HIDE DEF s, u
<1>12. /\ u \in WatchCalls
       /\ u.pc = "select" /\ u.replay = v.replay /\ u.queue = v.queue /\ u.hand = {}
       /\ u.overflow = v.overflow /\ u.start = v.start /\ u.seen = s
  BY <1>10, <1>11 DEF WatchCalls
<1>13. \A id \in Ids : BaseOf(u, id) = s[id]
  <2>1. \A id \in Ids : s[id] = 0 => v.start[id] = 0
    BY <1>2, <1>5, <1>8, <1>10
  <2> QED BY <1>12, <2>1 DEF BaseOf
<1>14. Replaying(u)
  <2>1. v.replay = {}
    BY <1>1 DEF Looping
  <2>2. \A id \in Ids : s[id] = 0 => ~(v.start[id] > 0)
    BY <1>2, <1>5, <1>8, <1>10
  <2> QED BY <1>12, <2>1, <2>2 DEF Replaying
<1>15. Looping(u)
  BY <1>1, <1>12 DEF Looping
<1>16. Following(u, m)
  <2>1. AheadOf(u) = v.queue
    <3>1. << >> \o v.queue = v.queue
      BY <1>2
    <3> QED BY <1>12, <3>1 DEF AheadOf, Taken
  <2>2. ASSUME NEW id \in Ids
        PROVE  s[id] <= m[id].revision /\ Continues(v.queue, id, s[id], m[id].revision)
    <3>1. CASE id = e.id
      <4>1. s[id] = v.seen[id] + 1
        BY <1>8, <1>10, <3>1
      <4>2. v.seen[id] \in Nat /\ m[id].revision \in Nat /\ v.seen[id] < m[id].revision
        BY <1>2, <1>6, <1>8, <3>1
      <4> QED BY <1>8, <3>1, <4>1, <4>2
    <3>2. CASE id # e.id
      BY <1>7, <1>9, <1>10, <3>2
    <3> QED BY <3>1, <3>2
  <2> QED BY <1>1, <1>12, <1>13, <2>1, <2>2 DEF Following
<1>17. e.revision <= m[e.id].revision
  BY <1>2, <1>6, <1>8
<1> QED BY <1>2, <1>5, <1>8, <1>12, <1>14, <1>15, <1>16, <1>17 DEF Follower, s, u

\* A step of one watcher preserves the invariant if its record is in order.
LEMMA WatchMoves ==
  ASSUME IInv, NEW w \in Watchers, NEW u \in WatchCalls, Follower(u, metadata),
         SetWatch(w, u), UNCHANGED <<registry, slot, metadata, job, refresh>>
  PROVE  IInv'
<1>1. watch' = [watch EXCEPT ![w] = u] /\ watch \in [Watchers -> WatchCalls]
  BY DEF SetWatch, IInv, TypeOK
<1>2. watch' \in [Watchers -> WatchCalls]
  BY <1>1
<1>3. \A x \in Watchers : watch'[x] = IF x = w THEN u ELSE watch[x]
  BY <1>1
<1>4. TypeOK'
  BY <1>2 DEF IInv, TypeOK, registry
<1>5. Followers'
  BY <1>3 DEF IInv, Followers
<1>6. (Registration /\ Staging)'
  BY DEF IInv, Registration, Staging, registry
<1>7. Snapshots'
  BY DEF IInv, Snapshots, Served, Observed, Attributed, Marked, registry
<1>8. Observers'
  BY DEF IInv, Observers, Running, registry
<1> QED BY <1>4, <1>5, <1>6, <1>7, <1>8 DEF IInv

\* Subscribing replays exactly the connections that have a revision.
LEMMA WatchBegins ==
  ASSUME IInv, NEW w \in Watchers, WatchConnectionMetadata(w)
  PROVE  /\ IInv'
         /\ watch' = [watch EXCEPT ![w] = watch'[w]]
         /\ watch[w].pc = "idle" /\ watch'[w].pc # "idle"
         /\ watch'[w].start = [id \in Ids |-> metadata[id].revision] /\ watch'[w].seen = Silent
<1> DEFINE known == connections \cup {id \in Ids : metadata[id].removed}
           u == [NoWatch EXCEPT
                   !.pc = "replay", !.replay = {Message(id) : id \in known},
                   !.start = [id \in Ids |-> IF id \in known THEN metadata[id].revision ELSE 0]]
<1>1. metadata \in [Ids -> Metadata] /\ known \in SUBSET Ids /\ watch \in [Watchers -> WatchCalls]
  BY DEF IInv, TypeOK
<1>2. /\ \A id \in Ids \ known : metadata[id].revision = 0
      /\ \A id \in known : metadata[id].revision > 0
  <2>1. \A id \in Ids : metadata[id].revision \in Nat
    BY <1>1, RevisionType
  <2> QED BY <1>1, <2>1 DEF IInv, Snapshots, Marked
<1>3. SetWatch(w, u) /\ UNCHANGED <<registry, slot, metadata, job, refresh>> /\ watch[w].pc = "idle"
  BY DEF WatchConnectionMetadata
<1> HIDE DEF known
<1>4. /\ u \in WatchCalls /\ Follower(u, metadata) /\ u.pc = "replay"
      /\ u.start = [id \in Ids |-> metadata[id].revision] /\ u.seen = Silent
  BY <1>1, <1>2, Subscribed
<1> HIDE DEF u
<1>5. IInv'
  BY <1>3, <1>4, WatchMoves
<1>6. watch' = [watch EXCEPT ![w] = u] /\ watch'[w] = u
  BY <1>1, <1>3 DEF SetWatch
<1> QED BY <1>3, <1>4, <1>5, <1>6

\* A replayed snapshot is the one the sink was promised.
LEMMA WatchReplaysKeeps ==
  ASSUME IInv, NEW w \in Watchers, WatchReplays(w)
  PROVE  /\ IInv'
         /\ watch' = [watch EXCEPT ![w] = watch'[w]]
         /\ watch[w].pc = "replay" /\ watch'[w].pc # "idle" /\ watch'[w].start = watch[w].start
         /\ \/ watch'[w].seen = watch[w].seen
            \/ \E id \in Ids :
                 /\ watch[w].seen[id] = 0 /\ watch[w].start[id] > 0
                 /\ watch[w].start[id] <= metadata[id].revision
                 /\ watch'[w].seen = [watch[w].seen EXCEPT ![id] = watch[w].start[id]]
<1> DEFINE v == watch[w]
<1>1. /\ metadata \in [Ids -> Metadata] /\ watch \in [Watchers -> WatchCalls]
      /\ v \in WatchCalls /\ Follower(v, metadata)
  BY DEF IInv, TypeOK, Followers
<1>2. UNCHANGED <<registry, slot, metadata, job, refresh>> /\ v.pc = "replay"
  BY DEF WatchReplays
<1>3. ASSUME NEW e \in v.replay, SetWatch(w, [Deliver(w, e) EXCEPT !.replay = @ \ {e}])
      PROVE  /\ IInv'
             /\ watch' = [watch EXCEPT ![w] = watch'[w]]
             /\ watch'[w].pc # "idle" /\ watch'[w].start = v.start
             /\ \E id \in Ids :
                  /\ v.seen[id] = 0 /\ v.start[id] > 0 /\ v.start[id] <= metadata[id].revision
                  /\ watch'[w].seen = [v.seen EXCEPT ![id] = v.start[id]]
  <2> DEFINE u == [[v EXCEPT !.seen[e.id] = e.revision] EXCEPT !.replay = @ \ {e}]
  <2>1. SetWatch(w, u)
    BY <1>3 DEF Deliver
  <2>2. /\ u \in WatchCalls /\ Follower(u, metadata) /\ u.pc = "replay" /\ u.start = v.start
        /\ u.seen = [v.seen EXCEPT ![e.id] = e.revision]
        /\ e.id \in Ids /\ v.seen[e.id] = 0 /\ v.start[e.id] = e.revision
        /\ e.revision > 0 /\ e.revision <= metadata[e.id].revision
    <3> HIDE DEF v
    <3> QED BY <1>1, <1>2, Replayed
  <2> HIDE DEF u
  <2>3. IInv'
    BY <1>2, <2>1, <2>2, WatchMoves
  <2>4. watch' = [watch EXCEPT ![w] = u] /\ watch'[w] = u
    BY <1>1, <2>1 DEF SetWatch
  <2> HIDE DEF v
  <2> QED BY <2>2, <2>3, <2>4
<1>4. ASSUME v.replay = {}, SetWatch(w, [v EXCEPT !.pc = "select"])
      PROVE  /\ IInv'
             /\ watch' = [watch EXCEPT ![w] = watch'[w]]
             /\ watch'[w].pc # "idle" /\ watch'[w].start = v.start /\ watch'[w].seen = v.seen
  <2> DEFINE u == [v EXCEPT !.pc = "select"]
  <2>1. SetWatch(w, u)
    BY <1>4
  <2>2. /\ u \in WatchCalls /\ Follower(u, metadata) /\ u.pc = "select"
        /\ u.start = v.start /\ u.seen = v.seen
    <3> HIDE DEF v
    <3> QED BY <1>1, <1>2, <1>4, ReplayEnds
  <2> HIDE DEF u
  <2>3. IInv'
    BY <1>2, <2>1, <2>2, WatchMoves
  <2>4. watch' = [watch EXCEPT ![w] = u] /\ watch'[w] = u
    BY <1>1, <2>1 DEF SetWatch
  <2> QED BY <2>2, <2>3, <2>4
<1> QED BY <1>2, <1>3, <1>4 DEF WatchReplays

\* Taking an event changes nothing for the sink.
LEMMA WatchTakesKeeps ==
  ASSUME IInv, NEW w \in Watchers, WatchTakes(w)
  PROVE  /\ IInv'
         /\ watch' = [watch EXCEPT ![w] = watch'[w]]
         /\ watch[w].pc = "select" /\ watch'[w].pc # "idle"
         /\ watch'[w].start = watch[w].start /\ watch'[w].seen = watch[w].seen
<1> DEFINE v == watch[w]
           u == [v EXCEPT !.pc = "took", !.queue = Tail(@), !.hand = {Head(v.queue)}]
<1>1. /\ metadata \in [Ids -> Metadata] /\ watch \in [Watchers -> WatchCalls]
      /\ v \in WatchCalls /\ Follower(v, metadata)
  BY DEF IInv, TypeOK, Followers
<1>2. /\ UNCHANGED <<registry, slot, metadata, job, refresh>> /\ v.pc = "select" /\ v.queue # << >>
      /\ SetWatch(w, u)
  BY DEF WatchTakes
<1>3. /\ u \in WatchCalls /\ Follower(u, metadata) /\ u.pc = "took"
      /\ u.start = v.start /\ u.seen = v.seen
  <2> HIDE DEF v
  <2> QED BY <1>1, <1>2, TookEvent
<1> HIDE DEF u
<1>4. IInv'
  BY <1>2, <1>3, WatchMoves
<1>5. watch' = [watch EXCEPT ![w] = u] /\ watch'[w] = u
  BY <1>1, <1>2 DEF SetWatch
<1> QED BY <1>2, <1>3, <1>4, <1>5

\* A delivered event is the revision after the last one of its connection.
LEMMA WatchDeliversKeeps ==
  ASSUME IInv, NEW w \in Watchers, WatchDelivers(w)
  PROVE  /\ IInv'
         /\ watch' = [watch EXCEPT ![w] = watch'[w]]
         /\ watch[w].pc = "took" /\ watch'[w].pc # "idle" /\ watch'[w].start = watch[w].start
         /\ \E id \in Ids :
              /\ watch[w].seen[id] = 0 => watch[w].start[id] = 0
              /\ watch[w].seen[id] + 1 <= metadata[id].revision
              /\ watch'[w].seen = [watch[w].seen EXCEPT ![id] = watch[w].seen[id] + 1]
<1> DEFINE v == watch[w]
<1>1. /\ metadata \in [Ids -> Metadata] /\ watch \in [Watchers -> WatchCalls]
      /\ v \in WatchCalls /\ Follower(v, metadata)
  BY DEF IInv, TypeOK, Followers
<1>2. UNCHANGED <<registry, slot, metadata, job, refresh>> /\ v.pc = "took" /\ ~v.overflow
  BY DEF WatchDelivers
<1>3. PICK e \in v.hand : SetWatch(w, [Deliver(w, e) EXCEPT !.pc = "select", !.hand = {}])
  BY DEF WatchDelivers
<1> DEFINE u == [[v EXCEPT !.seen[e.id] = e.revision] EXCEPT !.pc = "select", !.hand = {}]
<1>4. SetWatch(w, u)
  BY <1>3 DEF Deliver
<1>5. /\ u \in WatchCalls /\ Follower(u, metadata) /\ u.pc = "select" /\ u.start = v.start
      /\ u.seen = [v.seen EXCEPT ![e.id] = e.revision]
      /\ e.id \in Ids /\ e.revision = v.seen[e.id] + 1 /\ e.revision <= metadata[e.id].revision
      /\ v.seen[e.id] = 0 => v.start[e.id] = 0
  <2> HIDE DEF v
  <2> QED BY <1>1, <1>2, Delivered
<1> HIDE DEF u
<1>6. IInv'
  BY <1>2, <1>4, <1>5, WatchMoves
<1>7. watch' = [watch EXCEPT ![w] = u] /\ watch'[w] = u
  BY <1>1, <1>4 DEF SetWatch
<1> HIDE DEF v
<1> QED BY <1>2, <1>5, <1>6, <1>7 DEF v

\* A watcher that leaves has nothing ahead of it.
LEMMA WatchEndsKeeps ==
  ASSUME IInv, NEW w \in Watchers, WatchIsTold(w) \/ WatchLeaves(w)
  PROVE  /\ IInv'
         /\ watch' = [watch EXCEPT ![w] = watch'[w]]
         /\ watch[w].pc # "idle" /\ watch'[w] = NoWatch
<1>1. /\ SetWatch(w, NoWatch) /\ UNCHANGED <<registry, slot, metadata, job, refresh>>
      /\ watch[w].pc # "idle"
  BY DEF WatchIsTold, WatchLeaves
<1>2. Follower(NoWatch, metadata)
  BY DEF Follower, NoWatch
<1>3. IInv'
  BY <1>1, <1>2, NoWatchType, WatchMoves
<1>4. watch' = [watch EXCEPT ![w] = NoWatch] /\ watch'[w] = NoWatch
  BY <1>1 DEF SetWatch, IInv, TypeOK
<1> QED BY <1>1, <1>3, <1>4

-----------------------------------------------------------------------------
(* Snapshots.                                                              *)

\* The parts of the state of a connection.
LEMMA MetadataType ==
  ASSUME NEW m \in Metadata
  PROVE  /\ m.generation \in Generations \cup {None} /\ m.slot \in Generations \cup {None}
         /\ m.running \in Jobs \cup {None} /\ m.entries \in [Keys -> Entries]
         /\ m.revision \in Nat /\ m.active \in BOOLEAN /\ m.refreshing \in BOOLEAN
         /\ m.failed \in BOOLEAN /\ m.removed \in BOOLEAN /\ m.pending \in BOOLEAN
  BY DEF Metadata

\* p publishes n after m: the same snapshot under the same or the next revision.
Revised(m, n, p) ==
  /\ p \in Metadata
  /\ p.generation = n.generation /\ p.active = n.active /\ p.refreshing = n.refreshing
  /\ p.entries = n.entries /\ p.removed = n.removed /\ p.slot = n.slot
  /\ p.running = n.running /\ p.pending = n.pending
  /\ m.revision <= p.revision /\ 0 < p.revision

\* metadataPublishLocked advances the revision at most, and from 0 in any case.
LEMMA Published ==
  ASSUME NEW m \in Metadata, NEW n \in Metadata, n.revision = m.revision
  PROVE  Revised(m, n, Publish(m, n))
<1> DEFINE p == Publish(m, n)
           r == m.revision + 1
<1>1. m.revision \in Nat /\ r \in Nat
  BY MetadataType
<1>2. CASE m.revision # 0 /\ Snapshot(m) = Snapshot(n)
  BY <1>1, <1>2 DEF Publish, Revised
<1>3. CASE ~(m.revision # 0 /\ Snapshot(m) = Snapshot(n))
  <2>1. p = [n EXCEPT !.revision = r]
    BY <1>3 DEF Publish
  <2> HIDE DEF r, p
  <2>2. /\ p \in Metadata /\ p.revision = r
        /\ p.generation = n.generation /\ p.active = n.active /\ p.refreshing = n.refreshing
        /\ p.entries = n.entries /\ p.removed = n.removed /\ p.slot = n.slot
        /\ p.running = n.running /\ p.pending = n.pending
    BY <1>1, <2>1 DEF Metadata
  <2>3. m.revision <= r /\ 0 < r
    BY <1>1 DEF r
  <2> QED BY <2>2, <2>3 DEF Revised, p
<1> QED BY <1>2, <1>3

\* Aging entries keeps who observed them, and ages the current ones.
LEMMA AgedEntries ==
  ASSUME NEW es \in [Keys -> Entries], NEW S, "current" \in S
  PROVE  /\ Aged(es, S) \in [Keys -> Entries]
         /\ \A k \in Keys : Aged(es, S)[k].by = es[k].by /\ Aged(es, S)[k].state # "current"
<1>1. ASSUME NEW k \in Keys
      PROVE  LET e == Aged(es, S)[k]
             IN e \in Entries /\ e.by = es[k].by /\ e.state # "current"
  <2> DEFINE d == es[k]
             e == Aged(es, S)[k]
  <2>1. d \in Entries /\ e = IF d.state \in S THEN [d EXCEPT !.state = "stale"] ELSE d
    BY DEF Aged
  <2> HIDE DEF d, e
  <2>2. e \in Entries /\ e.by = d.by /\ e.state # "current"
    BY <2>1 DEF Entries
  <2> QED BY <2>2 DEF d, e
<1>2. DOMAIN Aged(es, S) = Keys /\ Aged(es, S) = [k \in Keys |-> Aged(es, S)[k]]
  BY DEF Aged
<1> QED BY <1>1, <1>2

\* metadataStopLocked
LEMMA StopFacts ==
  ASSUME NEW m \in Metadata, NEW g \in Generations
  PROVE  LET p == Stop(m, g)
         IN /\ p \in Metadata /\ m.revision <= p.revision
            /\ p.running = m.running /\ p.generation = m.generation /\ p.removed = m.removed
            /\ m.slot # g => p = m
            /\ m.slot = g =>
                 /\ p.slot = None /\ p.active = FALSE /\ p.refreshing = FALSE /\ p.pending = FALSE
                 /\ 0 < p.revision
                 /\ \A k \in Keys : /\ p.entries[k].by = m.entries[k].by
                                    /\ p.entries[k].state # "current"
<1> DEFINE p == Stop(m, g)
<1>1. CASE m.slot # g
  BY <1>1, MetadataType DEF Stop
<1>2. CASE m.slot = g
  <2> DEFINE es == Aged(m.entries, {"current"})
             n == [m EXCEPT !.slot = None, !.pending = FALSE, !.active = FALSE,
                            !.refreshing = FALSE, !.entries = es]
  <2>1. /\ es \in [Keys -> Entries]
        /\ \A k \in Keys : es[k].by = m.entries[k].by /\ es[k].state # "current"
    BY AgedEntries, MetadataType
  <2>2. p = Publish(m, n)
    BY <1>2 DEF Stop
  <2> HIDE DEF es, p
  <2>3. /\ n \in Metadata /\ n.revision = m.revision /\ n.running = m.running
        /\ n.generation = m.generation /\ n.removed = m.removed /\ n.slot = None
        /\ n.active = FALSE /\ n.refreshing = FALSE /\ n.pending = FALSE /\ n.entries = es
    BY <2>1 DEF Metadata
  <2> HIDE DEF n
  <2>4. Revised(m, n, p)
    BY <2>2, <2>3, Published
  <2> QED BY <1>2, <2>1, <2>3, <2>4 DEF Revised, p
<1> QED BY <1>1, <1>2

\* metadataAcquireLocked
LEMMA AcquireFacts ==
  ASSUME NEW m \in Metadata, NEW j \in Jobs
  PROVE  LET p == Acquire(m, j)
         IN /\ p \in Metadata /\ m.revision <= p.revision
            /\ m.running # None => p = m
            /\ m.running = None =>
                 /\ p.running = j /\ p.refreshing = TRUE /\ 0 < p.revision
                 /\ p.generation = m.generation /\ p.active = m.active /\ p.entries = m.entries
                 /\ p.removed = m.removed /\ p.slot = m.slot /\ p.pending = m.pending
<1> DEFINE p == Acquire(m, j)
<1>1. CASE m.running # None
  BY <1>1, MetadataType DEF Acquire
<1>2. CASE m.running = None
  <2> DEFINE n == [m EXCEPT !.running = j, !.refreshing = TRUE]
  <2>1. p = Publish(m, n)
    BY <1>2 DEF Acquire
  <2> HIDE DEF p
  <2>2. /\ n \in Metadata /\ n.revision = m.revision /\ n.running = j /\ n.refreshing = TRUE
        /\ n.generation = m.generation /\ n.active = m.active /\ n.entries = m.entries
        /\ n.removed = m.removed /\ n.slot = m.slot /\ n.pending = m.pending
    BY DEF Metadata
  <2> HIDE DEF n
  <2>3. Revised(m, n, p)
    BY <2>1, <2>2, Published
  <2> QED BY <1>2, <2>2, <2>3 DEF Revised, p
<1> QED BY <1>1, <1>2

\* A connection without metadata has the shape of one with.
LEMMA NoMetadataType ==
  /\ NoMetadata \in Metadata /\ NoEntries \in [Keys -> Entries]
  /\ \A k \in Keys : NoEntries[k].by = None /\ NoEntries[k].state = "absent"
<1>1. NoEntry \in Entries /\ NoEntry.by = None /\ NoEntry.state = "absent"
  BY DEF NoEntry, Entries
<1>2. /\ NoEntries \in [Keys -> Entries]
      /\ \A k \in Keys : NoEntries[k].by = None /\ NoEntries[k].state = "absent"
  BY <1>1 DEF NoEntries
<1>3. NoMetadata \in Metadata
  BY <1>2 DEF NoMetadata, Metadata
<1> QED BY <1>2, <1>3

\* A snapshot without generation and entries.
LEMMA ClearedFacts ==
  ASSUME NEW m \in Metadata, NEW removed \in BOOLEAN
  PROVE  LET p == Cleared(m, removed)
         IN /\ p \in Metadata /\ m.revision <= p.revision /\ 0 < p.revision
            /\ p.running = m.running /\ p.removed = removed
            /\ p.slot = None /\ p.active = FALSE /\ p.refreshing = FALSE /\ p.pending = FALSE
            /\ p.entries = NoEntries
<1> DEFINE p == Cleared(m, removed)
           n == [NoMetadata EXCEPT !.revision = m.revision, !.removed = removed,
                                   !.running = m.running]
<1>1. p = Publish(m, n)
  BY DEF Cleared
<1>2. m.revision \in Nat /\ m.running \in Jobs \cup {None}
  BY MetadataType
<1>3. /\ n.revision = m.revision /\ n.removed = removed /\ n.running = m.running
      /\ n.slot = None /\ n.active = FALSE /\ n.refreshing = FALSE /\ n.pending = FALSE
      /\ n.entries = NoEntries
  BY DEF NoMetadata
<1>4. n \in Metadata
  <2>1. NoMetadata \in Metadata
    BY NoMetadataType
  <2> QED BY <1>2, <2>1 DEF Metadata
<1> HIDE DEF n, p
<1>5. Revised(m, n, p)
  BY <1>1, <1>3, <1>4, Published
<1> QED BY <1>3, <1>5 DEF Revised, p

\* The snapshot of a connection that comes back or is new.
LEMMA ReturnedFacts ==
  ASSUME NEW m \in Metadata
  PROVE  LET p == Publish(m, [NoMetadata EXCEPT
                    !.revision = m.revision, !.slot = m.slot,
                    !.running = m.running, !.pending = m.pending])
         IN /\ p \in Metadata /\ m.revision <= p.revision /\ 0 < p.revision
            /\ p.running = m.running /\ p.removed = FALSE
            /\ p.slot = m.slot /\ p.active = FALSE /\ p.refreshing = FALSE
            /\ p.pending = m.pending /\ p.entries = NoEntries
<1> DEFINE n == [NoMetadata EXCEPT !.revision = m.revision, !.slot = m.slot,
                                   !.running = m.running, !.pending = m.pending]
           p == Publish(m, n)
<1>1. /\ m.revision \in Nat /\ m.running \in Jobs \cup {None}
      /\ m.slot \in Generations \cup {None} /\ m.pending \in BOOLEAN
  BY MetadataType
<1>2. /\ n.revision = m.revision /\ n.removed = FALSE /\ n.running = m.running
      /\ n.slot = m.slot /\ n.active = FALSE /\ n.refreshing = FALSE /\ n.pending = m.pending
      /\ n.entries = NoEntries
  BY DEF NoMetadata
<1>3. n \in Metadata
  <2>1. NoMetadata \in Metadata
    BY NoMetadataType
  <2> QED BY <1>1, <2>1 DEF Metadata
<1> HIDE DEF n
<1>4. Revised(m, n, p)
  BY <1>2, <1>3, Published
<1> HIDE DEF p
<1> QED BY <1>2, <1>4 DEF Revised, p, n

\* metadataAdmitLocked, up to the observation it begins.
LEMMA AdmitFacts ==
  ASSUME NEW m \in Metadata, NEW g \in Generations
  PROVE  LET p == Publish(m, [m EXCEPT !.slot = g, !.generation = g, !.active = TRUE,
                                       !.refreshing = FALSE, !.failed = FALSE,
                                       !.entries = NoEntries, !.removed = FALSE])
         IN /\ p \in Metadata /\ m.revision <= p.revision /\ 0 < p.revision
            /\ p.running = m.running /\ p.removed = FALSE /\ p.pending = m.pending
            /\ p.slot = g /\ p.generation = g /\ p.active = TRUE /\ p.refreshing = FALSE
            /\ p.entries = NoEntries
<1> DEFINE n == [m EXCEPT !.slot = g, !.generation = g, !.active = TRUE,
                          !.refreshing = FALSE, !.failed = FALSE,
                          !.entries = NoEntries, !.removed = FALSE]
           p == Publish(m, n)
<1>1. NoEntries \in [Keys -> Entries]
  BY NoMetadataType
<1>2. /\ n \in Metadata /\ n.revision = m.revision /\ n.removed = FALSE /\ n.running = m.running
      /\ n.slot = g /\ n.generation = g /\ n.active = TRUE /\ n.refreshing = FALSE
      /\ n.pending = m.pending /\ n.entries = NoEntries
  BY <1>1 DEF Metadata
<1> HIDE DEF n
<1>3. Revised(m, n, p)
  BY <1>2, Published
<1> HIDE DEF p
<1> QED BY <1>2, <1>3 DEF Revised, p, n

\* A report leaves an entry to who observed it, to the observer, or to nobody.
LEMMA ObserveFacts ==
  ASSUME NEW e \in Entries, NEW g \in Generations,
         NEW report \in {"none", "success", "failure", "remove"}
  PROVE  Observe(e, report, g) \in Entries /\ Observe(e, report, g).by \in {None, g, e.by}
<1>1. CASE report = "success"
  BY <1>1 DEF Observe, Entries
<1>2. CASE report = "failure"
  BY <1>2 DEF Observe, Entries
<1>3. CASE report = "remove"
  BY <1>3 DEF Observe, Entries, NoEntry
<1>4. CASE report = "none"
  BY <1>4 DEF Observe, Entries
<1> QED BY <1>1, <1>2, <1>3, <1>4

\* The results metadataObserve may publish.
Results(m, g) ==
  {Refused(m)} \cup
  {Updated(m, g, reports) : reports \in [Keys -> {"none", "success", "failure", "remove"}]}

\* A result ends the observation and leaves the generation alone.
LEMMA ResultFacts ==
  ASSUME NEW m \in Metadata, NEW g \in Generations, NEW next \in Results(m, g)
  PROVE  LET p == Publish(m, [next EXCEPT !.pending = FALSE])
         IN /\ p \in Metadata /\ m.revision <= p.revision /\ 0 < p.revision
            /\ p.running = None /\ p.refreshing = FALSE /\ p.pending = FALSE
            /\ p.generation = m.generation /\ p.active = m.active /\ p.removed = m.removed
            /\ p.slot = m.slot
            /\ \A k \in Keys : p.entries[k].by \in {None, g, m.entries[k].by}
<1> DEFINE Fits ==
             \E es \in [Keys -> Entries], f \in BOOLEAN :
               /\ \A k \in Keys : es[k].by \in {None, g, m.entries[k].by}
               /\ next = [m EXCEPT !.running = None, !.refreshing = FALSE, !.failed = f,
                                   !.entries = es]
<1>1. Fits
  <2>1. CASE next = Refused(m)
    <3>1. /\ Aged(m.entries, {"current", "stale"}) \in [Keys -> Entries]
          /\ \A k \in Keys : Aged(m.entries, {"current", "stale"})[k].by = m.entries[k].by
      BY AgedEntries, MetadataType
    <3> QED BY <2>1, <3>1 DEF Refused
  <2>2. ASSUME NEW reports \in [Keys -> {"none", "success", "failure", "remove"}],
               next = Updated(m, g, reports)
        PROVE  Fits
    <3> DEFINE es == [k \in Keys |-> Observe(m.entries[k], reports[k], g)]
    <3>1. \A k \in Keys : /\ Observe(m.entries[k], reports[k], g) \in Entries
                          /\ Observe(m.entries[k], reports[k], g).by \in {None, g, m.entries[k].by}
      BY ObserveFacts, MetadataType
    <3>2. es \in [Keys -> Entries] /\ \A k \in Keys : es[k].by \in {None, g, m.entries[k].by}
      BY <3>1
    <3>3. next = [m EXCEPT !.running = None, !.refreshing = FALSE, !.failed = FALSE, !.entries = es]
      BY <2>2 DEF Updated
    <3> HIDE DEF es
    <3> QED BY <3>2, <3>3
  <2> HIDE DEF Fits
  <2> QED BY <2>1, <2>2 DEF Results
<1>2. PICK es \in [Keys -> Entries], f \in BOOLEAN :
        /\ \A k \in Keys : es[k].by \in {None, g, m.entries[k].by}
        /\ next = [m EXCEPT !.running = None, !.refreshing = FALSE, !.failed = f, !.entries = es]
  BY <1>1
<1> DEFINE n == [next EXCEPT !.pending = FALSE]
           p == Publish(m, n)
<1>3. /\ n \in Metadata /\ n.revision = m.revision /\ n.running = None /\ n.refreshing = FALSE
      /\ n.pending = FALSE /\ n.generation = m.generation /\ n.active = m.active
      /\ n.removed = m.removed /\ n.slot = m.slot /\ n.entries = es
  BY <1>2 DEF Metadata
<1> HIDE DEF n
<1>4. Revised(m, n, p)
  BY <1>3, Published
<1> HIDE DEF p
<1> QED BY <1>2, <1>3, <1>4 DEF Revised, p, n

-----------------------------------------------------------------------------
(* Generations and the inventory.                                          *)

\* The parts of the state of a generation.
LEMMA SlotType ==
  ASSUME NEW s \in Slots
  PROVE  /\ s.id \in Ids \cup {None} /\ s.users \in Nat
         /\ s.phase \in {"free", "starting", "ready", "failed", "drained", "gone"}
         /\ s.stopping \in BOOLEAN /\ s.cancelled \in BOOLEAN /\ s.late \in BOOLEAN
  BY DEF Slots

\* A generation moves on without being retired or unregistered, and is no longer
\* ready only if it was retired and nobody observes it.
LEMMA SlotMoves ==
  ASSUME IInv, NEW g \in Generations, NEW s \in Slots, SetSlot(g, s),
         UNCHANGED <<registry, metadata, job, refresh, watch>>,
         s.id = slot[g].id, s.stopping = slot[g].stopping, s.stopping => s.cancelled,
         s.phase \in Unregistered <=> slot[g].phase \in Unregistered,
         \/ slot[g].phase = "ready" => s.phase = "ready"
         \/ slot[g].stopping /\ \A j \in Jobs : job[j].by # g
  PROVE  IInv'
<1>1. slot' = [slot EXCEPT ![g] = s] /\ slot \in [Generations -> Slots]
  BY DEF SetSlot, IInv, TypeOK
<1>2. slot' \in [Generations -> Slots]
  BY <1>1
<1>3. \A x \in Generations : slot'[x] = IF x = g THEN s ELSE slot[x]
  BY <1>1
<1>4. TypeOK'
  BY <1>2 DEF IInv, TypeOK, registry
<1>5. Followers'
  BY DEF IInv, Followers
<1>6. Registration'
  BY <1>3 DEF IInv, TypeOK, Registration, registry
<1>7. Staging'
  BY DEF IInv, Staging, registry
<1>8. ASSUME NEW id \in Ids
      PROVE  (Served(id) /\ Observed(id) /\ Attributed(id) /\ Marked(id))'
  <2>1. metadata[id].slot \in Generations \cup {None}
    BY MetadataType DEF IInv, TypeOK
  <2>2. Served(id)'
    BY <1>3, <2>1 DEF IInv, Snapshots, Served, registry
  <2>3. (Observed(id) /\ Attributed(id) /\ Marked(id))'
    BY DEF IInv, Snapshots, Observed, Attributed, Marked, registry
  <2> QED BY <2>2, <2>3
<1>9. Observers'
  <2> SUFFICES ASSUME NEW j \in Jobs, job[j] # NoObservation
               PROVE  Running(j)'
    BY DEF Observers, Running
  <2>1. Running(j)
    BY DEF IInv, Observers
  <2> QED BY <1>3, <2>1 DEF Running
<1> QED BY <1>4, <1>5, <1>6, <1>7, <1>8, <1>9 DEF IInv, Snapshots

\* startClient ends, and the creator's hook runs.
LEMMA StartKeeps ==
  ASSUME IInv, NEW g \in Generations, StartReturns(g) \/ HookRuns(g)
  PROVE  IInv'
<1>1. slot[g] \in Slots /\ (slot[g].stopping => slot[g].cancelled)
  BY DEF IInv, TypeOK, Registration
<1>2. CASE StartReturns(g)
  <2>1. PICK ok \in BOOLEAN, late \in BOOLEAN :
          SetSlot(g, [slot[g] EXCEPT !.phase = IF ok THEN "ready" ELSE "failed", !.late = late])
    BY <1>2 DEF StartReturns
  <2> DEFINE s == [slot[g] EXCEPT !.phase = IF ok THEN "ready" ELSE "failed", !.late = late]
  <2>2. /\ s \in Slots /\ s.id = slot[g].id /\ s.stopping = slot[g].stopping
        /\ s.cancelled = slot[g].cancelled /\ s.phase \in {"ready", "failed"}
    BY <1>1 DEF Slots
  <2>3. SetSlot(g, s) /\ slot[g].phase = "starting" /\ UNCHANGED <<registry, metadata, job, refresh, watch>>
    BY <1>2, <2>1 DEF StartReturns
  <2> HIDE DEF s
  <2>4. s.phase \notin Unregistered /\ slot[g].phase \notin Unregistered
    BY <2>2, <2>3 DEF Unregistered
  <2> QED BY <1>1, <2>2, <2>3, <2>4, SlotMoves
<1>3. CASE HookRuns(g)
  <2> DEFINE s == [slot[g] EXCEPT !.cancelled = TRUE, !.late = FALSE]
  <2>1. /\ s \in Slots /\ s.id = slot[g].id /\ s.stopping = slot[g].stopping
        /\ s.cancelled = TRUE /\ s.phase = slot[g].phase
    BY <1>1 DEF Slots
  <2>2. SetSlot(g, s) /\ UNCHANGED <<registry, metadata, job, refresh, watch>>
    BY <1>3 DEF HookRuns
  <2> HIDE DEF s
  <2> QED BY <2>1, <2>2, SlotMoves
<1> QED BY <1>2, <1>3

\* The drain of a retired generation, and the end of an observation.
LEMMA DrainKeeps ==
  ASSUME IInv, NEW g \in Generations, Drain(g) \/ ObserveReturns(g)
  PROVE  IInv'
<1>1. slot[g] \in Slots /\ (slot[g].stopping => slot[g].cancelled)
  BY DEF IInv, TypeOK, Registration
<1>2. CASE Drain(g)
  <2> DEFINE s == [slot[g] EXCEPT !.phase = "drained"]
  <2>1. /\ s \in Slots /\ s.id = slot[g].id /\ s.stopping = slot[g].stopping
        /\ s.cancelled = slot[g].cancelled /\ s.phase = "drained"
    BY <1>1 DEF Slots
  <2>2. /\ SetSlot(g, s) /\ UNCHANGED <<registry, metadata, job, refresh, watch>>
        /\ slot[g].phase \in {"ready", "failed"} /\ slot[g].stopping /\ \A j \in Jobs : job[j].by # g
    BY <1>2 DEF Drain
  <2> HIDE DEF s
  <2>3. s.phase \notin Unregistered /\ slot[g].phase \notin Unregistered
    BY <2>1, <2>2 DEF Unregistered
  <2> QED BY <1>1, <2>1, <2>2, <2>3, SlotMoves
<1>3. CASE ObserveReturns(g)
  <2> DEFINE n == slot[g].users - 1
             s == [slot[g] EXCEPT !.users = n]
  <2>1. n \in Nat
    BY <1>1, <1>3, SlotType DEF ObserveReturns
  <2>2. SetSlot(g, s) /\ UNCHANGED <<registry, metadata, job, refresh, watch>>
    BY <1>3 DEF ObserveReturns
  <2> HIDE DEF n
  <2>3. /\ s \in Slots /\ s.id = slot[g].id /\ s.stopping = slot[g].stopping
        /\ s.cancelled = slot[g].cancelled /\ s.phase = slot[g].phase
    BY <1>1, <2>1 DEF Slots
  <2> HIDE DEF s
  <2> QED BY <1>1, <2>2, <2>3, SlotMoves
<1> QED BY <1>2, <1>3

\* startSlotLocked registers a generation that nothing refers to yet.
LEMMA StartSlotKeeps ==
  ASSUME IInv, NEW g \in Generations, NEW id \in Ids, StartSlot(g, id)
  PROVE  IInv'
<1> DEFINE s == [FreeSlot EXCEPT !.id = id, !.phase = "starting"]
<1>1. /\ id \in connections \ change.changed /\ clients[id] = None
      /\ SetSlot(g, s) /\ clients' = [clients EXCEPT ![id] = g]
      /\ UNCHANGED <<closed, connections, change, metadata, job, refresh, watch>>
  BY DEF StartSlot, Startable
<1>2. slot[g].phase = "free"
  BY DEF StartSlot, FreeSlot
<1>3. s \in Slots /\ s.id = id /\ s.phase = "starting" /\ s.stopping = FALSE
  BY DEF FreeSlot, Slots
<1> HIDE DEF s
<1>4. slot \in [Generations -> Slots] /\ clients \in [Ids -> Generations \cup {None}]
  BY DEF IInv, TypeOK
<1>5. /\ slot' \in [Generations -> Slots] /\ clients' \in [Ids -> Generations \cup {None}]
      /\ \A x \in Generations : slot'[x] = IF x = g THEN s ELSE slot[x]
      /\ \A i \in Ids : clients'[i] = IF i = id THEN g ELSE clients[i]
  BY <1>1, <1>3, <1>4 DEF SetSlot
<1>6. TypeOK'
  BY <1>1, <1>5 DEF IInv, TypeOK
<1>7. Followers'
  BY <1>1 DEF IInv, Followers
<1>8. Registration'
  <2>1. g # None
    BY MetadataAssumption
  <2>2. "starting" \notin Unregistered /\ "free" \in Unregistered
    BY DEF Unregistered
  <2>3. /\ \A x \in Generations :
             slot[x].phase \notin Unregistered => slot[x].id \in Ids /\ clients[slot[x].id] = x
        /\ \A x \in Generations : slot[x].stopping => slot[x].cancelled
        /\ \A i \in Ids : clients[i] # None =>
             /\ slot[clients[i]].phase \notin Unregistered /\ slot[clients[i]].id = i
             /\ i \in connections
    BY DEF IInv, Registration
  <2>4. \A x \in Generations :
          slot'[x].phase \notin Unregistered => slot'[x].id \in Ids /\ clients'[slot'[x].id] = x
    BY <1>1, <1>3, <1>5, <2>1, <2>3, MetadataAssumption
  <2>5. \A i \in Ids : clients'[i] # None =>
          /\ slot'[clients'[i]].phase \notin Unregistered /\ slot'[clients'[i]].id = i
          /\ i \in connections
    BY <1>1, <1>2, <1>3, <1>4, <1>5, <2>2, <2>3
  <2>6. \A x \in Generations : slot'[x].stopping => slot'[x].cancelled
    BY <1>3, <1>5, <2>3
  <2> QED BY <1>1, <2>4, <2>5, <2>6 DEF Registration
<1>9. Staging'
  <2>1. change.changed \subseteq Ids
    BY DEF IInv, TypeOK, Changes
  <2> QED BY <1>1, <1>5, <2>1 DEF IInv, Staging
<1>10. ASSUME NEW i \in Ids
       PROVE  (Served(i) /\ Observed(i) /\ Attributed(i) /\ Marked(i))'
  <2>1. metadata[i].slot \in Generations \cup {None}
    BY MetadataType DEF IInv, TypeOK
  <2>2. Served(i)'
    BY <1>1, <1>2, <1>5, <2>1 DEF IInv, Snapshots, Served
  <2>3. (Observed(i) /\ Attributed(i) /\ Marked(i))'
    BY <1>1 DEF IInv, Snapshots, Observed, Attributed, Marked
  <2> QED BY <2>2, <2>3
<1>11. Observers'
  <2> SUFFICES ASSUME NEW j \in Jobs, job[j] # NoObservation
               PROVE  Running(j)'
    BY <1>1 DEF Observers, Running
  <2>1. Running(j)
    BY DEF IInv, Observers
  <2> QED BY <1>1, <1>2, <1>5, <2>1 DEF Running
<1> QED BY <1>6, <1>7, <1>8, <1>9, <1>10, <1>11 DEF IInv, Snapshots

\* The last section of stopSlot: a generation that is torn down is not observed
\* and no snapshot serves it.
LEMMA UnregisterKeeps ==
  ASSUME IInv, NEW g \in Generations, Unregister(g)
  PROVE  IInv'
<1> DEFINE s == [slot[g] EXCEPT !.phase = "gone"]
           id == slot[g].id
<1>1. slot[g] \in Slots /\ slot \in [Generations -> Slots] /\ clients \in [Ids -> Generations \cup {None}]
  BY DEF IInv, TypeOK
<1>2. /\ slot[g].phase = "drained" /\ SetSlot(g, s)
      /\ UNCHANGED <<closed, connections, change, metadata, job, refresh, watch>>
  BY DEF Unregister
<1>3. s \in Slots /\ s.phase = "gone" /\ s.stopping = slot[g].stopping /\ s.cancelled = slot[g].cancelled
  BY <1>1 DEF Slots
<1> HIDE DEF s
<1>4. "drained" \notin Unregistered /\ "gone" \in Unregistered
  BY DEF Unregistered
<1>5. id \in Ids /\ clients[id] = g
  BY <1>2, <1>4 DEF IInv, Registration
<1>6. clients' = [clients EXCEPT ![id] = None]
  BY <1>5 DEF Unregister
<1> HIDE DEF id
<1>7. /\ slot' \in [Generations -> Slots] /\ clients' \in [Ids -> Generations \cup {None}]
      /\ \A x \in Generations : slot'[x] = IF x = g THEN s ELSE slot[x]
      /\ \A i \in Ids : clients'[i] = IF i = id THEN None ELSE clients[i]
  BY <1>1, <1>2, <1>3, <1>5, <1>6 DEF SetSlot
<1>8. TypeOK'
  BY <1>2, <1>7 DEF IInv, TypeOK
<1>9. Followers'
  BY <1>2 DEF IInv, Followers
<1>10. Registration'
  <2>1. /\ \A x \in Generations :
             slot[x].phase \notin Unregistered => slot[x].id \in Ids /\ clients[slot[x].id] = x
        /\ \A x \in Generations : slot[x].stopping => slot[x].cancelled
        /\ \A i \in Ids : clients[i] # None =>
             /\ slot[clients[i]].phase \notin Unregistered /\ slot[clients[i]].id = i
             /\ i \in connections
    BY DEF IInv, Registration
  <2>2. \A x \in Generations :
          slot'[x].phase \notin Unregistered => slot'[x].id \in Ids /\ clients'[slot'[x].id] = x
    BY <1>3, <1>4, <1>5, <1>7, <2>1
  <2>3. \A i \in Ids : clients'[i] # None =>
          /\ slot'[clients'[i]].phase \notin Unregistered /\ slot'[clients'[i]].id = i
          /\ i \in connections
    <3>1. \A i \in Ids : clients[i] = g => i = id
      BY <2>1, MetadataAssumption DEF id
    <3> QED BY <1>1, <1>5, <1>7, <2>1, <3>1
  <2>4. \A x \in Generations : slot'[x].stopping => slot'[x].cancelled
    BY <1>3, <1>7, <2>1
  <2> QED BY <1>2, <2>2, <2>3, <2>4 DEF Registration
<1>11. Staging'
  <2>1. change.changed \subseteq Ids
    BY DEF IInv, TypeOK, Changes
  <2> QED BY <1>2, <1>7, <2>1 DEF IInv, Staging
<1>12. ASSUME NEW i \in Ids
       PROVE  (Served(i) /\ Observed(i) /\ Attributed(i) /\ Marked(i))'
  <2>1. metadata[i].slot \in Generations \cup {None}
    BY MetadataType DEF IInv, TypeOK
  <2>2. Served(i)'
    BY <1>2, <1>5, <1>7, <2>1 DEF IInv, Snapshots, Served
  <2>3. (Observed(i) /\ Attributed(i) /\ Marked(i))'
    BY <1>2 DEF IInv, Snapshots, Observed, Attributed, Marked
  <2> QED BY <2>2, <2>3
<1>13. Observers'
  <2> SUFFICES ASSUME NEW j \in Jobs, job[j] # NoObservation
               PROVE  Running(j)'
    BY <1>2 DEF Observers, Running
  <2>1. Running(j)
    BY DEF IInv, Observers
  <2> QED BY <1>2, <1>7, <2>1 DEF Running
<1> QED BY <1>8, <1>9, <1>10, <1>11, <1>12, <1>13 DEF IInv, Snapshots

\* Giving up a change or a wait.
LEMMA AbandonKeeps ==
  ASSUME IInv, AbandonInventory \/ \E r \in Refreshers : RefreshAbandon(r)
  PROVE  IInv'
<1>1. UNCHANGED <<closed, connections, clients, slot, metadata, job, watch>>
  BY DEF AbandonInventory, RefreshAbandon, registry
<1>2. (change' = NoChange \/ change' = change) /\ refresh' \in [Refreshers -> Jobs \cup {None}]
  BY DEF AbandonInventory, RefreshAbandon, registry, IInv, TypeOK
<1>3. NoChange \in Changes /\ NoChange.changed = {} /\ NoChange.staged = FALSE
  BY DEF NoChange, Changes
<1>4. TypeOK'
  BY <1>1, <1>2, <1>3 DEF IInv, TypeOK
<1>5. Staging'
  BY <1>1, <1>2, <1>3 DEF IInv, Staging
<1>6. Registration' /\ Followers'
  BY <1>1 DEF IInv, Registration, Followers
<1>7. Snapshots'
  BY <1>1 DEF IInv, Snapshots, Served, Observed, Attributed, Marked
<1>8. Observers'
  BY <1>1 DEF IInv, Observers, Running
<1> QED BY <1>4, <1>5, <1>6, <1>7, <1>8 DEF IInv

-----------------------------------------------------------------------------
(* Sections that change the snapshot of one connection.                    *)

\* A ready generation of a connection is the registered one.
LEMMA ReadyIsRegistered ==
  ASSUME IInv, NEW g \in Generations, slot[g].phase = "ready"
  PROVE  slot[g].id \in Ids /\ clients[slot[g].id] = g /\ slot[g].id \in connections
<1>1. "ready" \notin Unregistered /\ g # None
  BY MetadataAssumption DEF Unregistered
<1>2. slot[g].id \in Ids /\ clients[slot[g].id] = g
  BY <1>1 DEF IInv, Registration
<1> QED BY <1>1, <1>2 DEF IInv, Registration

\* An observation is that of the registered generation of its connection.
LEMMA ObserverIsRegistered ==
  ASSUME IInv, NEW j \in Jobs, job[j] # NoObservation
  PROVE  /\ job[j].id \in Ids /\ job[j].by \in Generations
         /\ clients[job[j].id] = job[j].by /\ metadata[job[j].id].running = j
         /\ slot[job[j].by].phase = "ready" /\ slot[job[j].by].id = job[j].id
         /\ metadata[job[j].id].slot = job[j].by \/ slot[job[j].by].stopping
<1>1. Running(j)
  BY DEF IInv, Observers
<1>2. /\ job[j].id \in Ids /\ job[j].by \in Generations /\ metadata[job[j].id].running = j
      /\ slot[job[j].by].phase = "ready" /\ slot[job[j].by].id = job[j].id
      /\ metadata[job[j].id].slot = job[j].by \/ slot[job[j].by].stopping
  BY <1>1 DEF Running
<1> QED BY <1>2, ReadyIsRegistered

\* The connection an observation belongs to, told from its record.
LEMMA ObservationOf ==
  ASSUME NEW o, NEW id \in Ids, o.id = id
  PROVE  o # NoObservation
<1>1. NoObservation.id = None /\ id # None
  BY MetadataAssumption DEF NoObservation
<1> QED BY <1>1

\* The running observation of a connection is not one of another.
LEMMA RunningIsOwn ==
  ASSUME IInv, NEW id \in Ids, metadata[id].running # None
  PROVE  /\ metadata[id].running \in Jobs /\ job[metadata[id].running].id = id
         /\ job[metadata[id].running] # NoObservation
<1>1. metadata[id].running \in Jobs
  BY MetadataType DEF IInv, TypeOK
<1>2. job[metadata[id].running].id = id
  BY DEF IInv, Snapshots, Observed
<1> QED BY <1>1, <1>2, ObservationOf

\* Only one snapshot changes, of id; observations of other connections and their
\* generations are left alone, and a generation that is retired is that of id.
LEMMA OneSnapshot ==
  ASSUME IInv, NEW id \in Ids, NEW p \in Metadata, metadata' = [metadata EXCEPT ![id] = p],
         UNCHANGED registry, Followers', watch' \in [Watchers -> WatchCalls],
         slot' \in [Generations -> Slots], job' \in [Jobs -> Observations],
         refresh' \in [Refreshers -> Jobs \cup {None}],
         \A x \in Generations :
           /\ slot'[x].id = slot[x].id /\ slot'[x].phase = slot[x].phase
           /\ slot[x].stopping => slot'[x].stopping
           /\ slot'[x].stopping => slot'[x].cancelled /\ (slot[x].stopping \/ x = clients[id]),
         \A j \in Jobs : job'[j] # job[j] => job[j].id \in {id, None} /\ job'[j].id \in {id, None},
         \A j \in Jobs : job'[j] # job[j] /\ job'[j].id = None => job'[j] = NoObservation,
         (Served(id) /\ Observed(id) /\ Attributed(id) /\ Marked(id))',
         \A j \in Jobs : job'[j].id = id => Running(j)'
  PROVE  IInv'
<1>1. metadata \in [Ids -> Metadata]
  BY DEF IInv, TypeOK
<1>2. /\ metadata' \in [Ids -> Metadata]
      /\ \A i \in Ids : metadata'[i] = IF i = id THEN p ELSE metadata[i]
  BY <1>1
<1>3. TypeOK'
  BY <1>2 DEF IInv, TypeOK, registry
<1>4. Registration'
  <2>1. clients \in [Ids -> Generations \cup {None}]
    BY DEF IInv, TypeOK
  <2> QED BY <2>1 DEF IInv, Registration, registry
<1>5. Staging'
  BY DEF IInv, Staging, registry
<1>6. ASSUME NEW i \in Ids, i # id
      PROVE  (Served(i) /\ Observed(i) /\ Attributed(i) /\ Marked(i))'
  <2>1. metadata'[i] = metadata[i]
    BY <1>2, <1>6
  <2>2. metadata[i].slot \in Generations \cup {None} /\ metadata[i].running \in Jobs \cup {None}
    BY <1>1, MetadataType
  <2>3. Served(i)'
    <3>1. metadata[i].slot # None => metadata[i].slot # clients[id]
      BY <1>6, <2>2 DEF IInv, Snapshots, Served, Registration
    <3> QED BY <2>1, <2>2, <3>1 DEF IInv, Snapshots, Served, registry
  <2>4. Observed(i)'
    <3>1. metadata[i].running # None => job'[metadata[i].running].id = i
      <4> SUFFICES ASSUME metadata[i].running # None
                   PROVE  job'[metadata[i].running].id = i
        OBVIOUS
      <4>1. metadata[i].running \in Jobs /\ job[metadata[i].running].id = i
        BY RunningIsOwn
      <4> QED BY <1>6, <4>1, MetadataAssumption
    <3> QED BY <2>1, <3>1 DEF IInv, Snapshots, Observed
  <2>5. (Attributed(i) /\ Marked(i))'
    BY <2>1 DEF IInv, Snapshots, Attributed, Marked, registry
  <2> QED BY <2>3, <2>4, <2>5
<1>7. ASSUME NEW j \in Jobs
      PROVE  Running(j)'
  <2>1. CASE job'[j].id = id
    BY <2>1
  <2>2. CASE job'[j] = NoObservation
    BY <2>2 DEF Running
  <2>3. CASE job'[j] # NoObservation /\ job'[j].id # id
    <3>1. job'[j] = job[j]
      BY <2>3
    <3>2. Running(j) /\ job[j] # NoObservation /\ job[j].id \in Ids \ {id} /\ job[j].by \in Generations
      BY <2>3, <3>1 DEF IInv, Observers, Running
    <3>3. metadata'[job[j].id] = metadata[job[j].id]
      BY <1>2, <3>2
    <3> QED BY <3>1, <3>2, <3>3 DEF Running
  <2> QED BY <2>1, <2>2, <2>3
<1>8. Snapshots' /\ Observers'
  BY <1>6, <1>7 DEF Snapshots, Observers
<1> QED BY <1>3, <1>4, <1>5, <1>8 DEF IInv

\* Announcing one snapshot.
LEMMA AnnouncedOne ==
  ASSUME IInv, NEW id \in Ids, NEW p \in Metadata, metadata[id].revision <= p.revision,
         AnnounceOne(id, p)
  PROVE  /\ metadata' = [metadata EXCEPT ![id] = p] /\ metadata'[id] = p
         /\ watch' \in [Watchers -> WatchCalls] /\ Followers' /\ Unnoticed
<1> DEFINE next == [metadata EXCEPT ![id] = p]
<1>1. metadata \in [Ids -> Metadata] /\ watch \in [Watchers -> WatchCalls] /\ Followers
  BY DEF IInv, TypeOK
<1>2. next \in [Ids -> Metadata] /\ \A i \in Ids : next[i] = IF i = id THEN p ELSE metadata[i]
  BY <1>1
<1>3. Announce(next)
  BY DEF AnnounceOne
<1>4. next[id] = p
  BY <1>2
<1> HIDE DEF next
<1>5. Grows(next)
  <2>1. \A i \in Ids : metadata[i].revision <= next[i].revision
    <3> SUFFICES ASSUME NEW i \in Ids PROVE metadata[i].revision <= next[i].revision
      OBVIOUS
    <3>1. metadata[i].revision \in Nat
      BY <1>1, RevisionType
    <3> QED BY <1>2, <3>1
  <2> QED BY <1>1, <1>2, <2>1 DEF Grows
<1>6. metadata' = next /\ watch' \in [Watchers -> WatchCalls] /\ Followers' /\ Unnoticed
  BY <1>1, <1>3, <1>5, Announced
<1> QED BY <1>4, <1>6 DEF next

\* The first section of stopSlot takes the generation out of its snapshot.
LEMMA StopSlotKeeps ==
  ASSUME IInv, NEW g \in Generations, StopSlot(g)
  PROVE  IInv' /\ Unnoticed
<1> DEFINE s == [slot[g] EXCEPT !.stopping = TRUE, !.cancelled = TRUE]
<1>1. slot \in [Generations -> Slots] /\ slot[g] \in Slots /\ metadata \in [Ids -> Metadata]
  BY DEF IInv, TypeOK
<1>2. PICK id \in Ids : id = slot[g].id /\ clients[id] = g
  <2>1. slot[g].phase \notin Unregistered
    BY DEF StopSlot, Unregistered
  <2> QED BY <2>1 DEF IInv, Registration
<1>3. PICK m \in Metadata : m = metadata[id]
  BY <1>1
<1>4. PICK p : p = Stop(m, g)
  OBVIOUS
<1>5. /\ SetSlot(g, s) /\ AnnounceOne(id, p)
      /\ UNCHANGED registry /\ UNCHANGED job /\ UNCHANGED refresh
  BY <1>2, <1>3, <1>4 DEF StopSlot
<1>6. /\ s \in Slots /\ s.id = slot[g].id /\ s.phase = slot[g].phase
      /\ s.stopping = TRUE /\ s.cancelled = TRUE
  BY <1>1 DEF Slots
<1> HIDE DEF s
<1>7. /\ slot' \in [Generations -> Slots]
      /\ \A x \in Generations : slot'[x] = IF x = g THEN s ELSE slot[x]
  BY <1>1, <1>5, <1>6 DEF SetSlot
<1>8. Served(id) /\ Observed(id) /\ Attributed(id) /\ Marked(id)
  BY <1>2 DEF IInv, Snapshots
<1>9. m.slot = g \/ m.slot = None
  BY <1>2, <1>3, <1>8 DEF Served
<1>10. /\ p \in Metadata /\ m.revision <= p.revision
       /\ p.running = m.running /\ p.generation = m.generation /\ p.removed = m.removed
       /\ m.slot # g => p = m
       /\ m.slot = g =>
            /\ p.slot = None /\ p.active = FALSE /\ p.refreshing = FALSE /\ p.pending = FALSE
            /\ 0 < p.revision
            /\ \A k \in Keys : /\ p.entries[k].by = m.entries[k].by
                               /\ p.entries[k].state # "current"
  BY <1>4, StopFacts
<1>11. /\ metadata' = [metadata EXCEPT ![id] = p] /\ metadata'[id] = p
       /\ watch' \in [Watchers -> WatchCalls] /\ Followers' /\ Unnoticed
  BY <1>3, <1>5, <1>10, AnnouncedOne
<1>12. p.slot = None /\ p.active = FALSE /\ p.refreshing = FALSE /\ p.pending = FALSE
  <2>1. m.slot = None => m.active = FALSE /\ m.refreshing = FALSE /\ m.pending = FALSE
    BY <1>3, <1>8, MetadataType DEF Served, Observed
  <2> QED BY <1>9, <1>10, <2>1, MetadataAssumption
<1>13. Served(id)'
  BY <1>11, <1>12 DEF Served
<1>14. Observed(id)'
  BY <1>3, <1>5, <1>8, <1>10, <1>11, <1>12 DEF Observed
<1>15. Attributed(id)'
  BY <1>3, <1>8, <1>9, <1>10, <1>11, <1>12, MetadataAssumption DEF Attributed, Served
<1>16. Marked(id)'
  <2>1. m.revision \in Nat /\ p.revision \in Nat
    BY <1>10, MetadataType
  <2>2. p.revision > 0 <=> m.revision > 0
    <3>1. id \in connections /\ m.revision > 0
      BY <1>2, <1>3, <1>8, MetadataAssumption DEF IInv, Registration, Marked
    <3> QED BY <1>10, <2>1, <3>1
  <2> QED BY <1>3, <1>5, <1>8, <1>10, <1>11, <2>2 DEF Marked, registry
<1>17. ASSUME NEW j \in Jobs, job'[j].id = id
       PROVE  Running(j)'
  <2>1. job[j] # NoObservation /\ job[j].id = id
    BY <1>2, <1>5, <1>17, ObservationOf
  <2>2. job[j].by = g /\ Running(j)
    BY <1>2, <2>1, ObserverIsRegistered DEF IInv, Observers
  <2> QED BY <1>3, <1>5, <1>6, <1>7, <1>10, <1>11, <2>1, <2>2 DEF Running
<1>18. \A x \in Generations :
         /\ slot'[x].id = slot[x].id /\ slot'[x].phase = slot[x].phase
         /\ slot[x].stopping => slot'[x].stopping
         /\ slot'[x].stopping => slot'[x].cancelled /\ (slot[x].stopping \/ x = clients[id])
  BY <1>2, <1>6, <1>7 DEF IInv, Registration
<1>19. job' = job /\ job' \in [Jobs -> Observations] /\ refresh' \in [Refreshers -> Jobs \cup {None}]
  BY <1>5 DEF IInv, TypeOK
<1>20. (Served(id) /\ Observed(id) /\ Attributed(id) /\ Marked(id))'
  BY <1>13, <1>14, <1>15, <1>16
<1>21. IInv'
  BY <1>2, <1>5, <1>7, <1>10, <1>11, <1>17, <1>18, <1>19, <1>20, OneSnapshot
<1> QED BY <1>11, <1>21

\* An observation begins: of a generation that the snapshot serves, with none
\* running.
LEMMA BeginKeeps ==
  ASSUME IInv, NEW id \in Ids, NEW j \in Spare, metadata[id].running = None, NEW n \in Metadata,
         metadata[id].revision <= n.revision, 0 < n.revision, n.running = None,
         n.slot # None, n.slot = clients[id], n.generation = n.slot, n.active = TRUE,
         slot[n.slot].phase = "ready", ~slot[n.slot].stopping, ~closed,
         n.pending = FALSE, n.removed = FALSE,
         \A k \in Keys : n.entries[k].by # None => n.entries[k].by = n.generation,
         job' = Observing(n, id, j), AnnounceOne(id, Acquire(n, j)),
         UNCHANGED registry, UNCHANGED slot, refresh' \in [Refreshers -> Jobs \cup {None}]
  PROVE  IInv' /\ Unnoticed
<1> DEFINE p == Acquire(n, j)
           o == [id |-> id, by |-> n.slot]
<1>1. /\ j \in Jobs /\ job[j] = NoObservation /\ job \in [Jobs -> Observations]
      /\ metadata \in [Ids -> Metadata] /\ slot \in [Generations -> Slots]
      /\ metadata[id] \in Metadata /\ n.slot \in Generations
  BY MetadataType DEF Spare, IInv, TypeOK
<1>2. o \in Observations /\ o.id = id /\ o.by = n.slot
  BY <1>1 DEF Observations
<1>3. job' = [job EXCEPT ![j] = o]
  BY DEF Observing
<1> HIDE DEF o
<1>4. job' \in [Jobs -> Observations] /\ \A k \in Jobs : job'[k] = IF k = j THEN o ELSE job[k]
  BY <1>1, <1>2, <1>3
<1>5. /\ p \in Metadata /\ n.revision <= p.revision /\ p.running = j /\ p.refreshing = TRUE
      /\ 0 < p.revision /\ p.generation = n.generation /\ p.active = n.active
      /\ p.entries = n.entries /\ p.removed = n.removed /\ p.slot = n.slot /\ p.pending = n.pending
  BY <1>1, AcquireFacts
<1> HIDE DEF p
<1>6. metadata[id].revision <= p.revision
  <2>1. metadata[id].revision \in Nat /\ n.revision \in Nat /\ p.revision \in Nat
    BY <1>1, <1>5, MetadataType
  <2> QED BY <1>5, <2>1
<1>7. /\ metadata' = [metadata EXCEPT ![id] = p] /\ metadata'[id] = p
      /\ watch' \in [Watchers -> WatchCalls] /\ Followers' /\ Unnoticed
  BY <1>5, <1>6, AnnouncedOne DEF p
<1>8. slot[n.slot].id = id /\ id \in connections
  BY <1>1 DEF IInv, Registration
<1>9. Served(id)'
  BY <1>5, <1>7 DEF Served, registry
<1>10. Observed(id)'
  BY <1>1, <1>2, <1>4, <1>5, <1>7, MetadataAssumption DEF Observed
<1>11. Attributed(id)'
  BY <1>5, <1>7 DEF Attributed
<1>12. Marked(id)'
  BY <1>5, <1>7, <1>8 DEF Marked, registry
<1>13. ASSUME NEW k \in Jobs, job'[k].id = id
       PROVE  Running(k)'
  <2>1. k = j
    <3> SUFFICES ASSUME k # j PROVE FALSE
      OBVIOUS
    <3>1. job[k].id = id /\ job[k] # NoObservation
      BY <1>4, <1>13, ObservationOf
    <3>2. metadata[id].running = k
      BY <3>1, ObserverIsRegistered
    <3> QED BY <3>2, MetadataAssumption
  <2>2. o = [id |-> o.id, by |-> o.by]
    BY <1>2 DEF o
  <2> QED BY <1>1, <1>2, <1>4, <1>5, <1>7, <1>8, <2>1, <2>2 DEF Running
<1>14. \A x \in Generations :
         /\ slot'[x].id = slot[x].id /\ slot'[x].phase = slot[x].phase
         /\ slot[x].stopping => slot'[x].stopping
         /\ slot'[x].stopping => slot'[x].cancelled /\ (slot[x].stopping \/ x = clients[id])
  BY DEF IInv, Registration
<1>15. /\ \A k \in Jobs : job'[k] # job[k] => job[k].id \in {id, None} /\ job'[k].id \in {id, None}
       /\ \A k \in Jobs : job'[k] # job[k] /\ job'[k].id = None => job'[k] = NoObservation
  <2>1. NoObservation.id = None /\ id # None
    BY MetadataAssumption DEF NoObservation
  <2> QED BY <1>1, <1>2, <1>4, <2>1
<1>16. (Served(id) /\ Observed(id) /\ Attributed(id) /\ Marked(id))'
  BY <1>9, <1>10, <1>11, <1>12
<1>17. slot' \in [Generations -> Slots]
  BY <1>1
<1>18. IInv'
  BY <1>4, <1>5, <1>7, <1>13, <1>14, <1>15, <1>16, <1>17, OneSnapshot
<1> QED BY <1>7, <1>18

\* metadataAdmitLocked finds no observation running: one of a predecessor would
\* have kept that registered, one of its own would have been admitted or retired.
LEMMA AdmitKeeps ==
  ASSUME IInv, NEW g \in Generations, Admit(g)
  PROVE  IInv' /\ Unnoticed
<1>1. PICK id \in Ids : id = slot[g].id /\ clients[id] = g /\ id \in connections
  BY ReadyIsRegistered DEF Admit
<1>2. PICK m \in Metadata : m = metadata[id]
  BY DEF IInv, TypeOK
<1>3. PICK n : n = Publish(m, [m EXCEPT !.slot = g, !.generation = g, !.active = TRUE,
                                        !.refreshing = FALSE, !.failed = FALSE,
                                        !.entries = NoEntries, !.removed = FALSE])
  OBVIOUS
<1>4. PICK j \in Spare : job' = Observing(n, id, j) /\ AnnounceOne(id, Acquire(n, j))
  BY <1>1, <1>2, <1>3 DEF Admit
<1>5. /\ slot[g].phase = "ready" /\ ~slot[g].stopping /\ ~closed /\ m.slot # g
      /\ UNCHANGED registry /\ UNCHANGED slot /\ UNCHANGED refresh
  BY <1>1, <1>2 DEF Admit
<1>6. Served(id) /\ Observed(id)
  BY DEF IInv, Snapshots
<1>7. m.slot = None /\ m.pending = FALSE
  <2>1. m.slot = None
    BY <1>1, <1>2, <1>5, <1>6 DEF Served
  <2> QED BY <1>2, <1>6, <2>1, MetadataType DEF Observed
<1>8. m.running = None
  <2> SUFFICES ASSUME m.running # None PROVE FALSE
    OBVIOUS
  <2>1. /\ m.running \in Jobs /\ job[m.running].id = id /\ job[m.running] # NoObservation
    BY <1>2, RunningIsOwn
  <2>2. job[m.running].by = g /\ (metadata[id].slot = g \/ slot[g].stopping)
    BY <1>1, <2>1, ObserverIsRegistered
  <2> QED BY <1>2, <1>5, <2>2
<1>9. /\ n \in Metadata /\ m.revision <= n.revision /\ 0 < n.revision
      /\ n.running = m.running /\ n.removed = FALSE /\ n.pending = m.pending
      /\ n.slot = g /\ n.generation = g /\ n.active = TRUE /\ n.entries = NoEntries
  BY <1>3, AdmitFacts
<1>10. \A k \in Keys : n.entries[k].by # None => n.entries[k].by = n.generation
  BY <1>9, NoMetadataType
<1>11. refresh' \in [Refreshers -> Jobs \cup {None}] /\ g # None
  BY <1>5, MetadataAssumption DEF IInv, TypeOK
<1> QED BY <1>1, <1>2, <1>4, <1>5, <1>7, <1>8, <1>9, <1>10, <1>11, BeginKeeps

\* An observation on demand, of a connection that is served and not observed.
LEMMA DemandKeeps ==
  ASSUME IInv, NEW id \in Ids, NEW j \in Spare, Serving(id), metadata[id].running = None,
         job' = Observing(metadata[id], id, j), AnnounceOne(id, Acquire(metadata[id], j)),
         UNCHANGED registry, UNCHANGED slot, refresh' \in [Refreshers -> Jobs \cup {None}]
  PROVE  IInv' /\ Unnoticed
<1>1. PICK m \in Metadata : m = metadata[id]
  BY DEF IInv, TypeOK
<1>2. Served(id) /\ Observed(id) /\ Attributed(id) /\ Marked(id)
  BY DEF IInv, Snapshots
<1>3. m.slot # None /\ ~closed /\ m.running = None
  BY <1>1 DEF Serving
<1>4. /\ m.slot \in Generations /\ m.slot = clients[id] /\ m.generation = m.slot /\ m.active = TRUE
      /\ slot[m.slot].phase = "ready" /\ ~slot[m.slot].stopping
  BY <1>1, <1>2, <1>3, MetadataType DEF Served
<1>5. id \in connections
  BY <1>3, <1>4 DEF IInv, Registration
<1>6. 0 < m.revision /\ m.revision <= m.revision /\ m.removed = FALSE
  <2>1. m.revision > 0 /\ m.revision \in Nat /\ m.removed \in BOOLEAN /\ ~m.removed
    BY <1>1, <1>2, <1>5, MetadataType DEF Marked
  <2> QED BY <2>1
<1>7. m.pending = FALSE
  BY <1>1, <1>2, <1>3, MetadataType DEF Observed
<1>8. \A k \in Keys : m.entries[k].by # None => m.entries[k].by = m.generation
  BY <1>1, <1>2 DEF Attributed
<1> QED BY <1>1, <1>3, <1>4, <1>6, <1>7, <1>8, BeginKeeps

\* Nothing but the watchers and who waits for an observation changes.
LEMMA SteadyKeeps ==
  ASSUME IInv, UNCHANGED registry, UNCHANGED slot, UNCHANGED metadata, UNCHANGED job, Followers',
         watch' \in [Watchers -> WatchCalls], refresh' \in [Refreshers -> Jobs \cup {None}]
  PROVE  IInv'
<1>1. TypeOK'
  BY DEF IInv, TypeOK, registry
<1>2. Registration' /\ Staging'
  BY DEF IInv, Registration, Staging, registry
<1>3. Snapshots'
  BY DEF IInv, Snapshots, Served, Observed, Attributed, Marked, registry
<1>4. Observers'
  BY DEF IInv, Observers, Running
<1> QED BY <1>1, <1>2, <1>3, <1>4 DEF IInv

\* RefreshConnectionMetadata joins the observation that runs, or begins one.
LEMMA RefreshKeeps ==
  ASSUME IInv, NEW r \in Refreshers, NEW id \in Ids, RefreshConnectionMetadata(r, id)
  PROVE  IInv' /\ Unnoticed
<1>1. PICK j \in IF metadata[id].running = None THEN Spare ELSE {metadata[id].running} :
        /\ refresh' = [refresh EXCEPT ![r] = j]
        /\ job' = Observing(metadata[id], id, j)
        /\ AnnounceOne(id, Acquire(metadata[id], j))
  BY DEF RefreshConnectionMetadata
<1>2. Serving(id) /\ UNCHANGED registry /\ UNCHANGED slot
  BY DEF RefreshConnectionMetadata
<1>3. metadata \in [Ids -> Metadata] /\ metadata[id] \in Metadata
  BY DEF IInv, TypeOK
<1>4. j \in Jobs
  BY <1>1, <1>3, MetadataType DEF Spare
<1>5. refresh' \in [Refreshers -> Jobs \cup {None}]
  BY <1>1, <1>4 DEF IInv, TypeOK
<1>6. CASE metadata[id].running = None
  <2>1. j \in Spare
    BY <1>1, <1>6
  <2> QED BY <1>1, <1>2, <1>5, <1>6, <2>1, DemandKeeps
<1>7. CASE metadata[id].running # None
  <2>1. UNCHANGED job /\ AnnounceOne(id, metadata[id])
    BY <1>1, <1>7 DEF Observing, Acquire
  <2>2. metadata[id].revision <= metadata[id].revision
    BY <1>3, MetadataType
  <2>3. /\ metadata' = [metadata EXCEPT ![id] = metadata[id]]
        /\ watch' \in [Watchers -> WatchCalls] /\ Followers' /\ Unnoticed
    BY <1>3, <2>1, <2>2, AnnouncedOne
  <2>4. metadata' = metadata
    BY <1>3, <2>3
  <2> QED BY <1>2, <1>5, <2>1, <2>3, <2>4, SteadyKeeps
<1> QED BY <1>6, <1>7

\* Watchers look at revisions only.
LEMMA SameRevisions ==
  ASSUME Followers, UNCHANGED watch, \A id \in Ids : metadata'[id].revision = metadata[id].revision
  PROVE  Followers'
<1> SUFFICES ASSUME NEW w \in Watchers PROVE Follower(watch[w], metadata')
  BY DEF Followers
<1>1. Follower(watch[w], metadata)
  BY DEF Followers
<1>2. Following(watch[w], metadata) => Following(watch[w], metadata')
  BY DEF Following
<1> QED BY <1>1, <1>2 DEF Follower

\* InvalidateConnectionMetadata: an observation follows the one that runs.
LEMMA InvalidateKeeps ==
  ASSUME IInv, NEW id \in Ids, InvalidateConnectionMetadata(id)
  PROVE  IInv' /\ Unnoticed
<1>1. Serving(id) /\ UNCHANGED registry /\ UNCHANGED slot /\ UNCHANGED refresh
  BY DEF InvalidateConnectionMetadata
<1>2. /\ metadata \in [Ids -> Metadata] /\ slot \in [Generations -> Slots] /\ job \in [Jobs -> Observations]
      /\ watch \in [Watchers -> WatchCalls] /\ refresh' \in [Refreshers -> Jobs \cup {None}]
  BY <1>1 DEF IInv, TypeOK
<1>3. ASSUME NEW j \in Spare, metadata[id].running = None,
             job' = Observing(metadata[id], id, j), AnnounceOne(id, Acquire(metadata[id], j))
      PROVE  IInv' /\ Unnoticed
  BY <1>1, <1>2, <1>3, DemandKeeps
<1>4. ASSUME metadata[id].running # None, metadata' = [metadata EXCEPT ![id].pending = TRUE],
             UNCHANGED <<job, watch>>
      PROVE  IInv' /\ Unnoticed
  <2>1. PICK m \in Metadata : m = metadata[id]
    BY <1>2
  <2>2. PICK p : p = [m EXCEPT !.pending = TRUE]
    OBVIOUS
  <2>3. /\ p \in Metadata /\ p.generation = m.generation /\ p.active = m.active
        /\ p.refreshing = m.refreshing /\ p.entries = m.entries /\ p.removed = m.removed
        /\ p.slot = m.slot /\ p.running = m.running /\ p.revision = m.revision
    BY <2>2 DEF Metadata
  <2>4. metadata' = [metadata EXCEPT ![id] = p]
    BY <1>4, <2>1, <2>2
  <2>5. metadata'[id] = p /\ \A i \in Ids : metadata'[i].revision = metadata[i].revision
    BY <1>2, <2>1, <2>3, <2>4
  <2>6. Followers' /\ watch' \in [Watchers -> WatchCalls] /\ job' \in [Jobs -> Observations]
    BY <1>2, <1>4, <2>5, SameRevisions DEF IInv
  <2>7. Unnoticed
    <3>1. \A i \in Ids : metadata[i].revision \in Nat
      BY <1>2, RevisionType
    <3> QED BY <1>4, <2>5, <3>1 DEF Unnoticed
  <2>8. Served(id) /\ Observed(id) /\ Attributed(id) /\ Marked(id)
    BY DEF IInv, Snapshots
  <2>9. m.refreshing
    BY <1>1, <1>4, <2>1, <2>8 DEF Serving, Observed
  <2>10. Served(id)'
    BY <1>1, <2>1, <2>3, <2>5, <2>8 DEF Served, registry
  <2>11. Observed(id)'
    BY <1>4, <2>1, <2>3, <2>5, <2>8, <2>9 DEF Observed
  <2>12. Attributed(id)' /\ Marked(id)'
    BY <1>1, <2>1, <2>3, <2>5, <2>8 DEF Attributed, Marked, registry
  <2>13. ASSUME NEW j \in Jobs, job'[j].id = id
         PROVE  Running(j)'
    <3>1. Running(j)
      BY DEF IInv, Observers
    <3> QED BY <1>1, <1>4, <2>1, <2>3, <2>5, <2>13, <3>1 DEF Running
  <2>14. \A x \in Generations :
           /\ slot'[x].id = slot[x].id /\ slot'[x].phase = slot[x].phase
           /\ slot[x].stopping => slot'[x].stopping
           /\ slot'[x].stopping => slot'[x].cancelled /\ (slot[x].stopping \/ x = clients[id])
    BY <1>1 DEF IInv, Registration
  <2>15. (Served(id) /\ Observed(id) /\ Attributed(id) /\ Marked(id))'
    BY <2>10, <2>11, <2>12
  <2>16. UNCHANGED job /\ slot' \in [Generations -> Slots]
    BY <1>1, <1>2, <1>4
  <2>17. IInv'
    BY <1>1, <1>2, <2>3, <2>4, <2>6, <2>13, <2>14, <2>15, <2>16, OneSnapshot
  <2> QED BY <2>7, <2>17
<1> QED BY <1>3, <1>4 DEF InvalidateConnectionMetadata

\* An observation ends, or is followed by another one of the same generation.
LEMMA CommitKeeps ==
  ASSUME IInv, NEW j \in Jobs, NEW id \in Ids, NEW g \in Generations,
         job[j] # NoObservation, job[j].id = id, job[j].by = g,
         NEW m \in Metadata, m = metadata[id],
         NEW p \in Metadata, m.revision <= p.revision, p.removed = m.removed,
         p.generation = m.generation, p.slot \in {m.slot, None}, p.active <=> p.slot # None,
         p.pending = FALSE,
         \A k \in Keys : /\ p.entries[k].by # None => p.entries[k].by = p.generation
                         /\ p.entries[k].state = "current" => p.active,
         NEW o \in Observations,
         \/ o = NoObservation /\ p.running = None /\ p.refreshing = FALSE
         \/ o = [id |-> id, by |-> g] /\ p.running = j /\ p.refreshing = TRUE /\ p.slot = g,
         job' = [job EXCEPT ![j] = o], AnnounceOne(id, p), Answer(j),
         SetSlot(g, [slot[g] EXCEPT !.users = @ + 1]), UNCHANGED registry
  PROVE  IInv' /\ Unnoticed
<1> DEFINE n == slot[g].users + 1
           s == [slot[g] EXCEPT !.users = n]
<1>1. /\ slot \in [Generations -> Slots] /\ slot[g] \in Slots /\ metadata \in [Ids -> Metadata]
      /\ job \in [Jobs -> Observations] /\ refresh \in [Refreshers -> Jobs \cup {None}]
  BY DEF IInv, TypeOK
<1>2. n \in Nat /\ SetSlot(g, s)
  BY <1>1, SlotType
<1> HIDE DEF n
<1>3. /\ s \in Slots /\ s.id = slot[g].id /\ s.phase = slot[g].phase
      /\ s.stopping = slot[g].stopping /\ s.cancelled = slot[g].cancelled
  BY <1>1, <1>2 DEF Slots
<1> HIDE DEF s
<1>4. /\ slot' \in [Generations -> Slots]
      /\ \A x \in Generations : /\ slot'[x].id = slot[x].id /\ slot'[x].phase = slot[x].phase
                                /\ slot'[x].stopping = slot[x].stopping
                                /\ slot'[x].cancelled = slot[x].cancelled
  <2>1. slot' = [slot EXCEPT ![g] = s]
    BY <1>2 DEF SetSlot
  <2>2. slot' \in [Generations -> Slots] /\ \A x \in Generations : slot'[x] = IF x = g THEN s ELSE slot[x]
    BY <1>1, <1>3, <2>1
  <2> QED BY <1>3, <2>2
<1>5. /\ job' \in [Jobs -> Observations] /\ \A k \in Jobs : job'[k] = IF k = j THEN o ELSE job[k]
  BY <1>1
<1>6. refresh' \in [Refreshers -> Jobs \cup {None}]
  BY <1>1 DEF Answer
<1>7. /\ metadata' = [metadata EXCEPT ![id] = p] /\ metadata'[id] = p
      /\ watch' \in [Watchers -> WatchCalls] /\ Followers' /\ Unnoticed
  BY AnnouncedOne
<1>8. /\ clients[id] = g /\ m.running = j /\ slot[g].phase = "ready" /\ slot[g].id = id
  BY ObserverIsRegistered
<1>9. Served(id) /\ Observed(id) /\ Attributed(id) /\ Marked(id)
  BY DEF IInv, Snapshots
<1>10. id \in connections /\ j # None /\ g # None
  BY <1>8, MetadataAssumption DEF IInv, Registration
<1>11. p.slot \in {None, g}
  BY <1>8, <1>9 DEF Served
<1>12. /\ o.id \in {id, None} /\ (o.id = None => o = NoObservation)
       /\ (p.running # None => o = [id |-> id, by |-> g] /\ o.id = id /\ o.by = g /\ p.running = j)
       /\ (o.id = id => p.running # None)
  <2>1. NoObservation.id = None /\ id # None
    BY MetadataAssumption DEF NoObservation
  <2> QED BY <1>10, <2>1
<1>13. Served(id)'
  BY <1>4, <1>7, <1>9, <1>11 DEF Served, registry
<1>14. Observed(id)'
  <2>1. p.refreshing <=> (p.slot # None /\ p.running # None)
    BY <1>10
  <2>2. p.running # None => job'[p.running].id = id
    BY <1>5, <1>12
  <2> QED BY <1>7, <2>1, <2>2 DEF Observed
<1>15. Attributed(id)'
  BY <1>7 DEF Attributed
<1>16. Marked(id)'
  <2>1. m.revision > 0 /\ m.revision \in Nat /\ p.revision \in Nat /\ ~m.removed
    BY <1>9, <1>10, MetadataType DEF Marked
  <2>2. p.revision > 0
    BY <2>1
  <2> QED BY <1>7, <1>10, <2>1, <2>2 DEF Marked, registry
<1>17. ASSUME NEW k \in Jobs, job'[k].id = id
       PROVE  Running(k)'
  <2>1. k = j
    <3> SUFFICES ASSUME k # j PROVE FALSE
      OBVIOUS
    <3>1. job[k].id = id /\ job[k] # NoObservation
      BY <1>5, <1>17, ObservationOf
    <3> QED BY <1>8, <3>1, ObserverIsRegistered
  <2>2. job'[j] = o /\ o = [id |-> id, by |-> g] /\ o.id = id /\ o.by = g /\ p.running = j /\ p.slot = g
    BY <1>5, <1>12, <1>17, <2>1
  <2> QED BY <1>4, <1>7, <1>8, <2>1, <2>2 DEF Running
<1>18. \A x \in Generations :
         /\ slot'[x].id = slot[x].id /\ slot'[x].phase = slot[x].phase
         /\ slot[x].stopping => slot'[x].stopping
         /\ slot'[x].stopping => slot'[x].cancelled /\ (slot[x].stopping \/ x = clients[id])
  BY <1>4 DEF IInv, Registration
<1>19. /\ \A k \in Jobs : job'[k] # job[k] => job[k].id \in {id, None} /\ job'[k].id \in {id, None}
       /\ \A k \in Jobs : job'[k] # job[k] /\ job'[k].id = None => job'[k] = NoObservation
  BY <1>5, <1>12
<1>20. (Served(id) /\ Observed(id) /\ Attributed(id) /\ Marked(id))'
  BY <1>13, <1>14, <1>15, <1>16
<1>21. IInv'
  BY <1>4, <1>5, <1>6, <1>7, <1>17, <1>18, <1>19, <1>20, OneSnapshot
<1> QED BY <1>7, <1>21

\* A result that was superseded is dropped: its generation was cancelled, and no
\* other one is registered for the connection, so none is observed next.
LEMMA ObserveRetiredKeeps ==
  ASSUME IInv, NEW j \in Jobs, ObserveRetired(j)
  PROVE  IInv' /\ Unnoticed
<1>1. job[j] # NoObservation
  BY DEF ObserveRetired
<1>2. PICK id \in Ids, g \in Generations :
        /\ id = job[j].id /\ g = job[j].by /\ clients[id] = g /\ metadata[id].running = j
        /\ metadata[id].slot = g \/ slot[g].stopping
  BY <1>1, ObserverIsRegistered
<1>3. PICK m \in Metadata : m = metadata[id]
  BY DEF IInv, TypeOK
<1>4. Served(id) /\ Observed(id) /\ Attributed(id) /\ Marked(id)
  BY DEF IInv, Snapshots
<1>5. m.slot \in {g, None}
  BY <1>2, <1>3, <1>4 DEF Served
<1>6. slot[g].cancelled
  <2>1. Superseded(id, g)
    BY <1>2, <1>3 DEF ObserveRetired
  <2>2. slot[g].stopping => slot[g].cancelled
    BY DEF IInv, Registration
  <2>3. CASE m.slot = g
    <3>1. ~closed /\ ~slot[g].stopping
      BY <1>3, <1>4, <2>3, MetadataAssumption DEF Served
    <3> QED BY <1>2, <1>3, <2>1, <2>3, <3>1 DEF Superseded
  <2>4. CASE m.slot # g
    BY <1>2, <1>3, <2>2, <2>4
  <2> QED BY <2>3, <2>4
<1>7. PICK f : f = [m EXCEPT !.running = None]
  OBVIOUS
<1>8. /\ f \in Metadata /\ f.generation = m.generation /\ f.active = m.active
      /\ f.refreshing = m.refreshing /\ f.entries = m.entries /\ f.removed = m.removed
      /\ f.slot = m.slot /\ f.running = None /\ f.revision = m.revision /\ f.pending = m.pending
  BY <1>7 DEF Metadata
<1>9. PICK p : p = Stop(f, g)
  OBVIOUS
<1>10. /\ p \in Metadata /\ f.revision <= p.revision
       /\ p.running = f.running /\ p.generation = f.generation /\ p.removed = f.removed
       /\ f.slot # g => p = f
       /\ f.slot = g =>
            /\ p.slot = None /\ p.active = FALSE /\ p.refreshing = FALSE /\ p.pending = FALSE
            /\ \A k \in Keys : /\ p.entries[k].by = f.entries[k].by
                               /\ p.entries[k].state # "current"
  BY <1>8, <1>9, StopFacts
<1>11. p.slot = None /\ p.active = FALSE /\ p.refreshing = FALSE /\ p.pending = FALSE
  <2>1. m.slot = None => m.active = FALSE /\ m.refreshing = FALSE /\ m.pending = FALSE
    BY <1>3, <1>4, MetadataType DEF Served, Observed
  <2> QED BY <1>5, <1>8, <1>10, <2>1, MetadataAssumption
<1>12. \A k \in Keys : /\ p.entries[k].by # None => p.entries[k].by = p.generation
                       /\ p.entries[k].state = "current" => p.active
  <2>1. \A k \in Keys : /\ m.entries[k].by # None => m.entries[k].by = m.generation
                        /\ m.entries[k].state = "current" => m.active
    BY <1>3, <1>4 DEF Attributed
  <2> QED BY <1>5, <1>8, <1>10, <2>1, MetadataAssumption
<1>13. \E again \in {FALSE} : Commit(j, p, again)
  <2>1. Commit(j, p, /\ TRUE /\ ~closed /\ p.slot \notin {None, g}
                     /\ ~slot[p.slot].stopping /\ ~slot[p.slot].cancelled)
    BY <1>2, <1>3, <1>6, <1>7, <1>9 DEF ObserveRetired
  <2>2. (/\ TRUE /\ ~closed /\ p.slot \notin {None, g}
         /\ ~slot[p.slot].stopping /\ ~slot[p.slot].cancelled) = FALSE
    BY <1>11
  <2> QED BY <2>1, <2>2
<1>14. /\ job' = [job EXCEPT ![j] = NoObservation] /\ AnnounceOne(id, p) /\ Answer(j)
       /\ SetSlot(g, [slot[g] EXCEPT !.users = @ + 1]) /\ UNCHANGED registry
  BY <1>2, <1>13 DEF Commit
<1>15. m.revision <= p.revision /\ p.removed = m.removed /\ p.generation = m.generation /\ p.running = None
  BY <1>8, <1>10
<1>16. NoObservation \in Observations
  BY DEF NoObservation, Observations
<1> QED BY <1>1, <1>2, <1>3, <1>10, <1>11, <1>12, <1>14, <1>15, <1>16, CommitKeeps

\* A result is published in the name of the generation the snapshot serves, and a
\* pending invalidation is observed next.
LEMMA ObserveCommitsKeeps ==
  ASSUME IInv, NEW j \in Jobs, ObserveCommits(j)
  PROVE  IInv' /\ Unnoticed
<1>1. job[j] # NoObservation
  BY DEF ObserveCommits
<1>2. PICK id \in Ids, g \in Generations :
        id = job[j].id /\ g = job[j].by /\ clients[id] = g /\ metadata[id].running = j
  BY <1>1, ObserverIsRegistered
<1>3. PICK m \in Metadata : m = metadata[id]
  BY DEF IInv, TypeOK
<1>4. Served(id) /\ Observed(id) /\ Attributed(id) /\ Marked(id)
  BY DEF IInv, Snapshots
<1>5. m.slot = g
  BY <1>2, <1>3 DEF ObserveCommits, Superseded
<1>6. PICK next \in Results(m, g) : Commit(j, Publish(m, [next EXCEPT !.pending = FALSE]), m.pending)
  BY <1>2, <1>3 DEF ObserveCommits, Results
<1>7. PICK n : n = Publish(m, [next EXCEPT !.pending = FALSE])
  OBVIOUS
<1>8. /\ n \in Metadata /\ m.revision <= n.revision
      /\ n.running = None /\ n.refreshing = FALSE /\ n.pending = FALSE
      /\ n.generation = m.generation /\ n.active = m.active /\ n.removed = m.removed
      /\ n.slot = m.slot
      /\ \A k \in Keys : n.entries[k].by \in {None, g, m.entries[k].by}
  BY <1>7, ResultFacts
<1>9. m.generation = g /\ m.active /\ g # None
  BY <1>3, <1>4, <1>5, MetadataAssumption DEF Served
<1>10. \A k \in Keys : /\ n.entries[k].by # None => n.entries[k].by = n.generation
                       /\ n.entries[k].state = "current" => n.active
  <2>1. \A k \in Keys : m.entries[k].by # None => m.entries[k].by = m.generation
    BY <1>3, <1>4 DEF Attributed
  <2> QED BY <1>8, <1>9, <2>1
<1>11. /\ job' = [job EXCEPT ![j] = IF m.pending THEN [id |-> id, by |-> n.slot] ELSE NoObservation]
       /\ AnnounceOne(id, IF m.pending THEN Acquire(n, j) ELSE n) /\ Answer(j)
       /\ SetSlot(g, [slot[g] EXCEPT !.users = @ + 1]) /\ UNCHANGED registry
  BY <1>2, <1>6, <1>7 DEF Commit
<1>12. CASE ~m.pending
  <2>1. job' = [job EXCEPT ![j] = NoObservation] /\ AnnounceOne(id, n)
    BY <1>11, <1>12
  <2>2. NoObservation \in Observations
    BY DEF NoObservation, Observations
  <2>3. n.slot \in {m.slot, None} /\ (n.active <=> n.slot # None)
    BY <1>5, <1>8, <1>9
  <2> QED BY <1>1, <1>2, <1>3, <1>8, <1>10, <1>11, <2>1, <2>2, <2>3, CommitKeeps
<1>13. CASE m.pending
  <2>1. PICK p : p = Acquire(n, j)
    OBVIOUS
  <2>2. PICK o : o = [id |-> id, by |-> g]
    OBVIOUS
  <2>3. job' = [job EXCEPT ![j] = o] /\ AnnounceOne(id, p)
    BY <1>5, <1>8, <1>11, <1>13, <2>1, <2>2
  <2>4. /\ p \in Metadata /\ n.revision <= p.revision /\ p.running = j /\ p.refreshing = TRUE
        /\ p.generation = n.generation /\ p.active = n.active /\ p.entries = n.entries
        /\ p.removed = n.removed /\ p.slot = n.slot /\ p.pending = n.pending
    BY <1>8, <2>1, AcquireFacts
  <2>5. m.revision <= p.revision
    <3>1. m.revision \in Nat /\ n.revision \in Nat /\ p.revision \in Nat
      BY <1>8, <2>4, MetadataType
    <3> QED BY <1>8, <2>4, <3>1
  <2>6. o \in Observations
    BY <2>2 DEF Observations
  <2>7. p.slot \in {m.slot, None} /\ (p.active <=> p.slot # None) /\ p.slot = g
    BY <1>5, <1>8, <1>9, <2>4
  <2>8. \A k \in Keys : /\ p.entries[k].by # None => p.entries[k].by = p.generation
                        /\ p.entries[k].state = "current" => p.active
    BY <1>10, <2>4
  <2>9. p.removed = m.removed /\ p.generation = m.generation /\ p.pending = FALSE
    BY <1>8, <2>4
  <2> QED BY <1>1, <1>2, <1>3, <1>11, <2>2, <2>3, <2>4, <2>5, <2>6, <2>7, <2>8, <2>9, CommitKeeps
<1> QED BY <1>12, <1>13
-----------------------------------------------------------------------------
(* Sections that touch every connection.                                   *)

\* A snapshot that serves no generation.
Silenced(n) ==
  /\ n.slot = None /\ n.active = FALSE /\ n.refreshing = FALSE /\ n.pending = FALSE
  /\ \A k \in Keys : /\ n.entries[k].by # None => n.entries[k].by = n.generation
                     /\ n.entries[k].state # "current"

\* Generations are retired together, and stay where they are in their start.
LEMMA RetiredFacts ==
  ASSUME IInv, NEW S, slot' = Retired(S)
  PROVE  /\ slot' \in [Generations -> Slots]
         /\ \A g \in Generations :
              /\ slot'[g].id = slot[g].id /\ slot'[g].phase = slot[g].phase
              /\ slot'[g].stopping <=> (slot[g].stopping \/ g \in S)
              /\ slot'[g].stopping => slot'[g].cancelled
<1>1. slot \in [Generations -> Slots] /\ \A g \in Generations : slot[g].stopping => slot[g].cancelled
  BY DEF IInv, TypeOK, Registration
<1>2. ASSUME NEW g \in Generations
      PROVE  /\ slot'[g] \in Slots
             /\ slot'[g].id = slot[g].id /\ slot'[g].phase = slot[g].phase
             /\ slot'[g].stopping <=> (slot[g].stopping \/ g \in S)
             /\ slot'[g].stopping => slot'[g].cancelled
  <2>1. slot[g] \in Slots /\ slot[g].stopping \in BOOLEAN
    BY <1>1, SlotType
  <2>2. CASE g \in S
    <3> DEFINE s == [slot[g] EXCEPT !.stopping = TRUE, !.cancelled = TRUE]
    <3>1. /\ s \in Slots /\ s.id = slot[g].id /\ s.phase = slot[g].phase
          /\ s.stopping = TRUE /\ s.cancelled = TRUE
      BY <2>1 DEF Slots
    <3>2. slot'[g] = s
      BY <2>2 DEF Retired
    <3> HIDE DEF s
    <3> QED BY <2>2, <3>1, <3>2
  <2>3. CASE g \notin S
    <3>1. slot'[g] = slot[g]
      BY <2>3 DEF Retired
    <3> QED BY <1>1, <2>1, <2>3, <3>1
  <2> QED BY <2>2, <2>3
<1>3. slot' = [g \in Generations |-> slot'[g]]
  BY DEF Retired
<1> QED BY <1>2, <1>3

\* Generations are retired and their snapshots silenced in one section; what is
\* not silenced serves none of them.
LEMMA ManySnapshots ==
  ASSUME IInv, NEW next, Grows(next), Announce(next), NEW S, slot' = Retired(S),
         UNCHANGED <<clients, job, refresh>>,
         closed' \in BOOLEAN, connections' \subseteq Ids, change' \in Changes, Staging',
         \A id \in Ids : clients[id] # None => id \in connections',
         \A id \in Ids : next[id].running = metadata[id].running,
         \A id \in Ids :
           \/ /\ next[id] = metadata[id]
              /\ metadata[id].slot # None => ~closed' /\ metadata[id].slot \notin S
           \/ Silenced(next[id]) /\ clients[id] \in S \cup {None},
         \A id \in Ids : next[id].removed <=> (next[id].revision > 0 /\ id \notin connections'),
         \A id \in Ids : id \in connections' => next[id].revision > 0
  PROVE  IInv' /\ Unnoticed
<1>1. /\ slot' \in [Generations -> Slots]
      /\ \A g \in Generations :
           /\ slot'[g].id = slot[g].id /\ slot'[g].phase = slot[g].phase
           /\ slot'[g].stopping <=> (slot[g].stopping \/ g \in S)
           /\ slot'[g].stopping => slot'[g].cancelled
  BY RetiredFacts
<1>2. /\ metadata' = next /\ watch' \in [Watchers -> WatchCalls] /\ Followers' /\ Unnoticed
  BY Announced DEF IInv, TypeOK
<1>3. clients' = clients /\ job' = job /\ refresh' = refresh
  OBVIOUS
<1>4. TypeOK'
  BY <1>1, <1>2, <1>3 DEF IInv, TypeOK, Grows
<1>5. clients \in [Ids -> Generations \cup {None}]
  BY DEF IInv, TypeOK
<1>6. Registration'
  BY <1>1, <1>3, <1>5 DEF IInv, Registration
<1>7. ASSUME NEW id \in Ids
      PROVE  (Served(id) /\ Observed(id) /\ Attributed(id) /\ Marked(id))'
  <2>1. Served(id) /\ Observed(id) /\ Attributed(id) /\ metadata[id] \in Metadata
    BY DEF IInv, Snapshots, TypeOK
  <2>2. Marked(id)'
    BY <1>2 DEF Marked
  <2>3. metadata'[id] = next[id] /\ next[id].running = metadata[id].running
    BY <1>2
  <2>4. CASE /\ next[id] = metadata[id]
             /\ metadata[id].slot # None => ~closed' /\ metadata[id].slot \notin S
    <3>1. metadata'[id] = metadata[id]
      BY <2>3, <2>4
    <3>2. metadata[id].slot # None => metadata[id].slot \in Generations
      BY <2>1, MetadataType
    <3>3. Served(id)'
      BY <1>1, <1>3, <2>1, <2>4, <3>1, <3>2 DEF Served
    <3>4. Observed(id)'
      BY <1>3, <2>1, <3>1 DEF Observed
    <3>5. Attributed(id)'
      BY <2>1, <3>1 DEF Attributed
    <3> QED BY <2>2, <3>3, <3>4, <3>5
  <2>5. CASE Silenced(next[id])
    <3>1. Served(id)'
      BY <2>3, <2>5 DEF Served, Silenced
    <3>2. Observed(id)'
      BY <1>3, <2>1, <2>3, <2>5 DEF Observed, Silenced
    <3>3. Attributed(id)'
      BY <2>3, <2>5 DEF Attributed, Silenced
    <3> QED BY <2>2, <3>1, <3>2, <3>3
  <2> QED BY <2>4, <2>5
<1>8. ASSUME NEW j \in Jobs
      PROVE  Running(j)'
  <2> SUFFICES ASSUME job[j] # NoObservation PROVE Running(j)'
    BY <1>3 DEF Running
  <2>1. PICK id \in Ids, g \in Generations :
          /\ job[j].id = id /\ job[j].by = g /\ clients[id] = g /\ metadata[id].running = j
          /\ slot[g].phase = "ready" /\ slot[g].id = id
          /\ metadata[id].slot = g \/ slot[g].stopping
    BY ObserverIsRegistered
  <2>2. job[j] = [id |-> id, by |-> g]
    BY <2>1 DEF IInv, Observers, Running
  <2>3. next[id].slot = g \/ slot'[g].stopping
    BY <1>1, <2>1, MetadataAssumption
  <2>4. next[id].running = j /\ slot'[g].phase = "ready" /\ slot'[g].id = id
    BY <1>1, <2>1
  <2> QED BY <1>2, <1>3, <2>1, <2>2, <2>3, <2>4 DEF Running
<1> QED BY <1>2, <1>4, <1>6, <1>7, <1>8 DEF IInv, Snapshots, Observers
\* The snapshot of a connection serves its registered generation or none.
LEMMA ServesRegistered ==
  ASSUME IInv, NEW id \in Ids
  PROVE  /\ metadata[id] \in Metadata /\ clients[id] \in Generations \cup {None}
         /\ metadata[id].slot \in {clients[id], None}
         /\ clients[id] # None => id \in connections /\ slot[clients[id]].id = id
         /\ metadata[id].removed <=> (metadata[id].revision > 0 /\ id \notin connections)
         /\ id \in connections => metadata[id].revision > 0
         /\ metadata[id].slot = None => metadata[id].pending = FALSE
<1>1. metadata[id] \in Metadata /\ clients[id] \in Generations \cup {None}
  BY DEF IInv, TypeOK
<1>2. Served(id) /\ Observed(id) /\ Marked(id)
  BY DEF IInv, Snapshots
<1>3. clients[id] # None => id \in connections /\ slot[clients[id]].id = id
  BY DEF IInv, Registration
<1>4. metadata[id].pending \in BOOLEAN
  BY <1>1, MetadataType
<1> QED BY <1>1, <1>2, <1>3, <1>4 DEF Served, Observed, Marked

\* A cleared snapshot attributes nothing.
LEMMA EmptyIsSilenced ==
  ASSUME NEW n, n.slot = None, n.active = FALSE, n.refreshing = FALSE, n.pending = FALSE,
         n.entries = NoEntries
  PROVE  Silenced(n)
  BY NoMetadataType DEF Silenced

\* Close retires every generation and stops every snapshot.
LEMMA CloseKeeps ==
  ASSUME IInv, Close
  PROVE  IInv' /\ Unnoticed
<1> DEFINE S == {clients[id] : id \in Ids}
           next == [id \in Ids |-> IF clients[id] = None THEN metadata[id]
                                   ELSE Stop(metadata[id], clients[id])]
<1>1. /\ closed' = TRUE /\ slot' = Retired(S) /\ Announce(next)
      /\ UNCHANGED <<connections, change, clients, job, refresh>>
  BY DEF Close
<1>2. ASSUME NEW id \in Ids
      PROVE  /\ next[id] \in Metadata /\ metadata[id].revision <= next[id].revision
             /\ next[id].running = metadata[id].running
             /\ \/ next[id] = metadata[id] /\ metadata[id].slot = None
                \/ Silenced(next[id])
             /\ next[id].removed <=> (next[id].revision > 0 /\ id \notin connections)
             /\ id \in connections => next[id].revision > 0
  <2> DEFINE m == metadata[id]
             g == clients[id]
             p == Stop(m, g)
  <2>1. /\ m \in Metadata /\ g \in Generations \cup {None} /\ m.slot \in {g, None}
        /\ g # None => id \in connections
        /\ m.removed <=> (m.revision > 0 /\ id \notin connections)
        /\ id \in connections => m.revision > 0
    BY ServesRegistered
  <2>2. m.revision \in Nat /\ m.revision <= m.revision
    BY <2>1, MetadataType
  <2>3. CASE g = None
    <3>1. next[id] = m
      BY <2>3
    <3> QED BY <2>1, <2>2, <2>3, <3>1
  <2>4. CASE g # None
    <3>1. next[id] = p /\ g \in Generations
      BY <2>1, <2>4
    <3>2. /\ p \in Metadata /\ m.revision <= p.revision
          /\ p.running = m.running /\ p.generation = m.generation /\ p.removed = m.removed
          /\ m.slot # g => p = m
          /\ m.slot = g =>
               /\ p.slot = None /\ p.active = FALSE /\ p.refreshing = FALSE /\ p.pending = FALSE
               /\ 0 < p.revision
               /\ \A k \in Keys : /\ p.entries[k].by = m.entries[k].by
                                  /\ p.entries[k].state # "current"
      BY <2>1, <3>1, StopFacts
    <3>3. \A k \in Keys : m.entries[k].by # None => m.entries[k].by = m.generation
      BY DEF IInv, Snapshots, Attributed
    <3> HIDE DEF m, g, p
    <3>4. m.slot = g => Silenced(p)
      BY <3>2, <3>3 DEF Silenced
    <3>5. p.revision \in Nat
      BY <3>2, MetadataType
    <3>6. id \in connections /\ p.revision > 0 /\ ~p.removed
      BY <2>1, <2>2, <2>4, <3>2, <3>5
    <3>7. m.slot # g => p = m /\ m.slot = None
      BY <2>1, <3>2
    <3>8. \/ p = m /\ m.slot = None
          \/ Silenced(p)
      BY <3>4, <3>7
    <3>9. \/ next[id] = metadata[id] /\ metadata[id].slot = None
          \/ Silenced(next[id])
      BY <3>1, <3>8 DEF m
    <3> QED BY <3>1, <3>2, <3>6, <3>9 DEF m
  <2> QED BY <2>3, <2>4
<1>3. next = [id \in Ids |-> next[id]]
  OBVIOUS
<1> HIDE DEF next
<1>4. Grows(next)
  <2>1. next \in [Ids -> Metadata]
    BY <1>2, <1>3
  <2> QED BY <1>2, <2>1 DEF Grows, IInv, TypeOK
<1>5. Staging'
  BY <1>1 DEF IInv, Staging
<1>6. \A id \in Ids : clients[id] \in S
  OBVIOUS
<1> HIDE DEF S
<1>7. /\ closed' \in BOOLEAN /\ connections' = connections /\ connections' \subseteq Ids
      /\ change' \in Changes
  BY <1>1 DEF IInv, TypeOK
<1>8. \A id \in Ids : clients[id] # None => id \in connections'
  BY <1>7, ServesRegistered
<1>9. \A id \in Ids :
        \/ /\ next[id] = metadata[id]
           /\ metadata[id].slot # None => ~closed' /\ metadata[id].slot \notin S
        \/ Silenced(next[id]) /\ clients[id] \in S \cup {None}
  BY <1>2, <1>6
<1>10. /\ \A id \in Ids : next[id].running = metadata[id].running
       /\ \A id \in Ids : next[id].removed <=> (next[id].revision > 0 /\ id \notin connections')
       /\ \A id \in Ids : id \in connections' => next[id].revision > 0
  BY <1>2, <1>7
<1> QED BY <1>1, <1>4, <1>5, <1>7, <1>8, <1>9, <1>10, ManySnapshots

\* stageInventory retires the generations of what changes and of nothing else.
LEMMA StageKeeps ==
  ASSUME IInv, NEW goal \in SUBSET Ids, NEW replaced \in SUBSET Ids, Stage(goal, replaced)
  PROVE  IInv' /\ Unnoticed
<1> DEFINE changed == (connections \ goal) \cup (goal \ connections) \cup replaced
           S == {clients[id] : id \in changed} \ {None}
           next == [id \in Ids |-> IF id \in changed \cap connections
                                   THEN Cleared(metadata[id], FALSE) ELSE metadata[id]]
           c == [staged |-> TRUE, next |-> goal, changed |-> changed, retired |-> S]
<1>1. /\ ~closed /\ change' = c /\ slot' = Retired(S) /\ Announce(next)
      /\ UNCHANGED <<closed, connections, clients, job, refresh>>
  BY DEF Stage
<1>2. /\ connections \in SUBSET Ids /\ changed \in SUBSET Ids
      /\ clients \in [Ids -> Generations \cup {None}] /\ closed \in BOOLEAN
  BY DEF IInv, TypeOK
<1>3. S \in SUBSET Generations /\ \A id \in changed : clients[id] \in S \cup {None}
  BY <1>2
<1>4. /\ \A g \in S : \E id \in changed : clients[id] = g
      /\ None \notin S
  OBVIOUS
<1>5. connections \ goal \subseteq changed /\ goal \ connections \subseteq changed
  OBVIOUS
<1>6. \A id \in Ids : next[id] = IF id \in changed \cap connections
                                 THEN Cleared(metadata[id], FALSE) ELSE metadata[id]
  OBVIOUS
<1>7. next = [id \in Ids |-> next[id]]
  OBVIOUS
<1> HIDE DEF next, S, changed
<1>8. c \in Changes /\ c.staged = TRUE /\ c.next = goal /\ c.changed = changed /\ c.retired = S
  BY <1>2, <1>3 DEF Changes
<1> HIDE DEF c
<1>9. Staging'
  BY <1>1, <1>3, <1>5, <1>8 DEF Staging
<1>10. ASSUME NEW id \in Ids
       PROVE  /\ next[id] \in Metadata /\ metadata[id].revision <= next[id].revision
              /\ next[id].running = metadata[id].running
              /\ \/ /\ next[id] = metadata[id]
                    /\ metadata[id].slot # None => ~closed' /\ metadata[id].slot \notin S
                 \/ Silenced(next[id]) /\ clients[id] \in S \cup {None}
              /\ next[id].removed <=> (next[id].revision > 0 /\ id \notin connections)
              /\ id \in connections => next[id].revision > 0
  <2> DEFINE m == metadata[id]
  <2>1. /\ m \in Metadata /\ clients[id] \in Generations \cup {None} /\ m.slot \in {clients[id], None}
        /\ clients[id] # None => id \in connections /\ slot[clients[id]].id = id
        /\ m.removed <=> (m.revision > 0 /\ id \notin connections)
        /\ id \in connections => m.revision > 0
    BY ServesRegistered
  <2>2. m.revision \in Nat /\ m.revision <= m.revision
    BY <2>1, MetadataType
  <2>3. CASE id \in changed \cap connections
    <3> DEFINE p == Cleared(m, FALSE)
    <3>1. next[id] = p
      BY <1>6, <2>3
    <3>2. /\ p \in Metadata /\ m.revision <= p.revision /\ 0 < p.revision
          /\ p.running = m.running /\ p.removed = FALSE
          /\ p.slot = None /\ p.active = FALSE /\ p.refreshing = FALSE /\ p.pending = FALSE
          /\ p.entries = NoEntries
      BY <2>1, ClearedFacts
    <3> HIDE DEF p
    <3>3. Silenced(p)
      BY <3>2, EmptyIsSilenced
    <3> QED BY <1>3, <2>3, <3>1, <3>2, <3>3
  <2>4. CASE id \notin changed \cap connections
    <3>1. next[id] = m
      BY <1>6, <2>4
    <3>2. ASSUME m.slot # None PROVE m.slot \notin S
      <4>1. clients[id] = m.slot /\ id \in connections /\ slot[m.slot].id = id
        BY <2>1, <3>2
      <4> SUFFICES ASSUME m.slot \in S PROVE FALSE
        OBVIOUS
      <4>2. PICK i \in changed : clients[i] = m.slot
        BY <1>4
      <4>3. slot[m.slot].id = i
        BY <1>2, <3>2, <4>2, ServesRegistered
      <4> QED BY <2>4, <4>1, <4>2, <4>3
    <3> QED BY <1>1, <2>1, <2>2, <3>1, <3>2
  <2> QED BY <2>3, <2>4
<1>11. Grows(next)
  <2>1. next \in [Ids -> Metadata]
    BY <1>7, <1>10
  <2> QED BY <1>10, <2>1 DEF Grows, IInv, TypeOK
<1>12. /\ closed' \in BOOLEAN /\ connections' = connections /\ connections' \subseteq Ids
       /\ change' \in Changes
  BY <1>1, <1>2, <1>8
<1>13. \A id \in Ids : clients[id] # None => id \in connections'
  BY <1>12, ServesRegistered
<1>14. /\ \A id \in Ids : next[id].running = metadata[id].running
       /\ \A id \in Ids : next[id].removed <=> (next[id].revision > 0 /\ id \notin connections')
       /\ \A id \in Ids : id \in connections' => next[id].revision > 0
  BY <1>10, <1>12
<1>15. \A id \in Ids :
         \/ /\ next[id] = metadata[id]
            /\ metadata[id].slot # None => ~closed' /\ metadata[id].slot \notin S
         \/ Silenced(next[id]) /\ clients[id] \in S \cup {None}
  BY <1>10
<1> QED BY <1>1, <1>9, <1>11, <1>12, <1>13, <1>14, <1>15, ManySnapshots
\* Every generation of a changed connection is gone when the change is published,
\* so that no snapshot it replaces serves one.
LEMMA InventoryPublished ==
  ASSUME IInv, PublishInventory
  PROVE  IInv' /\ Unnoticed
<1> DEFINE Back(m) == Publish(m, [NoMetadata EXCEPT !.revision = m.revision, !.slot = m.slot,
                                    !.running = m.running, !.pending = m.pending])
           next == [id \in Ids |->
                      CASE id \in connections \ change.next -> Cleared(metadata[id], TRUE)
                        [] id \in change.next /\ (id \notin connections \/ metadata[id].removed)
                             -> Back(metadata[id])
                        [] OTHER -> metadata[id]]
<1>1. /\ change.staged /\ Stopped /\ ~closed /\ Announce(next)
      /\ connections' = change.next /\ change' = NoChange
      /\ UNCHANGED <<closed, clients, slot, job, refresh>>
  BY DEF PublishInventory
<1>2. /\ connections \in SUBSET Ids /\ change \in Changes /\ closed \in BOOLEAN
      /\ slot \in [Generations -> Slots]
  BY DEF IInv, TypeOK
<1>3. /\ change.next \in SUBSET Ids /\ change.changed \in SUBSET Ids
      /\ change.retired \in SUBSET Generations
  BY <1>2 DEF Changes
<1>4. /\ connections \ change.next \subseteq change.changed
      /\ change.next \ connections \subseteq change.changed
      /\ \A id \in change.changed : clients[id] # None => clients[id] \in change.retired
  BY <1>1 DEF IInv, Staging
<1>5. \A id \in change.changed : clients[id] = None
  <2> SUFFICES ASSUME NEW id \in change.changed, clients[id] # None PROVE FALSE
    OBVIOUS
  <2>1. slot[clients[id]].phase = "gone"
    BY <1>1, <1>4 DEF Stopped
  <2>2. slot[clients[id]].phase \notin Unregistered
    BY <1>3 DEF IInv, Registration
  <2> QED BY <2>1, <2>2 DEF Unregistered
<1>6. ASSUME NEW id \in Ids
      PROVE  /\ next[id] \in Metadata /\ metadata[id].revision <= next[id].revision
             /\ next[id].running = metadata[id].running
             /\ next[id] = metadata[id] \/ (Silenced(next[id]) /\ clients[id] = None)
             /\ next[id].removed <=> (next[id].revision > 0 /\ id \notin change.next)
             /\ id \in change.next => next[id].revision > 0
             /\ clients[id] # None => id \in change.next
  <2> DEFINE m == metadata[id]
  <2>1. /\ m \in Metadata /\ m.slot \in {clients[id], None}
        /\ clients[id] # None => id \in connections
        /\ m.removed <=> (m.revision > 0 /\ id \notin connections)
        /\ id \in connections => m.revision > 0
        /\ m.slot = None => m.pending = FALSE
    BY ServesRegistered
  <2>2. m.revision \in Nat /\ m.revision <= m.revision
    BY <2>1, MetadataType
  <2>3. CASE id \in connections \ change.next
    <3> DEFINE p == Cleared(m, TRUE)
    <3>1. next[id] = p
      BY <2>3
    <3>2. clients[id] = None
      BY <1>4, <1>5, <2>3
    <3>3. /\ p \in Metadata /\ m.revision <= p.revision /\ 0 < p.revision
          /\ p.running = m.running /\ p.removed = TRUE
          /\ p.slot = None /\ p.active = FALSE /\ p.refreshing = FALSE /\ p.pending = FALSE
          /\ p.entries = NoEntries
      BY <2>1, ClearedFacts
    <3> HIDE DEF p, next
    <3>4. Silenced(p)
      BY <3>3, EmptyIsSilenced
    <3> QED BY <2>3, <3>1, <3>2, <3>3, <3>4
  <2>4. CASE id \in change.next /\ (id \notin connections \/ m.removed)
    <3> DEFINE p == Back(m)
    <3>1. next[id] = p
      BY <2>4
    <3>2. clients[id] = None /\ m.slot = None /\ m.pending = FALSE
      BY <1>4, <1>5, <2>1, <2>4
    <3>3. /\ p \in Metadata /\ m.revision <= p.revision /\ 0 < p.revision
          /\ p.running = m.running /\ p.removed = FALSE
          /\ p.slot = m.slot /\ p.active = FALSE /\ p.refreshing = FALSE
          /\ p.pending = m.pending /\ p.entries = NoEntries
      BY <2>1, ReturnedFacts
    <3> HIDE DEF p, next
    <3>4. Silenced(p)
      BY <3>2, <3>3, EmptyIsSilenced
    <3> QED BY <2>4, <3>1, <3>2, <3>3, <3>4
  <2>5. CASE /\ id \notin connections \ change.next
             /\ ~(id \in change.next /\ (id \notin connections \/ m.removed))
    <3>1. next[id] = m
      BY <2>5
    <3> HIDE DEF next
    <3> QED BY <2>1, <2>2, <2>5, <3>1
  <2> QED BY <2>3, <2>4, <2>5
<1>7. next = [id \in Ids |-> next[id]]
  OBVIOUS
<1> HIDE DEF next
<1>8. Grows(next)
  <2>1. next \in [Ids -> Metadata]
    BY <1>6, <1>7
  <2> QED BY <1>6, <2>1 DEF Grows, IInv, TypeOK
<1>9. NoChange \in Changes /\ NoChange.staged = FALSE /\ NoChange.changed = {}
  BY DEF NoChange, Changes
<1>10. Staging'
  BY <1>1, <1>9 DEF Staging
<1>11. slot' = Retired({})
  <2>1. Retired({}) = slot
    BY <1>2 DEF Retired
  <2> QED BY <1>1, <2>1
<1>12. /\ closed' = closed /\ closed' \in BOOLEAN /\ connections' \subseteq Ids
       /\ change' \in Changes
  BY <1>1, <1>2, <1>3, <1>9
<1>13. \A id \in Ids : clients[id] # None => id \in connections'
  BY <1>1, <1>6
<1>14. \A id \in Ids :
         \/ /\ next[id] = metadata[id]
            /\ metadata[id].slot # None => ~closed' /\ metadata[id].slot \notin {}
         \/ Silenced(next[id]) /\ clients[id] \in {} \cup {None}
  BY <1>1, <1>6, <1>12
<1>15. /\ \A id \in Ids : next[id].running = metadata[id].running
       /\ \A id \in Ids : next[id].removed <=> (next[id].revision > 0 /\ id \notin connections')
       /\ \A id \in Ids : id \in connections' => next[id].revision > 0
  BY <1>1, <1>6
<1> QED BY <1>1, <1>8, <1>10, <1>11, <1>12, <1>13, <1>14, <1>15, ManySnapshots

-----------------------------------------------------------------------------
(* Invariance.                                                             *)

\* The controller starts with nothing published and nobody watching.
LEMMA InitKeeps ==
  ASSUME Init
  PROVE  IInv
<1>1. FreeSlot \in Slots /\ FreeSlot.phase = "free" /\ FreeSlot.stopping = FALSE
  BY DEF FreeSlot, Slots
<1>2. NoObservation \in Observations /\ NoChange \in Changes /\ NoChange.changed = {}
      /\ NoChange.staged = FALSE
  BY DEF NoObservation, Observations, NoChange, Changes
<1>3. TypeOK
  BY <1>1, <1>2, NoMetadataType, NoWatchType DEF Init, TypeOK
<1>4. Registration /\ Staging
  BY <1>1, <1>2 DEF Init, Registration, Staging, Unregistered
<1>5. ASSUME NEW id \in Ids
      PROVE  Served(id) /\ Observed(id) /\ Attributed(id) /\ Marked(id)
  <2>1. metadata[id] = NoMetadata /\ connections = {}
    BY DEF Init
  <2>2. /\ NoMetadata.slot = None /\ NoMetadata.active = FALSE /\ NoMetadata.refreshing = FALSE
        /\ NoMetadata.pending = FALSE /\ NoMetadata.running = None /\ NoMetadata.removed = FALSE
        /\ NoMetadata.revision = 0 /\ NoMetadata.entries = NoEntries
    BY DEF NoMetadata
  <2> QED BY <2>1, <2>2, NoMetadataType DEF Served, Observed, Attributed, Marked
<1>6. Observers
  BY DEF Init, Observers, Running
<1>7. Followers
  BY DEF Init, Followers, Follower, NoWatch
<1> QED BY <1>3, <1>4, <1>5, <1>6, <1>7 DEF IInv, Snapshots
\* No step leaves the invariant, and the steps that are not those of a watcher
\* only add revisions as far as watchers are concerned.
LEMMA StepKeeps ==
  ASSUME IInv, [Next]_vars
  PROVE  /\ IInv'
         /\ \/ Unnoticed
            \/ \E w \in Watchers :
                 \/ WatchConnectionMetadata(w) \/ WatchReplays(w) \/ WatchTakes(w)
                 \/ WatchDelivers(w) \/ WatchIsTold(w) \/ WatchLeaves(w)
<1>1. ASSUME UNCHANGED <<metadata, watch>>
      PROVE  Unnoticed
  <2>1. \A id \in Ids : metadata[id].revision \in Nat
    BY RevisionType DEF IInv, TypeOK
  <2>2. \A id \in Ids : metadata[id].revision <= metadata[id].revision
    BY <2>1
  <2> QED BY <1>1, <2>2 DEF Unnoticed
<1>2. CASE UNCHANGED vars
  <2>1. /\ UNCHANGED registry /\ UNCHANGED slot /\ UNCHANGED metadata /\ UNCHANGED job
        /\ UNCHANGED refresh /\ UNCHANGED watch
    BY <1>2 DEF vars
  <2>2. Followers'
    BY <2>1, SameRevisions DEF IInv
  <2>3. watch' \in [Watchers -> WatchCalls] /\ refresh' \in [Refreshers -> Jobs \cup {None}]
    BY <2>1 DEF IInv, TypeOK
  <2> QED BY <1>1, <2>1, <2>2, <2>3, SteadyKeeps
<1>3. ASSUME NEW g \in Generations, NEW id \in Ids, StartSlot(g, id)
      PROVE  IInv' /\ Unnoticed
  <2>1. UNCHANGED <<metadata, watch>>
    BY <1>3 DEF StartSlot
  <2> QED BY <1>1, <1>3, <2>1, StartSlotKeeps
<1>4. ASSUME NEW g \in Generations, StartReturns(g) \/ HookRuns(g)
      PROVE  IInv' /\ Unnoticed
  <2>1. UNCHANGED <<metadata, watch>>
    BY <1>4 DEF StartReturns, HookRuns
  <2> QED BY <1>1, <1>4, <2>1, StartKeeps
<1>5. ASSUME NEW g \in Generations, Drain(g) \/ ObserveReturns(g)
      PROVE  IInv' /\ Unnoticed
  <2>1. UNCHANGED <<metadata, watch>>
    BY <1>5 DEF Drain, ObserveReturns
  <2> QED BY <1>1, <1>5, <2>1, DrainKeeps
<1>6. ASSUME NEW g \in Generations, Unregister(g)
      PROVE  IInv' /\ Unnoticed
  <2>1. UNCHANGED <<metadata, watch>>
    BY <1>6 DEF Unregister
  <2> QED BY <1>1, <1>6, <2>1, UnregisterKeeps
<1>7. ASSUME AbandonInventory \/ \E r \in Refreshers : RefreshAbandon(r)
      PROVE  IInv' /\ Unnoticed
  <2>1. UNCHANGED <<metadata, watch>>
    BY <1>7 DEF AbandonInventory, RefreshAbandon
  <2> QED BY <1>1, <1>7, <2>1, AbandonKeeps
<1>8. ASSUME NEW g \in Generations, Admit(g) \/ StopSlot(g)
      PROVE  IInv' /\ Unnoticed
  BY <1>8, AdmitKeeps, StopSlotKeeps
<1>9. ASSUME NEW goal \in SUBSET Ids, NEW replaced \in SUBSET Ids, Stage(goal, replaced)
      PROVE  IInv' /\ Unnoticed
  BY <1>9, StageKeeps
<1>10. ASSUME Close \/ PublishInventory
       PROVE  IInv' /\ Unnoticed
  BY <1>10, CloseKeeps, InventoryPublished
<1>11. ASSUME NEW id \in Ids,
              (\E r \in Refreshers : RefreshConnectionMetadata(r, id))
                \/ InvalidateConnectionMetadata(id)
       PROVE  IInv' /\ Unnoticed
  BY <1>11, RefreshKeeps, InvalidateKeeps
<1>12. ASSUME NEW j \in Jobs, ObserveRetired(j) \/ ObserveCommits(j)
       PROVE  IInv' /\ Unnoticed
  BY <1>12, ObserveRetiredKeeps, ObserveCommitsKeeps
<1>13. ASSUME NEW w \in Watchers,
              \/ WatchConnectionMetadata(w) \/ WatchReplays(w) \/ WatchTakes(w)
              \/ WatchDelivers(w) \/ WatchIsTold(w) \/ WatchLeaves(w)
       PROVE  IInv'
  BY <1>13, WatchBegins, WatchReplaysKeeps, WatchTakesKeeps, WatchDeliversKeeps, WatchEndsKeeps
<1>14. CASE Next
  BY <1>3, <1>4, <1>5, <1>6, <1>7, <1>8, <1>9, <1>10, <1>11, <1>12, <1>13, <1>14, Zenon DEF Next
<1> QED BY <1>2, <1>14

\* The invariant holds throughout: it ties the registry, a staged change, the
\* snapshots, the observations and the watchers of a controller together.
THEOREM MetadataInvariant == Spec => []IInv
<1>1. Init => IInv
  BY InitKeeps
<1>2. IInv /\ [Next]_vars => IInv'
  BY StepKeeps
<1> QED BY <1>1, <1>2, PTL DEF Spec

\* The metadata of a controller keeps the types of connectionMetadataState,
\* clientSlot and metadataWatcher: no hook leaves a dangling pointer.
THEOREM TypeCorrect == Spec => []TypeOK
<1>1. IInv => TypeOK
  BY DEF IInv
<1> QED BY <1>1, MetadataInvariant, PTL

-----------------------------------------------------------------------------
(* What the invariant says of the published metadata.                      *)

\* A queue that continues a base up to a revision holds exactly what is between.
LEMMA ContinuesExactly ==
  ASSUME NEW q \in Seq(Messages), NEW id \in Ids, NEW a \in Nat, NEW b \in Nat,
         Continues(q, id, a, b)
  PROVE  LET revisions == [i \in {k \in DOMAIN q : q[k].id = id} |-> q[i].revision]
         IN /\ {revisions[i] : i \in DOMAIN revisions} = a + 1 .. b
            /\ \A i, k \in DOMAIN revisions : i < k => revisions[i] < revisions[k]
<1> DEFINE D == {k \in DOMAIN q : q[k].id = id}
           revisions == [i \in D |-> q[i].revision]
<1>1. DOMAIN q = 1 .. Len(q) /\ Len(q) \in Nat /\ \A i \in 1 .. Len(q) : q[i].revision \in Nat
  BY QueueType
<1>2. DOMAIN revisions = D /\ \A i \in D : revisions[i] = q[i].revision
  OBVIOUS
<1>3. \A i \in D : i \in 1 .. Len(q) /\ q[i].id = id
  BY <1>1
<1> HIDE DEF revisions
<1>4. \A i \in D : revisions[i] \in a + 1 .. b
  BY <1>1, <1>2, <1>3 DEF Continues
<1>5. ASSUME NEW r \in a + 1 .. b
      PROVE  \E i \in D : revisions[i] = r
  <2>1. r \in Nat /\ a < r /\ r <= b
    OBVIOUS
  <2>2. PICK i \in 1 .. Len(q) : q[i].id = id /\ q[i].revision = r
    BY <2>1 DEF Continues
  <2> QED BY <1>1, <1>2, <2>2
<1>6. {revisions[i] : i \in DOMAIN revisions} = a + 1 .. b
  BY <1>2, <1>4, <1>5
<1>7. \A i, k \in DOMAIN revisions : i < k => revisions[i] < revisions[k]
  BY <1>2, <1>3 DEF Continues
<1> QED BY <1>6, <1>7 DEF revisions

\* What is ahead of a watcher in step is all it has not been given.
LEMMA NothingMissed == IInv => WatcherMissesNothing
<1> SUFFICES ASSUME IInv, NEW w \in Watchers, NEW id \in Ids, Registered(w)
             PROVE  LET revisions == [i \in {k \in DOMAIN Ahead(w) : Ahead(w)[k].id = id}
                                        |-> Ahead(w)[i].revision]
                    IN /\ {revisions[i] : i \in DOMAIN revisions}
                            = Base(w, id) + 1 .. metadata[id].revision
                       /\ \A i, k \in DOMAIN revisions : i < k => revisions[i] < revisions[k]
  BY DEF WatcherMissesNothing
<1>1. /\ watch[w] \in WatchCalls /\ metadata[id].revision \in Nat /\ Follower(watch[w], metadata)
      /\ watch[w].pc # "idle" /\ ~watch[w].overflow
  BY RevisionType DEF IInv, TypeOK, Followers, Registered
<1>2. Ahead(w) = AheadOf(watch[w]) /\ Base(w, id) = BaseOf(watch[w], id)
  BY DEF Ahead, AheadOf, Taken, Base, BaseOf
<1>3. Looping(watch[w]) /\ Following(watch[w], metadata)
  BY <1>1 DEF Follower
<1>4. AheadOf(watch[w]) \in Seq(Messages) /\ BaseOf(watch[w], id) \in Nat
  BY <1>1, <1>3, AheadType
<1>5. Continues(AheadOf(watch[w]), id, BaseOf(watch[w], id), metadata[id].revision)
  BY <1>1, <1>3 DEF Following
<1>6. PICK q \in Seq(Messages), a \in Nat, b \in Nat :
        q = Ahead(w) /\ a = Base(w, id) /\ b = metadata[id].revision
  BY <1>1, <1>2, <1>4
<1>7. Continues(q, id, a, b)
  BY <1>2, <1>5, <1>6
<1>8. LET revisions == [i \in {k \in DOMAIN q : q[k].id = id} |-> q[i].revision]
      IN /\ {revisions[i] : i \in DOMAIN revisions} = a + 1 .. b
         /\ \A i, k \in DOMAIN revisions : i < k => revisions[i] < revisions[k]
  BY <1>7, ContinuesExactly
<1> QED BY <1>6, <1>8, Zenon
\* Two observations of one connection are the one its snapshot runs.
LEMMA ObservedOnce ==
  ASSUME IInv, NEW id \in Ids, NEW j \in Jobs, job[j].id = id
  PROVE  j = metadata[id].running
<1>1. job[j] # NoObservation
  BY ObservationOf
<1> QED BY <1>1, ObserverIsRegistered

\* A snapshot that refreshes runs an observation of the generation it serves.
LEMMA RefreshesOwn ==
  ASSUME IInv, NEW id \in Ids, metadata[id].refreshing
  PROVE  job[metadata[id].running] = [id |-> id, by |-> metadata[id].slot]
<1>1. Served(id) /\ Observed(id)
  BY DEF IInv, Snapshots
<1>2. metadata[id].slot # None /\ metadata[id].running # None
  BY <1>1 DEF Observed
<1>3. PICK j \in Jobs : /\ j = metadata[id].running /\ job[j].id = id /\ job[j] # NoObservation
  BY <1>2, RunningIsOwn
<1>4. job[j].by = clients[id] /\ clients[id] = metadata[id].slot
  BY <1>1, <1>2, <1>3, ObserverIsRegistered DEF Served
<1>5. job[j] = [id |-> job[j].id, by |-> job[j].by]
  BY <1>3 DEF IInv, Observers, Running
<1> QED BY <1>3, <1>4, <1>5

\* The invariant implies what the run checks.
LEMMA InvariantIsConsistent == IInv => MetadataIsConsistent
<1> SUFFICES ASSUME IInv PROVE MetadataIsConsistent
  OBVIOUS
<1>1. \A id \in Ids : /\ Served(id) /\ Observed(id) /\ Attributed(id) /\ Marked(id)
                      /\ metadata[id] \in Metadata
  BY DEF IInv, Snapshots, TypeOK
<1>2. FactsBelongToGeneration
  BY <1>1 DEF FactsBelongToGeneration, Served, Attributed
<1>3. ASSUME NEW id \in Ids
      PROVE  LET m == metadata[id] IN
             /\ m.refreshing <=> (m.slot # None /\ m.running # None)
             /\ m.refreshing => job[m.running] = [id |-> id, by |-> m.slot]
             /\ m.pending => m.refreshing
             /\ \A j, k \in Jobs : job[j].id = id /\ job[k].id = id => j = k
  <2>1. \A j, k \in Jobs : job[j].id = id /\ job[k].id = id => j = k
    <3> SUFFICES ASSUME NEW j \in Jobs, NEW k \in Jobs, job[j].id = id, job[k].id = id
                 PROVE  j = k
      OBVIOUS
    <3>1. j = metadata[id].running /\ k = metadata[id].running
      BY ObservedOnce
    <3> QED BY <3>1
  <2> QED BY <1>1, <2>1, RefreshesOwn DEF Observed
<1>4. RefreshingIsTruthful
  BY <1>3 DEF RefreshingIsTruthful
<1>5. ObservesLiveClient
  BY ObserverIsRegistered DEF ObservesLiveClient
<1>6. TombstonesAreTruthful
  BY <1>1 DEF TombstonesAreTruthful, Marked
<1> QED BY <1>2, <1>4, <1>5, <1>6, NothingMissed DEF MetadataIsConsistent

\* Whatever starts, retires, changes or closes, and in whatever order: facts and
\* refreshing are those of the generation a snapshot shows, no observation runs
\* on a client that is torn down, tombstones are those of the removed
\* connections, and no registered watcher has lost a revision
\* (controller_metadata.go under Controller.mu).
THEOREM ConsistentMetadata == Spec => []MetadataIsConsistent
BY MetadataInvariant, InvariantIsConsistent, PTL

-----------------------------------------------------------------------------
(* The watchers implement the feed.                                        *)

\* A section that adds revisions is a publication.
LEMMA UnnoticedPublishes ==
  ASSUME IInv, IInv', Unnoticed
  PROVE  Feed!Publish
<1>1. metadata' \in [Ids -> Metadata] /\ metadata \in [Ids -> Metadata]
  BY DEF IInv, TypeOK
<1>2. \A id \in Ids : metadata[id].revision \in Nat /\ metadata'[id].revision \in Nat
  BY <1>1, RevisionType
<1>3. \A id \in Ids : metadata'[id].revision >= metadata[id].revision
  BY <1>2 DEF Unnoticed
<1>4. [id \in Ids |-> metadata'[id].revision] \in [Ids -> Nat]
  BY <1>2
<1>5. /\ {w \in Watchers : watch'[w].pc # "idle"} = {w \in Watchers : watch[w].pc # "idle"}
      /\ [w \in Watchers |-> watch'[w].start] = [w \in Watchers |-> watch[w].start]
      /\ [w \in Watchers |-> watch'[w].seen] = [w \in Watchers |-> watch[w].seen]
  BY DEF Unnoticed
<1> QED BY <1>3, <1>4, <1>5 DEF Feed!Publish

\* What a step of one watcher leaves of the others.
LEMMA OneWatcher ==
  ASSUME NEW w \in Watchers, NEW u, watch \in [Watchers -> WatchCalls],
         watch' = [watch EXCEPT ![w] = u]
  PROVE  /\ watch'[w] = u
         /\ {x \in Watchers : watch'[x].pc # "idle"}
              = IF u.pc # "idle" THEN {x \in Watchers : watch[x].pc # "idle"} \cup {w}
                ELSE {x \in Watchers : watch[x].pc # "idle"} \ {w}
         /\ [x \in Watchers |-> watch'[x].start]
              = [[x \in Watchers |-> watch[x].start] EXCEPT ![w] = u.start]
         /\ [x \in Watchers |-> watch'[x].seen]
              = [[x \in Watchers |-> watch[x].seen] EXCEPT ![w] = u.seen]
<1>1. \A x \in Watchers : watch'[x] = IF x = w THEN u ELSE watch[x]
  OBVIOUS
<1>2. {x \in Watchers : watch'[x].pc # "idle"}
        = IF u.pc # "idle" THEN {x \in Watchers : watch[x].pc # "idle"} \cup {w}
          ELSE {x \in Watchers : watch[x].pc # "idle"} \ {w}
  BY <1>1
<1>3. [x \in Watchers |-> watch'[x].start]
        = [[x \in Watchers |-> watch[x].start] EXCEPT ![w] = u.start]
  BY <1>1
<1>4. [x \in Watchers |-> watch'[x].seen]
        = [[x \in Watchers |-> watch[x].seen] EXCEPT ![w] = u.seen]
  BY <1>1
<1> QED BY <1>1, <1>2, <1>3, <1>4
\* Each step of a watcher is one of its subscription, or invisible.
LEMMA WatchFollows ==
  ASSUME IInv, NEW w \in Watchers,
         \/ WatchConnectionMetadata(w) \/ WatchReplays(w) \/ WatchTakes(w)
         \/ WatchDelivers(w) \/ WatchIsTold(w) \/ WatchLeaves(w)
  PROVE  [Feed!Next]_(Feed!feed)
<1> DEFINE revisions == [id \in Ids |-> metadata[id].revision]
           watching == {x \in Watchers : watch[x].pc # "idle"}
           starts == [x \in Watchers |-> watch[x].start]
           seens == [x \in Watchers |-> watch[x].seen]
<1>1. watch \in [Watchers -> WatchCalls] /\ watch[w] \in WatchCalls /\ metadata \in [Ids -> Metadata]
  BY DEF IInv, TypeOK
<1>2. /\ watch[w].start \in [Ids -> Nat] /\ watch[w].seen \in [Ids -> Nat]
      /\ \A id \in Ids : metadata[id].revision \in Nat
  BY <1>1, WatchType, RevisionType
<1>3. starts[w] = watch[w].start /\ seens[w] = watch[w].seen /\ (w \in watching <=> watch[w].pc # "idle")
  OBVIOUS
<1>4. metadata' = metadata /\ revisions' = revisions
  BY DEF WatchConnectionMetadata, WatchReplays, WatchTakes, WatchDelivers, WatchIsTold, WatchLeaves
<1>5. ASSUME watch' = [watch EXCEPT ![w] = watch'[w]]
      PROVE  /\ watching' = IF watch'[w].pc # "idle" THEN watching \cup {w} ELSE watching \ {w}
             /\ starts' = [starts EXCEPT ![w] = watch'[w].start]
             /\ seens' = [seens EXCEPT ![w] = watch'[w].seen]
  <2>1. PICK u : u = watch'[w]
    OBVIOUS
  <2>2. watch' = [watch EXCEPT ![w] = u]
    BY <1>5, <2>1
  <2> QED BY <1>1, <2>1, <2>2, OneWatcher
<1>6. CASE WatchConnectionMetadata(w)
  <2>1. /\ watch' = [watch EXCEPT ![w] = watch'[w]]
        /\ watch[w].pc = "idle" /\ watch'[w].pc # "idle"
        /\ watch'[w].start = [id \in Ids |-> metadata[id].revision] /\ watch'[w].seen = Silent
    BY <1>6, WatchBegins
  <2>2. /\ w \notin watching /\ watching' = watching \cup {w}
        /\ starts' = [starts EXCEPT ![w] = revisions] /\ seens' = [seens EXCEPT ![w] = Silent]
    BY <1>3, <1>5, <2>1
  <2>3. Feed!Subscribe(w)
    BY <1>4, <2>2 DEF Feed!Subscribe, Feed!Nothing, Silent
  <2> QED BY <2>3 DEF Feed!Next
<1>7. ASSUME watch' = [watch EXCEPT ![w] = watch'[w]], watch[w].pc # "idle", watch'[w].pc # "idle",
             watch'[w].start = watch[w].start
      PROVE  /\ watching' = watching /\ starts' = starts
             /\ w \in watching /\ seens' = [seens EXCEPT ![w] = watch'[w].seen]
  <2>1. starts = [starts EXCEPT ![w] = starts[w]]
    OBVIOUS
  <2> QED BY <1>3, <1>5, <1>7, <2>1
<1>8. ASSUME NEW id \in Ids, NEW r, seens' = [seens EXCEPT ![w] = [watch[w].seen EXCEPT ![id] = r]],
             r = IF watch[w].seen[id] = 0 /\ watch[w].start[id] > 0 THEN watch[w].start[id]
                 ELSE watch[w].seen[id] + 1,
             r <= metadata[id].revision, watching' = watching, starts' = starts, w \in watching
      PROVE  Feed!Next
  <2>1. seens' = [seens EXCEPT ![w][id] = r]
    BY <1>3, <1>8
  <2>2. Feed!Deliver(w, id)
    BY <1>3, <1>4, <1>8, <2>1 DEF Feed!Deliver
  <2> QED BY <2>2 DEF Feed!Next
<1>9. ASSUME watch' = [watch EXCEPT ![w] = watch'[w]], watch[w].pc # "idle", watch'[w].pc # "idle",
             watch'[w].start = watch[w].start, watch'[w].seen = watch[w].seen
      PROVE  UNCHANGED Feed!feed
  <2>1. watching' = watching /\ starts' = starts /\ seens' = [seens EXCEPT ![w] = watch'[w].seen]
    BY <1>7, <1>9
  <2>2. seens = [seens EXCEPT ![w] = seens[w]]
    OBVIOUS
  <2>3. seens' = seens
    BY <1>3, <1>9, <2>1, <2>2
  <2> QED BY <1>4, <2>1, <2>3 DEF Feed!feed
<1>10. CASE WatchReplays(w)
  <2>1. /\ watch' = [watch EXCEPT ![w] = watch'[w]]
        /\ watch[w].pc = "replay" /\ watch'[w].pc # "idle" /\ watch'[w].start = watch[w].start
        /\ \/ watch'[w].seen = watch[w].seen
           \/ \E id \in Ids :
                /\ watch[w].seen[id] = 0 /\ watch[w].start[id] > 0
                /\ watch[w].start[id] <= metadata[id].revision
                /\ watch'[w].seen = [watch[w].seen EXCEPT ![id] = watch[w].start[id]]
    BY <1>10, WatchReplaysKeeps
  <2>2. CASE watch'[w].seen = watch[w].seen
    BY <1>9, <2>1, <2>2
  <2>3. CASE \E id \in Ids :
               /\ watch[w].seen[id] = 0 /\ watch[w].start[id] > 0
               /\ watch[w].start[id] <= metadata[id].revision
               /\ watch'[w].seen = [watch[w].seen EXCEPT ![id] = watch[w].start[id]]
    <3>1. PICK id \in Ids :
            /\ watch[w].seen[id] = 0 /\ watch[w].start[id] > 0
            /\ watch[w].start[id] <= metadata[id].revision
            /\ watch'[w].seen = [watch[w].seen EXCEPT ![id] = watch[w].start[id]]
      BY <2>3
    <3>2. /\ watching' = watching /\ starts' = starts
          /\ w \in watching /\ seens' = [seens EXCEPT ![w] = watch'[w].seen]
      BY <1>7, <2>1
    <3> QED BY <1>8, <3>1, <3>2
  <2> QED BY <2>1, <2>2, <2>3
<1>11. CASE WatchTakes(w)
  <2>1. /\ watch' = [watch EXCEPT ![w] = watch'[w]]
        /\ watch[w].pc = "select" /\ watch'[w].pc # "idle"
        /\ watch'[w].start = watch[w].start /\ watch'[w].seen = watch[w].seen
    BY <1>11, WatchTakesKeeps
  <2> QED BY <1>9, <2>1
<1>12. CASE WatchDelivers(w)
  <2>1. /\ watch' = [watch EXCEPT ![w] = watch'[w]]
        /\ watch[w].pc = "took" /\ watch'[w].pc # "idle" /\ watch'[w].start = watch[w].start
        /\ \E id \in Ids :
             /\ watch[w].seen[id] = 0 => watch[w].start[id] = 0
             /\ watch[w].seen[id] + 1 <= metadata[id].revision
             /\ watch'[w].seen = [watch[w].seen EXCEPT ![id] = watch[w].seen[id] + 1]
    BY <1>12, WatchDeliversKeeps
  <2>2. PICK id \in Ids :
          /\ watch[w].seen[id] = 0 => watch[w].start[id] = 0
          /\ watch[w].seen[id] + 1 <= metadata[id].revision
          /\ watch'[w].seen = [watch[w].seen EXCEPT ![id] = watch[w].seen[id] + 1]
    BY <2>1
  <2>3. /\ watching' = watching /\ starts' = starts
        /\ w \in watching /\ seens' = [seens EXCEPT ![w] = watch'[w].seen]
    BY <1>7, <2>1
  <2>4. ~(watch[w].seen[id] = 0 /\ watch[w].start[id] > 0)
    BY <1>2, <2>2
  <2> QED BY <1>8, <2>2, <2>3, <2>4
<1>13. CASE WatchIsTold(w) \/ WatchLeaves(w)
  <2>1. /\ watch' = [watch EXCEPT ![w] = watch'[w]]
        /\ watch[w].pc # "idle" /\ watch'[w] = NoWatch
    BY <1>13, WatchEndsKeeps
  <2>2. NoWatch.pc = "idle" /\ NoWatch.start = Silent /\ NoWatch.seen = Silent
    BY DEF NoWatch
  <2>3. /\ w \in watching /\ watching' = watching \ {w}
        /\ starts' = [starts EXCEPT ![w] = Silent] /\ seens' = [seens EXCEPT ![w] = Silent]
    BY <1>3, <1>5, <2>1, <2>2
  <2>4. Feed!End(w)
    BY <1>4, <2>3 DEF Feed!End, Feed!Nothing, Silent
  <2> QED BY <2>4 DEF Feed!Next
<1> QED BY <1>6, <1>10, <1>11, <1>12, <1>13

\* Every step of the controller is a step of the feed or invisible to it.
LEMMA StepFollows ==
  ASSUME IInv, [Next]_vars
  PROVE  [Feed!Next]_(Feed!feed)
<1>1. IInv' /\ (\/ Unnoticed
                \/ \E w \in Watchers :
                     \/ WatchConnectionMetadata(w) \/ WatchReplays(w) \/ WatchTakes(w)
                     \/ WatchDelivers(w) \/ WatchIsTold(w) \/ WatchLeaves(w))
  BY StepKeeps
<1>2. CASE Unnoticed
  <2>1. Feed!Publish
    BY <1>1, <1>2, UnnoticedPublishes
  <2> QED BY <2>1 DEF Feed!Next
<1>3. CASE \E w \in Watchers :
             \/ WatchConnectionMetadata(w) \/ WatchReplays(w) \/ WatchTakes(w)
             \/ WatchDelivers(w) \/ WatchIsTold(w) \/ WatchLeaves(w)
  BY <1>3, WatchFollows
<1> QED BY <1>1, <1>2, <1>3

\* The feed begins empty.
LEMMA InitFollows ==
  ASSUME Init
  PROVE  Feed!Init
<1>1. NoWatch.pc = "idle" /\ NoWatch.start = Silent /\ NoWatch.seen = Silent
  BY DEF NoWatch
<1>2. NoMetadata.revision = 0
  BY DEF NoMetadata
<1> QED BY <1>1, <1>2 DEF Init, Feed!Init, Feed!Nothing, Silent

\* WatchConnectionMetadata keeps its promise: the state at the subscription, then
\* each revision of each connection once and in order, however the revisions are
\* queued and whichever watcher is dropped.
THEOREM FeedImplemented == Spec => WatchersFollowFeed
<1>1. Init => Feed!Init
  BY InitFollows
<1>2. IInv /\ [Next]_vars => [Feed!Next]_(Feed!feed)
  BY StepFollows
<1> QED BY <1>1, <1>2, MetadataInvariant, PTL DEF Spec, WatchersFollowFeed, Feed!Spec
=============================================================================
