------------------------ MODULE DeviceMailboxProofs ------------------------
(***************************************************************************)
(* Proofs about DeviceMailbox, for any set of envelopes and any bounds.    *)
(***************************************************************************)
EXTENDS DeviceMailbox, FiniteSetTheorems, TLAPS

-----------------------------------------------------------------------------
(* Facts about the operators of the module.                                 *)

\* A non-empty set of naturals has a least element.
LEMMA LeastNat ==
  ASSUME NEW S \in SUBSET Nat, S # {}
  PROVE  \E t \in S : \A u \in S : t <= u
<1>1. PICK t \in S : \A u \in S : ~ (<<u, t>> \in OpToRel(<, Nat))
  BY NatLessThanWellFounded, WFMin
<1>2. \A u \in S : ~ (u < t)
  BY <1>1 DEF OpToRel
<1>3. QED
  BY <1>2

\* The alarm that scheduleNextAlarm sets is absent or a time, and no queued
\* envelope with a record expires before it.
LEMMA NextAlarmProperties ==
  ASSUME NEW q, NEW s, \A e \in DOMAIN q \cap DOMAIN s : s[e] \in Nat
  PROVE  /\ NextAlarm(q, s) \in Nat \cup {NoAlarm}
         /\ \A e \in DOMAIN q \cap DOMAIN s :
              NextAlarm(q, s) # NoAlarm /\ NextAlarm(q, s) <= s[e]
<1>1. Expiries(q, s) \in SUBSET Nat
  BY DEF Expiries
<1>2. CASE Expiries(q, s) = {}
  BY <1>2 DEF NextAlarm, Expiries
<1>3. CASE Expiries(q, s) # {}
  <2>1. \E t \in Expiries(q, s) : \A u \in Expiries(q, s) : t <= u
    BY <1>1, <1>3, LeastNat
  <2>2. /\ NextAlarm(q, s) \in Expiries(q, s)
        /\ \A u \in Expiries(q, s) : NextAlarm(q, s) <= u
    BY <1>3, <2>1 DEF NextAlarm
  <2>3. QED
    BY <1>1, <2>2 DEF NoAlarm, Expiries
<1>4. QED
  BY <1>2, <1>3

-----------------------------------------------------------------------------
(* The shapes that storage can take.                                        *)

QueueOK(q, n) ==
  /\ DOMAIN q \subseteq Envelopes /\ q \in [DOMAIN q -> Nat]
  /\ Cardinality(DOMAIN q) <= MaxBacklog
  /\ \A d, e \in DOMAIN q : q[d] = q[e] => d = e
  /\ \A e \in DOMAIN q : q[e] < n

StoreOK(s) == DOMAIN s \subseteq Envelopes /\ s \in [DOMAIN s -> Nat]

StatsOK(st) == st \in [enqueued : Nat, acknowledged : Nat, expired : Nat, rejected : Nat]

StorageOK(q, s, st, a) ==
  /\ QueueOK(q, st.enqueued) /\ StoreOK(s) /\ StatsOK(st)
  /\ a \in Nat \cup {NoAlarm}

\* The inductive invariant: the types, the cap and the order of arrival.  The
\* types alone are not inductive: a place must be below stats.enqueued for the
\* next place to be free.
Inv == TypeOK /\ BacklogBounded /\ ArrivalsDistinct

OthersOK ==
  /\ DOMAIN told \subseteq Sockets /\ told \in [DOMAIN told -> SUBSET Envelopes]
  /\ reply.ids \subseteq Envelopes
  /\ now \in Nat /\ crashes \in Nat

LEMMA InvIsStorageOK == Inv <=> StorageOK(queue, stored, stats, alarm) /\ OthersOK
BY DEF Inv, TypeOK, BacklogBounded, ArrivalsDistinct, StorageOK, OthersOK,
       QueueOK, StoreOK, StatsOK, Queued, Stored

\* Sets of envelopes are finite and their cardinalities are naturals.
LEMMA EnvelopeSets ==
  ASSUME NEW S \in SUBSET Envelopes
  PROVE  IsFiniteSet(S) /\ Cardinality(S) \in Nat
BY MailboxAssumption, FS_Subset, FS_CardinalityType DEF MailboxAssumption

LEMMA RestrictQueueOK ==
  ASSUME NEW q, NEW n \in Nat, QueueOK(q, n), NEW K \in SUBSET DOMAIN q
  PROVE  QueueOK(Restrict(q, K), n)
<1>1. Cardinality(K) <= Cardinality(DOMAIN q)
  BY EnvelopeSets, FS_Subset DEF QueueOK
<1>2. Cardinality(K) \in Nat /\ Cardinality(DOMAIN q) \in Nat
  BY EnvelopeSets DEF QueueOK
<1>3. QED
  BY <1>1, <1>2, MailboxAssumption DEF QueueOK, Restrict, MailboxAssumption

LEMMA RestrictStoreOK ==
  ASSUME NEW s, StoreOK(s), NEW K \in SUBSET DOMAIN s
  PROVE  StoreOK(Restrict(s, K))
BY DEF StoreOK, Restrict

LEMMA PrunedOK ==
  ASSUME Inv
  PROVE  /\ Kept \subseteq Queued /\ Kept \subseteq Stored /\ Kept \subseteq Envelopes
         /\ Lapsed \subseteq Stored
         /\ QueueOK(PrunedQueue, stats.enqueued)
         /\ StoreOK(PrunedStore)
         /\ StatsOK(PrunedStats) /\ PrunedStats.enqueued = stats.enqueued
<1>1. StorageOK(queue, stored, stats, alarm)
  BY InvIsStorageOK
<1>2. Kept \subseteq Queued /\ Kept \subseteq Stored /\ Lapsed \subseteq Queued \cap Stored
  BY DEF Kept, Lapsed
<1>3. Queued \subseteq Envelopes
  BY <1>1 DEF StorageOK, QueueOK, Queued
<1>4. QueueOK(PrunedQueue, stats.enqueued)
  BY <1>1, <1>2, RestrictQueueOK DEF PrunedQueue, Queued, StorageOK, StatsOK
<1>5. StoreOK(PrunedStore)
  BY <1>1, RestrictStoreOK DEF PrunedStore, Stored, StorageOK
<1>6. Cardinality(Lapsed) \in Nat
  BY <1>2, <1>3, EnvelopeSets
<1>7. StatsOK(PrunedStats) /\ PrunedStats.enqueued = stats.enqueued
  BY <1>1, <1>6 DEF PrunedStats, StatsOK, StorageOK
<1>8. QED
  BY <1>2, <1>3, <1>4, <1>5, <1>7

\* Pushing an envelope when there is room keeps the queue in shape.
LEMMA PushedOK ==
  ASSUME Inv, NEW e \in Envelopes, NEW ttl \in Lifetimes, e \notin Kept, HasRoom
  PROVE  /\ QueueOK(PushedQueue(e), PushedStats.enqueued)
         /\ StoreOK(WithRecord(e, ttl))
         /\ StatsOK(PushedStats)
<1>1. /\ StorageOK(queue, stored, stats, alarm) /\ now \in Nat /\ ttl \in Nat
      /\ Kept \subseteq Queued /\ Kept \subseteq Envelopes
  BY InvIsStorageOK, PrunedOK, MailboxAssumption DEF OthersOK, MailboxAssumption
<1>2. StatsOK(PushedStats) /\ PushedStats.enqueued = stats.enqueued + 1
  BY PrunedOK DEF PushedStats, StatsOK
<1>3. IsFiniteSet(Kept) /\ Cardinality(Kept) \in Nat
  BY <1>1, EnvelopeSets
<1>4. Cardinality(Kept \cup {e}) <= MaxBacklog
  <2>1. Cardinality(Kept \cup {e}) = Cardinality(Kept) + 1
    BY ONLY <1>3, FS_AddElement, e \notin Kept
  <2>2. MaxBacklog \in Nat
    BY MailboxAssumption DEF MailboxAssumption
  <2>3. QED
    BY <1>3, <2>1, <2>2 DEF HasRoom
<1>5. DOMAIN PushedQueue(e) = Kept \cup {e}
  BY DEF PushedQueue
<1>6. /\ PushedQueue(e)[e] = stats.enqueued
      /\ \A d \in Kept : PushedQueue(e)[d] = queue[d]
  BY DEF PushedQueue
<1>7. stats.enqueued \in Nat /\ \A d \in Kept : queue[d] \in Nat /\ queue[d] < stats.enqueued
  BY <1>1 DEF StorageOK, QueueOK, StatsOK, Queued
<1>8. \A c, d \in Kept : queue[c] = queue[d] => c = d
  BY <1>1 DEF StorageOK, QueueOK, Queued
<1>9. PushedQueue(e) \in [Kept \cup {e} -> Nat]
  BY <1>5, <1>6, <1>7 DEF PushedQueue
<1>10. QueueOK(PushedQueue(e), PushedStats.enqueued)
  BY <1>1, <1>2, <1>4, <1>5, <1>6, <1>7, <1>8, <1>9 DEF QueueOK
<1>11. StoreOK(WithRecord(e, ttl))
  <2>1. Stored \subseteq Envelopes /\ \A d \in Stored : stored[d] \in Nat
    BY <1>1 DEF StorageOK, StoreOK, Stored
  <2>2. QED
    BY <1>1, <2>1 DEF WithRecord, StoreOK
<1>12. QED
  BY <1>2, <1>10, <1>11

LEMMA NextAlarmOK ==
  ASSUME NEW q, NEW s, StoreOK(s)
  PROVE  NextAlarm(q, s) \in Nat \cup {NoAlarm}
BY NextAlarmProperties DEF StoreOK

-----------------------------------------------------------------------------
(* The invariant.                                                           *)

LEMMA InvPrimed ==
  ASSUME StorageOK(queue', stored', stats', alarm'), OthersOK'
  PROVE  Inv'
BY DEF Inv, TypeOK, BacklogBounded, ArrivalsDistinct, StorageOK, OthersOK,
       QueueOK, StoreOK, StatsOK, Queued, Stored

\* What every handler that only prunes leaves in storage.
LEMMA PruneStep ==
  ASSUME Inv, Prune
  PROVE  StorageOK(queue', stored', stats', alarm')
BY PrunedOK, NextAlarmOK DEF Prune, Save, StorageOK

LEMMA AckStep ==
  ASSUME Inv, NEW ids \in AckLists, Ack(ids)
  PROVE  StorageOK(queue', stored', stats', alarm') /\ reply'.ids \subseteq Envelopes
<1>1. /\ Kept \subseteq Queued /\ Kept \subseteq Envelopes
      /\ StatsOK(PrunedStats) /\ PrunedStats.enqueued = stats.enqueued
      /\ StorageOK(queue, stored, stats, alarm)
  BY PrunedOK, InvIsStorageOK
<1>2. QueueOK(Restrict(queue, Kept \ Listed(ids)), stats.enqueued)
  BY <1>1, RestrictQueueOK DEF StorageOK, Queued, StatsOK
<1>3. StoreOK(Restrict(stored, (Stored \ Lapsed) \ Acknowledged(ids)))
  BY <1>1, RestrictStoreOK DEF StorageOK, Stored
<1>4. Cardinality(Counted(ids)) \in Nat
  <2>1. Cardinality(Envelopes) \in Nat
    BY EnvelopeSets
  <2>2. PICK n \in 0..Cardinality(Envelopes) + 1 : ids \in [1..n -> Envelopes]
    BY MailboxAssumption DEF MailboxAssumption
  <2>3. IsFiniteSet(1..n) /\ Counted(ids) \subseteq 1..n
    BY <2>1, <2>2, FS_Interval DEF Counted
  <2>4. QED
    BY <2>3, FS_Subset, FS_CardinalityType
<1>5. /\ stats' = [PrunedStats EXCEPT !.acknowledged = @ + Cardinality(Counted(ids))]
      /\ queue' = Restrict(queue, Kept \ Listed(ids))
      /\ stored' = Restrict(stored, (Stored \ Lapsed) \ Acknowledged(ids))
      /\ alarm' = NextAlarm(queue', stored')
      /\ reply'.ids = Acknowledged(ids)
  BY DEF Ack, Save, Reply
<1>6. StatsOK(stats') /\ stats'.enqueued = stats.enqueued
  BY <1>1, <1>4, <1>5 DEF StatsOK
<1>7. alarm' \in Nat \cup {NoAlarm}
  BY <1>3, <1>5, NextAlarmOK
<1>8. Acknowledged(ids) \subseteq Envelopes
  BY <1>1 DEF Acknowledged, Counted
<1>9. QED
  BY <1>2, <1>3, <1>5, <1>6, <1>7, <1>8 DEF StorageOK

LEMMA EnqueueStep ==
  ASSUME Inv, NEW e \in Envelopes, NEW ttl \in Lifetimes, Enqueue(e, ttl)
  PROVE  StorageOK(queue', stored', stats', alarm') /\ reply'.ids \subseteq Envelopes
<1>1. CASE EnqueueDuplicate(e, ttl)
  BY <1>1, PruneStep DEF EnqueueDuplicate, Reply
<1>2. CASE EnqueueRefused(e, ttl)
  <2>1. /\ QueueOK(queue', stats.enqueued) /\ StoreOK(stored')
        /\ alarm' \in Nat \cup {NoAlarm}
    BY <1>2, PrunedOK, NextAlarmOK DEF EnqueueRefused, Save
  <2>2. StatsOK(PrunedStats) /\ PrunedStats.enqueued = stats.enqueued
    BY PrunedOK
  <2>3. stats' = [PrunedStats EXCEPT !.rejected = @ + 1]
    BY <1>2 DEF EnqueueRefused, Save
  <2>4. StatsOK(stats') /\ stats'.enqueued = stats.enqueued
    BY <2>2, <2>3 DEF StatsOK
  <2>5. reply'.ids = {e}
    BY <1>2 DEF EnqueueRefused, Reply
  <2>6. QED
    BY <2>1, <2>4, <2>5 DEF StorageOK
<1>3. CASE EnqueueAccepted(e, ttl)
  <2>1. StorageOK(queue', stored', stats', alarm')
    BY <1>3, PushedOK, NextAlarmOK DEF EnqueueAccepted, Save, StorageOK
  <2>2. reply'.ids = {e}
    BY <1>3 DEF EnqueueAccepted, Reply
  <2>3. QED
    BY <2>1, <2>2
<1>4. QED
  BY <1>1, <1>2, <1>3 DEF Enqueue

\* A lost isolate leaves storage in one of the shapes the handlers start from.
LEMMA TornStep ==
  ASSUME Inv,
         \/ PruneTorn \/ PruneUnarmed
         \/ \E ids \in AckLists : AckTorn(ids)
         \/ \E e \in Envelopes, ttl \in Lifetimes : EnqueueTorn(e, ttl) \/ EnqueueUnarmed(e, ttl)
  PROVE  StorageOK(queue', stored', stats', alarm') /\ OthersOK'
<1>1. /\ StorageOK(queue, stored, stats, alarm) /\ OthersOK
      /\ QueueOK(PrunedQueue, stats.enqueued) /\ StoreOK(PrunedStore)
      /\ StatsOK(PrunedStats) /\ PrunedStats.enqueued = stats.enqueued
  BY InvIsStorageOK, PrunedOK
<1>2. NextAlarm(PrunedQueue, PrunedStore) \in Nat \cup {NoAlarm}
  BY <1>1, NextAlarmOK
<1>3. IsolateLost => OthersOK'
  BY <1>1 DEF IsolateLost, OthersOK, EmptyMap, Reply
<1>4. CASE PruneTorn
  <2>1. PICK gone \in SUBSET Lapsed : stored' = Restrict(stored, Stored \ gone)
    BY <1>4 DEF PruneTorn
  <2>2. StoreOK(stored')
    BY <1>1, <2>1, RestrictStoreOK DEF StorageOK, Stored
  <2>3. QED
    BY <1>1, <1>3, <1>4, <2>2 DEF PruneTorn, StorageOK
<1>5. CASE PruneUnarmed
  BY <1>1, <1>3, <1>5 DEF PruneUnarmed, StorageOK
<1>6. ASSUME NEW ids \in AckLists, AckTorn(ids)
      PROVE  StorageOK(queue', stored', stats', alarm') /\ OthersOK'
  <2>1. PICK gone \in SUBSET Acknowledged(ids) :
          stored' = Restrict(stored, (Stored \ Lapsed) \ gone)
    BY <1>6 DEF AckTorn
  <2>2. StoreOK(stored')
    BY <1>1, <2>1, RestrictStoreOK DEF StorageOK, Stored
  <2>3. QED
    BY <1>1, <1>2, <1>3, <1>6, <2>2 DEF AckTorn, StorageOK
<1>7. ASSUME NEW e \in Envelopes, NEW ttl \in Lifetimes, EnqueueTorn(e, ttl)
      PROVE  StorageOK(queue', stored', stats', alarm') /\ OthersOK'
  <2>1. StoreOK(WithRecord(e, ttl))
    BY <1>7, PushedOK DEF EnqueueTorn
  <2>2. QED
    BY <1>1, <1>2, <1>3, <1>7, <2>1 DEF EnqueueTorn, StorageOK
<1>8. ASSUME NEW e \in Envelopes, NEW ttl \in Lifetimes, EnqueueUnarmed(e, ttl)
      PROVE  StorageOK(queue', stored', stats', alarm') /\ OthersOK'
  BY <1>1, <1>2, <1>3, <1>8, PushedOK DEF EnqueueUnarmed, StorageOK
<1>9. QED
  BY <1>4, <1>5, <1>6, <1>7, <1>8

LEMMA InitInv == Init => Inv
<1> SUFFICES ASSUME Init PROVE Inv
  OBVIOUS
<1>1. queue = EmptyMap /\ stored = EmptyMap /\ told = EmptyMap /\ DOMAIN EmptyMap = {}
  BY DEF Init, EmptyMap
<1>2. Cardinality({}) = 0
  BY FS_EmptySet
<1>3. StorageOK(queue, stored, stats, alarm)
  BY <1>1, <1>2, MailboxAssumption
     DEF Init, StorageOK, QueueOK, StoreOK, StatsOK, MailboxAssumption
<1>4. OthersOK
  BY <1>1 DEF Init, OthersOK, Reply
<1>5. QED
  BY <1>3, <1>4, InvIsStorageOK

LEMMA NextInv == Inv /\ [Next]_vars => Inv'
<1> SUFFICES ASSUME Inv, [Next]_vars PROVE Inv'
  OBVIOUS
<1>1. StorageOK(queue, stored, stats, alarm) /\ OthersOK /\ Kept \subseteq Envelopes
  BY InvIsStorageOK, PrunedOK
<1>2. ASSUME NEW w \in Sockets, AcceptSocket(w) PROVE Inv'
  <2>1. OthersOK'
    BY <1>1, <1>2 DEF AcceptSocket, OthersOK, Reply
  <2>2. QED
    BY <1>2, <2>1, PruneStep, InvPrimed DEF AcceptSocket
<1>3. ASSUME NEW w \in Sockets, SocketClosed(w) PROVE Inv'
  <2>1. OthersOK'
    BY <1>1, <1>3 DEF SocketClosed, OthersOK, Restrict
  <2>2. QED
    BY <1>1, <1>3, <2>1, InvPrimed DEF SocketClosed
<1>4. ASSUME NEW e \in Envelopes, NEW ttl \in Lifetimes, Enqueue(e, ttl) PROVE Inv'
  <2>1. StorageOK(queue', stored', stats', alarm') /\ reply'.ids \subseteq Envelopes
    BY <1>4, EnqueueStep
  <2>2. /\ DOMAIN told' \subseteq Sockets /\ told' \in [DOMAIN told' -> SUBSET Envelopes]
        /\ now' = now /\ crashes' = crashes
    BY <1>1, <1>4 DEF Enqueue, EnqueueDuplicate, EnqueueRefused, EnqueueAccepted,
                      Broadcast, OthersOK
  <2>3. OthersOK'
    BY <1>1, <2>1, <2>2 DEF OthersOK
  <2>4. QED
    BY <2>1, <2>3, InvPrimed
<1>5. ASSUME NEW after, NEW limit, Sync(after, limit) PROVE Inv'
  <2>1. reply'.ids \subseteq Envelopes
    BY <1>1, <1>5 DEF Sync, Reply, FirstOf, FromCursor
  <2>2. OthersOK'
    BY <1>1, <1>5, <2>1 DEF Sync, OthersOK
  <2>3. QED
    BY <1>5, <2>2, PruneStep, InvPrimed DEF Sync
<1>6. ASSUME NEW ids \in AckLists, Ack(ids) PROVE Inv'
  <2>1. StorageOK(queue', stored', stats', alarm') /\ reply'.ids \subseteq Envelopes
    BY <1>6, AckStep
  <2>2. OthersOK'
    BY <1>1, <1>6, <2>1 DEF Ack, OthersOK
  <2>3. QED
    BY <2>1, <2>2, InvPrimed
<1>7. CASE AlarmFires
  <2>1. OthersOK'
    BY <1>1, <1>7 DEF AlarmFires, OthersOK
  <2>2. QED
    BY <1>7, <2>1, PruneStep, InvPrimed DEF AlarmFires
<1>8. CASE Tick
  <2>1. OthersOK'
    BY <1>1, <1>8 DEF Tick, OthersOK
  <2>2. QED
    BY <1>1, <1>8, <2>1, InvPrimed DEF Tick
<1>9. CASE UNCHANGED vars
  BY <1>9 DEF vars, Inv, TypeOK, BacklogBounded, ArrivalsDistinct, Queued, Stored
<1>10. QED
  BY <1>2, <1>3, <1>4, <1>5, <1>6, <1>7, <1>8, <1>9, TornStep, InvPrimed DEF Next

THEOREM InvCorrect == Spec => []Inv
BY InitInv, NextInv, PTL DEF Spec

\* The variables keep their types: no step of a handler, whole or torn, writes a
\* malformed record of state.
THEOREM TypeCorrect == Spec => []TypeOK
<1>1. Inv => TypeOK
  BY DEF Inv
<1>2. QED
  BY <1>1, InvCorrect, PTL

\* The backlog cap of /enqueue (device-mailbox.ts:171) holds for any cap.
THEOREM BacklogCorrect == Spec => []BacklogBounded
<1>1. Inv => BacklogBounded
  BY DEF Inv
<1>2. QED
  BY <1>1, InvCorrect, PTL

\* Queued envelopes keep distinct places, so a cursor names one position.
THEOREM ArrivalsCorrect == Spec => []ArrivalsDistinct
<1>1. Inv => ArrivalsDistinct
  BY DEF Inv
<1>2. QED
  BY <1>1, InvCorrect, PTL

\* What paging by a cursor needs of the queue (device-mailbox.ts:171 and 208).
THEOREM OrderCorrect == Spec => []QueueOrdered
<1>1. BacklogBounded /\ ArrivalsDistinct => QueueOrdered
  BY DEF QueueOrdered
<1>2. QED
  BY <1>1, BacklogCorrect, ArrivalsCorrect, PTL

-----------------------------------------------------------------------------
(* An envelope leaves only by an acknowledgement or by expiry.              *)

LEMMA RestrictDomainIs ==
  ASSUME NEW f, NEW S
  PROVE  DOMAIN Restrict(f, S) = S
BY DEF Restrict

LEMMA LeavesByAckOrExpiry ==
  ASSUME Next, NEW e \in (Queued \cap Stored) \ Queued'
  PROVE  stored[e] <= now \/ (reply'.op = "ack" /\ e \in reply'.ids)
<1> DEFINE Goal == stored[e] <= now \/ (reply'.op = "ack" /\ e \in reply'.ids)
<1>1. e \notin Kept => stored[e] <= now
  BY DEF Kept, HasExpired
<1>2. DOMAIN PrunedQueue = Kept
  BY RestrictDomainIs DEF PrunedQueue
<1>3. queue' = PrunedQueue => Goal
  BY <1>1, <1>2 DEF Queued
<1>4. ~ UNCHANGED queue
  BY DEF Queued
<1>5. ASSUME NEW d, queue' = PushedQueue(d) PROVE Goal
  BY <1>1, <1>5 DEF PushedQueue, Queued
<1>6. ASSUME NEW w, AcceptSocket(w) \/ SocketClosed(w) PROVE Goal
  BY <1>3, <1>4, <1>6 DEF AcceptSocket, SocketClosed, Prune, Save
<1>7. ASSUME NEW d, NEW ttl,
             Enqueue(d, ttl) \/ EnqueueTorn(d, ttl) \/ EnqueueUnarmed(d, ttl)
      PROVE  Goal
  BY <1>3, <1>5, <1>7 DEF Enqueue, EnqueueDuplicate, EnqueueRefused, EnqueueAccepted,
                          EnqueueTorn, EnqueueUnarmed, Prune, Save
<1>8. ASSUME NEW after, NEW limit, Sync(after, limit) PROVE Goal
  BY <1>3, <1>8 DEF Sync, Prune, Save
<1>9. ASSUME NEW ids, Ack(ids) PROVE Goal
  <2>1. /\ queue' = Restrict(queue, Kept \ Listed(ids))
        /\ reply'.op = "ack" /\ reply'.ids = Acknowledged(ids)
    BY <1>9 DEF Ack, Save, Reply
  <2>2. e \notin Kept \ Listed(ids)
    BY <2>1, RestrictDomainIs DEF Queued
  <2>3. e \in Kept /\ e \in Listed(ids) => e \in Acknowledged(ids)
    BY DEF Listed, Acknowledged, Counted
  <2>4. QED
    BY <1>1, <2>1, <2>2, <2>3
<1>10. ASSUME NEW ids, AckTorn(ids) PROVE Goal
  BY <1>3, <1>10 DEF AckTorn
<1>11. CASE PruneTorn \/ PruneUnarmed \/ AlarmFires \/ Tick
  BY <1>3, <1>4, <1>11 DEF PruneTorn, PruneUnarmed, AlarmFires, Tick, Prune, Save
<1>12. QED
  BY <1>6, <1>7, <1>8, <1>9, <1>10, <1>11 DEF Next

\* No handler, whole or torn, drops an envelope that is neither acknowledged nor
\* expired: not the backlog cap, not a lost isolate (device-mailbox.ts:105-127,
\* 163-197, 226-248).
THEOREM NothingEvicted == Spec => OnlyAckOrExpiry
<1>1. [Next]_vars =>
        [\A e \in (Queued \cap Stored) \ Queued' :
           stored[e] <= now \/ (reply'.op = "ack" /\ e \in reply'.ids)]_vars
  BY LeavesByAckOrExpiry
<1>2. QED
  BY <1>1, PTL DEF Spec, OnlyAckOrExpiry

-----------------------------------------------------------------------------
(* The accounting.                                                          *)

DistinctAcks == \A ids \in AckLists : IsInjective(ids)
Settled == stats.acknowledged + stats.expired

\* While no isolate is lost, every queued id has its record, so that pruning
\* counts whatever it drops; Accounting alone does not say it.
CountInv == (crashes = 0 /\ DistinctAcks) =>
  /\ Queued \subseteq Stored
  /\ stats.enqueued = Settled + Cardinality(Queued)

\* Pruning moves a count from the queue to stats.expired.
LEMMA PrunedCount ==
  ASSUME Inv, Queued \subseteq Stored, stats.enqueued = Settled + Cardinality(Queued)
  PROVE  /\ PrunedStats.enqueued =
              PrunedStats.acknowledged + PrunedStats.expired + Cardinality(Kept)
         /\ Kept \subseteq Stored \ Lapsed
         /\ Cardinality(Kept) \in Nat
<1>1. Queued \subseteq Envelopes /\ Queued = Kept \cup Lapsed /\ Kept \cap Lapsed = {}
  BY InvIsStorageOK DEF Kept, Lapsed, StorageOK, QueueOK, Queued
<1>2. /\ IsFiniteSet(Kept) /\ IsFiniteSet(Lapsed)
      /\ Cardinality(Kept) \in Nat /\ Cardinality(Lapsed) \in Nat
  BY <1>1, EnvelopeSets
<1>3. Cardinality(Queued) = Cardinality(Kept) + Cardinality(Lapsed)
  <2>1. Cardinality(Kept \cup Lapsed)
          = Cardinality(Kept) + Cardinality(Lapsed) - Cardinality(Kept \cap Lapsed)
    BY <1>2, FS_Union
  <2>2. Cardinality(Kept \cap Lapsed) = 0
    BY <1>1, FS_EmptySet
  <2>3. QED
    BY <1>1, <1>2, <2>1, <2>2
<1>4. StatsOK(stats)
  BY InvIsStorageOK DEF StorageOK
<1>5. /\ PrunedStats.enqueued = stats.enqueued
      /\ PrunedStats.acknowledged = stats.acknowledged
      /\ PrunedStats.expired = stats.expired + Cardinality(Lapsed)
  BY <1>4 DEF PrunedStats, StatsOK
<1>6. Kept \subseteq Stored \ Lapsed
  BY <1>1 DEF Kept, Lapsed
<1>7. QED
  BY <1>2, <1>3, <1>4, <1>5, <1>6 DEF StatsOK, Settled

\* An /ack without a repeated id counts exactly the envelopes it removes.
LEMMA CountedIsRemoved ==
  ASSUME Inv, NEW ids \in AckLists, IsInjective(ids)
  PROVE  /\ Cardinality(Kept) =
              Cardinality(Kept \ Listed(ids)) + Cardinality(Counted(ids))
         /\ Cardinality(Counted(ids)) \in Nat
<1>1. PICK n \in Nat : ids \in [1..n -> Envelopes]
  BY MailboxAssumption, EnvelopeSets DEF MailboxAssumption
<1>2. IsFiniteSet(1..n) /\ Counted(ids) \subseteq 1..n
  BY <1>1, FS_Interval DEF Counted
<1>3. IsFiniteSet(Counted(ids)) /\ Cardinality(Counted(ids)) \in Nat
  BY <1>2, FS_Subset, FS_CardinalityType
<1>4. Kept \cap Listed(ids) = Acknowledged(ids)
  BY DEF Listed, Acknowledged, Counted
<1>5. Cardinality(Acknowledged(ids)) = Cardinality(Counted(ids))
  <2> DEFINE f == [i \in Counted(ids) |-> ids[i]]
  <2>1. f \in [Counted(ids) -> Acknowledged(ids)]
    BY DEF Acknowledged
  <2>2. \A a, b \in Counted(ids) : f[a] = f[b] => a = b
    <3>1. \A a, b \in DOMAIN ids : ids[a] = ids[b] => a = b
      BY DEF IsInjective
    <3>2. QED
      BY <3>1 DEF Counted
  <2>3. \A t \in Acknowledged(ids) : \E a \in Counted(ids) : f[a] = t
    BY DEF Acknowledged
  <2>4. f \in Bijection(Counted(ids), Acknowledged(ids))
    BY <2>1, <2>2, <2>3 DEF Bijection, Injection, Surjection, IsInjective
  <2>5. ExistsBijection(Counted(ids), Acknowledged(ids))
    BY <2>4 DEF ExistsBijection
  <2>6. QED
    BY <1>3, <2>5, FS_Bijection
<1>6. Kept \subseteq Envelopes
  BY PrunedOK
<1>7. /\ IsFiniteSet(Kept) /\ Cardinality(Kept) \in Nat
      /\ Cardinality(Kept \ Listed(ids)) \in Nat
  BY <1>6, EnvelopeSets
<1>8. Cardinality(Kept \ Listed(ids)) = Cardinality(Kept) - Cardinality(Kept \cap Listed(ids))
  BY <1>7, FS_Difference
<1>9. QED
  BY <1>3, <1>4, <1>5, <1>7, <1>8

LEMMA CountNext ==
  ASSUME Inv, CountInv, [Next]_vars, crashes' = 0, DistinctAcks
  PROVE  /\ Queued' \subseteq Stored'
         /\ stats'.enqueued = Settled' + Cardinality(Queued')
<1> DEFINE Goal == /\ Queued' \subseteq Stored'
                   /\ stats'.enqueued = Settled' + Cardinality(Queued')
<1>1. crashes \in Nat /\ StatsOK(stats) /\ StatsOK(PrunedStats)
  BY InvIsStorageOK, PrunedOK DEF OthersOK, StorageOK
<1>2. /\ ~ IsolateLost
      /\ ~ (PruneTorn \/ PruneUnarmed)
      /\ \A ids : ~ AckTorn(ids)
      /\ \A e, ttl : ~ (EnqueueTorn(e, ttl) \/ EnqueueUnarmed(e, ttl))
  <2>1. crashes \in Nat => crashes + 1 # 0
    OBVIOUS
  <2>2. ~ IsolateLost
    BY ONLY <1>1, <2>1, crashes' = 0 DEF IsolateLost
  <2>3. QED
    BY <2>2 DEF PruneTorn, PruneUnarmed, AckTorn, EnqueueTorn, EnqueueUnarmed
<1>3. crashes = 0
  BY <1>2 DEF Next, vars, AcceptSocket, SocketClosed, Enqueue, EnqueueDuplicate,
              EnqueueRefused, EnqueueAccepted, Sync, Ack, AlarmFires, Tick
<1>4. Queued \subseteq Stored /\ stats.enqueued = Settled + Cardinality(Queued)
  BY <1>3 DEF CountInv
<1>5. /\ PrunedStats.enqueued =
           PrunedStats.acknowledged + PrunedStats.expired + Cardinality(Kept)
      /\ Kept \subseteq Stored \ Lapsed
      /\ Cardinality(Kept) \in Nat
  BY <1>4, PrunedCount
<1>6. DOMAIN PrunedQueue = Kept /\ DOMAIN PrunedStore = Stored \ Lapsed
  BY RestrictDomainIs DEF PrunedQueue, PrunedStore
<1>7. Prune => Goal
  BY <1>5, <1>6 DEF Prune, Save, Queued, Stored, Settled
<1>8. UNCHANGED storage => Goal
  BY <1>4 DEF storage, Queued, Stored, Settled
<1>9. ASSUME NEW e \in Envelopes, NEW ttl \in Lifetimes, Enqueue(e, ttl) PROVE Goal
  <2>1. CASE EnqueueDuplicate(e, ttl)
    BY <1>7, <2>1 DEF EnqueueDuplicate
  <2>2. CASE EnqueueRefused(e, ttl)
    <3>1. /\ stats' = [PrunedStats EXCEPT !.rejected = @ + 1]
          /\ Queued' = Kept /\ Stored' = Stored \ Lapsed
      BY <1>6, <2>2 DEF EnqueueRefused, Save, Queued, Stored
    <3>2. /\ stats'.enqueued = PrunedStats.enqueued
          /\ stats'.acknowledged = PrunedStats.acknowledged
          /\ stats'.expired = PrunedStats.expired
      BY <1>1, <3>1 DEF StatsOK
    <3>3. QED
      BY <1>5, <3>1, <3>2 DEF Settled
  <2>3. CASE EnqueueAccepted(e, ttl)
    <3>1. /\ stats' = PushedStats /\ e \notin Kept
          /\ Queued' = Kept \cup {e} /\ Stored' = (Stored \ Lapsed) \cup {e}
      BY <2>3 DEF EnqueueAccepted, Save, Queued, Stored, PushedQueue, WithRecord
    <3>2. /\ stats'.enqueued = PrunedStats.enqueued + 1
          /\ stats'.acknowledged = PrunedStats.acknowledged
          /\ stats'.expired = PrunedStats.expired
      BY <1>1, <3>1 DEF StatsOK, PushedStats
    <3>3. Cardinality(Kept \cup {e}) = Cardinality(Kept) + 1
      <4>1. IsFiniteSet(Kept)
        BY PrunedOK, EnvelopeSets
      <4>2. QED
        BY ONLY <3>1, <4>1, FS_AddElement
    <3>4. QED
      BY <1>1, <1>5, <3>1, <3>2, <3>3 DEF Settled, StatsOK
  <2>4. QED
    BY <1>9, <2>1, <2>2, <2>3 DEF Enqueue
<1>10. ASSUME NEW ids \in AckLists, Ack(ids) PROVE Goal
  <2>1. /\ stats' = [PrunedStats EXCEPT !.acknowledged = @ + Cardinality(Counted(ids))]
        /\ Queued' = Kept \ Listed(ids)
        /\ Stored' = (Stored \ Lapsed) \ Acknowledged(ids)
    BY <1>10, RestrictDomainIs DEF Ack, Save, Queued, Stored
  <2>2. /\ stats'.enqueued = PrunedStats.enqueued
        /\ stats'.acknowledged = PrunedStats.acknowledged + Cardinality(Counted(ids))
        /\ stats'.expired = PrunedStats.expired
    BY <1>1, <2>1 DEF StatsOK
  <2>3. /\ Cardinality(Kept) = Cardinality(Kept \ Listed(ids)) + Cardinality(Counted(ids))
        /\ Cardinality(Counted(ids)) \in Nat
    BY CountedIsRemoved DEF DistinctAcks
  <2>4. Cardinality(Kept \ Listed(ids)) \in Nat
    BY PrunedOK, EnvelopeSets
  <2>5. Acknowledged(ids) \subseteq Listed(ids)
    BY DEF Acknowledged, Counted, Listed
  <2>6. QED
    BY <1>1, <1>5, <2>1, <2>2, <2>3, <2>4, <2>5 DEF Settled, StatsOK
<1>11. CASE Next
  BY <1>2, <1>7, <1>8, <1>9, <1>10, <1>11
     DEF Next, AcceptSocket, SocketClosed, Sync, AlarmFires, Tick, storage
<1>12. CASE UNCHANGED vars
  BY <1>8, <1>12 DEF vars, storage
<1>13. QED
  BY <1>11, <1>12

\* The four counters and the backlog add up (snapshotStats, device-mailbox.ts:65),
\* for any number of envelopes, any cap and any interleaving, as long as no isolate
\* is lost and no ack repeats an id.
THEOREM AccountingCorrect == Spec => []Accounting
<1>1. Init => CountInv
  <2>1. Init => DOMAIN queue = {} /\ stats.enqueued = 0 /\ Settled = 0
    BY DEF Init, EmptyMap, Settled
  <2>2. QED
    BY <2>1, FS_EmptySet DEF CountInv, Queued
<1>2. Inv /\ CountInv /\ [Next]_vars => CountInv'
  BY CountNext DEF CountInv, DistinctAcks
<1>3. CountInv => Accounting
  BY DEF CountInv, Accounting, DistinctAcks, Settled
<1>4. QED
  BY <1>1, <1>2, <1>3, InvCorrect, PTL DEF Spec

-----------------------------------------------------------------------------
(* What the clients of attached sockets were shown, and what /sync returns.  *)

\* What a prune leaves: the queued envelopes that have a record and time left.
LEMMA PruneLeaves ==
  ASSUME Prune
  PROVE  /\ Queued' = Kept /\ Stored' = Stored \ Lapsed
         /\ Kept \subseteq Queued /\ Kept \subseteq Stored'
         /\ \A e \in Kept : stored'[e] = stored[e] /\ queue'[e] = queue[e]
<1>1. queue' = Restrict(queue, Kept) /\ stored' = Restrict(stored, Stored \ Lapsed)
  BY DEF Prune, Save, PrunedQueue, PrunedStore
<1>2. Kept \subseteq Queued /\ Kept \subseteq Stored \ Lapsed
  BY DEF Kept, Lapsed
<1>3. QED
  BY <1>1, <1>2 DEF Restrict, Queued, Stored

\* Every attached client was shown the whole queue: a broadcast that reaches all
\* sockets, or the backlog read on "ready" (device-mailbox.ts:129-161, 190).
THEOREM ClientsShown == Spec => []SocketsSeeQueue
<1>1. Init => SocketsSeeQueue
  BY DEF Init, SocketsSeeQueue, EmptyMap
<1>2. SocketsSeeQueue /\ [Next]_vars => SocketsSeeQueue'
  <2> SUFFICES ASSUME SocketsSeeQueue, [Next]_vars PROVE SocketsSeeQueue'
    OBVIOUS
  <2>1. Queued' \subseteq Queued /\ UNCHANGED told => SocketsSeeQueue'
    BY DEF SocketsSeeQueue
  <2>2. Prune => Queued' \subseteq Queued /\ Queued' = Kept
    BY PruneLeaves
  <2>3. Kept \subseteq Queued
    BY DEF Kept
  <2>4. ASSUME NEW w \in Sockets, AcceptSocket(w) PROVE SocketsSeeQueue'
    BY <2>2, <2>4 DEF AcceptSocket, SocketsSeeQueue
  <2>5. ASSUME NEW w \in Sockets, SocketClosed(w) PROVE SocketsSeeQueue'
    BY <2>5 DEF SocketClosed, SocketsSeeQueue, Restrict, Queued
  <2>6. ASSUME NEW e, NEW ttl, Enqueue(e, ttl) PROVE SocketsSeeQueue'
    <3>1. CASE EnqueueDuplicate(e, ttl)
      BY <2>1, <2>2, <3>1 DEF EnqueueDuplicate
    <3>2. CASE EnqueueRefused(e, ttl)
      <4>1. Queued' = Kept /\ UNCHANGED told
        BY <3>2, RestrictDomainIs DEF EnqueueRefused, Save, PrunedQueue, Queued
      <4>2. QED
        BY <2>1, <2>3, <4>1
    <3>3. CASE EnqueueAccepted(e, ttl)
      <4>1. Queued' = Kept \cup {e} /\ told' = Broadcast(e)
        BY <3>3 DEF EnqueueAccepted, Save, PushedQueue, Queued
      <4>2. QED
        BY <2>3, <4>1 DEF Broadcast, SocketsSeeQueue
    <3>4. QED
      BY <2>6, <3>1, <3>2, <3>3 DEF Enqueue
  <2>7. ASSUME NEW after, NEW limit, Sync(after, limit) PROVE SocketsSeeQueue'
    BY <2>1, <2>2, <2>7 DEF Sync
  <2>8. ASSUME NEW ids, Ack(ids) PROVE SocketsSeeQueue'
    <3>1. Queued' \subseteq Kept /\ UNCHANGED told
      BY <2>8, RestrictDomainIs DEF Ack, Save, Queued
    <3>2. QED
      BY <2>1, <2>3, <3>1
  <2>9. CASE AlarmFires
    BY <2>1, <2>2, <2>9 DEF AlarmFires
  <2>10. IsolateLost => SocketsSeeQueue'
    BY DEF IsolateLost, SocketsSeeQueue, EmptyMap
  <2>11. CASE Tick \/ UNCHANGED vars
    BY <2>1, <2>11 DEF Tick, vars, Queued
  <2>12. QED
    BY <2>4, <2>5, <2>6, <2>7, <2>8, <2>9, <2>10, <2>11
       DEF Next, PruneTorn, PruneUnarmed, EnqueueTorn, EnqueueUnarmed, AckTorn
<1>3. QED
  BY <1>1, <1>2, PTL DEF Spec

\* A page of /sync holds queued envelopes with a record and time left, whatever a
\* lost isolate left behind (device-mailbox.ts:199-224).
THEOREM PagesLive == Spec => SyncReturnsLive
<1>1. ASSUME Inv, NEW after, NEW limit, Sync(after, limit)
      PROVE  \A e \in reply'.ids : e \in Queued' \cap Stored' /\ stored'[e] > now
  <2>1. reply'.ids \subseteq Kept
    BY <1>1 DEF Sync, Reply, FirstOf, FromCursor
  <2>2. \A e \in Kept : stored[e] > now
    BY <1>1 DEF Inv, TypeOK, Kept, HasExpired
  <2>3. QED
    BY <1>1, <2>1, <2>2, PruneLeaves DEF Sync
<1>2. Next /\ reply' # reply /\ reply'.op = "sync" => \E after, limit : Sync(after, limit)
  <2>1. ASSUME NEW w, AcceptSocket(w) \/ SocketClosed(w), reply' # reply PROVE reply'.op # "sync"
    BY <2>1 DEF AcceptSocket, SocketClosed, Reply
  <2>2. ASSUME NEW e, NEW ttl, Enqueue(e, ttl) PROVE reply'.op # "sync"
    BY <2>2 DEF Enqueue, EnqueueDuplicate, EnqueueRefused, EnqueueAccepted, Reply
  <2>3. ASSUME NEW ids, Ack(ids) PROVE reply'.op # "sync"
    BY <2>3 DEF Ack, Reply
  <2>4. IsolateLost => reply'.op # "sync"
    BY DEF IsolateLost, Reply
  <2>5. AlarmFires \/ Tick => reply' = reply
    BY DEF AlarmFires, Tick
  <2>6. QED
    BY <2>1, <2>2, <2>3, <2>4, <2>5
       DEF Next, PruneTorn, PruneUnarmed, EnqueueTorn, EnqueueUnarmed, AckTorn
<1>3. Inv /\ [Next]_vars =>
        [reply' # reply /\ reply'.op = "sync" =>
           \A e \in reply'.ids : e \in Queued' \cap Stored' /\ stored'[e] > now]_vars
  BY <1>1, <1>2 DEF vars
<1>4. QED
  BY <1>3, InvCorrect, PTL DEF Spec, SyncReturnsLive

-----------------------------------------------------------------------------
(* What a lost isolate leaves behind.                                       *)

Orphans == Stored \ Queued

LEMMA OrphanSets ==
  ASSUME Inv
  PROVE  /\ Orphans \subseteq Envelopes /\ IsFiniteSet(Orphans)
         /\ \A S \in SUBSET Orphans : Cardinality(S) <= Cardinality(Orphans)
         /\ \A e \in Envelopes : Cardinality(Orphans \cup {e}) <= Cardinality(Orphans) + 1
         /\ Cardinality(Orphans) \in Nat
<1>1. Orphans \subseteq Envelopes
  BY DEF Inv, TypeOK, Orphans
<1>2. IsFiniteSet(Orphans) /\ Cardinality(Orphans) \in Nat
  BY <1>1, EnvelopeSets
<1>3. \A S \in SUBSET Orphans : Cardinality(S) <= Cardinality(Orphans)
  BY <1>2, FS_Subset
<1>4. ASSUME NEW e \in Envelopes
      PROVE  Cardinality(Orphans \cup {e}) <= Cardinality(Orphans) + 1
  <2>1. CASE e \in Orphans
    <3>1. Orphans \cup {e} = Orphans
      BY <2>1
    <3>2. Cardinality(Orphans \cup {e}) = Cardinality(Orphans)
      BY <3>1, Zenon
    <3>3. QED
      BY <1>2, <3>2
  <2>2. CASE e \notin Orphans
    <3>1. Cardinality(Orphans \cup {e}) = Cardinality(Orphans) + 1
      BY ONLY <1>2, <2>2, FS_AddElement
    <3>2. QED
      BY <1>2, <3>1
  <2>3. QED
    BY <2>1, <2>2
<1>5. QED
  BY <1>1, <1>2, <1>3, <1>4

\* A handler that runs to its end makes no orphan, and a torn one at most one.
LEMMA OrphansMade ==
  ASSUME Inv, [Next]_vars
  PROVE  \/ Orphans' \subseteq Orphans /\ crashes' \in {crashes, crashes + 1}
         \/ \E e \in Envelopes : Orphans' \subseteq Orphans \cup {e} /\ crashes' = crashes + 1
<1> DEFINE Same == Orphans' \subseteq Orphans /\ crashes' \in {crashes, crashes + 1}
<1>1. /\ (Stored \ Lapsed) \ Kept \subseteq Orphans
      /\ Lapsed \subseteq Queued /\ Kept \subseteq Queued
  BY DEF Kept, Lapsed, Orphans
<1>2. Prune => Orphans' \subseteq Orphans
  BY <1>1, PruneLeaves DEF Orphans
<1>3. ASSUME NEW e \in Envelopes, NEW ttl, Enqueue(e, ttl) PROVE Same
  <2>1. CASE EnqueueDuplicate(e, ttl)
    BY <1>2, <2>1 DEF EnqueueDuplicate
  <2>2. CASE EnqueueRefused(e, ttl)
    <3>1. Queued' = Kept /\ Stored' = Stored \ Lapsed /\ UNCHANGED crashes
      BY <2>2, RestrictDomainIs
         DEF EnqueueRefused, Save, PrunedQueue, PrunedStore, Queued, Stored
    <3>2. QED
      BY <1>1, <3>1 DEF Orphans
  <2>3. CASE EnqueueAccepted(e, ttl)
    <3>1. /\ Queued' = Kept \cup {e} /\ Stored' = (Stored \ Lapsed) \cup {e}
          /\ UNCHANGED crashes
      BY <2>3 DEF EnqueueAccepted, Save, PushedQueue, WithRecord, Queued, Stored
    <3>2. QED
      BY <1>1, <3>1 DEF Orphans
  <2>4. QED
    BY <1>3, <2>1, <2>2, <2>3 DEF Enqueue
<1>4. ASSUME NEW ids, Ack(ids) PROVE Same
  <2>1. /\ Queued' = Kept \ Listed(ids)
        /\ Stored' = (Stored \ Lapsed) \ Acknowledged(ids) /\ UNCHANGED crashes
    BY <1>4, RestrictDomainIs DEF Ack, Save, Queued, Stored
  <2>2. Kept \cap Listed(ids) \subseteq Acknowledged(ids)
    BY DEF Listed, Acknowledged, Counted
  <2>3. QED
    BY <1>1, <2>1, <2>2 DEF Orphans
<1>5. CASE PruneTorn
  <2>1. PICK gone \in SUBSET Lapsed : stored' = Restrict(stored, Stored \ gone)
    BY <1>5 DEF PruneTorn
  <2>2. Stored' = Stored \ gone /\ Queued' = Queued /\ crashes' = crashes + 1
    BY <1>5, <2>1, RestrictDomainIs DEF PruneTorn, IsolateLost, Stored, Queued
  <2>3. QED
    BY <2>2 DEF Orphans
<1>6. CASE PruneUnarmed
  <2>1. Stored' = Stored \ Lapsed /\ Queued' = Kept /\ crashes' = crashes + 1
    BY <1>6, RestrictDomainIs
       DEF PruneUnarmed, IsolateLost, PrunedQueue, PrunedStore, Stored, Queued
  <2>2. QED
    BY <1>1, <2>1 DEF Orphans
<1>7. ASSUME NEW ids, AckTorn(ids) PROVE Same
  <2>1. PICK gone : stored' = Restrict(stored, (Stored \ Lapsed) \ gone)
    BY <1>7 DEF AckTorn
  <2>2. Stored' = (Stored \ Lapsed) \ gone /\ Queued' = Kept /\ crashes' = crashes + 1
    BY <1>7, <2>1, RestrictDomainIs DEF AckTorn, IsolateLost, PrunedQueue, Stored, Queued
  <2>3. QED
    BY <1>1, <2>2 DEF Orphans
<1>8. ASSUME NEW e \in Envelopes, NEW ttl, EnqueueTorn(e, ttl)
      PROVE  Orphans' \subseteq Orphans \cup {e} /\ crashes' = crashes + 1
  <2>1. /\ Stored' = (Stored \ Lapsed) \cup {e} /\ Queued' = Kept
        /\ crashes' = crashes + 1
    BY <1>8, RestrictDomainIs
       DEF EnqueueTorn, IsolateLost, PrunedQueue, WithRecord, Stored, Queued
  <2>2. QED
    BY <1>1, <2>1 DEF Orphans
<1>9. ASSUME NEW e \in Envelopes, NEW ttl, EnqueueUnarmed(e, ttl) PROVE Same
  <2>1. /\ Stored' = (Stored \ Lapsed) \cup {e} /\ Queued' = Kept \cup {e}
        /\ crashes' = crashes + 1
    BY <1>9 DEF EnqueueUnarmed, IsolateLost, PushedQueue, WithRecord, Stored, Queued
  <2>2. QED
    BY <1>1, <2>1 DEF Orphans
<1>10. ASSUME NEW w, AcceptSocket(w) \/ SocketClosed(w) PROVE Same
  BY <1>2, <1>10 DEF AcceptSocket, SocketClosed, Orphans, Stored, Queued
<1>11. ASSUME NEW after, NEW limit, Sync(after, limit) PROVE Same
  BY <1>2, <1>11 DEF Sync
<1>12. CASE AlarmFires \/ Tick \/ UNCHANGED vars
  BY <1>2, <1>12 DEF AlarmFires, Tick, vars, Orphans, Stored, Queued
<1>13. QED
  BY <1>3, <1>4, <1>5, <1>6, <1>7, <1>8, <1>9, <1>10, <1>11, <1>12 DEF Next

\* The alarm that is set for the queue q covers all of it.
LEMMA Covers ==
  ASSUME NEW q, NEW s, NEW q2, NEW s2, StoreOK(s), StoreOK(s2),
         \A e \in DOMAIN q2 \cap DOMAIN s2 : e \in DOMAIN q \cap DOMAIN s /\ s2[e] = s[e]
  PROVE  {e \in DOMAIN q2 \cap DOMAIN s2 :
            NextAlarm(q, s) = NoAlarm \/ NextAlarm(q, s) > s2[e]} = {}
<1>1. \A e \in DOMAIN q \cap DOMAIN s : s[e] \in Nat
  BY DEF StoreOK
<1>2. \A e \in DOMAIN q \cap DOMAIN s :
        NextAlarm(q, s) # NoAlarm /\ NextAlarm(q, s) <= s[e] /\ NextAlarm(q, s) \in Nat
  BY <1>1, NextAlarmProperties
<1>3. QED
  BY <1>1, <1>2


\* An alarm left as it was covers as much of what is left of the queue.
LEMMA UncoveredShrinks ==
  ASSUME Inv, Queued' \cap Stored' \subseteq Queued \cap Stored, UNCHANGED alarm,
         \A e \in Queued' \cap Stored' : stored'[e] = stored[e]
  PROVE  Uncovered' \subseteq Uncovered
BY DEF Uncovered

\* Whoever saves the state and sets the alarm leaves nothing uncovered.
LEMMA SaveCovers ==
  ASSUME NEW q, NEW s, NEW st, StoreOK(s), Save(q, s, st)
  PROVE  Uncovered' = {}
BY Covers DEF Save, Uncovered, Queued, Stored

LEMMA AlarmKept ==
  ASSUME Inv, AlarmArmed, [Next]_vars
  PROVE  AlarmArmed'
<1> DEFINE All == Uncovered' = {}
           Fewer == Uncovered' \subseteq Uncovered /\ (crashes' = 0 => crashes = 0)
           AllButOne == crashes' # 0 /\ \E e : Uncovered' \subseteq {e}
<1>1. All \/ Fewer \/ AllButOne => AlarmArmed'
  <2>1. Cardinality({}) = 0
    BY FS_EmptySet
  <2>2. Uncovered \subseteq Envelopes
    BY DEF Inv, TypeOK, Uncovered
  <2>3. IsFiniteSet(Uncovered) /\ Cardinality(Uncovered) \in Nat
    BY <2>2, EnvelopeSets
  <2>4. ASSUME Fewer PROVE AlarmArmed'
    <3>1. Cardinality(Uncovered') <= Cardinality(Uncovered) /\ Cardinality(Uncovered') \in Nat
      BY <2>3, <2>4, FS_Subset, FS_CardinalityType
    <3>2. QED
      BY <2>3, <2>4, <3>1 DEF AlarmArmed
  <2>5. ASSUME NEW e, crashes' # 0, Uncovered' \subseteq {e} PROVE AlarmArmed'
    <3>1. IsFiniteSet({e}) /\ Cardinality({e}) = 1
      BY FS_Singleton
    <3>2. Cardinality(Uncovered') <= 1
      BY <2>5, <3>1, FS_Subset
    <3>3. QED
      BY <2>5, <3>2 DEF AlarmArmed
  <2>6. All => AlarmArmed'
    BY <2>1 DEF AlarmArmed
  <2>7. QED
    BY <2>4, <2>5, <2>6
<1>2. /\ StoreOK(stored) /\ StoreOK(PrunedStore)
      /\ DOMAIN PrunedQueue = Kept /\ DOMAIN PrunedStore = Stored \ Lapsed
      /\ Kept \subseteq Queued /\ Kept \subseteq Stored \ Lapsed /\ Kept \subseteq Envelopes
  <2>1. StoreOK(stored) /\ StoreOK(PrunedStore) /\ Kept \subseteq Envelopes
    BY PrunedOK, InvIsStorageOK DEF StorageOK
  <2>2. Kept \subseteq Queued /\ Kept \subseteq Stored \ Lapsed
    BY DEF Kept, Lapsed
  <2>3. QED
    BY <2>1, <2>2, RestrictDomainIs DEF PrunedQueue, PrunedStore
<1>3. \A e \in Kept : PrunedStore[e] = stored[e]
  BY <1>2 DEF PrunedStore, Restrict
<1>4. Prune => All
  BY <1>2, SaveCovers DEF Prune
<1>5. ASSUME NEW e \in Envelopes, NEW ttl \in Lifetimes, Enqueue(e, ttl) PROVE All
  <2>1. CASE EnqueueDuplicate(e, ttl)
    BY <1>4, <2>1 DEF EnqueueDuplicate
  <2>2. CASE EnqueueRefused(e, ttl)
    BY <1>2, <2>2, SaveCovers DEF EnqueueRefused
  <2>3. CASE EnqueueAccepted(e, ttl)
    BY <2>3, PushedOK, SaveCovers DEF EnqueueAccepted
  <2>4. QED
    BY <1>5, <2>1, <2>2, <2>3 DEF Enqueue
<1>6. ASSUME NEW ids, Ack(ids) PROVE All
  <2>1. StoreOK(Restrict(stored, (Stored \ Lapsed) \ Acknowledged(ids)))
    BY <1>2, RestrictStoreOK DEF Stored
  <2>2. QED
    BY <1>6, <2>1, SaveCovers DEF Ack
<1>7. crashes \in Nat
  BY DEF Inv, TypeOK
<1>8. IsolateLost => crashes' # 0
  BY <1>7 DEF IsolateLost
<1>9. CASE PruneTorn
  <2>1. PICK gone \in SUBSET Lapsed : stored' = Restrict(stored, Stored \ gone)
    BY <1>9 DEF PruneTorn
  <2>2. /\ UNCHANGED alarm /\ Queued' = Queued /\ Stored' = Stored \ gone
        /\ \A e \in Stored' : stored'[e] = stored[e]
    BY <1>9, <2>1, RestrictDomainIs DEF PruneTorn, Queued, Stored, Restrict
  <2>3. QED
    BY <1>1, <1>8, <1>9, <2>2, UncoveredShrinks DEF PruneTorn
<1>10. CASE PruneUnarmed
  <2>1. /\ UNCHANGED alarm /\ Queued' = Kept /\ Stored' = Stored \ Lapsed
        /\ \A e \in Kept : stored'[e] = stored[e]
    BY <1>2, <1>3, <1>10 DEF PruneUnarmed, Queued, Stored
  <2>2. Queued' \cap Stored' = Kept
    BY <1>2, <2>1
  <2>3. Uncovered' \subseteq Uncovered
    BY <1>2, <2>1, <2>2, UncoveredShrinks
  <2>4. QED
    BY <1>1, <1>8, <1>10, <2>3 DEF PruneUnarmed
<1>11. ASSUME NEW e \in Envelopes, NEW ttl \in Lifetimes, EnqueueTorn(e, ttl) PROVE All
  <2>1. /\ alarm' = NextAlarm(PrunedQueue, PrunedStore)
        /\ queue' = PrunedQueue /\ stored' = WithRecord(e, ttl) /\ e \notin Kept
        /\ StoreOK(WithRecord(e, ttl))
    BY <1>11, PushedOK DEF EnqueueTorn
  <2>2. \A d \in Kept : WithRecord(e, ttl)[d] = stored[d]
    BY <1>2, <2>1 DEF WithRecord
  <2>3. \A d \in DOMAIN PrunedQueue \cap DOMAIN WithRecord(e, ttl) :
          /\ d \in DOMAIN PrunedQueue \cap DOMAIN PrunedStore
          /\ WithRecord(e, ttl)[d] = PrunedStore[d]
    BY <1>2, <1>3, <2>2
  <2>4. QED
    BY <1>2, <2>1, <2>3, Covers DEF Uncovered, Queued, Stored
<1>12. ASSUME NEW e \in Envelopes, NEW ttl \in Lifetimes, EnqueueUnarmed(e, ttl)
       PROVE  AllButOne
  <2>1. /\ alarm' = NextAlarm(PrunedQueue, PrunedStore)
        /\ queue' = PushedQueue(e) /\ stored' = WithRecord(e, ttl) /\ e \notin Kept
    BY <1>12 DEF EnqueueUnarmed
  <2>2. /\ Queued' = Kept \cup {e}
        /\ \A d \in Kept : stored'[d] = stored[d]
    BY <1>2, <2>1 DEF PushedQueue, WithRecord, Queued
  <2>3. \A d \in Kept : alarm' # NoAlarm /\ alarm' <= stored[d] /\ alarm' \in Nat /\ stored[d] \in Nat
    <3>1. \A d \in DOMAIN PrunedQueue \cap DOMAIN PrunedStore : PrunedStore[d] \in Nat
      BY <1>2 DEF StoreOK
    <3>2. \A d \in DOMAIN PrunedQueue \cap DOMAIN PrunedStore :
            alarm' # NoAlarm /\ alarm' <= PrunedStore[d] /\ alarm' \in Nat
      BY <2>1, <3>1, NextAlarmProperties
    <3>3. QED
      BY <1>2, <1>3, <3>1, <3>2
  <2>4. Uncovered' \subseteq {e}
    BY <2>2, <2>3 DEF Uncovered
  <2>5. QED
    BY <1>8, <1>12, <2>4 DEF EnqueueUnarmed
<1>13. ASSUME NEW ids, AckTorn(ids) PROVE All
  <2>1. PICK gone : stored' = Restrict(stored, (Stored \ Lapsed) \ gone)
    BY <1>13 DEF AckTorn
  <2>2. /\ alarm' = NextAlarm(PrunedQueue, PrunedStore) /\ queue' = PrunedQueue
        /\ StoreOK(stored') /\ DOMAIN stored' = (Stored \ Lapsed) \ gone
        /\ \A d \in DOMAIN stored' : stored'[d] = stored[d]
    BY <1>2, <1>13, <2>1, RestrictStoreOK, RestrictDomainIs DEF AckTorn, Stored, Restrict
  <2>3. \A d \in DOMAIN PrunedQueue \cap DOMAIN stored' :
          d \in DOMAIN PrunedQueue \cap DOMAIN PrunedStore /\ stored'[d] = PrunedStore[d]
    BY <1>2, <1>3, <2>2
  <2>4. QED
    BY <1>2, <2>2, <2>3, Covers DEF Uncovered, Queued, Stored
<1>14. ASSUME NEW w, AcceptSocket(w) PROVE All
  BY <1>4, <1>14 DEF AcceptSocket
<1>15. ASSUME NEW after, NEW limit, Sync(after, limit) PROVE All
  BY <1>4, <1>15 DEF Sync
<1>16. AlarmFires => All
  BY <1>4 DEF AlarmFires
<1>17. ASSUME UNCHANGED <<queue, stored, alarm, crashes>> PROVE Fewer
  BY <1>17 DEF Uncovered, Queued, Stored
<1>18. ASSUME (\E w : SocketClosed(w)) \/ Tick \/ UNCHANGED vars PROVE Fewer
  BY <1>17, <1>18 DEF SocketClosed, Tick, vars
<1>19. QED
  BY <1>1, <1>5, <1>6, <1>9, <1>10, <1>11, <1>12, <1>13, <1>14, <1>15, <1>16, <1>18 DEF Next

\* Losses of the isolate leave at most one orphan record each, and at most one
\* queued envelope that the alarm does not cover: none while no isolate was lost
\* (device-mailbox.ts:105-127, 163-197, 226-258).
THEOREM LossesCorrect == Spec => []LossesContained
<1>1. Init => LossesContained
  <2> SUFFICES ASSUME Init PROVE LossesContained
    OBVIOUS
  <2>1. Queued = {} /\ Stored = {} /\ crashes = 0
    BY DEF Init, EmptyMap, Queued, Stored
  <2>2. Cardinality({}) = 0
    BY FS_EmptySet
  <2>3. Uncovered = {} /\ Stored \ Queued = {}
    BY <2>1 DEF Uncovered
  <2>4. QED
    BY <2>1, <2>2, <2>3 DEF LossesContained, OrphansBounded, AlarmArmed
<1>2. ASSUME Inv, OrphansBounded, [Next]_vars PROVE OrphansBounded'
  <2>1. /\ Cardinality(Orphans) <= crashes /\ crashes \in Nat /\ Cardinality(Orphans) \in Nat
        /\ IsFiniteSet(Orphans) /\ Orphans \subseteq Envelopes
    BY <1>2, OrphanSets DEF OrphansBounded, Orphans, Inv, TypeOK
  <2>2. CASE Orphans' \subseteq Orphans /\ crashes' \in {crashes, crashes + 1}
    <3>1. Cardinality(Orphans') <= Cardinality(Orphans) /\ Cardinality(Orphans') \in Nat
      BY <2>1, <2>2, FS_Subset, FS_CardinalityType
    <3>2. QED
      BY <2>1, <2>2, <3>1 DEF OrphansBounded, Orphans
  <2>3. ASSUME NEW e \in Envelopes, Orphans' \subseteq Orphans \cup {e}, crashes' = crashes + 1
        PROVE  OrphansBounded'
    <3>1. IsFiniteSet(Orphans \cup {e}) /\ Cardinality(Orphans \cup {e}) \in Nat
      BY <2>1, EnvelopeSets
    <3>2. Cardinality(Orphans') <= Cardinality(Orphans \cup {e}) /\ Cardinality(Orphans') \in Nat
      BY <2>3, <3>1, FS_Subset, FS_CardinalityType
    <3>3. Cardinality(Orphans \cup {e}) <= Cardinality(Orphans) + 1
      BY <1>2, OrphanSets
    <3>4. QED
      BY <2>1, <2>3, <3>1, <3>2, <3>3 DEF OrphansBounded, Orphans
  <2>4. QED
    BY <1>2, <2>2, <2>3, OrphansMade
<1>3. Inv /\ LossesContained /\ [Next]_vars => LossesContained'
  BY <1>2, AlarmKept DEF LossesContained
<1>4. QED
  BY <1>1, <1>3, InvCorrect, PTL DEF Spec

-----------------------------------------------------------------------------
(* The mailbox implements its contract.                                     *)

\* What the contract calls pending.
Pending == Restrict(stored, Queued \cap Stored)

\* The contract takes Cardinality from its own instance of FiniteSets.
LEMMA SameCardinality ==
  \A S : Contract!Cardinality(S) = Cardinality(S)
BY DEF Contract!Cardinality, Cardinality, Contract!IsFiniteSet, IsFiniteSet

LEMMA PendingIs ==
  ASSUME Inv
  PROVE  /\ DOMAIN Pending = Queued \cap Stored
         /\ \A e \in Queued \cap Stored : Pending[e] = stored[e]
         /\ Lapsed \subseteq Queued \cap Stored
         /\ Contract!Expired = Lapsed
         /\ Kept = (Queued \cap Stored) \ Lapsed
<1>1. DOMAIN Pending = Queued \cap Stored /\ \A e \in Queued \cap Stored : Pending[e] = stored[e]
  BY DEF Pending, Restrict
<1>2. Contract!Expired = {e \in DOMAIN Pending : Pending[e] <= now}
  BY DEF Contract!Expired, Pending
<1>3. QED
  BY <1>1, <1>2 DEF Lapsed, Kept, HasExpired

\* Whatever keeps the record of each envelope it leaves pending drops the others:
\* lapsed ones and, if it is an acknowledgement, acknowledged ones.
LEMMA IsDrop ==
  ASSUME Inv, UNCHANGED now, NEW expired \in SUBSET Lapsed, NEW acked \in SUBSET Kept,
         Queued' \cap Stored' = (Queued \cap Stored) \ (expired \cup acked),
         \A e \in Queued' \cap Stored' : stored'[e] = stored[e]
  PROVE  Contract!Next
<1>1. /\ expired \subseteq Contract!Expired /\ acked \subseteq DOMAIN Pending
      /\ expired \subseteq DOMAIN Pending
  BY PendingIs DEF Kept
<1>2. Pending' = [e \in DOMAIN Pending \ (expired \cup acked) |-> Pending[e]]
  <2>1. Pending' = [e \in Queued' \cap Stored' |-> stored'[e]]
    BY DEF Pending, Restrict
  <2>2. Queued' \cap Stored' = DOMAIN Pending \ (expired \cup acked)
    BY PendingIs
  <2>3. \A e \in Queued' \cap Stored' : stored'[e] = Pending[e]
    BY PendingIs
  <2>4. QED
    BY <2>1, <2>2, <2>3
<1>3. Contract!Drop(expired, acked)
  BY <1>1, <1>2 DEF Contract!Drop, Pending
<1>4. QED
  BY <1>1, <1>3 DEF Contract!Next, Pending

LEMMA IsExpiry ==
  ASSUME Inv, UNCHANGED now, NEW expired \in SUBSET Lapsed,
         Queued' \cap Stored' = (Queued \cap Stored) \ expired,
         \A e \in Queued' \cap Stored' : stored'[e] = stored[e]
  PROVE  Contract!Next
<1> DEFINE acked == {}
<1>1. acked \in SUBSET Kept /\ expired = expired \cup acked
  OBVIOUS
<1> HIDE DEF acked
<1>2. Queued' \cap Stored' = (Queued \cap Stored) \ (expired \cup acked)
  BY <1>1
<1>3. QED
  BY <1>1, <1>2, IsDrop

LEMMA PruneIsDrop ==
  ASSUME Inv, Prune, UNCHANGED now
  PROVE  Contract!Next
<1>1. Queued' \cap Stored' = (Queued \cap Stored) \ Lapsed
  BY PruneLeaves, PendingIs
<1>2. \A e \in Queued' \cap Stored' : stored'[e] = stored[e]
  BY PruneLeaves
<1>3. QED
  BY <1>1, <1>2, IsExpiry

\* An accepted envelope is taken, also when the isolate is lost before the alarm is set.
LEMMA PushIsTake ==
  ASSUME Inv, UNCHANGED now, NEW e \in Envelopes, NEW ttl \in Lifetimes,
         e \notin Kept, HasRoom, now + ttl <= Horizon,
         queue' = PushedQueue(e), stored' = WithRecord(e, ttl)
  PROVE  Contract!Next
<1>1. now \in Nat /\ ttl \in Nat \ {0} /\ Horizon \in Nat
  BY MailboxAssumption DEF Inv, TypeOK, MailboxAssumption
<1>2. now + ttl \in 0..Horizon /\ now + ttl > now
  BY <1>1
<1>3. /\ Queued' = Kept \cup {e} /\ Stored' = (Stored \ Lapsed) \cup {e}
      /\ stored'[e] = now + ttl
      /\ \A d \in Stored \ Lapsed : d # e => stored'[d] = stored[d]
  BY DEF PushedQueue, WithRecord, Queued, Stored
<1>4. DOMAIN Pending \ Lapsed = Kept /\ Lapsed \in SUBSET DOMAIN Pending
  BY PendingIs
<1>5. Pending' = [d \in (DOMAIN Pending \ Lapsed) \cup {e} |->
                    IF d = e THEN now + ttl ELSE Pending[d]]
  <2>1. Pending' = [d \in Queued' \cap Stored' |-> stored'[d]]
    BY DEF Pending, Restrict
  <2>2. Queued' \cap Stored' = Kept \cup {e}
    BY <1>3 DEF Kept, Lapsed
  <2>3. \A d \in Kept : d # e /\ stored'[d] = Pending[d]
    BY <1>3, PendingIs
  <2>4. QED
    BY <1>3, <1>4, <2>1, <2>2, <2>3
<1>6. Contract!Take(Lapsed, e, now + ttl)
  <2>1. /\ Lapsed \subseteq Contract!Expired
        /\ e \notin DOMAIN Pending \ Lapsed
        /\ Cardinality(DOMAIN Pending \ Lapsed) < MaxBacklog
    BY <1>4, PendingIs, Zenon DEF HasRoom
  <2>2. QED
    BY <1>2, <1>5, <2>1, SameCardinality, Zenon DEF Contract!Take, Pending
<1>7. QED
  BY <1>2, <1>4, <1>6 DEF Contract!Next, Pending

LEMMA NextImplements ==
  ASSUME Inv, [Next]_vars
  PROVE  [Contract!Next]_<<Pending, now>>
<1> DEFINE Done == Contract!Next \/ UNCHANGED <<Pending, now>>
<1>1. /\ DOMAIN PrunedQueue = Kept /\ DOMAIN PrunedStore = Stored \ Lapsed
      /\ Kept \subseteq Queued \cap Stored /\ Kept = (Queued \cap Stored) \ Lapsed
      /\ \A e \in Kept : PrunedStore[e] = stored[e]
  BY PendingIs, RestrictDomainIs DEF PrunedQueue, PrunedStore, Restrict
<1>2. UNCHANGED <<queue, stored, now>> => Done
  BY DEF Pending, Queued, Stored
<1>3. ASSUME NEW e \in Envelopes, NEW ttl \in Lifetimes, Enqueue(e, ttl) PROVE Done
  <2>1. CASE EnqueueDuplicate(e, ttl)
    BY <2>1, PruneIsDrop DEF EnqueueDuplicate
  <2>2. CASE EnqueueRefused(e, ttl)
    <3>1. queue' = PrunedQueue /\ stored' = PrunedStore /\ UNCHANGED now
      BY <2>2 DEF EnqueueRefused, Save
    <3>2. /\ Queued' \cap Stored' = (Queued \cap Stored) \ Lapsed
          /\ \A d \in Queued' \cap Stored' : stored'[d] = stored[d]
      BY <1>1, <3>1 DEF Queued, Stored
    <3>3. QED
      BY <3>1, <3>2, IsExpiry
  <2>3. CASE EnqueueAccepted(e, ttl)
    BY <2>3, PushIsTake DEF EnqueueAccepted, Save, MayArrive
  <2>4. QED
    BY <1>3, <2>1, <2>2, <2>3 DEF Enqueue
<1>4. ASSUME NEW e \in Envelopes, NEW ttl \in Lifetimes, EnqueueTorn(e, ttl) PROVE Done
  <2>1. /\ queue' = PrunedQueue /\ stored' = WithRecord(e, ttl) /\ UNCHANGED now
        /\ e \notin Kept
    BY <1>4 DEF EnqueueTorn, IsolateLost
  <2>2. /\ Queued' \cap Stored' = (Queued \cap Stored) \ Lapsed
        /\ \A d \in Queued' \cap Stored' : stored'[d] = stored[d]
    BY <1>1, <2>1 DEF Queued, Stored, WithRecord
  <2>3. QED
    BY <2>1, <2>2, IsExpiry
<1>5. ASSUME NEW e \in Envelopes, NEW ttl \in Lifetimes, EnqueueUnarmed(e, ttl) PROVE Done
  BY <1>5, PushIsTake DEF EnqueueUnarmed, IsolateLost, MayArrive
<1>6. ASSUME NEW ids, Ack(ids) PROVE Done
  <2>1. /\ queue' = Restrict(queue, Kept \ Listed(ids))
        /\ stored' = Restrict(stored, (Stored \ Lapsed) \ Acknowledged(ids)) /\ UNCHANGED now
    BY <1>6 DEF Ack, Save
  <2>2. Acknowledged(ids) = Kept \cap Listed(ids)
    BY DEF Acknowledged, Counted, Listed
  <2>3. /\ Queued' \cap Stored' = (Queued \cap Stored) \ (Lapsed \cup Acknowledged(ids))
        /\ \A d \in Queued' \cap Stored' : stored'[d] = stored[d]
    BY <1>1, <2>1, <2>2 DEF Queued, Stored, Restrict
  <2>4. QED
    BY <2>1, <2>2, <2>3, IsDrop
<1>7. ASSUME NEW ids, AckTorn(ids) PROVE Done
  <2>1. PICK gone \in SUBSET Acknowledged(ids) :
          stored' = Restrict(stored, (Stored \ Lapsed) \ gone)
    BY <1>7 DEF AckTorn
  <2>2. queue' = PrunedQueue /\ UNCHANGED now /\ gone \subseteq Kept
    BY <1>7, <2>1 DEF AckTorn, IsolateLost, Acknowledged, Counted
  <2>3. /\ Queued' \cap Stored' = (Queued \cap Stored) \ (Lapsed \cup gone)
        /\ \A d \in Queued' \cap Stored' : stored'[d] = stored[d]
    BY <1>1, <2>1, <2>2 DEF Queued, Stored, Restrict
  <2>4. QED
    BY <2>2, <2>3, IsDrop
<1>8. CASE PruneTorn
  <2>1. PICK gone \in SUBSET Lapsed : stored' = Restrict(stored, Stored \ gone)
    BY <1>8 DEF PruneTorn
  <2>2. UNCHANGED <<queue, now>>
    BY <1>8 DEF PruneTorn, IsolateLost
  <2>3. /\ Queued' \cap Stored' = (Queued \cap Stored) \ gone
        /\ \A d \in Queued' \cap Stored' : stored'[d] = stored[d]
    BY <2>1, <2>2 DEF Queued, Stored, Restrict
  <2>4. QED
    BY <2>2, <2>3, IsExpiry
<1>9. CASE PruneUnarmed
  <2>1. queue' = PrunedQueue /\ stored' = PrunedStore /\ UNCHANGED now
    BY <1>9 DEF PruneUnarmed, IsolateLost
  <2>2. /\ Queued' \cap Stored' = (Queued \cap Stored) \ Lapsed
        /\ \A d \in Queued' \cap Stored' : stored'[d] = stored[d]
    BY <1>1, <2>1 DEF Queued, Stored
  <2>3. QED
    BY <2>1, <2>2, IsExpiry
<1>10. ASSUME NEW w, AcceptSocket(w) \/ SocketClosed(w) PROVE Done
  BY <1>2, <1>10, PruneIsDrop DEF AcceptSocket, SocketClosed
<1>11. ASSUME NEW after, NEW limit, Sync(after, limit) PROVE Done
  BY <1>11, PruneIsDrop DEF Sync
<1>12. CASE AlarmFires
  BY <1>12, PruneIsDrop DEF AlarmFires
<1>13. CASE Tick
  <2>1. UNCHANGED Pending
    BY <1>13 DEF Tick, Pending, Queued, Stored
  <2>2. QED
    BY <1>13, <2>1 DEF Tick, Contract!Next, Contract!Pass, Pending
<1>14. CASE UNCHANGED vars
  BY <1>2, <1>14 DEF vars
<1>15. QED
  BY <1>3, <1>4, <1>5, <1>6, <1>7, <1>8, <1>9, <1>10, <1>11, <1>12, <1>13, <1>14 DEF Next

\* The mailbox, lost isolates included, is an implementation of MailboxContract: every
\* handler is at most one operation of the contract, and a torn one is an operation
\* that dropped less (device-mailbox.ts:105-258).
THEOREM ContractKept == Spec => KeepsContract
<1>1. Init => Contract!Init
  BY DEF Init, Contract!Init, EmptyMap, Restrict, Queued, Stored
<1>2. Inv /\ [Next]_vars => [Contract!Next]_<<Restrict(stored, Queued \cap Stored), now>>
  BY NextImplements DEF Pending
<1>3. QED
  BY <1>1, <1>2, InvCorrect, PTL DEF Spec, KeepsContract, Contract!Spec

=============================================================================
