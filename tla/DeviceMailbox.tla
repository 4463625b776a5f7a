--------------------------- MODULE DeviceMailbox ---------------------------
(***************************************************************************)
(* DeviceMailboxDO: the durable ciphertext mailbox of one device           *)
(* (apps/relay/src/do/device-mailbox.ts).                                  *)
(*                                                                         *)
(* The object keeps one record under the key "state" (the queue of         *)
(* envelope ids and four counters), one record per envelope, an alarm, and *)
(* the web sockets attached to it.  A handler runs without another handler *)
(* of the same object in between (its awaits are storage operations, held  *)
(* behind the input gate; the body of the request is read before the state *)
(* is loaded), so a handler is one action.  What can cut a handler short   *)
(* is the loss of the isolate between two of its storage writes: the       *)
(* "Torn" actions leave the writes made so far and close the sockets.      *)
(*                                                                         *)
(* A definition marked "faulty" is a plausible bug, put in the place of    *)
(* the one below it to see that a property notices.                        *)
(***************************************************************************)
EXTENDS Integers, FiniteSets, Functions

CONSTANTS Envelopes,    \* envelope ids
          Sockets,      \* web sockets of the device's clients
          Lifetimes,    \* how long an arriving envelope still has to live
          AckLists,     \* the bodies of /ack: sequences of envelope ids
          MaxBacklog,   \* MAX_MAILBOX_BACKLOG
          MaxPage,      \* the largest page /sync returns
          Horizon,      \* bound of the model: the clock stops here
          MaxRequests,  \* bound of the model: envelopes pushed or refused
          MaxCrashes    \* bound of the model: losses of the isolate

ASSUME MailboxAssumption ==
  /\ IsFiniteSet(Envelopes)
  /\ Lifetimes \subseteq Nat \ {0}
  /\ AckLists \subseteq UNION {[1..n -> Envelopes] : n \in 0..Cardinality(Envelopes) + 1}
  /\ MaxBacklog \in Nat \ {0} /\ MaxPage \in Nat \ {0}
  /\ Horizon \in Nat /\ MaxRequests \in Nat /\ MaxCrashes \in Nat

VARIABLES queue,    \* state.queue: queued envelope |-> its place in the order of arrival
          stored,   \* the envelope records: envelope |-> its expiresAt
          stats,    \* state.stats
          alarm,    \* the alarm of the object, NoAlarm when deleted
          told,     \* attached socket |-> envelopes its client was shown
          reply,    \* the answer to the last request
          now,      \* the clock
          crashes   \* losses of the isolate so far

storage == <<queue, stored, stats, alarm>>
vars == <<queue, stored, stats, alarm, told, reply, now, crashes>>

NoAlarm == -1
NoEnvelope == "none"
EmptyMap == [x \in {} |-> 0]

Queued == DOMAIN queue
Stored == DOMAIN stored

\* An answer of the object: the operation, the envelopes it concerns (the page
\* of /sync, the ids /ack counted, the id /enqueue took or refused), its outcome.
Reply(op, ids, ok, last) == [op |-> op, ids |-> ids, ok |-> ok, last |-> last]

-----------------------------------------------------------------------------
(* pruneExpired and scheduleNextAlarm, which every handler starts with.     *)

ExpiresEarly(e) == stored[e] <= now + 1          \* faulty
HasExpired(e) == stored[e] <= now

\* Ids whose record is gone drop out of the queue; expired ones are counted
\* and their records deleted.
Lapsed == {e \in Queued \cap Stored : HasExpired(e)}
Kept == {e \in Queued \cap Stored : ~HasExpired(e)}

PrunedQueue == Restrict(queue, Kept)
RecordsLeft == stored                            \* faulty
PrunedStore == Restrict(stored, Stored \ Lapsed)
UncountedExpiry == stats                         \* faulty
PrunedStats == [stats EXCEPT !.expired = @ + Cardinality(Lapsed)]

Expiries(q, s) == {s[e] : e \in DOMAIN q \cap DOMAIN s}
LatestAlarm(q, s) ==                             \* faulty
  IF Expiries(q, s) = {} THEN NoAlarm
  ELSE CHOOSE t \in Expiries(q, s) : \A u \in Expiries(q, s) : u <= t
SecondAlarm(q, s) ==                             \* faulty
  IF Cardinality(DOMAIN q) < 2 THEN NoAlarm ELSE LatestAlarm(q, s)

\* The earliest expiry among the queued envelopes that have a record.
NextAlarm(q, s) ==
  IF Expiries(q, s) = {} THEN NoAlarm
  ELSE CHOOSE t \in Expiries(q, s) : \A u \in Expiries(q, s) : t <= u

Save(q, s, st) ==
  /\ queue' = q
  /\ stored' = s
  /\ stats' = st
  /\ alarm' = NextAlarm(q, s)

Prune == Save(PrunedQueue, PrunedStore, PrunedStats)

Init ==
  /\ queue = EmptyMap /\ stored = EmptyMap
  /\ stats = [enqueued |-> 0, acknowledged |-> 0, expired |-> 0, rejected |-> 0]
  /\ alarm = NoAlarm
  /\ told = EmptyMap
  /\ reply = Reply("none", {}, TRUE, NoEnvelope)
  /\ now = 0
  /\ crashes = 0

-----------------------------------------------------------------------------
(* The handlers.                                                            *)

\* The last of a set of queued envelopes, in order of arrival.
LastOf(S) ==
  IF S = {} THEN NoEnvelope ELSE CHOOSE e \in S : \A d \in S : queue[d] <= queue[e]

\* GET /ws: prune, attach the socket, send it "ready" with the newest id; the
\* client then reads the backlog with /sync.
AcceptSocket(w) ==
  /\ w \notin DOMAIN told
  /\ Prune
  /\ told' = [v \in DOMAIN told \cup {w} |-> IF v = w THEN Kept ELSE told[v]]
  /\ reply' = Reply("ws", {}, TRUE, LastOf(Kept))
  /\ UNCHANGED <<now, crashes>>

SocketClosed(w) ==
  /\ w \in DOMAIN told
  /\ told' = Restrict(told, DOMAIN told \ {w})
  /\ UNCHANGED <<queue, stored, stats, alarm, reply, now, crashes>>

\* Bounds of the model on what the relay sends to /enqueue.
MayArrive(ttl) ==
  /\ now + ttl <= Horizon
  /\ stats.enqueued + stats.rejected < MaxRequests

HasRoom == Cardinality(Kept) < MaxBacklog

\* The queue with one more id at its end, as storage will hold it.
PushedAtLength(e) ==                             \* faulty
  [d \in Kept \cup {e} |-> IF d = e THEN Cardinality(Kept) ELSE queue[d]]
PushedQueue(e) ==
  [d \in Kept \cup {e} |-> IF d = e THEN stats.enqueued ELSE queue[d]]
WithRecord(e, ttl) ==
  [d \in (Stored \ Lapsed) \cup {e} |-> IF d = e THEN now + ttl ELSE stored[d]]
PushedStats == [PrunedStats EXCEPT !.enqueued = @ + 1]

SilentBroadcast(e) == told                       \* faulty
Broadcast(e) == [w \in DOMAIN told |-> told[w] \cup {e}]

EnqueueDuplicate(e, ttl) ==
  /\ MayArrive(ttl)
  /\ e \in Kept
  /\ Prune
  /\ reply' = Reply("duplicate", {e}, TRUE, e)
  /\ UNCHANGED <<told, now, crashes>>

EnqueueRefused(e, ttl) ==
  /\ MayArrive(ttl)
  /\ e \notin Kept
  /\ ~HasRoom
  /\ Save(PrunedQueue, PrunedStore, [PrunedStats EXCEPT !.rejected = @ + 1])
  /\ reply' = Reply("enqueue", {e}, FALSE, NoEnvelope)
  /\ UNCHANGED <<told, now, crashes>>

\* The envelope is queued, recorded, counted, and broadcast to every socket.
EnqueueAccepted(e, ttl) ==
  /\ MayArrive(ttl)
  /\ e \notin Kept
  /\ HasRoom
  /\ Save(PushedQueue(e), WithRecord(e, ttl), PushedStats)
  /\ told' = Broadcast(e)
  /\ reply' = Reply("enqueue", {e}, TRUE, e)
  /\ UNCHANGED <<now, crashes>>

Enqueue(e, ttl) ==
  \/ EnqueueDuplicate(e, ttl)
  \/ EnqueueRefused(e, ttl)
  \/ EnqueueAccepted(e, ttl)

\* The first n of S in order of arrival.
FirstOf(S, n) == {e \in S : Cardinality({d \in S : queue[d] < queue[e]}) < n}

\* slice(indexOf(after) + 1): an id that is no longer queued starts from the front.
FromCursorUnpruned(after) ==                     \* faulty
  IF after \in Queued THEN {e \in Queued : queue[e] > queue[after]} ELSE Queued
FromCursor(after) ==
  IF after \in Kept THEN {e \in Kept : queue[e] > queue[after]} ELSE Kept

\* GET /sync?after&limit, the limit clamped to 1..MaxPage.
Sync(after, limit) ==
  LET n == IF limit < 1 THEN 1 ELSE IF limit > MaxPage THEN MaxPage ELSE limit
      page == FirstOf(FromCursor(after), n)
  IN  /\ Prune
      /\ reply' = Reply("sync", page, TRUE, LastOf(page))
      /\ UNCHANGED <<told, now, crashes>>

\* POST /ack: every listed id that is queued counts, as often as it is listed.
ListedAndEarlier(ids) ==                         \* faulty
  {e \in Queued : \E i \in DOMAIN ids : ids[i] \in Queued /\ queue[e] <= queue[ids[i]]}
Listed(ids) == {ids[i] : i \in DOMAIN ids}
Counted(ids) == {i \in DOMAIN ids : ids[i] \in Kept}
Acknowledged(ids) == {ids[i] : i \in Counted(ids)}

Ack(ids) ==
  /\ Save(Restrict(queue, Kept \ Listed(ids)),
          Restrict(stored, (Stored \ Lapsed) \ Acknowledged(ids)),
          [PrunedStats EXCEPT !.acknowledged = @ + Cardinality(Counted(ids))])
  /\ reply' = Reply("ack", Acknowledged(ids), TRUE, NoEnvelope)
  /\ UNCHANGED <<told, now, crashes>>

\* The platform runs alarm() at or after the time that was set.
AlarmFires ==
  /\ alarm # NoAlarm
  /\ alarm <= now
  /\ Prune
  /\ UNCHANGED <<told, reply, now, crashes>>

-----------------------------------------------------------------------------
(* The isolate is lost between two storage writes: the earlier writes stay, *)
(* no answer is sent, the sockets close.                                    *)

IsolateLost ==
  /\ crashes < MaxCrashes
  /\ crashes' = crashes + 1
  /\ told' = EmptyMap
  /\ reply' = Reply("lost", {}, FALSE, NoEnvelope)
  /\ now' = now

\* Inside pruneExpired: the first lapsed records are deleted, no state is saved.
PruneTorn ==
  /\ IsolateLost
  /\ \E gone \in SUBSET Lapsed :
       /\ \A d \in gone, e \in Lapsed \ gone : queue[d] < queue[e]
       /\ stored' = Restrict(stored, Stored \ gone)
  /\ UNCHANGED <<queue, stats, alarm>>

\* Between saveState and scheduleNextAlarm of pruneExpired.
PruneUnarmed ==
  /\ IsolateLost
  /\ queue' = PrunedQueue /\ stored' = PrunedStore /\ stats' = PrunedStats
  /\ UNCHANGED alarm

\* /enqueue wrote the record and did not save the state.
EnqueueTorn(e, ttl) ==
  /\ MayArrive(ttl)
  /\ e \notin Kept /\ HasRoom
  /\ IsolateLost
  /\ queue' = PrunedQueue /\ stored' = WithRecord(e, ttl) /\ stats' = PrunedStats
  /\ alarm' = NextAlarm(PrunedQueue, PrunedStore)

\* /enqueue saved the state and did not set the alarm.
EnqueueUnarmed(e, ttl) ==
  /\ MayArrive(ttl)
  /\ e \notin Kept /\ HasRoom
  /\ IsolateLost
  /\ queue' = PushedQueue(e) /\ stored' = WithRecord(e, ttl) /\ stats' = PushedStats
  /\ alarm' = NextAlarm(PrunedQueue, PrunedStore)

\* /ack deleted some of the records (the deletions run together) and did not
\* save the state: the queue still lists ids that have no record.
AckTorn(ids) ==
  /\ IsolateLost
  /\ \E gone \in SUBSET Acknowledged(ids) :
       stored' = Restrict(stored, (Stored \ Lapsed) \ gone)
  /\ queue' = PrunedQueue /\ stats' = PrunedStats
  /\ alarm' = NextAlarm(PrunedQueue, PrunedStore)

Tick ==
  /\ now < Horizon
  /\ now' = now + 1
  /\ UNCHANGED <<queue, stored, stats, alarm, told, reply, crashes>>

Next ==
  \/ \E w \in Sockets : AcceptSocket(w) \/ SocketClosed(w)
  \/ \E e \in Envelopes, ttl \in Lifetimes :
       Enqueue(e, ttl) \/ EnqueueTorn(e, ttl) \/ EnqueueUnarmed(e, ttl)
  \/ \E after \in Envelopes \cup {NoEnvelope}, limit \in 0..MaxPage + 1 : Sync(after, limit)
  \/ \E ids \in AckLists : Ack(ids) \/ AckTorn(ids)
  \/ PruneTorn \/ PruneUnarmed
  \/ AlarmFires
  \/ Tick

Spec == Init /\ [][Next]_vars

\* Time passes and the platform runs a due alarm; nothing else is promised.
FairSpec == Spec /\ WF_vars(Tick) /\ WF_vars(AlarmFires)

-----------------------------------------------------------------------------
(* Properties.                                                              *)

\* The types of the variables, and the shapes the record of state can take.
TypeOK ==
  /\ Queued \subseteq Envelopes /\ queue \in [Queued -> Nat]
  /\ Stored \subseteq Envelopes /\ stored \in [Stored -> Nat]
  /\ stats \in [enqueued : Nat, acknowledged : Nat, expired : Nat, rejected : Nat]
  /\ alarm \in Nat \cup {NoAlarm}
  /\ DOMAIN told \subseteq Sockets /\ told \in [DOMAIN told -> SUBSET Envelopes]
  /\ reply.ids \subseteq Envelopes
  /\ now \in Nat
  /\ crashes \in Nat

\* The backlog never exceeds MAX_MAILBOX_BACKLOG, however prunes, losses of the
\* isolate and retries of /enqueue interleave.
BacklogBounded == Cardinality(Queued) <= MaxBacklog

\* No two queued envelopes share a place and the next one goes behind them all:
\* paging by cursor relies on it, and acks, expiry and losses must not break it.
ArrivalsDistinct ==
  /\ \A d, e \in Queued : queue[d] = queue[e] => d = e
  /\ \A e \in Queued : queue[e] < stats.enqueued

\* The queue is one that cursors can page: bounded, and in order of arrival.
QueueOrdered == BacklogBounded /\ ArrivalsDistinct

\* Every envelope ever taken is acknowledged, expired or still queued, and is
\* counted once: the counters snapshotStats publishes add up.  (Lost isolates
\* lose counts, and an id listed twice in one /ack counts twice.)
Accounting ==
  (crashes = 0 /\ \A ids \in AckLists : IsInjective(ids)) =>
    stats.enqueued = stats.acknowledged + stats.expired + Cardinality(Queued)

\* A lost isolate leaves at most one record that nothing will delete.
OrphansBounded == Cardinality(Stored \ Queued) <= crashes

\* The alarm covers every queued envelope: it is set no later than the earliest
\* expiry.  A loss between saveState and setAlarm leaves at most one uncovered.
Uncovered == {e \in Queued \cap Stored : alarm = NoAlarm \/ alarm > stored[e]}
AlarmArmed ==
  /\ crashes = 0 => Uncovered = {}
  /\ Cardinality(Uncovered) <= 1

\* What losses of the isolate leave behind: a record each that nothing deletes, and
\* at most one envelope without its alarm.
LossesContained == OrphansBounded /\ AlarmArmed

\* An attached client was shown every queued envelope, by the backlog it reads on
\* "ready" or by a broadcast.
SocketsSeeQueue == \A w \in DOMAIN told : Queued \subseteq told[w]

\* An envelope with a record leaves the queue only when an /ack names it or its
\* time has passed: nothing is evicted to make room.
OnlyAckOrExpiry ==
  [][\A e \in (Queued \cap Stored) \ Queued' :
       stored[e] <= now \/ (reply'.op = "ack" /\ e \in reply'.ids)]_vars

\* What /sync returns is queued, has a record and has not expired, also after a
\* loss that left ids without records or records without ids.
SyncReturnsLive ==
  [][reply' # reply /\ reply'.op = "sync" =>
       \A e \in reply'.ids : e \in Queued' \cap Stored' /\ stored'[e] > now]_vars

\* Abandoned ciphertext goes away without any client: every record is deleted
\* in the end (README: "expire abandoned ciphertext automatically"), unless the
\* isolate is lost on the way.
AbandonedExpires ==
  \A e \in Envelopes : (e \in Stored /\ crashes = 0) ~> (e \notin Stored \/ crashes > 0)

\* The mailbox keeps the contract its callers rely on: a record counts while it is
\* queued, whatever is left behind by a lost isolate.
Contract == INSTANCE MailboxContract
  WITH pending <- Restrict(stored, Queued \cap Stored), clock <- now
KeepsContract == Contract!Spec

=============================================================================
