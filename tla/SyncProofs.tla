----------------------------- MODULE SyncProofs -----------------------------
(***************************************************************************)
(* Proofs about the phone's sync: what is acknowledged has been saved, in  *)
(* calm nothing that was saved is undone, and without overlaps only what   *)
(* is in hand at a kill is lost, for any streams, page size, number of     *)
(* runs, kills and failures.                                               *)
(***************************************************************************)
EXTENDS MailboxSync, FiniteSetTheorems, WellFoundedInduction, TLAPS

-----------------------------------------------------------------------------
(* The shapes of the state.                                                 *)

InLoop == {"lookup", "load", "store", "install", "thread", "merge"}
Pcs == InLoop \cup {"idle", "fetch", "save", "rows", "cursor", "ack"}

Chains == [gen : Nat, next : Nat, skipped : SUBSET Nat]
Threads == UNION {[T -> BOOLEAN] : T \in SUBSET Nat}
Syncs == [pc : Pcs, todo : SUBSET Nat, last : Nat, after : Nat, chain : Chains,
          loaded : BOOLEAN, texts : Threads, rows : SUBSET Nat, acks : SUBSET Nat]

SyncTypeOK ==
  /\ stream \in Streams /\ sent \in 0..Len(stream)
  /\ mailbox \subseteq 1..sent /\ cursor \in 0..sent
  /\ ratchets \in [Devices -> Chains] /\ senderKeys \in [Devices -> Chains]
  /\ thread \in Threads /\ DOMAIN thread \subseteq 1..sent
  /\ directory \subseteq Devices
  /\ run \in [Runs -> Syncs]
  /\ crashes \in Nat /\ failures \in Nat /\ overlapped \in BOOLEAN

-----------------------------------------------------------------------------
(* What is acknowledged has been saved.                                     *)

\* The phone has text e, or has Kept newer ones, once the texts of T are saved.
Had(e, T) == e \in T \/ Cardinality({t \in T : t > e}) >= Kept

TextsOf(S) == {e \in S : stream[e].kind = "text"}

\* A run knows the texts that it will acknowledge until they are saved.
RunSound(x) ==
  /\ x.todo \cup x.acks \cup DOMAIN x.texts \subseteq 1..sent /\ x.last \in 0..sent
  /\ x.rows \subseteq DOMAIN x.texts
  /\ x.pc \in InLoop => x.todo # {}
  /\ x.pc \in {"merge", "rows"} => x.loaded
  /\ x.pc = "thread" => ~x.loaded
  /\ ~x.loaded => DOMAIN x.texts = {}
  /\ x.pc \in {"idle", "fetch"} => x.acks = {} /\ ~x.loaded
  /\ x.pc = "install" => stream[Min(x.todo)].kind = "key"

RunSaves(x) ==
  /\ x.pc \in InLoop \cup {"save", "rows"} => TextsOf(x.acks) \subseteq DOMAIN x.texts
  /\ x.pc = "rows" => \A e \in DOMAIN x.texts : Had(e, DOMAIN thread \cup x.rows)
  /\ x.pc \in {"cursor", "ack"} => \A e \in TextsOf(x.acks) : Had(e, DOMAIN thread)

KeptInv ==
  /\ SyncTypeOK
  /\ \A r \in Runs : RunSound(run[r]) /\ RunSaves(run[r])
  /\ \A e \in 1..sent \ mailbox : stream[e].kind = "text" => Had(e, DOMAIN thread)

-----------------------------------------------------------------------------
(* In calm, nothing that was saved is undone.                               *)

ChainOK(c) == \A i \in c.skipped : i < c.next

Place(e) == IF IsKey(e) THEN 1 ELSE stream[e].gen
LoadedFor(e) ==
  IF IsKey(e) THEN Ratchet(stream[e].device, stream[e].n) ELSE senderKeys[stream[e].device]

\* The envelopes that could be opened at once, of devices that have started to talk.
Live ==
  {e \in mailbox : /\ stream[e].kind # "closed" /\ ratchets[stream[e].device] # NoChain
                   /\ Opens(LoadedFor(e), Place(e), stream[e].n)}

\* The envelope that a run has opened and not noted yet.
Stored(x) == IF x.pc \in {"install", "thread", "merge"} THEN {Min(x.todo)} ELSE {}
Noted == {e \in 1..sent : e \notin mailbox \/ \E r \in Runs : e \in run[r].acks}
Opened == Noted \cup UNION {Stored(run[r]) : r \in Runs}

OneBusy == \A r, q \in Runs : run[r].pc # "idle" /\ run[q].pc # "idle" => r = q

\* A device that has started to talk is listed, whenever the list is there.
Listing ==
  /\ crashes = 0 /\ directory = {} => \A d \in Devices : ratchets[d] = NoChain
  /\ \A d \in Devices : ratchets[d] # NoChain => d \in Registered /\ (directory = {} \/ d \in directory)

Started ==
  /\ \A d \in Devices : ratchets[d] = NoChain => senderKeys[d] = NoChain
  /\ \A f \in Opened : ratchets[stream[f].device] # NoChain
  /\ \A d \in Devices : ChainOK(ratchets[d]) /\ ChainOK(senderKeys[d])

\* Nothing is left behind that could still be opened after what followed it.
Settled ==
  /\ \A f \in Opened, e \in Live : Kin(e, f) => ~(e < f)
  /\ cursor \in mailbox => \A e \in Live : cursor < e

\* A run takes the mailbox in order.
RunSweeps(x) ==
  /\ x.pc = "fetch" => x.after = cursor
  /\ x.pc \in InLoop =>
       /\ cursor \in mailbox => cursor < Min(x.todo)
       /\ x.todo \subseteq mailbox /\ \A t \in x.todo : t <= x.last
       /\ \A e \in mailbox : Min(x.todo) <= e /\ e <= x.last => e \in x.todo
       /\ \A a \in x.acks : a < Min(x.todo)
       /\ \A e \in Live : Min(x.todo) <= e
       /\ Stored(x) \cap Live = {}
  /\ x.pc \in {"save", "rows", "cursor"} => \A e \in Live : x.last < e

\* What a run holds of the envelope it is at.
RunHolds(x) ==
  /\ x.pc \in InLoop \ {"lookup"} => stream[Min(x.todo)].device \in directory
  /\ x.pc \in {"store", "install", "thread", "merge"} =>
       /\ stream[Min(x.todo)].kind # "closed"
       /\ \A g \in Opened : Kin(g, Min(x.todo)) => g <= Min(x.todo)
  /\ x.pc = "store" =>
       LET e == Min(x.todo)
       IN  Opens(LoadedFor(e), Place(e), stream[e].n) /\ x.chain = Stepped(LoadedFor(e), stream[e].n)
  /\ x.pc \in {"thread", "merge"} => ~IsKey(Min(x.todo))

KeysInstalled ==
  \A e \in Noted : IsKey(e) => stream[e].gen <= senderKeys[stream[e].device].gen

\* Deletions of the device that sent the text, and a thread that obeys those of S.
Own(f) == stream[f].kind = "delete" /\ Kin(stream[f].target, f)
Obeys(T, S) == \A f \in S : Own(f) /\ stream[f].target \in DOMAIN T => T[stream[f].target]

\* What a run will save obeys every deletion it knows, and replaces all there is.
RunObeys(x) ==
  /\ ~x.loaded => \A f \in x.acks : ~Own(f)
  /\ x.loaded /\ x.pc \in InLoop \cup {"save", "rows"} =>
       Obeys(x.texts, Noted) /\ DOMAIN thread \subseteq DOMAIN x.texts
  /\ x.pc = "rows" =>
       /\ Newest(DOMAIN x.texts) \subseteq DOMAIN thread \cup x.rows
       /\ \A t \in Newest(DOMAIN x.texts) \ x.rows : thread[t] = x.texts[t]
  /\ x.pc \in {"cursor", "ack"} => Obeys(thread, x.acks)

RunCalm(x) == x.pc # "idle" => RunSweeps(x) /\ RunHolds(x) /\ RunObeys(x)

CalmState ==
  /\ OneBusy /\ Listing /\ Started /\ Settled /\ KeysInstalled
  /\ Obeys(thread, 1..sent \ mailbox)
  /\ \A r \in Runs : RunCalm(run[r])

-----------------------------------------------------------------------------
(* Without overlaps, only what is in hand is lost.                          *)

\* What a run has decrypted and not acknowledged.
Hand(x) == x.acks \cup IF x.pc \in {"store", "install", "thread", "merge"} THEN {Min(x.todo)} ELSE {}

\* The stepped copy is that of the chain on disk; once it is stored, the envelope is spent.
RunLone(x) ==
  /\ x.pc \in {"store", "thread", "merge"} => stream[Min(x.todo)].kind # "closed"
  /\ x.pc = "store" =>
       LET e == Min(x.todo)
       IN  Opens(LoadedFor(e), Place(e), stream[e].n) /\ x.chain = Stepped(LoadedFor(e), stream[e].n)
  /\ x.pc \in {"thread", "merge"} =>
       LET e == Min(x.todo)
           c == senderKeys[stream[e].device]
       IN  ~IsKey(e) /\ c.gen = stream[e].gen /\ ~Ahead(c, stream[e].n)

LoneState ==
  /\ OneBusy /\ \A r \in Runs : RunLone(run[r])
  /\ \A d \in Devices : ChainOK(ratchets[d]) /\ ChainOK(senderKeys[d])

\* A sender key that can still be opened, or is about to be installed; one that is in use.
Waiting(k) ==
  /\ k \in mailbox \ Noted
  /\ \/ Ahead(ratchets[stream[k].device], stream[k].n)
     \/ \E r \in Runs : run[r].pc = "install" /\ Min(run[r].todo) = k
InUse(k) == senderKeys[stream[k].device].gen = stream[k].gen

LastKey(k) == IsKey(k) /\ \A f \in 1..sent : IsKey(f) /\ Kin(f, k) => f <= k
KeysWait == \A k \in 1..sent \ dropped : LastKey(k) => Waiting(k) \/ InUse(k)

TextsWait ==
  \A e \in mailbox \ dropped :
    stream[e].kind = "text" /\ ~Had(e, DOMAIN thread) /\ (\A r \in Runs : e \notin Hand(run[r])) =>
      \A k \in 1..sent \ dropped :
        Under(e, k) => Waiting(k) \/ (InUse(k) /\ Ahead(senderKeys[stream[e].device], stream[e].n))

\* Chains were stepped past nothing but what has been sent.
Sent ==
  /\ \A d \in Devices, i \in Nat :
       ~Ahead(ratchets[d], i) => \E f \in 1..sent : IsKey(f) /\ stream[f].device = d /\ stream[f].n = i
  /\ \A k \in DOMAIN stream : IsKey(k) /\ InUse(k) =>
       LET c == senderKeys[stream[k].device]
       IN  /\ stream[k].at <= c.next
           /\ \A i \in Nat : stream[k].at <= i /\ ~Ahead(c, i) =>
                \E f \in 1..sent : Cipher(f) /\ Under(f, k) /\ stream[f].n = i

\* While no request fails, a sender key in use is noted, and what is noted is spent.
NotedSpent ==
  /\ \A k \in DOMAIN stream \ dropped : IsKey(k) /\ InUse(k) => k \in Noted
  /\ \A f \in Noted : LET c == senderKeys[stream[f].device]
                      IN  Cipher(f) /\ c.gen = stream[f].gen => ~Ahead(c, stream[f].n)

WaitState ==
  /\ LoneState /\ KeysWait /\ TextsWait /\ Sent
  /\ Orderly /\ failures = 0 => NotedSpent

-----------------------------------------------------------------------------
(* The least and the greatest of some numbers.                              *)

LEMMA Least ==
  ASSUME NEW S \in SUBSET Nat, S # {}
  PROVE  \E m \in S : \A n \in S : m <= n
<1>1. PICK R : R = OpToRel(<, Nat) OBVIOUS
<1>2. IsWellFoundedOn(R, Nat) BY <1>1, NatLessThanWellFounded
<1>3. PICK m \in S : \A y \in S : ~(<<y, m>> \in R) BY <1>2, WFMin
<1>4. \A x, y \in Nat : x < y => <<x, y>> \in R BY <1>1 DEF OpToRel
<1>5. ASSUME NEW n \in S PROVE m <= n
  <2>1. n \in Nat /\ m \in Nat /\ ~(n < m) BY <1>3, <1>4
  <2>. QED BY <2>1
<1>. QED BY <1>5

LEMMA Greatest ==
  ASSUME NEW n \in Nat, NEW S \in SUBSET (0..n), S # {}
  PROVE  \E m \in S : \A x \in S : x <= m
<1>1. PICK T : T = {k \in Nat : n - k \in S} OBVIOUS
<1>2. PICK s \in S : TRUE OBVIOUS
<1>3. n - s \in Nat /\ n - (n - s) = s /\ n - s \in T BY <1>1, <1>2
<1>4. PICK k \in T : \A j \in T : k <= j BY <1>1, <1>3, Least
<1>5. ASSUME NEW x \in S PROVE x <= n - k
  <2>1. n - x \in T BY <1>1
  <2>. QED BY <1>1, <1>4, <2>1
<1>. QED BY <1>1, <1>4, <1>5

LEMMA MinOf ==
  ASSUME NEW S \in SUBSET Nat, S # {}
  PROVE  Min(S) \in S /\ \A n \in S : Min(S) <= n
<1>1. \E m \in S : \A n \in S : m <= n BY Least
<1>. QED BY <1>1 DEF Min

LEMMA MaxOf ==
  ASSUME NEW n \in Nat, NEW S \in SUBSET (0..n), S # {}
  PROVE  Max(S) \in S /\ \A x \in S : x <= Max(S)
<1>1. PICK m \in S : \A x \in S : x <= m BY Greatest
<1>2. \A x \in S : m >= x BY <1>1
<1>3. Max(S) \in S /\ \A x \in S : Max(S) >= x BY <1>2 DEF Max
<1>. QED BY <1>3

-----------------------------------------------------------------------------
(* The newest Kept of some texts.                                           *)

LEMMA Some ==
  ASSUME NEW n \in Nat, NEW S \in SUBSET (1..n)
  PROVE  IsFiniteSet(S) /\ Cardinality(S) \in Nat
<1>1. IsFiniteSet(1..n) BY FS_Interval
<1>2. IsFiniteSet(S) BY <1>1, FS_Subset
<1>. QED BY <1>2, FS_CardinalityType

LEMMA Fewer ==
  ASSUME NEW n \in Nat, NEW T \in SUBSET (1..n), NEW S \in SUBSET T
  PROVE  Cardinality(S) <= Cardinality(T)
BY Some, FS_Subset

LEMMA HadMore ==
  ASSUME NEW n \in Nat, NEW T \in SUBSET (1..n), NEW S \in SUBSET T, NEW e \in Nat, Had(e, S)
  PROVE  Had(e, T)
<1>1. {t \in T : t > e} \in SUBSET (1..n) OBVIOUS
<1>2. {t \in S : t > e} \in SUBSET {t \in T : t > e} OBVIOUS
<1>3. Cardinality({t \in S : t > e}) <= Cardinality({t \in T : t > e}) BY <1>1, <1>2, Fewer
<1>4. {t \in S : t > e} \in SUBSET (1..n) OBVIOUS
<1>5. Cardinality({t \in S : t > e}) \in Nat /\ Cardinality({t \in T : t > e}) \in Nat BY <1>1, <1>4, Some
<1>6. CASE e \in S BY <1>6 DEF Had
<1>7. CASE Cardinality({t \in S : t > e}) >= Kept BY <1>3, <1>5, <1>7, SyncAssumption DEF Had
<1>. QED BY <1>6, <1>7 DEF Had

\* What is not among the newest has Kept newer ones among them: those above the
\* greatest that is left out.
LEMMA HadNewest ==
  ASSUME NEW n \in Nat, NEW T \in SUBSET (1..n), NEW e \in Nat, Had(e, T)
  PROVE  Had(e, Newest(T))
<1>1. CASE e \in Newest(T) BY <1>1 DEF Had
<1>2. CASE e \notin Newest(T)
  <2>1. ~(Cardinality({t \in T : t > e}) < Kept) 
    <3>1. {t \in T : t > e} \in SUBSET (1..n) OBVIOUS
    <3>2. Cardinality({t \in T : t > e}) \in Nat BY <3>1, Some
    <3>3. CASE e \in T BY <1>2, <3>3 DEF Newest
    <3>4. CASE Cardinality({t \in T : t > e}) >= Kept BY <3>2, <3>4, SyncAssumption
    <3>. QED BY <3>3, <3>4 DEF Had
  <2>2. PICK S : S = {t \in T : t > e /\ t \notin Newest(T)} OBVIOUS
  <2>3. CASE S = {}
    <3>1. {t \in T : t > e} = {t \in Newest(T) : t > e} BY <2>2, <2>3 DEF Newest
    <3>2. {t \in T : t > e} \in SUBSET (1..n) OBVIOUS
    <3>3. Cardinality({t \in T : t > e}) \in Nat BY <3>2, Some
    <3>. QED BY <2>1, <3>1, <3>3, SyncAssumption DEF Had
  <2>4. CASE S # {}
    <3>1. S \in SUBSET (0..n)
      <4>1. \A t \in S : t \in 1..n BY <2>2
      <4>. QED BY <4>1
    <3>2. PICK m \in S : \A x \in S : x <= m BY <2>4, <3>1, Greatest
    <3>3. m \in T /\ m \in Nat /\ m > e /\ m \notin Newest(T) BY <2>2
    <3>4. ~(Cardinality({t \in T : t > m}) < Kept) BY <3>3 DEF Newest
    <3>5. {t \in T : t > m} \in SUBSET {t \in Newest(T) : t > e}
      <4>1. ASSUME NEW t \in T, t > m PROVE t \in Newest(T) /\ t > e
        <5>1. t \in Nat /\ t > e BY <3>3, <4>1
        <5>2. t \notin S BY <3>2, <3>3, <4>1, <5>1
        <5>. QED BY <2>2, <5>1, <5>2
      <4>. QED BY <4>1
    <3>6. {t \in Newest(T) : t > e} \in SUBSET (1..n) BY DEF Newest
    <3>7. Cardinality({t \in T : t > m}) <= Cardinality({t \in Newest(T) : t > e}) BY <3>5, <3>6, Fewer
    <3>8. {t \in T : t > m} \in SUBSET (1..n) OBVIOUS
    <3>9. Cardinality({t \in T : t > m}) \in Nat /\ Cardinality({t \in Newest(T) : t > e}) \in Nat
      BY <3>6, <3>8, Some
    <3>. QED BY <3>4, <3>7, <3>9, SyncAssumption DEF Had
  <2>. QED BY <2>3, <2>4
<1>. QED BY <1>1, <1>2

LEMMA HadTrimmed ==
  ASSUME NEW n \in Nat, NEW T \in SUBSET (1..n), NEW S \in SUBSET (1..n), NEW e \in Nat, Had(e, S \cup T)
  PROVE  Had(e, Newest(S) \cup T)
<1>1. S \cup T \in SUBSET (1..n) OBVIOUS
<1>2. Had(e, Newest(S \cup T)) BY <1>1, HadNewest
<1>3. Newest(S \cup T) \in SUBSET (Newest(S) \cup T)
  <2>1. SUFFICES ASSUME NEW t \in S, Cardinality({u \in S \cup T : u > t}) < Kept
                PROVE  Cardinality({u \in S : u > t}) < Kept
    BY DEF Newest
  <2>2. {u \in S \cup T : u > t} \in SUBSET (1..n) OBVIOUS
  <2>3. {u \in S : u > t} \in SUBSET {u \in S \cup T : u > t} OBVIOUS
  <2>4. Cardinality({u \in S : u > t}) <= Cardinality({u \in S \cup T : u > t}) BY <2>2, <2>3, Fewer
  <2>5. {u \in S : u > t} \in SUBSET (1..n) OBVIOUS
  <2>6. Cardinality({u \in S : u > t}) \in Nat /\ Cardinality({u \in S \cup T : u > t}) \in Nat
    BY <2>2, <2>5, Some
  <2>. QED BY <2>1, <2>4, <2>6, SyncAssumption
<1>4. Newest(S) \cup T \in SUBSET (1..n) BY DEF Newest
<1>. QED BY <1>2, <1>3, <1>4, HadMore
-----------------------------------------------------------------------------
(* Chains, threads, runs and envelopes keep their shapes.                   *)

LEMMA ThreadIff ==
  ASSUME NEW v
  PROVE  v \in Threads <=> DOMAIN v \subseteq Nat /\ v \in [DOMAIN v -> BOOLEAN]
<1>1. ASSUME v \in Threads PROVE DOMAIN v \subseteq Nat /\ v \in [DOMAIN v -> BOOLEAN]
  <2>1. PICK T \in SUBSET Nat : v \in [T -> BOOLEAN] BY <1>1 DEF Threads
  <2>. QED BY <2>1
<1>2. ASSUME DOMAIN v \subseteq Nat, v \in [DOMAIN v -> BOOLEAN] PROVE v \in Threads
  BY <1>2 DEF Threads
<1>. QED BY <1>1, <1>2

LEMMA NoThreadIs == NoThread \in Threads /\ DOMAIN NoThread = {}
BY ThreadIff DEF NoThread

LEMMA PutThread ==
  ASSUME NEW f \in Threads, NEW t \in Nat, NEW b \in BOOLEAN
  PROVE  /\ Put(f, t, b) \in Threads /\ DOMAIN Put(f, t, b) = DOMAIN f \cup {t}
         /\ Put(f, t, b)[t] = b /\ \A u \in DOMAIN f \ {t} : Put(f, t, b)[u] = f[u]
<1>1. DOMAIN f \subseteq Nat /\ f \in [DOMAIN f -> BOOLEAN] BY ThreadIff
<1>2. PICK g : g = Put(f, t, b) OBVIOUS
<1>3. DOMAIN g = DOMAIN f \cup {t} /\ \A u \in DOMAIN f \cup {t} : g[u] = IF u = t THEN b ELSE f[u]
  BY <1>2 DEF Put
<1>4. g \in [DOMAIN f \cup {t} -> BOOLEAN] BY <1>1, <1>2 DEF Put
<1>5. g \in Threads BY <1>1, <1>3, <1>4, ThreadIff
<1>. QED BY <1>2, <1>3, <1>5

LEMMA MergedThread ==
  ASSUME NEW f \in Threads, NEW e \in Nat
  PROVE  /\ Merged(f, e) \in Threads
         /\ DOMAIN Merged(f, e) = IF stream[e].kind = "text" THEN DOMAIN f \cup {e} ELSE DOMAIN f
         /\ stream[e].kind = "text" => Merged(f, e)[e] = FALSE
         /\ \A u \in DOMAIN f \ {e} : stream[e].kind = "text" => Merged(f, e)[u] = f[u]
         /\ \A u \in DOMAIN f : stream[e].kind # "text" => Merged(f, e)[u] = (f[u] \/ u = stream[e].target)
<1>1. DOMAIN f \subseteq Nat /\ f \in [DOMAIN f -> BOOLEAN] BY ThreadIff
<1>2. CASE stream[e].kind = "text"
  <2>1. Merged(f, e) = Put(f, e, FALSE) BY <1>2 DEF Merged
  <2>2. /\ Put(f, e, FALSE) \in Threads /\ DOMAIN Put(f, e, FALSE) = DOMAIN f \cup {e}
        /\ Put(f, e, FALSE)[e] = FALSE /\ \A u \in DOMAIN f \ {e} : Put(f, e, FALSE)[u] = f[u]
    BY PutThread
  <2>. QED BY <1>2, <2>1, <2>2
<1>3. CASE stream[e].kind # "text"
  <2>1. PICK g : g = [t \in DOMAIN f |-> f[t] \/ t = stream[e].target] OBVIOUS
  <2>2. DOMAIN g = DOMAIN f /\ g \in [DOMAIN f -> BOOLEAN] BY <1>1, <2>1
  <2>3. g \in Threads BY <1>1, <2>2, ThreadIff
  <2>4. Merged(f, e) = g BY <1>3, <2>1 DEF Merged
  <2>. QED BY <1>3, <2>1, <2>2, <2>3, <2>4
<1>. QED BY <1>2, <1>3

LEMMA RestrictedThread ==
  ASSUME NEW f \in Threads, NEW S \in SUBSET DOMAIN f
  PROVE  [t \in S |-> f[t]] \in Threads
<1>1. DOMAIN f \subseteq Nat /\ f \in [DOMAIN f -> BOOLEAN] BY ThreadIff
<1>2. PICK g : g = [t \in S |-> f[t]] OBVIOUS
<1>3. DOMAIN g = S /\ g \in [S -> BOOLEAN] BY <1>1, <1>2
<1>4. g \in Threads BY <1>1, <1>3, ThreadIff
<1>. QED BY <1>2, <1>4

LEMMA EnvelopeType ==
  ASSUME SyncTypeOK, NEW e \in 1..sent
  PROVE  /\ stream[e] \in Envelopes /\ e \in DOMAIN stream /\ e \in Nat
         /\ stream[e].device \in Devices /\ stream[e].gen \in Nat /\ stream[e].n \in Nat /\ stream[e].at \in Nat
         /\ stream[e].kind \in {"key", "text", "delete", "closed"}
         /\ stream[e].kind # "closed" => stream[e].gen > 0
         /\ stream[e].kind = "delete" => stream[e].target \in DOMAIN stream
<1>1. stream \in Seq(Envelopes) BY StreamsAssumption DEF SyncTypeOK
<1>2. Len(stream) \in Nat /\ DOMAIN stream = 1..Len(stream) /\ \A i \in 1..Len(stream) : stream[i] \in Envelopes
  BY <1>1
<1>3. sent \in 0..Len(stream) BY DEF SyncTypeOK
<1>4. e \in 1..Len(stream) /\ e \in Nat BY <1>2, <1>3
<1>5. stream[e] \in Envelopes /\ e \in DOMAIN stream BY <1>2, <1>4
<1>6. /\ stream[e].kind # "closed" => stream[e].gen > 0
      /\ stream[e].kind = "delete" => stream[e].target \in DOMAIN stream
  BY <1>5, StreamsAssumption DEF SyncTypeOK
<1>7. PICK v : v = stream[e] OBVIOUS
<1>8. /\ v.device \in Devices /\ v.gen \in Nat /\ v.n \in Nat /\ v.at \in Nat
      /\ v.kind \in {"key", "text", "delete", "closed"}
  BY <1>5, <1>7 DEF Envelopes
<1>. QED BY <1>4, <1>5, <1>6, <1>7, <1>8

LEMMA ChainTypes ==
  /\ NoChain \in Chains /\ NoChain.gen = 0
  /\ \A g, n \in Nat : Chain(g, n) \in Chains /\ Chain(g, n).gen = g /\ Chain(g, n).next = n /\ Chain(g, n).skipped = {}
BY DEF NoChain, Chain, Chains

LEMMA SteppedType ==
  ASSUME NEW c \in Chains, NEW n \in Nat
  PROVE  /\ Stepped(c, n) \in Chains /\ Stepped(c, n).gen = c.gen
         /\ n \in c.skipped => Stepped(c, n).next = c.next /\ Stepped(c, n).skipped = c.skipped \ {n}
         /\ n \notin c.skipped => Stepped(c, n).next = n + 1 /\ Stepped(c, n).skipped = c.skipped \cup (c.next .. n - 1)
<1>1. c.gen \in Nat /\ c.next \in Nat /\ c.skipped \in SUBSET Nat BY DEF Chains
<1>2. CASE n \in c.skipped
  <2>1. PICK v : v = [c EXCEPT !.skipped = @ \ {n}] OBVIOUS
  <2>2. v.gen = c.gen /\ v.next = c.next /\ v.skipped = c.skipped \ {n} BY <2>1 DEF Chains
  <2>3. v \in Chains BY <1>1, <2>1 DEF Chains
  <2>. QED BY <1>2, <2>1, <2>2, <2>3 DEF Stepped
<1>3. CASE n \notin c.skipped
  <2>1. PICK v : v = [c EXCEPT !.next = n + 1, !.skipped = @ \cup (c.next .. n - 1)] OBVIOUS
  <2>2. v.gen = c.gen /\ v.next = n + 1 /\ v.skipped = c.skipped \cup (c.next .. n - 1) BY <2>1 DEF Chains
  <2>3. v.next \in Nat /\ v.skipped \in SUBSET Nat BY <1>1, <2>2
  <2>4. v \in Chains
    <3>1. v = [gen |-> v.gen, next |-> v.next, skipped |-> v.skipped] BY <2>1 DEF Chains
    <3>. QED BY <1>1, <2>2, <2>3, <3>1 DEF Chains
  <2>. QED BY <1>3, <2>1, <2>2, <2>4 DEF Stepped
<1>. QED BY <1>2, <1>3

LEMMA IdleIs ==
  /\ Idle \in Syncs /\ Idle.pc = "idle" /\ Idle.todo = {} /\ Idle.last = 0 /\ ~Idle.loaded
  /\ Idle.texts = NoThread /\ Idle.rows = {} /\ Idle.acks = {} /\ Idle.after = 0
BY NoThreadIs, ChainTypes DEF Idle, Syncs, Pcs, InLoop
-----------------------------------------------------------------------------
(* What each step makes of its run.                                         *)

Becomes(r, w) ==
  /\ w \in Syncs /\ run' \in [Runs -> Syncs] /\ run'[r] = w
  /\ \A q \in Runs \ {r} : run'[q] = run[q]

\* The parts of a run that most steps leave alone.
SameBatch(w, x) == w.todo = x.todo /\ w.last = x.last /\ w.after = x.after
SameTexts(w, x) == w.loaded = x.loaded /\ w.texts = x.texts
SameRun(w, x) == SameBatch(w, x) /\ SameTexts(w, x) /\ w.rows = x.rows /\ w.acks = x.acks

\* The run is done with the envelope it is at.
Passed(w, x) ==
  /\ w.todo = x.todo \ {Min(x.todo)} /\ w.last = x.last /\ w.after = x.after /\ w.rows = x.rows
  /\ w.pc = IF w.todo = {} THEN "save" ELSE "lookup"

LEMMA RunType ==
  ASSUME SyncTypeOK, NEW r \in Runs
  PROVE  /\ run[r] \in Syncs /\ run[r].pc \in Pcs /\ run[r].todo \in SUBSET Nat /\ run[r].last \in Nat
         /\ run[r].after \in Nat /\ run[r].chain \in Chains /\ run[r].loaded \in BOOLEAN
         /\ run[r].texts \in Threads /\ run[r].rows \in SUBSET Nat /\ run[r].acks \in SUBSET Nat
<1>1. PICK x : x = run[r] OBVIOUS
<1>2. x \in Syncs BY <1>1 DEF SyncTypeOK
<1>. QED BY <1>1, <1>2 DEF Syncs

LEMMA Turned ==
  ASSUME SyncTypeOK, NEW r \in Runs, NEW w \in Syncs, run' = [run EXCEPT ![r] = w]
  PROVE  Becomes(r, w)
BY DEF SyncTypeOK, Becomes

LEMMA GoEffect ==
  ASSUME SyncTypeOK, NEW r \in Runs, NEW pc \in Pcs, Go(r, pc)
  PROVE  \E w \in Syncs : Becomes(r, w) /\ w.pc = pc /\ SameRun(w, run[r]) /\ w.chain = run[r].chain
<1>1. PICK x : x = run[r] OBVIOUS
<1>2. x \in Syncs BY <1>1 DEF SyncTypeOK
<1>3. PICK w : w = [x EXCEPT !.pc = pc] OBVIOUS
<1>4. w \in Syncs /\ w.pc = pc /\ SameRun(w, x) /\ w.chain = x.chain
  BY <1>2, <1>3 DEF Syncs, SameRun, SameBatch, SameTexts
<1>5. run' = [run EXCEPT ![r] = w] BY <1>1, <1>3 DEF Go
<1>. QED BY <1>1, <1>4, <1>5, Turned

LEMMA SkipIs ==
  ASSUME SyncTypeOK, NEW r \in Runs, run[r].todo # {}
  PROVE  /\ Current(r) = Min(run[r].todo)
         /\ \E y \in Syncs : /\ Passed(y, run[r]) /\ SameTexts(y, run[r]) /\ y.acks = run[r].acks
                             /\ Skip(r) = [run EXCEPT ![r] = y]
<1>1. PICK x : x = run[r] OBVIOUS
<1>2. x \in Syncs /\ x.todo \in SUBSET Nat BY <1>1, RunType
<1>3. PICK p : p = Onward(r) OBVIOUS
<1>4. Current(r) = Min(x.todo) /\ Min(x.todo) \in x.todo BY <1>1, <1>2, MinOf DEF Current
<1>5. p = IF x.todo \ {Min(x.todo)} = {} THEN "save" ELSE "lookup"
  BY <1>1, <1>3, <1>4 DEF Onward
<1>6. p \in Pcs BY <1>5 DEF Pcs, InLoop
<1>7. PICK y : y = [x EXCEPT !.todo = x.todo \ {Min(x.todo)}, !.pc = p] OBVIOUS
<1>8. /\ y.todo = x.todo \ {Min(x.todo)} /\ y.pc = p /\ y.last = x.last /\ y.after = x.after /\ y.chain = x.chain
      /\ y.loaded = x.loaded /\ y.texts = x.texts /\ y.rows = x.rows /\ y.acks = x.acks
  BY <1>2, <1>7 DEF Syncs
<1>9. y \in Syncs BY <1>2, <1>6, <1>7 DEF Syncs
<1>10. Passed(y, x) /\ SameTexts(y, x) /\ y.acks = x.acks BY <1>5, <1>8 DEF Passed, SameTexts
<1>11. Skip(r) = [run EXCEPT ![r] = y] BY <1>1, <1>3, <1>4, <1>7 DEF Skip
<1>. QED BY <1>1, <1>4, <1>9, <1>10, <1>11

LEMMA SkipEffect ==
  ASSUME SyncTypeOK, NEW r \in Runs, run[r].todo # {}, run' = Skip(r)
  PROVE  \E w \in Syncs : Becomes(r, w) /\ Passed(w, run[r]) /\ SameTexts(w, run[r]) /\ w.acks = run[r].acks
<1>1. PICK y \in Syncs : /\ Passed(y, run[r]) /\ SameTexts(y, run[r]) /\ y.acks = run[r].acks
                         /\ Skip(r) = [run EXCEPT ![r] = y]
  BY SkipIs
<1>2. Becomes(r, y) BY <1>1, Turned
<1>. QED BY <1>1, <1>2

LEMMA NoteEffect ==
  ASSUME SyncTypeOK, NEW r \in Runs, run[r].todo # {}, Current(r) \in Nat,
         run' = [Skip(r) EXCEPT ![r].acks = @ \cup {Current(r)}]
  PROVE  \E w \in Syncs : /\ Becomes(r, w) /\ Passed(w, run[r]) /\ SameTexts(w, run[r])
                          /\ w.acks = run[r].acks \cup {Min(run[r].todo)}
<1>1. PICK y \in Syncs : /\ Passed(y, run[r]) /\ SameTexts(y, run[r]) /\ y.acks = run[r].acks
                         /\ Skip(r) = [run EXCEPT ![r] = y]
  BY SkipIs
<1>2. PICK c \in Nat : c = Current(r) OBVIOUS
<1>3. PICK w : w = [y EXCEPT !.acks = @ \cup {c}] OBVIOUS
<1>4. y.acks \in SUBSET Nat BY <1>1 DEF Syncs
<1>5. w \in Syncs BY <1>1, <1>3, <1>4 DEF Syncs
<1>6. /\ w.todo = y.todo /\ w.pc = y.pc /\ w.last = y.last /\ w.after = y.after
      /\ w.loaded = y.loaded /\ w.texts = y.texts /\ w.rows = y.rows /\ w.acks = y.acks \cup {c}
  BY <1>1, <1>3 DEF Syncs
<1>7. run' = [run EXCEPT ![r] = w] BY <1>1, <1>2, <1>3 DEF SyncTypeOK
<1>8. Becomes(r, w) BY <1>5, <1>7, Turned
<1>9. Passed(w, run[r]) /\ SameTexts(w, run[r]) BY <1>1, <1>6 DEF Passed, SameTexts
<1>. QED BY <1>1, <1>2, <1>5, <1>6, <1>8, <1>9, SkipIs

LEMMA MergeEffect ==
  ASSUME SyncTypeOK, NEW r \in Runs, run[r].todo # {}, Current(r) \in Nat,
         run' = [Skip(r) EXCEPT ![r].texts = Merged(@, Current(r)), ![r].acks = @ \cup {Current(r)}]
  PROVE  \E w \in Syncs : /\ Becomes(r, w) /\ Passed(w, run[r]) /\ w.loaded = run[r].loaded
                          /\ w.texts = Merged(run[r].texts, Min(run[r].todo))
                          /\ w.acks = run[r].acks \cup {Min(run[r].todo)}
<1>1. PICK y \in Syncs : /\ Passed(y, run[r]) /\ SameTexts(y, run[r]) /\ y.acks = run[r].acks
                         /\ Skip(r) = [run EXCEPT ![r] = y]
  BY SkipIs
<1>2. PICK c \in Nat : c = Current(r) OBVIOUS
<1>3. PICK f : f = Merged(y.texts, c) OBVIOUS
<1>4. y.acks \in SUBSET Nat /\ y.texts \in Threads BY <1>1 DEF Syncs
<1>5. f \in Threads BY <1>3, <1>4, MergedThread
<1>6. PICK w : w = [y EXCEPT !.texts = f, !.acks = @ \cup {c}] OBVIOUS
<1>7. w \in Syncs BY <1>1, <1>4, <1>5, <1>6 DEF Syncs
<1>8. /\ w.todo = y.todo /\ w.pc = y.pc /\ w.last = y.last /\ w.after = y.after
      /\ w.loaded = y.loaded /\ w.texts = f /\ w.rows = y.rows /\ w.acks = y.acks \cup {c}
  BY <1>1, <1>6 DEF Syncs
<1>9. run' = [run EXCEPT ![r] = w] BY <1>1, <1>2, <1>3, <1>6 DEF SyncTypeOK
<1>10. Becomes(r, w) BY <1>7, <1>9, Turned
<1>11. Passed(w, run[r]) /\ w.loaded = run[r].loaded /\ y.texts = run[r].texts
  BY <1>1, <1>8 DEF Passed, SameTexts
<1>. QED BY <1>1, <1>2, <1>3, <1>7, <1>8, <1>10, <1>11, SkipIs

LEMMA EnvelopeCount ==
  ASSUME SyncTypeOK
  PROVE  sent \in Nat /\ mailbox \in SUBSET (1..sent)
<1>1. stream \in Seq(Envelopes) BY StreamsAssumption DEF SyncTypeOK
<1>2. Len(stream) \in Nat BY <1>1
<1>. QED BY <1>2 DEF SyncTypeOK

LEMMA RestEffect ==
  ASSUME SyncTypeOK, NEW r \in Runs, run' = [run EXCEPT ![r] = Idle]
  PROVE  Becomes(r, Idle)
BY Turned, IdleIs

LEMMA BeginEffect ==
  ASSUME SyncTypeOK, NEW r \in Runs, BeginSync(r)
  PROVE  \E w \in Syncs : /\ Becomes(r, w) /\ w.pc = "fetch" /\ w.after = cursor /\ w.todo = {} /\ w.last = 0
                          /\ ~w.loaded /\ w.texts = NoThread /\ w.rows = {} /\ w.acks = {}
<1>1. PICK w : w = [Idle EXCEPT !.pc = "fetch", !.after = cursor] OBVIOUS
<1>2. cursor \in Nat BY DEF SyncTypeOK
<1>3. /\ w.pc = "fetch" /\ w.after = cursor /\ w.todo = {} /\ w.last = 0
      /\ ~w.loaded /\ w.texts = NoThread /\ w.rows = {} /\ w.acks = {}
  BY <1>1 DEF Idle
<1>4. w \in Syncs BY <1>1, <1>2, IdleIs DEF Syncs, Pcs, InLoop
<1>5. Becomes(r, w) BY <1>1, <1>4, Turned DEF BeginSync
<1>. QED BY <1>3, <1>4, <1>5

LEMMA PageOf ==
  ASSUME NEW n \in Nat, NEW q \in SUBSET (1..n)
  PROVE  Page(q) \subseteq q /\ \A e \in q, f \in Page(q) : e < f => e \in Page(q)
<1>1. ASSUME NEW e \in q, NEW f \in Page(q), e < f PROVE e \in Page(q)
  <2>1. f \in q /\ Cardinality({g \in q : g < f}) < Limit BY DEF Page
  <2>2. {g \in q : g < f} \in SUBSET (1..n) /\ {g \in q : g < e} \in SUBSET (1..n) OBVIOUS
  <2>3. {g \in q : g < e} \in SUBSET {g \in q : g < f}
    <3>1. e \in Nat /\ f \in Nat BY <2>1
    <3>2. ASSUME NEW g \in q, g < e PROVE g < f
      <4>1. g \in Nat OBVIOUS
      <4>. QED BY <1>1, <3>1, <3>2, <4>1
    <3>. QED BY <3>2
  <2>4. Cardinality({g \in q : g < e}) <= Cardinality({g \in q : g < f}) BY <2>2, <2>3, Fewer
  <2>5. Cardinality({g \in q : g < e}) \in Nat /\ Cardinality({g \in q : g < f}) \in Nat BY <2>2, Some
  <2>. QED BY <2>1, <2>4, <2>5, SyncAssumption DEF Page
<1>. QED BY <1>1 DEF Page

LEMMA FetchEffect ==
  ASSUME SyncTypeOK, NEW r \in Runs, Fetch(r)
  PROVE  \E w \in Syncs :
           /\ Becomes(r, w)
           /\ \/ w = Idle
              \/ /\ w.todo = Page(Remaining(mailbox, run[r].after)) /\ w.todo # {}
                 /\ w.todo \subseteq mailbox /\ w.last \in w.todo /\ \A t \in w.todo : t <= w.last
                 /\ w.pc = "lookup" /\ SameTexts(w, run[r]) /\ w.rows = run[r].rows /\ w.acks = run[r].acks
<1>1. PICK x : x = run[r] OBVIOUS
<1>2. x \in Syncs BY <1>1 DEF SyncTypeOK
<1>3. PICK b : b = Page(Remaining(mailbox, x.after)) OBVIOUS
<1>4. sent \in Nat /\ mailbox \in SUBSET (1..sent) BY EnvelopeCount
<1>5. Remaining(mailbox, x.after) \in SUBSET mailbox BY DEF Remaining
<1>6. b \subseteq mailbox /\ b \in SUBSET (0..sent) /\ b \in SUBSET Nat
  <2>1. Remaining(mailbox, x.after) \in SUBSET (1..sent) BY <1>4, <1>5
  <2>2. b \subseteq Remaining(mailbox, x.after) BY <1>3, <1>4, <2>1, PageOf
  <2>3. \A e \in b : e \in 1..sent BY <1>4, <1>5, <2>2
  <2>. QED BY <1>4, <1>5, <2>2, <2>3
<1>7. CASE b = {}
  <2>1. run' = [run EXCEPT ![r] = Idle] BY <1>1, <1>3, <1>7 DEF Fetch
  <2>. QED BY <2>1, RestEffect, IdleIs
<1>8. CASE b # {}
  <2>1. PICK l : l = Max(b) OBVIOUS
  <2>2. l \in b /\ \A t \in b : t <= l BY <1>4, <1>6, <1>8, <2>1, MaxOf
  <2>3. PICK w : w = [x EXCEPT !.todo = b, !.last = l, !.pc = "lookup"] OBVIOUS
  <2>4. /\ w.todo = b /\ w.last = l /\ w.pc = "lookup" /\ w.loaded = x.loaded /\ w.texts = x.texts
        /\ w.rows = x.rows /\ w.acks = x.acks
    BY <1>2, <2>3 DEF Syncs
  <2>5. l \in Nat BY <1>6, <2>2
  <2>6. w \in Syncs BY <1>2, <1>6, <2>3, <2>5 DEF Syncs, Pcs, InLoop
  <2>7. run' = [run EXCEPT ![r] = w] BY <1>1, <1>3, <1>8, <2>1, <2>3 DEF Fetch
  <2>8. Becomes(r, w) BY <2>6, <2>7, Turned
  <2>. QED BY <1>1, <1>3, <1>6, <1>8, <2>2, <2>4, <2>6, <2>8 DEF SameTexts
<1>. QED BY <1>7, <1>8

LEMMA ChainForType ==
  ASSUME SyncTypeOK, NEW e \in 1..sent
  PROVE  IF IsKey(e) THEN Ratchet(stream[e].device, stream[e].n) \in Chains ELSE senderKeys[stream[e].device] \in Chains
<1>1. PICK d \in Devices : d = stream[e].device BY EnvelopeType
<1>2. ratchets[d] \in Chains /\ senderKeys[d] \in Chains BY DEF SyncTypeOK
<1>. QED BY <1>1, <1>2, ChainTypes DEF Ratchet

LEMMA CurrentIs ==
  ASSUME SyncTypeOK, NEW r \in Runs, RunSound(run[r]), run[r].pc \in InLoop
  PROVE  /\ Current(r) = Min(run[r].todo) /\ Current(r) \in run[r].todo /\ Current(r) \in 1..sent
         /\ Env(r) = stream[Current(r)] /\ run[r].todo # {} /\ \A t \in run[r].todo : Current(r) <= t
<1>1. run[r].todo # {} /\ run[r].todo \subseteq 1..sent BY DEF RunSound
<1>2. run[r].todo \in SUBSET Nat BY RunType
<1>3. Min(run[r].todo) \in run[r].todo /\ \A t \in run[r].todo : Min(run[r].todo) <= t BY <1>1, <1>2, MinOf
<1>. QED BY <1>1, <1>3 DEF Current, Env

LEMMA LoadEffect ==
  ASSUME SyncTypeOK, NEW r \in Runs, RunSound(run[r]), Load(r), Legible(r)
  PROVE  \E w \in Syncs : /\ Becomes(r, w) /\ w.pc = "store" /\ SameRun(w, run[r])
                          /\ w.chain = Stepped(ChainFor(r), Env(r).n)
<1>1. PICK x : x = run[r] OBVIOUS
<1>2. x \in Syncs /\ x.pc = "load" BY <1>1 DEF SyncTypeOK, Load, At
<1>3. PICK e \in 1..sent : e = Current(r) BY <1>1, <1>2, CurrentIs DEF InLoop
<1>4. ChainFor(r) \in Chains BY <1>3, ChainForType DEF ChainFor, Env, IsKey
<1>5. PICK c : c = Stepped(ChainFor(r), Env(r).n) OBVIOUS
<1>6. c \in Chains BY <1>3, <1>4, <1>5, EnvelopeType, SteppedType DEF Env
<1>7. PICK w : w = [x EXCEPT !.chain = c, !.pc = "store"] OBVIOUS
<1>8. w.pc = "store" /\ w.chain = c /\ SameRun(w, x) BY <1>2, <1>7 DEF Syncs, SameRun, SameBatch, SameTexts
<1>9. w \in Syncs BY <1>2, <1>6, <1>7 DEF Syncs, Pcs, InLoop
<1>10. run' = [run EXCEPT ![r] = w] BY <1>1, <1>5, <1>7 DEF Load
<1>11. Becomes(r, w) BY <1>9, <1>10, Turned
<1>. QED BY <1>1, <1>5, <1>8, <1>9, <1>11

LEMMA LoadThreadEffect ==
  ASSUME SyncTypeOK, NEW r \in Runs, LoadThread(r)
  PROVE  \E w \in Syncs : /\ Becomes(r, w) /\ w.pc = "merge" /\ SameBatch(w, run[r])
                          /\ w.texts = thread /\ w.loaded /\ w.rows = run[r].rows /\ w.acks = run[r].acks
<1>1. PICK x : x = run[r] OBVIOUS
<1>2. x \in Syncs /\ thread \in Threads BY <1>1 DEF SyncTypeOK
<1>3. PICK w : w = [x EXCEPT !.texts = thread, !.loaded = TRUE, !.pc = "merge"] OBVIOUS
<1>4. /\ w.pc = "merge" /\ SameBatch(w, x) /\ w.texts = thread /\ w.loaded
      /\ w.rows = x.rows /\ w.acks = x.acks
  BY <1>2, <1>3 DEF Syncs, SameBatch
<1>5. w \in Syncs BY <1>2, <1>3 DEF Syncs, Pcs, InLoop
<1>6. run' = [run EXCEPT ![r] = w] BY <1>1, <1>3 DEF LoadThread
<1>7. Becomes(r, w) BY <1>5, <1>6, Turned
<1>. QED BY <1>1, <1>4, <1>5, <1>7

LEMMA BeginSaveEffect ==
  ASSUME SyncTypeOK, NEW r \in Runs, BeginSave(r)
  PROVE  \E w \in Syncs : /\ Becomes(r, w) /\ w.pc = (IF run[r].loaded THEN "rows" ELSE "cursor")
                          /\ SameBatch(w, run[r]) /\ SameTexts(w, run[r]) /\ w.acks = run[r].acks
                          /\ w.rows = Newest(DOMAIN run[r].texts)
<1>1. PICK x : x = run[r] OBVIOUS
<1>2. x \in Syncs /\ DOMAIN x.texts \subseteq Nat BY <1>1, RunType, ThreadIff
<1>3. PICK s : s = Newest(DOMAIN x.texts) OBVIOUS
<1>4. s \in SUBSET Nat BY <1>2, <1>3 DEF Newest
<1>5. PICK p : p = IF x.loaded THEN "rows" ELSE "cursor" OBVIOUS
<1>6. PICK w : w = [x EXCEPT !.rows = s, !.pc = p] OBVIOUS
<1>7. w.pc = p /\ SameBatch(w, x) /\ SameTexts(w, x) /\ w.acks = x.acks /\ w.rows = s
  BY <1>2, <1>6 DEF Syncs, SameBatch, SameTexts
<1>8. w \in Syncs BY <1>2, <1>4, <1>5, <1>6 DEF Syncs, Pcs, InLoop
<1>9. run' = [run EXCEPT ![r] = w] BY <1>1, <1>3, <1>5, <1>6 DEF BeginSave
<1>10. Becomes(r, w) BY <1>8, <1>9, Turned
<1>. QED BY <1>1, <1>3, <1>5, <1>7, <1>8, <1>10

LEMMA SaveRowEffect ==
  ASSUME SyncTypeOK, NEW r \in Runs, SaveRow(r)
  PROVE  \E w \in Syncs, t \in run[r].rows :
           /\ Becomes(r, w) /\ w.pc = "rows" /\ SameBatch(w, run[r]) /\ SameTexts(w, run[r])
           /\ w.acks = run[r].acks /\ w.rows = run[r].rows \ {t}
           /\ thread' = Put(thread, t, run[r].texts[t])
<1>1. PICK x : x = run[r] OBVIOUS
<1>2. x \in Syncs /\ x.rows \in SUBSET Nat /\ x.rows # {} /\ x.pc = "rows" BY <1>1, RunType DEF SaveRow, At
<1>3. PICK t \in x.rows : t = Min(x.rows) BY <1>2, MinOf
<1>4. PICK w : w = [x EXCEPT !.rows = @ \ {t}] OBVIOUS
<1>5. /\ w.pc = "rows" /\ SameBatch(w, x) /\ SameTexts(w, x) /\ w.acks = x.acks /\ w.rows = x.rows \ {t}
  BY <1>2, <1>4 DEF Syncs, SameBatch, SameTexts
<1>6. w \in Syncs BY <1>2, <1>4 DEF Syncs
<1>7. run' = [run EXCEPT ![r] = w] BY <1>1, <1>3, <1>4 DEF SaveRow
<1>8. Becomes(r, w) BY <1>6, <1>7, Turned
<1>9. thread' = Put(thread, t, x.texts[t]) BY <1>1, <1>3 DEF SaveRow
<1>. QED BY <1>1, <1>5, <1>6, <1>8, <1>9

LEMMA SaveCursorEffect ==
  ASSUME SyncTypeOK, NEW r \in Runs, SaveCursor(r)
  PROVE  \E w \in Syncs : /\ Becomes(r, w)
                          /\ \/ w = Idle
                             \/ w.pc = "ack" /\ SameRun(w, run[r])
<1>1. PICK x : x = run[r] OBVIOUS
<1>2. x \in Syncs BY <1>1 DEF SyncTypeOK
<1>3. CASE x.acks = {}
  <2>1. run' = [run EXCEPT ![r] = Idle] BY <1>1, <1>3 DEF SaveCursor
  <2>. QED BY <2>1, RestEffect, IdleIs
<1>4. CASE x.acks # {}
  <2>1. PICK w : w = [x EXCEPT !.pc = "ack"] OBVIOUS
  <2>2. w.pc = "ack" /\ SameRun(w, x) BY <1>2, <2>1 DEF Syncs, SameRun, SameBatch, SameTexts
  <2>3. w \in Syncs BY <1>2, <2>1 DEF Syncs, Pcs, InLoop
  <2>4. run' = [run EXCEPT ![r] = w] BY <1>1, <1>4, <2>1 DEF SaveCursor
  <2>5. Becomes(r, w) BY <2>3, <2>4, Turned
  <2>. QED BY <1>1, <2>2, <2>3, <2>5
<1>. QED BY <1>3, <1>4
-----------------------------------------------------------------------------
(* Each step keeps what is acknowledged saved.                              *)

RestTyped ==
  /\ cursor' \in 0..sent /\ directory' \subseteq Devices
  /\ ratchets' \in [Devices -> Chains] /\ senderKeys' \in [Devices -> Chains]
  /\ crashes' \in Nat /\ failures' \in Nat /\ overlapped' \in BOOLEAN

ThreadHolds ==
  \A T \in SUBSET (1..sent), e \in Nat : Had(e, DOMAIN thread \cup T) => Had(e, DOMAIN thread' \cup T)

SameFlow == stream' = stream /\ sent' = sent

LEMMA SameHolds == ASSUME thread' = thread PROVE ThreadHolds
BY DEF ThreadHolds

LEMMA SyncFrame ==
  ASSUME KeptInv, UNCHANGED <<disk, directory, crashes, failures, overlapped>>
  PROVE  RestTyped
BY DEF KeptInv, SyncTypeOK, RestTyped, disk

LEMMA HadNow ==
  ASSUME ThreadHolds, NEW e \in Nat, Had(e, DOMAIN thread)
  PROVE  Had(e, DOMAIN thread')
<1>1. PICK T \in SUBSET (1..sent) : T = {} OBVIOUS
<1>2. DOMAIN thread \cup T = DOMAIN thread /\ DOMAIN thread' \cup T = DOMAIN thread' BY <1>1
<1>. QED BY <1>2 DEF ThreadHolds

LEMMA OneRun ==
  ASSUME KeptInv, NEW r \in Runs, NEW w \in Syncs, Becomes(r, w), SameFlow, mailbox' = mailbox,
         thread' \in Threads, DOMAIN thread' \subseteq 1..sent, ThreadHolds, RestTyped,
         RunSound(w), RunSaves(w)'
  PROVE  KeptInv'
<1>0. SyncTypeOK BY DEF KeptInv
<1>1. SyncTypeOK' BY <1>0 DEF SyncTypeOK, RestTyped, SameFlow, Becomes
<1>2. ASSUME NEW q \in Runs PROVE RunSound(run[q])' /\ RunSaves(run[q])'
  <2>1. CASE q = r
    <3>1. RunSound(w)' BY DEF RunSound, SameFlow
    <3>2. run'[q] = w BY <2>1 DEF Becomes
    <3>3. RunSound(run[q])' BY <3>1, <3>2 DEF RunSound
    <3>4. RunSaves(run[q])' BY <3>2 DEF RunSaves
    <3>. QED BY <3>3, <3>4
  <2>2. CASE q # r
    <3>1. PICK x : x = run[q] OBVIOUS
    <3>2. run'[q] = x BY <2>2, <3>1 DEF Becomes
    <3>3. RunSound(x) /\ RunSaves(x) BY <3>1 DEF KeptInv
    <3>4. RunSound(run[q])' BY <3>2, <3>3 DEF RunSound, SameFlow
    <3>5. sent \in Nat /\ x.rows \in SUBSET Nat /\ x.acks \in SUBSET Nat /\ DOMAIN x.texts \subseteq Nat
      BY <1>0, <3>1, EnvelopeCount, RunType, ThreadIff
    <3>6. x.rows \subseteq 1..sent BY <3>3 DEF RunSound
    <3>7. RunSaves(x)'
      <4>1. x.pc = "rows" => \A e \in DOMAIN x.texts : Had(e, DOMAIN thread' \cup x.rows)
        BY <3>3, <3>5, <3>6 DEF RunSaves, ThreadHolds
      <4>2. x.pc \in {"cursor", "ack"} => \A e \in TextsOf(x.acks) : Had(e, DOMAIN thread')
        BY <3>3, <3>5, HadNow DEF RunSaves, TextsOf
      <4>. QED BY <3>3, <4>1, <4>2 DEF RunSaves, TextsOf, SameFlow, Had
    <3>8. RunSaves(run[q])' BY <3>2, <3>7 DEF RunSaves
    <3>. QED BY <3>4, <3>8
  <2>. QED BY <2>1, <2>2
<1>3. \A e \in 1..sent \ mailbox : stream[e].kind = "text" => Had(e, DOMAIN thread')
  BY HadNow DEF KeptInv
<1>4. (\A e \in 1..sent \ mailbox : stream[e].kind = "text" => Had(e, DOMAIN thread))'
  BY <1>3 DEF SameFlow, Had
<1>. QED BY <1>1, <1>2, <1>4 DEF KeptInv

LEMMA QuietRun ==
  ASSUME KeptInv, NEW r \in Runs, NEW w \in Syncs, Becomes(r, w), SameFlow, mailbox' = mailbox,
         thread' = thread, RestTyped, RunSound(w), RunSaves(w)
  PROVE  KeptInv'
<1>1. thread' \in Threads /\ DOMAIN thread' \subseteq 1..sent BY DEF KeptInv, SyncTypeOK
<1>2. RunSaves(w)' BY DEF RunSaves, TextsOf, Had, SameFlow
<1>. QED BY <1>1, <1>2, SameHolds, OneRun

LEMMA IdleSound == SyncTypeOK => RunSound(Idle) /\ RunSaves(Idle)
<1>1. ASSUME SyncTypeOK PROVE sent \in Nat BY <1>1, EnvelopeCount
<1>. QED BY <1>1, IdleIs, NoThreadIs DEF RunSound, RunSaves, InLoop

\* The run goes on to the next envelope; what it noted is no text, or is among its texts.
LEMMA PassSound ==
  ASSUME SyncTypeOK, NEW x \in Syncs, NEW w \in Syncs, RunSound(x), RunSaves(x), x.pc \in InLoop, Passed(w, x),
         w.loaded = x.loaded, w.acks \subseteq 1..sent, DOMAIN x.texts \subseteq DOMAIN w.texts,
         DOMAIN w.texts \subseteq 1..sent, ~w.loaded => DOMAIN w.texts = {},
         TextsOf(w.acks) \subseteq TextsOf(x.acks) \cup DOMAIN w.texts
  PROVE  RunSound(w) /\ RunSaves(w)
<1>1. w.pc \in {"lookup", "save"} /\ (w.pc = "lookup" => w.todo # {}) BY DEF Passed
<1>2. w.todo \subseteq x.todo /\ w.rows = x.rows /\ w.last = x.last BY DEF Passed
<1>3. RunSound(w) BY <1>1, <1>2 DEF RunSound, InLoop
<1>4. TextsOf(x.acks) \subseteq DOMAIN x.texts BY DEF RunSaves
<1>. QED BY <1>1, <1>3, <1>4 DEF RunSaves

LEMMA SkipSound ==
  ASSUME KeptInv, NEW r \in Runs, run[r].pc \in InLoop, run' = Skip(r), SameFlow, mailbox' = mailbox,
         thread' = thread, RestTyped
  PROVE  KeptInv'
<1>1. SyncTypeOK /\ RunSound(run[r]) /\ RunSaves(run[r]) BY DEF KeptInv
<1>2. PICK x \in Syncs : x = run[r] BY <1>1, RunType
<1>3. x.todo # {} BY <1>1, <1>2 DEF RunSound
<1>4. PICK w \in Syncs : Becomes(r, w) /\ Passed(w, x) /\ SameTexts(w, x) /\ w.acks = x.acks
  BY <1>1, <1>2, <1>3, SkipEffect
<1>5. RunSound(w) /\ RunSaves(w) BY <1>1, <1>2, <1>4, PassSound DEF SameTexts, RunSound
<1>. QED BY <1>4, <1>5, QuietRun

\* The run goes on with the envelope it is at.
LEMMA SameSound ==
  ASSUME NEW x \in Syncs, NEW w \in Syncs, RunSound(x), RunSaves(x), x.pc \in InLoop, w.pc \in InLoop,
         SameRun(w, x), w.pc = "merge" => w.loaded, w.pc = "thread" => ~w.loaded,
         w.pc = "install" => stream[Min(x.todo)].kind = "key"
  PROVE  RunSound(w) /\ RunSaves(w)
BY DEF RunSound, RunSaves, SameRun, SameBatch, SameTexts, InLoop

LEMMA ArriveKept == ASSUME KeptInv, Arrive PROVE KeptInv'
<1>0. SyncTypeOK BY DEF KeptInv
<1>1. /\ sent < Len(stream) /\ sent' = sent + 1 /\ mailbox' = mailbox \cup {sent + 1}
      /\ UNCHANGED <<stream, disk, directory, run, crashes, failures, overlapped>>
  BY DEF Arrive, faults
<1>2. sent \in Nat /\ Len(stream) \in Nat
  <2>1. stream \in Seq(Envelopes) BY <1>0, StreamsAssumption DEF SyncTypeOK
  <2>. QED BY <1>0, <2>1, EnvelopeCount
<1>3. 1..sent \subseteq 1..sent' /\ 0..sent \subseteq 0..sent' /\ sent' \in 0..Len(stream) BY <1>1, <1>2
<1>4. SyncTypeOK'
  <2>1. mailbox' \subseteq 1..sent' BY <1>0, <1>1, <1>2, <1>3 DEF SyncTypeOK
  <2>2. cursor' \in 0..sent' /\ DOMAIN thread' \subseteq 1..sent' BY <1>0, <1>1, <1>3 DEF SyncTypeOK, disk
  <2>. QED BY <1>0, <1>1, <1>3, <2>1, <2>2 DEF SyncTypeOK, disk
<1>5. ASSUME NEW r \in Runs PROVE RunSound(run[r])' /\ RunSaves(run[r])'
  <2>1. PICK x : x = run[r] OBVIOUS
  <2>2. RunSound(x) /\ RunSaves(x) /\ run'[r] = x BY <1>1, <2>1 DEF KeptInv
  <2>3. RunSound(x)' BY <1>1, <1>3, <2>2 DEF RunSound
  <2>4. RunSaves(x)' BY <1>1, <2>2 DEF RunSaves, TextsOf, Had, disk
  <2>5. RunSound(run[r])' BY <2>2, <2>3 DEF RunSound
  <2>6. RunSaves(run[r])' BY <2>2, <2>4 DEF RunSaves
  <2>. QED BY <2>5, <2>6
<1>6. 1..sent' \ mailbox' \subseteq 1..sent \ mailbox BY <1>1, <1>2
<1>7. (\A e \in 1..sent \ mailbox : stream[e].kind = "text" => Had(e, DOMAIN thread))'
  BY <1>1, <1>6 DEF KeptInv, Had, disk
<1>. QED BY <1>4, <1>5, <1>7 DEF KeptInv

LEMMA BeginKept == ASSUME KeptInv, NEW r \in Runs, BeginSync(r) PROVE KeptInv'
<1>0. SyncTypeOK BY DEF KeptInv
<1>1. PICK w \in Syncs : /\ Becomes(r, w) /\ w.pc = "fetch" /\ w.after = cursor /\ w.todo = {} /\ w.last = 0
                         /\ ~w.loaded /\ w.texts = NoThread /\ w.rows = {} /\ w.acks = {}
  BY <1>0, BeginEffect
<1>2. sent \in Nat BY <1>0, EnvelopeCount
<1>3. RunSound(w) /\ RunSaves(w) BY <1>1, <1>2, NoThreadIs DEF RunSound, RunSaves, InLoop, TextsOf
<1>4. RestTyped BY <1>0 DEF BeginSync, RestTyped, SyncTypeOK, disk, faults
<1>5. SameFlow /\ mailbox' = mailbox /\ thread' = thread BY DEF BeginSync, SameFlow, disk
<1>. QED BY <1>1, <1>3, <1>4, <1>5, QuietRun

LEMMA FetchKept == ASSUME KeptInv, NEW r \in Runs, Fetch(r) PROVE KeptInv'
<1>0. SyncTypeOK /\ RunSound(run[r]) /\ RunSaves(run[r]) BY DEF KeptInv
<1>1. PICK x \in Syncs : x = run[r] BY <1>0, RunType
<1>2. x.pc = "fetch" /\ x.acks = {} BY <1>0, <1>1 DEF Fetch, At, RunSound
<1>3. PICK w \in Syncs :
        /\ Becomes(r, w)
        /\ \/ w = Idle
           \/ /\ w.todo # {} /\ w.todo \subseteq mailbox /\ w.last \in w.todo
              /\ w.pc = "lookup" /\ SameTexts(w, x) /\ w.rows = x.rows /\ w.acks = x.acks
  BY <1>0, <1>1, FetchEffect
<1>4. RunSound(w) /\ RunSaves(w)
  <2>1. CASE w = Idle BY <1>0, <2>1, IdleSound
  <2>2. CASE /\ w.todo # {} /\ w.todo \subseteq mailbox /\ w.last \in w.todo
             /\ w.pc = "lookup" /\ SameTexts(w, x) /\ w.rows = x.rows /\ w.acks = x.acks
    <3>1. mailbox \subseteq 1..sent /\ sent \in Nat BY <1>0, EnvelopeCount
    <3>5. w.todo \subseteq 1..sent /\ w.last \in 1..sent BY <2>2, <3>1
    <3>2. w.todo \subseteq 1..sent /\ w.last \in 0..sent BY <3>1, <3>5
    <3>3. RunSound(w) BY <1>0, <1>1, <1>2, <2>2, <3>2 DEF RunSound, SameTexts, InLoop
    <3>4. RunSaves(w) BY <1>2, <2>2 DEF RunSaves, TextsOf
    <3>. QED BY <3>3, <3>4
  <2>. QED BY <1>3, <2>1, <2>2
<1>5. RestTyped BY SyncFrame DEF Fetch, faults
<1>6. SameFlow /\ mailbox' = mailbox /\ thread' = thread BY DEF Fetch, SameFlow, disk
<1>. QED BY <1>3, <1>4, <1>5, <1>6, QuietRun

LEMMA RegisteredDevices == ASSUME SyncTypeOK PROVE Registered \subseteq Devices
BY EnvelopeType DEF Registered

LEMMA LookupKept == ASSUME KeptInv, NEW r \in Runs, Lookup(r) PROVE KeptInv'
<1>0. SyncTypeOK /\ RunSound(run[r]) /\ RunSaves(run[r]) BY DEF KeptInv
<1>1. PICK x \in Syncs : x = run[r] BY <1>0, RunType
<1>2. x.pc = "lookup" BY <1>1 DEF Lookup, At
<1>3. directory' \subseteq Devices
  BY <1>0, RegisteredDevices DEF Lookup, Listed, SyncTypeOK
<1>4. RestTyped BY <1>0, <1>3 DEF Lookup, RestTyped, SyncTypeOK, disk, faults
<1>5. SameFlow /\ mailbox' = mailbox /\ thread' = thread BY DEF Lookup, SameFlow, disk
<1>6. CASE Env(r).device \in Listed(r)
  <2>1. Go(r, "load") BY <1>6 DEF Lookup, Go
  <2>2. "load" \in Pcs BY DEF Pcs, InLoop
  <2>3. PICK w \in Syncs : Becomes(r, w) /\ w.pc = "load" /\ SameRun(w, x) BY <1>0, <1>1, <2>1, <2>2, GoEffect
  <2>4. RunSound(w) /\ RunSaves(w) BY <1>0, <1>1, <1>2, <2>3, SameSound DEF InLoop
  <2>. QED BY <1>4, <1>5, <2>3, <2>4, QuietRun
<1>7. CASE Env(r).device \notin Listed(r)
  <2>1. run' = Skip(r) BY <1>7 DEF Lookup
  <2>. QED BY <1>1, <1>2, <1>4, <1>5, <2>1, SkipSound DEF InLoop
<1>. QED BY <1>6, <1>7

LEMMA LoadKept == ASSUME KeptInv, NEW r \in Runs, Load(r) PROVE KeptInv'
<1>0. SyncTypeOK /\ RunSound(run[r]) /\ RunSaves(run[r]) BY DEF KeptInv
<1>1. PICK x \in Syncs : x = run[r] BY <1>0, RunType
<1>2. x.pc = "load" BY <1>1 DEF Load, At
<1>3. RestTyped BY SyncFrame DEF Load, faults
<1>4. SameFlow /\ mailbox' = mailbox /\ thread' = thread BY DEF Load, SameFlow, disk
<1>5. CASE Legible(r)
  <2>1. PICK w \in Syncs : Becomes(r, w) /\ w.pc = "store" /\ SameRun(w, x) BY <1>0, <1>1, <1>5, LoadEffect
  <2>2. RunSound(w) /\ RunSaves(w) BY <1>0, <1>1, <1>2, <2>1, SameSound DEF InLoop
  <2>. QED BY <1>3, <1>4, <2>1, <2>2, QuietRun
<1>6. CASE ~Legible(r)
  <2>1. run' = Skip(r) BY <1>6 DEF Load
  <2>. QED BY <1>1, <1>2, <1>3, <1>4, <2>1, SkipSound DEF InLoop
<1>. QED BY <1>5, <1>6

LEMMA StoreRest ==
  ASSUME KeptInv, NEW r \in Runs, Store(r)
  PROVE  /\ RestTyped /\ SameFlow /\ mailbox' = mailbox /\ thread' = thread
         /\ Env(r).kind = "key" => Go(r, "install")
         /\ Env(r).kind # "key" => Go(r, IF run[r].loaded THEN "merge" ELSE "thread")
<1>0. SyncTypeOK BY DEF KeptInv
<1>1. PICK c \in Chains : c = run[r].chain BY <1>0, RunType
<1>2. PICK d : d = Env(r).device OBVIOUS
<1>3. /\ ratchets' = ratchets \/ ratchets' = [ratchets EXCEPT ![d] = c]
      /\ senderKeys' = senderKeys \/ senderKeys' = [senderKeys EXCEPT ![d] = c]
  BY <1>1, <1>2 DEF Store
<1>4. ratchets' \in [Devices -> Chains] /\ senderKeys' \in [Devices -> Chains] BY <1>0, <1>1, <1>3 DEF SyncTypeOK
<1>5. RestTyped BY <1>0, <1>4 DEF Store, RestTyped, SyncTypeOK, faults
<1>. QED BY <1>5 DEF Store, SameFlow, Go

LEMMA StoreKept == ASSUME KeptInv, NEW r \in Runs, Store(r) PROVE KeptInv'
<1>0. SyncTypeOK /\ RunSound(run[r]) /\ RunSaves(run[r]) BY DEF KeptInv
<1>1. PICK x \in Syncs : x = run[r] BY <1>0, RunType
<1>2. x.pc = "store" /\ x.pc \in InLoop BY <1>1 DEF Store, At, InLoop
<1>3. Env(r) = stream[Min(x.todo)] BY <1>0, <1>1, <1>2, CurrentIs
<1>4. PICK p : p = IF Env(r).kind = "key" THEN "install" ELSE IF x.loaded THEN "merge" ELSE "thread" OBVIOUS
<1>5. Go(r, p) BY <1>1, <1>4, StoreRest
<1>6. p \in Pcs /\ p \in InLoop BY <1>4 DEF Pcs, InLoop
<1>7. PICK w \in Syncs : Becomes(r, w) /\ w.pc = p /\ SameRun(w, x) BY <1>0, <1>1, <1>5, <1>6, GoEffect
<1>8. /\ w.pc = "merge" => w.loaded
      /\ w.pc = "thread" => ~w.loaded
      /\ w.pc = "install" => stream[Min(x.todo)].kind = "key"
  BY <1>3, <1>4, <1>7 DEF SameRun, SameTexts
<1>9. RunSound(w) /\ RunSaves(w) BY <1>0, <1>1, <1>2, <1>6, <1>7, <1>8, SameSound
<1>. QED BY <1>7, <1>9, StoreRest, QuietRun

LEMMA InstallKept == ASSUME KeptInv, NEW r \in Runs, Install(r) PROVE KeptInv'
<1>0. SyncTypeOK /\ RunSound(run[r]) /\ RunSaves(run[r]) BY DEF KeptInv
<1>1. PICK x \in Syncs : x = run[r] BY <1>0, RunType
<1>2. x.pc = "install" /\ x.pc \in InLoop BY <1>1 DEF Install, At, InLoop
<1>3. PICK e \in 1..sent : e = Current(r) /\ e = Min(x.todo) /\ Env(r) = stream[e] /\ x.todo # {}
  BY <1>0, <1>1, <1>2, CurrentIs
<1>4. run' = [Skip(r) EXCEPT ![r].acks = @ \cup {Current(r)}] BY DEF Install
<1>5. PICK w \in Syncs : Becomes(r, w) /\ Passed(w, x) /\ SameTexts(w, x) /\ w.acks = x.acks \cup {e}
  <2>1. Current(r) \in Nat BY <1>3
  <2>2. \E w \in Syncs : /\ Becomes(r, w) /\ Passed(w, x) /\ SameTexts(w, x)
                         /\ w.acks = x.acks \cup {Min(x.todo)}
    BY <1>0, <1>1, <1>3, <1>4, <2>1, NoteEffect
  <2>. QED BY <1>3, <2>2
<1>6. stream[e].kind = "key" BY <1>0, <1>1, <1>2, <1>3 DEF RunSound
<1>7. TextsOf(w.acks) \subseteq TextsOf(x.acks) BY <1>5, <1>6 DEF TextsOf
<1>8. x.acks \subseteq 1..sent /\ DOMAIN x.texts \subseteq 1..sent /\ (~x.loaded => DOMAIN x.texts = {})
  BY <1>0, <1>1 DEF RunSound
<1>9. RunSound(w) /\ RunSaves(w)
  <2>1. w.loaded = x.loaded /\ w.texts = x.texts /\ w.acks \subseteq 1..sent BY <1>3, <1>5, <1>8 DEF SameTexts
  <2>. QED BY <1>0, <1>1, <1>2, <1>5, <1>7, <1>8, <2>1, PassSound
<1>10. Installed(r) \in Chains BY <1>0, <1>3, EnvelopeType, ChainTypes DEF Installed
<1>11. RestTyped BY <1>0, <1>10 DEF Install, RestTyped, SyncTypeOK, faults
<1>12. SameFlow /\ mailbox' = mailbox /\ thread' = thread BY DEF Install, SameFlow
<1>. QED BY <1>5, <1>9, <1>11, <1>12, QuietRun

LEMMA LoadThreadKept == ASSUME KeptInv, NEW r \in Runs, LoadThread(r) PROVE KeptInv'
<1>0. SyncTypeOK /\ RunSound(run[r]) /\ RunSaves(run[r]) BY DEF KeptInv
<1>1. PICK x \in Syncs : x = run[r] BY <1>0, RunType
<1>2. x.pc = "thread" BY <1>1 DEF LoadThread, At
<1>3. PICK w \in Syncs : /\ Becomes(r, w) /\ w.pc = "merge" /\ SameBatch(w, x)
                         /\ w.texts = thread /\ w.loaded /\ w.rows = x.rows /\ w.acks = x.acks
  BY <1>0, <1>1, LoadThreadEffect
<1>4. DOMAIN x.texts = {} BY <1>0, <1>1, <1>2 DEF RunSound
<1>5. DOMAIN thread \subseteq 1..sent BY <1>0 DEF SyncTypeOK
<1>6. RunSound(w) BY <1>0, <1>1, <1>2, <1>3, <1>4, <1>5 DEF RunSound, SameBatch, InLoop
<1>7. RunSaves(w) BY <1>0, <1>1, <1>2, <1>3, <1>4 DEF RunSaves, InLoop
<1>8. RestTyped BY SyncFrame DEF LoadThread, faults
<1>9. SameFlow /\ mailbox' = mailbox /\ thread' = thread BY DEF LoadThread, SameFlow, disk
<1>. QED BY <1>3, <1>6, <1>7, <1>8, <1>9, QuietRun

LEMMA MergeKept == ASSUME KeptInv, NEW r \in Runs, Merge(r) PROVE KeptInv'
<1>0. SyncTypeOK /\ RunSound(run[r]) /\ RunSaves(run[r]) BY DEF KeptInv
<1>1. PICK x \in Syncs : x = run[r] BY <1>0, RunType
<1>2. x.pc = "merge" /\ x.pc \in InLoop BY <1>1 DEF Merge, At, InLoop
<1>3. PICK e \in 1..sent : e = Current(r) /\ e = Min(x.todo) /\ Env(r) = stream[e] /\ x.todo # {}
  BY <1>0, <1>1, <1>2, CurrentIs
<1>4. run' = [Skip(r) EXCEPT ![r].texts = Merged(@, Current(r)), ![r].acks = @ \cup {Current(r)}] BY DEF Merge
<1>5. PICK w \in Syncs : /\ Becomes(r, w) /\ Passed(w, x) /\ w.loaded = x.loaded
                         /\ w.texts = Merged(x.texts, e) /\ w.acks = x.acks \cup {e}
  <2>1. Current(r) \in Nat BY <1>3
  <2>2. \E w \in Syncs : /\ Becomes(r, w) /\ Passed(w, x) /\ w.loaded = x.loaded
                         /\ w.texts = Merged(x.texts, Min(x.todo)) /\ w.acks = x.acks \cup {Min(x.todo)}
    BY <1>0, <1>1, <1>3, <1>4, <2>1, MergeEffect
  <2>. QED BY <1>3, <2>2
<1>6. x.texts \in Threads /\ e \in Nat BY <1>0, <1>1, RunType
<1>7. DOMAIN w.texts = IF stream[e].kind = "text" THEN DOMAIN x.texts \cup {e} ELSE DOMAIN x.texts
  <2>1. DOMAIN Merged(x.texts, e) = IF stream[e].kind = "text" THEN DOMAIN x.texts \cup {e} ELSE DOMAIN x.texts
    BY <1>6, MergedThread
  <2>. QED BY <1>5, <2>1
<1>8. TextsOf(w.acks) \subseteq TextsOf(x.acks) \cup DOMAIN w.texts BY <1>5, <1>7 DEF TextsOf
<1>9. x.loaded /\ DOMAIN x.texts \subseteq 1..sent /\ x.acks \subseteq 1..sent BY <1>0, <1>1, <1>2 DEF RunSound
<1>10. RunSound(w) /\ RunSaves(w) BY <1>0, <1>1, <1>2, <1>5, <1>7, <1>8, <1>9, PassSound
<1>11. RestTyped BY SyncFrame DEF Merge, faults
<1>12. SameFlow /\ mailbox' = mailbox /\ thread' = thread BY DEF Merge, SameFlow, disk
<1>. QED BY <1>5, <1>10, <1>11, <1>12, QuietRun

LEMMA BeginSaveKept == ASSUME KeptInv, NEW r \in Runs, BeginSave(r) PROVE KeptInv'
<1>0. SyncTypeOK /\ RunSound(run[r]) /\ RunSaves(run[r]) BY DEF KeptInv
<1>1. PICK x \in Syncs : x = run[r] BY <1>0, RunType
<1>2. x.pc = "save" BY <1>1 DEF BeginSave, At
<1>3. PICK w \in Syncs : /\ Becomes(r, w) /\ w.pc = (IF x.loaded THEN "rows" ELSE "cursor")
                         /\ SameBatch(w, x) /\ SameTexts(w, x) /\ w.acks = x.acks
                         /\ w.rows = Newest(DOMAIN x.texts)
  BY <1>0, <1>1, BeginSaveEffect
<1>4. sent \in Nat /\ DOMAIN x.texts \in SUBSET (1..sent) BY <1>0, <1>1, EnvelopeCount DEF RunSound
<1>5. w.rows \subseteq DOMAIN x.texts BY <1>3 DEF Newest
<1>6. RunSound(w) BY <1>0, <1>1, <1>3, <1>5 DEF RunSound, SameBatch, SameTexts, InLoop
<1>7. TextsOf(w.acks) \subseteq DOMAIN w.texts BY <1>0, <1>1, <1>2, <1>3 DEF RunSaves, SameTexts
<1>8. ASSUME w.pc = "rows", NEW e \in DOMAIN w.texts PROVE Had(e, DOMAIN thread \cup w.rows)
  <2>1. e \in DOMAIN x.texts /\ e \in Nat BY <1>3, <1>4 DEF SameTexts
  <2>2. Had(e, DOMAIN x.texts) BY <2>1 DEF Had
  <2>3. Had(e, w.rows) BY <1>3, <1>4, <2>1, <2>2, HadNewest
  <2>4. DOMAIN thread \cup w.rows \in SUBSET (1..sent) /\ w.rows \in SUBSET (DOMAIN thread \cup w.rows)
    BY <1>0, <1>4, <1>5 DEF SyncTypeOK
  <2>. QED BY <1>4, <2>1, <2>3, <2>4, HadMore
<1>9. ASSUME w.pc = "cursor" PROVE TextsOf(w.acks) = {}
  <2>1. ~x.loaded /\ DOMAIN x.texts = {} BY <1>0, <1>1, <1>3, <1>9 DEF RunSound
  <2>. QED BY <1>3, <1>7, <2>1 DEF SameTexts
<1>10. RunSaves(w) BY <1>3, <1>7, <1>8, <1>9 DEF RunSaves, InLoop
<1>11. RestTyped BY SyncFrame DEF BeginSave, faults
<1>12. SameFlow /\ mailbox' = mailbox /\ thread' = thread BY DEF BeginSave, SameFlow, disk
<1>. QED BY <1>3, <1>6, <1>10, <1>11, <1>12, QuietRun

LEMMA SaveRowKept == ASSUME KeptInv, NEW r \in Runs, SaveRow(r) PROVE KeptInv'
<1>0. SyncTypeOK /\ RunSound(run[r]) /\ RunSaves(run[r]) BY DEF KeptInv
<1>1. PICK x \in Syncs : x = run[r] BY <1>0, RunType
<1>2. x.pc = "rows" BY <1>1 DEF SaveRow, At
<1>3. PICK w \in Syncs, t \in x.rows :
        /\ Becomes(r, w) /\ w.pc = "rows" /\ SameBatch(w, x) /\ SameTexts(w, x)
        /\ w.acks = x.acks /\ w.rows = x.rows \ {t}
        /\ thread' = Put(thread, t, x.texts[t])
  BY <1>0, <1>1, SaveRowEffect
<1>4. sent \in Nat /\ DOMAIN x.texts \in SUBSET (1..sent) /\ x.rows \subseteq DOMAIN x.texts
  BY <1>0, <1>1, EnvelopeCount DEF RunSound
<1>5. t \in 1..sent /\ t \in Nat /\ t \in DOMAIN x.texts BY <1>3, <1>4
<1>6. x.texts[t] \in BOOLEAN BY <1>0, <1>1, <1>5, RunType, ThreadIff
<1>7. thread \in Threads /\ DOMAIN thread \subseteq 1..sent BY <1>0 DEF SyncTypeOK
<1>8. thread' \in Threads /\ DOMAIN thread' = DOMAIN thread \cup {t} BY <1>3, <1>5, <1>6, <1>7, PutThread
<1>9. DOMAIN thread' \subseteq 1..sent BY <1>5, <1>7, <1>8
<1>10. ThreadHolds
  <2>1. SUFFICES ASSUME NEW T \in SUBSET (1..sent), NEW e \in Nat, Had(e, DOMAIN thread \cup T)
                 PROVE  Had(e, DOMAIN thread' \cup T)
    BY DEF ThreadHolds
  <2>2. /\ DOMAIN thread' \cup T \in SUBSET (1..sent)
        /\ DOMAIN thread \cup T \in SUBSET (DOMAIN thread' \cup T)
    BY <1>8, <1>9
  <2>. QED BY <1>4, <2>1, <2>2, HadMore
<1>11. RunSound(w) BY <1>0, <1>1, <1>2, <1>3 DEF RunSound, SameBatch, SameTexts, InLoop
<1>12. DOMAIN thread' \cup w.rows = DOMAIN thread \cup x.rows BY <1>3, <1>8
<1>13. stream' = stream BY DEF SaveRow
<1>14. RunSaves(w)' BY <1>0, <1>1, <1>2, <1>3, <1>12, <1>13 DEF RunSaves, SameTexts, TextsOf, Had
<1>15. RestTyped BY <1>0 DEF SaveRow, RestTyped, SyncTypeOK, faults
<1>16. SameFlow /\ mailbox' = mailbox BY DEF SaveRow, SameFlow
<1>. QED BY <1>3, <1>8, <1>9, <1>10, <1>11, <1>14, <1>15, <1>16, OneRun

LEMMA TrimThread ==
  ASSUME SyncTypeOK, NEW r \in Runs, Trim(r)
  PROVE  /\ thread' \in Threads /\ DOMAIN thread' = Newest(DOMAIN thread) /\ Newest(DOMAIN thread) \subseteq DOMAIN thread
         /\ \A t \in Newest(DOMAIN thread) : thread'[t] = thread[t]
<1>1. thread \in Threads BY DEF SyncTypeOK
<1>2. PICK S : S = Newest(DOMAIN thread) OBVIOUS
<1>3. S \in SUBSET DOMAIN thread BY <1>2 DEF Newest
<1>4. thread' = [t \in S |-> thread[t]] BY <1>2 DEF Trim
<1>5. thread' \in Threads BY <1>1, <1>3, <1>4, RestrictedThread
<1>. QED BY <1>2, <1>3, <1>4, <1>5

LEMMA TrimKept == ASSUME KeptInv, NEW r \in Runs, Trim(r) PROVE KeptInv'
<1>0. SyncTypeOK /\ RunSound(run[r]) /\ RunSaves(run[r]) BY DEF KeptInv
<1>1. PICK x \in Syncs : x = run[r] BY <1>0, RunType
<1>2. x.pc = "rows" /\ x.rows = {} /\ Go(r, "cursor") BY <1>1 DEF Trim, At
<1>3. "cursor" \in Pcs BY DEF Pcs
<1>4. PICK w \in Syncs : Becomes(r, w) /\ w.pc = "cursor" /\ SameRun(w, x) BY <1>0, <1>1, <1>2, <1>3, GoEffect
<1>5. sent \in Nat /\ DOMAIN thread \in SUBSET (1..sent) BY <1>0, EnvelopeCount DEF SyncTypeOK
<1>6. thread' \in Threads /\ DOMAIN thread' = Newest(DOMAIN thread) /\ DOMAIN thread' \subseteq 1..sent
  BY <1>0, <1>5, TrimThread
<1>7. ThreadHolds BY <1>5, <1>6, HadTrimmed DEF ThreadHolds
<1>8. RunSound(w) BY <1>0, <1>1, <1>4 DEF RunSound, SameRun, SameBatch, SameTexts, InLoop
<1>9. \A e \in TextsOf(x.acks) : e \in Nat /\ Had(e, DOMAIN thread)
  <2>1. TextsOf(x.acks) \subseteq DOMAIN x.texts /\ x.acks \subseteq 1..sent BY <1>0, <1>1, <1>2 DEF RunSaves, RunSound
  <2>2. DOMAIN thread \cup x.rows = DOMAIN thread BY <1>2
  <2>3. \A e \in DOMAIN x.texts : Had(e, DOMAIN thread) BY <1>0, <1>1, <1>2, <2>2 DEF RunSaves
  <2>4. \A e \in TextsOf(x.acks) : e \in 1..sent BY <2>1 DEF TextsOf
  <2>. QED BY <1>5, <2>1, <2>3, <2>4
<1>10. \A e \in TextsOf(x.acks) : Had(e, DOMAIN thread') BY <1>7, <1>9, HadNow
<1>11. stream' = stream BY DEF Trim
<1>12. RunSaves(w)' BY <1>4, <1>10, <1>11 DEF RunSaves, SameRun, TextsOf, Had, InLoop
<1>13. RestTyped BY <1>0 DEF Trim, RestTyped, SyncTypeOK, faults
<1>14. SameFlow /\ mailbox' = mailbox BY DEF Trim, SameFlow
<1>. QED BY <1>4, <1>6, <1>7, <1>8, <1>12, <1>13, <1>14, OneRun

LEMMA SaveCursorKept == ASSUME KeptInv, NEW r \in Runs, SaveCursor(r) PROVE KeptInv'
<1>0. SyncTypeOK /\ RunSound(run[r]) /\ RunSaves(run[r]) BY DEF KeptInv
<1>1. PICK x \in Syncs : x = run[r] BY <1>0, RunType
<1>2. x.pc = "cursor" BY <1>1 DEF SaveCursor, At
<1>3. PICK w \in Syncs : Becomes(r, w) /\ (w = Idle \/ (w.pc = "ack" /\ SameRun(w, x)))
  BY <1>0, <1>1, SaveCursorEffect
<1>4. RunSound(w) /\ RunSaves(w)
  <2>1. CASE w = Idle BY <1>0, <2>1, IdleSound
  <2>2. CASE w.pc = "ack" /\ SameRun(w, x)
    BY <1>0, <1>1, <1>2, <2>2 DEF RunSound, RunSaves, SameRun, SameBatch, SameTexts, InLoop
  <2>. QED BY <1>3, <2>1, <2>2
<1>5. cursor' \in 0..sent BY <1>0 DEF SaveCursor, RunSound
<1>6. RestTyped BY <1>0, <1>5 DEF SaveCursor, RestTyped, SyncTypeOK, faults
<1>7. SameFlow /\ mailbox' = mailbox /\ thread' = thread BY DEF SaveCursor, SameFlow
<1>. QED BY <1>3, <1>4, <1>6, <1>7, QuietRun

LEMMA AckKept == ASSUME KeptInv, NEW r \in Runs, Ack(r) PROVE KeptInv'
<1>0. SyncTypeOK /\ RunSound(run[r]) /\ RunSaves(run[r]) BY DEF KeptInv
<1>1. PICK x \in Syncs : x = run[r] BY <1>0, RunType
<1>2. x.pc = "ack" /\ mailbox' = mailbox \ x.acks /\ run' = [run EXCEPT ![r] = Idle]
      /\ UNCHANGED <<stream, sent, disk, directory, crashes, failures, overlapped>>
  BY <1>1 DEF Ack, At, faults
<1>3. Becomes(r, Idle) BY <1>0, <1>2, RestEffect
<1>4. SyncTypeOK' BY <1>0, <1>2, <1>3 DEF SyncTypeOK, disk, Becomes
<1>5. ASSUME NEW q \in Runs PROVE RunSound(run[q])' /\ RunSaves(run[q])'
  <2>1. PICK y : y = run'[q] OBVIOUS
  <2>2. RunSound(y) /\ RunSaves(y) BY <1>0, <1>3, <2>1, IdleSound DEF Becomes, KeptInv
  <2>3. RunSound(run[q])' BY <1>2, <2>1, <2>2 DEF RunSound
  <2>4. RunSaves(run[q])' BY <1>2, <2>1, <2>2 DEF RunSaves, TextsOf, Had, disk
  <2>. QED BY <2>3, <2>4
<1>6. \A e \in TextsOf(x.acks) : Had(e, DOMAIN thread) BY <1>0, <1>1, <1>2 DEF RunSaves
<1>7. \A e \in 1..sent \ mailbox' : stream[e].kind = "text" => Had(e, DOMAIN thread)
  BY <1>2, <1>6 DEF KeptInv, TextsOf
<1>8. (\A e \in 1..sent \ mailbox : stream[e].kind = "text" => Had(e, DOMAIN thread))'
  BY <1>2, <1>7 DEF Had, disk
<1>. QED BY <1>4, <1>5, <1>8 DEF KeptInv

LEMMA FailKept == ASSUME KeptInv, NEW r \in Runs, RequestFails(r) PROVE KeptInv'
<1>0. SyncTypeOK BY DEF KeptInv
<1>1. RestTyped BY <1>0 DEF RequestFails, RestTyped, SyncTypeOK, disk
<1>2. SameFlow /\ mailbox' = mailbox /\ thread' = thread BY DEF RequestFails, SameFlow, disk
<1>3. CASE At(r, "lookup") /\ run' = Skip(r) BY <1>1, <1>2, <1>3, SkipSound DEF At, InLoop
<1>4. CASE run' = [run EXCEPT ![r] = Idle]
  <2>1. Becomes(r, Idle) BY <1>0, <1>4, RestEffect
  <2>. QED BY <1>0, <1>1, <1>2, <2>1, IdleIs, IdleSound, QuietRun
<1>. QED BY <1>3, <1>4 DEF RequestFails

LEMMA CrashKept == ASSUME KeptInv, Crash PROVE KeptInv'
<1>0. SyncTypeOK BY DEF KeptInv
<1>1. /\ run' = [r \in Runs |-> Idle] /\ crashes' = crashes + 1 /\ directory' = {}
      /\ UNCHANGED <<stream, sent, mailbox, disk, failures, overlapped>>
  BY DEF Crash
<1>2. run' \in [Runs -> Syncs] /\ \A q \in Runs : run'[q] = Idle BY <1>1, IdleIs
<1>3. SyncTypeOK' BY <1>0, <1>1, <1>2 DEF SyncTypeOK, disk
<1>4. ASSUME NEW q \in Runs PROVE RunSound(run[q])' /\ RunSaves(run[q])'
  <2>1. PICK y : y = run'[q] OBVIOUS
  <2>2. RunSound(y) /\ RunSaves(y) BY <1>0, <1>2, <2>1, IdleSound
  <2>3. RunSound(run[q])' BY <1>1, <2>1, <2>2 DEF RunSound
  <2>4. RunSaves(run[q])' BY <1>1, <2>1, <2>2 DEF RunSaves, TextsOf, Had, disk
  <2>. QED BY <2>3, <2>4
<1>5. (\A e \in 1..sent \ mailbox : stream[e].kind = "text" => Had(e, DOMAIN thread))'
  BY <1>1 DEF KeptInv, Had, disk
<1>. QED BY <1>3, <1>4, <1>5 DEF KeptInv

LEMMA KeptInit == ASSUME SyncInit PROVE KeptInv
<1>1. stream \in Streams /\ stream \in Seq(Envelopes) BY StreamsAssumption DEF SyncInit
<1>2. Len(stream) \in Nat BY <1>1
<1>3. run \in [Runs -> Syncs] /\ \A q \in Runs : run[q] = Idle BY IdleIs DEF SyncInit
<1>4. SyncTypeOK
  <2>1. sent \in 0..Len(stream) /\ mailbox \subseteq 1..sent /\ cursor \in 0..sent BY <1>2 DEF SyncInit
  <2>2. ratchets \in [Devices -> Chains] /\ senderKeys \in [Devices -> Chains] BY ChainTypes DEF SyncInit
  <2>3. thread \in Threads /\ DOMAIN thread \subseteq 1..sent /\ directory \subseteq Devices
    BY NoThreadIs DEF SyncInit
  <2>4. crashes \in Nat /\ failures \in Nat /\ overlapped \in BOOLEAN BY DEF SyncInit
  <2>. QED BY <1>1, <1>3, <2>1, <2>2, <2>3, <2>4 DEF SyncTypeOK
<1>5. \A q \in Runs : RunSound(run[q]) /\ RunSaves(run[q]) BY <1>3, <1>4, IdleSound
<1>6. 1..sent = {} BY DEF SyncInit
<1>. QED BY <1>4, <1>5, <1>6 DEF KeptInv

LEMMA KeptNext == ASSUME KeptInv, [SyncNext]_syncVars PROVE KeptInv'
<1>1. CASE UNCHANGED syncVars
  <2>1. /\ UNCHANGED <<stream, sent, mailbox, cursor, ratchets, senderKeys, thread, directory, run>>
        /\ UNCHANGED <<crashes, failures, overlapped>>
    BY <1>1 DEF syncVars, disk, faults
  <2>2. SyncTypeOK' BY <2>1 DEF KeptInv, SyncTypeOK
  <2>3. ASSUME NEW q \in Runs PROVE RunSound(run[q])' /\ RunSaves(run[q])'
    <3>1. RunSound(run[q]) /\ RunSaves(run[q]) BY DEF KeptInv
    <3>. QED BY <2>1, <3>1 DEF RunSound, RunSaves, TextsOf, Had
  <2>. QED BY <2>1, <2>2, <2>3 DEF KeptInv, Had
<1>2. CASE Arrive BY <1>2, ArriveKept
<1>3. CASE Crash BY <1>3, CrashKept
<1>4. ASSUME NEW r \in Runs, BeginSync(r) PROVE KeptInv' BY <1>4, BeginKept
<1>5. ASSUME NEW r \in Runs, RequestFails(r) PROVE KeptInv' BY <1>5, FailKept
<1>6. ASSUME NEW r \in Runs, Work(r) PROVE KeptInv'
  BY <1>6, FetchKept, LookupKept, LoadKept, StoreKept, InstallKept, LoadThreadKept, MergeKept,
     BeginSaveKept, SaveRowKept, TrimKept, SaveCursorKept, AckKept
     DEF Work
<1>. QED BY <1>1, <1>2, <1>3, <1>4, <1>5, <1>6 DEF SyncNext

\* A text that the relay has forgotten is on the phone, or has made room for newer
\* ones there, whatever runs overlap, requests fail and kills come between.
THEOREM AckedTextsAreKept == SyncSpec => []AckedIsKept
<1>1. KeptInv => AckedIsKept BY DEF KeptInv, AckedIsKept, Acked, Of, Has, Had
<1>2. SyncInit => KeptInv BY KeptInit
<1>3. KeptInv /\ [SyncNext]_syncVars => KeptInv' BY KeptNext
<1>. QED BY <1>1, <1>2, <1>3, PTL DEF SyncSpec
-----------------------------------------------------------------------------
(* In calm there is one run at a time.                                      *)

OthersIdle(r) == \A q \in Runs \ {r} : run[q].pc = "idle"

LEMMA Alone ==
  ASSUME OneBusy, NEW r \in Runs, run[r].pc # "idle"
  PROVE  OthersIdle(r)
BY DEF OneBusy, OthersIdle

LEMMA AloneSets ==
  ASSUME KeptInv, NEW r \in Runs, OthersIdle(r)
  PROVE  /\ Noted = {e \in 1..sent : e \notin mailbox \/ e \in run[r].acks}
         /\ Opened = Noted \cup Stored(run[r])
<1>1. \A q \in Runs \ {r} : run[q].acks = {} /\ Stored(run[q]) = {}
  BY DEF KeptInv, RunSound, OthersIdle, Stored
<1>. QED BY <1>1 DEF Noted, Opened

LEMMA AloneNext ==
  ASSUME KeptInv', NEW r \in Runs, NEW w \in Syncs, Becomes(r, w), OthersIdle(r)
  PROVE  /\ OthersIdle(r)' /\ OneBusy'
         /\ Noted' = {e \in 1..sent' : e \notin mailbox' \/ e \in w.acks}
         /\ Opened' = Noted' \cup Stored(w)
<1>1. \A q \in Runs \ {r} : run'[q].pc = "idle" BY DEF Becomes, OthersIdle
<1>2. \A q \in Runs \ {r} : run'[q].acks = {} /\ Stored(run'[q]) = {}
  BY <1>1 DEF KeptInv, RunSound, Stored
<1>3. Noted' = {e \in 1..sent' : e \notin mailbox' \/ e \in w.acks} BY <1>2 DEF Noted, Becomes
<1>4. Opened' = Noted' \cup UNION {Stored(run'[q]) : q \in Runs} BY DEF Opened, Stored
<1>5. Opened' = Noted' \cup Stored(w) BY <1>2, <1>4 DEF Becomes
<1>. QED BY <1>1, <1>3, <1>5 DEF OthersIdle, OneBusy

LEMMA CalmByRun ==
  ASSUME KeptInv', NEW r \in Runs, NEW w \in Syncs, Becomes(r, w), OthersIdle(r),
         Listing', Started', Settled', KeysInstalled', Obeys(thread, 1..sent \ mailbox)', RunCalm(w)'
  PROVE  CalmState'
<1>1. OneBusy' BY AloneNext
<1>2. ASSUME NEW q \in Runs PROVE RunCalm(run[q])'
  <2>1. CASE q = r
    <3>1. run'[q] = w BY <2>1 DEF Becomes
    <3>. QED BY <3>1 DEF RunCalm, RunSweeps, RunHolds, RunObeys
  <2>2. CASE q # r
    <3>1. run'[q].pc = "idle" BY <2>2 DEF Becomes, OthersIdle
    <3>. QED BY <3>1 DEF RunCalm
  <2>. QED BY <2>1, <2>2
<1>. QED BY <1>1, <1>2 DEF CalmState

LEMMA SameLive ==
  ASSUME UNCHANGED <<stream, mailbox, ratchets, senderKeys>>
  PROVE  Live' = Live
BY DEF Live, LoadedFor, Place, IsKey, Ratchet

\* A step of one run that changes neither the mailbox nor the chains.
LEMMA SavingCalm ==
  ASSUME KeptInv, KeptInv', CalmState, NEW r \in Runs, NEW w \in Syncs, OthersIdle(r), Becomes(r, w),
         SameFlow, UNCHANGED <<mailbox, ratchets, senderKeys>>,
         w.acks \cup Stored(w) \subseteq run[r].acks \cup Stored(run[r]),
         \A e \in w.acks : IsKey(e) => e \in run[r].acks,
         cursor' \in mailbox => \A e \in Live : cursor' < e, Listing', Obeys(thread', 1..sent \ mailbox), RunCalm(w)'
  PROVE  CalmState'
<1>1. Live' = Live BY SameLive DEF SameFlow
<1>2. /\ Noted = {e \in 1..sent : e \notin mailbox \/ e \in run[r].acks} /\ Opened = Noted \cup Stored(run[r])
      /\ Noted' = {e \in 1..sent' : e \notin mailbox' \/ e \in w.acks} /\ Opened' = Noted' \cup Stored(w)
  BY AloneSets, AloneNext
<1>3. Opened' \subseteq Opened /\ \A e \in Noted' : IsKey(e) => e \in Noted
  <2>1. Noted' \subseteq Noted \cup w.acks BY <1>2 DEF SameFlow
  <2>2. w.acks \subseteq Opened
    <3>1. w.acks \subseteq 1..sent'
      <4>1. RunSound(run[r])' BY DEF KeptInv
      <4>2. run'[r] = w BY DEF Becomes
      <4>. QED BY <4>1, <4>2 DEF RunSound
    <3>. QED BY <1>2, <3>1 DEF SameFlow
  <2>3. Stored(w) \subseteq Opened
    <3>1. run[r].acks \subseteq 1..sent BY DEF KeptInv, RunSound
    <3>. QED BY <1>2, <3>1
  <2>4. \A e \in Noted' : IsKey(e) => e \in Noted BY <1>2 DEF SameFlow
  <2>. QED BY <1>2, <2>1, <2>2, <2>3, <2>4
<1>4. Started' BY <1>3 DEF CalmState, Started, SameFlow
<1>5. Settled' BY <1>1, <1>3 DEF CalmState, Settled, Kin, SameFlow
<1>6. KeysInstalled' BY <1>3 DEF CalmState, KeysInstalled, IsKey, SameFlow
<1>7. Obeys(thread, 1..sent \ mailbox)' BY DEF Obeys, Own, Kin, SameFlow
<1>. QED BY <1>4, <1>5, <1>6, <1>7, CalmByRun

\* One that saves nothing either.
LEMMA QuietCalm ==
  ASSUME KeptInv, KeptInv', CalmState, NEW r \in Runs, NEW w \in Syncs, OthersIdle(r), Becomes(r, w),
         SameFlow, UNCHANGED <<mailbox, cursor, ratchets, senderKeys, thread>>,
         w.acks \cup Stored(w) \subseteq run[r].acks \cup Stored(run[r]),
         \A e \in w.acks : IsKey(e) => e \in run[r].acks,
         Listing', RunCalm(w)'
  PROVE  CalmState'
<1>1. cursor' \in mailbox => \A e \in Live : cursor' < e BY DEF CalmState, Settled
<1>2. Obeys(thread', 1..sent \ mailbox) BY DEF CalmState
<1>. QED BY <1>1, <1>2, SavingCalm

LEMMA SameListing ==
  ASSUME CalmState, UNCHANGED <<stream, sent, directory, crashes, ratchets>>
  PROVE  Listing'
BY DEF CalmState, Listing, Registered

LEMMA PassSweeps ==
  ASSUME KeptInv, KeptInv', NEW r \in Runs, NEW w \in Syncs, Becomes(r, w), run[r].pc \in InLoop, RunSweeps(run[r]),
         Passed(w, run[r]), SameFlow, UNCHANGED <<mailbox, cursor>>,
         \A e \in Live' : Min(run[r].todo) < e,
         w.acks \subseteq run[r].acks \cup {Min(run[r].todo)}
  PROVE  RunSweeps(w)'
<1>0. SyncTypeOK /\ RunSound(run[r]) BY DEF KeptInv
<1>1. PICK x \in Syncs : x = run[r] BY <1>0, RunType
<1>2. PICK m \in 1..sent : m = Min(x.todo) /\ m \in x.todo /\ \A t \in x.todo : m <= t BY <1>0, <1>1, CurrentIs
<1>3. sent \in Nat /\ mailbox \subseteq 1..sent /\ Live' \subseteq mailbox /\ x.todo \subseteq mailbox
  BY <1>0, <1>1, EnvelopeCount DEF Live, RunSweeps
<1>4. m \in Nat /\ x.last \in Nat /\ cursor \in Nat BY <1>0, <1>1, <1>3, RunType DEF SyncTypeOK
<1>5. w.todo = x.todo \ {m} /\ w.last = x.last /\ w.pc = IF w.todo = {} THEN "save" ELSE "lookup"
  BY <1>1, <1>2 DEF Passed
<1>6. \A e \in mailbox : m < e /\ e <= x.last => e \in w.todo
  <2>1. \A e \in mailbox : m <= e /\ e <= x.last => e \in x.todo BY <1>1, <1>2 DEF RunSweeps
  <2>2. ASSUME NEW e \in mailbox, m < e, e <= x.last PROVE e \in w.todo
    <3>1. e \in Nat BY <1>3
    <3>. QED BY <1>4, <1>5, <2>1, <2>2, <3>1
  <2>. QED BY <2>2
<1>7. CASE w.todo = {}
  <2>1. w.pc = "save" BY <1>5, <1>7
  <2>2. ASSUME NEW e \in Live' PROVE w.last < e
    <3>1. m < e /\ e \in mailbox /\ e \in Nat BY <1>1, <1>2, <1>3
    <3>2. ~(e <= x.last) BY <1>6, <1>7, <3>1
    <3>. QED BY <1>4, <1>5, <3>1, <3>2
  <2>. QED BY <2>1, <2>2 DEF RunSweeps, InLoop
<1>8. CASE w.todo # {}
  <2>1. w.pc = "lookup" BY <1>5, <1>8
  <2>2. w.todo \in SUBSET Nat /\ w.todo \subseteq mailbox
    <3>1. w.todo \in SUBSET Nat BY DEF Syncs
    <3>. QED BY <1>3, <1>5, <3>1
  <2>3. PICK k \in w.todo : k = Min(w.todo) /\ \A t \in w.todo : k <= t BY <1>8, <2>2, MinOf
  <2>4. k \in Nat /\ m < k /\ k <= x.last
    <3>1. k \in Nat /\ k # m /\ m <= k BY <1>2, <1>5, <2>2, <2>3
    <3>2. k <= x.last BY <1>1, <1>2, <1>5, <2>3 DEF RunSweeps
    <3>. QED BY <1>4, <3>1, <3>2
  <2>5. cursor \in mailbox => cursor < k
    <3>1. cursor \in mailbox => cursor < m BY <1>1, <1>2 DEF RunSweeps
    <3>. QED BY <1>4, <2>4, <3>1
  <2>6. \A t \in w.todo : t <= w.last BY <1>1, <1>5 DEF RunSweeps
  <2>7. ASSUME NEW e \in mailbox, k <= e, e <= w.last PROVE e \in w.todo
    <3>1. e \in Nat BY <1>3
    <3>. QED BY <1>4, <1>5, <1>6, <2>4, <2>7, <3>1
  <2>8. ASSUME NEW a \in w.acks PROVE a < k
    <3>1. a \in x.acks => a < m /\ a \in Nat BY <1>1, <1>2, <1>0, RunType DEF RunSweeps
    <3>2. a \in x.acks \/ a = m BY <1>1, <1>2
    <3>. QED BY <1>4, <2>4, <3>1, <3>2
  <2>9. ASSUME NEW e \in Live' PROVE k <= e
    <3>1. m < e /\ e \in mailbox /\ e \in Nat BY <1>1, <1>2, <1>3
    <3>2. CASE e <= x.last BY <1>6, <2>3, <3>1, <3>2
    <3>3. CASE ~(e <= x.last) BY <1>4, <2>4, <3>1, <3>3
    <3>. QED BY <3>2, <3>3
  <2>10. Stored(w) = {} BY <2>1 DEF Stored
  <2>. QED BY <2>1, <2>2, <2>3, <2>5, <2>6, <2>7, <2>8, <2>9, <2>10 DEF RunSweeps
<1>. QED BY <1>7, <1>8

\* A step within the loop that goes on with the envelope it is at.
LEMMA StaySweeps ==
  ASSUME NEW x \in Syncs, NEW w \in Syncs, RunSweeps(x), x.pc \in InLoop, w.pc \in InLoop,
         w.todo = x.todo, w.last = x.last, w.acks = x.acks, UNCHANGED <<mailbox, cursor>>,
         \A e \in Live' : Min(x.todo) <= e, Stored(w) \cap Live' = {}
  PROVE  RunSweeps(w)'
BY DEF RunSweeps, InLoop, Stored

\* A run that goes on to the next envelope holds nothing of it.
LEMMA PassHolds ==
  ASSUME NEW x \in Syncs, NEW w \in Syncs, Passed(w, x)
  PROVE  RunHolds(w)'
<1>1. w.pc \in {"lookup", "save"} BY DEF Passed
<1>. QED BY <1>1 DEF RunHolds, InLoop

\* What a run obeys stays as it is while it notes no deletion and saves nothing.
LEMMA SameObeys ==
  ASSUME NEW x \in Syncs, NEW w \in Syncs, RunObeys(x), x.pc \in InLoop, w.pc \in InLoop \cup {"save"},
         SameTexts(w, x), SameFlow, thread' = thread,
         \A f \in Noted' : Own(f) => f \in Noted, \A f \in w.acks : Own(f) => f \in x.acks
  PROVE  RunObeys(w)'
<1>1. \A f \in w.acks : Own(f)' = Own(f) BY DEF Own, Kin, SameFlow
<1>2. \A f \in Noted' : Own(f)' = Own(f) BY DEF Own, Kin, SameFlow
<1>3. w.loaded = x.loaded /\ w.texts = x.texts BY DEF SameTexts
<1>4. (~w.loaded => \A f \in w.acks : ~Own(f))'
  <2>1. ~w.loaded => \A f \in w.acks : ~Own(f) BY <1>3 DEF RunObeys
  <2>. QED BY <2>1 DEF Own, Kin, SameFlow
<1>5. ASSUME w.loaded PROVE Obeys(w.texts, Noted)' /\ DOMAIN thread' \subseteq DOMAIN w.texts
  <2>1. Obeys(x.texts, Noted) /\ DOMAIN thread \subseteq DOMAIN x.texts BY <1>3, <1>5 DEF RunObeys
  <2>2. \A f \in Noted' : Own(f) /\ stream[f].target \in DOMAIN w.texts => w.texts[stream[f].target]
    BY <1>3, <2>1 DEF Obeys
  <2>3. Obeys(w.texts, Noted)' BY <2>2 DEF Obeys, Own, Kin, SameFlow
  <2>. QED BY <1>3, <2>1, <2>3
<1>. QED BY <1>4, <1>5 DEF RunObeys, InLoop

LEMMA SkipCalm ==
  ASSUME KeptInv, KeptInv', CalmState, NEW r \in Runs, run[r].pc \in {"lookup", "load"}, run' = Skip(r),
         Min(run[r].todo) \notin Live, SameFlow,
         UNCHANGED <<mailbox, cursor, ratchets, senderKeys, thread>>, Listing'
  PROVE  CalmState'
<1>0. SyncTypeOK /\ RunSound(run[r]) BY DEF KeptInv
<1>1. PICK x \in Syncs : x = run[r] BY <1>0, RunType
<1>2. x.pc \in InLoop /\ x.pc # "idle" /\ Stored(x) = {} BY <1>1 DEF InLoop, Stored
<1>3. OthersIdle(r) /\ RunSweeps(x) /\ RunObeys(x) BY <1>1, <1>2, Alone DEF CalmState, RunCalm
<1>4. x.todo # {} BY <1>0, <1>1, <1>2 DEF RunSound
<1>5. PICK w \in Syncs : Becomes(r, w) /\ Passed(w, x) /\ SameTexts(w, x) /\ w.acks = x.acks
  BY <1>0, <1>1, <1>4, SkipEffect
<1>6. Live' = Live BY SameLive DEF SameFlow
<1>7. \A e \in Live' : Min(x.todo) < e
  <2>1. \A e \in Live : e \in Nat BY <1>0, EnvelopeCount DEF Live
  <2>2. Min(x.todo) \in Nat BY <1>0, <1>1, <1>2, CurrentIs
  <2>3. \A e \in Live : Min(x.todo) <= e /\ e # Min(x.todo) BY <1>1, <1>2, <1>3 DEF RunSweeps
  <2>. QED BY <1>6, <2>1, <2>2, <2>3
<1>8. RunSweeps(w)' BY <1>1, <1>2, <1>3, <1>5, <1>7, PassSweeps
<1>9. RunHolds(w)' BY <1>5, PassHolds
<1>10. w.pc \in InLoop \cup {"save"} /\ Stored(w) = {} BY <1>5 DEF Passed, InLoop, Stored
<1>11. Noted' = Noted BY <1>1, <1>3, <1>5, AloneSets, AloneNext DEF SameFlow
<1>12. RunObeys(w)' BY <1>2, <1>3, <1>5, <1>10, <1>11, SameObeys
<1>13. RunCalm(w)' BY <1>8, <1>9, <1>12 DEF RunCalm
<1>. QED BY <1>1, <1>3, <1>5, <1>10, <1>13, QuietCalm

LEMMA BeginCalm ==
  ASSUME KeptInv, KeptInv', CalmState, ~overlapped', NEW r \in Runs, BeginSync(r)
  PROVE  CalmState'
<1>0. SyncTypeOK BY DEF KeptInv
<1>1. PICK w \in Syncs : /\ Becomes(r, w) /\ w.pc = "fetch" /\ w.after = cursor /\ ~w.loaded /\ w.acks = {}
  BY <1>0, BeginEffect
<1>2. /\ run[r].pc = "idle" /\ Busy = {}
      /\ UNCHANGED <<stream, sent, mailbox, cursor, ratchets, senderKeys, thread, directory, crashes>>
  BY DEF BeginSync, At, disk, faults
<1>3. OthersIdle(r) BY <1>2 DEF OthersIdle, Busy, At
<1>4. RunCalm(w)' BY <1>1, <1>2 DEF RunCalm, RunSweeps, RunHolds, RunObeys, InLoop
<1>5. Stored(w) = {} BY <1>1 DEF Stored
<1>6. Listing' BY <1>2, SameListing
<1>. QED BY <1>1, <1>2, <1>3, <1>4, <1>5, <1>6, QuietCalm DEF SameFlow

LEMMA FetchCalm ==
  ASSUME KeptInv, KeptInv', CalmState, NEW r \in Runs, Fetch(r)
  PROVE  CalmState'
<1>0. SyncTypeOK /\ RunSound(run[r]) BY DEF KeptInv
<1>1. PICK x \in Syncs : x = run[r] BY <1>0, RunType
<1>2. x.pc = "fetch" /\ x.acks = {} /\ ~x.loaded /\ Stored(x) = {} BY <1>0, <1>1 DEF Fetch, At, RunSound, Stored
<1>3. UNCHANGED <<stream, sent, mailbox, cursor, ratchets, senderKeys, thread, directory, crashes>>
  BY DEF Fetch, disk, faults
<1>4. OthersIdle(r) /\ x.after = cursor BY <1>1, <1>2, Alone DEF CalmState, RunCalm, RunSweeps
<1>5. Listing' /\ Live' = Live BY <1>3, SameListing, SameLive
<1>6. PICK w \in Syncs :
        /\ Becomes(r, w)
        /\ \/ w = Idle
           \/ /\ w.todo = Page(Remaining(mailbox, cursor)) /\ w.todo # {}
              /\ w.todo \subseteq mailbox /\ w.last \in w.todo /\ \A t \in w.todo : t <= w.last
              /\ w.pc = "lookup" /\ SameTexts(w, x) /\ w.acks = x.acks
  BY <1>0, <1>1, <1>4, FetchEffect
<1>7. CASE w = Idle
  <2>1. w.acks \cup Stored(w) = {} BY <1>7, IdleIs DEF Stored
  <2>2. RunCalm(w)' BY <1>7, IdleIs DEF RunCalm
  <2>. QED BY <1>3, <1>4, <1>5, <1>6, <2>1, <2>2, QuietCalm DEF SameFlow
<1>8. CASE /\ w.todo = Page(Remaining(mailbox, cursor)) /\ w.todo # {}
           /\ w.todo \subseteq mailbox /\ w.last \in w.todo /\ \A t \in w.todo : t <= w.last
           /\ w.pc = "lookup" /\ SameTexts(w, x) /\ w.acks = x.acks
  <2>1. sent \in Nat /\ mailbox \in SUBSET (1..sent) /\ cursor \in Nat BY <1>0, EnvelopeCount DEF SyncTypeOK
  <2>2. PICK q \in SUBSET mailbox : q = Remaining(mailbox, cursor) BY DEF Remaining
  <2>3. q = IF cursor \in mailbox THEN {e \in mailbox : e > cursor} ELSE mailbox BY <2>2 DEF Remaining
  <2>4. q \in SUBSET (1..sent) BY <2>1
  <2>5. w.todo \subseteq q /\ \A e \in q, f \in w.todo : e < f => e \in w.todo
    <3>1. Page(q) \subseteq q /\ \A e \in q, f \in Page(q) : e < f => e \in Page(q) BY <2>1, <2>4, PageOf
    <3>2. w.todo = Page(q) BY <1>8, <2>2
    <3>. QED BY <3>1, <3>2
  <2>6. w.todo \in SUBSET Nat BY DEF Syncs
  <2>7. PICK m \in w.todo : m = Min(w.todo) /\ \A t \in w.todo : m <= t BY <1>8, <2>6, MinOf
  <2>8. m \in Nat /\ w.last \in Nat BY <1>8, <2>6
  <2>9. \A e \in q : m <= e BY <2>1, <2>4, <2>5, <2>7, <2>8
  <2>10. cursor \in mailbox => cursor < m BY <2>1, <2>3, <2>5, <2>7, <2>8
  <2>11. ASSUME NEW e \in mailbox, m <= e, e <= w.last PROVE e \in w.todo
    <3>1. e \in Nat BY <2>1
    <3>2. e \in q BY <2>1, <2>3, <2>8, <2>10, <2>11, <3>1
    <3>3. CASE e = w.last BY <1>8, <3>3
    <3>4. CASE e < w.last BY <1>8, <2>5, <3>2, <3>4
    <3>. QED BY <2>8, <2>11, <3>1, <3>3, <3>4
  <2>12. ASSUME NEW e \in Live PROVE m <= e
    <3>1. e \in mailbox /\ e \in Nat BY <2>1 DEF Live
    <3>2. cursor \in mailbox => cursor < e BY DEF CalmState, Settled
    <3>3. e \in q BY <2>1, <2>3, <3>1, <3>2
    <3>. QED BY <2>9, <3>3
  <2>13. RunSweeps(w)'
    BY <1>2, <1>3, <1>5, <1>8, <2>7, <2>10, <2>11, <2>12 DEF RunSweeps, InLoop, Stored
  <2>14. RunHolds(w)' /\ RunObeys(w)' BY <1>2, <1>8 DEF RunHolds, RunObeys, InLoop, SameTexts
  <2>15. RunCalm(w)' BY <2>13, <2>14 DEF RunCalm
  <2>16. Stored(w) = {} BY <1>8 DEF Stored
  <2>. QED BY <1>1, <1>2, <1>3, <1>4, <1>5, <1>6, <1>8, <2>15, <2>16, QuietCalm DEF SameFlow
<1>. QED BY <1>6, <1>7, <1>8

LEMMA LookupCalm ==
  ASSUME KeptInv, KeptInv', CalmState, NEW r \in Runs, Lookup(r)
  PROVE  CalmState'
<1>0. SyncTypeOK /\ RunSound(run[r]) BY DEF KeptInv
<1>1. PICK x \in Syncs : x = run[r] BY <1>0, RunType
<1>2. x.pc = "lookup" /\ x.pc \in InLoop /\ Stored(x) = {} BY <1>1 DEF Lookup, At, InLoop, Stored
<1>3. UNCHANGED <<stream, sent, mailbox, cursor, ratchets, senderKeys, thread, crashes>> /\ directory' = Listed(r)
  BY DEF Lookup, disk, faults
<1>4. OthersIdle(r) /\ RunSweeps(x) /\ RunObeys(x) BY <1>1, <1>2, Alone DEF CalmState, RunCalm
<1>5. Live' = Live BY <1>3, SameLive
<1>6. PICK m \in 1..sent : m = Min(x.todo) /\ m \in x.todo /\ Env(r) = stream[m] BY <1>0, <1>1, <1>2, CurrentIs
<1>7. Listing' BY <1>3 DEF CalmState, Listing, Listed, Registered
<1>8. CASE Env(r).device \in Listed(r)
  <2>1. Go(r, "load") BY <1>8 DEF Lookup, Go
  <2>2. "load" \in Pcs BY DEF Pcs, InLoop
  <2>3. PICK w \in Syncs : Becomes(r, w) /\ w.pc = "load" /\ SameRun(w, x) BY <1>0, <1>1, <2>1, <2>2, GoEffect
  <2>4. w.pc \in InLoop /\ Stored(w) = {} BY <2>3 DEF InLoop, Stored
  <2>5. w.todo = x.todo /\ w.last = x.last /\ w.acks = x.acks /\ SameTexts(w, x) BY <2>3 DEF SameRun, SameBatch
  <2>6. \A e \in Live' : Min(x.todo) <= e BY <1>2, <1>4, <1>5 DEF RunSweeps
  <2>7. RunSweeps(w)' BY <1>2, <1>3, <1>4, <2>4, <2>5, <2>6, StaySweeps
  <2>8. RunHolds(w)' BY <1>3, <1>6, <1>8, <2>3, <2>5 DEF RunHolds
  <2>9. Noted' = Noted BY <1>1, <1>3, <1>4, <2>3, <2>5, AloneSets, AloneNext
  <2>10. RunObeys(w)' BY <1>2, <1>3, <1>4, <2>4, <2>5, <2>9, SameObeys DEF SameFlow
  <2>11. RunCalm(w)' BY <2>7, <2>8, <2>10 DEF RunCalm
  <2>. QED BY <1>1, <1>3, <1>4, <1>7, <2>3, <2>4, <2>5, <2>11, QuietCalm DEF SameFlow
<1>9. CASE Env(r).device \notin Listed(r)
  <2>1. run' = Skip(r) BY <1>9 DEF Lookup
  <2>2. ratchets[stream[m].device] = NoChain
    <3>1. stream[m].device \in Devices BY <1>0, EnvelopeType
    <3>. QED BY <1>6, <1>9, <3>1 DEF CalmState, Listing, Listed
  <2>3. m \notin Live BY <2>2 DEF Live
  <2>. QED BY <1>1, <1>2, <1>3, <1>6, <1>7, <2>1, <2>3, SkipCalm DEF SameFlow
<1>. QED BY <1>8, <1>9
LEMMA LoadCalm ==
  ASSUME KeptInv, KeptInv', CalmState, NEW r \in Runs, Load(r)
  PROVE  CalmState'
<1>0. SyncTypeOK /\ RunSound(run[r]) BY DEF KeptInv
<1>1. PICK x \in Syncs : x = run[r] BY <1>0, RunType
<1>2. x.pc = "load" /\ x.pc \in InLoop /\ Stored(x) = {} BY <1>1 DEF Load, At, InLoop, Stored
<1>3. UNCHANGED <<stream, sent, mailbox, cursor, ratchets, senderKeys, thread, directory, crashes>>
  BY DEF Load, disk, faults
<1>4. OthersIdle(r) /\ RunSweeps(x) /\ RunHolds(x) /\ RunObeys(x) BY <1>1, <1>2, Alone DEF CalmState, RunCalm
<1>5. Listing' /\ Live' = Live BY <1>3, SameListing, SameLive
<1>6. PICK m \in 1..sent : m = Min(x.todo) /\ m \in x.todo /\ Env(r) = stream[m] BY <1>0, <1>1, <1>2, CurrentIs
<1>7. ChainFor(r) = LoadedFor(m) BY <1>6 DEF ChainFor, LoadedFor, IsKey
<1>8. Legible(r) <=> stream[m].kind # "closed" /\ Opens(LoadedFor(m), Place(m), stream[m].n)
  BY <1>6, <1>7 DEF Legible, Place, IsKey
<1>9. CASE Legible(r)
  <2>1. PICK w \in Syncs : /\ Becomes(r, w) /\ w.pc = "store" /\ SameRun(w, x)
                           /\ w.chain = Stepped(LoadedFor(m), stream[m].n)
    BY <1>0, <1>1, <1>6, <1>7, <1>9, LoadEffect
  <2>2. w.pc \in InLoop /\ Stored(w) = {} BY <2>1 DEF InLoop, Stored
  <2>3. w.todo = x.todo /\ w.last = x.last /\ w.acks = x.acks /\ SameTexts(w, x) BY <2>1 DEF SameRun, SameBatch
  <2>4. Noted' = Noted /\ Opened' = Opened BY <1>1, <1>2, <1>3, <1>4, <2>1, <2>2, <2>3, AloneSets, AloneNext
  <2>5. ASSUME NEW g \in Opened, Kin(g, m) PROVE g <= m
    <3>1. ratchets[stream[m].device] # NoChain BY <2>5 DEF CalmState, Started, Kin
    <3>2. m \in Live BY <1>4, <1>2, <1>6, <1>8, <1>9, <3>1 DEF Live, RunSweeps
    <3>3. ~(m < g) BY <2>5, <3>2 DEF CalmState, Settled, Kin
    <3>4. g \in Nat /\ m \in Nat
      <4>1. Noted \subseteq 1..sent BY DEF Noted
      <4>2. g \in 1..sent BY <1>1, <1>2, <1>4, <4>1, AloneSets
      <4>. QED BY <4>2
    <3>. QED BY <3>3, <3>4
  <2>6. \A e \in Live' : Min(x.todo) <= e BY <1>2, <1>4, <1>5 DEF RunSweeps
  <2>7. RunSweeps(w)' BY <1>2, <1>3, <1>4, <2>2, <2>3, <2>6, StaySweeps
  <2>8. RunHolds(w)'
    <3>1. stream[m].device \in directory BY <1>2, <1>4, <1>6 DEF RunHolds
    <3>2. Opens(LoadedFor(m), Place(m), stream[m].n) /\ stream[m].kind # "closed" BY <1>8, <1>9
    <3>3. LoadedFor(m)' = LoadedFor(m) BY <1>3 DEF LoadedFor, Ratchet, IsKey
    <3>4. Place(m)' = Place(m) BY <1>3 DEF Place, IsKey
    <3>5. \A g \in Opened' : Kin(g, m)' => g <= m BY <1>3, <2>4, <2>5 DEF Kin
    <3>. QED BY <1>3, <1>6, <2>1, <2>3, <3>1, <3>2, <3>3, <3>4, <3>5 DEF RunHolds, Kin, LoadedFor, Place, IsKey, Ratchet
  <2>9. RunObeys(w)' BY <1>2, <1>3, <1>4, <2>2, <2>3, <2>4, SameObeys DEF SameFlow
  <2>10. RunCalm(w)' BY <2>7, <2>8, <2>9 DEF RunCalm
  <2>. QED BY <1>1, <1>3, <1>4, <1>5, <2>1, <2>2, <2>3, <2>10, QuietCalm DEF SameFlow
<1>10. CASE ~Legible(r)
  <2>1. run' = Skip(r) BY <1>10 DEF Load
  <2>2. m \notin Live BY <1>8, <1>10 DEF Live
  <2>. QED BY <1>1, <1>2, <1>3, <1>5, <1>6, <2>1, <2>2, SkipCalm DEF SameFlow
<1>. QED BY <1>9, <1>10

LEMMA LoadThreadCalm ==
  ASSUME KeptInv, KeptInv', CalmState, NEW r \in Runs, LoadThread(r)
  PROVE  CalmState'
<1>0. SyncTypeOK /\ RunSound(run[r]) BY DEF KeptInv
<1>1. PICK x \in Syncs : x = run[r] BY <1>0, RunType
<1>2. x.pc = "thread" /\ x.pc \in InLoop /\ ~x.loaded BY <1>0, <1>1 DEF LoadThread, At, InLoop, RunSound
<1>3. UNCHANGED <<stream, sent, mailbox, cursor, ratchets, senderKeys, thread, directory, crashes>>
  BY DEF LoadThread, disk, faults
<1>4. OthersIdle(r) /\ RunSweeps(x) /\ RunHolds(x) /\ RunObeys(x) BY <1>1, <1>2, Alone DEF CalmState, RunCalm, InLoop
<1>5. Listing' /\ Live' = Live BY <1>3, SameListing, SameLive
<1>6. PICK w \in Syncs : /\ Becomes(r, w) /\ w.pc = "merge" /\ SameBatch(w, x)
                         /\ w.texts = thread /\ w.loaded /\ w.acks = x.acks
  BY <1>0, <1>1, LoadThreadEffect
<1>7. w.pc \in InLoop /\ w.todo = x.todo /\ w.last = x.last BY <1>6 DEF InLoop, SameBatch
<1>8. Stored(w) = Stored(x) BY <1>2, <1>6, <1>7 DEF Stored
<1>9. Noted' = Noted /\ Opened' = Opened BY <1>1, <1>3, <1>4, <1>6, <1>8, AloneSets, AloneNext
<1>10. (\A e \in Live' : Min(x.todo) <= e) /\ Stored(w) \cap Live' = {} BY <1>2, <1>4, <1>5, <1>8 DEF RunSweeps
<1>11. RunSweeps(w)' BY <1>2, <1>3, <1>4, <1>6, <1>7, <1>10, StaySweeps
<1>12. RunHolds(w)' BY <1>2, <1>3, <1>4, <1>6, <1>7, <1>9 DEF RunHolds, Kin, IsKey, InLoop
<1>13. Obeys(thread, Noted)
  <2>1. Noted = {e \in 1..sent : e \notin mailbox \/ e \in x.acks} BY <1>1, <1>4, AloneSets
  <2>2. \A f \in x.acks : ~Own(f) BY <1>2, <1>4 DEF RunObeys
  <2>. QED BY <2>1, <2>2 DEF CalmState, Obeys
<1>14. RunObeys(w)'
  <2>1. Obeys(thread, Noted)' BY <1>3, <1>9, <1>13 DEF Obeys, Own, Kin
  <2>. QED BY <1>3, <1>6, <2>1 DEF RunObeys
<1>15. RunCalm(w)' BY <1>11, <1>12, <1>14 DEF RunCalm
<1>. QED BY <1>1, <1>3, <1>4, <1>5, <1>6, <1>8, <1>15, QuietCalm DEF SameFlow

LEMMA BeginSaveCalm ==
  ASSUME KeptInv, KeptInv', CalmState, NEW r \in Runs, BeginSave(r)
  PROVE  CalmState'
<1>0. SyncTypeOK /\ RunSound(run[r]) BY DEF KeptInv
<1>1. PICK x \in Syncs : x = run[r] BY <1>0, RunType
<1>2. x.pc = "save" BY <1>1 DEF BeginSave, At
<1>3. UNCHANGED <<stream, sent, mailbox, cursor, ratchets, senderKeys, thread, directory, crashes>>
  BY DEF BeginSave, disk, faults
<1>4. OthersIdle(r) /\ RunSweeps(x) /\ RunObeys(x) BY <1>1, <1>2, Alone DEF CalmState, RunCalm
<1>5. Listing' /\ Live' = Live BY <1>3, SameListing, SameLive
<1>6. PICK w \in Syncs : /\ Becomes(r, w) /\ w.pc = (IF x.loaded THEN "rows" ELSE "cursor")
                         /\ SameBatch(w, x) /\ SameTexts(w, x) /\ w.acks = x.acks /\ w.rows = Newest(DOMAIN x.texts)
  BY <1>0, <1>1, BeginSaveEffect
<1>7. Stored(w) = {} BY <1>6 DEF Stored
<1>8. Noted' = Noted BY <1>1, <1>3, <1>4, <1>6, AloneSets, AloneNext
<1>9. RunSweeps(w)' BY <1>2, <1>4, <1>5, <1>6 DEF RunSweeps, InLoop, SameBatch
<1>10. RunHolds(w)' BY <1>6 DEF RunHolds, InLoop
<1>11. RunObeys(w)'
  <2>1. CASE x.loaded
    <3>1. w.loaded /\ w.texts = x.texts /\ w.pc = "rows" BY <1>6, <2>1 DEF SameTexts
    <3>2. Obeys(x.texts, Noted) /\ DOMAIN thread \subseteq DOMAIN x.texts BY <1>2, <1>4, <2>1 DEF RunObeys
    <3>3. Obeys(w.texts, Noted)' BY <1>3, <1>8, <3>1, <3>2 DEF Obeys, Own, Kin
    <3>. QED BY <1>3, <1>6, <3>1, <3>2, <3>3 DEF RunObeys, InLoop
  <2>2. CASE ~x.loaded
    <3>1. ~w.loaded /\ w.pc = "cursor" BY <1>6, <2>2 DEF SameTexts
    <3>2. \A f \in w.acks : ~Own(f) BY <1>4, <1>6, <2>2 DEF RunObeys
    <3>3. \A f \in w.acks : ~Own(f)' BY <1>3, <3>2 DEF Own, Kin
    <3>. QED BY <3>1, <3>3 DEF RunObeys, Obeys
  <2>. QED BY <2>1, <2>2
<1>12. RunCalm(w)' BY <1>9, <1>10, <1>11 DEF RunCalm
<1>. QED BY <1>1, <1>3, <1>4, <1>5, <1>6, <1>7, <1>12, QuietCalm DEF SameFlow

\* No request fails beside a kill in calm: what the lookup did not list has not started to talk.
LEMMA FailCalm ==
  ASSUME KeptInv, KeptInv', CalmState, crashes = 0, NEW r \in Runs, RequestFails(r)
  PROVE  CalmState'
<1>0. SyncTypeOK /\ RunSound(run[r]) BY DEF KeptInv
<1>1. UNCHANGED <<stream, sent, mailbox, cursor, ratchets, senderKeys, thread, directory, crashes>>
  BY DEF RequestFails, disk
<1>2. Listing' BY <1>1, SameListing
<1>3. CASE At(r, "lookup") /\ directory = {} /\ run' = Skip(r)
  <2>1. run[r].pc \in InLoop BY <1>3 DEF At, InLoop
  <2>2. PICK m \in 1..sent : m = Min(run[r].todo) BY <1>0, <2>1, CurrentIs
  <2>3. stream[m].device \in Devices BY <1>0, EnvelopeType
  <2>4. m \notin Live BY <1>3, <2>3 DEF Live, CalmState, Listing
  <2>. QED BY <1>1, <1>2, <1>3, <2>2, <2>4, SkipCalm DEF At, SameFlow
<1>4. CASE (At(r, "fetch") \/ At(r, "ack")) /\ run' = [run EXCEPT ![r] = Idle]
  <2>1. run[r].pc # "idle" BY <1>4 DEF At
  <2>2. OthersIdle(r) BY <2>1, Alone DEF CalmState
  <2>3. Becomes(r, Idle) BY <1>0, <1>4, RestEffect
  <2>4. PICK w \in Syncs : w = Idle BY IdleIs
  <2>5. w.pc = "idle" /\ w.acks \cup Stored(w) = {} BY <2>4, IdleIs DEF Stored
  <2>6. RunCalm(w)' BY <2>5 DEF RunCalm
  <2>. QED BY <1>1, <1>2, <2>2, <2>3, <2>4, <2>5, <2>6, QuietCalm DEF SameFlow
<1>. QED BY <1>3, <1>4 DEF RequestFails

\* A deletion takes its text; a text comes before every deletion of it.
LEMMA MergeCalm ==
  ASSUME KeptInv, KeptInv', CalmState, InOrder, NEW r \in Runs, Merge(r)
  PROVE  CalmState'
<1>0. SyncTypeOK /\ RunSound(run[r]) BY DEF KeptInv
<1>1. PICK x \in Syncs : x = run[r] BY <1>0, RunType
<1>2. x.pc = "merge" /\ x.pc \in InLoop /\ x.loaded BY <1>0, <1>1 DEF Merge, At, InLoop, RunSound
<1>3. UNCHANGED <<stream, sent, mailbox, cursor, ratchets, senderKeys, thread, directory, crashes>>
  BY DEF Merge, disk, faults
<1>4. OthersIdle(r) /\ RunSweeps(x) /\ RunHolds(x) /\ RunObeys(x) BY <1>1, <1>2, Alone DEF CalmState, RunCalm, InLoop
<1>5. Listing' /\ Live' = Live BY <1>3, SameListing, SameLive
<1>6. PICK m \in 1..sent : m = Min(x.todo) /\ Current(r) = m BY <1>0, <1>1, <1>2, CurrentIs
<1>7. PICK w \in Syncs : /\ Becomes(r, w) /\ Passed(w, x) /\ w.loaded = x.loaded
                         /\ w.texts = Merged(x.texts, m) /\ w.acks = x.acks \cup {m}
  <2>1. Current(r) \in Nat /\ run[r].todo # {} BY <1>0, <1>1, <1>2, <1>6 DEF RunSound
  <2>2. run' = [Skip(r) EXCEPT ![r].texts = Merged(@, Current(r)), ![r].acks = @ \cup {Current(r)}] BY DEF Merge
  <2>. QED BY <1>0, <1>1, <1>6, <2>1, <2>2, MergeEffect
<1>8. stream[m].kind \in {"text", "delete"}
  <2>1. stream[m].kind \in {"key", "text", "delete", "closed"} BY <1>0, EnvelopeType
  <2>. QED BY <1>2, <1>4, <1>6, <2>1 DEF RunHolds, IsKey
<1>9. Stored(x) = {m} /\ m \notin Live BY <1>2, <1>4, <1>6 DEF Stored, RunSweeps
<1>10. \A e \in Live' : Min(x.todo) < e
  <2>1. \A e \in Live : e \in Nat BY <1>0, EnvelopeCount DEF Live
  <2>2. \A e \in Live : m <= e /\ e # m BY <1>2, <1>4, <1>6, <1>9 DEF RunSweeps
  <2>. QED BY <1>5, <1>6, <2>1, <2>2
<1>11. RunSweeps(w)' BY <1>1, <1>2, <1>3, <1>4, <1>6, <1>7, <1>10, PassSweeps DEF SameFlow
<1>12. RunHolds(w)' BY <1>7, PassHolds
<1>13. w.pc \in {"lookup", "save"} /\ Stored(w) = {} BY <1>7 DEF Passed, Stored
<1>14. Noted' = Noted \cup {m} BY <1>1, <1>3, <1>4, <1>7, AloneSets, AloneNext
<1>15. Obeys(x.texts, Noted) /\ DOMAIN thread \subseteq DOMAIN x.texts BY <1>2, <1>4 DEF RunObeys
<1>16. DOMAIN x.texts \subseteq DOMAIN w.texts BY <1>7 DEF Merged, Put
<1>17. ASSUME NEW f \in Noted', Own(f), stream[f].target \in DOMAIN w.texts PROVE w.texts[stream[f].target]
  <2>1. CASE stream[m].kind = "text"
    <3>1. w.texts = Put(x.texts, m, FALSE) BY <1>7, <2>1 DEF Merged
    <3>2. f \in Noted BY <1>14, <1>17, <2>1 DEF Own
    <3>3. stream[f].target # m
      <4>1. SUFFICES ASSUME stream[f].target = m PROVE FALSE OBVIOUS
      <4>2. f \in Opened /\ Kin(f, m) BY <1>17, <3>2, <4>1 DEF Opened, Own, Kin
      <4>3. f <= m BY <1>2, <1>4, <1>6, <4>2 DEF RunHolds
      <4>4. f \in 1..sent BY <3>2 DEF Noted
      <4>5. f \in DOMAIN stream BY <1>0, <4>4, EnvelopeType
      <4>6. m < f BY <1>17, <4>1, <4>5 DEF InOrder, Own
      <4>. QED BY <4>3, <4>4, <4>6
    <3>4. stream[f].target \in DOMAIN x.texts BY <1>17, <3>1, <3>3 DEF Put
    <3>5. w.texts[stream[f].target] = x.texts[stream[f].target] BY <3>1, <3>3, <3>4 DEF Put
    <3>. QED BY <1>15, <1>17, <3>2, <3>4, <3>5 DEF Obeys
  <2>2. CASE stream[m].kind = "delete"
    <3>1. w.texts = [t \in DOMAIN x.texts |-> x.texts[t] \/ t = stream[m].target] BY <1>7, <2>2 DEF Merged
    <3>2. CASE f = m BY <1>17, <3>1, <3>2
    <3>3. CASE f # m
      <4>1. f \in Noted BY <1>14, <1>17, <3>3
      <4>2. x.texts[stream[f].target] BY <1>15, <1>17, <3>1, <4>1 DEF Obeys
      <4>. QED BY <1>17, <3>1, <4>2
    <3>. QED BY <3>2, <3>3
  <2>. QED BY <1>8, <2>1, <2>2
<1>18. RunObeys(w)'
  <2>1. Obeys(w.texts, Noted)' BY <1>3, <1>17 DEF Obeys, Own, Kin
  <2>. QED BY <1>2, <1>3, <1>7, <1>13, <1>15, <1>16, <2>1 DEF RunObeys
<1>19. RunCalm(w)' BY <1>11, <1>12, <1>18 DEF RunCalm
<1>20. \A e \in w.acks : IsKey(e) => e \in x.acks BY <1>7, <1>8 DEF IsKey
<1>. QED BY <1>1, <1>3, <1>4, <1>5, <1>7, <1>9, <1>13, <1>19, <1>20, QuietCalm DEF SameFlow
-----------------------------------------------------------------------------
(* A stepped chain opens nothing that came before what it was stepped over. *)

LEMMA Passing ==
  ASSUME NEW c \in Chains, ChainOK(c), NEW g, NEW n \in Nat, Opens(c, g, n)
  PROVE  /\ ChainOK(Stepped(c, n)) /\ Stepped(c, n).gen = g /\ c.gen = g
         /\ \A k \in Nat : Opens(Stepped(c, n), g, k) => k # n /\ (Opens(c, g, k) \/ n < k)
<1>1. c.next \in Nat /\ c.skipped \in SUBSET Nat /\ c.gen = g BY DEF Chains, Opens
<1>2. PICK s \in Chains : s = Stepped(c, n) BY SteppedType
<1>3. s.gen = g BY <1>1, <1>2, SteppedType
<1>4. MaxSkip \in Nat BY SyncAssumption
<1>5. CASE n \in c.skipped
  <2>1. s.next = c.next /\ s.skipped = c.skipped \ {n} BY <1>2, <1>5, SteppedType
  <2>2. n < c.next BY <1>5 DEF ChainOK
  <2>3. ChainOK(s) BY <2>1 DEF ChainOK
  <2>4. ASSUME NEW k \in Nat, Opens(s, g, k) PROVE k # n /\ Opens(c, g, k)
    BY <1>1, <1>4, <2>1, <2>2, <2>4 DEF Opens
  <2>. QED BY <1>1, <1>2, <1>3, <2>3, <2>4
<1>6. CASE n \notin c.skipped
  <2>1. s.next = n + 1 /\ s.skipped = c.skipped \cup (c.next .. n - 1) BY <1>2, <1>6, SteppedType
  <2>2. c.next <= n /\ n <= c.next + MaxSkip BY <1>1, <1>4, <1>6 DEF Opens
  <2>3. ASSUME NEW i \in s.skipped PROVE i < s.next
    <3>1. i \in Nat BY <1>1, <2>1
    <3>2. CASE i \in c.skipped
      <4>1. i < c.next BY <3>2 DEF ChainOK
      <4>. QED BY <1>1, <2>1, <2>2, <3>1, <4>1
    <3>3. CASE i \in c.next .. n - 1 BY <1>1, <2>1, <3>1, <3>3
    <3>. QED BY <2>1, <3>2, <3>3
  <2>4. ASSUME NEW k \in Nat, Opens(s, g, k) PROVE k # n /\ (Opens(c, g, k) \/ n < k)
    <3>1. k \in s.skipped \/ k \in s.next .. s.next + MaxSkip BY <2>4 DEF Opens
    <3>2. CASE k \in c.skipped BY <1>1, <1>6, <3>2 DEF Opens
    <3>3. CASE k \in c.next .. n - 1
      <4>1. c.next <= k /\ k < n BY <1>1, <3>3
      <4>2. k \in c.next .. c.next + MaxSkip BY <1>1, <1>4, <2>2, <4>1
      <4>. QED BY <1>1, <4>1, <4>2 DEF Opens
    <3>4. CASE k \in s.next .. s.next + MaxSkip BY <1>4, <2>1, <3>4
    <3>. QED BY <2>1, <3>1, <3>2, <3>3, <3>4
  <2>. QED BY <1>1, <1>2, <1>3, <2>3, <2>4 DEF ChainOK
<1>. QED BY <1>5, <1>6

\* The streams that are in order, of two envelopes of a device.
LEMMA OrderOf ==
  ASSUME SyncTypeOK, InOrder, NEW e \in 1..sent, NEW f \in 1..sent, e < f, Kin(e, f)
  PROVE  /\ IsKey(e) /\ IsKey(f) => stream[e].n < stream[f].n /\ stream[e].gen <= stream[f].gen
         /\ stream[e].kind \in {"text", "delete"} /\ stream[e].gen = stream[f].gen =>
              stream[e].n < IF IsKey(f) THEN stream[f].at ELSE stream[f].n
<1>1. e \in DOMAIN stream /\ f \in DOMAIN stream BY EnvelopeType
<1>. QED BY <1>1 DEF InOrder, IsKey, Kin, Cipher

LEMMA LiveIs ==
  ASSUME SyncTypeOK, NEW e \in Live
  PROVE  /\ e \in mailbox /\ e \in 1..sent /\ e \in Nat /\ stream[e].kind # "closed"
         /\ ratchets[stream[e].device] # NoChain
         /\ IsKey(e) => Opens(ratchets[stream[e].device], 1, stream[e].n)
         /\ ~IsKey(e) => Opens(senderKeys[stream[e].device], stream[e].gen, stream[e].n)
<1>1. e \in mailbox /\ e \in 1..sent /\ e \in Nat BY EnvelopeCount DEF Live
<1>. QED BY <1>1 DEF Live, LoadedFor, Place, Ratchet

LEMMA LiveNext ==
  ASSUME SyncTypeOK, SameFlow, mailbox' = mailbox, NEW e \in Live'
  PROVE  /\ e \in mailbox /\ e \in 1..sent /\ stream[e].kind # "closed"
         /\ ratchets'[stream[e].device] # NoChain
         /\ IsKey(e) => Opens(ratchets'[stream[e].device], 1, stream[e].n)
         /\ ~IsKey(e) => Opens(senderKeys'[stream[e].device], stream[e].gen, stream[e].n)
<1>1. e \in mailbox /\ e \in 1..sent BY EnvelopeCount DEF Live
<1>. QED BY <1>1 DEF Live, LoadedFor, Place, Ratchet, IsKey, SameFlow

LEMMA IsLive ==
  ASSUME SyncTypeOK, NEW e \in mailbox, stream[e].kind # "closed", ratchets[stream[e].device] # NoChain,
         IsKey(e) => Opens(ratchets[stream[e].device], 1, stream[e].n),
         ~IsKey(e) => Opens(senderKeys[stream[e].device], stream[e].gen, stream[e].n)
  PROVE  e \in Live
BY DEF Live, LoadedFor, Place, Ratchet

\* What can be opened once m has been: what came after it on its device, and what could
\* be opened before on the others.
LeftOf(m) == \A e \in Live' : IF Kin(e, m) THEN m < e ELSE e \in Live

LEMMA OthersLive ==
  ASSUME SyncTypeOK, SyncTypeOK', SameFlow, mailbox' = mailbox, NEW m, NEW e \in Live', ~Kin(e, m),
         \A d \in Devices \ {stream[m].device} : ratchets'[d] = ratchets[d] /\ senderKeys'[d] = senderKeys[d]
  PROVE  e \in Live
<1>1. /\ e \in mailbox /\ e \in 1..sent /\ stream[e].kind # "closed"
      /\ ratchets'[stream[e].device] # NoChain
      /\ IsKey(e) => Opens(ratchets'[stream[e].device], 1, stream[e].n)
      /\ ~IsKey(e) => Opens(senderKeys'[stream[e].device], stream[e].gen, stream[e].n)
  BY LiveNext
<1>2. stream[e].device \in Devices \ {stream[m].device} BY <1>1, EnvelopeType DEF Kin
<1>. QED BY <1>1, <1>2, IsLive

LEMMA LeftSettles ==
  ASSUME KeptInv, Settled, NEW r \in Runs, run[r].pc \in {"store", "install"}, RunSweeps(run[r]), RunHolds(run[r]),
         NEW m \in 1..sent, m = Min(run[r].todo), SameFlow, UNCHANGED <<mailbox, cursor>>,
         Opened' \subseteq Opened \cup {m}, Opened \subseteq 1..sent, LeftOf(m)
  PROVE  Settled' /\ \A e \in Live' : m < e
<1>0. SyncTypeOK /\ sent \in Nat /\ cursor \in Nat BY EnvelopeCount DEF KeptInv, SyncTypeOK
<1>1. \A e \in Live' : e \in 1..sent BY <1>0, LiveNext
<1>2. \A g \in Opened : Kin(g, m) => g <= m BY DEF RunHolds
<1>3. \A e \in Live : m <= e BY DEF RunSweeps, InLoop
<1>4. m \notin Live' BY DEF LeftOf, Kin
<1>5. ASSUME NEW e \in Live' PROVE m < e
  <2>1. CASE Kin(e, m) BY <2>1 DEF LeftOf
  <2>2. CASE ~Kin(e, m)
    <3>1. m <= e /\ e # m BY <1>3, <1>4, <2>2 DEF LeftOf
    <3>. QED BY <1>1, <3>1
  <2>. QED BY <2>1, <2>2
<1>6. ASSUME NEW g \in Opened', NEW e \in Live', Kin(e, g) PROVE ~(e < g)
  <2>1. CASE Kin(e, m)
    <3>1. m < e BY <1>5
    <3>2. g \in 1..sent /\ m \in Nat BY <1>6
    <3>3. g \in Opened => g <= m BY <1>2, <1>6, <2>1 DEF Kin
    <3>4. g \in Opened \/ g = m BY <1>6
    <3>. QED BY <1>1, <3>1, <3>2, <3>3, <3>4
  <2>2. CASE ~Kin(e, m)
    <3>1. e \in Live /\ g \in Opened BY <1>6, <2>2 DEF LeftOf, Kin
    <3>. QED BY <1>6, <3>1 DEF Settled
  <2>. QED BY <2>1, <2>2
<1>7. ASSUME cursor \in mailbox, NEW e \in Live' PROVE cursor < e
  <2>1. cursor < m BY <1>7 DEF RunSweeps, InLoop
  <2>. QED BY <1>0, <1>1, <1>5, <2>1
<1>8. \A g \in Opened', e \in Live' : Kin(e, g)' => ~(e < g) BY <1>6 DEF Kin, SameFlow
<1>. QED BY <1>5, <1>7, <1>8 DEF Settled

LEMMA StoreLive ==
  ASSUME KeptInv, KeptInv', CalmState, InOrder, NEW r \in Runs, Store(r), NEW m \in 1..sent, m = Min(run[r].todo)
  PROVE  LeftOf(m)
<1>0. SyncTypeOK /\ SyncTypeOK' /\ RunSound(run[r]) /\ run[r].pc = "store" BY DEF KeptInv, Store, At
<1>1. PICK d \in Devices : d = stream[m].device BY <1>0, EnvelopeType
<1>2. PICK x \in Syncs : x = run[r] BY <1>0, RunType
<1>3. Env(r) = stream[m] BY <1>0, CurrentIs DEF InLoop
<1>4. SameFlow /\ UNCHANGED <<mailbox, cursor>> BY DEF Store, SameFlow
<1>5. /\ Opens(LoadedFor(m), Place(m), stream[m].n) /\ x.chain = Stepped(LoadedFor(m), stream[m].n)
      /\ \A e \in Live : m <= e
  BY <1>0, <1>2 DEF CalmState, RunCalm, RunHolds, RunSweeps, InLoop
<1>6. /\ m \in Nat /\ stream[m].n \in Nat /\ stream[m].gen \in Nat
      /\ ratchets[d] \in Chains /\ senderKeys[d] \in Chains /\ ChainOK(ratchets[d]) /\ ChainOK(senderKeys[d])
  BY <1>0, EnvelopeType DEF SyncTypeOK, CalmState, Started
<1>7. ASSUME NEW e \in Live', Kin(e, m) PROVE m < e
  <2>1. /\ e \in mailbox /\ e \in 1..sent /\ stream[e].kind # "closed" /\ ratchets'[d] # NoChain
        /\ IsKey(e) => Opens(ratchets'[d], 1, stream[e].n)
        /\ ~IsKey(e) => Opens(senderKeys'[d], stream[e].gen, stream[e].n)
    BY <1>0, <1>1, <1>4, <1>7, LiveNext DEF Kin
  <2>2. e \in Nat /\ stream[e].n \in Nat /\ stream[e].gen > 0 /\ stream[e].device = d
    BY <1>0, <1>1, <1>7, <2>1, EnvelopeType DEF Kin
  <2>3. e \in Live => m <= e BY <1>5
  <2>4. e < m => Kin(e, m) /\ e \in 1..sent BY <1>7, <2>1
  <2>5. CASE IsKey(m)
    <3>1. /\ ratchets' = [ratchets EXCEPT ![d] = x.chain] /\ senderKeys' = senderKeys
          /\ LoadedFor(m) = Ratchet(d, stream[m].n) /\ Place(m) = 1
      BY <1>1, <1>2, <1>3, <2>5 DEF Store, IsKey, LoadedFor, Place
    <3>2. CASE ratchets[d] = NoChain
      <4>1. senderKeys[d] = NoChain BY <3>2 DEF CalmState, Started
      <4>2. IsKey(e) BY <2>1, <2>2, <3>1, <4>1, ChainTypes DEF Opens
      <4>3. stream[m].n = 0 BY <1>5, <3>1, <3>2, ChainTypes DEF Ratchet, Opens
      <4>4. LoadedFor(m) = Chain(1, 0) /\ Chain(1, 0) \in Chains /\ ChainOK(Chain(1, 0))
        BY <3>1, <3>2, <4>3, ChainTypes DEF Ratchet, ChainOK
      <4>5. Opens(Stepped(Chain(1, 0), 0), 1, stream[e].n) BY <1>5, <2>1, <3>1, <4>2, <4>3, <4>4 DEF SyncTypeOK, KeptInv
      <4>6. Opens(Chain(1, 0), 1, 0) BY <1>5, <3>1, <4>3, <4>4
      <4>7. stream[e].n # 0 BY <2>2, <4>4, <4>5, <4>6, Passing
      <4>8. ~(e < m) BY <1>0, <2>2, <2>4, <2>5, <4>2, <4>3, OrderOf
      <4>9. e # m BY <4>3, <4>7
      <4>. QED BY <1>6, <2>2, <4>8, <4>9
    <3>3. CASE ratchets[d] # NoChain
      <4>1. LoadedFor(m) = ratchets[d] BY <3>1, <3>3 DEF Ratchet
      <4>2. CASE ~IsKey(e)
        <5>1. e \in Live BY <1>0, <2>1, <2>2, <3>1, <3>3, <4>2, IsLive
        <5>. QED BY <1>6, <2>2, <2>3, <2>5, <4>2, <5>1
      <4>3. CASE IsKey(e)
        <5>1. Opens(Stepped(ratchets[d], stream[m].n), 1, stream[e].n)
          BY <1>0, <1>5, <2>1, <3>1, <4>1, <4>3 DEF SyncTypeOK
        <5>2. Opens(ratchets[d], 1, stream[m].n) BY <1>5, <3>1, <4>1
        <5>3. stream[e].n # stream[m].n /\ (Opens(ratchets[d], 1, stream[e].n) \/ stream[m].n < stream[e].n)
          BY <1>6, <2>2, <5>1, <5>2, Passing
        <5>4. CASE Opens(ratchets[d], 1, stream[e].n)
          <6>1. e \in Live BY <1>0, <2>1, <2>2, <3>3, <4>3, <5>4, IsLive
          <6>. QED BY <1>6, <2>2, <2>3, <5>3, <6>1
        <5>5. CASE stream[m].n < stream[e].n
          <6>1. ~(e < m) BY <1>0, <1>6, <2>2, <2>4, <2>5, <4>3, <5>5, OrderOf
          <6>. QED BY <1>6, <2>2, <5>3, <6>1
        <5>. QED BY <5>3, <5>4, <5>5
      <4>. QED BY <4>2, <4>3
    <3>. QED BY <3>2, <3>3
  <2>6. CASE ~IsKey(m)
    <3>1. /\ senderKeys' = [senderKeys EXCEPT ![d] = x.chain] /\ ratchets' = ratchets
          /\ LoadedFor(m) = senderKeys[d] /\ Place(m) = stream[m].gen
      BY <1>1, <1>2, <1>3, <2>6 DEF Store, IsKey, LoadedFor, Place
    <3>2. ratchets[d] # NoChain BY <2>1, <3>1
    <3>3. CASE IsKey(e)
      <4>1. e \in Live BY <1>0, <2>1, <2>2, <3>1, <3>2, <3>3, IsLive
      <4>. QED BY <1>6, <2>2, <2>3, <2>6, <3>3, <4>1
    <3>4. CASE ~IsKey(e)
      <4>1. Opens(Stepped(senderKeys[d], stream[m].n), stream[e].gen, stream[e].n)
        BY <1>0, <1>5, <2>1, <3>1, <3>4 DEF SyncTypeOK
      <4>2. Opens(senderKeys[d], stream[m].gen, stream[m].n) BY <1>5, <3>1
      <4>3. stream[e].gen = stream[m].gen BY <1>6, <4>1, <4>2, SteppedType DEF Opens
      <4>4. stream[e].n # stream[m].n /\ (Opens(senderKeys[d], stream[e].gen, stream[e].n) \/ stream[m].n < stream[e].n)
        BY <1>6, <2>2, <4>1, <4>2, <4>3, Passing
      <4>5. CASE Opens(senderKeys[d], stream[e].gen, stream[e].n)
        <5>1. e \in Live BY <1>0, <2>1, <2>2, <3>2, <3>4, <4>5, IsLive
        <5>. QED BY <1>6, <2>2, <2>3, <4>4, <5>1
      <4>6. CASE stream[m].n < stream[e].n
        <5>1. stream[e].kind \in {"text", "delete"} BY <1>0, <2>1, <3>4, EnvelopeType DEF IsKey
        <5>2. ~(e < m) BY <1>0, <1>6, <2>2, <2>4, <2>6, <4>3, <4>6, <5>1, OrderOf
        <5>. QED BY <1>6, <2>2, <4>4, <5>2
      <4>. QED BY <4>4, <4>5, <4>6
    <3>. QED BY <3>3, <3>4
  <2>. QED BY <2>5, <2>6
<1>8. ASSUME NEW e \in Live', ~Kin(e, m) PROVE e \in Live
  <2>1. \A c \in Devices \ {stream[m].device} : ratchets'[c] = ratchets[c] /\ senderKeys'[c] = senderKeys[c]
    BY <1>0, <1>3 DEF Store, SyncTypeOK
  <2>. QED BY <1>0, <1>4, <1>8, <2>1, OthersLive
<1>. QED BY <1>7, <1>8 DEF LeftOf

LEMMA InstallLive ==
  ASSUME KeptInv, KeptInv', CalmState, InOrder, NEW r \in Runs, Install(r), NEW m \in 1..sent, m = Min(run[r].todo)
  PROVE  LeftOf(m)
<1>0. SyncTypeOK /\ SyncTypeOK' /\ RunSound(run[r]) /\ run[r].pc = "install" BY DEF KeptInv, Install, At
<1>1. PICK d \in Devices : d = stream[m].device BY <1>0, EnvelopeType
<1>2. Env(r) = stream[m] BY <1>0, CurrentIs DEF InLoop
<1>3. SameFlow /\ UNCHANGED <<mailbox, cursor, ratchets>> BY DEF Install, SameFlow
<1>4. IsKey(m) BY <1>0 DEF RunSound, IsKey
<1>5. PICK c \in Chains : c = Chain(stream[m].gen, stream[m].at) BY <1>0, EnvelopeType, ChainTypes
<1>6. c.gen = stream[m].gen /\ c.next = stream[m].at /\ c.skipped = {} BY <1>0, <1>5, EnvelopeType, ChainTypes
<1>7. senderKeys' = [senderKeys EXCEPT ![d] = c] BY <1>1, <1>2, <1>5 DEF Install, Installed
<1>8. m \in Nat /\ stream[m].at \in Nat /\ MaxSkip \in Nat BY <1>0, EnvelopeType, SyncAssumption
<1>9. m \notin Live /\ \A e \in Live : m <= e
  BY <1>0 DEF CalmState, RunCalm, RunSweeps, InLoop, Stored
<1>10. ASSUME NEW e \in Live', Kin(e, m) PROVE m < e
  <2>1. /\ e \in mailbox /\ e \in 1..sent /\ stream[e].kind # "closed" /\ ratchets[d] # NoChain
        /\ IsKey(e) => Opens(ratchets[d], 1, stream[e].n)
        /\ ~IsKey(e) => Opens(senderKeys'[d], stream[e].gen, stream[e].n)
    BY <1>0, <1>1, <1>3, <1>10, LiveNext DEF Kin
  <2>2. e \in Nat /\ stream[e].n \in Nat /\ stream[e].device = d BY <1>0, <1>1, <1>10, <2>1, EnvelopeType DEF Kin
  <2>3. CASE IsKey(e)
    <3>1. e \in Live BY <1>0, <2>1, <2>2, <2>3, IsLive
    <3>. QED BY <1>8, <1>9, <2>2, <3>1
  <2>4. CASE ~IsKey(e)
    <3>1. Opens(c, stream[e].gen, stream[e].n) BY <1>0, <1>7, <2>1, <2>4 DEF SyncTypeOK
    <3>2. stream[e].gen = stream[m].gen /\ stream[m].at <= stream[e].n BY <1>6, <1>8, <2>2, <3>1 DEF Opens
    <3>3. stream[e].kind \in {"text", "delete"} BY <1>0, <2>1, <2>4, EnvelopeType DEF IsKey
    <3>4. ~(e < m) BY <1>0, <1>4, <1>8, <1>10, <2>1, <2>2, <3>2, <3>3, OrderOf
    <3>5. e # m BY <1>4, <2>4
    <3>. QED BY <1>8, <2>2, <3>4, <3>5
  <2>. QED BY <2>3, <2>4
<1>11. ASSUME NEW e \in Live', ~Kin(e, m) PROVE e \in Live
  <2>1. \A b \in Devices \ {stream[m].device} : ratchets'[b] = ratchets[b] /\ senderKeys'[b] = senderKeys[b]
    BY <1>0, <1>1, <1>3, <1>7 DEF SyncTypeOK
  <2>. QED BY <1>0, <1>3, <1>11, <2>1, OthersLive
<1>. QED BY <1>10, <1>11 DEF LeftOf

LEMMA StoreCalm ==
  ASSUME KeptInv, KeptInv', CalmState, InOrder, NEW r \in Runs, Store(r)
  PROVE  CalmState'
<1>0. SyncTypeOK /\ RunSound(run[r]) BY DEF KeptInv
<1>1. PICK x \in Syncs : x = run[r] BY <1>0, RunType
<1>2. x.pc = "store" /\ x.pc \in InLoop /\ Stored(x) = {} BY <1>1 DEF Store, At, InLoop, Stored
<1>3. SameFlow /\ UNCHANGED <<mailbox, cursor, thread, directory, crashes>> BY DEF Store, SameFlow, faults
<1>4. OthersIdle(r) /\ RunSweeps(x) /\ RunHolds(x) /\ RunObeys(x) BY <1>1, <1>2, Alone DEF CalmState, RunCalm
<1>5. PICK m \in 1..sent : m = Min(x.todo) /\ Env(r) = stream[m] BY <1>0, <1>1, <1>2, CurrentIs
<1>6. PICK d \in Devices : d = stream[m].device BY <1>0, EnvelopeType
<1>7. PICK p \in {"install", "merge", "thread"} : Go(r, p) /\ (p = "install" <=> IsKey(m)) BY <1>5 DEF Store, Go, IsKey
<1>8. p \in Pcs /\ p \in InLoop BY DEF Pcs, InLoop
<1>9. PICK w \in Syncs : Becomes(r, w) /\ w.pc = p /\ SameRun(w, x) BY <1>0, <1>1, <1>7, <1>8, GoEffect
<1>10. w.pc \in InLoop /\ w.todo = x.todo /\ w.last = x.last /\ w.acks = x.acks /\ SameTexts(w, x) /\ Stored(w) = {m}
  BY <1>5, <1>8, <1>9 DEF SameRun, SameBatch, Stored
<1>11. Noted' = Noted /\ Opened' = Opened \cup {m} /\ Opened \subseteq 1..sent
  <2>1. Noted' = Noted BY <1>1, <1>3, <1>4, <1>9, <1>10, AloneSets, AloneNext DEF SameFlow
  <2>2. Opened' = Noted' \cup {m} BY <1>4, <1>9, <1>10, AloneNext
  <2>3. Opened = Noted BY <1>1, <1>2, <1>4, AloneSets
  <2>. QED BY <2>1, <2>2, <2>3 DEF Noted
<1>12. /\ Opens(LoadedFor(m), Place(m), stream[m].n) /\ x.chain = Stepped(LoadedFor(m), stream[m].n)
       /\ stream[m].kind # "closed" /\ stream[m].device \in directory
       /\ \A g \in Opened : Kin(g, m) => g <= m
  BY <1>2, <1>4, <1>5 DEF RunHolds, InLoop
<1>13. /\ m \in Nat /\ stream[m].n \in Nat /\ stream[m].gen > 0
       /\ ratchets[d] \in Chains /\ senderKeys[d] \in Chains /\ ChainOK(ratchets[d]) /\ ChainOK(senderKeys[d])
  BY <1>0, <1>12, EnvelopeType DEF SyncTypeOK, CalmState, Started
<1>14. LoadedFor(m) \in Chains /\ ChainOK(LoadedFor(m))
  <2>1. Chain(1, 0) \in Chains /\ Chain(1, 0).skipped = {} BY ChainTypes
  <2>. QED BY <1>6, <1>13, <2>1 DEF LoadedFor, Ratchet, ChainOK
<1>15. x.chain \in Chains /\ ChainOK(x.chain) /\ x.chain.gen = Place(m) /\ LoadedFor(m).gen = Place(m) /\ x.chain # NoChain
  <2>1. ChainOK(x.chain) /\ x.chain.gen = Place(m) /\ LoadedFor(m).gen = Place(m) BY <1>12, <1>13, <1>14, Passing
  <2>2. Place(m) > 0 BY <1>13 DEF Place
  <2>3. x.chain \in Chains BY <1>0, <1>1, RunType
  <2>4. x.chain # NoChain BY <2>1, <2>2, ChainTypes
  <2>. QED BY <2>1, <2>3, <2>4
<1>16. \/ /\ IsKey(m) /\ ratchets' = [ratchets EXCEPT ![d] = x.chain] /\ senderKeys' = senderKeys
       \/ /\ ~IsKey(m) /\ senderKeys' = [senderKeys EXCEPT ![d] = x.chain] /\ ratchets' = ratchets
          /\ senderKeys[d].gen = x.chain.gen /\ ratchets[d] # NoChain
  <2>1. CASE IsKey(m) BY <1>1, <1>5, <1>6, <2>1 DEF Store, IsKey
  <2>2. CASE ~IsKey(m)
    <3>1. senderKeys' = [senderKeys EXCEPT ![d] = x.chain] /\ ratchets' = ratchets
      BY <1>1, <1>5, <1>6, <2>2 DEF Store, IsKey
    <3>2. senderKeys[d].gen = x.chain.gen BY <1>6, <1>15, <2>2 DEF LoadedFor
    <3>3. senderKeys[d] # NoChain BY <1>13, <1>15, <2>2, <3>2, ChainTypes DEF Place
    <3>4. ratchets[d] # NoChain BY <3>3 DEF CalmState, Started
    <3>. QED BY <2>2, <3>1, <3>2, <3>4
  <2>. QED BY <2>1, <2>2
<1>17. \A b \in Devices : /\ ratchets'[b] = ratchets[b] \/ (b = d /\ ratchets'[b] = x.chain)
                          /\ senderKeys'[b] = senderKeys[b] \/ (b = d /\ senderKeys'[b] = x.chain)
                          /\ senderKeys'[b].gen = senderKeys[b].gen
  BY <1>0, <1>16 DEF SyncTypeOK
<1>18. ratchets'[d] # NoChain BY <1>0, <1>15, <1>16 DEF SyncTypeOK
<1>19. Listing'
  <2>1. d \in directory /\ directory # {} /\ d \in Registered BY <1>6, <1>12 DEF Registered
  <2>2. Registered' = Registered BY <1>3 DEF Registered, SameFlow
  <2>. QED BY <1>3, <1>17, <2>1, <2>2 DEF CalmState, Listing
<1>20. Started'
  <2>1. ASSUME NEW b \in Devices, ratchets'[b] = NoChain PROVE senderKeys'[b] = NoChain
    BY <1>15, <1>17, <1>18, <2>1 DEF CalmState, Started
  <2>2. ASSUME NEW f \in Opened' PROVE ratchets'[stream[f].device] # NoChain
    <3>1. f \in 1..sent /\ stream[f].device \in Devices BY <1>0, <1>11, <2>2, EnvelopeType
    <3>2. CASE f = m BY <1>6, <1>18, <3>2
    <3>3. CASE f # m
      <4>1. ratchets[stream[f].device] # NoChain BY <1>11, <2>2, <3>3 DEF CalmState, Started
      <4>. QED BY <1>15, <1>17, <3>1, <4>1
    <3>. QED BY <3>2, <3>3
  <2>3. \A b \in Devices : ChainOK(ratchets'[b]) /\ ChainOK(senderKeys'[b])
    BY <1>15, <1>17 DEF CalmState, Started
  <2>4. \A f \in Opened' : ratchets'[stream'[f].device] # NoChain BY <1>3, <2>2 DEF SameFlow
  <2>. QED BY <2>1, <2>3, <2>4 DEF Started, ChainOK
<1>21. LeftOf(m) BY <1>1, <1>5, StoreLive
<1>22. Settled' /\ \A e \in Live' : m < e
  BY <1>1, <1>2, <1>3, <1>4, <1>5, <1>11, <1>21, LeftSettles DEF CalmState
<1>23. KeysInstalled'
  <2>1. ASSUME NEW e \in Noted, IsKey(e) PROVE stream[e].gen <= senderKeys'[stream[e].device].gen
    <3>1. stream[e].device \in Devices BY <1>0, EnvelopeType DEF Noted
    <3>. QED BY <1>17, <2>1, <3>1 DEF CalmState, KeysInstalled
  <2>. QED BY <1>3, <1>11, <2>1 DEF KeysInstalled, IsKey, SameFlow
<1>24. Obeys(thread, 1..sent \ mailbox)' BY <1>3 DEF CalmState, Obeys, Own, Kin, SameFlow
<1>25. RunSweeps(w)'
  <2>1. (\A e \in Live' : Min(x.todo) <= e) /\ Stored(w) \cap Live' = {}
    <3>1. \A e \in Live' : e \in Nat BY <1>0, <1>3, LiveNext
    <3>2. m \notin Live' BY <1>13, <1>22
    <3>. QED BY <1>5, <1>10, <1>13, <1>22, <3>1, <3>2
  <2>. QED BY <1>2, <1>3, <1>4, <1>10, <2>1, StaySweeps
<1>26. RunHolds(w)'
  <2>1. \A g \in Opened' : Kin(g, m) => g <= m BY <1>11, <1>12, <1>13
  <2>2. w.pc # "store" /\ (w.pc \in {"thread", "merge"} => ~IsKey(m)) BY <1>7, <1>9
  <2>. QED BY <1>3, <1>5, <1>10, <1>12, <2>1, <2>2 DEF RunHolds, Kin, IsKey, SameFlow
<1>27. RunObeys(w)' BY <1>2, <1>3, <1>4, <1>10, <1>11, SameObeys
<1>28. RunCalm(w)' BY <1>25, <1>26, <1>27 DEF RunCalm
<1>. QED BY <1>4, <1>9, <1>19, <1>20, <1>22, <1>23, <1>24, <1>28, CalmByRun

LEMMA InstallCalm ==
  ASSUME KeptInv, KeptInv', CalmState, InOrder, NEW r \in Runs, Install(r)
  PROVE  CalmState'
<1>0. SyncTypeOK /\ RunSound(run[r]) BY DEF KeptInv
<1>1. PICK x \in Syncs : x = run[r] BY <1>0, RunType
<1>2. x.pc = "install" /\ x.pc \in InLoop BY <1>1 DEF Install, At, InLoop
<1>3. SameFlow /\ UNCHANGED <<mailbox, cursor, ratchets, thread, directory, crashes>> BY DEF Install, SameFlow, faults
<1>4. OthersIdle(r) /\ RunSweeps(x) /\ RunHolds(x) /\ RunObeys(x) BY <1>1, <1>2, Alone DEF CalmState, RunCalm, InLoop
<1>5. PICK m \in 1..sent : m = Min(x.todo) /\ Current(r) = m /\ Env(r) = stream[m] BY <1>0, <1>1, <1>2, CurrentIs
<1>6. PICK d \in Devices : d = stream[m].device BY <1>0, EnvelopeType
<1>7. IsKey(m) /\ Stored(x) = {m} BY <1>0, <1>1, <1>2, <1>5 DEF RunSound, IsKey, Stored
<1>8. PICK w \in Syncs : Becomes(r, w) /\ Passed(w, x) /\ SameTexts(w, x) /\ w.acks = x.acks \cup {m}
  <2>1. Current(r) \in Nat /\ run[r].todo # {} BY <1>0, <1>1, <1>2, <1>5 DEF RunSound
  <2>2. run' = [Skip(r) EXCEPT ![r].acks = @ \cup {Current(r)}] BY DEF Install
  <2>. QED BY <1>0, <1>1, <1>5, <2>1, <2>2, NoteEffect
<1>9. w.pc \in InLoop \cup {"save"} /\ Stored(w) = {} BY <1>8 DEF Passed, Stored, InLoop
<1>10. Noted' = Noted \cup {m} /\ Opened' = Opened /\ Opened \subseteq 1..sent
  <2>1. Noted' = Noted \cup {m} BY <1>1, <1>3, <1>4, <1>8, AloneSets, AloneNext DEF SameFlow
  <2>2. Opened' = Noted' BY <1>4, <1>8, <1>9, AloneNext
  <2>3. Opened = Noted \cup {m} BY <1>1, <1>4, <1>7, AloneSets
  <2>. QED BY <2>1, <2>2, <2>3 DEF Noted
<1>11. PICK c \in Chains : c = Chain(stream[m].gen, stream[m].at) BY <1>0, EnvelopeType, ChainTypes
<1>12. c.gen = stream[m].gen /\ c.skipped = {} BY <1>0, <1>11, EnvelopeType, ChainTypes
<1>13. senderKeys' = [senderKeys EXCEPT ![d] = c] BY <1>5, <1>6, <1>11 DEF Install, Installed
<1>14. \A g \in Opened : Kin(g, m) => g <= m BY <1>2, <1>4, <1>5 DEF RunHolds
<1>15. Listing' BY <1>3, SameListing DEF SameFlow
<1>16. Started'
  <2>1. ratchets[d] # NoChain /\ \A f \in Opened : ratchets[stream[f].device] # NoChain
    BY <1>6, <1>7, <1>1 DEF CalmState, Started, Opened
  <2>2. \A b \in Devices : ChainOK(senderKeys'[b]) BY <1>0, <1>12, <1>13 DEF SyncTypeOK, CalmState, Started, ChainOK
  <2>3. \A b \in Devices : ratchets[b] = NoChain => senderKeys'[b] = NoChain
    BY <1>0, <1>13, <2>1 DEF SyncTypeOK, CalmState, Started
  <2>4. \A b \in Devices : ChainOK(ratchets[b]) BY DEF CalmState, Started
  <2>. QED BY <1>3, <1>10, <2>1, <2>2, <2>3, <2>4 DEF Started, ChainOK, SameFlow
<1>17. LeftOf(m) BY <1>1, <1>5, InstallLive
<1>18. Settled' /\ \A e \in Live' : m < e
  BY <1>1, <1>2, <1>3, <1>4, <1>5, <1>10, <1>17, LeftSettles DEF CalmState
<1>19. KeysInstalled'
  <2>1. ASSUME NEW e \in Noted \cup {m}, IsKey(e) PROVE stream[e].gen <= senderKeys'[stream[e].device].gen
    <3>1. /\ e \in 1..sent /\ e \in Nat /\ m \in Nat /\ stream[e].device \in Devices
          /\ stream[e].gen \in Nat /\ stream[m].gen \in Nat
      BY <1>0, <2>1, EnvelopeType DEF Noted
    <3>2. CASE Kin(e, m)
      <4>1. senderKeys'[stream[e].device].gen = stream[m].gen BY <1>0, <1>6, <1>12, <1>13, <3>2 DEF Kin, SyncTypeOK
      <4>2. CASE e = m BY <3>1, <4>1, <4>2
      <4>3. CASE e # m
        <5>1. e <= m BY <1>14, <2>1, <3>2, <4>3 DEF Opened
        <5>2. e < m BY <3>1, <4>3, <5>1
        <5>3. stream[e].gen <= stream[m].gen BY <1>0, <1>7, <2>1, <3>1, <3>2, <5>2, OrderOf
        <5>. QED BY <4>1, <5>3
      <4>. QED BY <4>2, <4>3
    <3>3. CASE ~Kin(e, m)
      <4>1. e \in Noted BY <2>1, <3>3 DEF Kin
      <4>2. senderKeys'[stream[e].device] = senderKeys[stream[e].device]
        BY <1>0, <1>6, <1>13, <3>1, <3>3 DEF Kin, SyncTypeOK
      <4>. QED BY <2>1, <4>1, <4>2 DEF CalmState, KeysInstalled
    <3>. QED BY <3>2, <3>3
  <2>. QED BY <1>3, <1>10, <2>1 DEF KeysInstalled, IsKey, SameFlow
<1>20. Obeys(thread, 1..sent \ mailbox)' BY <1>3 DEF CalmState, Obeys, Own, Kin, SameFlow
<1>21. RunSweeps(w)' BY <1>1, <1>2, <1>3, <1>4, <1>5, <1>8, <1>18, PassSweeps
<1>22. RunHolds(w)' BY <1>8, PassHolds
<1>23. RunObeys(w)'
  <2>1. ~Own(m) BY <1>7 DEF Own, IsKey
  <2>. QED BY <1>2, <1>3, <1>4, <1>8, <1>9, <1>10, <2>1, SameObeys
<1>24. RunCalm(w)' BY <1>21, <1>22, <1>23 DEF RunCalm
<1>. QED BY <1>4, <1>8, <1>15, <1>16, <1>18, <1>19, <1>20, <1>24, CalmByRun
-----------------------------------------------------------------------------
(* Saving, acknowledging and the other steps.                               *)

LEMMA SaveRowCalm ==
  ASSUME KeptInv, KeptInv', CalmState, NEW r \in Runs, SaveRow(r)
  PROVE  CalmState'
<1>0. SyncTypeOK /\ RunSound(run[r]) BY DEF KeptInv
<1>1. PICK x \in Syncs : x = run[r] BY <1>0, RunType
<1>2. x.pc = "rows" /\ x.loaded /\ x.rows \subseteq DOMAIN x.texts BY <1>0, <1>1 DEF SaveRow, At, RunSound
<1>3. UNCHANGED <<stream, sent, mailbox, cursor, ratchets, senderKeys, directory, crashes>> BY DEF SaveRow, faults
<1>4. OthersIdle(r) /\ RunSweeps(x) /\ RunObeys(x) BY <1>1, <1>2, Alone DEF CalmState, RunCalm
<1>5. Listing' /\ Live' = Live BY <1>3, SameListing, SameLive
<1>6. PICK w \in Syncs, t \in x.rows :
        /\ Becomes(r, w) /\ w.pc = "rows" /\ SameBatch(w, x) /\ SameTexts(w, x)
        /\ w.acks = x.acks /\ w.rows = x.rows \ {t} /\ thread' = Put(thread, t, x.texts[t])
  BY <1>0, <1>1, SaveRowEffect
<1>7. Stored(w) = {} /\ Stored(x) = {} BY <1>2, <1>6 DEF Stored
<1>8. /\ DOMAIN thread' = DOMAIN thread \cup {t} /\ thread'[t] = x.texts[t]
      /\ \A u \in DOMAIN thread \ {t} : thread'[u] = thread[u]
  BY <1>6 DEF Put
<1>9. Noted' = Noted /\ 1..sent \ mailbox \subseteq Noted
  BY <1>1, <1>3, <1>4, <1>6, AloneSets, AloneNext DEF Noted
<1>10. Obeys(x.texts, Noted) /\ DOMAIN thread \subseteq DOMAIN x.texts BY <1>2, <1>4 DEF RunObeys
<1>11. Obeys(thread', 1..sent \ mailbox)
  <2>1. SUFFICES ASSUME NEW f \in 1..sent \ mailbox, Own(f), stream[f].target \in DOMAIN thread'
                PROVE  thread'[stream[f].target]
    BY DEF Obeys
  <2>2. CASE stream[f].target = t
    <3>1. f \in Noted /\ t \in DOMAIN x.texts BY <1>2, <1>9
    <3>. QED BY <1>8, <1>10, <2>1, <2>2, <3>1 DEF Obeys
  <2>3. CASE stream[f].target # t BY <1>8, <2>1, <2>3 DEF CalmState, Obeys
  <2>. QED BY <2>2, <2>3
<1>12. RunSweeps(w)' BY <1>2, <1>4, <1>5, <1>6 DEF RunSweeps, InLoop, SameBatch
<1>13. RunHolds(w)' BY <1>6 DEF RunHolds, InLoop
<1>14. RunObeys(w)'
  <2>1. w.loaded /\ w.texts = x.texts BY <1>2, <1>6 DEF SameTexts
  <2>2. Obeys(w.texts, Noted)' BY <1>3, <1>9, <1>10, <2>1 DEF Obeys, Own, Kin
  <2>3. DOMAIN thread' \subseteq DOMAIN w.texts BY <1>2, <1>8, <1>10, <2>1
  <2>4. /\ Newest(DOMAIN x.texts) \subseteq DOMAIN thread \cup x.rows
        /\ \A u \in Newest(DOMAIN x.texts) \ x.rows : thread[u] = x.texts[u]
    BY <1>2, <1>4 DEF RunObeys
  <2>5. Newest(DOMAIN w.texts) \subseteq DOMAIN thread' \cup w.rows BY <1>6, <1>8, <2>1, <2>4
  <2>6. \A u \in Newest(DOMAIN w.texts) \ w.rows : thread'[u] = w.texts[u] BY <1>6, <1>8, <2>1, <2>4
  <2>. QED BY <1>6, <2>1, <2>2, <2>3, <2>5, <2>6 DEF RunObeys
<1>15. RunCalm(w)' BY <1>12, <1>13, <1>14 DEF RunCalm
<1>16. cursor' \in mailbox => \A e \in Live : cursor' < e BY <1>3 DEF CalmState, Settled
<1>. QED BY <1>1, <1>3, <1>4, <1>5, <1>6, <1>7, <1>11, <1>15, <1>16, SavingCalm DEF SameFlow

\* The trim keeps no row that the run did not have among its newest.
LEMMA TrimCalm ==
  ASSUME KeptInv, KeptInv', CalmState, NEW r \in Runs, Trim(r)
  PROVE  CalmState'
<1>0. SyncTypeOK /\ RunSound(run[r]) BY DEF KeptInv
<1>1. PICK x \in Syncs : x = run[r] BY <1>0, RunType
<1>2. x.pc = "rows" /\ x.loaded /\ x.rows = {} /\ Go(r, "cursor") BY <1>0, <1>1 DEF Trim, At, RunSound
<1>3. UNCHANGED <<stream, sent, mailbox, cursor, ratchets, senderKeys, directory, crashes>> BY DEF Trim, faults
<1>4. OthersIdle(r) /\ RunSweeps(x) /\ RunObeys(x) BY <1>1, <1>2, Alone DEF CalmState, RunCalm
<1>5. Listing' /\ Live' = Live BY <1>3, SameListing, SameLive
<1>6. "cursor" \in Pcs BY DEF Pcs
<1>7. PICK w \in Syncs : Becomes(r, w) /\ w.pc = "cursor" /\ SameRun(w, x) BY <1>0, <1>1, <1>2, <1>6, GoEffect
<1>8. w.todo = x.todo /\ w.last = x.last /\ w.acks = x.acks /\ w.loaded = x.loaded /\ Stored(w) = {}
  BY <1>7 DEF SameRun, SameBatch, SameTexts, Stored
<1>9. /\ DOMAIN thread' = Newest(DOMAIN thread) /\ Newest(DOMAIN thread) \subseteq DOMAIN thread
      /\ \A t \in Newest(DOMAIN thread) : thread'[t] = thread[t]
  BY <1>0, TrimThread
<1>10. Obeys(thread', 1..sent \ mailbox) BY <1>9 DEF CalmState, Obeys
<1>11. sent \in Nat /\ DOMAIN thread \in SUBSET (1..sent) /\ DOMAIN x.texts \in SUBSET (1..sent)
  BY <1>0, <1>1, EnvelopeCount DEF SyncTypeOK, RunSound
<1>12. /\ Obeys(x.texts, Noted) /\ DOMAIN thread \subseteq DOMAIN x.texts
       /\ Newest(DOMAIN x.texts) \subseteq DOMAIN thread
       /\ \A t \in Newest(DOMAIN x.texts) : thread[t] = x.texts[t]
  BY <1>2, <1>4 DEF RunObeys
<1>13. ASSUME NEW t \in Newest(DOMAIN thread) PROVE t \in Newest(DOMAIN x.texts)
  <2>1. t \in DOMAIN thread /\ t \in DOMAIN x.texts /\ t \in Nat BY <1>9, <1>11, <1>12
  <2>2. Had(t, DOMAIN x.texts) BY <2>1 DEF Had
  <2>3. Had(t, Newest(DOMAIN x.texts)) BY <1>11, <2>1, <2>2, HadNewest
  <2>4. SUFFICES ASSUME Cardinality({u \in Newest(DOMAIN x.texts) : u > t}) >= Kept PROVE FALSE BY <2>3 DEF Had
  <2>5. {u \in DOMAIN thread : u > t} \in SUBSET (1..sent) BY <1>11
  <2>6. {u \in Newest(DOMAIN x.texts) : u > t} \in SUBSET {u \in DOMAIN thread : u > t} BY <1>12
  <2>7. Cardinality({u \in Newest(DOMAIN x.texts) : u > t}) <= Cardinality({u \in DOMAIN thread : u > t})
    BY <1>11, <2>5, <2>6, Fewer
  <2>8. {u \in Newest(DOMAIN x.texts) : u > t} \in SUBSET (1..sent) BY <2>5, <2>6
  <2>9. /\ Cardinality({u \in Newest(DOMAIN x.texts) : u > t}) \in Nat
        /\ Cardinality({u \in DOMAIN thread : u > t}) \in Nat
    BY <1>11, <2>5, <2>8, Some
  <2>10. Cardinality({u \in DOMAIN thread : u > t}) < Kept BY DEF Newest
  <2>. QED BY <2>4, <2>7, <2>9, <2>10, SyncAssumption
<1>14. Obeys(thread', x.acks)
  <2>1. SUFFICES ASSUME NEW f \in x.acks, Own(f), stream[f].target \in Newest(DOMAIN thread)
                PROVE  thread'[stream[f].target]
    BY <1>9 DEF Obeys
  <2>2. f \in Noted
    <3>1. f \in 1..sent BY <1>0, <1>1 DEF RunSound
    <3>. QED BY <1>1, <3>1 DEF Noted
  <2>3. stream[f].target \in DOMAIN x.texts BY <1>9, <1>12, <2>1
  <2>4. x.texts[stream[f].target] BY <1>12, <2>1, <2>2, <2>3 DEF Obeys
  <2>5. thread'[stream[f].target] = x.texts[stream[f].target] BY <1>9, <1>12, <1>13, <2>1
  <2>. QED BY <2>4, <2>5
<1>15. RunSweeps(w)' BY <1>2, <1>4, <1>5, <1>7, <1>8 DEF RunSweeps, InLoop
<1>16. RunHolds(w)' BY <1>7 DEF RunHolds, InLoop
<1>17. RunObeys(w)'
  <2>1. Obeys(thread, w.acks)' BY <1>3, <1>8, <1>14 DEF Obeys, Own, Kin
  <2>. QED BY <1>2, <1>7, <1>8, <2>1 DEF RunObeys, InLoop
<1>18. RunCalm(w)' BY <1>15, <1>16, <1>17 DEF RunCalm
<1>19. cursor' \in mailbox => \A e \in Live : cursor' < e BY <1>3 DEF CalmState, Settled
<1>. QED BY <1>1, <1>3, <1>4, <1>5, <1>7, <1>8, <1>10, <1>18, <1>19, SavingCalm DEF SameFlow

LEMMA SaveCursorCalm ==
  ASSUME KeptInv, KeptInv', CalmState, NEW r \in Runs, SaveCursor(r)
  PROVE  CalmState'
<1>0. SyncTypeOK /\ RunSound(run[r]) BY DEF KeptInv
<1>1. PICK x \in Syncs : x = run[r] BY <1>0, RunType
<1>2. x.pc = "cursor" /\ cursor' = x.last BY <1>1 DEF SaveCursor, At
<1>3. UNCHANGED <<stream, sent, mailbox, thread, ratchets, senderKeys, directory, crashes>> BY DEF SaveCursor, faults
<1>4. OthersIdle(r) /\ RunSweeps(x) /\ RunObeys(x) BY <1>1, <1>2, Alone DEF CalmState, RunCalm
<1>5. Listing' BY <1>3, SameListing
<1>6. PICK w \in Syncs : Becomes(r, w) /\ (w = Idle \/ (w.pc = "ack" /\ SameRun(w, x)))
  BY <1>0, <1>1, SaveCursorEffect
<1>7. cursor' \in mailbox => \A e \in Live : cursor' < e BY <1>2, <1>4 DEF RunSweeps
<1>8. Obeys(thread', 1..sent \ mailbox) BY <1>3 DEF CalmState
<1>9. w.acks \subseteq x.acks /\ Stored(w) = {} /\ RunCalm(w)'
  <2>1. CASE w = Idle
    <3>1. w.pc = "idle" /\ w.acks = {} BY <2>1, IdleIs
    <3>. QED BY <3>1 DEF Stored, RunCalm
  <2>2. CASE w.pc = "ack" /\ SameRun(w, x)
    <3>1. w.acks = x.acks /\ w.loaded = x.loaded BY <2>2 DEF SameRun, SameTexts
    <3>2. RunSweeps(w)' /\ RunHolds(w)' BY <2>2 DEF RunSweeps, RunHolds, InLoop
    <3>3. Obeys(thread, x.acks) /\ (~x.loaded => \A f \in x.acks : ~Own(f)) BY <1>2, <1>4 DEF RunObeys
    <3>4. RunObeys(w)' BY <1>3, <2>2, <3>1, <3>3 DEF RunObeys, Obeys, Own, Kin, InLoop
    <3>. QED BY <2>2, <3>1, <3>2, <3>4 DEF Stored, RunCalm
  <2>. QED BY <1>6, <2>1, <2>2
<1>. QED BY <1>1, <1>3, <1>4, <1>5, <1>6, <1>7, <1>8, <1>9, SavingCalm DEF SameFlow

LEMMA AckCalm ==
  ASSUME KeptInv, KeptInv', CalmState, NEW r \in Runs, Ack(r)
  PROVE  CalmState'
<1>0. SyncTypeOK /\ RunSound(run[r]) BY DEF KeptInv
<1>1. PICK x \in Syncs : x = run[r] BY <1>0, RunType
<1>2. x.pc = "ack" /\ mailbox' = mailbox \ x.acks /\ run' = [run EXCEPT ![r] = Idle] BY <1>1 DEF Ack, At
<1>3. UNCHANGED <<stream, sent, cursor, thread, ratchets, senderKeys, directory, crashes>> BY DEF Ack, disk, faults
<1>4. OthersIdle(r) /\ RunObeys(x) /\ Stored(x) = {} BY <1>1, <1>2, Alone DEF CalmState, RunCalm, Stored
<1>5. Listing' BY <1>3, SameListing
<1>6. Live' \subseteq Live BY <1>2, <1>3 DEF Live, LoadedFor, Place, IsKey, Ratchet
<1>7. PICK w \in Syncs : w = Idle BY IdleIs
<1>8. Becomes(r, w) /\ w.pc = "idle" /\ w.acks = {} /\ Stored(w) = {} BY <1>0, <1>2, <1>7, RestEffect, IdleIs DEF Stored
<1>9. Noted' = Noted /\ Opened' = Opened
  <2>1. Noted = {e \in 1..sent : e \notin mailbox \/ e \in x.acks} /\ Opened = Noted BY <1>1, <1>4, AloneSets
  <2>2. Noted' = {e \in 1..sent : e \notin mailbox'} /\ Opened' = Noted' BY <1>3, <1>4, <1>8, AloneNext
  <2>. QED BY <1>2, <2>1, <2>2
<1>10. Started' BY <1>3, <1>9 DEF CalmState, Started
<1>11. Settled' BY <1>2, <1>3, <1>6, <1>9 DEF CalmState, Settled, Kin
<1>12. KeysInstalled' BY <1>3, <1>9 DEF CalmState, KeysInstalled, IsKey
<1>13. Obeys(thread, x.acks) BY <1>2, <1>4 DEF RunObeys
<1>14. \A f \in 1..sent \ mailbox' : f \in 1..sent \ mailbox \/ f \in x.acks BY <1>2
<1>15. Obeys(thread, 1..sent \ mailbox') BY <1>13, <1>14 DEF CalmState, Obeys
<1>16. Obeys(thread, 1..sent \ mailbox)' BY <1>3, <1>15 DEF Obeys, Own, Kin
<1>17. RunCalm(w)' BY <1>8 DEF RunCalm
<1>. QED BY <1>4, <1>5, <1>8, <1>10, <1>11, <1>12, <1>16, <1>17, CalmByRun

LEMMA ArriveCalm ==
  ASSUME KeptInv, KeptInv', CalmState, Arrive
  PROVE  CalmState'
<1>0. SyncTypeOK /\ \A q \in Runs : RunSound(run[q]) BY DEF KeptInv
<1>1. /\ sent' = sent + 1 /\ mailbox' = mailbox \cup {sent + 1}
      /\ UNCHANGED <<stream, cursor, ratchets, senderKeys, thread, directory, run, crashes>>
  BY DEF Arrive, disk, faults
<1>2. PICK n \in Nat : n = sent BY <1>0, EnvelopeCount
<1>3. mailbox \subseteq 1..n /\ cursor \in 0..n /\ cursor \in Nat BY <1>0, <1>2 DEF SyncTypeOK
<1>4. sent' = n + 1 /\ mailbox' = mailbox \cup {n + 1} /\ 1..n \subseteq 1..n + 1 /\ \A k \in 1..n + 1 : k \in 1..n \/ k = n + 1
  BY <1>1, <1>2
<1>5. \A q \in Runs : run[q].acks \subseteq 1..n /\ Stored(run[q]) \subseteq 1..n
  <2>1. ASSUME NEW q \in Runs PROVE Stored(run[q]) \subseteq 1..n
    <3>1. run[q].pc \in {"install", "thread", "merge"} => Min(run[q].todo) \in 1..n
      BY <1>0, <1>2, CurrentIs DEF InLoop
    <3>. QED BY <3>1 DEF Stored
  <2>. QED BY <1>0, <1>2, <2>1 DEF RunSound
<1>6. Noted' = Noted /\ Opened' = Opened /\ Opened \subseteq 1..n
  <2>1. \A k \in 1..n + 1 : k \notin mailbox' => k \in 1..n BY <1>4
  <2>2. \A k \in 1..n : k \in mailbox' <=> k \in mailbox BY <1>2, <1>3, <1>4
  <2>3. Noted' = Noted
    <3>1. \A k \in Noted' : k \in Noted BY <1>1, <1>2, <1>4, <1>5, <2>1, <2>2 DEF Noted
    <3>2. \A k \in Noted : k \in Noted' BY <1>1, <1>2, <1>4, <2>2 DEF Noted
    <3>. QED BY <3>1, <3>2
  <2>4. Opened' = Opened BY <1>1, <2>3 DEF Opened, Stored
  <2>. QED BY <1>2, <1>5, <2>3, <2>4 DEF Opened, Noted
<1>7. Live' \subseteq Live \cup {n + 1} BY <1>1, <1>4 DEF Live, LoadedFor, Place, IsKey, Ratchet
<1>8. Listing'
  <2>1. Registered \subseteq Registered' BY <1>1, <1>2, <1>4 DEF Registered
  <2>. QED BY <1>1, <2>1 DEF CalmState, Listing
<1>9. Started' BY <1>1, <1>6 DEF CalmState, Started
<1>10. cursor' \in mailbox' => cursor \in mailbox BY <1>1, <1>3, <1>4
<1>11. Settled'
  <2>1. \A f \in Opened', e \in Live' : Kin(e, f) => ~(e < f) BY <1>6, <1>7 DEF CalmState, Settled
  <2>2. cursor' \in mailbox' => \A e \in Live' : cursor' < e BY <1>1, <1>3, <1>7, <1>10 DEF CalmState, Settled
  <2>. QED BY <1>1, <2>1, <2>2 DEF Settled, Kin
<1>12. KeysInstalled' BY <1>1, <1>6 DEF CalmState, KeysInstalled, IsKey
<1>13. 1..sent' \ mailbox' \subseteq 1..sent \ mailbox BY <1>2, <1>4
<1>14. Obeys(thread, 1..sent \ mailbox)' BY <1>1, <1>13 DEF CalmState, Obeys, Own, Kin
<1>15. ASSUME NEW q \in Runs PROVE RunCalm(run[q])'
  <2>1. PICK x \in Syncs : x = run[q] BY <1>0, RunType
  <2>2. x.pc # "idle" => RunSweeps(x) /\ RunHolds(x) /\ RunObeys(x) BY <2>1 DEF CalmState, RunCalm
  <2>3. x.last \in 0..n /\ x.last \in Nat BY <1>0, <1>2, <2>1 DEF RunSound
  <2>4. x.pc \in InLoop => Min(x.todo) \in 1..n BY <1>0, <1>2, <2>1, CurrentIs
  <2>5. RunSweeps(x) => RunSweeps(x)'
    <3>1. SUFFICES ASSUME RunSweeps(x) PROVE RunSweeps(x)' OBVIOUS
    <3>2. ASSUME x.pc \in InLoop
          PROVE  /\ cursor' \in mailbox' => cursor' < Min(x.todo)
                 /\ x.todo \subseteq mailbox' /\ \A t \in x.todo : t <= x.last
                 /\ \A e \in mailbox' : Min(x.todo) <= e /\ e <= x.last => e \in x.todo
                 /\ \A a \in x.acks : a < Min(x.todo)
                 /\ \A e \in Live' : Min(x.todo) <= e
                 /\ Stored(x) \cap Live' = {}
      <4>1. PICK m \in 1..n : m = Min(x.todo) BY <2>4, <3>2
      <4>2. \A e \in mailbox' : m <= e /\ e <= x.last => e \in x.todo BY <1>4, <2>3, <3>1, <3>2, <4>1 DEF RunSweeps
      <4>3. \A e \in Live' : m <= e BY <1>7, <3>1, <3>2, <4>1 DEF RunSweeps
      <4>4. Stored(x) \subseteq {m} /\ m # n + 1 BY <4>1 DEF Stored
      <4>5. Stored(x) \cap Live' = {} BY <1>7, <3>1, <3>2, <4>4 DEF RunSweeps
      <4>. QED BY <1>1, <1>4, <1>10, <3>1, <3>2, <4>1, <4>2, <4>3, <4>5 DEF RunSweeps
    <3>3. x.pc \in {"save", "rows", "cursor"} => \A e \in Live' : x.last < e BY <1>7, <2>3, <3>1 DEF RunSweeps
    <3>4. x.pc = "fetch" => x.after = cursor' BY <1>1, <3>1 DEF RunSweeps
    <3>. QED BY <3>2, <3>3, <3>4 DEF RunSweeps
  <2>6. RunHolds(x) => RunHolds(x)' BY <1>1, <1>6 DEF RunHolds, Kin, IsKey, LoadedFor, Place, Ratchet
  <2>7. RunObeys(x) => RunObeys(x)' BY <1>1, <1>6 DEF RunObeys, Obeys, Own, Kin
  <2>8. RunCalm(x)' BY <2>2, <2>5, <2>6, <2>7 DEF RunCalm
  <2>. QED BY <1>1, <2>1, <2>8 DEF RunCalm, RunSweeps, RunHolds, RunObeys
<1>16. OneBusy' BY <1>1 DEF CalmState, OneBusy
<1>. QED BY <1>8, <1>9, <1>11, <1>12, <1>14, <1>15, <1>16 DEF CalmState

LEMMA CrashCalm ==
  ASSUME KeptInv, KeptInv', CalmState, Crash
  PROVE  CalmState'
<1>0. crashes \in Nat BY DEF KeptInv, SyncTypeOK
<1>1. /\ crashes' = crashes + 1 /\ directory' = {}
      /\ UNCHANGED <<stream, sent, mailbox, cursor, ratchets, senderKeys, thread>>
  BY DEF Crash, disk
<1>2. \A q \in Runs : run'[q].pc = "idle" /\ run'[q].acks = {} /\ Stored(run'[q]) = {}
  <2>1. \A q \in Runs : run'[q] = Idle BY DEF Crash
  <2>. QED BY <2>1, IdleIs DEF Stored
<1>3. Noted' \subseteq Noted /\ Opened' \subseteq Opened
  <2>1. Noted' \subseteq Noted BY <1>1, <1>2 DEF Noted
  <2>2. Opened' = Noted' \cup UNION {Stored(run'[q]) : q \in Runs} BY DEF Opened, Stored
  <2>3. Opened' = Noted' BY <1>2, <2>2
  <2>. QED BY <2>1, <2>3 DEF Opened
<1>4. Live' = Live BY <1>1, SameLive
<1>5. Listing' BY <1>0, <1>1 DEF CalmState, Listing, Registered
<1>6. Started' BY <1>1, <1>3 DEF CalmState, Started
<1>7. Settled' BY <1>1, <1>3, <1>4 DEF CalmState, Settled, Kin
<1>8. KeysInstalled' BY <1>1, <1>3 DEF CalmState, KeysInstalled, IsKey
<1>9. Obeys(thread, 1..sent \ mailbox)' BY <1>1 DEF CalmState, Obeys, Own, Kin
<1>10. OneBusy' /\ \A q \in Runs : RunCalm(run[q])' BY <1>2 DEF OneBusy, RunCalm
<1>. QED BY <1>5, <1>6, <1>7, <1>8, <1>9, <1>10 DEF CalmState

LEMMA CalmInit == ASSUME SyncInit PROVE CalmState
<1>0. KeptInv BY KeptInit
<1>1. \A q \in Runs : run[q].pc = "idle" /\ run[q].acks = {} /\ Stored(run[q]) = {}
  <2>1. \A q \in Runs : run[q] = Idle BY DEF SyncInit
  <2>. QED BY <2>1, IdleIs DEF Stored
<1>2. 1..sent = {} /\ mailbox = {} BY DEF SyncInit
<1>3. Noted = {} /\ Opened = {} /\ Live = {} BY <1>1, <1>2 DEF Noted, Opened, Live
<1>4. \A d \in Devices : ratchets[d] = NoChain /\ senderKeys[d] = NoChain BY DEF SyncInit
<1>5. Listing /\ Started /\ Settled /\ KeysInstalled
  BY <1>2, <1>3, <1>4 DEF Listing, Started, Settled, KeysInstalled, ChainOK, NoChain
<1>6. OneBusy /\ Obeys(thread, 1..sent \ mailbox) /\ \A q \in Runs : RunCalm(run[q])
  BY <1>1, <1>2 DEF OneBusy, Obeys, RunCalm
<1>. QED BY <1>5, <1>6 DEF CalmState

LEMMA CalmStays ==
  ASSUME KeptInv, Calm', [SyncNext]_syncVars
  PROVE  Calm /\ InOrder /\ (\A r \in Runs : RequestFails(r) => crashes = 0) /\ ~overlapped'
<1>1. overlapped \in BOOLEAN /\ crashes \in Nat /\ failures \in Nat BY DEF KeptInv, SyncTypeOK
<1>2. /\ stream' = stream /\ (overlapped => overlapped')
      /\ crashes' = crashes \/ crashes' = crashes + 1
      /\ failures' = failures \/ failures' = failures + 1
  BY <1>1 DEF SyncNext, syncVars, Arrive, Crash, BeginSync, RequestFails, Work, Fetch, Lookup, Load, Store, Install,
              LoadThread, Merge, BeginSave, SaveRow, Trim, SaveCursor, Ack, faults
<1>3. InOrder BY <1>2 DEF Calm, InOrder, IsKey, Kin, Cipher
<1>4. \A r \in Runs : RequestFails(r) => crashes = 0 BY <1>1 DEF Calm, RequestFails
<1>. QED BY <1>1, <1>2, <1>3, <1>4 DEF Calm

LEMMA CalmNext ==
  ASSUME KeptInv, KeptInv', Calm => CalmState, Calm', [SyncNext]_syncVars
  PROVE  CalmState'
<1>0. CalmState /\ InOrder /\ (\A r \in Runs : RequestFails(r) => crashes = 0) /\ ~overlapped' BY CalmStays
<1>1. CASE UNCHANGED syncVars
  <2>1. UNCHANGED <<stream, sent, mailbox, cursor, ratchets, senderKeys, thread, directory, run, crashes>>
    BY <1>1 DEF syncVars, disk, faults
  <2>2. Live' = Live BY <2>1, SameLive
  <2>3. Noted' = Noted /\ Opened' = Opened BY <2>1 DEF Noted, Opened, Stored
  <2>4. Listing' /\ Started' /\ Settled' /\ KeysInstalled' /\ OneBusy'
    BY <1>0, <2>1, <2>2, <2>3 DEF CalmState, Listing, Registered, Started, Settled, KeysInstalled, OneBusy, Kin, IsKey
  <2>5. Obeys(thread, 1..sent \ mailbox)' BY <1>0, <2>1 DEF CalmState, Obeys, Own, Kin
  <2>6. ASSUME NEW q \in Runs PROVE RunCalm(run[q])'
    <3>1. RunCalm(run[q]) /\ run'[q] = run[q] BY <1>0, <2>1 DEF CalmState
    <3>2. RunSweeps(run[q]) => RunSweeps(run[q])' BY <2>1, <2>2 DEF RunSweeps, Stored
    <3>3. RunHolds(run[q]) => RunHolds(run[q])' BY <2>1, <2>3 DEF RunHolds, Kin, IsKey, LoadedFor, Place, Ratchet
    <3>4. RunObeys(run[q]) => RunObeys(run[q])' BY <2>1, <2>3 DEF RunObeys, Obeys, Own, Kin
    <3>. QED BY <3>1, <3>2, <3>3, <3>4 DEF RunCalm
  <2>. QED BY <2>4, <2>5, <2>6 DEF CalmState
<1>2. CASE Arrive BY <1>0, <1>2, ArriveCalm
<1>3. CASE Crash BY <1>0, <1>3, CrashCalm
<1>4. ASSUME NEW r \in Runs, BeginSync(r) PROVE CalmState' BY <1>0, <1>4, BeginCalm
<1>5. ASSUME NEW r \in Runs, RequestFails(r) PROVE CalmState' BY <1>0, <1>5, FailCalm
<1>6. ASSUME NEW r \in Runs, Work(r) PROVE CalmState'
  BY <1>0, <1>6, FetchCalm, LookupCalm, LoadCalm, StoreCalm, InstallCalm, LoadThreadCalm, MergeCalm,
     BeginSaveCalm, SaveRowCalm, TrimCalm, SaveCursorCalm, AckCalm
     DEF Work
<1>. QED BY <1>1, <1>2, <1>3, <1>4, <1>5, <1>6 DEF SyncNext

\* In calm, what a run saves is not undone by a later one: a device's own deletions
\* stick, and an acknowledged sender key stays in use until a later one replaces it.
THEOREM SavesAreKept == SyncSpec => []SavesStick
<1>1. KeptInv /\ (Calm => CalmState) => SavesStick
  <2>1. SUFFICES ASSUME KeptInv, Calm => CalmState, Calm, CalmState PROVE SavesStick
    BY DEF SavesStick, DeletionsStick, KeysAdvance
  <2>2. DeletionsStick BY <2>1 DEF DeletionsStick, Acked, Of, CalmState, Obeys, Own, Kin
  <2>3. KeysAdvance
    <3>1. SUFFICES ASSUME NEW e \in Acked("key") PROVE senderKeys[stream[e].device].gen >= stream[e].gen
      BY DEF KeysAdvance
    <3>2. SyncTypeOK BY <2>1 DEF KeptInv
    <3>3. e \in 1..sent /\ e \in Noted /\ IsKey(e) BY DEF Acked, Of, Noted, IsKey
    <3>4. stream[e].gen <= senderKeys[stream[e].device].gen BY <2>1, <3>3 DEF CalmState, KeysInstalled
    <3>. QED BY <3>4
  <2>. QED BY <2>2, <2>3 DEF SavesStick
<1>2. SyncInit => KeptInv /\ (Calm => CalmState) BY KeptInit, CalmInit
<1>3. KeptInv /\ (Calm => CalmState) /\ [SyncNext]_syncVars => KeptInv' /\ (Calm => CalmState)'
  BY KeptNext, CalmNext
<1>. QED BY <1>1, <1>2, <1>3, PTL DEF SyncSpec
-----------------------------------------------------------------------------
(* Without overlaps, what can still be opened is not lost: one lemma for each *)
(* step.                                                                    *)

LEMMA AheadStepped ==
  ASSUME NEW c \in Chains, ChainOK(c), NEW g, NEW n \in Nat, Opens(c, g, n)
  PROVE  /\ c.next <= Stepped(c, n).next
         /\ \A i \in Nat : Ahead(Stepped(c, n), i) <=> Ahead(c, i) /\ i # n
<1>1. c.next \in Nat /\ c.skipped \in SUBSET Nat BY DEF Chains
<1>2. PICK s \in Chains : s = Stepped(c, n) BY SteppedType
<1>3. MaxSkip \in Nat BY SyncAssumption
<1>4. CASE n \in c.skipped
  <2>1. s.next = c.next /\ s.skipped = c.skipped \ {n} /\ n < c.next BY <1>2, <1>4, SteppedType DEF ChainOK
  <2>2. \A i \in Nat : Ahead(s, i) <=> Ahead(c, i) /\ i # n BY <1>1, <2>1 DEF Ahead
  <2>. QED BY <1>1, <1>2, <2>1, <2>2
<1>5. CASE n \notin c.skipped
  <2>1. s.next = n + 1 /\ s.skipped = c.skipped \cup (c.next .. n - 1) BY <1>2, <1>5, SteppedType
  <2>2. c.next <= n BY <1>1, <1>3, <1>5 DEF Opens
  <2>3. ASSUME NEW i \in Nat PROVE Ahead(s, i) <=> Ahead(c, i) /\ i # n
    <3>1. i \in c.next .. n - 1 <=> c.next <= i /\ i < n BY <1>1
    <3>. QED BY <1>1, <1>5, <2>1, <2>2, <3>1 DEF Ahead
  <2>. QED BY <1>1, <1>2, <2>1, <2>2, <2>3
<1>. QED BY <1>4, <1>5

LEMMA DomainType ==
  ASSUME SyncTypeOK, NEW e \in DOMAIN stream
  PROVE  /\ e \in Nat /\ stream[e].device \in Devices /\ stream[e].gen \in Nat /\ stream[e].n \in Nat
         /\ stream[e].at \in Nat /\ (IsKey(e) \/ Cipher(e) => stream[e].gen > 0)
<1>1. stream \in Seq(Envelopes) BY StreamsAssumption DEF SyncTypeOK
<1>2. e \in Nat /\ stream[e] \in Envelopes BY <1>1
<1>3. stream[e].kind # "closed" => stream[e].gen > 0 BY StreamsAssumption DEF SyncTypeOK
<1>4. IsKey(e) \/ Cipher(e) => stream[e].kind # "closed" BY DEF IsKey, Cipher
<1>5. PICK v : v = stream[e] OBVIOUS
<1>6. v.device \in Devices /\ v.gen \in Nat /\ v.n \in Nat /\ v.at \in Nat BY <1>2, <1>5 DEF Envelopes
<1>. QED BY <1>2, <1>3, <1>4, <1>5, <1>6

LEMMA KeyOfIs ==
  ASSUME SyncTypeOK, Numbered, NEW e \in DOMAIN stream, Cipher(e)
  PROVE  /\ KeyOf(e) \in DOMAIN stream /\ Under(e, KeyOf(e)) /\ KeyOf(e) < e /\ stream[KeyOf(e)].at <= stream[e].n
         /\ \A k \in DOMAIN stream : Under(e, k) => k = KeyOf(e)
<1>1. PICK k \in DOMAIN stream : Under(e, k) /\ k < e /\ stream[k].at <= stream[e].n BY DEF Numbered
<1>2. ASSUME NEW j \in DOMAIN stream, Under(e, j) PROVE j = k BY <1>1, <1>2 DEF Numbered, Under, Kin
<1>3. KeyOf(e) = k
  <2>1. KeyOf(e) \in DOMAIN stream /\ Under(e, KeyOf(e)) BY <1>1 DEF KeyOf
  <2>. QED BY <1>2, <2>1
<1>. QED BY <1>1, <1>2, <1>3

\* A step of one run that opens nothing and takes nothing from the mailbox.
LEMMA QuietWaits ==
  ASSUME KeptInv, KeptInv', WaitState, NEW r \in Runs, NEW w \in Syncs, OthersIdle(r), Becomes(r, w),
         SameFlow, UNCHANGED <<mailbox, ratchets, senderKeys, dropped>>, failures' = 0 => failures = 0,
         run[r].pc # "install", RunLone(w)',
         \A e \in 1..sent : Had(e, DOMAIN thread) => Had(e, DOMAIN thread'),
         \A e \in Hand(run[r]) \ Hand(w) : stream[e].kind = "text" => Had(e, DOMAIN thread'),
         \A k \in w.acks : IsKey(k) => k \in run[r].acks,
         failures' = 0 => \A k \in run[r].acks : IsKey(k) => k \in w.acks,
         \A f \in w.acks \ run[r].acks : ~Ahead(senderKeys[stream[f].device], stream[f].n)
  PROVE  WaitState'
<1>1. /\ OneBusy' /\ OthersIdle(r)'
      /\ Noted = {e \in 1..sent : e \notin mailbox \/ e \in run[r].acks}
      /\ Noted' = {e \in 1..sent : e \notin mailbox \/ e \in w.acks}
  BY AloneSets, AloneNext DEF SameFlow
<1>2. mailbox \subseteq 1..sent /\ run'[r] = w /\ \A q \in Runs \ {r} : run'[q] = run[q] /\ run[q].pc = "idle"
  BY DEF KeptInv, SyncTypeOK, Becomes, OthersIdle
<1>3. LoneState'
  <2>1. ASSUME NEW q \in Runs PROVE RunLone(run[q])'
    <3>1. CASE q = r BY <1>2, <3>1 DEF RunLone
    <3>2. CASE q # r
      <4>1. run'[q].pc = "idle" BY <1>2, <3>2
      <4>. QED BY <4>1 DEF RunLone
    <3>. QED BY <3>1, <3>2
  <2>2. \A d \in Devices : ChainOK(ratchets'[d]) /\ ChainOK(senderKeys'[d]) BY DEF WaitState, LoneState
  <2>. QED BY <1>1, <2>1, <2>2 DEF LoneState, ChainOK
<1>4. ASSUME NEW k, IsKey(k), Waiting(k) PROVE Waiting(k)'
  <2>1. \A q \in Runs : run[q].pc # "install" BY <1>2
  <2>2. k \in mailbox /\ k \notin Noted /\ Ahead(ratchets[stream[k].device], stream[k].n) BY <1>4, <2>1 DEF Waiting
  <2>3. k \notin Noted' BY <1>1, <1>2, <1>4, <2>2
  <2>. QED BY <2>2, <2>3 DEF Waiting, Ahead, SameFlow
<1>5. KeysWait'
  <2>1. ASSUME NEW k \in 1..sent \ dropped, LastKey(k) PROVE Waiting(k)' \/ InUse(k)'
    BY <1>4, <2>1 DEF WaitState, KeysWait, LastKey, InUse, SameFlow
  <2>. QED BY <2>1 DEF KeysWait, LastKey, IsKey, Kin, SameFlow
<1>6. TextsWait'
  <2>1. ASSUME NEW e \in mailbox \ dropped, stream[e].kind = "text", ~Had(e, DOMAIN thread'),
               \A q \in Runs : e \notin Hand(run'[q]), NEW k \in 1..sent \ dropped, Under(e, k)
        PROVE  Waiting(k)' \/ (InUse(k) /\ Ahead(senderKeys[stream[e].device], stream[e].n))
    <3>1. ~Had(e, DOMAIN thread) BY <1>2, <2>1
    <3>2. e \notin Hand(run[r])
      <4>1. e \notin Hand(w) BY <1>2, <2>1
      <4>. QED BY <2>1, <4>1
    <3>3. \A q \in Runs : e \notin Hand(run[q]) BY <1>2, <2>1, <3>2
    <3>4. Waiting(k) \/ (InUse(k) /\ Ahead(senderKeys[stream[e].device], stream[e].n))
      BY <2>1, <3>1, <3>3 DEF WaitState, TextsWait
    <3>. QED BY <1>4, <2>1, <3>4 DEF Under
  <2>. QED BY <2>1 DEF TextsWait, Had, Hand, Under, IsKey, Kin, InUse, Ahead, SameFlow
<1>7. Sent' BY DEF WaitState, Sent, IsKey, Cipher, Under, Kin, InUse, Ahead, SameFlow
<1>8. Orderly' /\ failures' = 0 => NotedSpent'
  <2>1. SUFFICES ASSUME Orderly', failures' = 0 PROVE NotedSpent' OBVIOUS
  <2>2. NotedSpent BY <2>1 DEF WaitState, Orderly, InOrder, IsKey, Cipher, Under, Kin, SameFlow
  <2>3. \A k \in DOMAIN stream \ dropped : IsKey(k) /\ InUse(k) => k \in Noted'
    BY <1>1, <2>1, <2>2 DEF NotedSpent
  <2>4. \A f \in Noted' : LET c == senderKeys[stream[f].device]
                          IN  Cipher(f) /\ c.gen = stream[f].gen => ~Ahead(c, stream[f].n)
    BY <1>1, <2>2 DEF NotedSpent
  <2>. QED BY <2>3, <2>4 DEF NotedSpent, IsKey, Cipher, InUse, Ahead, SameFlow
<1>. QED BY <1>3, <1>5, <1>6, <1>7, <1>8 DEF WaitState
\* One that saves nothing either.
LEMMA PlainWaits ==
  ASSUME KeptInv, KeptInv', WaitState, NEW r \in Runs, NEW w \in Syncs, OthersIdle(r), Becomes(r, w),
         SameFlow, UNCHANGED <<mailbox, ratchets, senderKeys, thread, dropped>>, failures' = 0 => failures = 0,
         run[r].pc # "install", RunLone(w)', w.acks = run[r].acks, Hand(run[r]) \subseteq Hand(w)
  PROVE  WaitState'
<1>1. \A e \in 1..sent : Had(e, DOMAIN thread) => Had(e, DOMAIN thread') OBVIOUS
<1>2. Hand(run[r]) \ Hand(w) = {} OBVIOUS
<1>. QED BY <1>1, <1>2, QuietWaits

LEMMA FreeLone ==
  ASSUME NEW w \in Syncs, w.pc \notin {"store", "thread", "merge"}
  PROVE  RunLone(w)'
BY DEF RunLone

LEMMA SkipWaits ==
  ASSUME KeptInv, KeptInv', WaitState, NEW r \in Runs, run[r].pc \in {"lookup", "load"}, run' = Skip(r), SameFlow,
         UNCHANGED <<mailbox, ratchets, senderKeys, thread, dropped>>, failures' = 0 => failures = 0
  PROVE  WaitState'
<1>0. SyncTypeOK /\ RunSound(run[r]) BY DEF KeptInv
<1>1. PICK x \in Syncs : x = run[r] BY <1>0, RunType
<1>2. x.pc \in InLoop /\ x.pc # "idle" /\ x.pc # "install" /\ Hand(x) = x.acks BY <1>1 DEF InLoop, Hand
<1>3. OthersIdle(r) BY <1>1, <1>2, Alone DEF WaitState, LoneState
<1>4. x.todo # {} BY <1>0, <1>1, <1>2 DEF RunSound
<1>5. PICK w \in Syncs : Becomes(r, w) /\ Passed(w, x) /\ SameTexts(w, x) /\ w.acks = x.acks
  BY <1>0, <1>1, <1>4, SkipEffect
<1>6. w.pc \notin {"store", "thread", "merge"} BY <1>5 DEF Passed
<1>7. RunLone(w)' BY <1>6, FreeLone
<1>. QED BY <1>1, <1>2, <1>3, <1>5, <1>7, PlainWaits DEF Hand

LEMMA BeginWaits ==
  ASSUME KeptInv, KeptInv', WaitState, ~overlapped', NEW r \in Runs, BeginSync(r)
  PROVE  WaitState'
<1>0. SyncTypeOK /\ RunSound(run[r]) BY DEF KeptInv
<1>1. PICK w \in Syncs : Becomes(r, w) /\ w.pc = "fetch" /\ w.acks = {} BY <1>0, BeginEffect
<1>2. /\ run[r].pc = "idle" /\ Busy = {}
      /\ UNCHANGED <<stream, sent, mailbox, ratchets, senderKeys, thread, failures, dropped>>
  BY DEF BeginSync, At, disk, faults
<1>3. OthersIdle(r) BY <1>2 DEF OthersIdle, Busy, At
<1>4. w.acks = run[r].acks /\ Hand(run[r]) \subseteq Hand(w) BY <1>0, <1>1, <1>2 DEF RunSound, Hand
<1>5. RunLone(w)' BY <1>1, FreeLone
<1>. QED BY <1>1, <1>2, <1>3, <1>4, <1>5, PlainWaits DEF SameFlow

LEMMA FetchWaits ==
  ASSUME KeptInv, KeptInv', WaitState, NEW r \in Runs, Fetch(r)
  PROVE  WaitState'
<1>0. SyncTypeOK /\ RunSound(run[r]) BY DEF KeptInv
<1>1. PICK x \in Syncs : x = run[r] BY <1>0, RunType
<1>2. x.pc = "fetch" /\ x.acks = {} BY <1>0, <1>1 DEF Fetch, At, RunSound
<1>3. UNCHANGED <<stream, sent, mailbox, ratchets, senderKeys, thread, failures, dropped>>
  BY DEF Fetch, disk, faults
<1>4. OthersIdle(r) BY <1>1, <1>2, Alone DEF WaitState, LoneState
<1>5. PICK w \in Syncs : Becomes(r, w) /\ (w = Idle \/ (w.pc = "lookup" /\ w.acks = x.acks))
  BY <1>0, <1>1, FetchEffect
<1>6. w.pc \in {"idle", "lookup"} /\ w.acks = x.acks BY <1>2, <1>5, IdleIs
<1>7. RunLone(w)' BY <1>6, FreeLone
<1>8. Hand(x) \subseteq Hand(w) BY <1>2 DEF Hand
<1>. QED BY <1>1, <1>2, <1>3, <1>4, <1>5, <1>6, <1>7, <1>8, PlainWaits DEF SameFlow

LEMMA LookupWaits ==
  ASSUME KeptInv, KeptInv', WaitState, NEW r \in Runs, Lookup(r)
  PROVE  WaitState'
<1>0. SyncTypeOK /\ RunSound(run[r]) BY DEF KeptInv
<1>1. PICK x \in Syncs : x = run[r] BY <1>0, RunType
<1>2. x.pc = "lookup" /\ Hand(x) = x.acks BY <1>1 DEF Lookup, At, Hand
<1>3. UNCHANGED <<stream, sent, mailbox, ratchets, senderKeys, thread, failures, dropped>>
  BY DEF Lookup, disk, faults
<1>4. OthersIdle(r) BY <1>1, <1>2, Alone DEF WaitState, LoneState
<1>5. CASE Env(r).device \in Listed(r)
  <2>1. Go(r, "load") BY <1>5 DEF Lookup, Go
  <2>2. "load" \in Pcs BY DEF Pcs, InLoop
  <2>3. PICK w \in Syncs : Becomes(r, w) /\ w.pc = "load" /\ SameRun(w, x) BY <1>0, <1>1, <2>1, <2>2, GoEffect
  <2>4. w.acks = x.acks /\ Hand(x) \subseteq Hand(w) BY <1>2, <2>3 DEF SameRun, Hand
  <2>5. RunLone(w)' BY <2>3, FreeLone
  <2>. QED BY <1>1, <1>2, <1>3, <1>4, <2>3, <2>4, <2>5, PlainWaits DEF SameFlow
<1>6. CASE Env(r).device \notin Listed(r)
  <2>1. run' = Skip(r) BY <1>6 DEF Lookup
  <2>. QED BY <1>1, <1>2, <1>3, <2>1, SkipWaits DEF SameFlow
<1>. QED BY <1>5, <1>6

LEMMA LoadWaits ==
  ASSUME KeptInv, KeptInv', WaitState, NEW r \in Runs, Load(r)
  PROVE  WaitState'
<1>0. SyncTypeOK /\ RunSound(run[r]) BY DEF KeptInv
<1>1. PICK x \in Syncs : x = run[r] BY <1>0, RunType
<1>2. x.pc = "load" /\ x.pc \in InLoop /\ Hand(x) = x.acks BY <1>1 DEF Load, At, InLoop, Hand
<1>3. UNCHANGED <<stream, sent, mailbox, ratchets, senderKeys, thread, failures, dropped>>
  BY DEF Load, disk, faults
<1>4. OthersIdle(r) BY <1>1, <1>2, Alone DEF WaitState, LoneState
<1>5. PICK m \in 1..sent : m = Min(x.todo) /\ Env(r) = stream[m] BY <1>0, <1>1, <1>2, CurrentIs
<1>6. ChainFor(r) = LoadedFor(m) BY <1>5 DEF ChainFor, LoadedFor, IsKey
<1>7. CASE Legible(r)
  <2>1. stream[m].kind # "closed" /\ Opens(LoadedFor(m), Place(m), stream[m].n)
    BY <1>5, <1>6, <1>7 DEF Legible, Place, IsKey
  <2>2. PICK w \in Syncs : /\ Becomes(r, w) /\ w.pc = "store" /\ SameRun(w, x)
                           /\ w.chain = Stepped(LoadedFor(m), stream[m].n)
    BY <1>0, <1>1, <1>5, <1>6, <1>7, LoadEffect
  <2>3. w.acks = x.acks /\ w.todo = x.todo BY <2>2 DEF SameRun, SameBatch
  <2>4. Hand(x) \subseteq Hand(w) BY <1>2, <2>3 DEF Hand
  <2>5. RunLone(w)'
    BY <1>3, <1>5, <2>1, <2>2, <2>3 DEF RunLone, LoadedFor, Place, IsKey, Ratchet
  <2>. QED BY <1>1, <1>2, <1>3, <1>4, <2>2, <2>3, <2>4, <2>5, PlainWaits DEF SameFlow
<1>8. CASE ~Legible(r)
  <2>1. run' = Skip(r) BY <1>8 DEF Load
  <2>. QED BY <1>1, <1>2, <1>3, <2>1, SkipWaits DEF SameFlow
<1>. QED BY <1>7, <1>8

LEMMA LoadThreadWaits ==
  ASSUME KeptInv, KeptInv', WaitState, NEW r \in Runs, LoadThread(r)
  PROVE  WaitState'
<1>0. SyncTypeOK /\ RunSound(run[r]) BY DEF KeptInv
<1>1. PICK x \in Syncs : x = run[r] BY <1>0, RunType
<1>2. x.pc = "thread" BY <1>1 DEF LoadThread, At
<1>3. UNCHANGED <<stream, sent, mailbox, ratchets, senderKeys, thread, failures, dropped>>
  BY DEF LoadThread, disk, faults
<1>4. OthersIdle(r) BY <1>1, <1>2, Alone DEF WaitState, LoneState
<1>5. PICK w \in Syncs : Becomes(r, w) /\ w.pc = "merge" /\ SameBatch(w, x) /\ w.acks = x.acks
  BY <1>0, <1>1, LoadThreadEffect
<1>6. w.todo = x.todo BY <1>5 DEF SameBatch
<1>7. Hand(x) \subseteq Hand(w) BY <1>2, <1>5, <1>6 DEF Hand
<1>8. RunLone(x) BY <1>1 DEF WaitState, LoneState
<1>9. RunLone(w)' BY <1>2, <1>3, <1>5, <1>6, <1>8 DEF RunLone, IsKey, Ahead
<1>. QED BY <1>1, <1>2, <1>3, <1>4, <1>5, <1>7, <1>9, PlainWaits DEF SameFlow

LEMMA BeginSaveWaits ==
  ASSUME KeptInv, KeptInv', WaitState, NEW r \in Runs, BeginSave(r)
  PROVE  WaitState'
<1>0. SyncTypeOK /\ RunSound(run[r]) BY DEF KeptInv
<1>1. PICK x \in Syncs : x = run[r] BY <1>0, RunType
<1>2. x.pc = "save" /\ Hand(x) = x.acks BY <1>1 DEF BeginSave, At, Hand
<1>3. UNCHANGED <<stream, sent, mailbox, ratchets, senderKeys, thread, failures, dropped>>
  BY DEF BeginSave, disk, faults
<1>4. OthersIdle(r) BY <1>1, <1>2, Alone DEF WaitState, LoneState
<1>5. PICK w \in Syncs : Becomes(r, w) /\ w.pc = (IF x.loaded THEN "rows" ELSE "cursor") /\ w.acks = x.acks
  BY <1>0, <1>1, BeginSaveEffect
<1>6. RunLone(w)' BY <1>5, FreeLone
<1>7. Hand(x) \subseteq Hand(w) BY <1>2, <1>5 DEF Hand
<1>. QED BY <1>1, <1>2, <1>3, <1>4, <1>5, <1>6, <1>7, PlainWaits DEF SameFlow

LEMMA SaveCursorWaits ==
  ASSUME KeptInv, KeptInv', WaitState, NEW r \in Runs, SaveCursor(r)
  PROVE  WaitState'
<1>0. SyncTypeOK /\ RunSound(run[r]) BY DEF KeptInv
<1>1. PICK x \in Syncs : x = run[r] BY <1>0, RunType
<1>2. x.pc = "cursor" /\ Hand(x) = x.acks BY <1>1 DEF SaveCursor, At, Hand
<1>3. UNCHANGED <<stream, sent, mailbox, ratchets, senderKeys, thread, failures, dropped>>
  BY DEF SaveCursor, faults
<1>4. OthersIdle(r) BY <1>1, <1>2, Alone DEF WaitState, LoneState
<1>5. PICK w \in Syncs : Becomes(r, w) /\ (w = Idle \/ (w.pc = "ack" /\ SameRun(w, x)))
  BY <1>0, <1>1, SaveCursorEffect
<1>6. w.pc \in {"idle", "ack"} /\ w.acks = x.acks
  <2>1. CASE x.acks = {}
    <3>1. run' = [run EXCEPT ![r] = Idle] BY <1>1, <2>1 DEF SaveCursor
    <3>2. Becomes(r, Idle) BY <1>0, <3>1, RestEffect
    <3>. QED BY <1>5, <2>1, <3>2, IdleIs DEF Becomes
  <2>2. CASE x.acks # {}
    <3>1. run'[r].pc = "ack" BY <1>0, <1>1, <2>2 DEF SaveCursor, SyncTypeOK, Syncs
    <3>. QED BY <1>5, <3>1, IdleIs DEF Becomes, SameRun
  <2>. QED BY <2>1, <2>2
<1>7. RunLone(w)' BY <1>6, FreeLone
<1>8. Hand(x) \subseteq Hand(w) BY <1>2, <1>6 DEF Hand
<1>. QED BY <1>1, <1>2, <1>3, <1>4, <1>5, <1>6, <1>7, <1>8, PlainWaits DEF SameFlow

LEMMA SaveRowWaits ==
  ASSUME KeptInv, KeptInv', WaitState, NEW r \in Runs, SaveRow(r)
  PROVE  WaitState'
<1>0. SyncTypeOK /\ RunSound(run[r]) BY DEF KeptInv
<1>1. PICK x \in Syncs : x = run[r] BY <1>0, RunType
<1>2. x.pc = "rows" BY <1>1 DEF SaveRow, At
<1>3. UNCHANGED <<stream, sent, mailbox, ratchets, senderKeys, failures, dropped>> BY DEF SaveRow, faults
<1>4. OthersIdle(r) BY <1>1, <1>2, Alone DEF WaitState, LoneState
<1>5. PICK w \in Syncs, t \in x.rows :
        Becomes(r, w) /\ w.pc = "rows" /\ w.acks = x.acks /\ thread' = Put(thread, t, x.texts[t])
  BY <1>0, <1>1, SaveRowEffect
<1>6. DOMAIN thread' \in SUBSET (1..sent) /\ DOMAIN thread \in SUBSET DOMAIN thread' /\ sent \in Nat
  <2>1. DOMAIN thread' \subseteq 1..sent' BY DEF KeptInv, SyncTypeOK
  <2>2. DOMAIN thread' = DOMAIN thread \cup {t} BY <1>5 DEF Put
  <2>. QED BY <1>0, <1>3, <2>1, <2>2, EnvelopeCount
<1>7. ASSUME NEW e \in 1..sent, Had(e, DOMAIN thread) PROVE Had(e, DOMAIN thread')
  <2>1. e \in Nat OBVIOUS
  <2>. QED BY <1>6, <1>7, <2>1, HadMore
<1>8. Hand(x) \ Hand(w) = {} BY <1>2, <1>5 DEF Hand
<1>9. RunLone(w)' BY <1>5, FreeLone
<1>. QED BY <1>1, <1>2, <1>3, <1>4, <1>5, <1>7, <1>8, <1>9, QuietWaits DEF SameFlow

LEMMA TrimWaits ==
  ASSUME KeptInv, KeptInv', WaitState, NEW r \in Runs, Trim(r)
  PROVE  WaitState'
<1>0. SyncTypeOK /\ RunSound(run[r]) BY DEF KeptInv
<1>1. PICK x \in Syncs : x = run[r] BY <1>0, RunType
<1>2. x.pc = "rows" /\ Go(r, "cursor") BY <1>1 DEF Trim, At
<1>3. UNCHANGED <<stream, sent, mailbox, ratchets, senderKeys, failures, dropped>> BY DEF Trim, faults
<1>4. OthersIdle(r) BY <1>1, <1>2, Alone DEF WaitState, LoneState
<1>5. "cursor" \in Pcs BY DEF Pcs
<1>6. PICK w \in Syncs : Becomes(r, w) /\ w.pc = "cursor" /\ SameRun(w, x) BY <1>0, <1>1, <1>2, <1>5, GoEffect
<1>7. sent \in Nat /\ DOMAIN thread \in SUBSET (1..sent) BY <1>0, EnvelopeCount DEF SyncTypeOK
<1>8. DOMAIN thread' = Newest(DOMAIN thread) BY <1>0, TrimThread
<1>9. ASSUME NEW e \in 1..sent, Had(e, DOMAIN thread) PROVE Had(e, DOMAIN thread')
  <2>1. e \in Nat OBVIOUS
  <2>. QED BY <1>7, <1>8, <1>9, <2>1, HadNewest
<1>10. w.acks = x.acks BY <1>6 DEF SameRun
<1>11. Hand(x) \ Hand(w) = {} BY <1>2, <1>6, <1>10 DEF Hand
<1>12. RunLone(w)' BY <1>6, FreeLone
<1>. QED BY <1>1, <1>2, <1>3, <1>4, <1>6, <1>9, <1>10, <1>11, <1>12, QuietWaits DEF SameFlow

LEMMA MergeWaits ==
  ASSUME KeptInv, KeptInv', WaitState, NEW r \in Runs, Merge(r)
  PROVE  WaitState'
<1>0. SyncTypeOK /\ RunSound(run[r]) BY DEF KeptInv
<1>1. PICK x \in Syncs : x = run[r] BY <1>0, RunType
<1>2. x.pc = "merge" /\ x.pc \in InLoop BY <1>1 DEF Merge, At, InLoop
<1>3. UNCHANGED <<stream, sent, mailbox, ratchets, senderKeys, thread, failures, dropped>> BY DEF Merge, disk, faults
<1>4. OthersIdle(r) BY <1>1, <1>2, Alone DEF WaitState, LoneState
<1>5. PICK m \in 1..sent : m = Min(x.todo) /\ Current(r) = m BY <1>0, <1>1, <1>2, CurrentIs
<1>6. PICK w \in Syncs : Becomes(r, w) /\ Passed(w, x) /\ w.acks = x.acks \cup {m}
  <2>1. Current(r) \in Nat /\ run[r].todo # {} BY <1>0, <1>1, <1>2, <1>5 DEF RunSound
  <2>2. run' = [Skip(r) EXCEPT ![r].texts = Merged(@, Current(r)), ![r].acks = @ \cup {Current(r)}] BY DEF Merge
  <2>. QED BY <1>0, <1>1, <1>5, <2>1, <2>2, MergeEffect
<1>7. RunLone(x) BY <1>1 DEF WaitState, LoneState
<1>8. ~IsKey(m) /\ ~Ahead(senderKeys[stream[m].device], stream[m].n) BY <1>2, <1>5, <1>7 DEF RunLone
<1>9. Hand(x) \ Hand(w) = {} BY <1>2, <1>5, <1>6 DEF Hand
<1>10. RunLone(w)'
  <2>1. w.pc \notin {"store", "thread", "merge"} BY <1>6 DEF Passed
  <2>. QED BY <2>1, FreeLone
<1>11. \A k \in w.acks : IsKey(k) => k \in x.acks BY <1>6, <1>8
<1>12. \A f \in w.acks \ x.acks : ~Ahead(senderKeys[stream[f].device], stream[f].n) BY <1>6, <1>8
<1>13. \A k \in x.acks : k \in w.acks BY <1>6
<1>. QED BY <1>1, <1>2, <1>3, <1>4, <1>6, <1>9, <1>10, <1>11, <1>12, <1>13, QuietWaits DEF SameFlow

LEMMA FailWaits ==
  ASSUME KeptInv, KeptInv', WaitState, NEW r \in Runs, RequestFails(r)
  PROVE  WaitState'
<1>0. SyncTypeOK /\ RunSound(run[r]) /\ RunSaves(run[r]) BY DEF KeptInv
<1>1. PICK x \in Syncs : x = run[r] BY <1>0, RunType
<1>2. UNCHANGED <<stream, sent, mailbox, ratchets, senderKeys, thread, dropped>> BY DEF RequestFails, disk
<1>3. failures' # 0 BY <1>0 DEF RequestFails, SyncTypeOK
<1>4. CASE At(r, "lookup") /\ run' = Skip(r) BY <1>2, <1>3, <1>4, SkipWaits DEF At, SameFlow
<1>5. CASE (At(r, "fetch") \/ At(r, "ack")) /\ run' = [run EXCEPT ![r] = Idle]
  <2>1. x.pc \in {"fetch", "ack"} BY <1>1, <1>5 DEF At
  <2>2. OthersIdle(r) BY <1>1, <2>1, Alone DEF WaitState, LoneState
  <2>3. Becomes(r, Idle) BY <1>0, <1>5, RestEffect
  <2>4. PICK w \in Syncs : w = Idle BY IdleIs
  <2>5. w.pc = "idle" /\ w.acks = {} BY <2>4, IdleIs
  <2>6. RunLone(w)' BY <2>5, FreeLone
  <2>7. Hand(x) = x.acks BY <2>1 DEF Hand
  <2>8. \A e \in x.acks : stream[e].kind = "text" => Had(e, DOMAIN thread)
    BY <1>0, <1>1, <2>1 DEF RunSound, RunSaves, TextsOf
  <2>. QED BY <1>1, <1>2, <1>3, <2>1, <2>2, <2>3, <2>4, <2>5, <2>6, <2>7, <2>8, QuietWaits DEF SameFlow
<1>. QED BY <1>4, <1>5 DEF RequestFails

\* A key envelope is stored: its place under the ratchet is spent, and it will be installed.
LEMMA StoreKeyWaits ==
  ASSUME KeptInv, KeptInv', WaitState, Numbered, NEW r \in Runs, Store(r), IsKey(Min(run[r].todo))
  PROVE  WaitState'
<1>0. SyncTypeOK /\ RunSound(run[r]) BY DEF KeptInv
<1>1. PICK x \in Syncs : x = run[r] BY <1>0, RunType
<1>2. x.pc = "store" /\ x.pc \in InLoop BY <1>1 DEF Store, At, InLoop
<1>3. UNCHANGED <<stream, sent, mailbox, thread, failures, dropped>> BY DEF Store, faults
<1>4. OthersIdle(r) BY <1>1, <1>2, Alone DEF WaitState, LoneState
<1>5. PICK m \in 1..sent : m = Min(x.todo) /\ Env(r) = stream[m] BY <1>0, <1>1, <1>2, CurrentIs
<1>6. IsKey(m) /\ stream[m].kind = "key" BY <1>1, <1>5 DEF IsKey
<1>7. PICK d \in Devices : d = stream[m].device BY <1>0, EnvelopeType
<1>8. stream[m].n \in Nat /\ m \in DOMAIN stream BY <1>0, EnvelopeType
<1>9. senderKeys' = senderKeys /\ Go(r, "install") /\ ratchets' = [ratchets EXCEPT ![d] = x.chain]
  BY <1>1, <1>5, <1>6, <1>7 DEF Store
<1>10. "install" \in Pcs BY DEF Pcs, InLoop
<1>11. PICK w \in Syncs : Becomes(r, w) /\ w.pc = "install" /\ SameRun(w, x) BY <1>0, <1>1, <1>9, <1>10, GoEffect
<1>12. w.acks = x.acks /\ w.todo = x.todo BY <1>11 DEF SameRun, SameBatch
<1>13. PICK c : c = Ratchet(d, stream[m].n) OBVIOUS
<1>14. Opens(c, 1, stream[m].n) /\ x.chain = Stepped(c, stream[m].n)
  <2>1. RunLone(x) BY <1>1 DEF WaitState, LoneState
  <2>. QED BY <1>2, <1>5, <1>6, <1>7, <1>13, <2>1 DEF RunLone, LoadedFor, Place
<1>15. c \in Chains /\ ChainOK(c) /\ ratchets[d] \in Chains /\ \A i \in Nat : Ahead(c, i) <=> Ahead(ratchets[d], i)
  <2>1. ratchets[d] \in Chains /\ ChainOK(ratchets[d]) BY <1>0 DEF WaitState, LoneState, SyncTypeOK
  <2>2. CASE c = ratchets[d] BY <2>1, <2>2
  <2>3. CASE c # ratchets[d]
    <3>1. c = Chain(1, 0) /\ ratchets[d] = NoChain BY <1>13, <2>3 DEF Ratchet
    <3>2. c.next = 0 /\ c.skipped = {} /\ ratchets[d].next = 0 /\ ratchets[d].skipped = {}
      BY <3>1 DEF Chain, NoChain
    <3>. QED BY <2>1, <3>1, <3>2, ChainTypes DEF ChainOK, Ahead
  <2>. QED BY <2>2, <2>3
<1>16. ChainOK(x.chain) /\ \A i \in Nat : Ahead(x.chain, i) <=> Ahead(ratchets[d], i) /\ i # stream[m].n
  BY <1>8, <1>14, <1>15, AheadStepped, Passing
<1>17. /\ DOMAIN ratchets = Devices /\ ratchets'[d] = x.chain /\ \A b \in Devices \ {d} : ratchets'[b] = ratchets[b]
  BY <1>0, <1>9 DEF SyncTypeOK
<1>18. /\ OneBusy' /\ Noted' = Noted /\ run'[r] = w /\ \A q \in Runs \ {r} : run'[q] = run[q] /\ run[q].pc = "idle"
  <2>1. OneBusy' BY <1>4, <1>11, AloneNext
  <2>2. Noted = {e \in 1..sent : e \notin mailbox \/ e \in x.acks} BY <1>1, <1>4, AloneSets
  <2>3. Noted' = {e \in 1..sent' : e \notin mailbox' \/ e \in w.acks} BY <1>4, <1>11, AloneNext
  <2>4. Noted' = Noted BY <1>3, <1>12, <2>2, <2>3
  <2>. QED BY <1>4, <1>11, <2>1, <2>4 DEF Becomes, OthersIdle
<1>19. LoneState'
  <2>1. ASSUME NEW q \in Runs PROVE RunLone(run[q])'
    <3>1. run'[q].pc \notin {"store", "thread", "merge"} BY <1>11, <1>18
    <3>. QED BY <3>1 DEF RunLone
  <2>2. ASSUME NEW b \in Devices PROVE ChainOK(ratchets'[b]) /\ ChainOK(senderKeys'[b])
    BY <1>9, <1>16, <1>17 DEF WaitState, LoneState
  <2>. QED BY <1>18, <2>1, <2>2 DEF LoneState, ChainOK
<1>20. ASSUME NEW k, IsKey(k), Waiting(k) PROVE Waiting(k)'
  <2>1. k \in mailbox \ Noted BY <1>20 DEF Waiting
  <2>2. k \in 1..sent /\ k \in DOMAIN stream /\ stream[k].device \in Devices /\ stream[k].n \in Nat
    BY <1>0, <2>1, EnvelopeCount, EnvelopeType
  <2>3. CASE k = m
    <3>1. run'[r].pc = "install" /\ Min(run'[r].todo) = k BY <1>5, <1>11, <1>12, <1>18, <2>3
    <3>. QED BY <1>3, <1>18, <2>1, <3>1 DEF Waiting
  <2>4. CASE k # m
    <3>1. \A q \in Runs : run[q].pc # "install" BY <1>1, <1>2, <1>18
    <3>2. Ahead(ratchets[stream[k].device], stream[k].n) BY <1>20, <3>1 DEF Waiting
    <3>3. Ahead(ratchets'[stream[k].device], stream[k].n)
      <4>1. CASE stream[k].device = d
        <5>1. stream[k].n # stream[m].n BY <1>6, <1>7, <1>8, <1>20, <2>2, <2>4, <4>1 DEF Numbered, Kin
        <5>. QED BY <1>16, <1>17, <2>2, <3>2, <4>1, <5>1
      <4>2. CASE stream[k].device # d BY <1>17, <2>2, <3>2, <4>2
      <4>. QED BY <4>1, <4>2
    <3>. QED BY <1>3, <1>18, <2>1, <3>3 DEF Waiting, Ahead
  <2>. QED BY <2>3, <2>4
<1>21. KeysWait'
  <2>1. ASSUME NEW k \in 1..sent \ dropped, LastKey(k) PROVE Waiting(k)' \/ InUse(k)'
    BY <1>3, <1>9, <1>20, <2>1 DEF WaitState, KeysWait, LastKey, InUse
  <2>. QED BY <1>3, <2>1 DEF KeysWait, LastKey, IsKey, Kin
<1>22. TextsWait'
  <2>1. ASSUME NEW e \in mailbox \ dropped, stream[e].kind = "text", ~Had(e, DOMAIN thread),
               \A q \in Runs : e \notin Hand(run'[q]), NEW k \in 1..sent \ dropped, Under(e, k)
        PROVE  Waiting(k)' \/ (InUse(k) /\ Ahead(senderKeys[stream[e].device], stream[e].n))
    <3>1. Hand(x) = Hand(w) BY <1>2, <1>11, <1>12 DEF Hand
    <3>2. \A q \in Runs : e \notin Hand(run[q]) BY <1>1, <1>18, <2>1, <3>1
    <3>3. Waiting(k) \/ (InUse(k) /\ Ahead(senderKeys[stream[e].device], stream[e].n))
      BY <2>1, <3>2 DEF WaitState, TextsWait
    <3>. QED BY <1>20, <2>1, <3>3 DEF Under
  <2>. QED BY <1>3, <1>9, <2>1 DEF TextsWait, Had, Hand, Under, IsKey, Kin, InUse, Ahead
<1>23. Sent'
  <2>1. ASSUME NEW b \in Devices, NEW i \in Nat, ~Ahead(ratchets'[b], i)
        PROVE  \E f \in 1..sent : IsKey(f) /\ stream[f].device = b /\ stream[f].n = i
    <3>1. CASE Ahead(ratchets[b], i)
      <4>1. b = d /\ i = stream[m].n BY <1>16, <1>17, <2>1, <3>1
      <4>. QED BY <1>6, <1>7, <4>1
    <3>2. CASE ~Ahead(ratchets[b], i) BY <3>2 DEF WaitState, Sent
    <3>. QED BY <3>1, <3>2
  <2>. QED BY <1>3, <1>9, <2>1 DEF WaitState, Sent, IsKey, Cipher, Under, Kin, InUse, Ahead
<1>24. Orderly' /\ failures' = 0 => NotedSpent'
  BY <1>3, <1>9, <1>18 DEF WaitState, NotedSpent, Orderly, InOrder, IsKey, Cipher, Under, Kin, InUse, Ahead
<1>. QED BY <1>19, <1>21, <1>22, <1>23, <1>24 DEF WaitState

\* A ciphertext is stored: its place under the sender key is spent.
LEMMA StoreTextWaits ==
  ASSUME KeptInv, KeptInv', WaitState, Numbered, NEW r \in Runs, Store(r), ~IsKey(Min(run[r].todo))
  PROVE  WaitState'
<1>0. SyncTypeOK /\ RunSound(run[r]) BY DEF KeptInv
<1>1. PICK x \in Syncs : x = run[r] BY <1>0, RunType
<1>2. x.pc = "store" /\ x.pc \in InLoop BY <1>1 DEF Store, At, InLoop
<1>3. UNCHANGED <<stream, sent, mailbox, thread, failures, dropped>> BY DEF Store, faults
<1>4. OthersIdle(r) BY <1>1, <1>2, Alone DEF WaitState, LoneState
<1>5. PICK m \in 1..sent : m = Min(x.todo) /\ Env(r) = stream[m] BY <1>0, <1>1, <1>2, CurrentIs
<1>6. RunLone(x) BY <1>1 DEF WaitState, LoneState
<1>7. ~IsKey(m) /\ stream[m].kind # "key" /\ Cipher(m)
  <2>1. stream[m].kind \in {"key", "text", "delete", "closed"} BY <1>0, EnvelopeType
  <2>. QED BY <1>1, <1>2, <1>5, <1>6, <2>1 DEF IsKey, Cipher, RunLone
<1>8. PICK d \in Devices : d = stream[m].device BY <1>0, EnvelopeType
<1>9. stream[m].n \in Nat /\ m \in DOMAIN stream BY <1>0, EnvelopeType
<1>10. /\ ratchets' = ratchets /\ senderKeys' = [senderKeys EXCEPT ![d] = x.chain]
       /\ Go(r, IF x.loaded THEN "merge" ELSE "thread")
  BY <1>1, <1>5, <1>7, <1>8 DEF Store
<1>11. PICK p \in Pcs : p \in {"merge", "thread"} /\ Go(r, p) BY <1>10 DEF Pcs, InLoop
<1>12. PICK w \in Syncs : Becomes(r, w) /\ w.pc = p /\ SameRun(w, x) BY <1>0, <1>1, <1>11, GoEffect
<1>13. w.acks = x.acks /\ w.todo = x.todo BY <1>12 DEF SameRun, SameBatch
<1>14. PICK c \in Chains : c = senderKeys[d] /\ ChainOK(c) BY <1>0 DEF WaitState, LoneState, SyncTypeOK
<1>15. Opens(c, stream[m].gen, stream[m].n) /\ x.chain = Stepped(c, stream[m].n)
  BY <1>2, <1>5, <1>6, <1>7, <1>8, <1>14 DEF RunLone, LoadedFor, Place
<1>16. /\ ChainOK(x.chain) /\ x.chain.gen = stream[m].gen /\ c.gen = stream[m].gen /\ c.next <= x.chain.next
       /\ \A i \in Nat : Ahead(x.chain, i) <=> Ahead(c, i) /\ i # stream[m].n
  BY <1>9, <1>14, <1>15, AheadStepped, Passing
<1>17. /\ senderKeys'[d] = x.chain /\ \A b \in Devices \ {d} : senderKeys'[b] = senderKeys[b]
  BY <1>0, <1>10 DEF SyncTypeOK
<1>18. /\ OneBusy' /\ Noted' = Noted /\ run'[r] = w /\ \A q \in Runs \ {r} : run'[q] = run[q] /\ run[q].pc = "idle"
  <2>1. OneBusy' BY <1>4, <1>12, AloneNext
  <2>2. Noted = {e \in 1..sent : e \notin mailbox \/ e \in x.acks} BY <1>1, <1>4, AloneSets
  <2>3. Noted' = {e \in 1..sent' : e \notin mailbox' \/ e \in w.acks} BY <1>4, <1>12, AloneNext
  <2>4. Noted' = Noted BY <1>3, <1>13, <2>2, <2>3
  <2>. QED BY <1>4, <1>12, <2>1, <2>4 DEF Becomes, OthersIdle
<1>19. LoneState'
  <2>1. ASSUME NEW q \in Runs PROVE RunLone(run[q])'
    <3>1. CASE q = r
      <4>1. run'[q].pc \in {"merge", "thread"} /\ Min(run'[q].todo) = m BY <1>5, <1>11, <1>12, <1>13, <1>18, <3>1
      <4>2. senderKeys'[stream[m].device].gen = stream[m].gen /\ ~Ahead(senderKeys'[stream[m].device], stream[m].n)
        BY <1>8, <1>9, <1>16, <1>17
      <4>3. PICK y : y = run'[q] OBVIOUS
      <4>4. RunLone(y)'
        <5>1. y.pc # "store" /\ Min(y.todo) = m BY <4>1, <4>3
        <5>2. stream[m].kind # "closed" BY <1>7 DEF Cipher
        <5>3. (~IsKey(m))' /\ (~Ahead(senderKeys[stream[m].device], stream[m].n))' BY <1>3, <1>7, <4>2 DEF IsKey, Ahead
        <5>. QED BY <1>3, <4>2, <5>1, <5>2, <5>3 DEF RunLone
      <4>. QED BY <4>3, <4>4 DEF RunLone
    <3>2. CASE q # r
      <4>1. run'[q].pc = "idle" BY <1>18, <3>2
      <4>. QED BY <4>1 DEF RunLone
    <3>. QED BY <3>1, <3>2
  <2>2. ASSUME NEW b \in Devices PROVE ChainOK(ratchets'[b]) /\ ChainOK(senderKeys'[b])
    BY <1>10, <1>16, <1>17 DEF WaitState, LoneState
  <2>. QED BY <1>18, <2>1, <2>2 DEF LoneState, ChainOK
<1>20. ASSUME NEW k, Waiting(k) PROVE Waiting(k)'
  <2>1. \A q \in Runs : run[q].pc # "install" BY <1>1, <1>2, <1>18
  <2>2. k \in mailbox \ Noted /\ Ahead(ratchets[stream[k].device], stream[k].n) BY <1>20, <2>1 DEF Waiting
  <2>. QED BY <1>3, <1>10, <1>18, <2>2 DEF Waiting, Ahead
<1>21. ASSUME NEW b \in Devices PROVE senderKeys'[b].gen = senderKeys[b].gen BY <1>14, <1>16, <1>17
<1>22. ASSUME NEW k \in DOMAIN stream PROVE InUse(k)' <=> InUse(k)
  <2>1. stream[k].device \in Devices BY <1>0, DomainType
  <2>. QED BY <1>3, <1>21, <2>1 DEF InUse
<1>23. KeysWait'
  <2>1. ASSUME NEW k \in 1..sent \ dropped, LastKey(k) PROVE Waiting(k)' \/ InUse(k)'
    <3>1. k \in DOMAIN stream BY <1>0, EnvelopeType
    <3>. QED BY <1>20, <1>22, <2>1, <3>1 DEF WaitState, KeysWait
  <2>. QED BY <1>3, <2>1 DEF KeysWait, LastKey, IsKey, Kin
<1>24. TextsWait'
  <2>1. ASSUME NEW e \in mailbox \ dropped, stream[e].kind = "text", ~Had(e, DOMAIN thread),
               \A q \in Runs : e \notin Hand(run'[q]), NEW k \in 1..sent \ dropped, Under(e, k)
        PROVE  Waiting(k)' \/ (InUse(k)' /\ Ahead(senderKeys'[stream[e].device], stream[e].n))
    <3>1. Hand(x) = Hand(w) /\ m \in Hand(w) BY <1>2, <1>5, <1>11, <1>12, <1>13 DEF Hand
    <3>2. e # m /\ \A q \in Runs : e \notin Hand(run[q]) BY <1>1, <1>18, <2>1, <3>1
    <3>3. e \in 1..sent /\ e \in DOMAIN stream /\ k \in DOMAIN stream /\ stream[e].device \in Devices /\ stream[e].n \in Nat
      BY <1>0, <2>1, EnvelopeCount, EnvelopeType
    <3>4. CASE Waiting(k) BY <1>20, <3>4
    <3>5. CASE InUse(k) /\ Ahead(senderKeys[stream[e].device], stream[e].n)
      <4>1. CASE stream[e].device = d
        <5>1. stream[e].gen = stream[m].gen BY <1>14, <1>16, <2>1, <3>5, <4>1 DEF InUse, Under, Kin
        <5>2. stream[e].n # stream[m].n
          BY <1>7, <1>8, <1>9, <2>1, <3>2, <3>3, <4>1, <5>1 DEF Numbered, Kin, Cipher
        <5>3. Ahead(senderKeys'[stream[e].device], stream[e].n) BY <1>14, <1>16, <1>17, <3>3, <3>5, <4>1, <5>2
        <5>. QED BY <1>22, <3>3, <3>5, <5>3
      <4>2. CASE stream[e].device # d BY <1>17, <1>22, <3>3, <3>5, <4>2
      <4>. QED BY <4>1, <4>2
    <3>6. Waiting(k) \/ (InUse(k) /\ Ahead(senderKeys[stream[e].device], stream[e].n))
      BY <2>1, <3>2 DEF WaitState, TextsWait
    <3>. QED BY <3>4, <3>5, <3>6
  <2>. QED BY <1>3, <2>1 DEF TextsWait, Had, Hand, Under, IsKey, Kin, Ahead
<1>25. Sent'
  <2>1. ASSUME NEW k \in DOMAIN stream, IsKey(k), InUse(k)'
        PROVE  /\ stream[k].at <= senderKeys'[stream[k].device].next
               /\ \A i \in Nat : stream[k].at <= i /\ ~Ahead(senderKeys'[stream[k].device], i) =>
                    \E f \in 1..sent : Cipher(f) /\ Under(f, k) /\ stream[f].n = i
    <3>1. InUse(k) /\ stream[k].device \in Devices /\ stream[k].at \in Nat BY <1>0, <1>22, <2>1, DomainType
    <3>2. /\ stream[k].at <= senderKeys[stream[k].device].next
          /\ \A i \in Nat : stream[k].at <= i /\ ~Ahead(senderKeys[stream[k].device], i) =>
               \E f \in 1..sent : Cipher(f) /\ Under(f, k) /\ stream[f].n = i
      BY <2>1, <3>1 DEF WaitState, Sent
    <3>3. CASE stream[k].device # d BY <1>17, <3>1, <3>2, <3>3
    <3>4. CASE stream[k].device = d
      <4>1. Under(m, k) BY <1>8, <1>14, <1>16, <2>1, <3>1, <3>4 DEF Under, Kin, InUse
      <4>2. c.next \in Nat /\ x.chain.next \in Nat /\ stream[k].at <= c.next BY <1>14, <3>2, <3>4 DEF Chains, Syncs
      <4>3. stream[k].at <= x.chain.next BY <1>16, <3>1, <4>2
      <4>4. ASSUME NEW i \in Nat, stream[k].at <= i, ~Ahead(x.chain, i)
            PROVE  \E f \in 1..sent : Cipher(f) /\ Under(f, k) /\ stream[f].n = i
        <5>1. CASE i = stream[m].n BY <1>7, <4>1, <5>1
        <5>2. CASE i # stream[m].n
          <6>1. ~Ahead(senderKeys[stream[k].device], i) BY <1>14, <1>16, <3>4, <4>4, <5>2
          <6>. QED BY <3>2, <4>4, <6>1
        <5>. QED BY <5>1, <5>2
      <4>. QED BY <1>17, <3>4, <4>3, <4>4
    <3>. QED BY <3>3, <3>4
  <2>2. Sent!1' BY <1>3, <1>10 DEF WaitState, Sent, IsKey, Ahead
  <2>. QED BY <1>3, <2>1, <2>2 DEF Sent, IsKey, Cipher, Under, Kin, Ahead
<1>26. Orderly' /\ failures' = 0 => NotedSpent'
  <2>1. SUFFICES ASSUME Orderly', failures' = 0 PROVE NotedSpent' OBVIOUS
  <2>2. NotedSpent BY <1>3, <2>1 DEF WaitState, Orderly, InOrder, IsKey, Cipher, Under, Kin
  <2>3. \A k \in DOMAIN stream \ dropped : IsKey(k) /\ InUse(k)' => k \in Noted' BY <1>18, <1>22, <2>2 DEF NotedSpent
  <2>4. ASSUME NEW f \in Noted, Cipher(f), senderKeys'[stream[f].device].gen = stream[f].gen
        PROVE  ~Ahead(senderKeys'[stream[f].device], stream[f].n)
    <3>1. f \in 1..sent /\ stream[f].device \in Devices /\ stream[f].n \in Nat BY <1>0, EnvelopeType DEF Noted
    <3>2. ~Ahead(senderKeys[stream[f].device], stream[f].n) BY <1>21, <2>2, <2>4, <3>1 DEF NotedSpent
    <3>. QED BY <1>14, <1>16, <1>17, <3>1, <3>2
  <2>. QED BY <1>3, <1>18, <2>3, <2>4 DEF NotedSpent, IsKey, Cipher, Ahead
<1>. QED BY <1>19, <1>23, <1>24, <1>25, <1>26 DEF WaitState

\* In order, a ciphertext that the sender key in use is yet to open is preceded by one
\* that it opens at once.
LEMMA NoneLeft ==
  ASSUME KeptInv, CalmState, Numbered, Orderly, NotedSpent, Sent, NEW e \in mailbox, Cipher(e),
         NEW k \in DOMAIN stream, Under(e, k), InUse(k), Ahead(senderKeys[stream[e].device], stream[e].n)
  PROVE  \E f \in Live : f <= e
<1>0. SyncTypeOK BY DEF KeptInv
<1>1. e \in 1..sent /\ sent \in Nat BY <1>0, EnvelopeCount
<1>2. PICK d \in Devices : d = stream[e].device BY <1>0, <1>1, EnvelopeType
<1>3. PICK g \in Nat : g = stream[e].gen /\ g > 0
  <2>1. stream[e].kind # "closed" BY DEF Cipher
  <2>. QED BY <1>0, <1>1, <2>1, EnvelopeType
<1>4. PICK c \in Chains : c = senderKeys[d] /\ ChainOK(c) BY <1>0 DEF CalmState, Started, SyncTypeOK
<1>5. c.gen = g /\ c.next \in Nat BY <1>2, <1>3, <1>4 DEF InUse, Under, Kin, Chains
<1>6. ratchets[d] # NoChain BY <1>3, <1>4, <1>5, ChainTypes DEF CalmState, Started
<1>7. stream[k].at <= c.next /\ stream[k].at \in Nat
  <2>1. stream[k].device = d BY <1>2 DEF Under, Kin
  <2>. QED BY <1>0, <1>4, <2>1, DomainType DEF Sent, Under
<1>8. ASSUME NEW f \in mailbox, Cipher(f), Kin(f, e), stream[f].gen = g, Opens(c, g, stream[f].n)
      PROVE  f \in Live
  <2>1. stream[f].kind # "closed" /\ ~IsKey(f) BY <1>8 DEF Cipher, IsKey
  <2>. QED BY <1>2, <1>4, <1>6, <1>8, <2>1 DEF Live, LoadedFor, Place, Kin
<1>9. CASE stream[e].n \in c.skipped
  <2>1. e \in Live BY <1>3, <1>5, <1>8, <1>9 DEF Opens, Kin
  <2>. QED BY <1>1, <2>1
<1>10. CASE stream[e].n \notin c.skipped
  <2>1. PICK S : S = {f \in 1..sent : Cipher(f) /\ Kin(f, e) /\ stream[f].gen = g /\ c.next <= stream[f].n /\ f <= e} OBVIOUS
  <2>2. e \in S
    <3>1. stream[e].n \in Nat BY <1>0, <1>1, EnvelopeType
    <3>2. c.next <= stream[e].n BY <1>2, <1>4, <1>5, <1>10, <3>1 DEF Ahead
    <3>. QED BY <1>1, <1>3, <2>1, <3>2 DEF Kin
  <2>3. S \in SUBSET Nat BY <1>1, <2>1
  <2>4. PICK f \in S : \A h \in S : f <= h BY <2>2, <2>3, MinOf
  <2>5. /\ f \in 1..sent /\ f \in DOMAIN stream /\ Cipher(f) /\ Kin(f, e) /\ stream[f].gen = g
        /\ c.next <= stream[f].n /\ f <= e /\ stream[f].n \in Nat
    BY <1>0, <2>1, EnvelopeType
  <2>6. stream[f].n <= c.next + MaxSkip
    <3>0. MaxSkip \in Nat BY SyncAssumption
    <3>1. CASE \E j \in DOMAIN stream : Under(f, j) /\ stream[f].n <= stream[j].at + MaxSkip
      <4>1. PICK j \in DOMAIN stream : Under(f, j) /\ stream[f].n <= stream[j].at + MaxSkip BY <3>1
      <4>2. Under(f, k) BY <1>3, <2>5 DEF Under, Kin
      <4>3. j = k BY <1>0, <2>5, <4>1, <4>2, KeyOfIs
      <4>. QED BY <1>5, <1>7, <2>5, <3>0, <4>1, <4>3
    <3>2. CASE \E h \in DOMAIN stream : /\ Cipher(h) /\ Kin(h, f) /\ h < f /\ stream[h].gen = stream[f].gen
                                        /\ stream[f].n <= stream[h].n + 1 + MaxSkip
      <4>1. PICK h \in DOMAIN stream : /\ Cipher(h) /\ Kin(h, f) /\ h < f /\ stream[h].gen = stream[f].gen
                                       /\ stream[f].n <= stream[h].n + 1 + MaxSkip
        BY <3>2
      <4>2. stream[h].n \in Nat /\ h \in Nat BY <1>0, DomainType
      <4>3. stream \in Seq(Envelopes) BY <1>0, StreamsAssumption DEF SyncTypeOK
      <4>4. h \in 1..Len(stream) BY <4>3
      <4>5. h \in 1..sent BY <1>1, <2>5, <4>1, <4>2, <4>4
      <4>6. h \notin S BY <2>4, <2>5, <4>1, <4>2
      <4>7. ~(c.next <= stream[h].n) BY <1>1, <2>1, <2>5, <4>1, <4>2, <4>5, <4>6 DEF Kin
      <4>. QED BY <1>5, <2>5, <3>0, <4>1, <4>2, <4>7
    <3>. QED BY <2>5, <3>1, <3>2 DEF Orderly
  <2>7. f \in mailbox
    <3>1. SUFFICES ASSUME f \notin mailbox PROVE FALSE OBVIOUS
    <3>2. f \in Noted BY <2>5, <3>1 DEF Noted
    <3>3. ~Ahead(c, stream[f].n) BY <1>2, <1>4, <1>5, <2>5, <3>2 DEF NotedSpent, Kin
    <3>. QED BY <2>5, <3>3 DEF Ahead
  <2>8. Opens(c, g, stream[f].n)
    <3>1. stream[f].n \in c.next .. c.next + MaxSkip BY <1>5, <2>5, <2>6, SyncAssumption
    <3>. QED BY <1>5, <3>1 DEF Opens
  <2>. QED BY <1>8, <2>5, <2>7, <2>8
<1>. QED BY <1>9, <1>10

LEMMA InstallWaits ==
  ASSUME KeptInv, KeptInv', WaitState, Steady, Orderly /\ failures = 0 => CalmState, NEW r \in Runs, Install(r)
  PROVE  WaitState'
<1>0. SyncTypeOK /\ RunSound(run[r]) /\ Numbered BY DEF KeptInv, Steady
<1>1. PICK x \in Syncs : x = run[r] BY <1>0, RunType
<1>2. x.pc = "install" /\ x.pc \in InLoop BY <1>1 DEF Install, At, InLoop
<1>3. UNCHANGED <<stream, sent, mailbox, ratchets, thread, failures, dropped>> BY DEF Install, faults
<1>4. OthersIdle(r) BY <1>1, <1>2, Alone DEF WaitState, LoneState
<1>5. PICK m \in 1..sent : m = Min(x.todo) /\ Current(r) = m /\ Env(r) = stream[m] BY <1>0, <1>1, <1>2, CurrentIs
<1>6. IsKey(m) BY <1>0, <1>1, <1>2, <1>5 DEF RunSound, IsKey
<1>7. PICK d \in Devices : d = stream[m].device BY <1>0, EnvelopeType
<1>8. m \in DOMAIN stream /\ stream[m].at \in Nat /\ stream[m].gen \in Nat BY <1>0, EnvelopeType
<1>9. PICK c \in Chains : c = Chain(stream[m].gen, stream[m].at) /\ c.gen = stream[m].gen /\ c.next = stream[m].at /\ c.skipped = {}
  BY <1>8, ChainTypes
<1>10. senderKeys'[d] = c /\ \A b \in Devices \ {d} : senderKeys'[b] = senderKeys[b]
  <2>1. senderKeys' = [senderKeys EXCEPT ![d] = c] BY <1>5, <1>7, <1>9 DEF Install, Installed
  <2>. QED BY <1>0, <2>1 DEF SyncTypeOK
<1>11. PICK w \in Syncs : Becomes(r, w) /\ Passed(w, x) /\ w.acks = x.acks \cup {m}
  <2>1. Current(r) \in Nat /\ run[r].todo # {} BY <1>0, <1>1, <1>2, <1>5 DEF RunSound
  <2>2. run' = [Skip(r) EXCEPT ![r].acks = @ \cup {Current(r)}] BY DEF Install
  <2>. QED BY <1>0, <1>1, <1>5, <2>1, <2>2, NoteEffect
<1>12. /\ OneBusy' /\ Noted' = Noted \cup {m} /\ Noted \subseteq Opened /\ run'[r] = w
       /\ \A q \in Runs \ {r} : run'[q] = run[q] /\ run[q].pc = "idle"
  <2>1. OneBusy' BY <1>4, <1>11, AloneNext
  <2>2. Noted = {e \in 1..sent : e \notin mailbox \/ e \in x.acks} BY <1>1, <1>4, AloneSets
  <2>3. Noted' = {e \in 1..sent' : e \notin mailbox' \/ e \in w.acks} BY <1>4, <1>11, AloneNext
  <2>4. Noted' = Noted \cup {m} BY <1>3, <1>11, <2>2, <2>3
  <2>. QED BY <1>4, <1>11, <2>1, <2>4 DEF Becomes, OthersIdle, Opened
<1>13. w.pc \in {"lookup", "save"} BY <1>11 DEF Passed
<1>14. LoneState'
  <2>1. ASSUME NEW q \in Runs PROVE RunLone(run[q])'
    <3>1. run'[q].pc \notin {"store", "thread", "merge"} BY <1>12, <1>13
    <3>. QED BY <3>1 DEF RunLone
  <2>2. ASSUME NEW b \in Devices PROVE ChainOK(ratchets'[b]) /\ ChainOK(senderKeys'[b])
    BY <1>3, <1>9, <1>10 DEF WaitState, LoneState, ChainOK
  <2>. QED BY <1>12, <2>1, <2>2 DEF LoneState, ChainOK
<1>15. ASSUME NEW k, k # m, Waiting(k) PROVE Waiting(k)'
  <2>1. k \in mailbox \ Noted' BY <1>12, <1>15 DEF Waiting
  <2>2. Ahead(ratchets[stream[k].device], stream[k].n)
    <3>1. \A q \in Runs : run[q].pc = "install" => Min(run[q].todo) # k BY <1>1, <1>5, <1>12, <1>15
    <3>. QED BY <1>15, <3>1 DEF Waiting
  <2>. QED BY <1>3, <2>1, <2>2 DEF Waiting, Ahead
<1>16. ASSUME NEW k \in DOMAIN stream, IsKey(k)
       PROVE  /\ Kin(k, m) => (InUse(k)' <=> k = m)
              /\ ~Kin(k, m) => (InUse(k)' <=> InUse(k)) /\ senderKeys'[stream[k].device] = senderKeys[stream[k].device]
  <2>1. stream[k].device \in Devices BY <1>0, DomainType
  <2>2. CASE Kin(k, m)
    <3>1. InUse(k)' <=> stream[m].gen = stream[k].gen BY <1>3, <1>7, <1>9, <1>10, <2>2 DEF InUse, Kin
    <3>. QED BY <1>0, <1>6, <1>8, <1>16, <2>2, <3>1 DEF Numbered
  <2>3. CASE ~Kin(k, m) BY <1>3, <1>7, <1>10, <2>1, <2>3 DEF InUse, Kin
  <2>. QED BY <2>2, <2>3
<1>17. ASSUME NEW k \in 1..sent, IsKey(k), Kin(k, m), k # m
       PROVE  Orderly /\ failures = 0
  <2>1. SUFFICES ASSUME ~Rekeyed PROVE FALSE BY DEF Steady
  <2>2. k \in Of("key") /\ m \in Of("key") BY <1>6, <1>17 DEF Of, IsKey
  <2>3. ~(stream[k].gen > 1) /\ ~(stream[m].gen > 1) BY <2>1, <2>2 DEF Rekeyed
  <2>4. k \in DOMAIN stream /\ stream[k].gen \in Nat /\ stream[k].gen > 0 /\ stream[m].gen > 0
    BY <1>0, <1>6, <1>8, <1>17, EnvelopeType, DomainType
  <2>5. stream[k].gen = stream[m].gen BY <1>8, <2>3, <2>4
  <2>. QED BY <1>0, <1>6, <1>8, <1>17, <2>4, <2>5 DEF Numbered
<1>18. ASSUME Orderly, failures = 0
       PROVE  /\ CalmState /\ NotedSpent
              /\ \A f \in Noted : Kin(f, m) => f <= m
              /\ \A f \in Live : m <= f
  <2>1. CalmState /\ NotedSpent BY <1>18 DEF WaitState
  <2>2. RunSweeps(x) /\ RunHolds(x) BY <1>1, <1>2, <2>1 DEF CalmState, RunCalm
  <2>3. \A f \in Noted : Kin(f, m) => f <= m BY <1>2, <1>5, <1>12, <2>2 DEF RunHolds
  <2>4. \A f \in Live : m <= f BY <1>2, <1>5, <2>2 DEF RunSweeps
  <2>. QED BY <2>1, <2>3, <2>4
<1>19. KeysWait'
  <2>1. ASSUME NEW k \in 1..sent \ dropped, LastKey(k) PROVE Waiting(k)' \/ InUse(k)'
    <3>1. k \in DOMAIN stream /\ IsKey(k) BY <1>0, <2>1, EnvelopeType DEF LastKey
    <3>2. CASE k = m BY <1>6, <1>16, <3>1, <3>2 DEF Kin
    <3>3. CASE k # m
      <4>1. Waiting(k) \/ InUse(k) BY <2>1 DEF WaitState, KeysWait
      <4>2. CASE Waiting(k) BY <1>15, <3>3, <4>2
      <4>3. CASE InUse(k) /\ ~Kin(k, m) BY <1>16, <3>1, <4>3
      <4>4. CASE InUse(k) /\ Kin(k, m)
        <5>1. Orderly /\ failures = 0 BY <1>17, <3>1, <3>3, <4>4
        <5>2. k \in Noted BY <1>18, <2>1, <3>1, <4>4, <5>1 DEF NotedSpent
        <5>3. k <= m BY <1>18, <4>4, <5>1, <5>2
        <5>4. m <= k BY <1>6, <2>1, <4>4 DEF LastKey, Kin
        <5>. QED BY <3>3, <5>3, <5>4
      <4>. QED BY <4>1, <4>2, <4>3, <4>4
    <3>. QED BY <3>2, <3>3
  <2>. QED BY <1>3, <2>1 DEF KeysWait, LastKey, IsKey, Kin
<1>20. TextsWait'
  <2>1. ASSUME NEW e \in mailbox \ dropped, stream[e].kind = "text", ~Had(e, DOMAIN thread),
               \A q \in Runs : e \notin Hand(run'[q]), NEW k \in 1..sent \ dropped, Under(e, k)
        PROVE  Waiting(k)' \/ (InUse(k)' /\ Ahead(senderKeys'[stream[e].device], stream[e].n))
    <3>1. Hand(x) = Hand(w) BY <1>2, <1>5, <1>11, <1>13 DEF Hand
    <3>2. \A q \in Runs : e \notin Hand(run[q]) BY <1>1, <1>12, <2>1, <3>1
    <3>3. /\ e \in 1..sent /\ e \in DOMAIN stream /\ k \in DOMAIN stream /\ stream[e].n \in Nat
          /\ IsKey(k) /\ Cipher(e) /\ stream[e].device = stream[k].device
      BY <1>0, <2>1, EnvelopeCount, EnvelopeType DEF Under, Cipher, Kin
    <3>4. Waiting(k) \/ (InUse(k) /\ Ahead(senderKeys[stream[e].device], stream[e].n))
      BY <2>1, <3>2 DEF WaitState, TextsWait
    <3>5. CASE k = m
      <4>1. InUse(k)' BY <1>16, <3>3, <3>5 DEF Kin
      <4>2. stream[m].at <= stream[e].n BY <1>0, <2>1, <3>3, <3>5, KeyOfIs
      <4>3. Ahead(senderKeys'[stream[e].device], stream[e].n) BY <1>7, <1>9, <1>10, <3>3, <3>5, <4>2 DEF Ahead
      <4>. QED BY <4>1, <4>3
    <3>6. CASE k # m
      <4>1. CASE Waiting(k) BY <1>15, <3>6, <4>1
      <4>2. CASE InUse(k) /\ Ahead(senderKeys[stream[e].device], stream[e].n) /\ ~Kin(k, m)
        BY <1>16, <3>3, <4>2
      <4>3. CASE InUse(k) /\ Ahead(senderKeys[stream[e].device], stream[e].n) /\ Kin(k, m)
        <5>1. Orderly /\ failures = 0 BY <1>17, <3>3, <3>6, <4>3
        <5>2. k \in Noted BY <1>18, <2>1, <3>3, <4>3, <5>1 DEF NotedSpent
        <5>3. k < m BY <1>18, <3>6, <4>3, <5>1, <5>2
        <5>4. stream[k].gen \in Nat /\ stream[k].gen < stream[m].gen
          <6>1. stream[k].gen \in Nat BY <1>0, <3>3, DomainType
          <6>2. stream[k].gen <= stream[m].gen BY <1>6, <1>8, <3>3, <4>3, <5>1, <5>3 DEF Orderly, InOrder
          <6>3. stream[k].gen # stream[m].gen BY <1>0, <1>6, <1>8, <3>3, <3>6, <4>3 DEF Numbered
          <6>. QED BY <1>8, <6>1, <6>2, <6>3
        <5>5. e # m BY <1>6, <3>3 DEF IsKey, Cipher
        <5>6. ~(m < e)
          <6>1. SUFFICES ASSUME m < e PROVE FALSE OBVIOUS
          <6>2. Kin(m, e) BY <3>3, <4>3 DEF Kin
          <6>3. stream[m].gen <= stream[e].gen BY <1>6, <1>8, <3>3, <5>1, <6>1, <6>2 DEF Orderly
          <6>. QED BY <1>8, <2>1, <5>4, <6>3 DEF Under
        <5>7. \E f \in Live : f <= e BY <1>0, <1>18, <2>1, <3>3, <4>3, <5>1, NoneLeft DEF WaitState
        <5>8. PICK f \in Live : f <= e /\ m <= f BY <1>18, <5>1, <5>7
        <5>9. f \in Nat BY <1>0, EnvelopeCount DEF Live
        <5>. QED BY <3>3, <5>5, <5>6, <5>8, <5>9
      <4>. QED BY <3>4, <4>1, <4>2, <4>3
    <3>. QED BY <3>5, <3>6
  <2>. QED BY <1>3, <2>1 DEF TextsWait, Had, Hand, Under, IsKey, Kin, Ahead
<1>21. Sent'
  <2>1. ASSUME NEW k \in DOMAIN stream, IsKey(k), InUse(k)'
        PROVE  /\ stream[k].at <= senderKeys'[stream[k].device].next
               /\ \A i \in Nat : stream[k].at <= i /\ ~Ahead(senderKeys'[stream[k].device], i) =>
                    \E f \in 1..sent : Cipher(f) /\ Under(f, k) /\ stream[f].n = i
    <3>1. CASE k = m BY <1>7, <1>8, <1>9, <1>10, <3>1 DEF Ahead
    <3>2. CASE k # m
      <4>1. InUse(k) /\ senderKeys'[stream[k].device] = senderKeys[stream[k].device] BY <1>16, <2>1, <3>2
      <4>. QED BY <2>1, <4>1 DEF WaitState, Sent
    <3>. QED BY <3>1, <3>2
  <2>2. \A b \in Devices, i \in Nat :
          ~Ahead(ratchets'[b], i) => \E f \in 1..sent : IsKey(f) /\ stream[f].device = b /\ stream[f].n = i
    BY <1>3 DEF WaitState, Sent
  <2>. QED BY <1>3, <2>1, <2>2 DEF Sent, IsKey, Cipher, Under, Kin, Ahead
<1>22. Orderly' /\ failures' = 0 => NotedSpent'
  <2>1. SUFFICES ASSUME Orderly', failures' = 0 PROVE NotedSpent' OBVIOUS
  <2>2. Orderly /\ failures = 0 BY <1>3, <2>1 DEF Orderly, InOrder, IsKey, Cipher, Under, Kin
  <2>3. ASSUME NEW k \in DOMAIN stream \ dropped, IsKey(k), InUse(k)' PROVE k \in Noted'
    BY <1>12, <1>16, <1>18, <2>2, <2>3 DEF NotedSpent
  <2>4. ASSUME NEW f \in Noted', Cipher(f), senderKeys'[stream[f].device].gen = stream[f].gen
        PROVE  ~Ahead(senderKeys'[stream[f].device], stream[f].n)
    <3>1. f \in Noted /\ f \in 1..sent
      <4>1. f # m BY <1>6, <2>4 DEF IsKey, Cipher
      <4>. QED BY <1>12, <4>1 DEF Noted
    <3>2. stream[f].device \in Devices /\ f \in DOMAIN stream BY <1>0, <3>1, EnvelopeType
    <3>3. CASE stream[f].device # d BY <1>10, <1>18, <2>2, <2>4, <3>1, <3>2, <3>3 DEF NotedSpent
    <3>4. CASE stream[f].device = d
      <4>1. Under(f, m) BY <1>6, <1>7, <1>9, <1>10, <2>4, <3>4 DEF Under, Kin
      <4>2. m < f BY <1>0, <1>8, <2>4, <3>2, <4>1, KeyOfIs
      <4>3. f <= m BY <1>7, <1>18, <2>2, <3>1, <3>4 DEF Kin
      <4>. QED BY <3>1, <4>2, <4>3
    <3>. QED BY <3>3, <3>4
  <2>. QED BY <1>3, <2>3, <2>4 DEF NotedSpent, IsKey, Cipher, Ahead
<1>. QED BY <1>14, <1>19, <1>20, <1>21, <1>22 DEF WaitState

LEMMA AckWaits ==
  ASSUME KeptInv, KeptInv', WaitState, NEW r \in Runs, Ack(r)
  PROVE  WaitState'
<1>0. SyncTypeOK /\ RunSound(run[r]) BY DEF KeptInv
<1>1. PICK x \in Syncs : x = run[r] BY <1>0, RunType
<1>2. x.pc = "ack" /\ mailbox' = mailbox \ x.acks BY <1>1 DEF Ack, At
<1>3. UNCHANGED <<stream, sent, ratchets, senderKeys, thread, failures, dropped>> BY DEF Ack, disk, faults
<1>4. OthersIdle(r) BY <1>1, <1>2, Alone DEF WaitState, LoneState
<1>5. PICK w \in Syncs : w = Idle BY IdleIs
<1>6. Becomes(r, w) /\ w.pc = "idle" /\ w.acks = {}
  <2>1. run' = [run EXCEPT ![r] = Idle] BY DEF Ack
  <2>. QED BY <1>0, <1>5, <2>1, RestEffect, IdleIs
<1>7. /\ OneBusy' /\ Noted' = Noted /\ run'[r] = w /\ x.acks \subseteq Noted
      /\ \A q \in Runs \ {r} : run'[q] = run[q] /\ run[q].pc = "idle"
  <2>1. OneBusy' BY <1>4, <1>6, AloneNext
  <2>2. Noted = {e \in 1..sent : e \notin mailbox \/ e \in x.acks} BY <1>1, <1>4, AloneSets
  <2>3. Noted' = {e \in 1..sent' : e \notin mailbox' \/ e \in w.acks} BY <1>4, <1>6, AloneNext
  <2>4. Noted' = Noted BY <1>2, <1>3, <1>6, <2>2, <2>3
  <2>5. x.acks \subseteq Noted BY <1>0, <1>1, <2>2 DEF RunSound
  <2>. QED BY <1>4, <1>6, <2>1, <2>4, <2>5 DEF Becomes, OthersIdle
<1>8. LoneState'
  <2>1. ASSUME NEW q \in Runs PROVE RunLone(run[q])'
    <3>1. run'[q].pc \notin {"store", "thread", "merge"} BY <1>6, <1>7
    <3>. QED BY <3>1 DEF RunLone
  <2>. QED BY <1>3, <1>7, <2>1 DEF WaitState, LoneState, ChainOK
<1>9. ASSUME NEW k, Waiting(k) PROVE Waiting(k)'
  <2>1. \A q \in Runs : run[q].pc # "install" BY <1>1, <1>2, <1>7
  <2>2. k \in mailbox \ Noted /\ Ahead(ratchets[stream[k].device], stream[k].n) BY <1>9, <2>1 DEF Waiting
  <2>3. k \in mailbox' BY <1>2, <1>7, <2>2
  <2>. QED BY <1>3, <1>7, <2>2, <2>3 DEF Waiting, Ahead
<1>10. KeysWait' BY <1>3, <1>9 DEF WaitState, KeysWait, LastKey, IsKey, Kin, InUse
<1>11. TextsWait'
  <2>1. ASSUME NEW e \in mailbox' \ dropped, stream[e].kind = "text", ~Had(e, DOMAIN thread),
               \A q \in Runs : e \notin Hand(run'[q]), NEW k \in 1..sent \ dropped, Under(e, k)
        PROVE  Waiting(k)' \/ (InUse(k) /\ Ahead(senderKeys[stream[e].device], stream[e].n))
    <3>1. e \in mailbox /\ e \notin Hand(x) BY <1>2, <2>1 DEF Hand
    <3>2. \A q \in Runs : e \notin Hand(run[q]) BY <1>1, <1>7, <2>1, <3>1
    <3>3. Waiting(k) \/ (InUse(k) /\ Ahead(senderKeys[stream[e].device], stream[e].n))
      BY <2>1, <3>1, <3>2 DEF WaitState, TextsWait
    <3>. QED BY <1>9, <3>3
  <2>. QED BY <1>3, <2>1 DEF TextsWait, Had, Hand, Under, IsKey, Kin, InUse, Ahead
<1>12. Sent' BY <1>3 DEF WaitState, Sent, IsKey, Cipher, Under, Kin, InUse, Ahead
<1>13. Orderly' /\ failures' = 0 => NotedSpent'
  BY <1>3, <1>7 DEF WaitState, NotedSpent, Orderly, InOrder, IsKey, Cipher, Under, Kin, InUse, Ahead
<1>. QED BY <1>8, <1>10, <1>11, <1>12, <1>13 DEF WaitState

\* What arrives has a number that no chain was stepped past, and is under the last key.
LEMMA ArriveWaits ==
  ASSUME KeptInv, KeptInv', WaitState, Steady, Arrive
  PROVE  WaitState'
<1>0. SyncTypeOK /\ Numbered BY DEF KeptInv, Steady
<1>1. PICK a : a = sent + 1 OBVIOUS
<1>2. /\ sent < Len(stream) /\ sent' = a /\ mailbox' = mailbox \cup {a}
      /\ UNCHANGED <<stream, ratchets, senderKeys, thread, run, failures, dropped>>
  BY <1>1 DEF Arrive, disk, faults
<1>3. sent \in Nat /\ mailbox \subseteq 1..sent BY <1>0, EnvelopeCount
<1>4. a \in Nat /\ a \notin 1..sent /\ 1..sent' = (1..sent) \cup {a} BY <1>1, <1>2, <1>3
<1>5. a \in DOMAIN stream
  <2>1. stream \in Seq(Envelopes) BY <1>0, StreamsAssumption DEF SyncTypeOK
  <2>. QED BY <1>1, <1>2, <1>3, <2>1
<1>6. ASSUME NEW f \in 1..sent PROVE f \in DOMAIN stream /\ f # a /\ f < a
  BY <1>0, <1>1, <1>3, <1>4, <1>6, EnvelopeType
<1>7. PICK d \in Devices : d = stream[a].device BY <1>0, <1>5, DomainType
<1>8. stream[a].n \in Nat /\ stream[a].gen \in Nat BY <1>0, <1>5, DomainType
<1>9. Noted' = Noted
  <2>1. \A q \in Runs : a \notin run[q].acks BY <1>4 DEF KeptInv, RunSound
  <2>. QED BY <1>2, <1>4, <2>1 DEF Noted
<1>10. LoneState'
  BY <1>2 DEF WaitState, LoneState, OneBusy, RunLone, ChainOK, LoadedFor, Place, Ratchet, IsKey, Ahead
<1>11. ASSUME NEW k, Waiting(k) PROVE Waiting(k)' BY <1>2, <1>9, <1>11 DEF Waiting, Ahead
<1>12. ASSUME IsKey(a) PROVE Waiting(a)'
  <2>1. Ahead(ratchets[d], stream[a].n)
    <3>1. SUFFICES ASSUME ~Ahead(ratchets[d], stream[a].n) PROVE FALSE OBVIOUS
    <3>2. PICK f \in 1..sent : IsKey(f) /\ stream[f].device = d /\ stream[f].n = stream[a].n
      BY <1>8, <3>1 DEF WaitState, Sent
    <3>. QED BY <1>0, <1>5, <1>6, <1>7, <1>12, <3>2 DEF Numbered, Kin
  <2>2. a \in mailbox' /\ a \notin Noted' BY <1>2, <1>4, <1>9 DEF Noted
  <2>. QED BY <1>2, <1>7, <2>1, <2>2 DEF Waiting, Ahead
<1>13. KeysWait'
  <2>1. ASSUME NEW k \in 1..sent' \ dropped, IsKey(k), \A f \in 1..sent' : IsKey(f) /\ Kin(f, k) => f <= k
        PROVE  Waiting(k)' \/ InUse(k)
    <3>1. CASE k = a BY <1>12, <2>1, <3>1
    <3>2. CASE k # a
      <4>1. k \in 1..sent \ dropped /\ LastKey(k) BY <1>4, <2>1, <3>2 DEF LastKey
      <4>. QED BY <1>11, <4>1 DEF WaitState, KeysWait
    <3>. QED BY <3>1, <3>2
  <2>. QED BY <1>2, <2>1 DEF KeysWait, LastKey, IsKey, Kin, InUse
<1>14. ASSUME Cipher(a), NEW k \in 1..sent \ dropped, Under(a, k)
       PROVE  Waiting(k) \/ (InUse(k) /\ Ahead(senderKeys[d], stream[a].n))
  <2>1. /\ k \in DOMAIN stream /\ IsKey(k) /\ Kin(k, a) /\ stream[k].gen = stream[a].gen
        /\ stream[k].gen \in Nat /\ stream[k].gen > 0 /\ stream[k].device = d
    BY <1>0, <1>6, <1>7, <1>14, DomainType DEF Under, Kin
  <2>2. ASSUME NEW f \in 1..sent, IsKey(f), Kin(f, k) PROVE f <= k
    <3>1. f \in DOMAIN stream /\ stream[f].gen \in Nat /\ stream[f].gen > 0 /\ f < a /\ k < a
      BY <1>0, <1>6, <2>2, DomainType
    <3>2. CASE ~Rekeyed
      <4>1. f \in Of("key") /\ k \in Of("key") BY <2>1, <2>2 DEF Of, IsKey
      <4>2. ~(stream[f].gen > 1) /\ ~(stream[k].gen > 1) BY <3>2, <4>1 DEF Rekeyed
      <4>3. stream[f].gen = stream[k].gen BY <2>1, <3>1, <4>2
      <4>4. f = k BY <1>0, <2>1, <2>2, <3>1, <4>3 DEF Numbered
      <4>. QED BY <4>4
    <3>3. CASE Orderly
      <4>1. SUFFICES ASSUME k < f PROVE FALSE BY <1>3
      <4>2. stream[k].gen <= stream[f].gen BY <2>1, <2>2, <3>1, <3>3, <4>1 DEF Orderly, InOrder, Kin
      <4>3. stream[f].gen <= stream[a].gen BY <1>5, <1>14, <2>1, <2>2, <3>1, <3>3 DEF Orderly, Kin
      <4>4. stream[f].gen = stream[k].gen BY <2>1, <3>1, <4>2, <4>3
      <4>. QED BY <1>0, <2>1, <2>2, <3>1, <4>1, <4>4 DEF Numbered
    <3>. QED BY <3>2, <3>3 DEF Steady
  <2>3. Waiting(k) \/ InUse(k) BY <2>1, <2>2 DEF WaitState, KeysWait, LastKey
  <2>4. ASSUME InUse(k) PROVE Ahead(senderKeys[d], stream[a].n)
    <3>1. SUFFICES ASSUME ~Ahead(senderKeys[d], stream[a].n) PROVE FALSE OBVIOUS
    <3>2. stream[k].at <= stream[a].n
      <4>1. k = KeyOf(a) BY <1>0, <1>5, <1>14, <2>1, KeyOfIs
      <4>. QED BY <1>0, <1>5, <1>14, <4>1, KeyOfIs
    <3>3. PICK f \in 1..sent : Cipher(f) /\ Under(f, k) /\ stream[f].n = stream[a].n
      BY <1>8, <2>1, <2>4, <3>1, <3>2 DEF WaitState, Sent
    <3>4. f \in DOMAIN stream /\ f # a BY <1>6
    <3>5. Kin(f, a) /\ stream[f].gen = stream[a].gen BY <2>1, <3>3 DEF Under, Kin
    <3>. QED BY <1>0, <1>5, <1>14, <3>3, <3>4, <3>5 DEF Numbered
  <2>. QED BY <2>3, <2>4
<1>15. TextsWait'
  <2>1. ASSUME NEW e \in mailbox' \ dropped, stream[e].kind = "text", ~Had(e, DOMAIN thread),
               \A q \in Runs : e \notin Hand(run[q]), NEW k \in 1..sent' \ dropped, Under(e, k)
        PROVE  Waiting(k)' \/ (InUse(k) /\ Ahead(senderKeys[stream[e].device], stream[e].n))
    <3>1. CASE k = a BY <1>12, <2>1, <3>1 DEF Under
    <3>2. CASE k # a /\ e = a
      <4>1. Cipher(a) /\ k \in 1..sent \ dropped BY <1>4, <2>1, <3>2 DEF Cipher
      <4>2. Waiting(k) \/ (InUse(k) /\ Ahead(senderKeys[d], stream[a].n)) BY <1>14, <2>1, <3>2, <4>1
      <4>. QED BY <1>7, <1>11, <3>2, <4>2
    <3>3. CASE k # a /\ e # a
      <4>1. e \in mailbox \ dropped /\ k \in 1..sent \ dropped BY <1>2, <1>4, <2>1, <3>3
      <4>2. Waiting(k) \/ (InUse(k) /\ Ahead(senderKeys[stream[e].device], stream[e].n))
        BY <2>1, <4>1 DEF WaitState, TextsWait
      <4>. QED BY <1>11, <4>2
    <3>. QED BY <3>1, <3>2, <3>3
  <2>. QED BY <1>2, <2>1 DEF TextsWait, Had, Hand, Under, IsKey, Kin, InUse, Ahead
<1>16. Sent'
  <2>1. 1..sent \subseteq 1..sent' BY <1>4
  <2>2. ASSUME NEW b \in Devices, NEW i \in Nat, ~Ahead(ratchets[b], i)
        PROVE  \E f \in 1..sent' : IsKey(f) /\ stream[f].device = b /\ stream[f].n = i
    BY <2>1, <2>2 DEF WaitState, Sent
  <2>3. ASSUME NEW k \in DOMAIN stream, IsKey(k), InUse(k)
        PROVE  /\ stream[k].at <= senderKeys[stream[k].device].next
               /\ \A i \in Nat : stream[k].at <= i /\ ~Ahead(senderKeys[stream[k].device], i) =>
                    \E f \in 1..sent' : Cipher(f) /\ Under(f, k) /\ stream[f].n = i
    BY <2>1, <2>3 DEF WaitState, Sent
  <2>. QED BY <1>2, <2>2, <2>3 DEF Sent, IsKey, Cipher, Under, Kin, InUse, Ahead
<1>17. Orderly' /\ failures' = 0 => NotedSpent'
  BY <1>2, <1>9 DEF WaitState, NotedSpent, Orderly, InOrder, IsKey, Cipher, Under, Kin, InUse, Ahead
<1>. QED BY <1>10, <1>13, <1>15, <1>16, <1>17 DEF WaitState

LEMMA InHandIs ==
  ASSUME NEW e
  PROVE  InHand(e) <=> \E q \in Runs : e \in Hand(run[q])
BY DEF InHand, Hand, Current

LEMMA CrashWaits ==
  ASSUME KeptInv, KeptInv', WaitState, Crash
  PROVE  WaitState'
<1>0. SyncTypeOK BY DEF KeptInv
<1>1. /\ run' = [q \in Runs |-> Idle] /\ dropped' = dropped \cup {e \in 1..sent : InHand(e)}
      /\ UNCHANGED <<stream, sent, mailbox, ratchets, senderKeys, thread, failures>>
  BY DEF Crash, disk
<1>2. \A q \in Runs : run'[q].pc = "idle" /\ run'[q].acks = {} BY <1>1, IdleIs
<1>3. mailbox \subseteq 1..sent BY <1>0, EnvelopeCount
<1>4. ASSUME NEW e \in 1..sent \ dropped' PROVE e \notin dropped /\ \A q \in Runs : e \notin Hand(run[q])
  <2>1. e \notin dropped /\ ~InHand(e) BY <1>1
  <2>. QED BY <2>1, InHandIs
<1>5. Noted' \subseteq Noted /\ Noted' = 1..sent \ mailbox BY <1>1, <1>2 DEF Noted
<1>6. LoneState'
  <2>1. ASSUME NEW q \in Runs PROVE RunLone(run[q])'
    <3>1. run'[q].pc \notin {"store", "thread", "merge"} BY <1>2
    <3>. QED BY <3>1 DEF RunLone
  <2>. QED BY <1>1, <1>2, <2>1 DEF WaitState, LoneState, ChainOK, OneBusy
<1>7. ASSUME NEW k \in 1..sent \ dropped', Waiting(k) PROVE Waiting(k)'
  <2>1. k \in mailbox \ Noted' BY <1>5, <1>7 DEF Waiting
  <2>2. \A q \in Runs : run[q].pc = "install" => Min(run[q].todo) # k BY <1>4 DEF Hand
  <2>3. Ahead(ratchets[stream[k].device], stream[k].n) BY <1>7, <2>2 DEF Waiting
  <2>. QED BY <1>1, <2>1, <2>3 DEF Waiting, Ahead
<1>8. KeysWait'
  <2>1. ASSUME NEW k \in 1..sent \ dropped', LastKey(k) PROVE Waiting(k)' \/ InUse(k)
    BY <1>4, <1>7, <2>1 DEF WaitState, KeysWait
  <2>. QED BY <1>1, <2>1 DEF KeysWait, LastKey, IsKey, Kin, InUse
<1>9. TextsWait'
  <2>1. ASSUME NEW e \in mailbox \ dropped', stream[e].kind = "text", ~Had(e, DOMAIN thread),
               NEW k \in 1..sent \ dropped', Under(e, k)
        PROVE  Waiting(k)' \/ (InUse(k) /\ Ahead(senderKeys[stream[e].device], stream[e].n))
    <3>1. e \in 1..sent \ dropped' BY <1>3
    <3>2. e \notin dropped /\ k \notin dropped /\ \A q \in Runs : e \notin Hand(run[q]) BY <1>4, <3>1
    <3>3. Waiting(k) \/ (InUse(k) /\ Ahead(senderKeys[stream[e].device], stream[e].n))
      BY <2>1, <3>2 DEF WaitState, TextsWait
    <3>. QED BY <1>7, <3>3
  <2>. QED BY <1>1, <2>1 DEF TextsWait, Had, Under, IsKey, Kin, InUse, Ahead
<1>10. Sent' BY <1>1 DEF WaitState, Sent, IsKey, Cipher, Under, Kin, InUse, Ahead
<1>11. Orderly' /\ failures' = 0 => NotedSpent'
  <2>1. SUFFICES ASSUME Orderly', failures' = 0 PROVE NotedSpent' OBVIOUS
  <2>2. NotedSpent BY <1>1, <2>1 DEF WaitState, Orderly, InOrder, IsKey, Cipher, Under, Kin
  <2>3. ASSUME NEW k \in DOMAIN stream \ dropped', IsKey(k), InUse(k) PROVE k \in Noted'
    <3>1. k \notin dropped BY <1>1
    <3>2. k \in Noted /\ k \in 1..sent BY <2>2, <2>3, <3>1 DEF NotedSpent, Noted
    <3>3. \A q \in Runs : k \notin run[q].acks BY <1>4, <3>2 DEF Hand
    <3>. QED BY <1>5, <3>2, <3>3 DEF Noted
  <2>4. \A f \in Noted' : LET c == senderKeys[stream[f].device]
                          IN  Cipher(f) /\ c.gen = stream[f].gen => ~Ahead(c, stream[f].n)
    BY <1>5, <2>2 DEF NotedSpent
  <2>. QED BY <1>1, <2>3, <2>4 DEF NotedSpent, IsKey, Cipher, InUse, Ahead
<1>. QED BY <1>6, <1>8, <1>9, <1>10, <1>11 DEF WaitState

LEMMA WaitInit == ASSUME SyncInit PROVE WaitState
<1>0. KeptInv BY KeptInit
<1>1. SyncTypeOK BY <1>0 DEF KeptInv
<1>2. /\ sent = 0 /\ mailbox = {} /\ \A d \in Devices : ratchets[d] = NoChain /\ senderKeys[d] = NoChain
      /\ \A q \in Runs : run[q].pc = "idle" /\ run[q].acks = {}
  BY IdleIs DEF SyncInit
<1>3. NoChain.next = 0 /\ NoChain.skipped = {} /\ NoChain.gen = 0 BY DEF NoChain
<1>4. LoneState BY <1>2, <1>3 DEF LoneState, OneBusy, RunLone, ChainOK
<1>5. 1..sent = {} /\ Noted = {} BY <1>2 DEF Noted
<1>6. ASSUME NEW k \in DOMAIN stream, IsKey(k) PROVE ~InUse(k)
  <2>1. stream[k].device \in Devices /\ stream[k].gen > 0 /\ stream[k].gen \in Nat BY <1>1, <1>6, DomainType
  <2>. QED BY <1>2, <1>3, <2>1 DEF InUse
<1>7. KeysWait /\ TextsWait BY <1>2, <1>5 DEF KeysWait, TextsWait
<1>8. Sent
  <2>1. \A d \in Devices, i \in Nat : Ahead(ratchets[d], i) BY <1>2, <1>3 DEF Ahead
  <2>. QED BY <1>6, <2>1 DEF Sent
<1>9. NotedSpent BY <1>5, <1>6 DEF NotedSpent
<1>. QED BY <1>4, <1>7, <1>8, <1>9 DEF WaitState

LEMMA SteadyStays ==
  ASSUME KeptInv, Steady', [SyncNext]_syncVars
  PROVE  Steady /\ ~overlapped'
<1>1. overlapped \in BOOLEAN /\ failures \in Nat /\ sent \in Nat BY EnvelopeCount DEF KeptInv, SyncTypeOK
<1>2. /\ stream' = stream /\ (overlapped => overlapped') /\ (sent' = sent \/ sent' = sent + 1)
      /\ failures' = failures \/ failures' = failures + 1
  BY <1>1 DEF SyncNext, syncVars, Arrive, Crash, BeginSync, RequestFails, Work, Fetch, Lookup, Load, Store, Install,
              LoadThread, Merge, BeginSave, SaveRow, Trim, SaveCursor, Ack, faults
<1>3. Numbered BY <1>2 DEF Steady, Numbered, IsKey, Kin, Cipher, Under
<1>4. Orderly' => Orderly BY <1>2 DEF Orderly, InOrder, IsKey, Kin, Cipher, Under
<1>5. Rekeyed => Rekeyed'
  <2>1. SUFFICES ASSUME NEW e \in Of("key"), stream[e].gen > 1 PROVE Rekeyed' BY DEF Rekeyed
  <2>2. 1..sent \subseteq 1..sent' BY <1>1, <1>2
  <2>3. e \in Of("key")' BY <1>2, <2>2 DEF Of
  <2>. QED BY <1>2, <2>1, <2>3 DEF Rekeyed
<1>. QED BY <1>1, <1>2, <1>3, <1>4, <1>5 DEF Steady

LEMMA WaitNext ==
  ASSUME KeptInv, KeptInv', Calm => CalmState, Steady => WaitState, Steady', [SyncNext]_syncVars
  PROVE  WaitState'
<1>0. Steady /\ Numbered /\ WaitState /\ ~overlapped' BY SteadyStays DEF Steady
<1>1. Orderly /\ failures = 0 => CalmState BY <1>0 DEF Steady, Calm, Orderly
<1>2. CASE UNCHANGED syncVars
  <2>1. UNCHANGED <<stream, sent, mailbox, ratchets, senderKeys, thread, run, failures, dropped>>
    BY <1>2 DEF syncVars, disk, faults
  <2>2. Noted' = Noted BY <2>1 DEF Noted
  <2>3. \A k : Waiting(k) => Waiting(k)' BY <2>1, <2>2 DEF Waiting, Ahead
  <2>4. LoneState' BY <1>0, <2>1 DEF WaitState, LoneState, OneBusy, RunLone, ChainOK, LoadedFor, Place, Ratchet, IsKey, Ahead
  <2>5. KeysWait' BY <1>0, <2>1, <2>3 DEF WaitState, KeysWait, LastKey, IsKey, Kin, InUse
  <2>6. TextsWait' BY <1>0, <2>1, <2>3 DEF WaitState, TextsWait, Had, Hand, Under, IsKey, Kin, InUse, Ahead
  <2>7. Sent' BY <1>0, <2>1 DEF WaitState, Sent, IsKey, Cipher, Under, Kin, InUse, Ahead
  <2>8. Orderly' /\ failures' = 0 => NotedSpent'
    BY <1>0, <2>1, <2>2 DEF WaitState, NotedSpent, Orderly, InOrder, IsKey, Cipher, Under, Kin, InUse, Ahead
  <2>. QED BY <2>4, <2>5, <2>6, <2>7, <2>8 DEF WaitState
<1>3. CASE Arrive BY <1>0, <1>3, ArriveWaits
<1>4. CASE Crash BY <1>0, <1>4, CrashWaits
<1>5. ASSUME NEW r \in Runs, BeginSync(r) PROVE WaitState' BY <1>0, <1>5, BeginWaits
<1>6. ASSUME NEW r \in Runs, RequestFails(r) PROVE WaitState' BY <1>0, <1>6, FailWaits
<1>7. ASSUME NEW r \in Runs, Work(r) PROVE WaitState'
  BY <1>0, <1>1, <1>7, FetchWaits, LookupWaits, LoadWaits, StoreKeyWaits, StoreTextWaits, InstallWaits,
     LoadThreadWaits, MergeWaits, BeginSaveWaits, SaveRowWaits, TrimWaits, SaveCursorWaits, AckWaits
     DEF Work
<1>. QED BY <1>2, <1>3, <1>4, <1>5, <1>6, <1>7 DEF SyncNext

LEMMA WaitingIsOpenable ==
  ASSUME KeptInv, Steady, WaitState
  PROVE  OnlyInHandIsLost
<1>0. SyncTypeOK /\ Numbered BY DEF KeptInv, Steady
<1>1. SUFFICES ASSUME NEW e \in Lost, e \notin dropped, KeyOf(e) \notin dropped PROVE FALSE
  BY DEF OnlyInHandIsLost
<1>2. /\ e \in 1..sent /\ stream[e].kind = "text" /\ Cipher(e) /\ e \in mailbox
      /\ ~Had(e, DOMAIN thread) /\ ~InHand(e) /\ ~Openable(e)
  BY DEF Lost, Of, Cipher, Has, Had
<1>3. e \in DOMAIN stream /\ sent \in Nat BY <1>0, <1>2, EnvelopeType, EnvelopeCount
<1>4. PICK k \in DOMAIN stream : k = KeyOf(e) /\ Under(e, k) /\ k < e BY <1>0, <1>2, <1>3, KeyOfIs
<1>5. k \in 1..sent
  <2>1. k \in Nat /\ k > 0
    <3>1. stream \in Seq(Envelopes) BY <1>0, StreamsAssumption DEF SyncTypeOK
    <3>. QED BY <3>1
  <2>. QED BY <1>2, <1>3, <1>4, <2>1
<1>6. \A q \in Runs : e \notin Hand(run[q]) BY <1>2, InHandIs
<1>7. Waiting(k) \/ (InUse(k) /\ Ahead(senderKeys[stream[e].device], stream[e].n))
  BY <1>1, <1>2, <1>4, <1>5, <1>6 DEF WaitState, TextsWait
<1>8. stream[k].device = stream[e].device /\ stream[k].gen = stream[e].gen BY <1>4 DEF Under, Kin
<1>9. CASE Waiting(k)
  <2>1. k \in mailbox BY <1>9 DEF Waiting
  <2>2. InHand(k) \/ Ahead(ratchets[stream[e].device], stream[k].n)
    <3>1. ASSUME NEW q \in Runs, run[q].pc = "install", Min(run[q].todo) = k PROVE InHand(k)
      BY <3>1 DEF InHand, Current
    <3>. QED BY <1>8, <1>9, <3>1 DEF Waiting
  <2>. QED BY <1>2, <1>4, <2>1, <2>2 DEF Openable
<1>10. CASE InUse(k) /\ Ahead(senderKeys[stream[e].device], stream[e].n)
  BY <1>2, <1>8, <1>10 DEF Openable, InUse
<1>. QED BY <1>7, <1>9, <1>10

\* What becomes of a text: acknowledged, it is saved; not acknowledged, it can still be
\* opened, but for those that were in hand when the app was killed, or whose key was.
THEOREM NoTextIsLost == SyncSpec => []TextsKept
<1>1. KeptInv => AckedIsKept BY DEF KeptInv, AckedIsKept, Acked, Of, Has, Had
<1>2. KeptInv /\ (Steady => WaitState) => OnlyInHandIsLost BY WaitingIsOpenable DEF OnlyInHandIsLost
<1>3. SyncInit => KeptInv /\ (Calm => CalmState) /\ (Steady => WaitState) BY KeptInit, CalmInit, WaitInit
<1>4. KeptInv /\ (Calm => CalmState) /\ (Steady => WaitState) /\ [SyncNext]_syncVars
        => KeptInv' /\ (Calm => CalmState)' /\ (Steady => WaitState)'
  BY KeptNext, CalmNext, WaitNext
<1>5. KeptInv /\ (Steady => WaitState) => TextsKept BY <1>1, <1>2 DEF TextsKept
<1>. QED BY <1>3, <1>4, <1>5, PTL DEF SyncSpec
=============================================================================
