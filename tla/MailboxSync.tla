---------------------------- MODULE MailboxSync -----------------------------
(***************************************************************************)
(* How a phone turns its mailbox into the thread it keeps: the runs of     *)
(* syncEncryptedMailbox (apps/mobile/src/features/conversations/           *)
(* conversationSync.ts) over the mailbox, the tables of the phone's        *)
(* database and the in-memory device directory.  Nothing keeps two runs    *)
(* apart: an 8 s timer, notifications and screens start them.  One action  *)
(* is the code from one await to the next.                                 *)
(*                                                                         *)
(* The peer's envelopes are a sequence; an envelope is its position in it. *)
(* A "key" envelope (version 2) carries the sender key numbered gen; "text"*)
(* and "delete" (version 3) are the n-th ciphertext under a sender key.    *)
(***************************************************************************)
EXTENDS Integers, FiniteSets, Sequences, FiniteSetsExt

CONSTANTS Runs,          \* runs of the sync that may overlap
          Streams,       \* what the peer may send, one sequence per behaviour
          Devices,       \* the peer's devices
          Limit,         \* envelopes per /v1/mailbox/sync
          MaxSkip,       \* how far a chain may be stepped ahead at once
          Kept,          \* MAX_CACHED_GROUP_MESSAGES
          MaxCrashes,    \* bound of the model: times the app is killed
          MaxFailures    \* bound of the model: requests that fail

\* gen and n: the sender key and the place under it; of a key envelope, the sender
\* key it carries, at what place, and its own place under the ratchet.
Envelopes == [kind : {"key", "text", "delete", "closed"}, device : Devices,
              gen : Nat, n : Nat, at : Nat, target : Nat]

ASSUME SyncAssumption ==
  /\ Limit \in Nat \ {0} /\ Kept \in Nat \ {0} /\ MaxSkip \in Nat
  /\ MaxCrashes \in Nat /\ MaxFailures \in Nat
ASSUME StreamsAssumption ==
  \A s \in Streams :
    /\ s \in Seq(Envelopes)
    /\ \A e \in DOMAIN s :
         /\ s[e].kind # "closed" => s[e].gen > 0
         /\ s[e].kind = "delete" => s[e].target \in DOMAIN s /\ s[s[e].target].kind = "text"

VARIABLES stream,      \* the sequence the peer sends
          sent,        \* how much of it has reached the mailbox
          mailbox,     \* the envelopes the relay holds for this device
          cursor,      \* relay_state.mailbox_cursor, 0 when there is none
          ratchets,    \* double_ratchet_sessions: peer device |-> chain
          senderKeys,  \* group_sender_keys: peer device |-> chain
          thread,      \* group_messages_cache: text |-> whether it is deleted
          directory,   \* deviceBundleDirectory for the peer; empty: not fetched
          run,         \* the runs
          crashes, failures,
          overlapped,  \* two runs have been under way at once (history)
          dropped      \* envelopes that were in hand when the app was killed (history)

disk == <<cursor, ratchets, senderKeys, thread>>
faults == <<crashes, failures, dropped>>
syncVars == <<stream, sent, mailbox, disk, directory, run, faults, overlapped>>

-----------------------------------------------------------------------------
(* A chain of message keys: which one it is, the next index, and the        *)
(* indices that were stepped over and not used.                             *)

NoChain == [gen |-> 0, next |-> 0, skipped |-> {}]
Chain(gen, next) == [gen |-> gen, next |-> next, skipped |-> {}]

Opens(c, gen, n) ==
  /\ c.gen = gen
  /\ n \in c.skipped \/ n \in c.next .. c.next + MaxSkip

Stepped(c, n) ==
  IF n \in c.skipped THEN [c EXCEPT !.skipped = @ \ {n}]
  ELSE [c EXCEPT !.next = n + 1, !.skipped = @ \cup (c.next .. n - 1)]

\* A first envelope of the ratchet brings the ephemeral key that starts it.
Ratchet(device, n) ==
  IF ratchets[device] = NoChain /\ n = 0 THEN Chain(1, 0) ELSE ratchets[device]

-----------------------------------------------------------------------------
NoThread == [t \in {} |-> FALSE]
Put(f, t, b) == [u \in DOMAIN f \cup {t} |-> IF u = t THEN b ELSE f[u]]

Idle == [pc |-> "idle", todo |-> {}, last |-> 0, after |-> 0, chain |-> NoChain,
         loaded |-> FALSE, texts |-> NoThread, rows |-> {}, acks |-> {}]

SyncInit ==
  /\ stream \in Streams
  /\ sent = 0 /\ mailbox = {} /\ cursor = 0
  /\ ratchets = [d \in Devices |-> NoChain]
  /\ senderKeys = [d \in Devices |-> NoChain]
  /\ thread = NoThread /\ directory = {}
  /\ run = [r \in Runs |-> Idle]
  /\ crashes = 0 /\ failures = 0 /\ overlapped = FALSE /\ dropped = {}

At(r, pc) == run[r].pc = pc
Go(r, pc) == run' = [run EXCEPT ![r].pc = pc]
Current(r) == Min(run[r].todo)
Env(r) == stream[Current(r)]
Busy == {r \in Runs : ~At(r, "idle")}

\* The next envelope of the batch, or the end of the loop.
Onward(r) == IF run[r].todo = {Current(r)} THEN "save" ELSE "lookup"
AckAnyway(r) ==                                        \* faulty
  [run EXCEPT ![r].todo = @ \ {Current(r)}, ![r].pc = Onward(r), ![r].acks = @ \cup {Current(r)}]
Skip(r) == [run EXCEPT ![r].todo = @ \ {Current(r)}, ![r].pc = Onward(r)]

\* DeviceMailboxDO /enqueue; the device has registered before it sends.
Arrive ==
  /\ sent < Len(stream)
  /\ sent' = sent + 1
  /\ mailbox' = mailbox \cup {sent + 1}
  /\ UNCHANGED <<stream, disk, directory, run, faults, overlapped>>

BeginSync(r) ==
  /\ At(r, "idle")
  /\ run' = [run EXCEPT ![r] = [Idle EXCEPT !.pc = "fetch", !.after = cursor]]
  /\ overlapped' = (overlapped \/ Busy # {})
  /\ UNCHANGED <<stream, sent, mailbox, disk, directory, faults>>

\* GET /v1/mailbox/sync?after=..&limit=..: what follows the envelope at the
\* cursor, or everything once that envelope is gone.
CursorAsPlace(q, c) == {e \in q : Cardinality({f \in q : f < e}) >= c}  \* faulty
Remaining(q, c) == IF c \in q THEN {e \in q : e > c} ELSE q

\* The envelopes are listed in the order in which they arrived.
Page(q) == {e \in q : Cardinality({f \in q : f < e}) < Limit}
Fetch(r) ==
  /\ At(r, "fetch")
  /\ LET batch == Page(Remaining(mailbox, run[r].after))
     IN  run' = [run EXCEPT ![r] =
                    IF batch = {} THEN Idle ELSE [@ EXCEPT !.todo = batch, !.last = Max(batch), !.pc = "lookup"]]
  /\ UNCHANGED <<stream, sent, mailbox, disk, directory, faults, overlapped>>

-----------------------------------------------------------------------------
(* The loop over the batch.                                                 *)

Registered == {stream[e].device : e \in 1..sent}

\* listDeviceBundlesForAccount: the list is fetched once and kept; an envelope
\* from a device it does not name is passed over.
Listed(r) == IF directory = {} THEN Registered ELSE directory
Lookup(r) ==
  /\ At(r, "lookup")
  /\ directory' = Listed(r)
  /\ run' = IF Env(r).device \in Listed(r) THEN [run EXCEPT ![r].pc = "load"] ELSE Skip(r)
  /\ UNCHANGED <<stream, sent, mailbox, disk, faults, overlapped>>

\* The chain is loaded and the envelope decrypted with a copy of it; an envelope
\* that does not open is passed over.
ChainFor(r) ==
  IF Env(r).kind = "key" THEN Ratchet(Env(r).device, Env(r).n) ELSE senderKeys[Env(r).device]
Legible(r) ==
  /\ Env(r).kind # "closed"
  /\ Opens(ChainFor(r), IF Env(r).kind = "key" THEN 1 ELSE Env(r).gen, Env(r).n)
Load(r) ==
  /\ At(r, "load")
  /\ run' = IF Legible(r)
            THEN [run EXCEPT ![r].chain = Stepped(ChainFor(r), Env(r).n), ![r].pc = "store"]
            ELSE Skip(r)
  /\ UNCHANGED <<stream, sent, mailbox, disk, directory, faults, overlapped>>

\* The stepped copy replaces whatever the database holds by now.
Store(r) ==
  /\ At(r, "store")
  /\ LET d == Env(r).device
     IN  IF Env(r).kind = "key"
         THEN /\ ratchets' = [ratchets EXCEPT ![d] = run[r].chain]
              /\ Go(r, "install")
              /\ UNCHANGED senderKeys
         ELSE /\ senderKeys' = [senderKeys EXCEPT ![d] = run[r].chain]
              /\ Go(r, IF run[r].loaded THEN "merge" ELSE "thread")
              /\ UNCHANGED ratchets
  /\ UNCHANGED <<stream, sent, mailbox, cursor, thread, directory, faults, overlapped>>

Installed(r) == Chain(Env(r).gen, Env(r).at)

\* The sender key that the envelope carried is installed; nothing else is kept.
Install(r) ==
  /\ At(r, "install")
  /\ senderKeys' = [senderKeys EXCEPT ![Env(r).device] = Installed(r)]
  /\ run' = [Skip(r) EXCEPT ![r].acks = @ \cup {Current(r)}]
  /\ UNCHANGED <<stream, sent, mailbox, cursor, ratchets, thread, directory, faults, overlapped>>

\* The thread is loaded for the first envelope of a run that needs it.
LoadThread(r) ==
  /\ At(r, "thread")
  /\ run' = [run EXCEPT ![r].texts = thread, ![r].loaded = TRUE, ![r].pc = "merge"]
  /\ UNCHANGED <<stream, sent, mailbox, disk, directory, faults, overlapped>>

DeletionIgnored(texts, e) == IF stream[e].kind = "text" THEN Put(texts, e, FALSE) ELSE texts  \* faulty
Merged(texts, e) ==
  IF stream[e].kind = "text" THEN Put(texts, e, FALSE)
  ELSE [t \in DOMAIN texts |-> texts[t] \/ t = stream[e].target]

Merge(r) ==
  /\ At(r, "merge")
  /\ run' = [Skip(r) EXCEPT ![r].texts = Merged(@, Current(r)),
                            ![r].acks = @ \cup {Current(r)}]
  /\ UNCHANGED <<stream, sent, mailbox, disk, directory, faults, overlapped>>

-----------------------------------------------------------------------------
(* After the loop: the thread is saved row by row and trimmed, then the     *)
(* cursor is saved, then the relay is told.                                 *)

\* The newest Kept of a set of texts (texts are numbered as they were written).
Newest(texts) == {t \in texts : Cardinality({u \in texts : u > t}) < Kept}

BeginSave(r) ==
  /\ At(r, "save")
  /\ run' = [run EXCEPT ![r].rows = Newest(DOMAIN run[r].texts),
                           ![r].pc = IF run[r].loaded THEN "rows" ELSE "cursor"]
  /\ UNCHANGED <<stream, sent, mailbox, disk, directory, faults, overlapped>>

SaveRow(r) ==
  /\ At(r, "rows") /\ run[r].rows # {}
  /\ LET t == Min(run[r].rows)
     IN  /\ thread' = Put(thread, t, run[r].texts[t])
         /\ run' = [run EXCEPT ![r].rows = @ \ {t}]
  /\ UNCHANGED <<stream, sent, mailbox, cursor, ratchets, senderKeys, directory, faults, overlapped>>

Trim(r) ==
  /\ At(r, "rows") /\ run[r].rows = {}
  /\ thread' = [t \in Newest(DOMAIN thread) |-> thread[t]]
  /\ Go(r, "cursor")
  /\ UNCHANGED <<stream, sent, mailbox, cursor, ratchets, senderKeys, directory, faults, overlapped>>

SaveCursor(r) ==
  /\ At(r, "cursor")
  /\ cursor' = run[r].last
  /\ run' = [run EXCEPT ![r] = IF run[r].acks = {} THEN Idle ELSE [@ EXCEPT !.pc = "ack"]]
  /\ UNCHANGED <<stream, sent, mailbox, ratchets, senderKeys, thread, directory, faults, overlapped>>

\* POST /v1/mailbox/ack reaches the relay; a lost answer makes no difference.
Ack(r) ==
  /\ At(r, "ack")
  /\ mailbox' = mailbox \ run[r].acks
  /\ run' = [run EXCEPT ![r] = Idle]
  /\ UNCHANGED <<stream, sent, disk, directory, faults, overlapped>>

-----------------------------------------------------------------------------
\* A request fails.  The loop goes on after a lookup that failed; a failed sync
\* or ack ends the run.
RequestFails(r) ==
  /\ failures < MaxFailures
  /\ failures' = failures + 1
  /\ \/ At(r, "lookup") /\ directory = {} /\ run' = Skip(r)
     \/ (At(r, "fetch") \/ At(r, "ack")) /\ run' = [run EXCEPT ![r] = Idle]
  /\ UNCHANGED <<stream, sent, mailbox, disk, directory, crashes, dropped, overlapped>>

\* Envelopes of a run that have been decrypted and not acknowledged.
InHand(e) ==
  \E r \in Runs :
    \/ e \in run[r].acks
    \/ run[r].pc \in {"store", "install", "thread", "merge"} /\ Current(r) = e

\* The app is killed; what it had in memory is gone.
Crash ==
  /\ crashes < MaxCrashes
  /\ crashes' = crashes + 1
  /\ run' = [r \in Runs |-> Idle] /\ directory' = {}
  /\ dropped' = dropped \cup {e \in 1..sent : InHand(e)}
  /\ UNCHANGED <<stream, sent, mailbox, disk, failures, overlapped>>

Work(r) ==
  \/ Fetch(r) \/ Lookup(r) \/ Load(r) \/ Store(r) \/ Install(r) \/ LoadThread(r)
  \/ Merge(r) \/ BeginSave(r) \/ SaveRow(r) \/ Trim(r) \/ SaveCursor(r) \/ Ack(r)

SyncNext ==
  \/ Arrive \/ Crash
  \/ \E r \in Runs : BeginSync(r) \/ Work(r) \/ RequestFails(r)

\* A run that was started goes on, and while a thread is open a timer keeps
\* starting runs.
SyncSpec ==
  /\ SyncInit /\ [][SyncNext]_syncVars
  /\ \A r \in Runs : WF_syncVars(Work(r))
  /\ WF_syncVars(\E r \in Runs : BeginSync(r))

-----------------------------------------------------------------------------
(* Properties.                                                              *)

Of(kind) == {e \in 1..sent : stream[e].kind = kind}
Acked(kind) == Of(kind) \ mailbox

\* The phone has text e, or has had it and keeps Kept newer ones.
Has(e) ==
  \/ e \in DOMAIN thread
  \/ Cardinality({t \in DOMAIN thread : t > e}) >= Kept

\* A text leaves the relay only when the phone has saved it, whatever crashes,
\* fails or overlaps: rows are saved before the ack is sent.
AckedIsKept == \A e \in Acked("text") : Has(e)

Kin(e, f) == stream[e].device = stream[f].device
IsKey(e) == stream[e].kind = "key"
Cipher(e) == stream[e].kind \in {"text", "delete"}

\* Envelopes of a device stand in the mailbox as it made them: keys and ciphertexts
\* by their numbers, a deletion after its text.  (Sends of the peer that overlap may
\* pass each other.)
InOrder ==
  /\ \A e \in DOMAIN stream : stream[e].kind = "delete" => stream[e].target < e
  /\ \A e, f \in DOMAIN stream : e < f /\ Kin(e, f) =>
       /\ IsKey(e) /\ IsKey(f) => stream[e].n < stream[f].n /\ stream[e].gen <= stream[f].gen
       /\ Cipher(e) /\ stream[e].gen = stream[f].gen =>
            stream[e].n < IF IsKey(f) THEN stream[f].at ELSE stream[f].n

\* Nothing has overlapped here or at the peer, and no request failed beside a kill.
Calm == ~overlapped /\ InOrder /\ (failures = 0 \/ crashes = 0)

\* In calm, "delete for everyone" of the device that sent the text is not undone: once
\* the relay has forgotten the deletion, no row shows the text.  (A deletion from
\* another device may be opened while the device of the text is not listed yet.  After
\* a kill the list is fetched again: where that fails, the text is skipped and comes
\* after its deletion.)
DeletionsStick ==
  Calm => \A e \in Acked("delete") :
            LET t == stream[e].target
            IN  stream[t].device = stream[e].device /\ t \in DOMAIN thread => thread[t]

\* In calm, an acknowledged sender key is the one that is used, until a later one
\* replaces it.
KeysAdvance == Calm => \A e \in Acked("key") : senderKeys[stream[e].device].gen >= stream[e].gen

\* What a run saves is not undone by a later one.
SavesStick == DeletionsStick /\ KeysAdvance

\* The key that ciphertext e is under.
Under(e, k) == IsKey(k) /\ Kin(k, e) /\ stream[k].gen = stream[e].gen
KeyOf(e) == CHOOSE k \in DOMAIN stream : Under(e, k)

\* A ciphertext follows the key it is under, and nothing has the number of another.
Numbered ==
  /\ \A e \in DOMAIN stream : Cipher(e) =>
       \E k \in DOMAIN stream : Under(e, k) /\ k < e /\ stream[k].at <= stream[e].n
  /\ \A e, f \in DOMAIN stream : e # f /\ Kin(e, f) =>
       /\ IsKey(e) /\ IsKey(f) => stream[e].gen # stream[f].gen /\ stream[e].n # stream[f].n
       /\ Cipher(e) /\ Cipher(f) /\ stream[e].gen = stream[f].gen => stream[e].n # stream[f].n

\* In order, each under the newest key, and no further ahead of what is before it
\* than a chain is stepped.
Orderly ==
  /\ InOrder
  /\ \A e, k \in DOMAIN stream : Cipher(e) /\ IsKey(k) /\ Kin(k, e) /\ k < e => stream[k].gen <= stream[e].gen
  /\ \A e \in DOMAIN stream : Cipher(e) =>
       \/ \E k \in DOMAIN stream : Under(e, k) /\ stream[e].n <= stream[k].at + MaxSkip
       \/ \E f \in DOMAIN stream : /\ Cipher(f) /\ Kin(f, e) /\ f < e /\ stream[f].gen = stream[e].gen
                                   /\ stream[e].n <= stream[f].n + 1 + MaxSkip

Ahead(c, n) == n >= c.next \/ n \in c.skipped
Openable(e) ==
  LET d == stream[e].device
      k == KeyOf(e)
  IN  \/ senderKeys[d].gen = stream[e].gen /\ Ahead(senderKeys[d], stream[e].n)
      \/ k \in mailbox /\ (InHand(k) \/ Ahead(ratchets[d], stream[k].n))

\* Texts that wait at the relay and that the phone has stepped past.
Lost == {e \in Of("text") : e \in mailbox /\ ~Has(e) /\ ~InHand(e) /\ ~Openable(e)}

Rekeyed == \E e \in Of("key") : stream[e].gen > 1

\* Nothing overlaps; and either no request fails and the peer's sends do not pass each
\* other, or the peer keeps its key.
Steady == ~overlapped /\ Numbered /\ ((Orderly /\ failures = 0) \/ ~Rekeyed)

\* Then being killed costs the texts that were in hand, and those under a sender key
\* that was; failed lookups cost nothing more.
OnlyInHandIsLost == Steady => \A e \in Lost : e \in dropped \/ KeyOf(e) \in dropped

\* What becomes of a text: acknowledged, it is on disk; not yet, it can still be
\* opened, but for those in hand when the app was killed.
TextsKept == AckedIsKept /\ OnlyInHandIsLost

Troubled ==
  \/ crashes > 0 \/ failures > 0 \/ overlapped
  \/ directory # {} /\ ~(Registered \subseteq directory)

\* Undisturbed, the phone catches up again and again: it has every text sent so
\* far, wherever envelopes it cannot open stand in the mailbox.  (A cursor that
\* points at an acknowledged envelope makes the relay start over.)
CaughtUp == \A e \in Of("text") : Has(e)
KeepsCatchingUp == []<>(CaughtUp \/ Troubled)
=============================================================================
