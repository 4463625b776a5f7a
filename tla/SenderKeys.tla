------------------------------ MODULE SenderKeys ------------------------------
(***************************************************************************)
(* How a phone encrypts for a group: sendMessage and                       *)
(* sendEncryptedControlMessage of useSendMessage.ts (apps/mobile), which   *)
(* take the same steps, from one await to the next.  The group's texts are *)
(* encrypted under the phone's sender key, which goes to every other       *)
(* device of the group over a double ratchet of its own.  Nothing keeps    *)
(* two sends apart.  What the relay takes reaches the readers' phones in   *)
(* order and is opened there as syncEncryptedMailbox does (MailboxSync has *)
(* what interrupts that; MessageRelay what interrupts the relay).          *)
(***************************************************************************)
EXTENDS Integers, FiniteSets, TLC

CONSTANTS Sends,       \* sends that may overlap
          Devices,     \* the group's devices but this phone
          Accounts,
          Account,     \* device |-> its account
          Me,          \* the phone's account, which stays in the group
          Linked,      \* devices that are registered at the start
          InGroup,     \* accounts that are in the group at the start
          Budgets      \* bounds of the model: sends, and those begun while another
                       \* is under way; kills, failed requests, envelopes that
                       \* full mailboxes refuse, ratchets that peers start,
                       \* changes of the group and its devices

ASSUME SenderKeysAssumption ==
  /\ Account \in [Devices -> Accounts] /\ Me \in InGroup /\ InGroup \subseteq Accounts
  /\ Linked \subseteq Devices /\ IsFiniteSet(Accounts)
  /\ Budgets \subseteq [sends : Nat, overlaps : Nat, kills : Nat, fails : Nat, full : Nat,
                         hails : Nat, changes : Nat]

VARIABLES linked,      \* devices at the relay (revoked_at is never set)
          account,     \* conversation_members: "new", "in" or "out"
          epoch,       \* conversations.epoch
          known,       \* the epoch in the phone's catalog (selectedGroup.epoch)
          directory,   \* deviceBundleDirectory: account |-> devices, once fetched
          senderKey,   \* the phone's row of group_sender_keys
          ratchet,     \* the phone's double_ratchet_sessions
          run,         \* the sends
          reader,      \* the devices' side of the ratchets, and the keys they hold
          letters,     \* devices whose first envelope to the phone is under way
          made,        \* sender keys and ratchets made so far
          budget,
          texts,       \* what the relay accepted (history)
          past         \* what went wrong (history): ratchets whose first envelope
                       \* got lost (cut), keys that a device did not get though it
                       \* counts as sharing them (missed), or got without that
                       \* (torn), sends in each other's way (raced), and texts
                       \* that a device could not open (blank)

relayVars == <<linked, account, epoch>>
phone == <<known, directory, senderKey, ratchet>>
history == <<texts, past>>
keyVars == <<relayVars, phone, run, reader, letters, made, budget, history>>

-----------------------------------------------------------------------------
NoKey == [gen |-> 0, next |-> 0, shared |-> {}]
NoRatchet == [id |-> 0, next |-> 0]
Theirs == 1                       \* the ratchet that a device has started itself

Idle == [pc |-> "idle", seen |-> 0, roster |-> {}, to |-> {},
         key |-> NoKey, targets |-> {}, left |-> {}, current |-> NoRatchet, batch |-> {}]

KeyInit ==
  /\ linked = Linked
  /\ account = [a \in Accounts |-> IF a \in InGroup THEN "in" ELSE "new"]
  /\ epoch = 1 /\ known = 1
  /\ directory = [a \in {} |-> {}]
  /\ senderKey = NoKey /\ ratchet = [d \in Devices |-> NoRatchet]
  /\ run = [s \in Sends |-> Idle]
  /\ reader = [d \in Devices |-> [id |-> 0, opened |-> {}, keys |-> {}, gen |-> 0,
                                  next |-> 0, skipped |-> {}]]
  /\ letters = {}
  /\ made = [keys |-> 0, ratchets |-> Theirs]
  /\ budget \in Budgets
  /\ texts = {}
  /\ past = [cut |-> {}, missed |-> {}, torn |-> {}, raced |-> FALSE, blank |-> {}]

Members == {a \in Accounts : account[a] = "in"}
Reached == {d \in linked : Account[d] \in Members}
Spend(what, n) == budget[what] >= n /\ budget' = [budget EXCEPT ![what] = @ - n]

-----------------------------------------------------------------------------
(* The group and its devices change at the relay.                          *)

LinkDevice(d) ==
  /\ d \notin linked /\ linked' = linked \cup {d}
  /\ Spend("changes", 1)
  /\ UNCHANGED <<account, epoch, phone, run, reader, letters, made, history>>

\* Accepting an invite leaves the epoch as it is.
Join(a) ==
  /\ account[a] = "new" /\ account' = [account EXCEPT ![a] = "in"]
  /\ Spend("changes", 1)
  /\ UNCHANGED <<linked, epoch, phone, run, reader, letters, made, history>>

\* One removal at a time, in its two statements; GroupMembership has several.
Bumping == Cardinality({a \in Accounts : account[a] = "out"}) # epoch - 1

MarkRemoved(a) ==
  /\ a # Me /\ ~Bumping
  /\ account[a] = "in" /\ account' = [account EXCEPT ![a] = "out"]
  /\ Spend("changes", 1)
  /\ UNCHANGED <<linked, epoch, phone, run, reader, letters, made, history>>

BumpEpoch ==
  /\ Bumping /\ epoch' = epoch + 1
  /\ UNCHANGED <<linked, account, phone, run, reader, letters, made, budget, history>>

\* The phone's list of conversations is fetched again.
Refresh ==
  /\ known # epoch /\ known' = epoch
  /\ UNCHANGED <<relayVars, directory, senderKey, ratchet, run, reader, letters, made, budget,
                 history>>

-----------------------------------------------------------------------------
(* The other direction: a device with no ratchet for the phone starts one  *)
(* when it sends its own key, and the phone takes it if it has none.       *)

\* A send is between loadDoubleRatchetSession and saveDoubleRatchetSession.
Stepping(d) == \E s \in Sends : run[s].pc = "store" /\ run[s].current.device = d

Hail(d) ==
  /\ d \in Reached /\ reader[d].id = 0
  /\ Spend("hails", 1)
  /\ reader' = [reader EXCEPT ![d].id = Theirs]
  /\ letters' = letters \cup {d}
  /\ UNCHANGED <<relayVars, phone, run, made, history>>

Hear(d) ==
  /\ d \in letters /\ letters' = letters \ {d}
  /\ ratchet' = IF ratchet[d] = NoRatchet
                THEN [ratchet EXCEPT ![d] = [id |-> Theirs, next |-> 0]] ELSE ratchet
  /\ past' = [past EXCEPT !.raced = @ \/ (ratchet[d] = NoRatchet /\ Stepping(d))]
  /\ UNCHANGED <<relayVars, known, directory, senderKey, run, reader, made, budget, texts>>

-----------------------------------------------------------------------------
(* A send, up to the choice of the key.                                     *)

At(s, pc) == run[s].pc = pc
Busy == {s \in Sends : ~At(s, "idle")}

BeginSend(s) ==
  /\ At(s, "idle")
  /\ run' = [run EXCEPT ![s].pc = "roster", ![s].seen = known]
  /\ budget.sends > 0 /\ (Busy # {} => budget.overlaps > 0)
  /\ budget' = [budget EXCEPT !.sends = @ - 1, !.overlaps = IF Busy = {} THEN @ ELSE @ - 1]
  /\ UNCHANGED <<relayVars, phone, reader, letters, made, history>>

FetchRoster(s) ==
  /\ At(s, "roster")
  /\ run' = [run EXCEPT ![s].pc = "directory", ![s].roster = Members]
  /\ UNCHANGED <<relayVars, phone, reader, letters, made, budget, history>>

\* listDeviceBundlesForAccount, for each account of the roster.
DevicesOf(a) == {d \in linked : Account[d] = a}
LookUp(s) ==
  /\ At(s, "directory")
  /\ LET listed == [a \in DOMAIN directory \cup run[s].roster |->
                      IF a \in DOMAIN directory THEN directory[a] ELSE DevicesOf(a)]
         to     == UNION {listed[a] : a \in run[s].roster}
     IN  /\ directory' = listed
         /\ run' = [run EXCEPT ![s] = IF to = {} THEN Idle ELSE [@ EXCEPT !.pc = "key", !.to = to]]
  /\ UNCHANGED <<relayVars, known, senderKey, ratchet, reader, letters, made, budget, history>>

NewKey == [gen |-> made.keys + 1, next |-> 0, shared |-> {}]
KeyKept(s) == senderKey.gen # 0                                      \* faulty
KeyStands(s) == senderKey.gen # 0 /\ senderKey.shared \subseteq run[s].to

NobodyMissing(s, key) == IF KeyStands(s) THEN {} ELSE run[s].to      \* faulty
Missing(s, key) == run[s].to \ key.shared

\* Another send is between loadGroupSenderKey and saveGroupSenderKey, or has
\* still to send its text under the key that this one replaces.
Races(s) == \E r \in Sends \ {s} :
  run[r].pc \in {"load", "store", "post", "save"} \cup (IF KeyStands(s) THEN {} ELSE {"text"})

\* loadGroupSenderKey; a key that a device no longer listed has is replaced.
LoadKey(s) ==
  /\ At(s, "key")
  /\ LET key  == IF KeyStands(s) THEN senderKey ELSE NewKey
         left == Missing(s, key)
     IN  /\ run' = [run EXCEPT ![s].key = key, ![s].targets = left, ![s].left = left,
                               ![s].pc = IF left = {} THEN "save" ELSE "load"]
         /\ made' = [made EXCEPT !.keys = IF KeyStands(s) THEN @ ELSE key.gen]
  /\ past' = [past EXCEPT !.raced = @ \/ Races(s)]
  /\ UNCHANGED <<relayVars, phone, reader, letters, budget, texts>>

-----------------------------------------------------------------------------
(* The key goes to the devices that lack it, one ratchet after another.     *)

LoadRatchet(s, d) ==
  /\ At(s, "load") /\ d \in run[s].left
  /\ run' = [run EXCEPT ![s].pc = "store", ![s].left = @ \ {d},
                        ![s].current = [device |-> d, id |-> ratchet[d].id, next |-> ratchet[d].next]]
  /\ UNCHANGED <<relayVars, phone, reader, letters, made, budget, history>>

\* Encrypting steps the ratchet, or starts one with an ephemeral key; it is
\* saved before the envelope is sent.
StoreRatchet(s) ==
  LET c     == run[s].current
      first == c.id = 0
      e     == [to |-> c.device, id |-> IF first THEN made.ratchets + 1 ELSE c.id,
                n |-> c.next, first |-> first]
  IN  /\ At(s, "store")
      /\ ratchet' = [ratchet EXCEPT ![e.to] = [id |-> e.id, next |-> e.n + 1]]
      /\ made' = [made EXCEPT !.ratchets = IF first THEN e.id ELSE @]
      /\ run' = [run EXCEPT ![s].batch = @ \cup {e}, ![s].current = NoRatchet,
                            ![s].pc = IF run[s].left = {} THEN "post" ELSE "load"]
      /\ UNCHANGED <<relayVars, known, directory, senderKey, reader, letters, budget, history>>

\* The reader's initBob and DoubleRatchetSession.decrypt.
OpensKey(r, e) == IF r.id = 0 THEN e.first ELSE r.id = e.id /\ e.n \notin r.opened
TakeKey(r, e, key) ==
  IF ~OpensKey(r, e) THEN r
  ELSE [id |-> e.id, opened |-> r.opened \cup {e.n},
        keys |-> r.keys \cup {[gen |-> key.gen, from |-> key.next]},
        gen |-> key.gen, next |-> key.next, skipped |-> {}]

Envelope(s, d) == CHOOSE e \in run[s].batch : e.to = d
\* The devices that a send has started a ratchet for.
Firsts(s) == {e.to : e \in {f \in run[s].batch : f.first}}

\* The key's list, with the devices it was sent to.
SharedKey(s) == [run[s].key EXCEPT !.shared = @ \cup run[s].targets]

\* POST /v1/messages/batch: refused whole when the epoch has changed, else
\* each device of the group gets its envelope unless its mailbox is full.
\* The answer may be lost; it is not looked at.
PostKeys(s, full, answered) ==
  LET got == (run[s].targets \cap Reached) \ full
      gen == run[s].key.gen
  IN  /\ At(s, "post") /\ run[s].seen = epoch
      /\ full \subseteq run[s].targets \cap Reached
      /\ budget.full >= Cardinality(full) /\ (answered \/ budget.fails > 0)
      /\ budget' = [budget EXCEPT !.full = @ - Cardinality(full),
                                  !.fails = IF answered THEN @ ELSE @ - 1]
      /\ reader' = [d \in Devices |-> IF d \in got THEN TakeKey(reader[d], Envelope(s, d), run[s].key)
                                      ELSE reader[d]]
      /\ run' = [run EXCEPT ![s] =
           IF answered THEN [@ EXCEPT !.pc = "save", !.batch = {}, !.key = SharedKey(s)]
           ELSE Idle]
      /\ past' = [past EXCEPT !.cut = @ \cup (Firsts(s) \ got),
                              !.torn = @ \cup (got \X {gen}),
                              !.missed = IF answered THEN @ \cup ((run[s].targets \ got) \X {gen})
                                         ELSE @]
      /\ UNCHANGED <<relayVars, phone, letters, made, texts>>

\* The text is encrypted and the stepped key saved, then the text is sent.
SteppedKey(s) == [run[s].key EXCEPT !.next = @ + 1]

SaveKey(s) ==
  /\ At(s, "save")
  /\ senderKey' = SteppedKey(s)
  /\ run' = [run EXCEPT ![s].pc = "text"]
  /\ past' = [past EXCEPT !.torn = @ \ (run[s].key.shared \X {run[s].key.gen})]
  /\ UNCHANGED <<relayVars, known, directory, ratchet, reader, letters, made, budget, texts>>

\* SenderKeySession.decrypt.
OpensText(r, t) == r.gen = t.gen /\ (t.n >= r.next \/ t.n \in r.skipped)
TakeText(r, t) ==
  IF ~OpensText(r, t) THEN r
  ELSE [r EXCEPT !.skipped = (@ \cup r.next .. t.n) \ {t.n},
                 !.next = IF t.n >= @ THEN t.n + 1 ELSE @]

\* POST /v1/messages/group: to every device of the group but this one.  (Blocks
\* are left out: who blocks the sender gets neither key nor text.)
PostText(s, full) ==
  LET t   == [gen |-> run[s].key.gen, n |-> run[s].key.next, to |-> run[s].to,
              at |-> Reached, settled |-> ~Bumping]
      got == Reached \ full
  IN  /\ At(s, "text") /\ run[s].seen = epoch
      /\ full \subseteq Reached /\ Spend("full", Cardinality(full))
      /\ reader' = [d \in Devices |-> IF d \in got THEN TakeText(reader[d], t) ELSE reader[d]]
      /\ texts' = texts \cup {t}
      /\ past' = [past EXCEPT !.blank = @ \cup ({d \in got : ~OpensText(reader[d], t)} \X {t})]
      /\ run' = [run EXCEPT ![s] = Idle]
      /\ UNCHANGED <<relayVars, phone, letters, made>>

-----------------------------------------------------------------------------
(* What ends a send early.                                                  *)

Abandon(ss) ==
  /\ run' = [s \in Sends |-> IF s \in ss THEN Idle ELSE run[s]]
  /\ past' = [past EXCEPT !.cut = @ \cup UNION {Firsts(s) : s \in ss}]

\* 409 STALE_EPOCH
Refused(s) ==
  /\ run[s].pc \in {"post", "text"} /\ run[s].seen # epoch
  /\ Abandon({s})
  /\ UNCHANGED <<relayVars, phone, reader, letters, made, budget, texts>>

RequestFails(s) ==
  /\ run[s].pc \in {"roster", "directory", "post", "text"}
  /\ Spend("fails", 1) /\ Abandon({s})
  /\ UNCHANGED <<relayVars, phone, reader, letters, made, texts>>

\* The app is killed; the directory lives in memory.
Kill ==
  /\ Spend("kills", 1) /\ Abandon(Sends)
  /\ directory' = [a \in {} |-> {}]
  /\ UNCHANGED <<relayVars, known, senderKey, ratchet, reader, letters, made, texts>>

KeyNext ==
  \/ BumpEpoch \/ Refresh \/ Kill
  \/ \E a \in Accounts : Join(a) \/ MarkRemoved(a)
  \/ \E d \in Devices : LinkDevice(d) \/ Hail(d) \/ Hear(d)
  \/ \E s \in Sends :
       \/ BeginSend(s) \/ FetchRoster(s) \/ LookUp(s) \/ LoadKey(s) \/ StoreRatchet(s)
       \/ SaveKey(s) \/ Refused(s) \/ RequestFails(s)
       \/ \E d \in Devices : LoadRatchet(s, d)
       \/ \E full \in SUBSET Devices :
            PostText(s, full) \/ \E answered \in BOOLEAN : PostKeys(s, full, answered)

KeySpec == KeyInit /\ [][KeyNext]_keyVars

-----------------------------------------------------------------------------
(* Properties                                                               *)

Could(d, t) == \E k \in reader[d].keys : k.gen = t.gen /\ k.from <= t.n

\* A text that the relay accepted can be read only by devices that were in the
\* group then: not by who left before, nor by who joins later.  What may break
\* it: a text accepted between the two statements of a removal; a device that
\* got the key from a send that ended before the key's list was saved (:450);
\* and sends that read a row while another was about to write it (:343).
OnlyMembersRead ==
  \A t \in texts, d \in Devices : Could(d, t) /\ d \notin t.at =>
    \/ ~t.settled
    \/ <<d, t.gen>> \in past.torn
    \/ past.raced

\* A device that gets a text can open it: the key came before it, over a
\* ratchet that both sides share, and no two texts use the same place in the
\* chain.  What may break it: the phone did not know of the device; the
\* envelope with the key was refused by a full mailbox (:450) or the first one
\* never got there, though its ratchet was saved (:414); the device has since
\* got a newer key, of which it keeps one per sender, from a send that ended
\* before it saved that key; both sides had started a ratchet
\* (double-ratchet.ts:150); a removal under way; and sends that read a row
\* while another was about to write it.
TextsOpen ==
  \A b \in past.blank : LET d == b[1] t == b[2] IN
    \/ d \notin t.to
    \/ <<d, t.gen>> \in past.missed
    \/ \E g \in 1..made.keys : g > t.gen /\ <<d, g>> \in past.torn
    \/ d \in past.cut
    \/ reader[d].id = Theirs /\ ratchet[d].id # Theirs
    \/ past.raced
=============================================================================
