-------------------------- MODULE SenderKeysProofs --------------------------
(***************************************************************************)
(* Theorems of SenderKeys for any number of devices, accounts and sends     *)
(* that overlap: who can read a text of the group, and who can open it.     *)
(***************************************************************************)
EXTENDS SenderKeys, FiniteSetTheorems, TLAPS

-----------------------------------------------------------------------------
(* Types.                                                                   *)

Steps == {"idle", "roster", "directory", "key", "load", "store", "post", "save", "text"}
KeyRec == [gen : Nat, next : Nat, shared : SUBSET Devices]
RatchetRec == [id : Nat, next : Nat]
LoadedRec == [device : Devices, id : Nat, next : Nat]
EnvelopeRec == [to : Devices, id : Nat, n : Nat, first : BOOLEAN]
SendRec == [pc : Steps, seen : Nat, roster : SUBSET Accounts, to : SUBSET Devices,
            key : KeyRec, targets : SUBSET Devices, left : SUBSET Devices,
            current : RatchetRec \cup LoadedRec, batch : SUBSET EnvelopeRec]
ReaderRec == [id : Nat, opened : SUBSET Nat, keys : SUBSET [gen : Nat, from : Nat], gen : Nat,
              next : Nat, skipped : SUBSET Nat]
TextRec == [gen : Nat, n : Nat, to : SUBSET Devices, at : SUBSET Devices, settled : BOOLEAN]
PastRec == [cut : SUBSET Devices, missed : SUBSET (Devices \X Nat),
            torn : SUBSET (Devices \X Nat), raced : BOOLEAN, blank : SUBSET (Devices \X TextRec)]

\* A device that a send is to give the key is still in its list, has its ratchet
\* loaded, or an envelope.
Covered(x) ==
  /\ x.pc = "store" => x.current \in LoadedRec
  /\ x.pc \in {"load", "store", "post"} =>
       \A d \in x.targets : \/ d \in x.left
                            \/ x.pc = "store" /\ x.current.device = d
                            \/ \E e \in x.batch : e.to = d
  /\ x.pc = "post" => x.left = {}

KeyTypeOK ==
  /\ linked \subseteq Devices
  /\ account \in [Accounts -> {"new", "in", "out"}]
  /\ epoch \in Nat /\ known \in Nat
  /\ \A a \in DOMAIN directory : directory[a] \subseteq Devices
  /\ senderKey \in KeyRec /\ ratchet \in [Devices -> RatchetRec]
  /\ run \in [Sends -> SendRec] /\ \A s \in Sends : Covered(run[s])
  /\ reader \in [Devices -> ReaderRec]
  /\ letters \subseteq Devices
  /\ made \in [keys : Nat, ratchets : Nat]
  /\ texts \subseteq TextRec /\ past \in PastRec

\* Only send s changes, to x.
Becomes(s, x) == run' = [run EXCEPT ![s] = x]

LEMMA BecomesIs ==
  ASSUME KeyTypeOK, NEW s \in Sends, NEW x \in SendRec, Becomes(s, x)
  PROVE  /\ run' \in [Sends -> SendRec] /\ run'[s] = x
         /\ \A q \in Sends \ {s} : run'[q] = run[q]
BY DEF KeyTypeOK, Becomes

\* What the steps make of a send x.
LEMMA Rosters ==
  ASSUME NEW x \in SendRec, NEW n \in Nat, NEW members \in SUBSET Accounts,
         NEW to \in SUBSET Devices
  PROVE  /\ [x EXCEPT !.pc = "roster", !.seen = n] \in SendRec
         /\ [x EXCEPT !.pc = "directory", !.roster = members] \in SendRec
         /\ [x EXCEPT !.pc = "key", !.to = to] \in SendRec
BY DEF SendRec, Steps

LEMMA BeginIs ==
  ASSUME KeyTypeOK, NEW s \in Sends, BeginSend(s)
  PROVE  /\ run' \in [Sends -> SendRec] /\ \A q \in Sends \ {s} : run'[q] = run[q]
         /\ run'[s].pc = "roster" /\ run'[s].seen = known /\ run'[s].batch = run[s].batch
<1>1. run[s] \in SendRec /\ known \in Nat
  BY DEF KeyTypeOK
<1>2. run' = [run EXCEPT ![s] = [run[s] EXCEPT !.pc = "roster", !.seen = known]]
  BY <1>1 DEF BeginSend, SendRec, KeyTypeOK
<1>3. [run[s] EXCEPT !.pc = "roster", !.seen = known] \in SendRec
  BY <1>1, Rosters
<1>4. /\ run' \in [Sends -> SendRec] /\ \A q \in Sends \ {s} : run'[q] = run[q]
      /\ run'[s] = [run[s] EXCEPT !.pc = "roster", !.seen = known]
  BY <1>2, <1>3, BecomesIs DEF Becomes
<1>. QED BY <1>1, <1>4 DEF SendRec

LEMMA FetchIs ==
  ASSUME KeyTypeOK, NEW s \in Sends, FetchRoster(s)
  PROVE  /\ run' \in [Sends -> SendRec] /\ \A q \in Sends \ {s} : run'[q] = run[q]
         /\ run'[s].pc = "directory" /\ run'[s].roster = Members /\ run'[s].seen = run[s].seen
         /\ run'[s].batch = run[s].batch
<1>1. run[s] \in SendRec /\ Members \in SUBSET Accounts
  BY DEF KeyTypeOK, Members
<1>2. run' = [run EXCEPT ![s] = [run[s] EXCEPT !.pc = "directory", !.roster = Members]]
  BY <1>1 DEF FetchRoster, SendRec, KeyTypeOK
<1>3. [run[s] EXCEPT !.pc = "directory", !.roster = Members] \in SendRec
  BY <1>1, Rosters
<1>4. /\ run' \in [Sends -> SendRec] /\ \A q \in Sends \ {s} : run'[q] = run[q]
      /\ run'[s] = [run[s] EXCEPT !.pc = "directory", !.roster = Members]
  BY <1>2, <1>3, BecomesIs DEF Becomes
<1>. QED BY <1>1, <1>4 DEF SendRec

LEMMA IdleIs == Idle \in SendRec /\ Idle.pc = "idle" /\ Covered(Idle) /\ Idle.batch = {}
BY DEF Idle, SendRec, NoKey, NoRatchet, KeyRec, RatchetRec, Steps, Covered

\* Every device that LookUp finds is one of its account.
LEMMA LookUpIs ==
  ASSUME KeyTypeOK, NEW s \in Sends, LookUp(s)
  PROVE  /\ run' \in [Sends -> SendRec] /\ \A q \in Sends \ {s} : run'[q] = run[q]
         /\ run'[s] = Idle \/
              /\ run'[s].pc = "key" /\ run'[s].seen = run[s].seen /\ run'[s].roster = run[s].roster
              /\ run'[s].batch = run[s].batch
              /\ \A d \in run'[s].to :
                   \E a \in run[s].roster : a \in DOMAIN directory' /\ d \in directory'[a]
         /\ \A a \in DOMAIN directory' : \/ a \in DOMAIN directory /\ directory'[a] = directory[a]
                                         \/ directory'[a] = DevicesOf(a)
<1>. DEFINE listed == [a \in DOMAIN directory \cup run[s].roster |->
                         IF a \in DOMAIN directory THEN directory[a] ELSE DevicesOf(a)]
<1>1. PICK to : to = UNION {listed[a] : a \in run[s].roster}
  OBVIOUS
<1>2. \A a \in DOMAIN listed : \/ a \in DOMAIN directory /\ listed[a] = directory[a]
                               \/ listed[a] = DevicesOf(a)
  OBVIOUS
<1>3. directory' = listed
  BY DEF LookUp
<1>4. \A a \in DOMAIN listed : listed[a] \subseteq Devices
  BY <1>2 DEF KeyTypeOK, DevicesOf
<1>5. /\ to \subseteq Devices
      /\ \A d \in to : \E a \in run[s].roster : a \in DOMAIN listed /\ d \in listed[a]
  <2>1. \A a \in run[s].roster : a \in DOMAIN listed
    OBVIOUS
  <2>. HIDE DEF listed
  <2>. QED BY <1>1, <1>4, <2>1
<1>6. run[s] \in SendRec /\ run \in [Sends -> SendRec]
  BY DEF KeyTypeOK
<1>7. [run[s] EXCEPT !.pc = "key", !.to = to] \in SendRec
  BY <1>5, <1>6 DEF SendRec, Steps
<1>8. PICK x \in {Idle, [run[s] EXCEPT !.pc = "key", !.to = to]} : run' = [run EXCEPT ![s] = x]
  BY <1>1, <1>6 DEF LookUp
<1>9. x \in SendRec
  BY <1>7, <1>8, IdleIs
<1>10. run' \in [Sends -> SendRec] /\ run'[s] = x /\ \A q \in Sends \ {s} : run'[q] = run[q]
  BY <1>8, <1>9, BecomesIs DEF Becomes
<1>11. x = Idle \/ /\ x.pc = "key" /\ x.seen = run[s].seen /\ x.roster = run[s].roster /\ x.to = to
                   /\ x.batch = run[s].batch
  BY <1>6, <1>8 DEF SendRec
<1>. HIDE DEF listed
<1>. QED BY <1>2, <1>3, <1>5, <1>10, <1>11

\* The key that LoadKey takes, and the devices that lack it.
KeyFor(s) == IF KeyStands(s) THEN senderKey ELSE NewKey
LeftFor(s) == run[s].to \ KeyFor(s).shared

LEMMA LoadKeyIs ==
  ASSUME KeyTypeOK, NEW s \in Sends, LoadKey(s)
  PROVE  /\ KeyFor(s) \in KeyRec /\ LeftFor(s) \in SUBSET Devices
         /\ run' \in [Sends -> SendRec] /\ \A q \in Sends \ {s} : run'[q] = run[q]
         /\ run'[s].pc = IF LeftFor(s) = {} THEN "save" ELSE "load"
         /\ run'[s].key = KeyFor(s) /\ run'[s].targets = LeftFor(s) /\ run'[s].left = LeftFor(s)
         /\ run'[s].seen = run[s].seen /\ run'[s].roster = run[s].roster
         /\ run'[s].to = run[s].to /\ run'[s].batch = run[s].batch
<1>1. PICK key : key = KeyFor(s)
  OBVIOUS
<1>2. PICK left : left = LeftFor(s)
  OBVIOUS
<1>3. PICK pc : pc = IF left = {} THEN "save" ELSE "load"
  OBVIOUS
<1>4. run[s] \in SendRec /\ run \in [Sends -> SendRec]
  BY DEF KeyTypeOK
<1>5. key \in KeyRec /\ left \in SUBSET Devices /\ pc \in Steps
  BY <1>1, <1>2, <1>3, <1>4 DEF KeyTypeOK, KeyRec, NewKey, SendRec, Steps, KeyFor, LeftFor
<1>6. PICK x : x = [run[s] EXCEPT !.key = key, !.targets = left, !.left = left, !.pc = pc]
  OBVIOUS
<1>7. x \in SendRec
  BY <1>4, <1>5, <1>6 DEF SendRec
<1>8. run' = [run EXCEPT ![s] = x]
  BY <1>1, <1>2, <1>3, <1>4, <1>6 DEF LoadKey, Missing, SendRec, KeyFor, LeftFor
<1>9. run' \in [Sends -> SendRec] /\ run'[s] = x /\ \A q \in Sends \ {s} : run'[q] = run[q]
  BY <1>7, <1>8, BecomesIs DEF Becomes
<1>10. run'[s] = [run[s] EXCEPT !.key = key, !.targets = left, !.left = left, !.pc = pc]
  BY <1>6, <1>9
<1>11. /\ run'[s].pc = pc /\ run'[s].key = key /\ run'[s].targets = left /\ run'[s].left = left
       /\ run'[s].seen = run[s].seen /\ run'[s].roster = run[s].roster
       /\ run'[s].to = run[s].to /\ run'[s].batch = run[s].batch
  BY <1>4, <1>10 DEF SendRec
<1>. QED BY ONLY <1>1, <1>2, <1>3, <1>5, <1>9, <1>11

LEMMA LoadRatchetIs ==
  ASSUME KeyTypeOK, NEW s \in Sends, NEW d \in Devices, LoadRatchet(s, d)
  PROVE  /\ run' \in [Sends -> SendRec] /\ \A q \in Sends \ {s} : run'[q] = run[q]
         /\ run'[s].pc = "store" /\ run'[s].left = run[s].left \ {d}
         /\ run'[s].current \in LoadedRec /\ run'[s].current.device = d
         /\ run'[s].current.id = ratchet[d].id /\ run'[s].current.next = ratchet[d].next
         /\ run'[s].seen = run[s].seen /\ run'[s].roster = run[s].roster
         /\ run'[s].to = run[s].to /\ run'[s].key = run[s].key
         /\ run'[s].targets = run[s].targets /\ run'[s].batch = run[s].batch
<1>1. PICK c : c = [device |-> d, id |-> ratchet[d].id, next |-> ratchet[d].next]
  OBVIOUS
<1>2. run[s] \in SendRec /\ run \in [Sends -> SendRec] /\ ratchet[d] \in RatchetRec
  BY DEF KeyTypeOK
<1>3. c \in LoadedRec /\ c.device = d /\ c.id = ratchet[d].id /\ c.next = ratchet[d].next
  BY <1>1, <1>2 DEF LoadedRec, RatchetRec
<1>4. PICK x : x = [run[s] EXCEPT !.pc = "store", !.left = @ \ {d}, !.current = c]
  OBVIOUS
<1>5. x \in SendRec
  BY <1>2, <1>3, <1>4 DEF SendRec, Steps
<1>6. run' = [run EXCEPT ![s] = x]
  BY <1>1, <1>2, <1>4 DEF LoadRatchet, SendRec
<1>7. run' \in [Sends -> SendRec] /\ run'[s] = x /\ \A q \in Sends \ {s} : run'[q] = run[q]
  BY <1>5, <1>6, BecomesIs DEF Becomes
<1>. QED BY <1>2, <1>3, <1>4, <1>7 DEF SendRec

StoresFor(s, e) ==
  /\ run[s].current \in LoadedRec
  /\ e.to = run[s].current.device /\ e.n = run[s].current.next
  /\ e.first <=> run[s].current.id = 0
  /\ e.id = IF e.first THEN made.ratchets + 1 ELSE run[s].current.id
  /\ ratchet' = [ratchet EXCEPT ![e.to] = [id |-> e.id, next |-> e.n + 1]]
  /\ made' = [made EXCEPT !.ratchets = IF e.first THEN e.id ELSE @]
  /\ run' \in [Sends -> SendRec] /\ \A q \in Sends \ {s} : run'[q] = run[q]
  /\ run'[s].pc = IF run[s].left = {} THEN "post" ELSE "load"
  /\ run'[s].batch = run[s].batch \cup {e} /\ run'[s].left = run[s].left
  /\ run'[s].targets = run[s].targets /\ run'[s].key = run[s].key
  /\ run'[s].seen = run[s].seen /\ run'[s].roster = run[s].roster /\ run'[s].to = run[s].to

LEMMA StoreIs ==
  ASSUME KeyTypeOK, NEW s \in Sends, StoreRatchet(s)
  PROVE  \E e \in EnvelopeRec : StoresFor(s, e)
<1>1. PICK e : e = [to |-> run[s].current.device,
                    id |-> IF run[s].current.id = 0 THEN made.ratchets + 1 ELSE run[s].current.id,
                    n |-> run[s].current.next, first |-> run[s].current.id = 0]
  OBVIOUS
<1>2. run[s] \in SendRec /\ run \in [Sends -> SendRec] /\ run[s].current \in LoadedRec
  BY DEF KeyTypeOK, Covered, StoreRatchet, At
<1>3. e \in EnvelopeRec
  BY <1>1, <1>2 DEF EnvelopeRec, LoadedRec, KeyTypeOK
<1>4. /\ e.to = run[s].current.device /\ e.n = run[s].current.next
      /\ e.first <=> run[s].current.id = 0
      /\ e.id = IF e.first THEN made.ratchets + 1 ELSE run[s].current.id
  BY <1>1
<1>5. PICK pc \in Steps : pc = IF run[s].left = {} THEN "post" ELSE "load"
  BY DEF Steps
<1>6. PICK x : x = [run[s] EXCEPT !.batch = @ \cup {e}, !.current = NoRatchet, !.pc = pc]
  OBVIOUS
<1>7. x \in SendRec
  BY <1>2, <1>3, <1>5, <1>6 DEF SendRec, NoRatchet, RatchetRec
<1>8. /\ run' = [run EXCEPT ![s].batch = @ \cup {e}, ![s].current = NoRatchet, ![s].pc = pc]
      /\ ratchet' = [ratchet EXCEPT ![e.to] = [id |-> e.id, next |-> e.n + 1]]
      /\ made' = [made EXCEPT !.ratchets = IF e.first THEN e.id ELSE @]
  BY <1>1, <1>5 DEF StoreRatchet
<1>9. run' = [run EXCEPT ![s] = x]
  BY <1>2, <1>6, <1>8 DEF SendRec
<1>10. run' \in [Sends -> SendRec] /\ run'[s] = x /\ \A q \in Sends \ {s} : run'[q] = run[q]
  BY <1>7, <1>9, BecomesIs DEF Becomes
<1>11. /\ x.pc = pc /\ x.batch = run[s].batch \cup {e} /\ x.left = run[s].left
       /\ x.targets = run[s].targets /\ x.key = run[s].key
       /\ x.seen = run[s].seen /\ x.roster = run[s].roster /\ x.to = run[s].to
  BY <1>2, <1>6 DEF SendRec
<1>. QED BY ONLY <1>2, <1>3, <1>4, <1>5, <1>8, <1>10, <1>11 DEF StoresFor

\* A device that is sent the key has an envelope.
LEMMA EnvelopeIs ==
  ASSUME KeyTypeOK, NEW s \in Sends, run[s].pc = "post", NEW d \in run[s].targets
  PROVE  /\ Envelope(s, d) \in run[s].batch /\ Envelope(s, d).to = d
         /\ Envelope(s, d) \in EnvelopeRec
<1>1. run[s] \in SendRec /\ Covered(run[s])
  BY DEF KeyTypeOK
<1>2. \E e \in run[s].batch : e.to = d
  BY <1>1 DEF Covered
<1>3. Envelope(s, d) \in run[s].batch /\ Envelope(s, d).to = d
  BY <1>2 DEF Envelope
<1>. QED BY <1>1, <1>3 DEF SendRec

LEMMA TakeKeyIs ==
  ASSUME NEW r \in ReaderRec, NEW e \in EnvelopeRec, NEW key \in KeyRec
  PROVE  /\ TakeKey(r, e, key) \in ReaderRec
         /\ ~OpensKey(r, e) => TakeKey(r, e, key) = r
         /\ OpensKey(r, e) => TakeKey(r, e, key) =
              [id |-> e.id, opened |-> r.opened \cup {e.n},
               keys |-> r.keys \cup {[gen |-> key.gen, from |-> key.next]},
               gen |-> key.gen, next |-> key.next, skipped |-> {}]
BY DEF TakeKey, ReaderRec, EnvelopeRec, KeyRec

LEMMA TakeTextIs ==
  ASSUME NEW r \in ReaderRec, NEW t \in TextRec
  PROVE  /\ TakeText(r, t) \in ReaderRec
         /\ TakeText(r, t).id = r.id /\ TakeText(r, t).opened = r.opened
         /\ TakeText(r, t).keys = r.keys /\ TakeText(r, t).gen = r.gen
         /\ ~OpensText(r, t) => TakeText(r, t) = r
         /\ OpensText(r, t) => TakeText(r, t).next = IF t.n >= r.next THEN t.n + 1 ELSE r.next
         /\ OpensText(r, t) => TakeText(r, t).skipped = (r.skipped \cup r.next .. t.n) \ {t.n}
<1>1. CASE ~OpensText(r, t)
  BY <1>1 DEF TakeText
<1>2. CASE OpensText(r, t)
  <2>1. PICK sk : sk = (r.skipped \cup r.next .. t.n) \ {t.n}
    OBVIOUS
  <2>2. PICK nx : nx = IF t.n >= r.next THEN t.n + 1 ELSE r.next
    OBVIOUS
  <2>3. sk \subseteq Nat /\ nx \in Nat
    BY <2>1, <2>2 DEF ReaderRec, TextRec
  <2>4. TakeText(r, t) = [r EXCEPT !.skipped = sk, !.next = nx]
    BY <1>2, <2>1, <2>2 DEF TakeText, ReaderRec
  <2>. QED BY <1>2, <2>1, <2>2, <2>3, <2>4 DEF ReaderRec
<1>. QED BY <1>1, <1>2

\* Send s gives the key to the devices got.
Gives(s, got, answered) ==
  /\ got \subseteq run[s].targets /\ got \subseteq Reached /\ got \subseteq Devices
  /\ reader' \in [Devices -> ReaderRec]
  /\ \A d \in Devices \ got : reader'[d] = reader[d]
  /\ \A d \in got : /\ Envelope(s, d) \in run[s].batch /\ Envelope(s, d).to = d
                    /\ Envelope(s, d) \in EnvelopeRec
                    /\ reader'[d] = TakeKey(reader[d], Envelope(s, d), run[s].key)
  /\ past' \in PastRec
  /\ past'.cut = past.cut \cup (Firsts(s) \ got)
  /\ past'.torn = past.torn \cup (got \X {run[s].key.gen})
  /\ past'.raced = past.raced /\ past'.blank = past.blank
  /\ answered => past'.missed = past.missed \cup ((run[s].targets \ got) \X {run[s].key.gen})
  /\ ~answered => past'.missed = past.missed
  /\ run' \in [Sends -> SendRec] /\ \A q \in Sends \ {s} : run'[q] = run[q]
  /\ ~answered => run'[s] = Idle
  /\ answered => /\ run'[s].pc = "save" /\ run'[s].batch = {} /\ run'[s].seen = run[s].seen
                 /\ run'[s].roster = run[s].roster /\ run'[s].to = run[s].to
                 /\ run'[s].targets = run[s].targets
                 /\ run'[s].key.gen = run[s].key.gen /\ run'[s].key.next = run[s].key.next
                 /\ run'[s].key.shared = run[s].key.shared \cup run[s].targets

LEMMA PostKeysIs ==
  ASSUME KeyTypeOK, NEW s \in Sends, NEW full \in SUBSET Devices, NEW answered \in BOOLEAN,
         PostKeys(s, full, answered)
  PROVE  \E got : Gives(s, got, answered)
<1>1. PICK got : got = (run[s].targets \cap Reached) \ full
  OBVIOUS
<1>2. run[s] \in SendRec /\ run \in [Sends -> SendRec] /\ run[s].pc = "post"
  BY DEF KeyTypeOK, PostKeys, At
<1>3. got \in SUBSET run[s].targets /\ got \subseteq Reached /\ got \subseteq Devices
  BY <1>1, <1>2 DEF SendRec
<1>4. reader' = [d \in Devices |-> IF d \in got THEN TakeKey(reader[d], Envelope(s, d), run[s].key)
                                   ELSE reader[d]]
  BY <1>1 DEF PostKeys
<1>5. \A d \in got : Envelope(s, d) \in run[s].batch /\ Envelope(s, d).to = d /\ Envelope(s, d) \in EnvelopeRec
  BY <1>2, <1>3, EnvelopeIs
<1>6. run[s].key \in KeyRec
  BY <1>2 DEF SendRec
<1>7. \A d \in got : TakeKey(reader[d], Envelope(s, d), run[s].key) \in ReaderRec
  BY <1>3, <1>5, <1>6, TakeKeyIs DEF KeyTypeOK
<1>8. reader' \in [Devices -> ReaderRec]
  BY <1>4, <1>7 DEF KeyTypeOK
<1>9. PICK cut : cut = past.cut \cup (Firsts(s) \ got)
  OBVIOUS
<1>10. PICK torn : torn = past.torn \cup (got \X {run[s].key.gen})
  OBVIOUS
<1>11. PICK missed : missed = IF answered
                              THEN past.missed \cup ((run[s].targets \ got) \X {run[s].key.gen})
                              ELSE past.missed
  OBVIOUS
<1>12. past' = [past EXCEPT !.cut = cut, !.torn = torn, !.missed = missed]
  BY <1>1, <1>9, <1>10, <1>11 DEF PostKeys, KeyTypeOK, PastRec
<1>13. Firsts(s) \subseteq Devices
  BY <1>2 DEF Firsts, SendRec, EnvelopeRec
<1>14. cut \subseteq Devices /\ torn \subseteq Devices \X Nat /\ missed \subseteq Devices \X Nat
  BY <1>2, <1>3, <1>6, <1>9, <1>10, <1>11, <1>13 DEF KeyTypeOK, PastRec, KeyRec, SendRec
<1>15. /\ past' \in PastRec /\ past'.cut = cut /\ past'.torn = torn /\ past'.missed = missed
       /\ past'.raced = past.raced /\ past'.blank = past.blank
  BY <1>12, <1>14 DEF KeyTypeOK, PastRec
<1>16. PICK key : key = [run[s].key EXCEPT !.shared = @ \cup run[s].targets]
  OBVIOUS
<1>17. /\ key \in KeyRec /\ key.gen = run[s].key.gen /\ key.next = run[s].key.next
       /\ key.shared = run[s].key.shared \cup run[s].targets
  BY <1>2, <1>6, <1>16 DEF KeyRec, SendRec
<1>18. PICK x : x = [run[s] EXCEPT !.pc = "save", !.batch = {}, !.key = key]
  OBVIOUS
<1>19. x \in SendRec
  BY <1>2, <1>17, <1>18 DEF SendRec, Steps
<1>20. run' = [run EXCEPT ![s] = IF answered THEN x ELSE Idle]
  BY <1>2, <1>16, <1>18 DEF PostKeys, SharedKey, SendRec
<1>21. PICK y : y = IF answered THEN x ELSE Idle
  OBVIOUS
<1>22. run' \in [Sends -> SendRec] /\ run'[s] = y /\ \A q \in Sends \ {s} : run'[q] = run[q]
  BY <1>19, <1>20, <1>21, IdleIs, BecomesIs DEF Becomes
<1>23. \A d \in got : reader'[d] = TakeKey(reader[d], Envelope(s, d), run[s].key)
  BY <1>3, <1>4
<1>24. \A d \in Devices \ got : reader'[d] = reader[d]
  BY <1>4
<1>25. /\ ~answered => run'[s] = Idle
       /\ answered => run'[s] = x
  BY <1>21, <1>22
<1>26. /\ x.pc = "save" /\ x.batch = {} /\ x.seen = run[s].seen
       /\ x.roster = run[s].roster /\ x.to = run[s].to /\ x.targets = run[s].targets /\ x.key = key
  BY <1>2, <1>18 DEF SendRec
<1>27. Gives(s, got, answered)
  BY ONLY <1>3, <1>5, <1>8, <1>9, <1>10, <1>11, <1>15, <1>17, <1>22, <1>23, <1>24, <1>25, <1>26
     DEF Gives
<1>. QED BY <1>27

LEMMA SaveKeyIs ==
  ASSUME KeyTypeOK, NEW s \in Sends, SaveKey(s)
  PROVE  /\ run' \in [Sends -> SendRec] /\ \A q \in Sends \ {s} : run'[q] = run[q]
         /\ run'[s].pc = "text" /\ run'[s].seen = run[s].seen /\ run'[s].roster = run[s].roster
         /\ run'[s].to = run[s].to /\ run'[s].key = run[s].key /\ run'[s].batch = run[s].batch
         /\ senderKey' \in KeyRec /\ senderKey'.gen = run[s].key.gen
         /\ senderKey'.next = run[s].key.next + 1 /\ senderKey'.shared = run[s].key.shared
         /\ past' \in PastRec /\ past'.raced = past.raced /\ past'.cut = past.cut
         /\ past'.missed = past.missed /\ past'.blank = past.blank
         /\ past'.torn = past.torn \ (run[s].key.shared \X {run[s].key.gen})
<1>1. run[s] \in SendRec /\ run \in [Sends -> SendRec] /\ run[s].key \in KeyRec
  BY DEF KeyTypeOK, SendRec
<1>2. PICK x : x = [run[s] EXCEPT !.pc = "text"]
  OBVIOUS
<1>3. x \in SendRec
  BY <1>1, <1>2 DEF SendRec, Steps
<1>4. run' = [run EXCEPT ![s] = x]
  BY <1>1, <1>2 DEF SaveKey, SendRec
<1>5. run' \in [Sends -> SendRec] /\ run'[s] = x /\ \A q \in Sends \ {s} : run'[q] = run[q]
  BY <1>3, <1>4, BecomesIs DEF Becomes
<1>6. /\ senderKey' \in KeyRec /\ senderKey'.gen = run[s].key.gen
      /\ senderKey'.next = run[s].key.next + 1 /\ senderKey'.shared = run[s].key.shared
  BY <1>1 DEF SaveKey, SteppedKey, KeyRec
<1>7. PICK torn : torn = past.torn \ (run[s].key.shared \X {run[s].key.gen})
  OBVIOUS
<1>8. past' = [past EXCEPT !.torn = torn] /\ torn \subseteq past.torn
  BY <1>7 DEF SaveKey
<1>9. /\ past' \in PastRec /\ past'.raced = past.raced /\ past'.cut = past.cut
      /\ past'.missed = past.missed /\ past'.blank = past.blank /\ past'.torn = torn
  BY <1>8 DEF KeyTypeOK, PastRec
<1>10. /\ x.pc = "text" /\ x.seen = run[s].seen /\ x.roster = run[s].roster
       /\ x.to = run[s].to /\ x.key = run[s].key /\ x.batch = run[s].batch
  BY <1>1, <1>2 DEF SendRec
<1>. QED BY <1>5, <1>6, <1>7, <1>9, <1>10

\* The text that send s is about to have sent.
TextOf(s) == [gen |-> run[s].key.gen, n |-> run[s].key.next, to |-> run[s].to,
              at |-> Reached, settled |-> ~Bumping]

LEMMA TextOfIs ==
  ASSUME KeyTypeOK, NEW s \in Sends
  PROVE  /\ TextOf(s) \in TextRec /\ TextOf(s).gen = run[s].key.gen /\ TextOf(s).n = run[s].key.next
         /\ TextOf(s).to = run[s].to /\ TextOf(s).at = Reached
         /\ TextOf(s).settled <=> ~Bumping
<1>1. run[s] \in SendRec /\ run[s].key \in KeyRec
  BY DEF KeyTypeOK, SendRec
<1>2. Reached \subseteq Devices
  BY DEF Reached, KeyTypeOK
<1>3. PICK b \in BOOLEAN : b <=> ~Bumping
  OBVIOUS
<1>4. TextOf(s) = [gen |-> run[s].key.gen, n |-> run[s].key.next, to |-> run[s].to,
                   at |-> Reached, settled |-> b]
  BY <1>3 DEF TextOf, Bumping
<1>. QED BY <1>1, <1>2, <1>3, <1>4 DEF TextRec, SendRec, KeyRec

\* The text of send s goes to the devices got.
Tells(s, got) ==
  /\ got \subseteq Reached /\ got \subseteq Devices
  /\ reader' \in [Devices -> ReaderRec]
  /\ \A d \in Devices \ got : reader'[d] = reader[d]
  /\ \A d \in got : reader'[d] = TakeText(reader[d], TextOf(s))
  /\ texts' = texts \cup {TextOf(s)} /\ texts' \subseteq TextRec
  /\ past' \in PastRec /\ past'.raced = past.raced /\ past'.cut = past.cut
  /\ past'.missed = past.missed /\ past'.torn = past.torn
  /\ past'.blank = past.blank \cup
       ({d \in got : ~OpensText(reader[d], TextOf(s))} \X {TextOf(s)})
  /\ run' \in [Sends -> SendRec] /\ \A q \in Sends \ {s} : run'[q] = run[q]
  /\ run'[s] = Idle

LEMMA PostTextIs ==
  ASSUME KeyTypeOK, NEW s \in Sends, NEW full \in SUBSET Devices, PostText(s, full)
  PROVE  \E got : Tells(s, got)
<1>1. PICK got : got = Reached \ full
  OBVIOUS
<1>2. PICK t : t = TextOf(s)
  OBVIOUS
<1>3. got \in SUBSET Devices /\ t \in TextRec
  BY <1>1, <1>2, TextOfIs DEF Reached, KeyTypeOK
<1>4. /\ reader' = [d \in Devices |-> IF d \in got THEN TakeText(reader[d], t) ELSE reader[d]]
      /\ texts' = texts \cup {t}
      /\ past' = [past EXCEPT !.blank = @ \cup ({d \in got : ~OpensText(reader[d], t)} \X {t})]
      /\ run' = [run EXCEPT ![s] = Idle]
  BY <1>1, <1>2 DEF PostText, TextOf
<1>5. \A d \in Devices : TakeText(reader[d], t) \in ReaderRec
  BY <1>3, TakeTextIs DEF KeyTypeOK
<1>6. /\ reader' \in [Devices -> ReaderRec] /\ \A d \in Devices \ got : reader'[d] = reader[d]
      /\ \A d \in got : reader'[d] = TakeText(reader[d], t)
  BY <1>3, <1>4, <1>5 DEF KeyTypeOK
<1>7. PICK blank : blank = past.blank \cup ({d \in got : ~OpensText(reader[d], t)} \X {t})
  OBVIOUS
<1>8. blank \subseteq Devices \X TextRec
  BY <1>3, <1>7 DEF KeyTypeOK, PastRec
<1>9. /\ past' \in PastRec /\ past'.raced = past.raced /\ past'.cut = past.cut
      /\ past'.missed = past.missed /\ past'.torn = past.torn /\ past'.blank = blank
  BY <1>4, <1>7, <1>8 DEF KeyTypeOK, PastRec
<1>10. run' \in [Sends -> SendRec] /\ run'[s] = Idle /\ \A q \in Sends \ {s} : run'[q] = run[q]
  BY <1>4, IdleIs, BecomesIs DEF Becomes
<1>11. texts' = texts \cup {t} /\ texts' \subseteq TextRec
  BY <1>3, <1>4 DEF KeyTypeOK
<1>12. got \subseteq Reached
  BY <1>1
<1>13. Tells(s, got)
  BY ONLY <1>2, <1>3, <1>6, <1>7, <1>9, <1>10, <1>11, <1>12 DEF Tells
<1>. QED BY <1>13

\* Sends ss end.
LEMMA AbandonIs ==
  ASSUME KeyTypeOK, NEW ss \in SUBSET Sends, Abandon(ss)
  PROVE  /\ run' \in [Sends -> SendRec]
         /\ \A q \in Sends \ ss : run'[q] = run[q]
         /\ \A q \in ss : run'[q] = Idle
         /\ past' \in PastRec /\ past'.raced = past.raced /\ past'.torn = past.torn
         /\ past'.missed = past.missed /\ past'.blank = past.blank
         /\ past'.cut = past.cut \cup UNION {Firsts(s) : s \in ss}
<1>1. run \in [Sends -> SendRec]
  BY DEF KeyTypeOK
<1>2. /\ run' \in [Sends -> SendRec] /\ \A q \in Sends \ ss : run'[q] = run[q]
      /\ \A q \in ss : run'[q] = Idle
  BY <1>1, IdleIs DEF Abandon
<1>3. \A s \in ss : Firsts(s) \subseteq Devices
  BY <1>1 DEF Firsts, SendRec, EnvelopeRec
<1>4. PICK cut : cut = past.cut \cup UNION {Firsts(s) : s \in ss}
  OBVIOUS
<1>5. cut \subseteq Devices
  BY <1>3, <1>4 DEF KeyTypeOK, PastRec
<1>6. past' = [past EXCEPT !.cut = cut]
  BY <1>4 DEF Abandon
<1>7. /\ past' \in PastRec /\ past'.raced = past.raced /\ past'.torn = past.torn
      /\ past'.missed = past.missed /\ past'.blank = past.blank /\ past'.cut = cut
  BY <1>5, <1>6 DEF KeyTypeOK, PastRec
<1>. QED BY <1>2, <1>4, <1>7

\* What is found raced stays so.
SamePast == /\ past'.cut = past.cut /\ past'.missed = past.missed /\ past'.torn = past.torn
            /\ past'.blank = past.blank
LEMMA RacedIs ==
  ASSUME KeyTypeOK, NEW b \in BOOLEAN, past' = [past EXCEPT !.raced = @ \/ b]
  PROVE  past' \in PastRec /\ SamePast /\ (past'.raced <=> past.raced \/ b)
BY DEF KeyTypeOK, PastRec, SamePast

LEMMA HearPast ==
  ASSUME KeyTypeOK, NEW d \in Devices, Hear(d)
  PROVE  past' \in PastRec /\ SamePast
         /\ (past'.raced <=> past.raced \/ (ratchet[d] = NoRatchet /\ Stepping(d)))
<1>1. PICK b \in BOOLEAN : b <=> ratchet[d] = NoRatchet /\ Stepping(d)
  OBVIOUS
<1>2. past' = [past EXCEPT !.raced = @ \/ b]
  BY <1>1 DEF Hear, Stepping
<1>. QED BY <1>1, <1>2, RacedIs

LEMMA LoadKeyPast ==
  ASSUME KeyTypeOK, NEW s \in Sends, LoadKey(s)
  PROVE  past' \in PastRec /\ SamePast /\ (past'.raced <=> past.raced \/ Races(s))
<1>1. PICK b \in BOOLEAN : b <=> Races(s)
  OBVIOUS
<1>2. past' = [past EXCEPT !.raced = @ \/ b]
  BY <1>1 DEF LoadKey, Races
<1>. QED BY <1>1, <1>2, RacedIs

LEMMA KeyStart == SenderKeysAssumption /\ KeyInit => KeyTypeOK
<1>. SUFFICES ASSUME SenderKeysAssumption, KeyInit PROVE KeyTypeOK
  OBVIOUS
<1>1. /\ linked \subseteq Devices /\ epoch \in Nat /\ known \in Nat /\ letters \subseteq Devices
      /\ account \in [Accounts -> {"new", "in", "out"}] /\ DOMAIN directory = {}
  BY DEF KeyInit, SenderKeysAssumption
<1>2. /\ senderKey \in KeyRec /\ ratchet \in [Devices -> RatchetRec]
      /\ reader \in [Devices -> ReaderRec]
  BY DEF KeyInit, NoKey, NoRatchet, KeyRec, RatchetRec, ReaderRec
<1>3. run \in [Sends -> SendRec] /\ \A s \in Sends : Covered(run[s])
  BY IdleIs DEF KeyInit
<1>4. made \in [keys : Nat, ratchets : Nat] /\ texts \subseteq TextRec /\ past \in PastRec
  BY DEF KeyInit, Theirs, PastRec
<1>. QED BY <1>1, <1>2, <1>3, <1>4 DEF KeyTypeOK

\* Every step keeps the types, and what it does to runs keeps them covered.
LEMMA RunsCovered ==
  ASSUME KeyTypeOK, NEW s \in Sends, \A q \in Sends \ {s} : run'[q] = run[q], Covered(run'[s])
  PROVE  \A q \in Sends : Covered(run'[q])
BY DEF KeyTypeOK

LEMMA GroupStepTypes ==
  ASSUME SenderKeysAssumption, KeyTypeOK,
         \/ BumpEpoch \/ Refresh
         \/ \E a \in Accounts : Join(a) \/ MarkRemoved(a)
         \/ \E d \in Devices : LinkDevice(d)
  PROVE  KeyTypeOK'
<1>1. UNCHANGED <<run, senderKey, ratchet, reader, letters, made, texts, past, directory>>
  BY DEF BumpEpoch, Refresh, Join, MarkRemoved, LinkDevice, phone, relayVars, history
<1>2. /\ linked' \subseteq Devices /\ account' \in [Accounts -> {"new", "in", "out"}]
      /\ epoch' \in Nat /\ known' \in Nat
  BY DEF KeyTypeOK, BumpEpoch, Refresh, Join, MarkRemoved, LinkDevice, phone, relayVars, history
<1>. QED BY <1>1, <1>2 DEF KeyTypeOK

LEMMA LetterTypes ==
  ASSUME KeyTypeOK, NEW d \in Devices, Hail(d) \/ Hear(d)
  PROVE  KeyTypeOK'
<1>1. CASE Hail(d)
  <2>1. reader' = [reader EXCEPT ![d].id = Theirs] /\ letters' = letters \cup {d}
    BY <1>1 DEF Hail
  <2>2. [reader[d] EXCEPT !.id = Theirs] \in ReaderRec
    BY DEF KeyTypeOK, ReaderRec, Theirs
  <2>3. reader' \in [Devices -> ReaderRec]
    BY <2>1, <2>2 DEF KeyTypeOK
  <2>4. UNCHANGED <<linked, account, epoch, known, directory, senderKey, ratchet, run, made, texts, past>>
    BY <1>1 DEF Hail, relayVars, phone, history
  <2>. QED BY <2>1, <2>3, <2>4 DEF KeyTypeOK
<1>2. CASE Hear(d)
  <2>1. ratchet' \in [Devices -> RatchetRec]
    BY <1>2 DEF Hear, KeyTypeOK, RatchetRec, Theirs
  <2>2. past' \in PastRec
    BY <1>2, HearPast
  <2>3. letters' \subseteq Devices
    BY <1>2 DEF Hear, KeyTypeOK
  <2>4. UNCHANGED <<linked, account, epoch, known, directory, senderKey, reader, run, made, texts>>
    BY <1>2 DEF Hear, relayVars
  <2>. QED BY <2>1, <2>2, <2>3, <2>4 DEF KeyTypeOK
<1>. QED BY <1>1, <1>2

LEMMA RosterTypes ==
  ASSUME KeyTypeOK, NEW s \in Sends, BeginSend(s) \/ FetchRoster(s)
  PROVE  KeyTypeOK'
<1>1. run' \in [Sends -> SendRec] /\ \A q \in Sends \ {s} : run'[q] = run[q]
  BY BeginIs, FetchIs
<1>2. Covered(run'[s])
  <2>1. run'[s].pc \in {"roster", "directory"}
    BY BeginIs, FetchIs
  <2>. QED BY <2>1 DEF Covered
<1>3. \A q \in Sends : Covered(run'[q])
  BY <1>1, <1>2, RunsCovered
<1>4. UNCHANGED <<linked, account, epoch, known, directory, senderKey, ratchet, reader, letters,
                  made, texts, past>>
  BY DEF BeginSend, FetchRoster, relayVars, phone, history
<1>. QED BY <1>1, <1>3, <1>4 DEF KeyTypeOK

LEMMA LookUpTypes ==
  ASSUME KeyTypeOK, NEW s \in Sends, LookUp(s)
  PROVE  KeyTypeOK'
<1>1. run' \in [Sends -> SendRec] /\ \A q \in Sends \ {s} : run'[q] = run[q]
  BY LookUpIs
<1>2. Covered(run'[s])
  <2>1. run'[s].pc \in {"idle", "key"}
    BY LookUpIs, IdleIs
  <2>. QED BY <2>1 DEF Covered
<1>3. \A q \in Sends : Covered(run'[q])
  BY <1>1, <1>2, RunsCovered
<1>4. \A a \in DOMAIN directory' : directory'[a] \subseteq Devices
  BY LookUpIs DEF KeyTypeOK, DevicesOf
<1>5. UNCHANGED <<linked, account, epoch, known, senderKey, ratchet, reader, letters,
                  made, texts, past>>
  BY DEF LookUp, relayVars, history
<1>. QED BY <1>1, <1>3, <1>4, <1>5 DEF KeyTypeOK

LEMMA LoadKeyTypes ==
  ASSUME KeyTypeOK, NEW s \in Sends, LoadKey(s)
  PROVE  KeyTypeOK'
<1>1. run' \in [Sends -> SendRec] /\ \A q \in Sends \ {s} : run'[q] = run[q]
  BY LoadKeyIs
<1>2. Covered(run'[s])
  <2>1. run'[s].left = run'[s].targets /\ run'[s].pc \in {"save", "load"}
    BY LoadKeyIs
  <2>. QED BY <2>1 DEF Covered
<1>3. \A q \in Sends : Covered(run'[q])
  BY <1>1, <1>2, RunsCovered
<1>4. past' \in PastRec
  BY LoadKeyPast
<1>5. made' \in [keys : Nat, ratchets : Nat]
  BY DEF LoadKey, KeyTypeOK, NewKey
<1>6. UNCHANGED <<linked, account, epoch, known, directory, senderKey, ratchet, reader, letters, texts>>
  BY DEF LoadKey, relayVars, phone
<1>. QED BY <1>1, <1>3, <1>4, <1>5, <1>6 DEF KeyTypeOK

LEMMA LoadRatchetTypes ==
  ASSUME KeyTypeOK, NEW s \in Sends, NEW d \in Devices, LoadRatchet(s, d)
  PROVE  KeyTypeOK'
<1>1. run' \in [Sends -> SendRec] /\ \A q \in Sends \ {s} : run'[q] = run[q]
  BY LoadRatchetIs
<1>2. Covered(run'[s])
  <2>1. /\ run[s] \in SendRec /\ Covered(run[s]) /\ run[s].pc = "load"
    BY DEF KeyTypeOK, LoadRatchet, At
  <2>2. /\ run'[s].pc = "store" /\ run'[s].left = run[s].left \ {d}
        /\ run'[s].current.device = d /\ run'[s].current \in LoadedRec
        /\ run'[s].targets = run[s].targets /\ run'[s].batch = run[s].batch
    BY LoadRatchetIs
  <2>. QED BY <2>1, <2>2 DEF Covered
<1>3. \A q \in Sends : Covered(run'[q])
  BY <1>1, <1>2, RunsCovered
<1>4. UNCHANGED <<linked, account, epoch, known, directory, senderKey, ratchet, reader, letters,
                  made, texts, past>>
  BY DEF LoadRatchet, relayVars, phone, history
<1>. QED BY <1>1, <1>3, <1>4 DEF KeyTypeOK

LEMMA StoreTypes ==
  ASSUME KeyTypeOK, NEW s \in Sends, StoreRatchet(s)
  PROVE  KeyTypeOK'
<1>1. PICK e \in EnvelopeRec : StoresFor(s, e)
  BY StoreIs
<1>2. Covered(run'[s])
  <2>1. /\ run[s] \in SendRec /\ Covered(run[s]) /\ run[s].pc = "store"
    BY DEF KeyTypeOK, StoreRatchet, At
  <2>2. /\ run'[s].pc = IF run[s].left = {} THEN "post" ELSE "load"
        /\ run'[s].left = run[s].left
        /\ run'[s].targets = run[s].targets /\ run'[s].batch = run[s].batch \cup {e}
    BY <1>1 DEF StoresFor
  <2>. QED BY <1>1, <2>1, <2>2 DEF Covered, StoresFor
<1>3. \A q \in Sends : Covered(run'[q])
  BY <1>1, <1>2, RunsCovered DEF StoresFor
<1>4. ratchet' \in [Devices -> RatchetRec] /\ made' \in [keys : Nat, ratchets : Nat]
  BY <1>1 DEF KeyTypeOK, EnvelopeRec, RatchetRec, StoresFor
<1>5. UNCHANGED <<linked, account, epoch, known, directory, senderKey, reader, letters, texts, past>>
  BY DEF StoreRatchet, relayVars, history
<1>. QED BY <1>1, <1>3, <1>4, <1>5 DEF KeyTypeOK, StoresFor

LEMMA PostTypes ==
  ASSUME KeyTypeOK, NEW s \in Sends, NEW full \in SUBSET Devices,
         PostText(s, full) \/ \E answered \in BOOLEAN : PostKeys(s, full, answered)
  PROVE  KeyTypeOK'
<1>1. /\ run' \in [Sends -> SendRec] /\ \A q \in Sends \ {s} : run'[q] = run[q]
      /\ reader' \in [Devices -> ReaderRec] /\ past' \in PastRec
      /\ run'[s].pc \in {"idle", "save"}
      /\ texts' \subseteq TextRec
  <2>1. CASE PostText(s, full)
    BY <2>1, PostTextIs, IdleIs DEF Tells
  <2>2. ASSUME NEW answered \in BOOLEAN, PostKeys(s, full, answered)
        PROVE  <1>1!:
    <3>1. PICK got : Gives(s, got, answered)
      BY <2>2, PostKeysIs
    <3>2. texts' \subseteq TextRec
      BY <2>2 DEF PostKeys, KeyTypeOK
    <3>. QED BY <3>1, <3>2, IdleIs DEF Gives
  <2>. QED BY <2>1, <2>2
<1>3. \A q \in Sends : Covered(run'[q])
  BY <1>1, RunsCovered DEF Covered
<1>5. UNCHANGED <<linked, account, epoch, known, directory, senderKey, ratchet, letters, made>>
  BY DEF PostText, PostKeys, relayVars, phone
<1>. QED BY <1>1, <1>3, <1>5 DEF KeyTypeOK

LEMMA SaveTypes ==
  ASSUME KeyTypeOK, NEW s \in Sends, SaveKey(s)
  PROVE  KeyTypeOK'
<1>1. /\ run' \in [Sends -> SendRec] /\ \A q \in Sends \ {s} : run'[q] = run[q]
      /\ senderKey' \in KeyRec /\ past' \in PastRec
  BY SaveKeyIs
<1>2. Covered(run'[s])
  <2>1. run'[s].pc = "text"
    BY SaveKeyIs
  <2>. QED BY <2>1 DEF Covered
<1>3. \A q \in Sends : Covered(run'[q])
  BY <1>1, <1>2, RunsCovered
<1>4. UNCHANGED <<linked, account, epoch, known, directory, ratchet, reader, letters, made, texts>>
  BY DEF SaveKey, relayVars
<1>. QED BY <1>1, <1>3, <1>4 DEF KeyTypeOK

\* The sends that a step ends.
Ends(ss) == Abandon(ss) /\ UNCHANGED <<known, senderKey, ratchet, reader, letters, made, texts, relayVars>>
            /\ directory' \in {directory, [a \in {} |-> {}]}

LEMMA EndsIs ==
  ASSUME Kill \/ \E s \in Sends : Refused(s) \/ RequestFails(s)
  PROVE  \E ss \in SUBSET Sends : Ends(ss)
<1>1. ASSUME NEW s \in Sends, Refused(s) \/ RequestFails(s)
      PROVE  \E ss \in SUBSET Sends : Ends(ss)
  BY <1>1 DEF Refused, RequestFails, Ends, phone
<1>2. CASE Kill
  BY <1>2 DEF Kill, Ends
<1>. QED BY <1>1, <1>2

LEMMA EndTypes ==
  ASSUME KeyTypeOK, NEW ss \in SUBSET Sends, Ends(ss)
  PROVE  KeyTypeOK'
<1>1. /\ run' \in [Sends -> SendRec] /\ past' \in PastRec
      /\ \A q \in Sends : run'[q] = run[q] \/ run'[q] = Idle
  BY AbandonIs DEF Ends
<1>2. \A q \in Sends : Covered(run'[q])
  BY <1>1, IdleIs DEF KeyTypeOK
<1>3. \A a \in DOMAIN directory' : directory'[a] \subseteq Devices
  BY DEF Ends, KeyTypeOK
<1>. QED BY <1>1, <1>2, <1>3 DEF KeyTypeOK, Ends, relayVars

LEMMA KeyStepTypes == SenderKeysAssumption /\ KeyTypeOK /\ [KeyNext]_keyVars => KeyTypeOK'
<1>. SUFFICES ASSUME SenderKeysAssumption, KeyTypeOK, [KeyNext]_keyVars PROVE KeyTypeOK'
  OBVIOUS
<1>1. CASE UNCHANGED keyVars
  BY <1>1 DEF KeyTypeOK, keyVars, relayVars, phone, history
<1>2. CASE \/ BumpEpoch \/ Refresh
           \/ \E a \in Accounts : Join(a) \/ MarkRemoved(a)
           \/ \E d \in Devices : LinkDevice(d)
  BY <1>2, GroupStepTypes
<1>3. CASE \E d \in Devices : Hail(d) \/ Hear(d)
  BY <1>3, LetterTypes
<1>4. CASE Kill
  <2>1. PICK ss \in SUBSET Sends : Ends(ss)
    BY <1>4, EndsIs
  <2>. QED BY <2>1, EndTypes
<1>5. ASSUME NEW s \in Sends,
             \/ BeginSend(s) \/ FetchRoster(s) \/ LookUp(s) \/ LoadKey(s) \/ StoreRatchet(s)
             \/ SaveKey(s) \/ Refused(s) \/ RequestFails(s)
             \/ \E d \in Devices : LoadRatchet(s, d)
             \/ \E full \in SUBSET Devices :
                  PostText(s, full) \/ \E answered \in BOOLEAN : PostKeys(s, full, answered)
      PROVE  KeyTypeOK'
  <2>1. CASE Refused(s) \/ RequestFails(s)
    <3>1. PICK ss \in SUBSET Sends : Ends(ss)
      BY <2>1, EndsIs
    <3>. QED BY <3>1, EndTypes
  <2>2. CASE BeginSend(s) \/ FetchRoster(s)
    BY <2>2, RosterTypes
  <2>3. CASE LookUp(s)
    BY <2>3, LookUpTypes
  <2>4. CASE LoadKey(s)
    BY <2>4, LoadKeyTypes
  <2>5. CASE StoreRatchet(s)
    BY <2>5, StoreTypes
  <2>6. CASE SaveKey(s)
    BY <2>6, SaveTypes
  <2>7. CASE \E d \in Devices : LoadRatchet(s, d)
    BY <2>7, LoadRatchetTypes
  <2>8. CASE \E full \in SUBSET Devices :
               PostText(s, full) \/ \E answered \in BOOLEAN : PostKeys(s, full, answered)
    BY <2>8, PostTypes
  <2>. QED BY <1>5, <2>1, <2>2, <2>3, <2>4, <2>5, <2>6, <2>7, <2>8
<1>. QED BY <1>1, <1>2, <1>3, <1>4, <1>5 DEF KeyNext

-----------------------------------------------------------------------------
(* Who is in the group, and what a send knows of it.                        *)

OutAccounts == {a \in Accounts : account[a] = "out"}
Holding == {s \in Sends : run[s].pc \in {"load", "store", "post", "save"}}
Texting == {s \in Sends : run[s].pc = "text"}
Knowing == {s \in Sends : run[s].pc \notin {"idle", "roster"}}
Listing == {s \in Sends : run[s].pc \notin {"idle", "roster", "directory"}}

\* A send that knows of the epoch has a roster without the accounts that were removed,
\* but for a removal under way; its devices are those of its roster.
RosterInv ==
  /\ Cardinality(OutAccounts) \in {epoch - 1, epoch}
  /\ known <= epoch /\ \A s \in Sends : run[s].seen <= epoch
  /\ \A s \in Knowing : run[s].seen = epoch /\ ~Bumping => run[s].roster \subseteq Members
  /\ \A s \in Listing : \A d \in run[s].to : Account[d] \in run[s].roster
  /\ \A a \in DOMAIN directory : \A d \in directory[a] : Account[d] = a

\* Who has a key is, or was, in the group.
HolderInv == \A d \in Devices : reader[d].keys # {} => d \in linked /\ account[Account[d]] # "new"

MemberInv == KeyTypeOK /\ RosterInv /\ HolderInv

LEMMA MemberStart == SenderKeysAssumption /\ KeyInit => MemberInv
<1>. SUFFICES ASSUME SenderKeysAssumption, KeyInit PROVE MemberInv
  OBVIOUS
<1>1. KeyTypeOK
  BY KeyStart
<1>2. OutAccounts = {}
  BY DEF KeyInit, OutAccounts
<1>3. Cardinality(OutAccounts) = 0
  BY <1>2, FS_EmptySet
<1>4. \A s \in Sends : run[s] = Idle
  BY DEF KeyInit
<1>5. Knowing = {} /\ Listing = {} /\ \A s \in Sends : run[s].seen = 0
  BY <1>4 DEF Knowing, Listing, Idle
<1>6. epoch = 1 /\ known = 1 /\ DOMAIN directory = {}
  BY DEF KeyInit
<1>7. \A d \in Devices : reader[d].keys = {}
  BY DEF KeyInit
<1>. QED BY <1>1, <1>3, <1>5, <1>6, <1>7 DEF MemberInv, RosterInv, HolderInv

\* A step keeps the invariant when no one leaves the group, who joins it does so before
\* he gets a key, and each send keeps what it knew, or has just asked.
Rostered(s) ==
  /\ run'[s].seen = run[s].seen \/ run'[s].seen = known
  /\ s \in Knowing' => \/ s \in Knowing /\ run'[s].seen = run[s].seen /\ run'[s].roster = run[s].roster
                       \/ run'[s].roster = Members
  /\ s \in Listing' => \A d \in run'[s].to : Account[d] \in run'[s].roster

SameGroup == UNCHANGED <<account, epoch>> /\ known' \in {known, epoch} /\ linked \subseteq linked'

LEMMA RostersKept ==
  ASSUME MemberInv, KeyTypeOK', SameGroup, \A s \in Sends : Rostered(s) \/ run'[s] = Idle,
         \A a \in DOMAIN directory' : \A d \in directory'[a] : Account[d] = a,
         \A d \in Devices : reader'[d].keys = reader[d].keys \/ d \in Reached
  PROVE  MemberInv'
<1>1. OutAccounts' = OutAccounts /\ (Bumping' <=> Bumping) /\ Members' = Members
  BY DEF SameGroup, OutAccounts, Bumping, Members
<1>2. known' <= epoch'
  BY DEF SameGroup, MemberInv, RosterInv, KeyTypeOK
<1>3. \A s \in Sends : run'[s] = Idle => s \notin Knowing' /\ s \notin Listing' /\ run'[s].seen = 0
  BY DEF Knowing, Listing, Idle
<1>4. \A s \in Sends : run'[s].seen <= epoch'
  BY <1>3 DEF SameGroup, MemberInv, RosterInv, KeyTypeOK, Rostered
<1>5. \A s \in Knowing' : run'[s].seen = epoch' /\ ~Bumping' => run'[s].roster \subseteq Members'
  <2>1. Knowing' \subseteq Sends
    BY DEF Knowing
  <2>. QED BY <1>1, <1>3, <2>1 DEF SameGroup, MemberInv, RosterInv, Rostered
<1>6. \A s \in Listing' : \A d \in run'[s].to : Account[d] \in run'[s].roster
  <2>1. Listing' \subseteq Sends
    BY DEF Listing
  <2>. QED BY <1>3, <2>1 DEF Rostered
<1>7. HolderInv'
  BY DEF HolderInv, MemberInv, SameGroup, Reached, Members
<1>. QED BY <1>1, <1>2, <1>4, <1>5, <1>6, <1>7 DEF MemberInv, RosterInv, SameGroup

LEMMA BumpKeepsMembers ==
  ASSUME MemberInv, KeyTypeOK', BumpEpoch
  PROVE  MemberInv'
<1>1. /\ UNCHANGED <<linked, account, known, directory, run, reader>> /\ epoch' = epoch + 1
      /\ Cardinality(OutAccounts) # epoch - 1
  BY DEF BumpEpoch, phone, Bumping, OutAccounts
<1>2. OutAccounts' = OutAccounts
  BY <1>1 DEF OutAccounts
<1>3. Cardinality(OutAccounts) = epoch /\ epoch \in Nat /\ known <= epoch
      /\ \A s \in Sends : run[s].seen <= epoch /\ run[s].seen \in Nat
  BY <1>1 DEF MemberInv, RosterInv, KeyTypeOK, SendRec
<1>4. Cardinality(OutAccounts') = epoch' - 1 /\ known' <= epoch' /\ known \in Nat
      /\ \A s \in Sends : run'[s].seen <= epoch' /\ run'[s].seen # epoch'
  BY <1>1, <1>2, <1>3 DEF MemberInv, KeyTypeOK
<1>5. Knowing' = Knowing /\ Listing' = Listing /\ Knowing \subseteq Sends
  BY <1>1 DEF Knowing, Listing
<1>6. RosterInv'
  BY <1>1, <1>4, <1>5 DEF MemberInv, RosterInv
<1>. QED BY <1>1, <1>6 DEF MemberInv, HolderInv

LEMMA JoinKeepsMembers ==
  ASSUME MemberInv, KeyTypeOK', NEW a \in Accounts, Join(a)
  PROVE  MemberInv'
<1>1. /\ UNCHANGED <<linked, epoch, known, directory, run, reader>>
      /\ account[a] = "new" /\ account' = [account EXCEPT ![a] = "in"]
  BY DEF Join, phone
<1>2. OutAccounts' = OutAccounts /\ Members \subseteq Members'
      /\ \A b \in Accounts : account[b] # "new" => account'[b] # "new"
  BY <1>1 DEF OutAccounts, Members, MemberInv, KeyTypeOK
<1>3. Bumping' <=> Bumping
  BY <1>1, <1>2 DEF Bumping, OutAccounts
<1>4. Knowing' = Knowing /\ Listing' = Listing
  BY <1>1 DEF Knowing, Listing
<1>5. RosterInv'
  BY <1>1, <1>2, <1>3, <1>4 DEF MemberInv, RosterInv
<1>6. HolderInv'
  BY <1>1 DEF MemberInv, HolderInv, KeyTypeOK
<1>. QED BY <1>5, <1>6 DEF MemberInv

LEMMA RemovalKeepsMembers ==
  ASSUME SenderKeysAssumption, MemberInv, KeyTypeOK', NEW a \in Accounts, MarkRemoved(a)
  PROVE  MemberInv' /\ Bumping' /\ ~Bumping
<1>1. /\ UNCHANGED <<linked, epoch, known, directory, run, reader>> /\ ~Bumping
      /\ account[a] = "in" /\ account' = [account EXCEPT ![a] = "out"]
  BY DEF MarkRemoved, phone
<1>2. OutAccounts' = OutAccounts \cup {a} /\ a \notin OutAccounts
      /\ \A b \in Accounts : account[b] # "new" => account'[b] # "new"
  BY <1>1 DEF OutAccounts, MemberInv, KeyTypeOK
<1>3. IsFiniteSet(OutAccounts) /\ Cardinality(OutAccounts) \in Nat
  BY FS_Subset, FS_CardinalityType DEF OutAccounts, SenderKeysAssumption
<1>4. Cardinality(OutAccounts') = Cardinality(OutAccounts) + 1
  BY <1>2, <1>3, FS_AddElement
<1>5. Cardinality(OutAccounts) = epoch - 1 /\ epoch \in Nat
  BY <1>1 DEF Bumping, OutAccounts, MemberInv, KeyTypeOK
<1>6. Cardinality(OutAccounts') = epoch'
  BY <1>1, <1>3, <1>4, <1>5
<1>7. Bumping'
  BY <1>1, <1>5, <1>6 DEF Bumping, OutAccounts
<1>8. Knowing' = Knowing /\ Listing' = Listing
  BY <1>1 DEF Knowing, Listing
<1>9. RosterInv'
  BY <1>1, <1>6, <1>7, <1>8 DEF MemberInv, RosterInv
<1>10. HolderInv'
  BY <1>1, <1>2 DEF MemberInv, HolderInv, KeyTypeOK
<1>. QED BY <1>1, <1>7, <1>9, <1>10 DEF MemberInv

\* A send that is not changed, or only goes on, is still rostered.
LEMMA StillRostered ==
  ASSUME MemberInv, NEW s \in Sends, run'[s].seen = run[s].seen, run'[s].roster = run[s].roster,
         s \in Knowing' => s \in Knowing,
         s \in Listing' => s \in Listing /\ run'[s].to = run[s].to
  PROVE  Rostered(s)
BY DEF Rostered, MemberInv, RosterInv

LEMMA SendKeepsMembers ==
  ASSUME MemberInv, KeyTypeOK', NEW s \in Sends,
         UNCHANGED <<account, epoch, known, linked, directory>>,
         \A q \in Sends \ {s} : run'[q] = run[q], Rostered(s) \/ run'[s] = Idle,
         \A d \in Devices : reader'[d].keys = reader[d].keys \/ d \in Reached
  PROVE  MemberInv'
<1>1. \A q \in Sends \ {s} : Rostered(q)
  BY StillRostered DEF Knowing, Listing
<1>2. SameGroup
  BY DEF SameGroup
<1>3. \A a \in DOMAIN directory' : \A d \in directory'[a] : Account[d] = a
  BY DEF MemberInv, RosterInv
<1>. QED BY <1>1, <1>2, <1>3, RostersKept

LEMMA OtherStepMembers ==
  ASSUME MemberInv, KeyTypeOK',
         Refresh \/ \E d \in Devices : LinkDevice(d) \/ Hail(d) \/ Hear(d)
  PROVE  MemberInv'
<1>1. UNCHANGED <<account, epoch, directory, run>> /\ known' \in {known, epoch} /\ linked \subseteq linked'
  BY DEF Refresh, LinkDevice, Hail, Hear, relayVars, phone
<1>2. \A d \in Devices : reader'[d].keys = reader[d].keys
  BY DEF Refresh, LinkDevice, Hail, Hear, MemberInv, KeyTypeOK, ReaderRec
<1>3. \A s \in Sends : Rostered(s)
  BY <1>1, StillRostered DEF Knowing, Listing
<1>4. \A a \in DOMAIN directory' : \A d \in directory'[a] : Account[d] = a
  BY <1>1 DEF MemberInv, RosterInv
<1>. QED BY <1>1, <1>2, <1>3, <1>4, RostersKept DEF SameGroup

LEMMA EndKeepsMembers ==
  ASSUME MemberInv, KeyTypeOK', NEW ss \in SUBSET Sends, Ends(ss)
  PROVE  MemberInv'
<1>1. \A q \in Sends : run'[q] = run[q] \/ run'[q] = Idle
  BY AbandonIs DEF Ends, MemberInv
<1>2. \A q \in Sends : Rostered(q) \/ run'[q] = Idle
  BY <1>1, StillRostered DEF Knowing, Listing
<1>3. \A a \in DOMAIN directory' : \A d \in directory'[a] : Account[d] = a
  BY DEF Ends, MemberInv, RosterInv
<1>4. SameGroup /\ \A d \in Devices : reader'[d].keys = reader[d].keys
  BY DEF Ends, SameGroup, relayVars
<1>. QED BY <1>2, <1>3, <1>4, RostersKept

LEMMA RosterKeepsMembers ==
  ASSUME MemberInv, KeyTypeOK', NEW s \in Sends, BeginSend(s) \/ FetchRoster(s)
  PROVE  MemberInv'
<1>1. /\ UNCHANGED <<account, epoch, known, linked, directory, reader>>
      /\ \A q \in Sends \ {s} : run'[q] = run[q]
  BY BeginIs, FetchIs DEF MemberInv, BeginSend, FetchRoster, relayVars, phone
<1>2. Rostered(s)
  <2>1. CASE BeginSend(s)
    <3>1. run'[s].pc = "roster" /\ run'[s].seen = known
      BY <2>1, BeginIs DEF MemberInv
    <3>. QED BY <3>1 DEF Rostered, Knowing, Listing
  <2>2. CASE FetchRoster(s)
    <3>1. run'[s].pc = "directory" /\ run'[s].seen = run[s].seen /\ run'[s].roster = Members
      BY <2>2, FetchIs DEF MemberInv
    <3>. QED BY <3>1 DEF Rostered, Knowing, Listing
  <2>. QED BY <2>1, <2>2
<1>. QED BY <1>1, <1>2, SendKeepsMembers

LEMMA LookUpKeepsMembers ==
  ASSUME MemberInv, KeyTypeOK', NEW s \in Sends, LookUp(s)
  PROVE  MemberInv'
<1>1. /\ \A q \in Sends \ {s} : run'[q] = run[q] 
      /\ \A a \in DOMAIN directory' : \/ a \in DOMAIN directory /\ directory'[a] = directory[a]
                                      \/ directory'[a] = DevicesOf(a)
  BY LookUpIs DEF MemberInv
<1>2. \A a \in DOMAIN directory' : \A d \in directory'[a] : Account[d] = a
  BY <1>1 DEF MemberInv, RosterInv, DevicesOf
<1>3. Rostered(s) \/ run'[s] = Idle
  <2>1. CASE run'[s] # Idle
    <3>1. /\ run'[s].pc = "key" /\ run'[s].seen = run[s].seen /\ run'[s].roster = run[s].roster
          /\ \A d \in run'[s].to : \E a \in run[s].roster : a \in DOMAIN directory' /\ d \in directory'[a]
      BY <2>1, LookUpIs DEF MemberInv
    <3>2. s \in Knowing
      BY DEF LookUp, At, Knowing
    <3>. QED BY <3>1, <3>2, <1>2 DEF Rostered
  <2>. QED BY <2>1
<1>4. \A q \in Sends \ {s} : Rostered(q)
  BY <1>1, StillRostered DEF Knowing, Listing
<1>5. SameGroup /\ \A d \in Devices : reader'[d].keys = reader[d].keys
  BY DEF LookUp, SameGroup, relayVars
<1>. QED BY <1>2, <1>3, <1>4, <1>5, RostersKept

LEMMA LaterKeepsMembers ==
  ASSUME MemberInv, KeyTypeOK', NEW s \in Sends,
         \/ LoadKey(s) \/ StoreRatchet(s) \/ SaveKey(s)
         \/ \E d \in Devices : LoadRatchet(s, d)
         \/ \E full \in SUBSET Devices :
              PostText(s, full) \/ \E answered \in BOOLEAN : PostKeys(s, full, answered)
  PROVE  MemberInv'
<1>. USE DEF MemberInv
<1>1. UNCHANGED <<account, epoch, known, linked, directory>>
  BY DEF LoadKey, StoreRatchet, SaveKey, LoadRatchet, PostText, PostKeys, relayVars, phone
<1>2. s \in Knowing /\ s \in Listing
  BY DEF LoadKey, StoreRatchet, SaveKey, LoadRatchet, PostText, PostKeys, At, Knowing, Listing
<1>. DEFINE Goes == /\ \A q \in Sends \ {s} : run'[q] = run[q]
                    /\ \/ run'[s] = Idle
                       \/ run'[s].seen = run[s].seen /\ run'[s].roster = run[s].roster
                          /\ run'[s].to = run[s].to
                    /\ \A d \in Devices : reader'[d].keys = reader[d].keys \/ d \in Reached
<1>3. CASE LoadKey(s)
  <2>1. Goes
    BY <1>3, LoadKeyIs DEF LoadKey
  <2>. QED BY <1>1, <1>2, <2>1, StillRostered, SendKeepsMembers
<1>4. CASE StoreRatchet(s)
  <2>1. PICK e \in EnvelopeRec : StoresFor(s, e)
    BY <1>4, StoreIs
  <2>2. Goes
    BY <1>4, <2>1 DEF StoresFor, StoreRatchet
  <2>. QED BY <1>1, <1>2, <2>2, StillRostered, SendKeepsMembers
<1>5. CASE SaveKey(s)
  <2>1. Goes
    BY <1>5, SaveKeyIs DEF SaveKey
  <2>. QED BY <1>1, <1>2, <2>1, StillRostered, SendKeepsMembers
<1>6. CASE \E d \in Devices : LoadRatchet(s, d)
  <2>1. PICK d \in Devices : LoadRatchet(s, d)
    BY <1>6
  <2>2. Goes
    BY <2>1, LoadRatchetIs DEF LoadRatchet
  <2>. QED BY <1>1, <1>2, <2>2, StillRostered, SendKeepsMembers
<1>7. ASSUME NEW full \in SUBSET Devices, PostText(s, full) PROVE MemberInv'
  <2>1. PICK got : Tells(s, got)
    BY <1>7, PostTextIs
  <2>2. Goes
    BY <2>1, TakeTextIs, TextOfIs DEF Tells, KeyTypeOK
  <2>. QED BY <1>1, <1>2, <2>2, StillRostered, SendKeepsMembers
<1>8. ASSUME NEW full \in SUBSET Devices, NEW answered \in BOOLEAN, PostKeys(s, full, answered)
      PROVE  MemberInv'
  <2>1. PICK got : Gives(s, got, answered)
    BY <1>8, PostKeysIs
  <2>2. Goes
    BY <2>1 DEF Gives
  <2>. QED BY <1>1, <1>2, <2>2, StillRostered, SendKeepsMembers
<1>. QED BY <1>3, <1>4, <1>5, <1>6, <1>7, <1>8

LEMMA MembersKept ==
  SenderKeysAssumption /\ MemberInv /\ [KeyNext]_keyVars => MemberInv'
<1>. SUFFICES ASSUME SenderKeysAssumption, MemberInv, [KeyNext]_keyVars PROVE MemberInv'
  OBVIOUS
<1>1. KeyTypeOK'
  BY KeyStepTypes DEF MemberInv
<1>2. CASE UNCHANGED keyVars
  BY <1>2 DEF MemberInv, KeyTypeOK, RosterInv, HolderInv, Bumping, Members, OutAccounts, Knowing,
              Listing, keyVars, relayVars, phone, history
<1>3. CASE BumpEpoch
  BY <1>1, <1>3, BumpKeepsMembers
<1>4. CASE Refresh \/ \E d \in Devices : LinkDevice(d) \/ Hail(d) \/ Hear(d)
  BY <1>1, <1>4, OtherStepMembers
<1>5. CASE \E a \in Accounts : Join(a) \/ MarkRemoved(a)
  BY <1>1, <1>5, JoinKeepsMembers, RemovalKeepsMembers
<1>6. CASE Kill
  <2>1. PICK ss \in SUBSET Sends : Ends(ss)
    BY <1>6, EndsIs
  <2>. QED BY <1>1, <2>1, EndKeepsMembers
<1>7. ASSUME NEW s \in Sends,
             \/ BeginSend(s) \/ FetchRoster(s) \/ LookUp(s) \/ LoadKey(s) \/ StoreRatchet(s)
             \/ SaveKey(s) \/ Refused(s) \/ RequestFails(s)
             \/ \E d \in Devices : LoadRatchet(s, d)
             \/ \E full \in SUBSET Devices :
                  PostText(s, full) \/ \E answered \in BOOLEAN : PostKeys(s, full, answered)
      PROVE  MemberInv'
  <2>1. CASE Refused(s) \/ RequestFails(s)
    <3>1. PICK ss \in SUBSET Sends : Ends(ss)
      BY <2>1, EndsIs
    <3>. QED BY <1>1, <3>1, EndKeepsMembers
  <2>2. CASE BeginSend(s) \/ FetchRoster(s)
    BY <1>1, <2>2, RosterKeepsMembers
  <2>3. CASE LookUp(s)
    BY <1>1, <2>3, LookUpKeepsMembers
  <2>4. CASE \/ LoadKey(s) \/ StoreRatchet(s) \/ SaveKey(s)
             \/ \E d \in Devices : LoadRatchet(s, d)
             \/ \E full \in SUBSET Devices :
                  PostText(s, full) \/ \E answered \in BOOLEAN : PostKeys(s, full, answered)
    BY <1>1, <2>4, LaterKeepsMembers
  <2>. QED BY <1>7, <2>1, <2>2, <2>3, <2>4
<1>. QED BY <1>2, <1>3, <1>4, <1>5, <1>6, <1>7 DEF KeyNext

-----------------------------------------------------------------------------
(* Who can read a text: what holds while no sends are in each other's way.  *)

Torn(d, g) == <<d, g>> \in past.torn
HasKey(d, g) == \E k \in reader[d].keys : k.gen = g

\* What a send that is to save the sender key has loaded: the row as it still is, or a
\* new key, which no text is waiting to be sent beside.
OldKey(s) ==
  /\ run[s].key.gen = senderKey.gen /\ senderKey.gen # 0 /\ run[s].key.next = senderKey.next
  /\ senderKey.shared \subseteq run[s].key.shared /\ run[s].targets \cap senderKey.shared = {}
FreshKey(s) ==
  /\ run[s].key.gen = made.keys /\ made.keys > senderKey.gen /\ Texting = {}
  /\ \A d \in Devices : HasKey(d, made.keys) => Torn(d, made.keys)
KeyHeld(s) ==
  /\ OldKey(s) \/ FreshKey(s)
  /\ run[s].key.shared \subseteq run[s].to /\ run[s].targets \subseteq run[s].to

\* The devices that have the key of the row, and are not torn, are those of its list.
RowInv ==
  /\ senderKey.gen <= made.keys
  /\ \A d \in Devices : \A k \in reader[d].keys : k.gen <= made.keys
  /\ \A d \in senderKey.shared : ~Torn(d, senderKey.gen)
  /\ \A d \in Devices : HasKey(d, senderKey.gen) =>
       d \in senderKey.shared \/ Torn(d, senderKey.gen)

\* The row is ahead of each text.
TextInv ==
  \A t \in texts : t.gen <= senderKey.gen /\ (t.gen = senderKey.gen => t.n < senderKey.next)

\* Device d has a key that opens what send s is about to encrypt.
Opener(d, s) ==
  /\ \E k \in reader[d].keys : k.gen = senderKey.gen /\ k.from <= run[s].key.next
  /\ ~Torn(d, senderKey.gen)
Waiting(s) ==
  /\ run[s].key.gen = senderKey.gen /\ run[s].key.next < senderKey.next
  /\ run[s].seen = epoch /\ ~Bumping =>
       \A d \in Devices : Opener(d, s) => account[Account[d]] = "in"
  /\ run[s].seen = epoch =>
       \A r \in Holding : run[r].key.shared \subseteq senderKey.shared \/ run[r].seen = epoch

\* Nothing that is under way takes d off the list of torn devices.
Excluded(d, t) ==
  /\ Torn(d, t.gen) /\ account[Account[d]] = "out"
  /\ \A r \in Knowing : run[r].seen = epoch => Account[d] \notin run[r].roster
  /\ \A r \in Holding : run[r].key.gen = t.gen => d \notin run[r].key.shared
ReadInv ==
  \A t \in texts, d \in Devices : t.settled /\ Could(d, t) /\ d \notin t.at => Excluded(d, t)

OneHolds == \A r, s \in Holding : r = s
ReadersInv ==
  /\ OneHolds /\ RowInv /\ TextInv /\ ReadInv
  /\ \A s \in Holding : KeyHeld(s)
  /\ \A s \in Texting : Waiting(s)

LEMMA ReadersFollow == MemberInv /\ (past.raced \/ ReadersInv) => OnlyMembersRead
BY DEF ReadersInv, ReadInv, Excluded, Torn, OnlyMembersRead

LEMMA ReadersStart == SenderKeysAssumption /\ KeyInit => ReadersInv
<1>. SUFFICES ASSUME SenderKeysAssumption, KeyInit PROVE ReadersInv
  OBVIOUS
<1>1. \A s \in Sends : run[s] = Idle
  BY DEF KeyInit
<1>2. Holding = {} /\ Texting = {}
  BY <1>1 DEF Holding, Texting, Idle
<1>3. texts = {} /\ \A d \in Devices : reader[d].keys = {}
  BY DEF KeyInit
<1>4. senderKey.gen = 0 /\ senderKey.shared = {} /\ made.keys = 0
  BY DEF KeyInit, NoKey
<1>5. RowInv
  BY <1>3, <1>4 DEF RowInv, HasKey
<1>. QED BY <1>2, <1>3, <1>5 DEF ReadersInv, OneHolds, TextInv, ReadInv

\* Send s keeps what it has, or drops it.
Calm(s) ==
  /\ s \in Knowing' => \/ s \in Knowing /\ run'[s].seen = run[s].seen /\ run'[s].roster = run[s].roster
                       \/ run'[s].roster = Members
  /\ s \in Holding' => /\ s \in Holding /\ run'[s].seen = run[s].seen /\ run'[s].to = run[s].to
                       /\ run'[s].key = run[s].key /\ run'[s].targets = run[s].targets
  /\ s \in Texting' => /\ s \in Texting /\ run'[s].seen = run[s].seen /\ run'[s].to = run[s].to
                       /\ run'[s].key = run[s].key

SameKeys ==
  /\ UNCHANGED senderKey /\ made'.keys = made.keys /\ past'.torn = past.torn
  /\ \A d \in Devices : reader'[d].keys = reader[d].keys

LEMMA RowSame ==
  ASSUME SameKeys, RowInv
  PROVE  RowInv'
<1>1. \A d \in senderKey.shared : Torn(d, senderKey.gen)' <=> Torn(d, senderKey.gen)
  BY DEF SameKeys, Torn
<1>2. \A d \in Devices : /\ HasKey(d, senderKey.gen)' <=> HasKey(d, senderKey.gen)
                         /\ Torn(d, senderKey.gen)' <=> Torn(d, senderKey.gen)
  BY DEF SameKeys, HasKey, Torn
<1>. QED BY <1>1, <1>2 DEF SameKeys, RowInv

LEMMA KeyHeldSame ==
  ASSUME SameKeys, NEW s \in Sends, Texting' \subseteq Texting,
         run'[s].key = run[s].key, run'[s].to = run[s].to, run'[s].targets = run[s].targets,
         KeyHeld(s)
  PROVE  KeyHeld(s)'
<1>1. OldKey(s) => OldKey(s)'
  BY DEF OldKey, SameKeys
<1>2. FreshKey(s) => FreshKey(s)'
  BY DEF FreshKey, SameKeys, HasKey, Torn
<1>. QED BY <1>1, <1>2 DEF KeyHeld

\* Steps that leave the keys and the group as they are.
LEMMA CalmParts ==
  ASSUME KeyTypeOK, ReadersInv, SameKeys, \A s \in Sends : Calm(s), UNCHANGED <<account, epoch>>
  PROVE  /\ OneHolds' /\ RowInv'
         /\ \A s \in Holding' : KeyHeld(s)'
         /\ \A s \in Texting' : Waiting(s)'
         /\ \A t \in texts, d \in Devices : t.settled /\ Could(d, t) /\ d \notin t.at => Excluded(d, t)'
<1>1. /\ Holding' \subseteq Holding /\ Texting' \subseteq Texting
      /\ Holding \subseteq Sends /\ Texting \subseteq Sends /\ Knowing' \subseteq Sends
  BY DEF Calm, Holding, Texting, Knowing
<1>2. OneHolds' /\ RowInv'
  BY <1>1, RowSame DEF ReadersInv, OneHolds
<1>3. \A s \in Holding' : KeyHeld(s)'
  BY <1>1, KeyHeldSame DEF ReadersInv, Calm
<1>4. Bumping' <=> Bumping
  BY DEF Bumping
<1>5. ASSUME NEW s \in Texting' PROVE Waiting(s)'
  <2>1. s \in Sends /\ Waiting(s) /\ run'[s].key = run[s].key /\ run'[s].seen = run[s].seen
    BY <1>1, <1>5 DEF ReadersInv, Calm
  <2>2. \A d \in Devices : Opener(d, s)' => Opener(d, s)
    BY <2>1 DEF Opener, SameKeys, Torn
  <2>3. \A r \in Holding' : r \in Holding /\ run'[r].key = run[r].key /\ run'[r].seen = run[r].seen
    BY <1>1 DEF Calm
  <2>. QED BY <1>4, <2>1, <2>2, <2>3 DEF Waiting, SameKeys
<1>6. ASSUME NEW t \in texts, NEW d \in Devices, t.settled, Could(d, t), d \notin t.at
      PROVE  Excluded(d, t)'
  <2>2. Excluded(d, t)
    BY <1>6 DEF ReadersInv, ReadInv
  <2>3. \A r \in Knowing' : run'[r].seen = epoch' => Account[d] \notin run'[r].roster
    BY <1>1, <2>2 DEF Excluded, Calm, Members
  <2>4. \A r \in Holding' : run'[r].key.gen = t.gen => d \notin run'[r].key.shared
    BY <1>1, <2>2 DEF Excluded, Calm
  <2>. QED BY <2>2, <2>3, <2>4 DEF Excluded, SameKeys, Torn
<1>. QED BY <1>2, <1>3, <1>5, <1>6

LEMMA CalmKeeps ==
  ASSUME KeyTypeOK, ReadersInv, SameKeys, \A s \in Sends : Calm(s),
         UNCHANGED <<account, epoch, texts>>
  PROVE  ReadersInv'
<1>1. TextInv'
  BY DEF ReadersInv, TextInv, SameKeys
<1>2. \A t \in texts', d \in Devices : Could(d, t)' <=> Could(d, t)
  BY DEF SameKeys, Could
<1>3. ReadInv'
  BY <1>2, CalmParts DEF ReadInv
<1>. QED BY <1>1, <1>3, CalmParts DEF ReadersInv

\* Steps of the group.
LEMMA GroupKeepsReaders ==
  ASSUME SenderKeysAssumption, MemberInv, ReadersInv,
         BumpEpoch \/ \E a \in Accounts : Join(a) \/ MarkRemoved(a)
  PROVE  ReadersInv'
<1>1. SameKeys /\ UNCHANGED <<run, texts>> /\ KeyTypeOK
  BY DEF SameKeys, BumpEpoch, Join, MarkRemoved, phone, history, MemberInv
<1>2. Holding' = Holding /\ Texting' = Texting /\ Knowing' = Knowing
      /\ Holding \subseteq Sends /\ Texting \subseteq Sends /\ Knowing \subseteq Sends
  BY <1>1 DEF Holding, Texting, Knowing
<1>3. OneHolds' /\ RowInv' /\ TextInv'
  BY <1>1, <1>2, RowSame DEF ReadersInv, OneHolds, TextInv, SameKeys
<1>4. \A s \in Holding' : KeyHeld(s)'
  BY <1>1, <1>2, KeyHeldSame DEF ReadersInv
<1>5. \/ epoch' = epoch /\ (Bumping => Bumping')
         /\ (Bumping' \/ \A b \in Accounts : account[b] = "in" => account'[b] = "in")
      \/ epoch' > epoch
  <2>1. CASE BumpEpoch
    BY <2>1 DEF BumpEpoch, MemberInv, KeyTypeOK
  <2>2. ASSUME NEW a \in Accounts, Join(a) PROVE <1>5
    <3>1. epoch' = epoch /\ account' = [account EXCEPT ![a] = "in"] /\ account[a] = "new"
      BY <2>2 DEF Join
    <3>2. OutAccounts' = OutAccounts
      BY <3>1 DEF OutAccounts, MemberInv, KeyTypeOK
    <3>3. Bumping' <=> Bumping
      BY <3>1, <3>2 DEF Bumping, OutAccounts
    <3>. QED BY <3>1, <3>3 DEF MemberInv, KeyTypeOK
  <2>3. ASSUME NEW a \in Accounts, MarkRemoved(a) PROVE <1>5
    <3>1. KeyTypeOK'
      BY <2>3, GroupStepTypes DEF MemberInv
    <3>2. Bumping' /\ epoch' = epoch
      BY <2>3, <3>1, RemovalKeepsMembers DEF MarkRemoved
    <3>. QED BY <3>2
  <2>. QED BY <2>1, <2>2, <2>3
<1>6. \A b \in Accounts : account[b] = "out" => account'[b] = "out"
  BY DEF BumpEpoch, Join, MarkRemoved, MemberInv, KeyTypeOK
<1>7. \A s \in Sends : epoch' # epoch => run'[s].seen # epoch'
  BY <1>1, <1>5 DEF MemberInv, RosterInv, KeyTypeOK, SendRec
<1>8. \A d \in Devices : Account[d] \in Accounts
  BY DEF SenderKeysAssumption
<1>9. ASSUME NEW s \in Texting' PROVE Waiting(s)'
  <2>1. s \in Sends /\ Waiting(s)
    BY <1>2, <1>9 DEF ReadersInv
  <2>2. \A d \in Devices : Opener(d, s)' => Opener(d, s)
    BY <1>1 DEF Opener, SameKeys, Torn
  <2>3. CASE epoch' # epoch
    BY <1>1, <1>7, <2>1, <2>3 DEF Waiting, SameKeys
  <2>4. CASE epoch' = epoch
    BY <1>1, <1>2, <1>5, <1>8, <2>1, <2>2, <2>4 DEF Waiting, SameKeys, MemberInv, KeyTypeOK
  <2>. QED BY <2>3, <2>4
<1>10. ASSUME NEW t \in texts', NEW d \in Devices, t.settled, Could(d, t)', d \notin t.at
       PROVE  Excluded(d, t)'
  <2>1. t \in texts /\ Could(d, t)
    BY <1>1, <1>10 DEF SameKeys, Could
  <2>2. Excluded(d, t)
    BY <1>10, <2>1 DEF ReadersInv, ReadInv
  <2>3. \A r \in Knowing' : run'[r].seen = epoch' => Account[d] \notin run'[r].roster
    BY <1>1, <1>2, <1>7, <2>2 DEF Excluded
  <2>. QED BY <1>1, <1>2, <1>6, <1>8, <2>2, <2>3 DEF Excluded, SameKeys, Torn
<1>11. ReadInv'
  BY <1>10 DEF ReadInv
<1>. QED BY <1>3, <1>4, <1>9, <1>11 DEF ReadersInv

LEMMA LoadKeyKeepsReaders ==
  ASSUME MemberInv, ReadersInv, NEW s \in Sends, LoadKey(s), ~Races(s)
  PROVE  ReadersInv'
<1>. USE DEF MemberInv
<1>1. /\ KeyFor(s) \in KeyRec
      /\ \A q \in Sends \ {s} : run'[q] = run[q]
      /\ run'[s].pc \in {"save", "load"} /\ run'[s].key = KeyFor(s) /\ run'[s].targets = LeftFor(s)
      /\ run'[s].seen = run[s].seen /\ run'[s].roster = run[s].roster /\ run'[s].to = run[s].to
  BY LoadKeyIs
<1>2. /\ run[s].pc = "key" /\ UNCHANGED <<account, epoch, senderKey, reader, texts>>
      /\ made'.keys = IF KeyStands(s) THEN made.keys ELSE made.keys + 1
  BY DEF LoadKey, At, relayVars, phone, NewKey, KeyTypeOK
<1>3. past'.torn = past.torn
  BY LoadKeyPast DEF SamePast
<1>4. Holding = {} /\ Holding' = {s} /\ (KeyStands(s) \/ Texting = {})
  BY <1>1, <1>2 DEF Races, Holding, Texting
<1>5. Texting' = Texting /\ s \notin Texting /\ Knowing' = Knowing /\ s \in Knowing
  BY <1>1, <1>2 DEF Texting, Knowing
<1>6. /\ KeyStands(s) => KeyFor(s) = senderKey /\ senderKey.gen # 0 /\ senderKey.shared \subseteq run[s].to
      /\ ~KeyStands(s) => /\ KeyFor(s).gen = made.keys + 1 /\ KeyFor(s).next = 0
                          /\ KeyFor(s).shared = {}
  BY DEF KeyFor, KeyStands, NewKey
<1>7. made.keys \in Nat /\ senderKey \in KeyRec /\ run[s] \in SendRec /\ senderKey.gen \in Nat
  BY DEF KeyTypeOK, KeyRec
<1>8. OneHolds'
  BY <1>4 DEF OneHolds
<1>9. RowInv' /\ TextInv'
  <2>1. \A d \in Devices : \A k \in reader[d].keys : k.gen \in Nat
    BY DEF KeyTypeOK, ReaderRec
  <2>. QED BY <1>2, <1>3, <1>7, <2>1 DEF ReadersInv, RowInv, TextInv, HasKey, Torn
<1>10. KeyHeld(s)'
  <2>1. CASE KeyStands(s)
    <3>1. OldKey(s)'
      BY <1>1, <1>2, <1>6, <2>1 DEF OldKey, LeftFor
    <3>. QED BY <1>1, <1>6, <2>1, <3>1 DEF KeyHeld, LeftFor
  <2>2. CASE ~KeyStands(s)
    <3>1. \A d \in Devices : ~HasKey(d, made.keys + 1)
      BY <1>7 DEF ReadersInv, RowInv, HasKey
    <3>2. FreshKey(s)'
      BY <1>1, <1>2, <1>4, <1>5, <1>6, <1>7, <2>2, <3>1 DEF FreshKey, HasKey, ReadersInv, RowInv
    <3>. QED BY <1>1, <1>6, <2>2, <3>2 DEF KeyHeld, LeftFor
  <2>. QED BY <2>1, <2>2
<1>11. ASSUME NEW q \in Texting' PROVE Waiting(q)'
  <2>1. q \in Sends /\ q # s /\ Waiting(q) /\ run'[q] = run[q]
    BY <1>1, <1>5, <1>11 DEF ReadersInv, Texting
  <2>2. run'[s].key.shared \subseteq senderKey.shared
    BY <1>1, <1>4, <1>5, <1>6, <1>11
  <2>3. Bumping' <=> Bumping
    BY <1>2 DEF Bumping
  <2>4. \A d \in Devices : Opener(d, q)' => Opener(d, q)
    BY <1>2, <1>3, <2>1 DEF Opener, Torn
  <2>. QED BY <1>2, <1>4, <2>1, <2>2, <2>3, <2>4 DEF Waiting
<1>12. ReadInv'
  <2>1. ASSUME NEW t \in texts, NEW d \in Devices, t.settled, Could(d, t), d \notin t.at
        PROVE  Excluded(d, t)'
    <3>1. Excluded(d, t)
      BY <2>1 DEF ReadersInv, ReadInv
    <3>2. \A r \in Knowing : run'[r].seen = run[r].seen /\ run'[r].roster = run[r].roster
      BY <1>1 DEF Knowing
    <3>3. run'[s].key.gen = t.gen => d \notin run'[s].key.shared
      BY <1>1, <1>6, <3>1 DEF Excluded, ReadersInv, RowInv
    <3>. QED BY <1>2, <1>3, <1>4, <1>5, <3>1, <3>2, <3>3 DEF Excluded, Torn
  <2>. QED BY <1>2, <2>1 DEF ReadInv, Could
<1>. QED BY <1>4, <1>8, <1>9, <1>10, <1>11, <1>12 DEF ReadersInv

\* The key that send s gives to d.
Given(s) == [gen |-> run[s].key.gen, from |-> run[s].key.next]

LEMMA GivenKeys ==
  ASSUME KeyTypeOK, NEW s \in Sends, NEW got, NEW answered, Gives(s, got, answered), NEW d \in Devices
  PROVE  /\ reader[d].keys \subseteq reader'[d].keys
         /\ reader'[d].keys \subseteq reader[d].keys \cup {Given(s)}
         /\ d \notin got => reader'[d].keys = reader[d].keys
<1>1. run[s].key \in KeyRec /\ reader[d] \in ReaderRec
  BY DEF KeyTypeOK, SendRec
<1>2. CASE d \in got
  <2>1. PICK e \in EnvelopeRec : reader'[d] = TakeKey(reader[d], e, run[s].key)
    BY <1>2 DEF Gives
  <2>. QED BY <1>1, <1>2, <2>1, TakeKeyIs DEF Given, ReaderRec
<1>3. CASE d \notin got
  BY <1>3 DEF Gives
<1>. QED BY <1>2, <1>3

LEMMA PostKeysKeepsReaders ==
  ASSUME MemberInv, ReadersInv, NEW s \in Sends, NEW full \in SUBSET Devices,
         NEW answered \in BOOLEAN, PostKeys(s, full, answered)
  PROVE  ReadersInv'
<1>. USE DEF MemberInv
<1>1. PICK got : Gives(s, got, answered)
  BY PostKeysIs
<1>2. /\ run[s].pc = "post" /\ run[s].seen = epoch
      /\ UNCHANGED <<account, epoch, senderKey, made, texts>>
  BY DEF PostKeys, At, relayVars, phone
<1>3. /\ s \in Holding /\ Holding = {s} /\ s \in Knowing /\ s \in Listing /\ KeyHeld(s)
      /\ s \notin Texting
  BY <1>2 DEF ReadersInv, OneHolds, Holding, Knowing, Listing, Texting
<1>4. /\ got \subseteq run[s].targets
      /\ \A q \in Sends \ {s} : run'[q] = run[q]
      /\ \A d \in Devices : \A g : Torn(d, g)' <=> Torn(d, g) \/ (d \in got /\ g = run[s].key.gen)
      /\ ~answered => run'[s] = Idle
      /\ answered => /\ run'[s].pc = "save" /\ run'[s].seen = run[s].seen
                     /\ run'[s].roster = run[s].roster /\ run'[s].to = run[s].to
                     /\ run'[s].targets = run[s].targets
                     /\ run'[s].key.gen = run[s].key.gen /\ run'[s].key.next = run[s].key.next
                     /\ run'[s].key.shared = run[s].key.shared \cup run[s].targets
  BY <1>1 DEF Gives, Torn
<1>5. /\ run[s].key.gen \in Nat /\ run[s].key.next \in Nat /\ senderKey.gen \in Nat
      /\ senderKey.next \in Nat /\ senderKey.shared \subseteq Devices /\ made.keys \in Nat
  BY DEF KeyTypeOK, SendRec, KeyRec
<1>6. /\ answered => Holding' = {s} /\ Knowing' = Knowing
      /\ ~answered => Holding' = {} /\ Knowing' = Knowing \ {s}
      /\ Texting' = Texting
  BY <1>3, <1>4 DEF Holding, Knowing, Texting, Idle
<1>7. \A d \in Devices : \A k \in reader'[d].keys :
        k \in reader[d].keys \/ (d \in got /\ k.gen = run[s].key.gen /\ k.from = run[s].key.next)
  BY <1>1, GivenKeys DEF Given
<1>8. \A d \in Devices : \A g : HasKey(d, g)' => HasKey(d, g) \/ (d \in got /\ g = run[s].key.gen)
  BY <1>7 DEF HasKey
<1>9. run[s].key.gen <= made.keys /\ (run[s].key.gen = senderKey.gen => OldKey(s))
  BY <1>3, <1>5 DEF KeyHeld, OldKey, FreshKey, ReadersInv, RowInv
<1>10. RowInv'
  <2>1. \A d \in senderKey.shared : ~Torn(d, senderKey.gen)'
    BY <1>2, <1>4, <1>5, <1>9 DEF ReadersInv, RowInv, OldKey
  <2>2. \A d \in Devices : \A k \in reader'[d].keys : k.gen <= made.keys
    BY <1>7, <1>9 DEF ReadersInv, RowInv
  <2>3. \A d \in Devices : HasKey(d, senderKey.gen)' => d \in senderKey.shared \/ Torn(d, senderKey.gen)'
    BY <1>2, <1>4, <1>8 DEF ReadersInv, RowInv
  <2>. QED BY <1>2, <2>1, <2>2, <2>3 DEF ReadersInv, RowInv
<1>11. TextInv'
  BY <1>2 DEF ReadersInv, TextInv
<1>12. answered => KeyHeld(s)'
  <2>1. CASE answered /\ OldKey(s)
    <3>1. OldKey(s)'
      BY <1>2, <1>4, <2>1 DEF OldKey
    <3>. QED BY <1>3, <1>4, <2>1, <3>1 DEF KeyHeld
  <2>2. CASE answered /\ FreshKey(s)
    <3>1. \A d \in Devices : HasKey(d, made.keys)' => Torn(d, made.keys)'
      BY <1>2, <1>4, <1>8, <2>2 DEF FreshKey
    <3>2. FreshKey(s)'
      BY <1>2, <1>4, <1>6, <2>2, <3>1 DEF FreshKey
    <3>. QED BY <1>3, <1>4, <2>2, <3>2 DEF KeyHeld
  <2>. QED BY <1>3, <2>1, <2>2 DEF KeyHeld
<1>13. ASSUME NEW q \in Texting' PROVE Waiting(q)'
  <2>1. q \in Sends /\ q # s /\ Waiting(q) /\ run'[q] = run[q] /\ OldKey(s)
    BY <1>3, <1>4, <1>6, <1>13 DEF ReadersInv, Texting, KeyHeld, FreshKey
  <2>2. Bumping' <=> Bumping
    BY <1>2 DEF Bumping
  <2>3. run[q].key.next \in Nat
    BY <2>1 DEF KeyTypeOK, SendRec, KeyRec
  <2>4. \A d \in Devices : Opener(d, q)' => Opener(d, q)
    BY <1>2, <1>4, <1>5, <1>7, <2>1, <2>3 DEF Opener, Waiting, OldKey
  <2>5. \A r \in Holding' : run'[r].seen = epoch'
    BY <1>2, <1>4, <1>6
  <2>. QED BY <1>2, <2>1, <2>2, <2>4, <2>5 DEF Waiting
<1>14. ASSUME NEW t \in texts, NEW d \in Devices, t.settled, Could(d, t)', d \notin t.at
       PROVE  Excluded(d, t)'
  <2>1. t.gen <= senderKey.gen /\ (t.gen = senderKey.gen => t.n < senderKey.next)
        /\ t.gen \in Nat /\ t.n \in Nat
    BY DEF ReadersInv, TextInv, KeyTypeOK, TextRec
  <2>2. Could(d, t)
    <3>1. PICK k \in reader'[d].keys : k.gen = t.gen /\ k.from <= t.n
      BY <1>14 DEF Could
    <3>2. k \in reader[d].keys
      BY <1>3, <1>5, <1>7, <2>1, <3>1 DEF KeyHeld, OldKey, FreshKey
    <3>. QED BY <3>1, <3>2 DEF Could
  <2>3. Excluded(d, t)
    BY <1>14, <2>2 DEF ReadersInv, ReadInv
  <2>4. \A r \in Knowing' : run'[r].seen = epoch' => Account[d] \notin run'[r].roster
    BY <1>2, <1>4, <1>6, <2>3 DEF Excluded, Knowing
  <2>5. \A r \in Holding' : run'[r].key.gen = t.gen => d \notin run'[r].key.shared
    BY <1>2, <1>3, <1>4, <1>6, <2>3 DEF Excluded, KeyHeld, RosterInv
  <2>. QED BY <1>2, <1>4, <2>3, <2>4, <2>5 DEF Excluded
<1>15. ReadInv'
  BY <1>2, <1>14 DEF ReadInv
<1>16. OneHolds'
  BY <1>6 DEF OneHolds
<1>. QED BY <1>6, <1>10, <1>11, <1>12, <1>13, <1>15, <1>16 DEF ReadersInv

LEMMA SaveKeyKeepsReaders ==
  ASSUME SenderKeysAssumption, MemberInv, ReadersInv, NEW s \in Sends, SaveKey(s)
  PROVE  ReadersInv'
<1>. USE DEF MemberInv
<1>1. /\ \A q \in Sends \ {s} : run'[q] = run[q]
      /\ run'[s].pc = "text" /\ run'[s].seen = run[s].seen /\ run'[s].roster = run[s].roster
      /\ run'[s].to = run[s].to /\ run'[s].key = run[s].key
      /\ senderKey'.gen = run[s].key.gen /\ senderKey'.next = run[s].key.next + 1
      /\ senderKey'.shared = run[s].key.shared
      /\ past'.torn = past.torn \ (run[s].key.shared \X {run[s].key.gen})
  BY SaveKeyIs
<1>2. run[s].pc = "save" /\ UNCHANGED <<account, epoch, reader, made, texts>>
  BY DEF SaveKey, At, relayVars
<1>3. /\ s \in Holding /\ Holding = {s} /\ s \in Knowing /\ s \in Listing /\ s \notin Texting
      /\ KeyHeld(s)
  BY <1>2 DEF ReadersInv, OneHolds, Holding, Knowing, Listing, Texting
<1>4. Holding' = {} /\ Texting' = Texting \cup {s} /\ Knowing' = Knowing
  BY <1>1, <1>3 DEF Holding, Knowing, Texting
<1>5. /\ run[s].key \in KeyRec /\ run[s].key.gen \in Nat /\ run[s].key.next \in Nat
      /\ run[s].key.shared \subseteq Devices /\ senderKey.gen \in Nat /\ senderKey.next \in Nat
      /\ made.keys \in Nat
  BY DEF KeyTypeOK, SendRec, KeyRec
<1>6. \A d \in Devices : \A g \in Nat :
        <<d, g>> \in past'.torn <=> Torn(d, g) /\ ~(d \in run[s].key.shared /\ g = run[s].key.gen)
  BY <1>1 DEF Torn
<1>7. \A d \in Devices : HasKey(d, run[s].key.gen) =>
        d \in run[s].key.shared \/ Torn(d, run[s].key.gen)
  BY <1>3 DEF KeyHeld, OldKey, FreshKey, ReadersInv, RowInv
<1>8. /\ run[s].key.gen <= made.keys /\ senderKey.gen <= run[s].key.gen
      /\ run[s].key.gen = senderKey.gen => OldKey(s)
      /\ Texting # {} => OldKey(s)
  BY <1>3, <1>5 DEF KeyHeld, OldKey, FreshKey, ReadersInv, RowInv
<1>9. RowInv'
  <2>1. \A d \in senderKey'.shared : <<d, senderKey'.gen>> \notin past'.torn
    BY <1>1, <1>5, <1>6
  <2>2. \A d \in Devices : HasKey(d, senderKey'.gen) =>
          d \in senderKey'.shared \/ <<d, senderKey'.gen>> \in past'.torn
    BY <1>1, <1>5, <1>6, <1>7
  <2>. QED BY <1>1, <1>2, <1>8, <2>1, <2>2 DEF ReadersInv, RowInv, HasKey, Torn
<1>10. TextInv'
  <2>1. ASSUME NEW t \in texts
        PROVE  t.gen <= senderKey'.gen /\ (t.gen = senderKey'.gen => t.n < senderKey'.next)
    <3>1. t.gen \in Nat /\ t.n \in Nat
      BY DEF KeyTypeOK, TextRec
    <3>. QED BY <1>1, <1>5, <1>8, <3>1 DEF ReadersInv, TextInv, OldKey
  <2>. QED BY <1>2, <2>1 DEF TextInv
\* Who is on the list that send s saves was in its roster.
<1>11. ASSUME NEW d \in run[s].key.shared, run[s].seen = epoch, ~Bumping
       PROVE  account[Account[d]] = "in"
  <2>1. Account[d] \in run[s].roster
    BY <1>3, <1>11 DEF KeyHeld, RosterInv
  <2>2. run[s].roster \subseteq Members
    BY <1>3, <1>11 DEF RosterInv
  <2>. QED BY <2>1, <2>2 DEF Members
<1>12. Bumping' <=> Bumping
  BY <1>2 DEF Bumping
<1>13. Waiting(s)'
  <2>1. ASSUME NEW d \in Devices, Opener(d, s)', run[s].seen = epoch, ~Bumping
        PROVE  account[Account[d]] = "in"
    <3>1. HasKey(d, run[s].key.gen) /\ <<d, run[s].key.gen>> \notin past'.torn
      BY <1>1, <1>2, <2>1 DEF Opener, HasKey, Torn
    <3>2. d \in run[s].key.shared
      BY <1>5, <1>6, <1>7, <3>1
    <3>. QED BY <1>11, <2>1, <3>2
  <2>. QED BY <1>1, <1>2, <1>4, <1>5, <1>12, <2>1 DEF Waiting
<1>14. ASSUME NEW q \in Texting PROVE Waiting(q)'
  <2>1. q \in Sends /\ q # s /\ Waiting(q) /\ run'[q] = run[q] /\ OldKey(s)
    BY <1>1, <1>3, <1>8, <1>14 DEF ReadersInv, Texting
  <2>2. run[q].key.next \in Nat
    BY <2>1 DEF KeyTypeOK, SendRec, KeyRec
  <2>3. ASSUME NEW d \in Devices, Opener(d, q)', run[q].seen = epoch, ~Bumping
        PROVE  account[Account[d]] = "in"
    <3>1. /\ \E k \in reader[d].keys : k.gen = senderKey.gen /\ k.from <= run[q].key.next
          /\ <<d, senderKey.gen>> \notin past'.torn
      BY <1>1, <1>2, <2>1, <2>3 DEF Opener, Torn, OldKey
    <3>2. CASE ~Torn(d, senderKey.gen)
      BY <2>1, <2>3, <3>1, <3>2 DEF Opener, Waiting
    <3>3. CASE Torn(d, senderKey.gen)
      <4>1. d \in run[s].key.shared /\ d \notin senderKey.shared
        BY <1>5, <1>6, <3>1, <3>3 DEF ReadersInv, RowInv
      <4>2. run[s].seen = epoch
        BY <1>3, <2>1, <2>3, <4>1 DEF Waiting
      <4>. QED BY <1>11, <2>3, <4>1, <4>2
    <3>. QED BY <3>2, <3>3
  <2>4. run'[q].key.gen = senderKey'.gen /\ run'[q].key.next < senderKey'.next
    BY <1>1, <1>5, <2>1, <2>2 DEF Waiting, OldKey
  <2>. QED BY <1>2, <1>4, <1>12, <2>1, <2>3, <2>4 DEF Waiting
<1>15. ReadInv'
  <2>1. ASSUME NEW t \in texts, NEW d \in Devices, t.settled, Could(d, t), d \notin t.at
        PROVE  Excluded(d, t)'
    <3>1. Excluded(d, t) /\ t.gen \in Nat
      BY <2>1 DEF ReadersInv, ReadInv, KeyTypeOK, TextRec
    <3>2. <<d, t.gen>> \in past'.torn
      BY <1>3, <1>6, <3>1 DEF Excluded
    <3>3. \A r \in Knowing : run'[r].seen = run[r].seen /\ run'[r].roster = run[r].roster
      BY <1>1 DEF Knowing
    <3>. QED BY <1>2, <1>4, <3>1, <3>2, <3>3 DEF Excluded, Torn
  <2>. QED BY <1>2, <2>1 DEF ReadInv, Could
<1>. QED BY <1>4, <1>9, <1>10, <1>13, <1>14, <1>15 DEF ReadersInv, OneHolds

LEMMA PostTextKeepsReaders ==
  ASSUME SenderKeysAssumption, MemberInv, ReadersInv, NEW s \in Sends, NEW full \in SUBSET Devices,
         PostText(s, full)
  PROVE  ReadersInv'
<1>. USE DEF MemberInv
<1>1. PICK got : Tells(s, got)
  BY PostTextIs
<1>2. /\ run[s].pc = "text" /\ run[s].seen = epoch
      /\ UNCHANGED <<account, epoch, senderKey, made>>
  BY DEF PostText, At, relayVars, phone
<1>3. SameKeys
  <2>1. TextOf(s) \in TextRec
    BY TextOfIs
  <2>2. ASSUME NEW d \in Devices PROVE reader'[d].keys = reader[d].keys
    <3>1. reader[d] \in ReaderRec
      BY DEF KeyTypeOK
    <3>2. TakeText(reader[d], TextOf(s)).keys = reader[d].keys
      BY <2>1, <3>1, TakeTextIs
    <3>. QED BY <1>1, <3>2 DEF Tells
  <2>. QED BY <1>1, <1>2, <2>2 DEF SameKeys, Tells
<1>4. \A q \in Sends : Calm(q)
  BY <1>1 DEF Tells, Calm, Idle, Knowing, Holding, Texting
<1>5. /\ OneHolds' /\ RowInv'
      /\ \A q \in Holding' : KeyHeld(q)'
      /\ \A q \in Texting' : Waiting(q)'
      /\ \A t \in texts, d \in Devices : t.settled /\ Could(d, t) /\ d \notin t.at => Excluded(d, t)'
  BY <1>2, <1>3, <1>4, CalmParts
<1>6. PICK t \in TextRec :
        /\ t = TextOf(s) /\ t.gen = run[s].key.gen /\ t.n = run[s].key.next /\ t.at = Reached
        /\ t.settled <=> ~Bumping
  BY TextOfIs
<1>7. texts' = texts \cup {t}
  BY <1>1, <1>6 DEF Tells
<1>8. s \in Texting /\ Waiting(s)
  BY <1>2 DEF Texting, ReadersInv
<1>9. TextInv'
  <2>1. t.gen <= senderKey.gen /\ t.n < senderKey.next
    BY <1>6, <1>8 DEF Waiting, KeyTypeOK, KeyRec
  <2>. QED BY <1>2, <1>7, <2>1 DEF ReadersInv, TextInv
<1>10. ASSUME NEW d \in Devices, t.settled, Could(d, t), d \notin t.at PROVE Excluded(d, t)'
  <2>1. account[Account[d]] = "out"
    <3>1. d \in linked /\ account[Account[d]] # "new" /\ Account[d] \in Accounts
      BY <1>10 DEF HolderInv, Could, SenderKeysAssumption
    <3>2. Account[d] \notin Members
      BY <1>6, <1>10, <3>1 DEF Reached
    <3>. QED BY <3>1, <3>2 DEF KeyTypeOK, Members
  <2>2. Torn(d, t.gen)
    BY <1>2, <1>6, <1>8, <1>10, <2>1 DEF Waiting, Opener, Could
  <2>3. \A r \in Knowing : run[r].seen = epoch => Account[d] \notin run[r].roster
    BY <1>6, <1>10, <2>1 DEF RosterInv, Members
  <2>4. ASSUME NEW r \in Holding, run[r].key.gen = t.gen PROVE d \notin run[r].key.shared
    <3>1. r \in Knowing /\ r \in Listing /\ KeyHeld(r)
      BY DEF Holding, Knowing, Listing, ReadersInv
    <3>2. d \notin senderKey.shared
      BY <1>6, <1>8, <2>2 DEF Waiting, ReadersInv, RowInv
    <3>3. ASSUME d \in run[r].key.shared PROVE FALSE
      <4>1. run[r].seen = epoch
        BY <1>2, <1>8, <3>2, <3>3 DEF Waiting
      <4>2. Account[d] \in run[r].roster
        BY <3>1, <3>3 DEF KeyHeld, RosterInv
      <4>. QED BY <2>3, <3>1, <4>1, <4>2
    <3>. QED BY <3>3
  <2>5. \A q \in Sends : run'[q] = run[q] \/ run'[q] = Idle
    BY <1>1 DEF Tells
  <2>6. \A r \in Knowing' : r \in Knowing /\ run'[r] = run[r]
    BY <2>5 DEF Knowing, Idle
  <2>7. \A r \in Holding' : r \in Holding /\ run'[r] = run[r]
    BY <2>5 DEF Holding, Idle
  <2>. QED BY <1>2, <1>3, <2>1, <2>2, <2>3, <2>4, <2>6, <2>7 DEF Excluded, Torn, SameKeys
<1>11. ReadInv'
  <2>1. \A u \in texts', d \in Devices : Could(d, u)' <=> Could(d, u)
    BY <1>3 DEF SameKeys, Could
  <2>. QED BY <1>5, <1>7, <1>10, <2>1 DEF ReadInv
<1>. QED BY <1>5, <1>9, <1>11 DEF ReadersInv

LEMMA CalmSteps ==
  ASSUME MemberInv,
         \/ Refresh \/ Kill \/ \E d \in Devices : LinkDevice(d) \/ Hail(d) \/ Hear(d)
         \/ \E s \in Sends :
              \/ BeginSend(s) \/ FetchRoster(s) \/ LookUp(s) \/ StoreRatchet(s)
              \/ Refused(s) \/ RequestFails(s)
              \/ \E d \in Devices : LoadRatchet(s, d)
  PROVE  SameKeys /\ (\A q \in Sends : Calm(q)) /\ UNCHANGED <<account, epoch, texts>>
         /\ (past.raced => past'.raced)
<1>. USE DEF MemberInv
<1>1. CASE Refresh \/ \E d \in Devices : LinkDevice(d) \/ Hail(d) \/ Hear(d)
  <2>1. UNCHANGED <<account, epoch, texts, run, senderKey, made>>
    BY <1>1 DEF Refresh, LinkDevice, Hail, Hear, relayVars, phone, history
  <2>2. \A d \in Devices : reader'[d].keys = reader[d].keys
    BY <1>1 DEF Refresh, LinkDevice, Hail, Hear, KeyTypeOK, ReaderRec
  <2>3. past'.torn = past.torn /\ (past.raced => past'.raced)
    <3>1. CASE \E d \in Devices : Hear(d)
      BY <3>1, HearPast DEF SamePast
    <3>2. CASE Refresh \/ \E d \in Devices : LinkDevice(d) \/ Hail(d)
      BY <3>2 DEF Refresh, LinkDevice, Hail, history
    <3>. QED BY <1>1, <3>1, <3>2
  <2>4. \A q \in Sends : Calm(q)
    BY <2>1 DEF Calm, Knowing, Holding, Texting
  <2>. QED BY <2>1, <2>2, <2>3, <2>4 DEF SameKeys
<1>2. CASE Kill \/ \E s \in Sends : Refused(s) \/ RequestFails(s)
  <2>1. PICK ss \in SUBSET Sends : Ends(ss)
    BY <1>2, EndsIs
  <2>2. /\ \A q \in Sends : run'[q] = run[q] \/ run'[q] = Idle
        /\ past'.torn = past.torn /\ past'.raced = past.raced
    BY <2>1, AbandonIs DEF Ends
  <2>3. \A q \in Sends : Calm(q)
    BY <2>2 DEF Calm, Knowing, Holding, Texting, Idle
  <2>. QED BY <2>1, <2>2, <2>3 DEF SameKeys, Ends, relayVars
<1>3. ASSUME NEW s \in Sends, BeginSend(s) \/ FetchRoster(s) \/ LookUp(s)
      PROVE  /\ SameKeys /\ (\A q \in Sends : Calm(q)) /\ UNCHANGED <<account, epoch, texts>>
             /\ past.raced => past'.raced
  <2>1. UNCHANGED <<account, epoch, texts, senderKey, made, reader, past>>
    BY <1>3 DEF BeginSend, FetchRoster, LookUp, relayVars, phone, history
  <2>2. /\ \A q \in Sends \ {s} : run'[q] = run[q]
        /\ \/ run'[s] = Idle \/ run'[s].pc = "roster"
           \/ run'[s].pc = "directory" /\ run'[s].roster = Members
           \/ /\ s \in Knowing /\ run'[s].pc = "key"
              /\ run'[s].seen = run[s].seen /\ run'[s].roster = run[s].roster
    <3>1. CASE BeginSend(s) \/ FetchRoster(s)
      BY <3>1, BeginIs, FetchIs
    <3>2. CASE LookUp(s)
      BY <3>2, LookUpIs DEF LookUp, At, Knowing
    <3>. QED BY <1>3, <3>1, <3>2
  <2>3. \A q \in Sends : Calm(q)
    BY <2>2 DEF Calm, Knowing, Holding, Texting, Idle
  <2>. QED BY <2>1, <2>3 DEF SameKeys
<1>4. ASSUME NEW s \in Sends, StoreRatchet(s) \/ \E d \in Devices : LoadRatchet(s, d)
      PROVE  /\ SameKeys /\ (\A q \in Sends : Calm(q)) /\ UNCHANGED <<account, epoch, texts>>
             /\ past.raced => past'.raced
  <2>1. /\ \A q \in Sends \ {s} : run'[q] = run[q]
        /\ run'[s].pc \in {"load", "store", "post"} /\ run[s].pc \in {"load", "store"}
        /\ run'[s].seen = run[s].seen /\ run'[s].roster = run[s].roster
        /\ run'[s].to = run[s].to /\ run'[s].key = run[s].key /\ run'[s].targets = run[s].targets
    <3>1. CASE StoreRatchet(s)
      <4>1. PICK e \in EnvelopeRec : StoresFor(s, e)
        BY <3>1, StoreIs
      <4>. QED BY <3>1, <4>1 DEF StoresFor, StoreRatchet, At
    <3>2. CASE \E d \in Devices : LoadRatchet(s, d)
      BY <3>2, LoadRatchetIs DEF LoadRatchet, At
    <3>. QED BY <1>4, <3>1, <3>2
  <2>2. made'.keys = made.keys
    BY <1>4 DEF StoreRatchet, LoadRatchet, KeyTypeOK
  <2>3. UNCHANGED <<account, epoch, texts, senderKey, reader, past>>
    BY <1>4 DEF StoreRatchet, LoadRatchet, relayVars, phone, history
  <2>4. \A q \in Sends : Calm(q)
    BY <2>1 DEF Calm, Knowing, Holding, Texting
  <2>. QED BY <2>2, <2>3, <2>4 DEF SameKeys
<1>. QED BY <1>1, <1>2, <1>3, <1>4

LEMMA ReadersKept ==
  ASSUME SenderKeysAssumption, MemberInv, past.raced \/ ReadersInv, [KeyNext]_keyVars
  PROVE  past'.raced \/ ReadersInv'
<1>1. CASE UNCHANGED keyVars
  <2>1. UNCHANGED <<account, epoch, texts, senderKey, made, reader, past, run>>
    BY <1>1 DEF keyVars, relayVars, phone, history
  <2>2. SameKeys /\ \A q \in Sends : Calm(q)
    BY <2>1 DEF SameKeys, Calm, Knowing, Holding, Texting
  <2>. QED BY <2>1, <2>2, CalmKeeps DEF MemberInv
<1>2. CASE BumpEpoch \/ \E a \in Accounts : Join(a) \/ MarkRemoved(a)
  <2>1. past'.raced = past.raced
    BY <1>2 DEF BumpEpoch, Join, MarkRemoved, history
  <2>. QED BY <1>2, <2>1, GroupKeepsReaders
<1>3. CASE \/ Refresh \/ Kill \/ \E d \in Devices : LinkDevice(d) \/ Hail(d) \/ Hear(d)
           \/ \E s \in Sends :
                \/ BeginSend(s) \/ FetchRoster(s) \/ LookUp(s) \/ StoreRatchet(s)
                \/ Refused(s) \/ RequestFails(s)
                \/ \E d \in Devices : LoadRatchet(s, d)
  BY <1>3, CalmSteps, CalmKeeps DEF MemberInv
<1>4. ASSUME NEW s \in Sends, LoadKey(s) PROVE past'.raced \/ ReadersInv'
  BY <1>4, LoadKeyPast, LoadKeyKeepsReaders DEF MemberInv
<1>5. ASSUME NEW s \in Sends, SaveKey(s) PROVE past'.raced \/ ReadersInv'
  BY <1>5, SaveKeyIs, SaveKeyKeepsReaders DEF MemberInv
<1>6. ASSUME NEW s \in Sends, NEW full \in SUBSET Devices, PostText(s, full)
      PROVE  past'.raced \/ ReadersInv'
  <2>1. past'.raced = past.raced
    BY <1>6, PostTextIs DEF MemberInv, Tells
  <2>. QED BY <1>6, <2>1, PostTextKeepsReaders
<1>7. ASSUME NEW s \in Sends, NEW full \in SUBSET Devices, NEW answered \in BOOLEAN,
             PostKeys(s, full, answered)
      PROVE  past'.raced \/ ReadersInv'
  <2>1. past'.raced = past.raced
    BY <1>7, PostKeysIs DEF MemberInv, Gives
  <2>. QED BY <1>7, <2>1, PostKeysKeepsReaders
<1>. QED BY <1>1, <1>2, <1>3, <1>4, <1>5, <1>6, <1>7 DEF KeyNext

-----------------------------------------------------------------------------
(* The two sides of a ratchet, while no sends are in each other's way.      *)

\* The phone and device d do not share a ratchet, and will not.
Faulty(d) == \/ d \in past.cut
             \/ reader[d].id = Theirs /\ ratchet[d].id \notin {0, Theirs}

\* A device has the phone's ratchet, the one it started itself or none; who has none
\* has a first envelope under way or lost.
RatchetOK(d) ==
  /\ ratchet[d].id <= made.ratchets /\ reader[d].id <= made.ratchets
  /\ ratchet[d].id = 0 => ratchet[d] = NoRatchet
  /\ d \in letters \/ ratchet[d].id = Theirs => reader[d].id = Theirs
  /\ reader[d].id \notin {0, Theirs} => reader[d].id = ratchet[d].id
  /\ ratchet[d].id # 0 /\ reader[d].id = 0 => d \in past.cut \/ \E s \in Sends : d \in Firsts(s)
  /\ reader[d].id = 0 \/ ratchet[d].id = 0 => reader[d].opened = {}
  /\ reader[d].id = ratchet[d].id => \A n \in reader[d].opened : n < ratchet[d].next

\* An envelope of send s is the last that its ratchet made, and has not been opened.
Giving(s) == run[s].pc \in {"load", "store", "post"}
EnvelopeOK(s, e) ==
  /\ Giving(s) /\ e.to \notin run[s].left
  /\ run[s].pc = "store" => e.to # run[s].current.device
  /\ e.id # 0 /\ ratchet[e.to].id = e.id /\ ratchet[e.to].next = e.n + 1
  /\ reader[e.to].id = e.id => e.n \notin reader[e.to].opened
  /\ e.first => e.id > Theirs /\ reader[e.to].id # e.id
  /\ ~e.first => reader[e.to].id # 0 \/ e.to \in past.cut
  /\ \A f \in run[s].batch : f.to = e.to => f = e

\* The ratchet that send s has loaded is still the one of the row.
CurrentOK(s) ==
  run[s].pc = "store" =>
    LET c == run[s].current
    IN  c.device \notin run[s].left /\ ratchet[c.device].id = c.id /\ ratchet[c.device].next = c.next

RatchetsInv ==
  /\ made.ratchets >= Theirs /\ \A d \in Devices : RatchetOK(d)
  /\ \A s \in Sends : CurrentOK(s) /\ \A e \in run[s].batch : EnvelopeOK(s, e)

FaultsLast == \A d \in Devices : Faulty(d) => Faulty(d)'

LEMMA RatchetsStart == SenderKeysAssumption /\ KeyInit => RatchetsInv
<1>. SUFFICES ASSUME SenderKeysAssumption, KeyInit PROVE RatchetsInv
  OBVIOUS
<1>1. \A s \in Sends : run[s].pc = "idle" /\ run[s].batch = {}
  BY DEF KeyInit, Idle
<1>2. \A d \in Devices : reader[d].id = 0 /\ reader[d].opened = {} /\ ratchet[d] = NoRatchet
  BY DEF KeyInit
<1>3. made.ratchets = 1 /\ letters = {}
  BY DEF KeyInit, Theirs
<1>4. \A d \in Devices : RatchetOK(d)
  BY <1>2, <1>3 DEF RatchetOK, NoRatchet, Theirs
<1>. QED BY <1>1, <1>3, <1>4 DEF RatchetsInv, CurrentOK, Theirs

\* Steps that leave the ratchets alone: a send stays, or has no envelopes left.
Dropped(s) == run'[s].batch = {} /\ run'[s].pc # "store" /\ Firsts(s) \subseteq past'.cut
SameRatchets ==
  /\ UNCHANGED <<ratchet, letters>> /\ made'.ratchets = made.ratchets
  /\ \A d \in Devices : reader'[d].id = reader[d].id /\ reader'[d].opened = reader[d].opened
  /\ past.cut \subseteq past'.cut

LEMMA QuietKeeps ==
  ASSUME KeyTypeOK, RatchetsInv, SameRatchets, \A s \in Sends : run'[s] = run[s] \/ Dropped(s)
  PROVE  RatchetsInv' /\ FaultsLast
<1>1. ASSUME NEW d \in Devices PROVE RatchetOK(d)'
  <2>1. \A s \in Sends : d \in Firsts(s) => d \in Firsts(s)' \/ d \in past'.cut
    BY DEF Dropped, Firsts
  <2>2. RatchetOK(d)
    BY DEF RatchetsInv
  <2>3. /\ ratchet'[d] = ratchet[d] /\ reader'[d].id = reader[d].id
        /\ reader'[d].opened = reader[d].opened /\ letters' = letters
        /\ made'.ratchets = made.ratchets /\ past.cut \subseteq past'.cut
    BY DEF SameRatchets
  <2>. QED BY <2>1, <2>2, <2>3 DEF RatchetOK
<1>2. ASSUME NEW s \in Sends PROVE CurrentOK(s)' /\ \A e \in run'[s].batch : EnvelopeOK(s, e)'
  <2>1. CASE run'[s] = run[s]
    <3>1. CurrentOK(s)'
      BY <2>1 DEF RatchetsInv, CurrentOK, SameRatchets
    <3>2. ASSUME NEW e \in run[s].batch PROVE EnvelopeOK(s, e)'
      <4>1. EnvelopeOK(s, e) /\ e.to \in Devices
        BY DEF RatchetsInv, KeyTypeOK, SendRec, EnvelopeRec
      <4>. QED BY <2>1, <4>1 DEF EnvelopeOK, Giving, SameRatchets
    <3>. QED BY <2>1, <3>1, <3>2
  <2>2. CASE Dropped(s)
    BY <2>2 DEF Dropped, CurrentOK
  <2>. QED BY <2>1, <2>2
<1>3. FaultsLast
  BY DEF FaultsLast, Faulty, SameRatchets
<1>. QED BY <1>1, <1>2, <1>3 DEF RatchetsInv, SameRatchets

\* A send that is not giving its key has no envelopes.
LEMMA NoEnvelopes ==
  ASSUME RatchetsInv, NEW s \in Sends, ~Giving(s)
  PROVE  run[s].batch = {} /\ Firsts(s) = {}
BY DEF RatchetsInv, EnvelopeOK, Firsts

LEMMA QuietSteps ==
  ASSUME KeyTypeOK, RatchetsInv,
         \/ BumpEpoch \/ Refresh \/ Kill \/ UNCHANGED keyVars
         \/ \E a \in Accounts : Join(a) \/ MarkRemoved(a)
         \/ \E d \in Devices : LinkDevice(d)
         \/ \E s \in Sends :
              \/ BeginSend(s) \/ FetchRoster(s) \/ LookUp(s) \/ LoadKey(s) \/ SaveKey(s)
              \/ Refused(s) \/ RequestFails(s)
              \/ \E full \in SUBSET Devices : PostText(s, full)
  PROVE  SameRatchets /\ \A s \in Sends : run'[s] = run[s] \/ Dropped(s)
<1>1. CASE \/ BumpEpoch \/ Refresh \/ UNCHANGED keyVars
           \/ \E a \in Accounts : Join(a) \/ MarkRemoved(a)
           \/ \E d \in Devices : LinkDevice(d)
  <2>1. UNCHANGED <<run, ratchet, letters, made, reader, past>>
    BY <1>1 DEF BumpEpoch, Refresh, keyVars, Join, MarkRemoved, LinkDevice, phone, history
  <2>. QED BY <2>1 DEF SameRatchets
<1>2. CASE Kill \/ \E s \in Sends : Refused(s) \/ RequestFails(s)
  <2>1. PICK ss \in SUBSET Sends : Ends(ss)
    BY <1>2, EndsIs
  <2>2. /\ \A q \in Sends \ ss : run'[q] = run[q]
        /\ \A q \in ss : run'[q] = Idle
        /\ past'.cut = past.cut \cup UNION {Firsts(s) : s \in ss}
    BY <2>1, AbandonIs DEF Ends
  <2>3. \A q \in ss : Firsts(q) \subseteq past'.cut
    BY <2>2
  <2>. QED BY <2>1, <2>2, <2>3 DEF SameRatchets, Ends, Dropped, Idle
<1>3. ASSUME NEW s \in Sends, BeginSend(s) \/ FetchRoster(s) \/ LookUp(s)
      PROVE  SameRatchets /\ \A q \in Sends : run'[q] = run[q] \/ Dropped(q)
  <2>1. ~Giving(s) /\ UNCHANGED <<ratchet, letters, made, reader, past>>
    BY <1>3 DEF BeginSend, FetchRoster, LookUp, At, Giving, phone, history
  <2>2. /\ \A q \in Sends \ {s} : run'[q] = run[q]
        /\ run'[s].batch = run[s].batch \/ run'[s] = Idle
        /\ run'[s].pc \in {"roster", "directory", "key", "idle"}
    BY <1>3, BeginIs, FetchIs, LookUpIs, IdleIs
  <2>3. run[s].batch = {} /\ Firsts(s) = {}
    BY <2>1, NoEnvelopes
  <2>. QED BY <2>1, <2>2, <2>3, IdleIs DEF SameRatchets, Dropped
<1>4. ASSUME NEW s \in Sends, LoadKey(s)
      PROVE  SameRatchets /\ \A q \in Sends : run'[q] = run[q] \/ Dropped(q)
  <2>1. ~Giving(s) /\ UNCHANGED <<ratchet, letters, reader>> /\ made'.ratchets = made.ratchets
    BY <1>4 DEF LoadKey, At, Giving, phone, KeyTypeOK
  <2>2. /\ \A q \in Sends \ {s} : run'[q] = run[q]
        /\ run'[s].batch = run[s].batch /\ run'[s].pc # "store"
    BY <1>4, LoadKeyIs
  <2>3. run[s].batch = {} /\ Firsts(s) = {}
    BY <2>1, NoEnvelopes
  <2>4. past'.cut = past.cut
    BY <1>4, LoadKeyPast DEF SamePast
  <2>. QED BY <2>1, <2>2, <2>3, <2>4 DEF SameRatchets, Dropped
<1>5. ASSUME NEW s \in Sends, SaveKey(s)
      PROVE  SameRatchets /\ \A q \in Sends : run'[q] = run[q] \/ Dropped(q)
  <2>1. ~Giving(s) /\ UNCHANGED <<ratchet, letters, reader, made>>
    BY <1>5 DEF SaveKey, At, Giving
  <2>2. /\ \A q \in Sends \ {s} : run'[q] = run[q]
        /\ run'[s].batch = run[s].batch /\ run'[s].pc = "text" /\ past'.cut = past.cut
    BY <1>5, SaveKeyIs
  <2>3. run[s].batch = {} /\ Firsts(s) = {}
    BY <2>1, NoEnvelopes
  <2>. QED BY <2>1, <2>2, <2>3 DEF SameRatchets, Dropped
<1>6. ASSUME NEW s \in Sends, NEW full \in SUBSET Devices, PostText(s, full)
      PROVE  SameRatchets /\ \A q \in Sends : run'[q] = run[q] \/ Dropped(q)
  <2>1. ~Giving(s) /\ UNCHANGED <<ratchet, letters, made>>
    BY <1>6 DEF PostText, At, Giving, phone
  <2>2. PICK got : Tells(s, got)
    BY <1>6, PostTextIs
  <2>3. run[s].batch = {} /\ Firsts(s) = {}
    BY <2>1, NoEnvelopes
  <2>4. \A q \in Sends : run'[q] = run[q] \/ Dropped(q)
    BY <2>2, <2>3, IdleIs DEF Tells, Dropped
  <2>5. TextOf(s) \in TextRec
    BY TextOfIs
  <2>6. ASSUME NEW d \in Devices PROVE reader'[d].id = reader[d].id /\ reader'[d].opened = reader[d].opened
    <3>1. reader[d] \in ReaderRec
      BY DEF KeyTypeOK
    <3>. QED BY <2>2, <2>5, <3>1, TakeTextIs DEF Tells
  <2>. QED BY <2>1, <2>2, <2>4, <2>6 DEF SameRatchets, Tells
<1>. QED BY <1>1, <1>2, <1>3, <1>4, <1>5, <1>6

LEMMA HailKeepsRatchets ==
  ASSUME KeyTypeOK, RatchetsInv, NEW a \in Devices, Hail(a)
  PROVE  RatchetsInv' /\ FaultsLast
<1>1. /\ reader[a].id = 0 /\ UNCHANGED <<ratchet, run, made, past>> /\ letters' = letters \cup {a}
      /\ reader' = [reader EXCEPT ![a].id = Theirs]
  BY DEF Hail, phone, history
<1>2. /\ reader'[a].id = Theirs /\ \A d \in Devices \ {a} : reader'[d] = reader[d]
      /\ \A d \in Devices : reader'[d].opened = reader[d].opened
  BY <1>1 DEF KeyTypeOK, ReaderRec
<1>3. RatchetOK(a) /\ ratchet[a].id # Theirs /\ reader[a].opened = {} /\ made.ratchets >= Theirs
  BY <1>1 DEF RatchetsInv, RatchetOK, Theirs
<1>4. ASSUME NEW d \in Devices PROVE RatchetOK(d)'
  <2>1. RatchetOK(d) /\ \A s \in Sends : Firsts(s)' = Firsts(s)
    BY <1>1 DEF RatchetsInv, Firsts
  <2>2. CASE d = a
    BY <1>1, <1>2, <1>3, <2>1, <2>2 DEF RatchetOK, Theirs
  <2>3. CASE d # a
    BY <1>1, <1>2, <2>1, <2>3 DEF RatchetOK
  <2>. QED BY <2>2, <2>3
<1>5. ASSUME NEW s \in Sends PROVE CurrentOK(s)' /\ \A e \in run'[s].batch : EnvelopeOK(s, e)'
  <2>1. CurrentOK(s)'
    BY <1>1 DEF RatchetsInv, CurrentOK
  <2>2. ASSUME NEW e \in run[s].batch PROVE EnvelopeOK(s, e)'
    <3>1. EnvelopeOK(s, e) /\ e.to \in Devices
      BY DEF RatchetsInv, KeyTypeOK, SendRec, EnvelopeRec
    <3>. QED BY <1>1, <1>2, <1>3, <3>1 DEF EnvelopeOK, Giving, Theirs
  <2>. QED BY <1>1, <2>1, <2>2
<1>6. FaultsLast
  BY <1>1, <1>2 DEF FaultsLast, Faulty, Theirs
<1>. QED BY <1>1, <1>3, <1>4, <1>5, <1>6 DEF RatchetsInv

LEMMA HearKeepsRatchets ==
  ASSUME KeyTypeOK, RatchetsInv, NEW a \in Devices, Hear(a), ~past'.raced
  PROVE  RatchetsInv' /\ FaultsLast
<1>1. /\ a \in letters /\ letters' = letters \ {a} /\ UNCHANGED <<run, made, reader>>
      /\ ratchet' = IF ratchet[a] = NoRatchet
                    THEN [ratchet EXCEPT ![a] = [id |-> Theirs, next |-> 0]] ELSE ratchet
  BY DEF Hear
<1>2. past'.cut = past.cut /\ (ratchet[a] = NoRatchet => ~Stepping(a))
  BY HearPast DEF SamePast
<1>3. RatchetOK(a) /\ reader[a].id = Theirs
  BY <1>1 DEF RatchetsInv, RatchetOK
<1>4. CASE ratchet[a] # NoRatchet
  <2>1. UNCHANGED <<ratchet, run, made, reader>> /\ past'.cut = past.cut /\ letters' \subseteq letters
    BY <1>1, <1>2, <1>4
  <2>2. \A d \in Devices : RatchetOK(d)'
    BY <2>1 DEF RatchetsInv, RatchetOK, Firsts
  <2>3. \A s \in Sends : CurrentOK(s)' /\ \A e \in run'[s].batch : EnvelopeOK(s, e)'
    BY <2>1 DEF RatchetsInv, CurrentOK, EnvelopeOK, Giving
  <2>. QED BY <2>1, <2>2, <2>3 DEF RatchetsInv, FaultsLast, Faulty
<1>5. CASE ratchet[a] = NoRatchet
  <2>1. /\ ratchet'[a].id = Theirs /\ \A d \in Devices \ {a} : ratchet'[d] = ratchet[d]
        /\ ratchet[a].id = 0 /\ ratchet'[a].next = 0
    BY <1>1, <1>5 DEF KeyTypeOK, NoRatchet
  <2>2. ASSUME NEW d \in Devices PROVE RatchetOK(d)'
    <3>1. RatchetOK(d) /\ \A s \in Sends : Firsts(s)' = Firsts(s)
      BY <1>1 DEF RatchetsInv, Firsts
    <3>2. CASE d = a
      BY <1>1, <1>2, <1>3, <2>1, <3>1, <3>2 DEF RatchetOK, Theirs
    <3>3. CASE d # a
      BY <1>1, <1>2, <2>1, <3>1, <3>3 DEF RatchetOK
    <3>. QED BY <3>2, <3>3
  <2>3. ASSUME NEW s \in Sends PROVE CurrentOK(s)' /\ \A e \in run'[s].batch : EnvelopeOK(s, e)'
    <3>1. CurrentOK(s)'
      <4>1. run[s].pc = "store" => run[s].current.device \in Devices \ {a}
        BY <1>2, <1>5 DEF Stepping, KeyTypeOK, Covered, LoadedRec
      <4>. QED BY <1>1, <2>1, <4>1 DEF RatchetsInv, CurrentOK
    <3>2. ASSUME NEW e \in run[s].batch PROVE EnvelopeOK(s, e)'
      <4>1. EnvelopeOK(s, e) /\ e.to \in Devices /\ e.to # a
        BY <2>1 DEF RatchetsInv, KeyTypeOK, SendRec, EnvelopeRec, EnvelopeOK
      <4>. QED BY <1>1, <1>2, <2>1, <4>1 DEF EnvelopeOK, Giving
    <3>. QED BY <1>1, <3>1, <3>2
  <2>4. FaultsLast
    BY <1>1, <1>2, <2>1 DEF FaultsLast, Faulty
  <2>. QED BY <1>1, <2>2, <2>3, <2>4 DEF RatchetsInv
<1>. QED BY <1>4, <1>5

LEMMA LoadKeepsRatchets ==
  ASSUME KeyTypeOK, RatchetsInv, NEW s \in Sends, NEW a \in Devices, LoadRatchet(s, a)
  PROVE  RatchetsInv' /\ FaultsLast
<1>1. UNCHANGED <<ratchet, reader, letters, made, past>>
  BY DEF LoadRatchet, phone, history
<1>2. /\ run[s].pc = "load" /\ a \in run[s].left
      /\ \A q \in Sends \ {s} : run'[q] = run[q]
      /\ run'[s].pc = "store" /\ run'[s].left = run[s].left \ {a} /\ run'[s].batch = run[s].batch
      /\ run'[s].current.device = a
      /\ run'[s].current.id = ratchet[a].id /\ run'[s].current.next = ratchet[a].next
  <2>1. run[s].pc = "load" /\ a \in run[s].left
    BY DEF LoadRatchet, At
  <2>. QED BY <2>1, LoadRatchetIs
<1>3. \A q \in Sends : Firsts(q)' = Firsts(q)
  BY <1>2 DEF Firsts
<1>4. \A d \in Devices : RatchetOK(d)'
  BY <1>1, <1>3 DEF RatchetsInv, RatchetOK
<1>5. ASSUME NEW q \in Sends PROVE CurrentOK(q)' /\ \A e \in run'[q].batch : EnvelopeOK(q, e)'
  <2>1. CASE q # s
    BY <1>1, <1>2, <2>1 DEF RatchetsInv, CurrentOK, EnvelopeOK, Giving
  <2>2. CASE q = s
    <3>1. CurrentOK(s)'
      BY <1>1, <1>2 DEF CurrentOK
    <3>2. ASSUME NEW e \in run[s].batch PROVE EnvelopeOK(s, e)'
      BY <1>1, <1>2 DEF RatchetsInv, EnvelopeOK, Giving
    <3>. QED BY <1>2, <2>2, <3>1, <3>2
  <2>. QED BY <2>1, <2>2
<1>. QED BY <1>1, <1>4, <1>5 DEF RatchetsInv, FaultsLast, Faulty

LEMMA StoreKeepsRatchets ==
  ASSUME KeyTypeOK, OneHolds, RatchetsInv, NEW s \in Sends, StoreRatchet(s)
  PROVE  RatchetsInv' /\ FaultsLast
<1>1. PICK e \in EnvelopeRec : StoresFor(s, e)
  BY StoreIs
<1>2. PICK c \in LoadedRec : c = run[s].current
  BY <1>1 DEF StoresFor
<1>3. /\ e.to = c.device /\ e.n = c.next /\ (e.first <=> c.id = 0)
      /\ e.id = (IF e.first THEN made.ratchets + 1 ELSE c.id)
      /\ \A q \in Sends \ {s} : run'[q] = run[q]
      /\ run'[s].pc \in {"load", "post"}
      /\ run'[s].batch = run[s].batch \cup {e} /\ run'[s].left = run[s].left
  BY <1>1, <1>2 DEF StoresFor
<1>4. run[s].pc = "store" /\ UNCHANGED <<reader, letters, past>>
  BY DEF StoreRatchet, At, history
<1>5. /\ e.to \in Devices /\ e.n \in Nat /\ e.id \in Nat /\ e.first \in BOOLEAN
      /\ c.id \in Nat /\ c.next \in Nat /\ made.ratchets \in Nat
      /\ reader \in [Devices -> ReaderRec] /\ ratchet \in [Devices -> RatchetRec]
  BY <1>2 DEF KeyTypeOK, LoadedRec, EnvelopeRec
<1>6. /\ ratchet'[e.to].id = e.id /\ ratchet'[e.to].next = e.n + 1
      /\ \A d \in Devices \ {e.to} : ratchet'[d] = ratchet[d]
      /\ made'.ratchets = IF e.first THEN e.id ELSE made.ratchets
  BY <1>1, <1>5 DEF StoresFor, KeyTypeOK
<1>7. c.device \notin run[s].left /\ ratchet[e.to].id = c.id /\ ratchet[e.to].next = c.next
  BY <1>2, <1>3, <1>4 DEF RatchetsInv, CurrentOK
<1>8. RatchetOK(e.to) /\ made.ratchets >= Theirs
  BY <1>5 DEF RatchetsInv
<1>9. /\ \A q \in Sends : Firsts(q) \subseteq Firsts(q)'
      /\ e.first => e.to \in Firsts(s)'
  BY <1>3 DEF Firsts
<1>10. \A q \in Sends \ {s} : ~Giving(q)
  BY <1>4 DEF Giving, OneHolds, Holding
<1>11. ASSUME NEW d \in Devices PROVE RatchetOK(d)'
  <2>1. RatchetOK(d) /\ reader[d] \in ReaderRec
    BY <1>5 DEF RatchetsInv
  <2>2. CASE d # e.to
    <3>1. /\ ratchet'[d] = ratchet[d] /\ ratchet[d].id \in Nat /\ reader[d].id \in Nat
          /\ made.ratchets <= made'.ratchets /\ made'.ratchets \in Nat
      BY <1>3, <1>5, <1>6, <2>1, <2>2 DEF ReaderRec, RatchetRec
    <3>2. (\E q \in Sends : d \in Firsts(q)) => \E q \in Sends : d \in Firsts(q)'
      BY <1>9
    <3>. QED BY <1>4, <1>5, <2>1, <3>1, <3>2 DEF RatchetOK
  <2>3. CASE d = e.to /\ e.first
    BY <1>3, <1>4, <1>5, <1>6, <1>7, <1>8, <1>9, <2>1, <2>3 DEF RatchetOK, Theirs, ReaderRec, NoRatchet
  <2>4. CASE d = e.to /\ ~e.first
    BY <1>3, <1>4, <1>5, <1>6, <1>7, <1>8, <1>9, <2>1, <2>4 DEF RatchetOK, ReaderRec
  <2>. QED BY <1>5, <2>2, <2>3, <2>4
<1>12. ASSUME NEW f \in run[s].batch PROVE EnvelopeOK(s, f)'
  <2>1. EnvelopeOK(s, f) /\ f.to \in Devices
    BY DEF RatchetsInv, KeyTypeOK, SendRec, EnvelopeRec
  <2>2. f.to # e.to
    BY <1>2, <1>3, <1>4, <2>1 DEF EnvelopeOK
  <2>3. \A g \in run'[s].batch : g.to = f.to => g = f
    BY <1>3, <2>1, <2>2 DEF EnvelopeOK
  <2>. QED BY <1>3, <1>4, <1>6, <2>1, <2>2, <2>3 DEF EnvelopeOK, Giving
<1>13. EnvelopeOK(s, e)'
  <2>1. \A f \in run[s].batch : f.to # e.to
    BY <1>2, <1>3, <1>4 DEF RatchetsInv, EnvelopeOK
  <2>2. ~e.first => reader[e.to].id # 0 \/ e.to \in past.cut
    <3>1. \A q \in Sends : e.to \notin Firsts(q)
      BY <1>10, <2>1, NoEnvelopes DEF Firsts
    <3>. QED BY <1>3, <1>7, <1>8, <3>1 DEF RatchetOK
  <2>3. reader[e.to].id = e.id => e.n \notin reader[e.to].opened
    BY <1>3, <1>5, <1>7, <1>8 DEF RatchetOK, ReaderRec
  <2>4. e.id # 0 /\ (e.first => e.id > Theirs /\ reader[e.to].id # e.id)
    BY <1>3, <1>5, <1>8 DEF RatchetOK, ReaderRec, Theirs
  <2>. QED BY <1>3, <1>4, <1>6, <1>7, <2>1, <2>2, <2>3, <2>4 DEF EnvelopeOK, Giving
<1>14. ASSUME NEW q \in Sends PROVE CurrentOK(q)' /\ \A f \in run'[q].batch : EnvelopeOK(q, f)'
  <2>1. CASE q = s
    BY <1>3, <1>12, <1>13, <2>1 DEF CurrentOK
  <2>2. CASE q # s
    BY <1>3, <1>10, <2>2, NoEnvelopes DEF CurrentOK, Giving
  <2>. QED BY <2>1, <2>2
<1>15. FaultsLast
  BY <1>3, <1>4, <1>5, <1>6, <1>7, <1>8 DEF FaultsLast, Faulty, Theirs
<1>16. made'.ratchets >= Theirs
  BY <1>3, <1>5, <1>6, <1>8 DEF Theirs
<1>. QED BY <1>11, <1>14, <1>15, <1>16 DEF RatchetsInv

\* Device d takes the key that send s gives it, or shares no ratchet with the phone.
Takes(s, d, e) ==
  /\ reader'[d].id = e.id /\ reader'[d].opened = reader[d].opened \cup {e.n}
  /\ reader'[d].gen = run[s].key.gen /\ reader'[d].next = run[s].key.next
  /\ IF reader[d].id = 0 THEN e.first ELSE reader[d].id = e.id
Declines(d) ==
  /\ reader'[d] = reader[d] /\ Faulty(d)
  /\ reader[d].id = 0 => d \in past.cut

LEMMA Delivered ==
  ASSUME KeyTypeOK, RatchetsInv, NEW s \in Sends, NEW got, NEW answered, Gives(s, got, answered),
         NEW d \in got
  PROVE  \E e \in run[s].batch : e.to = d /\ EnvelopeOK(s, e) /\ (Takes(s, d, e) \/ Declines(d))
<1>1. PICK e \in EnvelopeRec :
        /\ e \in run[s].batch /\ e.to = d
        /\ reader'[d] = TakeKey(reader[d], e, run[s].key)
  BY DEF Gives
<1>2. EnvelopeOK(s, e) /\ d \in Devices
  BY <1>1 DEF RatchetsInv, Gives
<1>3. reader[d] \in ReaderRec /\ run[s].key \in KeyRec /\ RatchetOK(d)
  BY <1>2 DEF KeyTypeOK, SendRec, RatchetsInv
<1>4. CASE OpensKey(reader[d], e)
  <2>1. PICK k : k = {[gen |-> run[s].key.gen, from |-> run[s].key.next]}
    OBVIOUS
  <2>2. reader'[d] = [id |-> e.id, opened |-> reader[d].opened \cup {e.n},
                      keys |-> reader[d].keys \cup k,
                      gen |-> run[s].key.gen, next |-> run[s].key.next, skipped |-> {}]
    BY <1>1, <1>3, <1>4, <2>1, TakeKeyIs
  <2>3. Takes(s, d, e)
    BY <1>4, <2>2 DEF Takes, OpensKey
  <2>. QED BY <1>1, <1>2, <2>3
<1>5. CASE ~OpensKey(reader[d], e)
  <2>1. reader'[d] = reader[d]
    BY <1>1, <1>3, <1>5, TakeKeyIs
  <2>2. reader[d].id = 0 => d \in past.cut
    BY <1>1, <1>2, <1>5 DEF OpensKey, EnvelopeOK
  <2>3. reader[d].id # 0 => reader[d].id # e.id
    BY <1>1, <1>2, <1>5 DEF OpensKey, EnvelopeOK
  <2>4. reader[d].id # 0 => reader[d].id = Theirs /\ ratchet[d].id \notin {0, Theirs}
    BY <1>1, <1>2, <1>3, <2>3 DEF RatchetOK, EnvelopeOK
  <2>5. Declines(d)
    BY <2>1, <2>2, <2>4 DEF Declines, Faulty
  <2>. QED BY <1>1, <1>2, <2>5
<1>. QED BY <1>4, <1>5

LEMMA PostKeepsRatchets ==
  ASSUME KeyTypeOK, OneHolds, RatchetsInv, NEW s \in Sends, NEW got, NEW answered \in BOOLEAN,
         Gives(s, got, answered), run[s].pc = "post", UNCHANGED <<ratchet, letters, made>>
  PROVE  RatchetsInv' /\ FaultsLast
<1>1. /\ got \subseteq Devices /\ past'.cut = past.cut \cup (Firsts(s) \ got)
      /\ \A d \in Devices \ got : reader'[d] = reader[d]
      /\ \A q \in Sends \ {s} : run'[q] = run[q]
      /\ run'[s].batch = {} /\ run'[s].pc # "store"
  BY IdleIs DEF Gives
<1>2. \A q \in Sends \ {s} : run[q].batch = {} /\ Firsts(q) = {} /\ run[q].pc # "store"
  <2>1. \A q \in Sends \ {s} : ~Giving(q)
    BY DEF Giving, OneHolds, Holding
  <2>. QED BY <2>1, NoEnvelopes DEF Giving
<1>3. ASSUME NEW d \in Devices PROVE RatchetOK(d)' /\ (Faulty(d) => Faulty(d)')
  <2>1. /\ RatchetOK(d) /\ ratchet'[d] = ratchet[d] /\ letters' = letters /\ made' = made
        /\ past.cut \subseteq past'.cut
    BY <1>1 DEF RatchetsInv
  <2>2. d \notin got /\ (\E q \in Sends : d \in Firsts(q)) => d \in past'.cut
    BY <1>1, <1>2
  <2>3. CASE d \notin got
    <3>1. reader'[d] = reader[d]
      BY <1>1, <2>3
    <3>. QED BY <2>1, <2>2, <2>3, <3>1 DEF RatchetOK, Faulty
  <2>4. CASE d \in got
    <3>1. PICK e \in run[s].batch : e.to = d /\ EnvelopeOK(s, e) /\ (Takes(s, d, e) \/ Declines(d))
      BY <2>4, Delivered
    <3>2. /\ e.n \in Nat /\ reader[d].opened \subseteq Nat /\ reader[d].id \in Nat
          /\ ratchet[d].id \in Nat /\ ratchet[d].next \in Nat
      BY <3>1 DEF KeyTypeOK, SendRec, EnvelopeRec, ReaderRec, RatchetRec
    <3>3. CASE Declines(d)
      <4>1. reader'[d] = reader[d] /\ (reader[d].id = 0 => d \in past'.cut)
        BY <1>1, <3>3 DEF Declines
      <4>. QED BY <2>1, <4>1 DEF RatchetOK, Faulty
    <3>4. CASE Takes(s, d, e)
      <4>1. /\ e.id # 0 /\ ratchet[d].id = e.id /\ ratchet[d].next = e.n + 1
            /\ e.first => e.id # Theirs
        BY <3>1 DEF EnvelopeOK, Theirs
      <4>2. /\ reader'[d].id = e.id /\ reader'[d].opened = reader[d].opened \cup {e.n}
            /\ IF reader[d].id = 0 THEN e.first ELSE reader[d].id = e.id
        BY <3>4 DEF Takes
      <4>3. \A n \in reader'[d].opened : n < ratchet[d].next
        BY <2>1, <3>2, <4>1, <4>2 DEF RatchetOK
      <4>. QED BY <2>1, <4>1, <4>2, <4>3 DEF RatchetOK, Faulty, Theirs
    <3>. QED BY <3>1, <3>3, <3>4
  <2>. QED BY <2>3, <2>4
<1>4. ASSUME NEW q \in Sends PROVE CurrentOK(q)' /\ \A e \in run'[q].batch : EnvelopeOK(q, e)'
  BY <1>1, <1>2 DEF CurrentOK
<1>. QED BY <1>3, <1>4 DEF RatchetsInv, FaultsLast

LEMMA RatchetsKept ==
  ASSUME KeyTypeOK, OneHolds, RatchetsInv, [KeyNext]_keyVars, ~past'.raced
  PROVE  RatchetsInv' /\ FaultsLast
<1>1. CASE \/ BumpEpoch \/ Refresh \/ Kill \/ UNCHANGED keyVars
           \/ \E a \in Accounts : Join(a) \/ MarkRemoved(a)
           \/ \E d \in Devices : LinkDevice(d)
           \/ \E s \in Sends :
                \/ BeginSend(s) \/ FetchRoster(s) \/ LookUp(s) \/ LoadKey(s) \/ SaveKey(s)
                \/ Refused(s) \/ RequestFails(s)
                \/ \E full \in SUBSET Devices : PostText(s, full)
  BY <1>1, QuietSteps, QuietKeeps
<1>2. ASSUME NEW d \in Devices, Hail(d) PROVE RatchetsInv' /\ FaultsLast
  BY <1>2, HailKeepsRatchets
<1>3. ASSUME NEW d \in Devices, Hear(d) PROVE RatchetsInv' /\ FaultsLast
  BY <1>3, HearKeepsRatchets
<1>4. ASSUME NEW s \in Sends, NEW d \in Devices, LoadRatchet(s, d) PROVE RatchetsInv' /\ FaultsLast
  BY <1>4, LoadKeepsRatchets
<1>5. ASSUME NEW s \in Sends, StoreRatchet(s) PROVE RatchetsInv' /\ FaultsLast
  BY <1>5, StoreKeepsRatchets
<1>6. ASSUME NEW s \in Sends, NEW full \in SUBSET Devices, NEW answered \in BOOLEAN,
             PostKeys(s, full, answered)
      PROVE  RatchetsInv' /\ FaultsLast
  <2>1. PICK got : Gives(s, got, answered)
    BY <1>6, PostKeysIs
  <2>2. run[s].pc = "post" /\ UNCHANGED <<ratchet, letters, made>>
    BY <1>6 DEF PostKeys, At, phone
  <2>. QED BY <2>1, <2>2, PostKeepsRatchets
<1>. QED BY <1>1, <1>2, <1>3, <1>4, <1>5, <1>6 DEF KeyNext

-----------------------------------------------------------------------------
(* Who can open a text.                                                     *)

\* Device d did not get key g, or no longer has it.
Renewed(d, g) == \E h \in 1..made.keys : h > g /\ Torn(d, h)
Lacks(d, g) == <<d, g>> \in past.missed \/ Faulty(d) \/ Renewed(d, g)

\* Who is on a key's list has it, in a state that the phone's has not passed.
Shares(key, d) ==
  Lacks(d, key.gen) \/ (reader[d].gen = key.gen /\ reader[d].next <= key.next)
RowShared == \A d \in senderKey.shared : Shares(senderKey, d)
Sharing(s) ==
  /\ \A d \in run[s].key.shared : Shares(run[s].key, d)
  /\ run[s].pc = "save" => run[s].to \subseteq run[s].key.shared
  /\ Giving(s) => /\ run[s].to \subseteq run[s].key.shared \cup run[s].targets
                  /\ run[s].targets \cap run[s].key.shared = {}

\* Each text that is to be sent has its place in the chain, which its readers have kept.
Opens(d, g, n) ==
  reader[d].gen = g /\ (n >= reader[d].next \/ n \in reader[d].skipped)
Opening(s) ==
  /\ run[s].to \subseteq run[s].key.shared /\ run[s].key.shared \subseteq senderKey.shared
  /\ \A d \in run[s].key.shared :
       Lacks(d, run[s].key.gen) \/ Opens(d, run[s].key.gen, run[s].key.next)
OwnPlace == \A r, s \in Texting : run[r].key.next = run[s].key.next => r = s

\* Nothing that is under way takes device d off the list of those torn by a key after g.
Outdated(d, g) ==
  \E h \in 1..made.keys : /\ h > g /\ Torn(d, h) /\ h # senderKey.gen
                          /\ \A r \in Holding : run[r].key.gen # h
Explained(d, t) == <<d, t.gen>> \in past.missed \/ Faulty(d) \/ Outdated(d, t.gen)
BlankInv ==
  \A d \in Devices, t \in TextRec : <<d, t>> \in past.blank /\ d \in t.to => Explained(d, t)

SharesInv ==
  /\ RowShared /\ OwnPlace /\ BlankInv
  /\ \A s \in Holding : Sharing(s)
  /\ \A s \in Texting : Opening(s)

LEMMA SharesStart == SenderKeysAssumption /\ KeyInit => SharesInv
<1>. SUFFICES ASSUME SenderKeysAssumption, KeyInit PROVE SharesInv
  OBVIOUS
<1>1. Holding = {} /\ Texting = {}
  BY DEF KeyInit, Holding, Texting, Idle
<1>2. senderKey.shared = {} /\ past.blank = {}
  BY DEF KeyInit, NoKey
<1>. QED BY <1>1, <1>2 DEF SharesInv, RowShared, OwnPlace, BlankInv

\* Send s goes on with its key, or has none.
Steady(s) ==
  /\ Giving(s)' => Giving(s)
  /\ run'[s].pc = "save" => run[s].pc = "save"
  /\ run'[s].pc = "text" => run[s].pc = "text"
  /\ Giving(s)' \/ run'[s].pc \in {"save", "text"} =>
       run'[s].key = run[s].key /\ run'[s].to = run[s].to /\ run'[s].targets = run[s].targets
SameShares ==
  /\ UNCHANGED senderKey /\ made'.keys = made.keys
  /\ past'.blank = past.blank /\ past'.torn = past.torn /\ past'.missed = past.missed
  /\ \A d \in Devices : /\ reader'[d].gen = reader[d].gen /\ reader'[d].next = reader[d].next
                         /\ reader'[d].skipped = reader[d].skipped

LEMMA LacksLast ==
  ASSUME FaultsLast, made.keys \in Nat, made'.keys \in Nat, made.keys <= made'.keys,
         past.missed \subseteq past'.missed, NEW d \in Devices, NEW g \in Nat, Lacks(d, g),
         \A h \in 1..made.keys : h > g /\ Torn(d, h) => Torn(d, h)'
  PROVE  Lacks(d, g)'
BY DEF Lacks, Renewed, FaultsLast

LEMMA SteadyKeeps ==
  ASSUME KeyTypeOK, KeyTypeOK', SharesInv, FaultsLast, SameShares, \A s \in Sends : Steady(s)
  PROVE  SharesInv'
<1>1. Holding' \subseteq Holding /\ Texting' \subseteq Texting
  BY DEF Steady, Holding, Texting, Giving
<1>2. ASSUME NEW d \in Devices, NEW g \in Nat, Lacks(d, g) PROVE Lacks(d, g)'
  BY <1>2, LacksLast DEF SameShares, KeyTypeOK, Torn
<1>3. ASSUME NEW d \in Devices, NEW key \in KeyRec, Shares(key, d)
      PROVE  Lacks(d, key.gen)' \/ (reader'[d].gen = key.gen /\ reader'[d].next <= key.next)
  BY <1>2, <1>3 DEF Shares, SameShares, KeyRec
<1>4. RowShared'
  <2>1. senderKey \in KeyRec /\ senderKey.shared \subseteq Devices
    BY DEF KeyTypeOK, KeyRec
  <2>. QED BY <1>3, <2>1 DEF SharesInv, RowShared, SameShares, Shares
<1>5. OwnPlace'
  BY <1>1 DEF SharesInv, OwnPlace, Steady, Texting
<1>6. ASSUME NEW s \in Holding' PROVE Sharing(s)'
  <2>1. /\ Sharing(s) /\ s \in Sends /\ run'[s].key = run[s].key /\ run'[s].to = run[s].to
        /\ run'[s].targets = run[s].targets
    BY <1>1 DEF SharesInv, Steady, Holding, Giving
  <2>2. run[s].key \in KeyRec /\ run[s].key.shared \subseteq Devices
    BY <2>1 DEF KeyTypeOK, SendRec, KeyRec
  <2>3. \A d \in run'[s].key.shared : Shares(run[s].key, d)'
    BY <1>3, <2>1, <2>2 DEF Sharing, Shares
  <2>. QED BY <2>1, <2>3 DEF Sharing, Steady
<1>7. ASSUME NEW s \in Texting' PROVE Opening(s)'
  <2>1. /\ Opening(s) /\ s \in Sends /\ run'[s].key = run[s].key /\ run'[s].to = run[s].to
    BY <1>1 DEF SharesInv, Steady, Texting
  <2>2. run[s].key.gen \in Nat /\ run[s].key.shared \subseteq Devices
    BY <2>1 DEF KeyTypeOK, SendRec, KeyRec
  <2>. QED BY <1>2, <2>1, <2>2 DEF Opening, Opens, SameShares
<1>8. BlankInv'
  <2>1. ASSUME NEW d \in Devices, NEW g, Outdated(d, g) PROVE Outdated(d, g)'
    <3>1. \A r \in Holding' : r \in Holding /\ run'[r].key = run[r].key
      BY <1>1 DEF Steady, Holding, Giving
    <3>. QED BY <2>1, <3>1 DEF Outdated, SameShares, Torn
  <2>. QED BY <2>1 DEF SharesInv, BlankInv, Explained, FaultsLast, SameShares
<1>. QED BY <1>4, <1>5, <1>6, <1>7, <1>8 DEF SharesInv

LEMMA SteadySteps ==
  ASSUME KeyTypeOK,
         \/ BumpEpoch \/ Refresh \/ Kill \/ UNCHANGED keyVars
         \/ \E a \in Accounts : Join(a) \/ MarkRemoved(a)
         \/ \E d \in Devices : LinkDevice(d) \/ Hail(d) \/ Hear(d)
         \/ \E s \in Sends :
              \/ BeginSend(s) \/ FetchRoster(s) \/ LookUp(s) \/ StoreRatchet(s)
              \/ Refused(s) \/ RequestFails(s)
              \/ \E d \in Devices : LoadRatchet(s, d)
  PROVE  SameShares /\ \A s \in Sends : Steady(s)
<1>1. CASE \/ BumpEpoch \/ Refresh \/ UNCHANGED keyVars
           \/ \E a \in Accounts : Join(a) \/ MarkRemoved(a)
           \/ \E d \in Devices : LinkDevice(d)
  <2>1. UNCHANGED <<run, senderKey, made, reader, past>>
    BY <1>1 DEF BumpEpoch, Refresh, keyVars, Join, MarkRemoved, LinkDevice, phone, history
  <2>. QED BY <2>1 DEF SameShares, Steady, Giving
<1>2. ASSUME NEW d \in Devices, Hail(d) \/ Hear(d)
      PROVE  SameShares /\ \A s \in Sends : Steady(s)
  <2>1. UNCHANGED <<run, senderKey, made>>
    BY <1>2 DEF Hail, Hear, phone
  <2>2. SamePast
    BY <1>2, HearPast DEF Hail, history, SamePast
  <2>3. \A b \in Devices : /\ reader'[b].gen = reader[b].gen /\ reader'[b].next = reader[b].next
                           /\ reader'[b].skipped = reader[b].skipped
    BY <1>2 DEF Hail, Hear, KeyTypeOK, ReaderRec
  <2>. QED BY <2>1, <2>2, <2>3 DEF SameShares, SamePast, Steady, Giving
<1>3. CASE Kill \/ \E s \in Sends : Refused(s) \/ RequestFails(s)
  <2>1. PICK ss \in SUBSET Sends : Ends(ss)
    BY <1>3, EndsIs
  <2>2. /\ \A q \in Sends : run'[q] = run[q] \/ run'[q] = Idle
        /\ past'.torn = past.torn /\ past'.missed = past.missed /\ past'.blank = past.blank
    BY <2>1, AbandonIs DEF Ends
  <2>3. \A q \in Sends : Steady(q)
    BY <2>2 DEF Steady, Giving, Idle
  <2>. QED BY <2>1, <2>2, <2>3 DEF SameShares, Ends
<1>4. ASSUME NEW s \in Sends, BeginSend(s) \/ FetchRoster(s) \/ LookUp(s)
      PROVE  SameShares /\ \A q \in Sends : Steady(q)
  <2>1. UNCHANGED <<senderKey, made, reader, past>>
    BY <1>4 DEF BeginSend, FetchRoster, LookUp, phone, history
  <2>2. /\ \A q \in Sends \ {s} : run'[q] = run[q]
        /\ run'[s].pc \in {"roster", "directory", "key", "idle"}
    BY <1>4, BeginIs, FetchIs, LookUpIs, IdleIs
  <2>3. \A q \in Sends : Steady(q)
    BY <2>2 DEF Steady, Giving
  <2>. QED BY <2>1, <2>3 DEF SameShares
<1>5. ASSUME NEW s \in Sends, StoreRatchet(s) \/ \E d \in Devices : LoadRatchet(s, d)
      PROVE  SameShares /\ \A q \in Sends : Steady(q)
  <2>1. /\ \A q \in Sends \ {s} : run'[q] = run[q]
        /\ run'[s].pc \in {"load", "store", "post"} /\ run[s].pc \in {"load", "store"}
        /\ run'[s].to = run[s].to /\ run'[s].key = run[s].key /\ run'[s].targets = run[s].targets
    <3>1. CASE StoreRatchet(s)
      <4>1. PICK e \in EnvelopeRec : StoresFor(s, e)
        BY <3>1, StoreIs
      <4>. QED BY <3>1, <4>1 DEF StoresFor, StoreRatchet, At
    <3>2. CASE \E d \in Devices : LoadRatchet(s, d)
      BY <3>2, LoadRatchetIs DEF LoadRatchet, At
    <3>. QED BY <1>5, <3>1, <3>2
  <2>2. made'.keys = made.keys
    BY <1>5 DEF StoreRatchet, LoadRatchet, KeyTypeOK
  <2>3. UNCHANGED <<senderKey, reader, past>>
    BY <1>5 DEF StoreRatchet, LoadRatchet, phone, history
  <2>4. \A q \in Sends : Steady(q)
    BY <2>1 DEF Steady, Giving
  <2>. QED BY <2>2, <2>3, <2>4 DEF SameShares
<1>. QED BY <1>1, <1>2, <1>3, <1>4, <1>5

LEMMA LoadKeyShares ==
  ASSUME KeyTypeOK, KeyTypeOK', ReadersInv, SharesInv, FaultsLast, NEW s \in Sends, LoadKey(s),
         ~Races(s)
  PROVE  SharesInv'
<1>1. /\ UNCHANGED <<senderKey, reader>> /\ SamePast /\ run[s].pc = "key"
      /\ made' = [made EXCEPT !.keys = IF KeyStands(s) THEN @ ELSE KeyFor(s).gen]
  BY LoadKeyPast DEF LoadKey, At, phone, KeyFor
<1>2. /\ \A q \in Sends \ {s} : run'[q] = run[q]
      /\ run'[s].pc = (IF LeftFor(s) = {} THEN "save" ELSE "load")
      /\ run'[s].key = KeyFor(s) /\ run'[s].targets = LeftFor(s) /\ run'[s].to = run[s].to
      /\ KeyFor(s) \in KeyRec
  BY LoadKeyIs
<1>3. /\ Holding = {} /\ Holding' = {s} /\ Texting' = Texting
      /\ ~KeyStands(s) => Texting = {}
  BY <1>1, <1>2 DEF Races, Holding, Texting
<1>4. /\ made.keys \in Nat /\ made'.keys \in Nat /\ senderKey \in KeyRec
      /\ made'.keys = IF KeyStands(s) THEN made.keys ELSE made.keys + 1
  BY <1>1 DEF KeyTypeOK, KeyFor, NewKey
<1>5. ASSUME NEW d \in Devices, NEW g \in Nat, Lacks(d, g) PROVE Lacks(d, g)'
  BY <1>1, <1>4, <1>5, LacksLast DEF SamePast, Torn
<1>6. RowShared'
  <2>1. \A d \in senderKey.shared : d \in Devices /\ Shares(senderKey, d)
    BY <1>4 DEF SharesInv, RowShared, KeyRec
  <2>. QED BY <1>1, <1>4, <1>5, <2>1 DEF RowShared, Shares, KeyRec
<1>7. OwnPlace'
  BY <1>1, <1>2, <1>3 DEF SharesInv, OwnPlace, Texting
<1>8. Sharing(s)'
  <2>1. \A d \in KeyFor(s).shared : d \in senderKey.shared /\ KeyFor(s) = senderKey
    BY DEF KeyFor, NewKey
  <2>2. \A d \in run'[s].key.shared : Shares(run[s].key, d)'
    BY <1>1, <1>2, <1>6, <2>1 DEF RowShared, Shares
  <2>. QED BY <1>2, <2>2 DEF Sharing, LeftFor, Giving
<1>9. ASSUME NEW q \in Texting PROVE Opening(q)'
  <2>1. Opening(q) /\ q # s /\ run'[q] = run[q] /\ q \in Sends
    BY <1>1, <1>2 DEF SharesInv, Texting
  <2>2. run[q].key.gen \in Nat /\ run[q].key.shared \subseteq Devices
    BY <2>1 DEF KeyTypeOK, SendRec, KeyRec
  <2>. QED BY <1>1, <1>5, <2>1, <2>2 DEF Opening, Opens
<1>10. ASSUME NEW d \in Devices, NEW g, Outdated(d, g) PROVE Outdated(d, g)'
  <2>1. PICK h \in 1..made.keys : h > g /\ Torn(d, h) /\ h # senderKey.gen
    BY <1>10 DEF Outdated
  <2>2. KeyFor(s).gen # h
    BY <1>4, <2>1 DEF KeyFor, NewKey
  <2>3. h \in 1..made'.keys /\ Torn(d, h)'
    BY <1>1, <1>4, <2>1 DEF Torn, SamePast
  <2>. QED BY <1>1, <1>2, <1>3, <2>1, <2>2, <2>3 DEF Outdated
<1>11. BlankInv'
  BY <1>1, <1>10 DEF SharesInv, BlankInv, Explained, FaultsLast, SamePast
<1>. QED BY <1>3, <1>6, <1>7, <1>8, <1>9, <1>11 DEF SharesInv

LEMMA PostKeysShares ==
  ASSUME KeyTypeOK, KeyTypeOK', ReadersInv, RatchetsInv, SharesInv, FaultsLast,
         NEW s \in Sends, NEW got, NEW answered \in BOOLEAN, Gives(s, got, answered),
         run[s].pc = "post", UNCHANGED <<senderKey, made>>
  PROVE  SharesInv'
<1>1. /\ got \subseteq run[s].targets /\ got \subseteq Devices
      /\ \A d \in Devices \ got : reader'[d] = reader[d]
      /\ \A q \in Sends \ {s} : run'[q] = run[q]
      /\ past'.blank = past.blank /\ past.missed \subseteq past'.missed
      /\ \A d \in Devices : \A g : Torn(d, g)' <=> Torn(d, g) \/ (d \in got /\ g = run[s].key.gen)
  BY DEF Gives, Torn
<1>2. /\ ~answered => run'[s].pc = "idle"
      /\ answered => /\ run'[s].pc = "save" /\ run'[s].to = run[s].to
                     /\ run'[s].key.gen = run[s].key.gen /\ run'[s].key.next = run[s].key.next
                     /\ run'[s].key.shared = run[s].key.shared \cup run[s].targets
                     /\ \A d \in run[s].targets \ got : <<d, run[s].key.gen>> \in past'.missed
  BY IdleIs DEF Gives
<1>3. /\ Holding = {s} /\ Holding' \subseteq {s} /\ (s \in Holding' => answered)
      /\ Texting' = Texting /\ s \notin Texting
  <2>1. s \in Holding
    BY DEF Holding
  <2>. QED BY <1>1, <1>2, <2>1 DEF ReadersInv, OneHolds, Holding, Texting
<1>4. KeyHeld(s) /\ Sharing(s) /\ Giving(s)
  BY <1>3 DEF ReadersInv, SharesInv, Giving
<1>5. /\ run[s].key \in KeyRec /\ run[s].key.shared \subseteq Devices /\ run[s].key.gen \in Nat
      /\ run[s].targets \subseteq Devices
      /\ senderKey.gen \in Nat /\ senderKey.shared \subseteq Devices /\ made.keys \in Nat
  BY DEF KeyTypeOK, SendRec, KeyRec
<1>6. ASSUME NEW d \in Devices, NEW g \in Nat, Lacks(d, g) PROVE Lacks(d, g)'
  BY <1>1, <1>5, <1>6, LacksLast
<1>7. ASSUME NEW d \in got
      PROVE  Faulty(d)' \/ (reader'[d].gen = run[s].key.gen /\ reader'[d].next = run[s].key.next)
  <2>1. PICK e \in run[s].batch : Takes(s, d, e) \/ Declines(d)
    BY <1>7, Delivered
  <2>. QED BY <1>1, <2>1 DEF Takes, Declines, FaultsLast
<1>8. ASSUME NEW d \in senderKey.shared PROVE Shares(senderKey, d)'
  <2>1. d \in Devices /\ Shares(senderKey, d)
    BY <1>5 DEF SharesInv, RowShared
  <2>2. CASE d \notin got
    BY <1>1, <1>5, <1>6, <2>1, <2>2 DEF Shares
  <2>3. CASE d \in got
    <3>1. FreshKey(s)
      BY <1>1, <1>4, <2>3 DEF KeyHeld, OldKey
    <3>2. Torn(d, made.keys)' /\ made.keys > senderKey.gen
      BY <1>1, <2>1, <2>3, <3>1 DEF FreshKey
    <3>3. made.keys \in 1..made.keys
      BY <1>5, <3>2
    <3>4. Renewed(d, senderKey.gen)'
      BY <3>2, <3>3 DEF Renewed
    <3>. QED BY <3>4 DEF Shares, Lacks
  <2>. QED BY <2>2, <2>3
<1>9. RowShared'
  BY <1>8 DEF RowShared
<1>10. OwnPlace'
  BY <1>1, <1>3 DEF SharesInv, OwnPlace, Texting
<1>11. ASSUME s \in Holding' PROVE Sharing(s)'
  <2>1. ASSUME NEW d \in run'[s].key.shared PROVE Shares(run[s].key, d)'
    <3>1. CASE d \in got
      <4>1. reader'[d].next = run[s].key.next => reader'[d].next <= run[s].key.next
        BY <1>5 DEF KeyRec
      <4>. QED BY <1>2, <1>3, <1>7, <1>11, <3>1, <4>1 DEF Shares, Lacks
    <3>2. CASE d \in run[s].targets \ got
      BY <1>2, <1>3, <1>11, <3>2 DEF Shares, Lacks
    <3>3. CASE d \in run[s].key.shared \ got
      <4>1. d \in Devices /\ Shares(run[s].key, d) /\ reader'[d] = reader[d]
        BY <1>1, <1>4, <1>5, <3>3 DEF Sharing
      <4>. QED BY <1>2, <1>3, <1>5, <1>6, <1>11, <4>1 DEF Shares
    <3>. QED BY <1>2, <1>3, <1>11, <2>1, <3>1, <3>2, <3>3
  <2>2. run'[s].pc = "save" /\ run'[s].to \subseteq run'[s].key.shared
    BY <1>2, <1>3, <1>4, <1>11 DEF Sharing
  <2>. QED BY <2>1, <2>2 DEF Sharing, Giving
<1>12. ASSUME NEW q \in Texting PROVE Opening(q)'
  <2>1. Opening(q) /\ q \in Sends /\ q # s /\ run'[q] = run[q] /\ OldKey(s)
    BY <1>1, <1>3, <1>4 DEF SharesInv, Texting, KeyHeld, FreshKey
  <2>2. run[q].key.gen \in Nat
    BY <2>1 DEF KeyTypeOK, SendRec, KeyRec
  <2>3. \A d \in run[q].key.shared : d \in Devices \ got
    BY <1>1, <1>5, <2>1 DEF Opening, OldKey
  <2>. QED BY <1>1, <1>6, <2>1, <2>2, <2>3 DEF Opening, Opens
<1>13. ASSUME NEW d \in Devices, NEW g, Outdated(d, g) PROVE Outdated(d, g)'
  BY <1>1, <1>2, <1>3, <1>13 DEF Outdated
<1>14. BlankInv'
  BY <1>1, <1>13 DEF SharesInv, BlankInv, Explained, FaultsLast
<1>. QED BY <1>3, <1>9, <1>10, <1>11, <1>12, <1>14 DEF SharesInv

LEMMA SaveKeyShares ==
  ASSUME KeyTypeOK, KeyTypeOK', ReadersInv, SharesInv, FaultsLast, NEW s \in Sends, SaveKey(s)
  PROVE  SharesInv'
<1>1. /\ run[s].pc = "save" /\ UNCHANGED <<reader, made>>
      /\ \A q \in Sends \ {s} : run'[q] = run[q]
      /\ run'[s].pc = "text" /\ run'[s].to = run[s].to /\ run'[s].key = run[s].key
      /\ senderKey'.gen = run[s].key.gen /\ senderKey'.next = run[s].key.next + 1
      /\ senderKey'.shared = run[s].key.shared
  <2>1. run[s].pc = "save" /\ UNCHANGED <<reader, made>>
    BY DEF SaveKey, At
  <2>. QED BY <2>1, SaveKeyIs
<1>2. /\ past'.missed = past.missed /\ past'.blank = past.blank
      /\ past'.torn = past.torn \ (run[s].key.shared \X {run[s].key.gen})
  BY SaveKeyIs
<1>3. \A d \in Devices : \A g : Torn(d, g) /\ g # run[s].key.gen => Torn(d, g)'
  BY <1>2 DEF Torn
<1>4. /\ Holding = {s} /\ Holding' = {} /\ Texting' = Texting \cup {s} /\ s \notin Texting
  <2>1. s \in Holding
    BY <1>1 DEF Holding
  <2>. QED BY <1>1, <2>1 DEF ReadersInv, OneHolds, Holding, Texting
<1>5. KeyHeld(s) /\ Sharing(s)
  BY <1>4 DEF ReadersInv, SharesInv
<1>6. /\ run[s].key.shared \subseteq Devices /\ run[s].key.gen \in Nat /\ run[s].key.next \in Nat
      /\ made.keys \in Nat /\ \A d \in Devices : reader[d].next \in Nat
  BY DEF KeyTypeOK, SendRec, KeyRec, ReaderRec
<1>7. ASSUME NEW d \in Devices, Lacks(d, run[s].key.gen) PROVE Lacks(d, run[s].key.gen)'
  BY <1>1, <1>2, <1>3, <1>6, <1>7, LacksLast
<1>8. ASSUME NEW d \in run[s].key.shared
      PROVE  \/ Lacks(d, run[s].key.gen)'
             \/ reader'[d].gen = run[s].key.gen /\ reader'[d].next <= run[s].key.next
  <2>1. d \in Devices /\ Shares(run[s].key, d)
    BY <1>5, <1>6 DEF Sharing
  <2>. QED BY <1>1, <1>7, <2>1 DEF Shares
<1>9. RowShared'
  BY <1>1, <1>6, <1>8 DEF RowShared, Shares
<1>10. \A q \in Texting : /\ OldKey(s) /\ Waiting(q) /\ Opening(q)
                          /\ run[q].key.gen = run[s].key.gen /\ run[q].key.next < run[s].key.next
  BY <1>5 DEF ReadersInv, SharesInv, KeyHeld, FreshKey, OldKey, Waiting
<1>11. OwnPlace'
  <2>1. \A q \in Texting : q \in Sends \ {s} /\ run'[q] = run[q] /\ run[q].key.next # run[s].key.next
    <3>1. \A q \in Texting : run[q].key.next \in Nat /\ q \in Sends
      BY DEF Texting, KeyTypeOK, SendRec, KeyRec
    <3>. QED BY <1>1, <1>4, <1>6, <1>10, <3>1
  <2>. QED BY <1>1, <1>4, <2>1 DEF SharesInv, OwnPlace
<1>12. Opening(s)'
  BY <1>1, <1>5, <1>8 DEF Opening, Opens, Sharing
<1>13. ASSUME NEW q \in Texting PROVE Opening(q)'
  <2>1. q \in Sends \ {s} /\ run'[q] = run[q]
    BY <1>1, <1>4 DEF Texting
  <2>2. run[q].key.shared \subseteq Devices
    BY <2>1 DEF KeyTypeOK, SendRec, KeyRec
  <2>. QED BY <1>1, <1>7, <1>10, <2>1, <2>2 DEF Opening, Opens, OldKey
<1>14. ASSUME NEW d \in Devices, NEW g, Outdated(d, g) PROVE Outdated(d, g)'
  BY <1>1, <1>3, <1>4, <1>14 DEF Outdated
<1>15. BlankInv'
  BY <1>2, <1>14 DEF SharesInv, BlankInv, Explained, FaultsLast
<1>. QED BY <1>4, <1>9, <1>11, <1>12, <1>13, <1>15 DEF SharesInv

LEMMA PostTextShares ==
  ASSUME KeyTypeOK, KeyTypeOK', ReadersInv, SharesInv, FaultsLast, NEW s \in Sends, NEW got,
         Tells(s, got), run[s].pc = "text", UNCHANGED <<senderKey, made>>
  PROVE  SharesInv'
<1>1. PICK t \in TextRec :
        t = TextOf(s) /\ t.gen = run[s].key.gen /\ t.n = run[s].key.next /\ t.to = run[s].to
  BY TextOfIs
<1>2. /\ got \subseteq Devices /\ \A d \in Devices \ got : reader'[d] = reader[d]
      /\ \A d \in got : reader'[d] = TakeText(reader[d], t)
      /\ past'.missed = past.missed /\ past'.torn = past.torn
      /\ past'.blank = past.blank \cup ({d \in got : ~OpensText(reader[d], t)} \X {t})
      /\ \A q \in Sends \ {s} : run'[q] = run[q]
      /\ run'[s].pc = "idle"
  BY <1>1, IdleIs DEF Tells
<1>3. /\ Holding' = Holding /\ Texting' = Texting \ {s} /\ s \in Texting /\ s \notin Holding
      /\ \A q \in Holding : q \in Sends /\ run'[q] = run[q]
      /\ \A q \in Texting \ {s} : q \in Sends /\ run'[q] = run[q]
  BY <1>2 DEF Holding, Texting
<1>4. /\ t.gen \in Nat /\ t.n \in Nat /\ made.keys \in Nat /\ senderKey \in KeyRec
      /\ senderKey.gen \in Nat /\ senderKey.next \in Nat /\ senderKey.shared \subseteq Devices
  BY DEF TextRec, KeyTypeOK, KeyRec
<1>5. t.gen = senderKey.gen /\ t.n < senderKey.next /\ Opening(s)
  BY <1>1, <1>3 DEF ReadersInv, Waiting, SharesInv
<1>6. ASSUME NEW d \in Devices, NEW g \in Nat, Lacks(d, g) PROVE Lacks(d, g)'
  BY <1>2, <1>4, <1>6, LacksLast DEF Torn
<1>7. ASSUME NEW d \in Devices
      PROVE  /\ reader'[d].gen = reader[d].gen /\ reader[d].next \in Nat /\ reader'[d].next \in Nat
             /\ \/ reader'[d] = reader[d]
                \/ /\ reader[d].gen = t.gen
                   /\ reader'[d].next = IF t.n >= reader[d].next THEN t.n + 1 ELSE reader[d].next
                   /\ reader'[d].skipped = (reader[d].skipped \cup reader[d].next .. t.n) \ {t.n}
  <2>1. reader[d] \in ReaderRec /\ reader'[d] \in ReaderRec
    BY DEF KeyTypeOK
  <2>2. reader'[d] = reader[d] \/ reader'[d] = TakeText(reader[d], t)
    BY <1>2
  <2>3. OpensText(reader[d], t) => reader[d].gen = t.gen
    BY DEF OpensText
  <2>. QED BY <2>1, <2>2, <2>3, TakeTextIs DEF ReaderRec
<1>8. ASSUME NEW d \in Devices, NEW key \in KeyRec, Shares(key, d),
             key.gen = t.gen => t.n < key.next
      PROVE  Shares(key, d)'
  <2>1. key.gen \in Nat /\ key.next \in Nat
    BY DEF KeyRec
  <2>2. CASE Lacks(d, key.gen)
    BY <1>6, <2>1, <2>2 DEF Shares
  <2>3. CASE reader[d].gen = key.gen /\ reader[d].next <= key.next
    BY <1>4, <1>7, <1>8, <2>1, <2>3 DEF Shares
  <2>. QED BY <1>8, <2>2, <2>3 DEF Shares
<1>9. RowShared'
  <2>1. \A d \in senderKey.shared : Shares(senderKey, d)'
    BY <1>4, <1>5, <1>8 DEF SharesInv, RowShared
  <2>. QED BY <2>1 DEF RowShared, Shares
<1>10. OwnPlace'
  BY <1>2, <1>3 DEF SharesInv, OwnPlace
<1>11. ASSUME NEW q \in Holding PROVE Sharing(q)'
  <2>1. /\ Sharing(q) /\ run'[q] = run[q] /\ OldKey(q) /\ run[q].key \in KeyRec
        /\ run[q].key.shared \subseteq Devices
    BY <1>3 DEF ReadersInv, SharesInv, KeyHeld, FreshKey, KeyTypeOK, SendRec, KeyRec
  <2>2. \A d \in run[q].key.shared : Shares(run[q].key, d)'
    BY <1>5, <1>8, <2>1 DEF Sharing, OldKey
  <2>. QED BY <2>1, <2>2 DEF Sharing, Giving, Shares
<1>12. ASSUME NEW q \in Texting \ {s} PROVE Opening(q)'
  <2>1. /\ Opening(q) /\ Waiting(q) /\ run'[q] = run[q] /\ run[q].key.next # t.n
        /\ run[q].key.gen \in Nat /\ run[q].key.next \in Nat
    BY <1>1, <1>3 DEF ReadersInv, SharesInv, OwnPlace, KeyTypeOK, SendRec, KeyRec
  <2>2. ASSUME NEW d \in run[q].key.shared
        PROVE  Lacks(d, run[q].key.gen)' \/ Opens(d, run[q].key.gen, run[q].key.next)'
    <3>1. d \in Devices /\ (Lacks(d, run[q].key.gen) \/ Opens(d, run[q].key.gen, run[q].key.next))
      BY <1>4, <2>1 DEF Opening
    <3>2. CASE Opens(d, run[q].key.gen, run[q].key.next)
      BY <1>4, <1>7, <2>1, <3>1, <3>2 DEF Opens
    <3>. QED BY <1>6, <2>1, <3>1, <3>2
  <2>. QED BY <2>1, <2>2 DEF Opening, Opens
<1>13. ASSUME NEW d \in Devices, NEW g, Outdated(d, g) PROVE Outdated(d, g)'
  BY <1>2, <1>3, <1>13 DEF Outdated, Torn
<1>14. ASSUME NEW d \in got, ~OpensText(reader[d], t), d \in t.to PROVE Explained(d, t)'
  <2>1. d \in run[s].key.shared /\ d \in Devices
    BY <1>1, <1>2, <1>5, <1>14 DEF Opening
  <2>2. ~Opens(d, t.gen, t.n)
    BY <1>14 DEF Opens, OpensText
  <2>3. Lacks(d, t.gen)
    BY <1>1, <1>5, <2>1, <2>2 DEF Opening
  <2>4. CASE Renewed(d, t.gen)
    <3>1. \A r \in Holding : run[r].key.gen = senderKey.gen
      BY <1>3 DEF ReadersInv, KeyHeld, OldKey, FreshKey
    <3>2. Outdated(d, t.gen)
      BY <1>4, <1>5, <2>4, <3>1 DEF Renewed, Outdated
    <3>. QED BY <1>13, <2>1, <3>2 DEF Explained
  <2>. QED BY <1>2, <2>1, <2>3, <2>4 DEF Lacks, Explained, FaultsLast
<1>15. BlankInv'
  <2>1. ASSUME NEW d \in Devices, NEW u \in TextRec, <<d, u>> \in past.blank, d \in u.to
        PROVE  Explained(d, u)'
    BY <1>2, <1>13, <2>1 DEF SharesInv, BlankInv, Explained, FaultsLast
  <2>. QED BY <1>2, <1>14, <2>1 DEF BlankInv
<1>. QED BY <1>3, <1>9, <1>10, <1>11, <1>12, <1>15 DEF SharesInv

LEMMA SharesKept ==
  ASSUME KeyTypeOK, KeyTypeOK', ReadersInv, RatchetsInv, SharesInv, FaultsLast,
         [KeyNext]_keyVars, ~past'.raced
  PROVE  SharesInv'
<1>1. CASE \/ BumpEpoch \/ Refresh \/ Kill \/ UNCHANGED keyVars
           \/ \E a \in Accounts : Join(a) \/ MarkRemoved(a)
           \/ \E d \in Devices : LinkDevice(d) \/ Hail(d) \/ Hear(d)
           \/ \E s \in Sends :
                \/ BeginSend(s) \/ FetchRoster(s) \/ LookUp(s) \/ StoreRatchet(s)
                \/ Refused(s) \/ RequestFails(s)
                \/ \E d \in Devices : LoadRatchet(s, d)
  BY <1>1, SteadySteps, SteadyKeeps
<1>2. ASSUME NEW s \in Sends, LoadKey(s) PROVE SharesInv'
  BY <1>2, LoadKeyPast, LoadKeyShares
<1>3. ASSUME NEW s \in Sends, SaveKey(s) PROVE SharesInv'
  BY <1>3, SaveKeyShares
<1>4. ASSUME NEW s \in Sends, NEW full \in SUBSET Devices, PostText(s, full) PROVE SharesInv'
  <2>1. run[s].pc = "text" /\ UNCHANGED <<senderKey, made>>
    BY <1>4 DEF PostText, At, phone
  <2>. QED BY <1>4, <2>1, PostTextIs, PostTextShares
<1>5. ASSUME NEW s \in Sends, NEW full \in SUBSET Devices, NEW answered \in BOOLEAN,
             PostKeys(s, full, answered)
      PROVE  SharesInv'
  <2>1. run[s].pc = "post" /\ UNCHANGED <<senderKey, made>>
    BY <1>5 DEF PostKeys, At, phone
  <2>. QED BY <1>5, <2>1, PostKeysIs, PostKeysShares
<1>. QED BY <1>1, <1>2, <1>3, <1>4, <1>5 DEF KeyNext

OpenInv == ReadersInv /\ RatchetsInv /\ SharesInv

LEMMA RacedLasts ==
  ASSUME KeyTypeOK, [KeyNext]_keyVars, past.raced
  PROVE  past'.raced
<1>1. CASE \/ Refresh \/ \E d \in Devices : LinkDevice(d) \/ Hail(d)
           \/ BumpEpoch \/ UNCHANGED keyVars
           \/ \E a \in Accounts : Join(a) \/ MarkRemoved(a)
           \/ \E s \in Sends :
                \/ BeginSend(s) \/ FetchRoster(s) \/ LookUp(s) \/ StoreRatchet(s)
                \/ \E d \in Devices : LoadRatchet(s, d)
  <2>1. UNCHANGED past
    BY <1>1 DEF Refresh, LinkDevice, Hail, BumpEpoch, keyVars, Join, MarkRemoved, BeginSend,
                FetchRoster, LookUp, StoreRatchet, LoadRatchet, history
  <2>. QED BY <2>1
<1>2. CASE Kill \/ \E s \in Sends : Refused(s) \/ RequestFails(s)
  <2>1. PICK ss \in SUBSET Sends : Ends(ss)
    BY <1>2, EndsIs
  <2>. QED BY <2>1, AbandonIs DEF Ends
<1>3. CASE \E d \in Devices : Hear(d)
  BY <1>3, HearPast
<1>4. CASE \E s \in Sends : LoadKey(s) \/ SaveKey(s)
  BY <1>4, LoadKeyPast, SaveKeyIs
<1>5. CASE \E s \in Sends : \E full \in SUBSET Devices :
             PostText(s, full) \/ \E answered \in BOOLEAN : PostKeys(s, full, answered)
  BY <1>5, PostTextIs, PostKeysIs DEF Tells, Gives
<1>. QED BY <1>1, <1>2, <1>3, <1>4, <1>5 DEF KeyNext

LEMMA OpenKept ==
  ASSUME SenderKeysAssumption, MemberInv, past.raced \/ OpenInv, [KeyNext]_keyVars
  PROVE  past'.raced \/ OpenInv'
<1>1. CASE past.raced
  BY <1>1, RacedLasts DEF MemberInv
<1>2. CASE OpenInv /\ ~past'.raced
  <2>1. KeyTypeOK /\ KeyTypeOK' /\ ReadersInv /\ RatchetsInv /\ SharesInv /\ OneHolds
    BY <1>2, KeyStepTypes DEF MemberInv, OpenInv, ReadersInv
  <2>2. ReadersInv'
    BY <1>2, <2>1, ReadersKept
  <2>3. RatchetsInv' /\ FaultsLast
    BY <1>2, <2>1, RatchetsKept
  <2>4. SharesInv'
    BY <1>2, <2>1, <2>3, SharesKept
  <2>. QED BY <2>2, <2>3, <2>4 DEF OpenInv
<1>. QED BY <1>1, <1>2

LEMMA OpenFollows == KeyTypeOK /\ (past.raced \/ OpenInv) => TextsOpen
<1>. SUFFICES ASSUME KeyTypeOK, OpenInv, NEW b \in past.blank, b[1] \in b[2].to
     PROVE  \/ <<b[1], b[2].gen>> \in past.missed
            \/ \E g \in 1..made.keys : g > b[2].gen /\ <<b[1], g>> \in past.torn
            \/ b[1] \in past.cut
            \/ reader[b[1]].id = Theirs /\ ratchet[b[1]].id # Theirs
  BY DEF TextsOpen
<1>1. PICK d \in Devices, t \in TextRec : b = <<d, t>>
  BY DEF KeyTypeOK, PastRec
<1>2. Explained(d, t)
  BY <1>1 DEF OpenInv, SharesInv, BlankInv
<1>3. Outdated(d, t.gen) => \E g \in 1..made.keys : g > t.gen /\ <<d, g>> \in past.torn
  BY DEF Outdated, Torn
<1>. QED BY <1>1, <1>2, <1>3 DEF Explained, Faulty

-----------------------------------------------------------------------------
(* Theorems.                                                                *)

\* The phone, the relay and the devices are type correct.
THEOREM TypeCorrect == KeySpec => []KeyTypeOK
<1>1. SenderKeysAssumption
  BY SenderKeysAssumption
<1>2. KeyInit => KeyTypeOK
  BY <1>1, KeyStart
<1>3. KeyTypeOK /\ [KeyNext]_keyVars => KeyTypeOK'
  BY <1>1, KeyStepTypes
<1>. QED BY <1>2, <1>3, PTL DEF KeySpec

\* A text of the group is read only by devices that were in it when the relay took the
\* text, but for those that were torn, texts beside a removal, and sends in each other's
\* way.
THEOREM ReadByMembers == KeySpec => []OnlyMembersRead
<1>. DEFINE Inv == MemberInv /\ (past.raced \/ ReadersInv)
<1>1. SenderKeysAssumption
  BY SenderKeysAssumption
<1>2. KeyInit => Inv
  BY <1>1, MemberStart, ReadersStart
<1>3. Inv /\ [KeyNext]_keyVars => Inv'
  BY <1>1, MembersKept, ReadersKept
<1>4. Inv => OnlyMembersRead
  BY ReadersFollow
<1>. HIDE DEF Inv
<1>. QED BY <1>2, <1>3, <1>4, PTL DEF KeySpec

\* A device that gets a text can open it, but for the keys that it missed or that a newer
\* one replaced, the ratchets that were cut or started from both sides, and sends in each
\* other's way.
THEOREM OpenedByReaders == KeySpec => []TextsOpen
<1>. DEFINE Inv == MemberInv /\ (past.raced \/ OpenInv)
<1>1. SenderKeysAssumption
  BY SenderKeysAssumption
<1>2. KeyInit => Inv
  BY <1>1, MemberStart, ReadersStart, RatchetsStart, SharesStart DEF OpenInv
<1>3. Inv /\ [KeyNext]_keyVars => Inv'
  BY <1>1, MembersKept, OpenKept
<1>4. Inv => TextsOpen
  BY OpenFollows DEF MemberInv
<1>. HIDE DEF Inv
<1>. QED BY <1>2, <1>3, <1>4, PTL DEF KeySpec
=============================================================================
