---------------------------- MODULE MessageRelay ----------------------------
(***************************************************************************)
(* Fan-out of encrypted messages into the mailboxes of the devices of one  *)
(* group: POST /v1/messages/batch and /v1/messages/group                   *)
(* (apps/relay/src/handlers/messages.ts), while the membership of the      *)
(* group changes under them.  A send, like every handler, is a run of      *)
(* awaited statements: it reads epoch, membership and members once and     *)
(* then delivers to one recipient after the other, looking the message up  *)
(* in mailbox_dedup, putting it into the mailbox object of the device and  *)
(* recording it in mailbox_dedup, each a step others can come between.     *)
(*                                                                         *)
(* A mailbox is what MailboxContract says of it; DeviceMailbox refines the *)
(* same contract.                                                          *)
(***************************************************************************)
EXTENDS GroupMembership, SequencesExt

CONSTANTS Devices, OwnerOf,   \* the registered devices and their accounts
          Blocks,             \* pairs <<blocking account, blocked account>>
          Sends,              \* send requests; each is used once
          Bodies,             \* what clients send: [kind, from, msg, to]
          MaxBacklog,         \* MAX_MAILBOX_BACKLOG
          Lifetime,           \* an envelope and its dedup row live this long
          Horizon,            \* bound of the model: the clock stops here
          MaxFailures         \* bound of the model: sends cut short, wakes not queued

MaxItems == Cardinality(Devices)

ASSUME RelayAssumption ==
  /\ OwnerOf \in [Devices -> Accounts] /\ IsFiniteSet(Devices)
  /\ \A b \in Bodies :
       /\ b.kind \in {"batch", "group"} /\ b.from \in Devices
       /\ b.to \in Seq(Devices) /\ Len(b.to) <= MaxItems
  /\ MaxBacklog \in Nat \ {0} /\ Lifetime \in Nat \ {0, 1, 2}
  /\ Horizon \in Nat /\ MaxFailures \in Nat

VARIABLES known,     \* device |-> the epoch and the roster its client fetched last
          send,      \* the send requests
          mailbox,   \* device |-> (queued envelope |-> its expiry)
          dedup,     \* mailbox_dedup: <<from, recipient, msg>> |-> [id, expires]
          woken,     \* envelopes a push wake was queued for
          now,
          failures,  \* sends cut short and wakes not queued
          out        \* accounts whose removal was answered, not back since (history)

relayVars == <<known, send, mailbox, dedup, woken, now, failures, out>>
vars == <<groupVars, relayVars>>

NoBody == [kind |-> "none", from |-> "none", msg |-> "none", to |-> <<>>]
NotSent == [pc |-> "idle", body |-> NoBody, epoch |-> 0, seen |-> 0, may |-> {},
            items |-> <<>>, i |-> 1, expires |-> 0, got |-> {}, put |-> {}, since |-> 0,
            roster |-> {}, out |-> {}]

Ended == {"idle", "refused", "stale", "failed", "lost", "done"}
InFlight == {s \in Sends : send[s].pc \notin Ended}

\* The envelope a send mints for its i-th item, and the row it goes by.
Envelope(s, i) == <<s, i>>
To(s) == send[s].items[send[s].i]
Key(s, d) == <<send[s].body.from, d, send[s].body.msg>>

\* A table or a mailbox f with v under k.
With(f, k, v) == [x \in DOMAIN f \cup {k} |-> IF x = k THEN v ELSE f[x]]

RelayInit ==
  /\ known = [d \in Devices |-> [epoch |-> 1, roster |-> DOMAIN members]]
  /\ send = [s \in Sends |-> NotSent]
  /\ mailbox = [d \in Devices |-> [e \in {} |-> 0]]
  /\ dedup = [k \in {} |-> [id |-> <<>>, expires |-> 0]]
  /\ woken = {}
  /\ now = 0 /\ failures = 0 /\ out = {}

-----------------------------------------------------------------------------
(* The client: the epoch comes from the list of groups, the roster is       *)
(* fetched later, right before it encrypts.                                 *)

LoadGroups(d) ==
  /\ Member(OwnerOf[d])
  /\ known' = [known EXCEPT ![d] = [epoch |-> epoch, roster |-> DOMAIN members]]
  /\ UNCHANGED <<groupVars, send, mailbox, dedup, woken, now, failures, out>>

LoadRoster(d) ==
  /\ Member(OwnerOf[d])
  /\ known' = [known EXCEPT ![d].roster = DOMAIN members]
  /\ UNCHANGED <<groupVars, send, mailbox, dedup, woken, now, failures, out>>

-----------------------------------------------------------------------------
(* A send.                                                                  *)

Goto(s, from, next) ==
  /\ send[s].pc = from
  /\ send' = [send EXCEPT ![s] = next]

\* The first statement reads the epoch of the conversation.
BeginSend(s, body) ==
  /\ Goto(s, "idle", [NotSent EXCEPT !.pc = "member", !.body = body,
                        !.epoch = known[body.from].epoch, !.seen = epoch,
                        !.since = now, !.roster = known[body.from].roster, !.out = out])
  /\ UNCHANGED <<groupVars, known, mailbox, dedup, woken, now, failures, out>>

EpochNotAhead(s) == send[s].epoch <= send[s].seen     \* faulty
EpochCurrent(s) == send[s].epoch = send[s].seen

AfterMember(s) ==
  IF ~Member(OwnerOf[send[s].body.from]) THEN "refused"
  ELSE IF EpochCurrent(s) THEN "members" ELSE "stale"

CheckMember(s) ==
  /\ Goto(s, "member", [send[s] EXCEPT !.pc = AfterMember(s)])
  /\ UNCHANGED <<groupVars, known, mailbox, dedup, woken, now, failures, out>>

\* The devices are read before the members; they do not change.
Recipients == {d \in Devices : Member(OwnerOf[d])}

\* /batch goes through the list it was sent, /group through the devices of the
\* members but the sender's own, in the order of the table.
ReadMembers(s) ==
  LET b == send[s].body
      list == IF b.kind = "batch" THEN b.to ELSE SetToSeq(Recipients \ {b.from})
  IN  /\ Goto(s, "members", [send[s] EXCEPT !.pc = "lookup", !.may = Recipients,
                                            !.items = list])
      /\ UNCHANGED <<groupVars, known, mailbox, dedup, woken, now, failures, out>>

Onward(rec) == [rec EXCEPT !.pc = "lookup", !.i = @ + 1]

Blocked(s, d) == <<OwnerOf[d], OwnerOf[send[s].body.from]>> \in Blocks
LiveRow(k) == k \in DOMAIN dedup /\ dedup[k].expires > now
Answered(d, row) == [to |-> d, id |-> row.id, expires |-> row.expires]

\* A recipient that is no member's device or blocks the sender is passed over; a
\* live row answers for a message that was delivered before; otherwise an envelope
\* is minted.
LookUp(s) ==
  /\ send[s].pc = "lookup" /\ send[s].i <= Len(send[s].items)
  /\ LET d == To(s)
     IN  Goto(s, "lookup",
              IF d \notin send[s].may \/ Blocked(s, d) THEN Onward(send[s])
              ELSE IF LiveRow(Key(s, d))
                THEN Onward([send[s] EXCEPT !.got = @ \cup {Answered(d, dedup[Key(s, d)])}])
                ELSE [send[s] EXCEPT !.pc = "enqueue", !.expires = now + Lifetime])
  /\ UNCHANGED <<groupVars, known, mailbox, dedup, woken, now, failures, out>>

\* The mailbox object drops what has expired and takes the envelope if there is
\* room; a refusal is the end of this recipient.
Live(box) == {e \in DOMAIN box : box[e] > now}
RoomForOneMore(d) == Cardinality(Live(mailbox[d])) <= MaxBacklog    \* faulty
Room(d) == Cardinality(Live(mailbox[d])) < MaxBacklog

PassedOver(s) == Onward(send[s])

Enqueue(s) ==
  /\ send[s].pc = "enqueue"
  /\ LET d == To(s)
         kept == Restrict(mailbox[d], Live(mailbox[d]))
     IN  IF Room(d)
           THEN /\ mailbox' = [mailbox EXCEPT ![d] =
                                 With(kept, Envelope(s, send[s].i), send[s].expires)]
                /\ send' = [send EXCEPT ![s].pc = "record", ![s].put = @ \cup {send[s].i}]
           ELSE /\ mailbox' = [mailbox EXCEPT ![d] = kept]
                /\ send' = [send EXCEPT ![s] = PassedOver(s)]
  /\ UNCHANGED <<groupVars, known, dedup, woken, now, failures, out>>

\* The primary key refuses a second row for the message, live or not: the handler
\* throws and answers 500.
RowReplaced(s) == FALSE                                             \* faulty
Clash(s) == Key(s, To(s)) \in DOMAIN dedup

Record(s) ==
  /\ send[s].pc = "record"
  /\ LET row == [id |-> Envelope(s, send[s].i), expires |-> send[s].expires]
     IN  IF Clash(s)
           THEN /\ send' = [send EXCEPT ![s].pc = "failed"]
                /\ UNCHANGED dedup
           ELSE /\ dedup' = With(dedup, Key(s, To(s)), row)
                /\ send' = [send EXCEPT ![s] =
                     Onward([send[s] EXCEPT !.got = @ \cup {Answered(To(s), row)}])]
  /\ UNCHANGED <<groupVars, known, mailbox, woken, now, failures, out>>

\* After the last recipient: the activity of the conversation, a cleanup pulse, and
\* a push wake for each envelope of this send; a wake the queue does not take is
\* logged and forgotten.  Then 202.
Finish(s) ==
  /\ send[s].i > Len(send[s].items)
  /\ Goto(s, "lookup", [send[s] EXCEPT !.pc = "done"])
  /\ \E unsent \in SUBSET send[s].put :
       /\ failures + Cardinality(unsent) <= MaxFailures
       /\ failures' = failures + Cardinality(unsent)
       /\ woken' = woken \cup {Envelope(s, i) : i \in send[s].put \ unsent}
  /\ UNCHANGED <<groupVars, known, mailbox, dedup, now, out>>

LoseSend(s) ==
  /\ s \in InFlight
  /\ failures < MaxFailures
  /\ failures' = failures + 1
  /\ send' = [send EXCEPT ![s].pc = "lost"]
  /\ UNCHANGED <<groupVars, known, mailbox, dedup, woken, now, out>>

-----------------------------------------------------------------------------
(* The rest of the system.                                                  *)

\* The device acknowledges envelopes; what has expired goes with them.
Receive(d) ==
  /\ \E acked \in SUBSET DOMAIN mailbox[d] \ {{}} :
       mailbox' = [mailbox EXCEPT ![d] = Restrict(@, Live(@) \ acked)]
  /\ UNCHANGED <<groupVars, known, send, dedup, woken, now, failures, out>>

RowLapsed(k) == dedup[k].expires <= now

\* runRelayCleanup.
Cleanup ==
  /\ dedup' = Restrict(dedup, {k \in DOMAIN dedup : ~RowLapsed(k)})
  /\ UNCHANGED <<groupVars, known, send, mailbox, woken, now, failures, out>>

\* A handler ends within a tick of its start, long before an envelope expires.
Tick ==
  /\ now < Horizon
  /\ \A s \in InFlight : send[s].since = now
  /\ now' = now + 1
  /\ UNCHANGED <<groupVars, known, send, mailbox, dedup, woken, failures, out>>

Back == DOMAIN members' \ DOMAIN members
GroupStep ==
  /\ \E r \in Requests :
       /\ Step(r)
       /\ out' = IF run[r].pc = "answer" /\ run'[r].pc = "done"
                   THEN out \cup ({run[r].target} \ DOMAIN members)
                   ELSE out \ Back
  /\ send' = [s \in Sends |-> [send[s] EXCEPT !.out = @ \ Back]]
  /\ UNCHANGED <<known, mailbox, dedup, woken, now, failures>>

RelayInitAll == Init /\ RelayInit

SendStep(s) ==
  \/ \E b \in Bodies : BeginSend(s, b)
  \/ CheckMember(s) \/ ReadMembers(s) \/ LookUp(s)
  \/ Enqueue(s) \/ Record(s) \/ Finish(s) \/ LoseSend(s)

RelayNext ==
  \/ \E s \in Sends : SendStep(s)
  \/ \E d \in Devices : LoadGroups(d) \/ LoadRoster(d) \/ Receive(d)
  \/ Cleanup \/ Tick \/ GroupStep

RelaySpec == RelayInitAll /\ [][RelayNext]_vars

-----------------------------------------------------------------------------
(* Properties.                                                              *)

Minted == {<<s, i>> : s \in Sends, i \in 1..MaxItems}
DeviceOf(e) == send[e[1]].items[e[2]]
KeyOf(e) == Key(e[1], DeviceOf(e))

\* An envelope waiting in a mailbox is the one mailbox_dedup names for its message,
\* so a retry finds it - unless its run is between putting and recording it, or
\* ended right there.
EveryCopyRecorded ==
  \A d \in Devices : \A e \in Live(mailbox[d]) :
    \/ KeyOf(e) \in DOMAIN dedup /\ dedup[KeyOf(e)].id = e
    \/ send[e[1]].i = e[2] /\ send[e[1]].pc \in {"record", "failed", "lost"}

\* However often and concurrently a client sends a message, the answers never name
\* two envelopes for one recipient whose lifetimes overlap.
AnswersAgree ==
  \A s, t \in Sends : \A a \in send[s].got, b \in send[t].got :
    Key(s, a.to) = Key(t, b.to) /\ a.id # b.id =>
      a.expires <= b.expires - Lifetime \/ b.expires <= a.expires - Lifetime

\* An envelope the relay answers with was put into the recipient's mailbox, also
\* when the answer comes from a row an earlier run left.
AnswersDelivered ==
  \A s \in Sends : \A a \in send[s].got :
    a.id[2] \in send[a.id[1]].put /\ DeviceOf(a.id) = a.to

\* Copies are on record; answers name one envelope at a time, and one that was
\* delivered.
AnswersTrue == EveryCopyRecorded /\ AnswersAgree /\ AnswersDelivered

\* A send that begins after a removal was answered delivers nothing to the devices
\* of the removed account and nothing from them, and nothing that was encrypted
\* for a roster that still had the account in it: its keys are not used again.
RemovedGetNothing ==
  \A s \in Sends : send[s].put # {} =>
    /\ OwnerOf[send[s].body.from] \notin send[s].out
    /\ \A i \in send[s].put : OwnerOf[send[s].items[i]] \notin send[s].out
    /\ send[s].roster \cap send[s].out = {}

\* Every mailbox keeps the contract DeviceMailbox refines, step by step.
Box(d) == INSTANCE MailboxContract
  WITH pending <- mailbox[d], clock <- now, Envelopes <- Minted,
       Horizon <- Horizon + Lifetime
MailboxesKept ==
  [][\A d \in Devices : UNCHANGED <<mailbox[d], now>> \/ Box(d)!Next]_vars

\* The relay's test "deduplicates mailbox sends by clientMessageId and returns a
\* single envelope".
SingleEnvelope ==
  \A d \in Devices : \A e, f \in DOMAIN mailbox[d] : KeyOf(e) = KeyOf(f) => e = f

=============================================================================
