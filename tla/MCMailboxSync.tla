--------------------------- MODULE MCMailboxSync ---------------------------
(* Two runs, a peer with a phone and a newly linked laptop, and the streams *)
(* in which the hard cases happen.                                          *)
EXTENDS MailboxSync

CONSTANTS phone, laptop, r1, r2

Envelope(kind, device, gen, n, at, target) ==
  [kind |-> kind, device |-> device, gen |-> gen, n |-> n, at |-> at, target |-> target]
Key(d, gen, n) == Envelope("key", d, gen, n, 0, 0)
LaterKey(d, gen, n, at) == Envelope("key", d, gen, n, at, 0)
Text(d, gen, n) == Envelope("text", d, gen, n, 0, 0)
Delete(d, gen, n, target) == Envelope("delete", d, gen, n, 0, target)
Closed(d) == Envelope("closed", d, 0, 0, 0, 0)

Deletes == <<Key(phone, 1, 0), Text(phone, 1, 0), Delete(phone, 1, 1, 2), Text(phone, 1, 2)>>
ShortDelete == SubSeq(Deletes, 1, 3)
Rekeys == <<Key(phone, 1, 0), Text(phone, 1, 0), Key(phone, 2, 1), Text(phone, 2, 0)>>
Blocked == <<Closed(phone), Closed(phone), Key(phone, 1, 0),
             Text(phone, 1, 0), Text(phone, 1, 1), Text(phone, 1, 2)>>
Links == <<Key(phone, 1, 0), Text(phone, 1, 0), LaterKey(laptop, 1, 0, 3), Text(laptop, 1, 3)>>

ThreeKeys == <<Key(phone, 1, 0), Key(phone, 2, 1), Key(phone, 3, 2)>>
FromLaptop == <<Key(phone, 1, 0), LaterKey(laptop, 1, 0, 0), Text(laptop, 1, 0), Delete(phone, 1, 0, 3)>>

Passed == <<Key(phone, 1, 0), Text(phone, 1, 2), Text(phone, 1, 0), Text(phone, 1, 1)>>

PeerSends == {Passed, ThreeKeys, FromLaptop, ShortDelete, Deletes, Rekeys, Blocked, Links}
Both == {phone, laptop}
Two == {r1, r2}

\* Runs overlap only when nothing crashes or fails, and a deletion or another key
\* follows the first text.
Scenario == overlapped => crashes + failures = 0 /\ stream \in {Rekeys, ShortDelete}
MCSpec ==
  /\ SyncInit /\ [][SyncNext /\ Scenario']_syncVars
  /\ \A r \in Runs : WF_syncVars(Work(r))
  /\ WF_syncVars(\E r \in Runs : BeginSync(r))
=============================================================================
