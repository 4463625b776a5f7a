---------------------------- MODULE WebWorkspace ----------------------------
(***************************************************************************)
(* What a browser keeps of the encrypted conversations                      *)
(* (apps/web/src/lib/relay-workspace.ts): a record in localStorage with the  *)
(* key bundle, the cursor and the ids it has seen, and a list of messages    *)
(* per conversation in IndexedDB, which every tab caches for itself.  A tab   *)
(* syncs when it gets the focus, takes in every envelope of its mailbox      *)
(* socket on its own (components/companion-shell.tsx), and sends.  Nothing    *)
(* keeps two of these apart.  One conversation, one device.                  *)
(***************************************************************************)
EXTENDS ClientWork

CONSTANTS Envelopes,     \* what peers send to this device
          Sends,         \* what this browser sends, by clientMessageId
          Bundles,       \* bundles that createStoredDeviceBundle makes
          MaxFailures,   \* bound of the model: requests and transactions that fail
          MaxReloads     \* bound of the model: tabs that are closed or reloaded

ASSUME WorkspaceAssumption ==
  /\ IsFiniteSet(Bundles) /\ Nobody \notin Bundles /\ Envelopes \cap Sends = {}
  /\ MaxFailures \in Nat /\ MaxReloads \in Nat

VARIABLES record,      \* emberchamber.relay.workspace.v1 of localStorage
          table,       \* dm_messages of IndexedDB: the texts of the conversation
          cache,       \* workspaceMessageCache of the tabs that have one
          published,   \* the bundle the relay hands to peers
          mailbox,     \* the envelopes the relay holds for the device
          sealed,      \* envelopes sent so far, and the bundle each is sealed to
          live,        \* socket events a tab has not handled yet
          made,        \* bundles made so far
          begun,       \* texts whose sending has begun
          failures, reloads,
          acked,       \* envelopes acknowledged (history)
          passed,      \* envelopes that a run could not open (history)
          unsaved,     \* texts whose transaction failed (history)
          crowded,     \* envelopes taken in while another run was under way or another
                       \* tab had a cache (history)
          crossed      \* two registrations have been under way at once (history)

browser == <<record, table, cache>>
relaySide == <<published, mailbox, sealed>>
used == <<made, begun, failures, reloads>>
seen == <<acked, passed, unsaved>>
workspaceVars == <<work, browser, relaySide, live, used, seen, crowded, crossed>>

NoRecord == [bundle |-> Nobody, cursor |-> Nobody, known |-> {}]

WorkspaceInit ==
  /\ record = NoRecord /\ table = {} /\ cache = [t \in {} |-> {}]
  /\ published = Nobody /\ mailbox = <<>> /\ sealed = [e \in {} |-> Nobody]
  /\ live = {} /\ made = {} /\ begun = {} /\ failures = 0 /\ reloads = 0
  /\ acked = {} /\ passed = {} /\ crowded = {} /\ unsaved = {} /\ crossed = FALSE

\* A call that is about to begin: what it has read of the record, its batch of
\* envelopes and the place in it, and the list it has loaded, with what it has opened.
Call(op, t) == [op |-> op, pc |-> "start", tab |-> t, bundle |-> Nobody, state |-> NoRecord,
                batch |-> <<>>, at |-> 1, list |-> {}, opened |-> {}, text |-> Nobody]

Own(x) == x \in Sends

ForgetsReceived(list, x) == {x} \cup {y \in list : Own(y)}             \* faulty
\* upsertMessageList.  A message of one's own has no envelopeId, and so equals every
\* other one of one's own in that field.
Upserted(list, x) == {x} \cup IF Own(x) THEN {y \in list : ~Own(y)} ELSE list

Failing == failures < MaxFailures /\ failures' = failures + 1

-----------------------------------------------------------------------------
(* ensureRelayDeviceBundle, which every run starts with.                    *)

\* What follows once there is a bundle: the record is read again.
Ready(w, rec) ==
  [w EXCEPT !.bundle = rec.bundle, !.state = rec,
            !.pc = CASE w.op = "sync" -> "fetch" [] w.op = "send" -> "send" [] OTHER -> "open"]

Start(r, w) ==
  /\ Doing(r, "free")
  /\ IF record.bundle # Nobody THEN Turn(r, Ready(w, record)) /\ made' = made
     ELSE \E k \in Bundles \ made :
            Turn(r, [w EXCEPT !.pc = "register", !.bundle = k, !.state = record]) /\ made' = made \cup {k}
  /\ UNCHANGED <<browser, relaySide, failures, reloads, seen>>

Register(r) ==
  /\ Step(r, "register", "registered")
  /\ published' = work[r].bundle
  /\ UNCHANGED <<browser, mailbox, sealed, live, used, seen>>

SaveBundle(r) ==
  /\ Doing(r, "registered")
  /\ record' = [work[r].state EXCEPT !.bundle = work[r].bundle]
  /\ Turn(r, Ready(work[r], record'))
  /\ UNCHANGED <<table, cache, relaySide, live, used, seen>>

SavedAnyway(r) == [record EXCEPT !.bundle = work[r].bundle]           \* faulty
\* Nothing is kept of a bundle that the relay did not confirm.
HeldAfterFailure(r) == record

\* The request fails, or only its answer is lost.
FailRegister(r) ==
  /\ Doing(r, "register") \/ Doing(r, "registered")
  /\ Failing /\ Quit(r)
  /\ record' = HeldAfterFailure(r)
  /\ UNCHANGED <<table, cache, relaySide, live, made, begun, reloads, seen>>

-----------------------------------------------------------------------------
(* Peers, and the relay: DeviceMailboxDO.                                   *)

\* The sockets of some tabs are connected.
PeerSends(e, tabs) ==
  /\ e \notin DOMAIN sealed /\ published # Nobody
  /\ sealed' = [x \in DOMAIN sealed \cup {e} |-> IF x = e THEN published ELSE sealed[x]]
  /\ mailbox' = Append(mailbox, e)
  /\ live' = live \cup (tabs \X {e})
  /\ UNCHANGED <<work, browser, published, used, seen>>

\* The envelopes after the cursor; all of them when it is no longer there.
Page(cursor) ==
  IF Contains(mailbox, cursor)
  THEN SubSeq(mailbox, 1 + CHOOSE i \in DOMAIN mailbox : mailbox[i] = cursor, Len(mailbox))
  ELSE mailbox

-----------------------------------------------------------------------------
(* syncRelayMailbox and ingestRelayEnvelopes.                               *)

BeginSync(r, t) ==
  /\ Start(r, Call("sync", t))
  /\ UNCHANGED <<live, begun>>

TakeEvent(r, t, e) ==
  /\ <<t, e>> \in live /\ live' = live \ {<<t, e>>}
  /\ Start(r, [Call("ingest", t) EXCEPT !.batch = <<e>>])
  /\ begun' = begun

\* The page goes to ingestRelayEnvelopes, which reads the record once more.
Fetch(r) ==
  /\ Doing(r, "fetch")
  /\ LET page == Page(work[r].state.cursor) IN
       Turn(r, IF page = <<>> THEN Free
               ELSE Ready([work[r] EXCEPT !.op = "ingest", !.batch = page], record))
  /\ UNCHANGED <<browser, relaySide, live, used, seen>>

InLoop(r) == Doing(r, "open") /\ work[r].at <= Len(work[r].batch)
Current(r) == work[r].batch[work[r].at]
Unknown(r) == InLoop(r) /\ Current(r) \notin work[r].state.known
NextOne(w) == [w EXCEPT !.at = @ + 1]

SkipKnown(r) ==
  /\ InLoop(r) /\ ~Unknown(r)
  /\ Turn(r, NextOne(work[r]))
  /\ UNCHANGED <<browser, relaySide, live, used, seen>>

HasList(r) == work[r].opened # {} \/ work[r].tab \in DOMAIN cache
List(r) == IF work[r].opened # {} THEN work[r].list ELSE cache[work[r].tab]
Cached(t, list) == [u \in DOMAIN cache \cup {t} |-> IF u = t THEN list ELSE cache[u]]

WithOpened(w, list) ==
  NextOne([w EXCEPT !.pc = "open", !.list = Upserted(list, w.batch[w.at]), !.opened = @ \cup {w.batch[w.at]}])

Open(r) ==
  /\ Unknown(r) /\ sealed[Current(r)] = work[r].bundle /\ HasList(r)
  /\ Turn(r, WithOpened(work[r], List(r)))
  /\ UNCHANGED <<browser, relaySide, live, used, seen>>

\* The sender's device is not in the directory that the tab fetched once, the lookup
\* fails, or the envelope is sealed to another bundle.
PassOver(r) ==
  /\ Unknown(r)
  /\ IF sealed[Current(r)] = work[r].bundle THEN Failing ELSE failures' = failures
  /\ Turn(r, NextOne(work[r])) /\ passed' = passed \cup {Current(r)}
  /\ UNCHANGED <<browser, relaySide, live, made, begun, reloads, acked, unsaved>>

-----------------------------------------------------------------------------
(* loadConversationMessages of a tab without a cache, and what follows: for    *)
(* ingestRelayEnvelopes, for sendConversationMessage, and for a page that shows *)
(* the conversation (listStoredConversationMessages).                       *)

Reads(w) == [w EXCEPT !.pc = "loaded", !.list = table]
Writing == \E r \in Pending : Doing(r, "put")

\* A read waits for the writes that were begun before it.
ReadTable(r) ==
  /\ \/ Unknown(r) /\ sealed[Current(r)] = work[r].bundle /\ work[r].opened = {}
     \/ Doing(r, "accepted")
  /\ work[r].tab \notin DOMAIN cache /\ ~Writing
  /\ Turn(r, Reads(work[r]))
  /\ UNCHANGED <<browser, relaySide, live, used, seen>>

ShowPage(r, t) ==
  /\ Doing(r, "free") /\ ~Writing /\ t \notin DOMAIN cache
  /\ Turn(r, Reads(Call("show", t)))
  /\ UNCHANGED <<browser, relaySide, live, used, seen>>

\* The cache is overwritten with what was read.
FillCache(r) ==
  /\ Doing(r, "loaded")
  /\ cache' = Cached(work[r].tab, work[r].list)
  /\ Turn(r, CASE work[r].op = "show" -> Free
               [] work[r].op = "send" -> [work[r] EXCEPT !.pc = "accepted"]
               [] OTHER -> WithOpened(work[r], work[r].list))
  /\ UNCHANGED <<record, table, relaySide, live, used, seen>>

-----------------------------------------------------------------------------
(* persistConversationMessages: the cache at once, then the table.            *)

Persist(r) ==
  /\ Doing(r, "open") /\ ~InLoop(r)
  /\ IF work[r].opened = {} THEN Step(r, "open", "record") /\ cache' = cache
     ELSE Step(r, "open", "put") /\ cache' = Cached(work[r].tab, work[r].list)
  /\ UNCHANGED <<record, table, relaySide, live, used, seen>>

AfterPut(r) == IF work[r].op = "send" THEN Free ELSE [work[r] EXCEPT !.pc = "record"]

Put(r) ==
  /\ Doing(r, "put") /\ Turn(r, AfterPut(r))
  /\ table' = work[r].list
  /\ UNCHANGED <<record, cache, relaySide, live, used, seen>>

\* transaction.onerror resolves, too.
FailPut(r) ==
  /\ Doing(r, "put") /\ Turn(r, AfterPut(r))
  /\ Failing
  /\ unsaved' = unsaved \cup work[r].list
  /\ UNCHANGED <<browser, relaySide, live, made, begun, reloads, acked, passed>>

\* The whole record as it was read, with the cursor and the ids of this run.
SaveRecord(r) ==
  /\ Step(r, "record", "ack")
  /\ record' = [work[r].state EXCEPT !.cursor = Last(work[r].batch), !.known = @ \cup work[r].opened]
  /\ UNCHANGED <<table, cache, relaySide, live, used, seen>>

\* The mailbox after an acknowledgement of es, in the order it had.
Unacked(es) ==
  LET left == {i \in DOMAIN mailbox : mailbox[i] \notin es}
      Place(i) == Cardinality({j \in left : j <= i})
  IN  [k \in 1..Cardinality(left) |-> mailbox[CHOOSE i \in left : Place(i) = k]]

Ack(r) ==
  /\ Doing(r, "ack") /\ Quit(r)
  /\ mailbox' = Unacked(ToSet(work[r].batch))
  /\ acked' = acked \cup ToSet(work[r].batch)
  /\ UNCHANGED <<browser, published, sealed, live, used, passed, unsaved>>

-----------------------------------------------------------------------------
(* sendConversationMessage: what it keeps of its own texts.                 *)

BeginSend(r, t, s) ==
  /\ s \notin begun /\ begun' = begun \cup {s}
  /\ Start(r, [Call("send", t) EXCEPT !.text = s])
  /\ live' = live

\* POST /v1/messages/batch has answered.
Accepted(r) ==
  /\ Step(r, "send", "accepted")
  /\ UNCHANGED <<browser, relaySide, live, used, seen>>

KeepOwn(r) ==
  /\ Doing(r, "accepted") /\ work[r].tab \in DOMAIN cache
  /\ LET list == Upserted(cache[work[r].tab], work[r].text) IN
       /\ Turn(r, [work[r] EXCEPT !.pc = "put", !.list = list])
       /\ cache' = Cached(work[r].tab, list)
  /\ UNCHANGED <<record, table, relaySide, live, used, seen>>

-----------------------------------------------------------------------------
(* Requests that fail, and tabs that are closed or reloaded.                *)

FailRequest(r) ==
  /\ work[r].pc \in {"fetch", "send", "ack"} /\ Failing /\ Quit(r)
  /\ UNCHANGED <<browser, relaySide, live, made, begun, reloads, seen>>

Reload(t) ==
  LET gone == {r \in Pending : work[r].tab = t} IN
  /\ t \in DOMAIN cache \/ gone # {}
  /\ reloads < MaxReloads /\ reloads' = reloads + 1
  /\ Lost(gone)
  /\ cache' = [u \in DOMAIN cache \ {t} |-> cache[u]]
  /\ live' = {p \in live : p[1] # t}
  /\ UNCHANGED <<record, table, relaySide, made, begun, failures, seen>>

-----------------------------------------------------------------------------
Registering == {r \in Pending : work[r].pc \in {"register", "registered"}}

Watch ==
  /\ crossed' = (crossed \/ Cardinality(Registering') > 1)
  /\ crowded' = crowded \cup UNION {ToSet(work'[r].batch) :
       r \in {q \in Pending' : Pending' # {q} \/ DOMAIN cache' \ {work'[q].tab} # {}}}

WorkspaceNext ==
  /\ \/ \E r \in Runs :
          \/ \E t \in Tabs : \/ BeginSync(r, t) \/ ShowPage(r, t)
                             \/ \E e \in Envelopes : TakeEvent(r, t, e)
                             \/ \E s \in Sends : BeginSend(r, t, s)
          \/ Register(r) \/ SaveBundle(r) \/ FailRegister(r)
          \/ Fetch(r) \/ SkipKnown(r) \/ Open(r) \/ PassOver(r)
          \/ ReadTable(r) \/ FillCache(r) \/ Persist(r)
          \/ Put(r) \/ FailPut(r) \/ SaveRecord(r) \/ Ack(r)
          \/ Accepted(r) \/ KeepOwn(r) \/ FailRequest(r)
     \/ \E e \in Envelopes, tabs \in SUBSET Tabs : PeerSends(e, tabs)
     \/ \E t \in Tabs : Reload(t)
  /\ Watch

WorkspaceSpec == WorkInit /\ WorkspaceInit /\ [][WorkspaceNext]_workspaceVars

-----------------------------------------------------------------------------
(* Properties.                                                              *)

\* The bundle that peers seal to is the one this browser can open with, through
\* failed registrations, reloads and records written back whole, unless two
\* registrations overlapped.
BundlesAgree == record.bundle # Nobody => published = record.bundle \/ crossed

\* What the relay was told to delete is in the table: an acknowledged envelope was
\* stored, unless it could not be opened, its transaction failed, or it was taken in
\* beside another run or another tab's cache.
AckedIsStored == acked \ (passed \cup unsaved \cup crowded) \subseteq table

\* A text of one's own that is in the table stays there.
OwnTextsStay == [][\A s \in Sends : s \in table => s \in table']_workspaceVars
=============================================================================
