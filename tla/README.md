# EmberChamber in TLA+

EmberChamber is an end-to-end encrypted messenger: a relay on Cloudflare Workers
(`apps/relay`, D1 for rows, R2 for attachments, Durable Objects for mailboxes and sockets), a
mobile client (`apps/mobile`), a web client (`apps/web`), a desktop shell and a few crates and
packages. The relay never reads a message of an encrypted group; what it must get right is who
may sign in, who may send to whom, that an accepted envelope reaches every mailbox once, that
nothing is lost before the recipient has it, and that abandoned data goes away. The clients must
get right that what they acknowledge is stored, that keys reach whom they should, and which
session they hold. All of it runs as handlers that await one statement after another, with
nothing that holds two statements together: no transaction on the relay, no lock in a client.

1. [Inventory](#1-inventory)
2. [Modules and how they correspond to the code](#2-modules-and-how-they-correspond-to-the-code)
3. [Runs, bounds and what they show](#3-runs-bounds-and-what-they-show)
4. [Fairness](#4-fairness)
5. [Proofs](#5-proofs)
6. [Disagreements found](#6-disagreements-found)
7. [Not modelled](#7-not-modelled)
8. [Plan](#8-plan)

## 1. Inventory

Status: **M** modelled, **P** partly, **-** not modelled (section 7 says why). Paths of the relay
are under `apps/relay/src/`.

| component | state | operations | hard behaviour | correct when | |
|---|---|---|---|---|---|
| Device mailbox, `do/device-mailbox.ts` | queue, envelope records, counters, alarm, sockets | `/ws`, `/enqueue`, `/sync`, `/ack`, alarm | isolate lost between two storage writes; backlog limit; alarm re-arming; stale cursors | bounded, nothing evicted, counters add up, sockets miss nothing, expired ciphertext deleted | M |
| Group membership, invites, epoch, `handlers/conversations.ts`, `services/invites.ts` | members, epoch, invites of a group | remove, accept, revoke, expiry | check-then-act across statements, lost handlers | owner stays, limits hold up to overlap, removed stay out, epoch advances | P |
| Encrypted fan-out, `handlers/messages.ts` | `mailbox_dedup`, mailboxes, push queue | `/v1/messages/batch`, `/v1/messages/group`, clean-up | overlapping retries, key clash in mid-loop, expiry against clean-up, membership changing under a send | every copy recorded, answers true, removed accounts get nothing | M |
| Mobile sync, `conversationSync.ts` | SQLite: cursor, ratchets, sender keys, thread | one run of `syncEncryptedMailbox` | overlapping runs, app killed at any await, failed requests, unreadable envelopes | acked texts are kept, deletions and keys stick, the phone catches up | P |
| Mobile sending, sender keys, `useSendMessage.ts`, `double-ratchet.ts` | own sender key, whom it was sent to, ratchets | roster, new key, distribution, text | partial acceptance, kill between saves, two sends at once, both sides starting a ratchet | members can open, others cannot | P |
| Sign-in and sessions, `handlers/auth.ts`, `services/session.ts`, `middleware/auth.ts` | challenges, accounts, emails, invites' uses, sessions | ask, complete, refresh, sign out, end all | link consumed last, use counted late, overlapping and lost completions | a link opens few sessions, an invite admits few, each session is the owner's | P |
| Device linking, `handlers/devices.ts` | `device_links` | show, scan, claim, confirm, complete | two claims, two completions, approval of a row read earlier | the approved device, under the approved name | P |
| Passkeys, `handlers/passkeys.ts` | challenges, credentials with counters | options, register, sign in, delete | counter and challenge tested and written apart | a challenge and a count open one session | M |
| Communities and rooms, `handlers/conversations.ts`, `services/conversations.ts` | members of a community and of each room | found, new room, accept, grant, revoke, remove | rooms are kept in step statement by statement | rooms follow the community | P |
| Group coordinator, `do/group-coordinator.ts` | sockets of a conversation | connect, broadcast, sweep | one D1 query per socket while others come and go | no broadcast to the removed | P |
| Relay-hosted messages, `services/messages.ts` | messages, reactions | post, edit, delete, react, list | reaction read, toggled, written back; lists beside broadcasts | toggles are not lost, clients show what is stored | P |
| Push delivery, `services/push.ts`, `lib/fcm.ts`, the phone's `pushService.ts` | tokens of devices | register, clear, wake, invalidate | a wake's answer about an earlier token | a registered phone stays reachable | P |
| Attachments, `handlers/attachments.ts`, `services/cleanup.ts` | rows of D1, bytes of R2 | ticket, upload, download, clean-up | no transaction spans row and bytes | bytes have rows, rows have bytes | M |
| Legacy group retirement, `services/legacy-group-retirement.ts` | a group's stored history | retire, purge, and the writes of members | writes checked before a purge land after it | retired history is frozen, purged history empty | M |
| Direct messages, `/v1/dm/open` | threads of two accounts | open | two opens at once | one thread per pair | M |
| Web client, `lib/relay-workspace.ts`, `lib/relay.ts`, `lib/store.ts` | a record and a session in localStorage, messages in IndexedDB, a cache per tab | sync, live envelopes, send, register, sign in, refresh, sign out | tabs and runs write back what they read earlier | keeps what it acknowledges, holds its session | P |
| Mobile session, `useAuth.ts` | secure store, shown state | sign in, refresh in every call, sign out, restart | a refresh under way at a sign-out | store and screen hold the last sign-in | M |
| Client state, `crates/core` | conversations, outbox | enqueue, deliver, rotate | orders of rotation and enqueue | stale means behind | P |
| Operator console, `handlers/operator.ts`, `admin.ts` | flags, sessions, links | suspend, hand off, end sessions | a request of the account under way | what was ended stays out | P |
| Threads, `App.tsx`, `useSendMessage.ts`, `db.ts`, `page-client.tsx` | the list that is shown, copies in SQLite, a socket | visit, load, hear, act, answer | answers, lists and broadcasts in any order, a chat left under a call | the thread follows the relay, chats stay apart | P |
| Rate limiter, backups, desktop shell, protocol types, shared packages | | | | | - |

The hazards, each at the line where it bites, are in `PROJECT.json`, with the properties that
would catch it.

How the modelled parts meet:

```
 phone: useSendMessage, SenderKeys --(batch/group)--> relay: messages.ts --reads--> members, epoch <-- conversations.ts, invites.ts
                                                         |  mailbox_dedup, wakes --> push.ts --> FCM
                                                         | /enqueue
                                                         v
                                                 DeviceMailboxDO --/ws, /sync--> phone: syncEncryptedMailbox  --/ack-->
                                                                 --/ws, /sync--> browser: relay-workspace.ts  --/ack-->
 links, device links, passkeys --> sessions --> every request;  client: refresh, sign-out
 communities --> rooms --> coordinator's sockets;  attachments <-- clean-up, purge of legacy groups
```

## 2. Modules and how they correspond to the code

Where code awaits, another handler may run. So one action is one statement, storage call or
request with the code up to the next one; only inside a Durable Object's mailbox, whose input
gate keeps other requests out while storage is used, is a whole handler one action. Timestamps
are numbers or ages, identifiers model values, ciphertexts records that only the right key
opens. Variables marked "(history)" are not in the code; they record what a property excepts.
A definition with the comment `faulty` is not part of the model: it is a plausible bug, put in
place of the definition after it to see that a property notices.

**Mailbox.** `DeviceMailbox` is the class `DeviceMailboxDO`. `queue` is `state.queue` with each
id's place, `stored` the `envelope:*` records with their expiry, `stats` and `alarm` what the names
say, `told` what each attached client has been shown. Each handler prunes first. `PruneTorn`,
`PruneUnarmed`, `EnqueueTorn`, `EnqueueUnarmed` and `AckTorn` are the handlers cut short between
two writes by a loss of the isolate. `MailboxContract` is what the rest of the relay relies on:
envelopes enter, and leave only by acknowledgement or expiry; `DeviceMailbox` refines it.

**Groups and fan-out.** `GroupMembership` is one group: removal (`BeginRemove`, `ReadEpoch`,
`MarkRemoved`, `BumpEpoch`, `AnswerRemoval`), acceptance of an invite (`BeginAccept`,
`ReadExisting`, `Join`, `CountUse`), revocation and expiry. `run` holds the local variables of the
handlers, `LoseRun` ends one between two statements. `MessageRelay` extends it with the two sending
routes: the check of sender and epoch, the member list, then for each recipient the block and dedup
lookups, the call of the mailbox object, and the insert into `mailbox_dedup`, whose primary key may
clash. `known` is what a device last fetched of epoch and roster. `MailboxesKept` checks every step
of its abstract mailboxes against `MailboxContract`, so the composition rests on what
`DeviceMailbox` is shown to implement.

**The phone.** `MailboxSync` is `syncEncryptedMailbox`, one action per await of it and of the save
functions it calls: `Fetch` asks for a page of the `mailbox` (an envelope is its position in what the peer
sends), `Store` writes a stepped copy of a chain that was loaded an await earlier, `SaveRow` and `Trim` save
the thread, `SaveCursor` and `Ack` follow; `Crash` loses what was in memory, `RequestFails` a request. `SenderKeys` is the other direction: `BeginSend`, `FetchRoster`, `LookUp`, `LoadKey`,
`LoadRatchet`, `StoreRatchet`, `PostKeys`, `SaveKey`, `PostText` are the awaits of `sendMessage` and
`sendEncryptedControlMessage`, with the readers' side of the ratchets in `reader`, the group changing
by `LinkDevice`, `Join` and the two statements of a removal, and mailboxes that may refuse.
`PhoneSession` is `useAuth.ts`: `kept` is the secure store, `shown` the state of the app, and every
call carries the session it was begun with.

**Signing in.** `Sessions` has the rows of `sessions` and all that ends or renews them (sign-out,
suspension, hand-off, ending all sessions, refresh with its recovery window). Three modules extend it
with a door each: `MagicLinks` (asking with and without an invite, the links that operators mint, and
a completion in six statements: challenge, account, email, use, circle, consumption, session),
`DeviceLinks` (both QR flows through claim or scan, confirmation and completion) and `Passkeys`
(challenges, registration, sign-in, deletion; the authenticator and the WebAuthn library are external
and do what their documentation says of challenge and counter). `SignIn` composes the doors over one
table of sessions. What a run creates has the run's name: its session, its device, its account.

**Communities.** `Communities` keeps `hall`, the members of a community, and `seats`, those of each
room, and has the handlers that change them, one statement at a time: founding, new rooms, accepting
an invite to the community or to a room, granting, revoking, removing. `RoomChannel` extends it with
the coordinator's sockets (`Connect`, `AcceptSocket`), its broadcasts and sweeps (`StartCast`, `AskSocket`,
`TellSocket`, `EndCast`: one D1 query per socket), posts, and reactions.

**Background.** `RelayWork` has what these handlers share (runs, and their loss). `Attachments` keeps
`row` (D1) and `blob` (R2) apart, with the tokens for upload and download and the queue that asks
for the clean-up; `LegacyHistory` extends it with a legacy group, the members' sends, edits and
deletions, retirement and purge. `PushTokens` has the phone's registrations and the deliveries, which
may invalidate what they find. `DirectMessages` is `/v1/dm/open`.

**The browser.** `ClientWork` has what both clients share: calls that give way at each await and die
with their page. `WebWorkspace` is `relay-workspace.ts`: `record` is the entry of localStorage (bundle,
cursor, ids seen), `table` the messages in IndexedDB, `cache` what each tab has read of them. A tab
syncs (`BeginSync`, `Fetch`), takes in an envelope of its socket (`TakeEvent`), sends (`BeginSend`,
`Accepted`, `KeepOwn`) and shows (`ShowPage`); each first makes sure there is a registered bundle
(`Start`, `Register`, `SaveBundle`). `ClientSession` is the relay's side of the sessions, `WebSession`
the browser's: `stored` in localStorage for all tabs, `renewal` the refresh that the requests of one
tab share. `ClientState` is `crates/core`.

**Threads.** `HostedThread` has the relay's `row` of each message, the routes that post (`AdmitPost`), edit
and delete (`AdmitChange`) and react (`AdmitLike`), each ending in `WriteChange`, the broadcasts (`due` with
the coordinator, `air` on their way to the socket `link`), and a client's `view` with the chat it has
`picked`. A call is `asked`, `write`, `answer`; a load `asked`, `listed`, `show`. `PhoneThread` is the effect of
`App.tsx` that visits a chat (`Pick`, `ReadCache`, `ListRows` or `LoadCached`, `SaveList`, `ShowThread`, then the
socket or `polling`), the loads that come from a push or a broken picture (`LoadAgain`), what the user does
(`Act`, `TakeAnswer`, `RemoveHere`) and `cached`, the copies in SQLite. `WebThread` is `page-client.tsx`. The
routes under `/v1/conversations/:id` and those under `/v1/groups/:id` differ in the kinds of conversation
they accept and are one here.

**`MC*`** give the constants their values and restrict the behaviours to named scenarios (section 3).
**`*Proofs`** hold the theorems (section 5).

## 3. Runs, bounds and what they show

| run | what it checks | bounds, and why they suffice |
|---|---|---|
| `mailbox` | `Accounting`, `SocketsSeeQueue`, `QueueOrdered`, `LossesContained`, `OnlyAckOrExpiry`, `SyncReturnsLive`, the refinement `KeepsContract`, the liveness `AbandonedExpires` | three envelopes for two places, so refusal, expiry, ack and duplicates all happen; one socket (sockets do not affect each other); one loss of the isolate; three requests that may take an envelope; acks of one, of several and of absent ids |
| `group` | `OwnerKeepsGroup`, `LimitsHold`, `RemovedStayOut`, `RemovalBumpsEpoch` | five accounts, cap 3, a single-use invite, three handler runs of which two may be accepts at once and one may be lost: the smallest instance in which limits are passed by the full amount |
| `relay` | `AnswersTrue` (with `EveryCopyRecorded`), `RemovedGetNothing`, `MailboxesKept` | three accounts with one device each; mailboxes for one envelope; either one batch sent twice with losses, expiry and clean-up, or one send during two membership changes. The first is about dedup rows, which do not depend on who is a member once the roster is read; the second about roster and epoch, which do not depend on time |
| `relay_copies` | refutes a test's title (section 6) | two overlapping sends |
| `sync` | `TextsKept` (`AckedIsKept` and `OnlyInHandIsLost`), `SavesStick` (`DeletionsStick` and `KeysAdvance`), `KeepsCatchingUp` | eight streams (a deletion; a deletion before further texts; a new sender key; three keys in a row; two unreadable envelopes that fill the first page; a laptop linked later; a text of the laptop that the phone deletes; texts that passed each other), pages of two, a thread of two texts so that trimming happens, one kill, one failure, two runs. Runs overlap in undisturbed behaviours of the streams with a deletion or a new key, where what a second run read earlier matters |
| `keys` | `OnlyMembersRead`, `TextsOpen` | three accounts, the phone's own tablet; up to three sends of which two may overlap, two changes of the group; one kill, or one failed request (also beside two sends at once), or one full mailbox and a peer that starts a ratchet |
| `signin` | `DoorsOpen`, `InviteAdmits`, `NewcomersVouched`, `SignedInAsOwner`, `LinkedAsApproved`, `EndedIsOut` | six scenes: two links, to a known or a new email; three newcomers with a single-use invite; a link while sessions end; a device link; the same while sessions end; passkeys. Two requests at a time of three in all, one of them may be lost. The doors share only the table of sessions, so one at a time is enough |
| `rooms` | `RoomsAgree`, `RemovedHearNothing`, `ReactionsAgree` | the owner and one member, two rooms, two handlers at a time, one lost; three scenes: members and rooms, a member's socket under removals and broadcasts, reactions |
| `background` | `FilesAccounted`, `LegacyCloses`, `StaysReachable`, `OneThread` | four scenes: two files; a legacy group with a file and two messages; a phone with two sign-ins and two tokens; threads of three accounts with a block. Two runs at a time, three for phone and threads, one lost |
| `clients` | `BundlesAgree`, `AckedIsStored`, `BrowserSignedIn`, `PhoneSignedIn`, `StaleIsBehind`, `ThreadsAgree`, `ThreadsApart` | six scenes: a browser of two tabs with two envelopes, one text to send and two bundles; its session over two sign-ins; that of a phone; an outbox of two entries, two conversations and epochs to 3; the thread of a phone with a hosted and an encrypted chat of a message each, and that of a page with two texts. Two runs, with refreshes three things under way; one failure or reload; socket events and envelopes together at most three. After an overlap that a property excepts, nothing new begins. Threads: one broadcast, one mark (edit, reaction or deletion) and one message astray at a time, messages in one chat of the phone's at a time, and two loads beside each other only where nothing else moves; what the property says of a message does not depend on the others |
| `web_sends`, `phone_signout` | refute what the clients say of their own history and of a sign-out (section 6) | one run, one tab, two texts; two runs |

The scenes of a run are fixed at its start and do not share state that the properties of another
scene read. How many requests of one kind overlap (`MaxAccepts`, `MaxCompletes`, `MaxFinishes`,
`MaxVerifies`, `MaxPending`), losses, failures, kills, reloads and `Horizon` for time are bounds of the
models. The code's own limits (a backlog of 500, pages of 100, chains stepped at most 100 ahead, a
thread of 500 texts) are constants with small values.

What the properties say that is not obvious from the code:

- **Mailbox.** The counters add up, provided no isolate is lost; a lost isolate leaves at most one
  record that nothing deletes and one envelope without an alarm, which the next request re-arms
  (`LossesContained`).
- **Groups.** With k accepts at once a group can exceed its cap by k-1 members, and an invite its uses
  by k-1 plus one per handler lost before the count (`LimitsHold`). A removal shuts an account out only
  if no accept of it was under way and the invite is closed (`RemovedStayOut`).
- **Fan-out.** A send that begins after a removal was answered gives the removed account nothing, and
  one encrypted for a roster with it is refused (`RemovedGetNothing`), if removals do not overlap and are
  not cut short before the epoch is written. A waiting envelope is the one its dedup row names
  (`EveryCopyRecorded`), except between putting and recording, where a run that ends leaves a copy that
  a retry does not find.
- **Phone.** What the phone acknowledges it has saved, under every interleaving, kill and failure
  (`AckedIsKept`). Deletions and new keys stick (`SavesStick`) only in calm: no run overlaps another, the
  peer's envelopes stand in the order they were made in, and requests do not fail beside a kill, after which
  the device list has to be fetched again. A deletion counts if it is of the device that sent the text;
  one from another device may be opened while the text's device is not listed yet. A kill costs the texts
  that were in hand, and those under a key that was (`OnlyInHandIsLost`): the ratchet is saved before the
  text it opened. Nothing else is lost as long as no run overlaps another and either no request fails and
  the envelopes are in order, or the peer keeps its key: a text that stands after the key that follows its
  own is lost with no fault at all. Each of these exceptions is one TLC or the proof asked for.
- **Sender keys.** A text is readable by nobody outside the group (`OnlyMembersRead`) and by every
  device it was for (`TextsOpen`), but for what the comments of the two properties name: a full
  mailbox that refused the key though its device is marked, a first envelope lost after its ratchet
  was saved, ratchets started from both sides, a send that ended before it saved whom it had told
  (the device is then not known to have the key, and with a newer one it no longer opens the row's),
  and sends that overwrite each other's rows.
- **Sign-in.** A magic link opens as many sessions as completions of it overlap; a device link one more
  for each that is lost before consuming it; a challenge as many as use it at once, and an authenticator's
  count one (`DoorsOpen`). An invite admits, beyond its uses, one less than the links that wait at once,
  and one per completion lost before the count (`InviteAdmits`); nobody gets an account without
  something that vouched (`NewcomersVouched`), and of two completions that make an account for one
  email both sessions are for the account that got it (`SignedInAsOwner`). A device is linked through
  a session of the account and under the name that was shown, unless two claims overlapped
  (`LinkedAsApproved`). What was ended stays out, unless a request of it was under way (`EndedIsOut`).
- **Rooms.** A seat in a room without one in the community is left only by a removal that is not over
  or was lost, or one that overlapped a handler still seating the account; a member lacks a seat in an
  open room only while a handler is on its way (`RoomsAgree`). A broadcast reaches only who had a seat
  while it ran, and a removal's answer leaves no socket open but one accepted after it or in a
  room created meanwhile (`RemovedHearNothing`). Toggles that do not overlap are kept (`ReactionsAgree`).
- **Background.** Stored bytes have a row that some clean-up finds, but for files uploaded during a
  purge; what a row gives out is stored, but for a retired group's (`FilesAccounted`). A retired history
  changes only by its purge and by requests that were under way, and a purged one is empty but for
  their messages (`LegacyCloses`). A phone whose token was registered stays reachable unless a delivery
  with an earlier token was under way (`StaysReachable`). Two accounts have one thread unless their
  requests overlapped (`OneThread`).
- **Clients.** The bundle that peers seal to is the one the browser can open with, unless two
  registrations overlapped (`BundlesAgree`): a registration whose answer is lost leaves no bundle, so
  the next call registers a new one. What the browser acknowledges is in the table, unless it could not
  be opened, its transaction failed, or another run or another tab's cache was there at the time
  (`AckedIsStored`): each of these exceptions is needed. The browser holds the session it signed in to
  last, through refreshes of several tabs that write back an older copy, unless the sign-in was beside a
  run of an earlier session or the user could not be loaded; after a sign-out a refresh of another tab
  may bring back one that the relay has ended (`BrowserSignedIn`). The same for the phone's two copies,
  unless a sign-in or sign-out overlapped another call (`PhoneSignedIn`).
- **Threads.** With its socket open and nothing under way a client shows a hosted chat as the relay has
  it (`ThreadsAgree`), but for messages that changed while no socket was open (it is opened again without
  a load), under a list that was read before, or beside another change of them, and on the phone under
  a text of its own, which puts back the list its call began with; each until it is loaded again. The
  phone's one list and its copies keep the chats apart (`ThreadsApart`) as long as none is left with a
  refresh or a change under way: a visit looks whether it is over, the answer to a reaction or deletion
  saves the list that is shown by then under the chat it began in.

## 4. Fairness

- `DeviceMailbox.FairSpec`: weak fairness of `Tick` (time passes) and of `AlarmFires` (the platform
  runs a due alarm and retries it). Clients promise nothing.
- `MailboxSync.SyncSpec` (and `MCSpec`, which only restricts it): weak fairness of each run's
  `Work`, because a promise that was started settles, and of starting a run while one is idle,
  because `App.tsx` starts one every 8 seconds while a thread is open. Arrivals, kills and failures
  have no fairness. `KeepsCatchingUp` excuses behaviours with a kill, a failure, an overlap or a
  device list that has become stale; it is about the cursor and the skipping of envelopes.
- The other specifications state safety only: handlers may be cut short, users and peers may stop.

## 5. Proofs

The theorems hold for every value of the constants under the named assumptions of the modules
(`MailboxAssumption`, `GroupAssumption`, `SessionsAssumption`, `MagicLinksAssumption`, ...), which TLC
evaluates in the runs. They say that sets are finite, that limits are numbers, and that a value which
stands for "none" (`Nothing`, `Nobody`) is not also an id; and that ids
the program draws at random for different things differ. Where a theorem assumes
more, it is said below.

Each proof has the same layout. An invariant stronger than the property says what is still true of what a
handler read in earlier statements; it was checked by TLC before it was proved. Where many handlers must
meet it, one formula describes what any step may do to the state the invariant is about (`Orderly`,
`StepKeeps`, `Closing`, `Leaves`): one lemma shows that whatever meets the formula keeps the invariant,
and one lemma for each handler shows that the handler meets it.

**`DeviceMailboxProofs`**: `TypeCorrect`; `OrderCorrect` from `BacklogCorrect` (inductive once
`PushedQueue` is known to be used below the limit only) and `ArrivalsCorrect` (each arrival's place is
`stats.enqueued`, above all queued ones); `NothingEvicted` (the action property `OnlyAckOrExpiry`,
action by action from the definition of `Kept`); `AccountingCorrect` (the sum is preserved by each
handler; the cardinality of the pruned and acknowledged parts comes from the library's theorems on
finite sets); `ClientsShown` (the backlog and each later broadcast together cover the queue);
`PagesLive` and `LossesCorrect` (what a lost isolate leaves: a record without a queued envelope, or an
envelope without an alarm, and which handler repairs which); `ContractKept`: the initial states of
`DeviceMailbox` are initial states of `MailboxContract` under the mapping, and every step is one operation
of the contract or a stutter.

**`MessageRelayProofs`**, first about the group alone:

- `TypeCorrect`.
- `OwnerKeeps`. `OwnerKeepsGroup` alone is not inductive: `OwnerInv` adds that nobody else has a
  role that manages, so that no removal under way is aimed at the owner, and that no accept about
  to join is the owner's.
- `ShutOutStaysOut`. `ShutInv` adds that for a shut-out account the invite is closed and no accept
  is under way; `BeginAccept` is refused on a closed invite, so no accept can come back.
- `LimitsCorrect`, from `CapHolds` and `UsesHold`. The first counts members plus `Seats`, the accepts
  that read a count below the cap and have not joined: a join moves one from the second to the first.
  The second counts the accepts that joined plus those still waiting; an accept that starts with a use
  left finds at most `MaxUses - 1` finished ones, and the rest are lost or under way (`JoinedCount`).
- `SoleRemovalBumps`, for `MaxRemovals = 1`: what a removal read is still the epoch when it writes
  the next one (`EpochInv`). Without the assumption it is false (section 6).

and then about sends to a group whose membership changes meanwhile:

- `FanOutTrue` (`AnswersTrue`). `CopyInv` relates, for each send, its `pc`, the device it has put an
  envelope for (`put`), that device's mailbox and the dedup row: an envelope in a mailbox has a row unless
  the run stopped between the two writes, and a row that a retry finds names an envelope that was put.
- `RemovedAreOut` (`RemovedGetNothing`). `OutInv` says that a client whose epoch is the group's has a roster
  without the accounts removed so far, so that a send passes the epoch check with such a roster only, and
  that what it carries further is for that roster. It assumes `MaxRemovals = 1`: two removals at the same
  time can write the same epoch (section 6), and the epoch then does not tell the rosters apart.
- `MailboxesKeep`: every step of every send keeps the contract of each mailbox that `DeviceMailbox` refines.

**`SignInProofs`** is about the composition `SignInSpec`: whatever the other doors do, `VouchedFor`
(`NewcomersVouched`) and `OwnersSession` (`SignedInAsOwner`). Neither is inductive: a completion
carries what it read over five further statements. `MailInv` says what stays true of it meanwhile:
a run past the first statement has a link that was inserted (`OnLink`), asked for with a voucher or
a known email (`AskedRight`); the account it carries is its own or the owner of the email
(`Owned`); past the claim of the email it is the owner (`Made`); past the circle it has joined
(`Joined`); and these hold of the sessions opened (`Through`). `BesideMail` reduces every step of the
other modules to what they leave alone: they change neither links nor the runs that complete them.

The other doors are of the same composition. `Leaves` says what the handlers of one door may change of
another one's state, and `LostOK` that a run is lost at most once.

- `LinkedByOwner` (`LinkedAsApproved`). `CodeInv`: an approved row was approved by a session of its account under the
  label it has now (`ApprovedRight`), and each run that shows, scans, claims, confirms or finishes the link knows
  of it what the row says, but for labels that overlapping claims have changed.
- `InviteBounds` (`InviteAdmits`). `LinkInv` counts beside the admitted accounts the `Hopeful` links, the
  pending ones that may make an account yet; a completion moves a link from the second to the first.
- `DoorsBounded` (`DoorsOpen`), for the links by `LinkInv` and `CodeInv` and for the passkeys by `KeyInv`: a row
  is its credential's (`RowOfKey`); a sign-in is the only one of its credential unless the credential was raced (`Alone`);
  one about to write a counter is ahead of those that wrote (`Ahead`), and what was written is in the row and
  was written once (`Counted`, `Distinct`).
- `EndedStayOut` (`EndedIsOut`), by `ExitInv`: ended sessions are revoked, and so are those a run is about to
  answer for (`OutInv`); into a closed account no session, link or run leads (`ClosedInv`); and no sign-in has found
  a deleted credential (`RetiredInv`). Every step of the four modules is `Orderly`: sessions and codes stay or
  change as `SessionsHold` and `CodesHold` say, and each run stays, starts, goes on or was not started.

**`ClientProofs`** is about the clients. First what they keep and hold:

- `StaleCorrect`. The invariant is `StaleIsBehind` with the shapes of the two maps; the case that matters is
  an entry that is enqueued again, delivered and then passed by an epoch.
- `PhoneKeepsSession` (`PhoneSignedIn`): unless overtaken, the phone's store is the last session signed in to
  and is shown once nothing is under way, a sign-in or sign-out that is under way is alone, and calls carry
  that session.
- `BrowserKeepsSession` (`BrowserSignedIn`): unless tangled, the stored session, those of the runs and those of
  the renewals are all rightful, that is of the last sign-in, or after a sign-out ended or not to be used; a good
  answer to a sign-out means ended.
- `BundleKept` (`BundlesAgree`). `OneBundle`: unless two registrations crossed, a tab that is about to register
  carries the bundle of the record or finds none, and what the relay was given is that bundle.
- `AckedKept` (`AckedIsStored`). `Stored`: an envelope that a tab holds as known or handled is in the table, or it
  is one of those the property excepts (`Knows`, `Handled`, `CacheFine`). `PlaceFound` finds the place of an
  envelope in the list a transaction wrote; `Unacked` is written in closed form for this proof.

**`BackgroundProofs`**:

- `ThreadsUnique` (`OneThread`): runs that are at work know each other (`together` is what the exception is
  written with), and a run which found no thread, or is about to seat its own account, was together with the run
  of every thread that has its two accounts by now.
- `PhoneStaysReachable` (`StaysReachable`): rows, registrations and deliveries hold tokens the phone has had; one
  that FCM turned down is never the phone's again; and while nothing disturbed it, no registration or clearing is
  under way and what is delivered to the device is the current token.
- `FilesAgree` (`FilesAccounted`). `FilesInv`: for each file, row and bytes are there, or the one that is missing
  is accounted for by a run under way (`FileSound`); for each run, what it read still holds or the file was raced
  (`RunSound`); upload tickets are for rows (`TicketsSound`).
- `GroupStaysClosed` (`LegacyCloses`). `ClosedInv`: a write that is under way after the retirement began before it
  (`early`), and once a purge is at its end or done the messages are gone but for those of such writes. Every step meets
  `Closing`: no new write starts, the purge deletes, only a write that began early adds a message.

**`RoomChannelProofs`**:

- `RoomsFollow` (`RoomsAgree`), beside everything `RoomChannel` adds. `RoomInv` adds to it that before the
  founding there is nothing, that a room that is being made has one run that makes it and a policy that was set
  once, and, for what was read earlier, that a run which is to seat an account seats a member, one whose removal
  is under way, or one that the history calls crossed. `BuildersKept` and `StepKeeps` say what a step has to meet
  for that; the steps of the channel are inert (`InertKeeps`).
- `RemovedHear` (`RemovedHearNothing`) and `ReactionsKept` (`ReactionsAgree`), by `ChannelInv`: who is asked or
  reached by a broadcast had access at some time since it began (`CastSound`); an open socket without a seat was
  accepted too late, is still to be asked about, or is in the list of a sweep under way (`Swept`); and a toggle
  under way read what the row says, but for the accounts whose toggles overlapped (`TogglesSound`).

**`SenderKeysProofs`** is about a phone's sends, any number of which may overlap:

- `TypeCorrect`, with `Covered`: a device that is to get the key is listed, loaded or has its envelope.
- `ReadByMembers` (`OnlyMembersRead`), by `MemberInv` and `ReadersInv`. The first ties each list of devices to
  the epoch the send began in: with the current epoch and no removal under way, its accounts are in the group.
  The second holds until sends are in each other's way: one at most has loaded the row (`OneHolds`), and
  carries the row as it is or a new key beside which no text is to be sent (`KeyHeld`); who has the row's
  key is on its list or torn (`RowInv`); what is about to be sent opens only for members (`Waiting`); and
  who can read a text that he was not to read is torn for good (`Excluded`).
- `OpenedByReaders` (`TextsOpen`), by `RatchetsInv` and `SharesInv`, which hold until then as well. An envelope
  under way is the last its ratchet made and unopened (`EnvelopeOK`); who cannot open it has a ratchet that is
  `Faulty`, and stays so. Who is on a key's list has the key, in a state the row has not passed (`Shares`),
  or `Lacks` it; each text that waits has its own place in the chain, which its readers have kept (`Opening`,
  `OwnPlace`). The proof found an exception that the runs had not reached: a device torn by a newer key
  (`Outdated`); TLC then showed the behaviour, and the property and the bounds of `keys` have it now.

**`ClientProofs`**, then about a hosted thread and each of its two clients, with any number of chats, messages
and calls under way:

- `PageFollows` and `PhoneFollows` (`ThreadsAgree`). The property speaks of states in which nothing is under way, so
  the invariant has to say what each thing under way will do. `ThreadSettled`: a list has a message as the relay has it,
  or will have it once the broadcast of its change is heard. `ThreadInv`, the same for both clients, says what
  keeps it so (`MessageOK`): one call and one broadcast at a time are about a message the view must follow
  (`OneCall`, `OneCast`), both tell of the row as it is (`CastTells`, `CallTells`), and a list that is to be shown
  has the message as it is (`ListTells`). `PageInv` and `PhoneThreadInv` add to it that the view is settled, the phone's
  also that the list a text began with is (`PostSettled`), which the text puts back.
- A change heard twice, as answer and as broadcast, makes no difference (`HeardAgain`), and whether a list settles
  a message is a matter of that message alone (`SameAt`): the lemmas `AnswerApplied`, `HeardApplied` and
  `ShownSettles` rest on these. `RelayStep` has the steps of the relay for both clients; what a step may do that
  neither asks for a change nor writes one is `Quiet`.
- `ChatsApart` (`ThreadsApart`). `PhoneApart`: besides the copies and the view, the list of each load and of each
  text is of the chat it was begun in (`ReadApart`, `CallApart`), a load or a change that does not look whether its
  chat was left is one of the chat that is shown, and one visit at a time is current.

**`SyncProofs`** is about the phone's sync, for any streams of the peer, pages, runs, kills and failures. Its one
invariant is `KeptInv /\ (Calm => CalmState) /\ (Steady => WaitState)`, each part inductive beside those before:

- `AckedTextsAreKept` (`AckedIsKept`). `KeptInv`: what a run will acknowledge is in the list it holds until the
  list is saved (`RunSaves`), and a text that was saved stays, or has `Kept` newer ones (`Had`): `HadNewest`
  shows that trimming keeps this, by counting.
- `SavesAreKept` (`SavesStick`). `CalmState`: a device that has started to talk is listed (`Listing`); what could
  be opened at once (`Live`) comes after everything of its device that has been (`Settled`), because a run
  takes the mailbox in order and leaves nothing legible behind (`RunSweeps`); so the copy of a chain that a run
  stores is a step of the one on disk (`RunHolds`), an acknowledged key is in use (`KeysInstalled`), and the list
  that a run saves obeys every deletion it knows (`RunObeys`).
- `NoTextIsLost` (`TextsKept`). `WaitState`: of each device the last key that no kill took can still be opened, or
  is in use (`KeysWait`); a text that waits has such a key, or one in use that has not passed it (`TextsWait`); a
  chain was stepped past nothing but what was sent (`Sent`, so that by `Numbered` no other envelope has used the
  text's number); and in order, while no request fails, a chain in use has passed all that was noted
  under it (`NotedSpent`): `NoneLeft` then shows that a new key finds no text waiting under the old one. Both
  theorems have one lemma per action; a step that moves neither chains nor mailbox is quiet (`QuietWaits`).

The proof changed the properties: `Calm`, `Numbered` and `Orderly` name what the earlier versions of them took from
the streams of the run, and three streams were added for the cases they are about.

Only model-checked, for good: the liveness properties `AbandonedExpires` and `KeepsCatchingUp` (fairness and
ENABLED are beyond the prover).

## 6. Disagreements found

Refuted by a run:

| run | code | text |
|---|---|---|
| `relay_copies` | two overlapping sends of one message both enqueue it; the second insert then fails with 500 | `apps/relay/test/routes.test.ts:842`: "returns a single envelope" |
| `web_sends` | keeping a sent text drops all earlier sent ones: `entry.envelopeId !== message.envelopeId` is false when both are undefined (`relay-workspace.ts:168`) | `page-client.tsx:1839`: "Browser stores decrypted history locally." |
| `phone_signout` | a refresh under way saves and shows the session after `signOut` cleared it | `useAuth.ts:424`: "This device no longer has a relay session." |

Met while modelling; the models have what the code does, and the properties name the exception:

- A full mailbox answers 409 and keeps what it has; `docs/wiki-site/relay.md:80` says "older envelopes
  are evicted" (`OnlyAckOrExpiry` is the opposite).
- Two overlapping removals both write the epoch the first of them read, plus one;
  `docs/operator-playbook.md:14` says "Bumps relay-side group epoch." (`RemovalBumpsEpoch` is checked
  with one removal at a time; with `MaxRemovals = 2` TLC refutes it.)
- Overlapping accepts of a single-use invite all join; `routes.test.ts:2122` says "(no double-spend)".
  `LimitsHold` gives the overshoot.
- A send that ends on a clash of dedup keys queues no wakes for those it delivered to, and the other
  one counts them as duplicates; `docs/android-fcm-setup.md:112` promises wakes for "mailbox deliveries".
- A purge deletes messages before it marks the group, so a send that read the group earlier lands
  after it; `docs/operator-playbook.md:82` says a group "can never be purged while still accepting new
  messages". Tickets and uploads of a retired group are not refused at all.
- A delivery that FCM answers with "unregistered" invalidates the device's token, whichever it is by
  then (`push.ts:164`); other failed wakes are acknowledged and not retried.
- `refreshRelaySession` of the browser keeps the session after a network error "so the caller can decide"
  (`relay.ts:202`); its caller `loadUser` clears it (`store.ts:64`). `BrowserSignedIn` has that exception.
- "Remove from this device" (`MessageContextMenu.tsx:192`) takes a message out of the list that is shown; its
  copy in SQLite stays (`db.ts:482` only writes), and the next list of the relay has it anyway.
- The phone's sign-out takes back its push token and clears its store; it does not revoke its session
  at the relay.

## 7. Not modelled

What the modelled components leave out:

- Groups: minting of invites, previews; history notices; the community and room branches of acceptance
  are in `Communities`. Fan-out: attachments' rows, the text of answers; one run of a handler is shorter
  than the lifetime of an envelope.
- `MailboxSync`: one conversation with one peer, and a device that does not answer, so the ratchet's
  Diffie-Hellman turns do not happen; reactions, version 1 envelopes and local edits. `MaxSkip` is
  respected by the streams; the 1000 skipped keys a chain keeps are never reached.
- `SenderKeys`: relay-hosted sends, attachments, the thread the sender keeps of its own texts, the limit
  of skipped keys, blocks, the sender's own removal, and interleavings inside the relay (`MessageRelay`).
- Sign-in: profiles and queries, the mail queue, the registration of device bundles and the `UPDATE` by
  which a scan takes over a row of its own, the polling of clients.
- Communities: policies and titles, the uses of invites (`GroupMembership`), typing signals, read
  marks (a MAX in one statement), and the coordinator's stored state, which nothing reads.
- Background: web push (one statement per subscription), iOS, reactions and quoted replies of legacy
  groups, `last_accessed_at`, whether the asker of a ticket is a member, the other tables that the
  clean-up empties.
- `WebWorkspace`: several conversations and their lists, a change of device or account, the migration
  of old records, the limits of 2000 messages and 1000 ids, the fallback to localStorage, a registration
  whose request arrives after its page was reloaded, and peers that keep an old bundle cached.
- Threads: the pages of a list (100 messages on the phone, 80 in the browser), the text that a reply
  quotes, attachments and their links, read marks, typing, drafts, a retired group (`LegacyHistory`) and
  membership (`RoomChannel`). A copy in SQLite is saved with the list that is shown; a kill between the
  two leaves an older copy, which the next visit replaces on the screen.
- `PhoneSession`: the start of the app is one step.
- `ClientState`: acknowledged ids, media vault and contact labels, maps that nothing reads.

Not modelled at all:

- The rate limiter gates requests and nothing else; one counter in an object of its own.
- Backups are one pass over the tables, run by hand; the desktop shell is a window around the web client
  and an encrypted file, one command at a time.
- Screens, styling, wording, translations, native notifications, the protocol's types and the shared
  packages have no state that a property would be about; they are most of the lines of the repository.
- Cryptography is a library's: a ciphertext opens exactly for the key and index it was made with.

## 8. Plan

1. (done) Mailbox and contract, groups, fan-out, the phone's sync; sending and sender keys; sign-in by
   its three doors; communities and rooms; attachments, legacy groups, push tokens, threads; what the
   clients keep and show; the proofs of section 5.
2. (done) Proofs: every invariant and action property that a passing run checks has its theorem in section 5.
3. `WebWorkspace` with two conversations, whose lists are saved by separate transactions; the ratchet's turns in `MailboxSync`.
