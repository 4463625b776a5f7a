----------------------------- MODULE PhoneThread -----------------------------
(***************************************************************************)
(* The thread of the phone (apps/mobile/App.tsx, hooks/useSendMessage.ts):   *)
(* one list for whichever chat is selected, the copies in SQLite               *)
(* (lib/db.ts), and the calls that load and change them.  Calls that belong to  *)
(* a visit of a chat look whether it is over; the others do not.            *)
(***************************************************************************)
EXTENDS HostedThread

VARIABLES cached,      \* group_messages_cache of each chat
          polling      \* the interval of an encrypted chat runs

copyVars == <<cached, polling>>
phoneThreadVars == <<work, threadVars, copyVars>>

PhoneThreadInit ==
  /\ ThreadInit /\ cached = [c \in Chats |-> Nothing]
  /\ polling = FALSE

\* saveCachedGroupMessages: an upsert of the messages given.
Saved(c, v) == cached' = [cached EXCEPT ![c] = Over(v, @)]

Visits == {"visit", "poll"}
Unguarded == {r \in Pending : work[r].op = "refresh" \/ (work[r].op \in ThreadOps /\ work[r].own)}
ShowsOther == ~(DOMAIN view \subseteq In(picked))

\* A chat is selected, or the list of groups was refreshed: the visit before is over.
\* The thread stays until there is another, except when a direct message is opened.
Pick(r, c) ==
  /\ Doing(r, "free")
  /\ work' = [q \in Runs |-> IF q = r THEN Task("visit", "cache", c, Nobody, TRUE)
                             ELSE IF q \in Pending /\ work[q].op \in Visits
                             THEN [work[q] EXCEPT !.current = FALSE] ELSE work[q]]
  /\ picked' = c /\ link' = "none" /\ polling' = FALSE /\ CutOff
  /\ view' = view \/ (c \notin Hosted /\ view' = Nothing)
  /\ strayed' = (strayed \/ (c # picked /\ Unguarded # {}))
  /\ UNCHANGED <<row, due, cached>>

\* A text that is being sent puts back the thread it began with.
Replace(v) == view' = v /\ loose' = IF Sending # {} THEN Messages ELSE Unsettled(v)

\* Shown at once if there is any.
ReadCache(r) ==
  LET w == work[r] IN
  /\ Step(r, "cache", "asked")
  /\ IF w.current /\ cached[w.chat] # Nothing THEN Replace(cached[w.chat]) ELSE UNCHANGED <<view, loose>>
  /\ UNCHANGED <<row, due, air, picked, link, strayed, copyVars>>

SaveList(r) ==
  /\ Step(r, "listed", "show") /\ Saved(work[r].chat, work[r].got)
  /\ UNCHANGED <<threadVars, polling>>

\* An encrypted chat is read from the cache, after a run of MailboxSync.
LoadCached(r) ==
  /\ Doing(r, "asked") /\ work[r].op \notin ThreadOps /\ work[r].chat \notin Hosted
  /\ Turn(r, [work[r] EXCEPT !.pc = "show", !.got = cached[work[r].chat]])
  /\ UNCHANGED <<threadVars, copyVars>>

AnyVisit(w) == w.op \in Visits                                        \* faulty
MayShow(w) == w.op \in Visits => w.current

\* A visit goes on with the socket, or with the interval.
ShowThread(r) ==
  LET w == work[r]
      first == w.op = "visit" /\ MayShow(w) IN
  /\ Doing(r, "show") /\ Quit(r)
  /\ IF MayShow(w) THEN Replace(w.got) ELSE UNCHANGED <<view, loose>>
  /\ link' = IF first /\ w.chat \in Hosted THEN "connecting" ELSE link
  /\ polling' = (polling \/ (first /\ w.chat \notin Hosted))
  /\ UNCHANGED <<row, due, air, picked, cached, strayed>>

FailLoad(r) ==
  /\ work[r].op \in Visits \cup {"refresh"} /\ work[r].pc = "asked" /\ Quit(r)
  /\ UNCHANGED <<threadVars, copyVars>>

\* The interval, a push, a picture that could not be loaded.
LoadAgain(r, op) ==
  /\ Doing(r, "free") /\ picked # Nobody /\ (op = "poll" => polling)
  /\ Turn(r, Task(op, "asked", picked, Nobody, TRUE))
  /\ UNCHANGED <<threadVars, copyVars>>

\* MailboxSync has stored a message of another device.
StoreSynced(m) ==
  /\ ChatOf[m] \notin Hosted /\ Touching(m) = {} /\ m \notin DOMAIN cached[ChatOf[m]]
  /\ Saved(ChatOf[m], Just(m))
  /\ UNCHANGED <<work, threadVars, polling>>

-----------------------------------------------------------------------------
(* What the user does in a chat.                                            *)

\* Edits are offered in hosted chats only; what an encrypted one sends is SenderKeys.
Act(r, op, m) ==
  /\ picked # Nobody
  /\ op = "post" => ChatOf[m] = picked /\ \A c \in Chats : m \notin DOMAIN cached[c]
  /\ op # "post" => m \in DOMAIN view /\ ~view[m].gone /\ (op \in {"edit", "delete"} => m \in Mine)
  /\ op = "edit" => picked \in Hosted
  /\ Ask(r, op, m, TRUE)
  /\ strayed' = (strayed \/ ShowsOther)
  /\ UNCHANGED <<row, due, air, picked, link, view, cached, polling>>

Sent(r) ==
  /\ work[r].op \in ThreadOps /\ work[r].chat \notin Hosted /\ Step(r, "asked", "answer")
  /\ UNCHANGED <<threadVars, copyVars>>

\* An encrypted chat toggles what is shown.
Outcome(w) == [Event(w) EXCEPT !.liked = IF w.chat \in Hosted THEN @ ELSE w.msg \in DOMAIN view /\ ~view[w.msg].liked]

\* A text is merged into the list the call began with, any other change into the one
\* that is shown; all of it is saved for the chat the call began in, but for an edit.
Merged(w) == IF w.op = "post" THEN Over(Just(w.msg), w.got) ELSE WithChange(view, Outcome(w))
TakeAnswer(r) ==
  LET w == work[r] IN
  /\ Answered(r) /\ Quit(r)
  /\ view' = Merged(w)
  /\ IF w.op = "edit" THEN UNCHANGED cached ELSE Saved(w.chat, Merged(w))
  /\ UNCHANGED <<row, due, air, picked, link, loose, polling, strayed>>

\* What a broadcast changed is saved for the chat of the socket.
HearOnPhone(e) ==
  /\ Hear(e)
  /\ loose' = loose \cup (IF \E r \in Sending : work[r].msg # e.msg THEN {e.msg} ELSE {})
  /\ IF view' = view /\ e.what # "delete" THEN UNCHANGED cached ELSE Saved(picked, view')
  /\ UNCHANGED <<polling>>

Without(v, m) == [n \in DOMAIN v \ {m} |-> v[n]]

\* "Remove from this device": the rest of the thread is saved, the copy stays.
RemoveHere(m) ==
  /\ m \in DOMAIN view /\ ~view[m].gone
  /\ view' = Without(view, m) /\ Saved(ChatOf[m], view')
  /\ loose' = loose \cup {m}
  /\ UNCHANGED <<work, row, due, air, picked, link, polling, strayed>>

PhoneThreadNext ==
  \/ ThreadStep /\ UNCHANGED copyVars
  \/ \E r \in Runs :
       \/ \E c \in Chats : Pick(r, c)
       \/ \E op \in {"poll", "refresh"} : LoadAgain(r, op)
       \/ \E op \in ThreadOps, m \in Messages : Act(r, op, m)
       \/ ReadCache(r) \/ SaveList(r) \/ LoadCached(r) \/ ShowThread(r) \/ FailLoad(r) \/ Sent(r) \/ TakeAnswer(r)
  \/ \E m \in Messages : StoreSynced(m) \/ RemoveHere(m)
  \/ \E e \in air : HearOnPhone(e)

PhoneThreadSpec == WorkInit /\ PhoneThreadInit /\ [][PhoneThreadNext]_phoneThreadVars

-----------------------------------------------------------------------------
(* Properties.                                                              *)

\* The copies of a chat are its own, and so is the thread once it is loaded, unless
\* the chat was left while a call was under way that does not look.
ThreadsApart ==
  strayed \/ /\ \A c \in Chats : DOMAIN cached[c] \subseteq In(c)
             /\ link # "none" \/ polling => ~ShowsOther
=============================================================================
