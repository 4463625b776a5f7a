---------------------------- MODULE HostedThread ----------------------------
(***************************************************************************)
(* A thread whose messages the relay keeps, and what one client shows of it: *)
(* the handlers that post, edit, delete and react                           *)
(* (apps/relay/src/handlers/conversations.ts, services/messages.ts), their   *)
(* broadcasts, and the client's list, which answers and broadcasts change.   *)
(* PhoneThread and WebThread are the two clients.                          *)
(***************************************************************************)
EXTENDS ClientWork

CONSTANTS Chats, Messages,
          Hosted,      \* chats with historyMode relay_hosted; the others are device_encrypted
          ChatOf,      \* the chat of each message
          Mine         \* messages of the client's account

ASSUME ThreadAssumption ==
  /\ IsFiniteSet(Messages) /\ Hosted \subseteq Chats /\ Nobody \notin Chats
  /\ ChatOf \in [Messages -> Chats] /\ Mine \subseteq Messages

VARIABLES row,         \* conversation_messages: each message posted, as it is now
          due,         \* broadcasts the coordinator has not begun
          air,         \* broadcasts on their way to the client's socket
          picked,      \* the chat the client has opened
          link,        \* its socket: none, connecting, open
          view,        \* the messages it shows, as it shows them
          loose,       \* messages the view need not follow (history)
          strayed      \* a call that does not look for it was under way when the chat
                       \* was left, or begun when another chat was shown (history)

threadVars == <<row, due, air, picked, link, view, loose, strayed>>

\* One account's reaction stands for all of them (ReactionsAgree has the others).
Fresh == [edited |-> FALSE, liked |-> FALSE, gone |-> FALSE]
Nothing == [m \in {} |-> Fresh]

\* A message that was just sent, and messages put over those of another list.
Just(m) == [n \in {m} |-> Fresh]
Over(f, g) == [m \in DOMAIN f \cup DOMAIN g |-> IF m \in DOMAIN f THEN f[m] ELSE g[m]]

ThreadInit ==
  /\ row = Nothing /\ due = {} /\ air = {} /\ loose = {} /\ strayed = FALSE
  /\ picked = Nobody /\ link = "none" /\ view = Nothing

Live(m) == m \in DOMAIN row /\ ~row[m].gone
In(c) == {m \in Messages : ChatOf[m] = c}

\* loadRelayHostedConversationMessages.
Listing(c) == [m \in {n \in In(c) : Live(n)} |-> row[m]]

\* A call of the client, or a request of another one.
Task(op, pc, c, m, own) ==
  [op |-> op, pc |-> pc, chat |-> c, msg |-> m, own |-> own, liked |-> FALSE, got |-> Nothing, current |-> TRUE]

ThreadOps == {"post", "edit", "delete", "like"}
Touching(m) == {r \in Pending : work[r].op \in ThreadOps /\ work[r].msg = m}
Moving(m) == Touching(m) # {} \/ \E e \in due \cup air : e.msg = m
Sending == {r \in Pending : work[r].op = "post" /\ work[r].own}
Overtakable(m) == \E r \in Pending : m \in In(work[r].chat) /\ work[r].pc \in {"listed", "show"}

-----------------------------------------------------------------------------
(* The handlers.                                                            *)

\* The client, or another one, asks for a change; a text is posted once.
Ask(r, op, m, own) ==
  /\ Doing(r, "free")
  /\ op = "post" => m \notin DOMAIN row /\ Touching(m) = {} /\ (own => m \in Mine /\ Sending = {})
  /\ Turn(r, [Task(op, "asked", IF own THEN picked ELSE ChatOf[m], m, own)
              EXCEPT !.got = IF own /\ op = "post" THEN view ELSE Nothing])
  /\ loose' = IF Moving(m) THEN loose \cup {m} ELSE loose

ElsewhereAsks(r, op, m) ==
  /\ ChatOf[m] \in Hosted /\ (op # "post" => Live(m))
  /\ Ask(r, op, m, FALSE)
  /\ UNCHANGED <<row, due, air, picked, link, view, strayed>>

Asked(r, ops) == Doing(r, "asked") /\ work[r].op \in ops /\ work[r].chat \in Hosted
Found(w) == Live(w.msg) /\ ChatOf[w.msg] = w.chat

AdmitPost(r) ==
  /\ Asked(r, {"post"}) /\ Turn(r, [work[r] EXCEPT !.pc = "write"])
  /\ UNCHANGED threadVars

\* Anything else reads the row first, or answers not found.
AdmitChange(r) ==
  /\ Asked(r, {"edit", "delete"})
  /\ Turn(r, IF Found(work[r]) THEN [work[r] EXCEPT !.pc = "write"] ELSE Free)
  /\ UNCHANGED threadVars

AdmitLike(r) ==
  LET w == work[r] IN
  /\ Asked(r, {"like"})
  /\ Turn(r, IF Found(w) THEN [w EXCEPT !.pc = "write", !.liked = ~row[w.msg].liked] ELSE Free)
  /\ UNCHANGED threadVars

Event(w) == [what |-> w.op, msg |-> w.msg, liked |-> w.liked]

\* The row as it is written; a deletion does not ask whether the row is still there.
Written(w) ==
  CASE w.op = "post"   -> Over(Just(w.msg), row)
    [] w.op = "edit"   -> [row EXCEPT ![w.msg].edited = TRUE]
    [] w.op = "delete" -> [row EXCEPT ![w.msg].gone = TRUE]
    [] w.op = "like"   -> [row EXCEPT ![w.msg].liked = w.liked]

SilentEdit(w) == IF w.op = "edit" THEN due ELSE due \cup {Event(w)}   \* faulty
ToCast(w) == due \cup {Event(w)}

WriteChange(r) ==
  LET w == work[r] IN
  /\ w.pc = "write"
  /\ row' = Written(w) /\ due' = ToCast(w)
  /\ Turn(r, IF w.own THEN [w EXCEPT !.pc = "answer"] ELSE Free)
  /\ loose' = IF Overtakable(w.msg) THEN loose \cup {w.msg} ELSE loose
  /\ UNCHANGED <<air, picked, link, view, strayed>>

\* The answer to a post waits for its broadcast.
Answered(r) ==
  /\ work[r].pc = "answer" /\ work[r].own
  /\ work[r].op = "post" => Event(work[r]) \notin due

\* The client sees a request fail; the handler may have begun, and then goes on.
LoseAsked(r) ==
  /\ work[r].op \in ThreadOps /\ work[r].own
  /\ \/ work[r].pc \in {"asked", "answer"} /\ Quit(r)
     \/ /\ work[r].pc \in {"asked", "write"} /\ work[r].chat \in Hosted
        /\ Turn(r, [work[r] EXCEPT !.own = FALSE])
  /\ UNCHANGED threadVars

\* The coordinator sends to the sockets it has; that it fails is not noticed.
Cast(e) ==
  /\ e \in due /\ due' = due \ {e}
  /\ \/ link = "open" /\ picked = ChatOf[e.msg] /\ air' = air \cup {e} /\ UNCHANGED loose
     \/ loose' = loose \cup {e.msg} /\ UNCHANGED air
  /\ UNCHANGED <<work, row, picked, link, view, strayed>>

-----------------------------------------------------------------------------
(* The client.                                                              *)

\* What the view v is after a broadcast of another client's, or of one's own, change.
WithChange(v, e) ==
  IF e.what = "post" THEN IF e.msg \in DOMAIN v THEN v ELSE Over(Just(e.msg), v)
  ELSE IF e.msg \notin DOMAIN v THEN v
  ELSE CASE e.what = "edit"   -> [v EXCEPT ![e.msg].edited = TRUE]
         [] e.what = "delete" -> [v EXCEPT ![e.msg].gone = TRUE]
         [] e.what = "like"   -> [v EXCEPT ![e.msg].liked = e.liked]

\* onmessage.
Hear(e) ==
  /\ e \in air /\ link = "open" /\ air' = air \ {e}
  /\ view' = WithChange(view, e)
  /\ UNCHANGED <<work, row, due, picked, link, strayed>>

\* Broadcasts under way are lost with the socket.
CutOff == air' = {} /\ loose' = loose \cup {e.msg : e \in air}

Attach ==
  /\ link = "connecting" /\ link' = "open"
  /\ UNCHANGED <<work, row, due, air, picked, view, loose, strayed>>

\* It is opened again after a while; nothing is loaded for that.
Detach ==
  /\ link = "open" /\ link' = "connecting" /\ CutOff
  /\ UNCHANGED <<work, row, due, picked, view, strayed>>

ListRows(r) ==
  /\ Doing(r, "asked") /\ work[r].op \notin ThreadOps /\ work[r].chat \in Hosted
  /\ Turn(r, [work[r] EXCEPT !.pc = "listed", !.got = Listing(work[r].chat)])
  /\ UNCHANGED threadVars

\* The view is replaced by v, and follows again the messages that v has as they are,
\* if no list read earlier is to be shown yet.
Follows(v, m) == IF Live(m) THEN m \in DOMAIN v /\ v[m] = row[m] ELSE m \in DOMAIN v => v[m].gone
Unsettled(v) == loose \ {m \in Messages : Follows(v, m) /\ ~Moving(m) /\ ~Overtakable(m)'}

ThreadStep ==
  \/ \E r \in Runs : \/ \E op \in ThreadOps, m \in Messages : ElsewhereAsks(r, op, m)
                     \/ AdmitPost(r) \/ AdmitChange(r) \/ AdmitLike(r)
                     \/ WriteChange(r) \/ LoseAsked(r) \/ ListRows(r)
  \/ \E e \in due : Cast(e)
  \/ Attach \/ Detach

-----------------------------------------------------------------------------
(* Properties.                                                              *)

\* With its socket open and nothing under way a client shows the messages of a hosted
\* chat as the relay has them, but for those that changed while no socket was open or
\* two changes of them, a list or a text that was being sent were under way beside
\* each other, until they are loaded again.
ThreadsAgree ==
  ~strayed /\ link = "open" /\ due = {} /\ air = {} /\ Pending = {} =>
    \A m \in In(picked) \ loose : Follows(view, m)
=============================================================================
