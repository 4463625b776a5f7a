------------------------------ MODULE WebThread ------------------------------
(***************************************************************************)
(* The thread of a hosted chat in the browser                              *)
(* (apps/web/src/app/app/chat/[id]/page-client.tsx): loaded while the socket *)
(* opens, and again after each text that is sent or edited.                 *)
(***************************************************************************)
EXTENDS HostedThread

webThreadVars == <<work, threadVars>>

OpenPage(r, c) ==
  /\ picked = Nobody /\ c \in Hosted /\ Doing(r, "free")
  /\ Turn(r, Task("open", "asked", c, Nobody, TRUE))
  /\ picked' = c /\ link' = "connecting"
  /\ UNCHANGED <<row, due, air, view, loose, strayed>>

ShowList(r) ==
  /\ Doing(r, "listed") /\ Quit(r)
  /\ view' = work[r].got
  /\ loose' = Unsettled(view')
  /\ UNCHANGED <<row, due, air, picked, link, strayed>>

\* A first load that fails is not tried again.
FailList(r) ==
  /\ work[r].op \in {"open", "reload"} /\ Doing(r, "asked") /\ Quit(r)
  /\ loose' = IF work[r].op = "open" THEN Messages ELSE loose
  /\ UNCHANGED <<row, due, air, picked, link, view, strayed>>

ActOnPage(r, op, m) ==
  /\ picked = ChatOf[m] /\ (op # "post" => m \in DOMAIN view /\ ~view[m].gone)
  /\ op \in {"edit", "delete"} => m \in Mine
  /\ Ask(r, op, m, TRUE)
  /\ UNCHANGED <<row, due, air, picked, link, view, strayed>>

Reloads == {"post", "edit"}
TakeOnPage(r) ==
  LET w == work[r] IN
  /\ Answered(r)
  /\ Turn(r, IF w.op \in Reloads THEN Task("reload", "asked", w.chat, Nobody, TRUE) ELSE Free)
  /\ view' = IF w.op \in Reloads THEN view ELSE WithChange(view, Event(w))
  /\ UNCHANGED <<row, due, air, picked, link, loose, strayed>>

WebThreadNext ==
  \/ ThreadStep
  \/ \E r \in Runs :
       \/ \E c \in Chats : OpenPage(r, c)
       \/ \E op \in ThreadOps, m \in Messages : ActOnPage(r, op, m)
       \/ ShowList(r) \/ FailList(r) \/ TakeOnPage(r)
  \/ \E e \in air : Hear(e) /\ UNCHANGED loose

WebThreadSpec == WorkInit /\ ThreadInit /\ [][WebThreadNext]_webThreadVars
=============================================================================
