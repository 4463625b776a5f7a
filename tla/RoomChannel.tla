---------------------------- MODULE RoomChannel ----------------------------
(***************************************************************************)
(* What a room carries: the sockets of its coordinator                      *)
(* (apps/relay/src/do/group-coordinator.ts), the messages and reactions that *)
(* go over them (handlers/conversations.ts, services/messages.ts), and the   *)
(* sweeps that changes of membership ask for.  The coordinator asks D1 about *)
(* one socket after the other and lets other requests in while it waits.    *)
(***************************************************************************)
EXTENDS Communities

CONSTANTS Sockets,     \* connections of clients, each for one session
          Casts        \* requests the coordinators are working on

ASSUME ChannelAssumption ==
  IsFiniteSet(Sockets) /\ IsFiniteSet(Casts) /\ Nothing \notin Sockets \cup Requests

VARIABLES socket,      \* the account and the room of each socket, and its state
          ended,       \* sockets whose session is revoked or has expired
          cast,        \* broadcasts and sweeps
          late,        \* sockets accepted when their account had lost its seat, or in
                       \* a room that its removal did not list (history)
          reactions,   \* who reacted to the first message of each room
          toggled,     \* who did so an odd number of times (history)
          blurred      \* who toggled while another toggle was between its read and
                       \* its write (history)

channelVars == <<socket, ended, cast, late>>
reactionVars == <<reactions, toggled, blurred>>
roomVars == <<communityVars, channelVars, reactionVars>>

NoSocket == [who |-> Nothing, room |-> Nothing, state |-> "none"]
NoCast == [kind |-> "none", room |-> Nothing, by |-> Nothing, todo |-> {},
           asked |-> Nothing, access |-> FALSE, reached |-> {}, eligible |-> {}]

ChannelInit ==
  /\ socket = [s \in Sockets |-> NoSocket] /\ ended = {} /\ late = {}
  /\ cast = [c \in Casts |-> NoCast]
  /\ reactions = [m \in Rooms |-> {}]
  /\ toggled = [m \in Rooms |-> {}] /\ blurred = [m \in Rooms |-> {}]

Open(m) == {s \in Sockets : socket[s].room = m /\ socket[s].state = "open"}
HasSeat(s) == socket[s].room \in Rooms /\ socket[s].who \in seats[socket[s].room]

\* socketHasConversationAccess
HasAccess(s) == HasSeat(s) /\ s \notin ended

\* Every step adds who has access after it to what the casts may still reach.
Follow(casts) ==
  cast' = [c \in Casts |->
    IF casts[c].kind = "none" THEN NoCast
    ELSE [casts[c] EXCEPT !.eligible =
            @ \cup {s \in Sockets : socket[s].room = casts[c].room /\ HasAccess(s)'}]]

-----------------------------------------------------------------------------
(* GET /v1/conversations/:id/ws and the coordinator's /ws                   *)

Connect(s, a, m) ==
  /\ socket[s].state = "none" /\ a \in seats[m]
  /\ socket' = [socket EXCEPT ![s] = [who |-> a, room |-> m, state |-> "opening"]]
  /\ UNCHANGED <<communityVars, ended, late, reactionVars>>
  /\ Follow(cast)

AcceptSocket(s) ==
  /\ socket[s].state = "opening"
  /\ socket' = [socket EXCEPT ![s].state = "open"]
  /\ late' = IF HasSeat(s) THEN late ELSE late \cup {s}
  /\ UNCHANGED <<communityVars, ended, reactionVars>>
  /\ Follow(cast)

Hangup(s) == socket' = [socket EXCEPT ![s].state = "closed"]

\* The client goes away.
Disconnect(s) ==
  /\ socket[s].state = "open" /\ Hangup(s)
  /\ UNCHANGED <<communityVars, ended, late, reactionVars>>
  /\ Follow(cast)

EndSession(s) ==
  /\ socket[s].state \in {"opening", "open"} /\ s \notin ended
  /\ ended' = ended \cup {s}
  /\ UNCHANGED <<communityVars, socket, late, reactionVars>>
  /\ Follow(cast)

-----------------------------------------------------------------------------
(* broadcastToAuthorizedSockets                                             *)

\* The coordinator of m takes a request of r and lists its sockets.
StartCast(c, kind, m, r) ==
  /\ cast[c].kind = "none"
  /\ Follow([cast EXCEPT ![c] = [NoCast EXCEPT !.kind = kind, !.room = m, !.by = r, !.todo = Open(m)]])

OfSession(s) == s \notin ended                                       \* faulty
Authorized(s) == HasAccess(s)

AskSocket(c, s) ==
  /\ cast[c].asked = Nothing /\ s \in cast[c].todo
  /\ UNCHANGED <<communityVars, socket, ended, late, reactionVars>>
  /\ Follow([cast EXCEPT ![c].todo = @ \ {s}, ![c].asked = s, ![c].access = Authorized(s)])

\* The answer is there: the socket is closed, or sent to if it still is open.
TellSocket(c) ==
  LET s == cast[c].asked IN
  /\ s # Nothing
  /\ IF cast[c].access THEN UNCHANGED socket ELSE Hangup(s)
  /\ UNCHANGED <<communityVars, ended, late, reactionVars>>
  /\ Follow([cast EXCEPT ![c].asked = Nothing,
       ![c].reached = IF cast[c].access /\ cast[c].kind = "payload" /\ socket[s].state = "open"
                      THEN @ \cup {s} ELSE @])

EndCast(c) ==
  /\ cast[c].kind # "none" /\ cast[c].todo = {} /\ cast[c].asked = Nothing
  /\ UNCHANGED <<communityVars, socket, ended, late, reactionVars>>
  /\ Follow([cast EXCEPT ![c] = NoCast])

CastsOf(r) == {c \in Casts : cast[c].by = r}

\* syncRelayHostedConversationSockets: /rotate for each room the handler changed.
SyncRoom(r, m) ==
  /\ r \in Working /\ run[r].pc = "sync" /\ m \in run[r].todo
  /\ run' = [run EXCEPT ![r].todo = @ \ {m},
                        ![r].pc = IF run[r].todo = {m} THEN "answer" ELSE @]
  /\ UNCHANGED <<memberVars, lost, socket, ended, late, reactionVars>>
  /\ \E c \in Casts : StartCast(c, "sweep", m, r)

AnswerChange(r) ==
  /\ r \in Working /\ run[r].pc = "answer" /\ CastsOf(r) = {}
  /\ UNCHANGED <<memberVars, lost, socket, ended, late, reactionVars>>
  /\ Leave(r) /\ Follow(cast)

-----------------------------------------------------------------------------
(* POST /v1/conversations/:id/messages and .../reactions                    *)

BeginPost(r, a, m) ==
  /\ a \in seats[m]
  /\ Begin(r, "post", "append", a, m, "none", {})
  /\ UNCHANGED <<memberVars, socket, ended, late, reactionVars>>
  /\ Follow(cast)

\* The message is a row; who loads the room from now on finds it.
AppendMessage(r) ==
  /\ At(r, "post", "append")
  /\ UNCHANGED <<memberVars, lost, socket, ended, late, reactionVars>>
  /\ Goto(r, "cast") /\ Follow(cast)

\* The answer waits for the broadcast, and for the push wakes of the members at
\* that point; that of a toggle waits for neither.
Broadcast(r) ==
  /\ At(r, "post", "cast") \/ At(r, "react", "cast")
  /\ Goto(r, "answer")
  /\ UNCHANGED <<memberVars, lost, socket, ended, late, reactionVars>>
  /\ \E c \in Casts : StartCast(c, "payload", run[r].room, IF run[r].op = "post" THEN r ELSE Nothing)

Toggling(m) == {q \in Working : run[q].op = "react" /\ run[q].room = m /\ run[q].pc = "write"}
Toggle(set, a) == IF a \in set THEN set \ {a} ELSE set \cup {a}

\* The row is read: todo holds what it says.
BeginReact(r, a, m) ==
  /\ a \in seats[m]
  /\ Begin(r, "react", "write", a, m, "none", reactions[m])
  /\ blurred' = [blurred EXCEPT ![m] = IF Toggling(m) = {} THEN @
                                       ELSE @ \cup {a} \cup {run[q].who : q \in Toggling(m)}]
  /\ UNCHANGED <<memberVars, socket, ended, late, reactions, toggled>>
  /\ Follow(cast)

OnlyAdds(r) == run[r].todo \cup {run[r].who}                         \* faulty
NextReactions(r) == Toggle(run[r].todo, run[r].who)

WriteReactions(r) ==
  /\ At(r, "react", "write")
  /\ reactions' = [reactions EXCEPT ![run[r].room] = NextReactions(r)]
  /\ toggled' = [toggled EXCEPT ![run[r].room] = Toggle(@, run[r].who)]
  /\ run' = [run EXCEPT ![r].pc = "cast", ![r].todo = {}]
  /\ UNCHANGED <<memberVars, lost, socket, ended, late, blurred>>
  /\ Follow(cast)

ChannelStep ==
  \/ \E s \in Sockets : \/ \E a \in People, m \in Rooms : Connect(s, a, m)
                        \/ AcceptSocket(s) \/ Disconnect(s) \/ EndSession(s)
                        \/ \E c \in Casts : AskSocket(c, s)
  \/ \E c \in Casts : TellSocket(c) \/ EndCast(c)
  \/ \E r \in Requests, m \in Rooms :
       SyncRoom(r, m) \/ \E a \in People : BeginPost(r, a, m) \/ BeginReact(r, a, m)
  \/ \E r \in Requests : AppendMessage(r) \/ Broadcast(r) \/ WriteReactions(r) \/ AnswerChange(r)

RoomInit == Init /\ ChannelInit

\* Sockets in a room that was not there when the removal r listed the rooms whose
\* seats it clears in this step.
Unlisted(r) ==
  {s \in Sockets : At(r, "remove", "rooms") /\ run'[r].pc # "rooms" /\ r \notin lost'
                   /\ socket[s].who = run[r].who /\ socket[s].room \notin run[r].todo}

ChangeMembers(r) ==
  /\ CommunityStep(r)
  /\ late' = late \cup Unlisted(r)
  /\ UNCHANGED <<socket, ended, reactionVars>>
  /\ Follow(cast)

RoomNext ==
  \/ \E r \in Requests : ChangeMembers(r)
  \/ ChannelStep

RoomSpec == RoomInit /\ [][RoomNext]_roomVars

-----------------------------------------------------------------------------
(* Properties.                                                              *)

\* A message or a reaction reaches only sockets whose account had a seat, with a
\* session, at some time since its broadcast began.
ReachesSeated == \A c \in Casts : cast[c].reached \subseteq cast[c].eligible

\* r took the seat of the account of s away and has not yet had s looked at.
ToSweep(r, s) ==
  /\ run[r].who = socket[s].who
  /\ \/ run[r].op \in {"remove", "revoke"} /\ run[r].pc = "sync" /\ socket[s].room \in run[r].todo
     \/ \E c \in CastsOf(r) : s \in cast[c].todo \cup {cast[c].asked}

\* An account that lost its seat has no open socket in the room once that was
\* answered, except one that was accepted after it had lost it or in a room created
\* during the removal.
SocketsSwept ==
  \A s \in Sockets : socket[s].state = "open" /\ ~HasSeat(s) =>
    s \in late \/ \E r \in Requests : ToSweep(r, s)

RemovedHearNothing == ReachesSeated /\ SocketsSwept

\* The reactions of a message are those that were toggled an odd number of times,
\* but for accounts whose toggle overlapped another one of the message.
ReactionsAgree ==
  \A m \in Rooms : \A a \in People \ blurred[m] : a \in reactions[m] <=> a \in toggled[m]
=============================================================================
