---------------------------- MODULE Communities ----------------------------
(***************************************************************************)
(* A community and its rooms (apps/relay/src/handlers/conversations.ts and  *)
(* services/conversations.ts, services/invites.ts).  The members of the     *)
(* community itself (the hall) and of each room are rows of their own: rooms *)
(* for all members are kept in step by the handlers, statement by statement. *)
(* No handler makes an admin, so the owner is the only organizer, and nobody *)
(* can remove the owner.                                                    *)
(***************************************************************************)
EXTENDS Integers, FiniteSets

CONSTANTS People,      \* accounts
          Owner,       \* the one that creates the community
          Rooms,       \* ids of rooms; each is created at most once
          Requests,    \* handler runs
          Nothing,     \* a field of a run that is not in use
          MaxLost      \* bound of the model: handlers that are cut short

ASSUME CommunityAssumption ==
  /\ IsFiniteSet(People) /\ IsFiniteSet(Rooms) /\ IsFiniteSet(Requests)
  /\ Owner \in People /\ Nothing \notin People \cup Rooms
  /\ People \cap Rooms = {} /\ MaxLost \in Nat

VARIABLES community,   \* whether the row of the community exists
          hall,        \* its active members
          policy,      \* room_access_policy of each room that exists
          seats,       \* the active members of each room
          run,         \* the handler runs
          lost,        \* runs cut short
          crossed,     \* accounts that a run was still to seat when their removal
                       \* cleared the rooms (history)
          missed       \* accounts back in the hall when their removal cleared the
                       \* rooms, or let in by a founding after a room was filled
                       \* (history)

memberVars == <<community, hall, policy, seats, crossed, missed>>
communityVars == <<memberVars, run, lost>>

NotStarted == [op |-> "none", pc |-> "idle", who |-> Nothing, room |-> Nothing,
               access |-> "none", todo |-> {}]

Init ==
  /\ community = FALSE /\ hall = {}
  /\ policy = [m \in Rooms |-> "absent"] /\ seats = [m \in Rooms |-> {}]
  /\ run = [r \in Requests |-> NotStarted]
  /\ lost = {} /\ crossed = {} /\ missed = {}

Working == {r \in Requests \ lost : run[r].pc # "idle"}
At(r, op, pc) == r \notin lost /\ run[r].op = op /\ run[r].pc = pc
Goto(r, pc) == run' = [run EXCEPT ![r].pc = pc]
Leave(r) == run' = [run EXCEPT ![r] = NotStarted]

\* A request that is refused before it changes anything is no step.
Begin(r, op, pc, who, room, access, todo) ==
  /\ r \notin lost /\ run[r].pc = "idle"
  /\ run' = [run EXCEPT ![r] = [op |-> op, pc |-> pc, who |-> who, room |-> room,
                                access |-> access, todo |-> todo]]
  /\ UNCHANGED lost

Created == {m \in Rooms : policy[m] # "absent"}
OpenRooms == {m \in Rooms : policy[m] = "all_members"}

\* upsertConversationMember
Seat(m, a) == seats' = [seats EXCEPT ![m] = @ \cup {a}]

-----------------------------------------------------------------------------
(* POST /v1/communities and POST /v1/communities/:id/rooms                  *)

BeginFound(r, m, others) ==
  /\ ~community /\ community' = TRUE
  /\ Begin(r, "found", "hall", Nothing, m, "all_members", others \cup {Owner})
  /\ UNCHANGED <<hall, policy, seats, crossed, missed>>

\* The owner is the first of the list.
LetIn(r, a) ==
  /\ At(r, "found", "hall")
  /\ a \in run[r].todo /\ (Owner \in run[r].todo => a = Owner)
  /\ hall' = hall \cup {a}
  /\ run' = [run EXCEPT ![r].todo = @ \ {a},
                        ![r].pc = IF run[r].todo = {a} THEN "insert" ELSE @]
  /\ missed' = IF OpenRooms # {} THEN missed \cup {a} ELSE missed
  /\ UNCHANGED <<community, policy, seats, crossed, lost>>

Chosen(access, named) == IF access = "restricted" THEN named ELSE {}

BeginRoom(r, m, access, named) ==
  /\ Owner \in hall /\ named \subseteq hall
  /\ policy[m] = "absent" /\ \A q \in Requests : run[q].room # m
  /\ Begin(r, "room", "insert", Nothing, m, access, Chosen(access, named))
  /\ UNCHANGED memberVars

\* createCommunityRoom: the row of the room, then the members of the community,
\* then a row for each that gets a seat.
InsertRoom(r) ==
  /\ At(r, "found", "insert") \/ At(r, "room", "insert")
  /\ policy' = [policy EXCEPT ![run[r].room] = run[r].access]
  /\ Goto(r, "read")
  /\ UNCHANGED <<community, hall, seats, crossed, missed, lost>>

Seated(r) ==
  IF run[r].access = "all_members" THEN hall ELSE (hall \cap {Owner}) \cup run[r].todo

ReadHall(r) ==
  /\ At(r, "found", "read") \/ At(r, "room", "read")
  /\ run' = [run EXCEPT ![r].pc = "seat", ![r].todo = Seated(r)]
  /\ UNCHANGED <<memberVars, lost>>

SeatMember(r, a) ==
  /\ At(r, "found", "seat") \/ At(r, "room", "seat")
  /\ a \in run[r].todo /\ Seat(run[r].room, a)
  /\ run' = [run EXCEPT ![r].todo = IF @ = {a} THEN {run[r].room} ELSE @ \ {a},
                        ![r].pc = IF run[r].todo = {a} THEN "sync" ELSE @]
  /\ UNCHANGED <<community, hall, policy, crossed, missed, lost>>

-----------------------------------------------------------------------------
(* acceptConversationInviteByTokenHash, for an account that holds an active  *)
(* invite to the community, or through it to room m (GroupMembership models  *)
(* the count and the cap of an invite).                                     *)

BeginAccept(r, a, m) ==
  /\ community /\ m \in Created \cup {Nothing}
  /\ Begin(r, "accept", IF a \in hall THEN "role" ELSE "join", a, m, "none", {})
  /\ UNCHANGED memberVars

JoinHall(r) ==
  /\ At(r, "accept", "join")
  /\ hall' = hall \cup {run[r].who}
  /\ Goto(r, "role")
  /\ UNCHANGED <<community, policy, seats, crossed, missed, lost>>

\* syncCommunityMemberIntoAllMemberRooms: not found if removed in the meantime.
ReadRole(r) ==
  /\ At(r, "accept", "role")
  /\ IF run[r].who \in hall THEN Goto(r, "list") ELSE Leave(r)
  /\ UNCHANGED <<memberVars, lost>>

AfterRooms(r) == IF run[r].room = Nothing THEN "end" ELSE "target"

ListRooms(r) ==
  /\ At(r, "accept", "list")
  /\ run' = [run EXCEPT ![r].todo = OpenRooms,
                        ![r].pc = IF OpenRooms = {} THEN AfterRooms(r) ELSE "enter"]
  /\ missed' = missed \ {run[r].who}
  /\ UNCHANGED <<community, hall, policy, seats, crossed, lost>>

EnterRoom(r, m) ==
  /\ At(r, "accept", "enter")
  /\ m \in run[r].todo /\ Seat(m, run[r].who)
  /\ run' = [run EXCEPT ![r].todo = @ \ {m},
                        ![r].pc = IF run[r].todo = {m} THEN AfterRooms(r) ELSE @]
  /\ UNCHANGED <<community, hall, policy, crossed, missed, lost>>

ReadTarget(r) ==
  /\ At(r, "accept", "target")
  /\ Goto(r, IF run[r].who \in seats[run[r].room] THEN "end" ELSE "seat")
  /\ UNCHANGED <<memberVars, lost>>

EnterTarget(r) ==
  /\ At(r, "accept", "seat")
  /\ Seat(run[r].room, run[r].who)
  /\ Goto(r, "end")
  /\ UNCHANGED <<community, hall, policy, crossed, missed, lost>>

\* The use is counted.
AnswerAccept(r) == At(r, "accept", "end") /\ Leave(r) /\ UNCHANGED <<memberVars, lost>>

-----------------------------------------------------------------------------
(* .../rooms/:room/members/:account/add and /remove                         *)

\* ensureRestrictedRoomMembership
Grantable(a, m) == policy[m] = "restricted" /\ a \in hall

BeginGrant(r, a, m) ==
  /\ Owner \in hall /\ Grantable(a, m)
  /\ Begin(r, "grant", "seat", a, m, "none", {m})
  /\ UNCHANGED memberVars

SeatGranted(r) ==
  /\ At(r, "grant", "seat")
  /\ Seat(run[r].room, run[r].who)
  /\ Goto(r, "sync")
  /\ UNCHANGED <<community, hall, policy, crossed, missed, lost>>

BeginRevoke(r, a, m) ==
  /\ Owner \in hall /\ policy[m] = "restricted" /\ a # Owner
  /\ Begin(r, "revoke", "clear", a, m, "none", {m})
  /\ UNCHANGED memberVars

ClearSeat(r) ==
  /\ At(r, "revoke", "clear")
  /\ seats' = [seats EXCEPT ![run[r].room] = @ \ {run[r].who}]
  /\ Goto(r, "sync")
  /\ UNCHANGED <<community, hall, policy, crossed, missed, lost>>

-----------------------------------------------------------------------------
(* POST /v1/communities/:id/members/:account/remove                         *)

BeginRemove(r, a) ==
  /\ Owner \in hall /\ a \in hall \ {Owner}
  /\ Begin(r, "remove", "hall", a, Nothing, "none", {})
  /\ UNCHANGED memberVars

LeaveHall(r) ==
  /\ At(r, "remove", "hall")
  /\ hall' = hall \ {run[r].who}
  /\ Goto(r, "affected")
  /\ UNCHANGED <<community, policy, seats, crossed, missed, lost>>

\* removeMemberFromCommunityRooms reads the rooms whose sockets it will sync,
\* and then clears the seats in all rooms that exist.
ReadAffected(r) ==
  /\ At(r, "remove", "affected")
  /\ run' = [run EXCEPT ![r].pc = "rooms", ![r].todo = Created]
  /\ UNCHANGED <<memberVars, lost>>

\* A run has read that a is in the hall and is to seat it somewhere.
ToSeat(r, a) ==
  \/ run[r].op \in {"found", "room"} /\ a \in run[r].todo /\ run[r].pc \in {"insert", "read", "seat"}
  \/ run[r].who = a /\ \/ run[r].op = "accept" /\ run[r].pc \in {"list", "enter", "target", "seat"}
                       \/ run[r].op = "grant" /\ run[r].pc = "seat"

ClearedOpenOnly(a) ==                                                \* faulty
  [m \in Rooms |-> IF policy[m] = "all_members" THEN seats[m] \ {a} ELSE seats[m]]
Cleared(a) == [m \in Rooms |-> seats[m] \ {a}]

LeaveRooms(r) ==
  /\ At(r, "remove", "rooms")
  /\ LET a == run[r].who IN
     /\ seats' = Cleared(a)
     /\ crossed' = IF \E q \in Working : ToSeat(q, a) THEN crossed \cup {a} ELSE crossed \ {a}
     /\ missed' = IF a \in hall THEN missed \cup {a} ELSE missed
  /\ IF run[r].todo = {} THEN Leave(r) ELSE Goto(r, "sync")
  /\ UNCHANGED <<community, hall, policy, lost>>

\* A handler is cut short between two statements.
LoseRun(r) ==
  /\ r \in Working /\ Cardinality(lost) < MaxLost
  /\ lost' = lost \cup {r}
  /\ UNCHANGED <<memberVars, run>>

CommunityStep(r) ==
  \/ \E m \in Rooms :
       \/ \E others \in SUBSET (People \ {Owner}) : BeginFound(r, m, others)
       \/ \E named \in SUBSET People, access \in {"all_members", "restricted"} :
            BeginRoom(r, m, access, named)
       \/ \E a \in People : BeginAccept(r, a, m) \/ BeginGrant(r, a, m) \/ BeginRevoke(r, a, m)
       \/ EnterRoom(r, m)
  \/ \E a \in People : \/ LetIn(r, a) \/ SeatMember(r, a)
                       \/ BeginAccept(r, a, Nothing) \/ BeginRemove(r, a)
  \/ InsertRoom(r) \/ ReadHall(r)
  \/ JoinHall(r) \/ ReadRole(r) \/ ListRooms(r) \/ ReadTarget(r) \/ EnterTarget(r)
  \/ AnswerAccept(r) \/ SeatGranted(r) \/ ClearSeat(r)
  \/ LeaveHall(r) \/ ReadAffected(r) \/ LeaveRooms(r) \/ LoseRun(r)

-----------------------------------------------------------------------------
(* Properties.                                                              *)

\* a is out of the hall and not yet out of the rooms, for good if the run is lost.
BeingRemoved(a) ==
  \E r \in Requests : run[r].who = a /\ run[r].op = "remove" /\ run[r].pc \in {"affected", "rooms"}

\* Who has a seat in a room is in the community, or is being removed, or was
\* removed while an accept, a grant or the creation of a room had read that it is
\* a member.  A room tests only its own seats, so such an account goes on reading.
RoomsWithin ==
  \A m \in Rooms : \A a \in seats[m] \ hall : BeingRemoved(a) \/ a \in crossed

\* r has not come to seat a in room m, and never does if it is lost.
YetToSeat(r, a, m) ==
  \/ run[r].op \in {"found", "room"} /\ run[r].room = m /\ run[r].pc = "read"
  \/ run[r].op \in {"found", "room"} /\ run[r].room = m /\ run[r].pc = "seat" /\ a \in run[r].todo
  \/ run[r].op = "accept" /\ run[r].who = a
     /\ (run[r].pc \in {"role", "list"} \/ (run[r].pc = "enter" /\ m \in run[r].todo))

\* A member has a seat in every room for all members, however its joining and the
\* creation of the room interleave, unless one of the two is not over or was lost,
\* or it was removed and joined again at the same time.
RoomsComplete ==
  \A a \in hall : \A m \in OpenRooms :
    a \in seats[m] \/ a \in missed \/ \E r \in Requests : YetToSeat(r, a, m)

\* Rooms follow the community: nobody has a seat who should not, nobody lacks one who
\* should, but for the requests under way and the races named above.
RoomsAgree == RoomsWithin /\ RoomsComplete
=============================================================================
