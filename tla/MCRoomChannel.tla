---------------------------- MODULE MCRoomChannel ----------------------------
(* The owner and one more account, two rooms; two handlers run at a time, in   *)
(* one of three scenes that is fixed at the start.                            *)
EXTENDS RoomChannel, TLC

CONSTANTS owner, ann, m1, m2, r1, r2, s1, c1, c2

Symmetry == Permutations(Requests) \cup Permutations(Rooms) \cup Permutations(Casts)

Doing(ops) == {r \in Requests : run[r].op \in ops}
Talk == {"post", "react"}
NoSockets == \A s \in Sockets : socket[s].state = "none"
FoundedAlone == Doing({"found"}) # {} => Working \subseteq Doing({"found"})

\* Members and rooms, a run may be lost.
Members == NoSockets /\ Doing(Talk) = {}

\* A socket of the member in the first room or in a second one, while it is
\* removed, loses its access or joins again, and the owner's messages.
Removals == {"remove", "revoke"}
Carried ==
  /\ FoundedAlone /\ lost = {} /\ Doing({"react"}) = {} /\ crossed = {}
  /\ Doing({"post"}) # {} => Working \subseteq Doing({"post"} \cup Removals)
  /\ Cardinality(Doing({"post"})) <= 1 /\ \A r \in Doing({"post"}) : run[r].who = Owner
  /\ Doing(Removals) = {} => Cardinality(Working) <= 1
  /\ \A r \in Doing({"accept"}) : run[r].room = Nothing
  /\ \A s \in Sockets : socket[s].who # Owner
  /\ ended # {} => Working \subseteq Doing({"post"})

Reacted ==
  /\ FoundedAlone /\ lost = {} /\ NoSockets
  /\ Working \subseteq Doing({"found", "react"})

VARIABLE scene
Scenes == {"members", "sockets", "reactions"}

Scene ==
  /\ Cardinality(Working) <= 2
  /\ scene = "members" => Members
  /\ scene = "sockets" => Carried
  /\ scene = "reactions" => Reacted

SceneInit == RoomInit /\ scene \in Scenes
MCSpec ==
  /\ SceneInit
  /\ [][RoomNext /\ scene' = scene /\ Scene']_<<roomVars, scene>>
=============================================================================
