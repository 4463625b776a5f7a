---------------------------- MODULE MCBackground ----------------------------
(* Two files of which one may be elsewhere; a legacy group with a file and two *)
(* messages; a phone with two sign-ins and two tokens; the threads of three  *)
(* accounts.  One of the four at a time (a scene, fixed at the start), two     *)
(* runs together, three on the phone and the threads.                         *)
EXTENDS LegacyHistory, PushTokens, DirectMessages, TLC

CONSTANTS ann, ben, cho, f1, f2, m1, m2, p1, p2, t1, t2, r1, r2, r3

Symmetry == Permutations(Requests) \cup Permutations(Files) \cup Permutations(Messages)

VARIABLE scene
Scenes == {"files", "history", "phone", "threads"}

FilesSeen == Cardinality({f \in Files : row[f].state # "none"})
Written(m) == message[m] # "none" \/ \E r \in Requests : run[r].on = m
MessagesSeen == Cardinality({m \in Messages : Written(m)})

Scene ==
  /\ scene \in {"files", "history"} => Cardinality(Working) <= 2
  /\ scene = "files" => MessagesSeen = 0 /\ (FilesSeen <= 1 \/ lost \cup Running("download") = {})
  /\ scene = "history" =>
       /\ Running("cleanup") \cup Running("download") = {} /\ FilesSeen <= 1
       /\ FilesSeen + MessagesSeen <= 2 /\ (MessagesSeen <= 1 \/ lost = {})

vars == <<legacyVars, pushVars, threadVars, scene>>

SceneInit ==
  /\ WorkInit /\ FilesInit /\ LegacyInit /\ PushInit /\ ThreadsInit
  /\ scene \in Scenes

SceneNext ==
  /\ \/ /\ scene \in {"files", "history"} /\ LegacyNext
        /\ UNCHANGED <<pushVars, threadVars>>
     \/ /\ scene = "phone" /\ PushNext
        /\ UNCHANGED <<storeVars, groupVars, historyVars, threadVars>>
     \/ /\ scene = "threads" /\ ThreadsNext
        /\ UNCHANGED <<storeVars, groupVars, historyVars, pushVars>>
  /\ scene' = scene

MCSpec == SceneInit /\ [][SceneNext /\ Scene']_vars
=============================================================================
