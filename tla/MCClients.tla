------------------------------ MODULE MCClients ------------------------------
(* A browser with two tabs that takes in two envelopes and sends a text; the *)
(* session of a browser with two tabs, and that of a phone, over two sign-ins; *)
(* an outbox of two entries and two conversations; the thread of a phone with a *)
(* hosted and an encrypted chat, and that of a page with two texts.  One of these  *)
(* at a time (a scene, fixed at the start), two runs together.  After an overlap *)
(* that a property excepts, what is under way ends, and nothing more begins, but  *)
(* loads of a thread.                                                     *)
EXTENDS WebWorkspace, WebSession, PhoneSession, ClientState, PhoneThread, WebThread, TLC

CONSTANTS r1, r2, t1, t2, s1, s2, e1, e2, b1, b2, x1, x2, c1, c2, o1, o2,
          hosted, encrypted, m1, m2, n1

MCChatOf == m1 :> hosted @@ m2 :> hosted @@ n1 :> encrypted

Symmetry == Permutations(Runs) \cup Permutations(Tabs) \cup Permutations(SessionIds)
  \cup Permutations(Envelopes) \cup Permutations(Bundles)

VARIABLE scene
Scenes == {"workspace", "browser", "phone", "outbox", "phone thread", "page thread"}

onlyWeb == <<stored, renewal, history>>
onlyPhone == <<kept, shown, latest, overtaken>>
onlyThread == <<threadVars, copyVars>>
onlyWorkspace == <<browser, relaySide, live, used, seen, crowded, crossed>>
vars == <<work, onlyWorkspace, sessionVars, onlyWeb, onlyPhone, clientVars, onlyThread, scene>>

Scene ==
  /\ failures + reloads <= 1
  /\ Cardinality(live) + Cardinality(DOMAIN sealed) <= 3
  /\ Cardinality(Pending) + Cardinality(Renewing) <= 3

\* Threads: one mark of an edit, a reaction or a deletion, one broadcast, one message
\* astray at a time; two loads beside each other where nothing else moves.
Loads == {r \in Pending : work[r].op \notin ThreadOps}
Marks(v) == {x \in Messages \X {"edited", "liked", "gone"} : x[1] \in DOMAIN v /\ v[x[1]][x[2]]}
Marked == Marks(row) \cup UNION {Marks(cached[c]) : c \in Chats}
ThreadScene ==
  /\ Cardinality(loose) <= 1 /\ Cardinality(due \cup air) <= 1 /\ Cardinality(Marked) <= 1
  /\ Cardinality(Loads) > 1 => Marked = {} /\ due = {} /\ air = {}
  /\ scene = "phone thread" => m2 \notin DOMAIN row /\ (row = Nothing \/ cached[encrypted] = Nothing)
OnlyLoads == loose # {} => \A r \in Pending' \ Pending : work'[r].op \notin ThreadOps

Overlapped == crossed \/ crowded # {} \/ (scene = "browser" /\ tangled)
Draining == Overlapped =>
  Pending' \cup Renewing' \subseteq Pending \cup Renewing /\ DOMAIN sealed' = DOMAIN sealed

SceneInit ==
  /\ WorkInit /\ WorkspaceInit /\ SessionInit /\ WebInit /\ PhoneInit /\ ClientInit /\ PhoneThreadInit
  /\ scene \in Scenes

SceneNext ==
  /\ scene' = scene
  /\ \/ /\ scene = "workspace" /\ WorkspaceNext
        /\ UNCHANGED <<sessionVars, onlyWeb, onlyPhone, clientVars, onlyThread>>
     \/ /\ scene = "browser" /\ WebNext
        /\ UNCHANGED <<onlyWorkspace, onlyPhone, clientVars, onlyThread>>
     \/ /\ scene = "phone" /\ PhoneNext
        /\ UNCHANGED <<onlyWorkspace, onlyWeb, clientVars, onlyThread>>
     \/ /\ scene = "outbox" /\ ClientNext
        /\ UNCHANGED <<work, onlyWorkspace, sessionVars, onlyWeb, onlyPhone, onlyThread>>
     \/ /\ scene = "phone thread" /\ PhoneThreadNext /\ ~strayed
        /\ UNCHANGED <<onlyWorkspace, sessionVars, onlyWeb, onlyPhone, clientVars>>
        /\ ThreadScene' /\ OnlyLoads
     \/ /\ scene = "page thread" /\ WebThreadNext
        /\ UNCHANGED <<onlyWorkspace, sessionVars, onlyWeb, onlyPhone, clientVars, copyVars>>
        /\ ThreadScene' /\ OnlyLoads

MCSpec == SceneInit /\ [][SceneNext /\ Scene' /\ Draining]_vars
=============================================================================
