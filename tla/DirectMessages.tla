--------------------------- MODULE DirectMessages ---------------------------
(***************************************************************************)
(* Opening the thread of two accounts, POST /v1/dm/open of                  *)
(* apps/relay/src/handlers/conversations.ts: it looks for one and makes one  *)
(* in two statements when there is none.                                    *)
(***************************************************************************)
EXTENDS RelayWork

CONSTANTS People,    \* accounts
          Blocked    \* pairs that a block keeps apart (the relay writes no blocks)

ASSUME PeopleAssumption == IsFiniteSet(People) /\ Blocked \subseteq SUBSET People

VARIABLES thread,     \* conversations, by the run that made them: who asked for it,
                      \* and the accounts seated
          together    \* pairs of runs, of those at work and those that made a thread,
                      \* that were under way at the same time (history)

threadVars == <<thread, together>>

ThreadsInit == thread = [t \in {} |-> Nothing] /\ together = {}

BeginOpen(r, a, b) ==
  /\ a # b /\ {a, b} \notin Blocked
  /\ r \notin DOMAIN thread
  /\ Begin(r, "open", "find", a, b)
  /\ thread' = thread

Between(r) == {run[r].on, run[r].with}
Made(r) ==                                                            \* faulty
  {t \in DOMAIN thread : thread[t].by = run[r].on /\ run[r].with \in thread[t].seats}
Threads(r) == {t \in DOMAIN thread : Between(r) \subseteq thread[t].seats}

FindThread(r) ==
  /\ IF Threads(r) = {} THEN Advance(r, "open", "find", "insert") ELSE Finish(r, "open", "find")
  /\ thread' = thread

Seat(r, accounts) ==
  thread' = [t \in DOMAIN thread \cup {r} |-> IF t = r THEN [by |-> run[r].on, seats |-> accounts]
                                               ELSE thread[t]]

InsertThread(r) ==
  /\ Advance(r, "open", "insert", "seats") /\ Seat(r, {})

InsertSeats(r) ==
  /\ Finish(r, "open", "seats") /\ Seat(r, Between(r))

ThreadsNext ==
  /\ \E r \in Requests :
       \/ \E a, b \in People : BeginOpen(r, a, b)
       \/ FindThread(r) \/ InsertThread(r) \/ InsertSeats(r)
       \/ LoseRun(r) /\ thread' = thread
  /\ together' = {p \in together : p \subseteq Working' \cup DOMAIN thread'}
       \cup {{q, r} : q, r \in Working'}

ThreadsSpec == WorkInit /\ ThreadsInit /\ [][ThreadsNext]_<<workVars, threadVars>>

\* Two accounts have one thread; two only when the requests that made them overlap.
OneThread ==
  \A q, r \in DOMAIN thread :
    q # r /\ thread[q].seats = thread[r].seats /\ thread[q].seats # {} => {q, r} \in together
=============================================================================
