----------------------------- MODULE RelayWork -----------------------------
(***************************************************************************)
(* The handler runs and queue consumptions of the modules Attachments,      *)
(* PushTokens and DirectMessages: a run of awaited statements on D1, R2 or   *)
(* a service.  One action is one statement with the code up to the next.    *)
(***************************************************************************)
EXTENDS Integers, FiniteSets

CONSTANTS Requests,   \* handler runs
          Nothing,    \* a field that is not in use
          MaxLost     \* bound of the model: runs that are cut short

ASSUME WorkAssumption == IsFiniteSet(Requests) /\ MaxLost \in Nat

VARIABLES run,    \* what each run does, is about to do, and read so far
          lost    \* runs cut short

workVars == <<run, lost>>

NotStarted == [op |-> "none", pc |-> "idle", on |-> Nothing, with |-> Nothing, todo |-> {}]

WorkInit == run = [r \in Requests |-> NotStarted] /\ lost = {}

Working == {r \in Requests \ lost : run[r].pc # "idle"}
Running(op) == {r \in Working : run[r].op = op}

\* A request that is refused before it changes anything is no step.
Begin(r, op, pc, on, with) ==
  /\ r \notin lost /\ run[r].pc = "idle"
  /\ run' = [run EXCEPT ![r] = [op |-> op, pc |-> pc, on |-> on, with |-> with, todo |-> {}]]
  /\ lost' = lost

At(r, op, pc) == r \notin lost /\ run[r].op = op /\ run[r].pc = pc

\* r has executed its statement "from" and goes on with what run q says.
Go(r, op, from, q) == At(r, op, from) /\ run' = [run EXCEPT ![r] = q] /\ lost' = lost
Advance(r, op, from, to) == Go(r, op, from, [run[r] EXCEPT !.pc = to])
Finish(r, op, from) == Go(r, op, from, NotStarted)

\* A run is cut short between two statements.
LoseRun(r) ==
  /\ r \in Working /\ Cardinality(lost) < MaxLost
  /\ lost' = lost \cup {r} /\ run' = run
=============================================================================
