----------------------------- MODULE ClientWork -----------------------------
(***************************************************************************)
(* What the browser and the phone have in common: asynchronous functions of  *)
(* JavaScript that run side by side and give way to each other at every       *)
(* await.  One action is the code from one await to the next; a page that is   *)
(* closed or an app that is killed takes its runs with it.                   *)
(***************************************************************************)
EXTENDS Integers, FiniteSets, Sequences, SequencesExt

CONSTANTS Runs,        \* calls of such functions
          Tabs,        \* tabs of the browser
          Nobody       \* no tab, session, bundle or text

ASSUME WorkAssumption == IsFiniteSet(Runs) /\ Nobody \notin Tabs

VARIABLE work          \* Runs -> what the call does and how far it is

Free == [op |-> "none", pc |-> "free"]

WorkInit == work = [r \in Runs |-> Free]

Pending == {r \in Runs : work[r] # Free}
Doing(r, pc) == work[r].pc = pc
Turn(r, w) == work' = [work EXCEPT ![r] = w]
Step(r, from, to) == Doing(r, from) /\ Turn(r, [work[r] EXCEPT !.pc = to])
Quit(r) == Turn(r, Free)
Lost(rs) == work' = [r \in Runs |-> IF r \in rs THEN Free ELSE work[r]]
=============================================================================
