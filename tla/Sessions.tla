------------------------------ MODULE Sessions ------------------------------
(***************************************************************************)
(* The rows of sessions and what ends or renews them                        *)
(* (apps/relay/src/services/session.ts, middleware/auth.ts and the sign-out *)
(* handlers of me.ts, operator.ts and admin.ts).  The modules of the doors  *)
(* (MagicLinks, DeviceLinks, Passkeys) extend this one and open sessions.   *)
(* A handler is a run of awaited D1 statements; one action is one statement *)
(* with the code up to the next one.                                        *)
(***************************************************************************)
EXTENDS Integers, FiniteSets, Functions

CONSTANTS Founders,       \* accounts that exist at the start
          Requests,       \* handler runs
          FirstSessions,  \* sessions that are open at the start
          HolderOf,       \* FirstSessions -> Founders
          Nothing,        \* a field of a run that is not in use
          MaxLost         \* bound of the model: handlers that are cut short

ASSUME SessionsAssumption ==
  /\ IsFiniteSet(Founders) /\ IsFiniteSet(Requests) /\ IsFiniteSet(FirstSessions)
  /\ HolderOf \in [FirstSessions -> Founders]
  /\ Requests \cap (Founders \cup FirstSessions) = {}
  /\ Nothing \notin Founders \cup Requests \cup FirstSessions
  /\ MaxLost \in Nat

\* What run r creates is called r: its session, its device and its account.
SessionIds == FirstSessions \cup Requests
Accounts == Founders \cup Requests

VARIABLES session,     \* sessions: id |-> account, whether revoked_at is set, and age
          suspended,   \* accounts with suspended_at
          run,         \* the handler runs
          lost,        \* runs cut short
          out          \* sessions ended by an answered sign-out while no request
                       \* of theirs was running (history)

sessionVars == <<session, suspended, run, lost, out>>

NotStarted == [op |-> "none", pc |-> "idle", by |-> Nothing, on |-> Nothing,
               account |-> Nothing, seen |-> Nothing]

Init ==
  /\ session = [s \in FirstSessions |->
                  [account |-> HolderOf[s], revoked |-> FALSE, age |-> "fresh"]]
  /\ suspended = {}
  /\ run = [r \in Requests |-> NotStarted]
  /\ lost = {} /\ out = {}

Working == {r \in Requests \ lost : run[r].pc \notin {"idle", "refused", "done"}}
Running(op) == {r \in Working : run[r].op = op}

\* A request that is refused before it changes anything is no step.
Begin(r, op, pc, by, on, account, seen) ==
  /\ r \notin lost /\ run[r].pc = "idle"
  /\ run' = [run EXCEPT ![r] = [op |-> op, pc |-> pc, by |-> by, on |-> on,
                                account |-> account, seen |-> seen]]

At(r, op, pc) == r \notin lost /\ run[r].op = op /\ run[r].pc = pc

\* r has executed its statement "from" and goes on at "to".
Advance(r, op, from, to) == At(r, op, from) /\ run' = [run EXCEPT ![r].pc = to]

\* r is over and left nothing that has its name, which is free again.
Finish(r, op, from) == At(r, op, from) /\ run' = [run EXCEPT ![r] = NotStarted]

-----------------------------------------------------------------------------
(* services/session.ts and middleware/auth.ts                               *)

CreateSession(r, account) ==
  session' = [s \in DOMAIN session \cup {r} |->
                IF s = r THEN [account |-> account, revoked |-> FALSE, age |-> "fresh"]
                ELSE session[s]]

\* requireAccessTokenSession lets a request of s pass.
Usable(s) ==
  /\ s \in DOMAIN session
  /\ ~session[s].revoked /\ session[s].age = "fresh"
  /\ session[s].account \notin suspended

\* expires_at passes, and then the recovery window of last_seen_at.  Both are
\* weeks long: no handler that read the row is still running.
Ages(s) ==
  /\ s \in DOMAIN session /\ session[s].age # "gone"
  /\ \A r \in Working : run[r].by # s
  /\ session' = [session EXCEPT ![s].age = IF @ = "fresh" THEN "lapsed" ELSE "gone"]
  /\ UNCHANGED <<suspended, run, lost, out>>

\* POST /v1/auth/refresh
Refreshable(s) == ~session[s].revoked /\ session[s].age # "gone"

BeginRefresh(r, s) ==
  /\ s \in DOMAIN session /\ Refreshable(s)
  /\ Begin(r, "refresh", "touch", s, Nothing, Nothing, Nothing)
  /\ UNCHANGED <<session, suspended, lost, out>>

TouchSession(r) ==
  /\ Finish(r, "refresh", "touch")
  /\ session' = [session EXCEPT ![run[r].by].age = "fresh"]
  /\ UNCHANGED <<suspended, lost, out>>

-----------------------------------------------------------------------------
(* Signing out: DELETE /v1/sessions/:id for one session; by an operator,    *)
(* suspend, recovery-handoff and revoke-account-sessions for all sessions.  *)

BeginSignOut(r, by, s) ==
  /\ Usable(by) /\ s \in DOMAIN session
  /\ Begin(r, "sign-out", "revoke", by, s, session[by].account, Nothing)
  /\ UNCHANGED <<session, suspended, lost, out>>

BeginSuspend(r, a) ==
  /\ Begin(r, "suspend", "flag", Nothing, Nothing, a, Nothing)
  /\ UNCHANGED <<session, suspended, lost, out>>

Flag(r) ==
  /\ Advance(r, "suspend", "flag", "revoke")
  /\ suspended' = suspended \cup {run[r].account}
  /\ UNCHANGED <<session, lost, out>>

\* A hand-off needs an account with an email (see MagicLinks).
BeginEndAll(r, op, a) ==
  /\ op \in {"handoff", "end-all"}
  /\ Begin(r, op, "revoke", Nothing, Nothing, a, Nothing)
  /\ UNCHANGED <<session, suspended, lost, out>>

EndsFresh(r, s) ==                                                   \* faulty
  /\ session[s].account = run[r].account
  /\ run[r].on \in {s, Nothing} /\ session[s].age = "fresh"
Ends(r, s) ==
  /\ session[s].account = run[r].account
  /\ run[r].on \in {s, Nothing}

Ending == {"sign-out", "suspend", "handoff", "end-all"}

Targets(r) ==
  {s \in DOMAIN session : session[s].account = run[r].account /\ run[r].on \in {s, Nothing}}

\* seen: the sessions that exist now and are to end (history).
RevokeSessions(r) ==
  /\ \E op \in Ending : At(r, op, "revoke")
  /\ run' = [run EXCEPT ![r].pc = "answer", ![r].seen = Targets(r)]
  /\ session' = [s \in DOMAIN session |->
                   IF Ends(r, s) THEN [session[s] EXCEPT !.revoked = TRUE] ELSE session[s]]
  /\ UNCHANGED <<suspended, lost, out>>

\* The sessions that the sign-out r ended for good: no other request of theirs
\* is under way.
EndedBy(r) == {s \in run[r].seen : \A q \in Working \ {r} : run[q].by # s}

AnswerSignOut(r) ==
  /\ \E op \in Ending \ {"handoff"} : Finish(r, op, "answer")
  /\ out' = out \cup EndedBy(r)
  /\ UNCHANGED <<session, suspended, lost>>

\* POST /v1/admin/accounts/:account/unsuspend
BeginUnsuspend(r, a) ==
  /\ a \in suspended
  /\ Begin(r, "unsuspend", "unflag", Nothing, Nothing, a, Nothing)
  /\ UNCHANGED <<session, suspended, lost, out>>

Unflag(r) ==
  /\ Finish(r, "unsuspend", "unflag")
  /\ suspended' = suspended \ {run[r].account}
  /\ UNCHANGED <<session, lost, out>>

\* A handler is cut short between two statements; it is not answered.
LoseRun(r) ==
  /\ r \in Working /\ Cardinality(lost) < MaxLost
  /\ lost' = lost \cup {r}
  /\ UNCHANGED <<session, suspended, run, out>>

SessionStep(r) ==
  \/ \E s \in SessionIds : BeginRefresh(r, s) \/ \E by \in SessionIds : BeginSignOut(r, by, s)
  \/ \E a \in Accounts : \/ BeginSuspend(r, a) \/ BeginUnsuspend(r, a)
                         \/ \E op \in {"handoff", "end-all"} : BeginEndAll(r, op, a)
  \/ TouchSession(r) \/ Flag(r) \/ RevokeSessions(r) \/ AnswerSignOut(r) \/ Unflag(r)
  \/ LoseRun(r)

SessionNext ==
  \/ \E r \in Requests : SessionStep(r)
  \/ \E s \in SessionIds : Ages(s)
=============================================================================
