---------------------------- MODULE PhoneSession ----------------------------
(***************************************************************************)
(* The session of the phone: a copy in the secure store (lib/session.ts) and *)
(* the one the app shows, each changed by an await of its own                *)
(* (apps/mobile/src/features/auth/useAuth.ts).  Every call carries the        *)
(* session it was begun with, and refreshes by itself.                      *)
(***************************************************************************)
EXTENDS ClientSession

VARIABLES kept,        \* the session in the secure store
          shown,       \* the session of the app
          latest,      \* the session signed in to last; Nobody after a sign-out (history)
          overtaken    \* a sign-in or sign-out was beside another call (history)

phoneVars == <<work, sessionVars, kept, shown, latest, overtaken>>

PhoneInit == kept = Nobody /\ shown = Nobody /\ latest = Nobody /\ overtaken = FALSE

Changes == {"in", "out"}
Changing == {r \in Pending : work[r].op \in Changes}

Settled == kept = latest /\ shown = latest

\* The start of a call; a sign-in or sign-out should have the phone for itself.
Begins(r, op, pc, s) ==
  /\ Doing(r, "free")
  /\ Turn(r, [op |-> op, pc |-> pc, with |-> s])
  /\ overtaken' = IF op \in Changes THEN Pending # {} \/ ~Settled ELSE overtaken \/ Changing # {}

\* A magic link or a device link has opened session s.
PhoneSignIn(r, s) ==
  /\ s \in Unissued /\ issued' = issued \cup {s}
  /\ Begins(r, "in", "save", s)
  /\ UNCHANGED <<ended, latest, kept, shown>>

\* signOut first takes back the push token, with the session it shows.
SignOut(r) ==
  /\ shown # Nobody /\ Begins(r, "out", "request", shown)
  /\ UNCHANGED <<sessionVars, latest, kept, shown>>

UseRelay(r) ==
  /\ shown # Nobody /\ Begins(r, "call", "request", shown)
  /\ UNCHANGED <<sessionVars, latest, kept, shown>>

\* A sign-out goes on whatever the answer is.
AfterAnswer(r) == IF work[r].op = "out" THEN [work[r] EXCEPT !.pc = "clear"] ELSE Free

AnswerCall(r, answer) ==
  /\ Doing(r, "request") /\ answer \in CallAnswers(work[r].with)
  /\ Turn(r, IF answer = "old" THEN [work[r] EXCEPT !.pc = "refresh"] ELSE AfterAnswer(r))
  /\ UNCHANGED <<sessionVars, kept, shown, latest, overtaken>>

ClearsKept(r, answer) == IF answer = "no" THEN Nobody ELSE kept           \* faulty
\* "This phone kept its saved session so it can retry refresh".
KeptAfter(r, answer) == kept

\* refreshRelaySession.
AnswerRefresh(r, answer) ==
  /\ Doing(r, "refresh") /\ answer \in RefreshAnswers(work[r].with)
  /\ Turn(r, IF answer = "ok" THEN [work[r] EXCEPT !.pc = "save"] ELSE AfterAnswer(r))
  /\ kept' = KeptAfter(r, answer)
  /\ UNCHANGED <<sessionVars, shown, latest, overtaken>>

\* The second request of a call changes nothing here.
Save(r) ==
  /\ Step(r, "save", "show")
  /\ kept' = work[r].with
  /\ latest' = IF work[r].op = "in" THEN work[r].with ELSE latest
  /\ UNCHANGED <<sessionVars, shown, overtaken>>

Show(r) ==
  /\ Doing(r, "show") /\ Turn(r, AfterAnswer(r))
  /\ shown' = work[r].with
  /\ UNCHANGED <<sessionVars, kept, latest, overtaken>>

Clear(r) ==
  /\ Step(r, "clear", "hide")
  /\ kept' = Nobody /\ latest' = Nobody
  /\ UNCHANGED <<sessionVars, shown, overtaken>>

Hide(r) ==
  /\ Doing(r, "hide") /\ Quit(r)
  /\ shown' = Nobody
  /\ UNCHANGED <<sessionVars, kept, latest, overtaken>>

\* The app is killed, and shows what it finds in the store when it starts.
Restart ==
  /\ Lost(Pending) /\ shown' = kept
  /\ UNCHANGED <<sessionVars, kept, latest, overtaken>>

PhoneNext ==
  \/ \E r \in Runs :
       \/ \E s \in SessionIds : PhoneSignIn(r, s)
       \/ \E answer \in {"ok", "no", "old", "failed"} : AnswerCall(r, answer) \/ AnswerRefresh(r, answer)
       \/ SignOut(r) \/ UseRelay(r) \/ Save(r) \/ Show(r) \/ Clear(r) \/ Hide(r)
  \/ \E s \in SessionIds : EndElsewhere(s) /\ UNCHANGED <<kept, shown, latest, overtaken>>
  \/ Restart

PhoneSpec == WorkInit /\ SessionInit /\ PhoneInit /\ [][PhoneNext]_phoneVars

-----------------------------------------------------------------------------
(* Properties.                                                              *)

\* Through refreshes, failed calls and restarts the phone keeps and shows the session
\* it signed in to last, and none after a sign-out, unless a sign-in or sign-out
\* overlapped another call.
PhoneSignedIn == overtaken \/ Changing # {} \/ Settled

\* Signed out, "this device no longer has a relay session".
SignedOutStays == latest = Nobody /\ Changing = {} => kept = Nobody /\ shown = Nobody
=============================================================================
