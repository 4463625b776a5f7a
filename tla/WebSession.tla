----------------------------- MODULE WebSession -----------------------------
(***************************************************************************)
(* The session of the browser: one entry of localStorage                    *)
(* (emberchamber.relay.session.v1) that all tabs read and write, a refresh     *)
(* that the requests of a tab share (apps/web/src/lib/relay.ts), and the      *)
(* sign-in, sign-out and loading of the user (lib/store.ts).                 *)
(***************************************************************************)
EXTENDS ClientSession

VARIABLES stored,      \* the session in localStorage
          renewal,     \* inflightRefreshPromise of a tab: the session it was begun for,
                       \* and the relay's answer
          last,        \* the session signed in to last; Nobody after a sign-out (history)
          tangled,     \* that sign-in was beside another run (history)
          unrevoked,   \* sessions whose sign-out had no good answer (history)
          unloaded     \* sessions whose user could not be loaded (history)

history == <<last, tangled, unrevoked, unloaded>>
webVars == <<work, sessionVars, stored, renewal, history>>

NoRenewal == [of |-> Nobody, answer |-> "none"]

WebInit ==
  /\ stored = Nobody /\ renewal = [t \in Tabs |-> NoRenewal]
  /\ last = Nobody /\ tangled = FALSE /\ unrevoked = {} /\ unloaded = {}

Renewing == {t \in Tabs : renewal[t] # NoRenewal}

-----------------------------------------------------------------------------
(* setSession, and storeRelaySession of the passkey button.                  *)

WebSignIn(s) ==
  /\ s \in Unissued /\ issued' = issued \cup {s}
  /\ stored' = s /\ last' = s
  /\ tangled' = (Pending \cup Renewing # {})
  /\ UNCHANGED <<work, ended, renewal, unrevoked, unloaded>>

-----------------------------------------------------------------------------
(* relayFetch, for loadUser and logout. *)

Request(r, t, op) ==
  /\ Doing(r, "free") /\ stored # Nobody
  /\ Turn(r, [op |-> op, pc |-> "request", tab |-> t, with |-> stored, about |-> stored,
              answer |-> "none", again |-> FALSE])
  /\ UNCHANGED <<sessionVars, stored, renewal, history>>

Signed(r) == Doing(r, "request") /\ work[r].op = "logout"

\* A failed DELETE /v1/sessions/:id may have been executed.
Answer(r, answer) ==
  /\ Doing(r, "request") /\ answer \in CallAnswers(work[r].with)
  /\ Turn(r, [work[r] EXCEPT !.pc = "answered", !.answer = answer])
  /\ \/ Signed(r) /\ answer # "old" /\ ended' = ended \cup {work[r].about}
     \/ (Signed(r) => answer # "ok") /\ ended' = ended
  /\ UNCHANGED <<issued, stored, renewal, history>>

\* What the callers do with an answer.
AfterCall(r, ok) ==
  LET out == work[r].op = "logout"
      loses == work[r].op = "load" /\ ~ok IN
  /\ stored' = IF out \/ loses THEN Nobody ELSE stored
  /\ last' = IF out THEN Nobody ELSE last
  /\ unrevoked' = unrevoked \cup {s \in {work[r].about} : out /\ ~ok}
  /\ unloaded' = unloaded \cup {s \in {work[r].about} : loses}

AsksToRenew(r) == work[r].answer = "old" /\ ~work[r].again

Return(r) ==
  /\ Doing(r, "answered") /\ ~AsksToRenew(r)
  /\ Quit(r) /\ AfterCall(r, work[r].answer = "ok")
  /\ UNCHANGED <<sessionVars, tangled, renewal>>

\* refreshRelaySession: a tab has one at a time.
Renewal(t) ==
  renewal' = IF t \in Renewing THEN renewal
             ELSE [renewal EXCEPT ![t] = [of |-> stored, answer |-> "none"]]

\* With nothing stored the refresh fails at once.
Wait(r) ==
  LET t == work[r].tab IN
  /\ Doing(r, "answered") /\ AsksToRenew(r)
  /\ Turn(r, [work[r] EXCEPT !.answer = "failed",
                !.pc = IF t \in Renewing \/ stored # Nobody THEN "wait" ELSE "answered"])
  /\ Renewal(t)
  /\ UNCHANGED <<sessionVars, stored, history>>

\* ensureRelayAccessToken, before a socket is opened, and the first 401 of any other
\* request, which does nothing else to the session.
RenewEarly(t) ==
  /\ stored # Nobody /\ t \notin Renewing
  /\ Renewal(t)
  /\ UNCHANGED <<work, sessionVars, stored, history>>

AnswerRenewal(t, answer) ==
  /\ t \in Renewing /\ renewal[t].answer = "none"
  /\ answer \in RefreshAnswers(renewal[t].of)
  /\ renewal' = [renewal EXCEPT ![t].answer = answer]
  /\ UNCHANGED <<work, sessionVars, stored, history>>

ClearsStored(t) == IF renewal[t].answer = "ok" THEN renewal[t].of ELSE Nobody    \* faulty
\* The session as it was when the refresh began; a failure leaves what is stored.
AfterRenewal(t) == IF renewal[t].answer = "ok" THEN renewal[t].of ELSE stored

\* Whoever waited asks again with what is stored now, or fails.
EndRenewal(t) ==
  LET ok == renewal[t].answer = "ok" IN
  /\ t \in Renewing /\ renewal[t].answer # "none"
  /\ renewal' = [renewal EXCEPT ![t] = NoRenewal]
  /\ stored' = AfterRenewal(t)
  /\ work' = [r \in Runs |->
       IF ~(Doing(r, "wait") /\ work[r].tab = t) THEN work[r]
       ELSE IF ok THEN [work[r] EXCEPT !.pc = "request", !.with = stored', !.again = TRUE]
       ELSE [work[r] EXCEPT !.pc = "answered", !.answer = "failed"]]
  /\ UNCHANGED <<sessionVars, history>>

CloseTab(t) ==
  /\ Lost({r \in Pending : work[r].tab = t})
  /\ renewal' = [renewal EXCEPT ![t] = NoRenewal]
  /\ UNCHANGED <<sessionVars, stored, history>>

WebNext ==
  \/ \E s \in SessionIds :
       \/ WebSignIn(s)
       \/ EndElsewhere(s) /\ UNCHANGED <<stored, renewal, history>>
  \/ \E r \in Runs :
       \/ \E t \in Tabs, op \in {"load", "logout"} : Request(r, t, op)
       \/ \E answer \in {"ok", "old", "failed"} : Answer(r, answer)
       \/ Return(r) \/ Wait(r)
  \/ \E t \in Tabs :
       \/ RenewEarly(t) \/ EndRenewal(t) \/ CloseTab(t)
       \/ \E answer \in {"ok", "no", "failed"} : AnswerRenewal(t, answer)

WebSpec == WorkInit /\ SessionInit /\ WebInit /\ [][WebNext]_webVars

-----------------------------------------------------------------------------
(* Properties.                                                              *)

\* Whatever refreshes of several tabs write back, the browser holds the session it
\* signed in to last, or none once its user could not be loaded; after a sign-out it
\* holds none, or one that the relay ended, unless the relay could not be reached.
\* A sign-in beside a run of an earlier session is excepted.
BrowserSignedIn ==
  \/ tangled
  \/ IF last = Nobody THEN stored \in {Nobody} \cup ended \cup unrevoked
     ELSE stored = last \/ (stored = Nobody /\ last \in unloaded)
=============================================================================
