--------------------------- MODULE ClientSession ---------------------------
(***************************************************************************)
(* The relay's side of the sessions that the browser (WebSession) and the     *)
(* phone (PhoneSession) keep: sign-ins open one, POST /v1/auth/refresh gives   *)
(* a fresh access token to one that is not revoked, under its old id.        *)
(***************************************************************************)
EXTENDS ClientWork

CONSTANT SessionIds     \* sessions the relay opens

ASSUME SessionIdsAssumption == IsFiniteSet(SessionIds) /\ Nobody \notin SessionIds

VARIABLES issued,       \* sessions opened so far
          ended         \* sessions with revoked_at

sessionVars == <<issued, ended>>

SessionInit == issued = {} /\ ended = {}

Unissued == SessionIds \ issued

\* An access token lasts 15 minutes: to a call the relay says no when the token is
\* too old or its session revoked; the call may also fail.
CallAnswers(s) == {"old", "failed"} \cup IF s \in ended THEN {} ELSE {"ok"}
RefreshAnswers(s) == {"failed"} \cup IF s \in ended THEN {"no"} ELSE {"ok"}

\* From another device, or by an operator.
EndElsewhere(s) ==
  /\ s \in issued \ ended
  /\ ended' = ended \cup {s}
  /\ UNCHANGED <<work, issued>>
=============================================================================
