------------------------------- MODULE SignIn -------------------------------
(***************************************************************************)
(* The three doors into an account and the ways out of it, over one table   *)
(* of sessions.                                                             *)
(***************************************************************************)
EXTENDS MagicLinks, DeviceLinks, Passkeys

VARIABLE closed   \* accounts all of whose sessions were ended while no door of
                  \* theirs stood ajar, until one is opened again (history)

vars == <<sessionVars, linkVars, qrVars, keyVars, closed>>

\* A link to account a is in its mailbox or being completed, or a passkey is
\* being used.
DoorOpen(a) ==
  \/ \E l \in Links : challenge[l].state \in {"insert", "open"} /\ Known(challenge[l].email)
                     /\ owner[challenge[l].email] = a
  \/ Running("complete") \cup Running("verify") # {}

\* A device link of a is approved, or a request of one of its sessions is under way.
Lingering(a) ==
  \/ \E c \in DOMAIN qr : qr[c].account = a /\ qr[c].approver # Nothing /\ ~qr[c].consumed
  \/ Running("finish") # {}
  \/ \E r \in Working : run[r].by # Nothing /\ session[run[r].by].account = a

\* This step ends all of the account's sessions.
EndsAll(r) ==
  /\ run[r].op \in {"suspend", "handoff", "end-all"}
  /\ run[r].pc = "revoke" /\ run'[r].pc = "answer"

Watch ==
  closed' = {a \in closed \cup {run[r].account : r \in {q \in Requests : EndsAll(q)}} :
               ~DoorOpen(a)' /\ (a \in closed \/ ~Lingering(a))}

SignInInit == Init /\ LinkInit /\ QrInit /\ KeysInit /\ closed = {}

SignInNext ==
  /\ \/ SessionNext /\ UNCHANGED <<linkVars, qrVars, keyVars>>
     \/ MagicNext /\ UNCHANGED <<qrVars, keyVars>>
     \/ CodeNext /\ UNCHANGED <<linkVars, keyVars>>
     \/ KeyNext /\ UNCHANGED <<linkVars, qrVars>>
  /\ Watch

SignInSpec == SignInInit /\ [][SignInNext]_vars

-----------------------------------------------------------------------------
(* Properties.                                                              *)

\* A link, a device link and a challenge open as many sessions as requests that
\* use them overlap, and the count of an authenticator opens one.
DoorsOpen == LinkOpens /\ DeviceLinkOpens /\ PasskeyOpens /\ CountsDistinct

\* When an operator has ended all sessions of an account and nothing of it was
\* under way, none of its devices gets in by a refresh or by linking another one,
\* before somebody uses its mailbox or a passkey.
ClosedHasNoSession ==
  \A a \in closed : \A s \in DOMAIN session :
    session[s].account = a => ~Refreshable(s)

\* What was ended stays out: closed accounts have no session, a device that was signed
\* out approves no other device, and a deleted passkey opens nothing, unless a request
\* of theirs was under way at the time.
EndedIsOut ==
  [][/\ ClosedHasNoSession'
     /\ \A s \in out : ~Approves(s)
     /\ \A k \in retired : ~Opens(k)]_vars
=============================================================================
