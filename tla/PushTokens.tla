----------------------------- MODULE PushTokens -----------------------------
(***************************************************************************)
(* The push token of a phone on its way to the relay and back: the app       *)
(* (apps/mobile/src/features/notifications/useNotificationBridge.ts,         *)
(* lib/pushService.ts), the registrations (handlers/devices.ts), and the     *)
(* deliveries of the push queue, which drop a token that FCM no longer knows *)
(* (services/push.ts).                                                      *)
(***************************************************************************)
EXTENDS RelayWork

CONSTANTS DeviceIds,   \* devices of the relay that the phone is, one per sign-in
          Tokens,      \* tokens FCM gives the phone, one after the other
          FirstDevice, FirstToken

ASSUME TokensAssumption == FirstDevice \in DeviceIds /\ FirstToken \in Tokens

VARIABLES phone,       \* the device the app is signed in as, its token, and the run
                       \* it waits for before it listens for a new token
          given,       \* tokens the phone has had
          pushRow,     \* device_push_tokens: the token of a device, and whether
                       \* invalidated_at is empty
          settled      \* whether the current token was registered, with nothing
                       \* since that changes it: "yes", "no", or "disputed" when a
                       \* delivery held an earlier token (history)

pushVars == <<phone, given, pushRow, settled>>

PushInit ==
  /\ phone = [device |-> FirstDevice, token |-> FirstToken, awaits |-> Nothing]
  /\ given = {FirstToken}
  /\ pushRow = [d \in {} |-> Nothing]
  /\ settled = "no"

Registrations == Running("register") \cup Running("clear")

-----------------------------------------------------------------------------
(* The app.                                                                 *)

\* The app starts or signs in as another device: it asks for its token and posts
\* it.  Until that is answered it does not listen for a new token.
StartApp(r, d) ==
  /\ phone' = [phone EXCEPT !.device = d, !.awaits = r]
  /\ Begin(r, "register", "delete", d, phone.token)
  /\ settled' = "no"
  /\ UNCHANGED <<given, pushRow>>

\* Notifications are not allowed any more: the start of the app clears the row.
StartSilent(r) ==
  /\ phone' = [phone EXCEPT !.awaits = r]
  /\ Begin(r, "clear", "delete", phone.device, Nothing)
  /\ settled' = "no"
  /\ UNCHANGED <<given, pushRow>>

\* FCM gives the phone a new token; a listening app posts it.
NewToken(r, t) ==
  /\ t \in Tokens \ given
  /\ given' = given \cup {t} /\ phone' = [phone EXCEPT !.token = t]
  /\ IF phone.awaits = Nothing THEN Begin(r, "register", "delete", phone.device, t) ELSE UNCHANGED workVars
  /\ settled' = "no"
  /\ pushRow' = pushRow

\* The start's request has ended, with whatever answer.
Listen ==
  /\ phone.awaits \in Requests \ Registrations
  /\ phone' = [phone EXCEPT !.awaits = Nothing]
  /\ UNCHANGED <<given, pushRow, settled, workVars>>

-----------------------------------------------------------------------------
(* POST and DELETE /v1/devices/push-token.                                  *)

Without(devices) == [d \in DOMAIN pushRow \ devices |-> pushRow[d]]

ClearedBy(r) == {d \in DOMAIN pushRow : d = run[r].on \/ pushRow[d].token = run[r].with}

DeleteRows(r) ==
  /\ Advance(r, "register", "delete", "insert")
  /\ pushRow' = Without(ClearedBy(r))
  /\ UNCHANGED <<phone, given, settled>>

\* The device is the primary key, and the token is unique.
Conflicts(r) == ClearedBy(r) # {}

HeldTokens == {run[q].with : q \in {p \in Running("wake") : run[p].on = phone.device}}

InsertRow(r) ==
  /\ Finish(r, "register", "insert") /\ ~Conflicts(r)
  /\ pushRow' = [d \in DOMAIN pushRow \cup {run[r].on} |->
                   IF d = run[r].on THEN [token |-> run[r].with, live |-> TRUE] ELSE pushRow[d]]
  /\ settled' = IF <<run[r].on, run[r].with>> # <<phone.device, phone.token>> \/ Registrations # {r}
                THEN settled
                ELSE IF HeldTokens \subseteq {phone.token} THEN "yes" ELSE "disputed"
  /\ UNCHANGED <<phone, given>>

RefuseRow(r) ==
  /\ Finish(r, "register", "insert") /\ Conflicts(r)
  /\ UNCHANGED pushVars

ClearToken(r) ==
  /\ Finish(r, "clear", "delete")
  /\ pushRow' = Without({run[r].on})
  /\ UNCHANGED <<phone, given, settled>>

\* An operator who suspends the account, hands it over or ends its sessions.
RevokeTokens ==
  /\ pushRow' = [d \in DOMAIN pushRow |-> [pushRow[d] EXCEPT !.live = FALSE]]
  /\ settled' = "no"
  /\ UNCHANGED <<phone, given, workVars>>

-----------------------------------------------------------------------------
(* consumeQueue with a push wake, and deliverPushWake.  A wake may come more *)
(* than once; whatever happens to it, deliverAllPushWake lets it be acked.   *)

BeginWake(r, d) ==
  /\ d \in DOMAIN pushRow /\ pushRow[d].live
  /\ Begin(r, "wake", "send", d, pushRow[d].token)
  /\ UNCHANGED pushVars

AnyFailure(t) == IF t = phone.token THEN {"ok", "invalid"} ELSE {"invalid"}   \* faulty
\* FCM knows the phone's current token only, and may fail for other reasons, which
\* isInvalidTokenResponse tells apart.
Answers(t) == IF t = phone.token THEN {"ok", "failed"} ELSE {"invalid", "failed"}

SendWake(r, answer) ==
  /\ answer \in Answers(run[r].with)
  /\ IF answer = "invalid" THEN Advance(r, "wake", "send", "invalidate") ELSE Finish(r, "wake", "send")
  /\ UNCHANGED pushVars

Undeliverable(r) == DOMAIN pushRow \cap {run[r].on}

\* The UPDATE is by the device, whatever its token is now.
Invalidate(r) ==
  /\ Finish(r, "wake", "invalidate")
  /\ pushRow' = [d \in DOMAIN pushRow |->
                   IF d \in Undeliverable(r) THEN [pushRow[d] EXCEPT !.live = FALSE] ELSE pushRow[d]]
  /\ UNCHANGED <<phone, given, settled>>

PushNext ==
  \/ \E r \in Requests :
       \/ \E d \in DeviceIds : StartApp(r, d) \/ BeginWake(r, d)
       \/ \E t \in Tokens : NewToken(r, t)
       \/ StartSilent(r) \/ DeleteRows(r) \/ InsertRow(r) \/ RefuseRow(r) \/ ClearToken(r)
       \/ \E answer \in {"ok", "invalid", "failed"} : SendWake(r, answer)
       \/ Invalidate(r)
       \/ LoseRun(r) /\ UNCHANGED pushVars
  \/ Listen \/ RevokeTokens

PushSpec == WorkInit /\ PushInit /\ [][PushNext]_<<workVars, pushVars>>

-----------------------------------------------------------------------------
(* Properties.                                                              *)

\* A phone whose current token was registered stays within reach: the row of its
\* device holds that token and is in use, whatever wakes of earlier tokens find out,
\* unless one of them was under way when the token was registered.
StaysReachable ==
  settled = "yes" =>
    phone.device \in DOMAIN pushRow /\ pushRow[phone.device] = [token |-> phone.token, live |-> TRUE]
=============================================================================
