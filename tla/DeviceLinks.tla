---------------------------- MODULE DeviceLinks ----------------------------
(***************************************************************************)
(* Linking a device (apps/relay/src/handlers/devices.ts and                 *)
(* services/device-link.ts).  Either a signed-in device shows a QR code and *)
(* the new device claims it, or the new device shows one and a signed-in    *)
(* device scans it; then a signed-in device confirms and the new device     *)
(* completes.                                                               *)
(***************************************************************************)
EXTENDS Sessions

CONSTANTS RelayCodes,     \* link tokens that the relay makes (source_display)
          DeviceCodes,    \* link tokens that new devices make (target_display)
          Labels,         \* what devices call themselves
          MaxFinishes     \* bound of the model: completions of one link at once

ASSUME DeviceLinksAssumption ==
  /\ IsFiniteSet(RelayCodes) /\ IsFiniteSet(DeviceCodes)
  /\ RelayCodes \cap DeviceCodes = {}
  /\ MaxFinishes \in Nat \ {0}

Codes == RelayCodes \cup DeviceCodes

VARIABLES qr,       \* device_links: token |-> row, if there is one
          lapsed,   \* tokens whose row has expired
          crossed   \* tokens of which two claims have overlapped (history)

qrVars == <<qr, lapsed, crossed>>

QrInit == qr = [c \in {} |-> Nothing] /\ lapsed = {} /\ crossed = {}

HasRow(c) == c \in DOMAIN qr
Row(c) == qr[c]

InsertRow(c, mode, account, label, claimed) ==
  qr' = [d \in DOMAIN qr \cup {c} |->
           IF d = c THEN [mode |-> mode, account |-> account, label |-> label,
                          claimed |-> claimed, approver |-> Nothing, shown |-> Nothing,
                          consumed |-> FALSE]
           ELSE qr[d]]

\* getDeviceLinkState
State(c) ==
  IF c \in lapsed THEN "expired"
  ELSE IF Row(c).consumed THEN "consumed"
  ELSE IF ~Row(c).claimed THEN "pending_claim"
  ELSE IF Row(c).approver = Nothing THEN "pending_approval" ELSE "approved"

\* Ten minutes pass.
CodeLapses(c) ==
  /\ HasRow(c) /\ c \notin lapsed
  /\ lapsed' = lapsed \cup {c}
  /\ UNCHANGED <<qr, crossed, sessionVars>>

-----------------------------------------------------------------------------
(* POST /v1/devices/link/start                                              *)

BeginShow(r, s, c, label) ==
  /\ Usable(s) /\ c \in RelayCodes /\ ~HasRow(c)
  /\ \A q \in Working : run[q].on # c      \* the token is new
  /\ Begin(r, "show", "insert", s, c, session[s].account, label)
  /\ UNCHANGED <<qrVars, session, suspended, lost, out>>

InsertShown(r) ==
  /\ Finish(r, "show", "insert")
  /\ InsertRow(run[r].on, "source_display", run[r].account, run[r].seen, FALSE)
  /\ UNCHANGED <<lapsed, crossed, session, suspended, lost, out>>

-----------------------------------------------------------------------------
(* POST /v1/devices/link/scan; the token and the label are the new device's *)

BeginScan(r, s, c, label) ==
  /\ Usable(s) /\ c \in DeviceCodes
  /\ Begin(r, "scan", "find", s, c, session[s].account, label)
  /\ UNCHANGED <<qrVars, session, suspended, lost, out>>

\* A row that is there is the scanner's own from an earlier scan, with this
\* label, or the scan is refused.
FindScanned(r) ==
  /\ IF HasRow(run[r].on) THEN Finish(r, "scan", "find") ELSE Advance(r, "scan", "find", "insert")
  /\ UNCHANGED <<qrVars, session, suspended, lost, out>>

\* link_token_hash is UNIQUE: the second INSERT fails.
InsertScanned(r) ==
  /\ Finish(r, "scan", "insert")
  /\ IF HasRow(run[r].on) THEN UNCHANGED qr
     ELSE InsertRow(run[r].on, "target_display", run[r].account, run[r].seen, TRUE)
  /\ UNCHANGED <<lapsed, crossed, session, suspended, lost, out>>

-----------------------------------------------------------------------------
(* POST /v1/devices/link/claim, by the new device                           *)

ClaimsAny(c, label) == State(c) \in {"pending_claim", "pending_approval"}   \* faulty
Claimable(c, label) ==
  /\ State(c) \in {"pending_claim", "pending_approval"}
  /\ ~Row(c).claimed \/ Row(c).label = label

BeginClaim(r, c, label) ==
  /\ HasRow(c) /\ Row(c).mode = "source_display" /\ Claimable(c, label)
  /\ Begin(r, "claim", "write", Nothing, c, Nothing, label)
  /\ crossed' = IF \E q \in Running("claim") : run[q].on = c
                THEN crossed \cup {c} ELSE crossed
  /\ UNCHANGED <<qr, lapsed, session, suspended, lost, out>>

WriteClaim(r) ==
  /\ Finish(r, "claim", "write")
  /\ qr' = [qr EXCEPT ![run[r].on].label = run[r].seen, ![run[r].on].claimed = TRUE]
  /\ UNCHANGED <<lapsed, crossed, session, suspended, lost, out>>

-----------------------------------------------------------------------------
(* POST /v1/devices/link/confirm.  The confirming device shows the label    *)
(* that it last polled.                                                     *)

BeginConfirm(r, s, c) ==
  /\ Usable(s)
  /\ HasRow(c) /\ State(c) = "pending_approval"
  /\ Begin(r, "confirm", "row", s, c, session[s].account, Row(c).label)
  /\ UNCHANGED <<qrVars, session, suspended, lost, out>>

OwnRow(r) == Row(run[r].on).account = run[r].account

ReadRow(r) ==
  /\ At(r, "confirm", "row")
  /\ IF OwnRow(r) /\ State(run[r].on) = "pending_approval"
     THEN Advance(r, "confirm", "row", "approve") ELSE Finish(r, "confirm", "row")
  /\ UNCHANGED <<qrVars, session, suspended, lost, out>>

Approved(r) == [Row(run[r].on) EXCEPT !.approver = run[r].by, !.shown = run[r].seen]

Approve(r) ==
  /\ Finish(r, "confirm", "approve")
  /\ qr' = [qr EXCEPT ![run[r].on] = Approved(r)]
  /\ UNCHANGED <<lapsed, crossed, session, suspended, lost, out>>

-----------------------------------------------------------------------------
(* POST /v1/devices/link/complete, by the new device                        *)

FinishesOf(c) == {r \in Running("finish") : run[r].on = c}

Finishable(c) == State(c) = "approved"

\* The row is read once: the session is for its account, the device gets its
\* label.  by: the device that approved.
BeginFinish(r, c) ==
  /\ HasRow(c) /\ Finishable(c) /\ Cardinality(FinishesOf(c)) < MaxFinishes
  /\ Begin(r, "finish", "session", Nothing, c, Row(c).account, Row(c).label)
  /\ UNCHANGED <<qrVars, session, suspended, lost, out>>

\* The row of the device is inserted before, under the same name.
OpenLinked(r) ==
  /\ Advance(r, "finish", "session", "consume")
  /\ CreateSession(r, run[r].account)
  /\ UNCHANGED <<qrVars, suspended, lost, out>>

ConsumeCode(r) ==
  /\ Advance(r, "finish", "consume", "done")
  /\ qr' = [qr EXCEPT ![run[r].on].consumed = TRUE]
  /\ UNCHANGED <<lapsed, crossed, session, suspended, lost, out>>

CodeStep(r) ==
  \/ \E c \in Codes : \/ BeginFinish(r, c)
                      \/ \E s \in SessionIds : BeginConfirm(r, s, c)
                      \/ \E label \in Labels :
                           \/ BeginClaim(r, c, label)
                           \/ \E s \in SessionIds : BeginShow(r, s, c, label) \/ BeginScan(r, s, c, label)
  \/ InsertShown(r) \/ FindScanned(r) \/ InsertScanned(r) \/ WriteClaim(r)
  \/ ReadRow(r) \/ Approve(r) \/ OpenLinked(r) \/ ConsumeCode(r)

CodeNext ==
  \/ \E r \in Requests : CodeStep(r) \/ (LoseRun(r) /\ UNCHANGED qrVars)
  \/ \E c \in Codes : CodeLapses(c)

-----------------------------------------------------------------------------
(* Properties.                                                              *)

RowOf(c) ==
  [mode : {"source_display", "target_display"}, account : Accounts, label : Labels,
   claimed : BOOLEAN, approver : SessionIds \cup {Nothing},
   shown : Labels \cup {Nothing}, consumed : BOOLEAN]

Linked(c) ==
  {r \in DOMAIN session \cap Requests : run[r].op = "finish" /\ run[r].on = c}

\* The session is opened before the link is consumed: a link opens as many
\* sessions as completions of it overlap, and one more for each that is lost
\* before it consumed the link.
DeviceLinkOpens ==
  \A c \in Codes : Cardinality(Linked(c)) <= MaxFinishes + Cardinality(lost)

\* A device gets into an account only through a session of that account, and under
\* the label that the approving device displayed, unless two claims overlapped: the
\* later one then renames a link that is approved.
LinkedAsApproved ==
  \A c \in Codes : \A r \in Linked(c) :
    /\ Row(c).approver \in DOMAIN session
    /\ session[Row(c).approver].account = session[r].account
    /\ c \in crossed \/ run[r].seen = Row(c).shown

\* A step by which s approves a device link.
Approves(s) ==
  \E c \in DOMAIN qr : qr'[c].approver = s /\ qr[c].approver # s
=============================================================================
