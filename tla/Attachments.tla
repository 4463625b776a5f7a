---------------------------- MODULE Attachments ----------------------------
(***************************************************************************)
(* Attachments: rows of D1 and blobs of R2, which no transaction ties       *)
(* together (apps/relay/src/handlers/attachments.ts), and the clean-up of    *)
(* what has expired, which a pulse on a queue asks for                      *)
(* (services/cleanup.ts, handlers/queue.ts).                                *)
(***************************************************************************)
EXTENDS RelayWork

CONSTANTS Files,      \* attachment ids
          MaxPulses   \* bound of the model: pulses in the queue at a time

ASSUME FilesAssumption == IsFiniteSet(Files) /\ MaxPulses \in Nat \ {0}

VARIABLES row,      \* the row of each attachment
          blob,     \* the attachments whose bytes are in R2
          token,    \* the upload and download tokens that have not expired
          pulses,   \* messages in the clean-up queue, those being worked on included
          missing   \* downloads that the row let in and R2 had nothing for (history)

storeVars == <<row, blob, token, pulses, missing>>
fileVars == <<storeVars, workVars>>

\* "kept" and "deleted" are deleted_at, uploaded is upload_completed_at.
NoFile == [state |-> "none", inGroup |-> FALSE, uploaded |-> FALSE, expired |-> FALSE]

FilesInit ==
  /\ row = [f \in Files |-> NoFile] /\ blob = {} /\ token = {}
  /\ pulses = 0 /\ missing = {}

Kept(f) == row[f].state = "kept"
Available(f) == Kept(f) /\ ~row[f].expired

Pulse == pulses < MaxPulses /\ pulses' = pulses + 1

-----------------------------------------------------------------------------
(* POST /v1/attachments/ticket, for the conversation of the model or another. *)

\* The conversation and the membership are read; that its history is retired is not
\* asked.
BeginTicket(r, f, inGroup) ==
  /\ row[f].state = "none" /\ \A q \in Requests : run[q].on # f
  /\ Begin(r, "ticket", "insert", f, inGroup)
  /\ UNCHANGED storeVars

InsertFile(r) ==
  /\ Advance(r, "ticket", "insert", "pulse")
  /\ row' = [row EXCEPT ![run[r].on] = [NoFile EXCEPT !.state = "kept", !.inGroup = run[r].with]]
  /\ UNCHANGED <<blob, token, pulses, missing>>

AnswerTicket(r) ==
  /\ Finish(r, "ticket", "pulse") /\ Pulse
  /\ token' = token \cup {<<run[r].on, "upload">>, <<run[r].on, "download">>}
  /\ UNCHANGED <<row, blob, missing>>

\* The other handlers that call scheduleCleanup.
OtherPulse == Pulse /\ UNCHANGED <<row, blob, token, missing, workVars>>

-----------------------------------------------------------------------------
(* PUT upload, GET access and GET download.                                 *)

Unexpired(f) == row[f].state # "none" /\ ~row[f].expired               \* faulty
Uploadable(f) == Available(f)

\* The body is the one the ticket was asked for: its length and hash fit.
BeginUpload(r, f) ==
  /\ <<f, "upload">> \in token /\ Uploadable(f)
  /\ Begin(r, "upload", "put", f, Nothing)
  /\ UNCHANGED storeVars

PutBlob(r) ==
  /\ Advance(r, "upload", "put", "mark")
  /\ blob' = blob \cup {run[r].on}
  /\ UNCHANGED <<row, token, pulses, missing>>

MarkUploaded(r) ==
  /\ Finish(r, "upload", "mark")
  /\ row' = [row EXCEPT ![run[r].on].uploaded = TRUE]
  /\ UNCHANGED <<blob, token, pulses, missing>>

\* (The history of a relay-hosted conversation hands out such a token, too, also
\* for a row that is gone, where it opens nothing.)
Access(f) ==
  /\ Available(f) /\ token' = token \cup {<<f, "download">>}
  /\ UNCHANGED <<row, blob, pulses, missing, workVars>>

BeginDownload(r, f) ==
  /\ <<f, "download">> \in token /\ Available(f) /\ row[f].uploaded
  /\ Begin(r, "download", "get", f, Nothing)
  /\ UNCHANGED storeVars

GetBlob(r) ==
  /\ Finish(r, "download", "get")
  /\ missing' = IF run[r].on \in blob THEN missing ELSE missing \cup {run[r].on}
  /\ UNCHANGED <<row, blob, token, pulses>>

\* Tokens live for half an hour, rows for 30 days: when a row expires no upload and
\* no download that was let in before is left.
TokenLapses(t) ==
  /\ t \in token /\ token' = token \ {t}
  /\ UNCHANGED <<row, blob, pulses, missing, workVars>>

Expires(f) ==
  /\ Available(f) /\ <<f, "upload">> \notin token
  /\ \A r \in Working : run[r].on # f
  /\ row' = [row EXCEPT ![f].expired = TRUE]
  /\ UNCHANGED <<blob, token, pulses, missing, workVars>>

-----------------------------------------------------------------------------
(* consumeQueue with a clean-up pulse, and runRelayCleanup.                 *)

Expired == {f \in Files : Kept(f) /\ row[f].expired}

BeginCleanup(r) ==
  /\ Cardinality(Running("cleanup")) < pulses
  /\ r \notin lost /\ run[r].pc = "idle" /\ lost' = lost
  /\ run' = [run EXCEPT ![r] = [NotStarted EXCEPT !.op = "cleanup", !.pc = "sweep", !.todo = Expired]]
  /\ UNCHANGED storeVars

DeleteExpired(r, f) ==
  /\ f \in run[r].todo
  /\ Go(r, "cleanup", "sweep", [run[r] EXCEPT !.pc = "mark", !.on = f, !.todo = @ \ {f}])
  /\ blob' = blob \ {f}
  /\ UNCHANGED <<row, token, pulses, missing>>

MarkExpired(r) ==
  /\ Go(r, "cleanup", "mark", [run[r] EXCEPT !.pc = "sweep", !.on = Nothing])
  /\ row' = [row EXCEPT ![run[r].on].state = "deleted"]
  /\ UNCHANGED <<blob, token, pulses, missing>>

Ack(r) ==
  /\ run[r].todo = {} /\ Finish(r, "cleanup", "sweep")
  /\ pulses' = pulses - 1
  /\ UNCHANGED <<row, blob, token, missing>>

\* R2 or D1 throws: the message comes again, or not when its retries are used up.
\* (A consumer that is cut short leaves its message in the queue.)
FailCleanup(r) ==
  /\ \E pc \in {"sweep", "mark"} : Finish(r, "cleanup", pc)
  /\ pulses' \in {pulses - 1, pulses}
  /\ UNCHANGED <<row, blob, token, missing>>

FileStep(r) ==
  \/ \E f \in Files : \/ \E g \in BOOLEAN : BeginTicket(r, f, g)
                      \/ BeginUpload(r, f) \/ BeginDownload(r, f) \/ DeleteExpired(r, f)
  \/ InsertFile(r) \/ AnswerTicket(r) \/ PutBlob(r) \/ MarkUploaded(r) \/ GetBlob(r)
  \/ BeginCleanup(r) \/ MarkExpired(r) \/ Ack(r) \/ FailCleanup(r)

FilesNext ==
  \/ \E r \in Requests : FileStep(r)
  \/ \E f \in Files : Access(f) \/ Expires(f)
  \/ \E t \in token : TokenLapses(t)
  \/ OtherPulse
=============================================================================
