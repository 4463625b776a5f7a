--------------------------- MODULE LegacyHistory ---------------------------
(***************************************************************************)
(* A group from before the encrypted groups, whose messages the relay still *)
(* stores: operators retire its history, which stops writes to it, and then  *)
(* purge it (services/legacy-group-retirement.ts, handlers/operator.ts; the  *)
(* writes are those of handlers/conversations.ts and services/messages.ts).  *)
(***************************************************************************)
EXTENDS Attachments

CONSTANT Messages   \* ids of messages

ASSUME MessagesAssumption == IsFiniteSet(Messages)

VARIABLES group,     \* whether legacy_history_retired_at and _purged_at are set
          message,   \* the rows of messages of the group
          early,     \* writes under way that passed the check of retired_at before
                     \* it was set (history)
          outrun,    \* messages whose send was under way when a purge deleted the
                     \* messages (history)
          raced      \* files that were being uploaded while a purge ran (history)

groupVars == <<group, message>>
historyVars == <<early, outrun, raced>>
legacyVars == <<fileVars, groupVars, historyVars>>

LegacyInit ==
  /\ group = [retired |-> FALSE, purged |-> FALSE]
  /\ message = [m \in Messages |-> "none"]
  /\ early = {} /\ outrun = {} /\ raced = {}

Writes == {"send", "edit", "delete"}

-----------------------------------------------------------------------------
(* A member sends, edits or deletes a message.                              *)

OpenToWrites == ~group.retired

BeginSend(r, m, f) ==
  /\ OpenToWrites
  /\ message[m] = "none" /\ \A q \in Requests : run[q].on # m
  /\ Begin(r, "send", IF f = Nothing THEN "append" ELSE "attach", m, f)
  /\ UNCHANGED <<storeVars, groupVars>>

\* The row of the attachment has to be there and of this group; whether it was
\* uploaded, deleted or has expired is not asked.
OfGroup(f) == row[f].state # "none" /\ row[f].inGroup

ReadAttachment(r) ==
  /\ Advance(r, "send", "attach", "append")
  /\ OfGroup(run[r].with)
  /\ UNCHANGED <<storeVars, groupVars>>

RefuseAttachment(r) ==
  /\ Finish(r, "send", "attach")
  /\ ~OfGroup(run[r].with)
  /\ UNCHANGED <<storeVars, groupVars>>

AppendMessage(r) ==
  /\ Finish(r, "send", "append")
  /\ message' = [message EXCEPT ![run[r].on] = "sent"]
  /\ UNCHANGED <<storeVars, group>>

Shown(m) == message[m] \in {"sent", "edited"}

BeginChange(r, op, m) ==
  /\ op \in {"edit", "delete"}
  /\ Shown(m) /\ ~group.retired
  /\ Begin(r, op, "write", m, Nothing)
  /\ UNCHANGED <<storeVars, groupVars>>

\* An UPDATE by id: a row that was purged meanwhile stays away, a message that was
\* deleted meanwhile stays deleted.
ChangeMessage(r) ==
  LET m == run[r].on IN
  /\ \E op \in {"edit", "delete"} : Finish(r, op, "write")
  /\ message' = IF ~Shown(m) THEN message
                ELSE [message EXCEPT ![m] = IF run[r].op = "edit" THEN "edited" ELSE "deleted"]
  /\ UNCHANGED <<storeVars, group>>

-----------------------------------------------------------------------------
(* retireLegacyGroupHistory and purgeLegacyGroupHistory.                    *)

BeginRetire(r) ==
  /\ ~group.retired
  /\ Begin(r, "retire", "set", Nothing, Nothing)
  /\ UNCHANGED <<storeVars, groupVars>>

SetRetired(r) ==
  /\ Finish(r, "retire", "set")
  /\ group' = [group EXCEPT !.retired = TRUE]
  /\ UNCHANGED <<storeVars, message>>

AnyGroup == ~group.purged                                              \* faulty
Purgeable == group.retired /\ ~group.purged

BeginPurge(r) ==
  /\ Purgeable
  /\ Begin(r, "purge", "list", Nothing, Nothing)
  /\ UNCHANGED <<storeVars, groupVars>>

GroupFiles == {f \in Files : Kept(f) /\ row[f].inGroup}

ListFiles(r) ==
  /\ Go(r, "purge", "list", [run[r] EXCEPT !.todo = GroupFiles,
                                           !.pc = IF GroupFiles = {} THEN "messages" ELSE "blobs"])
  /\ UNCHANGED <<storeVars, groupVars>>

DeleteBlob(r, f) ==
  /\ f \in run[r].todo
  /\ Go(r, "purge", "blobs", [run[r] EXCEPT !.todo = @ \ {f},
                                            !.pc = IF run[r].todo = {f} THEN "mark" ELSE @])
  /\ blob' = blob \ {f}
  /\ UNCHANGED <<row, token, pulses, missing, groupVars>>

\* The UPDATE is by the conversation, not by the list.
MarkGroupFiles(r) ==
  /\ Advance(r, "purge", "mark", "messages")
  /\ row' = [f \in Files |-> IF f \in GroupFiles THEN [row[f] EXCEPT !.state = "deleted"] ELSE row[f]]
  /\ UNCHANGED <<blob, token, pulses, missing, groupVars>>

DeleteMessages(r) ==
  /\ Advance(r, "purge", "messages", "set")
  /\ message' = [m \in Messages |-> IF message[m] = "none" THEN "none" ELSE "purged"]
  /\ UNCHANGED <<storeVars, group>>

SetPurged(r) ==
  /\ Finish(r, "purge", "set")
  /\ group' = [group EXCEPT !.purged = TRUE]
  /\ UNCHANGED <<storeVars, message>>

GroupStep(r) ==
  \/ \E m \in Messages : \/ \E f \in Files \cup {Nothing} : BeginSend(r, m, f)
                         \/ \E op \in {"edit", "delete"} : BeginChange(r, op, m)
  \/ ReadAttachment(r) \/ RefuseAttachment(r) \/ AppendMessage(r) \/ ChangeMessage(r)
  \/ BeginRetire(r) \/ SetRetired(r)
  \/ BeginPurge(r) \/ ListFiles(r) \/ MarkGroupFiles(r) \/ DeleteMessages(r) \/ SetPurged(r)
  \/ \E f \in Files : DeleteBlob(r, f)

-----------------------------------------------------------------------------
Deleting == \E r \in Requests : run[r].pc = "messages" /\ run'[r].pc = "set"

Watch ==
  /\ early' = (IF group.retired THEN early ELSE IF group'.retired THEN UNION {Running(op) : op \in Writes}
               ELSE {}) \cap Working'
  /\ outrun' = IF Deleting THEN outrun \cup {run[r].on : r \in Running("send")} ELSE outrun
  /\ raced' = raced \cup
       {f \in Files : Running("purge")' # {} /\ \E r \in Working' : run'[r].op = "upload" /\ run'[r].on = f}

LegacyNext ==
  /\ \/ FilesNext /\ UNCHANGED groupVars
     \/ \E r \in Requests : GroupStep(r)
     \/ (\E r \in Requests : LoseRun(r)) /\ UNCHANGED <<storeVars, groupVars>>
  /\ Watch

LegacySpec == WorkInit /\ FilesInit /\ LegacyInit /\ [][LegacyNext]_legacyVars

-----------------------------------------------------------------------------
(* Properties.                                                              *)

\* R2 and the rows agree, whatever is cut short: bytes that are stored have a row
\* that some clean-up will find, and an attachment that its row gives out is
\* stored.  Excepted are files that were being uploaded during a purge and, for the
\* second part, those of a retired group, whose purge may be half done.
FilesAccounted ==
  /\ \A f \in blob \ raced : Kept(f)
  /\ \A f \in Files : Available(f) /\ row[f].uploaded /\ f \notin blob =>
       row[f].inGroup /\ group.retired
  /\ \A f \in missing : row[f].inGroup /\ group.retired

\* A purged group has no message, but for sends that were already under way when it
\* was retired and landed after the purge had deleted the messages; and what a
\* retired group shows changes only by its purge, and by requests that were under
\* way when it was retired.
PurgedIsEmpty == group.purged => \A m \in Messages : message[m] \in {"none", "purged"} \/ m \in outrun

Frozen ==
  group.retired => \A m \in Messages :
    message'[m] # message[m] => message'[m] = "purged" \/ \E r \in early : run[r].on = m

LegacyCloses == [][PurgedIsEmpty' /\ Frozen]_legacyVars
=============================================================================
