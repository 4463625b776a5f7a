-------------------------- MODULE GroupMembership --------------------------
(***************************************************************************)
(* The membership and the epoch of one group, as the relay's handlers      *)
(* change them (apps/relay/src/handlers/conversations.ts and               *)
(* services/invites.ts).  Every handler is a run of awaited D1 statements: *)
(* a statement is atomic, nothing holds two of them together, and a        *)
(* handler can be lost between two.  One action is one statement (with the *)
(* code up to the next one).                                               *)
(***************************************************************************)
EXTENDS Integers, FiniteSets, Functions

CONSTANTS Accounts,       \* accounts that are or may become members
          Owner,          \* the account that created the group
          Requests,       \* handler runs; each is used once
          MemberCap,      \* conversations.member_cap
          MaxUses,        \* max_uses of the invite that circulates
          MaxAccepts,     \* bound of the model: accepts running at the same time
          MaxRemovals,    \* bound of the model: removals running at the same time
          MaxLost         \* bound of the model: handlers that are cut short

ASSUME GroupAssumption ==
  /\ IsFiniteSet(Accounts) /\ IsFiniteSet(Requests)
  /\ Owner \in Accounts
  /\ MemberCap \in Nat
  /\ MaxUses \in Nat \ {0}
  /\ MaxAccepts \in Nat \ {0} /\ MaxRemovals \in Nat \ {0} /\ MaxLost \in Nat

VARIABLES members,   \* conversation_members with removed_at NULL: account |-> role
          epoch,     \* conversations.epoch
          invite,    \* the row of the invite: its use_count, and whether it is open
          run,       \* the handler runs
          lost,      \* runs cut short
          shut       \* accounts removed while the invite was closed and none of
                     \* their accepts was running (history)

groupVars == <<members, epoch, invite, run, lost, shut>>

NotStarted == [op |-> "none", pc |-> "idle", by |-> Owner, target |-> Owner, seen |-> 0]

Member(a) == a \in DOMAIN members
Manages(a) == Member(a) /\ members[a] \in {"owner", "admin"}

Init ==
  /\ \E first \in SUBSET Accounts :
       /\ Owner \in first /\ Cardinality(first) <= MemberCap
       /\ members = [a \in first |-> IF a = Owner THEN "owner" ELSE "member"]
  /\ epoch = 1
  /\ invite = [uses |-> 0, open |-> TRUE]
  /\ run = [r \in Requests |-> NotStarted]
  /\ lost = {} /\ shut = {}

Running(op) ==
  {r \in Requests \ lost :
     run[r].op = op /\ run[r].pc \notin {"idle", "already", "refused", "done"}}

Begin(r, op, pc, by, target, seen) ==
  /\ run[r].pc = "idle" /\ r \notin lost
  /\ run' = [run EXCEPT ![r] =
               [op |-> op, pc |-> pc, by |-> by, target |-> target, seen |-> seen]]

\* r has executed its statement "from" and goes on at "to".
Advance(r, op, from, to) ==
  /\ r \in Running(op) /\ run[r].pc = from
  /\ run' = [run EXCEPT ![r].pc = to]

-----------------------------------------------------------------------------
(* POST /v1/groups/:id/members/:account/remove                              *)

BeginRemove(r, by, target) ==
  /\ Cardinality(Running("remove")) < MaxRemovals
  /\ target # by
  /\ Begin(r, "remove", IF Manages(by) THEN "epoch" ELSE "refused", by, target, 0)
  /\ UNCHANGED <<members, epoch, invite, lost, shut>>

ReadEpoch(r) ==
  /\ r \in Running("remove") /\ run[r].pc = "epoch"
  /\ run' = [run EXCEPT ![r].pc = "mark", ![r].seen = epoch]
  /\ UNCHANGED <<members, epoch, invite, lost, shut>>

MarkRemoved(r) ==
  /\ Advance(r, "remove", "mark", "bump")
  /\ members' = Restrict(members, DOMAIN members \ {run[r].target})
  /\ UNCHANGED <<epoch, invite, lost, shut>>

SameEpoch(r) == run[r].seen                       \* faulty
NextEpoch(r) == run[r].seen + 1

BumpEpoch(r) ==
  /\ Advance(r, "remove", "bump", "answer")
  /\ epoch' = NextEpoch(r)
  /\ UNCHANGED <<members, invite, lost, shut>>

\* syncRelayHostedConversationSockets finds a device-encrypted group and
\* returns; the removal is answered.
AnswerRemoval(r) ==
  /\ Advance(r, "remove", "answer", "done")
  /\ shut' = IF ~invite.open /\ ~Member(run[r].target)
                /\ \A s \in Running("accept") : run[s].by # run[r].target
             THEN shut \cup {run[r].target} ELSE shut
  /\ UNCHANGED <<members, epoch, invite, lost>>

-----------------------------------------------------------------------------
(* POST /v1/groups/:id/invites/:token/accept                                *)

UsesLeft == invite.uses < MaxUses
AlwaysOpen == UsesLeft                            \* faulty
Active == invite.open /\ UsesLeft

\* One statement reads the row of the invite and counts the members.
BeginAccept(r, by) ==
  /\ Cardinality(Running("accept")) < MaxAccepts
  /\ Begin(r, "accept", IF Active THEN "existing" ELSE "refused", by, by,
           Cardinality(DOMAIN members))
  /\ UNCHANGED <<members, epoch, invite, lost, shut>>

HasPlaceOffByOne(r) == run[r].seen <= MemberCap   \* faulty
HasPlace(r) == run[r].seen < MemberCap

JoinsAgain(r) ==                                  \* faulty
  IF HasPlace(r) THEN "join" ELSE "refused"
AfterExisting(r) ==
  IF Member(run[r].by) THEN "already"
  ELSE IF HasPlace(r) THEN "join" ELSE "refused"

ReadExisting(r) ==
  /\ Advance(r, "accept", "existing", AfterExisting(r))
  /\ UNCHANGED <<members, epoch, invite, lost, shut>>

JoinRole == "member"

\* upsertConversationMember: the row of a removed member is taken up again.
Join(r) ==
  /\ Advance(r, "accept", "join", "count")
  /\ members' = [a \in DOMAIN members \cup {run[r].by} |->
                   IF a = run[r].by THEN JoinRole ELSE members[a]]
  /\ UNCHANGED <<epoch, invite, lost, shut>>

CountUse(r) ==
  /\ Advance(r, "accept", "count", "done")
  /\ invite' = [invite EXCEPT !.uses = @ + 1]
  /\ UNCHANGED <<members, epoch, lost, shut>>

-----------------------------------------------------------------------------
(* DELETE /v1/groups/:id/invites/:invite                                    *)

BeginRevoke(r, by) ==
  /\ Begin(r, "revoke", IF Manages(by) THEN "close" ELSE "refused", by, by, 0)
  /\ UNCHANGED <<members, epoch, invite, lost, shut>>

CloseInvite(r) ==
  /\ Advance(r, "revoke", "close", "done")
  /\ invite' = [invite EXCEPT !.open = FALSE]
  /\ UNCHANGED <<members, epoch, lost, shut>>

\* The invite's expires_at passes.
InviteExpires ==
  /\ invite.open
  /\ invite' = [invite EXCEPT !.open = FALSE]
  /\ UNCHANGED <<members, epoch, run, lost, shut>>

\* A handler is cut short between two statements; it is not answered.
LoseRun(r) ==
  /\ Cardinality(lost) < MaxLost
  /\ \E op \in {"remove", "accept", "revoke"} : r \in Running(op)
  /\ lost' = lost \cup {r}
  /\ UNCHANGED <<members, epoch, invite, run, shut>>

Step(r) ==
  \/ \E by, target \in Accounts : BeginRemove(r, by, target)
  \/ ReadEpoch(r) \/ MarkRemoved(r) \/ BumpEpoch(r) \/ AnswerRemoval(r)
  \/ \E by \in Accounts : BeginAccept(r, by) \/ BeginRevoke(r, by)
  \/ ReadExisting(r) \/ Join(r) \/ CountUse(r)
  \/ CloseInvite(r)
  \/ LoseRun(r)

Next == (\E r \in Requests : Step(r)) \/ InviteExpires

Spec == Init /\ [][Next]_groupVars

-----------------------------------------------------------------------------
(* Properties.                                                              *)

Ops == {"none", "remove", "accept", "revoke"}
Places == {"idle", "epoch", "mark", "bump", "answer", "existing", "join", "count",
           "close", "already", "refused", "done"}

\* The types of the variables.
TypeOK ==
  /\ DOMAIN members \subseteq Accounts
  /\ members \in [DOMAIN members -> {"owner", "admin", "member"}]
  /\ epoch \in Nat
  /\ invite \in [uses : Nat, open : BOOLEAN]
  /\ run \in [Requests -> [op : Ops, pc : Places, by : Accounts, target : Accounts, seen : Nat]]
  /\ lost \subseteq Requests /\ shut \subseteq Accounts

\* Nobody can push the owner out or make it an ordinary member: a removal of
\* itself is refused, nobody else manages the group, and an accept by the owner
\* finds the row it already has.
OwnerKeepsGroup == Member(Owner) /\ members[Owner] = "owner"

\* The accepts that read the invite while it had a use left and have not
\* counted it yet.
Admitted == {r \in Running("accept") : run[r].pc \in {"existing", "join", "count"}}

\* The member cap is read with the invite and enforced later: each further
\* accept running at the same time can pass it by one, and no more.
CapOvershoot == Cardinality(DOMAIN members) <= MemberCap + MaxAccepts - 1

\* An invite lets in at most max_uses accounts, plus one for each further accept
\* running at the same time and one for each run lost before it counted its use.
Joined == {r \in Requests : run[r].op = "accept" /\ run[r].pc \in {"count", "done"}}
UsesOvershoot == Cardinality(Joined) <= MaxUses + MaxAccepts - 1 + Cardinality(lost)

\* The cap and the limit of uses hold but for the accepts that overlap or are lost.
LimitsHold == CapOvershoot /\ UsesOvershoot

\* Whoever is removed after the invite was revoked stays out, unless an accept
\* of that account was already running.
RemovedStayOut == \A a \in shut : ~Member(a)

\* A removal moves the group to a later epoch ("Bumps relay-side group epoch").
RemovalBumpsEpoch ==
  [][\A r \in Requests :
       run[r].pc = "bump" /\ run'[r].pc = "answer" => epoch' > epoch]_groupVars

=============================================================================
