------------------------- MODULE MessageRelayProofs -------------------------
(***************************************************************************)
(* Proofs about GroupMembership, for any sets of accounts and requests and *)
(* any limits, and about MessageRelay: the fan-out of any number of sends  *)
(* into the mailboxes of any group, with retries, losses, lapsing rows and *)
(* a membership that changes under them.                                   *)
(***************************************************************************)
EXTENDS MessageRelay, FiniteSetTheorems, TLAPS

-----------------------------------------------------------------------------
(* The group: type correctness.                                             *)

Runs == [op : Ops, pc : Places, by : Accounts, target : Accounts, seen : Nat]

\* What Begin and Advance make of a run has the type of a run.
LEMMA BeginType ==
  ASSUME NEW r \in Requests, run \in [Requests -> Runs],
         NEW op \in Ops, NEW pc \in Places, NEW by \in Accounts, NEW target \in Accounts,
         NEW seen \in Nat, Begin(r, op, pc, by, target, seen)
  PROVE  run' \in [Requests -> Runs]
BY DEF Begin, Runs

LEMMA AdvanceType ==
  ASSUME NEW r \in Requests, run \in [Requests -> Runs],
         NEW op, NEW from, NEW to \in Places, Advance(r, op, from, to)
  PROVE  run' \in [Requests -> Runs]
BY DEF Advance, Runs

\* The number of members is a number.
LEMMA MembersFinite ==
  ASSUME DOMAIN members \subseteq Accounts
  PROVE  IsFiniteSet(DOMAIN members) /\ Cardinality(DOMAIN members) \in Nat
BY GroupAssumption, FS_Subset, FS_CardinalityType DEF GroupAssumption

LEMMA TypeStep ==
  ASSUME TypeOK, NEW r \in Requests, Step(r)
  PROVE  TypeOK'
<1> USE DEF Ops, Places
<1>0. run \in [Requests -> Runs]
  BY DEF TypeOK, Runs
<1>1. ASSUME NEW by \in Accounts, NEW target \in Accounts, BeginRemove(r, by, target)
      PROVE  TypeOK'
  <2>1. run' \in [Requests -> Runs]
    BY <1>0, <1>1, BeginType DEF BeginRemove
  <2>2. QED
    BY <1>1, <2>1 DEF BeginRemove, TypeOK, Runs
<1>2. CASE ReadEpoch(r)
  <2>1. run' \in [Requests -> Runs]
    <3>1. run' = [run EXCEPT ![r] = [run[r] EXCEPT !.pc = "mark", !.seen = epoch]]
      BY <1>0, <1>2 DEF ReadEpoch, Runs
    <3>2. [run[r] EXCEPT !.pc = "mark", !.seen = epoch] \in Runs
      BY <1>0 DEF Runs, TypeOK
    <3>3. QED
      BY <1>0, <3>1, <3>2
  <2>2. QED
    BY <1>2, <2>1 DEF ReadEpoch, TypeOK, Runs
<1>3. CASE MarkRemoved(r)
  <2>1. run' \in [Requests -> Runs]
    BY <1>0, <1>3, AdvanceType DEF MarkRemoved
  <2>2. /\ DOMAIN members' \subseteq DOMAIN members
        /\ members' \in [DOMAIN members' -> {"owner", "admin", "member"}]
    BY <1>3 DEF MarkRemoved, Restrict, TypeOK
  <2>3. QED
    BY <1>3, <2>1, <2>2 DEF MarkRemoved, TypeOK, Runs
<1>4. CASE BumpEpoch(r)
  <2>1. run' \in [Requests -> Runs]
    BY <1>0, <1>4, AdvanceType DEF BumpEpoch
  <2>2. epoch' \in Nat
    BY <1>0, <1>4 DEF BumpEpoch, NextEpoch, Runs
  <2>3. QED
    BY <1>4, <2>1, <2>2 DEF BumpEpoch, TypeOK, Runs
<1>5. CASE AnswerRemoval(r)
  <2>1. run' \in [Requests -> Runs]
    BY <1>0, <1>5, AdvanceType DEF AnswerRemoval
  <2>2. shut' \subseteq Accounts
    BY <1>0, <1>5 DEF AnswerRemoval, TypeOK, Runs
  <2>3. QED
    BY <1>5, <2>1, <2>2 DEF AnswerRemoval, TypeOK, Runs
<1>6. ASSUME NEW by \in Accounts, BeginAccept(r, by) \/ BeginRevoke(r, by)
      PROVE  TypeOK'
  <2>1. Cardinality(DOMAIN members) \in Nat
    BY MembersFinite DEF TypeOK
  <2>2. run' \in [Requests -> Runs]
    BY <1>0, <1>6, <2>1, BeginType DEF BeginAccept, BeginRevoke
  <2>3. QED
    BY <1>6, <2>2 DEF BeginAccept, BeginRevoke, TypeOK, Runs
<1>7. CASE ReadExisting(r)
  <2>1. AfterExisting(r) \in Places
    BY DEF AfterExisting
  <2>2. run' \in [Requests -> Runs]
    BY <1>0, <1>7, <2>1, AdvanceType DEF ReadExisting
  <2>3. QED
    BY <1>7, <2>2 DEF ReadExisting, TypeOK, Runs
<1>8. CASE Join(r)
  <2>1. run' \in [Requests -> Runs]
    BY <1>0, <1>8, AdvanceType DEF Join
  <2>2. run[r].by \in Accounts
    BY <1>0 DEF Runs
  <2>3. /\ DOMAIN members' = DOMAIN members \cup {run[r].by}
        /\ members' \in [DOMAIN members' -> {"owner", "admin", "member"}]
    BY <1>8 DEF Join, JoinRole, TypeOK
  <2>4. QED
    BY <1>8, <2>1, <2>2, <2>3 DEF Join, TypeOK, Runs
<1>9. CASE CountUse(r) \/ CloseInvite(r)
  <2>1. run' \in [Requests -> Runs]
    BY <1>0, <1>9, AdvanceType DEF CountUse, CloseInvite
  <2>2. invite' \in [uses : Nat, open : BOOLEAN]
    <3>1. CASE CountUse(r)
      BY <3>1 DEF CountUse, TypeOK
    <3>2. CASE CloseInvite(r)
      BY <3>2 DEF CloseInvite, TypeOK
    <3>3. QED
      BY <1>9, <3>1, <3>2
  <2>3. QED
    BY <1>9, <2>1, <2>2 DEF CountUse, CloseInvite, TypeOK, Runs
<1>10. CASE LoseRun(r)
  BY <1>10 DEF LoseRun, TypeOK
<1>11. QED
  BY <1>1, <1>2, <1>3, <1>4, <1>5, <1>6, <1>7, <1>8, <1>9, <1>10 DEF Step

\* The variables keep their types (conversation_members, conversations.epoch,
\* the invite's row and the runs of the handlers).
THEOREM TypeCorrect == Spec => []TypeOK
<1>1. Init => TypeOK
  BY GroupAssumption DEF Init, TypeOK, NotStarted, Ops, Places, GroupAssumption
<1>2. TypeOK /\ [Next]_groupVars => TypeOK'
  <2> SUFFICES ASSUME TypeOK, [Next]_groupVars PROVE TypeOK'
    OBVIOUS
  <2>1. CASE \E r \in Requests : Step(r)
    BY <2>1, TypeStep
  <2>2. CASE InviteExpires
    BY <2>2 DEF InviteExpires, TypeOK
  <2>3. CASE UNCHANGED groupVars
    BY <2>3 DEF groupVars, TypeOK
  <2>4. QED
    BY <2>1, <2>2, <2>3 DEF Next
<1>3. QED
  BY <1>1, <1>2, PTL DEF Spec

-----------------------------------------------------------------------------
(* The owner keeps the group.                                               *)

\* Nobody but the owner has a role that manages; so no removal under way is
\* aimed at the owner, and no accept about to join is the owner's.
OwnerInv ==
  /\ OwnerKeepsGroup
  /\ \A a \in DOMAIN members : a # Owner => members[a] = "member"
  /\ \A r \in Requests :
       /\ run[r].op = "remove" /\ run[r].pc \notin {"idle", "refused"} => run[r].target # Owner
       /\ run[r].op = "accept" /\ run[r].pc = "join" => run[r].by # Owner

LEMMA OwnerStep ==
  ASSUME TypeOK, OwnerInv, NEW r \in Requests, Step(r)
  PROVE  OwnerInv'
<1>0. run \in [Requests -> Runs]
  BY DEF TypeOK, Runs
<1> USE DEF OwnerInv, OwnerKeepsGroup, Member
<1>1. ASSUME NEW by \in Accounts, NEW target \in Accounts, BeginRemove(r, by, target)
      PROVE  OwnerInv'
  <2>1. Manages(by) => by = Owner
    BY DEF Manages
  <2>2. QED
    BY <1>0, <1>1, <2>1 DEF BeginRemove, Begin
<1>2. CASE ReadEpoch(r)
  <2>1. \A q \in Requests : /\ run'[q].op = run[q].op /\ run'[q].by = run[q].by
                            /\ run'[q].target = run[q].target
                            /\ q # r => run'[q].pc = run[q].pc
    BY <1>0, <1>2 DEF ReadEpoch, Runs
  <2>2. run[r].op = "remove" /\ run[r].pc = "epoch"
    BY <1>2 DEF ReadEpoch, Running
  <2>3. QED
    BY <1>2, <2>1, <2>2 DEF ReadEpoch
<1>3. CASE MarkRemoved(r)
  <2>1. run[r].op = "remove" /\ run[r].pc = "mark" /\ run[r].target # Owner
    BY <1>3 DEF MarkRemoved, Advance, Running
  <2>2. OwnerKeepsGroup' /\ \A a \in DOMAIN members' : a # Owner => members'[a] = "member"
    BY <1>3, <2>1 DEF MarkRemoved, Restrict
  <2>3. QED
    BY <1>0, <1>3, <2>1, <2>2 DEF MarkRemoved, Advance, Runs
<1>4. CASE BumpEpoch(r) \/ AnswerRemoval(r)
  BY <1>0, <1>4 DEF BumpEpoch, AnswerRemoval, Advance, Running, Runs
<1>5. ASSUME NEW by \in Accounts, BeginAccept(r, by) \/ BeginRevoke(r, by)
      PROVE  OwnerInv'
  BY <1>0, <1>5 DEF BeginAccept, BeginRevoke, Begin
<1>6. CASE ReadExisting(r)
  <2>1. AfterExisting(r) = "join" => run[r].by # Owner
    BY DEF AfterExisting
  <2>2. QED
    BY <1>0, <1>6, <2>1 DEF ReadExisting, Advance, Running, Runs
<1>7. CASE Join(r)
  <2>1. run[r].by # Owner
    BY <1>7 DEF Join, Advance, Running
  <2>2. OwnerKeepsGroup' /\ \A a \in DOMAIN members' : a # Owner => members'[a] = "member"
    BY <1>7, <2>1 DEF Join, JoinRole
  <2>3. QED
    BY <1>0, <1>7, <2>2 DEF Join, Advance, Running, Runs
<1>8. CASE CountUse(r) \/ CloseInvite(r)
  BY <1>0, <1>8 DEF CountUse, CloseInvite, Advance, Running, Runs
<1>9. CASE LoseRun(r)
  BY <1>9 DEF LoseRun
<1>10. QED
  BY <1>1, <1>2, <1>3, <1>4, <1>5, <1>6, <1>7, <1>8, <1>9 DEF Step

\* However removals, accepts and revocations interleave, the owner stays a
\* member with the role owner.
THEOREM OwnerKeeps == Spec => []OwnerKeepsGroup
<1>1. Init => OwnerInv
  BY GroupAssumption DEF Init, OwnerInv, OwnerKeepsGroup, Member, NotStarted, GroupAssumption
<1>2. TypeOK /\ OwnerInv /\ [Next]_groupVars => OwnerInv'
  <2> SUFFICES ASSUME TypeOK, OwnerInv, [Next]_groupVars PROVE OwnerInv'
    OBVIOUS
  <2>1. CASE \E r \in Requests : Step(r)
    BY <2>1, OwnerStep
  <2>2. CASE InviteExpires
    BY <2>2 DEF InviteExpires, OwnerInv, OwnerKeepsGroup, Member
  <2>3. CASE UNCHANGED groupVars
    BY <2>3 DEF groupVars, OwnerInv, OwnerKeepsGroup, Member
  <2>4. QED
    BY <2>1, <2>2, <2>3 DEF Next
<1>3. OwnerInv => OwnerKeepsGroup
  BY DEF OwnerInv
<1>4. QED
  BY <1>1, <1>2, <1>3, TypeCorrect, PTL DEF Spec

-----------------------------------------------------------------------------
(* Accepts under way.                                                       *)

Waiting == {q \in Running("accept") : run[q].pc \in {"existing", "join"}}
Seats == {q \in Waiting : run[q].seen < MemberCap}

\* Only BeginAccept adds to the accepts under way; what they have read stays.
LEMMA AcceptsShrink ==
  ASSUME TypeOK, NEW r \in Requests, Step(r) \/ InviteExpires,
         \A by \in Accounts : ~BeginAccept(r, by)
  PROVE  /\ Running("accept")' \subseteq Running("accept")
         /\ \A q \in Running("accept")' :
              /\ run'[q].by = run[q].by /\ run'[q].seen = run[q].seen
              /\ run'[q].pc = "join" => run[q].pc = "join" \/ HasPlace(q)
         /\ Waiting' \subseteq Waiting /\ Seats' \subseteq Seats
<1>0. run \in [Requests -> Runs]
  BY DEF TypeOK, Runs
<1> DEFINE Shrunk ==
      /\ Running("accept")' \subseteq Running("accept")
      /\ \A q \in Running("accept")' :
           /\ run'[q].by = run[q].by /\ run'[q].seen = run[q].seen
           /\ run'[q].pc = "join" => run[q].pc = "join" \/ HasPlace(q)
      /\ Waiting' \subseteq Waiting
<1>1. Shrunk
  <2>1. ASSUME NEW by \in Accounts, NEW target \in Accounts, BeginRemove(r, by, target)
        PROVE  Shrunk
    BY <1>0, <2>1 DEF BeginRemove, Begin, Running, Waiting
  <2>2. CASE ReadEpoch(r)
    <3>1. \A q \in Requests : q # r => run'[q] = run[q]
      BY <1>0, <2>2 DEF ReadEpoch
    <3>2. run'[r].op = run[r].op /\ run[r].op = "remove"
      BY <1>0, <2>2 DEF ReadEpoch, Running, Runs
    <3>3. QED
      BY <2>2, <3>1, <3>2 DEF ReadEpoch, Running, Waiting
  <2>3. CASE MarkRemoved(r) \/ BumpEpoch(r) \/ AnswerRemoval(r)
    BY <1>0, <2>3 DEF MarkRemoved, BumpEpoch, AnswerRemoval, Advance, Running, Waiting, Runs
  <2>4. ASSUME NEW by \in Accounts, BeginRevoke(r, by)
        PROVE  Shrunk
    BY <1>0, <2>4 DEF BeginRevoke, Begin, Running, Waiting
  <2>5. CASE ReadExisting(r)
    BY <1>0, <2>5 DEF ReadExisting, Advance, AfterExisting, Running, Waiting, Runs
  <2>6. CASE Join(r)
    BY <1>0, <2>6 DEF Join, Advance, Running, Waiting, Runs
  <2>7. CASE CountUse(r) \/ CloseInvite(r)
    BY <1>0, <2>7 DEF CountUse, CloseInvite, Advance, Running, Waiting, Runs
  <2>8. CASE LoseRun(r)
    BY <2>8 DEF LoseRun, Running, Waiting
  <2>9. CASE InviteExpires
    BY <2>9 DEF InviteExpires, Running, Waiting
  <2> HIDE DEF Shrunk
  <2>10. QED
    BY <2>1, <2>2, <2>3, <2>4, <2>5, <2>6, <2>7, <2>8, <2>9 DEF Step
<1>2. QED
  BY <1>1 DEF Seats, Waiting

LEMMA RequestSets ==
  ASSUME NEW S \in SUBSET Requests
  PROVE  /\ IsFiniteSet(S) /\ Cardinality(S) \in Nat
         /\ \A T \in SUBSET S : Cardinality(T) <= Cardinality(S) /\ Cardinality(T) \in Nat
<1>1. IsFiniteSet(S)
  BY GroupAssumption, FS_Subset DEF GroupAssumption
<1>2. \A T \in SUBSET S : IsFiniteSet(T) /\ Cardinality(T) <= Cardinality(S)
  BY <1>1, FS_Subset
<1>3. QED
  BY <1>1, <1>2, FS_CardinalityType

-----------------------------------------------------------------------------
(* Whoever is shut out stays out.                                           *)

ShutInv ==
  \A a \in shut : /\ ~Member(a) /\ ~invite.open
                  /\ \A q \in Running("accept") : run[q].by # a

LEMMA ShutStep ==
  ASSUME TypeOK, ShutInv, NEW r \in Requests, Step(r) \/ InviteExpires
  PROVE  ShutInv'
<1>0. run \in [Requests -> Runs]
  BY DEF TypeOK, Runs
<1>1. ASSUME NEW by \in Accounts, BeginAccept(r, by)
      PROVE  ShutInv'
  <2>1. ASSUME NEW a \in shut PROVE Running("accept")' \subseteq Running("accept")
    BY <1>0, <1>1 DEF ShutInv, BeginAccept, Begin, Active, Running
  <2>2. ASSUME NEW a \in shut, NEW q \in Running("accept")' PROVE run'[q].by # a
    BY <1>0, <1>1, <2>1 DEF ShutInv, BeginAccept, Begin, Running
  <2>3. QED
    BY <1>1, <2>2 DEF ShutInv, BeginAccept, Member
<1>2. CASE \A by \in Accounts : ~BeginAccept(r, by)
  <2> USE DEF Member
  <2>1. /\ Running("accept")' \subseteq Running("accept")
        /\ \A q \in Running("accept")' : run'[q].by = run[q].by
    BY <1>2, AcceptsShrink
  <2>2. CASE AnswerRemoval(r)
    BY <2>1, <2>2 DEF AnswerRemoval, ShutInv
  <2>3. CASE Join(r)
    <3>1. r \in Running("accept")
      BY <2>3 DEF Join, Advance
    <3>2. DOMAIN members' = DOMAIN members \cup {run[r].by}
      BY <2>3 DEF Join
    <3>3. QED
      BY <2>1, <2>3, <3>1, <3>2 DEF ShutInv, Join
  <2>4. CASE MarkRemoved(r)
    BY <2>1, <2>4 DEF MarkRemoved, Restrict, ShutInv
  <2>5. CASE CloseInvite(r) \/ InviteExpires \/ CountUse(r)
    <3>1. ~invite.open => ~invite'.open
      BY <2>5 DEF CloseInvite, InviteExpires, CountUse, TypeOK
    <3>2. QED
      BY <2>1, <2>5, <3>1 DEF CloseInvite, InviteExpires, CountUse, ShutInv
  <2>6. CASE UNCHANGED <<members, invite, shut>>
    BY <2>1, <2>6 DEF ShutInv
  <2>7. ReadEpoch(r) \/ BumpEpoch(r) \/ ReadExisting(r) \/ LoseRun(r)
        => UNCHANGED <<members, invite, shut>>
    BY DEF ReadEpoch, BumpEpoch, ReadExisting, LoseRun
  <2>8. \A by, target \in Accounts : BeginRemove(r, by, target) \/ BeginRevoke(r, by)
        => UNCHANGED <<members, invite, shut>>
    BY DEF BeginRemove, BeginRevoke
  <2>9. QED
    BY <1>2, <2>2, <2>3, <2>4, <2>5, <2>6, <2>7, <2>8 DEF Step
<1>3. QED
  BY <1>1, <1>2

\* An account whose removal is answered after the invite was revoked or expired,
\* with no accept of its own under way, is never a member again.
THEOREM ShutOutStaysOut == Spec => []RemovedStayOut
<1>1. Init => ShutInv
  BY DEF Init, ShutInv
<1>2. TypeOK /\ ShutInv /\ [Next]_groupVars => ShutInv'
  <2> SUFFICES ASSUME TypeOK, ShutInv, [Next]_groupVars PROVE ShutInv'
    OBVIOUS
  <2>1. ASSUME NEW r \in Requests, Step(r) PROVE ShutInv'
    BY <2>1, ShutStep
  <2>2. CASE InviteExpires
    BY <2>2 DEF InviteExpires, ShutInv, Member, Running, TypeOK
  <2>3. CASE UNCHANGED groupVars
    BY <2>3 DEF groupVars, ShutInv, Member, Running
  <2>4. QED
    BY <2>1, <2>2, <2>3 DEF Next
<1>3. ShutInv => RemovedStayOut
  BY DEF ShutInv, RemovedStayOut
<1>4. QED
  BY <1>1, <1>2, <1>3, TypeCorrect, PTL DEF Spec

-----------------------------------------------------------------------------
(* How far the limits can be passed.                                        *)

\* Every accept that may still join has read a count below the cap, and at most
\* MaxAccepts are under way: members and seats together stay within the bound.
CapInv ==
  /\ Cardinality(Running("accept")) <= MaxAccepts
  /\ \A q \in Running("accept") : run[q].pc = "join" => run[q].seen < MemberCap
  /\ Cardinality(DOMAIN members) + Cardinality(Seats) <= MemberCap + MaxAccepts - 1

\* The cardinalities that the counting arguments speak of are numbers.
LEMMA Counts ==
  ASSUME TypeOK
  PROVE  /\ Cardinality(DOMAIN members) \in Nat /\ Cardinality(Running("accept")) \in Nat
         /\ Cardinality(Waiting) \in Nat /\ Cardinality(Seats) \in Nat
         /\ Cardinality(Seats) <= Cardinality(Running("accept"))
         /\ Cardinality(lost) \in Nat /\ IsFiniteSet(lost) /\ IsFiniteSet(DOMAIN members)
<1>1. /\ Running("accept") \subseteq Requests
      /\ Waiting \subseteq Running("accept") /\ Seats \subseteq Running("accept")
  BY DEF Running, Waiting, Seats
<1>2. QED
  BY <1>1, RequestSets, MembersFinite DEF TypeOK

\* An accept that begins is one more under way and waits for at most one seat.
LEMMA BeginAcceptEffect ==
  ASSUME TypeOK, NEW r \in Requests, NEW by \in Accounts, BeginAccept(r, by)
  PROVE  /\ Running("accept")' \subseteq Running("accept") \cup {r}
         /\ Waiting' \subseteq Waiting \cup {r}
         /\ r \notin Running("accept")
         /\ Cardinality(Running("accept")') <= MaxAccepts
         /\ \A q \in Requests : q # r => run'[q] = run[q]
         /\ run'[r].seen = Cardinality(DOMAIN members) /\ run'[r].pc \in {"existing", "refused"}
         /\ run'[r].pc = "existing" => UsesLeft
         /\ run[r].pc = "idle"
<1>0. run \in [Requests -> Runs]
  BY DEF TypeOK, Runs
<1>1. /\ Running("accept")' \subseteq Running("accept") \cup {r}
      /\ Waiting' \subseteq Waiting \cup {r}
      /\ r \notin Running("accept")
      /\ \A q \in Requests : q # r => run'[q] = run[q]
      /\ run'[r].seen = Cardinality(DOMAIN members) /\ run'[r].pc \in {"existing", "refused"}
      /\ run'[r].pc = "existing" => UsesLeft
      /\ run[r].pc = "idle"
  BY <1>0 DEF BeginAccept, Begin, Running, Waiting, Active
<1>2. Running("accept") \subseteq Requests
  BY DEF Running
<1>3. /\ IsFiniteSet(Running("accept")) /\ Cardinality(Running("accept")) \in Nat
      /\ Cardinality(Running("accept")) < MaxAccepts
  BY <1>2, RequestSets DEF BeginAccept
<1>4. /\ IsFiniteSet(Running("accept") \cup {r})
      /\ Cardinality(Running("accept") \cup {r}) = Cardinality(Running("accept")) + 1
  BY <1>1, <1>3, FS_AddElement
<1>5. /\ Cardinality(Running("accept")') <= Cardinality(Running("accept")) + 1
      /\ Cardinality(Running("accept")') \in Nat
  BY <1>1, <1>4, FS_Subset, FS_CardinalityType
<1>6. QED
  BY <1>1, <1>3, <1>5, GroupAssumption DEF GroupAssumption

\* A join turns a waiting accept into a counted one and adds one member.
LEMMA JoinEffect ==
  ASSUME TypeOK, NEW r \in Requests, Join(r)
  PROVE  /\ Cardinality(DOMAIN members') \in Nat
         /\ Cardinality(DOMAIN members') <= Cardinality(DOMAIN members) + 1
         /\ r \in Waiting /\ run[r].pc = "join"
         /\ Waiting' = Waiting \ {r} /\ Seats' = Seats \ {r}
         /\ run' = [run EXCEPT ![r].pc = "count"]
<1>0. run \in [Requests -> Runs]
  BY DEF TypeOK, Runs
<1>1. DOMAIN members' = DOMAIN members \cup {run[r].by}
  BY DEF Join
<1>2. IsFiniteSet(DOMAIN members) /\ Cardinality(DOMAIN members) \in Nat
  BY Counts
<1>3. /\ Cardinality(DOMAIN members') \in Nat
      /\ Cardinality(DOMAIN members') <= Cardinality(DOMAIN members) + 1
  <2>1. Cardinality(DOMAIN members \cup {run[r].by}) =
           IF run[r].by \in DOMAIN members THEN Cardinality(DOMAIN members)
                                           ELSE Cardinality(DOMAIN members) + 1
    BY <1>2, FS_AddElement
  <2>2. QED
    BY <1>1, <1>2, <2>1
<1>4. /\ r \in Waiting /\ run[r].pc = "join"
      /\ run' = [run EXCEPT ![r].pc = "count"] /\ UNCHANGED lost
  BY DEF Join, Advance, Running, Waiting
<1>5. /\ \A q \in Requests : q # r => run'[q] = run[q]
      /\ run'[r].pc = "count" /\ run'[r].op = run[r].op
  BY <1>0, <1>4 DEF Runs
<1>6. Waiting' = Waiting \ {r}
  BY <1>4, <1>5 DEF Waiting, Running
<1>7. Seats' = Seats \ {r}
  BY <1>5, <1>6 DEF Seats, Waiting, Running
<1>8. QED
  BY <1>3, <1>4, <1>6, <1>7

LEMMA CapStep ==
  ASSUME TypeOK, TypeOK', CapInv, NEW r \in Requests, Step(r) \/ InviteExpires
  PROVE  CapInv'
<1>0. /\ MemberCap \in Nat /\ MaxAccepts \in Nat \ {0}
      /\ run \in [Requests -> Runs]
  BY GroupAssumption DEF GroupAssumption, TypeOK, Runs
<1>1. /\ Cardinality(DOMAIN members) \in Nat /\ Cardinality(DOMAIN members') \in Nat
      /\ Cardinality(Seats) \in Nat /\ Cardinality(Seats') \in Nat
      /\ Cardinality(Running("accept")) \in Nat /\ Cardinality(Running("accept")') \in Nat
      /\ Cardinality(Seats') <= Cardinality(Running("accept")')
  <2>1. /\ Running("accept")' \subseteq Requests /\ Seats' \subseteq Running("accept")'
    BY DEF Running, Waiting, Seats
  <2>2. Cardinality(DOMAIN members') \in Nat
    BY GroupAssumption, FS_Subset, FS_CardinalityType DEF TypeOK, GroupAssumption
  <2>3. QED
    BY <2>1, <2>2, Counts, RequestSets
<1>2. ASSUME NEW by \in Accounts, BeginAccept(r, by)
      PROVE  CapInv'
  <2>1. UNCHANGED members
    BY <1>2 DEF BeginAccept
  <2>2. Cardinality(Running("accept")') <= MaxAccepts
    BY <1>2, BeginAcceptEffect
  <2>3. \A q \in Running("accept")' : run'[q].pc = "join" => run'[q].seen < MemberCap
    <3> SUFFICES ASSUME NEW q \in Running("accept")', run'[q].pc = "join"
                 PROVE  run'[q].seen < MemberCap
      OBVIOUS
    <3>1. q # r /\ q \in Running("accept") /\ q \in Requests
      BY <1>2, BeginAcceptEffect DEF Running
    <3>2. run'[q] = run[q]
      BY <1>2, <3>1, BeginAcceptEffect
    <3>3. QED
      BY <3>1, <3>2 DEF CapInv
  <2>4. CASE Cardinality(DOMAIN members) < MemberCap
    BY <1>0, <1>1, <2>1, <2>2, <2>3, <2>4 DEF CapInv
  <2>5. CASE ~(Cardinality(DOMAIN members) < MemberCap)
    <3>1. Seats' \subseteq Seats
      <4>1. /\ Waiting' \subseteq Waiting \cup {r} /\ Waiting \subseteq Requests
            /\ \A q \in Requests : q # r => run'[q] = run[q]
            /\ run'[r].seen = Cardinality(DOMAIN members)
        BY <1>2, BeginAcceptEffect DEF Waiting, Running
      <4>2. QED
        BY <2>5, <4>1 DEF Seats
    <3>2. Cardinality(Seats') <= Cardinality(Seats)
      BY <3>1, RequestSets DEF Seats, Waiting, Running
    <3>3. QED
      BY <1>0, <1>1, <2>1, <2>2, <2>3, <3>2 DEF CapInv
  <2>6. QED
    BY <2>4, <2>5
<1>3. CASE \A by \in Accounts : ~BeginAccept(r, by)
  <2>1. /\ Running("accept")' \subseteq Running("accept") /\ Seats' \subseteq Seats
        /\ \A q \in Running("accept")' : run'[q].seen = run[q].seen
    BY <1>3, AcceptsShrink
  <2>2. /\ Cardinality(Running("accept")') <= Cardinality(Running("accept"))
        /\ Cardinality(Seats') <= Cardinality(Seats)
    BY <2>1, RequestSets DEF Seats, Waiting, Running
  <2>3. \A q \in Running("accept")' : run'[q].pc = "join" => run'[q].seen < MemberCap
    BY <1>3, <2>1, AcceptsShrink DEF CapInv, HasPlace
  <2>4. CASE Join(r)
    <3>1. r \in Seats
      BY <2>4, JoinEffect DEF CapInv, Seats, Waiting
    <3>2. Cardinality(Seats') = Cardinality(Seats) - 1
      <4>1. Seats' = Seats \ {r}
        BY <2>4, JoinEffect
      <4>2. IsFiniteSet(Seats)
        BY RequestSets DEF Seats, Waiting, Running
      <4>3. QED
        BY <3>1, <4>1, <4>2, FS_RemoveElement
    <3>3. QED
      BY <1>0, <1>1, <2>2, <2>3, <2>4, <3>2, JoinEffect DEF CapInv
  <2>5. CASE ~Join(r)
    <3>1. DOMAIN members' \subseteq DOMAIN members
      BY <1>3, <2>5
         DEF Step, BeginRemove, BeginRevoke, ReadEpoch, MarkRemoved, BumpEpoch, AnswerRemoval,
             ReadExisting, CountUse, CloseInvite, LoseRun, InviteExpires, Restrict
    <3>2. Cardinality(DOMAIN members') <= Cardinality(DOMAIN members)
      BY <3>1, Counts, FS_Subset
    <3>3. QED
      BY <1>0, <1>1, <2>2, <2>3, <3>2 DEF CapInv
  <2>6. QED
    BY <2>4, <2>5
<1>4. QED
  BY <1>2, <1>3

\* The member cap can be passed by one for each further accept that may run at
\* the same time, and no more: the cap is compared with a count read earlier.
THEOREM CapHolds == Spec => []CapOvershoot
<1>1. Init => CapInv
  <2> SUFFICES ASSUME Init PROVE CapInv
    OBVIOUS
  <2>1. Running("accept") = {} /\ Seats = {}
    BY DEF Init, Running, Seats, Waiting, NotStarted
  <2>2. Cardinality({}) = 0
    BY FS_EmptySet
  <2>3. Cardinality(DOMAIN members) <= MemberCap /\ Cardinality(DOMAIN members) \in Nat
    BY GroupAssumption, FS_Subset, FS_CardinalityType DEF Init, GroupAssumption
  <2>4. QED
    BY <2>1, <2>2, <2>3, GroupAssumption DEF CapInv, GroupAssumption
<1>2. TypeOK /\ TypeOK' /\ CapInv /\ [Next]_groupVars => CapInv'
  <2> SUFFICES ASSUME TypeOK, TypeOK', CapInv, [Next]_groupVars PROVE CapInv'
    OBVIOUS
  <2>1. ASSUME NEW r \in Requests, Step(r) PROVE CapInv'
    BY <2>1, CapStep
  <2>2. CASE InviteExpires
    BY <2>2 DEF InviteExpires, CapInv, Running, Seats, Waiting
  <2>3. CASE UNCHANGED groupVars
    BY <2>3 DEF groupVars, CapInv, Running, Seats, Waiting
  <2>4. QED
    BY <2>1, <2>2, <2>3 DEF Next
<1>3. TypeOK /\ CapInv => CapOvershoot
  BY Counts, GroupAssumption DEF CapInv, CapOvershoot, GroupAssumption
<1>4. QED
  BY <1>1, <1>2, <1>3, TypeCorrect, PTL DEF Spec

-----------------------------------------------------------------------------
(* How often an invite can be used beyond its limit.                        *)

Finished == {q \in Requests : run[q].op = "accept" /\ run[q].pc = "done"}

\* Every finished accept is counted; the joined and the waiting together stay
\* within the limit, the other accepts under way and the runs lost uncounted.
UsesInv ==
  /\ Cardinality(Running("accept")) <= MaxAccepts
  /\ Cardinality(Finished) <= invite.uses
  /\ Cardinality(Joined) + Cardinality(Waiting) <= MaxUses + MaxAccepts - 1 + Cardinality(lost)

\* One request more or less.
LEMMA OneRequest ==
  ASSUME NEW S \in SUBSET Requests, NEW r \in Requests
  PROVE  /\ Cardinality(S \cup {r}) <= Cardinality(S) + 1
         /\ r \in S => Cardinality(S \ {r}) = Cardinality(S) - 1
<1>1. IsFiniteSet(S) /\ Cardinality(S) \in Nat
  BY RequestSets
<1>2. CASE r \in S
  <2>1. S \cup {r} = S
    BY <1>2
  <2>2. Cardinality(S \ {r}) = Cardinality(S) - 1
    BY <1>1, <1>2, FS_RemoveElement
  <2>3. QED
    BY <1>1, <2>1, <2>2
<1>3. CASE r \notin S
  <2>1. Cardinality(S \cup {r}) = Cardinality(S) + 1
    BY <1>1, <1>3, FS_AddElement
  <2>2. QED
    BY <1>1, <1>3, <2>1
<1>4. QED
  BY <1>2, <1>3

\* The size of a union of requests.
LEMMA TwoSets ==
  ASSUME NEW S \in SUBSET Requests, NEW T \in SUBSET Requests
  PROVE  /\ Cardinality(S \cup T) <= Cardinality(S) + Cardinality(T)
         /\ S \cap T = {} => Cardinality(S \cup T) = Cardinality(S) + Cardinality(T)
<1>1. /\ IsFiniteSet(S) /\ IsFiniteSet(T) /\ S \cap T \in SUBSET S
      /\ Cardinality(S) \in Nat /\ Cardinality(T) \in Nat
  BY RequestSets
<1>2. Cardinality(S \cap T) \in Nat
  BY <1>1, RequestSets
<1>3. Cardinality(S \cup T) = Cardinality(S) + Cardinality(T) - Cardinality(S \cap T)
  BY <1>1, FS_Union
<1>4. S \cap T = {} => Cardinality(S \cap T) = 0
  BY FS_EmptySet
<1>5. QED
  BY <1>1, <1>2, <1>3, <1>4

\* Counting accepts: the joined J are finished (F), lost (L) or counting (C), and
\* neither these nor the waiting W are more than the accepts under way (A).
LEMMA JoinedCount ==
  ASSUME NEW J \in SUBSET Requests, NEW W \in SUBSET Requests, NEW F \in SUBSET Requests,
         NEW L \in SUBSET Requests, NEW C \in SUBSET Requests, NEW A \in SUBSET Requests,
         J \subseteq (F \cup L) \cup C, C \cup W \subseteq A, C \cap W = {}
  PROVE  Cardinality(J) + Cardinality(W) <= Cardinality(F) + Cardinality(A) + Cardinality(L)
<1>1. /\ IsFiniteSet(F) /\ IsFiniteSet(L) /\ IsFiniteSet(C) /\ IsFiniteSet(W)
      /\ IsFiniteSet(F \cup L) /\ IsFiniteSet(C \cup W)
      /\ Cardinality(F) \in Nat /\ Cardinality(L) \in Nat /\ Cardinality(C) \in Nat
      /\ Cardinality(W) \in Nat /\ Cardinality(A) \in Nat /\ Cardinality(J) \in Nat
      /\ Cardinality(F \cup L) \in Nat /\ Cardinality(C \cup W) \in Nat
      /\ Cardinality((F \cup L) \cup C) \in Nat
  BY RequestSets
<1>2. Cardinality(F \cup L) <= Cardinality(F) + Cardinality(L)
  BY TwoSets
<1>3. Cardinality((F \cup L) \cup C) <= Cardinality(F \cup L) + Cardinality(C)
  BY TwoSets
<1>4. Cardinality(J) <= Cardinality((F \cup L) \cup C)
  BY RequestSets
<1>5. Cardinality(C) + Cardinality(W) = Cardinality(C \cup W)
  BY TwoSets
<1>6. Cardinality(C \cup W) <= Cardinality(A)
  BY RequestSets
<1>7. QED
  BY <1>1, <1>2, <1>3, <1>4, <1>5, <1>6

LEMMA UsesStep ==
  ASSUME TypeOK, TypeOK', UsesInv, NEW r \in Requests, Step(r) \/ InviteExpires
  PROVE  UsesInv'
<1>0. /\ MaxUses \in Nat \ {0} /\ MaxAccepts \in Nat \ {0}
      /\ run \in [Requests -> Runs] /\ run' \in [Requests -> Runs]
      /\ invite.uses \in Nat /\ invite'.uses \in Nat
  BY GroupAssumption DEF GroupAssumption, TypeOK, Runs
<1>1. /\ Cardinality(Joined) \in Nat /\ Cardinality(Joined') \in Nat
      /\ Cardinality(Finished) \in Nat /\ Cardinality(Finished') \in Nat
      /\ Cardinality(Waiting) \in Nat /\ Cardinality(Waiting') \in Nat
      /\ Cardinality(Running("accept")) \in Nat /\ Cardinality(Running("accept")') \in Nat
      /\ Cardinality(lost) \in Nat /\ Cardinality(lost') \in Nat
      /\ IsFiniteSet(Joined) /\ IsFiniteSet(Finished) /\ IsFiniteSet(Waiting)
  <2>1. /\ Joined \subseteq Requests /\ Joined' \subseteq Requests
        /\ Finished \subseteq Requests /\ Finished' \subseteq Requests
        /\ Waiting \subseteq Requests /\ Waiting' \subseteq Requests
        /\ Running("accept") \subseteq Requests /\ Running("accept")' \subseteq Requests
        /\ lost \subseteq Requests /\ lost' \subseteq Requests
    BY DEF TypeOK, Joined, Finished, Waiting, Running
  <2>2. QED
    BY <2>1, RequestSets
<1>2. ASSUME NEW by \in Accounts, BeginAccept(r, by)
      PROVE  UsesInv'
  <2>1. UNCHANGED <<invite, lost>> /\ Cardinality(Running("accept")') <= MaxAccepts
    BY <1>2, BeginAcceptEffect DEF BeginAccept
  <2>2. Finished' = Finished /\ Joined' = Joined
    BY <1>2, BeginAcceptEffect DEF Finished, Joined
  <2>3. CASE UsesLeft
    <3>1. Cardinality(Finished') < MaxUses
      BY <1>0, <1>1, <2>2, <2>3 DEF UsesInv, UsesLeft
    <3>2. Cardinality(Joined') + Cardinality(Waiting')
            <= Cardinality(Finished') + Cardinality(Running("accept")') + Cardinality(lost')
      <4> DEFINE C == {q \in Running("accept")' : run'[q].pc = "count"}
      <4>1. /\ Joined' \subseteq (Finished' \cup lost') \cup C
            /\ C \cup Waiting' \subseteq Running("accept")' /\ C \cap Waiting' = {}
            /\ Joined' \subseteq Requests /\ Waiting' \subseteq Requests
            /\ Finished' \subseteq Requests /\ lost' \subseteq Requests
            /\ Running("accept")' \subseteq Requests /\ C \subseteq Requests
        BY DEF TypeOK, Joined, Finished, Running, Waiting
      <4> HIDE DEF C
      <4>2. QED
        BY <4>1, JoinedCount
    <3>3. QED
      BY <1>0, <1>1, <2>1, <2>2, <3>1, <3>2 DEF UsesInv
  <2>4. CASE ~UsesLeft
    <3>1. Waiting' \subseteq Waiting
      BY <1>2, <2>4, BeginAcceptEffect DEF Waiting
    <3>2. Cardinality(Waiting') <= Cardinality(Waiting)
      BY <1>1, <3>1, FS_Subset
    <3>3. QED
      BY <1>0, <1>1, <2>1, <2>2, <3>2 DEF UsesInv
  <2>5. QED
    BY <2>3, <2>4
<1>3. CASE \A by \in Accounts : ~BeginAccept(r, by)
  <2>0. Joined \subseteq Requests /\ Finished \subseteq Requests /\ Waiting \subseteq Requests
    BY DEF Joined, Finished, Waiting, Running
  <2>1. /\ Running("accept")' \subseteq Running("accept") /\ Waiting' \subseteq Waiting
        /\ Running("accept") \subseteq Requests
    BY <1>3, AcceptsShrink DEF Running
  <2>2. /\ Cardinality(Running("accept")') <= MaxAccepts
        /\ Cardinality(Waiting') <= Cardinality(Waiting)
    <3>1. Cardinality(Running("accept")') <= Cardinality(Running("accept"))
      BY <2>1, RequestSets
    <3>2. QED
      BY <1>0, <1>1, <2>1, <3>1, FS_Subset DEF UsesInv
  <2>3. CASE Join(r)
    <3>1. /\ r \in Waiting /\ Waiting' = Waiting \ {r} /\ UNCHANGED <<invite, lost>>
          /\ run' = [run EXCEPT ![r].pc = "count"] /\ run[r].pc = "join"
      BY <2>3, JoinEffect DEF Join
    <3>2. Joined' = Joined \cup {r} /\ Finished' = Finished
      BY <1>0, <3>1 DEF Joined, Finished, Runs, Waiting, Running
    <3>3. /\ Cardinality(Waiting') = Cardinality(Waiting) - 1
          /\ Cardinality(Joined') <= Cardinality(Joined) + 1
      BY <2>0, <3>1, <3>2, OneRequest
    <3>4. QED
      BY <1>0, <1>1, <2>2, <3>1, <3>2, <3>3 DEF UsesInv
  <2>4. CASE CountUse(r)
    <3>1. /\ UNCHANGED lost /\ invite'.uses = invite.uses + 1
          /\ run' = [run EXCEPT ![r].pc = "done"]
          /\ run[r].pc = "count" /\ run[r].op = "accept"
      BY <2>4 DEF CountUse, Advance, Running, TypeOK
    <3>2. Joined' = Joined /\ Finished' = Finished \cup {r}
      BY <1>0, <3>1 DEF Joined, Finished, Runs
    <3>3. Cardinality(Finished') <= Cardinality(Finished) + 1
      BY <2>0, <3>2, OneRequest
    <3>4. QED
      BY <1>0, <1>1, <2>2, <3>1, <3>2, <3>3 DEF UsesInv
  <2>5. CASE ~Join(r) /\ ~CountUse(r)
    <3>1. /\ Joined' = Joined /\ Finished' = Finished
      <4>1. CASE InviteExpires \/ LoseRun(r)
        BY <4>1 DEF InviteExpires, LoseRun, Joined, Finished
      <4>2. ASSUME NEW by \in Accounts, NEW target \in Accounts,
                   BeginRemove(r, by, target) \/ BeginRevoke(r, by)
            PROVE  Joined' = Joined /\ Finished' = Finished
        BY <1>0, <4>2 DEF BeginRemove, BeginRevoke, Begin, Joined, Finished, Runs
      <4>3. CASE ReadEpoch(r)
        <5>1. /\ \A q \in Requests : q # r => run'[q] = run[q]
              /\ run'[r].op = "remove" /\ run[r].op = "remove"
          BY <1>0, <4>3 DEF ReadEpoch, Running, Runs
        <5>2. QED
          BY <5>1 DEF Joined, Finished
      <4>4. CASE MarkRemoved(r) \/ BumpEpoch(r) \/ AnswerRemoval(r) \/ CloseInvite(r)
        BY <1>0, <4>4 DEF MarkRemoved, BumpEpoch, AnswerRemoval, CloseInvite, Advance, Running,
                          Joined, Finished, Runs
      <4>5. CASE ReadExisting(r)
        BY <1>0, <4>5 DEF ReadExisting, AfterExisting, Advance, Running, Joined, Finished, Runs
      <4>6. QED
        BY <1>3, <2>5, <4>1, <4>2, <4>3, <4>4, <4>5 DEF Step
    <3>2. invite'.uses = invite.uses /\ Cardinality(lost) <= Cardinality(lost')
      <4>1. lost \subseteq lost' /\ lost' \subseteq Requests
        BY <1>3, <2>5
           DEF Step, BeginRemove, BeginRevoke, ReadEpoch, MarkRemoved, BumpEpoch, AnswerRemoval,
               ReadExisting, CloseInvite, LoseRun, InviteExpires, TypeOK
      <4>2. invite'.uses = invite.uses
        BY <1>3, <2>5
           DEF Step, BeginRemove, BeginRevoke, ReadEpoch, MarkRemoved, BumpEpoch, AnswerRemoval,
               ReadExisting, CloseInvite, LoseRun, InviteExpires, TypeOK
      <4>3. QED
        BY <4>1, <4>2, RequestSets
    <3>3. QED
      BY <1>0, <1>1, <2>2, <3>1, <3>2 DEF UsesInv
  <2>6. QED
    BY <2>3, <2>4, <2>5
<1>4. QED
  BY <1>2, <1>3

\* An invite lets in at most max_uses accounts, one more for each further accept
\* that may run at the same time and one for each run lost before it counted its
\* use: the limit is compared with a row read before the join.
THEOREM UsesHold == Spec => []UsesOvershoot
<1>1. Init => UsesInv
  <2> SUFFICES ASSUME Init PROVE UsesInv
    OBVIOUS
  <2>1. /\ Running("accept") = {} /\ Waiting = {} /\ Joined = {} /\ Finished = {} /\ lost = {}
        /\ invite.uses = 0
    BY DEF Init, Running, Waiting, Joined, Finished, NotStarted
  <2>2. Cardinality({}) = 0
    BY FS_EmptySet
  <2>3. QED
    BY <2>1, <2>2, GroupAssumption DEF UsesInv, GroupAssumption
<1>2. TypeOK /\ TypeOK' /\ UsesInv /\ [Next]_groupVars => UsesInv'
  <2> SUFFICES ASSUME TypeOK, TypeOK', UsesInv, [Next]_groupVars PROVE UsesInv'
    OBVIOUS
  <2>1. ASSUME NEW r \in Requests, Step(r) PROVE UsesInv'
    BY <2>1, UsesStep
  <2>2. CASE InviteExpires
    BY <2>2 DEF InviteExpires, UsesInv, Running, Waiting, Joined, Finished, TypeOK
  <2>3. CASE UNCHANGED groupVars
    BY <2>3 DEF groupVars, UsesInv, Running, Waiting, Joined, Finished
  <2>4. QED
    BY <2>1, <2>2, <2>3 DEF Next
<1>3. TypeOK /\ UsesInv => UsesOvershoot
  <2> SUFFICES ASSUME TypeOK, UsesInv PROVE UsesOvershoot
    OBVIOUS
  <2>1. Joined \subseteq Requests /\ Waiting \subseteq Requests
    BY DEF Joined, Waiting, Running
  <2>2. Cardinality(Joined) \in Nat /\ Cardinality(Waiting) \in Nat /\ Cardinality(lost) \in Nat
    BY <2>1, RequestSets DEF TypeOK
  <2>3. QED
    BY <2>2, GroupAssumption DEF UsesInv, UsesOvershoot, GroupAssumption
<1>4. QED
  BY <1>1, <1>2, <1>3, TypeCorrect, PTL DEF Spec

\* The member cap and max_uses (services/invites.ts:376) are passed by no more than
\* the accepts that overlap or are lost.
THEOREM LimitsCorrect == Spec => []LimitsHold
<1>1. CapOvershoot /\ UsesOvershoot => LimitsHold
  BY DEF LimitsHold
<1>2. QED
  BY <1>1, CapHolds, UsesHold, PTL

-----------------------------------------------------------------------------
(* Removals that do not overlap.                                            *)

\* One removal is under way at a time, and what it read is still the epoch until
\* it writes the next one.
EpochInv ==
  /\ \A q, r \in Running("remove") : q = r
  /\ \A r \in Running("remove") : run[r].pc \in {"mark", "bump"} => run[r].seen = epoch

LEMMA EpochStep ==
  ASSUME MaxRemovals = 1, TypeOK, EpochInv, NEW r \in Requests, Step(r)
  PROVE  EpochInv'
<1>0. run \in [Requests -> Runs]
  BY DEF TypeOK, Runs
<1>1. ASSUME NEW by \in Accounts, NEW target \in Accounts, BeginRemove(r, by, target)
      PROVE  EpochInv'
  <2>1. Running("remove") \subseteq Requests
    BY DEF Running
  <2>2. IsFiniteSet(Running("remove")) /\ Cardinality(Running("remove")) \in Nat
    BY <2>1, RequestSets
  <2>3. Cardinality(Running("remove")) = 0
    BY <1>1, <2>2 DEF BeginRemove
  <2>4. Running("remove") = {}
    BY <2>2, <2>3, FS_EmptySet
  <2>5. Running("remove")' \subseteq {r} /\ run'[r].pc \in {"epoch", "refused"}
    BY <1>0, <1>1, <2>4 DEF BeginRemove, Begin, Running
  <2>6. QED
    BY <2>5 DEF EpochInv
<1>2. CASE ReadEpoch(r)
  <2>1. /\ \A q \in Requests : q # r => run'[q] = run[q]
        /\ run'[r].op = "remove" /\ run[r].op = "remove" /\ run'[r].seen = epoch
    BY <1>0, <1>2 DEF ReadEpoch, Running, Runs
  <2>2. Running("remove")' \subseteq Running("remove")
    BY <1>2, <2>1 DEF ReadEpoch, Running
  <2>3. r \in Running("remove") /\ UNCHANGED epoch
    BY <1>2 DEF ReadEpoch
  <2>4. \A q \in Running("remove")' : q = r
    BY <2>2, <2>3 DEF EpochInv
  <2>5. QED
    BY <2>1, <2>3, <2>4 DEF EpochInv
<1>3. CASE MarkRemoved(r)
  BY <1>0, <1>3 DEF MarkRemoved, Advance, Running, EpochInv, Runs
<1>4. CASE BumpEpoch(r)
  <2>1. /\ \A q \in Requests : q # r => run'[q] = run[q]
        /\ run'[r].pc = "answer" /\ r \in Running("remove")
    BY <1>0, <1>4 DEF BumpEpoch, Advance, Running, Runs
  <2>2. Running("remove")' \subseteq Running("remove")
    BY <1>4, <2>1 DEF BumpEpoch, Running
  <2>3. \A q \in Running("remove")' : q = r
    BY <2>1, <2>2 DEF EpochInv
  <2>4. QED
    BY <2>1, <2>3 DEF EpochInv
<1>5. CASE AnswerRemoval(r)
  BY <1>0, <1>5 DEF AnswerRemoval, Advance, Running, EpochInv, Runs
<1>6. ASSUME NEW by \in Accounts, BeginAccept(r, by) \/ BeginRevoke(r, by)
      PROVE  EpochInv'
  BY <1>0, <1>6 DEF BeginAccept, BeginRevoke, Begin, Running, EpochInv, Runs
<1>7. CASE ReadExisting(r) \/ Join(r) \/ CountUse(r) \/ CloseInvite(r)
  BY <1>0, <1>7 DEF ReadExisting, Join, CountUse, CloseInvite, Advance, Running, EpochInv, Runs
<1>8. CASE LoseRun(r)
  BY <1>8 DEF LoseRun, Running, EpochInv
<1>9. QED
  BY <1>1, <1>2, <1>3, <1>4, <1>5, <1>6, <1>7, <1>8 DEF Step

\* A removal moves the epoch on when no other removal of the group runs at the
\* same time; a removal cut short before it wrote the epoch does not disturb it.
THEOREM SoleRemovalBumps ==
  ASSUME MaxRemovals = 1
  PROVE  Spec => RemovalBumpsEpoch
<1>1. Init => EpochInv
  BY DEF Init, EpochInv, Running, NotStarted
<1>2. TypeOK /\ EpochInv /\ [Next]_groupVars => EpochInv'
  <2> SUFFICES ASSUME TypeOK, EpochInv, [Next]_groupVars PROVE EpochInv'
    OBVIOUS
  <2>1. CASE \E r \in Requests : Step(r)
    BY <2>1, EpochStep
  <2>2. CASE InviteExpires
    BY <2>2 DEF InviteExpires, EpochInv, Running
  <2>3. CASE UNCHANGED groupVars
    BY <2>3 DEF groupVars, EpochInv, Running
  <2>4. QED
    BY <2>1, <2>2, <2>3 DEF Next
<1> DEFINE Bumped == \A r \in Requests :
                       run[r].pc = "bump" /\ run'[r].pc = "answer" => epoch' > epoch
<1>3. TypeOK /\ EpochInv /\ [Next]_groupVars => [Bumped]_groupVars
  <2> SUFFICES ASSUME TypeOK, EpochInv, [Next]_groupVars, NEW q \in Requests,
                      run[q].pc = "bump", run'[q].pc = "answer"
               PROVE  epoch' > epoch
    OBVIOUS
  <2>0. run \in [Requests -> Runs] /\ epoch \in Nat
    BY DEF TypeOK, Runs
  <2>1. ASSUME NEW r \in Requests, Step(r) PROVE epoch' > epoch
    <3>1. CASE BumpEpoch(r)
      BY <2>0, <3>1 DEF BumpEpoch, NextEpoch, Advance, EpochInv
    <3>2. CASE ~BumpEpoch(r)
      <4>1. run'[q].pc # "answer" \/ run'[q] = run[q]
        <5>1. \A by, target \in Accounts :
                BeginRemove(r, by, target) \/ BeginAccept(r, by) \/ BeginRevoke(r, by)
                => run'[q].pc # "answer" \/ run'[q] = run[q]
          BY <2>0 DEF BeginRemove, BeginAccept, BeginRevoke, Begin, Runs
        <5>2. ReadEpoch(r) => run'[q].pc # "answer" \/ run'[q] = run[q]
          BY <2>0 DEF ReadEpoch, Runs
        <5>3. MarkRemoved(r) \/ AnswerRemoval(r) \/ ReadExisting(r) \/ Join(r) \/ CountUse(r)
              \/ CloseInvite(r)
              => run'[q].pc # "answer" \/ run'[q] = run[q]
          BY <2>0 DEF MarkRemoved, AnswerRemoval, ReadExisting, AfterExisting, Join, CountUse,
                      CloseInvite, Advance, Runs
        <5>4. LoseRun(r) => run'[q] = run[q]
          BY DEF LoseRun
        <5>5. QED
          BY <2>1, <3>2, <5>1, <5>2, <5>3, <5>4 DEF Step
      <4>2. QED
        BY <4>1
    <3>3. QED
      BY <3>1, <3>2
  <2>2. CASE InviteExpires \/ UNCHANGED groupVars
    BY <2>2 DEF InviteExpires, groupVars
  <2>3. QED
    BY <2>1, <2>2 DEF Next
<1>4. QED
  BY <1>1, <1>2, <1>3, TypeCorrect, PTL DEF Spec, RemovalBumpsEpoch

-----------------------------------------------------------------------------
(* The fan-out: the shapes of the state.                                    *)

Working == {"member", "members", "lookup", "enqueue", "record"}
Answers == [to : Devices, id : Sends \X Nat, expires : Nat]
Rows == [id : Sends \X Nat, expires : Nat]
Boxes == UNION {[S -> Nat] : S \in SUBSET (Sends \X Nat)}
SendRecords ==
  [pc : Working \cup Ended, body : Bodies \cup {NoBody}, epoch : Nat, seen : Nat,
   may : SUBSET Devices, items : Seq(Devices), i : Nat, expires : Nat,
   got : SUBSET Answers, put : SUBSET Nat, since : Nat,
   roster : SUBSET Accounts, out : SUBSET Accounts]

RelayTypeOK ==
  /\ known \in [Devices -> [epoch : Nat, roster : SUBSET Accounts]]
  /\ send \in [Sends -> SendRecords]
  /\ mailbox \in [Devices -> Boxes]
  /\ dedup \in [DOMAIN dedup -> Rows]
  /\ now \in Nat /\ now <= Horizon
  /\ out \subseteq Accounts

-----------------------------------------------------------------------------
(* The parts of the invariant about the fan-out.                            *)

\* A send's record w at time n: a run ends within a tick of its start, it has a
\* body once it has begun, puts only items it went through, and those are devices
\* of members.
Unlisted == {"idle", "member", "members", "refused", "stale"}
StoppedAt == {"record", "failed", "lost"}
SendFine(w, n) ==
  /\ w.pc \in Working => w.since <= n /\ n <= w.since + 1
  /\ w.pc \in Working \cup {"failed", "done"} => w.body \in Bodies
  /\ w.pc \in Unlisted => w.put = {} /\ w.got = {}
  /\ Len(w.items) <= MaxItems
  /\ \A j \in w.put : /\ j \in DOMAIN w.items /\ w.items[j] \in w.may
                      /\ j < w.i \/ (j = w.i /\ w.pc \in StoppedAt)
  /\ w.i \in Nat \ {0}
  /\ w.pc \in {"enqueue", "record"} =>
       /\ w.since + Lifetime <= w.expires /\ w.expires <= n + Lifetime
       /\ w.i \in DOMAIN w.items /\ w.items[w.i] \in w.may
  /\ w.pc = "record" => w.i \in w.put

SendsFine == \A s \in Sends : SendFine(send[s], now)

\* The envelope e was put into the mailbox of d.
PutInto(e, d) == e[2] \in send[e[1]].put /\ DeviceOf(e) = d

\* The row of k names e, which expires at t.
Names(k, e, t) == k \in DOMAIN dedup /\ dedup[k].id = e /\ dedup[k].expires = t

\* An envelope waits with the expiry of its row, or the run that put it has not come
\* further.
Waits(e, t) ==
  \/ send[e[1]].i = e[2] /\ send[e[1]].pc \in {"failed", "lost"}
  \/ send[e[1]].i = e[2] /\ send[e[1]].pc = "record" /\ t = send[e[1]].expires
  \/ t > now => Names(KeyOf(e), e, t)

CopiesFine ==
  \A d \in Devices : \A e \in DOMAIN mailbox[d] : PutInto(e, d) /\ Waits(e, mailbox[d][e])

\* A row names an envelope that was put.
RowsFine == \A k \in DOMAIN dedup : PutInto(dedup[k].id, k[2])

\* An answer names the envelope of its row, or one whose row has lapsed: the row that
\* took its place was minted after that.
Outlived(k, t) == t <= now /\ (k \in DOMAIN dedup => t <= dedup[k].expires - Lifetime)
AnswerFine(s, a) ==
  /\ PutInto(a.id, a.to)
  /\ Names(Key(s, a.to), a.id, a.expires) \/ Outlived(Key(s, a.to), a.expires)
AnswersFine == \A s \in Sends : \A a \in send[s].got : AnswerFine(s, a)

\* The row that a run finds when it records what it minted is one that had lapsed when
\* it looked, or one of a run beside it; without a row, the earlier answers have lapsed
\* by then.
Minting(s) == send[s].pc \in {"enqueue", "record"}
MintFine(s) ==
  LET k == Key(s, To(s))
      t == send[s].expires
  IN  /\ k \in DOMAIN dedup =>
           dedup[k].expires <= t - Lifetime \/ dedup[k].expires >= t - 1
      /\ k \notin DOMAIN dedup =>
           \A q \in Sends : \A a \in send[q].got :
             Key(q, a.to) = k => a.expires <= t - Lifetime
MintsFine == \A s \in Sends : Minting(s) => MintFine(s)

CopyInv == RelayTypeOK /\ SendsFine /\ CopiesFine /\ RowsFine /\ AnswersFine
           /\ MintsFine /\ AnswersAgree

-----------------------------------------------------------------------------
(* The parts of the invariant about removed accounts.                       *)

\* A client whose epoch is the group's has a roster without a removed account, also
\* without one whose removal is about to be answered.
ClientKnows(d) ==
  /\ known[d].epoch <= epoch
  /\ known[d].epoch = epoch =>
       /\ known[d].roster \cap out = {}
       /\ \A r \in Running("remove") :
            run[r].pc = "answer" /\ run[r].target \in known[d].roster => Member(run[r].target)

Passed(w) == w.pc \in {"members", "lookup", "enqueue", "record"} \/ w.put # {}
SendSafe(w) ==
  /\ w.out \subseteq out
  /\ w.epoch = w.seen => w.roster \cap w.out = {}
  /\ Passed(w) => OwnerOf[w.body.from] \notin w.out /\ w.epoch = w.seen
  /\ \A d \in w.may : OwnerOf[d] \notin w.out

OutInv ==
  /\ out \cap DOMAIN members = {}
  /\ \A d \in Devices : ClientKnows(d)
  /\ \A s \in Sends : SendSafe(send[s])

-----------------------------------------------------------------------------
(* Facts about the operators of the module.                                 *)

\* The table or mailbox f with v under k.
LEMMA WithIs ==
  ASSUME NEW f, NEW k, NEW v
  PROVE  /\ DOMAIN With(f, k, v) = DOMAIN f \cup {k}
         /\ With(f, k, v)[k] = v
         /\ \A x \in DOMAIN f : x # k => With(f, k, v)[x] = f[x]
BY DEF With

LEMMA BoxIs ==
  ASSUME NEW b
  PROVE  b \in Boxes <=> DOMAIN b \subseteq Sends \X Nat /\ b \in [DOMAIN b -> Nat]
<1>1. ASSUME b \in Boxes PROVE DOMAIN b \subseteq Sends \X Nat /\ b \in [DOMAIN b -> Nat]
  <2>1. PICK S \in SUBSET (Sends \X Nat) : b \in [S -> Nat]
    BY <1>1 DEF Boxes
  <2>2. QED
    BY <2>1
<1>2. ASSUME DOMAIN b \subseteq Sends \X Nat, b \in [DOMAIN b -> Nat] PROVE b \in Boxes
  BY <1>2 DEF Boxes
<1>3. QED
  BY <1>1, <1>2

\* The devices of a set, listed, are as many as the set has.
LEMMA Listing ==
  ASSUME NEW S \in SUBSET Devices
  PROVE  SetToSeq(S) \in Seq(Devices) /\ Len(SetToSeq(S)) <= MaxItems
<1>1. /\ IsFiniteSet(S) /\ Cardinality(S) \in Nat /\ MaxItems \in Nat
      /\ Cardinality(S) <= MaxItems
  BY RelayAssumption, FS_Subset, FS_CardinalityType DEF RelayAssumption, MaxItems
<1>2. \E f \in [1..Cardinality(S) -> S] : IsInjective(f)
  <2>1. PICK f \in Bijection(1..Cardinality(S), S) : TRUE
    BY <1>1, FS_CountingElements, FS_NatBijection DEF ExistsBijection
  <2>2. QED
    BY <2>1 DEF Bijection, Injection, IsInjective
<1>3. SetToSeq(S) \in [1..Cardinality(S) -> S]
  BY <1>2 DEF SetToSeq
<1>4. QED
  BY <1>1, <1>3

LEMMA RelayConstants ==
  /\ OwnerOf \in [Devices -> Accounts] /\ IsFiniteSet(Devices) /\ MaxItems \in Nat
  /\ \A b \in Bodies : b.from \in Devices /\ b.to \in Seq(Devices) /\ Len(b.to) <= MaxItems
  /\ MaxBacklog \in Nat \ {0} /\ Lifetime \in Nat /\ Lifetime >= 3 /\ Horizon \in Nat
<1>1. MaxItems \in Nat
  BY RelayAssumption, FS_CardinalityType DEF RelayAssumption, MaxItems
<1>2. QED
  BY <1>1, RelayAssumption DEF RelayAssumption

-----------------------------------------------------------------------------
(* What a step may do to the record of one send.                            *)

\* The record w comes after v: what v put and answered stays what it is.
Extends(v, w) ==
  /\ v.put \subseteq w.put
  /\ v.put # {} => w.items = v.items
  /\ v.put # {} \/ v.got # {} => w.body = v.body

SendsExtend == \A s \in Sends : Extends(send[s], send'[s])

LEMMA PutStays ==
  ASSUME RelayTypeOK, SendsExtend, NEW e, e[1] \in Sends, e[2] \in send[e[1]].put
  PROVE  /\ e[2] \in send'[e[1]].put
         /\ DeviceOf(e)' = DeviceOf(e) /\ KeyOf(e)' = KeyOf(e)
<1>1. /\ send[e[1]].put \subseteq send'[e[1]].put
      /\ send'[e[1]].items = send[e[1]].items /\ send'[e[1]].body = send[e[1]].body
  BY DEF SendsExtend, Extends
<1>2. QED
  BY <1>1 DEF DeviceOf, KeyOf, Key

LEMMA AnswerStays ==
  ASSUME RelayTypeOK, SendsExtend, NEW s \in Sends, NEW a \in send[s].got
  PROVE  Key(s, a.to)' = Key(s, a.to)
BY DEF SendsExtend, Extends, Key

\* What the types say of the parts.
LEMMA Parts ==
  ASSUME RelayTypeOK
  PROVE  /\ \A s \in Sends : send[s] \in SendRecords
         /\ \A s \in Sends : \A a \in send[s].got :
              a \in Answers /\ a.id[1] \in Sends /\ a.expires \in Nat /\ a.to \in Devices
         /\ \A k \in DOMAIN dedup :
              dedup[k] \in Rows /\ dedup[k].id[1] \in Sends /\ dedup[k].expires \in Nat
         /\ \A d \in Devices : \A e \in DOMAIN mailbox[d] :
              e \in Sends \X Nat /\ e[1] \in Sends /\ mailbox[d][e] \in Nat
         /\ now \in Nat
<1>1. \A s \in Sends : send[s] \in SendRecords
  BY DEF RelayTypeOK
<1>2. \A s \in Sends : \A a \in send[s].got : a \in Answers
  BY <1>1 DEF SendRecords
<1>3. \A a \in Answers : a.id[1] \in Sends /\ a.expires \in Nat /\ a.to \in Devices
  BY DEF Answers
<1>4. \A k \in DOMAIN dedup :
        dedup[k] \in Rows /\ dedup[k].id[1] \in Sends /\ dedup[k].expires \in Nat
  BY DEF RelayTypeOK, Rows
<1>5. \A d \in Devices : mailbox[d] \in Boxes
  BY DEF RelayTypeOK
<1>6. \A d \in Devices : \A e \in DOMAIN mailbox[d] :
        e \in Sends \X Nat /\ e[1] \in Sends /\ mailbox[d][e] \in Nat
  BY <1>5, BoxIs
<1>7. QED
  BY <1>1, <1>2, <1>3, <1>4, <1>6 DEF RelayTypeOK

\* Steps that only move a send on.
LEMMA QuietStep ==
  ASSUME CopyInv, NEW s \in Sends, NEW w, send' = [send EXCEPT ![s] = w],
         Extends(send[s], w), SendFine(w, now), w.got = send[s].got,
         w.pc \in {"enqueue", "record"} => MintFine(s)',
         send[s].pc \in StoppedAt => w.pc \in {"failed", "lost"} /\ w.i = send[s].i,
         \A d \in Devices : \A e \in DOMAIN mailbox'[d] :
           \/ e \in DOMAIN mailbox[d] /\ mailbox'[d][e] = mailbox[d][e]
           \/ PutInto(e, d)' /\ Waits(e, mailbox[d][e])',
         UNCHANGED <<dedup, now>>
  PROVE  /\ SendsFine' /\ CopiesFine' /\ RowsFine' /\ AnswersFine' /\ MintsFine'
         /\ AnswersAgree'
<1>0. RelayTypeOK
  BY DEF CopyInv
<1>1. send'[s] = w /\ \A t \in Sends : t # s => send'[t] = send[t]
  BY <1>0 DEF RelayTypeOK
<1>2. SendsExtend
  BY <1>1 DEF SendsExtend, Extends
<1>3. \A t \in Sends : send'[t].got = send[t].got
  BY <1>1
<1>4. SendsFine'
  BY <1>1 DEF CopyInv, SendsFine
<1>5. ASSUME NEW e, NEW d, e[1] \in Sends, PutInto(e, d)
      PROVE  PutInto(e, d)' /\ KeyOf(e)' = KeyOf(e)
  BY <1>0, <1>2, <1>5, PutStays DEF PutInto
<1>6. CopiesFine'
  <2> SUFFICES ASSUME NEW d \in Devices, NEW e \in DOMAIN mailbox'[d],
                      e \in DOMAIN mailbox[d], mailbox'[d][e] = mailbox[d][e]
               PROVE  PutInto(e, d)' /\ Waits(e, mailbox[d][e])'
    BY DEF CopiesFine
  <2>1. PutInto(e, d) /\ Waits(e, mailbox[d][e]) /\ e[1] \in Sends
    BY <1>0, Parts DEF CopyInv, CopiesFine
  <2>2. PutInto(e, d)' /\ KeyOf(e)' = KeyOf(e)
    BY <1>5, <2>1
  <2>3. CASE e[1] = s
    BY <1>1, <2>1, <2>2, <2>3 DEF Waits, Names, StoppedAt
  <2>4. CASE e[1] # s
    BY <1>1, <2>1, <2>2, <2>4 DEF Waits, Names
  <2>5. QED
    BY <2>2, <2>3, <2>4
<1>7. RowsFine'
  BY <1>0, <1>5, Parts DEF CopyInv, RowsFine
<1>8. AnswersFine'
  <2> SUFFICES ASSUME NEW t \in Sends, NEW a \in send[t].got PROVE AnswerFine(t, a)'
    BY <1>3 DEF AnswersFine
  <2>1. AnswerFine(t, a) /\ Key(t, a.to)' = Key(t, a.to) /\ a.id[1] \in Sends
    BY <1>0, <1>2, AnswerStays, Parts DEF CopyInv, AnswersFine
  <2>2. PutInto(a.id, a.to)'
    BY <1>5, <2>1 DEF AnswerFine
  <2>3. QED
    BY <2>1, <2>2 DEF AnswerFine, Names, Outlived
<1>9. MintsFine'
  <2> SUFFICES ASSUME NEW t \in Sends, Minting(t)' PROVE MintFine(t)'
    BY DEF MintsFine
  <2>1. CASE t = s
    BY <1>1, <2>1 DEF Minting
  <2>2. CASE t # s
    <3>1. send'[t] = send[t] /\ Minting(t)
      BY <1>1, <2>2 DEF Minting
    <3>2. MintFine(t)
      BY <3>1 DEF CopyInv, MintsFine
    <3>3. Key(t, To(t))' = Key(t, To(t))
      BY <3>1 DEF Key, To
    <3>4. \A q \in Sends : \A a \in send'[q].got : a \in send[q].got /\ Key(q, a.to)' = Key(q, a.to)
      BY <1>0, <1>2, <1>3, AnswerStays
    <3>5. QED
      BY <3>1, <3>2, <3>3, <3>4 DEF MintFine
  <2>3. QED
    BY <2>1, <2>2
<1>10. AnswersAgree'
  <2>1. \A q \in Sends : \A a \in send'[q].got : a \in send[q].got /\ Key(q, a.to)' = Key(q, a.to)
    BY <1>0, <1>2, <1>3, AnswerStays
  <2>2. QED
    BY <2>1 DEF CopyInv, AnswersAgree
<1>11. QED
  BY <1>4, <1>6, <1>7, <1>8, <1>9, <1>10

-----------------------------------------------------------------------------
(* The steps of a send.                                                     *)

Fine(s, w) ==
  /\ send' = [send EXCEPT ![s] = w] /\ w \in SendRecords
  /\ Extends(send[s], w) /\ SendFine(w, now)
  /\ send[s].pc \in StoppedAt => w.pc \in {"failed", "lost"} /\ w.i = send[s].i

LEMMA BeginFine ==
  ASSUME CopyInv, TypeOK, NEW s \in Sends, NEW b \in Bodies, BeginSend(s, b)
  PROVE  \E w : Fine(s, w) /\ w.got = send[s].got /\ w.pc \notin {"enqueue", "record"}
<1> DEFINE w == [NotSent EXCEPT !.pc = "member", !.body = b, !.epoch = known[b.from].epoch,
                                !.seen = epoch, !.since = now,
                                !.roster = known[b.from].roster, !.out = out]
<1>1. /\ known[b.from] \in [epoch : Nat, roster : SUBSET Accounts]
      /\ epoch \in Nat /\ now \in Nat /\ out \subseteq Accounts
  BY RelayConstants DEF CopyInv, RelayTypeOK, TypeOK
<1>2. /\ w.pc = "member" /\ w.body = b /\ w.epoch = known[b.from].epoch /\ w.seen = epoch
      /\ w.may = {} /\ w.items = <<>> /\ w.i = 1 /\ w.expires = 0 /\ w.got = {} /\ w.put = {}
      /\ w.since = now /\ w.roster = known[b.from].roster /\ w.out = out
      /\ DOMAIN w = DOMAIN NotSent
  BY DEF NotSent
<1>3. w \in SendRecords
  <2> DEFINE w1 == [NotSent EXCEPT !.pc = "member", !.body = b, !.epoch = known[b.from].epoch]
             w2 == [w1 EXCEPT !.seen = epoch, !.since = now]
             w3 == [w2 EXCEPT !.roster = known[b.from].roster, !.out = out]
  <2>1. <<>> \in Seq(Devices)
    OBVIOUS
  <2>2. NotSent \in SendRecords
    BY <2>1 DEF NotSent, NoBody, SendRecords, Ended
  <2>3. w1 \in SendRecords
    BY <1>1, <2>2 DEF SendRecords, Working
  <2> HIDE DEF w1
  <2>4. w2 \in SendRecords
    BY <1>1, <2>3 DEF SendRecords
  <2> HIDE DEF w2
  <2>5. w3 \in SendRecords
    BY <1>1, <2>4 DEF SendRecords
  <2> USE DEF w1, w2
  <2>6. QED
    BY <2>5
<1>4. send' = [send EXCEPT ![s] = w] /\ send[s].pc = "idle"
  BY DEF BeginSend, Goto
<1>5. send[s].put = {} /\ send[s].got = {}
  BY <1>4 DEF CopyInv, SendsFine, SendFine, Unlisted
<1> HIDE DEF w
<1>6. Len(w.items) <= MaxItems
  BY <1>2, RelayConstants
<1>7. SendFine(w, now)
  BY <1>1, <1>2, <1>6 DEF SendFine, Working, Unlisted
<1>8. QED
  BY <1>2, <1>3, <1>4, <1>5, <1>7 DEF Fine, Extends, StoppedAt

LEMMA CheckFine ==
  ASSUME CopyInv, NEW s \in Sends, CheckMember(s)
  PROVE  \E w : Fine(s, w) /\ w.got = send[s].got /\ w.pc \notin {"enqueue", "record"}
<1> DEFINE w == [send[s] EXCEPT !.pc = AfterMember(s)]
<1>1. send[s] \in SendRecords /\ SendFine(send[s], now)
  BY Parts DEF CopyInv, SendsFine
<1>2. AfterMember(s) \in {"refused", "members", "stale"}
  BY DEF AfterMember
<1>3. send' = [send EXCEPT ![s] = w] /\ send[s].pc = "member"
  BY DEF CheckMember, Goto
<1>4. /\ w \in SendRecords /\ w.pc = AfterMember(s) /\ w.body = send[s].body
      /\ w.may = send[s].may /\ w.items = send[s].items /\ w.i = send[s].i
      /\ w.expires = send[s].expires /\ w.got = send[s].got /\ w.put = send[s].put
      /\ w.since = send[s].since
  BY <1>1, <1>2 DEF SendRecords, Working, Ended
<1> HIDE DEF w
<1>5. SendFine(w, now)
  BY <1>1, <1>2, <1>3, <1>4 DEF SendFine, Working, Unlisted, StoppedAt
<1>6. QED
  BY <1>2, <1>3, <1>4, <1>5 DEF Fine, Extends, StoppedAt

LEMMA ReadFine ==
  ASSUME CopyInv, NEW s \in Sends, ReadMembers(s)
  PROVE  \E w : Fine(s, w) /\ w.got = send[s].got /\ w.pc \notin {"enqueue", "record"}
<1> DEFINE b == send[s].body
           list == IF b.kind = "batch" THEN b.to ELSE SetToSeq(Recipients \ {b.from})
           w == [send[s] EXCEPT !.pc = "lookup", !.may = Recipients, !.items = list]
<1>1. send[s] \in SendRecords /\ SendFine(send[s], now)
  BY Parts DEF CopyInv, SendsFine
<1>2. send' = [send EXCEPT ![s] = w] /\ send[s].pc = "members"
  BY DEF ReadMembers, Goto
<1>3. b \in Bodies
  BY <1>1, <1>2 DEF SendFine, Working
<1>4. Recipients \in SUBSET Devices /\ Recipients \ {b.from} \in SUBSET Devices
  BY DEF Recipients
<1>5. list \in Seq(Devices) /\ Len(list) <= MaxItems
  BY <1>3, <1>4, Listing, RelayConstants
<1>6. /\ w \in SendRecords /\ w.pc = "lookup" /\ w.body = send[s].body
      /\ w.may = Recipients /\ w.items = list /\ w.i = send[s].i
      /\ w.expires = send[s].expires /\ w.got = send[s].got /\ w.put = send[s].put
      /\ w.since = send[s].since
  BY <1>1, <1>4, <1>5 DEF SendRecords, Working
<1> HIDE DEF w, list
<1>7. SendFine(w, now)
  BY <1>1, <1>2, <1>5, <1>6 DEF SendFine, Working, Unlisted, StoppedAt
<1>8. send[s].put = {} /\ send[s].got = {}
  BY <1>1, <1>2 DEF SendFine, Unlisted
<1>9. QED
  BY <1>2, <1>6, <1>7, <1>8 DEF Fine, Extends, StoppedAt

Delivering == {"lookup", "enqueue", "record"}
Answering(v, G) == Onward([v EXCEPT !.got = @ \cup G])

\* A send goes on with the next item, perhaps with one more answer.
LEMMA OnwardFine ==
  ASSUME CopyInv, NEW s \in Sends, NEW G \in SUBSET Answers,
         send[s].pc \in Delivering,
         NEW w, w = Answering(send[s], G)
  PROVE  /\ w \in SendRecords /\ w.pc = "lookup" /\ w.got = send[s].got \cup G
         /\ w.body = send[s].body /\ w.put = send[s].put /\ w.items = send[s].items
         /\ w.i = send[s].i + 1 /\ w.may = send[s].may
         /\ Extends(send[s], w) /\ SendFine(w, now)
<1>1. send[s] \in SendRecords /\ SendFine(send[s], now)
  BY Parts DEF CopyInv, SendsFine
<1>2. /\ w \in SendRecords /\ w.pc = "lookup" /\ w.body = send[s].body
      /\ w.may = send[s].may /\ w.items = send[s].items /\ w.i = send[s].i + 1
      /\ w.expires = send[s].expires /\ w.got = send[s].got \cup G /\ w.put = send[s].put
      /\ w.since = send[s].since
  <2> DEFINE v == [send[s] EXCEPT !.got = @ \cup G]
  <2>1. /\ v \in SendRecords /\ v.body = send[s].body
        /\ v.may = send[s].may /\ v.items = send[s].items /\ v.i = send[s].i
        /\ v.expires = send[s].expires /\ v.got = send[s].got \cup G /\ v.put = send[s].put
        /\ v.since = send[s].since
    BY <1>1 DEF SendRecords
  <2>2. w = [v EXCEPT !.pc = "lookup", !.i = @ + 1]
    BY DEF Onward, Answering
  <2> HIDE DEF v
  <2>3. v.i + 1 \in Nat /\ "lookup" \in Working \cup Ended
    BY <2>1 DEF SendRecords, Working
  <2>4. w \in SendRecords
    BY <2>1, <2>2, <2>3 DEF SendRecords
  <2>5. QED
    BY <2>1, <2>2, <2>4 DEF SendRecords
<1>3. \A j \in w.put : j < w.i
  <2>1. send[s].i \in Nat /\ w.put \subseteq Nat
    BY <1>1, <1>2 DEF SendRecords
  <2>2. \A j \in w.put : j < send[s].i \/ j = send[s].i
    BY <1>1, <1>2 DEF SendFine, Delivering
  <2>3. ASSUME NEW j \in w.put PROVE j < w.i
    <3>1. j \in Nat /\ (j < send[s].i \/ j = send[s].i)
      BY <2>1, <2>2
    <3>2. QED
      BY ONLY <3>1, <2>1, <1>2
  <2>4. QED
    BY <2>3
<1>4. w.i \in Nat \ {0}
  BY <1>1, <1>2 DEF SendRecords
<1>5. SendFine(w, now)
  BY <1>1, <1>2, <1>3, <1>4 DEF SendFine, Working, Unlisted, Delivering
<1>6. QED
  BY <1>2, <1>5 DEF Extends

LEMMA OnwardPlain ==
  ASSUME CopyInv, NEW s \in Sends, send[s].pc \in Delivering,
         NEW w, w = Onward(send[s])
  PROVE  /\ w \in SendRecords /\ w.pc = "lookup" /\ w.got = send[s].got
         /\ w.body = send[s].body /\ w.put = send[s].put /\ w.items = send[s].items
         /\ w.may = send[s].may /\ Extends(send[s], w) /\ SendFine(w, now)
<1>1. PICK G \in SUBSET Answers : G = {}
  OBVIOUS
<1>2. [send[s] EXCEPT !.got = @ \cup G] = send[s]
  BY <1>1, Parts DEF CopyInv, SendRecords
<1>3. w = Answering(send[s], G)
  BY <1>2 DEF Answering
<1>4. /\ w \in SendRecords /\ w.pc = "lookup" /\ w.got = send[s].got \cup G
      /\ w.body = send[s].body /\ w.put = send[s].put /\ w.items = send[s].items
      /\ w.may = send[s].may /\ Extends(send[s], w) /\ SendFine(w, now)
  BY <1>3, OnwardFine
<1>5. QED
  BY <1>1, <1>4

\* A run ends where it stands.
LEMMA EndFine ==
  ASSUME CopyInv, NEW s \in Sends, NEW p \in {"done", "failed", "lost"},
         send' = [send EXCEPT ![s].pc = p],
         \/ p = "done" /\ send[s].pc = "lookup"
         \/ p = "failed" /\ send[s].pc = "record"
         \/ p = "lost" /\ s \in InFlight
  PROVE  /\ \E w : Fine(s, w) /\ w.got = send[s].got /\ w.pc \notin {"enqueue", "record"}
         /\ send'[s].put = send[s].put
<1> DEFINE w == [send[s] EXCEPT !.pc = p]
<1>1. send[s] \in SendRecords /\ SendFine(send[s], now)
  BY Parts DEF CopyInv, SendsFine
<1>2. send' = [send EXCEPT ![s] = w] /\ send'[s] = w
  BY DEF CopyInv, RelayTypeOK
<1>3. /\ w \in SendRecords /\ w.pc = p /\ w.body = send[s].body
      /\ w.may = send[s].may /\ w.items = send[s].items /\ w.i = send[s].i
      /\ w.expires = send[s].expires /\ w.got = send[s].got /\ w.put = send[s].put
      /\ w.since = send[s].since
  BY <1>1 DEF SendRecords, Ended
<1>4. send[s].pc \notin {"failed", "lost", "done"}
  BY DEF InFlight, Ended
<1> HIDE DEF w
<1>5. \A j \in w.put : j < w.i \/ (j = w.i /\ w.pc \in StoppedAt)
  BY <1>1, <1>3 DEF SendFine, StoppedAt
<1>6. p \in {"failed", "done"} => send[s].body \in Bodies
  BY <1>1 DEF SendFine, Working
<1>7. SendFine(w, now)
  BY <1>1, <1>3, <1>5, <1>6 DEF SendFine, Working, Unlisted
<1>8. QED
  BY <1>2, <1>3, <1>4, <1>7 DEF Fine, Extends, StoppedAt

\* The parts of CopyInv but for the types.
Copied == SendsFine /\ CopiesFine /\ RowsFine /\ AnswersFine /\ MintsFine /\ AnswersAgree

LEMMA QuietlyCopied ==
  ASSUME CopyInv, NEW s \in Sends, UNCHANGED <<mailbox, dedup, now>>,
         \E w : Fine(s, w) /\ w.got = send[s].got /\ w.pc \notin {"enqueue", "record"}
  PROVE  Copied' /\ send' \in [Sends -> SendRecords]
<1>1. PICK w : Fine(s, w) /\ w.got = send[s].got /\ w.pc \notin {"enqueue", "record"}
  OBVIOUS
<1>2. send' \in [Sends -> SendRecords]
  BY <1>1 DEF Fine, CopyInv, RelayTypeOK
<1>3. QED
  BY <1>1, <1>2, QuietStep DEF Fine, Copied

\* An answer from a live row.
LEMMA AnsweredByRow ==
  ASSUME CopyInv, NEW s \in Sends, send[s].pc = "lookup", To(s) \in Devices,
         LiveRow(Key(s, To(s))), UNCHANGED <<mailbox, dedup, now>>,
         send' = [send EXCEPT ![s] = Onward([send[s] EXCEPT
                    !.got = @ \cup {Answered(To(s), dedup[Key(s, To(s))])}])]
  PROVE  Copied' /\ send' \in [Sends -> SendRecords]
<1>0. RelayTypeOK
  BY DEF CopyInv
<1>k. PICK k : k = Key(s, To(s))
  OBVIOUS
<1>a. PICK a0 : a0 = Answered(To(s), dedup[k])
  OBVIOUS
<1>w. PICK w : w = Onward([send[s] EXCEPT !.got = @ \cup {a0}])
  OBVIOUS
<1>1. k \in DOMAIN dedup /\ dedup[k].expires > now /\ dedup[k] \in Rows
  BY <1>0, <1>k, Parts DEF LiveRow
<1>2. /\ a0 \in Answers /\ a0.to = To(s) /\ a0.id = dedup[k].id
      /\ a0.expires = dedup[k].expires /\ a0.id[1] \in Sends
  BY <1>1, <1>a DEF Answered, Answers, Rows
<1>3. /\ w \in SendRecords /\ w.pc = "lookup" /\ w.got = send[s].got \cup {a0}
      /\ w.body = send[s].body
      /\ Extends(send[s], w) /\ SendFine(w, now)
  <2>1. PICK G \in SUBSET Answers : G = {a0}
    BY <1>2
  <2>2. w = Answering(send[s], G)
    BY <1>w, <2>1 DEF Answering
  <2>3. send[s].pc \in Delivering
    BY DEF Delivering
  <2>4. /\ w \in SendRecords /\ w.pc = "lookup" /\ w.got = send[s].got \cup G
        /\ w.body = send[s].body /\ Extends(send[s], w) /\ SendFine(w, now)
    BY ONLY <2>2, <2>3, OnwardFine, CopyInv, s \in Sends, G \in SUBSET Answers
  <2>5. QED
    BY <2>1, <2>4
<1>4. send' = [send EXCEPT ![s] = w]
  BY <1>k, <1>a, <1>w
<1>5. send'[s] = w /\ \A t \in Sends : t # s => send'[t] = send[t]
  BY <1>0, <1>4 DEF RelayTypeOK
<1>6. SendsExtend
  BY <1>3, <1>5 DEF SendsExtend, Extends
<1>7. \A t \in Sends : \A a \in send'[t].got :
        (a \in send[t].got /\ Key(t, a.to)' = Key(t, a.to)) \/ (t = s /\ a = a0)
  <2>1. ASSUME NEW t \in Sends, NEW a \in send'[t].got, ~(t = s /\ a = a0)
        PROVE  a \in send[t].got
    BY <1>3, <1>5, <2>1
  <2>2. QED
    BY <1>0, <1>6, <2>1, AnswerStays
<1>8. Key(s, a0.to)' = k
  BY <1>k, <1>2, <1>3, <1>5 DEF Key
<1>9. \A e, d : e[1] \in Sends /\ PutInto(e, d) => PutInto(e, d)' /\ KeyOf(e)' = KeyOf(e)
  BY <1>0, <1>6, PutStays DEF PutInto
<1>10. SendsFine'
  BY <1>3, <1>5 DEF CopyInv, SendsFine
<1>11. CopiesFine'
  <2> SUFFICES ASSUME NEW d \in Devices, NEW e \in DOMAIN mailbox[d]
               PROVE  PutInto(e, d)' /\ Waits(e, mailbox[d][e])'
    BY DEF CopiesFine
  <2>1. PutInto(e, d) /\ Waits(e, mailbox[d][e]) /\ e[1] \in Sends
    BY <1>0, Parts DEF CopyInv, CopiesFine
  <2>2. PutInto(e, d)' /\ KeyOf(e)' = KeyOf(e)
    BY <1>9, <2>1
  <2>3. QED
    BY <1>5, <2>1, <2>2 DEF Waits, Names
<1>12. RowsFine'
  BY <1>0, <1>9, Parts DEF CopyInv, RowsFine
<1>13. AnswersFine'
  <2> SUFFICES ASSUME NEW t \in Sends, NEW a \in send'[t].got PROVE AnswerFine(t, a)'
    BY DEF AnswersFine
  <2>1. CASE a \in send[t].got /\ Key(t, a.to)' = Key(t, a.to)
    <3>1. AnswerFine(t, a) /\ a.id[1] \in Sends
      BY <1>0, <2>1, Parts DEF CopyInv, AnswersFine
    <3>2. PutInto(a.id, a.to)'
      BY <1>9, <3>1 DEF AnswerFine
    <3>3. QED
      BY <2>1, <3>1, <3>2 DEF AnswerFine, Names, Outlived
  <2>2. CASE t = s /\ a = a0
    <3>1. PutInto(dedup[k].id, k[2]) /\ k[2] = To(s)
      BY <1>1, <1>k DEF CopyInv, RowsFine, Key
    <3>2. PutInto(a.id, a.to)'
      BY <1>2, <1>9, <2>2, <3>1
    <3>3. Names(Key(t, a.to), a.id, a.expires)'
      BY <1>1, <1>2, <1>8, <2>2 DEF Names
    <3>4. QED
      BY <3>2, <3>3 DEF AnswerFine
  <2>3. QED
    BY <1>7, <2>1, <2>2
<1>14. MintsFine'
  <2> SUFFICES ASSUME NEW t \in Sends, Minting(t)' PROVE MintFine(t)'
    BY DEF MintsFine
  <2>1. t # s /\ send'[t] = send[t] /\ Minting(t)
    BY <1>3, <1>5 DEF Minting
  <2>2. MintFine(t) /\ Key(t, To(t))' = Key(t, To(t))
    BY <2>1 DEF CopyInv, MintsFine, Key, To
  <2>3. QED
    BY <1>1, <1>7, <1>8, <2>1, <2>2 DEF MintFine
<1>15. AnswersAgree'
  <2>1. ASSUME NEW t \in Sends, NEW b \in send[t].got, Key(t, b.to) = k, b.id # a0.id
        PROVE  b.expires <= a0.expires - Lifetime
    BY <1>1, <1>2, <2>1 DEF CopyInv, AnswersFine, AnswerFine, Names, Outlived
  <2>2. SUFFICES ASSUME NEW t \in Sends, NEW q \in Sends,
                        NEW a \in send'[t].got, NEW b \in send'[q].got,
                        Key(t, a.to)' = Key(q, b.to)', a.id # b.id
                 PROVE  a.expires <= b.expires - Lifetime \/ b.expires <= a.expires - Lifetime
    BY DEF AnswersAgree
  <2>3. CASE a \in send[t].got /\ Key(t, a.to)' = Key(t, a.to)
    <3>1. CASE b \in send[q].got /\ Key(q, b.to)' = Key(q, b.to)
      BY <2>2, <2>3, <3>1 DEF CopyInv, AnswersAgree
    <3>2. CASE q = s /\ b = a0
      BY <1>8, <2>1, <2>2, <2>3, <3>2
    <3>3. QED
      BY <1>7, <3>1, <3>2
  <2>4. CASE t = s /\ a = a0
    <3>1. CASE b \in send[q].got /\ Key(q, b.to)' = Key(q, b.to)
      BY <1>8, <2>1, <2>2, <2>4, <3>1
    <3>2. CASE q = s /\ b = a0
      BY <2>2, <2>4, <3>2
    <3>3. QED
      BY <1>7, <3>1, <3>2
  <2>5. QED
    BY <1>7, <2>3, <2>4
<1>16. QED
  BY <1>0, <1>3, <1>4, <1>10, <1>11, <1>12, <1>13, <1>14, <1>15 DEF Copied, RelayTypeOK

\* No live row answers: an envelope is minted.
LEMMA MintStep ==
  ASSUME CopyInv, NEW s \in Sends, send[s].pc = "lookup", send[s].i \in DOMAIN send[s].items,
         To(s) \in send[s].may, ~LiveRow(Key(s, To(s))), UNCHANGED <<mailbox, dedup, now>>,
         send' = [send EXCEPT ![s] = [send[s] EXCEPT !.pc = "enqueue", !.expires = now + Lifetime]]
  PROVE  Copied' /\ send' \in [Sends -> SendRecords]
<1> DEFINE w == [send[s] EXCEPT !.pc = "enqueue", !.expires = now + Lifetime]
<1>0. RelayTypeOK /\ now \in Nat /\ Lifetime \in Nat
  BY RelayConstants DEF CopyInv, RelayTypeOK
<1>1. send[s] \in SendRecords /\ SendFine(send[s], now)
  BY <1>0, Parts DEF CopyInv, SendsFine
<1>2. /\ w \in SendRecords /\ w.pc = "enqueue" /\ w.body = send[s].body
      /\ w.may = send[s].may /\ w.items = send[s].items /\ w.i = send[s].i
      /\ w.expires = now + Lifetime /\ w.got = send[s].got /\ w.put = send[s].put
      /\ w.since = send[s].since
  <2>1. PICK t \in Nat : t = now + Lifetime
    BY <1>0
  <2>2. w = [send[s] EXCEPT !.pc = "enqueue", !.expires = t]
    BY <2>1
  <2>3. "enqueue" \in Working \cup Ended
    BY DEF Working
  <2> HIDE DEF w
  <2>4. w \in SendRecords
    BY <1>1, <2>2, <2>3 DEF SendRecords
  <2>5. QED
    BY <1>1, <2>1, <2>2, <2>4 DEF SendRecords
<1> HIDE DEF w
<1>3. send'[s] = w /\ \A t \in Sends : t # s => send'[t] = send[t]
  BY <1>0 DEF RelayTypeOK, w
<1>4. w.since + Lifetime <= w.expires /\ w.expires <= now + Lifetime
  <2>1. w.since \in Nat /\ w.since <= now
    BY <1>1, <1>2 DEF SendRecords, SendFine, Working
  <2>2. QED
    BY <1>0, <1>2, <2>1
<1>5. SendFine(w, now)
  BY <1>1, <1>2, <1>4 DEF SendFine, Working, Unlisted, StoppedAt, To
<1>6. Extends(send[s], w)
  BY <1>2 DEF Extends
<1>7. \A q \in Sends : \A a \in send'[q].got :
        a \in send[q].got /\ Key(q, a.to)' = Key(q, a.to)
  <2>1. SendsExtend /\ \A q \in Sends : send'[q].got = send[q].got
    BY <1>2, <1>3, <1>6 DEF SendsExtend, Extends
  <2>2. QED
    BY <1>0, <2>1, AnswerStays
<1>8. MintFine(s)'
  <2>1. PICK k : k = Key(s, To(s))
    OBVIOUS
  <2>2. Key(s, To(s))' = k /\ send'[s].expires - Lifetime = now
    BY <1>0, <1>2, <1>3, <2>1 DEF Key, To
  <2>3. k \in DOMAIN dedup => dedup[k].expires <= now
    BY <1>0, <2>1, Parts DEF LiveRow
  <2>4. ASSUME NEW q \in Sends, NEW a \in send[q].got, Key(q, a.to) = k, k \notin DOMAIN dedup
        PROVE  a.expires <= now
    BY <2>4 DEF CopyInv, AnswersFine, AnswerFine, Names, Outlived
  <2>5. QED
    BY <1>7, <2>2, <2>3, <2>4 DEF MintFine
<1>9. send' = [send EXCEPT ![s] = w] /\ send[s].pc \notin StoppedAt
  BY DEF w, StoppedAt
<1>10. Copied'
  BY <1>2, <1>5, <1>6, <1>8, <1>9, QuietStep DEF Copied
<1>11. QED
  BY <1>0, <1>2, <1>9, <1>10 DEF RelayTypeOK

LEMMA LookUpCopied ==
  ASSUME CopyInv, NEW s \in Sends, LookUp(s)
  PROVE  Copied' /\ send' \in [Sends -> SendRecords]
<1>0. RelayTypeOK
  BY DEF CopyInv
<1>1. send[s] \in SendRecords /\ SendFine(send[s], now)
  BY <1>0, Parts DEF CopyInv, SendsFine
<1>2. /\ send[s].pc = "lookup" /\ send[s].i \in DOMAIN send[s].items
      /\ To(s) \in Devices /\ UNCHANGED <<mailbox, dedup, now>>
  BY <1>1 DEF LookUp, SendRecords, SendFine, To
<1>3. CASE To(s) \notin send[s].may \/ Blocked(s, To(s))
  <2>1. send' = [send EXCEPT ![s] = Onward(send[s])]
    BY <1>3 DEF LookUp, Goto
  <2>2. PICK w : w = Onward(send[s])
    OBVIOUS
  <2>3. /\ w \in SendRecords /\ w.pc = "lookup" /\ w.got = send[s].got
        /\ Extends(send[s], w) /\ SendFine(w, now)
    BY <1>2, <2>2, OnwardPlain DEF Delivering
  <2>4. send' = [send EXCEPT ![s] = w] /\ send[s].pc \notin StoppedAt
    BY <1>2, <2>1, <2>2 DEF StoppedAt
  <2>5. Fine(s, w) /\ w.got = send[s].got /\ w.pc \notin {"enqueue", "record"}
    BY <2>3, <2>4 DEF Fine
  <2>6. QED
    BY <1>2, <2>5, QuietlyCopied
<1>4. CASE /\ ~(To(s) \notin send[s].may \/ Blocked(s, To(s)))
           /\ LiveRow(Key(s, To(s)))
  <2>1. send' = [send EXCEPT ![s] = Onward([send[s] EXCEPT
                   !.got = @ \cup {Answered(To(s), dedup[Key(s, To(s))])}])]
    BY <1>4 DEF LookUp, Goto
  <2>2. QED
    BY <1>2, <1>4, <2>1, AnsweredByRow
<1>5. CASE /\ ~(To(s) \notin send[s].may \/ Blocked(s, To(s)))
           /\ ~LiveRow(Key(s, To(s)))
  <2>1. send' = [send EXCEPT ![s] = [send[s] EXCEPT !.pc = "enqueue", !.expires = now + Lifetime]]
    BY <1>5 DEF LookUp, Goto
  <2>2. QED
    BY <1>2, <1>5, <2>1, MintStep
<1>6. QED
  BY <1>3, <1>4, <1>5

\* Putting an envelope into a mailbox, and passing over a mailbox that is full.
LEMMA EnqueueCopied ==
  ASSUME CopyInv, NEW s \in Sends, Enqueue(s)
  PROVE  /\ Copied' /\ send' \in [Sends -> SendRecords] /\ mailbox' \in [Devices -> Boxes]
<1>0. RelayTypeOK /\ MintsFine
  BY DEF CopyInv
<1>1. send[s] \in SendRecords /\ SendFine(send[s], now) /\ send[s].pc = "enqueue"
  BY <1>0, Parts DEF CopyInv, SendsFine, Enqueue
<1>d. PICK d : d = To(s)
  OBVIOUS
<1>2. /\ send[s].i \in DOMAIN send[s].items /\ d \in Devices /\ d \in send[s].may
      /\ send[s].i \notin send[s].put
  BY <1>1, <1>d DEF SendRecords, SendFine, To, StoppedAt
<1>k. PICK kept : kept = Restrict(mailbox[d], Live(mailbox[d]))
  OBVIOUS
<1>3. /\ DOMAIN kept \subseteq DOMAIN mailbox[d]
      /\ \A e \in DOMAIN kept : kept[e] = mailbox[d][e]
      /\ kept \in Boxes /\ DOMAIN kept \subseteq Sends \X Nat
  <2>1. mailbox[d] \in Boxes
    BY <1>0, <1>2 DEF RelayTypeOK
  <2>2. DOMAIN mailbox[d] \subseteq Sends \X Nat /\ mailbox[d] \in [DOMAIN mailbox[d] -> Nat]
    BY <2>1, BoxIs
  <2>3. /\ DOMAIN kept = Live(mailbox[d]) /\ Live(mailbox[d]) \subseteq DOMAIN mailbox[d]
        /\ kept = [x \in DOMAIN kept |-> mailbox[d][x]]
    BY <1>k DEF Restrict, Live
  <2>4. kept \in [DOMAIN kept -> Nat] /\ \A e \in DOMAIN kept : kept[e] = mailbox[d][e]
    BY <2>2, <2>3
  <2>5. QED
    BY <2>2, <2>3, <2>4, BoxIs
<1>4. UNCHANGED <<dedup, now>>
  BY DEF Enqueue
<1>5. CASE Room(d)
  <2>e. PICK e0 : e0 = Envelope(s, send[s].i)
    OBVIOUS
  <2>b. PICK box : box = With(kept, e0, send[s].expires)
    OBVIOUS
  <2>w. PICK w : w = [send[s] EXCEPT !.pc = "record", !.put = @ \cup {send[s].i}]
    OBVIOUS
  <2>1. /\ mailbox' = [mailbox EXCEPT ![d] = box]
        /\ send' = [send EXCEPT ![s].pc = "record", ![s].put = @ \cup {send[s].i}]
    BY <1>5, <1>d, <1>k, <2>e, <2>b DEF Enqueue
  <2>2. /\ w \in SendRecords /\ w.pc = "record" /\ w.put = send[s].put \cup {send[s].i}
        /\ w.body = send[s].body /\ w.may = send[s].may /\ w.items = send[s].items
        /\ w.i = send[s].i /\ w.expires = send[s].expires /\ w.got = send[s].got
        /\ w.since = send[s].since
    <3>1. PICK P \in SUBSET Nat : P = send[s].put \cup {send[s].i}
      BY <1>1 DEF SendRecords
    <3>2. w = [send[s] EXCEPT !.pc = "record", !.put = P]
      BY <2>w, <3>1
    <3>3. "record" \in Working \cup Ended
      BY DEF Working
    <3>4. w \in SendRecords
      BY <1>1, <3>2, <3>3 DEF SendRecords
    <3>5. QED
      BY <1>1, <3>1, <3>2, <3>4 DEF SendRecords
  <2>3. send' = [send EXCEPT ![s] = w]
    BY <1>0, <2>1, <2>w DEF RelayTypeOK
  <2>4. /\ send'[s] = w /\ send'[s].put = w.put /\ send'[s].items = send[s].items
        /\ send'[s].expires = send[s].expires
    BY <1>0, <2>2, <2>3 DEF RelayTypeOK
  <2>5. SendFine(w, now)
    <3>1. \A j \in w.put : j \in DOMAIN w.items /\ w.items[j] \in w.may
      BY <1>1, <1>2, <1>d, <2>2 DEF SendFine, To
    <3>2. \A j \in w.put : j < w.i \/ j = w.i
      BY <1>1, <2>2 DEF SendFine, StoppedAt
    <3>3. QED
      BY <1>1, <2>2, <3>1, <3>2 DEF SendFine, Working, Unlisted, StoppedAt
  <2>6. Extends(send[s], w)
    BY <2>2 DEF Extends
  <2>7. MintFine(s)'
    <3>1. MintFine(s)
      BY <1>0, <1>1 DEF MintsFine, Minting
    <3>2. Key(s, To(s))' = Key(s, To(s)) /\ send'[s].expires = send[s].expires
      BY <2>2, <2>4 DEF Key, To
    <3>3. SendsExtend /\ \A q \in Sends : send'[q].got = send[q].got
      BY <1>0, <2>2, <2>3, <2>6 DEF SendsExtend, Extends, RelayTypeOK
    <3>4. \A q \in Sends : \A a \in send'[q].got :
            a \in send[q].got /\ Key(q, a.to)' = Key(q, a.to)
      BY <1>0, <3>3, AnswerStays
    <3>5. QED
      BY <1>4, <3>1, <3>2, <3>4 DEF MintFine
  <2>8. /\ e0[1] = s /\ e0[2] = send[s].i /\ e0 \in Sends \X Nat
        /\ DOMAIN box = DOMAIN kept \cup {e0} /\ box[e0] = send[s].expires
        /\ \A e \in DOMAIN kept : e # e0 => box[e] = kept[e]
    <3>1. e0 = <<s, send[s].i>> /\ send[s].i \in Nat
      BY <1>1, <2>e DEF Envelope, SendRecords
    <3>2. /\ DOMAIN box = DOMAIN kept \cup {e0} /\ box[e0] = send[s].expires
          /\ \A e \in DOMAIN kept : e # e0 => box[e] = kept[e]
      BY <2>b DEF With
    <3>3. QED
      BY <3>1, <3>2
  <2>9. PutInto(e0, d)' /\ Waits(e0, send[s].expires)'
    BY <1>d, <2>2, <2>4, <2>8 DEF PutInto, DeviceOf, To, Waits
  <2>10. mailbox'[d] = box /\ \A c \in Devices : c # d => mailbox'[c] = mailbox[c]
    BY <1>0, <1>2, <2>1 DEF RelayTypeOK
  <2>11. ASSUME NEW c \in Devices, NEW e \in DOMAIN mailbox'[c]
         PROVE  \/ e \in DOMAIN mailbox[c] /\ mailbox'[c][e] = mailbox[c][e]
                \/ PutInto(e, c)' /\ Waits(e, mailbox[c][e])'
    <3>1. CASE c # d
      BY <2>10, <3>1
    <3>2. CASE c = d /\ e = e0
      BY <2>4, <2>8, <2>9, <2>10, <3>2
    <3>3. CASE c = d /\ e # e0
      BY <1>3, <2>8, <2>10, <3>3
    <3>4. QED
      BY <3>1, <3>2, <3>3
  <2>12. Copied'
    BY <1>1, <1>4, <2>2, <2>3, <2>5, <2>6, <2>7, <2>11, QuietStep DEF Copied, StoppedAt
  <2>13. box \in Boxes
    <3>1. box \in [DOMAIN box -> Nat]
      BY <1>1, <1>3, <2>b, BoxIs DEF With, SendRecords
    <3>2. QED
      BY <1>3, <2>8, <3>1, BoxIs
  <2>14. QED
    BY <1>0, <2>1, <2>2, <2>3, <2>12, <2>13 DEF RelayTypeOK
<1>6. CASE ~Room(d)
  <2>1. /\ mailbox' = [mailbox EXCEPT ![d] = kept]
        /\ send' = [send EXCEPT ![s] = Onward(send[s])]
    BY <1>6, <1>d, <1>k DEF Enqueue, PassedOver
  <2>2. PICK w : w = Onward(send[s])
    OBVIOUS
  <2>3. /\ w \in SendRecords /\ w.pc = "lookup" /\ w.got = send[s].got
        /\ Extends(send[s], w) /\ SendFine(w, now)
    <3>1. send[s].pc \in Delivering
      BY <1>1 DEF Delivering
    <3>2. QED
      BY <2>2, <3>1, OnwardPlain
  <2>4. mailbox'[d] = kept /\ \A c \in Devices : c # d => mailbox'[c] = mailbox[c]
    BY <1>0, <1>2, <2>1 DEF RelayTypeOK
  <2>5. ASSUME NEW c \in Devices, NEW e \in DOMAIN mailbox'[c]
        PROVE  e \in DOMAIN mailbox[c] /\ mailbox'[c][e] = mailbox[c][e]
    BY <1>3, <2>4
  <2>6. send' = [send EXCEPT ![s] = w] /\ send[s].pc \notin StoppedAt
    BY <1>1, <2>1, <2>2 DEF StoppedAt
  <2>7. Copied'
    BY <1>4, <2>3, <2>5, <2>6, QuietStep DEF Copied
  <2>8. QED
    BY <1>0, <1>3, <2>1, <2>3, <2>6, <2>7 DEF RelayTypeOK
<1>7. QED
  BY <1>5, <1>6

\* Recording an envelope that no row answers for.
LEMMA RowAdded ==
  ASSUME CopyInv, NEW s \in Sends, NEW k, k = Key(s, To(s)), send[s].pc = "record",
         k \notin DOMAIN dedup, UNCHANGED <<mailbox, now>>,
         NEW row, row = [id |-> Envelope(s, send[s].i), expires |-> send[s].expires],
         dedup' = With(dedup, k, row),
         NEW a0, a0 = Answered(To(s), row),
         send' = [send EXCEPT ![s] = Onward([send[s] EXCEPT !.got = @ \cup {a0}])]
  PROVE  Copied' /\ send' \in [Sends -> SendRecords] /\ dedup' \in [DOMAIN dedup' -> Rows]
<1>0. RelayTypeOK
  BY DEF CopyInv
<1>1. send[s] \in SendRecords /\ SendFine(send[s], now)
  BY <1>0, Parts DEF CopyInv, SendsFine
<1>w. PICK w : w = Onward([send[s] EXCEPT !.got = @ \cup {a0}])
  OBVIOUS
<1>t. PICK t0 \in Nat : t0 = send[s].expires
  BY <1>1 DEF SendRecords
<1>e. PICK e0 : e0 = Envelope(s, send[s].i)
  OBVIOUS
<1>2. /\ e0 = <<s, send[s].i>> /\ e0 \in Sends \X Nat /\ send[s].i \in send[s].put
      /\ send[s].i \in Nat /\ To(s) \in Devices /\ DeviceOf(e0) = To(s) /\ KeyOf(e0) = k
      /\ k[2] = To(s)
  BY <1>1, <1>e DEF Envelope, SendRecords, SendFine, To, DeviceOf, KeyOf, Key
<1>3. /\ row \in Rows /\ row.id = e0 /\ row.expires = t0
      /\ a0 \in Answers /\ a0.to = To(s) /\ a0.id = e0 /\ a0.expires = t0
  BY <1>2, <1>t, <1>e DEF Rows, Answers, Answered
<1>4. /\ DOMAIN dedup' = DOMAIN dedup \cup {k} /\ dedup'[k] = row
      /\ \A x \in DOMAIN dedup : x # k /\ dedup'[x] = dedup[x]
  BY DEF With
<1>5. /\ w \in SendRecords /\ w.pc = "lookup" /\ w.got = send[s].got \cup {a0}
      /\ w.body = send[s].body /\ w.items = send[s].items
      /\ Extends(send[s], w) /\ SendFine(w, now)
  <2>1. PICK G \in SUBSET Answers : G = {a0}
    BY <1>3
  <2>2. w = Answering(send[s], G)
    BY <1>w, <2>1 DEF Answering
  <2>3. send[s].pc \in Delivering
    BY DEF Delivering
  <2>4. /\ w \in SendRecords /\ w.pc = "lookup" /\ w.got = send[s].got \cup G
        /\ w.body = send[s].body /\ w.items = send[s].items
        /\ Extends(send[s], w) /\ SendFine(w, now)
    BY ONLY <2>2, <2>3, OnwardFine, CopyInv, s \in Sends, G \in SUBSET Answers
  <2>5. QED
    BY <2>1, <2>4
<1>6. send' = [send EXCEPT ![s] = w]
  BY <1>w
<1>7. send'[s] = w /\ \A t \in Sends : t # s => send'[t] = send[t]
  BY <1>0, <1>6 DEF RelayTypeOK
<1>8. SendsExtend
  BY <1>5, <1>7 DEF SendsExtend, Extends
<1>9. \A t \in Sends : \A a \in send'[t].got :
        (a \in send[t].got /\ Key(t, a.to)' = Key(t, a.to)) \/ (t = s /\ a = a0)
  <2>1. ASSUME NEW t \in Sends, NEW a \in send'[t].got, ~(t = s /\ a = a0)
        PROVE  a \in send[t].got
    BY <1>5, <1>7, <2>1
  <2>2. QED
    BY <1>0, <1>8, <2>1, AnswerStays
<1>10. Key(s, a0.to)' = k
  BY <1>3, <1>5, <1>7 DEF Key
<1>11. \A e, d : e[1] \in Sends /\ PutInto(e, d) => PutInto(e, d)' /\ KeyOf(e)' = KeyOf(e)
  BY <1>0, <1>8, PutStays DEF PutInto
<1>12. PutInto(e0, To(s))
  BY <1>2 DEF PutInto
<1>13. ASSUME NEW q \in Sends, NEW a \in send[q].got, Key(q, a.to) = k
       PROVE  a.expires <= t0 - Lifetime
  <2>1. MintFine(s)
    BY DEF CopyInv, MintsFine, Minting
  <2>2. QED
    BY <1>13, <1>t, <2>1 DEF MintFine
<1>14. SendsFine'
  BY <1>5, <1>7 DEF CopyInv, SendsFine
<1>15. CopiesFine'
  <2> SUFFICES ASSUME NEW d \in Devices, NEW e \in DOMAIN mailbox[d]
               PROVE  PutInto(e, d)' /\ Waits(e, mailbox[d][e])'
    BY DEF CopiesFine
  <2>1. PutInto(e, d) /\ Waits(e, mailbox[d][e]) /\ e[1] \in Sends /\ e \in Sends \X Nat
    BY <1>0, Parts DEF CopyInv, CopiesFine
  <2>2. PutInto(e, d)' /\ KeyOf(e)' = KeyOf(e)
    BY <1>11, <2>1
  <2>3. CASE e[1] = s /\ send[s].i = e[2] /\ mailbox[d][e] = t0
    <3>1. e = e0
      BY <1>2, <2>1, <2>3
    <3>2. Names(k, e0, t0)'
      BY <1>3, <1>4 DEF Names
    <3>3. QED
      BY <1>2, <2>2, <2>3, <3>1, <3>2 DEF Waits
  <2>4. CASE mailbox[d][e] > now => Names(KeyOf(e), e, mailbox[d][e])
    BY <1>4, <2>2, <2>4 DEF Waits, Names
  <2>5. CASE /\ ~(e[1] = s /\ send[s].i = e[2] /\ mailbox[d][e] = t0)
             /\ ~(mailbox[d][e] > now => Names(KeyOf(e), e, mailbox[d][e]))
    BY <1>7, <1>t, <2>1, <2>2, <2>5 DEF Waits
  <2>6. QED
    BY <2>3, <2>4, <2>5
<1>16. RowsFine'
  <2> SUFFICES ASSUME NEW x \in DOMAIN dedup' PROVE PutInto(dedup[x].id, x[2])'
    BY DEF RowsFine
  <2>1. CASE x = k
    BY <1>2, <1>3, <1>4, <1>11, <1>12, <2>1
  <2>2. CASE x # k
    <3>1. x \in DOMAIN dedup /\ dedup'[x] = dedup[x]
      BY <1>4, <2>2
    <3>2. PutInto(dedup[x].id, x[2]) /\ dedup[x].id[1] \in Sends
      BY <1>0, <3>1, Parts DEF CopyInv, RowsFine
    <3>3. QED
      BY <1>11, <3>1, <3>2
  <2>3. QED
    BY <2>1, <2>2
<1>17. AnswersFine'
  <2> SUFFICES ASSUME NEW t \in Sends, NEW a \in send'[t].got PROVE AnswerFine(t, a)'
    BY DEF AnswersFine
  <2>1. CASE a \in send[t].got /\ Key(t, a.to)' = Key(t, a.to)
    <3>1. AnswerFine(t, a) /\ a.id[1] \in Sends
      BY <1>0, <2>1, Parts DEF CopyInv, AnswersFine
    <3>2. PutInto(a.id, a.to)'
      BY <1>11, <3>1 DEF AnswerFine
    <3>3. CASE Names(Key(t, a.to), a.id, a.expires)
      BY <1>4, <2>1, <3>2, <3>3 DEF AnswerFine, Names
    <3>4. CASE Outlived(Key(t, a.to), a.expires)
      <4>1. Outlived(Key(t, a.to), a.expires)'
        BY <1>3, <1>4, <1>13, <2>1, <3>4 DEF Outlived
      <4>2. QED
        BY <3>2, <4>1 DEF AnswerFine
    <3>5. QED
      BY <3>1, <3>3, <3>4 DEF AnswerFine
  <2>2. CASE t = s /\ a = a0
    <3>1. PutInto(a.id, a.to)'
      BY <1>2, <1>3, <1>11, <1>12, <2>2
    <3>2. Names(Key(t, a.to), a.id, a.expires)'
      BY <1>3, <1>4, <1>10, <2>2 DEF Names
    <3>3. QED
      BY <3>1, <3>2 DEF AnswerFine
  <2>3. QED
    BY <1>9, <2>1, <2>2
<1>18. MintsFine'
  <2> SUFFICES ASSUME NEW t \in Sends, Minting(t)' PROVE MintFine(t)'
    BY DEF MintsFine
  <2>1. t # s /\ send'[t] = send[t] /\ Minting(t)
    BY <1>5, <1>7 DEF Minting
  <2>2. MintFine(t) /\ Key(t, To(t))' = Key(t, To(t)) /\ send'[t].expires = send[t].expires
    BY <2>1 DEF CopyInv, MintsFine, Key, To
  <2>3. CASE Key(t, To(t)) = k
    <3>1. /\ send[t].expires \in Nat /\ send[t].expires <= now + Lifetime
          /\ send[s].since \in Nat /\ now <= send[s].since + 1
          /\ send[s].since + Lifetime <= t0 /\ now \in Nat /\ Lifetime \in Nat
      BY <1>0, <1>1, <1>t, <2>1, Parts, RelayConstants
      DEF CopyInv, SendsFine, SendFine, Minting, SendRecords, Working
    <3>2. t0 >= send[t].expires - 1
      BY ONLY <3>1, t0 \in Nat
    <3>3. QED
      BY <1>3, <1>4, <2>2, <2>3, <3>2 DEF MintFine
  <2>4. CASE Key(t, To(t)) # k
    <3>1. Key(t, To(t)) \in DOMAIN dedup' <=> Key(t, To(t)) \in DOMAIN dedup
      BY <1>4, <2>4
    <3>2. Key(t, To(t)) \in DOMAIN dedup => dedup'[Key(t, To(t))] = dedup[Key(t, To(t))]
      BY <1>4
    <3>3. \A q \in Sends : \A a \in send'[q].got :
            Key(q, a.to)' = Key(t, To(t)) => a \in send[q].got /\ Key(q, a.to) = Key(t, To(t))
      BY <1>9, <1>10, <2>4
    <3>4. QED
      BY <2>2, <3>1, <3>2, <3>3 DEF MintFine
  <2>5. QED
    BY <2>3, <2>4
<1>19. AnswersAgree'
  <2>1. SUFFICES ASSUME NEW t \in Sends, NEW q \in Sends,
                        NEW a \in send'[t].got, NEW b \in send'[q].got,
                        Key(t, a.to)' = Key(q, b.to)', a.id # b.id
                 PROVE  a.expires <= b.expires - Lifetime \/ b.expires <= a.expires - Lifetime
    BY DEF AnswersAgree
  <2>2. CASE a \in send[t].got /\ Key(t, a.to)' = Key(t, a.to)
    <3>1. CASE b \in send[q].got /\ Key(q, b.to)' = Key(q, b.to)
      BY <2>1, <2>2, <3>1 DEF CopyInv, AnswersAgree
    <3>2. CASE q = s /\ b = a0
      BY <1>3, <1>10, <1>13, <2>1, <2>2, <3>2
    <3>3. QED
      BY <1>9, <3>1, <3>2
  <2>3. CASE t = s /\ a = a0
    <3>1. CASE b \in send[q].got /\ Key(q, b.to)' = Key(q, b.to)
      BY <1>3, <1>10, <1>13, <2>1, <2>3, <3>1
    <3>2. CASE q = s /\ b = a0
      BY <2>1, <2>3, <3>2
    <3>3. QED
      BY <1>9, <3>1, <3>2
  <2>4. QED
    BY <1>9, <2>2, <2>3
<1>20. send' \in [Sends -> SendRecords] /\ dedup' \in [DOMAIN dedup' -> Rows]
  <2>1. send' \in [Sends -> SendRecords]
    BY <1>0, <1>5, <1>6 DEF RelayTypeOK
  <2>2. \A x \in DOMAIN dedup' : dedup'[x] \in Rows
    BY <1>0, <1>3, <1>4 DEF RelayTypeOK
  <2>3. dedup' = [x \in DOMAIN dedup' |-> dedup'[x]]
    BY DEF With
  <2>4. QED
    BY <2>1, <2>2, <2>3
<1>21. QED
  BY <1>14, <1>15, <1>16, <1>17, <1>18, <1>19, <1>20 DEF Copied

LEMMA RecordCopied ==
  ASSUME CopyInv, NEW s \in Sends, Record(s)
  PROVE  Copied' /\ send' \in [Sends -> SendRecords] /\ dedup' \in [DOMAIN dedup' -> Rows]
<1>0. /\ send \in [Sends -> SendRecords] /\ dedup \in [DOMAIN dedup -> Rows]
      /\ send[s].pc = "record" /\ UNCHANGED <<mailbox, now>>
  BY DEF CopyInv, RelayTypeOK, Record
<1>1. CASE Clash(s)
  <2>1. send' = [send EXCEPT ![s].pc = "failed"] /\ UNCHANGED dedup
    BY <1>1 DEF Record
  <2>2. \E w : Fine(s, w) /\ w.got = send[s].got /\ w.pc \notin {"enqueue", "record"}
    BY <1>0, <2>1, EndFine
  <2>3. QED
    BY <1>0, <2>1, <2>2, QuietlyCopied
<1>2. CASE ~Clash(s)
  <2>k. PICK k : k = Key(s, To(s))
    OBVIOUS
  <2>r. PICK row : row = [id |-> Envelope(s, send[s].i), expires |-> send[s].expires]
    OBVIOUS
  <2>a. PICK a0 : a0 = Answered(To(s), row)
    OBVIOUS
  <2>1. dedup' = With(dedup, k, row) /\ k \notin DOMAIN dedup
    BY <1>2, <2>k, <2>r DEF Record, Clash
  <2>2. send' = [send EXCEPT ![s] = Onward([send[s] EXCEPT !.got = @ \cup {a0}])]
    BY <1>2, <2>r, <2>a DEF Record
  <2>3. QED
    BY <1>0, <2>k, <2>r, <2>a, <2>1, <2>2, RowAdded
<1>3. QED
  BY <1>1, <1>2

LEMMA EndCopied ==
  ASSUME CopyInv, NEW s \in Sends, Finish(s) \/ LoseSend(s)
  PROVE  Copied' /\ send' \in [Sends -> SendRecords]
<1>1. UNCHANGED <<mailbox, dedup, now>>
  BY DEF Finish, LoseSend
<1>2. CASE Finish(s)
  <2>1. send[s].pc = "lookup" /\ send' = [send EXCEPT ![s].pc = "done"]
    BY <1>2 DEF Finish, Goto, CopyInv, RelayTypeOK
  <2>2. \E w : Fine(s, w) /\ w.got = send[s].got /\ w.pc \notin {"enqueue", "record"}
    BY <2>1, EndFine
  <2>3. QED
    BY <1>1, <2>2, QuietlyCopied
<1>3. CASE LoseSend(s)
  <2>1. \E w : Fine(s, w) /\ w.got = send[s].got /\ w.pc \notin {"enqueue", "record"}
    BY <1>3, EndFine DEF LoseSend
  <2>2. QED
    BY <1>1, <2>1, QuietlyCopied
<1>4. QED
  BY <1>2, <1>3

-----------------------------------------------------------------------------
(* The steps that leave what was sent as it is.                             *)

\* The same send, but for what only the properties about removals look at.
SameSend(v, w) ==
  /\ w.pc = v.pc /\ w.body = v.body /\ w.may = v.may /\ w.items = v.items /\ w.i = v.i
  /\ w.expires = v.expires /\ w.got = v.got /\ w.put = v.put /\ w.since = v.since

LEMMA SameKeys ==
  ASSUME NEW s \in Sends, SameSend(send[s], send'[s])
  PROVE  /\ \A d : Key(s, d)' = Key(s, d)
         /\ To(s)' = To(s) /\ (Minting(s)' <=> Minting(s)) /\ send'[s].got = send[s].got
BY DEF SameSend, Key, To, Minting

LEMMA SameEnvelopes ==
  ASSUME \A s \in Sends : SameSend(send[s], send'[s]), NEW e, e[1] \in Sends
  PROVE  /\ DeviceOf(e)' = DeviceOf(e) /\ KeyOf(e)' = KeyOf(e)
         /\ \A d : PutInto(e, d)' <=> PutInto(e, d)
BY DEF SameSend, Key, DeviceOf, KeyOf, PutInto

\* Rows may lapse and be dropped, mailboxes may be emptied, time may pass.
LEMMA RestCopied ==
  ASSUME CopyInv, \A s \in Sends : SameSend(send[s], send'[s]),
         now' \in Nat, now <= now', \A s \in Sends : SendFine(send'[s], now'),
         \A d \in Devices : \A e \in DOMAIN mailbox'[d] :
           e \in DOMAIN mailbox[d] /\ mailbox'[d][e] = mailbox[d][e],
         \A k \in DOMAIN dedup' : k \in DOMAIN dedup /\ dedup'[k] = dedup[k],
         \A k \in DOMAIN dedup \ DOMAIN dedup' : dedup[k].expires <= now
  PROVE  Copied'
<1>0. RelayTypeOK /\ now \in Nat /\ Lifetime \in Nat /\ Lifetime >= 3
  BY RelayConstants DEF CopyInv, RelayTypeOK
<1>1. \A k, e, t : Names(k, e, t) /\ ~Names(k, e, t)' => t <= now
  BY DEF Names
<1>2. SendsFine'
  BY DEF SendsFine
<1>3. CopiesFine'
  <2> SUFFICES ASSUME NEW d \in Devices, NEW e \in DOMAIN mailbox'[d]
               PROVE  PutInto(e, d)' /\ Waits(e, mailbox[d][e])'
    BY DEF CopiesFine
  <2>1. /\ PutInto(e, d) /\ Waits(e, mailbox[d][e]) /\ e[1] \in Sends
        /\ mailbox'[d][e] = mailbox[d][e] /\ mailbox[d][e] \in Nat
    BY <1>0, Parts DEF CopyInv, CopiesFine
  <2>2. PutInto(e, d)' /\ KeyOf(e)' = KeyOf(e) /\ SameSend(send[e[1]], send'[e[1]])
    BY <2>1, SameEnvelopes
  <2>3. (mailbox[d][e] > now => Names(KeyOf(e), e, mailbox[d][e]))
          => (mailbox'[d][e] > now' => Names(KeyOf(e), e, mailbox[d][e])')
    BY <1>0, <1>1, <2>1, <2>2 DEF Names
  <2>4. QED
    BY <2>1, <2>2, <2>3 DEF Waits, SameSend
<1>4. RowsFine'
  <2> SUFFICES ASSUME NEW k \in DOMAIN dedup' PROVE PutInto(dedup[k].id, k[2])'
    BY DEF RowsFine
  <2>1. dedup'[k] = dedup[k] /\ PutInto(dedup[k].id, k[2]) /\ dedup[k].id[1] \in Sends
    BY <1>0, Parts DEF CopyInv, RowsFine
  <2>2. QED
    BY <2>1, SameEnvelopes
<1>5. AnswersFine'
  <2> SUFFICES ASSUME NEW s \in Sends, NEW a \in send'[s].got PROVE AnswerFine(s, a)'
    BY DEF AnswersFine
  <2>1. a \in send[s].got /\ Key(s, a.to)' = Key(s, a.to)
    BY SameKeys
  <2>2. AnswerFine(s, a) /\ a.id[1] \in Sends /\ a.expires \in Nat
    BY <1>0, <2>1, Parts DEF CopyInv, AnswersFine
  <2>3. PutInto(a.id, a.to)'
    BY <2>2, SameEnvelopes DEF AnswerFine
  <2>4. CASE Names(Key(s, a.to), a.id, a.expires)
    <3>1. CASE Key(s, a.to) \in DOMAIN dedup'
      BY <2>1, <2>3, <2>4, <3>1 DEF AnswerFine, Names
    <3>2. CASE Key(s, a.to) \notin DOMAIN dedup'
      <4>1. a.expires <= now
        BY <2>4, <3>2 DEF Names
      <4>2. Outlived(Key(s, a.to), a.expires)'
        BY <1>0, <2>1, <2>2, <3>2, <4>1 DEF Outlived
      <4>3. QED
        BY <2>3, <4>2 DEF AnswerFine
    <3>3. QED
      BY <3>1, <3>2
  <2>5. CASE Outlived(Key(s, a.to), a.expires)
    <3>1. Outlived(Key(s, a.to), a.expires)'
      BY <1>0, <2>1, <2>2, <2>5 DEF Outlived
    <3>2. QED
      BY <2>3, <3>1 DEF AnswerFine
  <2>6. QED
    BY <2>2, <2>4, <2>5 DEF AnswerFine
<1>6. MintsFine'
  <2> SUFFICES ASSUME NEW s \in Sends, Minting(s)' PROVE MintFine(s)'
    BY DEF MintsFine
  <2>1. PICK k : k = Key(s, To(s))
    OBVIOUS
  <2>2. Minting(s) /\ Key(s, To(s))' = k /\ send'[s].expires = send[s].expires
    BY <2>1, SameKeys DEF SameSend
  <2>3. MintFine(s)
    BY <2>2 DEF CopyInv, MintsFine
  <2>4. PICK t \in Nat : t = send[s].expires
    BY <1>0, Parts DEF SendRecords
  <2>5. \A q \in Sends : \A a \in send'[q].got : a \in send[q].got /\ Key(q, a.to)' = Key(q, a.to)
    BY SameKeys
  <2>6. now < t - 1
    <3>1. SendFine(send[s], now) /\ send[s].since \in Nat
      BY <1>0, Parts DEF CopyInv, SendsFine, SendRecords
    <3>2. now <= send[s].since + 1 /\ send[s].since + Lifetime <= t
      BY <2>2, <2>4, <3>1 DEF SendFine, Minting, Working
    <3>3. QED
      BY <1>0, <3>1, <3>2
  <2>7. CASE k \in DOMAIN dedup'
    BY <2>1, <2>2, <2>3, <2>7 DEF MintFine
  <2>8. CASE k \notin DOMAIN dedup'
    <3>1. CASE k \notin DOMAIN dedup
      BY <2>1, <2>2, <2>3, <2>5, <2>8, <3>1 DEF MintFine
    <3>2. CASE k \in DOMAIN dedup
      <4>1. dedup[k].expires <= now /\ dedup[k].expires \in Nat
        BY <1>0, <2>8, <3>2, Parts
      <4>2. dedup[k].expires <= t - Lifetime
        BY <1>0, <2>1, <2>3, <2>4, <2>6, <3>2, <4>1 DEF MintFine
      <4>3. ASSUME NEW q \in Sends, NEW a \in send[q].got, Key(q, a.to) = k
            PROVE  a.expires <= t - Lifetime
        <5>1. AnswerFine(q, a) /\ a.expires \in Nat
          BY <1>0, Parts DEF CopyInv, AnswersFine
        <5>2. a.expires = dedup[k].expires \/ a.expires <= dedup[k].expires - Lifetime
          BY <3>2, <4>3, <5>1 DEF AnswerFine, Names, Outlived
        <5>3. QED
          BY <1>0, <4>1, <4>2, <5>1, <5>2
      <4>4. QED
        BY <2>2, <2>4, <2>5, <2>8, <4>3 DEF MintFine
    <3>3. QED
      BY <3>1, <3>2
  <2>9. QED
    BY <2>7, <2>8
<1>7. AnswersAgree'
  <2>1. \A q \in Sends : \A a \in send'[q].got : a \in send[q].got /\ Key(q, a.to)' = Key(q, a.to)
    BY SameKeys
  <2>2. QED
    BY <2>1 DEF CopyInv, AnswersAgree
<1>8. QED
  BY <1>2, <1>3, <1>4, <1>5, <1>6, <1>7 DEF Copied

\* A mailbox that keeps some of its envelopes.
LEMMA FewerEnvelopes ==
  ASSUME NEW b \in Boxes, NEW S
  PROVE  LET c == Restrict(b, Live(b) \ S)
         IN  c \in Boxes /\ \A e \in DOMAIN c : e \in DOMAIN b /\ c[e] = b[e]
<1>c. PICK c : c = Restrict(b, Live(b) \ S)
  OBVIOUS
<1>1. DOMAIN c = Live(b) \ S /\ \A e \in DOMAIN c : e \in DOMAIN b /\ c[e] = b[e]
  BY <1>c DEF Restrict, Live
<1>2. c = [e \in DOMAIN c |-> c[e]]
  BY <1>c DEF Restrict
<1>3. DOMAIN b \subseteq Sends \X Nat /\ b \in [DOMAIN b -> Nat]
  BY BoxIs
<1>4. c \in [DOMAIN c -> Nat] /\ DOMAIN c \subseteq Sends \X Nat
  BY <1>1, <1>2, <1>3
<1>5. QED
  BY <1>c, <1>1, <1>4, BoxIs

LEMMA SendsStay ==
  ASSUME CopyInv, UNCHANGED <<send, now>>
  PROVE  /\ \A s \in Sends : SameSend(send[s], send'[s])
         /\ now' \in Nat /\ now <= now' /\ \A s \in Sends : SendFine(send'[s], now')
BY DEF CopyInv, RelayTypeOK, SendsFine, SameSend

LEMMA ReceiveCopied ==
  ASSUME CopyInv, NEW d \in Devices, Receive(d)
  PROVE  CopyInv'
<1>1. /\ UNCHANGED <<known, send, dedup, now, out>> /\ RelayTypeOK
      /\ \A k \in DOMAIN dedup' : k \in DOMAIN dedup /\ dedup'[k] = dedup[k]
      /\ \A k \in DOMAIN dedup \ DOMAIN dedup' : dedup[k].expires <= now
  BY DEF Receive, CopyInv
<1>2. PICK acked : mailbox' = [mailbox EXCEPT ![d] = Restrict(@, Live(@) \ acked)]
  BY DEF Receive
<1>b. PICK box : box = Restrict(mailbox[d], Live(mailbox[d]) \ acked)
  OBVIOUS
<1>3. mailbox[d] \in Boxes
  BY <1>1 DEF RelayTypeOK
<1>4. box \in Boxes /\ \A e \in DOMAIN box : e \in DOMAIN mailbox[d] /\ box[e] = mailbox[d][e]
  BY <1>b, <1>3, FewerEnvelopes
<1>5. mailbox' = [mailbox EXCEPT ![d] = box]
  BY <1>2, <1>b
<1>6. mailbox' \in [Devices -> Boxes]
  BY <1>1, <1>4, <1>5 DEF RelayTypeOK
<1>7. \A c \in Devices : \A e \in DOMAIN mailbox'[c] :
        e \in DOMAIN mailbox[c] /\ mailbox'[c][e] = mailbox[c][e]
  BY <1>1, <1>4, <1>5 DEF RelayTypeOK
<1>8. Copied'
  BY <1>1, <1>7, SendsStay, RestCopied
<1>9. QED
  BY <1>1, <1>6, <1>8 DEF CopyInv, Copied, RelayTypeOK

LEMMA CleanupCopied ==
  ASSUME CopyInv, Cleanup
  PROVE  CopyInv'
<1>1. /\ UNCHANGED <<known, send, mailbox, now, out>> /\ RelayTypeOK
      /\ dedup' = Restrict(dedup, {k \in DOMAIN dedup : ~RowLapsed(k)})
  BY DEF Cleanup, CopyInv
<1>2. /\ DOMAIN dedup' = {k \in DOMAIN dedup : ~RowLapsed(k)}
      /\ \A k \in DOMAIN dedup' : dedup'[k] = dedup[k]
      /\ dedup' = [k \in DOMAIN dedup' |-> dedup'[k]]
  BY <1>1 DEF Restrict
<1>3. /\ \A k \in DOMAIN dedup' : k \in DOMAIN dedup /\ dedup'[k] = dedup[k]
      /\ \A k \in DOMAIN dedup \ DOMAIN dedup' : dedup[k].expires <= now
  BY <1>2 DEF RowLapsed
<1>4. dedup' \in [DOMAIN dedup' -> Rows]
  BY <1>1, <1>2, <1>3 DEF RelayTypeOK
<1>5. \A d \in Devices : \A e \in DOMAIN mailbox'[d] :
        e \in DOMAIN mailbox[d] /\ mailbox'[d][e] = mailbox[d][e]
  BY <1>1
<1>6. Copied'
  BY <1>1, <1>3, <1>5, SendsStay, RestCopied
<1>7. QED
  BY <1>1, <1>4, <1>6 DEF CopyInv, Copied, RelayTypeOK

LEMMA TickCopied ==
  ASSUME CopyInv, Tick
  PROVE  CopyInv'
<1>1. /\ UNCHANGED <<known, send, mailbox, dedup, out>> /\ RelayTypeOK
      /\ now' = now + 1 /\ now < Horizon /\ now \in Nat /\ Horizon \in Nat
      /\ \A s \in InFlight : send[s].since = now
  BY RelayConstants DEF Tick, CopyInv, RelayTypeOK
<1>2. \A s \in Sends : SameSend(send[s], send'[s])
  BY <1>1 DEF SameSend
<1>3. ASSUME NEW s \in Sends PROVE SendFine(send'[s], now')
  <2>1. SendFine(send[s], now) /\ send[s] \in SendRecords /\ send'[s] = send[s]
    BY <1>1, Parts DEF CopyInv, SendsFine
  <2>2. send[s].pc \in Working => send[s].since = now
    BY <1>1 DEF InFlight, Working, Ended
  <2>3. /\ send[s].since \in Nat /\ send[s].expires \in Nat /\ Lifetime \in Nat
    BY <2>1, RelayConstants DEF SendRecords
  <2>4. send[s].pc \in Working => send[s].since <= now' /\ now' <= send[s].since + 1
    BY <1>1, <2>2, <2>3
  <2>5. send[s].expires <= now + Lifetime => send[s].expires <= now' + Lifetime
    BY <1>1, <2>3
  <2>6. QED
    BY <2>1, <2>4, <2>5 DEF SendFine
<1>4. /\ \A d \in Devices : \A e \in DOMAIN mailbox'[d] :
           e \in DOMAIN mailbox[d] /\ mailbox'[d][e] = mailbox[d][e]
      /\ \A k \in DOMAIN dedup' : k \in DOMAIN dedup /\ dedup'[k] = dedup[k]
      /\ \A k \in DOMAIN dedup \ DOMAIN dedup' : dedup[k].expires <= now
      /\ now' \in Nat /\ now <= now' /\ now' <= Horizon
  BY <1>1
<1>5. Copied'
  BY <1>2, <1>3, <1>4, RestCopied
<1>6. QED
  BY <1>1, <1>4, <1>5 DEF CopyInv, Copied, RelayTypeOK

LEMMA GroupCopied ==
  ASSUME CopyInv, TypeOK, GroupStep
  PROVE  CopyInv' /\ TypeOK'
<1>1. /\ UNCHANGED <<known, mailbox, dedup, now>> /\ RelayTypeOK /\ now \in Nat
      /\ send' = [s \in Sends |-> [send[s] EXCEPT !.out = @ \ Back]]
  BY DEF GroupStep, CopyInv, RelayTypeOK
<1>2. ASSUME NEW s \in Sends
      PROVE  /\ SameSend(send[s], send'[s]) /\ send'[s] \in SendRecords
             /\ SendFine(send'[s], now')
  <2>1. PICK B : B = Back
    OBVIOUS
  <2>2. send'[s] = [send[s] EXCEPT !.out = @ \ B]
    BY <1>1, <2>1
  <2>3. send[s] \in SendRecords /\ SendFine(send[s], now)
    BY <1>1, Parts DEF CopyInv, SendsFine
  <2>4. send[s].out \ B \subseteq Accounts
    BY <2>3 DEF SendRecords
  <2>5. send'[s] \in SendRecords
    BY <2>2, <2>3, <2>4 DEF SendRecords
  <2>6. SameSend(send[s], send'[s])
    BY <2>2, <2>3 DEF SendRecords, SameSend
  <2>7. QED
    BY <1>1, <2>3, <2>5, <2>6 DEF SameSend, SendFine
<1>3. send' \in [Sends -> SendRecords]
  BY <1>1, <1>2
<1>4. PICK r \in Requests :
        /\ Step(r)
        /\ out' = IF run[r].pc = "answer" /\ run'[r].pc = "done"
                    THEN out \cup ({run[r].target} \ DOMAIN members)
                    ELSE out \ Back
  BY DEF GroupStep
<1>5. TypeOK'
  BY <1>4, TypeStep
<1>6. out' \subseteq Accounts
  <2>1. run[r].target \in Accounts /\ out \subseteq Accounts
    BY <1>1 DEF TypeOK, RelayTypeOK
  <2>2. QED
    BY <1>4, <2>1
<1>7. /\ \A d \in Devices : \A e \in DOMAIN mailbox'[d] :
           e \in DOMAIN mailbox[d] /\ mailbox'[d][e] = mailbox[d][e]
      /\ \A k \in DOMAIN dedup' : k \in DOMAIN dedup /\ dedup'[k] = dedup[k]
      /\ \A k \in DOMAIN dedup \ DOMAIN dedup' : dedup[k].expires <= now
      /\ now' \in Nat /\ now <= now'
  BY <1>1
<1>8. Copied'
  BY <1>2, <1>7, RestCopied
<1>9. QED
  BY <1>1, <1>3, <1>5, <1>6, <1>8 DEF CopyInv, Copied, RelayTypeOK

LEMMA LoadCopied ==
  ASSUME CopyInv, TypeOK, NEW d \in Devices, LoadGroups(d) \/ LoadRoster(d)
  PROVE  CopyInv'
<1>1. UNCHANGED <<send, mailbox, dedup, now, out>> /\ RelayTypeOK
  BY DEF LoadGroups, LoadRoster, CopyInv
<1>2. known' \in [Devices -> [epoch : Nat, roster : SUBSET Accounts]]
  BY <1>1 DEF LoadGroups, LoadRoster, TypeOK, RelayTypeOK
<1>3. /\ \A c \in Devices : \A e \in DOMAIN mailbox'[c] :
           e \in DOMAIN mailbox[c] /\ mailbox'[c][e] = mailbox[c][e]
      /\ \A k \in DOMAIN dedup' : k \in DOMAIN dedup /\ dedup'[k] = dedup[k]
      /\ \A k \in DOMAIN dedup \ DOMAIN dedup' : dedup[k].expires <= now
  BY <1>1
<1>4. Copied'
  BY <1>1, <1>3, SendsStay, RestCopied
<1>5. QED
  BY <1>1, <1>2, <1>4 DEF CopyInv, Copied, RelayTypeOK

-----------------------------------------------------------------------------
(* Copies are on record, answers agree and were delivered.                  *)

LEMMA SendCopied ==
  ASSUME CopyInv, TypeOK, NEW s \in Sends, SendStep(s)
  PROVE  CopyInv' /\ UNCHANGED groupVars
<1>0. UNCHANGED <<groupVars, known, now, out>> /\ RelayTypeOK
  BY DEF SendStep, BeginSend, CheckMember, ReadMembers, LookUp, Enqueue, Record, Finish,
         LoseSend, CopyInv
<1>1. ASSUME Copied', send' \in [Sends -> SendRecords],
             mailbox' \in [Devices -> Boxes], dedup' \in [DOMAIN dedup' -> Rows]
      PROVE  CopyInv'
  BY <1>0, <1>1 DEF CopyInv, Copied, RelayTypeOK
<1>2. mailbox' = mailbox => mailbox' \in [Devices -> Boxes]
  BY <1>0 DEF RelayTypeOK
<1>3. dedup' = dedup => dedup' \in [DOMAIN dedup' -> Rows]
  BY <1>0 DEF RelayTypeOK
<1>4. ASSUME NEW b \in Bodies, BeginSend(s, b) PROVE CopyInv'
  <2>1. UNCHANGED <<mailbox, dedup, now>>
    BY <1>4 DEF BeginSend
  <2>2. QED
    BY <1>1, <1>2, <1>3, <1>4, <2>1, BeginFine, QuietlyCopied
<1>5. CASE CheckMember(s)
  <2>1. UNCHANGED <<mailbox, dedup, now>>
    BY <1>5 DEF CheckMember
  <2>2. QED
    BY <1>0, <1>1, <1>2, <1>3, <1>5, <2>1, CheckFine, QuietlyCopied
<1>6. CASE ReadMembers(s)
  <2>1. UNCHANGED <<mailbox, dedup, now>>
    BY <1>6 DEF ReadMembers
  <2>2. QED
    BY <1>0, <1>1, <1>2, <1>3, <1>6, <2>1, ReadFine, QuietlyCopied
<1>7. CASE LookUp(s)
  <2>1. UNCHANGED <<mailbox, dedup>>
    BY <1>7 DEF LookUp
  <2>2. QED
    BY <1>0, <1>1, <1>2, <1>3, <1>7, <2>1, LookUpCopied
<1>8. CASE Enqueue(s)
  <2>1. UNCHANGED dedup
    BY <1>8 DEF Enqueue
  <2>2. QED
    BY <1>0, <1>1, <1>3, <1>8, <2>1, EnqueueCopied
<1>9. CASE Record(s)
  <2>1. UNCHANGED mailbox
    BY <1>9 DEF Record
  <2>2. QED
    BY <1>0, <1>1, <1>2, <1>9, <2>1, RecordCopied
<1>10. CASE Finish(s) \/ LoseSend(s)
  <2>1. UNCHANGED <<mailbox, dedup>>
    BY <1>10 DEF Finish, LoseSend
  <2>2. QED
    BY <1>0, <1>1, <1>2, <1>3, <1>10, <2>1, EndCopied
<1>11. QED
  BY <1>0, <1>4, <1>5, <1>6, <1>7, <1>8, <1>9, <1>10 DEF SendStep

LEMMA CopyStep ==
  ASSUME CopyInv, TypeOK, [RelayNext]_vars
  PROVE  CopyInv' /\ TypeOK'
<1>1. ASSUME UNCHANGED groupVars PROVE TypeOK'
  BY <1>1 DEF groupVars, TypeOK
<1>2. ASSUME NEW s \in Sends, SendStep(s) PROVE CopyInv' /\ TypeOK'
  BY <1>1, <1>2, SendCopied
<1>3. ASSUME NEW d \in Devices, LoadGroups(d) \/ LoadRoster(d) \/ Receive(d)
      PROVE  CopyInv' /\ TypeOK'
  <2>1. UNCHANGED groupVars
    BY <1>3 DEF LoadGroups, LoadRoster, Receive
  <2>2. QED
    BY <1>1, <1>3, <2>1, LoadCopied, ReceiveCopied
<1>4. CASE Cleanup
  <2>1. UNCHANGED groupVars
    BY <1>4 DEF Cleanup
  <2>2. QED
    BY <1>1, <1>4, <2>1, CleanupCopied
<1>5. CASE Tick
  <2>1. UNCHANGED groupVars
    BY <1>5 DEF Tick
  <2>2. QED
    BY <1>1, <1>5, <2>1, TickCopied
<1>6. CASE GroupStep
  BY <1>6, GroupCopied
<1>7. CASE UNCHANGED vars
  <2>1. UNCHANGED <<groupVars, known, send, mailbox, dedup, now, out>> /\ RelayTypeOK
    BY <1>7 DEF vars, relayVars, CopyInv
  <2>2. /\ \A c \in Devices : \A e \in DOMAIN mailbox'[c] :
             e \in DOMAIN mailbox[c] /\ mailbox'[c][e] = mailbox[c][e]
        /\ \A k \in DOMAIN dedup' : k \in DOMAIN dedup /\ dedup'[k] = dedup[k]
        /\ \A k \in DOMAIN dedup \ DOMAIN dedup' : dedup[k].expires <= now
    BY <2>1
  <2>3. Copied'
    BY <2>1, <2>2, SendsStay, RestCopied
  <2>4. QED
    BY <1>1, <2>1, <2>3 DEF CopyInv, Copied, RelayTypeOK
<1>8. QED
  BY <1>2, <1>3, <1>4, <1>5, <1>6, <1>7 DEF RelayNext

LEMMA CopyInit ==
  ASSUME RelayInitAll
  PROVE  CopyInv /\ TypeOK
<1>1. TypeOK /\ DOMAIN members \subseteq Accounts
  <2>1. TypeOK
    BY GroupAssumption
    DEF GroupAssumption, RelayInitAll, Init, TypeOK, NotStarted, Ops, Places
  <2>2. QED
    BY <2>1 DEF TypeOK
<1>2. /\ \A s \in Sends : send[s] = NotSent
      /\ send = [s \in Sends |-> NotSent]
      /\ known = [d \in Devices |-> [epoch |-> 1, roster |-> DOMAIN members]]
      /\ mailbox = [d \in Devices |-> [e \in {} |-> 0]]
      /\ \A d \in Devices : DOMAIN mailbox[d] = {}
      /\ dedup = [k \in {} |-> [id |-> <<>>, expires |-> 0]]
      /\ DOMAIN dedup = {} /\ now = 0 /\ out = {}
  BY DEF RelayInitAll, RelayInit
<1>3. NotSent \in SendRecords
  <2>1. <<>> \in Seq(Devices)
    OBVIOUS
  <2>2. QED
    BY <2>1 DEF NotSent, NoBody, SendRecords, Ended
<1>4. SendFine(NotSent, now)
  <2>1. Len(<<>>) <= MaxItems
    BY RelayConstants
  <2>2. QED
    BY <2>1 DEF NotSent, SendFine, Working, Unlisted
<1>5. RelayTypeOK
  <2>1. [e \in {} |-> 0] \in Boxes
    BY BoxIs
  <2>2. dedup \in [DOMAIN dedup -> Rows]
    BY <1>2
  <2>3. QED
    BY <1>1, <1>2, <1>3, <2>1, <2>2, RelayConstants DEF RelayTypeOK
<1>6. NotSent.got = {} /\ NotSent.pc = "idle"
  BY DEF NotSent
<1>7. SendsFine /\ CopiesFine /\ RowsFine /\ AnswersFine /\ MintsFine /\ AnswersAgree
  BY <1>2, <1>4, <1>6
  DEF SendsFine, CopiesFine, RowsFine, AnswersFine, MintsFine, Minting, AnswersAgree
<1>8. QED
  BY <1>1, <1>5, <1>7 DEF CopyInv

LEMMA CopiesAlwaysFine == RelaySpec => [](CopyInv /\ TypeOK)
<1>1. RelayInitAll => CopyInv /\ TypeOK
  BY CopyInit
<1>2. CopyInv /\ TypeOK /\ [RelayNext]_vars => (CopyInv /\ TypeOK)'
  BY CopyStep
<1>3. QED
  BY <1>1, <1>2, PTL DEF RelaySpec

\* Every envelope that waits is on record, unless its run stopped between putting it
\* and recording it; however often, concurrently and with whatever losses clients send
\* a message, the relay answers with one envelope per recipient and lifetime, and with
\* one that reached the mailbox (POST /v1/messages/batch and /group).
THEOREM FanOutTrue == RelaySpec => []AnswersTrue
<1>1. ASSUME CopyInv PROVE AnswersTrue
  <2>0. RelayTypeOK
    BY <1>1 DEF CopyInv
  <2>1. EveryCopyRecorded
    <3> SUFFICES ASSUME NEW d \in Devices, NEW e \in Live(mailbox[d])
                 PROVE  \/ KeyOf(e) \in DOMAIN dedup /\ dedup[KeyOf(e)].id = e
                        \/ send[e[1]].i = e[2] /\ send[e[1]].pc \in {"record", "failed", "lost"}
      BY DEF EveryCopyRecorded
    <3>1. e \in DOMAIN mailbox[d] /\ mailbox[d][e] > now
      BY DEF Live
    <3>2. QED
      BY <1>1, <3>1 DEF CopyInv, CopiesFine, Waits, Names
  <2>2. AnswersDelivered
    BY <1>1 DEF CopyInv, AnswersFine, AnswerFine, PutInto, AnswersDelivered
  <2>3. QED
    BY <1>1, <2>1, <2>2 DEF CopyInv, AnswersTrue
<1>2. QED
  BY <1>1, CopiesAlwaysFine, PTL

-----------------------------------------------------------------------------
(* Nothing reaches a removed account.                                       *)

\* What a run remembers from its first statements stays as it was.
Remembers(v, w) ==
  /\ w.out = v.out /\ w.epoch = v.epoch /\ w.seen = v.seen /\ w.roster = v.roster
  /\ w.body = v.body /\ w.may = v.may

LEMMA OnwardRemembers ==
  ASSUME NEW v \in SendRecords, NEW G \in SUBSET Answers
  PROVE  Remembers(v, Onward([v EXCEPT !.got = @ \cup G])) /\ Remembers(v, Onward(v))
<1>1. PICK u : u = [v EXCEPT !.got = @ \cup G]
  OBVIOUS
<1>2. u \in SendRecords /\ Remembers(v, u)
  BY <1>1 DEF SendRecords, Remembers
<1>3. \A x \in SendRecords : Remembers(x, Onward(x))
  BY DEF Onward, SendRecords, Remembers
<1>4. QED
  BY <1>1, <1>2, <1>3 DEF Remembers

\* A run that delivers.
LEMMA DeliveryRemembers ==
  ASSUME CopyInv, NEW s \in Sends, LookUp(s) \/ Enqueue(s) \/ Record(s)
  PROVE  /\ Remembers(send[s], send'[s]) /\ Passed(send[s])
         /\ \A t \in Sends : t # s => send'[t] = send[t]
<1>1. /\ send \in [Sends -> SendRecords] /\ send[s] \in SendRecords /\ RelayTypeOK
      /\ send[s].pc \in Delivering /\ SendFine(send[s], now)
  BY DEF CopyInv, RelayTypeOK, SendsFine, LookUp, Enqueue, Record, Delivering
<1>2. Passed(send[s])
  BY <1>1 DEF Passed, Delivering
<1>3. /\ Remembers(send[s], Onward(send[s])) /\ Remembers(send[s], send[s])
      /\ \A a \in Answers : Remembers(send[s], Onward([send[s] EXCEPT !.got = @ \cup {a}]))
  BY <1>1, OnwardRemembers DEF Remembers
<1>4. CASE LookUp(s)
  <2>1. PICK w : /\ send' = [send EXCEPT ![s] = w]
                 /\ \/ w = Onward(send[s])
                    \/ /\ To(s) \in Devices /\ LiveRow(Key(s, To(s)))
                       /\ w = Onward([send[s] EXCEPT
                                !.got = @ \cup {Answered(To(s), dedup[Key(s, To(s))])}])
                    \/ w = [send[s] EXCEPT !.pc = "enqueue", !.expires = now + Lifetime]
    <3>1. send[s].i \in DOMAIN send[s].items /\ To(s) \in Devices
      BY <1>1, <1>4 DEF LookUp, SendRecords, SendFine, To
    <3>2. QED
      BY <1>4, <3>1 DEF LookUp, Goto
  <2>2. CASE /\ To(s) \in Devices /\ LiveRow(Key(s, To(s)))
             /\ w = Onward([send[s] EXCEPT
                      !.got = @ \cup {Answered(To(s), dedup[Key(s, To(s))])}])
    <3>1. PICK a : a = Answered(To(s), dedup[Key(s, To(s))])
      OBVIOUS
    <3>2. dedup[Key(s, To(s))] \in Rows
      BY <1>1, <2>2, Parts DEF LiveRow
    <3>3. a \in Answers
      BY <2>2, <3>1, <3>2 DEF Answered, Answers, Rows
    <3>4. Remembers(send[s], w)
      BY <1>3, <2>2, <3>1, <3>3
    <3>5. QED
      BY <1>1, <1>2, <2>1, <3>4
  <2>3. CASE w = [send[s] EXCEPT !.pc = "enqueue", !.expires = now + Lifetime]
    <3>1. PICK t : t = now + Lifetime
      OBVIOUS
    <3>2. w = [send[s] EXCEPT !.pc = "enqueue", !.expires = t]
      BY <2>3, <3>1
    <3>3. Remembers(send[s], w)
      BY <1>1, <3>2 DEF SendRecords, Remembers
    <3>4. QED
      BY <1>1, <1>2, <2>1, <3>3
  <2>4. QED
    BY <1>1, <1>2, <1>3, <2>1, <2>2, <2>3
<1>5. CASE Enqueue(s)
  <2>1. PICK P : P = send[s].put \cup {send[s].i}
    OBVIOUS
  <2>2. \/ send' = [send EXCEPT ![s] = Onward(send[s])]
        \/ send' = [send EXCEPT ![s] = [send[s] EXCEPT !.pc = "record", !.put = P]]
    <3>1. \/ send' = [send EXCEPT ![s] = Onward(send[s])]
          \/ send' = [send EXCEPT ![s].pc = "record", ![s].put = @ \cup {send[s].i}]
      BY <1>5 DEF Enqueue, PassedOver
    <3>2. QED
      BY <1>1, <2>1, <3>1
  <2>3. Remembers(send[s], [send[s] EXCEPT !.pc = "record", !.put = P])
    BY <1>1 DEF SendRecords, Remembers
  <2>4. QED
    BY <1>1, <1>2, <1>3, <2>2, <2>3
<1>6. CASE Record(s)
  <2>r. PICK row : row = [id |-> Envelope(s, send[s].i), expires |-> send[s].expires]
    OBVIOUS
  <2>a. PICK a : a = Answered(To(s), row)
    OBVIOUS
  <2>1. a \in Answers
    BY <1>1, <1>6, <2>r, <2>a
    DEF Record, Answered, Answers, Envelope, SendRecords, SendFine, To
  <2>2. \/ send' = [send EXCEPT ![s].pc = "failed"]
        \/ send' = [send EXCEPT ![s] = Onward([send[s] EXCEPT !.got = @ \cup {a}])]
    BY <1>6, <2>r, <2>a DEF Record
  <2>3. CASE send' = [send EXCEPT ![s].pc = "failed"]
    BY <1>1, <1>2, <2>3 DEF SendRecords, Remembers
  <2>4. CASE send' = [send EXCEPT ![s] = Onward([send[s] EXCEPT !.got = @ \cup {a}])]
    <3>1. PICK w : w = Onward([send[s] EXCEPT !.got = @ \cup {a}])
      OBVIOUS
    <3>2. Remembers(send[s], w)
      BY <1>3, <2>1, <3>1
    <3>3. QED
      BY <1>1, <1>2, <2>4, <3>1, <3>2
  <2>5. QED
    BY <2>2, <2>3, <2>4
<1>7. QED
  BY <1>4, <1>5, <1>6

LEMMA SendOutStep ==
  ASSUME CopyInv, CopyInv', TypeOK, OutInv, NEW s \in Sends, SendStep(s)
  PROVE  OutInv'
<1>0. /\ UNCHANGED <<groupVars, known, out>> /\ RelayTypeOK
      /\ send \in [Sends -> SendRecords] /\ SendFine(send[s], now) /\ SendSafe(send[s])
      /\ send[s] \in SendRecords /\ SendFine(send'[s], now')
  BY DEF SendStep, BeginSend, CheckMember, ReadMembers, LookUp, Enqueue, Record, Finish,
         LoseSend, CopyInv, RelayTypeOK, SendsFine, OutInv
<1>1. ASSUME SendSafe(send'[s]), \A t \in Sends : t # s => send'[t] = send[t] PROVE OutInv'
  <2>1. \A d \in Devices : ClientKnows(d)'
    BY <1>0 DEF OutInv, ClientKnows, Running, Member, groupVars
  <2>2. \A t \in Sends : SendSafe(send[t])'
    <3>1. \A t \in Sends : SendSafe(send'[t])
      BY <1>1 DEF OutInv
    <3>2. QED
      BY <1>0, <3>1 DEF SendSafe, Passed
  <2>3. QED
    BY <1>0, <2>1, <2>2 DEF OutInv, groupVars
<1>2. ASSUME NEW b \in Bodies, BeginSend(s, b) PROVE OutInv'
  <2>1. PICK w : w = [NotSent EXCEPT !.pc = "member", !.body = b,
                        !.epoch = known[b.from].epoch, !.seen = epoch,
                        !.since = now, !.roster = known[b.from].roster, !.out = out]
    OBVIOUS
  <2>2. /\ w.pc = "member" /\ w.put = {} /\ w.may = {} /\ w.out = out /\ w.seen = epoch
        /\ w.epoch = known[b.from].epoch /\ w.roster = known[b.from].roster
    BY <2>1 DEF NotSent
  <2>3. ClientKnows(b.from)
    BY RelayConstants DEF OutInv
  <2>4. SendSafe(w)
    BY <2>2, <2>3 DEF SendSafe, Passed, ClientKnows
  <2>5. send' = [send EXCEPT ![s] = w]
    BY <1>2, <2>1 DEF BeginSend, Goto
  <2>6. QED
    BY <1>0, <1>1, <2>4, <2>5
<1>3. CASE CheckMember(s)
  <2>1. send' = [send EXCEPT ![s] = [send[s] EXCEPT !.pc = AfterMember(s)]] /\ send[s].pc = "member"
    BY <1>3 DEF CheckMember, Goto
  <2>2. PICK w : w = [send[s] EXCEPT !.pc = AfterMember(s)]
    OBVIOUS
  <2>3. Remembers(send[s], w) /\ w.pc = AfterMember(s) /\ w.put = send[s].put
    BY <1>0, <2>2 DEF SendRecords, Remembers
  <2>4. send[s].put = {}
    BY <1>0, <2>1 DEF SendFine, Unlisted
  <2>5. w.pc = "members" \/ w.pc \in {"refused", "stale"}
    BY <2>3 DEF AfterMember
  <2>6. AfterMember(s) = "members"
          => OwnerOf[send[s].body.from] \in DOMAIN members /\ send[s].epoch = send[s].seen
    BY DEF AfterMember, EpochCurrent, Member
  <2>7. out \cap DOMAIN members = {}
    BY DEF OutInv
  <2>8. SendSafe(w)
    BY <1>0, <2>3, <2>4, <2>5, <2>6, <2>7 DEF SendSafe, Remembers, Passed
  <2>9. QED
    BY <1>0, <1>1, <2>1, <2>2, <2>8
<1>4. CASE ReadMembers(s)
  <2>l. PICK list : list = IF send[s].body.kind = "batch" THEN send[s].body.to
                             ELSE SetToSeq(Recipients \ {send[s].body.from})
    OBVIOUS
  <2>1. /\ send' = [send EXCEPT ![s] = [send[s] EXCEPT !.pc = "lookup", !.may = Recipients,
                                                       !.items = list]]
        /\ send[s].pc = "members"
    BY <1>4, <2>l DEF ReadMembers, Goto
  <2>2. PICK w : w = [send[s] EXCEPT !.pc = "lookup", !.may = Recipients, !.items = list]
    OBVIOUS
  <2>3. /\ w.pc = "lookup" /\ w.may = Recipients /\ w.out = send[s].out
        /\ w.epoch = send[s].epoch /\ w.seen = send[s].seen /\ w.roster = send[s].roster
        /\ w.body = send[s].body /\ w.put = send[s].put
    BY <1>0, <2>2 DEF SendRecords
  <2>4. \A d \in Recipients : OwnerOf[d] \in DOMAIN members
    BY DEF Recipients, Member
  <2>5. out \cap DOMAIN members = {} /\ Passed(send[s])
    BY <2>1 DEF OutInv, Passed
  <2>6. SendSafe(w)
    BY <1>0, <2>3, <2>4, <2>5 DEF SendSafe
  <2>7. QED
    BY <1>0, <1>1, <2>1, <2>2, <2>6
<1>5. CASE LookUp(s) \/ Enqueue(s) \/ Record(s)
  <2>1. /\ Remembers(send[s], send'[s]) /\ Passed(send[s])
        /\ \A t \in Sends : t # s => send'[t] = send[t]
    BY <1>5, DeliveryRemembers
  <2>2. SendSafe(send'[s])
    BY <1>0, <2>1 DEF SendSafe, Remembers
  <2>3. QED
    BY <1>1, <2>1, <2>2
<1>6. CASE Finish(s) \/ LoseSend(s)
  <2>1. PICK p \in {"done", "lost"} :
          /\ send' = [send EXCEPT ![s] = [send[s] EXCEPT !.pc = p]]
          /\ p = "done" => send[s].pc = "lookup"
    BY <1>0, <1>6 DEF Finish, Goto, LoseSend
  <2>2. PICK w : w = [send[s] EXCEPT !.pc = p]
    OBVIOUS
  <2>3. Remembers(send[s], w) /\ w.pc = p /\ w.put = send[s].put
    BY <1>0, <2>2 DEF SendRecords, Remembers
  <2>4. Passed(w) => Passed(send[s])
    BY <2>1, <2>3 DEF Passed
  <2>5. SendSafe(w)
    BY <1>0, <2>3, <2>4 DEF SendSafe, Remembers
  <2>6. QED
    BY <1>0, <1>1, <2>1, <2>2, <2>5
<1>7. QED
  BY <1>2, <1>3, <1>4, <1>5, <1>6 DEF SendStep

\* What a group step does to members, epoch and the removals about to be answered.
LEMMA GroupEffect ==
  ASSUME TypeOK, EpochInv, NEW r \in Requests, Step(r)
  PROVE  \/ /\ UNCHANGED <<members, epoch>>
            /\ ~(run[r].pc = "answer" /\ run'[r].pc = "done")
            /\ \A q \in Running("remove")' : run'[q].pc = "answer" =>
                 q \in Running("remove") /\ run'[q] = run[q]
         \/ /\ UNCHANGED epoch /\ DOMAIN members' \subseteq DOMAIN members
            /\ ~(run[r].pc = "answer" /\ run'[r].pc = "done")
            /\ \A q \in Running("remove")' : run'[q].pc # "answer"
         \/ /\ UNCHANGED members /\ epoch' = epoch + 1
            /\ ~(run[r].pc = "answer" /\ run'[r].pc = "done")
         \/ /\ UNCHANGED <<members, epoch>>
            /\ r \in Running("remove") /\ run[r].pc = "answer" /\ run'[r].pc = "done"
            /\ \A q \in Running("remove")' : q \in Running("remove") /\ run'[q] = run[q]
         \/ /\ UNCHANGED epoch /\ DOMAIN members \subseteq DOMAIN members'
            /\ ~(run[r].pc = "answer" /\ run'[r].pc = "done")
            /\ \A q \in Running("remove")' : run'[q].pc = "answer" =>
                 q \in Running("remove") /\ run'[q] = run[q]
<1>0. run \in [Requests -> Runs]
  BY DEF TypeOK, Runs
<1>1. ASSUME NEW by \in Accounts, NEW target \in Accounts,
             BeginRemove(r, by, target) \/ BeginAccept(r, by) \/ BeginRevoke(r, by)
      PROVE  /\ UNCHANGED <<members, epoch>>
             /\ ~(run[r].pc = "answer" /\ run'[r].pc = "done")
             /\ \A q \in Running("remove")' : run'[q].pc = "answer" =>
                  q \in Running("remove") /\ run'[q] = run[q]
  BY <1>0, <1>1 DEF BeginRemove, BeginAccept, BeginRevoke, Begin, Running, Runs
<1>2. CASE ReadEpoch(r)
  BY <1>0, <1>2 DEF ReadEpoch, Running, Runs
<1>3. CASE MarkRemoved(r)
  <2>1. /\ UNCHANGED epoch /\ DOMAIN members' \subseteq DOMAIN members
        /\ run[r].pc = "mark" /\ run'[r].pc = "bump" /\ r \in Running("remove")
    BY <1>0, <1>3 DEF MarkRemoved, Advance, Restrict, Runs
  <2>2. \A q \in Running("remove")' : q \in Running("remove")
    BY <1>0, <1>3 DEF MarkRemoved, Advance, Running, Runs
  <2>3. \A q \in Running("remove")' : q = r
    BY <2>1, <2>2 DEF EpochInv
  <2>4. QED
    BY <2>1, <2>3
<1>4. CASE BumpEpoch(r)
  BY <1>0, <1>4 DEF BumpEpoch, NextEpoch, Advance, EpochInv, Runs
<1>5. CASE AnswerRemoval(r)
  BY <1>0, <1>5 DEF AnswerRemoval, Advance, Running, Runs
<1>6. CASE ReadExisting(r) \/ CountUse(r) \/ CloseInvite(r)
  BY <1>0, <1>6 DEF ReadExisting, CountUse, CloseInvite, Advance, Running, Runs
<1>7. CASE Join(r)
  BY <1>0, <1>7 DEF Join, Advance, Running, Runs
<1>8. CASE LoseRun(r)
  BY <1>8 DEF LoseRun, Running
<1>9. QED
  BY <1>1, <1>2, <1>3, <1>4, <1>5, <1>6, <1>7, <1>8 DEF Step

LEMMA GroupOutStep ==
  ASSUME MaxRemovals = 1, CopyInv, TypeOK, EpochInv, OutInv, GroupStep
  PROVE  OutInv' /\ EpochInv'
<1>1. PICK r \in Requests :
        /\ Step(r)
        /\ out' = IF run[r].pc = "answer" /\ run'[r].pc = "done"
                    THEN out \cup ({run[r].target} \ DOMAIN members)
                    ELSE out \ Back
  BY DEF GroupStep
<1>2. /\ UNCHANGED known /\ send' = [s \in Sends |-> [send[s] EXCEPT !.out = @ \ Back]]
      /\ send \in [Sends -> SendRecords] /\ epoch \in Nat
      /\ \A d \in Devices : known[d].epoch \in Nat
  BY DEF GroupStep, CopyInv, RelayTypeOK, TypeOK
<1>3. out \ Back \subseteq out'
  BY <1>1
<1>4. \A s \in Sends : SendSafe(send[s])'
  <2> SUFFICES ASSUME NEW s \in Sends PROVE SendSafe(send[s])'
    OBVIOUS
  <2>b. PICK B : B = Back
    OBVIOUS
  <2>1. PICK w : w = [send[s] EXCEPT !.out = @ \ B]
    OBVIOUS
  <2>2. /\ w.out = send[s].out \ B /\ w.epoch = send[s].epoch /\ w.seen = send[s].seen
        /\ w.roster = send[s].roster /\ w.body = send[s].body /\ w.may = send[s].may
        /\ w.pc = send[s].pc /\ w.put = send[s].put
    BY <1>2, <2>1 DEF SendRecords
  <2>3. SendSafe(send[s])
    BY DEF OutInv
  <2>4. w.out \subseteq out' /\ w.out \subseteq send[s].out
    BY <1>3, <2>b, <2>2, <2>3 DEF SendSafe
  <2>5. Passed(w) <=> Passed(send[s])
    BY <2>2 DEF Passed
  <2>6. send'[s] = w
    BY <1>2, <2>b, <2>1
  <2>7. /\ w.epoch = w.seen => w.roster \cap w.out = {}
        /\ Passed(w) => OwnerOf[w.body.from] \notin w.out /\ w.epoch = w.seen
        /\ \A d \in w.may : OwnerOf[d] \notin w.out
    BY <2>2, <2>3, <2>4, <2>5 DEF SendSafe
  <2>8. QED
    BY <2>4, <2>6, <2>7 DEF SendSafe, Passed
<1>5. \/ /\ UNCHANGED <<members, epoch>>
         /\ ~(run[r].pc = "answer" /\ run'[r].pc = "done")
         /\ \A q \in Running("remove")' : run'[q].pc = "answer" =>
              q \in Running("remove") /\ run'[q] = run[q]
      \/ /\ UNCHANGED epoch /\ DOMAIN members' \subseteq DOMAIN members
         /\ ~(run[r].pc = "answer" /\ run'[r].pc = "done")
         /\ \A q \in Running("remove")' : run'[q].pc # "answer"
      \/ /\ UNCHANGED members /\ epoch' = epoch + 1
         /\ ~(run[r].pc = "answer" /\ run'[r].pc = "done")
      \/ /\ UNCHANGED <<members, epoch>>
         /\ r \in Running("remove") /\ run[r].pc = "answer" /\ run'[r].pc = "done"
         /\ \A q \in Running("remove")' : q \in Running("remove") /\ run'[q] = run[q]
      \/ /\ UNCHANGED epoch /\ DOMAIN members \subseteq DOMAIN members'
         /\ ~(run[r].pc = "answer" /\ run'[r].pc = "done")
         /\ \A q \in Running("remove")' : run'[q].pc = "answer" =>
              q \in Running("remove") /\ run'[q] = run[q]
  BY <1>1, GroupEffect
<1>6. out' \cap DOMAIN members' = {}
  <2>1. out \cap DOMAIN members = {}
    BY DEF OutInv
  <2>2. (out \ Back) \cap DOMAIN members' = {}
    BY <2>1 DEF Back
  <2>3. QED
    BY <1>1, <1>5, <2>1, <2>2
<1>7. ASSUME NEW d \in Devices PROVE ClientKnows(d)'
  <2>1. ClientKnows(d)
    BY DEF OutInv
  <2>2. known'[d].epoch <= epoch'
    BY <1>2, <1>5, <2>1 DEF ClientKnows
  <2>3. CASE epoch' = epoch + 1
    BY <1>2, <2>1, <2>2, <2>3 DEF ClientKnows
  <2>4. CASE /\ UNCHANGED epoch /\ run[r].pc = "answer" /\ run'[r].pc = "done"
             /\ UNCHANGED members /\ r \in Running("remove")
             /\ \A q \in Running("remove")' : q \in Running("remove") /\ run'[q] = run[q]
    BY <1>1, <1>2, <2>1, <2>2, <2>4 DEF ClientKnows, Member
  <2>5. CASE /\ UNCHANGED epoch /\ out' = out \ Back
             /\ \A q \in Running("remove")' : run'[q].pc # "answer"
    BY <1>2, <2>1, <2>2, <2>5 DEF ClientKnows
  <2>6. CASE /\ UNCHANGED epoch /\ out' = out \ Back
             /\ DOMAIN members \subseteq DOMAIN members'
             /\ \A q \in Running("remove")' : run'[q].pc = "answer" =>
                  q \in Running("remove") /\ run'[q] = run[q]
    BY <1>2, <2>1, <2>2, <2>6 DEF ClientKnows, Member
  <2>7. QED
    BY <1>1, <1>5, <2>3, <2>4, <2>5, <2>6
<1>8. EpochInv'
  BY <1>1, EpochStep
<1>9. QED
  BY <1>4, <1>6, <1>7, <1>8 DEF OutInv

LEMMA OutStep ==
  ASSUME MaxRemovals = 1, CopyInv, CopyInv', TypeOK, EpochInv, OutInv, [RelayNext]_vars
  PROVE  OutInv' /\ EpochInv'
<1>1. ASSUME UNCHANGED groupVars PROVE EpochInv'
  BY <1>1 DEF groupVars, EpochInv, Running
<1>2. ASSUME NEW s \in Sends, SendStep(s) PROVE OutInv' /\ EpochInv'
  <2>1. UNCHANGED groupVars
    BY <1>2, SendCopied
  <2>2. QED
    BY <1>1, <1>2, <2>1, SendOutStep
<1>3. ASSUME UNCHANGED <<groupVars, send, out>>, \A d \in Devices : ClientKnows(d)'
      PROVE  OutInv' /\ EpochInv'
  <2>1. \A s \in Sends : SendSafe(send[s])'
    BY <1>3 DEF OutInv, SendSafe, Passed
  <2>2. QED
    BY <1>1, <1>3, <2>1 DEF OutInv, groupVars
<1>4. ASSUME UNCHANGED <<groupVars, known, send, out>> PROVE OutInv' /\ EpochInv'
  <2>1. \A d \in Devices : ClientKnows(d)'
    BY <1>4 DEF OutInv, ClientKnows, Running, Member, groupVars
  <2>2. QED
    BY <1>3, <1>4, <2>1
<1>5. ASSUME NEW d \in Devices, LoadGroups(d) \/ LoadRoster(d) PROVE OutInv' /\ EpochInv'
  <2>1. /\ UNCHANGED <<groupVars, send, out>> /\ epoch \in Nat
        /\ known \in [Devices -> [epoch : Nat, roster : SUBSET Accounts]]
        /\ out \cap DOMAIN members = {} /\ UNCHANGED <<members, epoch, run, lost>>
    BY <1>5 DEF LoadGroups, LoadRoster, CopyInv, RelayTypeOK, TypeOK, OutInv, groupVars
  <2>2. ASSUME NEW c \in Devices PROVE ClientKnows(c)'
    <3>1. ClientKnows(c) /\ Running("remove")' = Running("remove")
      BY <2>1 DEF OutInv, Running
    <3>2. CASE c # d
      <4>1. known'[c] = known[c]
        BY <1>5, <2>1, <3>2 DEF LoadGroups, LoadRoster
      <4>2. QED
        BY <2>1, <3>1, <4>1 DEF ClientKnows, Member
    <3>3. CASE c = d
      <4>1. known'[c].roster = DOMAIN members /\ known'[c].epoch \in {epoch, known[c].epoch}
        BY <1>5, <2>1, <3>3 DEF LoadGroups, LoadRoster
      <4>2. QED
        BY <2>1, <3>1, <4>1 DEF ClientKnows, Member
    <3>4. QED
      BY <3>2, <3>3
  <2>3. QED
    BY <1>3, <2>1, <2>2
<1>6. ASSUME (\E d \in Devices : Receive(d)) \/ Cleanup \/ Tick \/ UNCHANGED vars
      PROVE  OutInv' /\ EpochInv'
  <2>1. UNCHANGED <<groupVars, known, send, out>>
    BY <1>6 DEF Receive, Cleanup, Tick, vars, relayVars
  <2>2. QED
    BY <1>4, <2>1
<1>7. CASE GroupStep
  BY <1>7, GroupOutStep
<1>8. QED
  BY <1>2, <1>5, <1>6, <1>7 DEF RelayNext

\* A send that begins after a removal was answered brings nothing to the removed
\* account, nothing from it and nothing it could read, when the removals of a group do
\* not overlap: the epoch then tells the clients that know of the removal from those
\* that do not (POST /v1/messages/group and /batch refuse the others).
THEOREM RemovedAreOut ==
  ASSUME MaxRemovals = 1
  PROVE  RelaySpec => []RemovedGetNothing
<1>1. RelayInitAll => OutInv /\ EpochInv
  <2> SUFFICES ASSUME RelayInitAll PROVE OutInv /\ EpochInv
    OBVIOUS
  <2>1. EpochInv /\ epoch = 1 /\ Running("remove") = {}
    BY DEF RelayInitAll, Init, EpochInv, Running, NotStarted
  <2>2. \A d \in Devices : ClientKnows(d)
    BY <2>1 DEF RelayInitAll, RelayInit, ClientKnows
  <2>3. out = {} /\ \A s \in Sends : send[s] = NotSent
    BY DEF RelayInitAll, RelayInit
  <2>4. SendSafe(NotSent)
    BY <2>3 DEF SendSafe, Passed, NotSent
  <2>5. QED
    BY <2>1, <2>2, <2>3, <2>4 DEF OutInv
<1>2. (CopyInv /\ TypeOK) /\ (CopyInv /\ TypeOK)' /\ OutInv /\ EpochInv /\ [RelayNext]_vars
        => (OutInv /\ EpochInv)'
  BY OutStep
<1>3. CopyInv /\ OutInv => RemovedGetNothing
  <2> SUFFICES ASSUME CopyInv, OutInv, NEW s \in Sends, send[s].put # {}
               PROVE  /\ OwnerOf[send[s].body.from] \notin send[s].out
                      /\ \A i \in send[s].put : OwnerOf[send[s].items[i]] \notin send[s].out
                      /\ send[s].roster \cap send[s].out = {}
    BY DEF RemovedGetNothing
  <2>1. SendSafe(send[s]) /\ Passed(send[s]) /\ SendFine(send[s], now)
    BY DEF OutInv, CopyInv, SendsFine, Passed
  <2>2. QED
    BY <2>1 DEF SendSafe, SendFine
<1>4. QED
  BY <1>1, <1>2, <1>3, CopiesAlwaysFine, PTL DEF RelaySpec

-----------------------------------------------------------------------------
(* Every mailbox keeps its contract.                                        *)

\* The contract takes Cardinality from its own instance of FiniteSets.
LEMMA BoxCardinality == \A d, S : Box(d)!Cardinality(S) = Cardinality(S)
BY DEF Box!Cardinality, Cardinality

LEMMA BoxDrops ==
  ASSUME NEW d \in Devices, NEW acked,
         mailbox'[d] = Restrict(mailbox[d], Live(mailbox[d]) \ acked), UNCHANGED now,
         mailbox[d] \in Boxes, now \in Nat
  PROVE  Box(d)!Next
<1>x. PICK X : X = {e \in DOMAIN mailbox[d] : mailbox[d][e] <= now}
  OBVIOUS
<1>a. PICK A : A = acked \cap DOMAIN mailbox[d]
  OBVIOUS
<1>1. X \in SUBSET DOMAIN mailbox[d] /\ A \in SUBSET DOMAIN mailbox[d]
  BY <1>x, <1>a
<1>2. Live(mailbox[d]) \ acked = DOMAIN mailbox[d] \ (X \cup A)
  <2>1. \A e \in DOMAIN mailbox[d] : mailbox[d][e] \in Nat
    BY BoxIs
  <2>2. QED
    BY <1>x, <1>a, <2>1 DEF Live
<1>3. mailbox'[d] = [e \in DOMAIN mailbox[d] \ (X \cup A) |-> mailbox[d][e]]
  BY <1>2 DEF Restrict
<1>4. Box(d)!Drop(X, A)
  BY <1>x, <1>1, <1>3 DEF Box!Drop, Box!Expired
<1>5. QED
  BY <1>1, <1>4 DEF Box!Next

LEMMA BoxTakes ==
  ASSUME NEW d \in Devices, NEW e \in Minted, NEW t \in Nat, t <= Horizon + Lifetime, t > now,
         e \notin DOMAIN mailbox[d], Room(d), UNCHANGED now,
         mailbox'[d] = With(Restrict(mailbox[d], Live(mailbox[d])), e, t),
         mailbox[d] \in Boxes, now \in Nat
  PROVE  Box(d)!Next
<1>x. PICK X : X = {c \in DOMAIN mailbox[d] : mailbox[d][c] <= now}
  OBVIOUS
<1>1. X \in SUBSET DOMAIN mailbox[d] /\ e \notin DOMAIN mailbox[d] \ X
  BY <1>x
<1>2. Live(mailbox[d]) = DOMAIN mailbox[d] \ X
  <2>1. \A c \in DOMAIN mailbox[d] : mailbox[d][c] \in Nat
    BY BoxIs
  <2>2. QED
    BY <1>x, <2>1 DEF Live
<1>3. mailbox'[d] = [c \in (DOMAIN mailbox[d] \ X) \cup {e} |->
                       IF c = e THEN t ELSE mailbox[d][c]]
  BY <1>1, <1>2 DEF With, Restrict
<1>4. Box(d)!Cardinality(DOMAIN mailbox[d] \ X) < MaxBacklog
  BY <1>2, BoxCardinality DEF Room
<1>5. Box(d)!Take(X, e, t)
  BY <1>x, <1>1, <1>3, <1>4 DEF Box!Take, Box!Expired
<1>6. t \in 0..(Horizon + Lifetime)
  BY RelayConstants
<1>7. QED
  BY <1>1, <1>5, <1>6 DEF Box!Next

LEMMA BoxStep ==
  ASSUME CopyInv, RelayNext, NEW d \in Devices
  PROVE  UNCHANGED <<mailbox[d], now>> \/ Box(d)!Next
<1>0. /\ mailbox \in [Devices -> Boxes] /\ now \in Nat /\ now <= Horizon
      /\ RelayTypeOK /\ mailbox[d] \in Boxes
  BY DEF CopyInv, RelayTypeOK
<1>1. ASSUME NEW s \in Sends, SendStep(s) PROVE UNCHANGED <<mailbox[d], now>> \/ Box(d)!Next
  <2>1. CASE ~Enqueue(s)
    BY <1>1, <2>1 DEF SendStep, BeginSend, CheckMember, ReadMembers, LookUp, Record, Finish,
                      LoseSend
  <2>2. CASE Enqueue(s) /\ d # To(s)
    BY <1>0, <2>2 DEF Enqueue
  <2>3. CASE Enqueue(s) /\ d = To(s)
    <3>1. UNCHANGED now
      BY <2>3 DEF Enqueue
    <3>2. CASE ~Room(d)
      <4>1. mailbox'[d] = Restrict(mailbox[d], Live(mailbox[d]))
        BY <1>0, <2>3, <3>2 DEF Enqueue
      <4>2. Live(mailbox[d]) \ {} = Live(mailbox[d])
        OBVIOUS
      <4>3. QED
        BY <1>0, <3>1, <4>1, <4>2, BoxDrops
    <3>3. CASE Room(d)
      <4>e. PICK e : e = <<s, send[s].i>>
        OBVIOUS
      <4>t. PICK t : t = send[s].expires
        OBVIOUS
      <4>1. mailbox'[d] = With(Restrict(mailbox[d], Live(mailbox[d])), e, t)
        BY <1>0, <2>3, <3>3, <4>e, <4>t DEF Enqueue, Envelope
      <4>2. send[s] \in SendRecords /\ SendFine(send[s], now) /\ send[s].pc = "enqueue"
        BY <1>0, <2>3, Parts DEF CopyInv, SendsFine, Enqueue
      <4>3. /\ t \in Nat /\ send[s].since + Lifetime <= t /\ t <= now + Lifetime
            /\ now <= send[s].since + 1 /\ send[s].since \in Nat
        BY <4>t, <4>2 DEF SendRecords, SendFine, Working
      <4>4. t > now /\ t <= Horizon + Lifetime
        BY <1>0, <4>3, RelayConstants
      <4>5. e \in Minted
        BY <4>e, <4>2, RelayConstants DEF Minted, SendFine, SendRecords
      <4>6. e \notin DOMAIN mailbox[d]
        <5>1. SUFFICES ASSUME e \in DOMAIN mailbox[d] PROVE FALSE
          OBVIOUS
        <5>2. PutInto(e, d)
          BY <5>1 DEF CopyInv, CopiesFine
        <5>3. send[s].i \in send[s].put
          BY <4>e, <5>2 DEF PutInto
        <5>4. send[s].i \in Nat
          BY <4>2 DEF SendRecords
        <5>5. QED
          BY <4>2, <5>3, <5>4 DEF SendFine, StoppedAt
      <4>7. QED
        BY <1>0, <3>1, <3>3, <4>1, <4>3, <4>4, <4>5, <4>6, BoxTakes
    <3>4. QED
      BY <3>2, <3>3
  <2>4. QED
    BY <2>1, <2>2, <2>3
<1>2. ASSUME NEW c \in Devices, LoadGroups(c) \/ LoadRoster(c) \/ Receive(c)
      PROVE  UNCHANGED <<mailbox[d], now>> \/ Box(d)!Next
  <2>1. CASE LoadGroups(c) \/ LoadRoster(c)
    BY <2>1 DEF LoadGroups, LoadRoster
  <2>2. CASE Receive(c)
    <3>1. PICK acked : /\ mailbox' = [mailbox EXCEPT ![c] = Restrict(@, Live(@) \ acked)]
                       /\ UNCHANGED now
      BY <2>2 DEF Receive
    <3>2. CASE c = d
      <4>1. mailbox'[d] = Restrict(mailbox[d], Live(mailbox[d]) \ acked)
        BY <1>0, <3>1, <3>2
      <4>2. QED
        BY <1>0, <3>1, <4>1, BoxDrops
    <3>3. CASE c # d
      BY <1>0, <3>1, <3>3
    <3>4. QED
      BY <3>2, <3>3
  <2>3. QED
    BY <1>2, <2>1, <2>2
<1>3. CASE Cleanup \/ GroupStep
  BY <1>3 DEF Cleanup, GroupStep
<1>4. CASE Tick
  <2>1. now < Horizon + Lifetime /\ now' = now + 1 /\ UNCHANGED mailbox
    BY <1>0, <1>4, RelayConstants DEF Tick
  <2>2. Box(d)!Pass
    BY <2>1 DEF Box!Pass
  <2>3. QED
    BY <2>2 DEF Box!Next
<1>5. QED
  BY <1>1, <1>2, <1>3, <1>4 DEF RelayNext

\* Each mailbox behaves as DeviceMailbox promises (MailboxContract) under the sends of
\* any number of handlers: it never holds more than its backlog, takes no envelope it
\* has, and loses none but what is acknowledged or has expired.
THEOREM MailboxesKeep == RelaySpec => MailboxesKept
<1> DEFINE Kept == \A d \in Devices : UNCHANGED <<mailbox[d], now>> \/ Box(d)!Next
<1>1. CopyInv /\ [RelayNext]_vars => [Kept]_vars
  BY BoxStep
<1>2. (CopyInv /\ TypeOK) /\ [RelayNext]_vars => [Kept]_vars
  BY <1>1
<1> HIDE DEF Kept
<1>3. RelaySpec => [][Kept]_vars
  BY <1>2, CopiesAlwaysFine, PTL DEF RelaySpec
<1>4. QED
  BY <1>3 DEF MailboxesKept, Kept

=============================================================================
