-------------------------- MODULE MCMessageRelay ---------------------------
(* A group of three accounts with a device each.                            *)
EXTENDS MessageRelay

CONSTANTS ann, ben, cho, a1, b1, c1, m1, r1, r2, s1, s2

Group == {ann, ben, cho}
Phones == {a1, b1, c1}
Owners == a1 :> ann @@ b1 :> ben @@ c1 :> cho
NoOne == {}
BenBlocksCho == {<<ben, cho>>}
Two == {r1, r2}
Attempts == {s1, s2}

Batch == [kind |-> "batch", from |-> a1, msg |-> m1, to |-> <<b1, c1>>]
FromAnn == [kind |-> "group", from |-> a1, msg |-> m1, to |-> <<>>]
FromCho == [kind |-> "group", from |-> c1, msg |-> m1, to |-> <<>>]
BatchOnly == {Batch}
AnyBody == {Batch, FromAnn, FromCho}

Symmetry == Permutations(Attempts) \cup Permutations(Two)

\* Two scenarios in one run: the group changes under one send; or one batch is
\* sent twice, with losses and with time passing, in a group that stays as it is.
Started == {s \in Sends : send[s].pc # "idle"}
GroupStays == \A r \in Requests : run[r].pc = "idle"
Smooth == now = 0 /\ failures = 0 /\ Cardinality(Started) <= 1
Scenario ==
  /\ GroupStays \/ Smooth
  /\ Smooth \/ \A s \in Started : send[s].body = Batch

MCSpec == RelayInitAll /\ DOMAIN members = Group /\ [][RelayNext /\ Scenario']_vars
=============================================================================
