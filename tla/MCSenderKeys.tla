---------------------------- MODULE MCSenderKeys -----------------------------
(* The phone's own tablet, which may be linked later, one device of a member  *)
(* and one of an account that may join.                                       *)
EXTENDS SenderKeys

CONSTANTS me, ann, bob, tablet, anns, bobs, s1, s2

Owners == (tablet :> me) @@ (anns :> ann) @@ (bobs :> bob)

Budget(sends, overlaps, kills, fails, full, hails, changes) ==
  [sends |-> sends, overlaps |-> overlaps, kills |-> kills, fails |-> fails, full |-> full,
   hails |-> hails, changes |-> changes]

Limits == {Budget(3, 0, 1, 0, 0, 0, 2),    \* one send after another, a kill
           Budget(3, 0, 0, 1, 0, 0, 2),    \* a request or its answer is lost
           Budget(2, 0, 0, 0, 1, 1, 2),    \* full mailboxes, and peers that send
           Budget(2, 1, 0, 0, 0, 1, 1),    \* two sends at once, and peers that send
           Budget(3, 1, 0, 0, 0, 0, 2),    \* two at once and a third
           Budget(3, 1, 0, 1, 0, 0, 2)}    \* the same, and an answer is lost

Symmetry == Permutations(Sends)
=============================================================================
