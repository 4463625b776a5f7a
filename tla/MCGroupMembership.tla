------------------------- MODULE MCGroupMembership -------------------------
(* A group that an owner creates alone or with one or two others, up to     *)
(* four accounts that want in, and any three requests: two accepts and what *)
(* the owner does meanwhile, three accepts of one invite, or two removals   *)
(* and an accept.                                                           *)
EXTENDS GroupMembership, TLC

CONSTANTS ann, ben, cho, dan, eve, r1, r2, r3

Everyone == {ann, ben, cho, dan, eve}
Three == {r1, r2, r3}
Two == {r1, r2}

Symmetry == Permutations(Three) \cup Permutations(Everyone \ {ann})
=============================================================================
