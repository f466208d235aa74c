---------------------------- MODULE MCFriendGraph ----------------------------
(* Small instances of FriendGraph for TLC. *)
EXTENDS FriendGraph, TLC

CONSTANTS ann, bob, cyd

Strangers == {}
Befriended == {<<ann, bob>>, <<bob, ann>>}
Star == Befriended \cup {<<ann, cyd>>, <<cyd, ann>>}

Symmetry == Permutations(Uuid)
StarSymmetry == Permutations({bob, cyd})
=============================================================================
