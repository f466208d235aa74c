------------------------------- MODULE MCChats -------------------------------
(* Small instances of Chats: two users.                                       *)
EXTENDS Chats, TLC

CONSTANTS ann, bob

Symmetry == Permutations(Uuid)
=============================================================================
