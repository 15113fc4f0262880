---------------------------- MODULE MCConversation ----------------------------
(***************************************************************************)
(* A small instance of Conversation for TLC.  Its threads do the same      *)
(* things, and nothing but their own entries of at and job tells them      *)
(* apart, so that they may be exchanged.                                   *)
(***************************************************************************)
EXTENDS Conversation

Symmetry == Permutations(Threads)
=============================================================================
