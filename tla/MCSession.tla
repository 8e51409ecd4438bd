----------------------------- MODULE MCSession ------------------------------
(***************************************************************************)
(* The session model for TLC: peers, and commands of a kind, are alike.    *)
(***************************************************************************)
EXTENDS Session, TLC

Alike == Permutations(Peer) \cup Permutations(Journaled)
=============================================================================
