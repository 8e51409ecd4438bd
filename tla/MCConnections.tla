---------------------------- MODULE MCConnections ----------------------------
(***************************************************************************)
(* An instance of Connections for TLC.  The peers that invite raveloxmidi  *)
(* do the same and no property tells them apart, so TLC may permute them.  *)
(***************************************************************************)
EXTENDS Connections, TLC

InterchangeablePeers == Permutations(Peer)
=============================================================================
