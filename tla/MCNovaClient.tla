---------------------------- MODULE MCNovaClient ----------------------------
(* Model-checking instance of NovaClient. *)
EXTENDS NovaClient

PeerSymmetry == Permutations(Peer)
=============================================================================
