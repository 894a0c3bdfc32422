---------------------------- MODULE FlimeBridgeMC ----------------------------
(* Small instances of FlimeBridge for TLC. *)
EXTENDS FlimeBridge, TLC

MCSymmetry == Permutations(Streams) \cup Permutations(Queues)
=============================================================================
