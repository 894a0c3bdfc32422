--------------------------- MODULE FlimeLedgerAPIMC ---------------------------
(* Small instances of FlimeLedgerAPI for TLC. *)
EXTENDS FlimeLedgerAPI, TLC

MCPeerCaps == {{"PROGRESSIVE", "LEDGER", "DIRECT"}}

MCSymmetry == Permutations(UpdateIds)
=============================================================================
