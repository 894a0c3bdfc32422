---------------------------- MODULE FlimeLedgerMC ----------------------------
(* Small instances of FlimeLedger for TLC. *)
EXTENDS FlimeLedger, TLC

\* No peer capability at all, the ledger without direct routing, and all.
MCPeerCaps == {{}, {"LEDGER", "DIRECT"}, {"PROGRESSIVE", "LEDGER", "DIRECT"}}

\* Updates and submissions are only compared for equality.
MCSymmetry == Permutations(UpdateIds) \cup Permutations(SubmissionIds)
=============================================================================
