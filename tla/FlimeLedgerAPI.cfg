SPECIFICATION APISpec
CONSTANTS
  UpdateIds = {u1, u2, u3}
  SubmissionIds = {s1}
  MaxLedgerEntries = 3
  MaxBatch = 2
  MaxEpoch = 1
  PeerCaps <- MCPeerCaps
SYMMETRY MCSymmetry
INVARIANTS
  AppliedOnce
