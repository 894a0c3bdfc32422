SPECIFICATION Spec
CONSTANTS
  UpdateIds = {u1, u2, u3, u4}
  SubmissionIds = {s1, s2}
  MaxLedgerEntries = 3
  MaxBatch = 3
  MaxEpoch = 2
  PeerCaps <- MCPeerCaps
SYMMETRY MCSymmetry
INVARIANTS
  AppliedInOrder
  AppliedOnce
  CompletionAccepted
  RecoveryPossible
  ReplayPossible
  FallbackPossible
  LegacyOwesNothing
PROPERTIES
  ForgottenOnlyWhenDone
  ImplementsDelivery
