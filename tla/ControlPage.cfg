SPECIFICATION Spec
CONSTANTS
  SeqTop = 1000
  Attempts = 3
  MaxSends = 6
  MaxPlans = 4
CHECK_DEADLOCK FALSE
INVARIANTS
  WholeSnapshot
  PagePinned
  SuccessSeesAnswer
  NothingUnread
