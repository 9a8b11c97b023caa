CONSTANTS
  create = create
  refund = refund
  confirm = confirm
  notify = notify
  None = None
  Node <- MCNode
  Cases <- MCCases
SPECIFICATION Spec
INVARIANTS
  EveryEntryIsSettledOnce
  ChainsAreWhole
