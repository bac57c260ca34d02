SPECIFICATION Spec
CONSTANTS
  Txs <- MCTxs
  Inputs <- MCInputs
  Outputs <- MCOutputs
  Held <- MCHeld
  LockHeight <- MCLockHeight
  MaxHeight = 2
  Unconfirmed = 9
  MaxBatch = 2
  GapExternal = 1
  GapInternal = 1
  GapMargin = 0
INVARIANTS TypeOK ListOrdered NoConflict InvalidHasCause BalanceIsUnspent
PROPERTIES DependentsFirst UnconfirmedAfter
