SPECIFICATION Spec
CONSTANTS
  Ids = {"id1"}
  Random <- MCRandom
  Phrases = {}
  MaxModels = 1
  MaxPending = 0
  MaxChanges = 1
  MaxRestarts = 0
INVARIANT FailedRestoreKeeps
