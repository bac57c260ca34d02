SPECIFICATION Spec
CONSTANTS
  Ids = {"id1", "id2"}
  Random <- MCRandom
  Phrases = {"p"}
  MaxModels = 2
  MaxPending = 0
  MaxChanges = 1
  MaxRestarts = 1
INVARIANT TypeOK
PROPERTIES IdentityKept EventuallyIdentity
