SPECIFICATION Spec
CONSTANTS
  Ids = {"factory", "own"}
  UnsafeIds = {"", "o/wn"}
  Normalized <- MCNormalized
  FactoryId = "factory"
  OwnRoots <- MCOwnRoots
  Erased = Erased
  UnsafeRoots <- MCUnsafeRoots
  Forms <- MCForms
  Queries <- MCQueries
  Lines <- MCLines
  Records <- MCRecords
INVARIANTS TypeOK RamIsStored SecretFollowsProv
PROPERTIES BootIsWhole
