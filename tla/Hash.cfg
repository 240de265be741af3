SPECIFICATION Spec
CONSTANTS
  Keys = {1, 2, 3}
  KeyBlocks = {b1, b2, b3, b4}
  Values = {v1, v2}
  Hash <- SmallHash
  Primes <- SmallPrimes
  MinSize = 1
  MayFail = {"entry", "table"}
  MaxOccupied = 6
  Null = Null
  None = None
SYMMETRY Alike
INVARIANTS WellFormed OwnsMemory
PROPERTIES MapSpec
