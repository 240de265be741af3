SPECIFICATION FairSpec
CONSTANTS
  NumVCpus = 3
  Gfns = {g1}
  Accesses = {write}
  Events = {e1}
  EvGfn <- OnePage
  EvAccess <- Writes
  None = None
  IdleOps = {"register"}
  CallbackOps = {"clear", "step", "register"}
  Routines = {FALSE, TRUE}
  StepArgs = {0, 1, 2}
  MayFail = {}
  MaxSteps = 2
  MaxWraps = 2
  MaxSwaps = 0
  e1 = e1
  e2 = e2
  g1 = g1
  read = read
  write = write
INVARIANTS PendingHandled SteppingRight
PROPERTIES Progress DeliverySpec
