SPECIFICATION Spec
CONSTANTS
  NumVCpus = 2
  Gfns = {g1}
  Accesses = {read, write}
  Events = {e1, e2}
  EvGfn <- OnePage
  EvAccess <- Mixed
  None = None
  IdleOps = {"register"}
  CallbackOps = {"clear", "swap", "step"}
  Routines = {FALSE, TRUE}
  StepArgs = {0, 1}
  MayFail = {}
  MaxSteps = 1
  MaxWraps = 1
  MaxSwaps = 2
  e1 = e1
  e2 = e2
  g1 = g1
  read = read
  write = write
PROPERTIES QuietChange DeliverySpec
