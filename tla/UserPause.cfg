SPECIFICATION Spec
CONSTANTS
  NumVCpus = 2
  Gfns = {g1}
  Accesses = {write}
  Events = {e1}
  EvGfn <- OnePage
  EvAccess <- Writes
  None = None
  IdleOps = {"register", "pause", "resume"}
  CallbackOps = {"clear"}
  Routines = {FALSE, TRUE}
  StepArgs = {0, 1}
  MayFail = {}
  MaxSteps = 2
  MaxWraps = 0
  MaxSwaps = 0
  e1 = e1
  e2 = e2
  g1 = g1
  read = read
  write = write
INVARIANTS
  UserPauseKept
