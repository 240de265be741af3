SPECIFICATION Spec
CONSTANTS
  NumVCpus = 2
  Gfns = {g1}
  Accesses = {read, write}
  Events = {e1, e2}
  EvGfn <- OnePage
  EvAccess <- Mixed
  None = None
  IdleOps = {"register", "clear", "swap", "pause", "resume"}
  CallbackOps = {"clear", "step", "register"}
  Routines = {FALSE, TRUE}
  StepArgs = {0, 1}
  MayFail = {"mem_access", "debug_control", "monitor", "resume", "notify"}
  MaxSteps = 1
  MaxWraps = 2
  MaxSwaps = 0
  e1 = e1
  e2 = e2
  g1 = g1
  read = read
  write = write
INVARIANTS PagesMatchTable OneAnswer Bookkeeping
PROPERTIES QuietChange
