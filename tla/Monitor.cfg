SPECIFICATION FairSpec
CONSTANTS
  VCpus = {v1, v2}
  None = None
  Kinds <- SomeKinds
  Generic <- SomeGeneric
  Msrs = {"lstar"}
  Serves <- SomeServes
  Capable = {"MSR_ALL", "DEBUG_EXCEPTION"}
  Events = {"msr", "debug", "priv", "rw"}
  EvKind <- SomeEvKind
  IdleOps = {"register", "clear", "set_mem_event"}
  CallbackOps = {"register", "clear"}
  MayFail = {"monitor", "msr", "pause", "resume"}
INVARIANTS Coherent Deliverable
PROPERTIES ClearsDone
