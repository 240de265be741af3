SPECIFICATION FairSpec
CONSTANTS
  VCpus = {v1, v2, v3}
  Size = 2
  Width = 4
  Versions = {TRUE, FALSE}
  MayFail = {"poll", "unmask", "notify"}
  None = None
INVARIANTS InOrder WakesUp
PROPERTIES ServedOnSuccess Answered QueueSpec
