SPECIFICATION Spec
CONSTANTS
  Pids = {p1, p2}
  Kernel = Kernel
  Dtbs = {d1, d2}
  Kpgd = d1
  Vas = {va}
  Pas = {0, 1}
  Vanish = {1}
  None = None
  Calls = {"lookup", "extended", "uv2p", "v2p_add", "v2p_flush", "pid_add", "pid_flush"}
  Changes = {"tables", "processes"}
INVARIANTS Fresh AnswerRight Intact FailedNotCached
