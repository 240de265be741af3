SPECIFICATION FairSpec
CONSTANTS
  Oses = {"linux", "windows"}
  Places = {root, a, b}
  Root = root
  Head = head
  Pids = {1, 2}
  RootPid = 0
  Pgds = {x, y}
  RootPgd = r
  None = None
  MayFail = TRUE
  MaxForks = 2
INVARIANTS AnswersTrue FoundIfThere
PROPERTIES SearchEnds
