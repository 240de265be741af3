SPECIFICATION FairSpec
CONSTANTS
  Insts = {a, b}
  None = None
  FlagSets <- SomeFlags
  MayFail <- AnyStage
INVARIANTS Returned NotLeftPaused
PROPERTIES LetGo
