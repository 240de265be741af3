SPECIFICATION MemSpec
CONSTANTS
  Modes = {"legacy", "pae", "ia32e"}
  PageSize = 2
  Fanout = 2
  Low = 32
  Mid = 64
  Full = 128
  Frames <- SomeFrames
  Dtb = 2
  Written = {2, 4, 8}
  Entries <- SomeEntries
  Tables <- SomeTables
  Nul = {13, 17}
  Calls = {"lookup", "read", "read_str"}
  Starts = {0, 7}
  Counts = {4}
  MaxWrites = 2
  MaxLen = 6
  Nothing = Nothing
INVARIANTS WalksRight BytesAgree ListAgrees
