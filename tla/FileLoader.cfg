\* Every call of the SD card device, and the two functions that load a file.
SPECIFICATION Spec
CONSTANTS
  Devs = {d1}
  NoDev = NoDev
  Other = Other
  Rows = 2
  Foreign = {1}
  Files = {f1}
  Iters = {i1}
  Chunk = 2
  MaxLen = 2
  MaxSize = 3
  Areas <- SmallAreas
  ElfRoom = 2
INVARIANTS
  TypeOK
  MutexReturned
  RowsLive
  CountsTrue
  PositionKept
  BuffersHoldFile
PROPERTY LoaderEnds
