\* The converter over the files of MCElf2Rpl
SPECIFICATION Spec
CONSTANTS
    Inputs <- Files
    LoadAddress <- Load
    CodeAddress <- Code
    DataAddress <- Data
    WiiuLoadAddress <- Wiiu
    Max32 <- Largest
    Bytes <- PartBytes
    Spelled <- Names12
    Junk = {0, 4004}
CHECK_DEADLOCK FALSE
INVARIANTS
  RelocsResolve
  NumbersRight
  ImportsSigned
  FileTrue
