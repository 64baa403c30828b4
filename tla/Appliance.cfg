\* The program from its start to its end: mounts, console, log, buttons.
SPECIFICATION Spec
CONSTANTS
  TvLines = 2
  PadLines = 1
  Strings = {s1, s2, s3, s4}
  Null = Null
  Datagram = 2
  MaxText = 3
  Volumes = {v1}
INVARIANTS
  TypeOK
  MountsKept
  ScreensRight
  LogWhole
  HomeEnds
PROPERTY ShutsDown
