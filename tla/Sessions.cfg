\* Two clients, two data channels, every command: the safety of one pass after another.
SPECIFICATION Spec
CONSTANTS
  Chans = {c1, c2}
  Null = Null
  NoFd = NoFd
  NoClient = NoClient
  ServerFd = ServerFd
  FdZero = FdZero
  f1 = f1
  f2 = f2
  f3 = f3
  f4 = f4
  Fd <- Fd4
  UninitFd <- Uninit
  MaxClients = 2
  MaxLines = 2
  OutCap = 1
  Commands <- Essential
SYMMETRY Symmetry
CONSTRAINT UpToFirstCorruption
INVARIANTS
  TypeOK
  ChannelOwnership
  NoDangling
  LinkedOnce
  NoChannelLost
  FdOwnership
  NoStalledSend
PROPERTIES
  ChannelsRegistered
