\* One client and two channels, whatever becomes of the lists: what a pass
\* must do in the end, and what a client that waits for its data must hear.
SPECIFICATION Spec
CONSTANTS
  Chans = {c1, c2}
  Null = Null
  NoFd = NoFd
  NoClient = NoClient
  ServerFd = ServerFd
  FdZero = FdZero
  f1 = f1
  f2 = f2
  f3 = f3
  f4 = f4
  Fd <- Fd2
  UninitFd = {NoFd}
  MaxClients = 1
  MaxLines = 1
  OutCap = 1
  Commands <- Passive
PROPERTIES
  SoundPollReturns
  Reclaimed
  TransferReported
