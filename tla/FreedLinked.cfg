\* A second PASV frees a channel that dtp_list still leads to.
SPECIFICATION Spec
CONSTANTS
  Chans = {c1, c2}
  Null = Null
  NoFd = NoFd
  NoClient = NoClient
  ServerFd = ServerFd
  FdZero = FdZero
  f1 = f1
  f2 = f2
  f3 = f3
  f4 = f4
  Fd <- Fd3
  UninitFd = {NoFd}
  MaxClients = 1
  MaxLines = 2
  OutCap = 1
  Commands = {"USER", "PASS", "PASV"}
INVARIANT
  FreedOnlyInFreeState
