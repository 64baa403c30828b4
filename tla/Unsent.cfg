\* PASV and LIST, then the connection: the listing is never sent.
SPECIFICATION Spec
CONSTANTS
  Chans = {c1}
  Null = Null
  NoFd = NoFd
  NoClient = NoClient
  ServerFd = ServerFd
  FdZero = FdZero
  f1 = f1
  f2 = f2
  f3 = f3
  f4 = f4
  Fd <- Fd3
  UninitFd = {NoFd}
  MaxClients = 1
  MaxLines = 1
  OutCap = 1
  Commands = {"USER", "PASS", "PASV", "LIST"}
PROPERTY
  ListingGoesOut
