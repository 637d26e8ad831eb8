CONSTANTS
  p = p
  c = c
  Clients = {p, c}
  Programs = {c}
  BufSize = 2
  SockBuf = 2
  MaxSent = 2
  EarlyReset = TRUE
  AtOnce = {1, 2}
SPECIFICATION ClientSpec
INVARIANTS
  Inv
PROPERTIES
  StreamSpec
  EveryClientServed
  EverythingEchoed
  SessionsEnd
  ClientsEnd
