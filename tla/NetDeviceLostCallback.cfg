CONSTANTS
  reader = reader
  server = server
  a = a
  c = c
  x = x
  Hosts = {reader, server}
  Tokens = {a, c, x}
  Home <- TheHome
  Token2Ip <- PeerOf
  Users = {u1, u2}
  Reads <- TheReads
  Puts <- ThePuts
  MaxReads = 2
  MaxPuts = 1
  MaxWrites = 1
  MaxSocks = 4
  Pollers = {p1, p2}
SPECIFICATION Spec
INVARIANT
  EveryCallbackKept
CHECK_DEADLOCK FALSE
