CONSTANTS
  s1 = s1
  s2 = s2
  s3 = s3
  c1 = c1
  c2 = c2
  h1 = h1
  h2 = h2
  lo = lo
  a1 = a1
  Servers = {s1, s2, s3}
  Clients = {c1, c2}
  Host <- Placed
  Interfaces <- Lists
  Loopback = {lo}
  Arguments <- AnyLines
  Backlog = 0
  Faults = {"socket_fails"}
SPECIFICATION Spec
INVARIANTS TypeOK ShownValuesReachServer
CHECK_DEADLOCK FALSE
