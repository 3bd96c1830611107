SPECIFICATION ReadSpec
CONSTANTS
  c1 = c1
  c2 = c2
  r1 = r1
  s1 = s1
  running = running
  waiting = waiting
  t1 = t1
  t2 = t2
  NoToken = NoToken
  Clients = {c1, c2}
  Readers = {r1}
  Sagas = {s1}
  Statuses = {running, waiting}
  TokensOf <- MCTokensOf
  Deployments <- AllDeployments
  MaxVersion = 3
  MaxFaults = 1
SYMMETRY Symmetry
INVARIANTS
  OkMeansWritten
  ReadsAgree
PROPERTIES
  ImplementsContract
