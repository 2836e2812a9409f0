\* Sign-in where the README and the example environments leave a developer.
SPECIFICATION VisitSpec
CONSTANTS
  Rows = {i1, i2, i3}
  i1 = i1
  i2 = i2
  i3 = i3
  front = front
  local = local
  loopback = loopback
  Hosts = {front, local, loopback}
  Ports = {443, 3000, 8080}
  Deployments <- Documented
  New = New
  Nothing = Nothing
  NoEntry = NoEntry
SYMMETRY Symmetry
INVARIANT SessionsReachThePage
