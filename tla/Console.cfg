\* Late answers in the web console, and the way out of it and back.
SPECIFICATION VisitSpec
CONSTANTS
  Rows = {i1, i2, i3}
  i1 = i1
  i2 = i2
  i3 = i3
  front = front
  local = local
  loopback = loopback
  Hosts = {front, local, loopback}
  Ports = {443, 3000, 8080}
  Deployments <- Sites
  New = New
  Nothing = Nothing
  NoEntry = NoEntry
SYMMETRY Symmetry
INVARIANT TypeOK
INVARIANT SavesKeepToTheirRow
INVARIANT KeysKeepToTheirUser
INVARIANT MessagesAreOfTheForm
INVARIANT SignInReachesTheConsole
INVARIANT LandingPagesAreServed
INVARIANT ThemeIsRemembered
INVARIANT ThemeIsPainted
