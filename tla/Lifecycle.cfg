\* Starts, crashes and shutdowns of the process, with a connection.
SPECIFICATION FairSpec
CONSTANTS
  k1 = k1
  k2 = k2
  c1 = c1
  None = None
  Environments <- Environs
  Keys = {k1, k2}
  Conns = {c1}
  Queue = 1
  MaxPings = 3
INVARIANT TypeOK
INVARIANT HostKeySurvives
INVARIANT HintsNameTheListener
PROPERTY BothFacesOrNone
PROPERTY SignalEnds
PROPERTY UpstreamsAreReleased
PROPERTY PingsAreAnswered
PROPERTY ChannelsAreDecided
