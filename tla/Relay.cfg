\* One channel: what travels over it, in both directions, and how it ends.
SPECIFICATION FairSpec
CONSTANTS
  Window = 1
  MaxData = 1
  MaxErrors = 1
  MaxRequests = 2
INVARIANT TypeOK
PROPERTY InboundIsPipe
PROPERTY OutboundIsPipe
PROPERTY EndsWithItsClient
PROPERTY ForwardersEnd
PROPERTY ReportsArrive
CHECK_DEADLOCK FALSE
