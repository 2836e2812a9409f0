\* Connections that dial two new hosts at once.
SPECIFICATION Spec
CONSTANTS
  c1 = c1
  c2 = c2
  c3 = c3
  k1 = k1
  k2 = k2
  gate = gate
  None = None
  Conns = {c1, c2, c3}
  Hosts <- Addresses
  HostKeys = {k1, k2}
  Presents <- Answers
  Curated <- OneLine
  MaxLines = 3
SYMMETRY Symmetry
INVARIANT TypeOK
INVARIANT AcceptedKeysAreRecorded
INVARIANT HonestHostsAreAccepted
