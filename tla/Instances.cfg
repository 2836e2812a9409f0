\* Two concurrent requests over instances.
SPECIFICATION Spec
CONSTANTS
  None = None
  Emails = {"alice"}
  Subjects = {"a"}
  Fingerprints = {}
  Slugs = {"gate"}
  Passwords = {"p1"}
  PrivateKeys = {"plain", "broken", "sealed"}
  Passphrases = {"phrase", "typo"}
  Pasted <- PastedPairs
  Generated <- GeneratedPairs
  Readable <- ReadablePairs
  AdminEmails = {}
  MaxUsers = 1
  MaxKeys = 0
  MaxInstances = 2
  MaxSessions = 1
  MaxStates = 0
  Requests = {r1, r2}
  Conns = {}
  Seed <- Solo
  r2 = r2
  r1 = r1
SYMMETRY Symmetry
INVARIANT CredentialsKept
INVARIANT ListedInstancesConnect
