\* Two concurrent requests over users and their SSH keys.
SPECIFICATION Spec
CONSTANTS
  None = None
  Emails = {"alice", "bob"}
  Subjects = {"a", "b"}
  Fingerprints = {"f1"}
  Slugs = {}
  Passwords = {}
  PrivateKeys = {}
  Passphrases = {}
  Pasted = {}
  Generated = {}
  Readable = {}
  AdminEmails = {}
  MaxUsers = 3
  MaxKeys = 2
  MaxInstances = 0
  MaxSessions = 2
  MaxStates = 0
  Requests = {r1, r2}
  Conns = {}
  Seed <- Team
  r2 = r2
  r1 = r1
SYMMETRY Symmetry
INVARIANT TypeOK
PROPERTY KeyOwnerStable
PROPERTY KeyIdentifiesOneUser
PROPERTY NewUsersStartClean
