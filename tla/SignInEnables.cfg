\* Disabling a user while the user signs in.
SPECIFICATION Spec
CONSTANTS
  None = None
  Emails = {"alice", "bob"}
  Subjects = {"a", "b"}
  Fingerprints = {"f1"}
  Slugs = {}
  Passwords = {}
  PrivateKeys = {}
  Passphrases = {}
  Pasted = {}
  Generated = {}
  Readable = {}
  AdminEmails = {"alice"}
  MaxUsers = 3
  MaxKeys = 1
  MaxInstances = 0
  MaxSessions = 2
  MaxStates = 1
  Requests = {r1, r2}
  Conns = {}
  Seed <- Team
  r2 = r2
  r1 = r1
SYMMETRY Symmetry
PROPERTY OnlyAdminsEnable
