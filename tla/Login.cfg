\* Sign-in on a fresh installation.
SPECIFICATION FairSpec
CONSTANTS
  None = None
  Emails = {"alice", "bob"}
  Subjects = {"a", "b"}
  Fingerprints = {}
  Slugs = {}
  Passwords = {}
  PrivateKeys = {}
  Passphrases = {}
  Pasted = {}
  Generated = {}
  Readable = {}
  AdminEmails = {"alice"}
  MaxUsers = 2
  MaxKeys = 0
  MaxInstances = 0
  MaxSessions = 2
  MaxStates = 2
  Requests = {r1, r2}
  Conns = {}
  Seed <- Fresh
  r2 = r2
  r1 = r1
INVARIANTS OneSessionPerState OnePersonOneUser
PROPERTY AbandonedStatesGo
