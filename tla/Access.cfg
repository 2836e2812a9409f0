\* The whole backend.
SPECIFICATION Spec
CONSTANTS
  None = None
  Emails = {"alice", "bob"}
  Subjects = {"a", "b"}
  Fingerprints = {"f1"}
  Slugs = {"gate"}
  Passwords = {}
  PrivateKeys = {}
  Passphrases = {}
  Pasted = {}
  Generated = {}
  Readable = {}
  AdminEmails = {}
  MaxUsers = 2
  MaxKeys = 1
  MaxInstances = 1
  MaxSessions = 1
  MaxStates = 0
  Requests = {r1, r2}
  Conns = {c1}
  Seed <- Gated
  r2 = r2
  r1 = r1
  c1 = c1
SYMMETRY Symmetry
INVARIANT AssignmentsReferential
PROPERTY AppearingUsersAreUnassigned
PROPERTY NoDialForDeletedUser
PROPERTY AccessIsControlled
