------------------------------- MODULE Store -------------------------------
(***************************************************************************)
(* The SQLite database behind the proxy, as the program sees it through    *)
(* GORM: five tables, their unique indexes, and the way Create and Save    *)
(* treat a row.  Foreign keys are declared by the models but SQLite does   *)
(* not enforce them unless asked to, and the program does not ask: a row   *)
(* may name a user that is gone.                                           *)
(*                                                                         *)
(* A row keeps the columns that decide something: names, descriptions,     *)
(* comments and timestamps are left out.  A table is a function from ids   *)
(* to rows, None where there is no row.                                    *)
(***************************************************************************)
EXTENDS Naturals

CONSTANTS
  None,          \* no row, an empty string column, an absent JSON field
  Emails,        \* lower-cased, trimmed e-mail addresses
  Subjects,      \* OIDC "sub" claims
  Fingerprints,  \* SHA256 fingerprints of SSH public keys
  Slugs,         \* instance slugs
  Passwords,     \* upstream passwords
  PrivateKeys,   \* texts kept as an upstream private key, keys or not
  Passphrases,   \* passphrases kept with them
  Pasted,        \* pairs of both that administrators paste: nothing checks them
  Generated,     \* pairs that GeneratePrivateKeyPEM makes
  Readable,      \* pairs that SignerFromPrivateKey makes a signer of
  MaxUsers, MaxKeys, MaxInstances, MaxSessions,  \* bounds: rows ever created
  Seed           \* the database found on disk when the process starts

ASSUME BoundsAreNaturals ==
  /\ MaxUsers \in Nat /\ MaxKeys \in Nat
  /\ MaxInstances \in Nat /\ MaxSessions \in Nat

VARIABLES
  users, keys, instances, sessions,  \* tables
  assigned,                          \* instance_assignments, a set of pairs
  lastId                             \* AUTOINCREMENT counters: ids are not reused

storeVars == <<users, keys, instances, sessions, assigned, lastId>>

UserIds == 1 .. MaxUsers
KeyIds == 1 .. MaxKeys
InstanceIds == 1 .. MaxInstances
SessionIds == 1 .. MaxSessions

Roles == {"admin", "user"}
AuthMethods == {"none", "password", "key"}

User == [email: Emails, role: Roles, active: BOOLEAN, subject: Subjects \cup {None}]

\* models.SSHKey; the owner may be a user that no longer exists.
SSHKey == [owner: UserIds, fingerprint: Fingerprints, active: BOOLEAN]

Instance == [slug: Slugs, enabled: BOOLEAN, method: AuthMethods,
             password: Passwords \cup {None},
             key: PrivateKeys \cup {None}, passphrase: Passphrases \cup {None}]

\* models.Session; valid is expires_at > now.  The id stands for the token.
Session == [user: UserIds, valid: BOOLEAN]

(* A generated key is encrypted with the passphrase returned with it, in   *)
(* the form that SignerFromPrivateKey decrypts.                            *)
ASSUME GeneratedAreReadable ==
  /\ Pasted \subseteq PrivateKeys \X (Passphrases \cup {None})
  /\ Generated \subseteq PrivateKeys \X Passphrases
  /\ Generated \subseteq Readable

ASSUME NoneIsNoRow ==
  /\ None \notin User /\ None \notin SSHKey /\ None \notin Instance /\ None \notin Session
  /\ None \notin Emails /\ None \notin Subjects /\ None \notin Passwords
  /\ None \notin PrivateKeys /\ None \notin BOOLEAN

StoreTypeOK ==
  /\ users \in [UserIds -> User \cup {None}]
  /\ keys \in [KeyIds -> SSHKey \cup {None}]
  /\ instances \in [InstanceIds -> Instance \cup {None}]
  /\ sessions \in [SessionIds -> Session \cup {None}]
  /\ assigned \in SUBSET (InstanceIds \X UserIds)
  /\ lastId \in [users: 0 .. MaxUsers, keys: 0 .. MaxKeys,
                 instances: 0 .. MaxInstances, sessions: 0 .. MaxSessions]

(* What the tables say of each other, for the invariants and for the seed. *)

\* Every assignment is of an instance that exists to a user that exists.
Referential(asg, usrs, insts) ==
  \A a \in asg : insts[a[1]] # None /\ usrs[a[2]] # None

\* A slug names one instance.
Named(insts) ==
  \A i, j \in InstanceIds :
    i # j /\ insts[i] # None /\ insts[j] # None => insts[i].slug # insts[j].slug

\* A fingerprint is of one key.
Identifying(kys) ==
  \A k, j \in KeyIds :
    k # j /\ kys[k] # None /\ kys[j] # None => kys[k].fingerprint # kys[j].fingerprint

\* Every id in use was handed out by the counter of its table.
Issued(usrs, kys, insts, sess, last) ==
  /\ \A u \in UserIds : usrs[u] # None => u <= last.users
  /\ \A k \in KeyIds : kys[k] # None => k <= last.keys /\ kys[k].owner <= last.users
  /\ \A i \in InstanceIds : insts[i] # None => i <= last.instances
  /\ \A s \in SessionIds : sess[s] # None => s <= last.sessions /\ sess[s].user <= last.users

\* No two rows are one person's.
Distinct(usrs) ==
  \A u, v \in UserIds :
    u # v /\ usrs[u] # None /\ usrs[v] # None =>
      usrs[u].email # usrs[v].email /\ usrs[u].subject # usrs[v].subject

\* An instance holds the secret of its own method and no other secret: a key
\* goes with the passphrase it was pasted or generated with.
CredentialsMatch(row) ==
  CASE row.method = "none" ->
         row.password = None /\ row.key = None /\ row.passphrase = None
    [] row.method = "password" ->
         row.password # None /\ row.key = None /\ row.passphrase = None
    [] row.method = "key" ->
         row.password = None /\ <<row.key, row.passphrase>> \in Pasted \cup Generated

ASSUME SeedIsDatabase ==
  /\ Seed.users \in [UserIds -> User \cup {None}]
  /\ Seed.keys \in [KeyIds -> SSHKey \cup {None}]
  /\ Seed.instances \in [InstanceIds -> Instance \cup {None}]
  /\ Seed.sessions \in [SessionIds -> Session \cup {None}]
  /\ Seed.assigned \in SUBSET (InstanceIds \X UserIds)
  /\ Seed.lastId \in [users: 0 .. MaxUsers, keys: 0 .. MaxKeys,
                      instances: 0 .. MaxInstances, sessions: 0 .. MaxSessions]

(* The seed was written by this program.                                   *)
ASSUME SeedIsConsistent ==
  /\ Referential(Seed.assigned, Seed.users, Seed.instances)
  /\ Issued(Seed.users, Seed.keys, Seed.instances, Seed.sessions, Seed.lastId)
  /\ Distinct(Seed.users) /\ Named(Seed.instances) /\ Identifying(Seed.keys)
  /\ \A i \in InstanceIds : Seed.instances[i] # None => CredentialsMatch(Seed.instances[i])

StoreInit ==
  /\ users = Seed.users /\ keys = Seed.keys /\ instances = Seed.instances
  /\ sessions = Seed.sessions /\ assigned = Seed.assigned /\ lastId = Seed.lastId

----------------------------------------------------------------------------
(* Unique indexes: the row would collide with another row of its table.   *)

\* Variant for mutation: the subject is indexed, but not uniquely.
EmailTaken(id, row) ==
  \E u \in UserIds \ {id} : users[u] # None /\ users[u].email = row.email

UserTaken(id, row) ==
  \E u \in UserIds \ {id} :
    /\ users[u] # None
    /\ users[u].email = row.email \/ users[u].subject = row.subject

\* Variant for mutation: the index is on the owner and the fingerprint.
OwnKeyTaken(id, row) ==
  \E k \in KeyIds \ {id} :
    keys[k] # None /\ keys[k].fingerprint = row.fingerprint /\ keys[k].owner = row.owner

KeyTaken(id, row) ==
  \E k \in KeyIds \ {id} : keys[k] # None /\ keys[k].fingerprint = row.fingerprint

\* Variant for mutation: slugs are indexed, but not uniquely.
SlugNeverTaken(id, row) == FALSE

SlugTaken(id, row) ==
  \E i \in InstanceIds \ {id} : instances[i] # None /\ instances[i].slug = row.slug

(* INSERT through GORM: a zero value in a column with a default tag is     *)
(* replaced by the default, so a FALSE flag is stored as TRUE.             *)
CreatedUser(row) == [row EXCEPT !.active = TRUE]
CreatedKey(row) == [row EXCEPT !.active = TRUE]
CreatedInstance(row) == [row EXCEPT !.enabled = TRUE]

(* Variants for mutation: a table without AUTOINCREMENT hands out the id   *)
(* of a deleted row again.                                                 *)
LowestFree(table, ids) ==
  {i \in ids : table[i] = None /\ \A j \in ids : j < i => table[j] # None}

InsertUserReusingIds(row) ==
  /\ ~UserTaken(0, row)
  /\ \E u \in LowestFree(users, UserIds) :
       /\ lastId' = [lastId EXCEPT !.users = u]
       /\ users' = [users EXCEPT ![u] = CreatedUser(row)]

InsertKeyReusingIds(row) ==
  /\ ~KeyTaken(0, row)
  /\ \E k \in LowestFree(keys, KeyIds) :
       /\ lastId' = [lastId EXCEPT !.keys = k]
       /\ keys' = [keys EXCEPT ![k] = CreatedKey(row)]

InsertUser(row) ==
  /\ lastId.users < MaxUsers
  /\ ~UserTaken(0, row)
  /\ lastId' = [lastId EXCEPT !.users = @ + 1]
  /\ users' = [users EXCEPT ![lastId'.users] = CreatedUser(row)]

InsertKey(row) ==
  /\ lastId.keys < MaxKeys
  /\ ~KeyTaken(0, row)
  /\ lastId' = [lastId EXCEPT !.keys = @ + 1]
  /\ keys' = [keys EXCEPT ![lastId'.keys] = CreatedKey(row)]

(* Save, first statement: UPDATE every column of the row with this id.     *)
UpdateUserRow(id, row) ==
  /\ users[id] # None /\ ~UserTaken(id, row)
  /\ users' = [users EXCEPT ![id] = row]

UpdateKeyRow(id, row) ==
  /\ keys[id] # None /\ ~KeyTaken(id, row)
  /\ keys' = [keys EXCEPT ![id] = row]

(* Save, second statement, when the UPDATE touched no row: INSERT .. ON    *)
(* CONFLICT (id) DO UPDATE.  It writes the row whether or not one exists.  *)
UpsertUserRow(id, row) ==
  /\ ~UserTaken(id, row)
  /\ users' = [users EXCEPT ![id] = CreatedUser(row)]

UpsertKeyRow(id, row) ==
  /\ ~KeyTaken(id, row)
  /\ keys' = [keys EXCEPT ![id] = CreatedKey(row)]
=============================================================================
