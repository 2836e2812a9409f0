----------------------------- MODULE Instances -----------------------------
(***************************************************************************)
(* The handlers under /api/admin/instances: an instance, the credentials   *)
(* the proxy presents upstream for it, and the users it is assigned to.    *)
(***************************************************************************)
EXTENDS Middleware

(* The authentication part of an instanceRequest: the fields that the      *)
(* chosen method looks at.  A pasted key, and its passphrase, is any text: *)
(* the handlers do not try to read it.                                     *)
AuthRequests ==
  [method: {"none"}]
  \cup [method: {"password"}, password: Passwords \cup {None}]
  \cup [method: {"key"}, key: {None}, passphrase: {None}, regenerate: BOOLEAN]
  \cup {[method |-> "key", key |-> p[1], passphrase |-> p[2], regenerate |-> g] :
          p \in Pasted, g \in BOOLEAN}

InstanceRequests ==
  [slug: Slugs, enabled: BOOLEAN \cup {None}, auth: AuthRequests]

(* The struct CreateInstance starts from, with enabled at its default.     *)
BlankInstance ==
  [slug |-> None, enabled |-> TRUE, method |-> "",
   password |-> None, key |-> None, passphrase |-> None]

(* Variant for mutation: only a new instance needs a password.             *)
PasswordMissingOnCreate(row, auth) ==
  auth.method = "password" /\ auth.password = None /\ row.method = ""

(* "upstream password is required": no password given and none to keep.    *)
PasswordMissing(row, auth) ==
  auth.method = "password" /\ auth.password = None /\ row.method # "password"

(* GeneratePrivateKeyPEM: on request, or when there is no key at all.      *)
Generates(row, auth) == auth.regenerate \/ (auth.key = None /\ row.key = None)

(* The new key that a request is given, if it needs one: a pair of a key   *)
(* and its passphrase, or an error that ends the request.                  *)
NewPairs(row, auth) ==
  IF auth.method = "key" /\ Generates(row, auth) THEN Generated ELSE {<<None, None>>}

(* The credentials of row after the request, keyPair being a fresh key and *)
(* its passphrase in case the request generates one.                       *)
Credentials(row, auth, keyPair) ==
  CASE auth.method = "none" ->
         [method |-> "none", password |-> None, key |-> None, passphrase |-> None]
    [] auth.method = "password" ->
         [method |-> "password", key |-> None, passphrase |-> None,
          password |-> IF auth.password = None THEN row.password ELSE auth.password]
    [] auth.method = "key" ->
         LET pair == IF Generates(row, auth) THEN keyPair
                     ELSE IF auth.key = None THEN <<row.key, row.passphrase>>
                     ELSE <<auth.key, auth.passphrase>>
         IN [method |-> "key", password |-> None,
             key |-> pair[1], passphrase |-> pair[2]]

ApplyInstanceRequest(row, body, keyPair) ==
  LET cred == Credentials(row, body.auth, keyPair) IN
    [slug |-> body.slug,
     enabled |-> IF body.enabled = None THEN row.enabled ELSE body.enabled,
     method |-> cred.method, password |-> cred.password,
     key |-> cred.key, passphrase |-> cred.passphrase]

(* Variant for mutation: the users are not looked up.                      *)
ReplaceAssignedUsersUnchecked(i, rawIds) ==
  assigned' = {a \in assigned : a[1] # i} \cup ({i} \X (rawIds \ {0}))

(* uniqueUintIDs drops zeros and duplicates; usersByIDs wants every other  *)
(* id to be a user, or the transaction is rolled back.                     *)
ReplaceAssignedUsers(i, rawIds) ==
  LET ids == rawIds \ {0} IN
    /\ \A u \in ids : users[u] # None
    /\ assigned' = {a \in assigned : a[1] # i} \cup ({i} \X ids)

----------------------------------------------------------------------------
CreateInstance(r, body, rawIds) ==
  /\ req[r].pc = "admin"
  /\ ~PasswordMissing(BlankInstance, body.auth)
  /\ lastId.instances < MaxInstances
  /\ LET i == lastId.instances + 1 IN
       \E keyPair \in NewPairs(BlankInstance, body.auth) :
         LET row == ApplyInstanceRequest(BlankInstance, body, keyPair) IN
           /\ ~SlugTaken(i, row)
           /\ instances' = [instances EXCEPT ![i] = CreatedInstance(row)]
           /\ lastId' = [lastId EXCEPT !.instances = i]
           /\ ReplaceAssignedUsers(i, rawIds)
  /\ Respond(r)
  /\ UNCHANGED <<users, keys, sessions>>

(* UpdateInstance reads the row outside the transaction that saves it.     *)
UpdateInstanceRead(r, i, body) ==
  /\ req[r].pc = "admin"
  /\ instances[i] # None
  /\ ~PasswordMissing(instances[i], body.auth)
  /\ \E keyPair \in NewPairs(instances[i], body.auth) :
       Continue(r, "saveInstance", i, ApplyInstanceRequest(instances[i], body, keyPair))
  /\ UNCHANGED storeVars

(* The transaction: Save, whose second statement re-creates a row that is  *)
(* gone, and the assignments.                                              *)
UpdateInstanceSave(r, rawIds) ==
  /\ req[r].pc = "saveInstance"
  /\ LET i == req[r].id
         row == req[r].row
     IN /\ ~SlugTaken(i, row)
        /\ instances' = [instances EXCEPT
             ![i] = IF @ = None THEN CreatedInstance(row) ELSE row]
        /\ ReplaceAssignedUsers(i, rawIds)
  /\ Respond(r)
  /\ UNCHANGED <<users, keys, sessions, lastId>>

DeleteInstanceFind(r, i) ==
  /\ req[r].pc = "admin"
  /\ instances[i] # None
  /\ Continue(r, "deleteInstance", i, None)
  /\ UNCHANGED storeVars

DeleteInstance(r) ==
  /\ req[r].pc = "deleteInstance"
  /\ assigned' = {a \in assigned : a[1] # req[r].id}
  /\ instances' = [instances EXCEPT ![req[r].id] = None]
  /\ Respond(r)
  /\ UNCHANGED <<users, keys, sessions, lastId>>

(* ListInstances: what the console shows to a user.                        *)
Listed(u) == {i \in InstanceIds :
                instances[i] # None /\ instances[i].enabled /\ <<i, u>> \in assigned}

InstancesNext ==
  \E r \in Requests :
    \/ \E body \in InstanceRequests, ids \in SUBSET (0 .. MaxUsers) : CreateInstance(r, body, ids)
    \/ \E i \in InstanceIds, body \in InstanceRequests : UpdateInstanceRead(r, i, body)
    \/ \E ids \in SUBSET (0 .. MaxUsers) : UpdateInstanceSave(r, ids)
    \/ \E i \in InstanceIds : DeleteInstanceFind(r, i)
    \/ DeleteInstance(r)

----------------------------------------------------------------------------
(* An instance holds the secret of its own method and no other, and a key  *)
(* stays with its passphrase: in the table and in the copies that          *)
(* UpdateInstance requests are about to save, however many updates overlap *)
(* and whatever they were based on.                                        *)
CredentialsKept ==
  /\ \A i \in InstanceIds : instances[i] # None => CredentialsMatch(instances[i])
  /\ \A r \in Requests : req[r].pc = "saveInstance" => CredentialsMatch(req[r].row)
=============================================================================
