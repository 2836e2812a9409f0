------------------------------ MODULE Accounts ------------------------------
(***************************************************************************)
(* The handlers that manage users and their SSH keys: the administrator's  *)
(* under /api/admin/users and everyone's own under /api/user/ssh-keys.     *)
(* Each step is one database statement or transaction; everything else a   *)
(* handler does in between is local.                                       *)
(***************************************************************************)
EXTENDS Middleware

(* Variant for mutation: an absent field clears the column.                *)
PatchedBlindly(given, column) == given

(* An absent JSON field keeps the column as it was read.                   *)
Patched(given, column) == IF given = None THEN column ELSE given

CreateUser(r, email, role) ==
  /\ req[r].pc = "admin"
  /\ \E active \in BOOLEAN :
       InsertUser([email |-> email, role |-> role, active |-> active, subject |-> None])
  /\ Respond(r)
  /\ UNCHANGED <<keys, instances, sessions, assigned>>

(* UpdateUser reads the row and patches its copy ...                       *)
UpdateUserRead(r, u, role, active) ==
  /\ req[r].pc = "admin"
  /\ users[u] # None
  /\ Continue(r, "saveUser", u,
       [users[u] EXCEPT !.role = Patched(role, @), !.active = Patched(active, @)])
  /\ UNCHANGED storeVars

(* ... and saves every column of it, the ones it did not patch included.   *)
UpdateUserSave(r) ==
  /\ req[r].pc = "saveUser"
  /\ UpdateUserRow(req[r].id, req[r].row)
  /\ Respond(r)
  /\ UNCHANGED <<keys, instances, sessions, assigned, lastId>>

UpdateUserMissed(r) ==
  /\ req[r].pc = "saveUser"
  /\ users[req[r].id] = None
  /\ Continue(r, "upsertUser", req[r].id, req[r].row)
  /\ UNCHANGED storeVars

UpdateUserUpsert(r) ==
  /\ req[r].pc = "upsertUser"
  /\ UpsertUserRow(req[r].id, req[r].row)
  /\ Respond(r)
  /\ UNCHANGED <<keys, instances, sessions, assigned, lastId>>

DeleteUserFind(r, u) ==
  /\ req[r].pc = "admin"
  /\ users[u] # None
  /\ u # req[r].actor
  /\ Continue(r, "deleteUser", u, None)
  /\ UNCHANGED storeVars

(* Variant for mutation: the assignments are forgotten.                    *)
DeleteUserKeepingAssignments(r) ==
  /\ req[r].pc = "deleteUser"
  /\ keys' = [k \in KeyIds |->
       IF keys[k] # None /\ keys[k].owner = req[r].id THEN None ELSE keys[k]]
  /\ sessions' = [s \in SessionIds |->
       IF sessions[s] # None /\ sessions[s].user = req[r].id THEN None ELSE sessions[s]]
  /\ users' = [users EXCEPT ![req[r].id] = None]
  /\ Respond(r)
  /\ UNCHANGED <<instances, assigned, lastId>>

(* One transaction: assignments, keys, sessions and the user.              *)
DeleteUser(r) ==
  /\ req[r].pc = "deleteUser"
  /\ LET u == req[r].id IN
       /\ assigned' = {a \in assigned : a[2] # u}
       /\ keys' = [k \in KeyIds |->
            IF keys[k] # None /\ keys[k].owner = u THEN None ELSE keys[k]]
       /\ sessions' = [s \in SessionIds |->
            IF sessions[s] # None /\ sessions[s].user = u THEN None ELSE sessions[s]]
       /\ users' = [users EXCEPT ![u] = None]
  /\ Respond(r)
  /\ UNCHANGED <<instances, lastId>>

----------------------------------------------------------------------------
(* CreateUserSSHKey and DeleteUserSSHKey first make sure the user exists.  *)
CreateUserSSHKeyFind(r, u, fingerprint, active) ==
  /\ req[r].pc = "admin"
  /\ users[u] # None
  /\ Continue(r, "insertKey", u, [owner |-> u, fingerprint |-> fingerprint, active |-> active])
  /\ UNCHANGED storeVars

CreateUserSSHKey(r) ==
  /\ req[r].pc = "insertKey"
  /\ InsertKey(req[r].row)
  /\ Respond(r)
  /\ UNCHANGED <<users, instances, sessions, assigned>>

DeleteUserSSHKeyFind(r, u) ==
  /\ req[r].pc = "admin"
  /\ users[u] # None
  /\ Continue(r, "deleteKey", u, None)
  /\ UNCHANGED storeVars

DeleteKeyOf(u, k) ==
  /\ keys[k] # None /\ keys[k].owner = u
  /\ keys' = [keys EXCEPT ![k] = None]

DeleteUserSSHKey(r, k) ==
  /\ req[r].pc = "deleteKey"
  /\ DeleteKeyOf(req[r].id, k)
  /\ Respond(r)
  /\ UNCHANGED <<users, instances, sessions, assigned, lastId>>

(* A user's own keys: no look at the users table before the insert.        *)
CreateSSHKey(r, fingerprint) ==
  /\ req[r].pc = "user"
  /\ \E active \in BOOLEAN :
       InsertKey([owner |-> req[r].actor, fingerprint |-> fingerprint, active |-> active])
  /\ Respond(r)
  /\ UNCHANGED <<users, instances, sessions, assigned>>

(* First compares an id that is a number, and the owner, with the row's.   *)
(* An id that is any other text it takes for a condition, so that the key  *)
(* it finds need not be the one meant, nor of this user: it may be any.    *)
UpdateSSHKeyRead(r, k, fingerprint, active) ==
  /\ req[r].pc = "user"
  /\ keys[k] # None
  /\ Continue(r, "saveKey", k,
       [keys[k] EXCEPT !.fingerprint = fingerprint, !.active = Patched(active, @)])
  /\ UNCHANGED storeVars

UpdateSSHKeySave(r) ==
  /\ req[r].pc = "saveKey"
  /\ UpdateKeyRow(req[r].id, req[r].row)
  /\ Respond(r)
  /\ UNCHANGED <<users, instances, sessions, assigned, lastId>>

UpdateSSHKeyMissed(r) ==
  /\ req[r].pc = "saveKey"
  /\ keys[req[r].id] = None
  /\ Continue(r, "upsertKey", req[r].id, req[r].row)
  /\ UNCHANGED storeVars

UpdateSSHKeyUpsert(r) ==
  /\ req[r].pc = "upsertKey"
  /\ UpsertKeyRow(req[r].id, req[r].row)
  /\ Respond(r)
  /\ UNCHANGED <<users, instances, sessions, assigned, lastId>>

DeleteSSHKey(r, k) ==
  /\ req[r].pc = "user"
  /\ DeleteKeyOf(req[r].actor, k)
  /\ Respond(r)
  /\ UNCHANGED <<users, instances, sessions, assigned, lastId>>

----------------------------------------------------------------------------
AccountsNext ==
  \E r \in Requests :
    \/ \E email \in Emails, role \in Roles : CreateUser(r, email, role)
    \/ \E u \in UserIds, role \in Roles \cup {None}, active \in BOOLEAN \cup {None} :
         UpdateUserRead(r, u, role, active)
    \/ UpdateUserSave(r) \/ UpdateUserMissed(r) \/ UpdateUserUpsert(r)
    \/ \E u \in UserIds : DeleteUserFind(r, u)
    \/ DeleteUser(r)
    \/ \E u \in UserIds, f \in Fingerprints, active \in BOOLEAN :
         CreateUserSSHKeyFind(r, u, f, active)
    \/ CreateUserSSHKey(r)
    \/ \E u \in UserIds : DeleteUserSSHKeyFind(r, u)
    \/ \E f \in Fingerprints : CreateSSHKey(r, f)
    \/ \E k \in KeyIds : DeleteUserSSHKey(r, k) \/ DeleteSSHKey(r, k)
    \/ \E k \in KeyIds, f \in Fingerprints, active \in BOOLEAN \cup {None} :
         UpdateSSHKeyRead(r, k, f, active)
    \/ UpdateSSHKeySave(r) \/ UpdateSSHKeyMissed(r) \/ UpdateSSHKeyUpsert(r)

----------------------------------------------------------------------------
(* A key never passes from one user to another, not even when a Save works *)
(* on a copy of a row that was deleted, and re-created, in the meantime.   *)
KeyOwnerStable ==
  [][\A k \in KeyIds : keys[k] # None /\ keys'[k] # None
                         => keys'[k].owner = keys[k].owner]_<<storeVars, req>>

(* A client's key never identifies one user and, a step later, another:    *)
(* not in the same row, nor in a second row that a creation, an update or  *)
(* the upsert of a deleted key has given the same fingerprint.             *)
KeyIdentifiesOneUser ==
  [][\A k, j \in KeyIds :
       /\ keys[k] # None /\ keys'[j] # None
       /\ keys[k].fingerprint = keys'[j].fingerprint
       => keys[k].owner = keys'[j].owner]_<<storeVars, req>>

(* "This will permanently delete" a user: the row does not come back.      *)
DeletedUsersStayDeleted ==
  [][\A u \in 1 .. lastId.users : users[u] = None => users'[u] = None]_<<storeVars, req>>
=============================================================================
