--------------------------- MODULE HandlerProofs ---------------------------
(***************************************************************************)
(* What the handlers keep, one component after the other: the types of the *)
(* tables and of requests, assignments that name what exists, and          *)
(* credentials that are in order.                                          *)
(***************************************************************************)
EXTENDS Accounts, Instances, Login, TLAPS

ConsoleTypeOK == StoreTypeOK /\ RequestTypeOK

(* Middleware: what a request holds at each point, and the steps that all  *)
(* handlers are made of.                                                   *)

(* A request that waits for a handler acts for a user.                     *)
LEMMA AdmittedShape ==
  ASSUME RequestTypeOK, NEW r \in Requests, req[r].pc \in {"loadUser", "user", "admin"}
  PROVE  req[r].actor \in UserIds /\ req[r].id \in SessionIds /\ req[r].row = None
  BY DEF RequestTypeOK, Request, Idle, TargetPCs, UserPCs, KeyPCs

(* A request that is about to act on a user holds the user's id.           *)
LEMMA TargetShape ==
  ASSUME RequestTypeOK, NEW r \in Requests, req[r].pc \in TargetPCs
  PROVE  req[r].actor \in UserIds \cup {0} /\ req[r].id \in UserIds /\ req[r].row = None
  BY DEF RequestTypeOK, Request, Idle, TargetPCs, UserPCs, KeyPCs

(* A request that is about to save a user holds an id and a row.           *)
LEMMA UserShape ==
  ASSUME RequestTypeOK, NEW r \in Requests, req[r].pc \in UserPCs
  PROVE  req[r].actor \in UserIds \cup {0} /\ req[r].id \in UserIds /\ req[r].row \in User
  BY DEF RequestTypeOK, Request, Idle, TargetPCs, UserPCs, KeyPCs

(* A request that is about to save a key holds an id and a row.            *)
LEMMA KeyShape ==
  ASSUME RequestTypeOK, NEW r \in Requests, req[r].pc \in KeyPCs
  PROVE  req[r].actor \in UserIds /\ req[r].id \in KeyIds /\ req[r].row \in SSHKey
  BY DEF RequestTypeOK, Request, Idle, TargetPCs, UserPCs, KeyPCs

(* A handler's step that goes on keeps the type if the new request has it. *)
LEMMA ContinueType ==
  ASSUME RequestTypeOK, NEW r \in Requests, NEW pc, NEW id, NEW row,
         [pc |-> pc, actor |-> req[r].actor, id |-> id, row |-> row] \in Request,
         Continue(r, pc, id, row)
  PROVE  RequestTypeOK'
  BY DEF RequestTypeOK, Continue

(* So does one that answers.                                               *)
LEMMA RespondType ==
  ASSUME RequestTypeOK, NEW r \in Requests, Respond(r)
  PROVE  RequestTypeOK'
  BY DEF RequestTypeOK, Respond, Request

----------------------------------------------------------------------------
(* Rows written through GORM have the type of their table.                 *)
LEMMA UserRowsTyped ==
  ASSUME StoreTypeOK, NEW row \in User
  PROVE  /\ InsertUser(row) => /\ users' \in [UserIds -> User \cup {None}]
                               /\ lastId' = [lastId EXCEPT !.users = @ + 1]
                               /\ lastId'.users \in UserIds
         /\ \A u \in UserIds : UpdateUserRow(u, row) \/ UpsertUserRow(u, row)
              => users' \in [UserIds -> User \cup {None}]
<1>1. CreatedUser(row) \in User
  BY DEF CreatedUser, User
<1>2. ASSUME InsertUser(row) PROVE lastId'.users \in UserIds
  BY <1>2, BoundsAreNaturals DEF InsertUser, StoreTypeOK, UserIds
<1>. QED BY <1>1, <1>2 DEF StoreTypeOK, InsertUser, UpdateUserRow, UpsertUserRow

LEMMA KeyRowsTyped ==
  ASSUME StoreTypeOK, NEW row \in SSHKey
  PROVE  /\ InsertKey(row) => /\ keys' \in [KeyIds -> SSHKey \cup {None}]
                              /\ lastId' = [lastId EXCEPT !.keys = @ + 1]
                              /\ lastId'.keys \in KeyIds
         /\ \A k \in KeyIds : UpdateKeyRow(k, row) \/ UpsertKeyRow(k, row)
              => keys' \in [KeyIds -> SSHKey \cup {None}]
<1>1. CreatedKey(row) \in SSHKey
  BY DEF CreatedKey, SSHKey
<1>2. ASSUME InsertKey(row) PROVE lastId'.keys \in KeyIds
  BY <1>2, BoundsAreNaturals DEF InsertKey, StoreTypeOK, KeyIds
<1>. QED BY <1>1, <1>2 DEF StoreTypeOK, InsertKey, UpdateKeyRow, UpsertKeyRow

(* The middleware and logout keep the types of tables and requests.        *)
LEMMA MiddlewareType ==
  ASSUME ConsoleTypeOK, MiddlewareNext
  PROVE  ConsoleTypeOK'
<1>. USE DEF ConsoleTypeOK
<1>1. ASSUME NEW r \in Requests, NEW s \in SessionIds, FindSession(r, s)
      PROVE  ConsoleTypeOK'
  <2>1. sessions[s] \in Session
    BY <1>1 DEF FindSession, StoreTypeOK
  <2>2. [pc |-> "loadUser", actor |-> sessions[s].user, id |-> s, row |-> None] \in Request
    BY <2>1 DEF Request, Session
  <2>3. RequestTypeOK'
    BY <1>1, <2>2 DEF FindSession, RequestTypeOK
  <2>. QED BY <1>1, <2>3 DEF FindSession, StoreTypeOK, storeVars
<1>2. ASSUME NEW r \in Requests, NEW route \in {"user", "admin"}, Admit(r, route)
      PROVE  ConsoleTypeOK'
  <2>1. req[r].actor \in UserIds /\ req[r].id \in SessionIds
    BY <1>2, AdmittedShape DEF Admit
  <2>2. [pc |-> route, actor |-> req[r].actor, id |-> req[r].id, row |-> None] \in Request
    BY <2>1 DEF Request
  <2>3. RequestTypeOK'
    BY <1>2, <2>2, ContinueType DEF Admit
  <2>. QED BY <1>2, <2>3 DEF Admit, StoreTypeOK, storeVars
<1>3. ASSUME NEW r \in Requests, Fail(r) PROVE ConsoleTypeOK'
  BY <1>3, RespondType DEF Fail, StoreTypeOK, storeVars
<1>4. ASSUME NEW r \in Requests, Logout(r) PROVE ConsoleTypeOK'
  <2>1. req[r].id \in SessionIds
    BY <1>4, AdmittedShape DEF Logout
  <2>. QED BY <1>4, <2>1, RespondType DEF Logout, StoreTypeOK
<1>5. ASSUME NEW s \in SessionIds, ExpireSession(s) PROVE ConsoleTypeOK'
  <2>1. [sessions[s] EXCEPT !.valid = FALSE] \in Session
    BY <1>5 DEF ExpireSession, StoreTypeOK, Session
  <2>2. sessions' \in [SessionIds -> Session \cup {None}]
    BY <1>5, <2>1 DEF ExpireSession, StoreTypeOK
  <2>. QED BY <1>5, <2>2 DEF ExpireSession, StoreTypeOK, RequestTypeOK
<1>. QED BY <1>1, <1>2, <1>3, <1>4, <1>5 DEF MiddlewareNext

----------------------------------------------------------------------------
(* Every assignment names an instance and a user that exist.               *)
AssignedExist == Referential(assigned, users, instances)

(* A step that takes away neither users nor instances and assigns nothing  *)
(* keeps the assignments referential.                                      *)
LEMMA AdditionsKeepAssigned ==
  ASSUME StoreTypeOK, AssignedExist, UNCHANGED <<instances, assigned>>,
         \A u \in UserIds : users[u] # None => users'[u] # None
  PROVE  AssignedExist'
  BY DEF AssignedExist, Referential, StoreTypeOK

(* A row that is written is not None.                                      *)
LEMMA UserRowsAdd ==
  ASSUME StoreTypeOK, NEW row \in User,
         InsertUser(row) \/ \E id \in UserIds : UpdateUserRow(id, row) \/ UpsertUserRow(id, row)
  PROVE  \A u \in UserIds : users[u] # None => users'[u] # None
<1>1. CreatedUser(row) \in User
  BY DEF CreatedUser, User
<1>. QED BY <1>1, NoneIsNoRow DEF InsertUser, UpdateUserRow, UpsertUserRow, StoreTypeOK

(* The middleware leaves users, instances and assignments alone.           *)
LEMMA MiddlewareKeepsAssigned ==
  ASSUME ConsoleTypeOK, AssignedExist, MiddlewareNext
  PROVE  AssignedExist'
<1>1. UNCHANGED <<users, instances, assigned>>
  BY DEF MiddlewareNext, FindSession, Admit, Fail, Logout, ExpireSession, storeVars
<1>. QED BY <1>1 DEF AssignedExist, Referential

----------------------------------------------------------------------------
(* Accounts: users and their keys.                                         *)

(* A patch of a column of a user yields a user.                            *)
LEMMA PatchedUser ==
  ASSUME NEW row \in User, NEW role \in Roles \cup {None}, NEW active \in BOOLEAN \cup {None}
  PROVE  [row EXCEPT !.role = Patched(role, @), !.active = Patched(active, @)] \in User
  BY NoneIsNoRow DEF User, Patched, Roles

(* A patch of a column of a key yields a key of the same owner.            *)
LEMMA PatchedKey ==
  ASSUME NEW row \in SSHKey, NEW f \in Fingerprints, NEW active \in BOOLEAN \cup {None}
  PROVE  LET new == [row EXCEPT !.fingerprint = f, !.active = Patched(active, @)]
         IN new \in SSHKey /\ new.owner = row.owner
  BY NoneIsNoRow DEF SSHKey, Patched

(* Tables with rows taken out keep their types.                            *)
LEMMA DeleteUserType ==
  ASSUME ConsoleTypeOK, NEW r \in Requests, DeleteUser(r)
  PROVE  ConsoleTypeOK'
<1>1. RequestTypeOK'
  BY RespondType DEF DeleteUser, ConsoleTypeOK
<1>2. users' \in [UserIds -> User \cup {None}]
  BY DEF DeleteUser, ConsoleTypeOK, StoreTypeOK
<1>3. keys' \in [KeyIds -> SSHKey \cup {None}]
  BY DEF DeleteUser, ConsoleTypeOK, StoreTypeOK
<1>4. sessions' \in [SessionIds -> Session \cup {None}]
  BY DEF DeleteUser, ConsoleTypeOK, StoreTypeOK
<1>5. assigned' \in SUBSET (InstanceIds \X UserIds)
  BY DEF DeleteUser, ConsoleTypeOK, StoreTypeOK
<1>. QED BY <1>1, <1>2, <1>3, <1>4, <1>5 DEF DeleteUser, ConsoleTypeOK, StoreTypeOK

(* The handlers that write users keep the types.                           *)
LEMMA UserHandlersType ==
  ASSUME ConsoleTypeOK, NEW r \in Requests
  PROVE  /\ \A email \in Emails, role \in Roles : CreateUser(r, email, role) => ConsoleTypeOK'
         /\ \A u \in UserIds, role \in Roles \cup {None}, active \in BOOLEAN \cup {None} :
              UpdateUserRead(r, u, role, active) => ConsoleTypeOK'
         /\ UpdateUserSave(r) \/ UpdateUserMissed(r) \/ UpdateUserUpsert(r) => ConsoleTypeOK'
         /\ \A u \in UserIds : DeleteUserFind(r, u) => ConsoleTypeOK'
<1>. USE DEF ConsoleTypeOK
<1>1. ASSUME NEW email \in Emails, NEW role \in Roles, CreateUser(r, email, role)
      PROVE  ConsoleTypeOK'
  <2>1. PICK active \in BOOLEAN :
          InsertUser([email |-> email, role |-> role, active |-> active, subject |-> None])
    BY <1>1 DEF CreateUser
  <2>2. [email |-> email, role |-> role, active |-> active, subject |-> None] \in User
    BY DEF User
  <2>3. /\ users' \in [UserIds -> User \cup {None}]
        /\ lastId' = [lastId EXCEPT !.users = @ + 1] /\ lastId'.users \in UserIds
    BY <2>1, <2>2, UserRowsTyped
  <2>4. RequestTypeOK'
    BY <1>1, RespondType DEF CreateUser
  <2>. QED BY <1>1, <2>3, <2>4 DEF CreateUser, StoreTypeOK, UserIds
<1>2. ASSUME NEW u \in UserIds, NEW role \in Roles \cup {None},
             NEW active \in BOOLEAN \cup {None}, UpdateUserRead(r, u, role, active)
      PROVE  ConsoleTypeOK'
  <2>. DEFINE row == [users[u] EXCEPT !.role = Patched(role, @), !.active = Patched(active, @)]
  <2>1. row \in User
    BY <1>2, PatchedUser DEF UpdateUserRead, StoreTypeOK
  <2>2. req[r].actor \in UserIds
    BY <1>2, AdmittedShape DEF UpdateUserRead
  <2>3. [pc |-> "saveUser", actor |-> req[r].actor, id |-> u, row |-> row] \in Request
    BY <2>1, <2>2 DEF Request, UserPCs
  <2>4. Continue(r, "saveUser", u, row)
    BY <1>2 DEF UpdateUserRead
  <2>5. RequestTypeOK'
    BY <2>3, <2>4, ContinueType
  <2>. QED BY <1>2, <2>5 DEF UpdateUserRead, StoreTypeOK, storeVars
<1>3. ASSUME UpdateUserSave(r) \/ UpdateUserUpsert(r) PROVE ConsoleTypeOK'
  <2>1. req[r].id \in UserIds /\ req[r].row \in User
    BY <1>3, UserShape DEF UpdateUserSave, UpdateUserUpsert, UserPCs
  <2>2. users' \in [UserIds -> User \cup {None}]
    BY <1>3, <2>1, UserRowsTyped DEF UpdateUserSave, UpdateUserUpsert
  <2>3. RequestTypeOK'
    BY <1>3, RespondType DEF UpdateUserSave, UpdateUserUpsert
  <2>. QED BY <1>3, <2>2, <2>3 DEF UpdateUserSave, UpdateUserUpsert, StoreTypeOK
<1>4. ASSUME UpdateUserMissed(r) PROVE ConsoleTypeOK'
  <2>1. req[r] \in Request /\ req[r].pc = "saveUser"
    BY <1>4 DEF UpdateUserMissed, RequestTypeOK
  <2>2. [pc |-> "upsertUser", actor |-> req[r].actor, id |-> req[r].id, row |-> req[r].row]
          \in Request
    BY <1>4, <2>1, UserShape DEF Request, UserPCs
  <2>3. RequestTypeOK'
    BY <1>4, <2>2, ContinueType DEF UpdateUserMissed
  <2>. QED BY <1>4, <2>3 DEF UpdateUserMissed, StoreTypeOK, storeVars
<1>5. ASSUME NEW u \in UserIds, DeleteUserFind(r, u) PROVE ConsoleTypeOK'
  <2>1. req[r].actor \in UserIds
    BY <1>5, AdmittedShape DEF DeleteUserFind
  <2>2. [pc |-> "deleteUser", actor |-> req[r].actor, id |-> u, row |-> None] \in Request
    BY <2>1 DEF Request, TargetPCs
  <2>3. RequestTypeOK'
    BY <1>5, <2>2, ContinueType DEF DeleteUserFind
  <2>. QED BY <1>5, <2>3 DEF DeleteUserFind, StoreTypeOK, storeVars
<1>. QED BY <1>1, <1>2, <1>3, <1>4, <1>5

(* The handlers that write keys keep the types.                            *)
LEMMA KeyHandlersType ==
  ASSUME ConsoleTypeOK, NEW r \in Requests
  PROVE  /\ \A u \in UserIds, f \in Fingerprints, active \in BOOLEAN :
              CreateUserSSHKeyFind(r, u, f, active) => ConsoleTypeOK'
         /\ CreateUserSSHKey(r) => ConsoleTypeOK'
         /\ \A u \in UserIds : DeleteUserSSHKeyFind(r, u) => ConsoleTypeOK'
         /\ \A f \in Fingerprints : CreateSSHKey(r, f) => ConsoleTypeOK'
         /\ \A k \in KeyIds : DeleteUserSSHKey(r, k) \/ DeleteSSHKey(r, k) => ConsoleTypeOK'
         /\ \A k \in KeyIds, f \in Fingerprints, active \in BOOLEAN \cup {None} :
              UpdateSSHKeyRead(r, k, f, active) => ConsoleTypeOK'
         /\ UpdateSSHKeySave(r) \/ UpdateSSHKeyMissed(r) \/ UpdateSSHKeyUpsert(r) => ConsoleTypeOK'
<1>. USE DEF ConsoleTypeOK
<1>0. ASSUME NEW row \in SSHKey, InsertKey(row), Respond(r),
             UNCHANGED <<users, instances, sessions, assigned>>
      PROVE  ConsoleTypeOK'
  <2>1. /\ keys' \in [KeyIds -> SSHKey \cup {None}]
        /\ lastId' = [lastId EXCEPT !.keys = @ + 1] /\ lastId'.keys \in KeyIds
    BY <1>0, KeyRowsTyped
  <2>. QED BY <1>0, <2>1, RespondType DEF StoreTypeOK, KeyIds
<1>1. ASSUME NEW u \in UserIds, NEW f \in Fingerprints, NEW active \in BOOLEAN,
             CreateUserSSHKeyFind(r, u, f, active)
      PROVE  ConsoleTypeOK'
  <2>. DEFINE row == [owner |-> u, fingerprint |-> f, active |-> active]
  <2>1. req[r].actor \in UserIds
    BY <1>1, AdmittedShape DEF CreateUserSSHKeyFind
  <2>2. [pc |-> "insertKey", actor |-> req[r].actor, id |-> u, row |-> row] \in Request
    BY <2>1 DEF Request, SSHKey
  <2>3. RequestTypeOK'
    BY <1>1, <2>2, ContinueType DEF CreateUserSSHKeyFind
  <2>. QED BY <1>1, <2>3 DEF CreateUserSSHKeyFind, StoreTypeOK, storeVars
<1>2. ASSUME CreateUserSSHKey(r) PROVE ConsoleTypeOK'
  <2>1. req[r].row \in SSHKey
    BY <1>2 DEF CreateUserSSHKey, RequestTypeOK, Request, Idle, TargetPCs, UserPCs, KeyPCs
  <2>. QED BY <1>0, <1>2, <2>1 DEF CreateUserSSHKey
<1>3. ASSUME NEW u \in UserIds, DeleteUserSSHKeyFind(r, u) PROVE ConsoleTypeOK'
  <2>1. req[r].actor \in UserIds
    BY <1>3, AdmittedShape DEF DeleteUserSSHKeyFind
  <2>2. [pc |-> "deleteKey", actor |-> req[r].actor, id |-> u, row |-> None] \in Request
    BY <2>1 DEF Request, TargetPCs
  <2>3. RequestTypeOK'
    BY <1>3, <2>2, ContinueType DEF DeleteUserSSHKeyFind
  <2>. QED BY <1>3, <2>3 DEF DeleteUserSSHKeyFind, StoreTypeOK, storeVars
<1>4. ASSUME NEW f \in Fingerprints, CreateSSHKey(r, f) PROVE ConsoleTypeOK'
  <2>1. req[r].actor \in UserIds
    BY <1>4, AdmittedShape DEF CreateSSHKey
  <2>2. PICK active \in BOOLEAN :
          InsertKey([owner |-> req[r].actor, fingerprint |-> f, active |-> active])
    BY <1>4 DEF CreateSSHKey
  <2>3. [owner |-> req[r].actor, fingerprint |-> f, active |-> active] \in SSHKey
    BY <2>1 DEF SSHKey
  <2>. QED BY <1>0, <1>4, <2>2, <2>3 DEF CreateSSHKey
<1>5. ASSUME NEW k \in KeyIds, DeleteUserSSHKey(r, k) \/ DeleteSSHKey(r, k)
      PROVE  ConsoleTypeOK'
  <2>1. RequestTypeOK'
    BY <1>5, RespondType DEF DeleteUserSSHKey, DeleteSSHKey
  <2>. QED BY <1>5, <2>1 DEF DeleteUserSSHKey, DeleteSSHKey, DeleteKeyOf, StoreTypeOK
<1>6. ASSUME NEW k \in KeyIds, NEW f \in Fingerprints, NEW active \in BOOLEAN \cup {None},
             UpdateSSHKeyRead(r, k, f, active)
      PROVE  ConsoleTypeOK'
  <2>. DEFINE row == [keys[k] EXCEPT !.fingerprint = f, !.active = Patched(active, @)]
  <2>1. row \in SSHKey
    BY <1>6, PatchedKey DEF UpdateSSHKeyRead, StoreTypeOK
  <2>2. req[r].actor \in UserIds
    BY <1>6, AdmittedShape DEF UpdateSSHKeyRead
  <2>3. [pc |-> "saveKey", actor |-> req[r].actor, id |-> k, row |-> row] \in Request
    BY <2>1, <2>2 DEF Request, KeyPCs
  <2>4. Continue(r, "saveKey", k, row)
    BY <1>6 DEF UpdateSSHKeyRead
  <2>5. RequestTypeOK'
    BY <2>3, <2>4, ContinueType
  <2>. QED BY <1>6, <2>5 DEF UpdateSSHKeyRead, StoreTypeOK, storeVars
<1>7. ASSUME UpdateSSHKeySave(r) \/ UpdateSSHKeyUpsert(r) PROVE ConsoleTypeOK'
  <2>1. req[r].id \in KeyIds /\ req[r].row \in SSHKey
    BY <1>7, KeyShape DEF UpdateSSHKeySave, UpdateSSHKeyUpsert, KeyPCs
  <2>2. keys' \in [KeyIds -> SSHKey \cup {None}]
    BY <1>7, <2>1, KeyRowsTyped DEF UpdateSSHKeySave, UpdateSSHKeyUpsert
  <2>3. RequestTypeOK'
    BY <1>7, RespondType DEF UpdateSSHKeySave, UpdateSSHKeyUpsert
  <2>. QED BY <1>7, <2>2, <2>3 DEF UpdateSSHKeySave, UpdateSSHKeyUpsert, StoreTypeOK
<1>8. ASSUME UpdateSSHKeyMissed(r) PROVE ConsoleTypeOK'
  <2>1. [pc |-> "upsertKey", actor |-> req[r].actor, id |-> req[r].id, row |-> req[r].row]
          \in Request
    BY <1>8, KeyShape DEF UpdateSSHKeyMissed, Request, KeyPCs
  <2>2. RequestTypeOK'
    BY <1>8, <2>1, ContinueType DEF UpdateSSHKeyMissed
  <2>. QED BY <1>8, <2>2 DEF UpdateSSHKeyMissed, StoreTypeOK, storeVars
<1>. QED BY <1>1, <1>2, <1>3, <1>4, <1>5, <1>6, <1>7, <1>8

(* Every handler of Accounts keeps the types.                              *)
LEMMA AccountsType ==
  ASSUME ConsoleTypeOK, AccountsNext
  PROVE  ConsoleTypeOK'
  BY UserHandlersType, DeleteUserType, KeyHandlersType DEF AccountsNext

----------------------------------------------------------------------------
(* DeleteUser takes the user's assignments with the user; no other handler *)
(* of Accounts takes anything an assignment needs.                         *)
LEMMA AccountsKeepAssigned ==
  ASSUME ConsoleTypeOK, AssignedExist, AccountsNext
  PROVE  AssignedExist'
<1>1. CASE \E r \in Requests : DeleteUser(r)
  <2>1. PICK r \in Requests : DeleteUser(r)
    BY <1>1
  <2>2. /\ assigned' = {a \in assigned : a[2] # req[r].id}
        /\ users' = [users EXCEPT ![req[r].id] = None] /\ instances' = instances
    BY <2>1 DEF DeleteUser
  <2>3. ASSUME NEW a \in assigned'
        PROVE  instances'[a[1]] # None /\ users'[a[2]] # None
    <3>1. a \in assigned /\ a[2] # req[r].id /\ a[2] \in UserIds
      BY <2>2, <2>3 DEF ConsoleTypeOK, StoreTypeOK
    <3>2. instances[a[1]] # None /\ users[a[2]] # None
      BY <3>1 DEF AssignedExist, Referential
    <3>. QED BY <2>2, <3>1, <3>2 DEF ConsoleTypeOK, StoreTypeOK
  <2>. QED BY <2>3 DEF AssignedExist, Referential
<1>2. CASE \E r \in Requests, email \in Emails, role \in Roles : CreateUser(r, email, role)
  <2>1. PICK r \in Requests, email \in Emails, role \in Roles, active \in BOOLEAN :
          /\ CreateUser(r, email, role)
          /\ InsertUser([email |-> email, role |-> role, active |-> active, subject |-> None])
    BY <1>2 DEF CreateUser
  <2>2. [email |-> email, role |-> role, active |-> active, subject |-> None] \in User
    BY DEF User
  <2>. QED BY <2>1, <2>2, UserRowsAdd, AdditionsKeepAssigned DEF CreateUser, ConsoleTypeOK
<1>3. CASE \E r \in Requests : UpdateUserSave(r) \/ UpdateUserUpsert(r)
  <2>1. PICK r \in Requests : UpdateUserSave(r) \/ UpdateUserUpsert(r)
    BY <1>3
  <2>2. req[r].id \in UserIds /\ req[r].row \in User
    BY <2>1, UserShape DEF UpdateUserSave, UpdateUserUpsert, UserPCs, ConsoleTypeOK
  <2>. QED BY <2>1, <2>2, UserRowsAdd, AdditionsKeepAssigned
           DEF UpdateUserSave, UpdateUserUpsert, ConsoleTypeOK
<1>4. CASE UNCHANGED <<users, instances, assigned>>
  BY <1>4 DEF AssignedExist, Referential
<1>. QED BY <1>1, <1>2, <1>3, <1>4
         DEF AccountsNext, UpdateUserRead, UpdateUserMissed, DeleteUserFind,
             CreateUserSSHKeyFind, CreateUserSSHKey, DeleteUserSSHKeyFind, DeleteUserSSHKey,
             CreateSSHKey, DeleteSSHKey, UpdateSSHKeyRead, UpdateSSHKeySave,
             UpdateSSHKeyMissed, UpdateSSHKeyUpsert, storeVars

----------------------------------------------------------------------------
(* Instances: an instance request turns credentials that are in order into *)
(* credentials that are in order.                                          *)

(* An instance from the table, or the blank one that CreateInstance fills. *)
Editable(row) == row \in Instance \/ row = BlankInstance

(* What the request makes of the row is an instance.                       *)
LEMMA AppliedType ==
  ASSUME NEW row, Editable(row), NEW body \in InstanceRequests,
         NEW keyPair \in NewPairs(row, body.auth)
  PROVE  ApplyInstanceRequest(row, body, keyPair) \in Instance
<1>. DEFINE auth == body.auth
            cred == Credentials(row, auth, keyPair)
<1>1. keyPair[1] \in PrivateKeys \cup {None} /\ keyPair[2] \in Passphrases \cup {None}
  BY GeneratedAreReadable DEF NewPairs
<1>2. body.slug \in Slugs /\ body.enabled \in BOOLEAN \cup {None} /\ auth \in AuthRequests
  BY DEF InstanceRequests
<1>3. /\ row.enabled \in BOOLEAN /\ row.password \in Passwords \cup {None}
      /\ row.key \in PrivateKeys \cup {None} /\ row.passphrase \in Passphrases \cup {None}
  <2>1. CASE row \in Instance
    BY <2>1 DEF Instance
  <2>2. CASE row = BlankInstance
    BY <2>2 DEF BlankInstance
  <2>. QED BY <2>1, <2>2 DEF Editable
<1>4. /\ cred.method \in AuthMethods /\ cred.password \in Passwords \cup {None}
      /\ cred.key \in PrivateKeys \cup {None} /\ cred.passphrase \in Passphrases \cup {None}
  <2>1. CASE auth.method = "none"
    BY <2>1, <1>3 DEF Credentials, AuthMethods
  <2>2. CASE auth.method = "password"
    BY <2>2, <1>2, <1>3 DEF Credentials, AuthMethods, AuthRequests
  <2>3. CASE auth.method = "key"
    <3>1. /\ auth.key \in PrivateKeys \cup {None}
          /\ auth.passphrase \in Passphrases \cup {None}
      BY <2>3, <1>2, GeneratedAreReadable DEF AuthRequests
    <3>. QED BY <2>3, <3>1, <1>1, <1>3 DEF Credentials, AuthMethods
  <2>4. auth.method \in {"none", "password", "key"}
    BY <1>2 DEF AuthRequests
  <2>. QED BY <2>1, <2>2, <2>3, <2>4
<1>. QED BY <1>2, <1>3, <1>4 DEF ApplyInstanceRequest, Instance

(* What a Create stores of it is an instance too.                          *)
LEMMA CreatedType ==
  ASSUME NEW body \in InstanceRequests, NEW keyPair \in NewPairs(BlankInstance, body.auth)
  PROVE  LET row == ApplyInstanceRequest(BlankInstance, body, keyPair)
         IN row \in Instance /\ CreatedInstance(row) \in Instance
<1>1. Editable(BlankInstance)
  BY DEF Editable
<1>2. ApplyInstanceRequest(BlankInstance, body, keyPair) \in Instance
  BY <1>1, AppliedType
<1>. QED BY <1>2 DEF CreatedInstance, Instance

(* The transaction's last step assigns users that exist.                   *)
LEMMA AssignedType ==
  ASSUME StoreTypeOK, NEW i \in InstanceIds, NEW ids \in SUBSET (0 .. MaxUsers),
         ReplaceAssignedUsers(i, ids)
  PROVE  assigned' \in SUBSET (InstanceIds \X UserIds)
<1>1. ids \ {0} \subseteq UserIds
  BY BoundsAreNaturals DEF UserIds
<1>. QED BY <1>1 DEF ReplaceAssignedUsers, StoreTypeOK

(* Every handler of Instances keeps the types.                             *)
LEMMA InstancesType ==
  ASSUME ConsoleTypeOK, InstancesNext
  PROVE  ConsoleTypeOK'
<1>. USE DEF ConsoleTypeOK
<1>1. ASSUME NEW r \in Requests, NEW body \in InstanceRequests,
             NEW ids \in SUBSET (0 .. MaxUsers), CreateInstance(r, body, ids)
      PROVE  ConsoleTypeOK'
  <2>. DEFINE i == lastId.instances + 1
  <2>1. PICK keyPair \in NewPairs(BlankInstance, body.auth) :
          LET row == ApplyInstanceRequest(BlankInstance, body, keyPair) IN
            /\ instances' = [instances EXCEPT ![i] = CreatedInstance(row)]
            /\ lastId' = [lastId EXCEPT !.instances = i]
            /\ ReplaceAssignedUsers(i, ids)
    BY <1>1 DEF CreateInstance
  <2>. DEFINE row == ApplyInstanceRequest(BlankInstance, body, keyPair)
  <2>2. CreatedInstance(row) \in Instance
    BY CreatedType
  <2>3. /\ instances' = [instances EXCEPT ![i] = CreatedInstance(row)]
        /\ lastId' = [lastId EXCEPT !.instances = i]
        /\ ReplaceAssignedUsers(i, ids)
        /\ lastId.instances < MaxInstances
    BY <1>1, <2>1 DEF CreateInstance
  <2>4. i \in InstanceIds
    BY <2>3, BoundsAreNaturals DEF StoreTypeOK, InstanceIds
  <2>5. instances' \in [InstanceIds -> Instance \cup {None}]
    BY <2>2, <2>3 DEF StoreTypeOK
  <2>6. lastId' \in [users: 0 .. MaxUsers, keys: 0 .. MaxKeys,
                     instances: 0 .. MaxInstances, sessions: 0 .. MaxSessions]
    BY <2>3, <2>4 DEF StoreTypeOK, InstanceIds
  <2>7. assigned' \in SUBSET (InstanceIds \X UserIds)
    BY <2>3, <2>4, AssignedType
  <2>8. RequestTypeOK'
    BY <1>1, RespondType DEF CreateInstance
  <2>. QED BY <1>1, <2>5, <2>6, <2>7, <2>8 DEF CreateInstance, StoreTypeOK
<1>2. ASSUME NEW r \in Requests, NEW i \in InstanceIds, NEW body \in InstanceRequests,
             UpdateInstanceRead(r, i, body)
      PROVE  ConsoleTypeOK'
  <2>0. PICK keyPair \in NewPairs(instances[i], body.auth) :
          Continue(r, "saveInstance", i, ApplyInstanceRequest(instances[i], body, keyPair))
    BY <1>2 DEF UpdateInstanceRead
  <2>. DEFINE row == ApplyInstanceRequest(instances[i], body, keyPair)
  <2>1. row \in Instance
    BY <1>2, AppliedType DEF Editable, UpdateInstanceRead, StoreTypeOK
  <2>2. req[r].actor \in UserIds
    BY <1>2, AdmittedShape DEF UpdateInstanceRead
  <2>3. [pc |-> "saveInstance", actor |-> req[r].actor, id |-> i, row |-> row] \in Request
    BY <2>1, <2>2 DEF Request
  <2>4. Continue(r, "saveInstance", i, row)
    BY <2>0
  <2>5. RequestTypeOK'
    BY <2>3, <2>4, ContinueType
  <2>. QED BY <1>2, <2>5 DEF UpdateInstanceRead, StoreTypeOK, storeVars
<1>3. ASSUME NEW r \in Requests, NEW ids \in SUBSET (0 .. MaxUsers), UpdateInstanceSave(r, ids)
      PROVE  ConsoleTypeOK'
  <2>1. req[r].id \in InstanceIds /\ req[r].row \in Instance
    BY <1>3 DEF UpdateInstanceSave, RequestTypeOK, Request, Idle, TargetPCs, UserPCs, KeyPCs
  <2>2. CreatedInstance(req[r].row) \in Instance
    BY <2>1 DEF CreatedInstance, Instance
  <2>3. instances' \in [InstanceIds -> Instance \cup {None}]
    BY <1>3, <2>1, <2>2 DEF UpdateInstanceSave, StoreTypeOK
  <2>4. assigned' \in SUBSET (InstanceIds \X UserIds)
    BY <1>3, <2>1, AssignedType DEF UpdateInstanceSave
  <2>. QED BY <1>3, <2>3, <2>4, RespondType DEF UpdateInstanceSave, StoreTypeOK
<1>4. ASSUME NEW r \in Requests, NEW i \in InstanceIds, DeleteInstanceFind(r, i)
      PROVE  ConsoleTypeOK'
  <2>1. [pc |-> "deleteInstance", actor |-> req[r].actor, id |-> i, row |-> None] \in Request
    BY <1>4, AdmittedShape DEF DeleteInstanceFind, Request
  <2>2. RequestTypeOK'
    BY <1>4, <2>1, ContinueType DEF DeleteInstanceFind
  <2>. QED BY <1>4, <2>2 DEF DeleteInstanceFind, StoreTypeOK, storeVars
<1>5. ASSUME NEW r \in Requests, DeleteInstance(r) PROVE ConsoleTypeOK'
  <2>1. instances' \in [InstanceIds -> Instance \cup {None}]
    BY <1>5 DEF DeleteInstance, StoreTypeOK
  <2>2. assigned' \in SUBSET (InstanceIds \X UserIds)
    BY <1>5 DEF DeleteInstance, StoreTypeOK
  <2>. QED BY <1>5, <2>1, <2>2, RespondType DEF DeleteInstance, StoreTypeOK
<1>. QED BY <1>1, <1>2, <1>3, <1>4, <1>5 DEF InstancesNext

----------------------------------------------------------------------------
(* A transaction that writes the instance and replaces its users leaves    *)
(* assignments that name what exists.                                      *)
LEMMA ReplaceKeepsAssigned ==
  ASSUME StoreTypeOK, AssignedExist, NEW i \in InstanceIds, NEW ids \in SUBSET (0 .. MaxUsers),
         NEW row, row # None, instances' = [instances EXCEPT ![i] = row], users' = users,
         ReplaceAssignedUsers(i, ids)
  PROVE  AssignedExist'
<1>1. ASSUME NEW a \in assigned'
      PROVE  instances'[a[1]] # None /\ users'[a[2]] # None
  <2>1. CASE a \in assigned /\ a[1] # i
    BY <2>1 DEF AssignedExist, Referential, StoreTypeOK
  <2>2. CASE a \in {i} \X (ids \ {0})
    BY <2>2 DEF ReplaceAssignedUsers, StoreTypeOK
  <2>. QED BY <1>1, <2>1, <2>2 DEF ReplaceAssignedUsers
<1>. QED BY <1>1 DEF AssignedExist, Referential

(* DeleteInstance takes the instance's assignments with the instance, and  *)
(* the transactions of the other two handlers check the users they assign. *)
LEMMA InstancesKeepAssigned ==
  ASSUME ConsoleTypeOK, AssignedExist, InstancesNext
  PROVE  AssignedExist'
<1>. USE DEF ConsoleTypeOK
<1>1. ASSUME NEW r \in Requests, NEW body \in InstanceRequests,
             NEW ids \in SUBSET (0 .. MaxUsers), CreateInstance(r, body, ids)
      PROVE  AssignedExist'
  <2>. DEFINE i == lastId.instances + 1
  <2>0. PICK keyPair \in NewPairs(BlankInstance, body.auth) :
          LET row == ApplyInstanceRequest(BlankInstance, body, keyPair) IN
            /\ instances' = [instances EXCEPT ![i] = CreatedInstance(row)]
            /\ ReplaceAssignedUsers(i, ids)
    BY <1>1 DEF CreateInstance
  <2>. DEFINE row == CreatedInstance(ApplyInstanceRequest(BlankInstance, body, keyPair))
  <2>1. row # None
    BY CreatedType, NoneIsNoRow
  <2>2. i \in InstanceIds
    BY <1>1, BoundsAreNaturals DEF CreateInstance, StoreTypeOK, InstanceIds
  <2>3. /\ instances' = [instances EXCEPT ![i] = row]
        /\ ReplaceAssignedUsers(i, ids) /\ users' = users
    BY <1>1, <2>0 DEF CreateInstance
  <2>. QED BY <2>1, <2>2, <2>3, ReplaceKeepsAssigned
<1>2. ASSUME NEW r \in Requests, NEW ids \in SUBSET (0 .. MaxUsers), UpdateInstanceSave(r, ids)
      PROVE  AssignedExist'
  <2>. DEFINE i == req[r].id
              row == IF instances[i] = None THEN CreatedInstance(req[r].row) ELSE req[r].row
  <2>1. i \in InstanceIds /\ req[r].row \in Instance
    BY <1>2 DEF UpdateInstanceSave, RequestTypeOK, Request, Idle, TargetPCs, UserPCs, KeyPCs
  <2>2. row # None
    BY <2>1, NoneIsNoRow DEF CreatedInstance, Instance
  <2>3. /\ instances' = [instances EXCEPT ![i] = row]
        /\ ReplaceAssignedUsers(i, ids) /\ users' = users
    BY <1>2, <2>1 DEF UpdateInstanceSave, StoreTypeOK
  <2>. QED BY <2>1, <2>2, <2>3, ReplaceKeepsAssigned
<1>3. ASSUME NEW r \in Requests, DeleteInstance(r) PROVE AssignedExist'
  <2>1. /\ assigned' = {a \in assigned : a[1] # req[r].id}
        /\ instances' = [instances EXCEPT ![req[r].id] = None] /\ users' = users
    BY <1>3 DEF DeleteInstance
  <2>2. ASSUME NEW a \in assigned'
        PROVE  instances'[a[1]] # None /\ users'[a[2]] # None
    <3>1. a \in assigned /\ a[1] # req[r].id /\ a[1] \in InstanceIds
      BY <2>1, <2>2 DEF StoreTypeOK
    <3>2. instances[a[1]] # None /\ users[a[2]] # None
      BY <3>1 DEF AssignedExist, Referential
    <3>. QED BY <2>1, <3>1, <3>2 DEF StoreTypeOK
  <2>. QED BY <2>2 DEF AssignedExist, Referential
<1>4. CASE UNCHANGED <<users, instances, assigned>>
  BY <1>4 DEF AssignedExist, Referential
<1>. QED BY <1>1, <1>2, <1>3, <1>4
         DEF InstancesNext, UpdateInstanceRead, DeleteInstanceFind, storeVars

----------------------------------------------------------------------------
(* Nothing yet, or a row whose credentials are in order.                   *)
InOrder(row) == row = BlankInstance \/ (row \in Instance /\ CredentialsMatch(row))

(* From a row whose credentials are in order, or from nothing, a request   *)
(* that is not refused makes a row whose credentials are in order.         *)
LEMMA AppliedMatches ==
  ASSUME NEW row, InOrder(row),
         NEW body \in InstanceRequests, NEW keyPair \in NewPairs(row, body.auth),
         ~PasswordMissing(row, body.auth)
  PROVE  CredentialsMatch(ApplyInstanceRequest(row, body, keyPair))
<1>. DEFINE auth == body.auth
            cred == Credentials(row, auth, keyPair)
            new == ApplyInstanceRequest(row, body, keyPair)
<1>1. /\ new.method = cred.method /\ new.password = cred.password
      /\ new.key = cred.key /\ new.passphrase = cred.passphrase
  BY DEF ApplyInstanceRequest
<1>2. auth.method = "key" /\ Generates(row, auth) =>
        keyPair = <<keyPair[1], keyPair[2]>> /\ keyPair \in Pasted \cup Generated
  BY GeneratedAreReadable DEF NewPairs
<1>. USE DEF InOrder
<1>3. auth \in AuthRequests
  BY DEF InstanceRequests
<1>4. CASE auth.method = "none"
  BY <1>1, <1>4 DEF Credentials, CredentialsMatch
<1>5. CASE auth.method = "password"
  <2>1. auth.password \in Passwords \cup {None}
    BY <1>3, <1>5 DEF AuthRequests
  <2>2. auth.password = None => row.method = "password" /\ row.password # None
    <3>1. auth.password = None => row.method = "password"
      BY <1>5 DEF PasswordMissing
    <3>2. row.method = "password" => row # BlankInstance
      <4>1. BlankInstance.method = ""
        BY DEF BlankInstance
      <4>. QED BY <4>1
    <3>3. row.method = "password" => row.password # None
      BY <3>2 DEF CredentialsMatch
    <3>. QED BY <3>1, <3>3
  <2>. QED BY <1>1, <1>5, <2>1, <2>2 DEF Credentials, CredentialsMatch
<1>6. CASE auth.method = "key"
  <2>1. auth.key # None => <<auth.key, auth.passphrase>> \in Pasted \cup Generated
    BY <1>3, <1>6, GeneratedAreReadable DEF AuthRequests
  <2>2. row.key # None => <<row.key, row.passphrase>> \in Pasted \cup Generated
    <3>1. CASE row = BlankInstance
      BY <3>1 DEF BlankInstance
    <3>2. CASE row \in Instance /\ CredentialsMatch(row)
      BY <3>2 DEF Instance, AuthMethods, CredentialsMatch
    <3>. QED BY <3>1, <3>2
  <2>3. /\ cred.method = "key" /\ cred.password = None
        /\ <<cred.key, cred.passphrase>> \in Pasted \cup Generated
    BY <1>2, <1>6, <2>1, <2>2 DEF Credentials, Generates
  <2>. QED BY <1>1, <2>3 DEF CredentialsMatch
<1>. QED BY <1>3, <1>4, <1>5, <1>6 DEF AuthRequests

(* The flag that Create turns on is no part of the credentials.            *)
LEMMA CreatedMatches ==
  ASSUME NEW row \in Instance, CredentialsMatch(row)
  PROVE  CredentialsMatch(CreatedInstance(row))
  BY DEF CreatedInstance, CredentialsMatch, Instance

(* Every handler of Instances keeps the credentials in order, in the table *)
(* and in the copies it is about to save.                                  *)
LEMMA InstancesKeepCredentials ==
  ASSUME ConsoleTypeOK, CredentialsKept, InstancesNext
  PROVE  CredentialsKept'
<1>. USE DEF ConsoleTypeOK
<1>1. ASSUME NEW r \in Requests, Respond(r), UNCHANGED instances PROVE CredentialsKept'
  BY <1>1 DEF CredentialsKept, Respond, RequestTypeOK, Idle
<1>2. ASSUME NEW r \in Requests, NEW i \in InstanceIds, NEW row, CredentialsMatch(row), Respond(r),
             instances' = [instances EXCEPT ![i] = row]
      PROVE  CredentialsKept'
  BY <1>2 DEF CredentialsKept, Respond, RequestTypeOK, StoreTypeOK, Idle
<1>3. ASSUME NEW r \in Requests, NEW body \in InstanceRequests,
             NEW ids \in SUBSET (0 .. MaxUsers), CreateInstance(r, body, ids)
      PROVE  CredentialsKept'
  <2>. DEFINE i == lastId.instances + 1
  <2>0. PICK keyPair \in NewPairs(BlankInstance, body.auth) :
          instances' = [instances EXCEPT
            ![i] = CreatedInstance(ApplyInstanceRequest(BlankInstance, body, keyPair))]
    BY <1>3 DEF CreateInstance
  <2>. DEFINE row == ApplyInstanceRequest(BlankInstance, body, keyPair)
  <2>1. CredentialsMatch(row) /\ row \in Instance
    <3>1. ~PasswordMissing(BlankInstance, body.auth)
      BY <1>3 DEF CreateInstance
    <3>2. CredentialsMatch(ApplyInstanceRequest(BlankInstance, body, keyPair))
      <4>1. InOrder(BlankInstance)
        BY DEF InOrder
      <4>. QED BY <3>1, <4>1, AppliedMatches
    <3>. QED BY <3>2, CreatedType
  <2>2. i \in InstanceIds
    BY <1>3, BoundsAreNaturals DEF CreateInstance, StoreTypeOK, InstanceIds
  <2>3. instances' = [instances EXCEPT ![i] = CreatedInstance(row)] /\ Respond(r)
    BY <1>3, <2>0 DEF CreateInstance
  <2>. QED BY <1>2, <2>1, <2>2, <2>3, CreatedMatches
<1>4. ASSUME NEW r \in Requests, NEW i \in InstanceIds, NEW body \in InstanceRequests,
             UpdateInstanceRead(r, i, body)
      PROVE  CredentialsKept'
  <2>0. PICK keyPair \in NewPairs(instances[i], body.auth) :
          Continue(r, "saveInstance", i, ApplyInstanceRequest(instances[i], body, keyPair))
    BY <1>4 DEF UpdateInstanceRead
  <2>. DEFINE row == ApplyInstanceRequest(instances[i], body, keyPair)
  <2>1. instances[i] \in Instance /\ CredentialsMatch(instances[i])
    BY <1>4 DEF UpdateInstanceRead, StoreTypeOK, CredentialsKept
  <2>2. CredentialsMatch(row)
    BY <1>4, <2>1, AppliedMatches DEF UpdateInstanceRead, InOrder
  <2>3. Continue(r, "saveInstance", i, row) /\ UNCHANGED instances
    BY <1>4, <2>0 DEF UpdateInstanceRead, storeVars
  <2>. QED BY <2>2, <2>3 DEF CredentialsKept, Continue, RequestTypeOK
<1>5. ASSUME NEW r \in Requests, NEW ids \in SUBSET (0 .. MaxUsers), UpdateInstanceSave(r, ids)
      PROVE  CredentialsKept'
  <2>. DEFINE i == req[r].id
              row == IF instances[i] = None THEN CreatedInstance(req[r].row) ELSE req[r].row
  <2>1. i \in InstanceIds /\ req[r].row \in Instance
    BY <1>5 DEF UpdateInstanceSave, RequestTypeOK, Request, Idle, TargetPCs, UserPCs, KeyPCs
  <2>2. CredentialsMatch(req[r].row)
    BY <1>5 DEF UpdateInstanceSave, CredentialsKept
  <2>3. CredentialsMatch(row)
    BY <2>1, <2>2, CreatedMatches
  <2>4. instances' = [instances EXCEPT ![i] = row] /\ Respond(r)
    BY <1>5, <2>1 DEF UpdateInstanceSave, StoreTypeOK
  <2>. QED BY <1>2, <2>1, <2>3, <2>4
<1>6. ASSUME NEW r \in Requests, NEW i \in InstanceIds, DeleteInstanceFind(r, i)
      PROVE  CredentialsKept'
  BY <1>6 DEF DeleteInstanceFind, CredentialsKept, Continue, RequestTypeOK, storeVars
<1>7. ASSUME NEW r \in Requests, DeleteInstance(r) PROVE CredentialsKept'
  BY <1>7 DEF DeleteInstance, CredentialsKept, Respond, RequestTypeOK, StoreTypeOK, Idle
<1>. QED BY <1>3, <1>4, <1>5, <1>6, <1>7 DEF InstancesNext

----------------------------------------------------------------------------
(* Login: the steps of a sign-in.                                          *)

(* A callback acts for nobody; it holds the claims once it has them.       *)
LEMMA CallbackShape ==
  ASSUME RequestTypeOK, NEW r \in Requests
  PROVE  /\ req[r].pc = "exchange" => req[r].actor = 0 /\ req[r].id \in StateIds
         /\ req[r].pc = "findUser" => req[r].actor = 0 /\ req[r].row \in Claims
         /\ req[r].pc = "createLogin" => req[r].actor = 0 /\ req[r].row \in User
  BY DEF RequestTypeOK, Request, Idle, TargetPCs, UserPCs, KeyPCs

(* The state store: nothing but the store changes.                         *)
LEMMA StateStoreType ==
  ASSUME ConsoleTypeOK, PendingTypeOK, UNCHANGED <<storeVars, req>>,
         \/ \E s \in StateIds : BeginLogin(s) \/ ExpireState(s) \/ CallbackExpired(s)
         \/ Cleanup
  PROVE  ConsoleTypeOK' /\ PendingTypeOK'
<1>1. ConsoleTypeOK'
  BY DEF ConsoleTypeOK, StoreTypeOK, RequestTypeOK, storeVars
<1>2. PendingTypeOK'
  BY DEF PendingTypeOK, BeginLogin, ExpireState, CallbackExpired, Cleanup
<1>. QED BY <1>1, <1>2

(* Callback and Exchange.                                                  *)
LEMMA CallbackType ==
  ASSUME ConsoleTypeOK, PendingTypeOK, NEW r \in Requests
  PROVE  /\ \A s \in StateIds : Callback(r, s) => ConsoleTypeOK' /\ PendingTypeOK'
         /\ \A claims \in Claims, nonce \in StateIds \cup {None} :
              Exchange(r, claims, nonce) => ConsoleTypeOK' /\ PendingTypeOK'
<1>. USE DEF ConsoleTypeOK
<1>1. ASSUME NEW s \in StateIds, Callback(r, s) PROVE ConsoleTypeOK' /\ PendingTypeOK'
  <2>1. [pc |-> "exchange", actor |-> req[r].actor, id |-> s, row |-> None] \in Request
    BY <1>1 DEF Callback, Request, Idle
  <2>2. RequestTypeOK'
    BY <1>1, <2>1, ContinueType DEF Callback
  <2>. QED BY <1>1, <2>2 DEF Callback, StoreTypeOK, storeVars, PendingTypeOK
<1>2. ASSUME NEW claims \in Claims, NEW nonce \in StateIds \cup {None},
             Exchange(r, claims, nonce)
      PROVE  ConsoleTypeOK' /\ PendingTypeOK'
  <2>1. req[r].actor = 0 /\ req[r].id \in StateIds
    BY <1>2, CallbackShape DEF Exchange
  <2>2. [pc |-> "findUser", actor |-> req[r].actor, id |-> req[r].id, row |-> claims] \in Request
    BY <2>1 DEF Request
  <2>3. RequestTypeOK'
    BY <1>2, <2>2, ContinueType DEF Exchange
  <2>. QED BY <1>2, <2>3 DEF Exchange, StoreTypeOK, storeVars, PendingTypeOK
<1>. QED BY <1>1, <1>2

(* findOrCreateUser's read.                                                *)
LEMMA FindUserForLoginType ==
  ASSUME ConsoleTypeOK, PendingTypeOK, NEW r \in Requests, FindUserForLogin(r)
  PROVE  ConsoleTypeOK' /\ PendingTypeOK'
<1>. USE DEF ConsoleTypeOK
<1>. DEFINE claims == req[r].row
<1>1. req[r].actor = 0 /\ claims \in Claims
  BY CallbackShape DEF FindUserForLogin
<1>2. \A role \in Roles : RoleAfterLogin(claims.email, role) \in Roles
  BY DEF RoleAfterLogin, Roles
<1>3. RequestTypeOK'
  <2>1. CASE Continue(r, "createLogin", 0,
               [email |-> claims.email, subject |-> claims.subject, active |-> TRUE,
                role |-> RoleAfterLogin(claims.email, "user")])
    <3>1. [email |-> claims.email, subject |-> claims.subject, active |-> TRUE,
           role |-> RoleAfterLogin(claims.email, "user")] \in User
      BY <1>1, <1>2 DEF User, Claims, Roles
    <3>. DEFINE row == [email |-> claims.email, subject |-> claims.subject, active |-> TRUE,
                        role |-> RoleAfterLogin(claims.email, "user")]
    <3>2. [pc |-> "createLogin", actor |-> req[r].actor, id |-> 0, row |-> row] \in Request
      BY <1>1, <3>1 DEF Request
    <3>. QED BY <2>1, <3>2, ContinueType
  <2>2. ASSUME NEW u \in MatchingUsers(claims),
               Continue(r, "saveLogin", u,
                  [users[u] EXCEPT !.email = claims.email, !.subject = claims.subject,
                                   !.role = RoleAfterLogin(claims.email, @)])
        PROVE  RequestTypeOK'
    <3>. DEFINE row == [users[u] EXCEPT !.email = claims.email, !.subject = claims.subject,
                                        !.role = RoleAfterLogin(claims.email, @)]
    <3>1. u \in UserIds /\ users[u] \in User
      BY <2>2 DEF MatchingUsers, StoreTypeOK
    <3>2. row \in User
      BY <3>1, <1>1, <1>2 DEF User, Claims
    <3>3. [pc |-> "saveLogin", actor |-> req[r].actor, id |-> u, row |-> row] \in Request
      BY <1>1, <3>1, <3>2 DEF Request, UserPCs
    <3>. QED BY <2>2, <3>3, ContinueType
  <2>. QED BY <2>1, <2>2 DEF FindUserForLogin
<1>. QED BY <1>3 DEF FindUserForLogin, StoreTypeOK, storeVars, PendingTypeOK

(* The end of findOrCreateUser, whatever it wrote.                         *)
LEMMA SignInType ==
  ASSUME RequestTypeOK, NEW r \in Requests, req[r].actor \in UserIds \cup {0},
         NEW u \in UserIds, NEW active \in BOOLEAN, SignIn(r, u, active)
  PROVE  RequestTypeOK'
<1>1. [pc |-> "createSession", actor |-> req[r].actor, id |-> u, row |-> None] \in Request
  BY DEF Request, TargetPCs
<1>. QED BY <1>1, ContinueType, RespondType DEF SignIn

(* findOrCreateUser's writes.                                              *)
LEMMA LoginWritesType ==
  ASSUME ConsoleTypeOK, PendingTypeOK, NEW r \in Requests,
         LoginCreate(r) \/ LoginSave(r) \/ LoginMissed(r) \/ LoginUpsert(r)
  PROVE  ConsoleTypeOK' /\ PendingTypeOK'
<1>. USE DEF ConsoleTypeOK
<1>1. CASE LoginCreate(r)
  <2>1. req[r].row \in User /\ req[r].actor = 0
    BY <1>1, CallbackShape DEF LoginCreate
  <2>2. /\ users' \in [UserIds -> User \cup {None}]
        /\ lastId' = [lastId EXCEPT !.users = @ + 1] /\ lastId'.users \in UserIds
    BY <1>1, <2>1, UserRowsTyped DEF LoginCreate
  <2>3. RequestTypeOK'
    BY <1>1, <2>1, <2>2, SignInType DEF LoginCreate
  <2>. QED BY <1>1, <2>2, <2>3 DEF LoginCreate, StoreTypeOK, UserIds, PendingTypeOK
<1>2. CASE LoginSave(r) \/ LoginUpsert(r)
  <2>1. /\ req[r].actor \in UserIds \cup {0} /\ req[r].id \in UserIds
        /\ req[r].row \in User /\ req[r].row.active \in BOOLEAN
    BY <1>2, UserShape DEF LoginSave, LoginUpsert, UserPCs, User
  <2>2. users' \in [UserIds -> User \cup {None}]
    BY <1>2, <2>1, UserRowsTyped DEF LoginSave, LoginUpsert
  <2>3. RequestTypeOK'
    BY <1>2, <2>1, SignInType DEF LoginSave, LoginUpsert
  <2>. QED BY <1>2, <2>2, <2>3 DEF LoginSave, LoginUpsert, StoreTypeOK, PendingTypeOK
<1>3. CASE LoginMissed(r)
  <2>1. [pc |-> "upsertLogin", actor |-> req[r].actor, id |-> req[r].id, row |-> req[r].row]
          \in Request
    BY <1>3, UserShape DEF LoginMissed, Request, UserPCs
  <2>2. RequestTypeOK'
    BY <1>3, <2>1, ContinueType DEF LoginMissed
  <2>. QED BY <1>3, <2>2 DEF LoginMissed, StoreTypeOK, storeVars, PendingTypeOK
<1>. QED BY <1>1, <1>2, <1>3

(* CreateSession.                                                          *)
LEMMA CreateSessionType ==
  ASSUME ConsoleTypeOK, PendingTypeOK, NEW r \in Requests, CreateSession(r)
  PROVE  ConsoleTypeOK' /\ PendingTypeOK'
<1>. USE DEF ConsoleTypeOK
<1>1. [user |-> req[r].id, valid |-> TRUE] \in Session
  BY TargetShape DEF CreateSession, TargetPCs, Session
<1>2. lastId'.sessions \in SessionIds
  BY BoundsAreNaturals DEF CreateSession, StoreTypeOK, SessionIds
<1>3. sessions' \in [SessionIds -> Session \cup {None}]
  BY <1>1, <1>2 DEF CreateSession, StoreTypeOK
<1>4. RequestTypeOK'
  BY RespondType DEF CreateSession
<1>. QED BY <1>2, <1>3, <1>4 DEF CreateSession, StoreTypeOK, SessionIds, PendingTypeOK

(* Every step of a sign-in keeps the types.                                *)
LEMMA LoginType ==
  ASSUME ConsoleTypeOK, PendingTypeOK, LoginNext
  PROVE  ConsoleTypeOK' /\ PendingTypeOK'
<1>1. CASE \/ \E s \in StateIds : BeginLogin(s) \/ ExpireState(s) \/ CallbackExpired(s)
           \/ Cleanup
  BY <1>1, StateStoreType DEF BeginLogin, ExpireState, CallbackExpired, Cleanup
<1>. QED BY <1>1, CallbackType, FindUserForLoginType, LoginWritesType, CreateSessionType
         DEF LoginNext

----------------------------------------------------------------------------
(* A sign-in adds users and sessions and takes away nothing.               *)
LEMMA LoginKeepsAssigned ==
  ASSUME ConsoleTypeOK, AssignedExist, LoginNext
  PROVE  AssignedExist'
<1>1. CASE \E r \in Requests : LoginCreate(r) \/ LoginSave(r) \/ LoginUpsert(r)
  <2>1. PICK r \in Requests : LoginCreate(r) \/ LoginSave(r) \/ LoginUpsert(r)
    BY <1>1
  <2>2. /\ req[r].row \in User
        /\ LoginSave(r) \/ LoginUpsert(r) => req[r].id \in UserIds
    BY <2>1, CallbackShape, UserShape
       DEF LoginCreate, LoginSave, LoginUpsert, UserPCs, ConsoleTypeOK
  <2>3. \A u \in UserIds : users[u] # None => users'[u] # None
    BY <2>1, <2>2, UserRowsAdd DEF LoginCreate, LoginSave, LoginUpsert, ConsoleTypeOK
  <2>4. UNCHANGED <<instances, assigned>>
    BY <2>1 DEF LoginCreate, LoginSave, LoginUpsert
  <2>. QED BY <2>3, <2>4, AdditionsKeepAssigned DEF ConsoleTypeOK
<1>2. CASE UNCHANGED <<users, instances, assigned>>
  BY <1>2 DEF AssignedExist, Referential
<1>. QED BY <1>1, <1>2
         DEF LoginNext, BeginLogin, ExpireState, CallbackExpired, Cleanup, Callback, Exchange,
             FindUserForLogin, LoginMissed, CreateSession, storeVars
=============================================================================
