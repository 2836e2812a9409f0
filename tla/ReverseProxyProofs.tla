------------------------ MODULE ReverseProxyProofs ------------------------
(***************************************************************************)
(* The theorems about the whole backend.  Three invariants, each inductive *)
(* relative to the ones before it: the types; assignments name what        *)
(* exists; credentials are in order, in the table, in the rows requests    *)
(* are about to save and in the copies that connections dial with.         *)
(***************************************************************************)
EXTENDS ReverseProxy, HandlerProofs

(* A target that was copied from a row in order is in order.               *)
TargetsMatch ==
  \A c \in Conns : conn[c].pc = "dialing" => CredentialsMatch(conn[c].target)

----------------------------------------------------------------------------
(* A connection that has been authenticated acts for a user id.            *)
LEMMA ConnShape ==
  ASSUME ConnTypeOK, NEW c \in Conns
  PROVE  /\ conn[c] # Closed => conn[c].user \in UserIds
         /\ conn[c].pc = "dialing" =>
              conn[c].instance \in InstanceIds /\ conn[c].target \in Instance
  BY DEF ConnTypeOK, Connection, Closed

(* The proxy reads the tables only; its connections keep their type.       *)
LEMMA ProxyType ==
  ASSUME StoreTypeOK, ConnTypeOK, ProxyNext
  PROVE  ConnTypeOK' /\ UNCHANGED storeVars
<1>1. ASSUME NEW c \in Conns, NEW k \in KeyIds, Authenticate(c, k) PROVE ConnTypeOK'
  <2>1. keys[k].owner \in UserIds
    BY <1>1 DEF Authenticate, StoreTypeOK, SSHKey
  <2>2. [pc |-> "authenticated", user |-> keys[k].owner, instance |-> 0, target |-> None]
          \in Connection
    BY <2>1 DEF Connection
  <2>3. conn' = [conn EXCEPT ![c] = [pc |-> "authenticated", user |-> keys[k].owner,
                                     instance |-> 0, target |-> None]]
    BY <1>1 DEF Authenticate, ConnTypeOK, Closed
  <2>. QED BY <2>2, <2>3 DEF ConnTypeOK
<1>2. ASSUME NEW c \in Conns, NEW slug \in Slugs, LookupTarget(c, slug) PROVE ConnTypeOK'
  <2>1. PICK i \in InstanceIds :
          /\ instances[i] # None
          /\ conn' = [conn EXCEPT ![c] = [pc |-> "dialing", user |-> conn[c].user,
                                          instance |-> i, target |-> instances[i]]]
    BY <1>2 DEF LookupTarget, Targets, ConnTypeOK
  <2>2. instances[i] \in Instance /\ conn[c].user \in UserIds
    BY <1>2, <2>1, ConnShape DEF StoreTypeOK, LookupTarget, Closed
  <2>3. [pc |-> "dialing", user |-> conn[c].user, instance |-> i, target |-> instances[i]]
          \in Connection
    BY <2>2 DEF Connection
  <2>. QED BY <2>1, <2>3 DEF ConnTypeOK
<1>3. ASSUME NEW c \in Conns, DialUpstream(c) PROVE ConnTypeOK'
  <2>1. conn[c] \in [pc: {"dialing"}, user: UserIds, instance: InstanceIds, target: Instance]
    BY <1>3 DEF DialUpstream, ConnTypeOK, Connection, Closed
  <2>2. [conn[c] EXCEPT !.pc = "serving", !.target = None]
          \in [pc: {"serving"}, user: UserIds, instance: InstanceIds, target: {None}]
    BY <2>1
  <2>3. [conn[c] EXCEPT !.pc = "serving", !.target = None] \in Connection
    BY <2>2 DEF Connection
  <2>. QED BY <1>3, <2>3 DEF DialUpstream, ConnTypeOK
<1>4. ASSUME NEW c \in Conns, CloseConn(c) PROVE ConnTypeOK'
  BY <1>4 DEF CloseConn, ConnTypeOK, Connection
<1>. QED BY <1>1, <1>2, <1>3, <1>4
         DEF ProxyNext, Authenticate, LookupTarget, DialUpstream, CloseConn

(* The types: initially and over every step.                               *)
LEMMA TypeInit == Init => TypeOK
<1>1. Init => StoreTypeOK
  BY SeedIsDatabase DEF Init, StoreInit, StoreTypeOK
<1>2. Init => RequestTypeOK /\ PendingTypeOK /\ ConnTypeOK
  BY DEF Init, RequestInit, PendingInit, ConnInit, RequestTypeOK, PendingTypeOK, ConnTypeOK,
         Request, Connection
<1>. QED BY <1>1, <1>2 DEF TypeOK

LEMMA TypeStep ==
  ASSUME TypeOK, [Next]_vars
  PROVE  TypeOK'
<1>. USE DEF TypeOK, ConsoleTypeOK
<1>1. CASE ConsoleNext /\ UNCHANGED <<pending, conn>>
  <2>1. ConsoleTypeOK'
    BY <1>1, MiddlewareType, AccountsType, InstancesType DEF ConsoleNext
  <2>. QED BY <1>1, <2>1 DEF PendingTypeOK, ConnTypeOK
<1>2. CASE LoginNext /\ UNCHANGED conn
  BY <1>2, LoginType DEF ConnTypeOK
<1>3. CASE ProxyNext /\ UNCHANGED <<req, pending>>
  BY <1>3, ProxyType DEF StoreTypeOK, RequestTypeOK, PendingTypeOK, storeVars
<1>4. CASE Crash
  BY <1>4 DEF Crash, storeVars, StoreTypeOK, RequestTypeOK, PendingTypeOK, ConnTypeOK,
              Request, Connection
<1>5. CASE UNCHANGED vars
  BY <1>5 DEF vars, storeVars, StoreTypeOK, RequestTypeOK, PendingTypeOK, ConnTypeOK
<1>. QED BY <1>1, <1>2, <1>3, <1>4, <1>5 DEF Next

(* The tables, requests, states and connections hold what their types say, *)
(* for any number of users, requests and connections.                      *)
THEOREM TypeCorrect == Spec => []TypeOK
  BY TypeInit, TypeStep, PTL DEF Spec

----------------------------------------------------------------------------
(* Assignments: over every step.                                           *)
LEMMA AssignmentsStep ==
  ASSUME TypeOK, AssignmentsReferential, [Next]_vars
  PROVE  AssignmentsReferential'
<1>1. ConsoleTypeOK /\ AssignedExist
  BY DEF TypeOK, ConsoleTypeOK, AssignedExist, AssignmentsReferential
<1>2. AssignedExist' => AssignmentsReferential'
  BY DEF AssignedExist, AssignmentsReferential
<1>3. CASE ConsoleNext
  BY <1>1, <1>2, <1>3, MiddlewareKeepsAssigned, AccountsKeepAssigned, InstancesKeepAssigned
     DEF ConsoleNext
<1>4. CASE LoginNext
  BY <1>1, <1>2, <1>4, LoginKeepsAssigned
<1>5. CASE UNCHANGED storeVars
  BY <1>5 DEF storeVars, AssignmentsReferential, Referential
<1>6. ProxyNext \/ Crash \/ UNCHANGED vars => UNCHANGED storeVars
  BY ProxyType DEF TypeOK, Crash, vars
<1>. QED BY <1>3, <1>4, <1>5, <1>6 DEF Next

(* However administrators' requests interleave, and wherever the process   *)
(* crashes, an assignment names an instance and a user that exist, though  *)
(* the database enforces no foreign key.                                   *)
THEOREM AssignmentsAlwaysReferential == Spec => []AssignmentsReferential
<1>1. Init => AssignmentsReferential
  BY SeedIsConsistent DEF Init, StoreInit, AssignmentsReferential
<1>. QED BY <1>1, TypeInit, TypeStep, AssignmentsStep, PTL DEF Spec

----------------------------------------------------------------------------
(* No request that was not about to save an instance begins to be: what    *)
(* CredentialsKept says of requests is disturbed by Instances only.        *)
NoNewSave == \A r \in Requests : req'[r].pc = "saveInstance" => req'[r] = req[r]

LEMMA ElsewhereQuiet ==
  ASSUME RequestTypeOK, NEW r \in Requests,
         \/ Respond(r)
         \/ \E pc \in {"loadUser", "user", "admin", "insertKey", "exchange", "findUser",
                       "createLogin"} \cup UserPCs \cup KeyPCs \cup TargetPCs :
              \E id, row : Continue(r, pc, id, row)
  PROVE  NoNewSave
  BY DEF RequestTypeOK, Respond, Continue, Idle, NoNewSave, UserPCs, KeyPCs, TargetPCs

(* Middleware, Accounts and Login leave the instances alone.               *)
LEMMA ElsewhereInstances ==
  ASSUME RequestTypeOK, MiddlewareNext \/ AccountsNext \/ LoginNext
  PROVE  UNCHANGED instances /\ NoNewSave
<1>1. CASE MiddlewareNext
  <2>1. ASSUME NEW r \in Requests, NEW s \in SessionIds, FindSession(r, s)
        PROVE  NoNewSave
    BY <2>1 DEF FindSession, NoNewSave, RequestTypeOK
  <2>2. ASSUME NEW r \in Requests, NEW route \in {"user", "admin"}, Admit(r, route)
        PROVE  NoNewSave
    BY <2>2, ElsewhereQuiet DEF Admit
  <2>3. ASSUME NEW r \in Requests, Fail(r) \/ Logout(r)
        PROVE  NoNewSave
    BY <2>3, ElsewhereQuiet DEF Fail, Logout
  <2>4. ASSUME NEW s \in SessionIds, ExpireSession(s)
        PROVE  NoNewSave
    BY <2>4 DEF ExpireSession, NoNewSave
  <2>5. UNCHANGED instances
    BY <1>1 DEF MiddlewareNext, FindSession, Admit, Fail, Logout, ExpireSession, storeVars
  <2>. QED BY <1>1, <2>1, <2>2, <2>3, <2>4, <2>5 DEF MiddlewareNext
<1>2. CASE AccountsNext
  <2>1. PICK r \in Requests :
          \/ Respond(r)
          \/ \E pc \in {"insertKey"} \cup UserPCs \cup KeyPCs \cup TargetPCs :
               \E id, row : Continue(r, pc, id, row)
    BY <1>2 DEF AccountsNext, CreateUser, UpdateUserRead, UpdateUserSave, UpdateUserMissed,
                UpdateUserUpsert, DeleteUserFind, DeleteUser, CreateUserSSHKeyFind,
                CreateUserSSHKey, DeleteUserSSHKeyFind, CreateSSHKey, DeleteUserSSHKey,
                DeleteSSHKey, UpdateSSHKeyRead, UpdateSSHKeySave, UpdateSSHKeyMissed,
                UpdateSSHKeyUpsert, UserPCs, KeyPCs, TargetPCs
  <2>2. UNCHANGED instances
    BY <1>2 DEF AccountsNext, CreateUser, UpdateUserRead, UpdateUserSave, UpdateUserMissed,
                UpdateUserUpsert, DeleteUserFind, DeleteUser, CreateUserSSHKeyFind,
                CreateUserSSHKey, DeleteUserSSHKeyFind, CreateSSHKey, DeleteUserSSHKey,
                DeleteSSHKey, UpdateSSHKeyRead, UpdateSSHKeySave, UpdateSSHKeyMissed,
                UpdateSSHKeyUpsert, storeVars
  <2>. QED BY <2>1, <2>2, ElsewhereQuiet
<1>3. CASE LoginNext
  <2>1. \/ UNCHANGED req
        \/ \E r \in Requests :
             \/ Respond(r)
             \/ \E pc \in {"exchange", "findUser", "createLogin"} \cup UserPCs \cup TargetPCs :
                  \E id, row : Continue(r, pc, id, row)
    BY <1>3 DEF LoginNext, BeginLogin, ExpireState, CallbackExpired, Cleanup, Callback, Exchange,
                FindUserForLogin, LoginCreate, LoginSave, LoginMissed, LoginUpsert,
                CreateSession, SignIn, UserPCs, TargetPCs
  <2>2. UNCHANGED instances
    BY <1>3 DEF LoginNext, BeginLogin, ExpireState, CallbackExpired, Cleanup, Callback, Exchange,
                FindUserForLogin, LoginCreate, LoginSave, LoginMissed, LoginUpsert,
                CreateSession, storeVars
  <2>. QED BY <2>1, <2>2, ElsewhereQuiet DEF NoNewSave
<1>. QED BY <1>1, <1>2, <1>3

(* Credentials: initially and over every step.                             *)
LEMMA CredentialsInit == Init => CredentialsKept /\ TargetsMatch
  BY SeedIsConsistent
     DEF Init, StoreInit, RequestInit, ConnInit, CredentialsKept, TargetsMatch, Idle, Closed

LEMMA CredentialsStep ==
  ASSUME TypeOK, CredentialsKept, [Next]_vars
  PROVE  CredentialsKept'
<1>1. CASE InstancesNext
  BY <1>1, InstancesKeepCredentials DEF TypeOK, ConsoleTypeOK
<1>2. CASE MiddlewareNext \/ AccountsNext \/ LoginNext
  <2>1. UNCHANGED instances /\ NoNewSave
    BY <1>2, ElsewhereInstances DEF TypeOK
  <2>. QED BY <2>1 DEF CredentialsKept, NoNewSave
<1>3. CASE UNCHANGED <<instances, req>>
  BY <1>3 DEF CredentialsKept
<1>4. CASE Crash
  BY <1>4 DEF Crash, CredentialsKept, Idle, storeVars
<1>5. ProxyNext => UNCHANGED instances
  BY ProxyType DEF TypeOK, storeVars
<1>. QED BY <1>1, <1>2, <1>3, <1>4, <1>5 DEF Next, ConsoleNext, vars, storeVars

(* What a connection copies is in order because the table is.              *)
LEMMA TargetsStep ==
  ASSUME TypeOK, CredentialsKept, TargetsMatch, [Next]_vars
  PROVE  TargetsMatch'
<1>1. ASSUME NEW c \in Conns, NEW slug \in Slugs, LookupTarget(c, slug) PROVE TargetsMatch'
  <2>1. PICK i \in InstanceIds :
          /\ instances[i] # None
          /\ conn' = [conn EXCEPT ![c] = [pc |-> "dialing", user |-> @.user,
                                          instance |-> i, target |-> instances[i]]]
    BY <1>1 DEF LookupTarget, Targets
  <2>2. CredentialsMatch(instances[i])
    BY <2>1 DEF CredentialsKept
  <2>. QED BY <2>1, <2>2 DEF TargetsMatch, TypeOK, ConnTypeOK
<1>2. ASSUME NEW c \in Conns, NEW k \in KeyIds, Authenticate(c, k) PROVE TargetsMatch'
  BY <1>2 DEF Authenticate, TargetsMatch, TypeOK, ConnTypeOK
<1>3. ASSUME NEW c \in Conns, DialUpstream(c) PROVE TargetsMatch'
  BY <1>3 DEF DialUpstream, TargetsMatch, TypeOK, ConnTypeOK
<1>4. ASSUME NEW c \in Conns, CloseConn(c) PROVE TargetsMatch'
  BY <1>4 DEF CloseConn, Closed, TargetsMatch, TypeOK, ConnTypeOK
<1>5. CASE Crash
  BY <1>5 DEF Crash, TargetsMatch, Closed
<1>6. CASE UNCHANGED conn
  BY <1>6 DEF TargetsMatch
<1>. QED BY <1>1, <1>2, <1>3, <1>4, <1>5, <1>6 DEF Next, ProxyNext, vars

(* An instance always holds the secret of its own method and no other,     *)
(* whatever copies overlapping updates save, and whenever the process is   *)
(* restarted.                                                              *)
THEOREM CredentialsAlwaysKept == Spec => []CredentialsKept
  BY TypeInit, TypeStep, CredentialsInit, CredentialsStep, PTL DEF Spec

(* dialUpstream has no reason to return early but a pasted key: whatever   *)
(* was pasted and overwritten, whichever copy it dials with.               *)
THEOREM OnlyPastedKeysEverFail == Spec => []OnlyPastedKeysFail
<1>1. TypeOK /\ TargetsMatch => OnlyPastedKeysFail
  <2>1. ASSUME TypeOK, NEW c \in Conns, conn[c].pc = "dialing", CredentialsMatch(conn[c].target),
               ~HasAuthMethod(conn[c].target)
        PROVE  <<conn[c].target.key, conn[c].target.passphrase>> \in Pasted
    <3>1. conn[c].target.method \in AuthMethods
      BY <2>1, ConnShape DEF TypeOK, Instance
    <3>. QED BY <2>1, <3>1, GeneratedAreReadable DEF HasAuthMethod, CredentialsMatch, AuthMethods
  <2>. QED BY <2>1 DEF TargetsMatch, OnlyPastedKeysFail
<1>. QED BY <1>1, TypeInit, TypeStep, CredentialsInit, CredentialsStep, TargetsStep, PTL DEF Spec

----------------------------------------------------------------------------
(* A user who is gone has no assignment: no connection reaches "dialing"   *)
(* for such a user, though lookupTarget does not look at the users.        *)
THEOREM DeletedUsersAreNotDialled == Spec => NoDialForDeletedUser
<1>1. ASSUME TypeOK, AssignmentsReferential, [Next]_vars, NEW c \in Conns,
             conn[c].pc = "authenticated", conn'[c].pc = "dialing"
      PROVE  users[conn[c].user] # None
  <2>1. ASSUME NEW d \in Conns, NEW slug \in Slugs, LookupTarget(d, slug)
        PROVE  users[conn[c].user] # None
    <3>1. c = d
      BY <1>1, <2>1 DEF LookupTarget, Targets, TypeOK, ConnTypeOK
    <3>2. PICK i \in InstanceIds : <<i, conn[c].user>> \in assigned
      BY <2>1, <3>1 DEF LookupTarget, Targets
    <3>. QED BY <1>1, <3>2 DEF AssignmentsReferential, Referential
  <2>2. ASSUME NEW d \in Conns, NEW k \in KeyIds, Authenticate(d, k) PROVE FALSE
    BY <1>1, <2>2 DEF Authenticate, TypeOK, ConnTypeOK
  <2>3. ASSUME NEW d \in Conns, DialUpstream(d) PROVE FALSE
    BY <1>1, <2>3 DEF DialUpstream, TypeOK, ConnTypeOK
  <2>4. ASSUME NEW d \in Conns, CloseConn(d) PROVE FALSE
    BY <1>1, <2>4 DEF CloseConn, Closed, TypeOK, ConnTypeOK
  <2>5. ~UNCHANGED conn /\ ~Crash
    BY <1>1 DEF Crash, Closed
  <2>. QED BY <1>1, <2>1, <2>2, <2>3, <2>4, <2>5 DEF Next, ProxyNext, vars
<1>2. TypeOK /\ AssignmentsReferential /\ [Next]_vars =>
        [\A c \in Conns : conn[c].pc = "authenticated" /\ conn'[c].pc = "dialing"
                            => users[conn[c].user] # None]_vars
  BY <1>1
<1>3. Init => AssignmentsReferential
  BY SeedIsConsistent DEF Init, StoreInit, AssignmentsReferential
<1>. QED BY <1>2, <1>3, TypeInit, TypeStep, AssignmentsStep, PTL DEF Spec, NoDialForDeletedUser

(* A step adds assignments or users, never both.                           *)
LEMMA OneTableGrows ==
  ASSUME TypeOK, [Next]_vars
  PROVE  UNCHANGED users \/ assigned' \subseteq assigned
<1>1. CASE InstancesNext
  BY <1>1 DEF InstancesNext, CreateInstance, UpdateInstanceRead, UpdateInstanceSave,
              DeleteInstanceFind, DeleteInstance, storeVars
<1>2. CASE MiddlewareNext
  BY <1>2 DEF MiddlewareNext, FindSession, Admit, Fail, Logout, ExpireSession, storeVars
<1>3. CASE AccountsNext
  BY <1>3 DEF AccountsNext, CreateUser, UpdateUserRead, UpdateUserSave, UpdateUserMissed,
              UpdateUserUpsert, DeleteUserFind, DeleteUser, CreateUserSSHKeyFind,
              CreateUserSSHKey, DeleteUserSSHKeyFind, CreateSSHKey, DeleteUserSSHKey,
              DeleteSSHKey, UpdateSSHKeyRead, UpdateSSHKeySave, UpdateSSHKeyMissed,
              UpdateSSHKeyUpsert, storeVars
<1>4. CASE LoginNext
  BY <1>4 DEF LoginNext, BeginLogin, ExpireState, CallbackExpired, Cleanup, Callback, Exchange,
              FindUserForLogin, LoginCreate, LoginSave, LoginMissed, LoginUpsert,
              CreateSession, storeVars
<1>5. CASE UNCHANGED storeVars
  BY <1>5 DEF storeVars
<1>6. ProxyNext \/ Crash \/ UNCHANGED vars => UNCHANGED storeVars
  BY ProxyType DEF TypeOK, Crash, vars
<1>. QED BY <1>1, <1>2, <1>3, <1>4, <1>5, <1>6 DEF Next, ConsoleNext

(* A user who appears, new or brought back by a stale Save, has no access. *)
THEOREM AppearingUsersHaveNoAccess == Spec => AppearingUsersAreUnassigned
<1>1. ASSUME TypeOK, AssignmentsReferential, [Next]_vars,
             NEW u \in UserIds, users[u] = None, users'[u] # None, NEW a \in assigned'
      PROVE  a[2] # u
  BY <1>1, OneTableGrows DEF AssignmentsReferential, Referential
<1>2. TypeOK /\ AssignmentsReferential /\ [Next]_vars =>
        [\A u \in UserIds : users[u] = None /\ users'[u] # None
                              => \A a \in assigned' : a[2] # u]_vars
  BY <1>1
<1>3. Init => AssignmentsReferential
  BY SeedIsConsistent DEF Init, StoreInit, AssignmentsReferential
<1>. QED BY <1>2, <1>3, TypeInit, TypeStep, AssignmentsStep, PTL
         DEF Spec, AppearingUsersAreUnassigned

----------------------------------------------------------------------------
(* A write that passes the unique indexes leaves every person one row.     *)
LEMMA WritesKeepDistinct ==
  ASSUME StoreTypeOK, OnePersonOneUser, NEW row \in User,
         InsertUser(row) \/ \E id \in UserIds : UpdateUserRow(id, row) \/ UpsertUserRow(id, row)
  PROVE  OnePersonOneUser'
<1>. DEFINE Writes(id, new) ==
       /\ users' = [users EXCEPT ![id] = new]
       /\ new.email = row.email /\ new.subject = row.subject
       /\ \A v \in UserIds \ {id} : users[v] # None =>
            users[v].email # row.email /\ users[v].subject # row.subject
<1>1. CreatedUser(row).email = row.email /\ CreatedUser(row).subject = row.subject
  BY DEF CreatedUser, User
<1>2. CASE InsertUser(row)
  <2>1. \A v \in UserIds : users[v] # None =>
          users[v].email # row.email /\ users[v].subject # row.subject
    BY <1>2 DEF InsertUser, UserTaken, UserIds
  <2>. QED BY <1>1, <1>2, <2>1 DEF InsertUser, OnePersonOneUser, Distinct, StoreTypeOK
<1>3. ASSUME NEW id \in UserIds, UpdateUserRow(id, row) \/ UpsertUserRow(id, row)
      PROVE  OnePersonOneUser'
  <2>1. Writes(id, row) \/ Writes(id, CreatedUser(row))
    BY <1>1, <1>3 DEF UpdateUserRow, UpsertUserRow, UserTaken
  <2>. QED BY <2>1 DEF OnePersonOneUser, Distinct, StoreTypeOK
<1>. QED BY <1>2, <1>3

(* Distinct rows: over every step.                                         *)
LEMMA DistinctStep ==
  ASSUME TypeOK, OnePersonOneUser, [Next]_vars
  PROVE  OnePersonOneUser'
<1>. USE DEF TypeOK
<1>1. CASE AccountsNext
  <2>1. CASE \E r \in Requests, email \in Emails, role \in Roles : CreateUser(r, email, role)
    <3>1. PICK email \in Emails, role \in Roles, active \in BOOLEAN :
            InsertUser([email |-> email, role |-> role, active |-> active, subject |-> None])
      BY <2>1 DEF CreateUser
    <3>2. [email |-> email, role |-> role, active |-> active, subject |-> None] \in User
      BY DEF User
    <3>. QED BY <3>1, <3>2, WritesKeepDistinct
  <2>2. CASE \E r \in Requests : UpdateUserSave(r) \/ UpdateUserUpsert(r)
    BY <2>2, UserShape, WritesKeepDistinct DEF UpdateUserSave, UpdateUserUpsert, UserPCs
  <2>3. CASE \E r \in Requests : DeleteUser(r)
    BY <2>3 DEF DeleteUser, OnePersonOneUser, Distinct, StoreTypeOK
  <2>4. CASE UNCHANGED users
    BY <2>4 DEF OnePersonOneUser, Distinct
  <2>. QED BY <1>1, <2>1, <2>2, <2>3, <2>4, ZenonT(60)
           DEF AccountsNext, UpdateUserRead, UpdateUserMissed, DeleteUserFind,
               CreateUserSSHKeyFind, CreateUserSSHKey, DeleteUserSSHKeyFind, CreateSSHKey,
               DeleteUserSSHKey, DeleteSSHKey, UpdateSSHKeyRead, UpdateSSHKeySave,
               UpdateSSHKeyMissed, UpdateSSHKeyUpsert, storeVars
<1>2. CASE LoginNext
  <2>1. CASE \E r \in Requests : LoginCreate(r)
    BY <2>1, CallbackShape, WritesKeepDistinct DEF LoginCreate
  <2>2. CASE \E r \in Requests : LoginSave(r) \/ LoginUpsert(r)
    BY <2>2, UserShape, WritesKeepDistinct DEF LoginSave, LoginUpsert, UserPCs
  <2>3. CASE UNCHANGED users
    BY <2>3 DEF OnePersonOneUser, Distinct
  <2>. QED BY <1>2, <2>1, <2>2, <2>3, ZenonT(60)
           DEF LoginNext, BeginLogin, ExpireState, CallbackExpired, Cleanup, Callback, Exchange,
               FindUserForLogin, LoginMissed, CreateSession, storeVars
<1>3. CASE MiddlewareNext \/ InstancesNext
  BY <1>3 DEF MiddlewareNext, FindSession, Admit, Fail, Logout, ExpireSession, InstancesNext,
              CreateInstance, UpdateInstanceRead, UpdateInstanceSave, DeleteInstanceFind,
              DeleteInstance, storeVars, OnePersonOneUser, Distinct
<1>4. ProxyNext \/ Crash \/ UNCHANGED vars => UNCHANGED users
  BY ProxyType DEF Crash, vars, storeVars
<1>. QED BY <1>1, <1>2, <1>3, <1>4 DEF Next, ConsoleNext, OnePersonOneUser, Distinct

(* However sign-ins and administrators race for an address or a subject,   *)
(* no two rows are one person's.                                           *)
THEOREM PeopleHaveOneUser == Spec => []OnePersonOneUser
<1>1. Init => OnePersonOneUser
  BY SeedIsConsistent DEF Init, StoreInit, OnePersonOneUser
<1>. QED BY <1>1, TypeInit, TypeStep, DistinctStep, PTL DEF Spec

----------------------------------------------------------------------------
(* Slugs: a write to the instances passes the unique index.                *)
LEMMA NamedStep ==
  ASSUME TypeOK, Named(instances), [Next]_vars
  PROVE  Named(instances)'
<1>. USE DEF TypeOK
<1>1. ASSUME NEW i \in InstanceIds, NEW row, NEW new,
             new.slug = row.slug, ~SlugTaken(i, row),
             instances' = [instances EXCEPT ![i] = new]
      PROVE  Named(instances)'
  BY <1>1 DEF Named, SlugTaken, StoreTypeOK
<1>2. ASSUME NEW r \in Requests, NEW body \in InstanceRequests,
             NEW ids \in SUBSET (0 .. MaxUsers), CreateInstance(r, body, ids)
      PROVE  Named(instances)'
  <2>. DEFINE i == lastId.instances + 1
  <2>0. PICK keyPair \in NewPairs(BlankInstance, body.auth) :
          LET row == ApplyInstanceRequest(BlankInstance, body, keyPair) IN
            ~SlugTaken(i, row) /\ instances' = [instances EXCEPT ![i] = CreatedInstance(row)]
    BY <1>2 DEF CreateInstance
  <2>. DEFINE row == ApplyInstanceRequest(BlankInstance, body, keyPair)
  <2>1. i \in InstanceIds
    BY <1>2, BoundsAreNaturals DEF CreateInstance, StoreTypeOK, InstanceIds
  <2>2. CreatedInstance(row).slug = row.slug
    BY CreatedType DEF CreatedInstance, Instance
  <2>3. ~SlugTaken(i, row) /\ instances' = [instances EXCEPT ![i] = CreatedInstance(row)]
    BY <2>0
  <2>. HIDE DEF row
  <2>. QED BY <1>1, <2>1, <2>2, <2>3
<1>3. ASSUME NEW r \in Requests, NEW ids \in SUBSET (0 .. MaxUsers), UpdateInstanceSave(r, ids)
      PROVE  Named(instances)'
  <2>. DEFINE i == req[r].id
              row == req[r].row
  <2>1. i \in InstanceIds /\ row \in Instance
    BY <1>3 DEF UpdateInstanceSave, RequestTypeOK, Request, Idle, TargetPCs, UserPCs, KeyPCs
  <2>2. CreatedInstance(row).slug = row.slug
    BY <2>1 DEF CreatedInstance, Instance
  <2>3. PICK new \in {row, CreatedInstance(row)} : instances' = [instances EXCEPT ![i] = new]
    BY <1>3 DEF UpdateInstanceSave
  <2>4. ~SlugTaken(i, row)
    BY <1>3 DEF UpdateInstanceSave
  <2>. QED BY <1>1, <2>1, <2>2, <2>3, <2>4
<1>4. ASSUME NEW r \in Requests, DeleteInstance(r) PROVE Named(instances)'
  BY <1>4 DEF DeleteInstance, Named, StoreTypeOK
<1>5. CASE UNCHANGED instances
  BY <1>5 DEF Named
<1>6. CASE InstancesNext
  BY <1>2, <1>3, <1>4, <1>5, <1>6
     DEF InstancesNext, UpdateInstanceRead, DeleteInstanceFind, storeVars
<1>7. MiddlewareNext \/ AccountsNext \/ LoginNext => UNCHANGED instances
  BY ElsewhereInstances
<1>8. ProxyNext \/ Crash \/ UNCHANGED vars => UNCHANGED instances
  BY ProxyType DEF Crash, vars, storeVars
<1>. QED BY <1>5, <1>6, <1>7, <1>8 DEF Next, ConsoleNext

(* What the console lists for a user is what the proxy finds by its slug.  *)
THEOREM ListedInstancesAlwaysConnect == Spec => []ListedInstancesConnect
<1>1. Init => Named(instances)
  BY SeedIsConsistent DEF Init, StoreInit
<1>2. Named(instances) => ListedInstancesConnect
  BY DEF Named, ListedInstancesConnect, Listed, Targets
<1>. QED BY <1>1, <1>2, TypeInit, TypeStep, NamedStep, PTL DEF Spec
=============================================================================
