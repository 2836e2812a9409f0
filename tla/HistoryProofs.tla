--------------------------- MODULE HistoryProofs ---------------------------
(***************************************************************************)
(* What holds of the backend because of its past: how many login states    *)
(* were used up, which ids were ever handed out and to whom.               *)
(***************************************************************************)
EXTENDS ReverseProxyProofs, FiniteSetTheorems

(* The two sets that OneSessionPerState counts.                            *)
InFlight == {r \in Requests : req[r].pc \in LoginPCs}
Popped == {s \in StateIds : pending[s] = "gone"}

LEMMA CountsAreNumbers ==
  ASSUME TypeOK
  PROVE  /\ IsFiniteSet(InFlight) /\ Cardinality(InFlight) \in Nat
         /\ IsFiniteSet(Popped) /\ Cardinality(Popped) \in Nat
         /\ lastId.sessions \in Nat /\ Seed.lastId.sessions \in Nat
<1>1. IsFiniteSet(StateIds)
  BY LoginsAreFinite, FS_Interval DEF StateIds
<1>2. IsFiniteSet(InFlight) /\ IsFiniteSet(Popped)
  BY <1>1, LoginsAreFinite, FS_Subset DEF InFlight, Popped
<1>3. lastId.sessions \in Nat /\ Seed.lastId.sessions \in Nat
  BY SeedIsDatabase, BoundsAreNaturals DEF TypeOK, StoreTypeOK
<1>. QED BY <1>2, <1>3, FS_CardinalityType

(* Sign-ins may end, and states be popped, without a session.              *)
LEMMA BudgetKept ==
  ASSUME TypeOK, OneSessionPerState, lastId'.sessions = lastId.sessions,
         InFlight' \subseteq InFlight, Popped \subseteq Popped'
  PROVE  OneSessionPerState'
<1>1. /\ IsFiniteSet(InFlight') /\ Cardinality(InFlight') <= Cardinality(InFlight)
      /\ IsFiniteSet(Popped') /\ Cardinality(Popped) <= Cardinality(Popped')
  <2>1. IsFiniteSet(Popped')
    BY LoginsAreFinite, FS_Interval, FS_Subset DEF Popped, StateIds
  <2>. QED BY <2>1, CountsAreNumbers, FS_Subset
<1>2. Cardinality(InFlight') \in Nat /\ Cardinality(Popped') \in Nat
  BY <1>1, FS_CardinalityType
<1>. QED BY <1>1, <1>2, CountsAreNumbers DEF OneSessionPerState, InFlight, Popped

(* A handler starts no sign-in.                                            *)
LEMMA HandlersStartNoLogin ==
  ASSUME RequestTypeOK, NEW r \in Requests,
         \/ Respond(r)
         \/ \E pc \in {"user", "admin", "insertKey", "saveUser", "upsertUser", "deleteUser", "deleteKey",
                      "saveInstance", "deleteInstance"} \cup KeyPCs :
              \E id, row : Continue(r, pc, id, row)
         \/ req[r].pc \in LoginPCs /\ \E pc, id, row : Continue(r, pc, id, row)
  PROVE  InFlight' \subseteq InFlight
  BY DEF InFlight, LoginPCs, RequestTypeOK, Respond, Continue, Idle, KeyPCs

(* The handlers that are not about signing in create no session.           *)
LEMMA ConsoleKeepsBudget ==
  ASSUME TypeOK, ConsoleNext
  PROVE  InFlight' \subseteq InFlight /\ lastId'.sessions = lastId.sessions
<1>. USE DEF TypeOK
<1>1. CASE MiddlewareNext
  <2>1. ASSUME NEW r \in Requests, NEW s \in SessionIds, FindSession(r, s)
        PROVE  InFlight' \subseteq InFlight
    BY <2>1 DEF FindSession, InFlight, LoginPCs, RequestTypeOK
  <2>2. ASSUME NEW r \in Requests, \/ \E route \in {"user", "admin"} : Admit(r, route)
                                   \/ Fail(r) \/ Logout(r)
        PROVE  InFlight' \subseteq InFlight
    BY <2>2, HandlersStartNoLogin DEF Admit, Fail, Logout
  <2>3. ASSUME NEW s \in SessionIds, ExpireSession(s)
        PROVE  InFlight' \subseteq InFlight
    BY <2>3 DEF ExpireSession, InFlight
  <2>4. lastId' = lastId
    BY <1>1 DEF MiddlewareNext, FindSession, Admit, Fail, Logout, ExpireSession, storeVars
  <2>. QED BY <1>1, <2>1, <2>2, <2>3, <2>4 DEF MiddlewareNext
<1>2. CASE AccountsNext
  <2>1. PICK r \in Requests :
          \/ Respond(r)
          \/ \E pc \in {"insertKey", "saveUser", "upsertUser", "deleteUser", "deleteKey"} \cup KeyPCs :
               \E id, row : Continue(r, pc, id, row)
    BY <1>2 DEF AccountsNext, CreateUser, UpdateUserRead, UpdateUserSave, UpdateUserMissed,
                UpdateUserUpsert, DeleteUserFind, DeleteUser, CreateUserSSHKeyFind,
                CreateUserSSHKey, DeleteUserSSHKeyFind, CreateSSHKey, DeleteUserSSHKey,
                DeleteSSHKey, UpdateSSHKeyRead, UpdateSSHKeySave, UpdateSSHKeyMissed,
                UpdateSSHKeyUpsert, KeyPCs
  <2>2. lastId'.sessions = lastId.sessions
    BY <1>2 DEF AccountsNext, CreateUser, UpdateUserRead, UpdateUserSave, UpdateUserMissed,
                UpdateUserUpsert, DeleteUserFind, DeleteUser, CreateUserSSHKeyFind,
                CreateUserSSHKey, DeleteUserSSHKeyFind, CreateSSHKey, DeleteUserSSHKey,
                DeleteSSHKey, UpdateSSHKeyRead, UpdateSSHKeySave, UpdateSSHKeyMissed,
                UpdateSSHKeyUpsert, storeVars, InsertUser, InsertKey, StoreTypeOK
  <2>. QED BY <2>1, <2>2, HandlersStartNoLogin
<1>3. CASE InstancesNext
  <2>1. PICK r \in Requests :
          \/ Respond(r)
          \/ \E pc \in {"saveInstance", "deleteInstance"} : \E id, row : Continue(r, pc, id, row)
    BY <1>3 DEF InstancesNext, CreateInstance, UpdateInstanceRead, UpdateInstanceSave,
                DeleteInstanceFind, DeleteInstance
  <2>2. lastId'.sessions = lastId.sessions
    BY <1>3 DEF InstancesNext, CreateInstance, UpdateInstanceRead, UpdateInstanceSave,
                DeleteInstanceFind, DeleteInstance, storeVars, StoreTypeOK
  <2>. QED BY <2>1, <2>2, HandlersStartNoLogin
<1>. QED BY <1>1, <1>2, <1>3 DEF ConsoleNext

(* A callback uses up the state that pays for it.                          *)
LEMMA CallbackKeepsBudget ==
  ASSUME TypeOK, OneSessionPerState, NEW r \in Requests, NEW s \in StateIds, Callback(r, s)
  PROVE  OneSessionPerState'
<1>1. InFlight' = InFlight \cup {r} /\ r \notin InFlight
  BY DEF Callback, Continue, InFlight, LoginPCs, Idle, TypeOK, RequestTypeOK
<1>2. Popped' = Popped \cup {s} /\ s \notin Popped
  BY DEF Callback, Popped, TypeOK, PendingTypeOK
<1>3. /\ Cardinality(InFlight') = Cardinality(InFlight) + 1
      /\ Cardinality(Popped') = Cardinality(Popped) + 1
  BY <1>1, <1>2, CountsAreNumbers, FS_AddElement
<1>4. lastId' = lastId
  BY DEF Callback, storeVars
<1>. QED BY <1>3, <1>4, CountsAreNumbers DEF OneSessionPerState, InFlight, Popped

(* A session is what becomes of a sign-in, which ends with it.             *)
LEMMA SessionKeepsBudget ==
  ASSUME TypeOK, OneSessionPerState, NEW r \in Requests, CreateSession(r)
  PROVE  OneSessionPerState'
<1>1. InFlight' = InFlight \ {r} /\ r \in InFlight
  BY DEF CreateSession, Respond, InFlight, LoginPCs, Idle, TypeOK, RequestTypeOK
<1>2. Popped' = Popped
  BY DEF CreateSession, Popped
<1>3. /\ Cardinality(InFlight') = Cardinality(InFlight) - 1
      /\ Cardinality(Popped') = Cardinality(Popped)
  BY <1>1, <1>2, CountsAreNumbers, FS_RemoveElement
<1>4. lastId'.sessions = lastId.sessions + 1
  BY DEF CreateSession, TypeOK, StoreTypeOK
<1>. QED BY <1>3, <1>4, CountsAreNumbers DEF OneSessionPerState, InFlight, Popped

(* Sign-ins: over every step.                                              *)
LEMMA BudgetStep ==
  ASSUME TypeOK, OneSessionPerState, [Next]_vars
  PROVE  OneSessionPerState'
<1>1. CASE ConsoleNext /\ UNCHANGED <<pending, conn>>
  <2>1. Popped' = Popped
    BY <1>1 DEF Popped
  <2>. QED BY <1>1, <2>1, ConsoleKeepsBudget, BudgetKept
<1>2. CASE LoginNext
  <2>1. ASSUME NEW r \in Requests, NEW s \in StateIds, Callback(r, s) PROVE OneSessionPerState'
    BY <2>1, CallbackKeepsBudget
  <2>2. ASSUME NEW r \in Requests, CreateSession(r) PROVE OneSessionPerState'
    BY <2>2, SessionKeepsBudget
  <2>3. CASE \/ \E s \in StateIds : BeginLogin(s) \/ ExpireState(s) \/ CallbackExpired(s)
             \/ Cleanup
    <3>1. Popped \subseteq Popped'
      BY <2>3 DEF BeginLogin, ExpireState, CallbackExpired, Cleanup, Popped, TypeOK, PendingTypeOK
    <3>2. lastId' = lastId /\ InFlight' = InFlight
      BY <2>3 DEF BeginLogin, ExpireState, CallbackExpired, Cleanup, storeVars, InFlight
    <3>. QED BY <3>1, <3>2, BudgetKept
  <2>4. ASSUME NEW r \in Requests,
               \/ \E claims \in Claims, nonce \in StateIds \cup {None} : Exchange(r, claims, nonce)
               \/ FindUserForLogin(r)
               \/ LoginCreate(r) \/ LoginSave(r) \/ LoginMissed(r) \/ LoginUpsert(r)
        PROVE  OneSessionPerState'
    <3>1. /\ req[r].pc \in LoginPCs
          /\ Respond(r) \/ \E pc, id, row : Continue(r, pc, id, row)
      BY <2>4 DEF Exchange, FindUserForLogin, LoginCreate, LoginSave, LoginMissed, LoginUpsert,
                  SignIn, LoginPCs
    <3>2. InFlight' \subseteq InFlight
      BY <3>1, HandlersStartNoLogin DEF TypeOK
    <3>3. pending' = pending /\ lastId'.sessions = lastId.sessions
      BY <2>4 DEF Exchange, FindUserForLogin, LoginCreate, LoginSave, LoginMissed, LoginUpsert,
                  InsertUser, storeVars, TypeOK, StoreTypeOK
    <3>. QED BY <3>2, <3>3, BudgetKept DEF Popped
  <2>. QED BY <1>2, <2>1, <2>2, <2>3, <2>4 DEF LoginNext
<1>3. CASE Crash
  <2>1. InFlight' \subseteq InFlight
    BY <1>3 DEF Crash, InFlight, Idle, LoginPCs
  <2>2. Popped \subseteq Popped'
    BY <1>3 DEF Crash, Popped
  <2>. QED BY <1>3, <2>1, <2>2, BudgetKept DEF Crash, storeVars
<1>4. ASSUME UNCHANGED <<storeVars, req, pending>> PROVE OneSessionPerState'
  BY <1>4 DEF storeVars, OneSessionPerState
<1>5. CASE ProxyNext /\ UNCHANGED <<req, pending>>
  BY <1>4, <1>5, ProxyType DEF TypeOK
<1>. QED BY <1>1, <1>2, <1>3, <1>4, <1>5 DEF Next, vars

(* Sessions and sign-ins under way are never more than the states that     *)
(* were popped: HandleCallback pops before anything else, and a crash      *)
(* loses the sign-in together with its state.                              *)
THEOREM EveryStateOpensOneSession == Spec => []OneSessionPerState
<1>1. Init => OneSessionPerState
  <2>. SUFFICES ASSUME Init PROVE OneSessionPerState
    OBVIOUS
  <2>1. InFlight = {} /\ lastId.sessions = Seed.lastId.sessions
    BY DEF Init, StoreInit, RequestInit, InFlight, Idle, LoginPCs
  <2>2. TypeOK
    BY TypeInit
  <2>. QED BY <2>1, <2>2, CountsAreNumbers, FS_EmptySet DEF OneSessionPerState, InFlight, Popped
<1>. QED BY <1>1, TypeInit, TypeStep, BudgetStep, PTL DEF Spec

----------------------------------------------------------------------------
(* Ids: every id that a row names was handed out by its table's counter.   *)
IdsIssued ==
  /\ \A u \in UserIds : users[u] # None => u <= lastId.users
  /\ \A k \in KeyIds : keys[k] # None => k <= lastId.keys /\ keys[k].owner <= lastId.users
  /\ \A s \in SessionIds : sessions[s] # None => sessions[s].user <= lastId.users

(* So was every id that a request holds; and one that is about to save a   *)
(* key saves it for its owner, be it the user that it acts for or not.     *)
Sound(q) ==
  /\ q.actor <= lastId.users
  /\ q.pc \in UserPCs \cup {"createSession"} => q.id <= lastId.users
  /\ q.pc = "insertKey" => q.row.owner <= lastId.users
  /\ q.pc \in KeyPCs =>
       /\ q.id <= lastId.keys /\ q.row.owner <= lastId.users
       /\ keys[q.id] # None => keys[q.id].owner = q.row.owner

(* Copies of one key, even of one that is gone by now, have one owner.     *)
Agree(p, q) ==
  p.pc \in KeyPCs /\ q.pc \in KeyPCs /\ p.id = q.id => p.row.owner = q.row.owner

OwnershipInv ==
  /\ IdsIssued
  /\ \A r \in Requests : Sound(req[r])
  /\ \A q, r \in Requests : Agree(req[q], req[r])

(* The other requests wait, counters only go up, and a key that is there   *)
(* keeps its owner or is the one that the request saves.                   *)
OthersWait(r) == \A q \in Requests \ {r} : req'[q] = req[q]

CountersGrow ==
  /\ lastId'.users \in Nat /\ lastId.users <= lastId'.users
  /\ lastId'.keys \in Nat /\ lastId.keys <= lastId'.keys

KeysKeepOwners(r) ==
  \A k \in KeyIds : k <= lastId.keys /\ keys'[k] # None =>
    \/ keys[k] # None /\ keys'[k].owner = keys[k].owner
    \/ req[r].pc \in KeyPCs /\ req[r].id = k /\ keys'[k].owner = req[r].row.owner

(* Ids are numbers.                                                        *)
LEMMA CountersAreNumbers ==
  ASSUME TypeOK
  PROVE  lastId.users \in Nat /\ lastId.keys \in Nat
  BY BoundsAreNaturals DEF TypeOK, StoreTypeOK

LEMMA IdsAreNumbers ==
  ASSUME TypeOK, NEW r \in Requests
  PROVE  /\ req[r].actor \in Nat
         /\ req[r].pc \in UserPCs \cup {"createSession"} => req[r].id \in Nat
         /\ req[r].pc = "insertKey" => req[r].row.owner \in Nat
         /\ req[r].pc \in KeyPCs =>
              req[r].id \in KeyIds /\ req[r].row \in SSHKey /\ req[r].row.owner \in Nat
<1>1. UserIds \cup {0} \subseteq Nat
  BY DEF UserIds
<1>2. req[r].actor \in UserIds \cup {0}
  BY DEF TypeOK, RequestTypeOK, Request, Idle
<1>3. req[r].pc \in UserPCs \cup {"createSession"} => req[r].id \in Nat
  BY <1>1, UserShape, TargetShape DEF TypeOK, TargetPCs
<1>4. req[r].pc = "insertKey" => req[r].row.owner \in UserIds \cup {0}
  BY DEF TypeOK, RequestTypeOK, Request, Idle, UserPCs, KeyPCs, TargetPCs, SSHKey
<1>5. req[r].pc \in KeyPCs =>
        req[r].id \in KeyIds /\ req[r].row \in SSHKey /\ req[r].row.owner \in UserIds \cup {0}
  BY KeyShape DEF TypeOK, SSHKey
<1>6. \A n \in UserIds \cup {0} : n \in Nat
  BY <1>1
<1>. QED BY <1>2, <1>3, <1>4, <1>5, <1>6

(* A step of one request keeps the invariant if it keeps what is said of   *)
(* the tables and of that request.                                         *)
LEMMA OneRequestMoves ==
  ASSUME TypeOK, OwnershipInv, NEW r \in Requests,
         OthersWait(r), CountersGrow, KeysKeepOwners(r), IdsIssued', Sound(req[r])',
         \A q \in Requests \ {r} : Agree(req[q], req[r])'
  PROVE  OwnershipInv'
<1>1. ASSUME NEW q \in Requests, q # r PROVE Sound(req[q])'
  <2>1. req'[q] = req[q] /\ Sound(req[q]) /\ Agree(req[q], req[r])
    BY <1>1 DEF OthersWait, OwnershipInv
  <2>2. req[q].pc \in KeyPCs /\ keys'[req[q].id] # None => keys'[req[q].id].owner = req[q].row.owner
    <3>. SUFFICES ASSUME req[q].pc \in KeyPCs, keys'[req[q].id] # None
                  PROVE  keys'[req[q].id].owner = req[q].row.owner
      OBVIOUS
    <3>. DEFINE k == req[q].id
    <3>1. k \in KeyIds /\ k <= lastId.keys
      BY <2>1, IdsAreNumbers DEF Sound
    <3>2. CASE keys[k] # None /\ keys'[k].owner = keys[k].owner
      BY <2>1, <3>2 DEF Sound
    <3>3. CASE req[r].pc \in KeyPCs /\ req[r].id = k /\ keys'[k].owner = req[r].row.owner
      BY <2>1, <3>3 DEF Agree
    <3>. QED BY <3>1, <3>2, <3>3 DEF KeysKeepOwners
  <2>3. /\ req[q].actor <= lastId'.users
        /\ req[q].pc \in UserPCs \cup {"createSession"} => req[q].id <= lastId'.users
        /\ req[q].pc = "insertKey" => req[q].row.owner <= lastId'.users
    BY <2>1, IdsAreNumbers, CountersAreNumbers DEF Sound, CountersGrow
  <2>4. req[q].pc \in KeyPCs => req[q].id <= lastId'.keys /\ req[q].row.owner <= lastId'.users
    BY <2>1, IdsAreNumbers, CountersAreNumbers DEF Sound, CountersGrow, KeyIds
  <2>. QED BY <2>1, <2>2, <2>3, <2>4 DEF Sound
<1>2. ASSUME NEW p \in Requests, NEW q \in Requests PROVE Agree(req[p], req[q])'
  <2>1. CASE p # r /\ q # r
    BY <2>1 DEF OthersWait, OwnershipInv, Agree
  <2>2. CASE p = r \/ q = r
    BY <2>2 DEF Agree
  <2>. QED BY <2>1, <2>2
<1>. QED BY <1>1, <1>2 DEF OwnershipInv

(* So does the step that answers a request.                                *)
LEMMA OneRequestEnds ==
  ASSUME TypeOK, OwnershipInv, NEW r \in Requests,
         Respond(r), CountersGrow, KeysKeepOwners(r), IdsIssued'
  PROVE  OwnershipInv'
<1>1. req'[r] = Idle /\ OthersWait(r)
  BY DEF Respond, OthersWait, TypeOK, RequestTypeOK
<1>2. Sound(req[r])'
  BY <1>1 DEF Sound, Idle, UserPCs, KeyPCs, CountersGrow
<1>3. \A q \in Requests \ {r} : Agree(req[q], req[r])'
  BY <1>1 DEF Agree, Idle, KeyPCs
<1>. QED BY <1>1, <1>2, <1>3, OneRequestMoves

(* And one that goes on, with an id that was handed out.                   *)
LEMMA OneRequestGoesOn ==
  ASSUME TypeOK, OwnershipInv, NEW r \in Requests, NEW pc, NEW id, NEW row,
         Continue(r, pc, id, row), CountersGrow, KeysKeepOwners(r), IdsIssued',
         pc \notin KeyPCs,
         pc \in UserPCs \cup {"createSession"} => id <= lastId'.users,
         pc = "insertKey" => row.owner <= lastId'.users
  PROVE  OwnershipInv'
<1>1. /\ req'[r] = [pc |-> pc, actor |-> req[r].actor, id |-> id, row |-> row]
      /\ OthersWait(r)
  BY DEF Continue, OthersWait, TypeOK, RequestTypeOK
<1>2. req[r].actor <= lastId'.users
  BY IdsAreNumbers, CountersAreNumbers DEF OwnershipInv, Sound, CountersGrow
<1>3. Sound(req[r])'
  BY <1>1, <1>2 DEF Sound
<1>4. \A q \in Requests \ {r} : Agree(req[q], req[r])'
  BY <1>1 DEF Agree
<1>. QED BY <1>1, <1>3, <1>4, OneRequestMoves

(* Rows that go, and counters that stay, leave what is said of the tables. *)
RowsOnlyGo ==
  /\ \A u \in UserIds : users'[u] # None => users[u] # None
  /\ \A k \in KeyIds : keys'[k] # None => keys'[k] = keys[k]
  /\ \A s \in SessionIds : sessions'[s] # None =>
       sessions[s] # None /\ sessions'[s].user = sessions[s].user
  /\ lastId'.users = lastId.users /\ lastId'.keys = lastId.keys

LEMMA RowsGoSoundly ==
  ASSUME TypeOK, IdsIssued, RowsOnlyGo
  PROVE  IdsIssued' /\ CountersGrow /\ \A r \in Requests : KeysKeepOwners(r)
  BY CountersAreNumbers DEF IdsIssued, RowsOnlyGo, CountersGrow, KeysKeepOwners

LEMMA TablesStaySoundly ==
  ASSUME TypeOK, IdsIssued, UNCHANGED <<users, keys, sessions>>,
         lastId'.users = lastId.users, lastId'.keys = lastId.keys
  PROVE  IdsIssued' /\ CountersGrow /\ \A r \in Requests : KeysKeepOwners(r)
  BY RowsGoSoundly DEF RowsOnlyGo

(* The middleware: a session's user was handed out.                        *)
LEMMA MiddlewareKeepsOwners ==
  ASSUME TypeOK, OwnershipInv, MiddlewareNext
  PROVE  OwnershipInv'
<1>1. IdsIssued
  BY DEF OwnershipInv
<1>2. ASSUME NEW r \in Requests, NEW s \in SessionIds, FindSession(r, s) PROVE OwnershipInv'
  <2>1. /\ req'[r] = [pc |-> "loadUser", actor |-> sessions[s].user, id |-> s, row |-> None]
        /\ OthersWait(r)
    BY <1>2 DEF FindSession, OthersWait, TypeOK, RequestTypeOK
  <2>2. IdsIssued' /\ CountersGrow /\ KeysKeepOwners(r)
    BY <1>1, <1>2, TablesStaySoundly DEF FindSession, storeVars
  <2>3. sessions[s].user <= lastId'.users
    BY <1>1, <1>2 DEF FindSession, IdsIssued, storeVars
  <2>4. Sound(req[r])'
    BY <2>1, <2>3 DEF Sound, UserPCs, KeyPCs
  <2>5. \A q \in Requests \ {r} : Agree(req[q], req[r])'
    BY <2>1 DEF Agree, KeyPCs
  <2>. QED BY <2>1, <2>2, <2>4, <2>5, OneRequestMoves
<1>3. ASSUME NEW r \in Requests, NEW route \in {"user", "admin"}, Admit(r, route)
      PROVE  OwnershipInv'
  <2>1. IdsIssued' /\ CountersGrow /\ KeysKeepOwners(r)
    BY <1>1, <1>3, TablesStaySoundly DEF Admit, storeVars
  <2>. QED BY <1>3, <2>1, OneRequestGoesOn DEF Admit, UserPCs, KeyPCs
<1>4. ASSUME NEW r \in Requests, Fail(r) PROVE OwnershipInv'
  BY <1>1, <1>4, TablesStaySoundly, OneRequestEnds DEF Fail, storeVars
<1>5. ASSUME NEW r \in Requests, Logout(r) PROVE OwnershipInv'
  <2>1. RowsOnlyGo
    BY <1>5 DEF Logout, RowsOnlyGo, TypeOK, StoreTypeOK
  <2>. QED BY <1>1, <1>5, <2>1, RowsGoSoundly, OneRequestEnds DEF Logout
<1>6. ASSUME NEW s \in SessionIds, ExpireSession(s) PROVE OwnershipInv'
  <2>1. IdsIssued'
    BY <1>1, <1>6 DEF ExpireSession, IdsIssued, TypeOK, StoreTypeOK, Session
  <2>. QED BY <1>6, <2>1 DEF ExpireSession, OwnershipInv, Sound, Agree
<1>. QED BY <1>2, <1>3, <1>4, <1>5, <1>6 DEF MiddlewareNext

(* Instances name no users.                                                *)
LEMMA InstancesKeepOwners ==
  ASSUME TypeOK, OwnershipInv, InstancesNext
  PROVE  OwnershipInv'
<1>1. PICK r \in Requests :
        \/ Respond(r)
        \/ \E pc \in {"saveInstance", "deleteInstance"} : \E id, row : Continue(r, pc, id, row)
  BY DEF InstancesNext, CreateInstance, UpdateInstanceRead, UpdateInstanceSave,
         DeleteInstanceFind, DeleteInstance
<1>2. /\ UNCHANGED <<users, keys, sessions>>
      /\ lastId'.users = lastId.users /\ lastId'.keys = lastId.keys
  BY DEF InstancesNext, CreateInstance, UpdateInstanceRead, UpdateInstanceSave,
         DeleteInstanceFind, DeleteInstance, storeVars, TypeOK, StoreTypeOK
<1>3. IdsIssued' /\ CountersGrow /\ KeysKeepOwners(r)
  BY <1>2, TablesStaySoundly DEF OwnershipInv
<1>. QED BY <1>1, <1>3, OneRequestEnds, OneRequestGoesOn DEF UserPCs, KeyPCs

(* The ids in rows are numbers, too.                                       *)
LEMMA IssuedAreNumbers ==
  ASSUME TypeOK
  PROVE  /\ \A u \in UserIds : u \in Nat
         /\ \A k \in KeyIds : k \in Nat /\ (keys[k] # None => keys[k].owner \in Nat)
         /\ \A s \in SessionIds : sessions[s] # None => sessions[s].user \in Nat
  BY DEF TypeOK, StoreTypeOK, SSHKey, Session, UserIds, KeyIds

(* Users and keys are written under ids that were handed out.              *)
LEMMA UsersWrittenSoundly ==
  ASSUME TypeOK, IdsIssued, UNCHANGED <<keys, sessions>>,
         \/ \E row : InsertUser(row)
         \/ /\ \E row : \E id \in UserIds :
                  id <= lastId.users /\ (UpdateUserRow(id, row) \/ UpsertUserRow(id, row))
            /\ lastId' = lastId
  PROVE  /\ IdsIssued' /\ CountersGrow /\ \A r \in Requests : KeysKeepOwners(r)
         /\ lastId.users <= lastId'.users
<1>1. CASE \E row : InsertUser(row)
  <2>1. PICK row : InsertUser(row)
    BY <1>1
  <2>2. lastId'.users = lastId.users + 1 /\ lastId'.keys = lastId.keys
    BY <2>1 DEF InsertUser, TypeOK, StoreTypeOK
  <2>3. \A u \in UserIds : users'[u] # None => users[u] # None \/ u = lastId'.users
    BY <2>1 DEF InsertUser, TypeOK, StoreTypeOK
  <2>4. IdsIssued'
    BY <2>2, <2>3, CountersAreNumbers, IssuedAreNumbers DEF IdsIssued
  <2>. QED BY <2>2, <2>4, CountersAreNumbers DEF CountersGrow, KeysKeepOwners
<1>2. CASE \E row : \E id \in UserIds :
             /\ id <= lastId.users
             /\ UpdateUserRow(id, row) \/ UpsertUserRow(id, row)
             /\ lastId' = lastId
  BY <1>2, CountersAreNumbers
     DEF UpdateUserRow, UpsertUserRow, IdsIssued, CountersGrow, KeysKeepOwners, TypeOK, StoreTypeOK
<1>. QED BY <1>1, <1>2

LEMMA KeyInsertedSoundly ==
  ASSUME TypeOK, IdsIssued, NEW row \in SSHKey, row.owner <= lastId.users,
         InsertKey(row), UNCHANGED <<users, sessions>>
  PROVE  IdsIssued' /\ CountersGrow /\ \A r \in Requests : KeysKeepOwners(r)
<1>1. lastId'.keys = lastId.keys + 1 /\ lastId'.users = lastId.users
  BY DEF InsertKey, TypeOK, StoreTypeOK
<1>2. CreatedKey(row).owner = row.owner
  BY DEF CreatedKey, SSHKey
<1>3. \A k \in KeyIds : keys'[k] = IF k = lastId'.keys THEN CreatedKey(row) ELSE keys[k]
  BY DEF InsertKey, TypeOK, StoreTypeOK
<1>4. IdsIssued'
  BY <1>1, <1>2, <1>3, CountersAreNumbers, IssuedAreNumbers DEF IdsIssued
<1>5. \A k \in KeyIds : k <= lastId.keys => keys'[k] = keys[k]
  BY <1>1, <1>3, CountersAreNumbers, IssuedAreNumbers
<1>. QED BY <1>1, <1>4, <1>5, CountersAreNumbers DEF CountersGrow, KeysKeepOwners

LEMMA KeySavedSoundly ==
  ASSUME TypeOK, OwnershipInv, NEW r \in Requests, req[r].pc \in KeyPCs,
         UpdateKeyRow(req[r].id, req[r].row) \/ UpsertKeyRow(req[r].id, req[r].row),
         UNCHANGED <<users, sessions, lastId>>
  PROVE  IdsIssued' /\ CountersGrow /\ KeysKeepOwners(r)
<1>. DEFINE id == req[r].id
            row == req[r].row
<1>1. id \in KeyIds /\ row \in SSHKey
  BY IdsAreNumbers
<1>2. id <= lastId.keys /\ row.owner <= lastId.users
  BY DEF OwnershipInv, Sound
<1>3. PICK new : new.owner = row.owner /\ keys' = [keys EXCEPT ![id] = new]
  BY <1>1 DEF UpdateKeyRow, UpsertKeyRow, CreatedKey, SSHKey
<1>4. \A k \in KeyIds : keys'[k] = IF k = id THEN new ELSE keys[k]
  BY <1>3 DEF TypeOK, StoreTypeOK
<1>5. IdsIssued'
  BY <1>1, <1>2, <1>3, <1>4 DEF OwnershipInv, IdsIssued
<1>6. KeysKeepOwners(r)
  BY <1>2, <1>3, <1>4 DEF KeysKeepOwners
<1>. QED BY <1>5, <1>6, CountersAreNumbers DEF CountersGrow

(* A request that takes up a key, or waits to put it back.                 *)
LEMMA KeyTakenUp ==
  ASSUME TypeOK, OwnershipInv, NEW r \in Requests, NEW pc \in KeyPCs, NEW k \in KeyIds,
         NEW row, Continue(r, pc, k, row), UNCHANGED storeVars,
         \/ keys[k] # None /\ keys[k].owner = row.owner
         \/ req[r].pc \in KeyPCs /\ req[r].id = k /\ req[r].row = row
  PROVE  OwnershipInv'
<1>1. /\ req'[r] = [pc |-> pc, actor |-> req[r].actor, id |-> k, row |-> row]
      /\ OthersWait(r)
  BY DEF Continue, OthersWait, TypeOK, RequestTypeOK
<1>2. IdsIssued' /\ CountersGrow /\ KeysKeepOwners(r)
  BY TablesStaySoundly DEF OwnershipInv, storeVars
<1>3. Sound(req[r])'
  <2>1. /\ req[r].actor <= lastId.users /\ k <= lastId.keys /\ row.owner <= lastId.users
        /\ keys[k] # None => keys[k].owner = row.owner
    BY DEF OwnershipInv, Sound, IdsIssued
  <2>. QED BY <1>1, <2>1 DEF Sound, KeyPCs, UserPCs, storeVars
<1>4. ASSUME NEW q \in Requests \ {r} PROVE Agree(req[q], req[r])'
  <2>1. Sound(req[q]) /\ Agree(req[q], req[r]) /\ req'[q] = req[q]
    BY <1>1, <1>4 DEF OwnershipInv, OthersWait
  <2>. QED BY <1>1, <2>1 DEF Sound, Agree
<1>. QED BY <1>1, <1>2, <1>3, <1>4, OneRequestMoves

(* The handlers of users ...                                               *)
LEMMA UserHandlersKeepOwners ==
  ASSUME TypeOK, OwnershipInv, NEW r \in Requests,
         \/ \E email \in Emails, role \in Roles : CreateUser(r, email, role)
         \/ \E u \in UserIds, role \in Roles \cup {None}, active \in BOOLEAN \cup {None} :
              UpdateUserRead(r, u, role, active)
         \/ UpdateUserSave(r) \/ UpdateUserMissed(r) \/ UpdateUserUpsert(r)
         \/ \E u \in UserIds : DeleteUserFind(r, u)
         \/ DeleteUser(r)
  PROVE  OwnershipInv'
<1>1. IdsIssued /\ Sound(req[r])
  BY DEF OwnershipInv
<1>2. UNCHANGED storeVars => IdsIssued' /\ CountersGrow /\ KeysKeepOwners(r) /\ lastId' = lastId
  BY <1>1, TablesStaySoundly DEF storeVars
<1>3. ASSUME NEW email \in Emails, NEW role \in Roles, CreateUser(r, email, role)
      PROVE  OwnershipInv'
  <2>1. IdsIssued' /\ CountersGrow /\ KeysKeepOwners(r)
    BY <1>1, <1>3, UsersWrittenSoundly DEF CreateUser
  <2>. QED BY <1>3, <2>1, OneRequestEnds DEF CreateUser
<1>4. ASSUME NEW u \in UserIds, NEW role, NEW active, UpdateUserRead(r, u, role, active)
      PROVE  OwnershipInv'
  <2>. DEFINE row == [users[u] EXCEPT !.role = Patched(role, @), !.active = Patched(active, @)]
  <2>1. Continue(r, "saveUser", u, row) /\ u <= lastId.users
    BY <1>1, <1>4 DEF UpdateUserRead, IdsIssued
  <2>. HIDE DEF row
  <2>. QED BY <1>2, <1>4, <2>1, OneRequestGoesOn DEF UpdateUserRead, KeyPCs
<1>5. CASE UpdateUserSave(r) \/ UpdateUserUpsert(r)
  <2>1. req[r].id \in UserIds /\ req[r].id <= lastId.users
    BY <1>1, <1>5, UserShape DEF UpdateUserSave, UpdateUserUpsert, UserPCs, TypeOK, Sound
  <2>2. IdsIssued' /\ CountersGrow /\ KeysKeepOwners(r)
    BY <1>1, <1>5, <2>1, UsersWrittenSoundly DEF UpdateUserSave, UpdateUserUpsert
  <2>. QED BY <1>5, <2>2, OneRequestEnds DEF UpdateUserSave, UpdateUserUpsert
<1>6. CASE UpdateUserMissed(r)
  <2>1. Continue(r, "upsertUser", req[r].id, req[r].row) /\ req[r].id <= lastId.users
    BY <1>1, <1>6 DEF UpdateUserMissed, Sound, UserPCs
  <2>. QED BY <1>2, <1>6, <2>1, OneRequestGoesOn DEF UpdateUserMissed, KeyPCs
<1>7. ASSUME NEW u \in UserIds, DeleteUserFind(r, u) PROVE OwnershipInv'
  BY <1>2, <1>7, OneRequestGoesOn DEF DeleteUserFind, KeyPCs, UserPCs
<1>8. CASE DeleteUser(r)
  <2>1. RowsOnlyGo
    BY <1>8 DEF DeleteUser, RowsOnlyGo, TypeOK, StoreTypeOK
  <2>. QED BY <1>1, <1>8, <2>1, RowsGoSoundly, OneRequestEnds DEF DeleteUser
<1>. QED BY <1>3, <1>4, <1>5, <1>6, <1>7, <1>8

(* ... and those of keys.                                                  *)
LEMMA KeyHandlersKeepOwners ==
  ASSUME TypeOK, OwnershipInv, NEW r \in Requests,
         \/ \E u \in UserIds, f \in Fingerprints, active \in BOOLEAN :
              CreateUserSSHKeyFind(r, u, f, active)
         \/ CreateUserSSHKey(r)
         \/ \E u \in UserIds : DeleteUserSSHKeyFind(r, u)
         \/ \E f \in Fingerprints : CreateSSHKey(r, f)
         \/ \E k \in KeyIds : DeleteUserSSHKey(r, k) \/ DeleteSSHKey(r, k)
         \/ \E k \in KeyIds, f \in Fingerprints, active \in BOOLEAN \cup {None} :
              UpdateSSHKeyRead(r, k, f, active)
         \/ UpdateSSHKeySave(r) \/ UpdateSSHKeyMissed(r) \/ UpdateSSHKeyUpsert(r)
  PROVE  OwnershipInv'
<1>1. IdsIssued /\ Sound(req[r])
  BY DEF OwnershipInv
<1>2. UNCHANGED storeVars => IdsIssued' /\ CountersGrow /\ KeysKeepOwners(r) /\ lastId' = lastId
  BY <1>1, TablesStaySoundly DEF storeVars
<1>3. ASSUME NEW u \in UserIds, NEW f, NEW active, CreateUserSSHKeyFind(r, u, f, active)
      PROVE  OwnershipInv'
  <2>. DEFINE row == [owner |-> u, fingerprint |-> f, active |-> active]
  <2>1. Continue(r, "insertKey", u, row) /\ row.owner <= lastId.users
    BY <1>1, <1>3 DEF CreateUserSSHKeyFind, IdsIssued
  <2>. HIDE DEF row
  <2>. QED BY <1>2, <1>3, <2>1, OneRequestGoesOn DEF CreateUserSSHKeyFind, KeyPCs, UserPCs
<1>4. CASE CreateUserSSHKey(r)
  <2>1. req[r].row \in SSHKey /\ req[r].row.owner <= lastId.users
    BY <1>1, <1>4 DEF CreateUserSSHKey, Sound, TypeOK, RequestTypeOK, Request, Idle, UserPCs,
                      KeyPCs, TargetPCs
  <2>. QED BY <1>1, <1>4, <2>1, KeyInsertedSoundly, OneRequestEnds DEF CreateUserSSHKey
<1>5. ASSUME NEW u \in UserIds, DeleteUserSSHKeyFind(r, u) PROVE OwnershipInv'
  BY <1>2, <1>5, OneRequestGoesOn DEF DeleteUserSSHKeyFind, KeyPCs, UserPCs
<1>6. ASSUME NEW f \in Fingerprints, CreateSSHKey(r, f) PROVE OwnershipInv'
  <2>1. PICK active \in BOOLEAN :
          InsertKey([owner |-> req[r].actor, fingerprint |-> f, active |-> active])
    BY <1>6 DEF CreateSSHKey
  <2>. DEFINE row == [owner |-> req[r].actor, fingerprint |-> f, active |-> active]
  <2>2. row \in SSHKey /\ row.owner <= lastId.users
    BY <1>1, <1>6, AdmittedShape DEF CreateSSHKey, SSHKey, Sound, TypeOK
  <2>3. IdsIssued' /\ CountersGrow /\ KeysKeepOwners(r)
    <3>. HIDE DEF row
    <3>. QED BY <1>1, <1>6, <2>1, <2>2, KeyInsertedSoundly DEF CreateSSHKey, row
  <2>. QED BY <1>6, <2>3, OneRequestEnds DEF CreateSSHKey
<1>7. ASSUME NEW k \in KeyIds, DeleteUserSSHKey(r, k) \/ DeleteSSHKey(r, k) PROVE OwnershipInv'
  <2>1. RowsOnlyGo
    BY <1>7 DEF DeleteUserSSHKey, DeleteSSHKey, DeleteKeyOf, RowsOnlyGo, TypeOK, StoreTypeOK
  <2>. QED BY <1>1, <1>7, <2>1, RowsGoSoundly, OneRequestEnds DEF DeleteUserSSHKey, DeleteSSHKey
<1>8. ASSUME NEW k \in KeyIds, NEW f, NEW active, UpdateSSHKeyRead(r, k, f, active)
      PROVE  OwnershipInv'
  <2>. DEFINE row == [keys[k] EXCEPT !.fingerprint = f, !.active = Patched(active, @)]
  <2>1. keys[k] # None /\ keys[k].owner = row.owner
    BY <1>8 DEF UpdateSSHKeyRead, TypeOK, StoreTypeOK, SSHKey
  <2>2. Continue(r, "saveKey", k, row) /\ UNCHANGED storeVars
    BY <1>8 DEF UpdateSSHKeyRead
  <2>. HIDE DEF row
  <2>. QED BY <1>8, <2>1, <2>2, KeyTakenUp DEF UpdateSSHKeyRead, KeyPCs
<1>9. CASE UpdateSSHKeySave(r) \/ UpdateSSHKeyUpsert(r)
  <2>1. req[r].pc \in KeyPCs
    BY <1>9 DEF UpdateSSHKeySave, UpdateSSHKeyUpsert, KeyPCs
  <2>. QED BY <1>9, <2>1, KeySavedSoundly, OneRequestEnds DEF UpdateSSHKeySave, UpdateSSHKeyUpsert
<1>10. CASE UpdateSSHKeyMissed(r)
  <2>1. req[r].pc \in KeyPCs
    BY <1>10 DEF UpdateSSHKeyMissed, KeyPCs
  <2>2. req[r].id \in KeyIds
    BY <2>1, IdsAreNumbers
  <2>. QED BY <1>10, <2>1, <2>2, KeyTakenUp DEF UpdateSSHKeyMissed, KeyPCs
<1>. QED BY <1>3, <1>4, <1>5, <1>6, <1>7, <1>8, <1>9, <1>10

(* Signing in: sessions are created for users who were.                    *)
LEMMA SignInKeepsOwners ==
  ASSUME TypeOK, OwnershipInv, NEW r \in Requests, NEW u, NEW active, SignIn(r, u, active),
         u <= lastId'.users, IdsIssued', CountersGrow, KeysKeepOwners(r)
  PROVE  OwnershipInv'
  BY OneRequestEnds, OneRequestGoesOn DEF SignIn, KeyPCs

LEMMA LoginKeepsOwners ==
  ASSUME TypeOK, OwnershipInv, LoginNext
  PROVE  OwnershipInv'
<1>1. IdsIssued /\ \A r \in Requests : Sound(req[r])
  BY DEF OwnershipInv
<1>2. UNCHANGED storeVars =>
        IdsIssued' /\ CountersGrow /\ lastId' = lastId /\ \A r \in Requests : KeysKeepOwners(r)
  BY <1>1, TablesStaySoundly DEF storeVars
<1>3. CASE \/ \E s \in StateIds : BeginLogin(s) \/ ExpireState(s) \/ CallbackExpired(s)
           \/ Cleanup
  BY <1>3 DEF BeginLogin, ExpireState, CallbackExpired, Cleanup, storeVars, OwnershipInv,
              IdsIssued, Sound, Agree
<1>4. ASSUME NEW r \in Requests, NEW s \in StateIds, Callback(r, s) PROVE OwnershipInv'
  BY <1>2, <1>4, OneRequestGoesOn DEF Callback, KeyPCs, UserPCs
<1>5. ASSUME NEW r \in Requests, NEW claims, NEW nonce, Exchange(r, claims, nonce)
      PROVE  OwnershipInv'
  BY <1>2, <1>5, OneRequestGoesOn DEF Exchange, KeyPCs, UserPCs
<1>6. ASSUME NEW r \in Requests, FindUserForLogin(r) PROVE OwnershipInv'
  <2>1. \/ \E row : Continue(r, "createLogin", 0, row)
        \/ \E u \in UserIds : users[u] # None /\ \E row : Continue(r, "saveLogin", u, row)
    BY <1>6 DEF FindUserForLogin, MatchingUsers
  <2>2. ASSUME NEW u \in UserIds, users[u] # None PROVE u <= lastId.users
    BY <1>1, <2>2 DEF IdsIssued
  <2>3. UNCHANGED storeVars
    BY <1>6 DEF FindUserForLogin
  <2>. QED BY <1>2, <2>1, <2>2, <2>3, OneRequestGoesOn DEF KeyPCs, UserPCs
<1>7. ASSUME NEW r \in Requests, LoginCreate(r) PROVE OwnershipInv'
  <2>1. IdsIssued' /\ CountersGrow /\ KeysKeepOwners(r)
    BY <1>1, <1>7, UsersWrittenSoundly DEF LoginCreate
  <2>2. lastId'.users <= lastId'.users
    BY <2>1 DEF CountersGrow
  <2>. QED BY <1>7, <2>1, <2>2, SignInKeepsOwners DEF LoginCreate
<1>8. ASSUME NEW r \in Requests, LoginSave(r) \/ LoginUpsert(r) PROVE OwnershipInv'
  <2>1. req[r].id \in UserIds /\ req[r].id <= lastId.users
    BY <1>1, <1>8, UserShape DEF LoginSave, LoginUpsert, UserPCs, TypeOK, Sound
  <2>2. IdsIssued' /\ CountersGrow /\ KeysKeepOwners(r) /\ lastId' = lastId
    BY <1>1, <1>8, <2>1, UsersWrittenSoundly DEF LoginSave, LoginUpsert
  <2>. QED BY <1>8, <2>1, <2>2, SignInKeepsOwners DEF LoginSave, LoginUpsert
<1>9. ASSUME NEW r \in Requests, LoginMissed(r) PROVE OwnershipInv'
  <2>1. Continue(r, "upsertLogin", req[r].id, req[r].row) /\ req[r].id <= lastId.users
    BY <1>1, <1>9 DEF LoginMissed, Sound, UserPCs
  <2>. QED BY <1>2, <1>9, <2>1, OneRequestGoesOn DEF LoginMissed, KeyPCs
<1>10. ASSUME NEW r \in Requests, CreateSession(r) PROVE OwnershipInv'
  <2>1. req[r].id <= lastId.users
    BY <1>1, <1>10 DEF CreateSession, Sound
  <2>2. lastId'.users = lastId.users /\ lastId'.keys = lastId.keys
    BY <1>10 DEF CreateSession, TypeOK, StoreTypeOK
  <2>3. \A s \in SessionIds : sessions'[s] # sessions[s] => sessions'[s].user = req[r].id
    BY <1>10 DEF CreateSession, TypeOK, StoreTypeOK
  <2>4. IdsIssued'
    BY <1>1, <1>10, <2>1, <2>2, <2>3 DEF CreateSession, IdsIssued
  <2>5. CountersGrow /\ KeysKeepOwners(r)
    BY <1>10, <2>2, CountersAreNumbers DEF CreateSession, CountersGrow, KeysKeepOwners
  <2>. QED BY <1>10, <2>4, <2>5, OneRequestEnds DEF CreateSession
<1>. QED BY <1>3, <1>4, <1>5, <1>6, <1>7, <1>8, <1>9, <1>10 DEF LoginNext

(* Owners: initially and over every step.                                  *)
LEMMA OwnershipInit == Init => OwnershipInv
<1>. SUFFICES ASSUME Init PROVE OwnershipInv
  OBVIOUS
<1>1. IdsIssued
  BY SeedIsConsistent DEF Init, StoreInit, Issued, IdsIssued
<1>2. 0 <= lastId.users
  BY TypeInit, CountersAreNumbers
<1>. QED BY <1>1, <1>2 DEF Init, RequestInit, OwnershipInv, Sound, Agree, Idle, UserPCs, KeyPCs

LEMMA OwnershipStep ==
  ASSUME TypeOK, OwnershipInv, [Next]_vars
  PROVE  OwnershipInv'
<1>1. CASE AccountsNext
  BY <1>1, UserHandlersKeepOwners, KeyHandlersKeepOwners DEF AccountsNext
<1>2. CASE UNCHANGED <<storeVars, req>>
  BY <1>2 DEF storeVars, OwnershipInv, IdsIssued, Sound, Agree
<1>3. CASE Crash
  <2>1. IdsIssued' /\ 0 <= lastId'.users
    BY <1>3, CountersAreNumbers DEF Crash, storeVars, OwnershipInv, IdsIssued
  <2>. QED BY <1>3, <2>1 DEF Crash, OwnershipInv, Sound, Agree, Idle, UserPCs, KeyPCs
<1>4. CASE ProxyNext /\ UNCHANGED <<req, pending>>
  BY <1>2, <1>4, ProxyType DEF TypeOK
<1>. QED BY <1>1, <1>2, <1>3, <1>4, MiddlewareKeepsOwners, InstancesKeepOwners, LoginKeepsOwners
         DEF Next, ConsoleNext, vars

LEMMA AlwaysOwned == Spec => [](TypeOK /\ OwnershipInv)
  BY TypeInit, TypeStep, OwnershipInit, OwnershipStep, PTL DEF Spec

----------------------------------------------------------------------------
(* The handlers that write keys, each for one request.                     *)
WritesKeys(r) ==
  \/ DeleteUser(r) \/ CreateUserSSHKey(r) \/ \E f \in Fingerprints : CreateSSHKey(r, f)
  \/ \E k \in KeyIds : DeleteUserSSHKey(r, k) \/ DeleteSSHKey(r, k)
  \/ UpdateSSHKeySave(r) \/ UpdateSSHKeyUpsert(r)

LEMMA KeysAreWrittenByHandlers ==
  ASSUME TypeOK, [Next]_vars
  PROVE  UNCHANGED keys \/ \E r \in Requests : WritesKeys(r)
<1>1. CASE AccountsNext
  <2>1. PICK r \in Requests : WritesKeys(r) \/ UNCHANGED keys
    BY <1>1 DEF AccountsNext, WritesKeys, CreateUser, UpdateUserRead, UpdateUserSave,
                UpdateUserMissed, UpdateUserUpsert, DeleteUserFind, CreateUserSSHKeyFind,
                DeleteUserSSHKeyFind, UpdateSSHKeyRead, UpdateSSHKeyMissed, storeVars
  <2>. QED BY <2>1
<1>2. MiddlewareNext \/ InstancesNext => UNCHANGED keys
  BY DEF MiddlewareNext, FindSession, Admit, Fail, Logout, ExpireSession, InstancesNext,
         CreateInstance, UpdateInstanceRead, UpdateInstanceSave, DeleteInstanceFind,
         DeleteInstance, storeVars
<1>3. LoginNext => UNCHANGED keys
  BY DEF LoginNext, BeginLogin, ExpireState, CallbackExpired, Cleanup, Callback, Exchange,
         FindUserForLogin, LoginCreate, LoginSave, LoginMissed, LoginUpsert, CreateSession, storeVars
<1>4. ProxyNext \/ Crash \/ UNCHANGED vars => UNCHANGED keys
  BY ProxyType DEF TypeOK, Crash, vars, storeVars
<1>. QED BY <1>1, <1>2, <1>3, <1>4 DEF Next, ConsoleNext

(* A key that is inserted takes an id that no key has.                     *)
LEMMA InsertedKeyIsNew ==
  ASSUME TypeOK, IdsIssued, NEW row, InsertKey(row), NEW k \in KeyIds, keys'[k] # keys[k]
  PROVE  keys[k] = None /\ keys'[k] = CreatedKey(row)
<1>1. k = lastId.keys + 1 /\ keys'[k] = CreatedKey(row)
  BY DEF InsertKey, TypeOK, StoreTypeOK
<1>. QED BY <1>1, CountersAreNumbers DEF IdsIssued

(* A key that is saved, if it was there, keeps its owner.                   *)
LEMMA SavedKeyKeepsOwner ==
  ASSUME TypeOK, OwnershipInv, NEW r \in Requests, UpdateSSHKeySave(r) \/ UpdateSSHKeyUpsert(r),
         NEW k \in KeyIds, keys'[k] # keys[k]
  PROVE  keys[k] # None => keys'[k].owner = keys[k].owner
<1>1. req[r].pc \in KeyPCs /\ req[r].row \in SSHKey
  BY IdsAreNumbers DEF UpdateSSHKeySave, UpdateSSHKeyUpsert, KeyPCs
<1>2. /\ keys'[k] \in {req[r].row, CreatedKey(req[r].row)}
      /\ k = req[r].id
  BY DEF UpdateSSHKeySave, UpdateSSHKeyUpsert, UpdateKeyRow, UpsertKeyRow, TypeOK, StoreTypeOK
<1>3. Sound(req[r])
  BY DEF OwnershipInv
<1>. QED BY <1>1, <1>2, <1>3 DEF Sound, CreatedKey, SSHKey

(* A step on keys writes one key, under a fingerprint that no other key    *)
(* has, or takes keys away.                                                *)
WritesKey(id) ==
  \E row \in SSHKey : \E new :
    /\ new.fingerprint = row.fingerprint /\ ~KeyTaken(id, row)
    /\ keys' = [keys EXCEPT ![id] = new]

LEMMA OneKeyIsWritten ==
  ASSUME TypeOK, [Next]_vars
  PROVE  \/ \A k \in KeyIds : keys'[k] # None => keys'[k] = keys[k]
         \/ \E id \in KeyIds : WritesKey(id)
<1>1. ASSUME NEW r \in Requests, WritesKeys(r)
      PROVE  \/ \A k \in KeyIds : keys'[k] # None => keys'[k] = keys[k]
             \/ \E id \in KeyIds : WritesKey(id)
  <2>1. ASSUME NEW row \in SSHKey, InsertKey(row) PROVE \E id \in KeyIds : WritesKey(id)
    <3>1. lastId.keys + 1 \in KeyIds
      BY <2>1, CountersAreNumbers, BoundsAreNaturals DEF InsertKey, KeyIds
    <3>2. ~KeyTaken(lastId.keys + 1, row)
      BY <2>1 DEF InsertKey, KeyTaken, KeyIds
    <3>3. /\ keys' = [keys EXCEPT ![lastId.keys + 1] = CreatedKey(row)]
          /\ CreatedKey(row).fingerprint = row.fingerprint
      BY <2>1 DEF InsertKey, CreatedKey, SSHKey, TypeOK, StoreTypeOK
    <3>. QED BY <3>1, <3>2, <3>3 DEF WritesKey
  <2>2. CASE CreateUserSSHKey(r)
    <3>1. req[r].row \in SSHKey
      BY <2>2 DEF CreateUserSSHKey, TypeOK, RequestTypeOK, Request, Idle, UserPCs, KeyPCs, TargetPCs
    <3>. QED BY <2>1, <2>2, <3>1 DEF CreateUserSSHKey
  <2>3. CASE \E f \in Fingerprints : CreateSSHKey(r, f)
    <3>1. PICK f \in Fingerprints, active \in BOOLEAN :
            InsertKey([owner |-> req[r].actor, fingerprint |-> f, active |-> active])
      BY <2>3 DEF CreateSSHKey
    <3>2. [owner |-> req[r].actor, fingerprint |-> f, active |-> active] \in SSHKey
      BY <2>3, AdmittedShape DEF CreateSSHKey, SSHKey, TypeOK
    <3>. QED BY <2>1, <3>1, <3>2
  <2>4. CASE UpdateSSHKeySave(r) \/ UpdateSSHKeyUpsert(r)
    <3>1. req[r].id \in KeyIds /\ req[r].row \in SSHKey
      BY <2>4, IdsAreNumbers DEF UpdateSSHKeySave, UpdateSSHKeyUpsert, KeyPCs
    <3>2. PICK new \in {req[r].row, CreatedKey(req[r].row)} :
            keys' = [keys EXCEPT ![req[r].id] = new] /\ ~KeyTaken(req[r].id, req[r].row)
      BY <2>4 DEF UpdateSSHKeySave, UpdateSSHKeyUpsert, UpdateKeyRow, UpsertKeyRow
    <3>3. new.fingerprint = req[r].row.fingerprint
      BY <3>1, <3>2 DEF CreatedKey, SSHKey
    <3>. QED BY <3>1, <3>2, <3>3 DEF WritesKey
  <2>5. CASE \/ DeleteUser(r)
             \/ \E id \in KeyIds : DeleteUserSSHKey(r, id) \/ DeleteSSHKey(r, id)
    BY <2>5 DEF DeleteUser, DeleteUserSSHKey, DeleteSSHKey, DeleteKeyOf, TypeOK, StoreTypeOK
  <2>. QED BY <1>1, <2>2, <2>3, <2>4, <2>5 DEF WritesKeys
<1>. QED BY <1>1, KeysAreWrittenByHandlers

LEMMA IdentifyingStep ==
  ASSUME TypeOK, Identifying(keys), [Next]_vars
  PROVE  Identifying(keys)'
<1>1. CASE \A k \in KeyIds : keys'[k] # None => keys'[k] = keys[k]
  BY <1>1 DEF Identifying
<1>2. ASSUME NEW id \in KeyIds, WritesKey(id) PROVE Identifying(keys)'
  BY <1>2 DEF WritesKey, KeyTaken, Identifying, TypeOK, StoreTypeOK
<1>. QED BY <1>1, <1>2, OneKeyIsWritten

(* A key that is there after a step, and was there before, keeps its owner.*)
LEMMA OwnersStay ==
  ASSUME TypeOK, OwnershipInv, [Next]_vars, NEW k \in KeyIds, keys[k] # None, keys'[k] # None
  PROVE  keys'[k].owner = keys[k].owner
<1>. SUFFICES ASSUME keys'[k] # keys[k] PROVE keys'[k].owner = keys[k].owner
  OBVIOUS
<1>1. PICK r \in Requests : WritesKeys(r)
  BY KeysAreWrittenByHandlers
<1>2. CASE CreateUserSSHKey(r) \/ \E f \in Fingerprints : CreateSSHKey(r, f)
  <2>1. \E row : InsertKey(row)
    BY <1>2 DEF CreateUserSSHKey, CreateSSHKey
  <2>. QED BY <2>1, InsertedKeyIsNew DEF OwnershipInv
<1>3. CASE UpdateSSHKeySave(r) \/ UpdateSSHKeyUpsert(r)
  BY <1>3, SavedKeyKeepsOwner
<1>4. CASE \/ DeleteUser(r)
           \/ \E id \in KeyIds : DeleteUserSSHKey(r, id) \/ DeleteSSHKey(r, id)
  BY <1>4 DEF DeleteUser, DeleteUserSSHKey, DeleteSSHKey, DeleteKeyOf, TypeOK, StoreTypeOK
<1>. QED BY <1>1, <1>2, <1>3, <1>4 DEF WritesKeys

(* UpdateSSHKey saves a copy of the row it read, and Save re-creates a row *)
(* that is gone; but the id of a key is never another user's.              *)
THEOREM KeysKeepTheirOwner == Spec => KeyOwnerStable
<1>1. TypeOK /\ OwnershipInv /\ [Next]_vars =>
        [\A k \in KeyIds : keys[k] # None /\ keys'[k] # None
                             => keys'[k].owner = keys[k].owner]_<<storeVars, req>>
  BY OwnersStay
<1>. QED BY <1>1, AlwaysOwned, PTL DEF Spec, KeyOwnerStable

(* Nor does a fingerprint pass from one user to another in a step, be it   *)
(* by way of a second key: the index refuses the copies that would.        *)
THEOREM KeysIdentifyOneUser == Spec => KeyIdentifiesOneUser
<1>1. ASSUME TypeOK, OwnershipInv, Identifying(keys), [Next]_vars, NEW k \in KeyIds, NEW j \in KeyIds,
             keys[k] # None, keys'[j] # None, keys[k].fingerprint = keys'[j].fingerprint
      PROVE  keys[k].owner = keys'[j].owner
  <2>1. CASE k = j
    BY <1>1, <2>1, OwnersStay
  <2>2. CASE k # j
    <3>1. keys'[j] # keys[j]
      BY <1>1, <2>2 DEF Identifying
    <3>2. PICK id \in KeyIds : WritesKey(id)
      BY <1>1, <3>1, OneKeyIsWritten
    <3>3. keys'[k] = keys[k]
      BY <1>1, <2>2, <3>1, <3>2 DEF WritesKey, TypeOK, StoreTypeOK
    <3>. QED BY <1>1, <2>2, <3>3, IdentifyingStep DEF Identifying
  <2>. QED BY <2>1, <2>2
<1>2. TypeOK /\ OwnershipInv /\ Identifying(keys) /\ [Next]_vars =>
        [\A k, j \in KeyIds :
           /\ keys[k] # None /\ keys'[j] # None
           /\ keys[k].fingerprint = keys'[j].fingerprint
           => keys[k].owner = keys'[j].owner]_<<storeVars, req>>
  BY <1>1
<1>3. Init => Identifying(keys)
  BY SeedIsConsistent DEF Init, StoreInit
<1>. QED BY <1>2, <1>3, AlwaysOwned, IdentifyingStep, PTL DEF Spec, KeyIdentifiesOneUser

(* A step that creates a user does nothing else to the tables.             *)
LEMMA NewIdsAreNext ==
  ASSUME TypeOK, [Next]_vars, lastId'.users # lastId.users
  PROVE  lastId'.users = lastId.users + 1 /\ UNCHANGED <<keys, sessions, assigned>>
<1>1. CASE AccountsNext
  <2>1. PICK r \in Requests :
          \/ \E email \in Emails, role \in Roles : CreateUser(r, email, role)
          \/ lastId'.users = lastId.users
    BY <1>1 DEF AccountsNext, UpdateUserRead, UpdateUserSave, UpdateUserMissed,
                UpdateUserUpsert, DeleteUserFind, DeleteUser, CreateUserSSHKeyFind,
                CreateUserSSHKey, DeleteUserSSHKeyFind, CreateSSHKey, DeleteUserSSHKey,
                DeleteSSHKey, UpdateSSHKeyRead, UpdateSSHKeySave, UpdateSSHKeyMissed,
                UpdateSSHKeyUpsert, storeVars, InsertKey, TypeOK, StoreTypeOK
  <2>. QED BY <2>1 DEF CreateUser, InsertUser, TypeOK, StoreTypeOK
<1>2. CASE LoginNext
  <2>1. (\E r \in Requests : LoginCreate(r)) \/ lastId'.users = lastId.users
    BY <1>2 DEF LoginNext, BeginLogin, ExpireState, CallbackExpired, Cleanup, Callback, Exchange,
                FindUserForLogin, LoginSave, LoginMissed, LoginUpsert, CreateSession, storeVars,
                TypeOK, StoreTypeOK
  <2>. QED BY <2>1 DEF LoginCreate, InsertUser, TypeOK, StoreTypeOK
<1>3. MiddlewareNext \/ InstancesNext => lastId'.users = lastId.users
  BY DEF MiddlewareNext, FindSession, Admit, Fail, Logout, ExpireSession, InstancesNext,
         CreateInstance, UpdateInstanceRead, UpdateInstanceSave, DeleteInstanceFind,
         DeleteInstance, storeVars, TypeOK, StoreTypeOK
<1>4. ProxyNext \/ Crash \/ UNCHANGED vars => UNCHANGED lastId
  BY ProxyType DEF TypeOK, Crash, vars, storeVars
<1>. QED BY <1>1, <1>2, <1>3, <1>4 DEF Next, ConsoleNext

(* Nothing that names a new user's id was left behind by another user, or  *)
(* by a request that worked for a user who is gone: it was never handed    *)
(* out.                                                                    *)
THEOREM NewUsersAlwaysStartClean == Spec => NewUsersStartClean
<1>1. ASSUME TypeOK, OwnershipInv, AssignmentsReferential, [Next]_vars,
             lastId'.users # lastId.users
      PROVE  /\ \A k \in KeyIds : keys'[k] # None => keys'[k].owner # lastId'.users
             /\ \A s \in SessionIds : sessions'[s] # None => sessions'[s].user # lastId'.users
             /\ \A a \in assigned' : a[2] # lastId'.users
  <2>1. lastId'.users = lastId.users + 1 /\ UNCHANGED <<keys, sessions, assigned>>
    BY <1>1, NewIdsAreNext
  <2>2. ASSUME NEW a \in assigned PROVE a[2] # lastId'.users
    <3>1. a[2] \in UserIds /\ a[2] <= lastId.users
      BY <1>1, <2>2 DEF AssignmentsReferential, Referential, OwnershipInv, IdsIssued, TypeOK, StoreTypeOK
    <3>. QED BY <1>1, <2>1, <3>1, CountersAreNumbers DEF UserIds
  <2>. QED BY <1>1, <2>1, <2>2, CountersAreNumbers, IssuedAreNumbers DEF OwnershipInv, IdsIssued
<1>2. TypeOK /\ OwnershipInv /\ AssignmentsReferential /\ [Next]_vars =>
        [lastId'.users # lastId.users =>
           LET u == lastId'.users IN
             /\ \A k \in KeyIds : keys'[k] # None => keys'[k].owner # u
             /\ \A s \in SessionIds : sessions'[s] # None => sessions'[s].user # u
             /\ \A a \in assigned' : a[2] # u]_vars
  BY <1>1
<1>. QED BY <1>2, AlwaysOwned, AssignmentsAlwaysReferential, PTL DEF Spec, NewUsersStartClean
=============================================================================
