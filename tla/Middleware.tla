----------------------------- MODULE Middleware -----------------------------
(***************************************************************************)
(* An HTTP request on its way to a handler.  Gin runs each request in a    *)
(* goroutine of its own; a slot of Requests is one such goroutine, and it  *)
(* takes the next request when it is idle.  The session middleware reads   *)
(* the session and then, in a second statement, its user; RequireAuth and  *)
(* RequireRole decide on that copy of the user, which is never read again. *)
(*                                                                         *)
(* A request holds what its goroutine has in local variables: the user it  *)
(* acts for, the id it found and the row it loaded and is about to save.   *)
(***************************************************************************)
EXTENDS Store

CONSTANTS
  Requests,   \* goroutines serving HTTP requests
  MaxStates   \* bound: logins ever begun

VARIABLE req

(* What the identity provider says of a person.                           *)
Claims == [email: Emails, subject: Subjects]

StateIds == 1 .. MaxStates

Idle == [pc |-> "idle", actor |-> 0, id |-> 0, row |-> None]

(* Rows a request may carry, and the ids that go with them, at each point. *)
UserPCs == {"saveUser", "upsertUser", "saveLogin", "upsertLogin"}
KeyPCs == {"saveKey", "upsertKey"}
TargetPCs == {"deleteUser", "deleteKey", "createSession"}

Request ==
  { Idle }
  \cup [pc: {"loadUser", "user", "admin"}, actor: UserIds, id: SessionIds, row: {None}]
  \cup [pc: TargetPCs, actor: UserIds \cup {0}, id: UserIds, row: {None}]
  \cup [pc: UserPCs, actor: UserIds \cup {0}, id: UserIds, row: User]
  \cup [pc: {"insertKey"}, actor: UserIds, id: UserIds, row: SSHKey]
  \cup [pc: KeyPCs, actor: UserIds, id: KeyIds, row: SSHKey]
  \cup [pc: {"saveInstance"}, actor: UserIds, id: InstanceIds, row: Instance]
  \cup [pc: {"deleteInstance"}, actor: UserIds, id: InstanceIds, row: {None}]
  \cup [pc: {"exchange"}, actor: {0}, id: StateIds, row: {None}]
  \cup [pc: {"findUser"}, actor: {0}, id: StateIds, row: Claims]
  \cup [pc: {"createLogin"}, actor: {0}, id: {0}, row: User]

RequestTypeOK == req \in [Requests -> Request]

RequestInit == req = [r \in Requests |-> Idle]

----------------------------------------------------------------------------
(* The request goes on, or is answered.                                    *)
Continue(r, pc, id, row) ==
  req' = [req EXCEPT ![r] = [pc |-> pc, actor |-> @.actor, id |-> id, row |-> row]]

Respond(r) == req' = [req EXCEPT ![r] = Idle]

(* Session: the token names a session that has not expired.                *)
FindSession(r, s) ==
  /\ req[r] = Idle
  /\ sessions[s] # None /\ sessions[s].valid
  /\ req' = [req EXCEPT ![r] = [pc |-> "loadUser", actor |-> sessions[s].user,
                                id |-> s, row |-> None]]
  /\ UNCHANGED storeVars

(* Preload("User"), RequireAuth and, on the admin routes, RequireRole.  A  *)
(* user that is gone is loaded as the zero row, which is not active.       *)
Admit(r, route) ==
  /\ req[r].pc = "loadUser"
  /\ users[req[r].actor] # None
  /\ users[req[r].actor].active
  /\ route = "admin" => users[req[r].actor].role = "admin"
  /\ Continue(r, route, req[r].id, None)
  /\ UNCHANGED storeVars

(* Any request may end before its next statement: the middleware refuses   *)
(* it, its body is malformed, the row is not there, an index is violated,  *)
(* SQLite is busy.  Reads (lists, Me, Health) end the same way.            *)
Fail(r) ==
  /\ req[r] # Idle
  /\ Respond(r)
  /\ UNCHANGED storeVars

(* Time passes: a session reaches its expires_at.  Its row stays.          *)
ExpireSession(s) ==
  /\ sessions[s] # None /\ sessions[s].valid
  /\ sessions' = [sessions EXCEPT ![s].valid = FALSE]
  /\ UNCHANGED <<users, keys, instances, assigned, lastId, req>>

(* Logout, behind RequireAuth: the session of the request's own token goes. *)
Logout(r) ==
  /\ req[r].pc = "user"
  /\ sessions' = [sessions EXCEPT ![req[r].id] = None]
  /\ Respond(r)
  /\ UNCHANGED <<users, keys, instances, assigned, lastId>>

MiddlewareNext ==
  \/ \E r \in Requests :
       \/ \E s \in SessionIds : FindSession(r, s)
       \/ \E route \in {"user", "admin"} : Admit(r, route)
       \/ Fail(r) \/ Logout(r)
  \/ \E s \in SessionIds : ExpireSession(s)
=============================================================================
