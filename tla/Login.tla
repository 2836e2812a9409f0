------------------------------- MODULE Login -------------------------------
(***************************************************************************)
(* Signing in with OIDC.  BeginLogin puts a state into the in-memory state *)
(* store and sends the browser to the identity provider; the callback pops *)
(* the state, exchanges the code, finds or creates the user and creates a  *)
(* session.  The provider is outside the program: it may return anyone's   *)
(* claims, or an error, or never send the browser back.                    *)
(***************************************************************************)
EXTENDS Middleware, FiniteSets

CONSTANT AdminEmails   \* ADMIN_EMAILS

ASSUME AdminEmailsAreEmails == AdminEmails \subseteq Emails

(* Goroutines are never more than finitely many, nor are logins.           *)
ASSUME LoginsAreFinite == IsFiniteSet(Requests) /\ MaxStates \in Nat

VARIABLE pending   \* the state store, with the history of every state

(* fresh and expired states are in the map: expired ones until a callback  *)
(* pops them or the ticker sweeps them away.                               *)
PendingTypeOK == pending \in [StateIds -> {"unused", "fresh", "expired", "gone"}]

PendingInit == pending = [s \in StateIds |-> "unused"]

loginVars == <<storeVars, req, pending>>

BeginLogin(s) ==
  /\ pending[s] = "unused"
  /\ pending' = [pending EXCEPT ![s] = "fresh"]
  /\ UNCHANGED <<storeVars, req>>

(* Ten minutes pass.                                                       *)
ExpireState(s) ==
  /\ pending[s] = "fresh"
  /\ pending' = [pending EXCEPT ![s] = "expired"]
  /\ UNCHANGED <<storeVars, req>>

(* Variant for mutation: the sweep compares the wrong way round.           *)
CleanupOfTheLiving ==
  /\ \E s \in StateIds : pending[s] = "fresh"
  /\ pending' = [s \in StateIds |-> IF pending[s] = "fresh" THEN "gone" ELSE pending[s]]
  /\ UNCHANGED <<storeVars, req>>

(* runStateCleanup: a tick of the five-minute ticker.                      *)
Cleanup ==
  /\ \E s \in StateIds : pending[s] = "expired"
  /\ pending' = [s \in StateIds |-> IF pending[s] = "expired" THEN "gone" ELSE pending[s]]
  /\ UNCHANGED <<storeVars, req>>

(* Variant for mutation: the state is looked at, not popped.               *)
CallbackWithoutPop(r, s) ==
  /\ req[r] = Idle
  /\ pending[s] = "fresh"
  /\ Continue(r, "exchange", s, None)
  /\ UNCHANGED <<storeVars, pending>>

(* HandleCallback pops the state under the mutex.  The callback carries no *)
(* session, so the request acts for nobody yet.                            *)
Callback(r, s) ==
  /\ req[r] = Idle
  /\ pending[s] = "fresh"
  /\ pending' = [pending EXCEPT ![s] = "gone"]
  /\ Continue(r, "exchange", s, None)
  /\ UNCHANGED storeVars

(* The state is popped all the same, and the login refused.                *)
CallbackExpired(s) ==
  /\ pending[s] = "expired"
  /\ pending' = [pending EXCEPT ![s] = "gone"]
  /\ UNCHANGED <<storeVars, req>>

(* Exchange, Verify and the checks on the claims: an ID token carries the  *)
(* nonce of the login it answers (a state stands for its nonce) or none.   *)
Exchange(r, claims, nonce) ==
  /\ req[r].pc = "exchange"
  /\ nonce \in {None, req[r].id}
  /\ Continue(r, "findUser", req[r].id, claims)
  /\ UNCHANGED <<storeVars, pending>>

----------------------------------------------------------------------------
(* findOrCreateUser                                                        *)
MatchingUsers(claims) ==
  {u \in UserIds : /\ users[u] # None
                   /\ users[u].subject = claims.subject \/ users[u].email = claims.email}

RoleAfterLogin(email, role) == IF email \in AdminEmails THEN "admin" ELSE role

FindUserForLogin(r) ==
  /\ req[r].pc = "findUser"
  /\ LET claims == req[r].row
         matches == MatchingUsers(claims)
     IN \/ /\ matches = {}
           /\ Continue(r, "createLogin", 0,
                [email |-> claims.email, subject |-> claims.subject, active |-> TRUE,
                 role |-> RoleAfterLogin(claims.email, "user")])
        \/ \E u \in matches :
             /\ \A v \in matches : u <= v    \* First orders by primary key
             /\ Continue(r, "saveLogin", u,
                  [users[u] EXCEPT !.email = claims.email, !.subject = claims.subject,
                                   !.role = RoleAfterLogin(claims.email, @)])
  /\ UNCHANGED <<storeVars, pending>>

(* The IsActive check looks at the row that was written, not at the table. *)
SignIn(r, u, active) ==
  \/ active /\ Continue(r, "createSession", u, None)
  \/ ~active /\ Respond(r)

LoginCreate(r) ==
  /\ req[r].pc = "createLogin"
  /\ InsertUser(req[r].row)
  /\ SignIn(r, lastId'.users, TRUE)
  /\ UNCHANGED <<keys, instances, sessions, assigned, pending>>

LoginSave(r) ==
  /\ req[r].pc = "saveLogin"
  /\ UpdateUserRow(req[r].id, req[r].row)
  /\ SignIn(r, req[r].id, req[r].row.active)
  /\ UNCHANGED <<keys, instances, sessions, assigned, lastId, pending>>

LoginMissed(r) ==
  /\ req[r].pc = "saveLogin"
  /\ users[req[r].id] = None
  /\ Continue(r, "upsertLogin", req[r].id, req[r].row)
  /\ UNCHANGED <<storeVars, pending>>

(* The default fills in is_active, in the table and in the struct.         *)
LoginUpsert(r) ==
  /\ req[r].pc = "upsertLogin"
  /\ UpsertUserRow(req[r].id, req[r].row)
  /\ SignIn(r, req[r].id, TRUE)
  /\ UNCHANGED <<keys, instances, sessions, assigned, lastId, pending>>

CreateSession(r) ==
  /\ req[r].pc = "createSession"
  /\ lastId.sessions < MaxSessions
  /\ lastId' = [lastId EXCEPT !.sessions = @ + 1]
  /\ sessions' = [sessions EXCEPT ![lastId'.sessions] = [user |-> req[r].id, valid |-> TRUE]]
  /\ Respond(r)
  /\ UNCHANGED <<users, keys, instances, assigned, pending>>

----------------------------------------------------------------------------
LoginNext ==
  \/ \E s \in StateIds : BeginLogin(s) \/ ExpireState(s) \/ CallbackExpired(s)
  \/ Cleanup
  \/ \E r \in Requests :
       \/ \E s \in StateIds : Callback(r, s)
       \/ \E claims \in Claims, nonce \in StateIds \cup {None} : Exchange(r, claims, nonce)
       \/ FindUserForLogin(r)
       \/ LoginCreate(r) \/ LoginSave(r) \/ LoginMissed(r) \/ LoginUpsert(r)
       \/ CreateSession(r)

----------------------------------------------------------------------------
LoginPCs == {"exchange", "findUser", "createLogin", "saveLogin", "upsertLogin", "createSession"}

(* A login state is good for one session: the sessions created, and the    *)
(* callbacks that may still create one, are no more than the states that   *)
(* were popped, though a browser may send the same callback twice at once. *)
OneSessionPerState ==
  (lastId.sessions - Seed.lastId.sessions)
    + Cardinality({r \in Requests : req[r].pc \in LoginPCs})
  <= Cardinality({s \in StateIds : pending[s] = "gone"})

(* findOrCreateUser looks for a row before it creates or overwrites one,   *)
(* and administrators create rows ahead: whichever requests race, the      *)
(* table never holds two rows for one address or for one subject.          *)
OnePersonOneUser == Distinct(users)

(* A login that nobody completes does not stay in memory.                  *)
AbandonedStatesGo ==
  \A s \in StateIds : pending[s] = "fresh" ~> pending[s] = "gone"
=============================================================================
