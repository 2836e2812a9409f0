------------------------------- MODULE Proxy -------------------------------
(***************************************************************************)
(* An SSH connection from handshake to relay.  The public key callback     *)
(* decides who the client is; handleConn later looks the instance up for   *)
(* that user and dials it with the credentials it copied from the row.     *)
(* Each is a statement of its own, and handlers may change the tables in   *)
(* between.                                                                *)
(***************************************************************************)
EXTENDS Store

CONSTANT Conns   \* goroutines serving SSH connections

VARIABLE conn

(* user: the "user-id" permission; instance and target: what lookupTarget  *)
(* found and the copy of the row it dials with, which is not read again.   *)
Closed == [pc |-> "closed", user |-> 0, instance |-> 0, target |-> None]

Connection ==
  { Closed }
  \cup [pc: {"authenticated"}, user: UserIds, instance: {0}, target: {None}]
  \cup [pc: {"dialing"}, user: UserIds, instance: InstanceIds, target: Instance]
  \cup [pc: {"serving"}, user: UserIds, instance: InstanceIds, target: {None}]

ConnTypeOK == conn \in [Conns -> Connection]

ConnInit == conn = [c \in Conns |-> Closed]

----------------------------------------------------------------------------
(* lookupUserIDByKey: one statement, ssh_keys joined with users.           *)
Authenticate(c, k) ==
  /\ conn[c] = Closed
  /\ keys[k] # None /\ keys[k].active
  /\ users[keys[k].owner] # None /\ users[keys[k].owner].active
  /\ conn' = [conn EXCEPT ![c] = [pc |-> "authenticated", user |-> keys[k].owner,
                                  instance |-> 0, target |-> None]]
  /\ UNCHANGED storeVars

(* lookupTarget: one statement, instances joined with the assignments; the *)
(* SSH user name is the slug.  The users table is not consulted again.     *)
Targets(u, slug) ==
  {i \in InstanceIds : /\ instances[i] # None
                       /\ instances[i].slug = slug /\ instances[i].enabled
                       /\ <<i, u>> \in assigned}

(* Variant for mutation: every instance that is enabled can be reached.    *)
LookupUnassigned(c, slug) ==
  /\ conn[c].pc = "authenticated"
  /\ \E i \in InstanceIds :
       /\ instances[i] # None
       /\ instances[i].slug = slug /\ instances[i].enabled
       /\ conn' = [conn EXCEPT ![c] = [pc |-> "dialing", user |-> @.user,
                                       instance |-> i, target |-> instances[i]]]
  /\ UNCHANGED storeVars

LookupTarget(c, slug) ==
  /\ conn[c].pc = "authenticated"
  /\ \E i \in Targets(conn[c].user, slug) :
       conn' = [conn EXCEPT ![c] = [pc |-> "dialing", user |-> @.user,
                                    instance |-> i, target |-> instances[i]]]
  /\ UNCHANGED storeVars

(* dialUpstream gets past its early returns: a method that it knows, a key *)
(* that can be read with the passphrase.                                   *)
HasAuthMethod(target) ==
  \/ target.method \in {"none", "password"}
  \/ target.method = "key" /\ <<target.key, target.passphrase>> \in Readable

DialUpstream(c) ==
  /\ conn[c].pc = "dialing"
  /\ HasAuthMethod(conn[c].target)
  /\ conn' = [conn EXCEPT ![c] = [@ EXCEPT !.pc = "serving", !.target = None]]
  /\ UNCHANGED storeVars

(* handleConn returns: a lookup or a dial failed, or a peer hung up.       *)
CloseConn(c) ==
  /\ conn[c] # Closed
  /\ conn' = [conn EXCEPT ![c] = Closed]
  /\ UNCHANGED storeVars

ProxyNext ==
  \E c \in Conns :
    \/ \E k \in KeyIds : Authenticate(c, k)
    \/ \E slug \in Slugs : LookupTarget(c, slug)
    \/ DialUpstream(c) \/ CloseConn(c)
=============================================================================
