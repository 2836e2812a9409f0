---------------------------- MODULE ReverseProxy ----------------------------
(***************************************************************************)
(* The whole backend: one process serving the console's API and the SSH    *)
(* proxy from one database.  Requests and connections interleave at their  *)
(* database statements.  The process may be stopped at any moment and      *)
(* started again; then only the database is left.                          *)
(***************************************************************************)
EXTENDS Accounts, Instances, Login, Proxy

vars == <<storeVars, req, pending, conn>>

Init == StoreInit /\ RequestInit /\ PendingInit /\ ConnInit

(* A crash or a restart: goroutines and the state store are gone, a        *)
(* transaction that had not committed is rolled back.                      *)
Crash ==
  /\ req' = [r \in Requests |-> Idle]
  /\ conn' = [c \in Conns |-> Closed]
  /\ pending' = [s \in StateIds |-> IF pending[s] = "unused" THEN "unused" ELSE "gone"]
  /\ UNCHANGED storeVars

ConsoleNext == MiddlewareNext \/ AccountsNext \/ InstancesNext

Next ==
  \/ ConsoleNext /\ UNCHANGED <<pending, conn>>
  \/ LoginNext /\ UNCHANGED conn
  \/ ProxyNext /\ UNCHANGED <<req, pending>>
  \/ Crash

Spec == Init /\ [][Next]_vars

(* The cleanup ticker never stops, and time passes.  Nothing obliges a     *)
(* browser, a client or the provider to do anything.                       *)
FairSpec == Spec /\ WF_vars(Cleanup /\ UNCHANGED conn)
                 /\ \A s \in StateIds : WF_vars(ExpireState(s) /\ UNCHANGED conn)

----------------------------------------------------------------------------
TypeOK == StoreTypeOK /\ RequestTypeOK /\ PendingTypeOK /\ ConnTypeOK

(* Whatever the order in which administrators delete users, delete and     *)
(* recreate instances and save stale copies of both, an assignment is of   *)
(* an instance that exists to a user that exists.                          *)
AssignmentsReferential == Referential(assigned, users, instances)

(* A user who appears, be it by creation or because a stale Save brings a  *)
(* deleted row back, starts without access to any instance.                *)
AppearingUsersAreUnassigned ==
  [][\A u \in UserIds : users[u] = None /\ users'[u] # None
                         => \A a \in assigned' : a[2] # u]_vars

(* The id of a new user is named by no key, session or assignment that     *)
(* another user or a racing request left behind: the new user inherits     *)
(* nothing.                                                                *)
NewUsersStartClean ==
  [][lastId'.users # lastId.users =>
       LET u == lastId'.users IN
         /\ \A k \in KeyIds : keys'[k] # None => keys'[k].owner # u
         /\ \A s \in SessionIds : sessions'[s] # None => sessions'[s].user # u
         /\ \A a \in assigned' : a[2] # u]_vars

(* "If the slug is not assigned to you, the backend rejects the session    *)
(* before dialing upstream": with every interleaving of handlers and       *)
(* connections, and over crashes, the backend grants and lets through as   *)
(* AccessControl says.                                                     *)
People == {u \in UserIds : users[u] # None}

Identified ==
  {u \in People : /\ users[u].active
                  /\ \E k \in KeyIds : keys[k] # None /\ keys[k].active /\ keys[k].owner = u}

Gates == {i \in InstanceIds : instances[i] # None}

Seen(state) == CASE state.pc = "closed" -> <<>>
                 [] state.pc = "authenticated" -> <<state.user>>
                 [] OTHER -> <<state.user, state.instance>>

Sessions == [c \in Conns |-> Seen(conn[c])]

Access == INSTANCE AccessControl WITH
  People <- UserIds, Gates <- InstanceIds, people <- People, gates <- Gates,
  open <- {i \in Gates : instances[i].enabled},
  granted <- assigned, trusted <- Identified, session <- Sessions

AccessIsControlled == Access!Spec

(* lookupTarget does not ask whether its user still exists, and a client   *)
(* may sit between authentication and lookup while the user is deleted:    *)
(* no upstream is dialled for a user who is gone.                          *)
NoDialForDeletedUser ==
  [][\A c \in Conns : conn[c].pc = "authenticated" /\ conn'[c].pc = "dialing"
                        => users[conn[c].user] # None]_vars

(* Every instance the console lists for a user is reached by the command   *)
(* it shows: the slug in it finds that instance and no other, whichever    *)
(* creations and stale saves have raced for the slug.                      *)
ListedInstancesConnect ==
  \A u \in UserIds : \A i \in Listed(u) : Targets(u, instances[i].slug) = {i}

(* What is pasted may be no key, or not go with its passphrase: then       *)
(* dialUpstream returns early.  Nothing else makes it: not a key that the  *)
(* handlers generated over a pasted one, nor one that stale updates, or a  *)
(* change of method and back, have left in the copy it dials with.         *)
OnlyPastedKeysFail ==
  \A c \in Conns : conn[c].pc = "dialing" /\ ~HasAuthMethod(conn[c].target)
    => <<conn[c].target.key, conn[c].target.passphrase>> \in Pasted

(* "disable sign-in": once an administrator has disabled a user, only an   *)
(* administrator's UpdateUser enables the user again.                      *)
OnlyAdminsEnable ==
  [][\A u \in UserIds :
       users[u] # None /\ users'[u] # None /\ ~users[u].active /\ users'[u].active
       => \E r \in Requests : req[r].pc = "saveUser" /\ req'[r] = Idle]_vars
=============================================================================
