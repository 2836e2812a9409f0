---------------------------- MODULE AccessProofs ----------------------------
(***************************************************************************)
(* The backend implements AccessControl, for any number of users,          *)
(* instances, requests and connections.  A handler's statement maps to     *)
(* Administer, a connection's to Identify, Admit, Leave or to nothing, and *)
(* a crash to everyone's leaving at once.                                  *)
(***************************************************************************)
EXTENDS ReverseProxyProofs

(* Foreign keys that hold are what makes the tables sound rules.           *)
LEMMA TablesAreSound ==
  ASSUME TypeOK, AssignmentsReferential
  PROVE  Access!Sound
<1>1. Identified \subseteq People
  BY DEF Identified
<1>2. assigned \subseteq Gates \X People
  BY DEF TypeOK, StoreTypeOK, AssignmentsReferential, Referential, Gates, People
<1>. QED BY <1>1, <1>2 DEF Access!Sound

(* The initial states map to initial states.                               *)
LEMMA AccessInit == Init => Access!Init
<1>. SUFFICES ASSUME Init PROVE Access!Init
  OBVIOUS
<1>1. TypeOK /\ AssignmentsReferential
  BY TypeInit, SeedIsConsistent DEF Init, StoreInit, AssignmentsReferential
<1>2. Sessions = [c \in Conns |-> <<>>]
  BY DEF Init, ConnInit, Closed, Sessions, Seen
<1>3. People \subseteq UserIds /\ Gates \subseteq InstanceIds
  BY DEF People, Gates
<1>. QED BY <1>1, <1>2, <1>3, TablesAreSound DEF Access!Init

(* What a handler commits may be done by an administrator: new assignments *)
(* are to users who existed, since no statement adds both.                 *)
LEMMA AdministerStep ==
  ASSUME TypeOK, AssignmentsReferential, TypeOK', AssignmentsReferential', [Next]_vars,
         UNCHANGED conn
  PROVE  Access!Administer
<1>1. UNCHANGED Sessions
  BY DEF Sessions
<1>2. ASSUME NEW grant \in assigned' \ assigned PROVE grant[2] \in People
  <2>1. UNCHANGED users
    BY <1>2, OneTableGrows
  <2>2. grant[2] \in UserIds /\ users'[grant[2]] # None
    BY <1>2 DEF TypeOK, StoreTypeOK, AssignmentsReferential, Referential
  <2>. QED BY <2>1, <2>2 DEF People
<1>3. People' \subseteq UserIds /\ Gates' \subseteq InstanceIds
  BY DEF People, Gates
<1>4. Access!Sound'
  <2>1. Identified' \subseteq People'
    BY DEF Identified
  <2>2. assigned' \subseteq Gates' \X People'
    BY DEF TypeOK, StoreTypeOK, AssignmentsReferential, Referential, Gates, People
  <2>. QED BY <2>1, <2>2 DEF Access!Sound
<1>. QED BY <1>1, <1>2, <1>3, <1>4 DEF Access!Administer

(* A connection's step changes the connection only.                        *)
LEMMA ConnectionStep ==
  ASSUME TypeOK, AssignmentsReferential, ProxyNext
  PROVE  Access!Next \/ UNCHANGED Access!vars
<1>1. UNCHANGED Access!rules
  BY ProxyType DEF TypeOK, storeVars, Access!rules, Identified, People, Gates
<1>2. \A c \in Conns : Sessions[c] = Seen(conn[c]) /\ Sessions'[c] = Seen(conn'[c])
  BY DEF Sessions
<1>3. ASSUME NEW c \in Conns, NEW k \in KeyIds, Authenticate(c, k) PROVE Access!Identify(c)
  <2>1. keys[k].owner \in UserIds
    BY <1>3 DEF Authenticate, TypeOK, StoreTypeOK, SSHKey
  <2>2. keys[k].owner \in Identified
    BY <1>3, <2>1 DEF Authenticate, Identified, People
  <2>3. Sessions[c] = <<>>
    <3>1. conn[c].pc = "closed"
      BY <1>3 DEF Authenticate, Closed
    <3>2. Seen(conn[c]) = <<>>
      BY <3>1 DEF Seen
    <3>. QED BY <1>2, <3>2
  <2>4. Sessions' = [Sessions EXCEPT ![c] = <<keys[k].owner>>]
    BY <1>3 DEF Authenticate, Sessions, Seen, TypeOK, ConnTypeOK
  <2>. QED BY <1>1, <2>2, <2>3, <2>4 DEF Access!Identify
<1>4. ASSUME NEW c \in Conns, NEW slug \in Slugs, LookupTarget(c, slug)
      PROVE  Access!Admit(c)
  <2>1. PICK i \in InstanceIds :
          /\ instances[i] # None /\ instances[i].enabled /\ <<i, conn[c].user>> \in assigned
          /\ conn' = [conn EXCEPT ![c] = [pc |-> "dialing", user |-> conn[c].user,
                                          instance |-> i, target |-> instances[i]]]
    BY <1>4 DEF LookupTarget, Targets
  <2>2. conn[c].user \in People /\ i \in Gates /\ instances[i].enabled
    BY <1>4, <2>1 DEF AssignmentsReferential, Referential, People, Gates, TypeOK, StoreTypeOK
  <2>3. Sessions[c] = <<conn[c].user>>
    BY <1>2, <1>4 DEF LookupTarget, Targets, Seen
  <2>4. Sessions' = [Sessions EXCEPT ![c] = <<conn[c].user, i>>]
    BY <2>1 DEF Sessions, Seen, TypeOK, ConnTypeOK
  <2>. QED BY <1>1, <2>1, <2>2, <2>3, <2>4 DEF Access!Admit
<1>5. ASSUME NEW c \in Conns, DialUpstream(c) PROVE UNCHANGED Access!vars
  <2>1. conn[c] \in Connection /\ conn[c].pc = "dialing"
    BY <1>5 DEF DialUpstream, TypeOK, ConnTypeOK
  <2>2. conn'[c] = [conn[c] EXCEPT !.pc = "serving", !.target = None]
        /\ \A d \in Conns : d # c => conn'[d] = conn[d]
    BY <1>5 DEF DialUpstream, TypeOK, ConnTypeOK
  <2>3. Seen(conn'[c]) = Seen(conn[c])
    BY <2>1, <2>2 DEF Seen, Connection, Closed
  <2>4. Sessions' = Sessions
    BY <2>2, <2>3 DEF Sessions
  <2>. QED BY <1>1, <2>4 DEF Access!vars
<1>6. ASSUME NEW c \in Conns, CloseConn(c) PROVE Access!Leave
  <2>1. Sessions' = [d \in Conns |-> IF d \in {c} THEN <<>> ELSE Sessions[d]]
    BY <1>6 DEF CloseConn, Closed, Sessions, Seen, TypeOK, ConnTypeOK
  <2>. QED BY <1>1, <2>1 DEF Access!Leave
<1>. QED BY <1>3, <1>4, <1>5, <1>6 DEF ProxyNext, Access!Next

(* Every step maps to a step or to a stutter.                              *)
LEMMA AccessStep ==
  ASSUME TypeOK, AssignmentsReferential, TypeOK', AssignmentsReferential', [Next]_vars
  PROVE  [Access!Next]_(Access!vars)
<1>1. CASE UNCHANGED conn
  BY <1>1, AdministerStep DEF Access!Next
<1>2. CASE ProxyNext
  BY <1>2, ConnectionStep
<1>3. CASE Crash
  <2>1. UNCHANGED Access!rules
    BY <1>3 DEF Crash, storeVars, Access!rules, Identified, People, Gates
  <2>2. Sessions' = [c \in Conns |-> IF c \in Conns THEN <<>> ELSE Sessions[c]]
    BY <1>3 DEF Crash, Closed, Sessions, Seen
  <2>. QED BY <2>1, <2>2 DEF Access!Leave, Access!Next
<1>. QED BY <1>1, <1>2, <1>3 DEF Next, vars

(* However many requests, connections and crashes interleave, whoever is   *)
(* let through was identified by a key, existed, and had been granted the  *)
(* instance, which was enabled, at the moment of being let through; grants *)
(* name what exists and are made to those who existed before.              *)
THEOREM BackendControlsAccess == Spec => AccessIsControlled
<1>1. Init => TypeOK /\ AssignmentsReferential
  BY TypeInit, SeedIsConsistent DEF Init, StoreInit, AssignmentsReferential
<1>2. TypeOK /\ AssignmentsReferential /\ [Next]_vars => TypeOK' /\ AssignmentsReferential'
  BY TypeStep, AssignmentsStep
<1>3. /\ TypeOK /\ AssignmentsReferential /\ TypeOK' /\ AssignmentsReferential' /\ [Next]_vars
      => [Access!Next]_(Access!vars)
  BY AccessStep
<1>. QED BY <1>1, <1>2, <1>3, AccessInit, PTL DEF Spec, AccessIsControlled, Access!Spec
=============================================================================
