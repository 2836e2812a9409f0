--------------------------- MODULE GatewayProofs ---------------------------
(***************************************************************************)
(* For any number of connections and host keys, in every environment: what *)
(* crashes leave on the disk is the key that clients know, and the port in *)
(* the commands is the one that is listened on.                            *)
(***************************************************************************)
EXTENDS Gateway, TLAPS

(* The process has its host key, and may show it.                          *)
Up == {"serving", "stoppingHttp", "stoppingSsh"}

SignerIsReady ==
  /\ proc \in Up \cup {"writeKey"} => signer \in Keys
  /\ listening # {} => proc \in Up

(* A key that is to last is in the file before it is shown, and nothing    *)
(* was shown while the file is not whole.                                  *)
KeyIsOnDisk ==
  /\ proc = "writeKey" => env.hostKeyPath /\ keyFile = "cut"
  /\ env.hostKeyPath /\ proc \in Up => keyFile = signer

(* Nothing but an address that can be listened on is listened on.          *)
ListensSomewhere == "ssh" \in listening => ListenPorts(SSHListenAddr(env)) # {}

ProcessInv == ProcessTypeOK /\ SignerIsReady /\ KeyIsOnDisk /\ HostKeySurvives /\ ListensSomewhere

----------------------------------------------------------------------------
(* Nothing was shown while the file holds no key.                          *)
LEMMA NothingShownYet ==
  ASSUME ProcessInv, env.hostKeyPath, keyFile \notin Keys
  PROVE  served = {}
  BY DEF ProcessInv, ProcessTypeOK, HostKeySurvives

(* The end of the process leaves the file and what was shown.              *)
LEMMA DeathKeepsProcess ==
  ASSUME ProcessInv, Die
  PROVE  ProcessInv'
  BY DEF Die, ProcessInv, ProcessTypeOK, PCs, Up, SignerIsReady, KeyIsOnDisk, HostKeySurvives,
         ListensSomewhere

(* Starting: a key that is read, generated, or generated and written.      *)
LEMMA StartingKeepsProcess ==
  ASSUME ProcessInv, Start \/ InitServices \/ LoadOrGenerate \/ WriteKey
  PROVE  ProcessInv'
<1>. USE NoneIsNoKey DEF ProcessInv, ProcessTypeOK, PCs, Up, SignerIsReady, KeyIsOnDisk, HostKeySurvives,
           ListensSomewhere
<1>1. CASE Start
  BY <1>1 DEF Start
<1>2. CASE InitServices
  BY <1>2, DeathKeepsProcess DEF InitServices
<1>3. CASE LoadOrGenerate
  <2>1. CASE Die
    BY <2>1, DeathKeepsProcess
  <2>2. ASSUME Load, proc = "hostKey", UNCHANGED <<env, listening, requests, served>>
        PROVE  ProcessInv'
    BY <2>2 DEF Load
  <2>3. ASSUME Generate, proc = "hostKey", UNCHANGED <<env, listening, requests, served>>
        PROVE  ProcessInv'
    <3>1. served = {}
      BY <2>3, NothingShownYet DEF Generate
    <3>. QED BY <2>3, <3>1 DEF Generate
  <2>4. ASSUME GenerateForThisRun, proc = "hostKey", UNCHANGED <<env, listening, requests, served>>
        PROVE  ProcessInv'
    BY <2>4 DEF GenerateForThisRun
  <2>. QED BY <1>3, <2>1, <2>2, <2>3, <2>4 DEF LoadOrGenerate
<1>4. CASE WriteKey
  <2>1. CASE Die
    BY <2>1, DeathKeepsProcess
  <2>2. CASE ~Die
    <3>1. served = {}
      BY <1>4, NothingShownYet DEF WriteKey
    <3>. QED BY <1>4, <2>2, <3>1 DEF WriteKey
  <2>. QED BY <2>1, <2>2
<1>. QED BY <1>1, <1>2, <1>3, <1>4

(* Listening: the key that is shown is the one in the file.                *)
LEMMA ListeningKeepsProcess ==
  ASSUME ProcessInv, NEW face \in Faces, Listen(face)
  PROVE  ProcessInv'
<1>1. CASE Die
  BY <1>1, DeathKeepsProcess
<1>2. CASE ~Die
  <2>. USE DEF ProcessInv, ProcessTypeOK, Up
  <2>1. proc \in Up /\ signer \in Keys
    BY <1>2 DEF Listen, SignerIsReady
  <2>2. ProcessTypeOK' /\ SignerIsReady'
    BY <1>2, <2>1 DEF Listen, SignerIsReady
  <2>3. KeyIsOnDisk'
    BY <1>2 DEF Listen, KeyIsOnDisk
  <2>4. HostKeySurvives'
    BY <1>2, <2>1 DEF Listen, KeyIsOnDisk, HostKeySurvives
  <2>5. ListensSomewhere'
    BY <1>2 DEF Listen, ListensSomewhere
  <2>. QED BY <2>2, <2>3, <2>4, <2>5
<1>. QED BY <1>1, <1>2

(* Every step of the process, whatever the state its predecessors left.    *)
LEMMA ProcessInvInductive ==
  ASSUME ProcessInv, [Next]_vars
  PROVE  ProcessInv'
<1>1. ASSUME ProcessNext PROVE ProcessInv'
  <2>1. CASE Crash
    BY <2>1, DeathKeepsProcess DEF Crash
  <2>2. CASE AcceptFails
    BY <2>2, DeathKeepsProcess DEF AcceptFails
  <2>3. CASE SshStopped
    BY <2>3, DeathKeepsProcess DEF SshStopped
  <2>4. CASE ServeRequest \/ Signal \/ HttpStopped
    BY <2>4 DEF ServeRequest, Signal, HttpStopped, ProcessInv, ProcessTypeOK, PCs, Up, SignerIsReady,
                KeyIsOnDisk, HostKeySurvives, ListensSomewhere
  <2>. QED BY <1>1, <2>1, <2>2, <2>3, <2>4, StartingKeepsProcess, ListeningKeepsProcess DEF ProcessNext
<1>2. ASSUME UNCHANGED processVars PROVE ProcessInv'
  BY <1>2 DEF processVars, ProcessInv, ProcessTypeOK, PCs, Up, SignerIsReady, KeyIsOnDisk, HostKeySurvives,
              ListensSomewhere
<1>. QED BY <1>1, <1>2 DEF Next, vars

LEMMA ProcessInvInitially ==
  ASSUME Init
  PROVE  ProcessInv
  BY NoneIsNoKey DEF Init, ProcessInit, ProcessInv, ProcessTypeOK, PCs, Up, SignerIsReady, KeyIsOnDisk,
       HostKeySurvives, ListensSomewhere

LEMMA AlwaysProcessInv == Spec => []ProcessInv
  BY ProcessInvInitially, ProcessInvInductive, PTL DEF Spec

(* Whichever way earlier runs of the process ended, in the middle of        *)
(* writing the key file included, the key that clients are shown is the    *)
(* one in the file (loadOrGenerateHostKey).                                *)
THEOREM HostKeySurvivesCrashes == Spec => []HostKeySurvives
  BY AlwaysProcessInv, PTL DEF ProcessInv

----------------------------------------------------------------------------
(* A port given by its number is listened on, or nothing is.               *)
LEMMA NumbersMeanThemselves ==
  ASSUME NEW a, a.form = "port", a # Port(0), ListenPorts(a) # {}
  PROVE  ListenPorts(a) = {a.port}
  BY DEF ListenPorts

(* ssh dials the number that the hint was made of.                         *)
LEMMA HintMatchesAddress ==
  ASSUME NEW e, NEW a, a = SSHListenAddr(e), a.form = "port", a # Port(0), ListenPorts(a) # {}
  PROVE  ListenPorts(a) = {DialledPort(PortSuffix(SSHPort(e)))}
<1>1. ListenPorts(a) = {a.port}
  BY NumbersMeanThemselves
<1>2. SSHPort(e) = a.port
  BY DEF SSHPort
<1>3. DialledPort(PortSuffix(a.port)) = a.port
  BY DEF DialledPort, PortSuffix, Unset, Port
<1>. QED BY <1>1, <1>2, <1>3

(* Config.SSHPort and sshListenAddr agree in every environment in which    *)
(* the proxy gets to listen on a port given by its number.                 *)
THEOREM HintsAlwaysNameTheListener == Spec => []HintsNameTheListener
<1>1. ProcessInv => HintsNameTheListener
  BY HintMatchesAddress, EnvironmentsExist
     DEF ProcessInv, ProcessTypeOK, ListensSomewhere, HintsNameTheListener
<1>. QED BY <1>1, AlwaysProcessInv, PTL

----------------------------------------------------------------------------
(* A connection stays one while it is served.                              *)
ConnTypeOK == conn \in [Conns -> Connection \cup {Closed}]

LEMMA ConnTypeInductive ==
  ASSUME ConnTypeOK, [Next]_vars
  PROVE  ConnTypeOK'
<1>. USE QueueIsBounded DEF ConnTypeOK
<1>1. ASSUME ConnNext PROVE ConnTypeOK'
  <2>1. PICK c \in Conns :
          \/ Accept(c) \/ Handshake(c) \/ DialUpstream(c) \/ EndConn(c)
          \/ ClientLeaves(c) \/ \E state \in {"answering", "silent", "dead"} : UpstreamBecomes(c, state)
          \/ Ping(c) \/ TakeRequest(c) \/ ReplyRequest(c)
          \/ AskChannel(c) \/ OpenChannel(c) \/ ChannelEnds(c)
    BY <1>1 DEF ConnNext
  <2>2. Accepted \in Connection
    BY DEF Accepted, Connection
  <2>3. ~At(c, "closed") => conn[c] \in Connection
    BY DEF At, Closed
  <2>4. SUFFICES \E state \in Connection \cup {Closed} : Set(c, state)
    BY DEF Set
  <2>5. CASE Accept(c)
    BY <2>5, <2>2 DEF Accept
  <2>6. CASE Handshake(c) \/ DialUpstream(c) \/ EndConn(c)
    BY <2>6, <2>3 DEF Handshake, DialUpstream, EndConn, At, Connection
  <2>7. CASE ClientLeaves(c) \/ \E state \in {"answering", "silent", "dead"} : UpstreamBecomes(c, state)
    BY <2>7, <2>3 DEF ClientLeaves, UpstreamBecomes, Connection
  <2>8. CASE Ping(c) \/ TakeRequest(c) \/ ReplyRequest(c)
    BY <2>8, <2>3 DEF Ping, TakeRequest, ReplyRequest, At, Connection
  <2>9. CASE AskChannel(c) \/ OpenChannel(c) \/ ChannelEnds(c)
    BY <2>9, <2>3 DEF AskChannel, OpenChannel, ChannelEnds, At, Connection
  <2>. QED BY <2>1, <2>5, <2>6, <2>7, <2>8, <2>9
<1>2. ASSUME ConnsFollow PROVE ConnTypeOK'
  BY <1>2 DEF ConnsFollow
<1>. QED BY <1>1, <1>2 DEF Next, vars

(* No handler, of a request that is late or of a channel that ends when    *)
(* its connection is gone, leaves a connection that cannot be one.         *)
THEOREM GatewayTyped == Spec => []TypeOK
<1>1. Init => ConnTypeOK
  BY DEF Init, ConnTypeOK
<1>2. ConnTypeOK /\ [Next]_vars => ConnTypeOK'
  BY ConnTypeInductive
<1>3. ProcessInv /\ ConnTypeOK => TypeOK
  BY DEF ProcessInv, ConnTypeOK, TypeOK
<1>. QED BY <1>1, <1>2, <1>3, AlwaysProcessInv, PTL DEF Spec
=============================================================================
