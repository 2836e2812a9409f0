------------------------------ MODULE Gateway ------------------------------
(***************************************************************************)
(* The SSH connections that the process serves, from Accept to the end of  *)
(* handleConn.  One goroutine dials the upstream and then waits for new    *)
(* channels, each is opened by a goroutine of its own, and one more passes *)
(* on the client's global requests (keepalives, for one).  The SSH library *)
(* reads the client's connection into a queue of global requests and stops *)
(* reading when it is full: then it does not see the connection end.       *)
(*                                                                         *)
(* An upstream may fall silent, for good or for a while, or die; nothing   *)
(* in the program notices the former.                                      *)
(***************************************************************************)
EXTENDS Lifecycle

CONSTANTS
  Conns,     \* goroutines serving connections
  Queue,     \* global requests the library holds for the program
  MaxPings   \* bound: global requests a client ever sends

ASSUME QueueIsBounded == Queue \in Nat /\ MaxPings \in Nat

VARIABLE conn

vars == <<processVars, conn>>

Closed == [pc |-> "closed"]

\* read and replied count the client's global requests that the program has
\* taken from the queue and answered.
Connection ==
  [pc: {"handshake", "dialing", "serving"}, client: {"here", "gone"},
   upstream: {"answering", "silent", "dead"},
   sent: 0 .. MaxPings, read: 0 .. MaxPings, replied: 0 .. MaxPings,
   channel: {"none", "opening", "open"}]

Accepted ==
  [pc |-> "handshake", client |-> "here", upstream |-> "answering",
   sent |-> 0, read |-> 0, replied |-> 0, channel |-> "none"]

TypeOK == ProcessTypeOK /\ conn \in [Conns -> Connection \cup {Closed}]

Init == ProcessInit /\ conn = [c \in Conns |-> Closed]

Set(c, state) == conn' = [conn EXCEPT ![c] = state]

At(c, pc) == conn[c].pc = pc

(* The queue is full and one more request waits to be put there.           *)
Clogged(c) == conn[c].sent - conn[c].read > Queue

----------------------------------------------------------------------------
(* Run accepts, and starts handleConn.                                     *)
Accept(c) ==
  /\ "ssh" \in listening /\ At(c, "closed")
  /\ Set(c, Accepted)

(* The handshake and the lookup of the target; nothing hurries a client    *)
(* that does not go on with the handshake.                                 *)
Handshake(c) ==
  /\ At(c, "handshake")
  /\ \/ conn[c].client = "here" /\ Set(c, [conn[c] EXCEPT !.pc = "dialing"])
     \/ Set(c, Closed)

(* dialUpstream, whose SSH handshake an upstream may leave unanswered.     *)
DialUpstream(c) ==
  /\ At(c, "dialing") /\ conn[c].upstream # "silent"
  /\ \/ conn[c].upstream = "answering" /\ Set(c, [conn[c] EXCEPT !.pc = "serving"])
     \/ Set(c, Closed)

ClientLeaves(c) ==
  /\ ~At(c, "closed") /\ conn[c].client = "here"
  /\ Set(c, [conn[c] EXCEPT !.client = "gone"])

UpstreamBecomes(c, state) ==
  /\ ~At(c, "closed") /\ conn[c].upstream \notin {"dead", state}
  /\ Set(c, [conn[c] EXCEPT !.upstream = state])

(* Variant for mutation: handleConn returns only with both peers.          *)
EndWithBoth(c) ==
  /\ At(c, "serving") /\ conn[c].client = "gone" /\ ~Clogged(c)
  /\ conn[c].upstream = "dead"
  /\ Set(c, Closed)

(* The loop over the client's channels ends with its connection, as soon   *)
(* as the library sees that; the deferred calls close the upstream's.      *)
EndConn(c) ==
  /\ At(c, "serving") /\ conn[c].client = "gone" /\ ~Clogged(c)
  /\ Set(c, Closed)

----------------------------------------------------------------------------
Ping(c) ==
  /\ At(c, "serving") /\ conn[c].client = "here"
  /\ conn[c].sent < MaxPings /\ ~Clogged(c)
  /\ Set(c, [conn[c] EXCEPT !.sent = @ + 1])

(* Variant for mutation: a request that fails is logged and dropped.       *)
ReplyOnSuccess(c) ==
  /\ At(c, "serving") /\ conn[c].replied < conn[c].read
  /\ conn[c].upstream = "answering"
  /\ Set(c, [conn[c] EXCEPT !.replied = @ + 1])

(* proxyGlobalRequests takes one request at a time, sends it on and passes *)
(* the answer back; when it cannot be sent the answer is no.  Requests     *)
(* that want no reply wait for nothing and are left out.                   *)
TakeRequest(c) ==
  /\ At(c, "serving")
  /\ conn[c].replied = conn[c].read /\ conn[c].read < conn[c].sent
  /\ Set(c, [conn[c] EXCEPT !.read = @ + 1])

ReplyRequest(c) ==
  /\ At(c, "serving") /\ conn[c].replied < conn[c].read
  /\ conn[c].upstream # "silent"
  /\ Set(c, [conn[c] EXCEPT !.replied = @ + 1])

AskChannel(c) ==
  /\ At(c, "serving") /\ conn[c].client = "here" /\ ~Clogged(c)
  /\ conn[c].channel = "none"
  /\ Set(c, [conn[c] EXCEPT !.channel = "opening"])

(* Variant for mutation: the client is not told.                           *)
OpenOrLog(c) ==
  /\ At(c, "serving") /\ conn[c].channel = "opening"
  /\ conn[c].upstream = "answering"
  /\ Set(c, [conn[c] EXCEPT !.channel = "open"])

(* proxyChannel opens the channel upstream first, and rejects it when that *)
(* is refused or the upstream's connection is gone.  The loop goes on, so  *)
(* the client may ask again.                                               *)
OpenChannel(c) ==
  /\ At(c, "serving") /\ conn[c].channel = "opening"
  /\ \/ conn[c].upstream = "answering" /\ Set(c, [conn[c] EXCEPT !.channel = "open"])
     \/ conn[c].upstream # "silent" /\ Set(c, [conn[c] EXCEPT !.channel = "none"])

(* ChannelRelay has what happens to a channel that is open.                *)
ChannelEnds(c) ==
  /\ At(c, "serving") /\ conn[c].channel = "open"
  /\ Set(c, [conn[c] EXCEPT !.channel = "none"])

ConnNext ==
  \E c \in Conns :
    \/ Accept(c) \/ Handshake(c) \/ DialUpstream(c) \/ EndConn(c)
    \/ ClientLeaves(c) \/ \E state \in {"answering", "silent", "dead"} : UpstreamBecomes(c, state)
    \/ Ping(c) \/ TakeRequest(c) \/ ReplyRequest(c)
    \/ AskChannel(c) \/ OpenChannel(c) \/ ChannelEnds(c)

(* The connections of a process end with it, and not before: closing the   *)
(* listener leaves them alone.                                             *)
ConnsFollow == conn' = IF proc' = "down" THEN [c \in Conns |-> Closed] ELSE conn

Next ==
  \/ ProcessNext /\ ConnsFollow
  \/ ConnNext /\ UNCHANGED processVars

Spec == Init /\ [][Next]_vars

(* The goroutines of the process are scheduled; nobody has to start it, to *)
(* stop it, to finish a request or a handshake, or to leave.               *)
FairSpec ==
  /\ Spec
  /\ WF_vars(InitServices /\ ConnsFollow) /\ WF_vars(LoadOrGenerate /\ ConnsFollow)
  /\ WF_vars(WriteKey /\ ConnsFollow)
  /\ \A face \in Faces : WF_vars(Listen(face) /\ ConnsFollow)
  /\ WF_vars(HttpStopped /\ ConnsFollow) /\ WF_vars(SshStopped /\ ConnsFollow)
  /\ \A c \in Conns :
       /\ WF_vars(DialUpstream(c) /\ UNCHANGED processVars)
       /\ WF_vars(EndConn(c) /\ UNCHANGED processVars)
       /\ WF_vars((TakeRequest(c) \/ ReplyRequest(c)) /\ UNCHANGED processVars)
       /\ WF_vars(OpenChannel(c) /\ UNCHANGED processVars)

----------------------------------------------------------------------------
Silent(c) == conn[c].pc # "closed" /\ conn[c].upstream = "silent"

(* A client that has left takes its upstream connection with it, even when *)
(* its unanswered requests have filled the queue behind which the library  *)
(* would see it leave: only an upstream that is silent keeps both.         *)
UpstreamsAreReleased ==
  \A c \in Conns :
    conn[c].pc \in {"dialing", "serving"} /\ conn[c].client = "gone"
      ~> At(c, "closed") \/ Silent(c)

(* Every keepalive of a client is answered while the client is there, also *)
(* those still queued when the upstream dies.                              *)
PingsAreAnswered ==
  \A c \in Conns, n \in 1 .. MaxPings :
    At(c, "serving") /\ conn[c].sent >= n
      ~> \/ At(c, "closed") \/ Silent(c) \/ conn[c].client = "gone"
         \/ conn[c].replied >= n

(* A channel asked for once the upstream has died is refused, not left     *)
(* hanging.                                                                *)
ChannelsAreDecided ==
  \A c \in Conns :
    At(c, "serving") /\ conn[c].channel = "opening"
      ~> At(c, "closed") \/ Silent(c) \/ conn[c].channel # "opening"
=============================================================================
