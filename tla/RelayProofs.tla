---------------------------- MODULE RelayProofs ----------------------------
(***************************************************************************)
(* For windows and streams of any size: each direction of a channel is a   *)
(* pipe.  The two directions are proved about at once, as what flows from  *)
(* a side to the other one.                                                *)
(***************************************************************************)
EXTENDS ChannelRelay, TLAPS

Over(s) == peer[s].eof \/ peer[s].closed

(* The direction that begins at s; Inbound and Outbound are the two.       *)
From(s) == INSTANCE Pipe WITH
  sent <- peer[s].data, received <- copy[s].written, over <- Over(s),
  vanished <- s = "client" /\ Lost, hungUp <- peer[Other(s)].closed,
  ended <- leg[Other(s)].eof, shut <- leg[Other(s)].closed

(* What was read and not yet written is the one unit in the buffer.        *)
CopyKeepsCount(s) ==
  /\ copy[s].read <= peer[s].data
  /\ copy[s].pc = "reading" => copy[s].written = copy[s].read
  /\ copy[s].pc = "writing" => copy[s].read = copy[s].written + 1

(* A copy ends when all is written, or nothing can be.                     *)
CopyEndsLast(s) ==
  copy[s].pc \in {"ending", "done"} =>
    leg[Other(s)].closed \/ (Over(s) /\ copy[s].written = peer[s].data)

EofComesLast(s) == leg[Other(s)].eof => copy[s].pc = "done"

RequestsAreCounted(s) ==
  forward[s].passed <= forward[s].taken /\ forward[s].taken <= peer[s].requests

(* Before the client's channel is accepted the client cannot use it;       *)
(* proxyChannel closes what both copies have left; a lost client has left. *)
MainIsInStep ==
  /\ ~Relaying => peer["client"].data = 0 /\ copy["client"].written = 0
  /\ main \in {"closing", "returned"} => \A s \in Sides : copy[s].pc = "done"
  /\ Lost => peer["client"].closed /\ leg["client"].closed

RelayInv ==
  /\ TypeOK /\ MainIsInStep
  /\ \A s \in Sides :
       CopyKeepsCount(s) /\ CopyEndsLast(s) /\ EofComesLast(s) /\ RequestsAreCounted(s)

----------------------------------------------------------------------------
(* There are two sides, and each is the other one of the other.             *)
LEMMA OtherSides == \A s \in Sides : Other(s) \in Sides /\ Other(s) # s /\ Other(Other(s)) = s
  BY DEF Sides, Other

(* A field of one side changes.                                            *)
LEMMA UpdateTypes ==
  ASSUME NEW s \in Sides, TypeOK, NEW b \in BOOLEAN
  PROVE  /\ [leg EXCEPT ![s].closed = b] \in [Sides -> Leg]
         /\ [leg EXCEPT ![s].eof = b] \in [Sides -> Leg]
         /\ [peer EXCEPT ![s].closed = b] \in [Sides -> Peer]
         /\ [peer EXCEPT ![s].eof = b] \in [Sides -> Peer]
<1>1. leg \in [Sides -> Leg] /\ peer \in [Sides -> Peer]
  BY DEF TypeOK
<1>2. /\ [leg[s] EXCEPT !.closed = b] \in Leg /\ [leg[s] EXCEPT !.eof = b] \in Leg
  BY <1>1 DEF Leg
<1>3. /\ [peer[s] EXCEPT !.closed = b] \in Peer /\ [peer[s] EXCEPT !.eof = b] \in Peer
  BY <1>1 DEF Peer
<1>. QED BY <1>1, <1>2, <1>3

(* At first nothing was said.                                              *)
LEMMA InitRelay == Init => RelayInv
<1> SUFFICES ASSUME Init PROVE RelayInv
  OBVIOUS
<1>1. /\ [data |-> 0, errors |-> 0, requests |-> 0, eof |-> FALSE, closed |-> FALSE] \in Peer
      /\ [eof |-> FALSE, closed |-> FALSE] \in Leg
      /\ [pc |-> "reading", read |-> 0, written |-> 0] \in Copy
      /\ [pc |-> "receiving", taken |-> 0, passed |-> 0] \in Forward
  BY RelayBounds DEF Peer, Leg, Copy, Forward
<1>2. TypeOK
  BY <1>1 DEF Init, TypeOK
<1>3. MainIsInStep
  BY DEF Init, MainIsInStep, Lost, Sides
<1>4. ASSUME NEW s \in Sides
      PROVE  CopyKeepsCount(s) /\ CopyEndsLast(s) /\ EofComesLast(s) /\ RequestsAreCounted(s)
  BY OtherSides DEF Init, CopyKeepsCount, CopyEndsLast, EofComesLast, RequestsAreCounted
<1>. QED BY <1>2, <1>3, <1>4 DEF RelayInv

(* The variables keep their types: what is read and taken is bounded by    *)
(* what was sent.                                                          *)
LEMMA TypeStep == RelayInv /\ [Next]_vars => TypeOK'
<1> SUFFICES ASSUME RelayInv, [Next]_vars PROVE TypeOK'
  OBVIOUS
<1>0. TypeOK
  BY DEF RelayInv
<1>a. /\ peer \in [Sides -> Peer] /\ leg \in [Sides -> Leg]
      /\ copy \in [Sides -> Copy] /\ forward \in [Sides -> Forward]
  BY <1>0 DEF TypeOK
<1>1. ASSUME NEW s \in Sides, PeerSends(s) \/ PeerRequests(s) PROVE TypeOK'
  <2>0. peer[s].requests + peer[Other(s)].requests < MaxRequests
          => peer[s].requests < MaxRequests
    <3>1. peer[s] \in Peer /\ peer[Other(s)] \in Peer
      BY <1>a, OtherSides
    <3>. QED BY <3>1, RelayBounds DEF Peer
  <2>1. /\ peer[s].data < MaxData => [peer[s] EXCEPT !.data = @ + 1] \in Peer
        /\ peer[s].errors < MaxErrors => [peer[s] EXCEPT !.errors = @ + 1] \in Peer
        /\ peer[s].requests < MaxRequests => [peer[s] EXCEPT !.requests = @ + 1] \in Peer
    BY <1>a, RelayBounds DEF Peer
  <2>2. peer' \in [Sides -> Peer]
    BY <1>a, <1>1, <2>0, <2>1 DEF PeerSends, PeerRequests
  <2>. QED BY <1>0, <1>1, <2>2 DEF PeerSends, PeerRequests, TypeOK
<1>2. ASSUME NEW s \in Sides, PeerEnds(s) \/ PeerCloses(s) PROVE TypeOK'
  <2>1. CASE PeerEnds(s)
    BY <1>0, <2>1, UpdateTypes DEF PeerEnds, TypeOK
  <2>2. CASE PeerCloses(s)
    BY <1>0, <2>2, UpdateTypes DEF PeerCloses, TypeOK
  <2>. QED BY <1>2, <2>1, <2>2
<1>3. ASSUME NEW s \in Sides, Read(s) PROVE TypeOK'
  <2>1. peer[s].data \in 0 .. MaxData /\ copy[s].read \in 0 .. MaxData
    BY <1>a DEF Peer, Copy
  <2>2. copy[s].read < peer[s].data => copy[s].read + 1 \in 0 .. MaxData
    BY <2>1, RelayBounds
  <2>3. /\ copy[s].read < peer[s].data =>
             [copy[s] EXCEPT !.pc = "writing", !.read = @ + 1] \in Copy
        /\ [copy[s] EXCEPT !.pc = "ending"] \in Copy
    BY <1>a, <2>2 DEF Copy
  <2>4. copy' \in [Sides -> Copy]
    BY <1>a, <1>3, <2>3 DEF Read
  <2>. QED BY <1>0, <1>3, <2>4 DEF Read, TypeOK
<1>4. ASSUME NEW s \in Sides, Write(s) PROVE TypeOK'
  <2>1. copy[s].written + 1 = copy[s].read
    BY <1>4 DEF Write, RelayInv, CopyKeepsCount
  <2>2. /\ [copy[s] EXCEPT !.pc = "reading", !.written = @ + 1] \in Copy
        /\ [copy[s] EXCEPT !.pc = "ending"] \in Copy
    BY <1>a, <2>1, RelayBounds DEF Copy
  <2>3. copy' \in [Sides -> Copy]
    BY <1>a, <1>4, <2>2 DEF Write
  <2>. QED BY <1>0, <1>4, <2>3 DEF Write, TypeOK
<1>5. ASSUME NEW s \in Sides, CloseWrite(s) PROVE TypeOK'
  <2>1. [copy[s] EXCEPT !.pc = "done"] \in Copy
    BY <1>a DEF Copy
  <2>2. copy' \in [Sides -> Copy]
    BY <1>a, <1>5, <2>1 DEF CloseWrite
  <2>3. leg' \in [Sides -> Leg]
    BY <1>0, <1>5, OtherSides, UpdateTypes DEF CloseWrite
  <2>. QED BY <1>0, <1>5, <2>2, <2>3 DEF CloseWrite, TypeOK
<1>6. ASSUME NEW s \in Sides, ForwardRequest(s) \/ Reply(s) PROVE TypeOK'
  <2>1. /\ forward[s].passed <= forward[s].taken
        /\ forward[s].passed \in 0 .. MaxRequests /\ forward[s].taken \in 0 .. MaxRequests
        /\ peer[s].requests \in 0 .. MaxRequests
    BY <1>a DEF RelayInv, RequestsAreCounted, Peer, Forward
  <2>2. forward[s].taken < peer[s].requests =>
          forward[s].taken + 1 \in 0 .. MaxRequests /\ forward[s].passed + 1 \in 0 .. MaxRequests
    BY <2>1, RelayBounds
  <2>3. /\ [forward[s] EXCEPT !.pc = "ended"] \in Forward
        /\ [forward[s] EXCEPT !.pc = "receiving"] \in Forward
        /\ forward[s].taken < peer[s].requests =>
             /\ [forward[s] EXCEPT !.taken = @ + 1] \in Forward
             /\ \A pc \in {"receiving", "awaiting"} :
                  [forward[s] EXCEPT !.pc = pc, !.taken = @ + 1, !.passed = @ + 1] \in Forward
    BY <1>a, <2>2 DEF Forward
  <2>4. forward' \in [Sides -> Forward]
    <3>1. CASE Reply(s)
      BY <1>a, <2>3, <3>1 DEF Reply
    <3>2. CASE ForwardRequest(s) /\ forward[s].taken < peer[s].requests
      <4>1. CASE forward' = [forward EXCEPT ![s].pc = "ended"]
        BY <1>a, <2>3, <4>1
      <4>2. CASE forward' = [forward EXCEPT ![s].taken = @ + 1]
        BY <1>a, <2>3, <3>2, <4>2
      <4>3. ASSUME NEW pc \in {"receiving", "awaiting"},
                   forward' = [forward EXCEPT
                     ![s].pc = pc, ![s].taken = @ + 1, ![s].passed = @ + 1]
            PROVE  forward' \in [Sides -> Forward]
        <5>1. [forward[s] EXCEPT !.pc = pc, !.taken = @ + 1, !.passed = @ + 1] \in Forward
          BY <2>3, <3>2
        <5>2. forward' = [forward EXCEPT ![s] =
                [forward[s] EXCEPT !.pc = pc, !.taken = @ + 1, !.passed = @ + 1]]
          BY <1>a, <4>3
        <5>. QED BY <1>a, <5>1, <5>2
      <4>. QED BY <3>2, <4>1, <4>2, <4>3 DEF ForwardRequest
    <3>3. CASE ForwardRequest(s) /\ ~(forward[s].taken < peer[s].requests)
      BY <1>a, <2>3, <3>3 DEF ForwardRequest
    <3>. QED BY <1>6, <3>1, <3>2, <3>3
  <2>. QED BY <1>0, <1>6, <2>4 DEF ForwardRequest, Reply, TypeOK
<1>7. CASE ClientLost \/ CloseUpstreamClient
  BY <1>0, <1>7, UpdateTypes DEF ClientLost, CloseUpstreamClient, Sides, TypeOK
<1>8. CASE Main
  BY <1>0, <1>8, UpdateTypes DEF Main, OpenUpstream, Accept, CloseLocal, CloseUpstream, Sides, TypeOK
<1>9. CASE UNCHANGED vars
  BY <1>0, <1>9 DEF vars, TypeOK
<1>. QED BY <1>1, <1>2, <1>3, <1>4, <1>5, <1>6, <1>7, <1>8, <1>9 DEF Next, Copies, Forwards

(* The copies and the forwarders keep count, and proxyChannel is in step   *)
(* with them.                                                              *)
LEMMA RelayStep == RelayInv /\ [Next]_vars => RelayInv'
<1> SUFFICES ASSUME RelayInv, [Next]_vars PROVE RelayInv'
  OBVIOUS
<1>. USE RelayBounds, OtherSides
     DEF RelayInv, Peer, Leg, MainIsInStep, Relaying, Over,
         CopyKeepsCount, CopyEndsLast, EofComesLast, RequestsAreCounted, Lost
<1>0. TypeOK /\ TypeOK'
  BY TypeStep
<1>. USE DEF TypeOK
<1>a. \A t \in Sides :
        /\ peer[t].data \in Nat /\ peer[t].requests \in Nat
        /\ copy[t].read \in Nat /\ copy[t].written \in Nat /\ forward[t].taken \in Nat
  BY <1>0 DEF Copy, Forward
<1>1. ASSUME NEW s \in Sides, PeerSends(s) PROVE RelayInv'
  <2>1. CASE peer' = [peer EXCEPT ![s].data = @ + 1]
    <3>1. \A t \in Sides :
            /\ peer'[t].data >= peer[t].data
            /\ peer'[t].requests = peer[t].requests
            /\ peer'[t].eof = peer[t].eof /\ peer'[t].closed = peer[t].closed
            /\ Over(t) \/ (t = "client" /\ ~Relaying) => peer'[t].data = peer[t].data
      BY <1>0, <1>a, <1>1, <2>1 DEF PeerSends, Open, Gone
    <3>. QED BY <1>0, <1>a, <1>1, <3>1 DEF PeerSends, Sides
  <2>2. CASE peer' = [peer EXCEPT ![s].errors = @ + 1]
    BY <1>0, <1>a, <1>1, <2>2 DEF PeerSends, Sides
  <2>. QED BY <1>1, <2>1, <2>2 DEF PeerSends
<1>2. ASSUME NEW s \in Sides, PeerRequests(s) PROVE RelayInv'
  <2>1. \A t \in Sides :
          /\ peer'[t].requests >= peer[t].requests /\ peer'[t].data = peer[t].data
          /\ peer'[t].eof = peer[t].eof /\ peer'[t].closed = peer[t].closed
    BY <1>0, <1>a, <1>2 DEF PeerRequests
  <2>. QED BY <1>0, <1>a, <1>2, <2>1 DEF PeerRequests, Sides
<1>3. ASSUME NEW s \in Sides, PeerEnds(s) \/ PeerCloses(s) PROVE RelayInv'
  BY <1>0, <1>3 DEF PeerEnds, PeerCloses, Open, Gone, Sides, Other
<1>4. ASSUME NEW s \in Sides, Read(s) PROVE RelayInv'
  BY <1>0, <1>4 DEF Read, Gone, Lost, Copy, Sides, Other
<1>5. ASSUME NEW s \in Sides, Write(s) PROVE RelayInv'
  BY <1>0, <1>5 DEF Write, Copy, Sides, Other
<1>6. ASSUME NEW s \in Sides, CloseWrite(s) PROVE RelayInv'
  BY <1>0, <1>6 DEF CloseWrite, Copy, Sides, Other
<1>7. ASSUME NEW s \in Sides, Forwards(s) PROVE RelayInv'
  BY <1>0, <1>7 DEF Forwards, ForwardRequest, Reply, Forward, Sides, Other
<1>8. CASE ClientLost \/ CloseUpstreamClient
  BY <1>0, <1>8 DEF ClientLost, CloseUpstreamClient, Lost, Sides, Other
<1>9. CASE OpenUpstream \/ Accept
  BY <1>0, <1>9 DEF OpenUpstream, Accept, Sides, Other
<1>10. CASE CloseLocal \/ CloseUpstream
  BY <1>0, <1>10 DEF CloseLocal, CloseUpstream, Sides, Other
<1>11. CASE UNCHANGED vars
  BY <1>0, <1>11 DEF vars
<1>. QED BY <1>1, <1>2, <1>3, <1>4, <1>5, <1>6, <1>7, <1>8, <1>9, <1>10, <1>11
         DEF Next, Copies, Main

(* The invariant that the theorems of this module follow from.             *)
LEMMA AlwaysInStep == Spec => []RelayInv
  BY InitRelay, RelayStep, PTL DEF Spec

(* Whatever order ends, closes and requests come in, counts stay within    *)
(* what the peers have sent.                                               *)
THEOREM RelayTyped == Spec => []TypeOK
<1>1. RelayInv => TypeOK
  BY DEF RelayInv
<1>. QED BY <1>1, AlwaysInStep, PTL

----------------------------------------------------------------------------
(* Sending ends and closes nothing, and only a side that is not over sends.*)
LEMMA SendingIsNotEnding ==
  ASSUME TypeOK, NEW s \in Sides, NEW t \in Sides, PeerSends(t)
  PROVE  /\ peer'[s].eof = peer[s].eof /\ peer'[s].closed = peer[s].closed
         /\ \/ ~Over(s) /\ peer'[s].data = peer[s].data + 1
            \/ peer'[s].data = peer[s].data
<1>1. peer \in [Sides -> Peer]
  BY DEF TypeOK
<1>2. ~Over(t) /\ (\/ peer' = [peer EXCEPT ![t].data = @ + 1]
                  \/ peer' = [peer EXCEPT ![t].errors = @ + 1])
  BY DEF PeerSends, Open, Gone, Over
<1>3. CASE s = t
  BY <1>1, <1>2, <1>3 DEF Peer
<1>4. CASE s # t
  BY <1>1, <1>2, <1>4
<1>. QED BY <1>3, <1>4

(* A close is the end of the one direction, and takes leave of the other.  *)
LEMMA ClosingIsEnding ==
  ASSUME TypeOK, NEW s \in Sides, NEW t \in Sides, PeerCloses(t)
  PROVE  /\ peer'[s].data = peer[s].data
         /\ \/ /\ peer'[s].closed = TRUE /\ peer'[Other(s)].closed = peer[Other(s)].closed
               /\ leg'[Other(s)] = leg[Other(s)]
            \/ /\ peer'[s].eof = peer[s].eof /\ peer'[s].closed = peer[s].closed
               /\ peer'[Other(s)].closed = TRUE /\ leg'[Other(s)].closed = TRUE
               /\ leg'[Other(s)].eof = leg[Other(s)].eof
<1>1. peer \in [Sides -> Peer] /\ leg \in [Sides -> Leg]
  BY DEF TypeOK
<1>2. CASE s = t
  <2>1. Other(s) \in Sides /\ Other(s) # t
    BY <1>2, OtherSides
  <2>. QED BY <1>1, <1>2, <2>1 DEF PeerCloses, Peer
<1>3. CASE Other(s) = t
  <2>1. s # t
    BY <1>3, OtherSides
  <2>. QED BY <1>1, <1>3, <2>1 DEF PeerCloses, Peer, Leg
<1>. QED BY <1>2, <1>3 DEF Sides, Other

(* What a peer does, for the direction it begins and the other one.        *)
LEMMA PeersFlow ==
  ASSUME RelayInv, NEW s \in Sides, NEW t \in Sides,
         PeerSends(t) \/ PeerRequests(t) \/ PeerEnds(t) \/ PeerCloses(t)
  PROVE  [From(s)!Next]_(From(s)!pipe)
<1>. USE DEF From!Next, From!pipe, Over, Lost
<1>0. TypeOK
  BY DEF RelayInv
<1>1. CASE PeerSends(t)
  <2>1. \A u \in Sides : peer'[u].eof = peer[u].eof /\ peer'[u].closed = peer[u].closed
    BY <1>0, <1>1, SendingIsNotEnding
  <2>2. \/ ~Over(s) /\ peer'[s].data = peer[s].data + 1
        \/ peer'[s].data = peer[s].data
    BY <1>0, <1>1, SendingIsNotEnding
  <2>. QED BY <1>1, <2>1, <2>2, OtherSides DEF PeerSends, From!Send
<1>2. CASE PeerRequests(t)
  BY <1>0, <1>2, OtherSides DEF PeerRequests, TypeOK, Peer
<1>3. CASE PeerEnds(t)
  BY <1>0, <1>3, OtherSides DEF PeerEnds, From!Finish, TypeOK, Peer
<1>4. CASE PeerCloses(t)
  <2>1. /\ peer'[s].data = peer[s].data
        /\ UNCHANGED <<copy, link>>
    BY <1>0, <1>4, ClosingIsEnding DEF PeerCloses
  <2>2. CASE /\ peer'[s].closed = TRUE /\ peer'[Other(s)].closed = peer[Other(s)].closed
             /\ leg'[Other(s)] = leg[Other(s)]
    <3>1. Over(s)' = TRUE
      BY <2>2
    <3>. QED BY <2>1, <2>2, <3>1 DEF From!Finish
  <2>3. CASE /\ peer'[s].eof = peer[s].eof /\ peer'[s].closed = peer[s].closed
             /\ peer'[Other(s)].closed = TRUE /\ leg'[Other(s)].closed = TRUE
             /\ leg'[Other(s)].eof = leg[Other(s)].eof
    BY <2>1, <2>3 DEF From!HangUp
  <2>. QED BY <1>0, <1>4, <2>2, <2>3, ClosingIsEnding
<1>. QED BY <1>1, <1>2, <1>3, <1>4

(* What is written by a copy's step.                                       *)
LEMMA CopiesWrite ==
  ASSUME TypeOK, NEW s \in Sides, NEW t \in Sides
  PROVE  /\ Read(t) => copy'[s].written = copy[s].written
         /\ Write(t) =>
              \/ copy'[s].written = copy[s].written
              \/ /\ copy'[s].written = copy[s].written + 1
                 /\ copy[s].pc = "writing" /\ ~leg[Other(s)].closed
<1>1. copy \in [Sides -> Copy]
  BY DEF TypeOK
<1>2. CASE s = t
  BY <1>1, <1>2 DEF Read, Write, Copy
<1>3. CASE s # t
  BY <1>1, <1>3 DEF Read, Write
<1>. QED BY <1>2, <1>3

(* What the goroutines do.                                                 *)
LEMMA CopiesFlow ==
  ASSUME RelayInv, NEW s \in Sides, NEW t \in Sides, Copies(t) \/ Forwards(t)
  PROVE  [From(s)!Next]_(From(s)!pipe)
<1>. USE OtherSides DEF From!Next, From!pipe, Over, Lost, RelayInv, TypeOK, Peer, Leg
<1>1. CASE Read(t)
  BY <1>1, CopiesWrite DEF Read
<1>2. CASE Write(t)
  <2>1. \/ copy'[s].written = copy[s].written
        \/ /\ copy'[s].written = copy[s].written + 1
           /\ copy[s].pc = "writing" /\ ~leg[Other(s)].closed
    BY <1>2, CopiesWrite
  <2>2. copy[s].pc = "writing" => ~leg[Other(s)].eof /\ copy[s].written < peer[s].data
    <3>1. copy[s].written \in Nat /\ peer[s].data \in Nat
      BY DEF Copy
    <3>. QED BY <3>1 DEF CopyKeepsCount, EofComesLast
  <2>. QED BY <1>2, <2>1, <2>2 DEF Write, From!Receive
<1>3. CASE CloseWrite(t)
  BY <1>3 DEF CloseWrite, Copy, From!End, CopyEndsLast, Sides, Other
<1>4. CASE Forwards(t)
  BY <1>4 DEF Forwards, ForwardRequest, Reply
<1>. QED BY <1>1, <1>2, <1>3, <1>4 DEF Copies

(* What proxyChannel does, and the loss of the client.                     *)
LEMMA MainFlows ==
  ASSUME RelayInv, NEW s \in Sides, ClientLost \/ CloseUpstreamClient \/ Main
  PROVE  [From(s)!Next]_(From(s)!pipe)
<1>. USE OtherSides DEF From!Next, From!pipe, Over, Lost, RelayInv, TypeOK, Peer, Leg
<1>1. CASE ClientLost
  BY <1>1 DEF ClientLost, Lost, From!Finish, From!HangUp, Sides, Other
<1>2. CASE CloseUpstreamClient
  BY <1>2 DEF CloseUpstreamClient, Lost, From!Shut, Sides, Other
<1>3. CASE OpenUpstream
  BY <1>3 DEF OpenUpstream
<1>4. CASE Accept
  BY <1>4 DEF Accept, Lost, From!Shut, Relaying, MainIsInStep, Sides, Other
<1>5. CASE CloseLocal
  BY <1>5 DEF CloseLocal, From!Shut, CopyEndsLast, Sides, Other
<1>6. CASE CloseUpstream
  BY <1>6 DEF CloseUpstream, From!Shut, CopyEndsLast, MainIsInStep, Sides, Other
<1>. QED BY <1>1, <1>2, <1>3, <1>4, <1>5, <1>6 DEF Main

(* Every step is one of a pipe, or changes nothing that the pipe sees.     *)
LEMMA EveryStepFlows ==
  ASSUME RelayInv, [Next]_vars, NEW s \in Sides
  PROVE  [From(s)!Next]_(From(s)!pipe)
<1>1. CASE UNCHANGED vars
  BY <1>1 DEF vars, From!pipe, Over, Lost
<1>. QED BY <1>1, PeersFlow, CopiesFlow, MainFlows DEF Next

(* Client to upstream: what the upstream gets is what the client sent, in  *)
(* order, and its input ends after all of it.  The stream is cut off only  *)
(* when the upstream closes the channel or the client's connection is lost.*)
THEOREM InboundAlwaysIsPipe == Spec => InboundIsPipe
<1>1. Init => Inbound!Init
  BY DEF Init, Inbound!Init, Lost, Sides
<1>2. RelayInv /\ [Next]_vars => [Inbound!Next]_(Inbound!pipe)
  <2> SUFFICES ASSUME RelayInv, [Next]_vars PROVE [Inbound!Next]_(Inbound!pipe)
    OBVIOUS
  <2>1. [From("client")!Next]_(From("client")!pipe)
    BY EveryStepFlows DEF Sides
  <2>. QED BY <2>1
    DEF From!Next, From!pipe, From!Send, From!Finish, From!Receive, From!HangUp,
        From!End, From!Shut, Lost,
        Inbound!Next, Inbound!pipe, Inbound!Send, Inbound!Finish, Inbound!Receive,
        Inbound!HangUp, Inbound!End, Inbound!Shut, Over, Other
<1>. QED BY <1>1, <1>2, AlwaysInStep, PTL DEF Spec, InboundIsPipe, Inbound!Spec

(* Upstream to client: nothing the upstream wrote is lost or cut off while *)
(* the client is there to read it.                                         *)
THEOREM OutboundAlwaysIsPipe == Spec => OutboundIsPipe
<1>1. Init => Outbound!Init
  BY DEF Init, Outbound!Init, Sides
<1>2. RelayInv /\ [Next]_vars => [Outbound!Next]_(Outbound!pipe)
  <2> SUFFICES ASSUME RelayInv, [Next]_vars PROVE [Outbound!Next]_(Outbound!pipe)
    OBVIOUS
  <2>1. [From("upstream")!Next]_(From("upstream")!pipe)
    BY EveryStepFlows DEF Sides
  <2>. QED BY <2>1
    DEF From!Next, From!pipe, From!Send, From!Finish, From!Receive, From!HangUp,
        From!End, From!Shut, Lost,
        Outbound!Next, Outbound!pipe, Outbound!Send, Outbound!Finish, Outbound!Receive,
        Outbound!HangUp, Outbound!End, Outbound!Shut, Over, Other
<1>. QED BY <1>1, <1>2, AlwaysInStep, PTL DEF Spec, OutboundIsPipe, Outbound!Spec
=============================================================================
