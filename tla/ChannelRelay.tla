---------------------------- MODULE ChannelRelay ----------------------------
(***************************************************************************)
(* One SSH channel through the proxy: proxyChannel joins a channel to the  *)
(* client and a channel to the upstream.  Two goroutines copy data, two    *)
(* forward requests, and proxyChannel closes both channels when the copies *)
(* are over.  The two peers and the SSH library are outside the program.   *)
(*                                                                         *)
(* Data and requests are counted: every buffer is a queue, so the n-th     *)
(* unit out is the n-th unit in.  The library keeps data and requests of a *)
(* channel apart; one may overtake the other.                              *)
(***************************************************************************)
EXTENDS Naturals

CONSTANTS
  Window,       \* units a peer may send before the proxy reads them
  MaxData, MaxErrors,  \* bounds: units that a peer ever sends
  MaxRequests          \* and requests that the two peers ever make between them

ASSUME RelayBounds ==
  Window \in Nat \ {0} /\ MaxData \in Nat /\ MaxErrors \in Nat /\ MaxRequests \in Nat

Sides == {"client", "upstream"}
Other(s) == IF s = "client" THEN "upstream" ELSE "client"

VARIABLES
  peer,     \* what each peer has sent: data, error output, requests, its end
  link,     \* the client's connection, and the one to the upstream with it
  leg,      \* what the proxy has said on each channel: EOF, close
  copy,     \* the goroutine that copies from each side to the other
  forward,  \* the goroutine that forwards requests from each side
  main      \* proxyChannel itself

vars == <<peer, link, leg, copy, forward, main>>

Peer == [data: 0 .. MaxData, errors: 0 .. MaxErrors, requests: 0 .. MaxRequests,
         eof: BOOLEAN, closed: BOOLEAN]
Leg == [eof: BOOLEAN, closed: BOOLEAN]
Copy == [pc: {"reading", "writing", "ending", "done"}, read: 0 .. MaxData, written: 0 .. MaxData]
Forward == [pc: {"receiving", "awaiting", "ended"},
            taken: 0 .. MaxRequests, passed: 0 .. MaxRequests]

TypeOK ==
  /\ peer \in [Sides -> Peer] /\ link \in {"up", "lost", "closed"}
  /\ leg \in [Sides -> Leg]
  /\ copy \in [Sides -> Copy] /\ forward \in [Sides -> Forward]
  /\ main \in {"opening", "accepting", "relaying", "closing", "returned", "rejected"}

Init ==
  /\ peer = [s \in Sides |-> [data |-> 0, errors |-> 0, requests |-> 0,
                              eof |-> FALSE, closed |-> FALSE]]
  /\ link = "up"
  /\ leg = [s \in Sides |-> [eof |-> FALSE, closed |-> FALSE]]
  /\ copy = [s \in Sides |-> [pc |-> "reading", read |-> 0, written |-> 0]]
  /\ forward = [s \in Sides |-> [pc |-> "receiving", taken |-> 0, passed |-> 0]]
  /\ main = "opening"

Relaying == main \notin {"opening", "accepting", "rejected"}

Lost == link # "up"

(* Nothing more comes from a side: its peer has closed the channel, or the *)
(* proxy itself has closed the connection to the upstream.                 *)
Gone(s) == peer[s].closed \/ (s = "upstream" /\ link = "closed")

----------------------------------------------------------------------------
(* The peers.  A channel can be used once it is confirmed to its peer.     *)
Open(s) ==
  /\ IF s = "client" THEN Relaying ELSE main # "opening"
  /\ ~Gone(s)

(* Error output is never read: it takes its share of the window for good.  *)
Unread(s) == peer[s].data - copy[s].read + peer[s].errors

PeerSends(s) ==
  /\ Open(s) /\ ~peer[s].eof /\ Unread(s) < Window
  /\ \/ peer[s].data < MaxData /\ peer' = [peer EXCEPT ![s].data = @ + 1]
     \/ /\ s = "upstream" /\ peer[s].errors < MaxErrors
        /\ peer' = [peer EXCEPT ![s].errors = @ + 1]
  /\ UNCHANGED <<link, leg, copy, forward, main>>

PeerRequests(s) ==
  /\ Open(s) /\ peer[s].requests + peer[Other(s)].requests < MaxRequests
  /\ peer' = [peer EXCEPT ![s].requests = @ + 1]
  /\ UNCHANGED <<link, leg, copy, forward, main>>

(* A peer with more to write than the window takes is not at its end.      *)
PeerEnds(s) ==
  /\ Open(s) /\ ~peer[s].eof /\ Unread(s) < Window
  /\ peer' = [peer EXCEPT ![s].eof = TRUE]
  /\ UNCHANGED <<link, leg, copy, forward, main>>

(* A peer closes the channel, or the upstream's connection breaks; the     *)
(* library answers a close with a close.                                   *)
PeerCloses(s) ==
  /\ Open(s)
  /\ peer' = [peer EXCEPT ![s].closed = TRUE]
  /\ leg' = [leg EXCEPT ![s].closed = TRUE]
  /\ UNCHANGED <<link, copy, forward, main>>

ClientLost ==
  /\ ~Lost
  /\ link' = "lost"
  /\ peer' = [peer EXCEPT !["client"].closed = TRUE]
  /\ leg' = [leg EXCEPT !["client"].closed = TRUE]
  /\ UNCHANGED <<copy, forward, main>>

(* handleConn returns when the client's connection is gone, and closes the *)
(* connection to the upstream, whatever is still on its way there.         *)
CloseUpstreamClient ==
  /\ link = "lost"
  /\ link' = "closed"
  /\ leg' = [leg EXCEPT !["upstream"].closed = TRUE]
  /\ UNCHANGED <<peer, copy, forward, main>>

----------------------------------------------------------------------------
(* Variant for mutation: one more unit than there is.                      *)
ReadPastEnd(s) ==
  /\ Relaying /\ copy[s].pc = "reading"
  /\ \/ /\ copy[s].read <= peer[s].data
        /\ copy' = [copy EXCEPT ![s].pc = "writing", ![s].read = @ + 1]
     \/ /\ copy[s].read = peer[s].data
        /\ peer[s].eof \/ Gone(s)
        /\ copy' = [copy EXCEPT ![s].pc = "ending"]
  /\ UNCHANGED <<peer, link, leg, forward, main>>

(* io.Copy(other, s), then CloseWrite.                                     *)
Read(s) ==
  /\ Relaying /\ copy[s].pc = "reading"
  /\ \/ /\ copy[s].read < peer[s].data
        /\ copy' = [copy EXCEPT ![s].pc = "writing", ![s].read = @ + 1]
     \/ /\ copy[s].read = peer[s].data
        /\ peer[s].eof \/ Gone(s)
        /\ copy' = [copy EXCEPT ![s].pc = "ending"]
  /\ UNCHANGED <<peer, link, leg, forward, main>>

Write(s) ==
  /\ copy[s].pc = "writing"
  /\ IF leg[Other(s)].closed
     THEN copy' = [copy EXCEPT ![s].pc = "ending"]
     ELSE copy' = [copy EXCEPT ![s].pc = "reading", ![s].written = @ + 1]
  /\ UNCHANGED <<peer, link, leg, forward, main>>

(* Variant for mutation: the end of the stream is not passed on.           *)
CopyOnly(s) ==
  /\ copy[s].pc = "ending"
  /\ copy' = [copy EXCEPT ![s].pc = "done"]
  /\ UNCHANGED <<peer, link, leg, forward, main>>

CloseWrite(s) ==
  /\ copy[s].pc = "ending"
  /\ copy' = [copy EXCEPT ![s].pc = "done"]
  /\ leg' = [leg EXCEPT ![Other(s)].eof = @ \/ ~leg[Other(s)].closed]
  /\ UNCHANGED <<peer, link, forward, main>>

(* Variant for mutation: the loop ends with the channel, not its queue.    *)
ForwardUntilClose(s) ==
  /\ Relaying /\ forward[s].pc = "receiving"
  /\ IF Gone(s)
     THEN forward' = [forward EXCEPT ![s].pc = "ended"]
     ELSE /\ forward[s].taken < peer[s].requests
          /\ forward' = [forward EXCEPT ![s].taken = @ + 1, ![s].passed = @ + 1]
  /\ UNCHANGED <<peer, link, leg, copy, main>>

(* forwardRequests: what cannot be passed on is dropped, and a request     *)
(* that wants a reply holds up the next one.                               *)
ForwardRequest(s) ==
  /\ Relaying /\ forward[s].pc = "receiving"
  /\ \/ /\ forward[s].taken < peer[s].requests
        /\ IF leg[Other(s)].closed
           THEN forward' = [forward EXCEPT ![s].taken = @ + 1]
           ELSE \E pc \in {"receiving", "awaiting"} :
                  forward' = [forward EXCEPT
                    ![s].pc = pc, ![s].taken = @ + 1, ![s].passed = @ + 1]
     \/ /\ forward[s].taken = peer[s].requests /\ Gone(s)
        /\ forward' = [forward EXCEPT ![s].pc = "ended"]
  /\ UNCHANGED <<peer, link, leg, copy, main>>

(* The other peer answers, or its channel is closed first; either way the  *)
(* sender gets its reply.                                                  *)
Reply(s) ==
  /\ forward[s].pc = "awaiting"
  /\ forward' = [forward EXCEPT ![s].pc = "receiving"]
  /\ UNCHANGED <<peer, link, leg, copy, main>>

----------------------------------------------------------------------------
(* proxyChannel: the upstream channel first, then the client's.            *)
OpenUpstream ==
  /\ main = "opening"
  /\ main' \in {"accepting", "rejected"}
  /\ UNCHANGED <<peer, link, leg, copy, forward>>

(* Accept fails when the client's connection is gone.                      *)
Accept ==
  /\ main = "accepting"
  /\ \/ main' = "relaying" /\ UNCHANGED leg
     \/ /\ Lost /\ main' = "rejected"
        /\ leg' = [leg EXCEPT !["upstream"].closed = TRUE]
  /\ UNCHANGED <<peer, link, copy, forward>>

(* Variant for mutation: proxyChannel waits for one copy only.             *)
CloseLocalEarly ==
  /\ main = "relaying"
  /\ \E s \in Sides : copy[s].pc = "done"
  /\ leg' = [leg EXCEPT !["client"].closed = TRUE]
  /\ main' = "closing"
  /\ UNCHANGED <<peer, link, copy, forward>>

(* The deferred calls run in reverse order.                                *)
CloseLocal ==
  /\ main = "relaying"
  /\ \A s \in Sides : copy[s].pc = "done"
  /\ leg' = [leg EXCEPT !["client"].closed = TRUE]
  /\ main' = "closing"
  /\ UNCHANGED <<peer, link, copy, forward>>

(* Variant for mutation: the upstream channel is left open.                *)
ReturnOnly ==
  /\ main = "closing"
  /\ main' = "returned"
  /\ UNCHANGED <<peer, link, leg, copy, forward>>

CloseUpstream ==
  /\ main = "closing"
  /\ leg' = [leg EXCEPT !["upstream"].closed = TRUE]
  /\ main' = "returned"
  /\ UNCHANGED <<peer, link, copy, forward>>

Main == OpenUpstream \/ Accept \/ CloseLocal \/ CloseUpstream
Copies(s) == Read(s) \/ Write(s) \/ CloseWrite(s)
Forwards(s) == ForwardRequest(s) \/ Reply(s)

Next ==
  \/ \E s \in Sides :
       \/ PeerSends(s) \/ PeerRequests(s) \/ PeerEnds(s) \/ PeerCloses(s)
       \/ Copies(s) \/ Forwards(s)
  \/ ClientLost \/ CloseUpstreamClient \/ Main

Spec == Init /\ [][Next]_vars

(* The goroutines are scheduled, peers read what they are sent, a close is *)
(* answered with a close, and the upstream's program ends some time after  *)
(* its input has.  Nothing obliges the client to end, or a peer to answer  *)
(* a request before its channel is closed.                                 *)
FairSpec ==
  /\ Spec /\ WF_vars(Main) /\ WF_vars(CloseUpstreamClient)
  /\ \A s \in Sides :
       /\ WF_vars(Copies(s)) /\ WF_vars(ForwardRequest(s))
       /\ WF_vars(Gone(Other(s)) /\ Reply(s))
       /\ WF_vars(leg[s].closed /\ PeerCloses(s))
  /\ WF_vars(leg["upstream"].eof /\ PeerEnds("upstream"))

----------------------------------------------------------------------------
(* Each direction is a pipe: what arrives is a prefix of what was sent,    *)
(* and the end of the stream is passed on after all of it.  What a peer    *)
(* sends may be cut off by its receiver's leaving; what the client sends,  *)
(* by the loss of its connection too, since the proxy then closes the      *)
(* upstream's.  What the upstream sends is never cut off by the proxy.     *)
Inbound == INSTANCE Pipe WITH
  sent <- peer["client"].data, received <- copy["client"].written,
  over <- peer["client"].eof \/ peer["client"].closed, vanished <- Lost,
  hungUp <- peer["upstream"].closed,
  ended <- leg["upstream"].eof, shut <- leg["upstream"].closed

Outbound == INSTANCE Pipe WITH
  sent <- peer["upstream"].data, received <- copy["upstream"].written,
  over <- peer["upstream"].eof \/ peer["upstream"].closed, vanished <- FALSE,
  hungUp <- peer["client"].closed,
  ended <- leg["client"].eof, shut <- leg["client"].closed

InboundIsPipe == Inbound!Spec

OutboundIsPipe == Outbound!Spec

(* Error output that has filled the window: nobody reads it.               *)
Stalled == peer["upstream"].errors >= Window

(* When the client ends its input, closes the channel or vanishes, the     *)
(* channel is wound up, given an upstream whose program ends when its      *)
(* input has; one that is stuck in writing to its error output keeps it.   *)
EndsWithItsClient ==
  main = "relaying" /\ (peer["client"].eof \/ peer["client"].closed)
    ~> main = "returned" \/ Stalled

(* No goroutine outlives the channel for good, one that waits for the      *)
(* answer to a request included, though the peer may never give it and     *)
(* more requests may be queued behind.                                     *)
ForwardersEnd ==
  main = "returned" ~> \A s \in Sides : forward[s].pc = "ended"

(* What the upstream reports, its exit status for one, reaches a client    *)
(* that has neither ended its input nor gone, also when the upstream has   *)
(* closed by then; a client that owes an answer has to wait.               *)
ReportsArrive ==
  main = "relaying" /\ forward["upstream"].passed < peer["upstream"].requests
    ~> \/ forward["upstream"].passed = peer["upstream"].requests
       \/ main # "relaying" \/ peer["client"].closed
       \/ forward["upstream"].pc = "awaiting"
=============================================================================
