-------------------------------- MODULE Pipe --------------------------------
(***************************************************************************)
(* What the relay promises for one direction of a channel: the receiver    *)
(* gets what the sender sent, in order and once, and is told of its end    *)
(* when it has everything.  The stream may be cut off before that, which   *)
(* is not an end, and only when one of the two has gone.                   *)
(***************************************************************************)
EXTENDS Naturals

VARIABLES
  sent, received,  \* how much of the stream went in and came out
  over,            \* the sender has ended the stream, or has gone
  vanished,        \* the sender has gone in a way that may cut the stream off
  hungUp,          \* the receiver has gone
  ended,           \* the receiver was told that it has the whole stream
  shut             \* nothing more gets through to the receiver

pipe == <<sent, received, over, vanished, hungUp, ended, shut>>

Init == sent = 0 /\ received = 0 /\ ~over /\ ~vanished /\ ~hungUp /\ ~ended /\ ~shut

Send ==
  /\ ~over
  /\ sent' = sent + 1
  /\ UNCHANGED <<received, over, vanished, hungUp, ended, shut>>

Finish ==
  /\ over' = TRUE
  /\ vanished' \in {vanished, TRUE}
  /\ UNCHANGED <<sent, received, hungUp, ended, shut>>

Receive ==
  /\ received < sent /\ ~ended /\ ~shut
  /\ received' = received + 1
  /\ UNCHANGED <<sent, over, vanished, hungUp, ended, shut>>

(* The end of the stream is told after all of it, whoever has gone.        *)
End ==
  /\ over /\ received = sent
  /\ ended' = TRUE
  /\ UNCHANGED <<sent, received, over, vanished, hungUp, shut>>

(* Whoever hangs up gets nothing more.                                     *)
HangUp ==
  /\ hungUp' = TRUE
  /\ shut' \in {shut, TRUE}
  /\ UNCHANGED <<sent, received, over, vanished, ended>>

Shut ==
  /\ hungUp \/ vanished \/ (over /\ received = sent)
  /\ shut' = TRUE
  /\ UNCHANGED <<sent, received, over, vanished, hungUp, ended>>

Next == Send \/ Finish \/ Receive \/ End \/ HangUp \/ Shut

Spec == Init /\ [][Next]_pipe
=============================================================================
