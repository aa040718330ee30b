---------------------------- MODULE FrameChannel ----------------------------
(***************************************************************************)
(* What the framing layer promises over a line that damages, loses and      *)
(* adds bytes: messages may be lost, and those that arrive are messages     *)
(* that were sent, in the order they were sent, each at most once.          *)
(***************************************************************************)
EXTENDS Naturals, Sequences

VARIABLES
  sent,     \* messages 1 .. sent have been sent
  delivered \* the messages handed to the receiver

CInit == sent = 0 /\ delivered = <<>>

CSend == sent' = sent + 1 /\ UNCHANGED delivered

CDeliver ==
  /\ \E m \in 1 .. sent :
       /\ delivered # <<>> => m > delivered[Len(delivered)]
       /\ delivered' = Append(delivered, m)
  /\ UNCHANGED sent

CSpec == CInit /\ [][CSend \/ CDeliver]_<<sent, delivered>>
=============================================================================
