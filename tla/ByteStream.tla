----------------------------- MODULE ByteStream -----------------------------
(***************************************************************************)
(* What one direction of a tunnelled TCP connection promises when parts of *)
(* it may get lost: what arrives was sent, in the order it was sent and    *)
(* nothing twice.  Unlike FrameChannel, one step may deliver several.      *)
(***************************************************************************)
EXTENDS Naturals, Sequences

VARIABLES
  sent,     \* units 1 .. sent have been sent
  delivered \* the units that came out at the other end

SInit == sent = 0 /\ delivered = <<>>

SSend == sent' = sent + 1 /\ UNCHANGED delivered

Ascending(s) == \A i, j \in DOMAIN s : i < j => s[i] < s[j]

SDeliver ==
  /\ Len(delivered') > Len(delivered)
  /\ SubSeq(delivered', 1, Len(delivered)) = delivered
  /\ Ascending(delivered')
  /\ \A i \in DOMAIN delivered' : delivered'[i] \in 1 .. sent
  /\ UNCHANGED sent

SSpec == SInit /\ [][SSend \/ SDeliver]_<<sent, delivered>>
=============================================================================
