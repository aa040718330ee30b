------------------------- MODULE BrokerSerialProofs -------------------------
(***************************************************************************)
(* Proofs about BrokerSerial: the bound on noticing a lost proxy, for      *)
(* every timer period, timeout and firmware.                               *)
(***************************************************************************)
EXTENDS BrokerSerial, TLAPS

LEMMA UInitInv == UInit => UInv
<1> SUFFICES ASSUME UInit PROVE UInv
  OBVIOUS
<1>1. ClockTypeOK
  <2>1. 0 \in 0 .. MaxAge /\ 0 \in 0 .. (ConnectPeriod - 1) /\ 0 \in Values
    BY TimersAssumption, UptimeAssumption DEF Values
  <2> QED
    BY <2>1 DEF UInit, Booted, ClockTypeOK
<1>2. FreshAtPhase /\ due = {}
  BY DEF UInit, Booted, FreshAtPhase
<1> QED
  BY <1>1, <1>2 DEF UInv

(* Serving the keep-alive timer changes none of the ages. *)
LEMMA KeepAliveInv == ASSUME UInv, KeepAlive PROVE UInv'
  BY DEF KeepAlive, UInv, ClockTypeOK, FreshAtPhase, SinceCheck

(* connectTimer drops the connection unless the loopback is recent: the     *)
(* bound holds again with the whole period ahead.                           *)
LEMMA ConnectTimerInv == ASSUME UInv, ConnectTimer PROVE UInv'
<1> USE TimersAssumption DEF ConnectTimer, UInv
<1>1. ClockTypeOK'
  BY DEF ClockTypeOK
<1>2. FreshAtPhase'
  <2>1. SinceCheck' = 0
    BY DEF SinceCheck
  <2>2. connected' => loopAge' <= LoopbackTimeout
    OBVIOUS
  <2> QED
    BY <2>1, <2>2 DEF FreshAtPhase, ClockTypeOK
<1> QED
  BY <1>1, <1>2

LEMMA IncomingConnectInv == ASSUME UInv, IncomingConnect PROVE UInv'
  BY TimersAssumption
     DEF IncomingConnect, UInv, ClockTypeOK, FreshAtPhase, SinceCheck

LEMMA IncomingPublishInv ==
  ASSUME UInv, NEW i \in MsgIds, NEW t, IncomingPublish(i, t)
  PROVE  UInv'
  BY TimersAssumption
     DEF IncomingPublish, UInv, ClockTypeOK, FreshAtPhase, SinceCheck

(* A tick makes everything one older and is one more since the last check;  *)
(* it waits until connectTimer has been served.                             *)
LEMMA TickInv == ASSUME UInv, Tick PROVE UInv'
<1> USE TimersAssumption, UptimeAssumption DEF Tick, UInv
<1>1. ClockTypeOK'
  <2>1. uptime' \in Values
    BY DEF ClockTypeOK, Values
  <2> QED
    BY <2>1 DEF ClockTypeOK, Older
<1>2. SinceCheck = phase /\ SinceCheck' = phase + 1
  BY DEF SinceCheck, ClockTypeOK
<1>3. FreshAtPhase'
  BY <1>2 DEF FreshAtPhase, ClockTypeOK, Older
<1>4. "connect" \in due' => phase' = 0
  BY DEF ClockTypeOK
<1> QED
  BY <1>1, <1>3, <1>4

LEMMA RebootInv == ASSUME UInv, NEW a \in Apps, NEW kept, Reboot(a, kept) PROVE UInv'
<1>1. ClockTypeOK'
  <2>1. 0 \in 0 .. MaxAge /\ 0 \in 0 .. (ConnectPeriod - 1) /\ 0 \in Values
    BY TimersAssumption, UptimeAssumption DEF Values
  <2> QED
    BY <2>1 DEF Reboot, ClockTypeOK
<1>2. (FreshAtPhase /\ due = {})'
  BY DEF Reboot, FreshAtPhase
<1> QED
  BY <1>1, <1>2 DEF UInv

LEMMA UStepInv == UInv /\ [UNext]_uvars => UInv'
<1> SUFFICES ASSUME UInv, [UNext]_uvars PROVE UInv'
  OBVIOUS
<1>1. CASE UNCHANGED <<app, connected, loopAge, connAge, loopId, phase, due, uptime>>
  BY <1>1 DEF UInv, ClockTypeOK, FreshAtPhase, SinceCheck
<1>2. CASE \E i \in {UptimeSub}, t \in Values : IncomingPublish(i, t)
  BY <1>2, IncomingPublishInv DEF UptimeSub, MsgIds
<1>3. CASE \E a \in Apps, kept \in 0 .. Len(line) : Reboot(a, kept)
  BY <1>3, RebootInv
<1>4. CASE \E i \in 3 .. (Len(Resources) - 1) : AppPublish(i, 0)
  BY <1>4, <1>1 DEF AppPublish
<1> QED
  BY <1>1, <1>2, <1>3, <1>4, KeepAliveInv, ConnectTimerInv, IncomingConnectInv, TickInv
     DEF UNext, uvars, IncomingDisconnect

(* The timers' state keeps its types and the staleness bound of each phase. *)
THEOREM UInvariant == USpec => []UInv
  BY UInitInv, UStepInv, PTL DEF USpec

(* Whatever arrives and whenever, a microcontroller whose uptime does not   *)
(* come back and whose connect is not answered stops believing in the       *)
(* connection within LoopbackTimeout + ConnectPeriod ticks.                 *)
THEOREM OutageBound == USpec => []OutageNoticed
<1>1. UInv => OutageNoticed
  BY TimersAssumption
     DEF UInv, ClockTypeOK, FreshAtPhase, SinceCheck, OutageNoticed
<1> QED
  BY <1>1, UInvariant, PTL
=============================================================================
