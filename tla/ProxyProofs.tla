----------------------------- MODULE ProxyProofs -----------------------------
(***************************************************************************)
(* Proofs about the running system.  The composition is shown to use its   *)
(* two parts as their own modules allow, so that what is proved there      *)
(* holds here; on top of it four invariants, each for any firmware, any     *)
(* bounds and any scenario of faults: the types of what is under way, that  *)
(* ids keep their meaning, that no instant is later than now, and that      *)
(* declarations precede uses.                                              *)
(***************************************************************************)
EXTENDS Proxy, Recursion

-----------------------------------------------------------------------------
(* The resources of the firmware. *)

(* init() puts three resources before the firmware's own.                   *)
LEMMA ResourcesType ==
  ASSUME app \in Apps
  PROVE  /\ U!Resources \in Seq(U!Resource) /\ Len(U!Resources) = Len(app) + 3
         /\ U!Resources[1] = [kind |-> "pub", key |-> Uptime]
         /\ U!Resources[2] = [kind |-> "pub", key |-> Latency]
         /\ U!Resources[3] = [kind |-> "sub", key |-> Uptime]
<1> DEFINE own == <<[kind |-> "pub", key |-> Uptime], [kind |-> "pub", key |-> Latency],
                    [kind |-> "sub", key |-> Uptime]>>
<1>1. app \in Seq(U!Resource)
  BY PartsAssumption DEF U!AppsAssumption
<1>2. own \in Seq(U!Resource) /\ Len(own) = 3
  BY PartsAssumption DEF U!TopicsAssumption, U!Resource, U!Kinds
<1>3. U!Resources = own \o app
  BY DEF U!Resources
<1> QED
  BY <1>1, <1>2, <1>3

ResourceIds == 0 .. (Len(U!Resources) - 1)
IdsOfKind(kind) == {i \in ResourceIds : U!Resources[i + 1].kind = kind}

(* Every resource has an id and a topic; the first three are the clock's.   *)
LEMMA ResourceIdsAreIds ==
  ASSUME app \in Apps
  PROVE  /\ ResourceIds \subseteq Ids
         /\ \A i \in ResourceIds : U!Key(i) \in Topics
         /\ U!Key(U!UptimePub) = Uptime /\ U!Key(U!LatencyPub) = Latency
         /\ U!Key(U!UptimeSub) = Uptime
         /\ U!UptimePub \in IdsOfKind("pub") /\ U!LatencyPub \in IdsOfKind("pub")
         /\ U!UptimeSub \in IdsOfKind("sub")
<1>1. app \in Seq(U!Resource)
  BY PartsAssumption DEF U!AppsAssumption
<1>2. ResourceIds = 0 .. (Len(app) + 2)
  BY <1>1, ResourcesType DEF ResourceIds
<1>3. ResourceIds \subseteq Ids
  BY <1>2, IdsAssumption
<1>4. ASSUME NEW i \in ResourceIds PROVE U!Key(i) \in Topics
  <2>1. U!Resources[i + 1] \in U!Resource
    BY <1>1, <1>2, ResourcesType
  <2> QED
    BY <2>1 DEF U!Key, U!Resource
<1>5. 0 \in ResourceIds /\ 1 \in ResourceIds /\ 2 \in ResourceIds
  BY <1>1, <1>2
<1> QED
  BY <1>3, <1>4, <1>5, ResourcesType
     DEF U!Key, U!UptimePub, U!LatencyPub, U!UptimeSub, IdsOfKind

(* IdsOf lists the ids of its kind: each of its members is one, and each is  *)
(* a member.                                                                *)
LEMMA IdsOfLists ==
  ASSUME app \in Apps, NEW kind
  PROVE  /\ U!IdsOf(kind) \in Seq(IdsOfKind(kind))
         /\ \A i \in IdsOfKind(kind) : \E n \in DOMAIN U!IdsOf(kind) : U!IdsOf(kind)[n] = i
<1> DEFINE N == Len(U!Resources)
           V == Seq(Nat)
           step == [n \in Nat |-> [s \in V |->
                      IF U!Resources[n + 1].kind = kind THEN Append(s, n) ELSE s]]
           Def(g) == [n \in 0 .. N |->
                        IF n = 0 THEN <<>>
                        ELSE IF U!Resources[n].kind = kind THEN Append(g[n - 1], n - 1)
                                                           ELSE g[n - 1]]
           ids == CHOOSE g : g = Def(g)
<1>1. N \in Nat
  BY ResourcesType
<1>2. \E g : g = Def(g)
  <2>1. <<>> \in V /\ step \in [Nat -> [V -> V]]
    OBVIOUS
  <2>2. PICK f : Iterates(f, V, <<>>, step)
    <3> HIDE DEF V, step
    <3> QED
      BY <2>1, Iteration
  <2> DEFINE g == [n \in 0 .. N |-> f[n]]
  <2>3. ASSUME NEW n \in 1 .. N
        PROVE  f[n] = IF U!Resources[n].kind = kind THEN Append(f[n - 1], n - 1) ELSE f[n - 1]
    <3>1. n - 1 \in Nat /\ (n - 1) + 1 = n
      BY <1>1
    <3>2. f[n] = step[n - 1][f[n - 1]]
      <4> HIDE DEF step
      <4> QED
        BY <2>2, <3>1 DEF Iterates
    <3>3. f[n - 1] \in V
      BY <2>2, <3>1 DEF Iterates
    <3> QED
      BY <3>1, <3>2, <3>3
  <2>4. g = Def(g)
    <3> HIDE DEF V, step, N
    <3>1. ASSUME NEW n \in 0 .. N PROVE g[n] = Def(g)[n]
      <4>1. CASE n = 0
        BY <4>1, <2>2 DEF Iterates
      <4>2. CASE n # 0
        <5>1. n \in 1 .. N /\ n - 1 \in 0 .. N
          BY <4>2, <1>1
        <5>2. g[n] = f[n] /\ g[n - 1] = f[n - 1]
          BY <5>1
        <5> QED
          BY <5>1, <5>2, <2>3, <4>2
      <4> QED
        BY <4>1, <4>2
    <3> QED
      BY <3>1
  <2> HIDE DEF g
  <2> QED
    BY <2>4
<1>3. ids = Def(ids)
  <2> HIDE DEF Def
  <2> QED
    BY <1>2
<1>4. U!IdsOf(kind) = ids[N]
  BY DEF U!IdsOf
<1> DEFINE Good(n) == /\ ids[n] \in Seq({i \in 0 .. (n - 1) : U!Resources[i + 1].kind = kind})
                      /\ \A i \in 0 .. (n - 1) : U!Resources[i + 1].kind = kind
                           => \E k \in DOMAIN ids[n] : ids[n][k] = i
           S == {n \in 0 .. N : Good(n)}
<1> HIDE DEF ids
<1>5. 0 \in S
  <2>1. ids[0] = <<>>
    BY <1>1, <1>3
  <2>2. Good(0)
    <3>1. ids[0] \in Seq({i \in 0 .. (0 - 1) : U!Resources[i + 1].kind = kind})
      BY <2>1
    <3>2. 0 .. (0 - 1) = {}
      OBVIOUS
    <3> QED
      BY <3>1, <3>2
  <2> HIDE DEF Good
  <2> QED
    BY <2>2, <1>1
<1>6. ASSUME NEW n \in 0 .. (N - 1), n \in S PROVE n + 1 \in S
  <2> HIDE DEF N
  <2> DEFINE Below(m) == {i \in 0 .. (m - 1) : U!Resources[i + 1].kind = kind}
  <2>1. /\ n \in Nat /\ n + 1 \in 0 .. N /\ n + 1 # 0 /\ (n + 1) - 1 = n
        /\ ids[n] \in Seq(Below(n))
        /\ \A i \in Below(n) : \E k \in DOMAIN ids[n] : ids[n][k] = i
    BY <1>1, <1>6
  <2>2. ids[n + 1] = IF U!Resources[n + 1].kind = kind THEN Append(ids[n], n) ELSE ids[n]
    BY <1>3, <2>1
  <2>3. CASE U!Resources[n + 1].kind = kind
    <3>1. Below(n + 1) = Below(n) \union {n}
      BY <2>1, <2>3
    <3>2. ids[n + 1] = Append(ids[n], n)
      BY <2>2, <2>3
    <3> HIDE DEF Below
    <3>3. ids[n + 1] \in Seq(Below(n + 1))
      BY <3>1, <3>2, <2>1
    <3>4. ASSUME NEW i \in Below(n + 1) PROVE \E k \in DOMAIN ids[n + 1] : ids[n + 1][k] = i
      <4>1. CASE i = n
        <5>1. Len(ids[n]) + 1 \in DOMAIN ids[n + 1] /\ ids[n + 1][Len(ids[n]) + 1] = n
          BY <3>2, <2>1
        <5> QED
          BY <5>1, <4>1
      <4>2. CASE i \in Below(n)
        <5>1. PICK k \in DOMAIN ids[n] : ids[n][k] = i
          BY <4>2, <2>1
        <5>2. k \in DOMAIN ids[n + 1] /\ ids[n + 1][k] = i
          BY <5>1, <3>2, <2>1
        <5> QED
          BY <5>2
      <4> QED
        BY <3>1, <4>1, <4>2
    <3> QED
      BY <3>3, <3>4, <2>1 DEF Below
  <2>4. CASE U!Resources[n + 1].kind # kind
    <3>1. Below(n + 1) = Below(n)
      BY <2>1, <2>4
    <3>2. ids[n + 1] = ids[n]
      BY <2>2, <2>4
    <3>3. /\ ids[n + 1] \in Seq(Below(n + 1))
          /\ \A i \in Below(n + 1) : \E k \in DOMAIN ids[n + 1] : ids[n + 1][k] = i
      <4> HIDE DEF Below
      <4> QED
        BY <3>1, <3>2, <2>1
    <3> QED
      BY <3>3, <2>1
  <2> QED
    BY <2>3, <2>4
<1>7. N \in S
  <2>1. 0 .. N \subseteq S
    <3> HIDE DEF S, N
    <3> QED
      BY <1>1, <1>5, <1>6, BoundedInduction
  <2> HIDE DEF S
  <2> QED
    BY <2>1, <1>1
<1>8. Good(N)
  BY <1>7
<1> QED
  BY <1>4, <1>8 DEF IdsOfKind, ResourceIds

-----------------------------------------------------------------------------
(* What the microcontroller writes, and how a step changes the line. *)

Declarations == {U!MsgSubscriber(i, U!Key(i)) : i \in IdsOfKind("sub")}
                  \union {U!MsgPublisher(i, U!Key(i)) : i \in IdsOfKind("pub")}

SamplesUnderWay == {toUc[n].val : n \in {k \in DOMAIN toUc : toUc[k].type = "publish"}}

NewFrames ==
  {U!MsgConnect} \union Declarations
    \union {U!MsgPublish(U!UptimePub, Uptime, uptime)}
    \union {U!MsgPublish(U!LatencyPub, Latency, U!LatencyOf(t)) : t \in SamplesUnderWay}
    \union {U!MsgPublish(i, U!Key(i), 0) : i \in IdsOfKind("pub")}

(* What incomingConnect writes is declarations only.                        *)
LEMMA DeclarationMsgs ==
  ASSUME app \in Apps
  PROVE  U!SubscriberMsgs \o U!PublisherMsgs \in Seq(Declarations)
<1>1. U!SubscriberMsgs \in Seq(Declarations)
  <2>1. U!IdsOf("sub") \in Seq(IdsOfKind("sub"))
    BY IdsOfLists
  <2> QED
    BY <2>1 DEF U!SubscriberMsgs, Declarations
<1>2. U!PublisherMsgs \in Seq(Declarations)
  <2>1. U!IdsOf("pub") \in Seq(IdsOfKind("pub"))
    BY IdsOfLists
  <2> QED
    BY <2>1 DEF U!PublisherMsgs, Declarations
<1> QED
  BY <1>1, <1>2

(* What is left after a reset. *)
LEMMA LaterPart ==
  ASSUME NEW S, NEW s \in Seq(S), NEW gone \in 0 .. Len(s)
  PROVE  /\ SubSeq(s, gone + 1, Len(s)) \in Seq(S)
         /\ Len(SubSeq(s, gone + 1, Len(s))) <= Len(s)
         /\ \A n \in DOMAIN SubSeq(s, gone + 1, Len(s)) :
              \E k \in DOMAIN s : SubSeq(s, gone + 1, Len(s))[n] = s[k]
<1>1. Len(SubSeq(s, gone + 1, Len(s))) = Len(s) - gone /\ SubSeq(s, gone + 1, Len(s)) \in Seq(S)
  OBVIOUS
<1>2. ASSUME NEW n \in 1 .. (Len(s) - gone)
      PROVE  SubSeq(s, gone + 1, Len(s))[n] = s[gone + n] /\ gone + n \in DOMAIN s
  OBVIOUS
<1> QED
  BY <1>1, <1>2

(* Losing a frame.                                                          *)
LEMMA RemoveAtIn ==
  ASSUME NEW S, NEW s \in Seq(S), NEW n \in DOMAIN s
  PROVE  RemoveAt(s, n) \in Seq(S)
  BY DEF RemoveAt

LEMMA RemoveAtShortens ==
  ASSUME NEW S, NEW s \in Seq(S), NEW n \in DOMAIN s
  PROVE  Len(RemoveAt(s, n)) <= Len(s)
  BY DEF RemoveAt

(* The microcontroller writes; every other step leaves the line alone or    *)
(* takes frames from it.                                                    *)
Writes == UcReceive \/ UcKeepAlive \/ UcAppPublish

LEMMA LineShrinks ==
  ASSUME Next, ~Writes, NEW S, line \in Seq(S)
  PROVE  line' \in Seq(S) /\ Len(line') <= Len(line)
<1>1. CASE \E type : Received(type)
  BY <1>1 DEF Received
<1>2. CASE UNCHANGED line
  BY <1>2
<1>3. CASE U!FrameSent
  BY <1>3 DEF U!FrameSent
<1>4. CASE Lose
  BY <1>4, RemoveAtIn, RemoveAtShortens DEF Lose, uvars
<1>5. CASE UcReboot
  BY <1>5 DEF UcReboot, U!Reboot
<1> QED
  BY <1>1, <1>2, <1>3, <1>4, <1>5
     DEF Writes, Next, ProxyStep, HandleConnect, HandleSubscriber, HandlePublisher,
         HandlePublish, FinishSubscriber, ZenohStep, Route, Callback, UcStep, UcConnectTimer,
         U!ConnectTimer, UcTick, U!Tick, DropWhileDown, ProxyStart, Outside, ProxyKill,
         Foreign, uvars

(* Whatever step is taken, each frame on the line was there before or is    *)
(* one the microcontroller writes in this state, and the output buffer does *)
(* not overflow.                                                            *)
LEMMA LineElements ==
  ASSUME app \in Apps, Len(line) <= MaxLine, Next, NEW R, toUc \in Seq(R),
         NEW S, line \in Seq(S), NewFrames \subseteq S
  PROVE  line' \in Seq(S) /\ Len(line') <= MaxLine
<1> USE PartsAssumption DEF U!LineAssumption
<1>1. CASE ~Writes
  BY <1>1, LineShrinks
<1>2. CASE UcReceive
  <2>1. CASE U!IncomingConnect
    <3>1. U!SubscriberMsgs \o U!PublisherMsgs \in Seq(S)
      BY DeclarationMsgs DEF NewFrames
    <3> QED
      BY <2>1, <3>1 DEF U!IncomingConnect, U!Write
  <2>2. CASE /\ toUc # <<>> /\ Head(toUc).type = "publish"
             /\ U!IncomingPublish(Head(toUc).id, Head(toUc).val)
    <3>1. Head(toUc).val \in SamplesUnderWay
      <4>1. 1 \in DOMAIN toUc /\ Head(toUc) = toUc[1]
        BY <2>2
      <4> QED
        BY <2>2, <4>1 DEF SamplesUnderWay
    <3>2. U!MsgPublish(U!LatencyPub, Latency, U!LatencyOf(Head(toUc).val)) \in S
      BY <3>1 DEF NewFrames
    <3> QED
      BY <2>2, <3>2 DEF U!IncomingPublish, U!Write
  <2> QED
    BY <1>2, <2>1, <2>2 DEF UcReceive
<1>3. CASE UcKeepAlive
  <2>1. U!MsgPublish(U!UptimePub, Uptime, uptime) \in S /\ U!MsgConnect \in S
    BY DEF NewFrames
  <2>2. PICK m \in S : U!Write(<<m>>)
    BY <1>3, <2>1 DEF UcKeepAlive, U!KeepAlive
  <2> QED
    BY <2>2 DEF U!Write
<1>4. CASE UcAppPublish
  <2>1. PICK i \in 3 .. (Len(U!Resources) - 1) : U!AppPublish(i, 0)
    BY <1>4 DEF UcAppPublish
  <2>2. U!MsgPublish(i, U!Key(i), 0) \in S
    <3>1. i \in IdsOfKind("pub")
      BY <2>1, ResourcesType DEF U!AppPublish, IdsOfKind, ResourceIds
    <3> QED
      BY <3>1 DEF NewFrames
  <2> QED
    BY <2>1, <2>2 DEF U!AppPublish, U!Write
<1> QED
  BY <1>1, <1>2, <1>3, <1>4 DEF Writes

-----------------------------------------------------------------------------
(* The two parts, with what is proved about each of them. *)
ZP == INSTANCE BrokerZenohProofs
UP == INSTANCE BrokerSerialProofs

(* What the parts assume of their constants holds here.                     *)
LEMMA BrokerAssumptions == ZP!MatchesAssumption /\ ZP!MaxNetAssumption /\ ZP!NoneAssumption
  BY PartsAssumption
     DEF Z!MatchesAssumption, Z!MaxNetAssumption, Z!NoneAssumption, Z!Sub, Z!Pub,
         ZP!MatchesAssumption, ZP!MaxNetAssumption, ZP!NoneAssumption, ZP!Sub, ZP!Pub

LEMMA ClockAssumptions ==
  /\ UP!TopicsAssumption /\ UP!AppsAssumption /\ UP!TimersAssumption
  /\ UP!UptimeAssumption /\ UP!LineAssumption
  BY PartsAssumption
     DEF U!TopicsAssumption, U!AppsAssumption, U!TimersAssumption, U!UptimeAssumption,
         U!LineAssumption, U!Resource, U!Kinds,
         UP!TopicsAssumption, UP!AppsAssumption, UP!TimersAssumption, UP!UptimeAssumption,
         UP!LineAssumption, UP!Resource, UP!Kinds

(* The operators reached through BrokerZenohProofs are those of Z ...       *)
LEMMA SameBroker ==
  /\ Z!ZInit <=> ZP!ZInit
  /\ Z!ZNext <=> ZP!ZNext
  /\ Z!ZInv <=> ZP!ZInv
  /\ (Z!ZInv)' <=> (ZP!ZInv)'
  /\ Z!zvars = ZP!zvars
  /\ (Z!zvars)' = (ZP!zvars)'
<1>1. Z!ZInit <=> ZP!ZInit
  BY Zenon DEF Z!ZInit, ZP!ZInit, Z!FreshProcess, ZP!FreshProcess
<1>2. Z!ZNext <=> ZP!ZNext
  BY Zenon DEF Z!ZNext, Z!ApiCall, Z!ZenohThread, Z!Kill, Z!Start, Z!Connect,
               Z!SubscriberKnown, Z!SubscriberDeclare, Z!SubscriberRefused,
               Z!NullSession, Z!PublisherKnown, Z!Publisher, Z!PublishUnknown,
               Z!Publish, Z!UndeclareSubscriber, Z!SubscriberEmplace,
               Z!DisconnectBegin, Z!DisconnectEnd, Z!ForeignSample, Z!Dispatch,
               Z!Interested, Z!SubscribeHandler, Z!HandlerSkipped, Z!Die,
               Z!FreshProcess, Z!Deaths, Z!Idle, Z!tables, Z!worker, Z!zenoh,
               Z!zvars, ZP!ZNext, ZP!ApiCall, ZP!ZenohThread, ZP!Kill, ZP!Start,
               ZP!Connect, ZP!SubscriberKnown, ZP!SubscriberDeclare,
               ZP!SubscriberRefused, ZP!NullSession, ZP!PublisherKnown,
               ZP!Publisher, ZP!PublishUnknown, ZP!Publish, ZP!UndeclareSubscriber,
               ZP!SubscriberEmplace, ZP!DisconnectBegin, ZP!DisconnectEnd,
               ZP!ForeignSample, ZP!Dispatch, ZP!Interested, ZP!SubscribeHandler,
               ZP!HandlerSkipped, ZP!Die, ZP!FreshProcess, ZP!Deaths, ZP!Idle,
               ZP!tables, ZP!worker, ZP!zenoh, ZP!zvars
<1>3. Z!ZInv <=> ZP!ZInv
  BY Zenon DEF Z!ZInv, Z!ZTypeOK, Z!WorkerConsistent, Z!TableConsistent,
               Z!DeclaredAllocated, Z!DeclaredMatchesTable, Z!Accounted,
               Z!HandlerTargetIntact, Z!NoDoubleUndeclare, Z!SessionBacksTables,
               Z!DeadIsFresh, Z!Deaths, Z!Sub, Z!Pub, Z!Sample, Z!Call, ZP!ZInv,
               ZP!ZTypeOK, ZP!WorkerConsistent, ZP!TableConsistent,
               ZP!DeclaredAllocated, ZP!DeclaredMatchesTable, ZP!Accounted,
               ZP!HandlerTargetIntact, ZP!NoDoubleUndeclare, ZP!SessionBacksTables,
               ZP!DeadIsFresh, ZP!Deaths, ZP!Sub, ZP!Pub, ZP!Sample, ZP!Call
<1>4. (Z!ZInv)' <=> (ZP!ZInv)'
  BY Zenon DEF Z!ZInv, Z!ZTypeOK, Z!WorkerConsistent, Z!TableConsistent,
               Z!DeclaredAllocated, Z!DeclaredMatchesTable, Z!Accounted,
               Z!HandlerTargetIntact, Z!NoDoubleUndeclare, Z!SessionBacksTables,
               Z!DeadIsFresh, Z!Deaths, Z!Sub, Z!Pub, Z!Sample, Z!Call, ZP!ZInv,
               ZP!ZTypeOK, ZP!WorkerConsistent, ZP!TableConsistent,
               ZP!DeclaredAllocated, ZP!DeclaredMatchesTable, ZP!Accounted,
               ZP!HandlerTargetIntact, ZP!NoDoubleUndeclare, ZP!SessionBacksTables,
               ZP!DeadIsFresh, ZP!Deaths, ZP!Sub, ZP!Pub, ZP!Sample, ZP!Call
<1>5. Z!zvars = ZP!zvars /\ (Z!zvars)' = (ZP!zvars)'
  BY DEF Z!zvars, ZP!zvars
<1> QED
  BY <1>1, <1>2, <1>3, <1>4, <1>5

(* ... and those reached through BrokerSerialProofs are those of U.         *)
LEMMA SameClock ==
  /\ U!UInit <=> UP!UInit
  /\ U!KeepAlive <=> UP!KeepAlive
  /\ U!ConnectTimer <=> UP!ConnectTimer
  /\ U!IncomingConnect <=> UP!IncomingConnect
  /\ U!Tick <=> UP!Tick
  /\ U!UInv <=> UP!UInv
  /\ (U!UInv)' <=> (UP!UInv)'
<1>1. U!UInit <=> UP!UInit
  BY Zenon DEF U!UInit, U!Booted, UP!UInit, UP!Booted
<1>2. U!KeepAlive <=> UP!KeepAlive
  BY Zenon DEF U!KeepAlive, U!Write, U!MsgPublish, U!MsgConnect, U!UptimePub,
               UP!KeepAlive, UP!Write, UP!MsgPublish, UP!MsgConnect, UP!UptimePub
<1>3. U!ConnectTimer <=> UP!ConnectTimer
  BY Zenon DEF U!ConnectTimer, UP!ConnectTimer
<1>4. U!IncomingConnect <=> UP!IncomingConnect
  BY Zenon DEF U!IncomingConnect, U!Write, U!SubscriberMsgs, U!PublisherMsgs, U!IdsOf,
               U!Key, U!Resources, U!MsgSubscriber, U!MsgPublisher,
               UP!IncomingConnect, UP!Write, UP!SubscriberMsgs, UP!PublisherMsgs, UP!IdsOf,
               UP!Key, UP!Resources, UP!MsgSubscriber, UP!MsgPublisher
<1>5. U!Tick <=> UP!Tick
  BY Zenon DEF U!Tick, U!Older, UP!Tick, UP!Older
<1>6. U!UInv <=> UP!UInv
  BY Zenon DEF U!UInv, U!ClockTypeOK, U!FreshAtPhase, U!SinceCheck, U!MsgIds, U!Values,
               UP!UInv, UP!ClockTypeOK, UP!FreshAtPhase, UP!SinceCheck, UP!MsgIds, UP!Values
<1>7. (U!UInv)' <=> (UP!UInv)'
  BY Zenon DEF U!UInv, U!ClockTypeOK, U!FreshAtPhase, U!SinceCheck, U!MsgIds, U!Values,
               UP!UInv, UP!ClockTypeOK, UP!FreshAtPhase, UP!SinceCheck, UP!MsgIds, UP!Values
<1> QED
  BY <1>1, <1>2, <1>3, <1>4, <1>5, <1>6, <1>7

-----------------------------------------------------------------------------
(* The invariant of the composition: both parts' invariants, and which      *)
(* messages are under way between them.                                     *)
Frames ==
  {U!MsgConnect}
    \union {U!MsgSubscriber(i, t) : i \in Ids, t \in Topics}
    \union {U!MsgPublisher(i, t) : i \in Ids, t \in Topics}
    \union {U!MsgPublish(i, t, v) : i \in Ids, t \in Topics, v \in Values}

Replies ==
  {U!MsgConnect} \union {U!MsgPublish(i, t, v) : i \in Ids, t \in Topics, v \in Values}

ProxyInv ==
  /\ Z!ZInv /\ U!UInv
  /\ line \in Seq(Frames) /\ Len(line) <= MaxLine
  /\ toUc \in Seq(Replies) /\ Len(toUc) <= MaxToUc
  /\ budget \in [Events -> Nat] /\ happened \subseteq Events
  /\ trips \subseteq [val : Values, age : Nat] /\ stray \in BOOLEAN

(* The fields of what is under way, in both directions.                     *)
LEMMA FrameFields ==
  ASSUME NEW m \in Frames
  PROVE  /\ m.type # "connect" => m.id \in Ids /\ m.key \in Topics
         /\ m.type = "publish" => m.val \in Values
  BY DEF Frames, U!MsgConnect, U!MsgSubscriber, U!MsgPublisher, U!MsgPublish

LEMMA ReplyFields ==
  ASSUME NEW m \in Replies
  PROVE  m.type = "publish" => m.id \in Ids /\ m.key \in Topics /\ m.val \in Values
  BY DEF Replies, U!MsgConnect, U!MsgPublish

(* Clock values can be sent.                                                *)
LEMMA InstantsAreValues == U!Values = Values /\ 0 \in Values
  BY PartsAssumption DEF U!UptimeAssumption, U!Values, Values

(* A frame that was received is typed as the broker's calls want it. *)
LEMMA ReceivedFields ==
  ASSUME line \in Seq(Frames), NEW type, Received(type)
  PROVE  /\ type # "connect" => Head(line).id \in Ids /\ Head(line).key \in Topics
         /\ type = "publish" => Head(line).val \in Values
<1>1. Head(line) \in Frames /\ Head(line).type = type
  BY DEF Received
<1> QED
  BY <1>1, FrameFields

(* Every step of the system is a step of the broker or leaves it alone. *)
LEMMA BrokerStep ==
  ASSUME line \in Seq(Frames), Next
  PROVE  Z!ZNext \/ UNCHANGED Z!zvars
<1>1. CASE UNCHANGED Z!zvars
  BY <1>1
<1>2. CASE HandleConnect
  BY <1>2 DEF HandleConnect, Z!ZNext, Z!ApiCall
<1>3. CASE HandleSubscriber
  <2> DEFINE i == Head(line).id
             t == Head(line).key
  <2>1. i \in Ids /\ t \in Topics
    BY <1>3, ReceivedFields DEF HandleSubscriber
  <2> HIDE DEF i, t
  <2>2. \/ Z!SubscriberKnown(i)
        \/ \E o \in SubObjs : Z!SubscriberDeclare(i, t, o) \/ Z!SubscriberRefused(i, t, o)
        \/ Z!NullSession(subscribers, i)
    BY <1>3 DEF HandleSubscriber, i, t
  <2> QED
    BY <2>1, <2>2 DEF Z!ZNext, Z!ApiCall
<1>4. CASE HandlePublisher
  <2> DEFINE i == Head(line).id
             t == Head(line).key
  <2>1. i \in Ids /\ t \in Topics
    BY <1>4, ReceivedFields DEF HandlePublisher
  <2> HIDE DEF i, t
  <2>2. \/ Z!PublisherKnown(i)
        \/ \E ok \in BOOLEAN : Z!Publisher(i, t, ok)
        \/ Z!NullSession(publishers, i)
    BY <1>4 DEF HandlePublisher, i, t
  <2> QED
    BY <2>1, <2>2 DEF Z!ZNext, Z!ApiCall
<1>5. CASE HandlePublish
  <2> DEFINE i == Head(line).id
             v == Head(line).val
  <2>1. i \in Ids /\ v \in Values
    BY <1>5, ReceivedFields DEF HandlePublish
  <2> HIDE DEF i, v
  <2>2. Z!PublishUnknown(i) \/ \E ok \in BOOLEAN : Z!Publish(i, v, ok)
    BY <1>5 DEF HandlePublish, i, v
  <2> QED
    BY <2>1, <2>2 DEF Z!ZNext, Z!ApiCall
<1>6. CASE FinishSubscriber
  BY <1>6 DEF FinishSubscriber, Z!ZNext, Z!ApiCall
<1>7. CASE ZenohStep
  BY <1>7 DEF ZenohStep, Route, Callback, Z!ZNext, Z!ZenohThread
<1>8. CASE Foreign
  BY <1>8 DEF Foreign, Z!ZNext, Z!ZenohThread
<1>9. CASE ProxyKill \/ ProxyStart
  BY <1>9 DEF ProxyKill, ProxyStart, Z!ZNext
<1> QED
  BY <1>1, <1>2, <1>3, <1>4, <1>5, <1>6, <1>7, <1>8, <1>9
     DEF Next, ProxyStep, UcStep, UcReceive, UcKeepAlive, UcConnectTimer, UcTick,
         UcAppPublish, Lose, UcReboot, DropWhileDown, Outside, zvars, Z!zvars

(* So the broker keeps its invariant, whatever the rest of the system does. *)
LEMMA BrokerInvStep ==
  ASSUME Z!ZInv, line \in Seq(Frames), Next
  PROVE  (Z!ZInv)'
<1>1. ZP!ZNext \/ UNCHANGED ZP!zvars
  BY BrokerStep, SameBroker
<1>2. ZP!ZInv /\ [ZP!ZNext]_(ZP!zvars)
  BY <1>1, SameBroker
<1>3. (ZP!ZInv)'
  BY <1>2, ZP!ZStepInv, BrokerAssumptions
<1> QED
  BY <1>3, SameBroker

(* The timers' state changes by the steps of BrokerSerial, a reset or not. *)
LEMMA ClockStep ==
  ASSUME Next
  PROVE  \/ U!KeepAlive \/ U!ConnectTimer \/ U!IncomingConnect \/ U!Tick
         \/ /\ UcReceive /\ Head(toUc).type = "publish"
            /\ U!IncomingPublish(Head(toUc).id, Head(toUc).val)
         \/ \E a \in Apps, kept \in 0 .. Len(line) :
              /\ Spend(IF a = app THEN "reboot" ELSE "reflash")
              /\ U!Reboot(a, kept)
         \/ UNCHANGED ucState
<1>1. CASE UcReceive
  BY <1>1 DEF UcReceive
<1>2. CASE UcAppPublish
  BY <1>2 DEF UcAppPublish, U!AppPublish, ucState
<1>3. CASE UcReboot
  BY <1>3 DEF UcReboot
<1> QED
  BY <1>1, <1>2, <1>3
     DEF Next, ProxyStep, HandleConnect, HandleSubscriber, HandlePublisher, HandlePublish,
         Received, FinishSubscriber, ZenohStep, Route, Callback, UcStep, UcKeepAlive,
         UcConnectTimer, UcTick, DropWhileDown, ProxyStart, Outside, ProxyKill, Foreign,
         Lose, uvars

(* Only a tick and a reset change the time.                                 *)
LEMMA OnlyTicks ==
  ASSUME Next, ~UcTick, ~UcReboot
  PROVE  uptime' = uptime
<1>1. CASE UcReceive
  BY <1>1 DEF UcReceive, U!IncomingConnect, U!IncomingPublish
<1>2. CASE UcKeepAlive
  BY <1>2 DEF UcKeepAlive, U!KeepAlive
<1>3. CASE UcConnectTimer
  BY <1>3 DEF UcConnectTimer, U!ConnectTimer
<1>4. CASE UcAppPublish
  BY <1>4 DEF UcAppPublish, U!AppPublish
<1>5. CASE UNCHANGED ucState
  BY <1>5 DEF ucState
<1> QED
  BY <1>1, <1>2, <1>3, <1>4, <1>5
     DEF Next, ProxyStep, HandleConnect, HandleSubscriber, HandlePublisher, HandlePublish,
         Received, FinishSubscriber, ZenohStep, Route, Callback, UcStep, DropWhileDown,
         ProxyStart, Outside, ProxyKill, Foreign, Lose, uvars

(* So the clock keeps its invariant, whatever frames it receives.           *)
LEMMA ClockInvStep ==
  ASSUME U!UInv, toUc \in Seq(Replies), Next
  PROVE  (U!UInv)'
<1> USE ClockAssumptions
<1>1. UP!UInv
  BY SameClock
<1>2. CASE U!KeepAlive
  BY <1>1, <1>2, SameClock, UP!KeepAliveInv
<1>3. CASE U!ConnectTimer
  BY <1>1, <1>3, SameClock, UP!ConnectTimerInv
<1>4. CASE U!IncomingConnect
  BY <1>1, <1>4, SameClock, UP!IncomingConnectInv
<1>5. CASE U!Tick
  BY <1>1, <1>5, SameClock, UP!TickInv
<1>6. CASE /\ UcReceive /\ Head(toUc).type = "publish"
           /\ U!IncomingPublish(Head(toUc).id, Head(toUc).val)
  <2> DEFINE i == Head(toUc).id
             t == Head(toUc).val
  <2>1. i \in UP!MsgIds
    <3>1. Head(toUc) \in Replies
      BY <1>6 DEF UcReceive
    <3> QED
      BY <3>1, <1>6, ReplyFields, IdsAssumption DEF UP!MsgIds
  <2>2. UP!IncomingPublish(i, t)
    BY <1>6, Zenon
       DEF U!IncomingPublish, U!Write, U!MsgPublish, U!LatencyPub, U!LatencyOf,
           UP!IncomingPublish, UP!Write, UP!MsgPublish, UP!LatencyPub, UP!LatencyOf
  <2> HIDE DEF i, t
  <2>3. (UP!UInv)'
    BY <1>1, <2>1, <2>2, UP!IncomingPublishInv
  <2> QED
    BY <2>3, SameClock
<1>7. ASSUME NEW a \in Apps, NEW kept \in 0 .. Len(line), U!Reboot(a, kept)
      PROVE  (U!UInv)'
  <2>1. UP!Reboot(a, kept)
    BY <1>7, Zenon DEF U!Reboot, UP!Reboot
  <2>2. (UP!UInv)'
    BY <1>1, <2>1, UP!RebootInv
  <2> QED
    BY <2>2, SameClock
<1>8. CASE UNCHANGED ucState
  BY <1>8 DEF ucState, U!UInv, U!ClockTypeOK, U!FreshAtPhase, U!SinceCheck
<1> QED
  BY <1>2, <1>3, <1>4, <1>5, <1>6, <1>7, <1>8, ClockStep

-----------------------------------------------------------------------------
(* The way back: what is under way to the microcontroller was there before, *)
(* is a reply to a connect, or is what the callback makes of a sample.      *)
LEMMA ReplyElements ==
  ASSUME Next, Len(toUc) <= MaxToUc, NEW S, toUc \in Seq(S), U!MsgConnect \in S,
         \A c \in inflight : U!MsgPublish(heap[c.sub].id, c.key, c.val) \in S
  PROVE  toUc' \in Seq(S) /\ Len(toUc') <= MaxToUc
<1> USE BacklogAssumption
<1>1. CASE UNCHANGED toUc
  BY <1>1
<1>2. CASE HandleConnect
  BY <1>2 DEF HandleConnect
<1>3. CASE \E c \in inflight : Callback(c)
  BY <1>3 DEF Callback
<1>4. CASE UcReceive
  BY <1>4 DEF UcReceive
<1>5. CASE Lose
  BY <1>5, RemoveAtIn, RemoveAtShortens DEF Lose
<1>6. CASE UcReboot
  BY <1>6, LaterPart DEF UcReboot
<1> QED
  BY <1>1, <1>2, <1>3, <1>4, <1>5, <1>6
     DEF Next, ProxyStep, HandleSubscriber, HandlePublisher, HandlePublish,
         FinishSubscriber, ZenohStep, Route, UcStep, UcKeepAlive, UcConnectTimer, UcTick,
         UcAppPublish, DropWhileDown, ProxyStart, Outside, ProxyKill, Foreign

(* The uptimes that may be under way.                                       *)
LEMMA TripStep ==
  ASSUME Next
  PROVE  \/ UNCHANGED tripVars
         \/ UcKeepAlive \/ UcTick \/ Foreign \/ UcAppPublish \/ UcReboot
  BY DEF Next, ProxyStep, HandleConnect, HandleSubscriber, HandlePublisher, HandlePublish,
         Received, FinishSubscriber, ZenohStep, Route, Callback, UcStep, UcReceive,
         UcConnectTimer, DropWhileDown, ProxyStart, Outside, ProxyKill, Lose

LEMMA TripTypes ==
  ASSUME Next, uptime \in Values, trips \subseteq [val : Values, age : Nat], stray \in BOOLEAN
  PROVE  trips' \subseteq [val : Values, age : Nat] /\ stray' \in BOOLEAN
<1>1. CASE UNCHANGED tripVars
  BY <1>1 DEF tripVars
<1>2. CASE UcKeepAlive
  BY <1>2 DEF UcKeepAlive
<1>3. CASE UcTick
  BY <1>3 DEF UcTick
<1>4. CASE Foreign
  BY <1>4 DEF Foreign
<1>5. CASE UcAppPublish
  BY <1>5 DEF UcAppPublish
<1>6. CASE UcReboot
  BY <1>6 DEF UcReboot
<1> QED
  BY <1>1, <1>2, <1>3, <1>4, <1>5, <1>6, TripStep

(* Outside events are paid for and remembered.                              *)
LEMMA BudgetStep ==
  ASSUME Next, budget \in [Events -> Nat], happened \subseteq Events
  PROVE  /\ budget' \in [Events -> Nat] /\ happened' \subseteq Events
         /\ happened \subseteq happened'
         /\ \A e \in Events : budget'[e] <= budget[e]
         /\ \A e \in happened' \ happened : budget[e] > 0
<1>1. CASE UNCHANGED outsideVars
  BY <1>1 DEF outsideVars
<1>2. CASE \E e \in Events : Spend(e)
  BY <1>2 DEF Spend
<1>3. \A ok \in BOOLEAN, e \in Events : Outcome(ok, e) => UNCHANGED outsideVars \/ Spend(e)
  BY DEF Outcome
<1>4. CASE HandleConnect
  BY <1>1, <1>2, <1>3, <1>4 DEF HandleConnect, Events, Outcome
<1>5. CASE HandlePublisher
  BY <1>1, <1>2, <1>3, <1>5 DEF HandlePublisher, Events
<1>6. CASE HandlePublish
  BY <1>1, <1>2, <1>3, <1>6 DEF HandlePublish, Events
<1>7. CASE UcTick
  BY <1>1, <1>2, <1>7 DEF UcTick, Outcome, Events
<1>8. CASE UcReboot
  BY <1>2, <1>8 DEF UcReboot, Events
<1>9. CASE HandleSubscriber
  BY <1>1, <1>2, <1>9 DEF HandleSubscriber, Events
<1> QED
  BY <1>1, <1>2, <1>4, <1>5, <1>6, <1>7, <1>8, <1>9
     DEF Next, ProxyStep, FinishSubscriber, ZenohStep, Route, Callback, UcStep, UcReceive,
         UcKeepAlive, UcConnectTimer, UcAppPublish, DropWhileDown, ProxyStart,
         Outside, ProxyKill, Foreign, Lose, Events

-----------------------------------------------------------------------------
LEMMA InitInv == Init => ProxyInv
<1> SUFFICES ASSUME Init PROVE ProxyInv
  OBVIOUS
<1>1. Z!ZInv
  BY ZP!ZInitInv, SameBroker, BrokerAssumptions DEF Init
<1>2. U!UInv /\ line = <<>>
  BY UP!UInitInv, SameClock, ClockAssumptions DEF Init, U!UInit
<1>3. /\ toUc = <<>> /\ budget \in [Events -> Nat] /\ happened = {}
      /\ trips = {} /\ stray = FALSE
  BY BudgetsAssumption DEF Init
<1> QED
  <2>1. 0 <= MaxLine /\ 0 <= MaxToUc
    BY BacklogAssumption, PartsAssumption DEF U!LineAssumption
  <2>2. /\ line \in Seq(Frames) /\ Len(line) <= MaxLine
        /\ toUc \in Seq(Replies) /\ Len(toUc) <= MaxToUc
    BY <1>2, <1>3, <2>1
  <2>3. trips \subseteq [val : Values, age : Nat] /\ stray \in BOOLEAN
    BY <1>3
  <2>4. budget \in [Events -> Nat] /\ happened \subseteq Events
    BY <1>3
  <2> QED
    BY <1>1, <1>2, <2>2, <2>3, <2>4 DEF ProxyInv

(* What the microcontroller writes is typed; a latency does not leave 0 .. Modulus - 1. *)
LEMMA NewFramesAreFrames ==
  ASSUME app \in Apps, uptime \in Values, toUc \in Seq(Replies)
  PROVE  NewFrames \subseteq Frames
<1>1. /\ IdsOfKind("sub") \subseteq Ids /\ IdsOfKind("pub") \subseteq Ids
      /\ \A i \in IdsOfKind("sub") \union IdsOfKind("pub") : U!Key(i) \in Topics
      /\ U!UptimePub \in Ids /\ U!LatencyPub \in Ids
  BY ResourceIdsAreIds DEF IdsOfKind
<1>2. Uptime \in Topics /\ Latency \in Topics
  BY PartsAssumption DEF U!TopicsAssumption
<1>3. Declarations \subseteq Frames
  BY <1>1 DEF Declarations, Frames
<1>4. uptime \in Values /\ 0 \in Values
  BY InstantsAreValues
<1>5. \A t \in SamplesUnderWay : U!LatencyOf(t) \in Values
  <2>1. \A t \in SamplesUnderWay : t \in Nat
    BY ReplyFields DEF SamplesUnderWay, Values
  <2>2. Modulus \in Nat \ {0} /\ uptime \in Nat
    BY PartsAssumption DEF U!UptimeAssumption, Values
  <2>3. \A t \in Nat : (uptime + Modulus - t) % Modulus \in 0 .. (Modulus - 1)
    BY <2>2
  <2> QED
    BY <2>1, <2>3 DEF U!LatencyOf, Values
<1> QED
  BY <1>1, <1>2, <1>3, <1>4, <1>5 DEF NewFrames, Frames

(* The invariant is inductive.                                              *)
LEMMA ProxyInvStep ==
  ASSUME ProxyInv, [Next]_vars
  PROVE  ProxyInv'
<1>1. CASE Next
  <2>1. (Z!ZInv)' /\ (U!UInv)'
    BY <1>1, BrokerInvStep, ClockInvStep DEF ProxyInv
  <2>2. app \in Apps /\ uptime \in Values
    BY InstantsAreValues DEF ProxyInv, U!UInv, U!ClockTypeOK
  <2>3. line' \in Seq(Frames) /\ Len(line') <= MaxLine
    BY <1>1, <2>2, LineElements, NewFramesAreFrames DEF ProxyInv
  <2>4. \A c \in inflight : U!MsgPublish(heap[c.sub].id, c.key, c.val) \in Replies
    <3> SUFFICES ASSUME NEW c \in inflight
                 PROVE  U!MsgPublish(heap[c.sub].id, c.key, c.val) \in Replies
      OBVIOUS
    <3>1. c \in Z!Call /\ heap[c.sub] # None
      BY DEF ProxyInv, Z!ZInv, Z!ZTypeOK, Z!HandlerTargetIntact
    <3>2. heap[c.sub] \in Z!Sub
      BY <3>1 DEF ProxyInv, Z!ZInv, Z!ZTypeOK, Z!Call
    <3> QED
      BY <3>1, <3>2 DEF Replies, Z!Call, Z!Sub
  <2>5. toUc' \in Seq(Replies) /\ Len(toUc') <= MaxToUc
    <3>1. U!MsgConnect \in Replies
      BY DEF Replies
    <3> QED
      BY <1>1, <2>4, <3>1, ReplyElements DEF ProxyInv
  <2>6. trips' \subseteq [val : Values, age : Nat] /\ stray' \in BOOLEAN
    BY <1>1, <2>2, TripTypes DEF ProxyInv
  <2> QED
    BY <1>1, <2>1, <2>3, <2>5, <2>6, BudgetStep DEF ProxyInv
<1>2. CASE UNCHANGED vars
  <2>1. /\ UNCHANGED Z!zvars /\ UNCHANGED ucState
        /\ UNCHANGED <<line, toUc, budget, happened, trips, stray>>
    BY <1>2 DEF vars, zvars, Z!zvars, uvars, ucState, outsideVars, tripVars
  <2>2. (Z!ZInv)'
    BY <2>1, SameBroker, BrokerAssumptions, ZP!ZStepInv DEF ProxyInv
  <2>3. (U!UInv)'
    BY <2>1 DEF ProxyInv, ucState, U!UInv, U!ClockTypeOK, U!FreshAtPhase, U!SinceCheck
  <2>4. UNCHANGED <<Frames, Replies>>
    BY DEF Frames, Replies
  <2> QED
    BY <2>1, <2>2, <2>3, <2>4 DEF ProxyInv
<1> QED
  BY <1>1, <1>2

(* The parts' invariants and the types of all messages under way, for any   *)
(* firmware, any bounds and any scenario of faults.                         *)
THEOREM ProxyInvariant == Spec => []ProxyInv
  BY InitInv, ProxyInvStep, PTL DEF Spec

(* Type correctness of the running system: neither the output buffer nor the *)
(* way back is ever filled past its bound.                                  *)
THEOREM ProxyTypes == Spec => []TypeOK
<1>1. ProxyInv => TypeOK
  <2> SUFFICES ASSUME ProxyInv PROVE TypeOK
    OBVIOUS
  <2>1. Frames \subseteq U!Msg /\ Replies \subseteq U!Msg
    BY IdsAssumption
       DEF Frames, Replies, U!Msg, U!MsgTypes, U!MsgIds, U!Values, Values,
           U!MsgConnect, U!MsgSubscriber, U!MsgPublisher, U!MsgPublish
  <2>2. line \in Seq(U!Msg) /\ toUc \in Seq(U!Msg)
    BY <2>1 DEF ProxyInv
  <2> QED
    BY <2>2 DEF ProxyInv, TypeOK, Z!ZInv, U!UTypeOK, U!UInv
<1> QED
  BY <1>1, ProxyInvariant, PTL

(* The proxy uses its broker as BrokerZenoh allows: what is proved there    *)
(* for any order of calls holds in the running system.                      *)
THEOREM RunsBroker == Spec => Z!ZSpec
<1>1. Init => Z!ZInit
  BY DEF Init
<1>2. ProxyInv /\ [Next]_vars => [Z!ZNext]_(Z!zvars)
  <2>1. CASE Next
    BY <2>1, BrokerStep DEF ProxyInv
  <2>2. CASE UNCHANGED vars
    BY <2>2 DEF vars, zvars, Z!zvars
  <2> QED
    BY <2>1, <2>2
<1> QED
  BY <1>1, <1>2, ProxyInvariant, PTL DEF Spec, Z!ZSpec

(* In particular, zenoh's declarations match the broker's tables, a handler *)
(* never runs with a Sub that is gone, and a table with entries has a session, *)
(* whatever is on the line and whichever process restarts.                  *)
THEOREM BrokerSoundInProxy ==
  Spec => [](Z!DeclaredMatchesTable /\ Z!HandlerTargetIntact /\ Z!SessionBacksTables)
<1>1. ProxyInv => Z!DeclaredMatchesTable /\ Z!HandlerTargetIntact /\ Z!SessionBacksTables
  BY DEF ProxyInv, Z!ZInv
<1> QED
  BY <1>1, ProxyInvariant, PTL

(* A connected microcontroller has heard of the proxy recently: no sequence of *)
(* faults, resets or slow round trips keeps it believing in a dead connection. *)
THEOREM OutageNoticedInProxy == Spec => []U!OutageNoticed
<1>1. ProxyInv => U!OutageNoticed
  BY PartsAssumption
     DEF ProxyInv, U!UInv, U!ClockTypeOK, U!FreshAtPhase, U!SinceCheck, U!OutageNoticed,
         U!TimersAssumption
<1> QED
  BY <1>1, ProxyInvariant, PTL

-----------------------------------------------------------------------------
(* Ids keep their meaning while the firmware is the same: every frame on    *)
(* the line, entry of the broker's tables, Sub object and sample on its way *)
(* back pairs an id with the topic the firmware gave it.                    *)
OwnFrames ==
  {U!MsgConnect} \union Declarations
    \union {U!MsgPublish(i, U!Key(i), v) : i \in IdsOfKind("pub"), v \in Values}

OwnReplies ==
  {m \in Replies : m.type = "publish" =>
     m.id \in IdsOfKind("sub") /\ m.key \in Matches[U!Key(m.id)]}

OwnPublishers ==
  \A i \in Ids : publishers[i] # None => publishers[i].key = U!Key(i)

OwnSubscriptions ==
  \A o \in SubObjs : heap[o] # None =>
    heap[o].id \in IdsOfKind("sub") /\ heap[o].key = U!Key(heap[o].id)

TopicInv ==
  "reflash" \notin happened =>
    /\ line \in Seq(OwnFrames)
    /\ toUc \in Seq(OwnReplies)
    /\ OwnPublishers
    /\ OwnSubscriptions

(* Only a reflash changes the resources.                                    *)
LEMMA SameFirmware ==
  ASSUME Next, ProxyInv, "reflash" \notin happened'
  PROVE  app' = app /\ "reflash" \notin happened
<1>1. "reflash" \notin happened
  BY BudgetStep DEF ProxyInv
<1>2. ASSUME NEW a \in Apps, NEW kept, U!Reboot(a, kept),
             Spend(IF a = app THEN "reboot" ELSE "reflash")
      PROVE  app' = app
  BY <1>2 DEF Spend, U!Reboot
<1>3. CASE UNCHANGED ucState
  BY <1>1, <1>3 DEF ucState
<1> QED
  BY <1>1, <1>2, <1>3, ClockStep
     DEF U!KeepAlive, U!ConnectTimer, U!IncomingConnect, U!IncomingPublish, U!Tick

(* An entry of the publishers' table comes from the frame being handled. *)
LEMMA PublisherEntries ==
  ASSUME Next, ProxyInv, NEW i \in Ids, publishers'[i] # None
  PROVE  \/ publishers'[i] = publishers[i]
         \/ /\ line # <<>> /\ Head(line).type = "publisher" /\ Head(line).id = i
            /\ publishers'[i].key = Head(line).key
<1>1. CASE UNCHANGED publishers
  BY <1>1
<1>2. CASE \E cause : Z!Die(cause)
  BY <1>2 DEF Z!Die, Z!FreshProcess
<1>3. CASE HandlePublisher
  <2>1. ASSUME NEW ok \in BOOLEAN, Z!Publisher(Head(line).id, Head(line).key, ok)
        PROVE  \/ publishers'[i] = publishers[i]
               \/ Head(line).id = i /\ publishers'[i].key = Head(line).key
    BY <2>1 DEF Z!Publisher, ProxyInv, Z!ZInv, Z!ZTypeOK
  <2> QED
    BY <1>1, <1>2, <1>3, <2>1
       DEF HandlePublisher, Received, Z!PublisherKnown, Z!zvars, Z!NullSession
<1>4. CASE HandleSubscriber
  BY <1>1, <1>2, <1>4
     DEF HandleSubscriber, Z!SubscriberKnown, Z!zvars, Z!NullSession, Z!SubscriberDeclare,
         Z!SubscriberRefused, Z!tables
<1> QED
  BY <1>1, <1>2, <1>3, <1>4
     DEF Next, ProxyStep, HandleConnect, Z!Connect, HandlePublish, Z!PublishUnknown,
         Z!Publish, FinishSubscriber, Z!SubscriberEmplace, ZenohStep, Route, Z!Dispatch,
         Callback, Z!SubscribeHandler, UcStep, UcReceive, UcKeepAlive, UcConnectTimer,
         UcTick, DropWhileDown, ProxyStart, Z!Start, Outside, Lose, UcReboot,
         ProxyKill, Z!Kill, Foreign, Z!ForeignSample, UcAppPublish, zvars, Z!zvars, Z!tables

(* A Sub object comes from the frame being handled.                         *)
LEMMA SubEntries ==
  ASSUME Next, ProxyInv, NEW o \in SubObjs, heap'[o] # None
  PROVE  \/ heap'[o] = heap[o]
         \/ /\ line # <<>> /\ Head(line).type = "subscriber"
            /\ heap'[o] = [id |-> Head(line).id, key |-> Head(line).key]
<1>1. CASE UNCHANGED heap
  BY <1>1
<1>2. CASE \E cause : Z!Die(cause)
  BY <1>2 DEF Z!Die, Z!FreshProcess
<1>3. CASE HandleSubscriber
  <2>1. ASSUME NEW p \in SubObjs,
               \/ Z!SubscriberDeclare(Head(line).id, Head(line).key, p)
               \/ Z!SubscriberRefused(Head(line).id, Head(line).key, p)
        PROVE  \/ heap'[o] = heap[o]
               \/ heap'[o] = [id |-> Head(line).id, key |-> Head(line).key]
    BY <2>1 DEF Z!SubscriberDeclare, Z!SubscriberRefused, ProxyInv, Z!ZInv, Z!ZTypeOK
  <2> QED
    BY <1>1, <1>2, <1>3, <2>1
       DEF HandleSubscriber, Received, Z!SubscriberKnown, Z!zvars, Z!NullSession
<1>4. CASE HandlePublisher
  BY <1>1, <1>2, <1>4
     DEF HandlePublisher, Z!PublisherKnown, Z!zvars, Z!NullSession, Z!Publisher
<1> QED
  BY <1>1, <1>2, <1>3, <1>4
     DEF Next, ProxyStep, HandleConnect, Z!Connect, HandlePublish, Z!PublishUnknown,
         Z!Publish, FinishSubscriber, Z!SubscriberEmplace, ZenohStep, Route, Z!Dispatch,
         Callback, Z!SubscribeHandler, UcStep, UcReceive, UcKeepAlive, UcConnectTimer,
         UcTick, DropWhileDown, ProxyStart, Z!Start, Outside, Lose, UcReboot,
         ProxyKill, Z!Kill, Foreign, Z!ForeignSample, UcAppPublish, zvars, Z!zvars

(* What the microcontroller writes pairs ids with its own topics.           *)
LEMMA NewFramesAreOwn ==
  ASSUME app \in Apps, uptime \in Values, toUc \in Seq(Replies)
  PROVE  NewFrames \subseteq OwnFrames
<1>1. /\ U!UptimePub \in IdsOfKind("pub") /\ U!Key(U!UptimePub) = Uptime
      /\ U!LatencyPub \in IdsOfKind("pub") /\ U!Key(U!LatencyPub) = Latency
  BY ResourceIdsAreIds
<1>2. uptime \in Values /\ 0 \in Values
  BY InstantsAreValues
<1>3. \A t \in SamplesUnderWay : U!LatencyOf(t) \in Values
  <2> SUFFICES ASSUME NEW t \in SamplesUnderWay PROVE U!LatencyOf(t) \in Values
    OBVIOUS
  <2>1. U!MsgPublish(U!LatencyPub, Latency, U!LatencyOf(t)) \in Frames
    BY NewFramesAreFrames DEF NewFrames
  <2> QED
    BY <2>1, FrameFields DEF U!MsgPublish
<1> QED
  BY <1>1, <1>2, <1>3 DEF NewFrames, OwnFrames

(* No step mixes up ids and topics.                                         *)
LEMMA TopicInvStep ==
  ASSUME ProxyInv, ProxyInv', TopicInv, Next
  PROVE  TopicInv'
<1> SUFFICES ASSUME "reflash" \notin happened'
             PROVE  /\ line' \in Seq(OwnFrames')
                    /\ toUc' \in Seq(OwnReplies')
                    /\ OwnPublishers'
                    /\ OwnSubscriptions'
  BY DEF TopicInv
<1>1. app' = app /\ "reflash" \notin happened
  BY SameFirmware
<1>2. line \in Seq(OwnFrames) /\ toUc \in Seq(OwnReplies) /\ OwnPublishers /\ OwnSubscriptions
  BY <1>1 DEF TopicInv
<1>3. /\ OwnFrames' = OwnFrames /\ OwnReplies' = OwnReplies
      /\ \A kind : IdsOfKind(kind)' = IdsOfKind(kind)
      /\ \A i : U!Key(i)' = U!Key(i)
  BY <1>1 DEF OwnFrames, OwnReplies, Declarations, IdsOfKind, ResourceIds, U!Key, U!Resources,
              Replies
<1>4. app \in Apps /\ uptime \in Values /\ toUc \in Seq(Replies) /\ Len(line) <= MaxLine
  BY InstantsAreValues DEF ProxyInv, U!UInv, U!ClockTypeOK
<1>5. line' \in Seq(OwnFrames)
  BY <1>2, <1>4, LineElements, NewFramesAreOwn
<1>6. toUc' \in Seq(OwnReplies)
  <2>1. ASSUME NEW c \in inflight
        PROVE  U!MsgPublish(heap[c.sub].id, c.key, c.val) \in OwnReplies
    <3>1. /\ c \in Z!Call /\ heap[c.sub] # None
          /\ c.key \in Matches[heap[c.sub].key]
      BY DEF ProxyInv, Z!ZInv, Z!ZTypeOK, Z!HandlerTargetIntact
    <3>2. heap[c.sub] \in Z!Sub
      BY <3>1 DEF ProxyInv, Z!ZInv, Z!ZTypeOK, Z!Call
    <3>3. heap[c.sub].id \in IdsOfKind("sub") /\ heap[c.sub].key = U!Key(heap[c.sub].id)
      BY <1>2, <3>1 DEF OwnSubscriptions, Z!Call
    <3>4. U!MsgPublish(heap[c.sub].id, c.key, c.val) \in Replies
      BY <3>1, <3>2 DEF Replies, Z!Call, Z!Sub
    <3> QED
      BY <3>1, <3>3, <3>4 DEF OwnReplies, U!MsgPublish
  <2>2. U!MsgConnect \in OwnReplies
    BY DEF OwnReplies, Replies, U!MsgConnect
  <2> QED
    BY <1>2, <2>1, <2>2, ReplyElements DEF ProxyInv
<1>7. ASSUME line # <<>>
      PROVE  Head(line) \in OwnFrames
  BY <1>2, <1>7
<1>8. OwnPublishers'
  <2> SUFFICES ASSUME NEW i \in Ids, publishers'[i] # None
               PROVE  publishers'[i].key = U!Key(i)
    BY <1>3 DEF OwnPublishers
  <2>1. CASE publishers'[i] = publishers[i]
    BY <1>2, <2>1 DEF OwnPublishers
  <2>2. CASE /\ line # <<>> /\ Head(line).type = "publisher" /\ Head(line).id = i
             /\ publishers'[i].key = Head(line).key
    BY <1>7, <2>2
       DEF OwnFrames, Declarations, U!MsgConnect, U!MsgSubscriber, U!MsgPublisher, U!MsgPublish
  <2> QED
    BY <2>1, <2>2, PublisherEntries
<1>9. OwnSubscriptions'
  <2> SUFFICES ASSUME NEW o \in SubObjs, heap'[o] # None
               PROVE  heap'[o].id \in IdsOfKind("sub") /\ heap'[o].key = U!Key(heap'[o].id)
    BY <1>3 DEF OwnSubscriptions
  <2>1. CASE heap'[o] = heap[o]
    BY <1>2, <2>1 DEF OwnSubscriptions
  <2>2. CASE /\ line # <<>> /\ Head(line).type = "subscriber"
             /\ heap'[o] = [id |-> Head(line).id, key |-> Head(line).key]
    BY <1>7, <2>2
       DEF OwnFrames, Declarations, U!MsgConnect, U!MsgSubscriber, U!MsgPublisher, U!MsgPublish
  <2> QED
    BY <2>1, <2>2, SubEntries
<1> QED
  BY <1>3, <1>5, <1>6, <1>8, <1>9

(* Ids keep their meaning in every reachable state.                         *)
LEMMA TopicInvariant == Spec => []TopicInv
<1>1. Init => TopicInv
  <2> SUFFICES ASSUME Init PROVE TopicInv
    OBVIOUS
  <2>1. line = <<>> /\ toUc = <<>>
    BY DEF Init, U!UInit
  <2>2. OwnPublishers /\ OwnSubscriptions
    BY DEF Init, Z!ZInit, Z!FreshProcess, OwnPublishers, OwnSubscriptions
  <2> QED
    BY <2>1, <2>2 DEF TopicInv
<1>2. ProxyInv /\ ProxyInv' /\ TopicInv /\ [Next]_vars => TopicInv'
  <2> SUFFICES ASSUME ProxyInv, ProxyInv', TopicInv, [Next]_vars PROVE TopicInv'
    OBVIOUS
  <2>1. CASE UNCHANGED vars
    <3>1. UNCHANGED <<app, line, toUc, publishers, heap, happened>>
      BY <2>1 DEF vars, zvars, uvars, ucState, outsideVars
    <3>2. UNCHANGED <<OwnFrames, OwnReplies, OwnPublishers, OwnSubscriptions>>
      BY <3>1 DEF OwnFrames, OwnReplies, OwnPublishers, OwnSubscriptions, Declarations,
                  IdsOfKind, ResourceIds, U!Resources, U!Key, Replies
    <3> QED
      BY <3>1, <3>2 DEF TopicInv
  <2> QED
    BY <2>1, TopicInvStep
<1> QED
  BY <1>1, <1>2, ProxyInvariant, PTL DEF Spec

(* So a publish at the head of the line goes out under its own key.         *)
LEMMA PublishedUnderItsKey ==
  ASSUME ProxyInv, TopicInv, "reflash" \notin happened,
         line # <<>>, Head(line).type = "publish", publishers[Head(line).id] # None
  PROVE  publishers[Head(line).id].key = Head(line).key
<1>1. Head(line) \in OwnFrames
  BY DEF TopicInv
<1>2. Head(line).id \in Ids /\ Head(line).key = U!Key(Head(line).id)
  BY <1>1, ResourceIdsAreIds
     DEF ProxyInv, U!UInv, U!ClockTypeOK, OwnFrames, Declarations, IdsOfKind,
         U!MsgConnect, U!MsgSubscriber, U!MsgPublisher, U!MsgPublish
<1> QED
  BY <1>2 DEF TopicInv, OwnPublishers

(* For any firmware, until the microcontroller is flashed with another one: *)
(* whatever is lost, restarted or refused, a publish meets the topic its    *)
(* sender meant.                                                            *)
THEOREM TopicsAgree == Spec => []("reflash" \notin happened => PublishReachesItsTopic)
<1>1. ProxyInv /\ TopicInv => ("reflash" \notin happened => PublishReachesItsTopic)
  BY PublishedUnderItsKey DEF PublishReachesItsTopic
<1> QED
  BY <1>1, ProxyInvariant, TopicInvariant, PTL

(* Under the same condition a sample comes back under the id of a          *)
(* subscriber whose topic matches, although it passed through objects and   *)
(* handler calls that outlive table entries, sessions and resets.           *)
THEOREM SamplesAgree == Spec => []("reflash" \notin happened => SampleReachesItsSubscriber)
<1>1. TopicInv => ("reflash" \notin happened => SampleReachesItsSubscriber)
  <2> SUFFICES ASSUME TopicInv, "reflash" \notin happened,
                      NEW n \in DOMAIN toUc, toUc[n].type = "publish"
               PROVE  /\ toUc[n].id < Len(U!Resources)
                      /\ U!Resources[toUc[n].id + 1].kind = "sub"
                      /\ toUc[n].key \in Matches[U!Key(toUc[n].id)]
    BY DEF SampleReachesItsSubscriber
  <2>1. toUc[n] \in OwnReplies
    BY DEF TopicInv
  <2>2. Len(U!Resources) \in Nat
    BY DEF TopicInv
  <2> QED
    BY <2>1, <2>2 DEF OwnReplies, IdsOfKind, ResourceIds
<1> QED
  BY <1>1, TopicInvariant, PTL

-----------------------------------------------------------------------------
(* Latencies.  Remainders: of a number written as multiple and remainder,   *)
(* and of sums.                                                             *)
LEMMA DivisionIsExact ==
  ASSUME NEW M \in Nat \ {0}, NEW n \in Int
  PROVE  \E q \in Int, a \in 0 .. (M - 1) : a = n % M /\ n = q * M + a
<1>1. n \div M \in Int /\ n % M \in 0 .. (M - 1) /\ n = (n \div M) * M + (n % M)
  OBVIOUS
<1> QED
  BY <1>1

LEMMA Remainder ==
  ASSUME NEW M \in Nat \ {0}, NEW k \in Int, NEW a \in 0 .. (M - 1), NEW n \in Int, n = k * M + a
  PROVE  n % M = a
<1>1. PICK q \in Int, b \in 0 .. (M - 1) : b = n % M /\ n = q * M + b
  BY DivisionIsExact
<1>2. PICK d \in Int, e \in Int : d = k - q /\ e = d * M /\ e = b - a
  <2>1. (k - q) * M = k * M - q * M /\ k - q \in Int /\ (k - q) * M \in Int
    OBVIOUS
  <2>2. k * M \in Int /\ q * M \in Int
    OBVIOUS
  <2>3. (k - q) * M = b - a
    BY <1>1, <2>1, <2>2
  <2> QED
    BY <2>1, <2>3
<1>3. d >= 1 => e >= M
  BY <1>2
<1>4. d <= -1 => e <= -M
  BY <1>2
<1>5. d = 0 => e = 0
  BY <1>2
<1> QED
  BY <1>1, <1>2, <1>3, <1>4, <1>5

LEMMA RemainderOfSum ==
  ASSUME NEW M \in Nat \ {0}, NEW v \in 0 .. (M - 1), NEW a \in Nat
  PROVE  /\ (v + (a + 1)) % M = (((v + a) % M) + 1) % M
         /\ (((v + a) % M) + M - v) % M = a % M
<1>1. PICK n \in Int : n = v + a
  OBVIOUS
<1>2. PICK q \in Int, u \in 0 .. (M - 1) : u = n % M /\ n = q * M + u
  BY DivisionIsExact
<1>3. PICK p \in Int, b \in 0 .. (M - 1) : b = a % M /\ a = p * M + b
  <2>1. a \in Int
    OBVIOUS
  <2> QED
    BY <2>1, DivisionIsExact
<1>4. PICK w \in Int : w = u + 1
  OBVIOUS
<1>5. PICK k \in Int, d \in 0 .. (M - 1) : d = w % M /\ w = k * M + d
  BY DivisionIsExact
<1>6. q + k \in Int /\ p + 1 - q \in Int
  OBVIOUS
<1>7. PICK x \in Int, y \in Int, z \in Int :
        /\ x = q * M /\ y = k * M /\ z = p * M
        /\ (q + k) * M = x + y /\ (p + 1 - q) * M = z + M - x
  <2>1. (q + k) * M = q * M + k * M /\ (p + 1 - q) * M = p * M + M - q * M
    OBVIOUS
  <2>2. q * M \in Int /\ k * M \in Int /\ p * M \in Int
    OBVIOUS
  <2> QED
    BY <2>1, <2>2
<1>8. n + 1 \in Int /\ n + 1 = (q + k) * M + d
  <2>1. n = x + u /\ u + 1 = y + d
    BY <1>2, <1>4, <1>5, <1>7
  <2>2. n + 1 = (x + y) + d
    BY <2>1
  <2> QED
    BY <1>7, <2>2
<1>9. u + M - v \in Int /\ u + M - v = (p + 1 - q) * M + b
  <2>1. v + a = x + u /\ a = z + b
    BY <1>1, <1>2, <1>3, <1>7
  <2>2. u + M - v = (z + M - x) + b
    BY <2>1
  <2> QED
    BY <1>7, <2>2
<1>10. (n + 1) % M = d
  <2> DEFINE c == q + k
             e == n + 1
  <2>1. c \in Int /\ e \in Int /\ e = c * M + d
    BY <1>6, <1>8
  <2> HIDE DEF c, e
  <2>2. e % M = d
    BY <2>1, Remainder
  <2> QED
    BY <2>2 DEF e
<1>11. (u + M - v) % M = b
  BY <1>6, <1>9, Remainder
<1>12. v + (a + 1) = n + 1
  BY <1>1
<1> QED
  BY <1>1, <1>2, <1>3, <1>4, <1>5, <1>10, <1>11, <1>12

(* Each uptime under way is one whose trip is recorded, and with the time   *)
(* it has been under way it makes up the uptime of now.                     *)
Tripped == {trip.val : trip \in trips}
TrippedFrames == {m \in Frames : (m.type = "publish" /\ m.key = Uptime) => m.val \in Tripped}
TrippedReplies == {m \in Replies : (m.type = "publish" /\ m.key = Uptime) => m.val \in Tripped}
TrippedSamples == {s \in Z!Sample : s.key = Uptime => s.val \in Tripped}
TrippedCalls == {c \in Z!Call : c.key = Uptime => c.val \in Tripped}

TripsExact == \A trip \in trips : (trip.val + trip.age) % Modulus = uptime

LatencyInv ==
  /\ TripsExact
  /\ (~stray /\ "reflash" \notin happened) =>
       /\ line \in Seq(TrippedFrames) /\ toUc \in Seq(TrippedReplies)
       /\ net \in Seq(TrippedSamples) /\ inflight \subseteq TrippedCalls

(* Samples come from the publish being handled, if not from elsewhere. *)
LEMMA NetElements ==
  ASSUME Next, ProxyInv, NEW S, net \in Seq(S), ~Foreign,
         ASSUME line # <<>>, Head(line).type = "publish", publishers[Head(line).id] # None
         PROVE  [key |-> publishers[Head(line).id].key, val |-> Head(line).val] \in S
  PROVE  net' \in Seq(S)
<1>1. CASE UNCHANGED net
  BY <1>1
<1>2. CASE \E cause : Z!Die(cause)
  BY <1>2 DEF Z!Die
<1>3. CASE HandlePublish
  <2>1. CASE \E ok \in BOOLEAN : Z!Publish(Head(line).id, Head(line).val, ok)
    <3>1. line # <<>> /\ Head(line).type = "publish"
      BY <1>3 DEF HandlePublish, Received
    <3>2. publishers[Head(line).id] # None
      BY <2>1 DEF Z!Publish
    <3>3. [key |-> publishers[Head(line).id].key, val |-> Head(line).val] \in S
      BY <3>1, <3>2
    <3> QED
      BY <2>1, <3>3 DEF Z!Publish
  <2> QED
    BY <1>1, <1>3, <2>1 DEF HandlePublish, Z!PublishUnknown, Z!zvars
<1>4. CASE Route
  BY <1>4 DEF Route, Z!Dispatch
<1>5. CASE HandleSubscriber
  BY <1>1, <1>2, <1>5
     DEF HandleSubscriber, Z!SubscriberKnown, Z!zvars, Z!NullSession, Z!SubscriberDeclare,
         Z!SubscriberRefused, Z!zenoh
<1>6. CASE HandlePublisher
  BY <1>1, <1>2, <1>6
     DEF HandlePublisher, Z!PublisherKnown, Z!zvars, Z!NullSession, Z!Publisher, Z!zenoh
<1> QED
  BY <1>1, <1>2, <1>3, <1>4, <1>5, <1>6
     DEF Next, ProxyStep, HandleConnect, Z!Connect, FinishSubscriber, Z!SubscriberEmplace,
         ZenohStep, Callback, Z!SubscribeHandler, UcStep, UcReceive, UcKeepAlive,
         UcConnectTimer, UcTick, DropWhileDown, ProxyStart, Z!Start, Outside, Lose, UcReboot,
         ProxyKill, Z!Kill, UcAppPublish, zvars, Z!zvars, Z!zenoh

(* A handler call comes from the sample being dispatched.                   *)
LEMMA CallElements ==
  ASSUME Next, NEW c \in inflight'
  PROVE  \/ c \in inflight
         \/ net # <<>> /\ c.val = Head(net).val /\ c.key = Head(net).key
<1>1. CASE UNCHANGED inflight
  BY <1>1
<1>2. CASE \E cause : Z!Die(cause)
  BY <1>2 DEF Z!Die
<1>3. CASE Route
  BY <1>3 DEF Route, Z!Dispatch
<1>4. CASE HandleSubscriber
  BY <1>1, <1>2, <1>4
     DEF HandleSubscriber, Z!SubscriberKnown, Z!zvars, Z!NullSession, Z!SubscriberDeclare,
         Z!SubscriberRefused, Z!zenoh
<1>5. CASE HandlePublisher
  BY <1>1, <1>2, <1>5
     DEF HandlePublisher, Z!PublisherKnown, Z!zvars, Z!NullSession, Z!Publisher, Z!zenoh
<1>6. CASE \E d \in inflight : Callback(d)
  BY <1>6 DEF Callback, Z!SubscribeHandler
<1> QED
  BY <1>1, <1>2, <1>3, <1>4, <1>5, <1>6
     DEF Next, ProxyStep, HandleConnect, Z!Connect, HandlePublish, Z!PublishUnknown,
         Z!Publish, FinishSubscriber, Z!SubscriberEmplace,
         ZenohStep, UcStep, UcReceive, UcKeepAlive, UcConnectTimer, UcTick, DropWhileDown,
         ProxyStart, Z!Start, Outside, Lose, UcReboot, ProxyKill, Z!Kill, Foreign,
         Z!ForeignSample, UcAppPublish, zvars, Z!zvars, Z!zenoh

(* A tick makes every trip one tick older, and it is one tick later. *)
LEMMA TripsStayExact ==
  ASSUME ProxyInv, ProxyInv', TripsExact, Next
  PROVE  TripsExact'
<1>1. Modulus \in Nat \ {0} /\ uptime \in Values /\ trips \subseteq [val : Values, age : Nat]
  BY InstantsAreValues, PartsAssumption
     DEF ProxyInv, U!UInv, U!ClockTypeOK, U!UptimeAssumption
<1>2. CASE UNCHANGED <<trips, uptime>>
  BY <1>2 DEF TripsExact
<1>3. CASE UcKeepAlive
  <2>1. trips' \subseteq trips \union {[val |-> uptime, age |-> 0]} /\ uptime' = uptime
    BY <1>3 DEF UcKeepAlive, U!KeepAlive
  <2>2. (uptime + 0) % Modulus = uptime
    BY <1>1, Remainder DEF Values
  <2> QED
    BY <2>1, <2>2 DEF TripsExact
<1>4. CASE UcTick
  <2>1. uptime' = (uptime + 1) % Modulus
    BY <1>4 DEF UcTick, U!Tick
  <2>2. ASSUME NEW trip \in trips'
        PROVE  \E old \in trips : trip.val = old.val /\ trip.age = old.age + 1
    <3>1. PICK old \in trips : trip = [old EXCEPT !.age = @ + 1]
      BY <1>4, <2>2 DEF UcTick
    <3> QED
      BY <1>1, <3>1
  <2>3. ASSUME NEW trip \in trips'
        PROVE  (trip.val + trip.age) % Modulus = uptime'
    <3>1. PICK old \in trips : trip.val = old.val /\ trip.age = old.age + 1
      BY <2>2
    <3>2. old.val \in 0 .. (Modulus - 1) /\ old.age \in Nat
      BY <1>1 DEF Values
    <3>3. (old.val + (old.age + 1)) % Modulus = (((old.val + old.age) % Modulus) + 1) % Modulus
      BY <1>1, <3>2, RemainderOfSum
    <3>4. (old.val + old.age) % Modulus = uptime
      BY DEF TripsExact
    <3> QED
      BY <2>1, <3>1, <3>3, <3>4
  <2> QED
    BY <2>3 DEF TripsExact
<1>5. CASE UcReboot
  BY <1>5 DEF UcReboot, TripsExact
<1>6. CASE Foreign \/ UcAppPublish
  BY <1>6, <1>2 DEF Foreign, UcAppPublish, U!AppPublish, uvars, ucState
<1>7. CASE UNCHANGED tripVars /\ ~UcTick /\ ~UcReboot
  BY <1>2, <1>7, OnlyTicks DEF tripVars
<1> QED
  BY <1>3, <1>4, <1>5, <1>6, <1>7, TripStep

(* While no step resets it, what is recorded stays so. *)
LEMMA TripsKept ==
  ASSUME ProxyInv, Next, ~(UcTick /\ Quiet), ~stray'
  PROVE  ~stray /\ Tripped \subseteq Tripped' /\ ~UcReboot
<1>1. stray \in BOOLEAN /\ trips \subseteq [val : Values, age : Nat]
  BY DEF ProxyInv
<1>2. CASE UNCHANGED tripVars
  BY <1>2 DEF tripVars, Tripped, UcReboot
<1>3. CASE UcKeepAlive
  <2>1. stray' = stray /\ trips \subseteq trips'
    BY <1>3 DEF UcKeepAlive
  <2> QED
    BY <2>1 DEF Tripped, UcReboot
<1>4. CASE UcTick
  <2>1. trips' = {[trip EXCEPT !.age = @ + 1] : trip \in trips} /\ stray' = stray
    BY <1>1, <1>4 DEF UcTick
  <2>2. ASSUME NEW trip \in trips PROVE \E later \in trips' : later.val = trip.val
    <3>1. [trip EXCEPT !.age = @ + 1] \in trips' /\ [trip EXCEPT !.age = @ + 1].val = trip.val
      BY <1>1, <2>1
    <3> QED
      BY <3>1
  <2>3. Tripped \subseteq Tripped'
    BY <2>2 DEF Tripped
  <2> QED
    BY <2>1, <2>3 DEF UcReboot
<1>5. CASE Foreign \/ UcAppPublish
  <2>1. trips' = trips /\ (stray => stray')
    BY <1>5 DEF Foreign, UcAppPublish
  <2> QED
    BY <2>1 DEF Tripped, UcReboot
<1>6. CASE UcReboot
  BY <1>6 DEF UcReboot
<1> QED
  BY <1>2, <1>3, <1>4, <1>5, <1>6, TripStep

(* Of what the microcontroller writes only the keep-alive is on the uptime   *)
(* topic, and its trip is recorded at once.                                  *)
LEMMA TrippedLine ==
  ASSUME ProxyInv, Next, line \in Seq(TrippedFrames), Tripped \subseteq Tripped', ~stray'
  PROVE  line' \in Seq(TrippedFrames')
<1>1. /\ app \in Apps /\ uptime \in Values /\ toUc \in Seq(Replies)
  BY InstantsAreValues DEF ProxyInv, U!UInv, U!ClockTypeOK
<1>2. NewFrames \subseteq Frames /\ Frames' = Frames
  BY <1>1, NewFramesAreFrames DEF Frames
<1>3. TrippedFrames \subseteq TrippedFrames'
  BY <1>2 DEF TrippedFrames
<1>4. line \in Seq(TrippedFrames')
  BY <1>3
<1>5. CASE ~Writes
  BY <1>4, <1>5, LineShrinks
<1>6. ASSUME NEW m \in NewFrames, (m.type = "publish" /\ m.key = Uptime) => m.val \in Tripped'
      PROVE  m \in TrippedFrames'
  BY <1>2, <1>6 DEF TrippedFrames
<1>7. CASE UcKeepAlive
  <2>1. CASE connected
    <3>1. line' = line \o <<U!MsgPublish(U!UptimePub, Uptime, uptime)>>
      BY <1>7, <2>1 DEF UcKeepAlive, U!KeepAlive, U!Write
    <3>2. uptime \in Tripped'
      <4>1. [val |-> uptime, age |-> 0] \in trips' /\ [val |-> uptime, age |-> 0].val = uptime
        BY <1>7, <2>1 DEF UcKeepAlive
      <4> QED
        BY <4>1 DEF Tripped
    <3>3. U!MsgPublish(U!UptimePub, Uptime, uptime) \in NewFrames
      BY DEF NewFrames
    <3>4. U!MsgPublish(U!UptimePub, Uptime, uptime) \in TrippedFrames'
      BY <1>6, <3>2, <3>3 DEF U!MsgPublish
    <3> QED
      BY <1>4, <3>1, <3>4
  <2>2. CASE ~connected
    <3>1. line' = line \o <<U!MsgConnect>>
      BY <1>7, <2>2 DEF UcKeepAlive, U!KeepAlive, U!Write
    <3>2. U!MsgConnect \in NewFrames
      BY DEF NewFrames
    <3>3. U!MsgConnect \in TrippedFrames'
      BY <1>6, <3>2 DEF U!MsgConnect
    <3> QED
      BY <1>4, <3>1, <3>3
  <2> QED
    BY <2>1, <2>2
<1>8. CASE UcReceive
  <2>1. CASE U!IncomingConnect
    <3>1. U!SubscriberMsgs \o U!PublisherMsgs \in Seq(Declarations)
      BY <1>1, DeclarationMsgs
    <3>2. Declarations \subseteq TrippedFrames'
      BY <1>6 DEF NewFrames, Declarations, U!MsgSubscriber, U!MsgPublisher
    <3>3. U!SubscriberMsgs \o U!PublisherMsgs \in Seq(TrippedFrames')
      BY <3>1, <3>2
    <3> QED
      BY <1>4, <2>1, <3>3 DEF U!IncomingConnect, U!Write
  <2>2. CASE /\ toUc # <<>> /\ Head(toUc).type = "publish"
             /\ U!IncomingPublish(Head(toUc).id, Head(toUc).val)
    <3> DEFINE m == U!MsgPublish(U!LatencyPub, Latency, U!LatencyOf(Head(toUc).val))
    <3>1. Head(toUc).val \in SamplesUnderWay
      <4>1. 1 \in DOMAIN toUc /\ Head(toUc) = toUc[1]
        BY <1>1, <2>2
      <4> QED
        BY <2>2, <4>1 DEF SamplesUnderWay
    <3>2. m \in NewFrames
      BY <3>1 DEF NewFrames
    <3>3. m.key # Uptime
      BY PartsAssumption DEF U!TopicsAssumption, U!MsgPublish
    <3>4. line' = line \o <<m>>
      BY <2>2 DEF U!IncomingPublish, U!Write
    <3> HIDE DEF m
    <3>5. m \in TrippedFrames'
      BY <1>6, <3>2, <3>3
    <3> QED
      BY <1>4, <3>4, <3>5
  <2> QED
    BY <1>8, <2>1, <2>2 DEF UcReceive
<1>9. CASE UcAppPublish
  <2>1. PICK i \in 3 .. (Len(U!Resources) - 1) :
          U!AppPublish(i, 0) /\ stray' = (stray \/ U!Key(i) = Uptime)
    BY <1>9 DEF UcAppPublish
  <2> DEFINE m == U!MsgPublish(i, U!Key(i), 0)
  <2>2. m \in NewFrames
    <3>1. i \in IdsOfKind("pub")
      BY <1>1, <2>1, ResourcesType DEF U!AppPublish, IdsOfKind, ResourceIds
    <3> QED
      BY <3>1 DEF NewFrames
  <2>3. m.key # Uptime
    BY <2>1 DEF U!MsgPublish
  <2>4. line' = line \o <<m>>
    BY <2>1 DEF U!AppPublish, U!Write
  <2> HIDE DEF m
  <2>5. m \in TrippedFrames'
    BY <1>6, <2>2, <2>3
  <2> QED
    BY <1>4, <2>4, <2>5
<1> QED
  BY <1>5, <1>7, <1>8, <1>9 DEF Writes

(* As long as nothing else is on the uptime topic, every uptime under way   *)
(* stays one of those recorded.                                             *)
LEMMA LatencyInvStep ==
  ASSUME ProxyInv, ProxyInv', TopicInv, LatencyInv, Next
  PROVE  LatencyInv'
<1>1. TripsExact'
  BY TripsStayExact DEF LatencyInv
<1> SUFFICES ASSUME ~stray', "reflash" \notin happened'
             PROVE  /\ line' \in Seq(TrippedFrames') /\ toUc' \in Seq(TrippedReplies')
                    /\ net' \in Seq(TrippedSamples') /\ inflight' \subseteq TrippedCalls'
  BY <1>1 DEF LatencyInv
<1>2. CASE UcTick /\ Quiet
  <2>1. line' = <<>> /\ toUc' = <<>> /\ net' = <<>> /\ inflight' = {}
    BY <1>2 DEF UcTick, U!Tick, Quiet, zvars
  <2> QED
    BY <2>1
<1>3. CASE ~(UcTick /\ Quiet)
  <2>1. ~stray /\ Tripped \subseteq Tripped' /\ ~UcReboot /\ "reflash" \notin happened
    BY <1>3, TripsKept, SameFirmware
  <2>2. /\ line \in Seq(TrippedFrames) /\ toUc \in Seq(TrippedReplies)
        /\ net \in Seq(TrippedSamples) /\ inflight \subseteq TrippedCalls
    BY <2>1 DEF LatencyInv
  <2>3. /\ TrippedReplies \subseteq TrippedReplies'
        /\ TrippedSamples \subseteq TrippedSamples' /\ TrippedCalls \subseteq TrippedCalls'
    <3>1. Replies' = Replies /\ (Z!Sample)' = Z!Sample /\ (Z!Call)' = Z!Call
      BY DEF Replies, Z!Sample, Z!Call
    <3> QED
      BY <2>1, <3>1 DEF TrippedReplies, TrippedSamples, TrippedCalls
  <2>4. line' \in Seq(TrippedFrames')
    BY <2>1, <2>2, TrippedLine
  <2>5. toUc' \in Seq(TrippedReplies')
    <3>1. ASSUME NEW c \in inflight
          PROVE  U!MsgPublish(heap[c.sub].id, c.key, c.val) \in TrippedReplies
      <4>1. c \in Z!Call /\ heap[c.sub] # None /\ (c.key = Uptime => c.val \in Tripped)
        BY <2>2 DEF ProxyInv, Z!ZInv, Z!ZTypeOK, Z!HandlerTargetIntact, TrippedCalls
      <4>2. heap[c.sub] \in Z!Sub
        BY <4>1 DEF ProxyInv, Z!ZInv, Z!ZTypeOK, Z!Call
      <4>3. U!MsgPublish(heap[c.sub].id, c.key, c.val) \in Replies
        BY <4>1, <4>2 DEF Replies, Z!Call, Z!Sub
      <4> QED
        BY <4>1, <4>3 DEF TrippedReplies, U!MsgPublish
    <3>2. U!MsgConnect \in TrippedReplies
      BY DEF TrippedReplies, Replies, U!MsgConnect
    <3>3. Len(toUc) <= MaxToUc
      BY DEF ProxyInv
    <3>4. toUc' \in Seq(TrippedReplies)
      BY <2>2, <3>1, <3>2, <3>3, ReplyElements
    <3> QED
      BY <2>3, <3>4
  <2>6. net' \in Seq(TrippedSamples')
    <3>1. CASE Foreign
      <4>1. PICK t \in Topics, v \in Values :
              Z!ForeignSample(t, v) /\ stray' = (stray \/ t = Uptime)
        BY <3>1 DEF Foreign
      <4>2. [key |-> t, val |-> v] \in TrippedSamples
        BY <4>1 DEF TrippedSamples, Z!Sample
      <4>3. net' = Append(net, [key |-> t, val |-> v])
        BY <4>1 DEF Z!ForeignSample
      <4> QED
        BY <2>2, <2>3, <4>2, <4>3
    <3>2. CASE ~Foreign
      <4>1. ASSUME line # <<>>, Head(line).type = "publish", publishers[Head(line).id] # None
            PROVE  [key |-> publishers[Head(line).id].key, val |-> Head(line).val]
                     \in TrippedSamples
        <5>1. Head(line) \in TrippedFrames
          BY <2>2, <4>1
        <5>2. /\ Head(line) \in Frames
              /\ Head(line).key = Uptime => Head(line).val \in Tripped
          BY <4>1, <5>1 DEF TrippedFrames
        <5>3. publishers[Head(line).id].key = Head(line).key
          BY <2>1, <4>1, PublishedUnderItsKey
        <5>4. Head(line).key \in Topics /\ Head(line).val \in Values
          BY <4>1, <5>2, FrameFields
        <5> QED
          BY <5>2, <5>3, <5>4 DEF TrippedSamples, Z!Sample
      <4>2. net' \in Seq(TrippedSamples)
        BY <2>2, <3>2, <4>1, NetElements
      <4> QED
        BY <2>3, <4>2
    <3> QED
      BY <3>1, <3>2
  <2>7. inflight' \subseteq TrippedCalls'
    <3> SUFFICES ASSUME NEW c \in inflight' PROVE c \in TrippedCalls
      BY <2>3
    <3>1. CASE c \in inflight
      BY <2>2, <3>1
    <3>2. CASE net # <<>> /\ c.val = Head(net).val /\ c.key = Head(net).key
      <4>1. Head(net) \in TrippedSamples
        BY <2>2, <3>2
      <4>2. c \in Z!Call
        BY DEF ProxyInv, Z!ZInv, Z!ZTypeOK, Z!Call
      <4> QED
        BY <3>2, <4>1, <4>2 DEF TrippedSamples, TrippedCalls
    <3> QED
      BY <3>1, <3>2, CallElements
  <2> QED
    BY <2>4, <2>5, <2>6, <2>7
<1> QED
  BY <1>2, <1>3

(* Every uptime under way is recorded, in every reachable state.            *)
LEMMA LatencyInvariant == Spec => []LatencyInv
<1>1. Init => LatencyInv
  BY DEF Init, U!UInit, Z!ZInit, LatencyInv, TripsExact
<1>2. ProxyInv /\ ProxyInv' /\ TopicInv /\ LatencyInv /\ [Next]_vars => LatencyInv'
  <2> SUFFICES ASSUME ProxyInv, ProxyInv', TopicInv, LatencyInv, [Next]_vars
               PROVE  LatencyInv'
    OBVIOUS
  <2>1. CASE UNCHANGED vars
    <3>1. UNCHANGED <<uptime, line, toUc, net, inflight, happened, trips, stray>>
      BY <2>1 DEF vars, zvars, uvars, ucState, outsideVars, tripVars
    <3>2. UNCHANGED <<Tripped, TrippedFrames, TrippedReplies, TrippedSamples, TrippedCalls,
                      TripsExact>>
      BY <3>1 DEF Tripped, TrippedFrames, TrippedReplies, TrippedSamples, TrippedCalls,
                  TripsExact, Frames, Replies, Z!Sample, Z!Call
    <3> QED
      BY <3>1, <3>2 DEF LatencyInv
  <2> QED
    BY <2>1, LatencyInvStep
<1> QED
  BY <1>1, <1>2, ProxyInvariant, TopicInvariant, PTL DEF Spec

(* For any firmware and any number of frames under way: an uptime that      *)
(* comes back is answered with the time since the microcontroller wrote it, *)
(* whatever was lost, killed or refused and however often the uptime has    *)
(* wrapped.  Only an uptime of an earlier boot, somebody else's sample on   *)
(* the topic or another firmware make the unsigned difference another       *)
(* number (BrokerSerial.cpp:93-98).                                         *)
THEOREM LatencyElapsed == Spec => LatencyIsElapsed
<1>1. ProxyInv /\ LatencyInv /\ [Next]_vars =>
        [(/\ ~stray /\ "reflash" \notin happened
          /\ UcReceive /\ Head(toUc).type = "publish" /\ Head(toUc).key = Uptime)
         => \E trip \in trips :
              /\ trip.val = Head(toUc).val
              /\ line' = Append(line, U!MsgPublish(U!LatencyPub, Latency,
                                                   trip.age % Modulus))]_vars
  <2> SUFFICES ASSUME ProxyInv, LatencyInv, ~stray, "reflash" \notin happened,
                      UcReceive, Head(toUc).type = "publish", Head(toUc).key = Uptime
               PROVE  \E trip \in trips :
                        /\ trip.val = Head(toUc).val
                        /\ line' = Append(line, U!MsgPublish(U!LatencyPub, Latency,
                                                             trip.age % Modulus))
    OBVIOUS
  <2> DEFINE v == Head(toUc).val
  <2>1. toUc # <<>> /\ U!IncomingPublish(Head(toUc).id, v)
    BY DEF UcReceive
  <2>2. PICK trip \in trips : trip.val = v
    <3>1. toUc \in Seq(TrippedReplies)
      BY DEF LatencyInv
    <3>2. Head(toUc) \in TrippedReplies
      BY <2>1, <3>1
    <3> QED
      BY <3>2 DEF TrippedReplies, Tripped
  <2>3. Modulus \in Nat \ {0} /\ v \in 0 .. (Modulus - 1) /\ trip.age \in Nat
    BY <2>2, PartsAssumption DEF U!UptimeAssumption, ProxyInv, Values
  <2>4. (v + trip.age) % Modulus = uptime
    BY <2>2 DEF LatencyInv, TripsExact
  <2> HIDE DEF v
  <2>5. (uptime + Modulus - v) % Modulus = trip.age % Modulus
    BY <2>3, <2>4, RemainderOfSum
  <2>6. line' = line \o <<U!MsgPublish(U!LatencyPub, Latency, trip.age % Modulus)>>
    BY <2>1, <2>5 DEF U!IncomingPublish, U!Write, U!LatencyOf
  <2>7. line \in Seq(Frames)
    BY DEF ProxyInv
  <2> DEFINE m == U!MsgPublish(U!LatencyPub, Latency, trip.age % Modulus)
  <2>8. line' = Append(line, m)
    <3>1. line' = line \o <<m>>
      BY <2>6
    <3> HIDE DEF m
    <3> QED
      BY <2>7, <3>1
  <2> QED
    BY <2>2, <2>8 DEF v
<1> QED
  BY <1>1, ProxyInvariant, LatencyInvariant, PTL DEF Spec, LatencyIsElapsed

-----------------------------------------------------------------------------
(* Declarations precede uses.  While neither frame nor process is lost, id i *)
(* is promised to frame n of the line when the broker's table has it or a   *)
(* frame before n brings it there.                                          *)
Promised(frames, table, i, n) ==
  \/ table[i] # None
  \/ \E m \in 1 .. (n - 1) : m \in DOMAIN frames /\ frames[m].type = "publisher" /\ frames[m].id = i

Calm == {"loss", "kill", "open", "foreign", "appPublish"} \intersect happened = {}

SessionOpened ==
  (connected \/ toUc # <<>> \/ \E n \in DOMAIN line : line[n].type # "connect") => session

UsesPromised ==
  \A n \in DOMAIN line : line[n].type = "publish" =>
    Promised(line, publishers, line[n].id, n) /\ Promised(line, publishers, U!LatencyPub, n)

ClockPromised ==
  connected => /\ Promised(line, publishers, U!UptimePub, Len(line) + 1)
               /\ Promised(line, publishers, U!LatencyPub, Len(line) + 1)

SamplesAnswerable ==
  (net # <<>> \/ inflight # {} \/ \E n \in DOMAIN toUc : toUc[n].type = "publish")
    => publishers[U!LatencyPub] # None

DeclInv ==
  Calm => proc = "running" /\ SessionOpened /\ UsesPromised /\ ClockPromised /\ SamplesAnswerable

(* A promise is kept when the frame at the head is handled ...              *)
LEMMA HandledKeepsPromises ==
  ASSUME line \in Seq(Frames), line # <<>>, line' = Tail(line),
         NEW i, publishers[i] # None => publishers'[i] # None,
         (Head(line).type = "publisher" /\ Head(line).id = i) => publishers'[i] # None,
         NEW n \in Nat, Promised(line, publishers, i, n + 1)
  PROVE  Promised(line', publishers', i, n)
<1>1. CASE publishers'[i] # None
  BY <1>1 DEF Promised
<1>2. CASE publishers'[i] = None
  <2>1. PICK m \in 1 .. n : m \in DOMAIN line /\ line[m].type = "publisher" /\ line[m].id = i
    BY <1>2 DEF Promised
  <2>2. m # 1
    BY <2>1, <1>2
  <2>3. m - 1 \in 1 .. (n - 1) /\ m - 1 \in DOMAIN line' /\ line'[m - 1] = line[m]
    BY <2>1, <2>2
  <2> QED
    BY <2>1, <2>3 DEF Promised
<1> QED
  BY <1>1, <1>2

(* ... when frames are written after it ...                                 *)
LEMMA WrittenKeepsPromises ==
  ASSUME line \in Seq(Frames), NEW msgs \in Seq(Frames), line' = line \o msgs,
         NEW i, publishers[i] # None => publishers'[i] # None,
         NEW n \in Nat, Promised(line, publishers, i, n)
  PROVE  Promised(line', publishers', i, n)
  BY DEF Promised

(* ... and when a reset discards what is after it.                          *)
LEMMA CutKeepsPromises ==
  ASSUME line \in Seq(Frames), NEW kept \in 0 .. Len(line), line' = SubSeq(line, 1, kept),
         publishers' = publishers,
         NEW i, NEW n \in 0 .. (kept + 1), Promised(line, publishers, i, n)
  PROVE  Promised(line', publishers', i, n)
<1>1. CASE publishers[i] # None
  BY <1>1 DEF Promised
<1>2. ASSUME NEW m \in 1 .. (n - 1), m \in DOMAIN line, line[m].type = "publisher",
             line[m].id = i
      PROVE  Promised(line', publishers', i, n)
  <2>1. m \in 1 .. kept /\ m \in DOMAIN line' /\ line'[m] = line[m]
    BY <1>2
  <2> QED
    BY <1>2, <2>1 DEF Promised
<1> QED
  BY <1>1, <1>2 DEF Promised

(* The clock's two publishers are among the firmware's.                     *)
LEMMA ClockIds ==
  ASSUME ProxyInv
  PROVE  /\ U!UptimePub \in Ids /\ U!LatencyPub \in Ids
         /\ U!UptimePub \in IdsOfKind("pub") /\ U!LatencyPub \in IdsOfKind("pub")
<1>1. app \in Apps
  BY DEF ProxyInv, U!UInv, U!ClockTypeOK
<1> QED
  BY <1>1, ResourceIdsAreIds DEF IdsOfKind

(* The same for every promise the invariant speaks of.                      *)
LEMMA HandledKeepsAll ==
  ASSUME ProxyInv, line # <<>>, line' = Tail(line), connected' = connected,
         \A i \in Ids : publishers[i] # None => publishers'[i] # None,
         Head(line).type = "publisher" => publishers'[Head(line).id] # None,
         UsesPromised, ClockPromised
  PROVE  UsesPromised' /\ ClockPromised'
<1>1. line \in Seq(Frames) /\ U!UptimePub \in Ids /\ U!LatencyPub \in Ids
  BY ClockIds DEF ProxyInv
<1>2. ASSUME NEW i \in Ids, NEW n \in Nat, Promised(line, publishers, i, n + 1) PROVE Promised(line', publishers', i, n)
  BY <1>1, <1>2, HandledKeepsPromises
<1>3. ASSUME NEW n \in DOMAIN line', line'[n].type = "publish"
      PROVE  Promised(line', publishers', line'[n].id, n) /\ Promised(line', publishers', U!LatencyPub, n)
  <2>1. n \in Nat /\ n + 1 \in DOMAIN line /\ line'[n] = line[n + 1] /\ line[n + 1] \in Frames
    BY <1>1
  <2>2. Promised(line, publishers, line[n + 1].id, n + 1) /\ Promised(line, publishers, U!LatencyPub, n + 1)
    BY <1>3, <2>1 DEF UsesPromised
  <2>3. line[n + 1].id \in Ids
    BY <1>3, <2>1, FrameFields
  <2>4. Promised(line', publishers', line[n + 1].id, n)
    BY <1>2, <2>1, <2>2, <2>3
  <2>5. Promised(line', publishers', U!LatencyPub, n)
    BY <1>1, <1>2, <2>1, <2>2
  <2> QED
    BY <2>1, <2>4, <2>5
<1>4. Len(line) \in Nat /\ Len(line') + 1 \in Nat /\ Len(line) + 1 = (Len(line') + 1) + 1
  BY <1>1
<1>5. ASSUME connected'
      PROVE  Promised(line', publishers', U!UptimePub, Len(line') + 1) /\ Promised(line', publishers', U!LatencyPub, Len(line') + 1)
  BY <1>1, <1>2, <1>4, <1>5 DEF ClockPromised
<1>6. UsesPromised'
  BY <1>3 DEF UsesPromised, U!LatencyPub
<1>7. ClockPromised'
  BY <1>5 DEF ClockPromised, U!LatencyPub, U!UptimePub
<1> QED
  BY <1>6, <1>7

LEMMA WrittenKeepsAll ==
  ASSUME ProxyInv, NEW msgs \in Seq(Frames), line' = line \o msgs, UNCHANGED publishers,
         \A k \in DOMAIN msgs : msgs[k].type = "publish" =>
            Promised(line, publishers, msgs[k].id, Len(line) + 1) /\ Promised(line, publishers, U!LatencyPub, Len(line) + 1),
         UsesPromised
  PROVE  /\ UsesPromised'
         /\ connected /\ ClockPromised => ClockPromised'
<1>1. line \in Seq(Frames) /\ Len(line) \in Nat
  BY DEF ProxyInv
<1>2. ASSUME NEW i, NEW n \in Nat, Promised(line, publishers, i, n) PROVE Promised(line', publishers', i, n)
  BY <1>1, <1>2, WrittenKeepsPromises
<1>3. ASSUME NEW i, NEW n \in Nat, Promised(line, publishers, i, Len(line) + 1), n >= Len(line) + 1
      PROVE  Promised(line, publishers, i, n)
  BY <1>1, <1>3 DEF Promised
<1>4. ASSUME NEW n \in DOMAIN line', line'[n].type = "publish"
      PROVE  Promised(line', publishers', line'[n].id, n) /\ Promised(line', publishers', U!LatencyPub, n)
  <2>1. CASE n \in DOMAIN line
    <3>1. line'[n] = line[n] /\ n \in Nat
      BY <1>1, <2>1
    <3> QED
      BY <1>2, <1>4, <2>1, <3>1 DEF UsesPromised
  <2>2. CASE n \notin DOMAIN line
    <3>1. /\ n \in Nat /\ n >= Len(line) + 1
          /\ n - Len(line) \in DOMAIN msgs /\ line'[n] = msgs[n - Len(line)]
      BY <1>1, <2>2
    <3>2. Promised(line, publishers, line'[n].id, Len(line) + 1) /\ Promised(line, publishers, U!LatencyPub, Len(line) + 1)
      BY <1>4, <3>1
    <3> QED
      BY <1>2, <1>3, <3>1, <3>2
  <2> QED
    BY <2>1, <2>2
<1>5. UsesPromised'
  BY <1>4 DEF UsesPromised, U!LatencyPub
<1>6. ASSUME connected, ClockPromised PROVE ClockPromised'
  <2>1. Len(line') + 1 \in Nat /\ Len(line') + 1 >= Len(line) + 1
    BY <1>1
  <2>2. Promised(line', publishers', U!UptimePub, Len(line') + 1) /\ Promised(line', publishers', U!LatencyPub, Len(line') + 1)
    BY <1>2, <1>3, <1>6, <2>1 DEF ClockPromised
  <2> QED
    BY <2>2 DEF ClockPromised, U!LatencyPub, U!UptimePub
<1> QED
  BY <1>5, <1>6

(* incomingConnect declares both publishers of the clock.                   *)
LEMMA ConnectPromises ==
  ASSUME ProxyInv, U!IncomingConnect, UNCHANGED publishers, NEW i \in IdsOfKind("pub")
  PROVE  Promised(line', publishers', i, Len(line') + 1)
<1>1. app \in Apps /\ line \in Seq(Frames)
  BY DEF ProxyInv, U!UInv, U!ClockTypeOK
<1>2. U!SubscriberMsgs \o U!PublisherMsgs \in Seq(Declarations)
  BY <1>1, DeclarationMsgs
<1>3. /\ U!SubscriberMsgs \in Seq(Declarations) /\ U!PublisherMsgs \in Seq(Declarations)
      /\ DOMAIN U!PublisherMsgs = DOMAIN U!IdsOf("pub")
  <2>1. U!IdsOf("sub") \in Seq(IdsOfKind("sub")) /\ U!IdsOf("pub") \in Seq(IdsOfKind("pub"))
    BY <1>1, IdsOfLists
  <2> QED
    BY <2>1 DEF U!SubscriberMsgs, U!PublisherMsgs, Declarations
<1>4. PICK k \in DOMAIN U!IdsOf("pub") : U!IdsOf("pub")[k] = i
  BY <1>1, IdsOfLists
<1>5. U!PublisherMsgs[k] = U!MsgPublisher(i, U!Key(i))
  BY <1>4 DEF U!PublisherMsgs
<1> DEFINE subs == U!SubscriberMsgs
           pubs == U!PublisherMsgs
           m == Len(line) + Len(subs) + k
<1>6. line' = line \o (subs \o pubs)
  BY DEF U!IncomingConnect, U!Write
<1>7. subs \in Seq(Declarations) /\ pubs \in Seq(Declarations) /\ k \in DOMAIN pubs
  BY <1>3, <1>4
<1> HIDE DEF subs, pubs
<1>8. m \in DOMAIN line' /\ line'[m] = pubs[k] /\ m \in 1 .. ((Len(line') + 1) - 1)
  BY <1>1, <1>6, <1>7
<1>9. line'[m].type = "publisher" /\ line'[m].id = i
  BY <1>5, <1>8 DEF pubs, U!MsgPublisher
<1> HIDE DEF m
<1> QED
  BY <1>8, <1>9 DEF Promised

(* None of the steps that lose something, or that bring in a message of     *)
(* somebody else, is taken while the system is calm.                        *)
LEMMA CalmStep ==
  ASSUME ProxyInv, Next, Calm', proc = "running"
  PROVE  /\ Calm
         /\ \A e \in {"loss", "kill", "open", "foreign", "appPublish"} : ~Spend(e)
         /\ \/ ProxyStep \/ Route \/ \E c \in inflight : Callback(c)
            \/ UcStep \/ UcTick \/ UcReboot
<1>1. Calm
  BY BudgetStep DEF Calm, ProxyInv
<1>2. ASSUME NEW e \in {"loss", "kill", "open", "foreign", "appPublish"}, Spend(e) PROVE FALSE
  BY <1>2 DEF Spend, Calm
<1> QED
  BY <1>1, <1>2
     DEF Next, Outside, Lose, ProxyKill, Foreign, UcAppPublish, ZenohStep, DropWhileDown,
         ProxyStart, Z!Start, Z!Deaths

(* The proxy's handlers.  With a session, none of them ends the process.    *)
LEMMA CalmHandler ==
  ASSUME ProxyInv, DeclInv, ProxyStep, Calm, Calm', ~Spend("open"), pc = "idle"
  PROVE  /\ proc' = "running" /\ session' /\ line # <<>> /\ line' = Tail(line)
         /\ connected' = connected /\ inflight' = inflight
         /\ \A i \in Ids : publishers[i] # None => publishers'[i] # None
         /\ Head(line).type = "publisher" => publishers'[Head(line).id] # None
         /\ UNCHANGED net \/ Head(line).type = "publish"
         /\ UNCHANGED toUc \/ toUc' = Append(toUc, U!MsgConnect)
<1>1. proc = "running" /\ SessionOpened /\ line \in Seq(Frames)
  BY DEF DeclInv, ProxyInv
<1>2. ASSUME line # <<>>, Head(line).type # "connect" PROVE session
  <2>1. 1 \in DOMAIN line /\ line[1] = Head(line)
    BY <1>1, <1>2
  <2> QED
    BY <1>1, <1>2, <2>1 DEF SessionOpened
<1>3. CASE HandleConnect
  BY <1>1, <1>3 DEF HandleConnect, Received, ucState, Outcome, Z!Connect, Z!tables, Z!zenoh
<1>4. CASE HandleSubscriber
  <2>1. Received("subscriber") /\ session /\ UNCHANGED toUc
    BY <1>2, <1>4 DEF HandleSubscriber, Received
  <2>2. /\ UNCHANGED <<proc, session, publishers, net, inflight>>
    BY <1>4, <2>1
       DEF HandleSubscriber, Z!SubscriberKnown, Z!zvars, Z!NullSession, Z!SubscriberDeclare,
           Z!SubscriberRefused, Z!tables, Z!zenoh
  <2> QED
    BY <1>1, <2>1, <2>2 DEF Received, ucState
<1>5. CASE HandlePublisher
  <2>1. Received("publisher") /\ session /\ UNCHANGED toUc
    BY <1>2, <1>5 DEF HandlePublisher, Received
  <2>2. Head(line).id \in Ids
    BY <1>1, <2>1, ReceivedFields
  <2> DEFINE i == Head(line).id
             t == Head(line).key
  <2>3. CASE \E ok \in BOOLEAN : Z!Publisher(i, t, ok)
    <3>1. PICK ok \in BOOLEAN : Z!Publisher(i, t, ok)
      BY <2>3
    <3>2. /\ publishers' = [publishers EXCEPT ![i] = [key |-> t, declared |-> ok]]
          /\ publishers \in [Ids -> Z!Pub \union {None}]
          /\ UNCHANGED <<proc, session, net, inflight>>
      BY <3>1 DEF Z!Publisher, Z!zenoh, ProxyInv, Z!ZInv, Z!ZTypeOK
    <3>3. publishers'[i] # None
      <4>1. publishers'[i] = [key |-> t, declared |-> ok]
        BY <2>2, <3>2
      <4>2. [key |-> t, declared |-> ok] \in Z!Pub
        BY <1>1, <2>1, ReceivedFields DEF Z!Pub
      <4> QED
        BY <4>1, <4>2, PartsAssumption DEF Z!NoneAssumption
    <3> QED
      BY <1>1, <2>1, <2>2, <3>2, <3>3 DEF Received, ucState
  <2>4. CASE Z!PublisherKnown(i)
    BY <1>1, <2>1, <2>4 DEF Z!PublisherKnown, Z!zvars, Received, ucState
  <2> QED
    BY <1>5, <2>1, <2>3, <2>4 DEF HandlePublisher, Z!NullSession
<1>6. CASE HandlePublish
  <2>1. Received("publish") /\ session /\ UNCHANGED toUc
    BY <1>2, <1>6 DEF HandlePublish, Received
  <2>2. UNCHANGED <<proc, session, publishers, inflight>>
    BY <1>6 DEF HandlePublish, Z!PublishUnknown, Z!zvars, Z!Publish, Z!tables
  <2> QED
    BY <1>1, <2>1, <2>2 DEF Received, ucState
<1> QED
  BY <1>3, <1>4, <1>5, <1>6 DEF ProxyStep, FinishSubscriber, Z!SubscriberEmplace

(* Every step keeps the promises.                                           *)
LEMMA DeclInvStep ==
  ASSUME ProxyInv, ProxyInv', DeclInv, Next
  PROVE  DeclInv'
<1> SUFFICES ASSUME Calm'
             PROVE  /\ proc' = "running" /\ SessionOpened'
                    /\ UsesPromised' /\ ClockPromised' /\ SamplesAnswerable'
  BY DEF DeclInv
<1>0. Calm
  BY BudgetStep DEF Calm, ProxyInv
<1>1. proc = "running" /\ SessionOpened /\ UsesPromised /\ ClockPromised /\ SamplesAnswerable
  BY <1>0 DEF DeclInv
<1>2. /\ \A e \in {"loss", "kill", "open", "foreign", "appPublish"} : ~Spend(e)
      /\ \/ ProxyStep \/ Route \/ \E c \in inflight : Callback(c)
         \/ UcStep \/ UcTick \/ UcReboot
  BY <1>1, CalmStep
<1>3. /\ line \in Seq(Frames) /\ toUc \in Seq(Replies) /\ app \in Apps
      /\ net \in Seq(Z!Sample) /\ Len(line) \in Nat
      /\ U!UptimePub \in Ids /\ U!LatencyPub \in Ids
  BY ClockIds, SMTT(20) DEF ProxyInv, U!UInv, U!ClockTypeOK, Z!ZInv, Z!ZTypeOK
<1>4. CASE /\ UNCHANGED <<proc, session, publishers, line, toUc>>
           /\ connected' => connected
           /\ net' # <<>> => net # <<>>
           /\ inflight' # {} => net # <<>> \/ inflight # {}
  <2>1. UsesPromised' /\ ClockPromised'
    BY <1>1, <1>4 DEF UsesPromised, ClockPromised, U!LatencyPub, U!UptimePub
  <2>2. SessionOpened' /\ SamplesAnswerable'
    BY <1>1, <1>4 DEF SessionOpened, SamplesAnswerable, U!LatencyPub
  <2> QED
    BY <1>1, <1>4, <2>1, <2>2
<1>5. CASE ProxyStep /\ pc = "idle"
  <2>1. /\ proc' = "running" /\ session' /\ line # <<>> /\ line' = Tail(line)
        /\ connected' = connected /\ inflight' = inflight
        /\ \A i \in Ids : publishers[i] # None => publishers'[i] # None
        /\ Head(line).type = "publisher" => publishers'[Head(line).id] # None
        /\ UNCHANGED net \/ Head(line).type = "publish"
        /\ UNCHANGED toUc \/ toUc' = Append(toUc, U!MsgConnect)
    BY <1>0, <1>2, <1>5, CalmHandler
  <2>2. UsesPromised' /\ ClockPromised'
    BY <1>1, <2>1, HandledKeepsAll
  <2>3. SamplesAnswerable'
    <3>1. Head(line).type = "publish" => publishers[U!LatencyPub] # None
      <4>1. 1 \in DOMAIN line /\ line[1] = Head(line)
        BY <1>3, <2>1
      <4>2. Head(line).type = "publish" => Promised(line, publishers, U!LatencyPub, 1)
        BY <1>1, <4>1 DEF UsesPromised
      <4> QED
        BY <4>2 DEF Promised
    <3>2. ASSUME NEW n \in DOMAIN toUc', toUc'[n].type = "publish"
          PROVE  n \in DOMAIN toUc /\ toUc[n].type = "publish"
      <4>1. CASE UNCHANGED toUc
        BY <3>2, <4>1
      <4>2. CASE toUc' = Append(toUc, U!MsgConnect)
        <5>1. U!MsgConnect.type = "connect"
          BY DEF U!MsgConnect
        <5>2. n # Len(toUc) + 1
          BY <1>3, <3>2, <4>2, <5>1
        <5> QED
          BY <1>3, <3>2, <4>2, <5>2
      <4> QED
        BY <2>1, <4>1, <4>2
    <3> QED
      BY <1>1, <1>3, <2>1, <3>1, <3>2 DEF SamplesAnswerable, U!LatencyPub
  <2> QED
    BY <2>1, <2>2, <2>3 DEF SessionOpened
<1>6. CASE ProxyStep /\ pc # "idle"
  <2>1. FinishSubscriber
    BY <1>6 DEF ProxyStep, HandleConnect, HandleSubscriber, HandlePublisher, HandlePublish,
                Received
  <2> QED
    BY <1>4, <2>1 DEF FinishSubscriber, Z!SubscriberEmplace, uvars, ucState, Z!zenoh
<1>7. CASE Route
  BY <1>3, <1>4, <1>7 DEF Route, Z!Dispatch, uvars, ucState, Z!tables
<1>8. CASE \E c \in inflight : Callback(c)
  <2>1. PICK c \in inflight : Callback(c)
    BY <1>8
  <2>2. /\ UNCHANGED <<proc, session, publishers, net, line, connected>>
        /\ inflight' \subseteq inflight /\ inflight # {}
    BY <2>1 DEF Callback, Z!SubscribeHandler, uvars, ucState, Z!tables
  <2>3. publishers[U!LatencyPub] # None
    BY <1>1, <2>2 DEF SamplesAnswerable
  <2>4. session
    BY <1>3, <2>3 DEF ProxyInv, Z!ZInv, Z!SessionBacksTables
  <2>5. UsesPromised' /\ ClockPromised'
    BY <1>1, <2>2 DEF UsesPromised, ClockPromised, U!LatencyPub, U!UptimePub
  <2> QED
    BY <1>1, <2>2, <2>3, <2>4, <2>5 DEF SessionOpened, SamplesAnswerable, U!LatencyPub
<1>9. CASE UcReceive
  <2>1. /\ toUc # <<>> /\ toUc' = Tail(toUc) /\ session
        /\ UNCHANGED <<proc, session, publishers, net, inflight>>
    BY <1>1, <1>9 DEF UcReceive, zvars, SessionOpened
  <2>2. SamplesAnswerable' /\ SessionOpened'
    <3>1. ASSUME NEW n \in DOMAIN toUc' PROVE n + 1 \in DOMAIN toUc /\ toUc'[n] = toUc[n + 1]
      BY <1>3, <2>1
    <3> QED
      BY <1>1, <2>1, <3>1 DEF SamplesAnswerable, SessionOpened, U!LatencyPub
  <2>3. CASE U!IncomingConnect
    <3>1. /\ U!SubscriberMsgs \o U!PublisherMsgs \in Seq(Declarations)
          /\ line' = line \o (U!SubscriberMsgs \o U!PublisherMsgs)
      BY <1>3, <2>3, DeclarationMsgs DEF U!IncomingConnect, U!Write
    <3> DEFINE msgs == U!SubscriberMsgs \o U!PublisherMsgs
    <3>2. msgs \in Seq(Declarations) /\ line' = line \o msgs
      BY <3>1
    <3>3. Declarations \subseteq Frames
      BY <1>3, ResourceIdsAreIds DEF Declarations, Frames, IdsOfKind
    <3>4. \A m \in Declarations : m.type # "publish"
      BY DEF Declarations, U!MsgSubscriber, U!MsgPublisher
    <3> HIDE DEF msgs
    <3>5. UsesPromised'
      <4>1. msgs \in Seq(Frames) /\ \A k \in DOMAIN msgs : msgs[k].type # "publish"
        BY <3>2, <3>3, <3>4
      <4> QED
        BY <1>1, <2>1, <3>2, <4>1, WrittenKeepsAll
    <3>6. ClockPromised'
      BY <2>1, <2>3, ClockIds, ConnectPromises DEF ClockPromised, U!LatencyPub, U!UptimePub
    <3> QED
      BY <1>1, <2>1, <2>2, <3>5, <3>6
  <2>4. CASE /\ Head(toUc).type = "publish"
             /\ U!IncomingPublish(Head(toUc).id, Head(toUc).val)
    <3> DEFINE msgs == <<U!MsgPublish(U!LatencyPub, Latency, U!LatencyOf(Head(toUc).val))>>
    <3>1. line' = line \o msgs /\ connected' = connected
      BY <2>4 DEF U!IncomingPublish, U!Write
    <3>2. publishers[U!LatencyPub] # None
      <4>1. 1 \in DOMAIN toUc /\ toUc[1] = Head(toUc)
        BY <1>3, <2>1
      <4> QED
        BY <1>1, <2>4, <4>1 DEF SamplesAnswerable
    <3>3. /\ msgs \in Seq(Frames)
          /\ \A k \in DOMAIN msgs : msgs[k].type = "publish" /\ msgs[k].id = U!LatencyPub
      <4>1. Head(toUc).val \in SamplesUnderWay
        BY <1>3, <2>1, <2>4 DEF SamplesUnderWay
      <4>2. U!MsgPublish(U!LatencyPub, Latency, U!LatencyOf(Head(toUc).val)) \in Frames
        BY <1>3, <4>1, NewFramesAreFrames, InstantsAreValues
           DEF NewFrames, ProxyInv, U!UInv, U!ClockTypeOK
      <4> QED
        BY <4>2 DEF U!MsgPublish
    <3> HIDE DEF msgs
    <3>4. \A n : Promised(line, publishers, U!LatencyPub, n)
      BY <3>2 DEF Promised
    <3>5. UsesPromised' /\ (connected => ClockPromised')
      BY <1>1, <2>1, <3>1, <3>3, <3>4, WrittenKeepsAll
    <3>6. ClockPromised'
      BY <3>1, <3>5 DEF ClockPromised
    <3> QED
      BY <1>1, <2>1, <2>2, <3>5, <3>6
  <2> QED
    BY <1>9, <2>3, <2>4 DEF UcReceive
<1>10. CASE UcKeepAlive
  <2>1. UNCHANGED <<proc, session, publishers, net, inflight, toUc, connected>>
    BY <1>10 DEF UcKeepAlive, U!KeepAlive, zvars
  <2>2. SamplesAnswerable'
    BY <1>1, <2>1 DEF SamplesAnswerable, U!LatencyPub
  <2> DEFINE m == IF connected THEN U!MsgPublish(U!UptimePub, Uptime, uptime) ELSE U!MsgConnect
             msgs == <<m>>
  <2>3. line' = line \o msgs
    BY <1>10 DEF UcKeepAlive, U!KeepAlive, U!Write
  <2>4. m \in Frames
    <3>1. NewFrames \subseteq Frames
      BY <1>3, NewFramesAreFrames, InstantsAreValues DEF ProxyInv, U!UInv, U!ClockTypeOK
    <3> QED
      BY <3>1 DEF NewFrames
  <2>5. IF connected THEN m.type = "publish" /\ m.id = U!UptimePub ELSE m.type = "connect"
    BY DEF U!MsgPublish, U!MsgConnect
  <2> HIDE DEF m
  <2>6. /\ msgs \in Seq(Frames)
        /\ \A k \in DOMAIN msgs : msgs[k] = m
    BY <2>4
  <2>7. \A k \in DOMAIN msgs : msgs[k].type = "publish" =>
           /\ Promised(line, publishers, msgs[k].id, Len(line) + 1)
           /\ Promised(line, publishers, U!LatencyPub, Len(line) + 1)
    BY <1>1, <2>5, <2>6 DEF ClockPromised
  <2>8. /\ UsesPromised' /\ ClockPromised'
    <3> HIDE DEF msgs
    <3>1. UsesPromised' /\ (connected => ClockPromised')
      BY <1>1, <2>1, <2>3, <2>6, <2>7, WrittenKeepsAll
    <3> QED
      BY <2>1, <3>1 DEF ClockPromised
  <2>9. SessionOpened'
    <3>1. ASSUME NEW n \in DOMAIN line', line'[n].type # "connect" PROVE session
      <4>1. CASE n \in DOMAIN line
        <5>1. line'[n] = line[n]
          BY <1>3, <2>3, <2>6, <4>1
        <5> QED
          BY <1>1, <3>1, <4>1, <5>1 DEF SessionOpened
      <4>2. CASE n \notin DOMAIN line
        <5>1. line'[n] = m
          BY <1>3, <2>3, <4>2
        <5> QED
          BY <1>1, <2>5, <3>1, <5>1 DEF SessionOpened
      <4> QED
        BY <4>1, <4>2
    <3> QED
      BY <1>1, <2>1, <3>1 DEF SessionOpened
  <2> QED
    BY <1>1, <2>1, <2>2, <2>8, <2>9
<1>11. CASE UcConnectTimer \/ UcTick
  <2>1. /\ UNCHANGED <<proc, session, publishers, line, toUc, net, inflight>>
        /\ connected' => connected
    <3>1. CASE UcConnectTimer
      BY <3>1, Zenon DEF UcConnectTimer, U!ConnectTimer, zvars
    <3>2. CASE UcTick
      BY <3>2 DEF UcTick, U!Tick, zvars
    <3> QED
      BY <1>11, <3>1, <3>2
  <2> QED
    BY <1>4, <2>1
<1>12. CASE UcReboot
  <2>1. PICK kept \in 0 .. Len(line) : line' = SubSeq(line, 1, kept)
    BY <1>12 DEF UcReboot, U!Reboot
  <2>2. ~connected' /\ UNCHANGED <<proc, session, publishers, net, inflight>>
    BY <1>12 DEF UcReboot, U!Reboot, zvars
  <2>3. ASSUME NEW n \in DOMAIN line' PROVE n \in DOMAIN line /\ line'[n] = line[n] /\ n \in 1 .. kept
    BY <1>3, <2>1
  <2>4. UsesPromised'
    <3> SUFFICES ASSUME NEW n \in DOMAIN line', line'[n].type = "publish"
                 PROVE  /\ Promised(line', publishers', line'[n].id, n)
                        /\ Promised(line', publishers', U!LatencyPub, n)
      BY DEF UsesPromised, U!LatencyPub
    <3>1. /\ Promised(line, publishers, line[n].id, n)
          /\ Promised(line, publishers, U!LatencyPub, n)
      BY <1>1, <2>3 DEF UsesPromised
    <3>2. n \in 0 .. (kept + 1) /\ line'[n] = line[n]
      BY <2>3
    <3> QED
      BY <1>3, <2>1, <2>2, <3>1, <3>2, CutKeepsPromises
  <2>5. \A n \in DOMAIN toUc' : \E k \in DOMAIN toUc : toUc'[n] = toUc[k]
    <3>1. PICK gone \in 0 .. Len(toUc) : toUc' = SubSeq(toUc, gone + 1, Len(toUc))
      BY <1>12 DEF UcReboot
    <3> QED
      BY <1>3, <3>1, LaterPart
  <2>6. toUc' # <<>> => toUc # <<>>
    BY <1>12, <1>3 DEF UcReboot
  <2> QED
    BY <1>1, <2>2, <2>3, <2>4, <2>5, <2>6
       DEF ClockPromised, SessionOpened, SamplesAnswerable, U!LatencyPub
<1> QED
  BY <1>2, <1>5, <1>6, <1>7, <1>8, <1>9, <1>10, <1>11, <1>12 DEF UcStep

(* They are kept in every reachable state.                                  *)
LEMMA DeclInvariant == Spec => []DeclInv
<1>1. Init => DeclInv
  BY DEF Init, U!UInit, U!Booted, Z!ZInit, DeclInv, SessionOpened, UsesPromised, ClockPromised,
         SamplesAnswerable
<1>2. ProxyInv /\ ProxyInv' /\ DeclInv /\ [Next]_vars => DeclInv'
  <2> SUFFICES ASSUME ProxyInv, ProxyInv', DeclInv, [Next]_vars PROVE DeclInv'
    OBVIOUS
  <2>1. CASE UNCHANGED vars
    <3>1. UNCHANGED <<proc, session, publishers, net, inflight, connected, line, toUc, happened>>
      BY <2>1 DEF vars, zvars, uvars, ucState, outsideVars
    <3> QED
      BY <3>1 DEF DeclInv, Calm, SessionOpened, UsesPromised, ClockPromised, SamplesAnswerable,
                  U!LatencyPub, U!UptimePub
  <2> QED
    BY <2>1, DeclInvStep
<1> QED
  BY <1>1, <1>2, ProxyInvariant, PTL DEF Spec

(* With any firmware, over any number of resets, refusals and slow round    *)
(* trips: no publish of the clock meets a table without its id.  What a     *)
(* firmware publishes on its own account does not wait for a connection,    *)
(* and a sample from elsewhere may ask for a latency before its publisher   *)
(* is declared again; neither has happened here.                            *)
THEOREM DeclarationsPrecedeUses ==
  Spec => [](({"foreign", "appPublish"} \intersect happened = {}) => DeclaredBeforeUse)
<1>1. ProxyInv /\ DeclInv =>
        (({"foreign", "appPublish"} \intersect happened = {}) => DeclaredBeforeUse)
  <2> SUFFICES ASSUME ProxyInv, DeclInv, {"foreign", "appPublish"} \intersect happened = {},
                      happened \intersect {"loss", "kill", "open"} = {},
                      line # <<>>, Head(line).type = "publish"
               PROVE  publishers[Head(line).id] # None
    BY DEF DeclaredBeforeUse
  <2>1. UsesPromised
    BY DEF DeclInv, Calm
  <2>2. 1 \in DOMAIN line /\ line[1] = Head(line)
    BY DEF ProxyInv
  <2>3. Promised(line, publishers, Head(line).id, 1)
    BY <2>1, <2>2 DEF UsesPromised
  <2> QED
    BY <2>3 DEF Promised
<1> QED
  BY <1>1, ProxyInvariant, DeclInvariant, PTL
=============================================================================
