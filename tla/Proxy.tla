------------------------------- MODULE Proxy --------------------------------
(***************************************************************************)
(* The running system: the microcontroller (BrokerSerial), the serial line *)
(* in both directions, and the proxy process (src/proxy.cpp) that hands    *)
(* each message to its zenoh broker (BrokerZenoh) and forwards the samples *)
(* zenoh delivers.                                                         *)
(*                                                                         *)
(* The line keeps the order of frames and may lose any of them: a damaged  *)
(* frame fails its FCS and is dropped by the receiver (FrameExtractor).    *)
(* Faults are limited by a budget; the process is started again after it   *)
(* ends.  The microcontroller's firmware sends no MsgDisconnect and        *)
(* SerialSession never reports the loss of the port, so broker.disconnect  *)
(* has no caller here; BrokerZenoh covers it.                              *)
(***************************************************************************)
EXTENDS Naturals, Sequences, FiniteSets, SequencesExt

CONSTANTS
  Ids, Topics, Matches, SubObjs, MaxNet, None,
  Uptime, Latency, Apps, ConnectPeriod, LoopbackTimeout, MaxAge, Modulus, MaxLine,
  MaxToUc, \* bound: frames on the way to the microcontroller
  Budgets, \* scenarios: how often each kind of outside event may happen
  Backlog  \* frames and samples that may be under way at a slow tick

(* Faults of the line, the two processes and zenoh, ticks that come while   *)
(* messages are under way, and traffic from outside.                        *)
Events == {"loss", "reboot", "reflash", "kill", "open", "declare", "write",
           "slow", "foreign", "appPublish"}

ASSUME BudgetsAssumption == Budgets \subseteq [Events -> Nat]
ASSUME BacklogAssumption == Backlog \in Nat /\ MaxToUc \in Nat
ASSUME IdsAssumption ==
  Ids \subseteq Nat /\ \A a \in Apps : 0 .. (Len(a) + 2) \subseteq Ids

Values == 0 .. (Modulus - 1)

VARIABLES
  proc, session, subscribers, publishers, heap, declared, pc, cur, todo, net, inflight,
  app, connected, loopAge, connAge, loopId, phase, due, uptime, line,
  toUc,  \* frames on the way to the microcontroller
  budget,  \* outside events that may still happen
  happened, \* history: the kinds that did
  trips, \* history: uptimes published that may be under way, with their age in ticks
  stray  \* history: another value may be under way on the uptime topic

Z == INSTANCE BrokerZenoh
U == INSTANCE BrokerSerial

(* What the two parts assume of their constants. *)
ASSUME PartsAssumption ==
  /\ Z!MatchesAssumption /\ Z!MaxNetAssumption /\ Z!NoneAssumption
  /\ U!TopicsAssumption /\ U!AppsAssumption /\ U!TimersAssumption
  /\ U!UptimeAssumption /\ U!LineAssumption

zvars == <<proc, session, subscribers, publishers, heap, declared,
           pc, cur, todo, net, inflight>>
ucState == <<app, connected, loopAge, connAge, loopId, phase, due, uptime>>
uvars == <<ucState, line>>
outsideVars == <<budget, happened>>
tripVars == <<trips, stray>>
vars == <<zvars, uvars, toUc, outsideVars, tripVars>>

Init ==
  /\ Z!ZInit
  /\ U!UInit
  /\ toUc = <<>>
  /\ budget \in Budgets /\ happened = {}
  /\ trips = {} /\ stray = FALSE

Spend(event) ==
  /\ budget[event] > 0
  /\ budget' = [budget EXCEPT ![event] = @ - 1]
  /\ happened' = happened \union {event}

(* An outcome is the normal one, or a fault that uses up the budget. *)
Outcome(ok, fault) == IF ok THEN UNCHANGED outsideVars ELSE Spend(fault)

-----------------------------------------------------------------------------
(* The worker thread takes the next frame.  MsgFilter lets one handler of  *)
(* main() see it.                                                          *)
Received(type) ==
  /\ proc = "running" /\ pc = "idle"
  /\ line # <<>> /\ Head(line).type = type
  /\ line' = Tail(line)
  /\ UNCHANGED <<ucState, tripVars>>

(* B_CONNECT: whatever broker.connect returns, the reply says connected. *)
HandleConnect ==
  /\ Received("connect")
  /\ \E opened \in BOOLEAN :
       /\ Outcome(session \/ opened, "open")
       /\ Z!Connect(opened)
  /\ Len(toUc) < MaxToUc
  /\ toUc' = Append(toUc, U!MsgConnect)

(* B_SUBSCRIBER *)
HandleSubscriber ==
  /\ Received("subscriber")
  /\ LET i == Head(line).id
         t == Head(line).key
     IN  \/ Z!SubscriberKnown(i) /\ UNCHANGED outsideVars
         \/ \E o \in SubObjs :
              \/ Z!SubscriberDeclare(i, t, o) /\ UNCHANGED outsideVars
              \/ Z!SubscriberRefused(i, t, o) /\ Spend("declare")
         \/ Z!NullSession(subscribers, i) /\ UNCHANGED outsideVars
  /\ UNCHANGED toUc

(* B_PUBLISHER *)
HandlePublisher ==
  /\ Received("publisher")
  /\ LET i == Head(line).id
         t == Head(line).key
     IN  \/ Z!PublisherKnown(i) /\ UNCHANGED outsideVars
         \/ \E ok \in BOOLEAN : Z!Publisher(i, t, ok) /\ Outcome(ok, "declare")
         \/ Z!NullSession(publishers, i) /\ UNCHANGED outsideVars
  /\ UNCHANGED toUc

(* B_PUBLISH *)
HandlePublish ==
  /\ Received("publish")
  /\ LET i == Head(line).id
         v == Head(line).val
     IN  \/ Z!PublishUnknown(i) /\ UNCHANGED outsideVars
         \/ \E ok \in BOOLEAN : Z!Publish(i, v, ok) /\ Outcome(ok, "write")
  /\ UNCHANGED toUc

(* The second half of broker.subscriber, still in the B_SUBSCRIBER handler. *)
FinishSubscriber == Z!SubscriberEmplace /\ UNCHANGED <<uvars, toUc, outsideVars, tripVars>>

ProxyStep ==
  HandleConnect \/ HandleSubscriber \/ HandlePublisher \/ HandlePublish \/ FinishSubscriber

-----------------------------------------------------------------------------
(* zenoh's thread; the callback main() registers sends a MsgPublish. *)
Route == Z!Dispatch /\ UNCHANGED <<uvars, toUc, outsideVars, tripVars>>

(* Mutant of Callback: the id is read from the message being handled. *)
CallbackCapturedId(c) ==
  /\ Z!SubscribeHandler(c)
  /\ Len(toUc) < MaxToUc
  /\ LET i == IF line # <<>> /\ Head(line).id # None THEN Head(line).id ELSE heap[c.sub].id
     IN  toUc' = Append(toUc, U!MsgPublish(i, c.key, c.val))
  /\ UNCHANGED <<uvars, outsideVars, tripVars>>

Callback(c) ==
  /\ Z!SubscribeHandler(c)
  /\ Len(toUc) < MaxToUc
  /\ toUc' = Append(toUc, U!MsgPublish(heap[c.sub].id, c.key, c.val))
  /\ UNCHANGED <<uvars, outsideVars, tripVars>>

ZenohStep == Route \/ \E c \in inflight : Callback(c)

Foreign ==
  /\ Spend("foreign")
  /\ \E t \in Topics, v \in Values :
       /\ Z!ForeignSample(t, v)
       /\ stray' = (stray \/ t = Uptime)
  /\ UNCHANGED <<uvars, toUc, trips>>

-----------------------------------------------------------------------------
(* The microcontroller. *)
UcReceive ==
  /\ toUc # <<>>
  /\ toUc' = Tail(toUc)
  /\ \/ Head(toUc).type = "connect" /\ U!IncomingConnect
     \/ Head(toUc).type = "publish" /\ U!IncomingPublish(Head(toUc).id, Head(toUc).val)
  /\ UNCHANGED <<zvars, outsideVars, tripVars>>

UcKeepAlive ==
  /\ U!KeepAlive
  /\ trips' = IF connected THEN trips \union {[val |-> uptime, age |-> 0]} ELSE trips
  /\ UNCHANGED <<zvars, toUc, outsideVars, stray>>

UcConnectTimer == U!ConnectTimer /\ UNCHANGED <<zvars, toUc, outsideVars, tripVars>>

UnderWay == Len(line) + Len(net) + Cardinality(inflight) + Len(toUc)
Quiet == line = <<>> /\ net = <<>> /\ inflight = {} /\ toUc = <<>>

(* A round trip takes milliseconds: within a tick all is dealt with, but   *)
(* for the backlog of a slow one.                                          *)
UcTick ==
  /\ pc = "idle"
  /\ UnderWay <= Backlog
  /\ Outcome(Quiet, "slow")
  /\ U!Tick
  /\ trips' = IF Quiet THEN {} ELSE {[trip EXCEPT !.age = @ + 1] : trip \in trips}
  /\ stray' = (stray /\ ~Quiet)
  /\ UNCHANGED <<zvars, toUc>>

UcAppPublish ==
  /\ Spend("appPublish")
  /\ \E i \in 3 .. (Len(U!Resources) - 1) :
       /\ U!AppPublish(i, 0)
       /\ stray' = (stray \/ U!Key(i) = Uptime)
  /\ UNCHANGED <<zvars, toUc, trips>>

UcStep == UcReceive \/ UcKeepAlive \/ UcConnectTimer

-----------------------------------------------------------------------------
(* Faults. *)
Lose ==
  /\ Spend("loss")
  /\ \/ \E n \in DOMAIN line : line' = RemoveAt(line, n) /\ UNCHANGED <<ucState, toUc>>
     \/ \E n \in DOMAIN toUc : toUc' = RemoveAt(toUc, n) /\ UNCHANGED uvars
  /\ UNCHANGED <<zvars, tripVars>>

(* A reset; with another firmware when it was flashed in between.  The     *)
(* frames in the serial port's input buffer are lost, later ones are not.  *)
UcReboot ==
  /\ \E a \in Apps, kept \in 0 .. Len(line) :
       /\ Spend(IF a = app THEN "reboot" ELSE "reflash")
       /\ U!Reboot(a, kept)
  /\ \E gone \in 0 .. Len(toUc) : toUc' = SubSeq(toUc, gone + 1, Len(toUc))
  /\ trips' = {} /\ stray' = TRUE
  /\ UNCHANGED zvars

ProxyKill == Spend("kill") /\ Z!Kill /\ UNCHANGED <<uvars, toUc, tripVars>>

(* Nobody has the port open: what arrives there is gone. *)
DropWhileDown ==
  /\ proc # "running" /\ line # <<>>
  /\ U!FrameSent
  /\ UNCHANGED <<zvars, ucState, toUc, outsideVars, tripVars>>

ProxyStart == Z!Start /\ UNCHANGED <<uvars, toUc, outsideVars, tripVars>>

Outside == Lose \/ UcReboot \/ ProxyKill \/ Foreign \/ UcAppPublish

Next ==
  \/ ProxyStep \/ ZenohStep \/ UcStep \/ UcTick
  \/ DropWhileDown \/ ProxyStart
  \/ Outside

Spec == Init /\ [][Next]_vars

(* Both threads of the proxy and the microcontroller's loop keep running,  *)
(* time passes, and the process is started again.                          *)
Fairness ==
  /\ WF_vars(ProxyStep) /\ WF_vars(Route) /\ WF_vars(\E c \in inflight : Callback(c))
  /\ WF_vars(UcReceive) /\ WF_vars(UcKeepAlive) /\ WF_vars(UcConnectTimer)
  /\ WF_vars(UcTick) /\ WF_vars(DropWhileDown) /\ WF_vars(ProxyStart)

FairSpec == Spec /\ Fairness

-----------------------------------------------------------------------------
(* Types of the composed state; the bounds on the queues are never passed.  *)
TypeOK ==
  /\ Z!ZTypeOK
  /\ U!UTypeOK
  /\ toUc \in Seq(U!Msg) /\ Len(toUc) <= MaxToUc
  /\ budget \in [Events -> Nat] /\ happened \subseteq Events
  /\ trips \subseteq [val : Values, age : Nat] /\ stray \in BOOLEAN

(* A publish goes to the topic its sender meant: whenever the worker thread *)
(* is about to look its id up, the broker's table has that topic for it.    *)
PublishReachesItsTopic ==
  (proc = "running" /\ pc = "idle" /\ line # <<>> /\ Head(line).type = "publish")
    => LET i == Head(line).id
       IN  publishers[i] # None => publishers[i].key = Head(line).key

(* A sample reaches the microcontroller under the id of a subscriber of its *)
(* firmware whose topic matches, in spite of restarts on either side.       *)
SampleReachesItsSubscriber ==
  \A n \in DOMAIN toUc : toUc[n].type = "publish" =>
    LET i == toUc[n].id
    IN  /\ i < Len(U!Resources) /\ U!Resources[i + 1].kind = "sub"
        /\ toUc[n].key \in Matches[U!Key(i)]

(* The keep-alive repairs everything a restart, a lost frame or a refusal   *)
(* by zenoh breaks: from some time on the microcontroller is connected and  *)
(* its uptime keeps coming back.                                            *)
Recovers == <>[](connected /\ loopAge <= LoopbackTimeout)

(* Every resource has its entry in the broker's tables.  A publisher has    *)
(* one, with a NULL in it, also when zenoh refused it (BrokerZenoh.cpp:110). *)
Declared ==
  \A n \in DOMAIN U!Resources :
    IF U!Resources[n].kind = "sub" THEN subscribers[n - 1] # None
                                   ELSE publishers[n - 1] # None

(* The declarations sent after a connect (BrokerSerial.cpp:79-90) end with  *)
(* every resource of the firmware in the broker's tables.                   *)
AllDeclared == <>[]Declared

(* Restarts on either side and refusals by zenoh do not keep them from it:  *)
(* only a lost frame can, since what was sent is not sent again.            *)
DeclaredUnlessLost == <>[](Declared \/ "loss" \in happened)

(* While no frame is lost and the proxy stays up, no publish meets a table  *)
(* that does not have its id yet, reboots included: the declarations sent    *)
(* after a connect precede every use (BrokerSerial.cpp:79-90).  Somebody     *)
(* else's sample is not waited for: it may come back to a microcontroller    *)
(* that was reset between its declarations, which answers it at once.        *)
DeclaredBeforeUse ==
  /\ happened \intersect {"loss", "kill", "open"} = {}
  /\ ~({"reboot", "foreign"} \subseteq happened)
  /\ proc = "running" /\ pc = "idle" /\ line # <<>> /\ Head(line).type = "publish"
  => publishers[Head(line).id] # None

(* A sample of the uptime topic is answered with the time since the         *)
(* microcontroller wrote that very uptime, through the broker, zenoh and     *)
(* back, whatever was lost, killed or refused meanwhile and also when the    *)
(* uptime has wrapped (BrokerSerial.cpp:93-98).  The latency may be another  *)
(* number while an uptime of an earlier boot, or somebody else's sample on   *)
(* the topic, is under way, and after another firmware was flashed; and      *)
(* every Subscriber takes the samples of all topics as its own               *)
(* (broker.h:98-112), so those of other topics are answered with any number. *)
LatencyIsElapsed ==
  [][(/\ ~stray /\ "reflash" \notin happened
      /\ UcReceive /\ Head(toUc).type = "publish" /\ Head(toUc).key = Uptime)
     => \E trip \in trips :
          /\ trip.val = Head(toUc).val
          /\ line' = Append(line, U!MsgPublish(U!LatencyPub, Latency, trip.age % Modulus))]_vars

(* Only the own uptime topic keeps the connection alive.                    *)
LoopbackIsUptime == loopId \in {None, U!UptimeSub}
=============================================================================
