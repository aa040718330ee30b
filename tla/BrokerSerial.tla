---------------------------- MODULE BrokerSerial ----------------------------
(***************************************************************************)
(* The microcontroller's side of the broker (zenoh-arduino/src/            *)
(* BrokerSerial.cpp and broker.h): resources numbered in the order they    *)
(* are created, the keep-alive timer that either publishes the uptime or   *)
(* asks for a connection, the loopback of the own uptime topic and the     *)
(* slower timer that gives the connection up.                              *)
(*                                                                         *)
(* One Tick is the keep-alive period (1 s): timers fire on ticks and are    *)
(* served, in any order and interleaved with incoming frames, before the    *)
(* next tick, as mainThread.loop() does.  Sys::millis() - _loopbackReceived *)
(* is kept as the age loopAge; ages stop counting at a bound, the uptime    *)
(* wraps as a uint64_t does.                                               *)
(***************************************************************************)
EXTENDS Naturals, Sequences

CONSTANTS
  Topics, None,
  Uptime, Latency, \* the topics of system/uptime and system/latency
  Apps,            \* firmwares: the resources the application adds to init()'s
  ConnectPeriod,   \* connectTimer, in ticks (10 in the code)
  LoopbackTimeout, \* 5 s in the code
  MaxAge,          \* bound: ages count up to here
  Modulus,         \* 2^64 in the code: instants and latencies are uint64_t
  MaxLine          \* serial output buffer, in frames; a write into a full one blocks

Kinds == {"pub", "sub"}
Resource == [kind : Kinds, key : Topics]

ASSUME TopicsAssumption ==
  Uptime \in Topics /\ Latency \in Topics /\ Uptime # Latency
ASSUME AppsAssumption == Apps \subseteq Seq(Resource) /\ Apps # {}
ASSUME TimersAssumption ==
  /\ ConnectPeriod \in Nat \ {0} /\ LoopbackTimeout \in Nat
  /\ MaxAge \in Nat /\ MaxAge > ConnectPeriod + LoopbackTimeout
ASSUME UptimeAssumption == Modulus \in Nat \ {0}
ASSUME LineAssumption == MaxLine \in Nat

MsgIds == Nat
Values == 0 .. (Modulus - 1)

INSTANCE SerialProtocol WITH Ids <- MsgIds

VARIABLES
  app,       \* the firmware that is flashed
  connected, \* ValueSource<bool> connected
  loopAge,   \* ticks since _loopbackReceived
  connAge,   \* history: ticks since the last reply to a connect
  loopId,    \* history: id of the publish that last reset loopAge
  phase,     \* ticks since connectTimer fired
  due,       \* timers that have fired and are not served yet
  uptime,    \* Sys::millis(), in ticks
  line       \* frames written to the serial port, towards the proxy

uvars == <<app, connected, loopAge, connAge, loopId, phase, due, uptime, line>>

-----------------------------------------------------------------------------
(* init(): uptimePub, latencyPub, uptimeSub, then the application's own.   *)
(* Broker::publisher and Broker::subscriber number them from 0.            *)
Resources ==
  <<[kind |-> "pub", key |-> Uptime],
    [kind |-> "pub", key |-> Latency],
    [kind |-> "sub", key |-> Uptime]>> \o app

UptimePub == 0
LatencyPub == 1
UptimeSub == 2

(* The ids of one kind, in the order of creation. *)
IdsOf(kind) ==
  LET ids[n \in 0 .. Len(Resources)] ==
        IF n = 0 THEN <<>>
        ELSE IF Resources[n].kind = kind THEN Append(ids[n - 1], n - 1) ELSE ids[n - 1]
  IN  ids[Len(Resources)]

(* Mutant of Key: the topic of the next resource. *)
KeyOfNext(i) == Resources[((i + 1) % Len(Resources)) + 1].key

Key(i) == Resources[i + 1].key

SubscriberMsgs == [n \in 1 .. Len(IdsOf("sub")) |->
                     MsgSubscriber(IdsOf("sub")[n], Key(IdsOf("sub")[n]))]
PublisherMsgs == [n \in 1 .. Len(IdsOf("pub")) |->
                    MsgPublisher(IdsOf("pub")[n], Key(IdsOf("pub")[n]))]

Older(age) == IF age < MaxAge THEN age + 1 ELSE age

(* Serial.write of the frames, which waits for room. *)
Write(msgs) ==
  /\ Len(line) + Len(msgs) <= MaxLine
  /\ line' = line \o msgs

Booted ==
  /\ connected = FALSE
  /\ loopAge = 0 /\ connAge = 0 /\ loopId = None
  /\ phase = 0 /\ due = {} /\ uptime = 0

UInit == app \in Apps /\ Booted /\ line = <<>>

(* keepAliveTimer *)
KeepAlive ==
  /\ "keepAlive" \in due
  /\ due' = due \ {"keepAlive"}
  /\ IF connected THEN Write(<<MsgPublish(UptimePub, Uptime, uptime)>>)
                  ELSE Write(<<MsgConnect>>)
  /\ UNCHANGED <<app, connected, loopAge, connAge, loopId, phase, uptime>>

(* Mutant of ConnectTimer: compares with the period of the timer itself. *)
ConnectTimerLate ==
  /\ "connect" \in due
  /\ due' = due \ {"connect"}
  /\ connected' = (connected /\ loopAge <= ConnectPeriod)
  /\ UNCHANGED <<app, loopAge, connAge, loopId, phase, uptime, line>>

(* Mutant of ConnectTimer: the connection is never given up. *)
ConnectTimerNever ==
  /\ "connect" \in due
  /\ due' = due \ {"connect"}
  /\ UNCHANGED <<app, connected, loopAge, connAge, loopId, phase, uptime, line>>

(* connectTimer: no loopback for too long. *)
ConnectTimer ==
  /\ "connect" \in due
  /\ due' = due \ {"connect"}
  /\ connected' = (connected /\ loopAge <= LoopbackTimeout)
  /\ UNCHANGED <<app, loopAge, connAge, loopId, phase, uptime, line>>

(* Mutant of IncomingConnect: the publishers are not declared again. *)
IncomingConnectNoPublishers ==
  /\ connected' = TRUE
  /\ connAge' = 0
  /\ Write(SubscriberMsgs)
  /\ UNCHANGED <<app, loopAge, loopId, phase, due, uptime>>

(* incomingConnect: declare every resource again, subscribers first. *)
IncomingConnect ==
  /\ connected' = TRUE
  /\ connAge' = 0
  /\ Write(SubscriberMsgs \o PublisherMsgs)
  /\ UNCHANGED <<app, loopAge, loopId, phase, due, uptime>>

(* Mutant of LatencyOf: the difference is taken the other way round. *)
LatencyOfSwapped(t) == (t + Modulus - uptime) % Modulus

(* Sys::millis() - t in uint64_t *)
LatencyOf(t) == (uptime + Modulus - t) % Modulus

(* incomingPublish goes to every Subscriber, whatever id it carries; t is  *)
(* what uptimeSub decodes from the value.                                  *)
IncomingPublish(i, t) ==
  /\ Write(<<MsgPublish(LatencyPub, Latency, LatencyOf(t))>>)
  /\ loopAge' = 0
  /\ loopId' = i
  /\ UNCHANGED <<app, connected, connAge, phase, due, uptime>>

(* The application emits a value on a Publisher of its own; nothing asks    *)
(* whether the microcontroller is connected.                               *)
AppPublish(i, v) ==
  /\ i >= 3 /\ i < Len(Resources) /\ Resources[i + 1].kind = "pub"
  /\ Write(<<MsgPublish(i, Key(i), v)>>)
  /\ UNCHANGED <<app, connected, loopAge, connAge, loopId, phase, due, uptime>>

(* incomingDisconnect has no consumer. *)
IncomingDisconnect == UNCHANGED uvars

(* Mutant of Tick: connectTimer fires once and is not repeated. *)
TickOneShot ==
  /\ due = {}
  /\ due' = IF phase + 1 = ConnectPeriod THEN {"keepAlive", "connect"} ELSE {"keepAlive"}
  /\ phase' = phase + 1
  /\ loopAge' = Older(loopAge)
  /\ connAge' = Older(connAge)
  /\ uptime' = (uptime + 1) % Modulus
  /\ phase <= ConnectPeriod
  /\ UNCHANGED <<app, connected, loopId, line>>

(* Mutant of Tick: connectTimer fires one tick late. *)
TickLate ==
  /\ due = {}
  /\ due' = IF phase = 0 THEN {"keepAlive", "connect"} ELSE {"keepAlive"}
  /\ phase' = (phase + 1) % ConnectPeriod
  /\ loopAge' = Older(loopAge)
  /\ connAge' = Older(connAge)
  /\ uptime' = (uptime + 1) % Modulus
  /\ UNCHANGED <<app, connected, loopId, line>>

Tick ==
  /\ due = {}
  /\ due' = IF phase + 1 = ConnectPeriod THEN {"keepAlive", "connect"} ELSE {"keepAlive"}
  /\ phase' = (phase + 1) % ConnectPeriod
  /\ loopAge' = Older(loopAge)
  /\ connAge' = Older(connAge)
  /\ uptime' = (uptime + 1) % Modulus
  /\ UNCHANGED <<app, connected, loopId, line>>

(* A reset, possibly with another firmware: setup() and init() run again.  *)
(* The first kept frames have already left the output buffer.              *)
Reboot(a, kept) ==
  /\ app' = a
  /\ connected' = FALSE
  /\ loopAge' = 0 /\ connAge' = 0 /\ loopId' = None
  /\ phase' = 0 /\ due' = {} /\ uptime' = 0
  /\ line' = SubSeq(line, 1, kept)

(* The line takes a frame from the buffer. *)
FrameSent == line # <<>> /\ line' = Tail(line)

-----------------------------------------------------------------------------
(* The microcontroller with any proxy: frames arrive at any time. *)
UNext ==
  \/ KeepAlive
  \/ ConnectTimer
  \/ IncomingConnect
  \/ \E i \in {UptimeSub}, t \in Values : IncomingPublish(i, t)
  \/ \E i \in 3 .. (Len(Resources) - 1) : AppPublish(i, 0)
  \/ IncomingDisconnect
  \/ Tick
  \/ \E a \in Apps, kept \in 0 .. Len(line) : Reboot(a, kept)
  \/ FrameSent /\ UNCHANGED <<app, connected, loopAge, connAge, loopId, phase, due, uptime>>

USpec == UInit /\ [][UNext]_uvars

-----------------------------------------------------------------------------
(* Types of the timers' and the connection's state. *)
ClockTypeOK ==
  /\ app \in Apps
  /\ connected \in BOOLEAN
  /\ loopAge \in 0 .. MaxAge /\ connAge \in 0 .. MaxAge
  /\ loopId \in MsgIds \union {None}
  /\ phase \in 0 .. (ConnectPeriod - 1)
  /\ due \subseteq {"keepAlive", "connect"}
  /\ uptime \in Values

(* Type correctness: also, the line holds protocol messages, within its     *)
(* capacity.                                                                *)
UTypeOK ==
  /\ ClockTypeOK
  /\ line \in Seq(Msg) /\ Len(line) <= MaxLine

(* The two timers together bound how long the microcontroller believes in  *)
(* a connection that is gone: while connected is true, its uptime came back *)
(* within the timeout plus one connectTimer period, or the reply to its     *)
(* connect is at most one period old (keepAliveTimer, connectTimer).        *)
OutageNoticed ==
  connected => \/ loopAge <= LoopbackTimeout + ConnectPeriod
               \/ connAge <= ConnectPeriod

(* The inductive form: at each point of connectTimer's period, how stale   *)
(* the loopback of a connected microcontroller can be.                     *)
SinceCheck == IF "connect" \in due THEN ConnectPeriod ELSE phase

FreshAtPhase ==
  connected => loopAge <= LoopbackTimeout + SinceCheck \/ connAge <= SinceCheck

UInv == ClockTypeOK /\ FreshAtPhase /\ ("connect" \in due => phase = 0)
=============================================================================
