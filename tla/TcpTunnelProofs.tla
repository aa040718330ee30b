--------------------------- MODULE TcpTunnelProofs --------------------------
(***************************************************************************)
(* The tunnel, for any number of sessions, sockets, slices, frames on the  *)
(* line and faults:                                                        *)
(*   the worker thread of the tunnel never blocks in recv() while closes   *)
(*   are neither lost nor left out (TunnelInv);                            *)
(*   what arrives in either direction was sent, in order and at most once, *)
(*   under every fault (UpInv, DownInv, TunnelImplementsStreams);          *)
(*   and until a frame is lost or the client restarts, every connection to *)
(*   the router carries the first slices of its own session, without a     *)
(*   hole (SessionInv, ConnectionsCarryPrefixes).                          *)
(***************************************************************************)
EXTENDS TcpTunnel, Recursion, SequenceTheorems, TLAPS

LEMMA SuffixType ==
  ASSUME NEW S, NEW s \in Seq(S), NEW n \in 0 .. Len(s)
  PROVE  SubSeq(s, n + 1, Len(s)) \in Seq(S)
  OBVIOUS

LEMMA PrefixType ==
  ASSUME NEW S, NEW s \in Seq(S), NEW n \in 0 .. Len(s)
  PROVE  SubSeq(s, 1, n) \in Seq(S)
  OBVIOUS

LEMMA RemoveType ==
  ASSUME NEW S, NEW s \in Seq(S), NEW n \in DOMAIN s
  PROVE  RemoveAt(s, n) \in Seq(S)
  BY DEF RemoveAt

LEMMA FrameTypes ==
  /\ \A s \in Nat : TCP_OPEN(s) \in Frame /\ TCP_CONNECTED(s) \in Frame /\ TCP_DISCONNECTED(s) \in Frame
  /\ \A n \in Nat : TCP_SEND(n) \in Frame
  /\ \A d \in Seq(Nat) : TCP_RECV(d) \in Frame
  /\ TCP_CLOSE \in Frame
  BY DEF Frame, TCP_OPEN, TCP_CONNECTED, TCP_DISCONNECTED, TCP_SEND, TCP_RECV, TCP_CLOSE

LEMMA EmitType ==
  ASSUME toClient \in Seq(Frame), NEW frame \in Frame, Emit(frame)
  PROVE  toClient' \in Seq(Frame)
  BY DEF Emit

LEMMA InitType == Init => TypeOK
<1> SUFFICES ASSUME Init PROVE TypeOK
  OBVIOUS
<1>1. /\ state \in [Fds -> {"none", "open", "shut"}]
      /\ peer \in [Fds -> {"up", "closed", "reset"}]
      /\ rx \in [Fds -> Seq(Nat)] /\ of \in [Fds -> Nat]
      /\ \A f \in Fds : state[f] = "none" <=> f > used
  BY DEF Init, Fds
<1>2. used \in 0 .. MaxFds
  BY TunnelAssumption DEF TunnelAssumption, Init
<1>3. invokers \intersect Fds = {}
  BY DEF Init, Fds, Serial
<1>4. _socket \in {Serial, NoFd} \union 1 .. used /\ invokers \subseteq {Serial} \union 1 .. used
  BY DEF Init
<1>5. opened \in BOOLEAN /\ waiting = FALSE
  BY DEF Init
<1>6. /\ session \in Nat /\ starts \in Seq(Nat) /\ sends \in Nat
      /\ want \in {0} \union Wants
      /\ _inputStream \in Seq(Nat) /\ _eventStream \subseteq Frame /\ received \in Seq(Nat)
      /\ toProxy \in Seq(Frame) /\ toClient \in Seq(Frame)
      /\ writes \in Nat
  BY DEF Init
<1> QED BY <1>1, <1>2, <1>3, <1>4, <1>5, <1>6 DEF TypeOK

(* One step of each party keeps the types. *)
LEMMA ClientType == TypeOK /\ Client => TypeOK'
<1> SUFFICES ASSUME TypeOK, Client PROVE TypeOK'
  OBVIOUS
<1> USE DEF TypeOK, tcp, router
<1>1. CASE ClientOpen
  <2>1. toProxy' \in Seq(Frame)
    BY <1>1, FrameTypes DEF ClientOpen, SendFrame
  <2>2. opened' \in BOOLEAN /\ session' \in Nat /\ starts' \in Seq(Nat)
    BY <1>1 DEF ClientOpen
  <2> QED BY <1>1, <2>1, <2>2 DEF ClientOpen
<1>2. CASE ClientClose
  <2>1. toProxy' \in Seq(Frame)
    BY <1>2, FrameTypes DEF ClientClose, SendFrame
  <2> QED BY <1>2, <2>1 DEF ClientClose
<1>3. CASE ClientSend
  <2>1. toProxy' \in Seq(Frame)
    BY <1>3, FrameTypes DEF ClientSend, SendFrame
  <2> QED BY <1>3, <2>1 DEF ClientSend
<1>4. ASSUME NEW k \in Wants, ClientRecv(k) PROVE TypeOK'
  BY <1>4 DEF ClientRecv
<1>5. CASE HandleFrame
  <2>1. Head(toClient) \in Frame /\ toClient' \in Seq(Frame)
    BY <1>5 DEF HandleFrame
  <2>2. Head(toClient).data \in Seq(Nat) /\ <<Header>> \in Seq(Nat)
    BY <2>1 DEF Frame, Header
  <2>3. _inputStream \o <<Header>> \o Head(toClient).data \in Seq(Nat)
    BY <2>2
  <2>4. _inputStream' \in Seq(Nat) /\ _eventStream' \subseteq Frame
    BY <1>5, <2>1, <2>3 DEF HandleFrame
  <2> QED BY <1>5, <2>1, <2>4 DEF HandleFrame
<1>6. CASE RecvReturns
  <2>1. want \in 0 .. Len(_inputStream)
    BY <1>6, TunnelAssumption, SMTT(30) DEF TunnelAssumption, RecvReturns
  <2>2. /\ SubSeq(_inputStream, 1, want) \in Seq(Nat)
        /\ SubSeq(_inputStream, want + 1, Len(_inputStream)) \in Seq(Nat)
    BY <2>1, SuffixType, PrefixType
  <2>3. received' \in Seq(Nat) /\ _inputStream' \in Seq(Nat)
    BY <1>6, <2>2, SMTT(30) DEF RecvReturns
  <2> QED BY <1>6, <2>3, SMTT(30) DEF RecvReturns
<1> QED BY <1>1, <1>2, <1>3, <1>4, <1>5, <1>6 DEF Client

LEMMA DisconnectType ==
  ASSUME TypeOK, Disconnect,
         UNCHANGED <<client, rx, peer, writes>>,
         toProxy' \in Seq(Frame), waiting' \in BOOLEAN, waiting' => waiting
  PROVE  TypeOK'
<1>1. toClient' \in Seq(Frame)
  BY FrameTypes, EmitType DEF Disconnect, TypeOK
<1>2. /\ state' \in [Fds -> {"none", "open", "shut"}]
      /\ \A f \in Fds : state'[f] = "none" <=> f > used
  BY DEF Disconnect, TypeOK, Fds, Serial, NoFd
<1> QED BY <1>1, <1>2 DEF Disconnect, TypeOK, client

LEMMA SerialType ==
  ASSUME TypeOK, NEW t, Serial_incoming(t)
  PROVE  toProxy' \in Seq(Frame) /\ Head(toProxy) \in Frame
  BY DEF TypeOK, Serial_incoming

LEMMA OpenTxType ==
  ASSUME TypeOK, NEW ok \in BOOLEAN, NEW created \in BOOLEAN, OpenTxSession(ok, created)
  PROVE  /\ used' \in 0 .. MaxFds /\ used <= used'
         /\ ok => used' = used + 1 /\ used + 1 \in Fds
         /\ state' \in [Fds -> {"none", "open", "shut"}]
         /\ \A f \in Fds : state'[f] = "none" <=> f > used'
<1>1. used \in Nat /\ MaxFds \in Nat
  BY TunnelAssumption DEF TunnelAssumption, TypeOK
<1>2. CASE created
  <2>1. used' = used + 1 /\ used + 1 \in Fds
    BY <1>1, <1>2 DEF OpenTxSession, Fds
  <2>2. state' = [state EXCEPT ![used + 1] = IF ok THEN "open" ELSE "shut"]
    BY <1>2 DEF OpenTxSession
  <2>3. state' \in [Fds -> {"none", "open", "shut"}]
    BY <2>1, <2>2 DEF TypeOK
  <2>4. \A f \in Fds : state'[f] = "none" <=> f > used'
    <3>1. state \in [Fds -> {"none", "open", "shut"}] /\ \A f \in Fds : state[f] = "none" <=> f > used
      BY DEF TypeOK
    <3>2. \A f \in Fds : f \in Int
      BY DEF Fds
    <3>3. ASSUME NEW f \in Fds PROVE state'[f] = "none" <=> f > used'
      <4>1. CASE f = used + 1
        BY <1>1, <2>1, <2>2, <3>1, <4>1
      <4>2. CASE f # used + 1
        <5>1. state'[f] = state[f]
          BY <2>2, <3>1, <4>2
        <5>2. f > used <=> f > used + 1
          BY <1>1, <3>2, <4>2
        <5> QED BY <2>1, <3>1, <5>1, <5>2
      <4> QED BY <4>1, <4>2
    <3> QED BY <3>3
  <2>5. used' \in 0 .. MaxFds /\ used <= used'
    BY <1>1, <2>1 DEF Fds
  <2> QED BY <2>1, <2>3, <2>4, <2>5
<1>3. CASE ~created
  BY <1>1, <1>3 DEF OpenTxSession, TypeOK
<1> QED BY <1>2, <1>3

LEMMA HandleOpenType ==
  ASSUME TypeOK, NEW ok \in BOOLEAN, HandleOpen(ok)
  PROVE  TypeOK'
<1> DEFINE s == Head(toProxy).session
<1>1. toProxy' \in Seq(Frame) /\ s \in Nat
  BY SerialType DEF HandleOpen, Frame
<1>2. PICK created \in BOOLEAN : OpenTxSession(ok, created)
  BY DEF HandleOpen, Connect
<1>3. toClient' \in Seq(Frame)
  BY <1>1, FrameTypes, EmitType DEF HandleOpen, Connect, TypeOK
<1>4. of' \in [Fds -> Nat]
  BY <1>1, <1>2, OpenTxType DEF HandleOpen, Connect, TypeOK
<1>5. /\ used' \in 0 .. MaxFds /\ used \in Nat /\ used <= used'
      /\ ok => used' = used + 1 /\ used + 1 \in Fds
  BY <1>2, OpenTxType DEF TypeOK
<1>6. /\ _socket' \in {Serial, NoFd} \union 1 .. used'
      /\ invokers' \subseteq {Serial} \union 1 .. used'
      /\ (invokers' \intersect Fds # {} => _socket' \in Fds)
  <2>0. 1 .. used \subseteq 1 .. used'
    BY <1>5
  <2>1. CASE ok
    <3>1. _socket' = used + 1 /\ invokers' = invokers \union {used + 1}
      BY <2>1 DEF HandleOpen, Connect
    <3>2. used + 1 \in 1 .. used'
      BY <1>5, <2>1
    <3> QED BY <1>5, <2>0, <2>1, <3>1, <3>2 DEF TypeOK
  <2>2. CASE ~ok
    <3>1. _socket' = _socket /\ invokers' = invokers \ {_socket}
      BY <2>2 DEF HandleOpen, Connect
    <3> QED BY <2>0, <3>1 DEF TypeOK
  <2> QED BY <2>1, <2>2
<1>7. waiting' = FALSE /\ UNCHANGED <<client, router>>
  BY DEF HandleOpen, Serial_incoming
<1> QED BY <1>1, <1>2, <1>3, <1>4, <1>5, <1>6, <1>7, OpenTxType DEF TypeOK, client, router

LEMMA RecvType ==
  ASSUME TypeOK, RecvResult, _socket \in Fds
  PROVE  TypeOK'
<1>1. CASE rx[_socket] # <<>>
  <2>1. PICK n \in 1 .. Len(rx[_socket]) :
          /\ Emit(TCP_RECV(SubSeq(rx[_socket], 1, n)))
          /\ rx' = [rx EXCEPT ![_socket] = SubSeq(@, n + 1, Len(@))]
          /\ UNCHANGED <<_socket, invokers, used, state, of>>
    <3>1. Len(rx[_socket]) \in Nat
      BY DEF TypeOK
    <3>2. 1 .. (IF Len(rx[_socket]) < RecvMax THEN Len(rx[_socket]) ELSE RecvMax)
            \subseteq 1 .. Len(rx[_socket])
      BY <3>1, TunnelAssumption DEF TunnelAssumption
    <3> QED BY <1>1, <3>2 DEF RecvResult
  <2>2. rx[_socket] \in Seq(Nat)
    BY DEF TypeOK
  <2>3. n \in 0 .. Len(rx[_socket])
    BY <2>2
  <2>4. /\ SubSeq(rx[_socket], 1, n) \in Seq(Nat)
        /\ SubSeq(rx[_socket], n + 1, Len(rx[_socket])) \in Seq(Nat)
    BY <2>2, <2>3, PrefixType, SuffixType
  <2>5. toClient' \in Seq(Frame)
    BY <2>1, <2>4, FrameTypes, EmitType DEF TypeOK
  <2>6. rx' \in [Fds -> Seq(Nat)]
    BY <2>1, <2>4 DEF TypeOK
  <2> QED BY <2>1, <2>5, <2>6 DEF RecvResult, TypeOK, client
<1>2. CASE rx[_socket] = <<>>
  BY <1>2, DisconnectType DEF RecvResult, TypeOK
<1> QED BY <1>1, <1>2

LEMMA WorkerType == TypeOK /\ Worker => TypeOK'
<1> SUFFICES ASSUME TypeOK, Worker PROVE TypeOK'
  OBVIOUS
<1>1. ASSUME NEW ok \in BOOLEAN, HandleOpen(ok) PROVE TypeOK'
  BY <1>1, HandleOpenType
<1>2. CASE HandleClose
  <2>1. toProxy' \in Seq(Frame) /\ waiting' = FALSE
    BY <1>2, SerialType DEF HandleClose, Serial_incoming
  <2> QED BY <1>2, <2>1, DisconnectType DEF HandleClose, Serial_incoming, router
<1>3. CASE HandleSend
  <2>1. toProxy' \in Seq(Frame)
    BY <1>3, SerialType DEF HandleSend
  <2> QED BY <1>3, <2>1 DEF HandleSend, Serial_incoming, TypeOK, client
<1>4. CASE RecvUnblocked
  BY <1>4, RecvType DEF RecvUnblocked, Readable
<1>5. ASSUME NEW f \in Fds, Invoke(f) PROVE TypeOK'
  <2>1. CASE Readable(_socket)
    BY <1>5, <2>1, RecvType DEF Invoke, Readable
  <2>2. CASE ~Readable(_socket)
    <3>1. _socket \in Fds
      BY <1>5 DEF Invoke, TypeOK
    <3> QED BY <1>5, <2>2, <3>1 DEF Invoke, TypeOK, client, router
  <2> QED BY <2>1, <2>2
<1>6. ASSUME NEW f \in Fds, OnError(f) PROVE TypeOK'
  BY <1>6, DisconnectType DEF OnError, router, TypeOK
<1> QED BY <1>1, <1>2, <1>3, <1>4, <1>5, <1>6 DEF Worker, HandleSerial

LEMMA OutsideType == TypeOK /\ (Router \/ Lose \/ ClientRestart \/ ProxyRestart) => TypeOK'
<1> SUFFICES ASSUME TypeOK, Router \/ Lose \/ ClientRestart \/ ProxyRestart PROVE TypeOK'
  OBVIOUS
<1>1. ASSUME NEW f \in Fds, RouterWrite(f) PROVE TypeOK'
  <2>1. rx' \in [Fds -> Seq(Nat)] /\ writes' \in Nat
    BY <1>1 DEF RouterWrite, TypeOK
  <2> QED BY <1>1, <2>1 DEF RouterWrite, TypeOK, client, tcp
<1>2. ASSUME NEW f \in Fds, NEW how \in {"closed", "reset"}, RouterEnds(f, how) PROVE TypeOK'
  BY <1>2 DEF RouterEnds, TypeOK, client, tcp
<1>3. CASE Lose
  <2>1. toProxy' \in Seq(Frame) /\ toClient' \in Seq(Frame)
    BY <1>3, RemoveType DEF Lose, TypeOK
  <2> QED BY <1>3, <2>1 DEF Lose, TypeOK, client, tcp, router
<1>4. CASE ClientRestart
  <2>1. toClient' \in Seq(Frame)
    BY <1>4, SuffixType DEF ClientRestart, TypeOK
  <2>2. UNCHANGED <<session, starts, sends, received, toProxy, tcp, router>>
    BY <1>4 DEF ClientRestart
  <2>3. /\ opened' \in BOOLEAN /\ want' \in {0} \union Wants
        /\ _inputStream' \in Seq(Nat) /\ _eventStream' \subseteq Frame
    <3>1. opened' \in BOOLEAN
      BY <1>4 DEF ClientRestart
    <3>2. want' = 0 /\ _eventStream' = {}
      BY <1>4 DEF ClientRestart
    <3>3. _inputStream' = <<>>
      BY <1>4 DEF ClientRestart
    <3> HIDE <1>4
    <3>4. _inputStream' \in Seq(Nat)
      BY <3>3
    <3> QED BY <3>1, <3>2, <3>4
  <2>4. UNCHANGED <<session, starts, sends, received, toProxy, _socket, invokers, waiting,
                    used, state, of, rx, peer, writes>>
    BY <2>2 DEF tcp, router
  <2> HIDE <1>4
  <2> QED BY <2>1, <2>3, <2>4 DEF TypeOK
<1>5. CASE ProxyRestart
  <2>1. toProxy' \in Seq(Frame)
    BY <1>5, SuffixType DEF ProxyRestart, TypeOK
  <2>2. /\ state' \in [Fds -> {"none", "open", "shut"}]
        /\ \A f \in Fds : state'[f] = "none" <=> f > used
    BY <1>5 DEF ProxyRestart, TypeOK, Fds
  <2>3. invokers' \intersect Fds = {} /\ waiting' = FALSE
    BY <1>5 DEF ProxyRestart, Fds, Serial
  <2>4. /\ _socket' \in {Serial, NoFd} /\ invokers' = {Serial}
        /\ UNCHANGED <<client, toClient, used, of, router>>
    BY <1>5 DEF ProxyRestart
  <2> QED BY <2>1, <2>2, <2>3, <2>4 DEF TypeOK, client, router
<1> QED BY <1>1, <1>2, <1>3, <1>4, <1>5 DEF Router

(* The tunnel's state is type correct: no step registers, uses or shuts a  *)
(* socket that was not created (tcp_session.cpp:17-42).                    *)
THEOREM TunnelTypes == Spec => []TypeOK
<1>1. TypeOK /\ [Next]_vars => TypeOK'
  <2> SUFFICES ASSUME TypeOK, [Next]_vars PROVE TypeOK'
    OBVIOUS
  <2>1. CASE UNCHANGED vars
    BY <2>1 DEF vars, client, tcp, router, TypeOK
  <2> QED BY <2>1, ClientType, WorkerType, OutsideType DEF Next, OpenAborts
<1> QED BY <1>1, InitType, PTL DEF Spec

-----------------------------------------------------------------------------
(* The rest of the invariant, in a state where no frame was lost and the   *)
(* client has not restarted.                                               *)

(* Sending a frame: an open only without a session, a close ends it.       *)
LEMMA AlternateSend ==
  ASSUME NEW s \in Seq(Frame), NEW frame \in Frame,
         NEW r \in BOOLEAN, NEW o \in BOOLEAN, NEW p \in BOOLEAN,
         OpensAlternate(s, r, o),
         \/ frame.type = "open" /\ ~o /\ p
         \/ frame.type = "close" /\ ~p
         \/ frame.type = "send" /\ o /\ p
  PROVE  OpensAlternate(Append(s, frame), r, p)
<1> DEFINE t == Append(s, frame)
           last == Len(s) + 1
<1>1. /\ DOMAIN s \subseteq DOMAIN t /\ last \in DOMAIN t
      /\ \A i \in DOMAIN t : i \in DOMAIN s \/ i = last
      /\ \A i \in DOMAIN s : i < last /\ ~(last < i) /\ t[i] = s[i]
      /\ t[last] = frame /\ ~(last < last)
  OBVIOUS
<1> HIDE DEF t, last
<1>2. ASSUME NEW i \in DOMAIN t, NEW k \in DOMAIN t, i < k, t[i].type = "open", t[k].type = "open"
      PROVE  \E j \in DOMAIN t : i < j /\ j < k /\ t[j].type = "close"
  <2>1. i \in DOMAIN s
    BY <1>1, <1>2
  <2>2. CASE k \in DOMAIN s
    BY <1>1, <1>2, <2>1, <2>2 DEF OpensAlternate
  <2>3. CASE k = last
    <3>1. frame.type = "open"
      BY <1>1, <1>2, <2>3
    <3>2. PICK j \in DOMAIN s : i < j /\ s[j].type = "close"
      BY <1>1, <1>2, <2>1, <3>1 DEF OpensAlternate
    <3> QED BY <1>1, <2>3, <3>2
  <2> QED BY <1>1, <2>2, <2>3
<1>3. ASSUME r, NEW k \in DOMAIN t, t[k].type = "open"
      PROVE  \E j \in DOMAIN t : j < k /\ t[j].type = "close"
  <2>1. CASE k \in DOMAIN s
    BY <1>1, <1>3, <2>1 DEF OpensAlternate
  <2>2. CASE k = last
    <3>1. frame.type = "open"
      BY <1>1, <1>3, <2>2
    <3>2. PICK j \in DOMAIN s : s[j].type = "close"
      BY <1>1, <1>3, <3>1 DEF OpensAlternate
    <3> QED BY <1>1, <2>2, <3>2
  <2> QED BY <1>1, <2>1, <2>2
<1>4. ASSUME ~p
      PROVE  /\ \A i \in DOMAIN t : t[i].type = "open" => \E j \in DOMAIN t : i < j /\ t[j].type = "close"
             /\ \E j \in DOMAIN t : t[j].type = "close"
  <2>1. t[last].type = "close"
    BY <1>1, <1>4
  <2> QED BY <1>1, <2>1
<1>5. OpensAlternate(t, r, p)
  BY <1>2, <1>3, <1>4 DEF OpensAlternate
<1> QED BY <1>5 DEF t

(* Taking a frame: an open may register a socket, a close unregisters it,  *)
(* and anything else changes nothing here.                                 *)
LEMMA AlternateReceive ==
  ASSUME NEW s \in Seq(Frame), s # <<>>,
         NEW r \in BOOLEAN, NEW q \in BOOLEAN, NEW o \in BOOLEAN,
         OpensAlternate(s, r, o),
         \/ s[1].type = "open"
         \/ s[1].type = "close" /\ ~q
         \/ s[1].type = "send" /\ (q => r)
  PROVE  OpensAlternate(Tail(s), q, o)
<1> DEFINE t == Tail(s)
<1>1. /\ DOMAIN s = 1 .. Len(s) /\ DOMAIN t = 1 .. (Len(s) - 1)
      /\ Len(s) \in Nat /\ Len(s) >= 1
      /\ \A i \in DOMAIN t : t[i] = s[i + 1]
  OBVIOUS
<1>2. /\ \A i \in DOMAIN t : i \in Int /\ i + 1 \in DOMAIN s /\ 1 < i + 1
      /\ \A i \in DOMAIN s : i \in Int /\ (1 < i => i - 1 \in DOMAIN t /\ t[i - 1] = s[i])
      /\ 1 \in DOMAIN s
  BY <1>1
<1> HIDE DEF t
<1>3. ASSUME NEW i \in DOMAIN t, NEW k \in DOMAIN t, i < k, t[i].type = "open", t[k].type = "open"
      PROVE  \E j \in DOMAIN t : i < j /\ j < k /\ t[j].type = "close"
  <2>1. s[i + 1].type = "open" /\ s[k + 1].type = "open" /\ i + 1 < k + 1
    BY <1>1, <1>2, <1>3
  <2>2. PICK j \in DOMAIN s : i + 1 < j /\ j < k + 1 /\ s[j].type = "close"
    BY <1>2, <2>1 DEF OpensAlternate
  <2>3. i \in Int /\ j \in Int /\ k \in Int /\ 1 < i + 1
    BY <1>2
  <2>4. i < j - 1 /\ j - 1 < k /\ 1 < j
    BY <2>2, <2>3
  <2> QED BY <1>2, <2>2, <2>4
<1>4. ASSUME q, NEW k \in DOMAIN t, t[k].type = "open"
      PROVE  \E j \in DOMAIN t : j < k /\ t[j].type = "close"
  <2>1. s[k + 1].type = "open" /\ 1 < k + 1
    BY <1>1, <1>2, <1>4
  <2>2. PICK j \in DOMAIN s : j < k + 1 /\ s[j].type = "close" /\ 1 < j
    <3>1. CASE s[1].type = "open"
      BY <1>2, <2>1, <3>1 DEF OpensAlternate
    <3>2. CASE s[1].type = "send" /\ r
      <4>1. PICK j \in DOMAIN s : j < k + 1 /\ s[j].type = "close"
        BY <1>2, <2>1, <3>2 DEF OpensAlternate
      <4>2. j # 1
        BY <3>2, <4>1
      <4> QED BY <1>1, <1>2, <4>1, <4>2
    <3> QED BY <1>4, <3>1, <3>2
  <2>3. j \in Int /\ k \in Int
    BY <1>2
  <2>4. j - 1 < k
    BY <2>2, <2>3
  <2> QED BY <1>2, <2>2, <2>4
<1>5. ASSUME ~o
      PROVE  /\ \A i \in DOMAIN t : t[i].type = "open" => \E j \in DOMAIN t : i < j /\ t[j].type = "close"
             /\ q => \E j \in DOMAIN t : t[j].type = "close"
  <2>1. ASSUME NEW i \in DOMAIN t, t[i].type = "open"
        PROVE  \E j \in DOMAIN t : i < j /\ t[j].type = "close"
    <3>1. PICK j \in DOMAIN s : i + 1 < j /\ s[j].type = "close"
      BY <1>1, <1>2, <1>5, <2>1 DEF OpensAlternate
    <3>2. i \in Int /\ j \in Int /\ 1 < i + 1
      BY <1>2
    <3>3. i < j - 1 /\ 1 < j
      BY <3>1, <3>2
    <3> QED BY <1>2, <3>1, <3>3
  <2>2. ASSUME q PROVE \E j \in DOMAIN t : t[j].type = "close"
    <3>1. PICK j \in DOMAIN s : s[j].type = "close" /\ 1 < j
      <4>1. CASE s[1].type = "open"
        BY <1>2, <1>5, <4>1 DEF OpensAlternate
      <4>2. CASE s[1].type = "send" /\ r
        <5>1. PICK j \in DOMAIN s : s[j].type = "close"
          BY <1>5, <4>2 DEF OpensAlternate
        <5>2. j # 1
          BY <4>2, <5>1
        <5> QED BY <1>1, <1>2, <5>1, <5>2
      <4> QED BY <2>2, <4>1, <4>2
    <3> QED BY <1>2, <3>1
  <2> QED BY <2>1, <2>2
<1>6. OpensAlternate(t, q, o)
  BY <1>3, <1>4, <1>5 DEF OpensAlternate
<1> QED BY <1>6 DEF t

(* Frames that are gone with the sockets do not matter. *)
LEMMA AlternateSuffix ==
  ASSUME NEW s \in Seq(Frame), NEW n \in 0 .. Len(s),
         NEW r \in BOOLEAN, NEW o \in BOOLEAN, OpensAlternate(s, r, o)
  PROVE  OpensAlternate(SubSeq(s, n + 1, Len(s)), FALSE, o)
<1> DEFINE t == SubSeq(s, n + 1, Len(s))
<1>1. /\ DOMAIN s = 1 .. Len(s) /\ DOMAIN t = 1 .. (Len(s) - n)
      /\ Len(s) \in Nat /\ n \in Nat
      /\ \A i \in DOMAIN t : t[i] = s[i + n]
  OBVIOUS
<1> HIDE DEF t
<1>2. /\ \A i \in DOMAIN t : i \in Int /\ i + n \in DOMAIN s /\ t[i] = s[i + n]
      /\ \A i \in DOMAIN s : i \in Int /\ (n < i => i - n \in DOMAIN t /\ t[i - n] = s[i])
  <2>1. ASSUME NEW i \in DOMAIN t PROVE i \in Int /\ i + n \in DOMAIN s /\ t[i] = s[i + n]
    BY <1>1
  <2>2. ASSUME NEW i \in DOMAIN s, n < i PROVE i - n \in DOMAIN t /\ t[i - n] = s[i]
    <3>1. i \in Nat /\ i - n \in DOMAIN t /\ (i - n) + n = i
      BY <1>1, <2>2
    <3> QED BY <1>1, <3>1
  <2>3. \A i \in DOMAIN s : i \in Int
    BY <1>1
  <2> QED BY <2>1, <2>2, <2>3
<1>3. n \in Nat
  BY <1>1
<1>4. ASSUME NEW i \in DOMAIN t, NEW k \in DOMAIN t, i < k, t[i].type = "open", t[k].type = "open"
      PROVE  \E j \in DOMAIN t : i < j /\ j < k /\ t[j].type = "close"
  <2>1. i \in Int /\ k \in Int /\ i + n < k + n /\ n < i + n
    BY <1>1, <1>3, <1>4
  <2>2. PICK j \in DOMAIN s : i + n < j /\ j < k + n /\ s[j].type = "close"
    BY <1>2, <1>4, <2>1 DEF OpensAlternate
  <2>3. j \in Int
    BY <1>2
  <2>4. n < j /\ i < j - n /\ j - n < k
    BY <1>3, <2>1, <2>2, <2>3
  <2> QED BY <1>2, <2>2, <2>4
<1>5. ASSUME ~o, NEW i \in DOMAIN t, t[i].type = "open"
      PROVE  \E j \in DOMAIN t : i < j /\ t[j].type = "close"
  <2>1. i \in Int /\ n < i + n
    BY <1>1, <1>3
  <2>2. PICK j \in DOMAIN s : i + n < j /\ s[j].type = "close"
    BY <1>2, <1>5 DEF OpensAlternate
  <2>3. j \in Int
    BY <1>2
  <2>4. n < j /\ i < j - n
    BY <1>3, <2>1, <2>2, <2>3
  <2> QED BY <1>2, <2>2, <2>4
<1>6. OpensAlternate(t, FALSE, o)
  BY <1>4, <1>5 DEF OpensAlternate
<1> QED BY <1>6 DEF t

Registered == invokers \intersect Fds # {}

(* The client sends open and close in turn. *)
LEMMA ClientKeepsOneSocket ==
  ASSUME TypeOK, TypeOK', OneSocket, Client PROVE OneSocket'
<1> DEFINE frame == IF opened /\ opened' THEN TCP_SEND(sends + 1)
                    ELSE IF opened THEN TCP_CLOSE ELSE TCP_OPEN(session + 1)
<1>1. ~waiting' /\ invokers' = invokers /\ _socket' = _socket
  <2>1. UNCHANGED <<waiting, invokers, _socket>>
    BY DEF Client, ClientOpen, ClientClose, ClientSend, ClientRecv, HandleFrame, RecvReturns, tcp
  <2> QED BY <2>1 DEF OneSocket
<1>2. opened \in BOOLEAN /\ opened' \in BOOLEAN /\ toProxy \in Seq(Frame) /\ Registered \in BOOLEAN
  BY DEF TypeOK, Registered
<1>3. OpensAlternate(toProxy, Registered, opened)
  BY DEF OneSocket, Registered
<1>4. \/ UNCHANGED <<toProxy, opened>>
      \/ /\ toProxy' = Append(toProxy, frame) /\ frame \in Frame
         /\ \/ frame.type = "open" /\ ~opened /\ opened'
            \/ frame.type = "close" /\ ~opened'
            \/ frame.type = "send" /\ opened /\ opened'
  <2>1. CASE ClientOpen
    BY <2>1, FrameTypes DEF ClientOpen, SendFrame, TCP_OPEN, TypeOK
  <2>2. CASE ClientClose
    BY <2>2, FrameTypes DEF ClientClose, SendFrame, TCP_CLOSE, TypeOK
  <2>3. CASE ClientSend
    BY <2>3, FrameTypes DEF ClientSend, SendFrame, TCP_SEND, TypeOK
  <2>4. CASE HandleFrame \/ RecvReturns \/ \E k \in Wants : ClientRecv(k)
    BY <2>4 DEF ClientRecv, HandleFrame, RecvReturns
  <2> QED BY <2>1, <2>2, <2>3, <2>4 DEF Client
<1> HIDE DEF frame
<1>5. OpensAlternate(toProxy', Registered, opened')
  BY <1>2, <1>3, <1>4, AlternateSend
<1> QED BY <1>1, <1>5 DEF OneSocket, Registered

(* An open finds no socket registered, a close leaves none registered. *)
LEMMA SerialKeepsOneSocket ==
  ASSUME TypeOK, TypeOK', OneSocket, HandleSerial PROVE OneSocket'
<1>1. /\ toProxy \in Seq(Frame) /\ opened \in BOOLEAN
      /\ Registered \in BOOLEAN /\ Registered' \in BOOLEAN
  BY DEF TypeOK, Registered
<1>2. OpensAlternate(toProxy, Registered, opened)
  BY DEF OneSocket, Registered
<1>3. /\ toProxy # <<>> /\ toProxy' = Tail(toProxy) /\ ~waiting' /\ opened' = opened
  BY DEF HandleSerial, HandleOpen, HandleClose, HandleSend, Serial_incoming, client
<1>4. Head(toProxy) = toProxy[1] /\ 1 \in DOMAIN toProxy
  BY <1>1, <1>3
<1>5. /\ invokers' \intersect Fds \subseteq {_socket'}
      /\ \/ toProxy[1].type = "open"
         \/ toProxy[1].type = "close" /\ ~Registered'
         \/ toProxy[1].type = "send" /\ (Registered' => Registered)
  <2>1. ASSUME NEW ok \in BOOLEAN, HandleOpen(ok)
        PROVE  toProxy[1].type = "open" /\ invokers' \intersect Fds \subseteq {_socket'}
    <3>1. toProxy[1].type = "open"
      BY <1>4, <2>1 DEF HandleOpen, Serial_incoming
    <3>2. ~Registered
      <4> SUFFICES ASSUME Registered PROVE FALSE
        OBVIOUS
      <4>1. PICK j \in DOMAIN toProxy : j < 1
        BY <1>2, <1>4, <3>1 DEF OpensAlternate
      <4>2. \A i \in DOMAIN toProxy : i \in Int /\ 1 <= i
        BY <1>1
      <4> QED BY <4>1, <4>2
    <3>3. \/ _socket' = used + 1 /\ invokers' = invokers \union {used + 1}
          \/ invokers' = invokers \ {_socket}
      BY <2>1 DEF HandleOpen, Connect
    <3> QED BY <3>1, <3>2, <3>3 DEF Registered
  <2>2. CASE HandleClose
    BY <1>4, <2>2 DEF HandleClose, Serial_incoming, Disconnect, OneSocket, Registered
  <2>3. CASE HandleSend
    BY <1>4, <2>3 DEF HandleSend, Serial_incoming, OneSocket, Registered
  <2> QED BY <2>1, <2>2, <2>3 DEF HandleSerial
<1>6. OpensAlternate(toProxy', Registered', opened')
  BY <1>1, <1>2, <1>3, <1>5, AlternateReceive
<1> QED BY <1>3, <1>5, <1>6 DEF OneSocket, Registered

(* A socket that is reported is _socket, so recv() returns; the end of the *)
(* session only unregisters it.                                            *)
LEMMA SocketKeepsOneSocket ==
  ASSUME TypeOK, OneSocket, RecvUnblocked \/ \E f \in Fds : Invoke(f) \/ OnError(f)
  PROVE  OneSocket'
<1>1. PICK f \in Fds : Invoke(f) \/ OnError(f)
  BY DEF OneSocket, RecvUnblocked
<1>2. f = _socket
  BY <1>1 DEF Invoke, OnError, OneSocket
<1>3. /\ ~waiting' /\ UNCHANGED <<toProxy, opened, _socket>>
      /\ invokers' \subseteq invokers
  <2>1. CASE Invoke(f)
    BY <1>2, <2>1 DEF Invoke, RecvResult, Disconnect, client
  <2>2. CASE OnError(f)
    BY <2>2 DEF OnError, Disconnect, OneSocket, client
  <2> QED BY <1>1, <2>1, <2>2
<1>4. OpensAlternate(toProxy, Registered, opened) /\ (Registered' => Registered)
  BY <1>3 DEF OneSocket, Registered
<1>5. OpensAlternate(toProxy, Registered', opened)
  BY <1>4 DEF OpensAlternate
<1> QED BY <1>3, <1>5 DEF OneSocket, Registered

LEMMA OneSocketStep ==
  ASSUME TunnelInv, Next PROVE TunnelInv'
<1>1. TypeOK /\ TypeOK'
  BY ClientType, WorkerType, OutsideType DEF TunnelInv, Next, OpenAborts
<1>2. ASSUME happened' \subseteq {"proxyRestart"} PROVE OneSocket'
  <2>1. happened \subseteq happened'
    BY DEF Next, OpenAborts,
           Client, ClientOpen, ClientClose, ClientSend, ClientRecv, HandleFrame, RecvReturns,
           Worker, HandleSerial, HandleOpen, HandleClose, HandleSend, Serial_incoming,
           RecvUnblocked, RecvResult, Invoke, OnError, Router, RouterWrite, RouterEnds,
           Lose, ClientRestart, ProxyRestart, Strikes
  <2>2. OneSocket
    BY <1>2, <2>1 DEF TunnelInv
  <2>3. CASE Client
    BY <1>1, <2>2, <2>3, ClientKeepsOneSocket
  <2>4. CASE Worker
    <3>1. CASE HandleSerial
      BY <1>1, <2>2, <3>1, SerialKeepsOneSocket
    <3>2. CASE RecvUnblocked \/ \E f \in Fds : Invoke(f) \/ OnError(f)
      BY <1>1, <2>2, <3>2, SocketKeepsOneSocket
    <3> QED BY <2>4, <3>1, <3>2 DEF Worker
  <2>5. CASE Router
    <3>1. UNCHANGED <<waiting, invokers, _socket, toProxy, opened>>
      BY <2>5 DEF Router, RouterWrite, RouterEnds, tcp, client
    <3> QED BY <2>2, <3>1 DEF OneSocket
  <2>6. CASE Lose \/ ClientRestart
    BY <1>2, <2>6 DEF Lose, ClientRestart, Strikes
  <2>7. CASE ProxyRestart
    <3>1. PICK n \in 0 .. Len(toProxy) : toProxy' = SubSeq(toProxy, n + 1, Len(toProxy))
      BY <2>7 DEF ProxyRestart
    <3>2. ~waiting' /\ invokers' \intersect Fds = {} /\ opened' = opened
      BY <2>7 DEF ProxyRestart, client, Fds, Serial
    <3>3. OpensAlternate(toProxy', FALSE, opened)
      <4>1. toProxy \in Seq(Frame) /\ opened \in BOOLEAN /\ Registered \in BOOLEAN
        BY <1>1 DEF TypeOK, Registered
      <4>2. OpensAlternate(toProxy, Registered, opened)
        BY <2>2 DEF OneSocket, Registered
      <4> QED BY <3>1, <4>1, <4>2, AlternateSuffix
    <3>4. (invokers' \intersect Fds # {}) = FALSE
      BY <3>2
    <3> QED BY <3>2, <3>3, <3>4 DEF OneSocket
  <2> QED BY <2>3, <2>4, <2>5, <2>6, <2>7 DEF Next, OpenAborts
<1> QED BY <1>1, <1>2 DEF TunnelInv

(* Until a frame is lost or the client restarts, _socket is the only       *)
(* socket in the poll set (tcp_session.cpp:23-42), and the frames on their *)
(* way to the proxy never open one while another is registered.            *)
THEOREM TunnelInvariant == Spec => []TunnelInv
<1>1. Init => TunnelInv
  <2> SUFFICES ASSUME Init PROVE TunnelInv
    OBVIOUS
  <2>1. ~waiting /\ invokers \intersect Fds = {} /\ toProxy = <<>>
    BY DEF Init, Fds, Serial
  <2>2. OpensAlternate(<<>>, invokers \intersect Fds # {}, opened)
    BY <2>1 DEF OpensAlternate
  <2> QED BY <2>1, <2>2, InitType DEF TunnelInv, OneSocket
<1>2. TunnelInv /\ [Next]_vars => TunnelInv'
  <2> SUFFICES ASSUME TunnelInv, [Next]_vars PROVE TunnelInv'
    OBVIOUS
  <2>1. CASE UNCHANGED vars
    BY <2>1 DEF vars, client, tcp, router, TypeOK, OneSocket, TunnelInv
  <2> QED BY <2>1, OneSocketStep
<1> QED BY <1>1, <1>2, PTL DEF Spec

(* The worker thread never blocks in recv() on a descriptor that has       *)
(* nothing to read (tcp_session.cpp:44-61), for any number of sessions,    *)
(* unless a close was lost or never sent.                                  *)
THEOREM WorkerSafe == Spec => []WorkerNotStuck
<1>1. TunnelInv => WorkerNotStuck
  BY DEF TunnelInv, OneSocket, WorkerNotStuck
<1> QED BY <1>1, TunnelInvariant, PTL

-----------------------------------------------------------------------------
(* A sequence t of which s is left when some of it is left out, as by a    *)
(* receiver, by loss and by a restart.                                     *)
Keeps(t, s, h) ==
  /\ h \in [DOMAIN t -> DOMAIN s]
  /\ \A i, k \in DOMAIN t : i < k => h[i] < h[k]
  /\ \A i \in DOMAIN t : t[i] = s[h[i]]

PartOf(t, s) == \E h : Keeps(t, s, h)

(* Elements of a sequence, functions that are sequences, and leaving out   *)
(* nothing, everything, an end or one element.                             *)
LEMMA ElementIn ==
  ASSUME NEW S, NEW s \in Seq(S), NEW i \in DOMAIN s
  PROVE  s[i] \in S
  OBVIOUS

LEMMA FunctionSeq ==
  ASSUME NEW S, NEW n \in Nat, NEW s \in [1 .. n -> S]
  PROVE  s \in Seq(S) /\ Len(s) = n
  OBVIOUS

LEMMA WholePart == ASSUME NEW s PROVE PartOf(s, s)
<1> DEFINE h == [i \in DOMAIN s |-> i]
<1>1. Keeps(s, s, h)
  BY DEF Keeps
<1> QED
  BY <1>1 DEF PartOf

LEMMA EmptyPart == ASSUME NEW s PROVE PartOf(<<>>, s)
<1> DEFINE h == [i \in DOMAIN <<>> |-> i]
<1>1. Keeps(<<>>, s, h)
  BY DEF Keeps
<1> QED
  BY <1>1 DEF PartOf

LEMMA SubSeqPart ==
  ASSUME NEW S, NEW s \in Seq(S), NEW m \in Nat, NEW n \in Nat, n <= Len(s), m >= 1
  PROVE  PartOf(SubSeq(s, m, n), s)
<1> DEFINE t == SubSeq(s, m, n)
           h == [i \in DOMAIN t |-> i + (m - 1)]
<1>1. Len(s) \in Nat /\ DOMAIN s = 1 .. Len(s)
  OBVIOUS
<1>2. \A i \in m .. n : i \in 1 .. Len(s) /\ s[i] \in S
  BY <1>1
<1>3. /\ DOMAIN t = 1 .. (IF m <= n THEN (n - m) + 1 ELSE 0)
      /\ \A i \in DOMAIN t : t[i] = s[i + (m - 1)]
  OBVIOUS
<1> HIDE DEF t
<1>4. \A i \in DOMAIN t : i + (m - 1) \in 1 .. Len(s)
  BY <1>1, <1>3
<1>5. Keeps(t, s, h)
  BY <1>1, <1>3, <1>4 DEF Keeps
<1>6. PartOf(t, s)
  <2> HIDE DEF h
  <2> QED
    BY <1>5 DEF PartOf
<1> QED
  BY <1>6 DEF t

LEMMA TailPart ==
  ASSUME NEW S, NEW s \in Seq(S), s # <<>>
  PROVE  PartOf(Tail(s), s)
<1>1. Tail(s) = SubSeq(s, 2, Len(s)) /\ Len(s) \in Nat
  OBVIOUS
<1>2. 2 \in Nat /\ 2 >= 1 /\ Len(s) <= Len(s)
  BY <1>1
<1>3. PartOf(SubSeq(s, 2, Len(s)), s)
  BY <1>1, <1>2, SubSeqPart
<1> QED
  BY <1>1, <1>3

LEMMA RemovedPart ==
  ASSUME NEW S, NEW s \in Seq(S), NEW n \in DOMAIN s
  PROVE  PartOf(RemoveAt(s, n), s)
<1> DEFINE t == RemoveAt(s, n)
           h == [i \in DOMAIN t |-> IF i < n THEN i ELSE i + 1]
<1>1. Len(s) \in Nat /\ DOMAIN s = 1 .. Len(s) /\ n \in 1 .. Len(s)
  OBVIOUS
<1>2. /\ DOMAIN t = 1 .. (Len(s) - 1)
      /\ \A i \in DOMAIN t : t[i] = s[IF i < n THEN i ELSE i + 1]
  <2> DEFINE a == SubSeq(s, 1, n - 1)
             b == SubSeq(s, n + 1, Len(s))
  <2>1. /\ a \in Seq(S) /\ Len(a) = n - 1
        /\ \A i \in 1 .. (n - 1) : a[i] = s[i]
    BY <1>1
  <2>2. /\ b \in Seq(S) /\ Len(b) = Len(s) - n
        /\ \A i \in 1 .. (Len(s) - n) : b[i] = s[i + n]
    BY <1>1
  <2> HIDE DEF a, b
  <2>3. /\ Len(a \o b) = Len(s) - 1 /\ a \o b \in Seq(S)
        /\ \A i \in 1 .. Len(s) - 1 : (a \o b)[i] = IF i <= n - 1 THEN a[i] ELSE b[i - (n - 1)]
    <3>1. /\ a \o b \in Seq(S) /\ Len(a \o b) = Len(a) + Len(b)
          /\ \A i \in 1 .. Len(a) + Len(b) :
               (a \o b)[i] = IF i <= Len(a) THEN a[i] ELSE b[i - Len(a)]
      BY <2>1, <2>2, ConcatProperties
    <3>2. Len(a) = n - 1 /\ Len(a) + Len(b) = Len(s) - 1
      BY <1>1, <2>1, <2>2
    <3> QED
      BY <3>1, <3>2
  <2>4. t = a \o b
    BY DEF RemoveAt, a, b
  <2>5. ASSUME NEW i \in 1 .. Len(s) - 1
        PROVE  (a \o b)[i] = s[IF i < n THEN i ELSE i + 1]
    <3>1. CASE i < n
      <4>1. i <= n - 1 /\ i \in 1 .. n - 1
        BY <1>1, <3>1
      <4> QED
        BY <2>1, <2>3, <3>1, <4>1
    <3>2. CASE ~(i < n)
      <4>1. ~(i <= n - 1) /\ i - (n - 1) \in 1 .. (Len(s) - n) /\ (i - (n - 1)) + n = i + 1
        BY <1>1, <3>2
      <4>2. (a \o b)[i] = b[i - (n - 1)]
        BY <2>3, <4>1
      <4>3. b[i - (n - 1)] = s[i + 1]
        BY <2>2, <4>1
      <4> QED
        BY <3>2, <4>2, <4>3
    <3> QED
      BY <3>1, <3>2
  <2>6. DOMAIN (a \o b) = 1 .. (Len(s) - 1)
    BY <2>3
  <2> HIDE DEF t
  <2> QED
    BY <2>4, <2>5, <2>6
<1> HIDE DEF t
<1>3. \A i \in DOMAIN t : i \in Int /\ (IF i < n THEN i ELSE i + 1) \in DOMAIN s
  BY <1>1, <1>2
<1>4. \A i, k \in DOMAIN t : i < k => (IF i < n THEN i ELSE i + 1) < (IF k < n THEN k ELSE k + 1)
  BY <1>1, <1>3
<1>5. Keeps(t, s, h)
  BY <1>2, <1>3, <1>4 DEF Keeps
<1>6. PartOf(t, s)
  <2> HIDE DEF h
  <2> QED
    BY <1>5 DEF PartOf
<1> QED
  BY <1>6 DEF t

-----------------------------------------------------------------------------
(* The client's direction.                                                 *)
IsSend(frame) == frame.type = "send"

(* The slices on the line s are slices that were sent, in their order, and *)
(* later than those that have arrived.                                     *)
SendsSent(s, top) == \A i \in DOMAIN s : IsSend(s[i]) => \E n \in 1 .. top : s[i] = TCP_SEND(n)
(* The slices on the line are sent ones, rise, and are later than          *)
(* everything that has arrived, which rises as well.                       *)
SendsRise(s) ==
  \A i, k \in DOMAIN s : i < k /\ IsSend(s[i]) /\ IsSend(s[k]) => s[i].data[1] < s[k].data[1]
SendsLater(s, a) ==
  \A i \in DOMAIN a, k \in DOMAIN s : IsSend(s[k]) => a[i].n < s[k].data[1]
ArrivedInOrder(a) == \A i, k \in DOMAIN a : i < k => a[i].n < a[k].n

UpInv ==
  /\ arrived \in Seq([n : 1 .. sends, fd : 1 .. used])
  /\ SendsSent(toProxy, sends) /\ SendsRise(toProxy) /\ SendsLater(toProxy, arrived)
  /\ ArrivedInOrder(arrived)

(* What the line keeps when frames are left out. *)
LEMMA LessOnTheLine ==
  ASSUME NEW s, NEW t, NEW top, NEW a, PartOf(t, s),
         SendsSent(s, top), SendsRise(s), SendsLater(s, a)
  PROVE  SendsSent(t, top) /\ SendsRise(t) /\ SendsLater(t, a)
<1>1. PICK h : Keeps(t, s, h)
  BY DEF PartOf
<1>2. SendsSent(t, top)
  BY <1>1 DEF Keeps, SendsSent
<1>3. SendsRise(t)
  BY <1>1 DEF Keeps, SendsRise
<1>4. SendsLater(t, a)
  BY <1>1 DEF Keeps, SendsLater
<1> QED
  BY <1>2, <1>3, <1>4

(* What a frame that is no slice, the next slice, and the delivery of the  *)
(* first frame do to the client's direction.                               *)
LEMMA OtherFrame ==
  ASSUME NEW s \in Seq(Frame), NEW frame \in Frame, NEW top, NEW a, ~IsSend(frame),
         SendsSent(s, top), SendsRise(s), SendsLater(s, a)
  PROVE  LET t == Append(s, frame)
         IN  SendsSent(t, top) /\ SendsRise(t) /\ SendsLater(t, a)
<1> DEFINE t == Append(s, frame)
           last == Len(s) + 1
<1>1. /\ \A i \in DOMAIN t : i \in DOMAIN s \/ i = last
      /\ \A i \in DOMAIN s : t[i] = s[i]
      /\ t[last] = frame
  OBVIOUS
<1> HIDE DEF t, last
<1>2. SendsSent(t, top)
  BY <1>1 DEF SendsSent
<1>3. SendsRise(t)
  BY <1>1 DEF SendsRise
<1>4. SendsLater(t, a)
  BY <1>1 DEF SendsLater
<1> QED
  BY <1>2, <1>3, <1>4 DEF t

LEMMA NextSlice ==
  ASSUME NEW s \in Seq(Frame), NEW top \in Nat,
         NEW U, NEW a \in Seq([n : 1 .. top, fd : U]),
         SendsSent(s, top), SendsRise(s), SendsLater(s, a)
  PROVE  LET t == Append(s, TCP_SEND(top + 1))
         IN  SendsSent(t, top + 1) /\ SendsRise(t) /\ SendsLater(t, a)
<1> DEFINE frame == TCP_SEND(top + 1)
           t == Append(s, frame)
           last == Len(s) + 1
<1>1. /\ \A i \in DOMAIN t : i \in DOMAIN s \/ i = last
      /\ \A i \in DOMAIN s : t[i] = s[i] /\ i < last
      /\ DOMAIN s \subseteq Int /\ last \in Int
      /\ t[last] = frame
  OBVIOUS
<1>2. IsSend(frame) /\ frame.data[1] = top + 1
  BY DEF IsSend, TCP_SEND
<1>3. \A n \in 1 .. top : n \in 1 .. top + 1 /\ n < top + 1
  OBVIOUS
<1>4. \A n : TCP_SEND(n).data[1] = n
  BY DEF TCP_SEND
<1> HIDE DEF t, last
<1>5. SendsSent(t, top + 1)
  <2>1. top + 1 \in 1 .. top + 1
    OBVIOUS
  <2> QED
    BY <1>1, <1>3, <2>1 DEF SendsSent
<1> HIDE DEF frame
<1>6. ASSUME NEW i \in DOMAIN t, NEW k \in DOMAIN t, i < k, IsSend(t[i]), IsSend(t[k])
      PROVE  t[i].data[1] < t[k].data[1]
  <2>1. i \in DOMAIN s /\ t[i] = s[i] /\ i < last
    <3>1. i \in Int /\ k \in Int /\ last \in Int /\ (k = last \/ k < last)
      BY <1>1
    <3>2. i # last
      BY <1>6, <3>1
    <3> QED
      BY <1>1, <3>2
  <2>2. CASE k \in DOMAIN s
    BY <1>1, <1>6, <2>1, <2>2 DEF SendsRise
  <2>3. CASE k = last
    <3>1. PICK n \in 1 .. top : s[i] = TCP_SEND(n)
      BY <1>6, <2>1 DEF SendsSent
    <3>2. t[i].data[1] = n
      BY <1>4, <2>1, <3>1
    <3>3. t[k].data[1] = top + 1
      BY <1>1, <1>2, <2>3
    <3> QED
      BY <1>3, <3>2, <3>3
  <2> QED
    BY <1>1, <2>2, <2>3
<1>7. SendsRise(t)
  BY <1>6 DEF SendsRise
<1>8. SendsLater(t, a)
  <2>1. ASSUME NEW i \in DOMAIN a PROVE a[i].n < top + 1
    <3>1. a[i] \in [n : 1 .. top, fd : U]
      BY ElementIn
    <3>2. a[i].n \in 1 .. top
      BY <3>1
    <3> QED
      BY <1>3, <3>2
  <2> QED
    BY <1>1, <1>2, <2>1 DEF SendsLater
<1> QED
  BY <1>5, <1>7, <1>8 DEF t, frame

LEMMA SliceArrives ==
  ASSUME NEW s \in Seq(Frame), s # <<>>, IsSend(Head(s)), NEW top \in Nat,
         NEW U, NEW a \in Seq([n : 1 .. top, fd : U]), NEW fd \in U,
         SendsSent(s, top), SendsRise(s), SendsLater(s, a), ArrivedInOrder(a)
  PROVE  LET b == Append(a, [n |-> Head(s).data[1], fd |-> fd])
         IN  /\ b \in Seq([n : 1 .. top, fd : U])
             /\ SendsLater(Tail(s), b) /\ ArrivedInOrder(b)
<1> DEFINE n == Head(s).data[1]
           e == [n |-> n, fd |-> fd]
           b == Append(a, e)
           last == Len(a) + 1
           t == Tail(s)
<1>1. /\ \A i \in DOMAIN b : i \in DOMAIN a \/ i = last
      /\ \A i \in DOMAIN a : b[i] = a[i] /\ i < last
      /\ DOMAIN a \subseteq Int /\ last \in Int
      /\ b[last] = e
  OBVIOUS
<1>2. /\ 1 \in DOMAIN s /\ Head(s) = s[1]
      /\ \A k \in DOMAIN t : k + 1 \in DOMAIN s /\ 1 < k + 1 /\ t[k] = s[k + 1]
  OBVIOUS
<1>3. n \in 1 .. top
  <2>1. PICK m \in 1 .. top : s[1] = TCP_SEND(m)
    BY <1>2 DEF SendsSent
  <2> QED
    BY <1>2, <2>1 DEF TCP_SEND
<1>4. b \in Seq([n : 1 .. top, fd : U])
  BY <1>3
<1>5. e.n = n
  OBVIOUS
<1>6. IsSend(s[1]) /\ n = s[1].data[1]
  BY <1>2
<1> HIDE DEF b, last, t, e, n
<1>7. \A i \in DOMAIN a : a[i].n < n
  BY <1>2, <1>6 DEF SendsLater
<1>8. SendsLater(t, b)
  <2>1. \A k \in DOMAIN t : IsSend(t[k]) => n < t[k].data[1]
    BY <1>2, <1>6 DEF SendsRise
  <2>2. ASSUME NEW i \in DOMAIN b, NEW k \in DOMAIN t, IsSend(t[k]) PROVE b[i].n < t[k].data[1]
    <3>1. CASE i = last
      BY <1>1, <1>5, <2>1, <2>2, <3>1
    <3>2. CASE i \in DOMAIN a
      BY <1>1, <1>2, <2>2, <3>2 DEF SendsLater
    <3> QED
      BY <1>1, <3>1, <3>2
  <2> QED
    BY <2>2 DEF SendsLater
<1>9. ArrivedInOrder(b)
  <2>1. ASSUME NEW i \in DOMAIN b, NEW k \in DOMAIN b, i < k PROVE b[i].n < b[k].n
    <3>1. i \in DOMAIN a
      <4>1. i \in Int /\ k \in Int /\ last \in Int /\ (k = last \/ k < last)
        BY <1>1
      <4>2. i # last
        BY <2>1, <4>1
      <4> QED
        BY <1>1, <4>2
    <3>2. CASE k = last
      BY <1>1, <1>5, <1>7, <3>1, <3>2
    <3>3. CASE k \in DOMAIN a
      BY <1>1, <2>1, <3>1, <3>3 DEF ArrivedInOrder
    <3> QED
      BY <1>1, <3>2, <3>3
  <2> QED
    BY <2>1 DEF ArrivedInOrder
<1> QED
  BY <1>4, <1>8, <1>9 DEF b, e, n, t

-----------------------------------------------------------------------------
(* What a step may do with the client's direction: leave out frames,       *)
(* append a frame that is no slice, append the next slice, or deliver the   *)
(* first one.                                                              *)
LeavesOut == PartOf(toProxy', toProxy) /\ UNCHANGED <<sends, arrived>> /\ used <= used'
(* A frame that is no slice, the next slice, and a delivery to the router. *)
SendsOther ==
  /\ \E frame \in Frame : ~IsSend(frame) /\ toProxy' = Append(toProxy, frame)
  /\ UNCHANGED <<sends, arrived, used>>
SendsNext ==
  /\ sends' = sends + 1 /\ toProxy' = Append(toProxy, TCP_SEND(sends + 1))
  /\ UNCHANGED <<arrived, used>>
Arrives ==
  /\ toProxy # <<>> /\ IsSend(Head(toProxy)) /\ toProxy' = Tail(toProxy)
  /\ _socket \in 1 .. used
  /\ arrived' = Append(arrived, [n |-> Head(toProxy).data[1], fd |-> _socket])
  /\ UNCHANGED <<sends, used>>

(* Every step of the tunnel is one of these four. *)
LEMMA UpSteps ==
  ASSUME TypeOK, Next PROVE LeavesOut \/ SendsOther \/ SendsNext \/ Arrives
<1>0. used \in Nat /\ used <= used /\ toProxy \in Seq(Frame)
  BY TunnelAssumption DEF TunnelAssumption, TypeOK
<1>1. CASE UNCHANGED <<toProxy, sends, arrived>> /\ used <= used'
  BY <1>1, WholePart DEF LeavesOut
<1>2. CASE Client
  <2>1. UNCHANGED <<used, arrived>>
    BY <1>2 DEF Client, ClientOpen, ClientClose, ClientSend, ClientRecv, HandleFrame, RecvReturns,
                tcp, router
  <2>2. CASE ClientOpen
    <3>1. TCP_OPEN(session + 1) \in Frame /\ ~IsSend(TCP_OPEN(session + 1))
      BY FrameTypes DEF TypeOK, TCP_OPEN, IsSend
    <3> QED
      BY <2>1, <2>2, <3>1 DEF ClientOpen, SendFrame, SendsOther
  <2>3. CASE ClientClose
    <3>1. TCP_CLOSE \in Frame /\ ~IsSend(TCP_CLOSE)
      BY FrameTypes DEF TCP_CLOSE, IsSend
    <3> QED
      BY <2>1, <2>3, <3>1 DEF ClientClose, SendFrame, SendsOther
  <2>4. CASE ClientSend
    BY <2>1, <2>4 DEF ClientSend, SendFrame, SendsNext
  <2>5. CASE HandleFrame \/ RecvReturns \/ \E k \in Wants : ClientRecv(k)
    <3>1. UNCHANGED <<toProxy, sends, arrived>> /\ used' = used
      BY <2>5 DEF ClientRecv, HandleFrame, RecvReturns, tcp, router
    <3> QED
      BY <1>0, <1>1, <3>1
  <2> QED
    BY <1>2, <2>2, <2>3, <2>4, <2>5 DEF Client
<1>3. CASE HandleSerial
  <2>1. toProxy # <<>> /\ toProxy' = Tail(toProxy) /\ sends' = sends
    BY <1>3 DEF HandleSerial, HandleOpen, HandleClose, HandleSend, Serial_incoming, client
  <2>2. PartOf(toProxy', toProxy)
    BY <1>0, <2>1, TailPart
  <2>3. ASSUME NEW ok \in BOOLEAN, HandleOpen(ok) PROVE LeavesOut
    <3>1. arrived' = arrived
      BY <2>3 DEF HandleOpen, router
    <3>2. PICK created \in BOOLEAN : OpenTxSession(ok, created)
      BY <2>3 DEF HandleOpen, Connect
    <3>3. used <= used'
      BY <3>2, OpenTxType
    <3> QED
      BY <2>1, <2>2, <3>1, <3>3 DEF LeavesOut
  <2>4. CASE HandleClose
    <3>1. arrived' = arrived /\ used' = used
      BY <2>4 DEF HandleClose, Disconnect, router
    <3> QED
      BY <1>0, <2>1, <2>2, <3>1 DEF LeavesOut
  <2>5. CASE HandleSend
    <3>1. used' = used /\ IsSend(Head(toProxy))
      BY <2>5 DEF HandleSend, Serial_incoming, IsSend
    <3>2. CASE _socket \in Fds /\ state[_socket] = "open" /\ peer[_socket] = "up"
      <4>1. _socket \in 1 .. used
        BY <3>2 DEF TypeOK, Fds, Serial, NoFd
      <4>2. arrived' = Append(arrived, [n |-> Head(toProxy).data[1], fd |-> _socket])
        BY <2>5, <3>2 DEF HandleSend
      <4> QED
        BY <2>1, <3>1, <4>1, <4>2 DEF Arrives
    <3>3. CASE ~(_socket \in Fds /\ state[_socket] = "open" /\ peer[_socket] = "up")
      <4>1. arrived' = arrived
        BY <2>5, <3>3 DEF HandleSend
      <4> QED
        BY <1>0, <2>1, <2>2, <3>1, <4>1 DEF LeavesOut
    <3> QED
      BY <3>2, <3>3
  <2> QED
    BY <1>3, <2>3, <2>4, <2>5 DEF HandleSerial
<1>4. CASE RecvUnblocked \/ \E f \in Fds : Invoke(f) \/ OnError(f)
  <2>1. UNCHANGED <<toProxy, sends, arrived>> /\ used' = used
    BY <1>4 DEF RecvUnblocked, Invoke, OnError, RecvResult, Disconnect, client, router
  <2> QED
    BY <1>0, <1>1, <2>1
<1>5. CASE Router
  <2>1. UNCHANGED <<toProxy, sends, arrived>> /\ used' = used
    BY <1>5 DEF Router, RouterWrite, RouterEnds, client, tcp
  <2> QED
    BY <1>0, <1>1, <2>1
<1>6. CASE Lose
  <2>1. UNCHANGED <<sends, arrived>> /\ used' = used
    BY <1>6 DEF Lose, client, tcp, router
  <2>2. PartOf(toProxy', toProxy)
    BY <1>0, <1>6, WholePart, RemovedPart DEF Lose
  <2> QED
    BY <1>0, <2>1, <2>2 DEF LeavesOut
<1>7. CASE ClientRestart
  <2>1. UNCHANGED <<toProxy, sends, arrived>> /\ used' = used
    BY <1>7 DEF ClientRestart, tcp, router
  <2> QED
    BY <1>0, <1>1, <2>1
<1>8. CASE ProxyRestart
  <2>1. UNCHANGED <<sends, arrived>> /\ used' = used
    BY <1>8 DEF ProxyRestart, client, router
  <2>2. PICK n \in 0 .. Len(toProxy) : toProxy' = SubSeq(toProxy, n + 1, Len(toProxy))
    BY <1>8 DEF ProxyRestart
  <2>3. n + 1 \in Nat /\ n + 1 >= 1 /\ Len(toProxy) \in Nat /\ Len(toProxy) <= Len(toProxy)
    BY <1>0
  <2>4. PartOf(SubSeq(toProxy, n + 1, Len(toProxy)), toProxy)
    BY <1>0, <2>3, SubSeqPart
  <2>5. PartOf(toProxy', toProxy)
    BY <2>2, <2>4
  <2> QED
    BY <1>0, <2>1, <2>5 DEF LeavesOut
<1> QED
  BY <1>2, <1>3, <1>4, <1>5, <1>6, <1>7, <1>8 DEF Next, OpenAborts, Worker

(* The types only grow. *)
LEMMA MoreSockets ==
  ASSUME NEW S \in Nat, NEW T \in Nat, NEW u \in Nat, NEW v \in Nat, S <= T, u <= v,
         NEW a \in Seq([n : 1 .. S, fd : 1 .. u])
  PROVE  a \in Seq([n : 1 .. T, fd : 1 .. v])
<1>1. 1 .. S \subseteq 1 .. T /\ 1 .. u \subseteq 1 .. v
  OBVIOUS
<1>2. [n : 1 .. S, fd : 1 .. u] \subseteq [n : 1 .. T, fd : 1 .. v]
  BY <1>1
<1> QED
  BY <1>2, SeqMonotonic

(* Each of the four keeps the order. *)
LEMMA UpStep == TypeOK /\ TypeOK' /\ UpInv /\ Next => UpInv'
<1> SUFFICES ASSUME TypeOK, TypeOK', UpInv, Next PROVE UpInv'
  OBVIOUS
<1>1. /\ toProxy \in Seq(Frame) /\ sends \in Nat /\ used \in Nat /\ used' \in Nat
  BY TunnelAssumption DEF TunnelAssumption, TypeOK
<1>2. /\ arrived \in Seq([n : 1 .. sends, fd : 1 .. used])
      /\ SendsSent(toProxy, sends) /\ SendsRise(toProxy) /\ SendsLater(toProxy, arrived)
      /\ ArrivedInOrder(arrived)
  BY DEF UpInv
<1>3. CASE LeavesOut
  <2>1. /\ SendsSent(toProxy', sends) /\ SendsRise(toProxy') /\ SendsLater(toProxy', arrived)
    BY <1>2, <1>3, LessOnTheLine DEF LeavesOut
  <2>2. arrived \in Seq([n : 1 .. sends, fd : 1 .. used'])
    <3>1. used <= used' /\ sends <= sends
      BY <1>1, <1>3 DEF LeavesOut
    <3> QED
      BY <1>1, <1>2, <3>1, MoreSockets
  <2>3. sends' = sends /\ arrived' = arrived
    BY <1>3 DEF LeavesOut
  <2> QED
    BY <1>2, <2>1, <2>2, <2>3 DEF UpInv
<1>4. CASE SendsOther
  <2>1. PICK frame \in Frame : ~IsSend(frame) /\ toProxy' = Append(toProxy, frame)
    BY <1>4 DEF SendsOther
  <2>2. /\ SendsSent(toProxy', sends) /\ SendsRise(toProxy') /\ SendsLater(toProxy', arrived)
    BY <1>1, <1>2, <2>1, OtherFrame
  <2>3. sends' = sends /\ arrived' = arrived /\ used' = used
    BY <1>4 DEF SendsOther
  <2> QED
    BY <1>2, <2>2, <2>3 DEF UpInv
<1>5. CASE SendsNext
  <2>1. /\ SendsSent(toProxy', sends + 1) /\ SendsRise(toProxy') /\ SendsLater(toProxy', arrived)
    BY <1>1, <1>2, <1>5, NextSlice DEF SendsNext
  <2>2. sends + 1 \in Nat /\ sends <= sends + 1 /\ used <= used
    BY <1>1
  <2>3. arrived \in Seq([n : 1 .. sends + 1, fd : 1 .. used])
    BY <1>1, <1>2, <2>2, MoreSockets
  <2>4. sends' = sends + 1 /\ arrived' = arrived /\ used' = used
    BY <1>5 DEF SendsNext
  <2> QED
    BY <1>2, <2>1, <2>3, <2>4 DEF UpInv
<1>6. CASE Arrives
  <2>1. /\ toProxy # <<>> /\ IsSend(Head(toProxy)) /\ toProxy' = Tail(toProxy)
        /\ _socket \in 1 .. used
        /\ arrived' = Append(arrived, [n |-> Head(toProxy).data[1], fd |-> _socket])
        /\ sends' = sends /\ used' = used
    BY <1>6 DEF Arrives
  <2>2. /\ arrived' \in Seq([n : 1 .. sends, fd : 1 .. used])
        /\ SendsLater(toProxy', arrived') /\ ArrivedInOrder(arrived')
    BY <1>1, <1>2, <2>1, SliceArrives
  <2>3. SendsSent(toProxy', sends) /\ SendsRise(toProxy')
    BY <1>1, <1>2, <2>1, TailPart, LessOnTheLine
  <2> QED
    BY <2>1, <2>2, <2>3 DEF UpInv
<1> QED
  BY <1>3, <1>4, <1>5, <1>6, UpSteps

(* The slices on the line to the proxy and those that have reached the     *)
(* router are in the order in which they were sent (unix_serial.cpp:268).  *)
LEMMA UpInvariant == Spec => []UpInv
<1>1. Init => UpInv
  <2> SUFFICES ASSUME Init PROVE UpInv
    OBVIOUS
  <2>1. arrived = <<>> /\ toProxy = <<>>
    BY DEF Init
  <2> QED
    BY <2>1 DEF UpInv, SendsSent, SendsRise, SendsLater, ArrivedInOrder
<1>2. TypeOK /\ TypeOK' /\ UpInv /\ [Next]_vars => UpInv'
  <2> SUFFICES ASSUME TypeOK, TypeOK', UpInv, [Next]_vars PROVE UpInv'
    OBVIOUS
  <2>1. CASE UNCHANGED vars
    BY <2>1 DEF vars, client, tcp, router, UpInv
  <2> QED
    BY <2>1, UpStep
<1> QED
  BY <1>1, <1>2, TunnelTypes, PTL DEF Spec

(* Towards the router: a step is one of the abstract stream, or none. *)
LEMMA UpRefines ==
  TypeOK /\ UpInv /\ UpInv' /\ [Next]_vars
    => [Up!SSend \/ Up!SDeliver]_<<sends, [i \in DOMAIN arrived |-> arrived[i].n]>>
<1> SUFFICES ASSUME TypeOK, UpInv, UpInv', [Next]_vars
             PROVE  \/ Up!SSend \/ Up!SDeliver
                    \/ UNCHANGED <<sends, [i \in DOMAIN arrived |-> arrived[i].n]>>
  OBVIOUS
<1>1. CASE UNCHANGED <<sends, arrived>>
  BY <1>1
<1>2. CASE UNCHANGED vars
  BY <1>1, <1>2 DEF vars, client, router
<1>3. CASE LeavesOut \/ SendsOther
  BY <1>1, <1>3 DEF LeavesOut, SendsOther
<1>4. CASE SendsNext
  BY <1>4 DEF SendsNext, Up!SSend
<1>5. CASE Arrives
  <2> DEFINE e == [n |-> Head(toProxy).data[1], fd |-> _socket]
             old == [i \in DOMAIN arrived |-> arrived[i].n]
             new == [i \in DOMAIN arrived' |-> arrived'[i].n]
             N == Len(arrived)
  <2>1. arrived' = Append(arrived, e) /\ sends' = sends
    BY <1>5 DEF Arrives
  <2>2. arrived \in Seq([n : 1 .. sends, fd : 1 .. used]) /\ N \in Nat /\ DOMAIN arrived = 1 .. N
    BY DEF UpInv
  <2>3. DOMAIN arrived' = 1 .. (N + 1) /\ \A i \in 1 .. N : arrived'[i] = arrived[i]
    BY <2>1, <2>2
  <2>4. /\ \A i \in DOMAIN arrived' : arrived'[i].n \in 1 .. sends
        /\ ArrivedInOrder(arrived')
    <3>1. arrived' \in Seq([n : 1 .. sends', fd : 1 .. used']) /\ ArrivedInOrder(arrived')
      BY DEF UpInv
    <3>2. \A i \in DOMAIN arrived' : arrived'[i] \in [n : 1 .. sends', fd : 1 .. used']
      BY <3>1, ElementIn
    <3> QED
      BY <2>1, <3>1, <3>2
  <2> HIDE DEF N
  <2>5. /\ old \in Seq(Nat) /\ Len(old) = N /\ new \in Seq(Nat) /\ Len(new) = N + 1
        /\ \A i \in 1 .. N : new[i] = old[i]
        /\ \A i \in DOMAIN new : new[i] \in 1 .. sends
    <3>1. \A i \in 1 .. N : arrived[i].n \in Nat /\ i \in 1 .. N + 1
      BY <2>2, <2>3, <2>4
    <3>2. \A i \in 1 .. N + 1 : arrived'[i].n \in Nat
      BY <2>3, <2>4
    <3>3. old \in Seq(Nat) /\ Len(old) = N
      <4>1. old = [i \in 1 .. N |-> arrived[i].n]
        BY <2>2
      <4>2. [i \in 1 .. N |-> arrived[i].n] \in [1 .. N -> Nat]
        BY <3>1
      <4> HIDE DEF old
      <4> QED
        BY <2>2, <4>1, <4>2, FunctionSeq
    <3>4. new \in Seq(Nat) /\ Len(new) = N + 1
      <4>1. new = [i \in 1 .. N + 1 |-> arrived'[i].n]
        BY <2>3
      <4> HIDE DEF new
      <4>2. N + 1 \in Nat
        BY <2>2
      <4> QED
        BY <3>2, <4>1, <4>2
    <3>5. \A i \in 1 .. N : new[i] = old[i]
      BY <2>2, <2>3, <3>1
    <3>6. \A i \in DOMAIN new : new[i] \in 1 .. sends
      BY <2>4
    <3> QED
      BY <3>3, <3>4, <3>5, <3>6
  <2>6. Up!Ascending(new)
    BY <2>4 DEF ArrivedInOrder, Up!Ascending
  <2> HIDE DEF new, old
  <2>7. SubSeq(new, 1, N) = old
    BY <2>2, <2>5
  <2>8. Len(new) > Len(old)
    BY <2>2, <2>5
  <2>9. SubSeq(new, 1, Len(old)) = old
    BY <2>5, <2>7
  <2> QED
    BY <2>1, <2>5, <2>6, <2>8, <2>9 DEF Up!SDeliver, new, old
<1> QED
  BY <1>2, <1>3, <1>4, <1>5, UpSteps

-----------------------------------------------------------------------------
(* The router's direction: sequences of slices and header bytes of which   *)
(* the slices rise, and one that precedes another.                         *)
Rising(s) == \A i, k \in DOMAIN s : i < k /\ s[i] # Header /\ s[k] # Header => s[i] < s[k]
Below(s, t) == \A i \in DOMAIN s, k \in DOMAIN t : s[i] # Header /\ t[k] # Header => s[i] < t[k]

(* Leaving out slices keeps the order, within a sequence and between two. *)
LEMMA PartRises == ASSUME NEW s, NEW t, PartOf(t, s), Rising(s) PROVE Rising(t)
<1>1. PICK h : Keeps(t, s, h)
  BY DEF PartOf
<1> QED
  BY <1>1 DEF Keeps, Rising

LEMMA PartBelow ==
  ASSUME NEW s, NEW t, NEW u, NEW v, PartOf(t, s), PartOf(v, u), Below(s, u)
  PROVE  Below(t, v)
<1>1. PICK h : Keeps(t, s, h)
  BY DEF PartOf
<1>2. PICK g : Keeps(v, u, g)
  BY DEF PartOf
<1> QED
  BY <1>1, <1>2 DEF Keeps, Below

LEMMA NothingBelow == ASSUME NEW s PROVE Below(s, <<>>) /\ Below(<<>>, s) /\ Rising(<<>>)
  BY DEF Below, Rising

(* Positions in s \o t. *)
LEMMA InConcat ==
  ASSUME NEW s \in Seq(Nat), NEW t \in Seq(Nat)
  PROVE  /\ s \o t \in Seq(Nat) /\ Len(s \o t) = Len(s) + Len(t)
         /\ \A i \in DOMAIN s : i \in DOMAIN (s \o t) /\ (s \o t)[i] = s[i]
         /\ \A i \in DOMAIN (s \o t) :
              \/ i \in DOMAIN s /\ (s \o t)[i] = s[i]
              \/ i - Len(s) \in DOMAIN t /\ (s \o t)[i] = t[i - Len(s)]
         /\ DOMAIN s \subseteq 1 .. Len(s) /\ DOMAIN t \subseteq 1 .. Len(t)
         /\ Len(s) \in Nat /\ DOMAIN (s \o t) \subseteq Int
<1>1. /\ Len(s) \in Nat /\ Len(t) \in Nat /\ DOMAIN s = 1 .. Len(s) /\ DOMAIN t = 1 .. Len(t)
  OBVIOUS
<1>2. /\ s \o t \in Seq(Nat) /\ Len(s \o t) = Len(s) + Len(t)
      /\ \A i \in 1 .. Len(s) + Len(t) :
           (s \o t)[i] = IF i <= Len(s) THEN s[i] ELSE t[i - Len(s)]
  BY ConcatProperties
<1>3. DOMAIN (s \o t) = 1 .. Len(s) + Len(t)
  BY <1>2
<1>4. ASSUME NEW i \in DOMAIN s PROVE i \in DOMAIN (s \o t) /\ (s \o t)[i] = s[i]
  BY <1>1, <1>2, <1>3
<1>5. ASSUME NEW i \in DOMAIN (s \o t)
      PROVE  \/ i \in DOMAIN s /\ (s \o t)[i] = s[i]
             \/ i - Len(s) \in DOMAIN t /\ (s \o t)[i] = t[i - Len(s)]
  BY <1>1, <1>2, <1>3
<1> QED
  BY <1>1, <1>2, <1>3, <1>4, <1>5

(* Concatenation: its parts, and its order. *)
LEMMA ConcatPart ==
  ASSUME NEW s \in Seq(Nat), NEW t \in Seq(Nat) PROVE PartOf(s, s \o t)
<1> DEFINE h == [i \in DOMAIN s |-> i]
<1>1. Keeps(s, s \o t, h)
  BY InConcat DEF Keeps
<1> QED
  BY <1>1 DEF PartOf

LEMMA ConcatRises ==
  ASSUME NEW s \in Seq(Nat), NEW t \in Seq(Nat), Rising(s), Rising(t), Below(s, t)
  PROVE  Rising(s \o t)
<1> DEFINE u == s \o t
<1>1. /\ \A i \in DOMAIN u : \/ i \in DOMAIN s /\ u[i] = s[i]
                             \/ i - Len(s) \in DOMAIN t /\ u[i] = t[i - Len(s)]
      /\ DOMAIN s \subseteq 1 .. Len(s) /\ DOMAIN t \subseteq 1 .. Len(t)
      /\ Len(s) \in Nat /\ DOMAIN u \subseteq Int
  BY InConcat
<1> HIDE DEF u
<1>2. ASSUME NEW i \in DOMAIN u, NEW k \in DOMAIN u, i < k, u[i] # Header, u[k] # Header
      PROVE  u[i] < u[k]
  <2>1. CASE i \in DOMAIN s /\ u[i] = s[i] /\ k \in DOMAIN s /\ u[k] = s[k]
    BY <1>2, <2>1 DEF Rising
  <2>2. CASE /\ i \in DOMAIN s /\ u[i] = s[i]
             /\ k - Len(s) \in DOMAIN t /\ u[k] = t[k - Len(s)]
    BY <1>2, <2>2 DEF Below
  <2>3. CASE /\ i - Len(s) \in DOMAIN t /\ u[i] = t[i - Len(s)]
             /\ k - Len(s) \in DOMAIN t /\ u[k] = t[k - Len(s)]
    <3>1. i - Len(s) < k - Len(s)
      BY <1>1, <1>2
    <3> QED
      BY <1>2, <2>3, <3>1 DEF Rising
  <2>4. ~(i - Len(s) \in DOMAIN t /\ k \in DOMAIN s)
    BY <1>1, <1>2
  <2> QED
    BY <1>1, <2>1, <2>2, <2>3, <2>4
<1> QED
  BY <1>2 DEF Rising, u

LEMMA ConcatBelow ==
  ASSUME NEW s \in Seq(Nat), NEW t \in Seq(Nat), NEW u, Below(s, u), Below(t, u)
  PROVE  Below(s \o t, u)
<1>1. \A i \in DOMAIN (s \o t) : \/ i \in DOMAIN s /\ (s \o t)[i] = s[i]
                                 \/ i - Len(s) \in DOMAIN t /\ (s \o t)[i] = t[i - Len(s)]
  BY InConcat
<1> QED
  BY <1>1 DEF Below

(* A leading part is below the rest. *)
LEMMA SplitBelow ==
  ASSUME NEW s \in Seq(Nat), NEW n \in 0 .. Len(s), Rising(s)
  PROVE  Below(SubSeq(s, 1, n), SubSeq(s, n + 1, Len(s)))
<1> DEFINE a == SubSeq(s, 1, n)
           b == SubSeq(s, n + 1, Len(s))
<1>1. Len(s) \in Nat /\ DOMAIN s = 1 .. Len(s) /\ n \in Nat /\ n <= Len(s)
  OBVIOUS
<1>2. DOMAIN a = 1 .. n /\ \A i \in 1 .. n : a[i] = s[i]
  BY <1>1
<1>3. DOMAIN b = 1 .. (Len(s) - n) /\ \A i \in 1 .. (Len(s) - n) : b[i] = s[i + n]
  BY <1>1
<1> HIDE DEF a, b
<1>4. ASSUME NEW i \in DOMAIN a, NEW k \in DOMAIN b, a[i] # Header, b[k] # Header
      PROVE  a[i] < b[k]
  <2>1. i \in DOMAIN s /\ k + n \in DOMAIN s /\ i < k + n
    BY <1>1, <1>2, <1>3
  <2>2. a[i] = s[i] /\ b[k] = s[k + n]
    BY <1>2, <1>3
  <2> QED
    BY <1>4, <2>1, <2>2 DEF Rising
<1> QED
  BY <1>4 DEF Below, a, b

-----------------------------------------------------------------------------
(* r: what has come into the client, line: the frames on their way to it,  *)
(* x: what the proxy has yet to read from its socket.                      *)
Orderly(r, line, x) ==
  /\ Rising(r) /\ Rising(x) /\ Below(r, x)
  /\ \A i \in DOMAIN line :
       /\ Rising(line[i].data) /\ Below(r, line[i].data) /\ Below(line[i].data, x)
       /\ \A k \in DOMAIN line : i < k => Below(line[i].data, line[k].data)

(* Anything may be left out. *)
LEMMA OrderlyLoss ==
  ASSUME NEW r, NEW line, NEW x, Orderly(r, line, x),
         NEW p, NEW rest, NEW y, PartOf(p, r), PartOf(rest, line), PartOf(y, x)
  PROVE  Orderly(p, rest, y)
<1>1. PICK h : Keeps(rest, line, h)
  BY DEF PartOf
<1>2. Rising(p) /\ Rising(y) /\ Below(p, y)
  BY PartRises, PartBelow DEF Orderly
<1>3. ASSUME NEW i \in DOMAIN rest
      PROVE  /\ Rising(rest[i].data) /\ Below(p, rest[i].data) /\ Below(rest[i].data, y)
             /\ \A k \in DOMAIN rest : i < k => Below(rest[i].data, rest[k].data)
  <2>1. h[i] \in DOMAIN line /\ rest[i] = line[h[i]]
    BY <1>1 DEF Keeps
  <2>2. Rising(line[h[i]].data) /\ Below(r, line[h[i]].data) /\ Below(line[h[i]].data, x)
    BY <2>1 DEF Orderly
  <2>3. Below(p, line[h[i]].data) /\ Below(line[h[i]].data, y)
    BY <2>2, WholePart, PartBelow
  <2>4. ASSUME NEW k \in DOMAIN rest, i < k PROVE Below(rest[i].data, rest[k].data)
    <3>1. h[k] \in DOMAIN line /\ rest[k] = line[h[k]] /\ h[i] < h[k]
      BY <1>1, <2>4 DEF Keeps
    <3>2. Below(line[h[i]].data, line[h[k]].data)
      BY <2>1, <3>1 DEF Orderly
    <3> QED
      BY <2>1, <3>1, <3>2
  <2> QED
    BY <2>1, <2>2, <2>3, <2>4
<1> QED
  BY <1>2, <1>3 DEF Orderly

(* The first frame goes into the client's stream, after a header byte. *)
LEMMA OrderlyIn ==
  ASSUME NEW r \in Seq(Nat), NEW line \in Seq(Frame), NEW x, Orderly(r, line, x), line # <<>>
  PROVE  Orderly((r \o <<Header>>) \o Head(line).data, Tail(line), x)
<1> DEFINE d == Head(line).data
           h == r \o <<Header>>
           t == Tail(line)
<1>1. <<Header>> \in Seq(Nat) /\ h \in Seq(Nat)
  BY DEF Header
<1>2. 1 \in DOMAIN line /\ Head(line) = line[1] /\ d \in Seq(Nat)
  <2>1. 1 \in DOMAIN line /\ Head(line) = line[1] /\ line[1] \in Frame
    OBVIOUS
  <2> QED
    BY <2>1 DEF Frame
<1>3. \A i \in DOMAIN t : i + 1 \in DOMAIN line /\ 1 < i + 1 /\ t[i] = line[i + 1] /\ i \in Int
  OBVIOUS
<1>4. \A u : Below(<<Header>>, u) /\ Below(u, <<Header>>)
  BY DEF Below
<1>5. Rising(<<Header>>)
  BY DEF Rising
<1> HIDE DEF t
<1>6. Rising(r) /\ Rising(x) /\ Below(r, x) /\ Rising(d) /\ Below(r, d) /\ Below(d, x)
  BY <1>2 DEF Orderly
<1>7. Rising(h)
  BY <1>1, <1>4, <1>5, <1>6, ConcatRises
<1>8. \A u : Below(r, u) => Below(h, u)
  BY <1>1, <1>4, ConcatBelow
<1> HIDE DEF h, d
<1>9. Rising(h \o d)
  BY <1>1, <1>2, <1>6, <1>7, <1>8, ConcatRises
<1>10. \A u : Below(r, u) /\ Below(d, u) => Below(h \o d, u)
  BY <1>1, <1>2, <1>8, ConcatBelow
<1>11. ASSUME NEW i \in DOMAIN t
       PROVE  /\ Rising(t[i].data) /\ Below(h \o d, t[i].data) /\ Below(t[i].data, x)
              /\ \A k \in DOMAIN t : i < k => Below(t[i].data, t[k].data)
  <2>1. i + 1 \in DOMAIN line /\ 1 < i + 1 /\ t[i] = line[i + 1]
    BY <1>3
  <2>2. /\ Rising(line[i + 1].data) /\ Below(r, line[i + 1].data) /\ Below(line[i + 1].data, x)
        /\ Below(line[1].data, line[i + 1].data)
    BY <1>2, <2>1 DEF Orderly
  <2>3. Below(d, line[i + 1].data)
    BY <1>2, <2>2 DEF d
  <2>4. ASSUME NEW k \in DOMAIN t, i < k PROVE Below(t[i].data, t[k].data)
    <3>1. k + 1 \in DOMAIN line /\ i + 1 < k + 1 /\ t[k] = line[k + 1]
      BY <1>3, <2>4
    <3> QED
      BY <2>1, <3>1 DEF Orderly
  <2> QED
    BY <1>10, <2>1, <2>2, <2>3, <2>4
<1>12. Below(h \o d, x)
  BY <1>6, <1>10
<1> QED
  BY <1>6, <1>9, <1>11, <1>12 DEF Orderly, h, d, t

(* A frame goes onto the line with data that the rest to be read follows;   *)
(* an event carries none.                                                  *)
LEMMA OrderlyOut ==
  ASSUME NEW r, NEW line \in Seq(Frame), NEW x, Orderly(r, line, x),
         NEW frame \in Frame, NEW y,
         PartOf(frame.data, x), PartOf(y, x), Below(frame.data, y)
  PROVE  Orderly(r, Append(line, frame), y)
<1> DEFINE t == Append(line, frame)
           last == Len(line) + 1
<1>1. /\ \A i \in DOMAIN t : i \in DOMAIN line \/ i = last
      /\ \A i \in DOMAIN line : t[i] = line[i] /\ i < last
      /\ DOMAIN line \subseteq Int /\ last \in Int
      /\ t[last] = frame
  OBVIOUS
<1> HIDE DEF t, last
<1>2. Rising(r) /\ Rising(x) /\ Below(r, x)
  BY DEF Orderly
<1>3. Rising(frame.data) /\ Below(r, frame.data) /\ Rising(y) /\ Below(r, y)
  BY <1>2, PartRises, PartBelow, WholePart
<1>4. ASSUME NEW i \in DOMAIN line
      PROVE  /\ Rising(line[i].data) /\ Below(r, line[i].data)
             /\ Below(line[i].data, frame.data) /\ Below(line[i].data, y)
  <2>1. Rising(line[i].data) /\ Below(r, line[i].data) /\ Below(line[i].data, x)
    BY DEF Orderly
  <2> QED
    BY <2>1, PartBelow, WholePart
<1>5. ASSUME NEW i \in DOMAIN t
      PROVE  /\ Rising(t[i].data) /\ Below(r, t[i].data) /\ Below(t[i].data, y)
             /\ \A k \in DOMAIN t : i < k => Below(t[i].data, t[k].data)
  <2>1. CASE i \in DOMAIN line
    <3>1. ASSUME NEW k \in DOMAIN t, i < k PROVE Below(t[i].data, t[k].data)
      <4>1. CASE k \in DOMAIN line
        <5>1. Below(line[i].data, line[k].data)
          BY <2>1, <3>1, <4>1 DEF Orderly
        <5> QED
          BY <1>1, <2>1, <4>1, <5>1
      <4>2. CASE k = last
        BY <1>1, <1>4, <2>1, <4>2
      <4> QED
        BY <1>1, <4>1, <4>2
    <3> QED
      BY <1>1, <1>4, <2>1, <3>1
  <2>2. CASE i = last
    <3>1. \A k \in DOMAIN t : ~(i < k)
      BY <1>1, <2>2
    <3> QED
      BY <1>1, <1>3, <2>2, <3>1
  <2> QED
    BY <1>1, <2>1, <2>2
<1> QED
  BY <1>2, <1>3, <1>5 DEF Orderly, t

(* The router writes its next slice. *)
LEMMA OrderlyMore ==
  ASSUME NEW top \in Nat, NEW r \in Seq(0 .. top), NEW line \in Seq(Frame), NEW x \in Seq(0 .. top),
         \A i \in DOMAIN line : line[i].data \in Seq(0 .. top),
         Orderly(r, line, x)
  PROVE  Orderly(r, line, Append(x, top + 1))
<1> DEFINE y == Append(x, top + 1)
           last == Len(x) + 1
<1>1. /\ \A i \in DOMAIN y : i \in DOMAIN x \/ i = last
      /\ \A i \in DOMAIN x : y[i] = x[i] /\ i < last /\ x[i] \in 0 .. top
      /\ DOMAIN x \subseteq Int /\ last \in Int
      /\ y[last] = top + 1
  OBVIOUS
<1> HIDE DEF y, last
<1>2. \A n \in 0 .. top : n < top + 1
  OBVIOUS
<1>3. ASSUME NEW s \in Seq(0 .. top), Below(s, x) PROVE Below(s, y)
  <2>1. \A i \in DOMAIN s : s[i] < top + 1
    <3>1. \A i \in DOMAIN s : s[i] \in 0 .. top
      BY ElementIn
    <3> QED
      BY <1>2, <3>1
  <2> QED
    BY <1>1, <1>3, <2>1 DEF Below
<1>4. Rising(y)
  <2>1. ASSUME NEW i \in DOMAIN y, NEW k \in DOMAIN y, i < k, y[i] # Header, y[k] # Header
        PROVE  y[i] < y[k]
    <3>1. i \in DOMAIN x
      <4>1. i \in Int /\ k \in Int /\ last \in Int /\ (k = last \/ k < last)
        BY <1>1
      <4>2. i # last
        BY <2>1, <4>1
      <4> QED
        BY <1>1, <4>2
    <3>2. CASE k = last
      BY <1>1, <1>2, <3>1, <3>2
    <3>3. CASE k \in DOMAIN x
      BY <1>1, <2>1, <3>1, <3>3 DEF Orderly, Rising
    <3> QED
      BY <1>1, <3>2, <3>3
  <2> QED
    BY <2>1 DEF Rising
<1> QED
  BY <1>3, <1>4 DEF Orderly, y

-----------------------------------------------------------------------------
(* All the client has taken off the line, and what the proxy has not read  *)
(* yet from the socket of the connection.                                  *)
Stream == received \o _inputStream
Pending == IF _socket \in Fds THEN rx[_socket] ELSE <<>>

(* The router's direction is in order from end to end: stream, line and    *)
(* socket each rise, and each is earlier than the next. Weaker claims, of  *)
(* what zenoh-pico has read alone, are not kept by a step.                 *)
DownTypes ==
  /\ Stream \in Seq(0 .. writes)
  /\ \A i \in DOMAIN toClient : toClient[i].data \in Seq(0 .. writes)
  /\ \A f \in Fds : rx[f] \in Seq(1 .. writes) /\ (f > used => rx[f] = <<>>)

DownInv == DownTypes /\ Orderly(Stream, toClient, Pending)

(* What a step may do with the router's direction: leave out slices, take  *)
(* the first frame into the client, put a frame onto the line, or write.    *)
Loses ==
  /\ PartOf(Stream', Stream) /\ PartOf(toClient', toClient) /\ PartOf(Pending', Pending)
  /\ UNCHANGED <<rx, writes>> /\ used <= used'
(* The first frame of the line comes in, a frame goes out, the router      *)
(* writes.                                                                 *)
TakesIn ==
  /\ toClient # <<>> /\ toClient' = Tail(toClient)
  /\ Stream' = (Stream \o <<Header>>) \o Head(toClient).data
  /\ UNCHANGED <<_socket, rx, used, writes>>
PutsOut(frame) ==
  /\ toClient' = Append(toClient, frame) /\ UNCHANGED <<received, _inputStream, writes>>
  /\ PartOf(frame.data, Pending) /\ PartOf(Pending', Pending) /\ Below(frame.data, Pending')
  /\ used <= used'
  /\ \A f \in Fds : PartOf(rx'[f], rx[f])
Writes(f) ==
  /\ f <= used /\ writes' = writes + 1 /\ rx' = [rx EXCEPT ![f] = Append(@, writes + 1)]
  /\ UNCHANGED <<received, _inputStream, toClient, _socket, used>>

(* Types of the pieces, and what is left of a sequence of numbers. *)
LEMMA StreamTypes ==
  ASSUME TypeOK
  PROVE  /\ received \in Seq(Nat) /\ _inputStream \in Seq(Nat) /\ Stream \in Seq(Nat)
         /\ toClient \in Seq(Frame) /\ writes \in Nat /\ used \in Nat
         /\ Pending \in Seq(Nat) /\ (_socket \in Fds => _socket <= used)
<1>1. received \in Seq(Nat) /\ _inputStream \in Seq(Nat) /\ toClient \in Seq(Frame) /\ writes \in Nat
  BY DEF TypeOK
<1>2. used \in Nat /\ (_socket \in Fds => _socket <= used)
  BY TunnelAssumption DEF TunnelAssumption, TypeOK, Fds, Serial, NoFd
<1>3. Pending \in Seq(Nat)
  BY DEF TypeOK, Pending
<1>4. Stream \in Seq(Nat)
  BY <1>1 DEF Stream
<1> QED
  BY <1>1, <1>2, <1>3, <1>4

LEMMA PartType ==
  ASSUME NEW S, NEW T, NEW s \in Seq(S), NEW t \in Seq(T), PartOf(t, s)
  PROVE  t \in Seq(S)
<1>1. PICK h : Keeps(t, s, h)
  BY DEF PartOf
<1>2. \A i \in DOMAIN t : t[i] \in S
  BY <1>1, ElementIn DEF Keeps
<1> QED
  BY <1>2

LEMMA Associates ==
  ASSUME NEW s \in Seq(Nat), NEW t \in Seq(Nat), NEW u \in Seq(Nat)
  PROVE  s \o (t \o u) = (s \o t) \o u
  BY ConcatAssociative, SMTT(60)

LEMMA NoPosition ==
  ASSUME NEW S, NEW s \in Seq(S), DOMAIN s = {} PROVE s = <<>>
<1> SUFFICES ASSUME s # <<>> PROVE FALSE
  OBVIOUS
<1>1. Len(s) \in Nat \ {0}
  BY EmptySeq
<1>2. 1 \in DOMAIN s
  BY <1>1
<1> QED
  BY <1>2

(* One step each. *)
LEMMA ClientTakes == ASSUME TypeOK, HandleFrame PROVE Loses \/ TakesIn
<1>1. /\ toClient # <<>> /\ toClient' = Tail(toClient)
      /\ UNCHANGED <<received, _socket, rx, used, writes>>
  BY DEF HandleFrame, tcp, router
<1>2. /\ received \in Seq(Nat) /\ _inputStream \in Seq(Nat) /\ toClient \in Seq(Frame) /\ used \in Nat
  BY StreamTypes
<1>3. CASE Head(toClient).type = "recv"
  <2> DEFINE d == Head(toClient).data
  <2>1. _inputStream' = (_inputStream \o <<Header>>) \o d
    BY <1>3 DEF HandleFrame
  <2>2. d \in Seq(Nat) /\ <<Header>> \in Seq(Nat)
    <3>1. Head(toClient) \in Frame
      BY <1>1, <1>2
    <3> QED
      BY <3>1 DEF Frame, Header
  <2> HIDE DEF d
  <2>3. _inputStream \o <<Header>> \in Seq(Nat)
    BY <1>2, <2>2
  <2>4. received \o ((_inputStream \o <<Header>>) \o d) = (received \o (_inputStream \o <<Header>>)) \o d
    BY <1>2, <2>2, <2>3, Associates, ZenonT(60)
  <2>5. received \o (_inputStream \o <<Header>>) = (received \o _inputStream) \o <<Header>>
    BY <1>2, <2>2, Associates, Zenon
  <2>6. Stream' = (Stream \o <<Header>>) \o d
    BY <1>1, <2>1, <2>4, <2>5 DEF Stream
  <2> QED
    BY <1>1, <2>6 DEF TakesIn, d
<1>4. CASE Head(toClient).type # "recv"
  <2>1. _inputStream' = _inputStream
    BY <1>4 DEF HandleFrame
  <2>2. Stream' = Stream /\ Pending' = Pending
    BY <1>1, <2>1 DEF Stream, Pending
  <2>3. PartOf(toClient', toClient)
    BY <1>1, <1>2, TailPart
  <2> QED
    BY <1>1, <1>2, <2>2, <2>3, WholePart DEF Loses
<1> QED
  BY <1>3, <1>4

(* recvData moves bytes from _inputStream to the caller: all in all        *)
(* nothing changes.                                                        *)
LEMMA ReturnKeepsStream == ASSUME TypeOK, RecvReturns PROVE Stream' = Stream
<1> DEFINE w == want
           a == SubSeq(_inputStream, 1, w)
           b == SubSeq(_inputStream, w + 1, Len(_inputStream))
<1>1. received' = received \o a /\ _inputStream' = b
  BY DEF RecvReturns
<1>2. received \in Seq(Nat) /\ _inputStream \in Seq(Nat)
  BY StreamTypes
<1>3. w \in 0 .. Len(_inputStream)
  BY <1>2, TunnelAssumption DEF TunnelAssumption, RecvReturns, TypeOK
<1>4. a \in Seq(Nat) /\ b \in Seq(Nat)
  BY <1>2, <1>3, PrefixType, SuffixType
<1>5. a \o b = _inputStream
  <2>1. Len(_inputStream) \in Nat /\ 1 \in 1 .. Len(_inputStream) + 1
        /\ Len(_inputStream) \in w .. Len(_inputStream) /\ w \in (1 - 1) .. Len(_inputStream)
    BY <1>2, <1>3
  <2>2. a \o b = SubSeq(_inputStream, 1, Len(_inputStream))
    BY <1>2, <2>1, ConcatAdjacentSubSeq
  <2> QED
    BY <1>2, <2>2, SubSeqFull
<1> HIDE DEF a, b
<1>6. (received \o a) \o b = received \o (a \o b)
  BY <1>2, <1>4, ConcatAssociative, SMTT(60)
<1> QED
  BY <1>1, <1>5, <1>6 DEF Stream

(* What the handlers of the proxy put onto the line is a part of what the  *)
(* socket still held.                                                      *)
LEMMA DisconnectPutsOut ==
  ASSUME TypeOK, Disconnect, UNCHANGED <<rx, writes, received, _inputStream>>
  PROVE  PutsOut(TCP_DISCONNECTED(0))
<1>1. TCP_DISCONNECTED(0).data = <<>>
  BY DEF TCP_DISCONNECTED
<1>2. toClient' = Append(toClient, TCP_DISCONNECTED(0)) /\ UNCHANGED <<_socket, used>>
  BY DEF Disconnect, Emit
<1>3. Pending' = Pending
  BY <1>2 DEF Pending
<1>4. used <= used'
  BY <1>2, StreamTypes
<1> QED
  BY <1>1, <1>2, <1>3, <1>4, WholePart, EmptyPart, NothingBelow DEF PutsOut

LEMMA RecvPutsOut ==
  ASSUME TypeOK, DownInv, _socket \in Fds, RecvResult
  PROVE  \E frame \in Frame : PutsOut(frame)
<1>1. UNCHANGED <<received, _inputStream, writes>>
  BY DEF RecvResult, client
<1>2. CASE rx[_socket] # <<>>
  <2>1. PICK n \in 1 .. Len(rx[_socket]) :
          /\ Emit(TCP_RECV(SubSeq(rx[_socket], 1, n)))
          /\ rx' = [rx EXCEPT ![_socket] = SubSeq(@, n + 1, Len(@))]
          /\ UNCHANGED <<_socket, invokers, used, state, of>>
    <3>1. Len(rx[_socket]) \in Nat
      BY DEF TypeOK
    <3>2. 1 .. (IF Len(rx[_socket]) < RecvMax THEN Len(rx[_socket]) ELSE RecvMax)
            \subseteq 1 .. Len(rx[_socket])
      BY <3>1, TunnelAssumption DEF TunnelAssumption
    <3> QED
      BY <1>2, <3>2 DEF RecvResult
  <2> DEFINE x == rx[_socket]
             d == SubSeq(x, 1, n)
             y == SubSeq(x, n + 1, Len(x))
             frame == TCP_RECV(d)
  <2>2. x \in Seq(Nat) /\ Pending = x /\ rx \in [Fds -> Seq(Nat)]
    BY DEF TypeOK, Pending
  <2>3. n \in 0 .. Len(x) /\ Len(x) \in Nat
    BY <2>2
  <2>4. d \in Seq(Nat) /\ y \in Seq(Nat)
    BY <2>2, <2>3, PrefixType, SuffixType
  <2>5. frame \in Frame /\ frame.data = d
    BY <2>4, FrameTypes DEF TCP_RECV
  <2>6. PartOf(d, x) /\ PartOf(y, x)
    <3>1. 1 \in Nat /\ 1 >= 1 /\ n \in Nat /\ n <= Len(x) /\ n + 1 \in Nat /\ n + 1 >= 1
          /\ Len(x) <= Len(x)
      BY <2>3
    <3> QED
      BY <2>2, <2>3, <3>1, SubSeqPart
  <2>7. Below(d, y)
    BY <2>2, <2>3, SplitBelow DEF DownInv, Orderly
  <2>8. rx' = [rx EXCEPT ![_socket] = y] /\ _socket' = _socket /\ used' = used
        /\ toClient' = Append(toClient, frame)
    BY <2>1 DEF Emit
  <2> HIDE DEF y, d, frame
  <2>9. Pending' = y
    BY <2>2, <2>8 DEF Pending
  <2>10. ASSUME NEW f \in Fds PROVE PartOf(rx'[f], rx[f])
    <3>1. CASE f = _socket
      BY <2>2, <2>6, <2>8, <3>1
    <3>2. CASE f # _socket
      <4>1. rx'[f] = rx[f]
        BY <2>2, <2>8, <3>2
      <4> QED
        BY <4>1, WholePart
    <3> QED
      BY <3>1, <3>2
  <2>11. used <= used'
    BY <2>8, StreamTypes
  <2>12. PutsOut(frame)
    BY <1>1, <2>2, <2>5, <2>6, <2>7, <2>8, <2>9, <2>10, <2>11 DEF PutsOut
  <2> QED
    BY <2>5, <2>12
<1>3. CASE rx[_socket] = <<>>
  <2>1. PutsOut(TCP_DISCONNECTED(0))
    BY <1>1, <1>3, DisconnectPutsOut DEF RecvResult
  <2> QED
    BY <2>1, FrameTypes
<1> QED
  BY <1>2, <1>3

LEMMA OpenPutsOut ==
  ASSUME TypeOK, DownTypes, NEW ok \in BOOLEAN, HandleOpen(ok)
  PROVE  \E frame \in Frame : PutsOut(frame)
<1> DEFINE s == Head(toProxy).session
           frame == IF ok THEN TCP_CONNECTED(s) ELSE TCP_DISCONNECTED(s)
<1>1. s \in Nat
  BY SerialType DEF HandleOpen, Frame
<1>2. frame \in Frame /\ frame.data = <<>>
  BY <1>1, FrameTypes DEF TCP_CONNECTED, TCP_DISCONNECTED
<1>3. toClient' = Append(toClient, frame)
  BY DEF HandleOpen, Connect, Emit
<1>4. UNCHANGED <<received, _inputStream, writes, rx>>
  BY DEF HandleOpen, Serial_incoming, client, router
<1>5. PICK created \in BOOLEAN : OpenTxSession(ok, created)
  BY DEF HandleOpen, Connect
<1>6. used <= used' /\ (ok => used + 1 \in Fds)
  BY <1>5, OpenTxType
<1>7. PartOf(Pending', Pending)
  <2>1. CASE ok
    <3>1. _socket' = used + 1 /\ used + 1 \in Fds
      BY <1>6, <2>1 DEF HandleOpen, Connect
    <3>2. used + 1 > used
      BY StreamTypes
    <3>3. Pending' = <<>>
      BY <1>4, <3>1, <3>2 DEF Pending, DownTypes
    <3> QED
      BY <3>3, EmptyPart
  <2>2. CASE ~ok
    <3>1. _socket' = _socket
      BY <2>2 DEF HandleOpen, Connect
    <3>2. Pending' = Pending
      BY <1>4, <3>1 DEF Pending
    <3> QED
      BY <3>2, WholePart
  <2> QED
    BY <2>1, <2>2
<1> HIDE DEF frame
<1>8. PutsOut(frame)
  BY <1>2, <1>3, <1>4, <1>6, <1>7, WholePart, EmptyPart, NothingBelow DEF PutsOut
<1> QED
  BY <1>2, <1>8

-----------------------------------------------------------------------------
(* Every step of the tunnel is one of these. *)
LEMMA DownSteps ==
  ASSUME TypeOK, DownInv, Next
  PROVE  \/ Loses \/ TakesIn \/ (\E frame \in Frame : PutsOut(frame)) \/ \E f \in Fds : Writes(f)
<1>0. used \in Nat /\ used <= used /\ toClient \in Seq(Frame)
  BY StreamTypes
<1>1. ASSUME UNCHANGED <<received, _inputStream, toClient, rx, writes, _socket, used>> PROVE Loses
  <2>1. Stream' = Stream /\ Pending' = Pending
    BY <1>1 DEF Stream, Pending
  <2> QED
    BY <1>0, <1>1, <2>1, WholePart DEF Loses
<1>2. CASE Client
  <2>1. UNCHANGED <<rx, writes, _socket, used>>
    BY <1>2 DEF Client, ClientOpen, ClientClose, ClientSend, ClientRecv, HandleFrame, RecvReturns,
                tcp, router
  <2>2. CASE ClientOpen \/ ClientClose \/ ClientSend \/ \E k \in Wants : ClientRecv(k)
    <3>1. UNCHANGED <<received, _inputStream, toClient>>
      BY <2>2 DEF ClientOpen, ClientClose, ClientSend, ClientRecv
    <3> QED
      BY <1>1, <2>1, <3>1
  <2>3. CASE HandleFrame
    BY <2>3, ClientTakes
  <2>4. CASE RecvReturns
    <3>1. Stream' = Stream
      BY <2>4, ReturnKeepsStream
    <3>2. toClient' = toClient
      BY <2>4 DEF RecvReturns
    <3>3. Pending' = Pending
      BY <2>1 DEF Pending
    <3> QED
      BY <1>0, <2>1, <3>1, <3>2, <3>3, WholePart DEF Loses
  <2> QED
    BY <1>2, <2>2, <2>3, <2>4 DEF Client
<1>3. CASE HandleSerial
  <2>1. ASSUME NEW ok \in BOOLEAN, HandleOpen(ok) PROVE \E frame \in Frame : PutsOut(frame)
    BY <2>1, OpenPutsOut DEF DownInv
  <2>2. CASE HandleClose
    <3>1. Disconnect /\ UNCHANGED <<rx, writes, received, _inputStream>>
      BY <2>2 DEF HandleClose, Serial_incoming, client, router
    <3> QED
      BY <3>1, DisconnectPutsOut, FrameTypes
  <2>3. CASE HandleSend
    <3>1. UNCHANGED <<received, _inputStream, toClient, rx, writes, _socket, used>>
      BY <2>3 DEF HandleSend, Serial_incoming, client
    <3> QED
      BY <1>1, <3>1
  <2> QED
    BY <1>3, <2>1, <2>2, <2>3 DEF HandleSerial
<1>4. CASE RecvUnblocked
  <2>1. _socket \in Fds /\ RecvResult
    BY <1>4 DEF RecvUnblocked, Readable
  <2> QED
    BY <2>1, RecvPutsOut
<1>5. ASSUME NEW f \in Fds, Invoke(f)
      PROVE  Loses \/ \E frame \in Frame : PutsOut(frame)
  <2>1. CASE Readable(_socket)
    <3>1. _socket \in Fds /\ RecvResult
      BY <1>5, <2>1 DEF Invoke, Readable
    <3> QED
      BY <3>1, RecvPutsOut
  <2>2. CASE ~Readable(_socket)
    <3>1. UNCHANGED <<received, _inputStream, toClient, rx, writes, _socket, used>>
      BY <1>5, <2>2 DEF Invoke, client, router
    <3> QED
      BY <1>1, <3>1
  <2> QED
    BY <2>1, <2>2
<1>6. ASSUME NEW f \in Fds, OnError(f) PROVE \E frame \in Frame : PutsOut(frame)
  <2>1. Disconnect /\ UNCHANGED <<rx, writes, received, _inputStream>>
    BY <1>6 DEF OnError, client, router
  <2> QED
    BY <2>1, DisconnectPutsOut, FrameTypes
<1>7. CASE Router
  <2>1. ASSUME NEW f \in Fds, RouterWrite(f) PROVE Writes(f)
    <3>1. UNCHANGED <<received, _inputStream, toClient, _socket, used>>
      BY <2>1 DEF RouterWrite, client, tcp
    <3>2. f <= used
      <4>1. f \in Int /\ ~(f > used)
        BY <2>1 DEF RouterWrite, TypeOK, Fds
      <4> QED
        BY <1>0, <4>1
    <3> QED
      BY <2>1, <3>1, <3>2 DEF Writes, RouterWrite
  <2>2. ASSUME NEW f \in Fds, NEW how, RouterEnds(f, how) PROVE Loses
    <3>1. UNCHANGED <<received, _inputStream, toClient, rx, writes, _socket, used>>
      BY <2>2 DEF RouterEnds, client, tcp
    <3> QED
      BY <1>1, <3>1
  <2> QED
    BY <1>7, <2>1, <2>2 DEF Router
<1>8. CASE Lose
  <2>1. UNCHANGED <<received, _inputStream, rx, writes, _socket, used>>
    BY <1>8 DEF Lose, client, tcp, router
  <2>2. PartOf(toClient', toClient)
    BY <1>0, <1>8, WholePart, RemovedPart DEF Lose
  <2>3. Stream' = Stream /\ Pending' = Pending
    BY <2>1 DEF Stream, Pending
  <2> QED
    BY <1>0, <2>1, <2>2, <2>3, WholePart DEF Loses
<1>9. CASE ClientRestart
  <2>1. UNCHANGED <<received, rx, writes, _socket, used>>
    BY <1>9 DEF ClientRestart, tcp, router
  <2>2. PICK n \in 0 .. Len(toClient) : toClient' = SubSeq(toClient, n + 1, Len(toClient))
    BY <1>9 DEF ClientRestart
  <2>3. n + 1 \in Nat /\ n + 1 >= 1 /\ Len(toClient) \in Nat /\ Len(toClient) <= Len(toClient)
    BY <1>0
  <2>4. PartOf(SubSeq(toClient, n + 1, Len(toClient)), toClient)
    BY <1>0, <2>3, SubSeqPart
  <2>5. PartOf(Stream', Stream)
    <3>1. received \in Seq(Nat) /\ _inputStream \in Seq(Nat)
      BY StreamTypes
    <3>2. _inputStream' = <<>>
      BY <1>9 DEF ClientRestart
    <3>3. received \o <<>> = received
      BY <3>1
    <3>4. Stream' = received
      BY <2>1, <3>2, <3>3 DEF Stream
    <3> QED
      BY <3>1, <3>4, ConcatPart DEF Stream
  <2>6. Pending' = Pending
    BY <2>1 DEF Pending
  <2> QED
    BY <1>0, <2>1, <2>2, <2>4, <2>5, <2>6, WholePart DEF Loses
<1>10. CASE ProxyRestart
  <2>1. UNCHANGED <<received, _inputStream, toClient, rx, writes, used>>
    BY <1>10 DEF ProxyRestart, client, router
  <2>2. Stream' = Stream
    BY <2>1 DEF Stream
  <2>3. Pending' = <<>>
    BY <1>10 DEF ProxyRestart, Pending, Fds, Serial, NoFd
  <2> QED
    BY <1>0, <2>1, <2>2, <2>3, WholePart, EmptyPart DEF Loses
<1> QED
  BY <1>2, <1>3, <1>4, <1>5, <1>6, <1>7, <1>8, <1>9, <1>10 DEF Next, OpenAborts, Worker

(* Each of them keeps the order. *)
LEMMA DownStep == TypeOK /\ TypeOK' /\ DownInv /\ Next => DownInv'
<1> SUFFICES ASSUME TypeOK, TypeOK', DownInv, Next PROVE DownInv'
  OBVIOUS
<1>1. /\ toClient \in Seq(Frame) /\ writes \in Nat /\ used \in Nat
      /\ Pending \in Seq(Nat) /\ (_socket \in Fds => _socket <= used)
  BY StreamTypes
<1>2. /\ toClient' \in Seq(Frame) /\ rx' \in [Fds -> Seq(Nat)] /\ used' \in Nat /\ Stream' \in Seq(Nat)
  <2>1. /\ received' \in Seq(Nat) /\ _inputStream' \in Seq(Nat)
        /\ toClient' \in Seq(Frame) /\ rx' \in [Fds -> Seq(Nat)] /\ used' \in Nat
    BY TunnelAssumption DEF TunnelAssumption, TypeOK
  <2> QED
    BY <2>1 DEF Stream
<1>3. /\ Stream \in Seq(0 .. writes)
      /\ \A i \in DOMAIN toClient : toClient[i].data \in Seq(0 .. writes)
      /\ \A f \in Fds : rx[f] \in Seq(1 .. writes) /\ (f > used => rx[f] = <<>>)
      /\ Orderly(Stream, toClient, Pending)
  BY DEF DownInv, DownTypes
<1>4. DOMAIN rx' = Fds /\ DOMAIN rx = Fds
  BY <1>2 DEF TypeOK
<1>5. CASE Loses
  <2>1. /\ PartOf(Stream', Stream) /\ PartOf(toClient', toClient) /\ PartOf(Pending', Pending)
        /\ rx' = rx /\ writes' = writes /\ used <= used'
    BY <1>5 DEF Loses
  <2>2. Orderly(Stream', toClient', Pending')
    BY <1>3, <2>1, OrderlyLoss
  <2>3. Stream' \in Seq(0 .. writes)
    BY <1>2, <1>3, <2>1, PartType
  <2>4. ASSUME NEW i \in DOMAIN toClient' PROVE toClient'[i].data \in Seq(0 .. writes)
    <3>1. PICK h : Keeps(toClient', toClient, h)
      BY <2>1 DEF PartOf
    <3>2. h[i] \in DOMAIN toClient /\ toClient'[i] = toClient[h[i]]
      BY <3>1 DEF Keeps
    <3> QED
      BY <1>3, <3>2
  <2>5. \A f \in Fds : f > used' => f > used
    BY <1>1, <1>2, <2>1 DEF Fds
  <2> QED
    BY <1>3, <2>1, <2>2, <2>3, <2>4, <2>5 DEF DownInv, DownTypes
<1>6. CASE TakesIn
  <2> DEFINE d == Head(toClient).data
  <2>1. /\ toClient # <<>> /\ toClient' = Tail(toClient)
        /\ Stream' = (Stream \o <<Header>>) \o d
        /\ UNCHANGED <<_socket, rx, used, writes>>
    BY <1>6 DEF TakesIn
  <2>2. Pending' = Pending
    BY <2>1 DEF Pending
  <2>3. Stream \in Seq(Nat)
    BY StreamTypes
  <2>4. Orderly(Stream', toClient', Pending')
    BY <1>1, <1>3, <2>1, <2>2, <2>3, OrderlyIn
  <2>5. Stream' \in Seq(0 .. writes)
    <3>1. 1 \in DOMAIN toClient /\ Head(toClient) = toClient[1]
      BY <1>1, <2>1
    <3>2. d \in Seq(0 .. writes)
      BY <1>3, <3>1
    <3>3. <<Header>> \in Seq(0 .. writes)
      BY <1>1 DEF Header
    <3> HIDE DEF d
    <3>4. Stream \o <<Header>> \in Seq(0 .. writes)
      BY <1>3, <3>3, ConcatProperties
    <3>5. (Stream \o <<Header>>) \o d \in Seq(0 .. writes)
      BY <3>2, <3>4, ConcatProperties
    <3> QED
      BY <2>1, <3>5
  <2>6. \A i \in DOMAIN toClient' : toClient'[i].data \in Seq(0 .. writes)
    <3>1. \A i \in DOMAIN toClient' : i + 1 \in DOMAIN toClient /\ toClient'[i] = toClient[i + 1]
      BY <1>1, <2>1
    <3> QED
      BY <1>3, <3>1
  <2> QED
    BY <1>3, <2>1, <2>4, <2>5, <2>6 DEF DownInv, DownTypes
<1>7. ASSUME NEW frame \in Frame, PutsOut(frame) PROVE DownInv'
  <2>1. /\ toClient' = Append(toClient, frame)
        /\ UNCHANGED <<received, _inputStream, writes>>
        /\ PartOf(frame.data, Pending) /\ PartOf(Pending', Pending) /\ Below(frame.data, Pending')
        /\ used <= used'
        /\ \A f \in Fds : PartOf(rx'[f], rx[f])
    BY <1>7 DEF PutsOut
  <2>2. Stream' = Stream
    BY <2>1 DEF Stream
  <2>3. Orderly(Stream', toClient', Pending')
    BY <1>1, <1>3, <2>1, <2>2, OrderlyOut
  <2>4. ASSUME NEW f \in Fds PROVE rx'[f] \in Seq(1 .. writes) /\ (f > used' => rx'[f] = <<>>)
    <3>1. rx[f] \in Seq(1 .. writes) /\ rx'[f] \in Seq(Nat) /\ PartOf(rx'[f], rx[f])
      BY <1>2, <1>3, <2>1
    <3>2. rx'[f] \in Seq(1 .. writes)
      BY <3>1, PartType
    <3>3. f > used' => rx[f] = <<>>
      <4>1. f > used' => f > used
        BY <1>1, <1>2, <2>1 DEF Fds
      <4> QED
        BY <1>3, <4>1
    <3>4. rx[f] = <<>> => rx'[f] = <<>>
      <4>1. PICK h : Keeps(rx'[f], rx[f], h)
        BY <3>1 DEF PartOf
      <4>2. rx[f] = <<>> => DOMAIN rx[f] = {}
        OBVIOUS
      <4>3. DOMAIN rx[f] = {} => DOMAIN rx'[f] = {}
        BY <4>1 DEF Keeps
      <4>4. DOMAIN rx'[f] = {} => rx'[f] = <<>>
        BY <3>1, NoPosition
      <4> QED
        BY <4>2, <4>3, <4>4
    <3> QED
      BY <3>2, <3>3, <3>4
  <2>5. frame.data \in Seq(0 .. writes)
    <3>1. frame.data \in Seq(Nat)
      BY DEF Frame
    <3>2. Pending \in Seq(0 .. writes)
      <4>1. 1 .. writes \subseteq 0 .. writes
        BY <1>1
      <4>2. \A f \in Fds : rx[f] \in Seq(0 .. writes)
        BY <1>3, <4>1, SeqMonotonic
      <4>3. <<>> \in Seq(0 .. writes)
        OBVIOUS
      <4> QED
        BY <4>2, <4>3, Zenon DEF Pending
    <3> QED
      BY <2>1, <3>1, <3>2, PartType
  <2>6. \A i \in DOMAIN toClient' : toClient'[i].data \in Seq(0 .. writes)
    <3>1. \A i \in DOMAIN toClient' : toClient'[i] = frame \/ (i \in DOMAIN toClient /\ toClient'[i] = toClient[i])
      BY <1>1, <2>1
    <3> QED
      BY <1>3, <2>5, <3>1
  <2> QED
    BY <1>3, <2>1, <2>2, <2>3, <2>4, <2>6 DEF DownInv, DownTypes
<1>8. ASSUME NEW g \in Fds, Writes(g) PROVE DownInv'
  <2>1. /\ g <= used /\ writes' = writes + 1 /\ rx' = [rx EXCEPT ![g] = Append(@, writes + 1)]
        /\ UNCHANGED <<received, _inputStream, toClient, _socket, used>>
    BY <1>8 DEF Writes
  <2>2. Stream' = Stream /\ toClient' = toClient
    BY <2>1 DEF Stream
  <2>3. 0 .. writes \subseteq 0 .. writes + 1 /\ 1 .. writes \subseteq 1 .. writes + 1
        /\ 1 .. writes \subseteq 0 .. writes
    BY <1>1
  <2>4. /\ Stream \in Seq(0 .. writes')
        /\ \A i \in DOMAIN toClient : toClient[i].data \in Seq(0 .. writes')
    BY <1>3, <2>1, <2>3, SeqMonotonic
  <2>5. \A f \in Fds : f # g => rx'[f] = rx[f]
    BY <1>4, <2>1
  <2>6. rx'[g] = Append(rx[g], writes + 1)
    BY <1>4, <2>1
  <2>7. ASSUME NEW f \in Fds PROVE rx'[f] \in Seq(1 .. writes') /\ (f > used' => rx'[f] = <<>>)
    <3>1. rx[f] \in Seq(1 .. writes + 1)
      BY <1>3, <2>3, SeqMonotonic
    <3>2. CASE f = g
      <4>1. writes + 1 \in 1 .. writes + 1
        BY <1>1
      <4>2. Append(rx[f], writes + 1) \in Seq(1 .. writes + 1)
        BY <3>1, <4>1, AppendProperties
      <4>3. ~(g > used')
        BY <1>1, <2>1 DEF Fds
      <4> QED
        BY <2>1, <2>6, <3>2, <4>2, <4>3
    <3>3. CASE f # g
      BY <1>3, <2>1, <2>5, <3>1, <3>3
    <3> QED
      BY <3>2, <3>3
  <2>8. Orderly(Stream, toClient, Pending')
    <3>1. CASE _socket = g
      <4>1. Pending = rx[g] /\ Pending' = Append(Pending, writes + 1)
        BY <2>1, <2>6, <3>1 DEF Pending
      <4>2. Pending \in Seq(0 .. writes)
        BY <1>3, <2>3, <4>1, SeqMonotonic
      <4> QED
        BY <1>1, <1>3, <4>1, <4>2, OrderlyMore
    <3>2. CASE _socket # g
      <4>1. Pending' = Pending
        BY <2>1, <2>5, <3>2 DEF Pending
      <4> QED
        BY <1>3, <4>1
    <3> QED
      BY <3>1, <3>2
  <2> QED
    BY <2>2, <2>4, <2>7, <2>8 DEF DownInv, DownTypes
<1> QED
  BY <1>5, <1>6, <1>7, <1>8, DownSteps

(* What the router writes stays in order over every buffer on its way: the  *)
(* present socket's, the line's and the client's stream, which old slices   *)
(* of earlier connections precede (tcp_session.cpp:44-61,                  *)
(* unix_serial.cpp:74).                                                     *)
LEMMA DownInvariant == Spec => []DownInv
<1>1. Init => DownInv
  <2> SUFFICES ASSUME Init PROVE DownInv
    OBVIOUS
  <2>1. /\ received = <<>> /\ _inputStream = <<>> /\ toClient = <<>> /\ writes = 0
        /\ _socket \notin Fds /\ \A f \in Fds : rx[f] = <<>>
    BY DEF Init, Fds, Serial, NoFd
  <2>2. Stream = <<>>
    BY <2>1 DEF Stream
  <2>3. Pending = <<>>
    BY <2>1 DEF Pending
  <2>4. DownTypes
    <3>1. <<>> \in Seq(0 .. writes) /\ <<>> \in Seq(1 .. writes) /\ DOMAIN toClient = {}
      BY <2>1
    <3> QED
      BY <2>1, <2>2, <3>1, Zenon DEF DownTypes
  <2>5. Orderly(<<>>, <<>>, <<>>)
    BY DEF Orderly, Rising, Below
  <2> QED
    BY <2>1, <2>2, <2>3, <2>4, <2>5 DEF DownInv
<1>2. TypeOK /\ TypeOK' /\ DownInv /\ [Next]_vars => DownInv'
  <2> SUFFICES ASSUME TypeOK, TypeOK', DownInv, [Next]_vars PROVE DownInv'
    OBVIOUS
  <2>1. CASE UNCHANGED vars
    BY <2>1 DEF vars, client, tcp, router, DownInv, DownTypes, Stream, Pending
  <2> QED
    BY <2>1, DownStep
<1> QED
  BY <1>1, <1>2, TunnelTypes, PTL DEF Spec

-----------------------------------------------------------------------------
(* The data of a stream, from position to position. *)
LEMMA SlicesFacts ==
  ASSUME NEW s \in Seq(Nat)
  PROVE  /\ SlicesUpTo(s)[0] = <<>>
         /\ \A k \in 1 .. Len(s) :
              SlicesUpTo(s)[k] = IF s[k] = Header THEN SlicesUpTo(s)[k - 1]
                                 ELSE Append(SlicesUpTo(s)[k - 1], s[k])
<1> DEFINE V == Seq(Nat)
           N == Len(s)
           step == [n \in 1 .. N |-> [x \in V |-> IF s[n] = Header THEN x ELSE Append(x, s[n])]]
           Def(g) == [k \in 0 .. N |-> IF k = 0 THEN <<>>
                                       ELSE IF s[k] = Header THEN g[k - 1] ELSE Append(g[k - 1], s[k])]
           upTo == CHOOSE g : g = Def(g)
<1>1. N \in Nat /\ \A n \in 1 .. N : s[n] \in Nat
  OBVIOUS
<1>2. <<>> \in V
  OBVIOUS
<1>3. step \in [1 .. N -> [V -> V]]
  <2>1. \A n \in 1 .. N, x \in V : (IF s[n] = Header THEN x ELSE Append(x, s[n])) \in V
    BY <1>1
  <2> HIDE DEF V, N
  <2> QED
    BY <2>1
<1>4. PICK g : IteratesUpTo(g, N, V, <<>>, step)
  <2> HIDE DEF step, V, N, Def, upTo
  <2>1. N \in Nat
    BY <1>1
  <2> QED
    BY <1>2, <1>3, <2>1, BoundedIteration
<1>5. g = Def(g)
  <2>1. ASSUME NEW k \in 0 .. N PROVE g[k] = Def(g)[k]
    <3>1. CASE k = 0
      BY <1>4, <3>1 DEF IteratesUpTo
    <3>2. CASE k # 0
      <4>1. k \in 1 .. N /\ k - 1 \in 0 .. N
        BY <1>1, <3>2
      <4>2. g[k - 1] \in V /\ g[k] = step[k][g[k - 1]]
        <5> HIDE DEF V, N, step
        <5> QED
          BY <1>4, <4>1 DEF IteratesUpTo
      <4>3. step[k][g[k - 1]] = IF s[k] = Header THEN g[k - 1] ELSE Append(g[k - 1], s[k])
        <5> HIDE DEF V, N
        <5> QED
          BY <4>1, <4>2
      <4> QED
        BY <3>2, <4>2, <4>3
    <3> QED
      BY <3>1, <3>2
  <2>2. g = [k \in 0 .. N |-> g[k]]
    BY <1>4 DEF IteratesUpTo
  <2> HIDE DEF V, step, upTo
  <2> QED
    BY <2>1, <2>2
<1>6. upTo = Def(upTo)
  <2> HIDE DEF Def
  <2> QED
    BY <1>5
<1>7. SlicesUpTo(s) = upTo
  BY DEF SlicesUpTo
<1> HIDE DEF upTo
<1>8. upTo[0] = <<>>
  BY <1>1, <1>6
<1>9. ASSUME NEW k \in 1 .. N
      PROVE  upTo[k] = IF s[k] = Header THEN upTo[k - 1] ELSE Append(upTo[k - 1], s[k])
  <2>1. k \in 0 .. N /\ k # 0
    BY <1>1
  <2>2. upTo[k] = Def(upTo)[k]
    <3> HIDE DEF Def
    <3> QED
      BY <1>6
  <2> HIDE DEF N
  <2> QED
    BY <2>1, <2>2
<1> QED
  BY <1>7, <1>8, <1>9

(* The data are bytes of the stream that are no header, and rise if those do. *)
LEMMA AppendedPositions ==
  ASSUME NEW S, NEW s \in Seq(S), NEW e \in S
  PROVE  /\ Append(s, e) \in Seq(S)
         /\ \A i \in DOMAIN Append(s, e) : i \in DOMAIN s \/ i = Len(s) + 1
         /\ \A i \in DOMAIN s : Append(s, e)[i] = s[i] /\ i < Len(s) + 1
         /\ DOMAIN Append(s, e) \subseteq Int /\ Len(s) + 1 \in Int
         /\ Append(s, e)[Len(s) + 1] = e
  OBVIOUS

(* The slices of rising bytes rise. *)
LEMMA SlicesRise ==
  ASSUME NEW top \in Nat, NEW s \in Seq(0 .. top), Rising(s)
  PROVE  Slices(s) \in Seq(1 .. top) /\ Up!Ascending(Slices(s))
<1> DEFINE U == SlicesUpTo(s)
           N == Len(s)
           T(k) == /\ U[k] \in Seq(1 .. top) /\ Up!Ascending(U[k])
                   /\ \A j \in DOMAIN U[k] : \E i \in 1 .. k : s[i] # Header /\ U[k][j] = s[i]
           Good == {k \in 0 .. N : T(k)}
<1>1. N \in Nat /\ \A i \in 1 .. N : s[i] \in 0 .. top
  OBVIOUS
<1>2. s \in Seq(Nat)
  BY 0 .. top \subseteq Nat, SeqMonotonic
<1>3. /\ U[0] = <<>>
      /\ \A k \in 1 .. N : U[k] = IF s[k] = Header THEN U[k - 1] ELSE Append(U[k - 1], s[k])
  BY <1>2, SlicesFacts
<1> HIDE DEF U
<1>4. 0 \in Good
  <2>1. U[0] \in Seq(1 .. top) /\ DOMAIN U[0] = {}
    BY <1>3
  <2> QED
    BY <1>1, <2>1 DEF Up!Ascending
<1>5. ASSUME NEW n \in 0 .. (N - 1), n \in Good PROVE n + 1 \in Good
  <2> DEFINE k == n + 1
             x == U[n]
  <2>1. k \in 1 .. N /\ k - 1 = n /\ n \in Nat /\ n < k
    BY <1>1
  <2>2. T(n)
    BY <1>5
  <2>3. CASE s[k] = Header
    <3>1. U[k] = x
      BY <1>3, <2>1, <2>3
    <3>2. \A i \in 1 .. n : i \in 1 .. k
      BY <2>1
    <3>3. T(k)
      BY <2>2, <3>1, <3>2
    <3>4. k \in 0 .. N
      BY <1>1, <2>1
    <3> HIDE DEF T
    <3> QED
      BY <3>3, <3>4
  <2>4. CASE s[k] # Header
    <3>1. U[k] = Append(x, s[k])
      BY <1>3, <2>1, <2>4
    <3>2. s[k] \in 1 .. top
      BY <1>1, <2>1, <2>4 DEF Header
    <3>3. x \in Seq(1 .. top)
      BY <2>2
    <3> DEFINE last == Len(x) + 1
               y == Append(x, s[k])
    <3>4. /\ y \in Seq(1 .. top)
          /\ \A i \in DOMAIN y : i \in DOMAIN x \/ i = last
          /\ \A i \in DOMAIN x : y[i] = x[i] /\ i < last
          /\ DOMAIN y \subseteq Int /\ last \in Int
          /\ y[last] = s[k]
      <4> DEFINE e == s[k]
      <4>1. e \in 1 .. top
        BY <3>2
      <4> HIDE DEF x, e
      <4>2. /\ Append(x, e) \in Seq(1 .. top)
            /\ \A i \in DOMAIN Append(x, e) : i \in DOMAIN x \/ i = Len(x) + 1
            /\ \A i \in DOMAIN x : Append(x, e)[i] = x[i] /\ i < Len(x) + 1
            /\ DOMAIN Append(x, e) \subseteq Int /\ Len(x) + 1 \in Int
            /\ Append(x, e)[Len(x) + 1] = e
        BY <3>3, <4>1, AppendedPositions
      <4> QED
        BY <4>2, Zenon DEF e
    <3>5. ASSUME NEW j \in DOMAIN x PROVE x[j] < s[k]
      <4>1. PICK i \in 1 .. n : s[i] # Header /\ x[j] = s[i]
        BY <2>2
      <4>2. i \in DOMAIN s /\ k \in DOMAIN s /\ i < k
        BY <1>1, <2>1
      <4> QED
        BY <2>4, <4>1, <4>2 DEF Rising
    <3> HIDE DEF x, y, last
    <3>6. ASSUME NEW i \in DOMAIN y, NEW j \in DOMAIN y, i < j PROVE y[i] < y[j]
      <4>1. i \in DOMAIN x
        <5>1. i \in Int /\ j \in Int /\ last \in Int /\ (j = last \/ j < last)
          BY <3>4
        <5>2. i # last
          BY <3>6, <5>1
        <5> QED
          BY <3>4, <5>2
      <4>2. CASE j = last
        BY <3>4, <3>5, <4>1, <4>2
      <4>3. CASE j \in DOMAIN x
        <5>1. x[i] < x[j]
          BY <2>2, <3>6, <4>1, <4>3 DEF Up!Ascending, x
        <5> QED
          BY <3>4, <4>1, <4>3, <5>1
      <4> QED
        BY <3>4, <4>2, <4>3
    <3>7. ASSUME NEW j \in DOMAIN y PROVE \E i \in 1 .. k : s[i] # Header /\ y[j] = s[i]
      <4>1. CASE j \in DOMAIN x
        <5>1. PICK i \in 1 .. n : s[i] # Header /\ x[j] = s[i]
          BY <2>2, <4>1 DEF x
        <5>2. i \in 1 .. k /\ y[j] = x[j]
          BY <2>1, <3>4, <4>1
        <5> QED
          BY <5>1, <5>2
      <4>2. CASE j = last
        <5>1. k \in 1 .. k
          BY <2>1
        <5> QED
          BY <2>4, <3>4, <4>2, <5>1
      <4> QED
        BY <3>4, <4>1, <4>2
    <3>8. U[k] = y
      BY <3>1 DEF y
    <3> HIDE DEF k
    <3>9. T(k)
      BY <3>4, <3>6, <3>7, <3>8 DEF Up!Ascending
    <3>10. k \in 0 .. N
      BY <2>1
    <3>11. k \in Good
      BY <3>9, <3>10
    <3> QED
      BY <3>11 DEF k
  <2> QED
    BY <2>3, <2>4
<1>6. 0 .. N \subseteq Good
  <2> HIDE DEF Good
  <2> QED
    BY <1>1, <1>4, <1>5, BoundedInduction
<1>7. N \in Good
  BY <1>1, <1>6
<1>8. Slices(s) = U[N]
  BY DEF Slices, U
<1> QED
  BY <1>7, <1>8

(* Associativity, and a longer sequence begins with the shorter. *)
LEMMA AppendOfConcat ==
  ASSUME NEW s \in Seq(Nat), NEW t \in Seq(Nat), NEW e \in Nat
  PROVE  Append(s \o t, e) = s \o Append(t, e)
<1>1. <<e>> \in Seq(Nat) /\ s \o t \in Seq(Nat)
  OBVIOUS
<1>2. Append(s \o t, e) = (s \o t) \o <<e>> /\ Append(t, e) = t \o <<e>>
  BY <1>1, AppendIsConcat
<1>3. s \o (t \o <<e>>) = (s \o t) \o <<e>>
  BY <1>1, Associates, Zenon
<1> QED
  BY <1>2, <1>3

LEMMA LongerByConcat ==
  ASSUME NEW s \in Seq(Nat), NEW t \in Seq(Nat), t # <<>>
  PROVE  Len(s \o t) > Len(s) /\ SubSeq(s \o t, 1, Len(s)) = s
<1>1. Len(s) \in Nat /\ Len(t) \in Nat \ {0}
  BY EmptySeq
<1>2. s \o t \in Seq(Nat) /\ Len(s \o t) = Len(s) + Len(t) /\ \A i \in DOMAIN s : (s \o t)[i] = s[i]
  BY InConcat
<1> DEFINE u == s \o t
<1> HIDE DEF u
<1>3. u \in Seq(Nat) /\ Len(u) > Len(s) /\ \A i \in DOMAIN s : u[i] = s[i]
  BY <1>1, <1>2 DEF u
<1>4. SubSeq(u, 1, Len(s)) = s
  <2>1. SubSeq(u, 1, Len(s)) \in Seq(Nat) /\ Len(SubSeq(u, 1, Len(s))) = Len(s)
    BY <1>1, <1>3
  <2>2. \A i \in 1 .. Len(s) : SubSeq(u, 1, Len(s))[i] = s[i]
    BY <1>1, <1>3
  <2> QED
    BY <2>1, <2>2, SeqEqual
<1> QED
  BY <1>3, <1>4 DEF u

(* What comes later does not change the data before. *)
LEMMA SlicesGrow ==
  ASSUME NEW s \in Seq(Nat), NEW t \in Seq(Nat)
  PROVE  \E rest \in Seq(Nat) : Slices(s \o t) = Slices(s) \o rest /\ Slices(s) \in Seq(Nat)
<1> DEFINE A == SlicesUpTo(s)
           u == s \o t
           B == SlicesUpTo(u)
           M == Len(s)
           N == Len(t)
           Same == {k \in 0 .. M : B[k] = A[k] /\ A[k] \in Seq(Nat)}
           More == {k \in 0 .. N : \E rest \in Seq(Nat) : B[M + k] = A[M] \o rest}
<1>1. /\ M \in Nat /\ N \in Nat /\ u \in Seq(Nat) /\ Len(u) = M + N
      /\ \A i \in 1 .. M : u[i] = s[i] /\ i \in 1 .. M + N
      /\ \A i \in 1 .. N : M + i \in 1 .. M + N /\ (M + i) - 1 = M + (i - 1)
  <2>1. u \in Seq(Nat) /\ Len(u) = M + N /\ \A i \in DOMAIN s : u[i] = s[i]
    BY InConcat
  <2> QED
    BY <2>1
<1>2. /\ A[0] = <<>>
      /\ \A k \in 1 .. M : A[k] = IF s[k] = Header THEN A[k - 1] ELSE Append(A[k - 1], s[k])
  BY SlicesFacts
<1>3. /\ B[0] = <<>>
      /\ \A k \in 1 .. M + N : B[k] = IF u[k] = Header THEN B[k - 1] ELSE Append(B[k - 1], u[k])
  <2> HIDE DEF u, M, N
  <2>1. /\ B[0] = <<>>
        /\ \A k \in 1 .. Len(u) : B[k] = IF u[k] = Header THEN B[k - 1] ELSE Append(B[k - 1], u[k])
    BY <1>1, SlicesFacts
  <2> QED
    BY <1>1, <2>1
<1>4. /\ \A i \in 1 .. M : s[i] \in Nat
      /\ \A i \in 1 .. M + N : u[i] \in Nat
  <2>1. \A i \in 1 .. M : s[i] \in Nat
    OBVIOUS
  <2> HIDE DEF u, M, N
  <2>2. \A i \in 1 .. Len(u) : u[i] \in Nat
    BY <1>1
  <2> QED
    BY <1>1, <2>1, <2>2
<1> HIDE DEF A, B, u, M, N
<1>5. 0 \in Same
  <2>1. 0 \in 0 .. M /\ <<>> \in Seq(Nat)
    BY <1>1
  <2> QED
    BY <1>2, <1>3, <2>1, Zenon
<1>6. ASSUME NEW n \in 0 .. (M - 1), n \in Same PROVE n + 1 \in Same
  <2>1. n + 1 \in 1 .. M /\ (n + 1) - 1 = n /\ n + 1 \in 0 .. M
    BY <1>1
  <2>2. /\ A[n + 1] = IF s[n + 1] = Header THEN A[n] ELSE Append(A[n], s[n + 1])
        /\ B[n + 1] = IF u[n + 1] = Header THEN B[n] ELSE Append(B[n], u[n + 1])
        /\ u[n + 1] = s[n + 1]
    BY <1>1, <1>2, <1>3, <2>1
  <2>3. B[n] = A[n] /\ A[n] \in Seq(Nat) /\ s[n + 1] \in Nat
    BY <1>4, <1>6, <2>1
  <2>4. Append(A[n], s[n + 1]) \in Seq(Nat)
    BY <2>3, AppendProperties
  <2>5. B[n + 1] = A[n + 1] /\ A[n + 1] \in Seq(Nat)
    BY <2>2, <2>3, <2>4, Zenon
  <2> QED
    BY <2>1, <2>5, Zenon
<1>7. 0 .. M \subseteq Same
  <2> HIDE DEF Same
  <2> QED
    BY <1>1, <1>5, <1>6, BoundedInduction
<1>8. B[M] = A[M] /\ A[M] \in Seq(Nat)
  BY <1>1, <1>7
<1>9. 0 \in More
  <2>1. A[M] = A[M] \o <<>> /\ <<>> \in Seq(Nat) /\ M + 0 = M
    BY <1>1, <1>8
  <2>2. B[M + 0] = A[M] \o <<>>
    BY <1>8, <2>1
  <2>3. 0 \in 0 .. N
    BY <1>1
  <2> QED
    BY <2>1, <2>2, <2>3, Zenon
<1>10. ASSUME NEW n \in 0 .. (N - 1), n \in More PROVE n + 1 \in More
  <2>1. n + 1 \in 1 .. N /\ (n + 1) - 1 = n /\ n + 1 \in 0 .. N
    BY <1>1
  <2>2. M + (n + 1) \in 1 .. M + N /\ (M + (n + 1)) - 1 = M + n
    BY <1>1, <2>1
  <2>3. PICK rest \in Seq(Nat) : B[M + n] = A[M] \o rest
    BY <1>10
  <2>4. B[M + (n + 1)] = IF u[M + (n + 1)] = Header THEN B[M + n]
                         ELSE Append(B[M + n], u[M + (n + 1)])
    BY <1>3, <2>2
  <2>5. u[M + (n + 1)] \in Nat
    BY <1>4, <2>2
  <2>6. CASE u[M + (n + 1)] = Header
    BY <2>1, <2>3, <2>4, <2>6
  <2>7. CASE u[M + (n + 1)] # Header
    <3> DEFINE e == u[M + (n + 1)]
    <3>1. Append(A[M] \o rest, e) = A[M] \o Append(rest, e)
      BY <1>8, <2>5, AppendOfConcat
    <3>2. Append(rest, e) \in Seq(Nat)
      BY <2>5
    <3> HIDE DEF e
    <3>3. B[M + (n + 1)] = A[M] \o Append(rest, e)
      BY <2>3, <2>4, <2>7, <3>1 DEF e
    <3> QED
      BY <2>1, <3>2, <3>3
  <2> QED
    BY <2>6, <2>7
<1>11. 0 .. N \subseteq More
  <2> HIDE DEF More
  <2> QED
    BY <1>1, <1>9, <1>10, BoundedInduction
<1>12. PICK rest \in Seq(Nat) : B[M + N] = A[M] \o rest
  <2>1. N \in 0 .. N
    BY <1>1
  <2> QED
    BY <1>11, <2>1, Zenon
<1>13. Slices(s) = A[M] /\ Slices(s \o t) = B[M + N]
  BY <1>1 DEF Slices, A, B, u, M
<1> QED
  BY <1>8, <1>12, <1>13

(* Towards the client: a step is one of the abstract stream, or none. *)
LEMMA DownRefines ==
  TypeOK /\ DownInv /\ DownInv' /\ [Next]_vars
    => [Down!SSend \/ Down!SDeliver]_<<writes, Slices(received)>>
<1> SUFFICES ASSUME TypeOK, DownInv, DownInv', [Next]_vars
             PROVE  Down!SSend \/ Down!SDeliver \/ UNCHANGED <<writes, Slices(received)>>
  OBVIOUS
<1>1. CASE UNCHANGED <<received, writes>>
  BY <1>1
<1>2. CASE received' = received /\ writes' = writes + 1
  BY <1>2 DEF Down!SSend
<1>3. CASE RecvReturns
  <2> DEFINE a == SubSeq(_inputStream, 1, want)
             old == Slices(received)
             new == Slices(received')
  <2>1. received' = received \o a /\ writes' = writes
    BY <1>3 DEF RecvReturns, router
  <2>2. received \in Seq(Nat) /\ _inputStream \in Seq(Nat) /\ writes \in Nat
    BY StreamTypes
  <2>3. want \in 0 .. Len(_inputStream)
    BY <1>3, <2>2, TunnelAssumption DEF TunnelAssumption, RecvReturns, TypeOK
  <2>4. a \in Seq(Nat)
    BY <2>2, <2>3, PrefixType
  <2> HIDE DEF a
  <2>5. PICK rest \in Seq(Nat) : new = old \o rest /\ old \in Seq(Nat)
    BY <2>1, <2>2, <2>4, SlicesGrow
  <2>6. new \in Seq(1 .. writes) /\ Up!Ascending(new)
    <3>1. received' \in Seq(Nat) /\ _inputStream' \in Seq(Nat)
      <4>1. received' \in Seq(Nat)
        BY <2>1, <2>2, <2>4, ConcatProperties
      <4>2. _inputStream' \in Seq(Nat)
        BY <1>3, <2>2, <2>3, SuffixType DEF RecvReturns
      <4> QED
        BY <4>1, <4>2
    <3>2. PartOf(received', Stream')
      BY <3>1, ConcatPart DEF Stream
    <3>3. Rising(Stream') /\ Stream' \in Seq(0 .. writes)
      BY <2>1 DEF DownInv, DownTypes, Orderly
    <3>4. Rising(received') /\ received' \in Seq(0 .. writes)
      BY <3>1, <3>2, <3>3, PartRises, PartType
    <3> QED
      BY <2>2, <3>4, SlicesRise
  <2> HIDE DEF old, new
  <2>7. CASE rest = <<>>
    <3>1. new = old
      BY <2>5, <2>7
    <3> QED
      BY <2>1, <3>1 DEF old, new
  <2>8. CASE rest # <<>>
    <3>1. Len(new) > Len(old) /\ SubSeq(new, 1, Len(old)) = old
      BY <2>5, <2>8, LongerByConcat
    <3>2. \A i \in DOMAIN new : new[i] \in 1 .. writes
      BY <2>6, ElementIn
    <3>3. Down!Ascending(new)
      BY <2>6 DEF Up!Ascending, Down!Ascending
    <3> QED
      BY <2>1, <3>1, <3>2, <3>3 DEF Down!SDeliver, old, new
  <2> QED
    BY <2>7, <2>8
<1>4. CASE UNCHANGED vars
  BY <1>1, <1>4 DEF vars, client, router
<1>5. CASE Client /\ ~RecvReturns
  BY <1>1, <1>5 DEF Client, ClientOpen, ClientClose, ClientSend, ClientRecv, HandleFrame, router
<1>6. CASE Worker
  BY <1>1, <1>6 DEF Worker, HandleSerial, HandleOpen, HandleClose, HandleSend, Serial_incoming,
     RecvUnblocked, RecvResult, Invoke, OnError, client, router
<1>7. CASE Router
  BY <1>1, <1>2, <1>7 DEF Router, RouterWrite, RouterEnds, client
<1>8. CASE Lose \/ ClientRestart \/ ProxyRestart
  BY <1>1, <1>8 DEF Lose, ClientRestart, ProxyRestart, client, router
<1> QED
  BY <1>3, <1>4, <1>5, <1>6, <1>7, <1>8 DEF Next, OpenAborts

(* Both directions of the tunnel are byte streams that may lose but never  *)
(* repeat or reorder (unix_serial.cpp:60-124 and 268, tcp_session.cpp:44): *)
(* under any loss, restart and overlap of connections, every step sends,   *)
(* delivers in order, or does neither.                                     *)
THEOREM TunnelImplementsStreams == Spec => ImplementsStreams
<1>1. Init => Up!SInit
  <2> SUFFICES ASSUME Init PROVE Up!SInit
    OBVIOUS
  <2>1. sends = 0 /\ arrived = <<>>
    BY DEF Init
  <2>2. [i \in DOMAIN arrived |-> arrived[i].n] = <<>>
    BY <2>1
  <2> QED
    BY <2>1, <2>2 DEF Up!SInit
<1>2. Init => Down!SInit
  <2> SUFFICES ASSUME Init PROVE Down!SInit
    OBVIOUS
  <2>1. writes = 0 /\ received = <<>> /\ <<>> \in Seq(Nat) /\ Len(<<>>) = 0
    BY DEF Init
  <2>2. Slices(received) = <<>>
    BY <2>1, SlicesFacts DEF Slices
  <2> QED
    BY <2>1, <2>2 DEF Down!SInit
<1> QED
  BY <1>1, <1>2, UpRefines, DownRefines, TunnelTypes, UpInvariant, DownInvariant, PTL
  DEF Spec, ImplementsStreams, Up!SSpec, Down!SSpec

-----------------------------------------------------------------------------
(* Sessions.  l is the line to the proxy, st where each session starts,    *)
(* ses how many there were and top how many slices were sent.              *)
After(l, n, k) == \E i \in DOMAIN l : i > k /\ l[i] = TCP_SEND(n)
(* After position k the line holds the open of session s. *)
Opens(l, s, k) == \E i \in DOMAIN l : i > k /\ l[i] = TCP_OPEN(s)

(* Behind the open of a session at k are the slices of it and of the later *)
(* ones, and the open of the next.                                         *)
OpensSession(l, k, st, ses, top) ==
  LET s == l[k].session
  IN  /\ s \in 1 .. ses
      /\ \A n \in 1 .. top : (After(l, n, k) <=> n > st[s])
      /\ s < ses => Opens(l, s + 1, k)

(* Every open on the line is followed by what its session sent and sends. *)
LineOK(l, st, ses, top) ==
  \A k \in DOMAIN l : l[k].type = "open" => OpensSession(l, k, st, ses, top)

(* For the socket that serves session s: the slices still to come are of s *)
(* or later, the next session has yet to be opened, and together with got, *)
(* what was delivered, they are all.                                       *)
Serves(l, s, st, ses, top) ==
  /\ s \in 1 .. ses
  /\ \A n \in 1 .. top : After(l, n, 0) => n > st[s]
  /\ s < ses => Opens(l, s + 1, 0)

(* No slice of session s is missing: each is on the line or was written. *)
Complete(l, s, st, top, got) == \A n \in 1 .. top : n > st[s] => After(l, n, 0) \/ n \in got

(* Sessions start after slices that were sent. *)
StartsOK(st, ses, top) == st \in [1 .. ses -> 0 .. top]

(* Frames that have left the line at its front. *)
LEMMA SuffixPositions ==
  ASSUME NEW l \in Seq(Frame), NEW m \in 0 .. Len(l)
  PROVE  LET t == SubSeq(l, m + 1, Len(l))
         IN  /\ DOMAIN t \subseteq Int /\ DOMAIN l \subseteq Int /\ m \in Int
             /\ \A i \in DOMAIN t : i > 0 /\ i + m \in DOMAIN l /\ t[i] = l[i + m]
             /\ \A i \in DOMAIN l : i > m => i - m \in DOMAIN t /\ t[i - m] = l[i]
<1> DEFINE t == SubSeq(l, m + 1, Len(l))
<1>1. /\ DOMAIN l = 1 .. Len(l) /\ DOMAIN t = 1 .. (Len(l) - m)
      /\ Len(l) \in Nat /\ m \in Nat
      /\ \A i \in DOMAIN t : t[i] = l[i + m]
  OBVIOUS
<1> HIDE DEF t
<1>2. ASSUME NEW i \in DOMAIN t PROVE i > 0 /\ i + m \in DOMAIN l /\ t[i] = l[i + m]
  BY <1>1
<1>3. ASSUME NEW i \in DOMAIN l, i > m PROVE i - m \in DOMAIN t /\ t[i - m] = l[i]
  <2>1. i \in Nat /\ i - m \in DOMAIN t /\ (i - m) + m = i
    BY <1>1, <1>3
  <2> QED
    BY <1>1, <2>1
<1>4. DOMAIN t \subseteq Int /\ DOMAIN l \subseteq Int /\ m \in Int
  BY <1>1
<1> QED
  BY <1>2, <1>3, <1>4 DEF t

(* What is left of a line whose first frames were taken. *)
LEMMA SuffixAfter ==
  ASSUME NEW l \in Seq(Frame), NEW m \in 0 .. Len(l), NEW k \in Nat
  PROVE  LET t == SubSeq(l, m + 1, Len(l))
         IN  /\ \A n : (After(t, n, k) <=> After(l, n, k + m))
             /\ \A s : (Opens(t, s, k) <=> Opens(l, s, k + m))
<1> DEFINE t == SubSeq(l, m + 1, Len(l))
<1>1. /\ DOMAIN t \subseteq Int /\ DOMAIN l \subseteq Int /\ m \in Int
      /\ \A i \in DOMAIN t : i > 0 /\ i + m \in DOMAIN l /\ t[i] = l[i + m]
      /\ \A i \in DOMAIN l : i > m => i - m \in DOMAIN t /\ t[i - m] = l[i]
  BY SuffixPositions
<1> HIDE DEF t
<1>2. m >= 0
  OBVIOUS
<1>3. ASSUME NEW e, NEW i \in DOMAIN t, i > k, t[i] = e
      PROVE  \E j \in DOMAIN l : j > k + m /\ l[j] = e
  <2>1. i + m \in DOMAIN l /\ i + m > k + m /\ l[i + m] = e
    BY <1>1, <1>3
  <2> QED
    BY <2>1
<1>4. ASSUME NEW e, NEW j \in DOMAIN l, j > k + m, l[j] = e
      PROVE  \E i \in DOMAIN t : i > k /\ t[i] = e
  <2>1. j \in Int /\ j > m /\ j - m > k
    BY <1>1, <1>2, <1>4
  <2>2. j - m \in DOMAIN t /\ t[j - m] = e
    BY <1>1, <1>4, <2>1
  <2> QED
    BY <2>1, <2>2
<1>5. ASSUME NEW n PROVE After(t, n, k) <=> After(l, n, k + m)
  BY <1>3, <1>4 DEF After
<1>6. ASSUME NEW s PROVE Opens(t, s, k) <=> Opens(l, s, k + m)
  BY <1>3, <1>4 DEF Opens
<1> QED
  BY <1>5, <1>6 DEF t

LEMMA SuffixLine ==
  ASSUME NEW l \in Seq(Frame), NEW m \in 0 .. Len(l), NEW st, NEW ses, NEW top,
         LineOK(l, st, ses, top)
  PROVE  LineOK(SubSeq(l, m + 1, Len(l)), st, ses, top)
<1> DEFINE t == SubSeq(l, m + 1, Len(l))
<1>1. /\ DOMAIN t \subseteq Int /\ m \in Int
      /\ \A i \in DOMAIN t : i > 0 /\ i + m \in DOMAIN l /\ t[i] = l[i + m]
  BY SuffixPositions
<1>2. \A k \in Nat : /\ \A n : (After(t, n, k) <=> After(l, n, k + m))
                     /\ \A s : (Opens(t, s, k) <=> Opens(l, s, k + m))
  BY SuffixAfter
<1> HIDE DEF t
<1>3. ASSUME NEW k \in DOMAIN t, t[k].type = "open" PROVE OpensSession(t, k, st, ses, top)
  <2>1. k \in Nat /\ k + m \in DOMAIN l /\ t[k] = l[k + m]
    BY <1>1
  <2>2. OpensSession(l, k + m, st, ses, top)
    BY <1>3, <2>1, Zenon DEF LineOK
  <2>3. /\ \A n : (After(t, n, k) <=> After(l, n, k + m))
        /\ \A s : (Opens(t, s, k) <=> Opens(l, s, k + m))
    BY <1>2, <2>1, Zenon
  <2> QED
    BY <2>1, <2>2, <2>3, Zenon DEF OpensSession
<1> QED
  BY <1>3 DEF LineOK, t

(* Frames that come onto the line. *)
LEMMA AppendAfter ==
  ASSUME NEW l \in Seq(Frame), NEW e \in Frame, NEW k \in Nat, k <= Len(l)
  PROVE  LET t == Append(l, e)
         IN  /\ \A n : (After(t, n, k) <=> (After(l, n, k) \/ e = TCP_SEND(n)))
             /\ \A s : (Opens(t, s, k) <=> (Opens(l, s, k) \/ e = TCP_OPEN(s)))
<1> DEFINE t == Append(l, e)
           last == Len(l) + 1
<1>1. /\ \A i \in DOMAIN t : i \in DOMAIN l \/ i = last
      /\ \A i \in DOMAIN l : t[i] = l[i] /\ i \in DOMAIN t
      /\ last \in DOMAIN t /\ t[last] = e /\ last > k
  OBVIOUS
<1> HIDE DEF t, last
<1>2. ASSUME NEW n PROVE After(t, n, k) <=> (After(l, n, k) \/ e = TCP_SEND(n))
  BY <1>1, Zenon DEF After
<1>3. ASSUME NEW s PROVE Opens(t, s, k) <=> (Opens(l, s, k) \/ e = TCP_OPEN(s))
  BY <1>1, Zenon DEF Opens
<1> QED
  BY <1>2, <1>3 DEF t

(* Nothing follows the last frame, and frames of different kinds differ. *)
LEMMA NothingAfter ==
  ASSUME NEW l \in Seq(Frame), NEW n PROVE ~After(l, n, Len(l))
  BY DEF After

LEMMA DistinctFrames ==
  /\ \A n, s : TCP_SEND(n) # TCP_OPEN(s) /\ TCP_CLOSE # TCP_SEND(n) /\ TCP_CLOSE # TCP_OPEN(s)
  /\ \A n, m : TCP_SEND(n) = TCP_SEND(m) => n = m
  /\ \A n, m : TCP_OPEN(n) = TCP_OPEN(m) => n = m
<1>1. /\ \A n : TCP_SEND(n).type = "send" /\ TCP_SEND(n).data[1] = n
      /\ \A s : TCP_OPEN(s).type = "open" /\ TCP_OPEN(s).session = s
      /\ TCP_CLOSE.type = "close"
  BY DEF TCP_SEND, TCP_OPEN, TCP_CLOSE
<1>2. "send" # "open" /\ "close" # "send" /\ "close" # "open"
  OBVIOUS
<1>3. ASSUME NEW n, NEW m, TCP_SEND(n) = TCP_SEND(m) PROVE n = m
  <2>1. TCP_SEND(n).data[1] = TCP_SEND(m).data[1]
    BY <1>3
  <2> QED
    BY <1>1, <2>1
<1>4. ASSUME NEW n, NEW m, TCP_OPEN(n) = TCP_OPEN(m) PROVE n = m
  <2>1. TCP_OPEN(n).session = TCP_OPEN(m).session
    BY <1>4
  <2> QED
    BY <1>1, <2>1
<1> QED
  BY <1>1, <1>2, <1>3, <1>4, Zenon

-----------------------------------------------------------------------------
(* A frame is sent: a close, the open of the next session, the next slice. *)
LEMMA AppendLine ==
  ASSUME NEW l \in Seq(Frame), NEW e \in Frame, e.type # "open", NEW st, NEW ses, NEW top,
         LineOK(l, st, ses, top), NEW more,
         \A k \in DOMAIN l : l[k].type = "open" =>
           (OpensSession(l, k, st, ses, top) => OpensSession(Append(l, e), k, st, ses, more))
  PROVE  LineOK(Append(l, e), st, ses, more)
<1> DEFINE t == Append(l, e)
           last == Len(l) + 1
<1>1. /\ \A i \in DOMAIN t : i \in DOMAIN l \/ i = last
      /\ \A i \in DOMAIN l : t[i] = l[i]
      /\ t[last] = e
  OBVIOUS
<1> HIDE DEF t, last
<1>2. \A k \in DOMAIN l : l[k].type = "open" => OpensSession(t, k, st, ses, more)
  BY Zenon DEF LineOK, t
<1>3. LineOK(t, st, ses, more)
  BY <1>1, <1>2, Zenon DEF LineOK
<1> QED
  BY <1>3 DEF t

(* The three frames the client sends. *)
LEMMA CloseLine ==
  ASSUME NEW l \in Seq(Frame), NEW st, NEW ses, NEW top, LineOK(l, st, ses, top)
  PROVE  /\ LineOK(Append(l, TCP_CLOSE), st, ses, top)
         /\ \A n : (After(Append(l, TCP_CLOSE), n, 0) <=> After(l, n, 0))
         /\ \A s : (Opens(Append(l, TCP_CLOSE), s, 0) <=> Opens(l, s, 0))
<1> DEFINE t == Append(l, TCP_CLOSE)
<1>1. TCP_CLOSE \in Frame /\ TCP_CLOSE.type # "open"
  BY FrameTypes DEF TCP_CLOSE
<1>2. ASSUME NEW k \in Nat, k <= Len(l)
      PROVE  /\ \A n : (After(t, n, k) <=> After(l, n, k))
             /\ \A s : (Opens(t, s, k) <=> Opens(l, s, k))
  <2>1. /\ \A n : (After(Append(l, TCP_CLOSE), n, k) <=> (After(l, n, k) \/ TCP_CLOSE = TCP_SEND(n)))
        /\ \A s : (Opens(Append(l, TCP_CLOSE), s, k) <=> (Opens(l, s, k) \/ TCP_CLOSE = TCP_OPEN(s)))
    BY <1>1, <1>2, AppendAfter
  <2>2. \A n : TCP_CLOSE # TCP_SEND(n)
    BY DistinctFrames
  <2>3. \A s : TCP_CLOSE # TCP_OPEN(s)
    BY DistinctFrames
  <2>4. t = Append(l, TCP_CLOSE)
    BY DEF t
  <2> HIDE DEF t
  <2> QED
    BY <2>1, <2>2, <2>3, <2>4, Zenon
<1>3. ASSUME NEW k \in DOMAIN l, OpensSession(l, k, st, ses, top)
      PROVE  OpensSession(t, k, st, ses, top)
  <2>1. k \in Nat /\ k <= Len(l) /\ t[k] = l[k]
    OBVIOUS
  <2> HIDE DEF t
  <2>2. /\ \A n : (After(t, n, k) <=> After(l, n, k))
        /\ \A s : (Opens(t, s, k) <=> Opens(l, s, k))
    BY <1>2, <2>1, Zenon
  <2> QED
    BY <1>3, <2>1, <2>2, Zenon DEF OpensSession
<1>4. 0 \in Nat /\ 0 <= Len(l)
  OBVIOUS
<1>5. LineOK(t, st, ses, top)
  BY <1>1, <1>3, AppendLine
<1> QED
  BY <1>2, <1>4, <1>5

LEMMA OpenLine ==
  ASSUME NEW l \in Seq(Frame), NEW ses \in Nat, NEW top \in Nat, NEW st, StartsOK(st, ses, top),
         LineOK(l, st, ses, top)
  PROVE  LET t == Append(l, TCP_OPEN(ses + 1))
             su == Append(st, top)
         IN  /\ StartsOK(su, ses + 1, top) /\ \A s \in 1 .. ses : su[s] = st[s]
             /\ LineOK(t, su, ses + 1, top)
             /\ \A n : (After(t, n, 0) <=> After(l, n, 0))
             /\ \A s : (Opens(t, s, 0) <=> (Opens(l, s, 0) \/ s = ses + 1))
<1> DEFINE e == TCP_OPEN(ses + 1)
           t == Append(l, e)
           su == Append(st, top)
           last == Len(l) + 1
<1>1. e \in Frame /\ e.type = "open" /\ e.session = ses + 1
  BY FrameTypes DEF TCP_OPEN
<1>2. st \in Seq(0 .. top) /\ Len(st) = ses
  BY FunctionSeq DEF StartsOK
<1>3. /\ su \in Seq(0 .. top) /\ Len(su) = ses + 1
      /\ \A s \in 1 .. ses : su[s] = st[s]
      /\ su[ses + 1] = top
  <2>1. top \in 0 .. top
    OBVIOUS
  <2> QED
    BY <1>2, <2>1, AppendProperties
<1>4. StartsOK(su, ses + 1, top)
  BY <1>3, LenProperties DEF StartsOK
<1>5. ASSUME NEW k \in Nat, k <= Len(l)
      PROVE  /\ \A n : (After(t, n, k) <=> After(l, n, k))
             /\ \A s : (Opens(t, s, k) <=> (Opens(l, s, k) \/ s = ses + 1))
  <2>1. /\ \A n : (After(Append(l, e), n, k) <=> (After(l, n, k) \/ e = TCP_SEND(n)))
        /\ \A s : (Opens(Append(l, e), s, k) <=> (Opens(l, s, k) \/ e = TCP_OPEN(s)))
    BY <1>1, <1>5, AppendAfter
  <2>2. \A n : e # TCP_SEND(n)
    BY DistinctFrames
  <2>3. \A s : (e = TCP_OPEN(s) <=> s = ses + 1)
    BY DistinctFrames
  <2>4. t = Append(l, e)
    BY DEF t
  <2> HIDE DEF t, e
  <2> QED
    BY <2>1, <2>2, <2>3, <2>4, Zenon
<1>6. /\ \A i \in DOMAIN t : i \in DOMAIN l \/ i = last
      /\ \A i \in DOMAIN l : t[i] = l[i] /\ i \in Nat /\ i <= Len(l)
      /\ t[last] = e /\ last = Len(t) /\ t \in Seq(Frame)
  BY <1>1
<1> HIDE DEF t, e, su, last
<1>7. ASSUME NEW k \in DOMAIN l, l[k].type = "open" PROVE OpensSession(t, k, su, ses + 1, top)
  <2> DEFINE s == l[k].session
  <2>1. /\ s \in 1 .. ses
        /\ \A n \in 1 .. top : (After(l, n, k) <=> n > st[s])
        /\ s < ses => Opens(l, s + 1, k)
    BY <1>7 DEF LineOK, OpensSession
  <2>2. /\ t[k] = l[k]
        /\ \A n : (After(t, n, k) <=> After(l, n, k))
        /\ \A u : (Opens(t, u, k) <=> (Opens(l, u, k) \/ u = ses + 1))
    BY <1>5, <1>6, Zenon
  <2> HIDE DEF s
  <2>3. s \in 1 .. ses + 1 /\ su[s] = st[s]
    BY <1>3, <2>1
  <2>4. \A n \in 1 .. top : (After(t, n, k) <=> n > su[s])
    BY <2>1, <2>2, <2>3
  <2>5. s < ses + 1 => Opens(t, s + 1, k)
    <3>1. s < ses + 1 => s < ses \/ s + 1 = ses + 1
      BY <2>1
    <3> QED
      BY <2>1, <2>2, <3>1, Zenon
  <2> QED
    BY <2>2, <2>3, <2>4, <2>5, Zenon DEF OpensSession, s
<1>8. OpensSession(t, last, su, ses + 1, top)
  <2>1. t[last].session = ses + 1
    BY <1>1, <1>6
  <2>2. \A n \in 1 .. top : ~After(t, n, last) /\ ~(n > top)
    BY <1>6, NothingAfter
  <2>3. ses + 1 \in 1 .. ses + 1 /\ ~(ses + 1 < ses + 1)
    OBVIOUS
  <2>4. \A n \in 1 .. top : (After(t, n, last) <=> n > su[ses + 1])
    BY <1>3, <2>2
  <2> QED
    BY <2>1, <2>3, <2>4, Zenon DEF OpensSession
<1>9. LineOK(t, su, ses + 1, top)
  BY <1>6, <1>7, <1>8, Zenon DEF LineOK
<1>10. 0 \in Nat /\ 0 <= Len(l)
  OBVIOUS
<1> QED
  BY <1>3, <1>4, <1>5, <1>9, <1>10 DEF t, su, e

LEMMA SendLine ==
  ASSUME NEW l \in Seq(Frame), NEW ses \in Nat, NEW top \in Nat, NEW st, StartsOK(st, ses, top),
         LineOK(l, st, ses, top), SendsSent(l, top)
  PROVE  LET t == Append(l, TCP_SEND(top + 1))
         IN  /\ StartsOK(st, ses, top + 1)
             /\ LineOK(t, st, ses, top + 1)
             /\ \A n : (After(t, n, 0) <=> (After(l, n, 0) \/ n = top + 1))
             /\ \A s : (Opens(t, s, 0) <=> Opens(l, s, 0))
<1> DEFINE e == TCP_SEND(top + 1)
           t == Append(l, e)
<1>1. e \in Frame /\ e.type # "open"
  BY FrameTypes DEF TCP_SEND
<1>2. StartsOK(st, ses, top + 1) /\ \A s \in 1 .. ses : st[s] \in 0 .. top
  <2>1. 0 .. top \subseteq 0 .. top + 1
    OBVIOUS
  <2> QED
    BY <2>1 DEF StartsOK
<1>3. ASSUME NEW k \in Nat, k <= Len(l)
      PROVE  /\ \A n : (After(t, n, k) <=> (After(l, n, k) \/ n = top + 1))
             /\ \A s : (Opens(t, s, k) <=> Opens(l, s, k))
  <2>1. /\ \A n : (After(Append(l, e), n, k) <=> (After(l, n, k) \/ e = TCP_SEND(n)))
        /\ \A s : (Opens(Append(l, e), s, k) <=> (Opens(l, s, k) \/ e = TCP_OPEN(s)))
    BY <1>1, <1>3, AppendAfter
  <2>2. \A n : (e = TCP_SEND(n) <=> n = top + 1)
    BY DistinctFrames
  <2>3. \A s : e # TCP_OPEN(s)
    BY DistinctFrames
  <2>4. t = Append(l, e)
    BY DEF t
  <2> HIDE DEF t, e
  <2> QED
    BY <2>1, <2>2, <2>3, <2>4, Zenon
<1>4. ASSUME NEW k \in DOMAIN l, OpensSession(l, k, st, ses, top)
      PROVE  OpensSession(t, k, st, ses, top + 1)
  <2> DEFINE s == l[k].session
  <2>1. /\ s \in 1 .. ses
        /\ \A n \in 1 .. top : (After(l, n, k) <=> n > st[s])
        /\ s < ses => Opens(l, s + 1, k)
    BY <1>4 DEF OpensSession
  <2>2. k \in Nat /\ k <= Len(l) /\ t[k] = l[k]
    OBVIOUS
  <2> HIDE DEF t, s
  <2>3. /\ \A n : (After(t, n, k) <=> (After(l, n, k) \/ n = top + 1))
        /\ \A u : (Opens(t, u, k) <=> Opens(l, u, k))
    BY <1>3, <2>2, Zenon
  <2>4. ASSUME NEW n \in 1 .. top + 1 PROVE After(t, n, k) <=> n > st[s]
    <3>1. CASE n = top + 1
      <4>1. n > st[s]
        BY <1>2, <2>1, <3>1
      <4> QED
        BY <2>3, <3>1, <4>1
    <3>2. CASE n # top + 1
      <4>1. n \in 1 .. top
        BY <3>2
      <4>2. After(l, n, k) <=> n > st[s]
        BY <2>1, <4>1
      <4> QED
        BY <2>3, <3>2, <4>2, Zenon
    <3> QED
      BY <3>1, <3>2
  <2>5. s < ses => Opens(t, s + 1, k)
    BY <2>1, <2>3, Zenon
  <2> QED
    BY <2>1, <2>2, <2>4, <2>5, Zenon DEF OpensSession, s
<1>5. LineOK(t, st, ses, top + 1)
  BY <1>1, <1>4, AppendLine
<1>6. 0 \in Nat /\ 0 <= Len(l)
  OBVIOUS
<1> QED
  BY <1>2, <1>3, <1>5, <1>6

-----------------------------------------------------------------------------
(* The slices that were written to socket f. *)
Carried(f) == {n \in 1 .. sends : \E i \in DOMAIN arrived : arrived[i] = [n |-> n, fd |-> f]}

(* The connected socket is registered, the line holds nothing earlier than *)
(* its session, and, while the router keeps it up, nothing of its session  *)
(* is missing.                                                             *)
Serving ==
  /\ _socket \in invokers
  /\ Serves(toProxy, of[_socket], starts, session, sends)
  /\ peer[_socket] = "up"
       => Complete(toProxy, of[_socket], starts, sends, Carried(_socket))

(* Openings, slices and sockets belong to their sessions, as long as no    *)
(* frame is lost and the client is not restarted: a lost or forgotten      *)
(* frame is exactly what makes a hole.                                     *)
SessionOrder ==
  /\ StartsOK(starts, session, sends)
  /\ LineOK(toProxy, starts, session, sends)
  /\ \A i \in DOMAIN arrived : of[arrived[i].fd] \in 1 .. session
  /\ _socket \in Fds /\ state[_socket] = "open" => Serving

SessionInv == happened \subseteq {"proxyRestart"} => SessionOrder

(* Each action keeps the order of sessions. *)
LEMMA ClientKeepsOrder ==
  ASSUME TypeOK, UpInv, SessionOrder, Client PROVE SessionOrder'
<1>1. /\ UNCHANGED <<_socket, state, invokers, of, peer, arrived>>
  BY DEF Client, ClientOpen, ClientClose, ClientSend, ClientRecv, HandleFrame, RecvReturns,
         tcp, router
<1>2. /\ toProxy \in Seq(Frame) /\ session \in Nat /\ sends \in Nat
  BY DEF TypeOK
<1>3. /\ StartsOK(starts, session, sends) /\ LineOK(toProxy, starts, session, sends)
      /\ \A i \in DOMAIN arrived : of[arrived[i].fd] \in 1 .. session
      /\ _socket \in Fds /\ state[_socket] = "open" => Serving
  BY DEF SessionOrder
<1>4. CASE ClientOpen
  <2>1. /\ session' = session + 1 /\ starts' = Append(starts, sends) /\ sends' = sends
        /\ toProxy' = Append(toProxy, TCP_OPEN(session + 1))
    BY <1>4 DEF ClientOpen, SendFrame
  <2>2. /\ StartsOK(starts', session + 1, sends) /\ \A s \in 1 .. session : starts'[s] = starts[s]
        /\ LineOK(toProxy', starts', session + 1, sends)
        /\ \A n : (After(toProxy', n, 0) <=> After(toProxy, n, 0))
        /\ \A s : (Opens(toProxy', s, 0) <=> (Opens(toProxy, s, 0) \/ s = session + 1))
    <3> DEFINE t == Append(toProxy, TCP_OPEN(session + 1))
               su == Append(starts, sends)
    <3>1. /\ StartsOK(su, session + 1, sends) /\ \A s \in 1 .. session : su[s] = starts[s]
          /\ LineOK(t, su, session + 1, sends)
          /\ \A n : (After(t, n, 0) <=> After(toProxy, n, 0))
          /\ \A s : (Opens(t, s, 0) <=> (Opens(toProxy, s, 0) \/ s = session + 1))
      BY <1>2, <1>3, OpenLine, ZenonT(40)
    <3>2. toProxy' = t /\ starts' = su
      BY <2>1
    <3> HIDE DEF t, su
    <3> QED
      BY <3>1, <3>2
  <2>3. 1 .. session \subseteq 1 .. session + 1
    BY <1>2
  <2>4. ASSUME _socket \in Fds /\ state[_socket] = "open" PROVE Serving'
    <3> DEFINE s == of[_socket]
    <3>1. /\ _socket \in invokers
          /\ s \in 1 .. session
          /\ \A n \in 1 .. sends : After(toProxy, n, 0) => n > starts[s]
          /\ s < session => Opens(toProxy, s + 1, 0)
          /\ peer[_socket] = "up" => Complete(toProxy, s, starts, sends, Carried(_socket))
      BY <1>3, <2>4 DEF Serving, Serves
    <3>2. Carried(_socket)' = Carried(_socket)
      BY <1>1, <2>1 DEF Carried
    <3>3. s < session + 1 => Opens(toProxy', s + 1, 0)
      <4>1. s < session + 1 => s < session \/ s + 1 = session + 1
        BY <1>2, <3>1
      <4> QED
        BY <2>2, <3>1, <4>1
    <3> HIDE DEF s
    <3>4. starts'[s] = starts[s]
      BY <2>2, <3>1
    <3>5. Serves(toProxy', s, starts', session', sends')
      BY <2>1, <2>2, <2>3, <3>1, <3>3, <3>4 DEF Serves
    <3>6. Complete(toProxy, s, starts, sends, Carried(_socket))
            => Complete(toProxy', s, starts', sends', Carried(_socket))
      BY <2>1, <2>2, <3>4 DEF Complete
    <3> QED
      BY <1>1, <3>1, <3>2, <3>5, <3>6 DEF Serving, s
  <2> QED
    BY <1>1, <1>3, <2>1, <2>2, <2>3, <2>4 DEF SessionOrder
<1>5. CASE ClientClose
  <2>1. /\ session' = session /\ starts' = starts /\ sends' = sends
        /\ toProxy' = Append(toProxy, TCP_CLOSE)
    BY <1>5 DEF ClientClose, SendFrame
  <2>2. /\ LineOK(toProxy', starts, session, sends)
        /\ \A n : (After(toProxy', n, 0) <=> After(toProxy, n, 0))
        /\ \A s : (Opens(toProxy', s, 0) <=> Opens(toProxy, s, 0))
    BY <1>2, <1>3, <2>1, CloseLine
  <2>3. ASSUME _socket \in Fds /\ state[_socket] = "open" PROVE Serving'
    <3>1. /\ _socket \in invokers
          /\ Serves(toProxy, of[_socket], starts, session, sends)
          /\ peer[_socket] = "up" => Complete(toProxy, of[_socket], starts, sends, Carried(_socket))
      BY <1>3, <2>3 DEF Serving
    <3>2. Carried(_socket)' = Carried(_socket)
      BY <1>1, <2>1 DEF Carried
    <3>3. Serves(toProxy', of[_socket], starts, session, sends)
      BY <2>2, <3>1, Zenon DEF Serves
    <3>4. peer[_socket] = "up" => Complete(toProxy', of[_socket], starts, sends, Carried(_socket))
      BY <2>2, <3>1, Zenon DEF Complete
    <3> QED
      BY <1>1, <2>1, <3>1, <3>2, <3>3, <3>4 DEF Serving
  <2> QED
    BY <1>1, <1>3, <2>1, <2>2, <2>3 DEF SessionOrder
<1>6. CASE ClientSend
  <2>1. /\ session' = session /\ starts' = starts /\ sends' = sends + 1
        /\ toProxy' = Append(toProxy, TCP_SEND(sends + 1))
    BY <1>6 DEF ClientSend, SendFrame
  <2>2. /\ StartsOK(starts, session, sends + 1)
        /\ LineOK(toProxy', starts, session, sends + 1)
        /\ \A n : (After(toProxy', n, 0) <=> (After(toProxy, n, 0) \/ n = sends + 1))
        /\ \A s : (Opens(toProxy', s, 0) <=> Opens(toProxy, s, 0))
    BY <1>2, <1>3, <2>1, SendLine DEF UpInv
  <2>3. ASSUME _socket \in Fds /\ state[_socket] = "open" PROVE Serving'
    <3> DEFINE s == of[_socket]
    <3>1. /\ _socket \in invokers
          /\ s \in 1 .. session
          /\ \A n \in 1 .. sends : After(toProxy, n, 0) => n > starts[s]
          /\ s < session => Opens(toProxy, s + 1, 0)
          /\ peer[_socket] = "up" => Complete(toProxy, s, starts, sends, Carried(_socket))
      BY <1>3, <2>3 DEF Serving, Serves
    <3>2. Carried(_socket) \subseteq Carried(_socket)'
      BY <1>1, <1>2, <2>1 DEF Carried
    <3> HIDE DEF s
    <3>3. sends + 1 > starts[s]
      BY <1>2, <1>3, <3>1 DEF StartsOK
    <3>4. \A n \in 1 .. sends + 1 : n \in 1 .. sends \/ n = sends + 1
      BY <1>2
    <3>5. Serves(toProxy', s, starts, session, sends + 1)
      BY <2>2, <3>1, <3>3, <3>4 DEF Serves
    <3>6. Complete(toProxy, s, starts, sends, Carried(_socket))
            => Complete(toProxy', s, starts, sends + 1, Carried(_socket)')
      BY <2>2, <3>2, <3>4, Zenon DEF Complete
    <3> QED
      BY <1>1, <2>1, <3>1, <3>5, <3>6 DEF Serving, s
  <2> QED
    BY <1>1, <1>3, <2>1, <2>2, <2>3 DEF SessionOrder
<1>7. CASE HandleFrame \/ RecvReturns \/ \E k \in Wants : ClientRecv(k)
  <2>1. UNCHANGED <<session, starts, sends, toProxy>>
    BY <1>7 DEF HandleFrame, RecvReturns, ClientRecv
  <2>2. UNCHANGED Carried(_socket)
    BY <1>1, <2>1 DEF Carried
  <2> QED
    BY <1>1, <1>3, <2>1, <2>2 DEF SessionOrder, Serving
<1> QED
  BY <1>4, <1>5, <1>6, <1>7 DEF Client

(* A step that leaves the line, the client's sessions and what has arrived *)
(* alone, and opens nothing.                                               *)
LEMMA QuietKeepsOrder ==
  ASSUME TypeOK, SessionOrder,
         UNCHANGED <<session, starts, sends, toProxy, arrived, of, _socket>>,
         _socket \in Fds /\ state'[_socket] = "open"
           => state[_socket] = "open" /\ (_socket \in invokers => _socket \in invokers')
              /\ (peer'[_socket] = "up" => peer[_socket] = "up")
  PROVE  SessionOrder'
<1>1. /\ StartsOK(starts, session, sends) /\ LineOK(toProxy, starts, session, sends)
      /\ \A i \in DOMAIN arrived : of[arrived[i].fd] \in 1 .. session
      /\ _socket \in Fds /\ state[_socket] = "open" => Serving
  BY DEF SessionOrder
<1>2. Carried(_socket)' = Carried(_socket)
  BY DEF Carried
<1>3. _socket \in Fds /\ state'[_socket] = "open" => Serving'
  BY <1>1, <1>2 DEF Serving
<1> QED
  BY <1>1, <1>3 DEF SessionOrder

(* A socket that is closed serves nothing. *)
LEMMA DisconnectKeepsOrder ==
  ASSUME TypeOK, SessionOrder, Disconnect,
         UNCHANGED <<session, starts, sends, toProxy, arrived>>
  PROVE  SessionOrder'
<1>1. _socket' = _socket /\ of' = of
  BY DEF Disconnect
<1>2. _socket \in Fds => state'[_socket] # "open"
  BY DEF Disconnect
<1> QED
  BY <1>1, <1>2, QuietKeepsOrder

(* The callbacks of the poll loop. *)
LEMMA SocketKeepsOrder ==
  ASSUME TypeOK, SessionOrder, RecvUnblocked \/ \E f \in Fds : Invoke(f) \/ OnError(f)
  PROVE  SessionOrder'
<1>1. UNCHANGED <<session, starts, sends, toProxy, arrived>>
  BY DEF RecvUnblocked, Invoke, OnError, RecvResult, client, router
<1>2. CASE Disconnect
  BY <1>1, <1>2, DisconnectKeepsOrder
<1>3. CASE UNCHANGED <<_socket, invokers, state, of, peer>>
  BY <1>1, <1>3, QuietKeepsOrder
<1>4. Disconnect \/ UNCHANGED <<_socket, invokers, state, of, peer>>
  <2>1. ASSUME RecvResult PROVE Disconnect \/ UNCHANGED <<_socket, invokers, state, of, peer>>
    BY <2>1 DEF RecvResult
  <2> QED
    BY <2>1 DEF RecvUnblocked, Invoke, OnError, router
<1> QED
  BY <1>2, <1>3, <1>4

(* The router. *)
LEMMA RouterKeepsOrder ==
  ASSUME TypeOK, SessionOrder, Router PROVE SessionOrder'
<1>1. UNCHANGED <<session, starts, sends, toProxy, arrived, of, _socket, state, invokers>>
  BY DEF Router, RouterWrite, RouterEnds, client, tcp
<1>2. \A f \in Fds : peer'[f] = "up" => peer[f] = "up"
  BY DEF Router, RouterWrite, RouterEnds, TypeOK
<1> QED
  BY <1>1, <1>2, QuietKeepsOrder

-----------------------------------------------------------------------------
(* The first frame of the line is taken. *)
LEMMA TailLine ==
  ASSUME NEW l \in Seq(Frame), l # <<>>, NEW st, NEW ses, NEW top, LineOK(l, st, ses, top)
  PROVE  /\ LineOK(Tail(l), st, ses, top)
         /\ \A n : (After(Tail(l), n, 0) <=> After(l, n, 1))
         /\ \A s : (Opens(Tail(l), s, 0) <=> Opens(l, s, 1))
         /\ \A n : (After(l, n, 0) <=> (After(l, n, 1) \/ Head(l) = TCP_SEND(n)))
         /\ \A s : (Opens(l, s, 0) <=> (Opens(l, s, 1) \/ Head(l) = TCP_OPEN(s)))
<1>1. Tail(l) = SubSeq(l, 1 + 1, Len(l)) /\ 1 \in 0 .. Len(l)
  OBVIOUS
<1>2. LineOK(SubSeq(l, 1 + 1, Len(l)), st, ses, top)
  BY <1>1, SuffixLine
<1>3. /\ \A n : (After(SubSeq(l, 1 + 1, Len(l)), n, 0) <=> After(l, n, 0 + 1))
      /\ \A s : (Opens(SubSeq(l, 1 + 1, Len(l)), s, 0) <=> Opens(l, s, 0 + 1))
  BY <1>1, SuffixAfter
<1>4. /\ 1 \in DOMAIN l /\ Head(l) = l[1] /\ 1 > 0
      /\ \A i \in DOMAIN l : i > 0 /\ (i > 1 \/ i = 1)
  OBVIOUS
<1>5. ASSUME NEW n PROVE After(l, n, 0) <=> (After(l, n, 1) \/ Head(l) = TCP_SEND(n))
  BY <1>4, Zenon DEF After
<1>6. ASSUME NEW s PROVE Opens(l, s, 0) <=> (Opens(l, s, 1) \/ Head(l) = TCP_OPEN(s))
  BY <1>4, Zenon DEF Opens
<1>7. 0 + 1 = 1
  OBVIOUS
<1>8. /\ \A n : (After(Tail(l), n, 0) <=> After(l, n, 1))
      /\ \A s : (Opens(Tail(l), s, 0) <=> Opens(l, s, 1))
  BY <1>1, <1>3, <1>7, Zenon
<1>9. LineOK(Tail(l), st, ses, top)
  BY <1>1, <1>2, Zenon
<1> QED
  BY <1>5, <1>6, <1>8, <1>9, Zenon

(* The frame at the front of the line is the next one of _socket's session  *)
(* or a later one.                                                         *)
LEMMA SendKeepsOrder ==
  ASSUME TypeOK, UpInv, UpInv', SessionOrder, HandleSend PROVE SessionOrder'
<1>1. /\ toProxy \in Seq(Frame) /\ session \in Nat /\ sends \in Nat
  BY DEF TypeOK
<1>2. /\ toProxy # <<>> /\ toProxy' = Tail(toProxy) /\ IsSend(Head(toProxy))
      /\ UNCHANGED <<session, starts, sends, _socket, state, invokers, of, peer>>
  BY DEF HandleSend, Serial_incoming, client, IsSend
<1>3. /\ StartsOK(starts, session, sends) /\ LineOK(toProxy, starts, session, sends)
      /\ \A i \in DOMAIN arrived : of[arrived[i].fd] \in 1 .. session
      /\ _socket \in Fds /\ state[_socket] = "open" => Serving
  BY DEF SessionOrder
<1>4. /\ LineOK(toProxy', starts, session, sends)
      /\ \A n : (After(toProxy', n, 0) <=> After(toProxy, n, 1))
      /\ \A s : (Opens(toProxy', s, 0) <=> Opens(toProxy, s, 1))
      /\ \A n : (After(toProxy, n, 0) <=> (After(toProxy, n, 1) \/ Head(toProxy) = TCP_SEND(n)))
      /\ \A s : (Opens(toProxy, s, 0) <=> (Opens(toProxy, s, 1) \/ Head(toProxy) = TCP_OPEN(s)))
  BY <1>1, <1>2, <1>3, TailLine
<1>5. \A s : Head(toProxy) # TCP_OPEN(s)
  BY <1>2 DEF IsSend, TCP_OPEN
<1> DEFINE e == [n |-> Head(toProxy).data[1], fd |-> _socket]
           taken == _socket \in Fds /\ state[_socket] = "open" /\ peer[_socket] = "up"
<1>6. /\ taken => arrived' = Append(arrived, e)
      /\ ~taken => arrived' = arrived
  BY DEF HandleSend
<1>7. ASSUME _socket \in Fds /\ state[_socket] = "open" PROVE Serving'
  <2> DEFINE s == of[_socket]
  <2>1. /\ _socket \in invokers
        /\ s \in 1 .. session
        /\ \A n \in 1 .. sends : After(toProxy, n, 0) => n > starts[s]
        /\ s < session => Opens(toProxy, s + 1, 0)
        /\ peer[_socket] = "up" => Complete(toProxy, s, starts, sends, Carried(_socket))
    BY <1>3, <1>7 DEF Serving, Serves
  <2> HIDE DEF s
  <2>2. Serves(toProxy', s, starts, session, sends)
    BY <1>4, <1>5, <2>1, Zenon DEF Serves
  <2>3. ASSUME peer[_socket] = "up" PROVE Complete(toProxy', s, starts, sends, Carried(_socket)')
    <3>1. arrived' = Append(arrived, e)
      BY <1>6, <1>7, <2>3
    <3>2. arrived \in Seq([n : 1 .. sends, fd : 1 .. used]) /\ arrived' \in Seq([n : 1 .. sends', fd : 1 .. used'])
      BY DEF UpInv
    <3>3. /\ \A i \in DOMAIN arrived : i \in DOMAIN arrived' /\ arrived'[i] = arrived[i]
          /\ Len(arrived) + 1 \in DOMAIN arrived' /\ arrived'[Len(arrived) + 1] = e
      <4> HIDE DEF e
      <4>1. Len(arrived) \in Nat /\ DOMAIN arrived = 1 .. Len(arrived)
        BY <3>2
      <4>2. Len(arrived') = Len(arrived) + 1 /\ DOMAIN arrived' = 1 .. Len(arrived')
        BY <3>1, <3>2
      <4> QED
        BY <3>1, <4>1, <4>2
    <3>4. ASSUME NEW n \in Carried(_socket) PROVE n \in Carried(_socket)'
      BY <1>2, <3>3, <3>4, Zenon DEF Carried
    <3>5. ASSUME NEW n \in 1 .. sends, Head(toProxy) = TCP_SEND(n) PROVE n \in Carried(_socket)'
      <4>1. Head(toProxy).data[1] = n
        BY <3>5 DEF TCP_SEND
      <4>2. e = [n |-> n, fd |-> _socket]
        BY <4>1
      <4> QED
        BY <1>2, <3>3, <4>2, Zenon DEF Carried
    <3>6. ASSUME NEW n \in 1 .. sends, n > starts[s]
          PROVE  After(toProxy', n, 0) \/ n \in Carried(_socket)'
      <4>1. After(toProxy, n, 0) \/ n \in Carried(_socket)
        BY <2>1, <2>3, <3>6, Zenon DEF Complete
      <4> QED
        BY <1>4, <3>4, <3>5, <4>1, Zenon
    <3> QED
      BY <3>6, Zenon DEF Complete
  <2> QED
    BY <1>2, <2>1, <2>2, <2>3 DEF Serving, s
<1>8. ASSUME NEW i \in DOMAIN arrived' PROVE of[arrived'[i].fd] \in 1 .. session
  <2>1. CASE ~taken
    BY <1>3, <1>6, <2>1
  <2>2. CASE taken
    <3>1. arrived' = Append(arrived, e)
      BY <1>6, <2>2
    <3>2. arrived \in Seq([n : 1 .. sends, fd : 1 .. used])
      BY DEF UpInv
    <3>3. of[_socket] \in 1 .. session
      BY <1>3, <2>2 DEF Serving, Serves
    <3>4. e.fd = _socket
      OBVIOUS
    <3> HIDE DEF e
    <3>5. arrived'[i] = e \/ (i \in DOMAIN arrived /\ arrived'[i] = arrived[i])
      BY <3>1, <3>2
    <3> QED
      BY <1>3, <3>3, <3>4, <3>5
  <2> QED
    BY <2>1, <2>2
<1> QED
  BY <1>2, <1>3, <1>4, <1>7, <1>8 DEF SessionOrder

(* A close, and a restart of the proxy. *)
LEMMA CloseKeepsOrder ==
  ASSUME TypeOK, SessionOrder, HandleClose PROVE SessionOrder'
<1>1. /\ toProxy \in Seq(Frame)
      /\ toProxy # <<>> /\ toProxy' = Tail(toProxy)
      /\ UNCHANGED <<session, starts, sends, _socket, of, arrived>>
  BY DEF HandleClose, Serial_incoming, Disconnect, client, router, TypeOK
<1>2. /\ StartsOK(starts, session, sends) /\ LineOK(toProxy, starts, session, sends)
      /\ \A i \in DOMAIN arrived : of[arrived[i].fd] \in 1 .. session
  BY DEF SessionOrder
<1>3. LineOK(toProxy', starts, session, sends)
  BY <1>1, <1>2, TailLine
<1>4. _socket \in Fds => state'[_socket] # "open"
  BY DEF HandleClose, Disconnect
<1> QED
  BY <1>1, <1>2, <1>3, <1>4 DEF SessionOrder

(* An open finds no open socket, for that would be registered. *)
LEMMA OpenKeepsOrder ==
  ASSUME TypeOK, UpInv, OneSocket, SessionOrder, NEW ok \in BOOLEAN, HandleOpen(ok)
  PROVE  SessionOrder'
<1>1. /\ toProxy \in Seq(Frame) /\ toProxy # <<>> /\ toProxy' = Tail(toProxy)
      /\ Head(toProxy) = toProxy[1] /\ 1 \in DOMAIN toProxy /\ toProxy[1].type = "open"
      /\ UNCHANGED <<session, starts, sends, arrived, peer>>
  <2>1. toProxy \in Seq(Frame) /\ toProxy # <<>>
    BY DEF TypeOK, HandleOpen, Serial_incoming
  <2>2. Head(toProxy) = toProxy[1] /\ 1 \in DOMAIN toProxy
    BY <2>1
  <2> QED
    BY <2>1, <2>2 DEF HandleOpen, Serial_incoming, client, router
<1>2. /\ StartsOK(starts, session, sends) /\ LineOK(toProxy, starts, session, sends)
      /\ \A i \in DOMAIN arrived : of[arrived[i].fd] \in 1 .. session
      /\ _socket \in Fds /\ state[_socket] = "open" => Serving
  BY DEF SessionOrder
<1>3. /\ LineOK(toProxy', starts, session, sends)
      /\ \A n : (After(toProxy', n, 0) <=> After(toProxy, n, 1))
      /\ \A s : (Opens(toProxy', s, 0) <=> Opens(toProxy, s, 1))
  BY <1>1, <1>2, TailLine
<1>4. PICK created \in BOOLEAN : OpenTxSession(ok, created)
  BY DEF HandleOpen, Connect
<1>5. used \in Nat /\ (_socket \in Fds => _socket <= used)
  BY StreamTypes
<1>6. CASE ok
  <2> DEFINE s == Head(toProxy).session
             f == used + 1
  <2>1. /\ created /\ f \in Fds
    BY <1>4, <1>6, OpenTxType DEF OpenTxSession
  <2>2. /\ _socket' = f /\ of' = [of EXCEPT ![f] = s]
        /\ invokers' = invokers \union {f}
    BY <1>6 DEF HandleOpen, Connect
  <2>3. OpensSession(toProxy, 1, starts, session, sends)
    BY <1>1, <1>2 DEF LineOK
  <2>4. /\ s \in 1 .. session
        /\ \A n \in 1 .. sends : (After(toProxy, n, 1) <=> n > starts[s])
        /\ s < session => Opens(toProxy, s + 1, 1)
    BY <1>1, <2>3 DEF OpensSession
  <2>5. of \in [Fds -> Nat]
    BY DEF TypeOK
  <2> HIDE DEF s
  <2>6. of'[f] = s /\ \A g \in Fds : g # f => of'[g] = of[g]
    BY <2>1, <2>2, <2>5
  <2>7. Serves(toProxy', s, starts, session, sends)
    BY <1>3, <2>4, Zenon DEF Serves
  <2>8. Complete(toProxy', s, starts, sends, Carried(_socket)')
    BY <1>3, <2>4, Zenon DEF Complete
  <2>9. Serving'
    BY <1>1, <2>2, <2>6, <2>7, <2>8 DEF Serving
  <2>10. ASSUME NEW i \in DOMAIN arrived PROVE of'[arrived[i].fd] \in 1 .. session
    <3>1. arrived[i] \in [n : 1 .. sends, fd : 1 .. used]
      BY ElementIn DEF UpInv
    <3>2. arrived[i].fd \in 1 .. used
      BY <3>1
    <3>3. \A g \in 1 .. used : g \in Fds /\ g # f
      BY <1>5, <2>1, TunnelAssumption DEF Fds, TunnelAssumption
    <3>4. arrived[i].fd \in Fds /\ arrived[i].fd # f
      BY <3>2, <3>3
    <3> QED
      BY <1>2, <2>6, <3>4
  <2> QED
    BY <1>1, <1>2, <1>3, <2>9, <2>10 DEF SessionOrder
<1>7. CASE ~ok
  <2>1. UNCHANGED <<_socket, of>>
    BY <1>7 DEF HandleOpen, Connect
  <2>2. _socket \in Fds => state[_socket] # "open"
    <3> SUFFICES ASSUME _socket \in Fds, state[_socket] = "open" PROVE FALSE
      OBVIOUS
    <3>1. invokers \intersect Fds # {}
      BY <1>2 DEF Serving
    <3>2. OpensAlternate(toProxy, TRUE, opened)
      BY <3>1 DEF OneSocket
    <3>3. PICK j \in DOMAIN toProxy : j < 1
      BY <1>1, <3>2 DEF OpensAlternate
    <3>4. \A i \in DOMAIN toProxy : i \in Int /\ 1 <= i
      BY <1>1
    <3> QED
      BY <3>3, <3>4
  <2>3. _socket \in Fds => state'[_socket] # "open"
    <3> SUFFICES ASSUME _socket \in Fds PROVE state'[_socket] # "open"
      OBVIOUS
    <3>1. state \in [Fds -> {"none", "open", "shut"}] /\ _socket # used + 1
      BY <1>5 DEF TypeOK
    <3>2. state'[_socket] = state[_socket]
      BY <1>4, <3>1 DEF OpenTxSession
    <3> QED
      BY <2>2, <3>2
  <2> QED
    BY <1>1, <1>2, <1>3, <2>1, <2>3 DEF SessionOrder
<1> QED
  BY <1>6, <1>7

LEMMA RestartKeepsOrder ==
  ASSUME TypeOK, SessionOrder, ProxyRestart PROVE SessionOrder'
<1>1. /\ UNCHANGED <<session, starts, sends, arrived, of>>
      /\ _socket' \notin Fds
  BY DEF ProxyRestart, client, router, Fds, Serial, NoFd
<1>2. PICK n \in 0 .. Len(toProxy) : toProxy' = SubSeq(toProxy, n + 1, Len(toProxy))
  BY DEF ProxyRestart
<1>3. /\ StartsOK(starts, session, sends) /\ LineOK(toProxy, starts, session, sends)
      /\ \A i \in DOMAIN arrived : of[arrived[i].fd] \in 1 .. session
  BY DEF SessionOrder
<1>4. toProxy \in Seq(Frame)
  BY DEF TypeOK
<1>5. LineOK(toProxy', starts, session, sends)
  BY <1>2, <1>3, <1>4, SuffixLine
<1> QED
  BY <1>1, <1>3, <1>5 DEF SessionOrder

-----------------------------------------------------------------------------
(* What happened stays so. *)
LEMMA HappenedGrows == Next => happened \subseteq happened'
  BY DEF Next, OpenAborts,
         Client, ClientOpen, ClientClose, ClientSend, ClientRecv, HandleFrame, RecvReturns,
         Worker, HandleSerial, HandleOpen, HandleClose, HandleSend, Serial_incoming,
         RecvUnblocked, RecvResult, Invoke, OnError, Router, RouterWrite, RouterEnds,
         Lose, ClientRestart, ProxyRestart, Strikes

(* The step of the inductive invariant. *)
LEMMA SessionStep ==
  ASSUME TunnelInv, UpInv, UpInv', SessionInv, Next PROVE SessionInv'
<1> SUFFICES ASSUME happened' \subseteq {"proxyRestart"} PROVE SessionOrder'
  BY DEF SessionInv
<1>1. happened \subseteq {"proxyRestart"}
  BY HappenedGrows
<1>2. TypeOK /\ OneSocket /\ SessionOrder
  BY <1>1 DEF TunnelInv, SessionInv
<1>3. CASE Client
  BY <1>2, <1>3, ClientKeepsOrder
<1>4. CASE Worker
  <2>1. CASE HandleSerial
    BY <1>2, <2>1, OpenKeepsOrder, CloseKeepsOrder, SendKeepsOrder DEF HandleSerial
  <2>2. CASE RecvUnblocked \/ \E f \in Fds : Invoke(f) \/ OnError(f)
    BY <1>2, <2>2, SocketKeepsOrder
  <2> QED
    BY <1>4, <2>1, <2>2 DEF Worker
<1>5. CASE Router
  BY <1>2, <1>5, RouterKeepsOrder
<1>6. CASE Lose \/ ClientRestart
  BY <1>6 DEF Lose, ClientRestart, Strikes
<1>7. CASE ProxyRestart
  BY <1>2, <1>7, RestartKeepsOrder
<1> QED
  BY <1>3, <1>4, <1>5, <1>6, <1>7 DEF Next, OpenAborts

(* Until a frame is lost or the client restarts, the open of a session is   *)
(* followed on the line by exactly the slices that were not sent before it  *)
(* (unix_serial.cpp:170 and 268), and an open _socket is owed exactly those *)
(* of its session that it has not delivered.                               *)
LEMMA SessionInvariant == Spec => []SessionInv
<1>1. Init => SessionInv
  <2> SUFFICES ASSUME Init PROVE SessionInv
    OBVIOUS
  <2>1. /\ starts = <<>> /\ session = 0 /\ sends = 0 /\ toProxy = <<>> /\ arrived = <<>>
        /\ _socket \notin Fds
    BY DEF Init, Fds, Serial, NoFd
  <2>2. StartsOK(<<>>, 0, 0)
    <3>1. <<>> \in Seq(0 .. 0) /\ Len(<<>>) = 0
      OBVIOUS
    <3> QED
      BY <3>1, LenProperties DEF StartsOK
  <2>3. DOMAIN <<>> = {}
    OBVIOUS
  <2>4. LineOK(<<>>, <<>>, 0, 0)
    BY <2>3 DEF LineOK
  <2> QED
    BY <2>1, <2>2, <2>3, <2>4 DEF SessionInv, SessionOrder
<1>2. TunnelInv /\ UpInv /\ UpInv' /\ SessionInv /\ [Next]_vars => SessionInv'
  <2> SUFFICES ASSUME TunnelInv, UpInv, UpInv', SessionInv, [Next]_vars PROVE SessionInv'
    OBVIOUS
  <2>1. CASE UNCHANGED vars
    <3>1. UNCHANGED <<happened, starts, session, sends, toProxy, arrived, of, _socket, state,
                      invokers, peer>>
      BY <2>1 DEF vars, client, tcp, router
    <3>2. Carried(_socket)' = Carried(_socket)
      BY <3>1 DEF Carried
    <3> QED
      BY <3>1, <3>2 DEF SessionInv, SessionOrder, Serving
  <2> QED
    BY <2>1, SessionStep
<1> QED
  BY <1>1, <1>2, TunnelInvariant, UpInvariant, PTL DEF Spec

-----------------------------------------------------------------------------
(* What PrefixOfItsSession says of one slice that has arrived, a of it     *)
(* being what arrived, s the session of its socket.                        *)
InItsSession(a, i, s, st, ses) ==
  /\ a[i].n > st[s]
  /\ s < ses => a[i].n <= st[s + 1]
  /\ \A n \in st[s] + 1 .. a[i].n - 1 : \E j \in 1 .. i - 1 : a[j] = [n |-> n, fd |-> a[i].fd]
  /\ \A j \in 1 .. i - 1 : a[j] # a[i]

(* Every slice that arrived is in its session. *)
AllInTheirs == \A i \in DOMAIN arrived : InItsSession(arrived, i, of[arrived[i].fd], starts, session)

(* The property, in these terms. *)
LEMMA PrefixMeans ==
  PrefixOfItsSession <=> (happened \subseteq {"proxyRestart"} => AllInTheirs)
  BY DEF PrefixOfItsSession, AllInTheirs, InItsSession

(* Types of what arrived. *)
LEMMA ArrivedTypes ==
  ASSUME TypeOK, UpInv
  PROVE  /\ arrived \in Seq([n : 1 .. sends, fd : 1 .. used])
         /\ Len(arrived) \in Nat /\ DOMAIN arrived = 1 .. Len(arrived)
         /\ \A i \in DOMAIN arrived : arrived[i].n \in 1 .. sends /\ arrived[i].fd \in 1 .. used
         /\ used \in Nat /\ sends \in Nat /\ session \in Nat
         /\ \A g \in 1 .. used : g \in Fds /\ g # used + 1
<1>1. arrived \in Seq([n : 1 .. sends, fd : 1 .. used])
  BY DEF UpInv
<1>2. \A i \in DOMAIN arrived : arrived[i] \in [n : 1 .. sends, fd : 1 .. used]
  BY <1>1, ElementIn
<1>3. used \in 0 .. MaxFds /\ sends \in Nat /\ session \in Nat /\ MaxFds \in Nat
  BY TunnelAssumption DEF TunnelAssumption, TypeOK
<1>4. \A g \in 1 .. used : g \in Fds /\ g # used + 1
  BY <1>3 DEF Fds
<1> QED
  BY <1>1, <1>2, <1>3, <1>4

(* No step but the open of a session changes what was said of the slices   *)
(* that have arrived, and that one adds only that they were sent before.    *)
LEMMA PrefixKept ==
  ASSUME TypeOK, UpInv, SessionOrder, AllInTheirs, UNCHANGED <<arrived, starts, session>>,
         \A g \in 1 .. used : of'[g] = of[g]
  PROVE  AllInTheirs'
<1>1. \A i \in DOMAIN arrived : of'[arrived[i].fd] = of[arrived[i].fd]
  BY ArrivedTypes
<1> QED
  BY <1>1 DEF AllInTheirs

(* A new session changes nothing for the others. *)
LEMMA PrefixOpen ==
  ASSUME TypeOK, UpInv, SessionOrder, AllInTheirs, ClientOpen PROVE AllInTheirs'
<1>1. /\ arrived' = arrived /\ of' = of /\ session' = session + 1
      /\ starts' = Append(starts, sends)
  BY DEF ClientOpen, tcp, router
<1>2. session \in Nat /\ sends \in Nat
  BY ArrivedTypes
<1>3. StartsOK(starts, session, sends) /\ LineOK(toProxy, starts, session, sends) /\ toProxy \in Seq(Frame)
  BY DEF SessionOrder, TypeOK
<1>4. starts \in Seq(0 .. sends) /\ Len(starts) = session
  BY <1>2, <1>3, FunctionSeq DEF StartsOK
<1>5. (\A s \in 1 .. session : starts'[s] = starts[s]) /\ starts'[session + 1] = sends
  <2>1. sends \in 0 .. sends
    BY <1>2
  <2> QED
    BY <1>1, <1>4, <2>1, AppendProperties
<1>6. ASSUME NEW i \in DOMAIN arrived
      PROVE  InItsSession(arrived, i, of[arrived[i].fd], starts', session + 1)
  <2> DEFINE s == of[arrived[i].fd]
  <2>1. InItsSession(arrived, i, s, starts, session)
    BY DEF AllInTheirs
  <2>2. s \in 1 .. session
    BY DEF SessionOrder
  <2>3. arrived[i].n \in 1 .. sends
    BY ArrivedTypes
  <2> HIDE DEF s
  <2>4. starts'[s] = starts[s]
    BY <1>5, <2>2
  <2>5. s < session + 1 => arrived[i].n <= starts'[s + 1]
    <3>1. CASE s < session
      <4>1. s + 1 \in 1 .. session
        BY <1>2, <2>2, <3>1
      <4> QED
        BY <1>5, <2>1, <3>1, <4>1 DEF InItsSession
    <3>2. CASE ~(s < session)
      <4>1. s = session
        BY <1>2, <2>2, <3>2
      <4> QED
        BY <1>2, <1>5, <2>3, <4>1
    <3> QED
      BY <3>1, <3>2
  <2>6. InItsSession(arrived, i, s, starts', session + 1)
    BY <2>1, <2>4, <2>5 DEF InItsSession
  <2> QED
    BY <2>6 DEF s
<1> QED
  BY <1>1, <1>6 DEF AllInTheirs

(* The slice at the front of the line is the next of its session:          *)
(* everything before it has been written to the same socket.               *)
LEMMA PrefixArrives ==
  ASSUME TypeOK, UpInv, UpInv', SessionOrder, AllInTheirs, HandleSend,
         _socket \in Fds /\ state[_socket] = "open" /\ peer[_socket] = "up"
  PROVE  AllInTheirs'
<1> DEFINE N == Len(arrived)
           n0 == Head(toProxy).data[1]
           e == [n |-> n0, fd |-> _socket]
           s == of[_socket]
<1>1. /\ toProxy \in Seq(Frame) /\ toProxy # <<>> /\ IsSend(Head(toProxy))
      /\ arrived' = Append(arrived, e)
      /\ UNCHANGED <<starts, session, of, sends>>
  BY DEF HandleSend, Serial_incoming, client, IsSend, TypeOK
<1>2. /\ arrived \in Seq([n : 1 .. sends, fd : 1 .. used])
      /\ N \in Nat /\ DOMAIN arrived = 1 .. N
      /\ sends \in Nat /\ session \in Nat
      /\ \A i \in DOMAIN arrived : arrived[i].n \in 1 .. sends /\ arrived[i].fd \in 1 .. used
  BY ArrivedTypes
<1>3. /\ Head(toProxy) = toProxy[1] /\ 1 \in DOMAIN toProxy
      /\ \A i \in DOMAIN toProxy : i \in Nat /\ (i = 1 \/ i > 1)
  BY <1>1
<1>4. PICK m \in 1 .. sends : toProxy[1] = TCP_SEND(m)
  BY <1>1, <1>3 DEF UpInv, SendsSent
<1>5. n0 = m
  BY <1>3, <1>4 DEF TCP_SEND
<1>6. /\ DOMAIN arrived' = 1 .. N + 1 /\ arrived'[N + 1] = e
      /\ \A i \in 1 .. N : arrived'[i] = arrived[i]
  <2> HIDE DEF e
  <2>1. arrived' \in Seq([n : 1 .. sends', fd : 1 .. used'])
    BY DEF UpInv
  <2>2. Len(arrived') = N + 1
    BY <1>1, <1>2
  <2> QED
    BY <1>1, <1>2, <2>1, <2>2
<1>7. e.n = m /\ e.fd = _socket
  BY <1>5
<1> HIDE DEF N, n0, e, s
<1>8. /\ s \in 1 .. session
      /\ \A n \in 1 .. sends : After(toProxy, n, 0) => n > starts[s]
      /\ s < session => Opens(toProxy, s + 1, 0)
      /\ Complete(toProxy, s, starts, sends, Carried(_socket))
      /\ LineOK(toProxy, starts, session, sends) /\ StartsOK(starts, session, sends)
  BY DEF SessionOrder, Serving, Serves, s
<1>9. ASSUME NEW n \in 1 .. sends, NEW i \in DOMAIN toProxy, toProxy[i] = TCP_SEND(n)
      PROVE  m <= n /\ (i > 1 => m < n)
  <2>1. TCP_SEND(n).data[1] = n /\ TCP_SEND(m).data[1] = m /\ IsSend(TCP_SEND(n)) /\ IsSend(TCP_SEND(m))
    BY DEF TCP_SEND, IsSend
  <2>2. CASE i > 1
    <3>1. toProxy[1].data[1] < toProxy[i].data[1]
      BY <1>3, <1>4, <1>9, <2>1, <2>2 DEF UpInv, SendsRise
    <3>2. m < n
      BY <1>4, <1>9, <2>1, <3>1
    <3> QED
      BY <1>2, <3>2
  <2>3. CASE i = 1
    <3>1. m = n
      BY <1>4, <1>9, <2>1, <2>3
    <3> QED
      BY <1>2, <2>3, <3>1
  <2> QED
    BY <1>3, <2>2, <2>3
<1>10. starts[s] \in 0 .. sends
  BY <1>8 DEF StartsOK
<1>11. m > starts[s]
  <2>1. After(toProxy, m, 0)
    BY <1>3, <1>4, 1 > 0 DEF After
  <2> QED
    BY <1>8, <2>1
<1>12. s < session => m <= starts[s + 1]
  <2> SUFFICES ASSUME s < session PROVE m <= starts[s + 1]
    OBVIOUS
  <2>1. PICK k \in DOMAIN toProxy : k > 0 /\ toProxy[k] = TCP_OPEN(s + 1)
    BY <1>8 DEF Opens
  <2>2. toProxy[k].type = "open" /\ toProxy[k].session = s + 1
    BY <2>1 DEF TCP_OPEN
  <2>3. k > 1
    BY <1>1, <1>3, <2>2 DEF IsSend
  <2>4. After(toProxy, m, k) <=> m > starts[s + 1]
    BY <1>8, <2>2 DEF LineOK, OpensSession
  <2>5. ~After(toProxy, m, k)
    <3> SUFFICES ASSUME NEW i \in DOMAIN toProxy, i > k, toProxy[i] = TCP_SEND(m) PROVE FALSE
      BY DEF After
    <3>1. i > 1
      BY <1>3, <2>3
    <3>2. m < m
      BY <1>9, <3>1
    <3> QED
      BY <1>2, <3>2
  <2>6. starts[s + 1] \in 0 .. sends
    <3>1. s + 1 \in 1 .. session
      BY <1>2, <1>8
    <3> QED
      BY <1>8, <3>1 DEF StartsOK
  <2> QED
    BY <1>2, <2>4, <2>5, <2>6
<1>13. ASSUME NEW n \in starts[s] + 1 .. m - 1
       PROVE  \E j \in 1 .. N : arrived[j] = [n |-> n, fd |-> _socket]
  <2>1. n \in 1 .. sends /\ n > starts[s] /\ n < m
    BY <1>2, <1>10
  <2>2. ~After(toProxy, n, 0)
    <3> SUFFICES ASSUME NEW i \in DOMAIN toProxy, toProxy[i] = TCP_SEND(n) PROVE FALSE
      BY DEF After
    <3>1. m <= n
      BY <1>9, <2>1
    <3> QED
      BY <2>1, <3>1
  <2>3. n \in Carried(_socket)
    BY <1>8, <2>1, <2>2 DEF Complete
  <2> QED
    BY <1>2, <2>3 DEF Carried
<1>14. ASSUME NEW j \in 1 .. N PROVE arrived[j] # e
  <2>1. arrived[j].n < m
    <3>1. arrived[j].n < toProxy[1].data[1]
      BY <1>1, <1>2, <1>3 DEF UpInv, SendsLater
    <3> QED
      BY <1>4, <3>1 DEF TCP_SEND
  <2>2. arrived[j].n # e.n
    BY <1>2, <1>7, <2>1
  <2> QED
    BY <2>2
<1>15. InItsSession(arrived', N + 1, s, starts, session)
  <2>1. (N + 1) - 1 = N
    BY <1>2
  <2>2. \A n \in starts[s] + 1 .. m - 1 : \E j \in 1 .. N : arrived'[j] = [n |-> n, fd |-> _socket]
    BY <1>6, <1>13
  <2>3. \A j \in 1 .. N : arrived'[j] # e
    BY <1>6, <1>14
  <2> QED
    BY <1>6, <1>7, <1>11, <1>12, <2>1, <2>2, <2>3 DEF InItsSession
<1>16. ASSUME NEW i \in 1 .. N
       PROVE  InItsSession(arrived', i, of[arrived'[i].fd], starts, session)
  <2>1. InItsSession(arrived, i, of[arrived[i].fd], starts, session)
    BY <1>2 DEF AllInTheirs
  <2>2. arrived'[i] = arrived[i] /\ \A j \in 1 .. i - 1 : arrived'[j] = arrived[j]
    BY <1>2, <1>6
  <2> QED
    BY <2>1, <2>2 DEF InItsSession
<1>17. ASSUME NEW i \in DOMAIN arrived'
       PROVE  InItsSession(arrived', i, of[arrived'[i].fd], starts, session)
  <2>1. i \in 1 .. N \/ i = N + 1
    BY <1>2, <1>6
  <2> QED
    BY <1>6, <1>7, <1>15, <1>16, <2>1 DEF s
<1> QED
  BY <1>1, <1>17 DEF AllInTheirs

(* The step of the property. *)
LEMMA PrefixStep ==
  ASSUME TunnelInv, UpInv, UpInv', SessionInv, PrefixOfItsSession, Next
  PROVE  PrefixOfItsSession'
<1> SUFFICES ASSUME happened' \subseteq {"proxyRestart"} PROVE AllInTheirs'
  BY DEF PrefixOfItsSession, AllInTheirs, InItsSession
<1>1. happened \subseteq {"proxyRestart"}
  BY HappenedGrows
<1>2. TypeOK /\ SessionOrder /\ AllInTheirs
  BY <1>1, PrefixMeans DEF TunnelInv, SessionInv
<1>3. CASE ClientOpen
  BY <1>2, <1>3, PrefixOpen
<1>4. CASE Client /\ ~ClientOpen
  <2>1. UNCHANGED <<arrived, starts, session, of>>
    BY <1>4 DEF Client, ClientClose, ClientSend, ClientRecv, HandleFrame, RecvReturns, tcp, router
  <2> QED
    BY <1>2, <2>1, PrefixKept
<1>5. ASSUME NEW ok \in BOOLEAN, HandleOpen(ok) PROVE AllInTheirs'
  <2>1. UNCHANGED <<arrived, starts, session>>
    BY <1>5 DEF HandleOpen, Serial_incoming, client, router
  <2>2. of' = of \/ \E s : of' = [of EXCEPT ![used + 1] = s]
    BY <1>5 DEF HandleOpen, Connect
  <2>3. \A g \in 1 .. used : of'[g] = of[g]
    BY <1>2, <2>2, ArrivedTypes DEF TypeOK
  <2> QED
    BY <1>2, <2>1, <2>3, PrefixKept
<1>6. CASE HandleClose
  <2>1. UNCHANGED <<arrived, starts, session, of>>
    BY <1>6 DEF HandleClose, Serial_incoming, Disconnect, client, router
  <2> QED
    BY <1>2, <2>1, PrefixKept
<1>7. CASE HandleSend
  <2>1. CASE _socket \in Fds /\ state[_socket] = "open" /\ peer[_socket] = "up"
    BY <1>2, <1>7, <2>1, PrefixArrives
  <2>2. CASE ~(_socket \in Fds /\ state[_socket] = "open" /\ peer[_socket] = "up")
    <3>1. UNCHANGED <<arrived, starts, session, of>>
      BY <1>7, <2>2 DEF HandleSend, Serial_incoming, client
    <3> QED
      BY <1>2, <3>1, PrefixKept
  <2> QED
    BY <2>1, <2>2
<1>8. CASE RecvUnblocked \/ \E f \in Fds : Invoke(f) \/ OnError(f)
  <2>1. UNCHANGED <<arrived, starts, session, of>>
    BY <1>8 DEF RecvUnblocked, Invoke, OnError, RecvResult, Disconnect, client, router
  <2> QED
    BY <1>2, <2>1, PrefixKept
<1>9. CASE Router
  <2>1. UNCHANGED <<arrived, starts, session, of>>
    BY <1>9 DEF Router, RouterWrite, RouterEnds, client, tcp
  <2> QED
    BY <1>2, <2>1, PrefixKept
<1>10. CASE Lose \/ ClientRestart \/ ProxyRestart
  <2>1. UNCHANGED <<arrived, starts, session, of>>
    BY <1>10 DEF Lose, ClientRestart, ProxyRestart, client, tcp, router
  <2> QED
    BY <1>2, <2>1, PrefixKept
<1> QED
  BY <1>3, <1>4, <1>5, <1>6, <1>7, <1>8, <1>9, <1>10 DEF Next, OpenAborts, Worker, HandleSerial

(* What a connection carries to the router is a leading part of what its   *)
(* own session sent, for any number of sessions, slices and restarts of    *)
(* the proxy (tcp_session.cpp:17-42): the invariant is needed to know that  *)
(* the slices before the next one have gone the same way.                  *)
THEOREM ConnectionsCarryPrefixes == Spec => []PrefixOfItsSession
<1>1. Init => PrefixOfItsSession
  <2>1. Init => DOMAIN arrived = {}
    BY DEF Init
  <2> QED
    BY <2>1 DEF PrefixOfItsSession
<1>2. TunnelInv /\ UpInv /\ UpInv' /\ SessionInv /\ PrefixOfItsSession /\ [Next]_vars
        => PrefixOfItsSession'
  <2> SUFFICES ASSUME TunnelInv, UpInv, UpInv', SessionInv, PrefixOfItsSession, [Next]_vars
               PROVE  PrefixOfItsSession'
    OBVIOUS
  <2>1. CASE UNCHANGED vars
    BY <2>1 DEF vars, client, tcp, router, PrefixOfItsSession
  <2> QED
    BY <2>1, PrefixStep
<1> QED
  BY <1>1, <1>2, TunnelInvariant, UpInvariant, SessionInvariant, PTL DEF Spec
=============================================================================
