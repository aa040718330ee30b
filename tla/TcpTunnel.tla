------------------------------ MODULE TcpTunnel -----------------------------
(***************************************************************************)
(* The first design, which carries zenoh-pico's TCP connection over the    *)
(* serial line: the client's system layer (src_client/unix_serial.cpp)     *)
(* turns open, close, send and receive into frames, and a proxy            *)
(* (src-pico/proxy.cpp, tcp_session.cpp, tcp.cpp) carries them out on a    *)
(* socket to the zenoh router.                                             *)
(*                                                                         *)
(* A slice of data is a number: the client's are 1 .. sends, the router's  *)
(* 1 .. writes.  The line keeps the order of frames and may lose any       *)
(* (FrameExtractor).  The SerialSession this proxy was built with is not   *)
(* in the repository; it hands over the payload of one frame at a time.    *)
(* As in the present one nothing emits its connected, so that handler does *)
(* not run.  Descriptors are never closed (tcp.cpp:246 only shuts down),   *)
(* so their numbers count up.                                              *)
(***************************************************************************)
EXTENDS Integers, Sequences, FiniteSets, SequencesExt

CONSTANTS
  MaxFds,      \* descriptors the process may have for sockets
  RecvMax,     \* what one recv() takes at most; 512 bytes in the code
  MaxSessions, \* bound: calls of _zn_open_tx_session
  MaxSlices,   \* bound: slices sent, in both directions together
  Wants,       \* how many bytes the client may ask for at a time
  MaxLine,     \* bound: frames on the line, in each direction
  MaxFaults    \* bound: kinds of faults that happen, each once

ASSUME TunnelAssumption ==
  /\ MaxFds \in Nat /\ RecvMax \in Nat \ {0} /\ MaxSessions \in Nat
  /\ MaxSlices \in Nat /\ Wants \subseteq Nat \ {0} /\ MaxLine \in Nat /\ MaxFaults \in Nat

Fds == 1 .. MaxFds
Serial == 0  \* the descriptor of the serial port
NoFd == -1   \* any number that is no descriptor in use

Header == 0  \* the byte TCP_RECV, as a byte of the client's stream

TCP_OPEN(s) == [type |-> "open", session |-> s, data |-> <<>>]
TCP_CLOSE == [type |-> "close", session |-> 0, data |-> <<>>]
TCP_SEND(n) == [type |-> "send", session |-> 0, data |-> <<n>>]
TCP_RECV(d) == [type |-> "recv", session |-> 0, data |-> d]
(* The events say, for the properties, which open they answer, if any. *)
TCP_CONNECTED(s) == [type |-> "connected", session |-> s, data |-> <<>>]
TCP_DISCONNECTED(s) == [type |-> "disconnected", session |-> s, data |-> <<>>]

Frame == [type : {"open", "close", "send", "recv", "connected", "disconnected"},
          session : Nat, data : Seq(Nat)]

VARIABLES
  opened, session, starts, \* the client: is a session open, how many there
                           \* were, and sends before each (history)
  sends,
  want,                    \* bytes the running recvData waits for; 0: none
  _inputStream,
  _eventStream,            \* only ever pushed to, hence a set
  received,                \* history: what recvData has returned
  toProxy, toClient,       \* the line
  _socket, invokers,       \* TcpSession, and the poll set of its thread
  waiting,                 \* the worker thread is blocked in recv()
  used,                    \* sockets 1 .. used have been created
  state, rx, peer, of,     \* each socket: open or shut, data to read, the
                           \* router's end, the session it was opened for
  writes,
  arrived,                 \* history: what the router got, and from where
  happened                 \* history: faults

client == <<opened, session, starts, sends, want, _inputStream, _eventStream, received>>
tcp == <<_socket, invokers, waiting, used, state, of>>
router == <<rx, peer, writes, arrived>>
vars == <<client, toProxy, toClient, tcp, router, happened>>

(* _socket is not initialised: it may happen to be the serial port's. *)
Init ==
  /\ opened = FALSE /\ session = 0 /\ starts = <<>> /\ sends = 0 /\ want = 0
  /\ _inputStream = <<>> /\ _eventStream = {} /\ received = <<>>
  /\ toProxy = <<>> /\ toClient = <<>>
  /\ _socket \in {Serial, NoFd} /\ invokers = {Serial} /\ waiting = FALSE
  /\ used = 0
  /\ state = [f \in Fds |-> "none"] /\ rx = [f \in Fds |-> <<>>]
  /\ peer = [f \in Fds |-> "up"] /\ of = [f \in Fds |-> 0]
  /\ writes = 0 /\ arrived = <<>> /\ happened = {}

-----------------------------------------------------------------------------
(* The client. *)

SendFrame(frame) ==
  /\ Len(toProxy) < MaxLine
  /\ toProxy' = Append(toProxy, frame)

(* _zn_open_tx_session: says OK without waiting for an answer. *)
ClientOpen ==
  /\ ~opened /\ session < MaxSessions
  /\ opened' = TRUE /\ session' = session + 1 /\ starts' = Append(starts, sends)
  /\ SendFrame(TCP_OPEN(session + 1))
  /\ UNCHANGED <<sends, want, _inputStream, _eventStream, received, toClient,
                 tcp, router, happened>>

(* _zn_close_tx_session *)
ClientClose ==
  /\ opened /\ opened' = FALSE
  /\ SendFrame(TCP_CLOSE)
  /\ UNCHANGED <<session, starts, sends, want, _inputStream, _eventStream, received,
                 toClient, tcp, router, happened>>

(* _zn_send_wbuf: one frame for each slice. *)
ClientSend ==
  /\ opened /\ sends + writes < MaxSlices
  /\ sends' = sends + 1
  /\ SendFrame(TCP_SEND(sends + 1))
  /\ UNCHANGED <<opened, session, starts, want, _inputStream, _eventStream, received,
                 toClient, tcp, router, happened>>

(* _zn_recv_bytes and _zn_recv_zbuf: recvData starts ... *)
ClientRecv(k) ==
  /\ opened /\ want = 0 /\ want' = k
  /\ UNCHANGED <<opened, session, starts, sends, _inputStream, _eventStream, received,
                 toProxy, toClient, tcp, router, happened>>

(* ... handles the frames that come in, the header byte being pushed along *)
(* with the data ...                                                       *)
HandleFrame ==
  /\ want > 0 /\ toClient # <<>>
  /\ toClient' = Tail(toClient)
  /\ IF Head(toClient).type = "recv"
     THEN /\ _inputStream' = _inputStream \o <<Header>> \o Head(toClient).data
          /\ UNCHANGED _eventStream
     ELSE /\ _eventStream' = _eventStream \union {Head(toClient)}
          /\ UNCHANGED _inputStream
  /\ UNCHANGED <<opened, session, starts, sends, want, received, toProxy,
                 tcp, router, happened>>

(* Mutant of RecvReturns: front() without pop_front(). *)
RecvReturnsKeeps ==
  /\ want > 0 /\ Len(_inputStream) >= want
  /\ received' = received \o SubSeq(_inputStream, 1, want)
  /\ want' = 0
  /\ UNCHANGED <<opened, session, starts, sends, _inputStream, _eventStream, toProxy,
                 toClient, tcp, router, happened>>

(* ... and returns when there are as many bytes as were asked for. *)
RecvReturns ==
  /\ want > 0 /\ Len(_inputStream) >= want
  /\ received' = received \o SubSeq(_inputStream, 1, want)
  /\ _inputStream' = SubSeq(_inputStream, want + 1, Len(_inputStream))
  /\ want' = 0
  /\ UNCHANGED <<opened, session, starts, sends, _eventStream, toProxy, toClient,
                 tcp, router, happened>>

Client ==
  \/ ClientOpen \/ ClientClose \/ ClientSend
  \/ \E k \in Wants : ClientRecv(k)
  \/ HandleFrame \/ RecvReturns

-----------------------------------------------------------------------------
(* The proxy's worker thread. *)
Emit(frame) ==
  /\ Len(toClient) < MaxLine
  /\ toClient' = Append(toClient, frame)

(* Mutant of Disconnect: no shutdown. *)
DisconnectNoShutdown ==
  /\ UNCHANGED state
  /\ Emit(TCP_DISCONNECTED(0))
  /\ invokers' = invokers \ {_socket}
  /\ UNCHANGED <<_socket, used, of>>

(* Mutant of Disconnect: the invokers stay. *)
DisconnectNoDelete ==
  /\ state' = [f \in Fds |-> IF f = _socket THEN "shut" ELSE state[f]]
  /\ Emit(TCP_DISCONNECTED(0))
  /\ UNCHANGED <<_socket, invokers, used, of>>

(* TcpSession::disconnect; the descriptor stays in _socket. *)
Disconnect ==
  /\ state' = [f \in Fds |-> IF f = _socket THEN "shut" ELSE state[f]]
  /\ Emit(TCP_DISCONNECTED(0))
  /\ invokers' = invokers \ {_socket}
  /\ UNCHANGED <<_socket, used, of>>

(* The next frame from the serial line. *)
Serial_incoming(type) ==
  /\ ~waiting /\ Serial \in invokers
  /\ toProxy # <<>> /\ Head(toProxy).type = type
  /\ toProxy' = Tail(toProxy)
  /\ UNCHANGED <<client, waiting, happened>>

(* _zn_open_tx_session of the proxy: an error, before or after a socket    *)
(* was created that is then left behind, or a connected socket.  When      *)
(* getaddrinfo fails, res and ip_addr are used uninitialised: freeaddrinfo *)
(* may end the process (OpenAborts), and what happens to be in ip_addr is  *)
(* refused by inet_pton (an error, with a socket) or is what the call      *)
(* before left there, the same address since the locator never changes.    *)
OpenTxSession(ok, created) ==
  /\ ok => created
  /\ created => used < MaxFds
  /\ used' = IF created THEN used + 1 ELSE used
  /\ state' = IF created THEN [state EXCEPT ![used + 1] = IF ok THEN "open" ELSE "shut"]
                         ELSE state

(* Mutant of Connect: no invoker is registered for reading. *)
ConnectNoReadInvoker(s, ok) ==
  /\ \E created \in BOOLEAN : OpenTxSession(ok, created)
  /\ IF ok
     THEN /\ _socket' = used + 1
          /\ of' = [of EXCEPT ![used + 1] = s]
          /\ Emit(TCP_CONNECTED(s))
          /\ UNCHANGED invokers
     ELSE /\ Emit(TCP_DISCONNECTED(s))
          /\ invokers' = invokers \ {_socket}
          /\ UNCHANGED <<_socket, of>>

(* Mutant of Connect: a failure is only logged. *)
ConnectFailsSilently(s, ok) ==
  /\ \E created \in BOOLEAN : OpenTxSession(ok, created)
  /\ IF ok
     THEN /\ _socket' = used + 1
          /\ of' = [of EXCEPT ![used + 1] = s]
          /\ invokers' = invokers \union {used + 1}
          /\ Emit(TCP_CONNECTED(s))
     ELSE UNCHANGED <<toClient, invokers, _socket, of>>

(* Mutant of Connect: the invoker is registered before the tag is looked at. *)
ConnectRegistersFirst(s, ok) ==
  /\ \E created \in BOOLEAN : OpenTxSession(ok, created)
  /\ invokers' = invokers \union {used + 1}
  /\ IF ok
     THEN /\ _socket' = used + 1
          /\ of' = [of EXCEPT ![used + 1] = s]
          /\ Emit(TCP_CONNECTED(s))
     ELSE /\ Emit(TCP_DISCONNECTED(s))
          /\ UNCHANGED <<_socket, of>>

(* TcpSession::connect: the old _socket is overwritten as it is, or kept   *)
(* when the new connection fails.                                          *)
Connect(s, ok) ==
  /\ \E created \in BOOLEAN : OpenTxSession(ok, created)
  /\ IF ok
     THEN /\ _socket' = used + 1
          /\ of' = [of EXCEPT ![used + 1] = s]
          /\ invokers' = invokers \union {used + 1}
          /\ Emit(TCP_CONNECTED(s))
     ELSE /\ Emit(TCP_DISCONNECTED(s))
          /\ invokers' = invokers \ {_socket}
          /\ UNCHANGED <<_socket, of>>

HandleOpen(ok) ==
  /\ Serial_incoming("open")
  /\ Connect(Head(toProxy).session, ok)
  /\ UNCHANGED router

HandleClose == Serial_incoming("close") /\ Disconnect /\ UNCHANGED router

(* TcpSession::outgoing: an error of send() is only logged. *)
HandleSend ==
  /\ Serial_incoming("send")
  /\ arrived' = IF _socket \in Fds /\ state[_socket] = "open" /\ peer[_socket] = "up"
                THEN Append(arrived, [n |-> Head(toProxy).data[1], fd |-> _socket])
                ELSE arrived
  /\ UNCHANGED <<toClient, _socket, invokers, used, state, of, rx, peer, writes>>

Readable(f) == f \in Fds /\ (rx[f] # <<>> \/ peer[f] # "up" \/ state[f] = "shut")

(* TcpSession::invoke after recv(_socket) has returned: data is passed on, *)
(* the end of the stream or an error closes the session.                   *)
RecvResult ==
  /\ waiting' = FALSE
  /\ IF rx[_socket] # <<>>
     THEN \E n \in 1 .. (IF Len(rx[_socket]) < RecvMax THEN Len(rx[_socket]) ELSE RecvMax) :
            /\ Emit(TCP_RECV(SubSeq(rx[_socket], 1, n)))
            /\ rx' = [rx EXCEPT ![_socket] = SubSeq(@, n + 1, Len(@))]
            /\ UNCHANGED <<_socket, invokers, used, state, of>>
     ELSE Disconnect /\ UNCHANGED rx
  /\ UNCHANGED <<client, toProxy, peer, writes, arrived, happened>>

(* invoke() reads _socket whichever descriptor was reported: if that one   *)
(* has nothing, recv() blocks the thread.                                  *)
Invoke(f) ==
  /\ ~waiting /\ f \in invokers /\ Readable(f)
  /\ IF Readable(_socket)
     THEN RecvResult
     ELSE /\ waiting' = TRUE
          /\ UNCHANGED <<client, toProxy, toClient, _socket, invokers, used, state, of,
                         router, happened>>

RecvUnblocked == waiting /\ Readable(_socket) /\ RecvResult

(* TcpSession::onError, for any descriptor that was registered with it. *)
OnError(f) ==
  /\ ~waiting /\ f \in invokers /\ f \in Fds /\ peer[f] = "reset"
  /\ Disconnect
  /\ UNCHANGED <<client, toProxy, waiting, router, happened>>

HandleSerial == \/ \E ok \in BOOLEAN : HandleOpen(ok)
                \/ HandleClose \/ HandleSend

Worker == HandleSerial \/ RecvUnblocked \/ \E f \in Fds : Invoke(f) \/ OnError(f)

-----------------------------------------------------------------------------
(* The router. *)
RouterWrite(f) ==
  /\ state[f] = "open" /\ peer[f] = "up" /\ sends + writes < MaxSlices
  /\ writes' = writes + 1
  /\ rx' = [rx EXCEPT ![f] = Append(@, writes + 1)]
  /\ UNCHANGED <<client, toProxy, toClient, tcp, peer, arrived, happened>>

RouterEnds(f, how) ==
  /\ state[f] = "open" /\ peer[f] = "up"
  /\ peer' = [peer EXCEPT ![f] = how]
  /\ UNCHANGED <<client, toProxy, toClient, tcp, rx, writes,
                 arrived, happened>>

Router == \E f \in Fds : RouterWrite(f) \/ \E how \in {"closed", "reset"} : RouterEnds(f, how)

-----------------------------------------------------------------------------
(* Faults. *)
Strikes(fault) ==
  /\ fault \notin happened /\ Cardinality(happened) < MaxFaults
  /\ happened' = happened \union {fault}

Lose ==
  /\ Strikes("loss")
  /\ \/ \E n \in DOMAIN toProxy : toProxy' = RemoveAt(toProxy, n) /\ UNCHANGED toClient
     \/ \E n \in DOMAIN toClient : toClient' = RemoveAt(toClient, n) /\ UNCHANGED toProxy
  /\ UNCHANGED <<client, tcp, router>>

(* The client's process ends and starts again: its globals are empty, the  *)
(* proxy is told nothing, and what arrives meanwhile is gone.              *)
ClientRestart ==
  /\ Strikes("clientRestart")
  /\ opened' = FALSE /\ want' = 0 /\ _inputStream' = <<>> /\ _eventStream' = {}
  /\ \E n \in 0 .. Len(toClient) : toClient' = SubSeq(toClient, n + 1, Len(toClient))
  /\ UNCHANGED <<session, starts, sends, received, toProxy, tcp, router>>

(* The proxy ends, and with it its sockets, and main() runs again. *)
ProxyRestart ==
  /\ Strikes("proxyRestart")
  /\ _socket' \in {Serial, NoFd} /\ invokers' = {Serial} /\ waiting' = FALSE
  /\ state' = [f \in Fds |-> IF f <= used THEN "shut" ELSE "none"]
  /\ \E n \in 0 .. Len(toProxy) : toProxy' = SubSeq(toProxy, n + 1, Len(toProxy))
  /\ UNCHANGED <<client, toClient, used, of, router>>

(* freeaddrinfo of a res that getaddrinfo did not set ends the process in  *)
(* the middle of an open: a ProxyRestart to which at least the open is lost.*)
OpenAborts ==
  /\ ~waiting /\ Serial \in invokers
  /\ toProxy # <<>> /\ Head(toProxy).type = "open"
  /\ ProxyRestart
  /\ Len(toProxy') < Len(toProxy)

Next == Client \/ Worker \/ Router \/ Lose \/ ClientRestart \/ ProxyRestart \/ OpenAborts

Spec == Init /\ [][Next]_vars

(* The poll loop of the worker thread serves every descriptor it reports,  *)
(* recv() returns when it can, and the read task of zenoh-pico calls       *)
(* recvData again and again while a session is open.                       *)
Fairness ==
  /\ WF_vars(HandleSerial) /\ WF_vars(RecvUnblocked)
  /\ \A f \in Fds : WF_vars(Invoke(f))
  /\ WF_vars(\E k \in Wants : ClientRecv(k))
  /\ WF_vars(HandleFrame) /\ WF_vars(RecvReturns)

FairSpec == Spec /\ Fairness

-----------------------------------------------------------------------------
(* The bytes of a stream that are data, up to each position, and all. *)
SlicesUpTo(bytes) ==
  LET upTo[k \in 0 .. Len(bytes)] ==
        IF k = 0 THEN <<>>
        ELSE IF bytes[k] = Header THEN upTo[k - 1] ELSE Append(upTo[k - 1], bytes[k])
  IN  upTo
Slices(bytes) == SlicesUpTo(bytes)[Len(bytes)]

Up == INSTANCE ByteStream WITH sent <- sends, delivered <- [i \in DOMAIN arrived |-> arrived[i].n]
Down == INSTANCE ByteStream WITH sent <- writes, delivered <- Slices(received)

(* Both directions are streams that may have holes but never repeat or     *)
(* reorder, over any number of sessions and in spite of lost frames,       *)
(* restarts and overlapping connections.                                   *)
ImplementsStreams == Up!SSpec /\ Down!SSpec

(* What a connection carries to the router is a leading part of what its   *)
(* own session sent, with nothing of another session, also when the proxy  *)
(* restarts: a failed open leaves the old _socket in place                 *)
(* (tcp_session.cpp:29-31), but a close has shut it.  A lost frame makes a *)
(* hole, and a client that restarts without closing can go on sending into *)
(* the connection of its predecessor.                                      *)
PrefixOfItsSession ==
  happened \subseteq {"proxyRestart"} =>
    \A i \in DOMAIN arrived :
      LET f == arrived[i].fd
          s == of[f]
      IN  /\ arrived[i].n > starts[s]
          /\ s < session => arrived[i].n <= starts[s + 1]
          /\ \A n \in starts[s] + 1 .. arrived[i].n - 1 :
               \E j \in 1 .. i - 1 : arrived[j] = [n |-> n, fd |-> f]
          /\ \A j \in 1 .. i - 1 : arrived[j] # arrived[i]

(* invoke() reads _socket, not the descriptor that was reported: as long   *)
(* as every open is preceded by the close of the session before it the two *)
(* are the same and the worker thread never blocks in recv().              *)
WorkerNotStuck == happened \subseteq {"proxyRestart"} => ~waiting

(* Types; sockets are registered, used and given to the router only once   *)
(* they were created.                                                      *)
TypeOK ==
  /\ opened \in BOOLEAN /\ session \in Nat /\ starts \in Seq(Nat) /\ sends \in Nat
  /\ want \in {0} \union Wants
  /\ _inputStream \in Seq(Nat) /\ _eventStream \subseteq Frame /\ received \in Seq(Nat)
  /\ toProxy \in Seq(Frame) /\ toClient \in Seq(Frame)
  /\ used \in 0 .. MaxFds
  /\ _socket \in {Serial, NoFd} \union 1 .. used
  /\ invokers \subseteq {Serial} \union 1 .. used
  /\ waiting \in BOOLEAN /\ (waiting => _socket \in Fds)
  /\ state \in [Fds -> {"none", "open", "shut"}]
  /\ peer \in [Fds -> {"up", "closed", "reset"}]
  /\ rx \in [Fds -> Seq(Nat)] /\ of \in [Fds -> Nat] /\ writes \in Nat
  /\ \A f \in Fds : state[f] = "none" <=> f > used
  /\ (invokers \intersect Fds # {} => _socket \in Fds)

(* In the frames s on the line there is a close between any two opens,     *)
(* before the first open if a socket is registered, and after the last     *)
(* open or the registered socket if the client has no session.             *)
OpensAlternate(s, registered, inSession) ==
  /\ \A i, k \in DOMAIN s : i < k /\ s[i].type = "open" /\ s[k].type = "open"
       => \E j \in DOMAIN s : i < j /\ j < k /\ s[j].type = "close"
  /\ registered => \A k \in DOMAIN s : s[k].type = "open"
       => \E j \in DOMAIN s : j < k /\ s[j].type = "close"
  /\ ~inSession =>
       /\ \A i \in DOMAIN s : s[i].type = "open"
            => \E j \in DOMAIN s : i < j /\ s[j].type = "close"
       /\ registered => \E j \in DOMAIN s : s[j].type = "close"

OneSocket ==
  /\ ~waiting
  /\ invokers \intersect Fds \subseteq {_socket}
  /\ OpensAlternate(toProxy, invokers \intersect Fds # {}, opened)

(* The inductive form of WorkerNotStuck: until a frame is lost or the      *)
(* client restarts, _socket is the only socket registered.                 *)
TunnelInv == TypeOK /\ (happened \subseteq {"proxyRestart"} => OneSocket)

(* Every open is answered with TCP_CONNECTED or TCP_DISCONNECTED, whatever *)
(* became of the sessions before it: unless the client closes again, or    *)
(* the proxy no longer listens to the serial port because a failed connect *)
(* took the uninitialised _socket for the serial port's descriptor.        *)
OpenIsAnswered ==
  \A s \in 1 .. MaxSessions :
    (opened /\ session = s) ~>
      \/ \E e \in _eventStream : e.session = s
      \/ ~opened \/ happened # {} \/ Serial \notin invokers

(* What the router writes reaches the client's stream, unless its session  *)
(* is ended before by either side.                                         *)
DownDelivered ==
  \A n \in 1 .. MaxSlices :
    (writes = n) ~>
      \/ Contains(_inputStream \o received, n)
      \/ \E f \in Fds : state[f] = "shut" /\ Contains(rx[f], n)
      \/ ~opened \/ happened # {}
=============================================================================
