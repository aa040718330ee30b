--------------------------- MODULE SerialSession ----------------------------
(***************************************************************************)
(* The proxy's end of the serial port: Serial (src/serial.cpp) inside      *)
(* SerialSession (src/serial_session.cpp), driven by the poll loop of the  *)
(* worker thread.  Invokers are registered by file descriptor number, and  *)
(* the kernel hands a closed number to whoever opens a file next: zenoh's  *)
(* threads open and close their sockets in the same process.               *)
(*                                                                         *)
(* Sending is in TxPath.  main() connects once and never again.            *)
(***************************************************************************)
EXTENDS Integers, Sequences

CONSTANTS
  Fds,       \* descriptor numbers the process may be given
  MaxArrived \* bound: bytes the microcontroller sends

ASSUME FdsAssumption == Fds \subseteq Nat \ {0}
ASSUME MaxArrivedAssumption == MaxArrived \in Nat

NoFd == -1

VARIABLES
  fd, connected, \* Serial: _fd and _connected
  rxdBuffer,     \* SerialSession: _rxdBuffer
  emitted,       \* what SerialSession has put on incoming
  invokers,      \* the worker thread's poll set, by descriptor number
  worker,        \* where the worker thread is
  owner,         \* the kernel's descriptor table
  port,          \* the device: present, or gone (unplugged)
  rx, arrived    \* the kernel's input queue, and how many bytes ever came

vars == <<fd, connected, rxdBuffer, emitted, invokers, worker, owner, port, rx, arrived>>

Init ==
  /\ fd = NoFd /\ connected = FALSE
  /\ rxdBuffer = <<>> /\ emitted = <<>>
  /\ invokers = {} /\ worker = "start"
  /\ owner \in [Fds -> {"free", "other"}]
  /\ port \in {"present", "gone"}
  /\ rx = <<>> /\ arrived = 0

device == <<port, rx, arrived>>
received == <<rxdBuffer, emitted>>

-----------------------------------------------------------------------------
(* Serial::connect(), called once by SerialSession, which does not look at *)
(* the result.  Other threads run between its system calls.                *)
Open(f) ==
  /\ worker = "start" /\ port = "present" /\ owner[f] = "free"
  /\ fd' = f
  /\ owner' = [owner EXCEPT ![f] = "serial"]
  /\ worker' = "configuring"
  /\ UNCHANGED <<connected, received, invokers, device>>

OpenFails ==
  /\ worker = "start"
  /\ fd' = NoFd
  /\ worker' = "opened"
  /\ UNCHANGED <<connected, received, invokers, owner, device>>

Configured ==
  /\ worker = "configuring" /\ port = "present"
  /\ connected' = TRUE
  /\ worker' = "opened"
  /\ UNCHANGED <<fd, received, invokers, owner, device>>

(* Mutant of ConfigureFails: one of the four exits forgets its close(). *)
ConfigureFailsLeaks ==
  /\ worker = "configuring"
  /\ worker' = "rejected"
  /\ UNCHANGED <<fd, connected, received, invokers, owner, device>>

(* isatty, tcgetattr, cfsetspeed or tcsetattr fails: each exit closes the  *)
(* descriptor first and sets _fd afterwards.                               *)
ConfigureFails ==
  /\ worker = "configuring"
  /\ owner' = [owner EXCEPT ![fd] = "free"]
  /\ worker' = "rejected"
  /\ UNCHANGED <<fd, connected, received, invokers, device>>

ConfigureReturns ==
  /\ worker = "rejected"
  /\ fd' = NoFd
  /\ worker' = "opened"
  /\ UNCHANGED <<connected, received, invokers, owner, device>>

(* addReadInvoker and addErrorInvoker, for -1 too. *)
AddInvokers ==
  /\ worker = "opened"
  /\ invokers' = invokers \cup {fd}
  /\ worker' = "loop"
  /\ UNCHANGED <<fd, connected, received, owner, device>>

(* poll() reports a registered descriptor: there are bytes to read, or the *)
(* device is gone, or the number now stands for a file of another thread.  *)
Reported(f) ==
  /\ worker = "loop" /\ f \in invokers \cap Fds
  /\ owner[f] # "free"
  /\ owner[f] = "serial" => (rx # <<>> \/ port = "gone")

(* Mutant of Rxd: out is not cleared first (serial.cpp:151). *)
RxdKeepsOut(out, bytes, failed) ==
  /\ connected
  /\ port = "present" => bytes = rx /\ ~failed
  /\ out = rxdBuffer \o bytes
  /\ rx' = <<>>

(* Serial::rxd(): reads until there is no more; the bytes read are in out, *)
(* which starts empty.  When the device is gone, read() ends with 0 or     *)
(* with an error, after any part of the queue.  ENOTCONN is not returned   *)
(* here: an invoker is registered only while _connected.                   *)
Rxd(out, bytes, failed) ==
  /\ connected
  /\ port = "present" => bytes = rx /\ ~failed
  /\ out = bytes
  /\ rx' = <<>>

(* SerialSession::invoke(): what was read before an error is not emitted. *)
Invoke(f) ==
  /\ Reported(f)
  /\ \E n \in 0 .. Len(rx), failed \in BOOLEAN :
       /\ Rxd(rxdBuffer', SubSeq(rx, 1, n), failed)
       /\ emitted' = IF failed THEN emitted ELSE emitted \o rxdBuffer'
  /\ UNCHANGED <<fd, connected, invokers, worker, owner, port, arrived>>

-----------------------------------------------------------------------------
(* Mutant of OnError: disconnect() closes and clears before deleteInvoker, *)
(* which then looks for -1.                                                *)
OnErrorCloseFirst(f) ==
  /\ worker = "loop" /\ f \in invokers \cap Fds
  /\ owner[f] = "serial" /\ port = "gone"
  /\ owner' = [owner EXCEPT ![fd] = "free"]
  /\ fd' = NoFd /\ connected' = FALSE
  /\ invokers' = invokers \ {NoFd}
  /\ UNCHANGED <<worker, received, device>>

(* Mutant of OnError: the error is only logged. *)
OnErrorIgnored(f) == Reported(f) /\ port = "gone" /\ UNCHANGED vars

(* onError() -> disconnect(): deleteInvoker, close, then the fields.  Other *)
(* threads run between the three.                                          *)
OnError(f) ==
  /\ worker = "loop" /\ f \in invokers \cap Fds
  /\ owner[f] = "serial" /\ port = "gone"
  /\ invokers' = invokers \ {fd}
  /\ worker' = "unhooked"
  /\ UNCHANGED <<fd, connected, received, owner, device>>

Close ==
  /\ worker = "unhooked"
  /\ owner' = IF fd \in Fds THEN [owner EXCEPT ![fd] = "free"] ELSE owner
  /\ worker' = "closed"
  /\ UNCHANGED <<fd, connected, received, invokers, device>>

Clear ==
  /\ worker = "closed"
  /\ fd' = NoFd /\ connected' = FALSE
  /\ worker' = "loop"
  /\ UNCHANGED <<received, invokers, owner, device>>

Worker ==
  \/ \E f \in Fds : Open(f) \/ Invoke(f) \/ OnError(f)
  \/ OpenFails \/ Configured \/ ConfigureFails \/ ConfigureReturns
  \/ AddInvokers \/ Close \/ Clear

-----------------------------------------------------------------------------
(* Outside the worker thread: zenoh's sockets, bytes on the line, and the  *)
(* device being pulled.                                                    *)
OtherOpens(f) ==
  /\ owner[f] = "free" /\ owner' = [owner EXCEPT ![f] = "other"]
  /\ UNCHANGED <<fd, connected, received, invokers, worker, device>>

OtherCloses(f) ==
  /\ owner[f] = "other" /\ owner' = [owner EXCEPT ![f] = "free"]
  /\ UNCHANGED <<fd, connected, received, invokers, worker, device>>

Arrive ==
  /\ port = "present" /\ (\E f \in Fds : owner[f] = "serial") /\ arrived < MaxArrived
  /\ rx' = Append(rx, arrived + 1) /\ arrived' = arrived + 1
  /\ UNCHANGED <<fd, connected, received, invokers, worker, owner, port>>

Unplug ==
  /\ port = "present" /\ port' = "gone"
  /\ UNCHANGED <<fd, connected, received, invokers, worker, owner, rx, arrived>>

Outside == Arrive \/ Unplug \/ \E f \in Fds : OtherOpens(f) \/ OtherCloses(f)

Next == Worker \/ Outside

Spec == Init /\ [][Next]_vars

(* The poll loop serves a reported descriptor, and a handler that has      *)
(* started runs to its end.                                                *)
Fairness ==
  /\ WF_vars(AddInvokers) /\ WF_vars(Close) /\ WF_vars(Clear)
  /\ \A f \in Fds : WF_vars(OnError(f))

FairSpec == Spec /\ Fairness

-----------------------------------------------------------------------------
(* An invoker is registered only for a descriptor the serial port holds:   *)
(* the poll loop never calls SerialSession for another thread's file, even *)
(* though zenoh's threads may be given the number between the steps of     *)
(* disconnect() (serial_session.cpp:28-32).                                *)
InvokersOwnTheirFd ==
  \A f \in invokers \cap Fds : f = fd /\ owner[f] = "serial"

(* No way out of connect() or disconnect() loses a descriptor of the port: *)
(* the only one there is stays in _fd, where close() finds it, through the *)
(* four exits of connect() that already hold it (serial.cpp:87-129); and   *)
(* once connect() is over, a port that is not connected holds none.        *)
NoLeakedFd ==
  \A f \in Fds : owner[f] = "serial" =>
    /\ f = fd /\ worker # "start"
    /\ worker # "configuring" => connected

(* SerialSession emits the bytes of the line in order, none twice and none *)
(* left out before one that is emitted (serial.cpp:150-168): an error can  *)
(* only cut off the end.                                                   *)
EmittedInOrder ==
  \A i \in DOMAIN emitted : emitted[i] = i

(* Types, and the inductive strengthening: the descriptor table and        *)
(* Serial's fields agree at every point of connect() and disconnect().     *)
FdInv ==
  /\ fd \in Fds \cup {NoFd} /\ connected \in BOOLEAN
  /\ invokers \subseteq Fds \cup {NoFd}
  /\ worker \in {"start", "configuring", "rejected", "opened", "loop", "unhooked", "closed"}
  /\ owner \in [Fds -> {"free", "serial", "other"}]
  /\ InvokersOwnTheirFd
  /\ NoLeakedFd
  /\ worker # "loop" => invokers \cap Fds = {}
  /\ worker = "configuring" => fd \in Fds
  /\ worker \in {"configuring", "opened", "unhooked"} /\ fd \in Fds => owner[fd] = "serial"
  /\ worker \in {"rejected", "closed"} => \A f \in Fds : owner[f] # "serial"

(* Types, and the inductive strengthening of EmittedInOrder: the kernel's  *)
(* queue continues what has been emitted, and until the device is gone the *)
(* two hold every byte that came.                                          *)
OrderInv ==
  /\ rx \in Seq(Nat) /\ emitted \in Seq(Nat) /\ rxdBuffer \in Seq(Nat)
  /\ arrived \in Nat /\ port \in {"present", "gone"}
  /\ EmittedInOrder
  /\ \A i \in DOMAIN rx : rx[i] = Len(emitted) + i
  /\ port = "present" => arrived = Len(emitted) + Len(rx)

(* Once the device is gone an open port is let go: the descriptor is       *)
(* closed and no invoker stays behind (serial_session.cpp:45).             *)
LossIsHandled ==
  (port = "gone" /\ connected) ~>
     (fd = NoFd /\ ~connected /\ invokers \cap Fds = {}
        /\ \A f \in Fds : owner[f] # "serial")
=============================================================================
