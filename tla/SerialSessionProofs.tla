------------------------ MODULE SerialSessionProofs -------------------------
(* Proofs about SerialSession, for every set of descriptor numbers.          *)
EXTENDS SerialSession, SequenceTheorems, TLAPS

(* The descriptor invariant holds when main() starts. *)
LEMMA FdInvInit == Init => FdInv
  BY FdsAssumption DEF Init, FdInv, InvokersOwnTheirFd, NoLeakedFd, NoFd

(* Every step of the worker thread, and of the threads around it, keeps    *)
(* the descriptor invariant: the registration goes before the descriptor,  *)
(* and the descriptor before the fields.                                   *)
LEMMA FdInvNext == FdInv /\ [Next]_vars => FdInv'
<1>1. SUFFICES ASSUME FdInv, [Next]_vars PROVE FdInv'
  OBVIOUS
<1>. USE FdsAssumption DEF FdInv, InvokersOwnTheirFd, NoLeakedFd, NoFd
<1>2. ASSUME NEW f \in Fds, Open(f) PROVE FdInv'
  <2>1. /\ worker = "start" /\ worker' = "configuring" /\ fd' = f
        /\ owner' = [owner EXCEPT ![f] = "serial"]
        /\ UNCHANGED <<connected, invokers>>
    BY <1>2 DEF Open
  <2>2. owner' \in [Fds -> {"free", "serial", "other"}] /\ owner'[f] = "serial"
    BY <1>1, <2>1
  <2>3. \A g \in Fds \ {f} : owner'[g] # "serial"
    BY <1>1, <2>1
  <2>. QED  BY <1>1, <2>1, <2>2, <2>3
<1>3. CASE OpenFails \/ Configured
  <2>1. /\ UNCHANGED <<invokers, owner>>
        /\ \/ worker = "start" /\ fd' = NoFd /\ connected' = connected
           \/ worker = "configuring" /\ fd' = fd /\ connected' = TRUE
        /\ worker' = "opened"
    BY <1>3 DEF OpenFails, Configured
  <2>2. invokers' \cap Fds = {}
    BY <1>1, <2>1
  <2>3. CASE worker = "start"
    <3>1. \A f \in Fds : owner'[f] # "serial"
      BY <1>1, <2>1, <2>3
    <3>. QED  BY <1>1, <2>1, <2>2, <2>3, <3>1
  <2>4. CASE worker = "configuring"
    BY <1>1, <2>1, <2>2, <2>4
  <2>. QED  BY <2>1, <2>3, <2>4
<1>11. CASE ConfigureFails
  <2>1. /\ worker = "configuring" /\ worker' = "rejected" /\ fd \in Fds
        /\ owner' = [owner EXCEPT ![fd] = "free"]
        /\ UNCHANGED <<fd, connected, invokers>>
    BY <1>1, <1>11 DEF ConfigureFails
  <2>2. owner' \in [Fds -> {"free", "serial", "other"}]
    BY <1>1, <2>1
  <2>3. \A f \in Fds : owner'[f] # "serial"
    BY <1>1, <2>1
  <2>. QED  BY <1>1, <2>1, <2>2, <2>3
<1>12. CASE ConfigureReturns
  BY <1>1, <1>12 DEF ConfigureReturns
<1>4. CASE AddInvokers
  BY <1>1, <1>4 DEF AddInvokers
<1>5. ASSUME NEW f \in Fds, Invoke(f) PROVE FdInv'
  BY <1>1, <1>5 DEF Invoke
<1>6. ASSUME NEW f \in Fds, OnError(f) PROVE FdInv'
  BY <1>1, <1>6 DEF OnError
<1>7. CASE Close
  <2>1. UNCHANGED <<fd, connected, invokers>> /\ worker = "unhooked" /\ worker' = "closed"
    BY <1>7 DEF Close
  <2>2. CASE fd \in Fds
    <3>1. owner' = [owner EXCEPT ![fd] = "free"]
      BY <1>7, <2>2 DEF Close
    <3>2. owner' \in [Fds -> {"free", "serial", "other"}]
      BY <1>1, <3>1
    <3>3. \A f \in Fds : owner'[f] # "serial"
      BY <1>1, <3>1, <2>2
    <3>. QED  BY <1>1, <2>1, <3>2, <3>3
  <2>3. CASE fd \notin Fds
    <3>1. owner' = owner
      BY <1>7, <2>3 DEF Close
    <3>2. \A f \in Fds : owner[f] # "serial"
      BY <1>1, <2>3
    <3>. QED  BY <1>1, <2>1, <3>1, <3>2
  <2>. QED  BY <2>2, <2>3
<1>8. CASE Clear
  <2>1. /\ worker = "closed" /\ worker' = "loop"
        /\ fd' = NoFd /\ connected' = FALSE /\ UNCHANGED <<invokers, owner>>
    BY <1>8 DEF Clear
  <2>2. (\A f \in Fds : owner[f] # "serial") /\ invokers \cap Fds = {}
    BY <1>1, <2>1
  <2>3. InvokersOwnTheirFd' /\ NoLeakedFd'
    BY <2>1, <2>2
  <2>. QED  BY <1>1, <2>1, <2>2, <2>3
<1>9. ASSUME NEW f \in Fds, OtherOpens(f) \/ OtherCloses(f) PROVE FdInv'
  BY <1>1, <1>9 DEF OtherOpens, OtherCloses
<1>10. CASE Arrive \/ Unplug \/ UNCHANGED vars
  BY <1>1, <1>10 DEF Arrive, Unplug, vars
<1>. QED
  BY <1>1, <1>2, <1>3, <1>4, <1>5, <1>6, <1>7, <1>8, <1>9, <1>10, <1>11, <1>12
  DEF Next, Worker, Outside

(* Serial's fields, the poll set and the descriptor table agree at every   *)
(* point of connect() and disconnect(), whatever descriptors other threads *)
(* open and close meanwhile (serial_session.cpp:21-32).                    *)
THEOREM FdInvariant == Spec => []FdInv
  BY FdInvInit, FdInvNext, PTL DEF Spec

(* The poll loop never calls SerialSession for a file of another thread    *)
(* (serial_session.cpp:28-32).                                             *)
THEOREM InvokersSafe == Spec => []InvokersOwnTheirFd
<1>1. FdInv => InvokersOwnTheirFd
  BY DEF FdInv
<1>. QED  BY <1>1, FdInvariant, PTL

(* Every way out of connect(), the four after open() included, and of      *)
(* disconnect() gives the descriptor back: the only one the port holds is  *)
(* in _fd, and a port that is not connected holds none once connect() is   *)
(* over (serial.cpp:75-148).                                               *)
THEOREM FdNotLeaked == Spec => []NoLeakedFd
<1>1. FdInv => NoLeakedFd
  BY DEF FdInv
<1>. QED  BY <1>1, FdInvariant, PTL

-----------------------------------------------------------------------------
(* Nothing has been received when main() starts. *)
LEMMA OrderInvInit == Init => OrderInv
  BY DEF Init, OrderInv, EmittedInOrder

(* Reading moves the queue behind what was emitted, or loses its end for   *)
(* good.                                                                   *)
LEMMA InvokeKeepsOrder ==
  ASSUME OrderInv, NEW f \in Fds, Invoke(f)
  PROVE  OrderInv'
<1>. USE DEF OrderInv, EmittedInOrder
<1>1. PICK n \in 0 .. Len(rx), failed \in BOOLEAN :
        /\ Rxd(rxdBuffer', SubSeq(rx, 1, n), failed)
        /\ emitted' = IF failed THEN emitted ELSE emitted \o rxdBuffer'
  BY DEF Invoke
<1>2. /\ rxdBuffer' = SubSeq(rx, 1, n) /\ rx' = <<>>
      /\ port = "present" => rxdBuffer' = rx /\ ~failed
  BY <1>1 DEF Rxd
<1>3. UNCHANGED <<port, arrived>>
  BY DEF Invoke
<1>4. /\ rxdBuffer' \in Seq(Nat) /\ Len(rxdBuffer') = n
      /\ \A i \in 1 .. n : rxdBuffer'[i] = Len(emitted) + i
  BY <1>2
<1>. rx' \in Seq(Nat) /\ Len(rx') = 0 /\ DOMAIN rx' = {}
  BY <1>2
<1>5. CASE failed
  <2>1. emitted' = emitted /\ port # "present"
    BY <1>1, <1>2, <1>5
  <2>. QED  BY <1>3, <1>4, <2>1
<1>6. CASE ~failed
  <2>1. emitted' = emitted \o rxdBuffer'
    BY <1>1, <1>6
  <2>2. emitted' \in Seq(Nat) /\ Len(emitted') = Len(emitted) + n
    BY <2>1, <1>4, ConcatProperties
  <2>3. EmittedInOrder'
    <3>1. ASSUME NEW i \in 1 .. Len(emitted) PROVE emitted'[i] = i
      BY <2>1, <1>4, ConcatProperties
    <3>2. ASSUME NEW i \in 1 .. n PROVE emitted'[Len(emitted) + i] = Len(emitted) + i
      BY <2>1, <1>4, ConcatProperties
    <3>3. ASSUME NEW i \in 1 .. Len(emitted) + n, i \notin 1 .. Len(emitted)
          PROVE emitted'[i] = i
      <4>1. i - Len(emitted) \in 1 .. n /\ i = Len(emitted) + (i - Len(emitted))
        BY <3>3
      <4>. QED  BY <4>1, <3>2
    <3>4. DOMAIN emitted' = 1 .. Len(emitted) + n
      BY <2>2
    <3>. QED  BY <3>1, <3>3, <3>4
  <2>4. port = "present" => Len(rx) = n
    BY <1>2, <1>4
  <2>5. port = "present" => arrived' = Len(emitted') + Len(rx')
    <3>1. ASSUME port = "present" PROVE arrived = Len(emitted) + n
      BY <3>1, <2>4
    <3>. QED  BY <3>1, <2>2, <1>3
  <2>. QED  BY <2>2, <2>3, <2>5, <1>3, <1>4
<1>. QED  BY <1>5, <1>6

LEMMA OrderInvNext == OrderInv /\ [Next]_vars => OrderInv'
<1>1. SUFFICES ASSUME OrderInv, [Next]_vars PROVE OrderInv'
  OBVIOUS
<1>. USE DEF OrderInv, EmittedInOrder, device, received
<1>2. ASSUME NEW f \in Fds, Open(f) \/ OnError(f) \/ OtherOpens(f) \/ OtherCloses(f)
      PROVE OrderInv'
  BY <1>1, <1>2 DEF Open, OnError, OtherOpens, OtherCloses
<1>3. CASE \/ OpenFails \/ Configured \/ ConfigureFails \/ ConfigureReturns
           \/ AddInvokers \/ Close \/ Clear \/ UNCHANGED vars
  BY <1>1, <1>3 DEF OpenFails, Configured, ConfigureFails, ConfigureReturns,
                    AddInvokers, Close, Clear, vars
<1>4. ASSUME NEW f \in Fds, Invoke(f) PROVE OrderInv'
  BY <1>1, <1>4, InvokeKeepsOrder
<1>5. CASE Arrive
  <2>1. /\ rx' = Append(rx, arrived + 1) /\ arrived' = arrived + 1
        /\ port = "present" /\ UNCHANGED <<emitted, rxdBuffer, port>>
    BY <1>5 DEF Arrive
  <2>2. rx' \in Seq(Nat) /\ Len(rx') = Len(rx) + 1 /\ DOMAIN rx' = 1 .. Len(rx) + 1
    BY <1>1, <2>1
  <2>3. \A i \in DOMAIN rx' : rx'[i] = Len(emitted) + i
    <3>1. arrived + 1 = Len(emitted) + (Len(rx) + 1)
      BY <1>1, <2>1
    <3>2. ASSUME NEW i \in 1 .. Len(rx) PROVE rx'[i] = Len(emitted) + i
      BY <1>1, <2>1, AppendProperties
    <3>3. rx'[Len(rx) + 1] = arrived + 1
      BY <1>1, <2>1, AppendProperties
    <3>4. Len(rx) \in Nat
      BY <1>1
    <3>5. ASSUME NEW i \in 1 .. Len(rx) + 1 PROVE i \in 1 .. Len(rx) \/ i = Len(rx) + 1
      BY <3>4
    <3>6. ASSUME NEW i \in DOMAIN rx' PROVE rx'[i] = Len(emitted) + i
      <4>1. CASE i \in 1 .. Len(rx)
        BY <4>1, <3>2
      <4>2. CASE i = Len(rx) + 1
        BY <4>2, <3>1, <3>3
      <4>. QED  BY <2>2, <3>5, <4>1, <4>2
    <3>. QED  BY <3>6
  <2>. QED  BY <1>1, <2>1, <2>2, <2>3
<1>6. CASE Unplug
  BY <1>1, <1>6 DEF Unplug
<1>. QED
  BY <1>1, <1>2, <1>3, <1>4, <1>5, <1>6 DEF Next, Worker, Outside

(* The bytes of the line reach the frame extractor in order, none twice    *)
(* and none left out before one that arrives (serial.cpp:150-168,          *)
(* serial_session.cpp:34-43).                                              *)
THEOREM BytesInOrder == Spec => []EmittedInOrder
<1>1. OrderInv => EmittedInOrder
  BY DEF OrderInv
<1>. QED  BY <1>1, OrderInvInit, OrderInvNext, PTL DEF Spec
=============================================================================
