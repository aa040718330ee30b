# A verification project for zenoh-proxy

zenoh-proxy connects a microcontroller to a zenoh network over a serial line.
The microcontroller numbers its topics, declares them once per connection and
afterwards sends and receives values by number; a Linux process keeps the tables
from numbers to topics and talks to zenoh. This directory holds TLA+ modules of
both sides, the configurations TLC checks them with, and TLAPS proofs of the
results that matter most. `PROJECT.json` lists components, runs, hazards,
theorems and, for each definition, the source lines it stands for.

    tlc -workers 2 -config MCBrokerZenoh.cfg MCBrokerZenoh
    tlapm BrokerZenohProofs.tla

## 1. The system

| component | state | operations | module |
|---|---|---|---|
| zenoh broker, `src/BrokerZenoh.cpp` | session, `_subscribers`, `_publishers`, heap of `Sub` objects | connect, subscriber, publisher, publish, disconnect, subscribeHandler | `BrokerZenoh` |
| proxy main, `src/proxy.cpp` | wiring | one handler per message type, the sample callback | `Proxy` |
| microcontroller, `zenoh-arduino/src/BrokerSerial.cpp`, `broker.h` | connected, loopback time, two timers, resource list | keepAliveTimer, connectTimer, incoming connect and publish, application publish, reset | `BrokerSerial` |
| messages, `common/broker_protocol.h` | none | five message types | `SerialProtocol` |
| framing, `common/Frame.cpp` | `_inputFrame`, `_lastFrameFlag` | handleRxd, handleFrame | `FrameExtractor` |
| frame format, `common/ppp_frame.cpp` | FCS register | ppp_frame, ppp_deframe | `PppFrame` |
| CBOR, `common/Cbor*Serializer.cpp` | buffer, encoder or parser, `_err`, `_size` | begin, member, end, toBytes, fromBytes, success | `TxPath`, `RxPath` |
| serial port and session, `src/serial.cpp`, `serial_session.cpp` | `_fd`, `_connected`, `_rxdBuffer`, poll registrations | connect, disconnect, rxd, txd, invoke, onError | `SerialSession`, `TxPath` |
| TCP tunnel proxy, `src-pico/proxy.cpp`, `tcp_session.cpp`, `tcp.cpp` | `_socket`, poll registrations, sockets | connect, disconnect, outgoing, invoke, onError | `TcpTunnel` |
| tunnel client, `src_client/unix_serial.cpp` | `_inputStream`, `_eventStream` | open, close, send, receive for zenoh-pico | `TcpTunnel` |

How they interact. The worker thread polls the port; bytes become frames, frames
become messages, and `MsgFilter` hands each message to one handler of `main()`,
which calls the broker. zenoh's own thread runs `subscribeHandler` with a pointer
to a `Sub`, whose callback serializes a `MsgPublish` and writes it to the same
port. `outgoing` is a limero `Sink` that is not bound to a thread, so it runs in the
caller; limero and tinycbor are libraries outside the repository, modelled from
their use. The microcontroller has one loop: timers and received bytes.

`src-pico/` and `src_client/` are the first design, which does not understand
zenoh at all: the client runs zenoh-pico and replaces its TCP layer by frames
(open, close, send), and the proxy carries them out on a socket to the router and
returns what it reads there. The two designs share the serial port and the frame
format and nothing else.

What is hard here:

* two threads meet in the broker's tables, in the objects zenoh keeps pointers
  to, in the one serializer and at the port;
* either process may restart while the other keeps its state, and the only
  detector is the microcontroller's own uptime coming back through zenoh;
* frames are lost, cut short and glued together, mixed with console text, and
  arrive in chunks of any size; declarations are sent once;
* zenoh may refuse a declaration, a write or the session;
* descriptors are reused by other threads of the process;
* buffers have fixed sizes, and latencies are unsigned differences;
* the tunnel has one `_socket` for all sessions, never waits for an answer and
  keeps frames on the line across the end of a session or of a process.

What makes each part correct: the broker's tables agree with what zenoh has, and
an id never changes its topic; a handler never meets a freed object; an outage
is noticed in bounded time and always ends; a publish never goes to another
topic; frames come out whole, once and in order; an undamaged message decodes to
what was sent and a damaged one to nothing; bytes of the line are neither
repeated nor reordered; a lost port is let go without touching anyone else's
descriptor; what the tunnel delivers is what was sent, in order and once, to the
connection of its own session, and its worker thread never blocks.

## 2. Modules

* `RoutingTable` - the abstract promise: two tables from ids to topics, bound
  once, forgotten all at once.
* `BrokerZenoh` - the broker and zenoh's thread. `subscriber()` is two steps
  (declare, then enter into the table) and `disconnect()` one step per
  subscription, because zenoh's thread runs in between. zenoh is external: it
  delivers written samples, its own too, to matching declarations, may refuse
  anything, and does not wait for handlers when a subscription is undeclared.
  What would end the process (a NULL session, a NULL publisher, undeclaring
  twice) is a cause of death in `proc`. `MCBrokerZenoh` instantiates it,
  `BrokerZenohProofs` proves about it.
* `SerialProtocol`, `BrokerSerial` - the messages and the microcontroller. A
  tick is the keep-alive second. `loopAge` is `Sys::millis() -
  _loopbackReceived`; `connAge` and `loopId` are history for the properties.
* `Proxy` - composes `BrokerZenoh` and `BrokerSerial` by `INSTANCE`, with the
  line in both directions and the handlers of `main()` in between. The line is a
  sequence of messages that may lose members: `FrameExtractor` and `PppFrame`
  are the reason. A `budget`, one of the scenarios in `Budgets`, limits faults,
  outside traffic and slow ticks (those at which frames are still under way);
  `happened` remembers for the properties which of them occurred. `trips` are
  the uptimes that may be under way, with their age in ticks, and `stray` says
  that another value may be under way on the uptime topic; both are history too.
  A reset loses what is left in the microcontroller's output buffer and a leading
  part of what is under way to it, its serial port's input buffer.
* `FrameChannel`, `FrameExtractor` - a channel that loses but does not invent,
  repeat or reorder, and the byte-by-byte extractor that implements it. A byte
  knows which message it belongs to; the receiver uses only what it could see.
  Console text may hold a 0x7E (`Tilde`), which the receiver takes for a FLAG.
  This is the proxy's side of the line: `BytesToFrame` of the microcontroller has
  the same loop, but prints something else after a timeout.
  `SendInside` is the frame of a second thread that lands inside the first.
* `PppFrame` - FCS table, stuffing and unstuffing on real bytes, checked
  against a bitwise CRC. C's `^` on 16-bit words is `Xor`, the sum of the weights
  of the bits in which two numbers differ: the community module's recursive
  operator could not be reasoned about. `FramedUpTo` and `UnstuffedUpTo` are the
  loops of `ppp_frame` and `ppp_deframe`, one value for every number of bytes done.
* `TxPath` - the serializer call by call and `Serial::txd` with short writes,
  EAGAIN, failures and `tcflush`. A member is a sequence of cells, each of a kind
  and, for a number, a value.
* `RxPath` - the deserializer and `MsgFilter` as functions of what `TxPath`
  produced, cut to the buffers of the readers: `FilterCapacity` is
  `MsgFilter`'s, `ReaderOf` that of each type's handler, which is smaller on the
  microcontroller. An item is a head with the length of its payload, so a cut may
  go through a value. For a blob tinycbor notices; for a text the code then uses and
  frees a pointer that was never set, after which nothing is defined (`wild`).
  `MsgFilter` starts from the type its message had before, since a failed read
  leaves it.
* `SerialSession` - descriptor, poll registrations and receive buffer, with
  other threads opening and closing descriptors. `connect()` is `Open`, which
  allocates the descriptor, and `Configured` or, for the error exits behind
  `open()`, `ConfigureFails` and `ConfigureReturns`.
* `ByteStream`, `TcpTunnel` - one direction of a connection that may have holes
  but does not repeat or reorder, and the tunnel, which implements it twice. A
  slice of data is a number. `ClientOpen`, `ClientClose`, `ClientSend` and
  `ClientRecv` are the calls of zenoh-pico; `HandleFrame` and `RecvReturns` are
  the loop and the end of `recvData`. `HandleOpen`, `HandleClose`, `HandleSend`,
  `Invoke` and `OnError` are the handlers of the proxy's worker thread;
  `waiting` says that it is inside `recv()` on a descriptor that has nothing.
  Sockets are never closed in the code, so their numbers count up. `_socket` is
  uninitialised at first and may equal the serial port's descriptor. So are `res`
  and `ip_addr` when `getaddrinfo` fails: the process ends in the middle of the open
  (`OpenAborts`), or the open fails with a socket left behind, or it connects to
  the address a call before left on the stack. `of`,
  `starts`, `arrived` and `received` are history. External: the router, which
  writes, closes and resets, and the `SerialSession` of that design, which is not
  in the repository and hands over one frame at a time.

`Recursion` and the modules named `...Proofs` hold the theorems: `BrokerZenohProofs`,
`BrokerSerialProofs`, `ProxyProofs`, `FramingProofs` (of `FrameExtractor` and
`PppFrame`), `MessagePathProofs` (of `TxPath` and `RxPath`), `SerialSessionProofs` and
`TcpTunnelProofs` (section 4).

## 3. Runs

Passing:

* `broker_zenoh`: any order of broker calls with any arguments, two ids, two
  topics one of which is a pattern for both, three objects, refusals and
  restarts. Table and zenoh agree at every step, an id has one subscription, a
  handler's object is allocated and matches, nothing is undeclared twice, no
  table without session; the broker implements `RoutingTable`. Three objects
  let both ids be declared and one be leaked, or an id be declared again after
  a disconnect while an old handler still runs.
* `broker_serial`: the code's 1, 10 and 5 seconds and a peer that does anything.
  A connection that is gone is believed in for at most the timeout plus one
  period of connectTimer.
* `proxy_recovers`: four scenarios. In one, one lost frame, reboot, kill, failed
  `zn_open`, refused declaration and failed write each, in any order and at any
  moment. In the others slow ticks, each with up to three frames or samples under
  way: three and no fault; two, a lost frame and a reboot; two and somebody else's
  sample. Under fairness the connection comes back for good (`Recovers`), and every
  resource has its entry in the tables again unless a frame was lost
  (`DeclaredUnlessLost`; a publisher that zenoh refused has one too). The timers
  are 4 and 2 ticks instead of 10 and 5: what matters is that the timeout is
  longer than a round trip and shorter than the period. In all of them no publish
  reaches the broker before its declaration, unless a frame was lost, the proxy
  killed, the session refused, or a sample of somebody else met a reboot
  (`DeclaredBeforeUse`). An uptime that comes back is answered with the time it was
  under way (`LatencyIsElapsed`). The clock counts modulo 4, so it wraps while
  uptimes are under way; a slow tick makes that time more than zero, and a reboot
  puts uptimes of an earlier boot on the line, which the property excepts.
* `proxy_traffic`: a firmware with a publisher of its own, foreign samples, a
  loss, a reboot, a kill and a slow tick. Ids mean the same topic on both sides.
  No run flashes another firmware, which is what breaks this (section 5).
* `frames`: three frames of three bytes (or fewer and as many 0x7E of console
  text in their place), two damaged or lost bytes, another byte of
  console text and a timeout, or a frame written inside another one, which
  counts as two damages since it spoils two frames. Two damages are enough to
  join three frames; three bytes is the shortest frame the receiver accepts.
  Frames come out whole, once and in order; text is printed, all but its 0x7E
  (`TextButFlagsReachesStdout`, and section 5).
* `ppp_frame`: payloads up to three bytes, the first any of 256 values, the
  others from the bytes that matter to stuffing. The table agrees with the
  bitwise CRC, deframing undoes framing, and every single bit error that neither
  makes nor removes an ESC or FLAG is rejected; after any single bit error the two
  bytes `ppp_deframe` removes are there. The proofs hold for every payload.
* `tx_path`: ten messages for a serializer of seven cells: some fit, some fit
  without their break, and of some the value does not fit, once a blob, where
  `member()` asserts, and once a text, where nothing does. What leaves the
  serializer is the whole message all the same; the process is ended only by a
  message that is too long; short writes neither repeat nor skip. The filter's
  buffer has seven cells, the one of the reader of `MsgPublish` five: it cuts off
  the break of one message and a part of the value of another, and the receiver
  handles a message as it was sent, or not at all when it was cut, and reads no text
  that was.
* `serial_session`: three descriptors, four bytes, an unplugged device, and a
  `connect()` that fails before or after `open()`. The poll
  loop calls only for the port's own descriptor, none is leaked on any way out of
  `connect()` and `disconnect()`, bytes stay in order, and a lost port is let go.
* `tcp_tunnel`: two opens by the client, two sockets, two slices in either
  direction, reads of two bytes (the header byte and one slice), `recv()` of at
  most two slices, three frames on the line each way, and one fault: a lost frame,
  a client restart or a proxy restart. Two sessions are what it takes for one to
  meet what the other left behind (an old socket, frames still under way), two
  slices for an order, and two sockets for `_socket` and a registration to differ.
  The proofs show that nothing new happens with more of either.
  Both directions implement `ByteStream` under every fault. A connection
  carries a leading part of its own session's data and the worker never blocks,
  unless a frame was lost or the client restarted (in `recv()`; `connect()` and
  `send()` are steps here, and may block in the code). Every open is answered, unless
  a failed one took the uninitialised `_socket` for the serial port's descriptor, and
  the router's data reaches the client's stream while the session lasts. With as
  many descriptors as sessions the run does not use them up.

Violations, each a disagreement with a sentence of the repository:

* `lost_declaration` (`AllDeclared`): one lost `MsgPublisher` is never repeated,
  because the uptime still comes back; README.MD:37 presents that loop as the
  keep-alive that "enables also latency measurement and publishing".
* `loopback_any_id` (`LoopbackIsUptime`): `Broker::subscriber` does not compare
  ids, so a sample of another topic of the firmware renews the keep-alive, which
  README.MD:37 describes as "listening to own 'uptime' topic".
* `tx_shared` (`FrameIsMessage`): the callback on zenoh's thread and the connect
  reply on the worker thread share `toCbor` without a lock; a frame can leave
  with the bytes of neither message. test.cpp:58 expects the value back.

Bounds. Every bound is a constant: `MaxNet`, `SubObjs`, `MaxLine`, `MaxToUc`,
`Budgets`, `Backlog`, `MaxAge`, `Modulus`, `MaxSent`, `MaxDamage`, `MaxNoise`,
`MaxStalls`, `MaxMessages`, `MaxArrived`, `MaxFds`, `MaxSessions`, `MaxSlices`,
`MaxFaults`. Ages stop counting past every value they are compared with, so this
loses nothing. `Modulus` stands for the 2^64 of the clock: 4 where uptimes are
looked at, more than the ticks one may be under way in the run, and 1, a clock that
stands still, where they are not. `MaxLine` and `MaxToUc` are large enough that the
composed system never blocks on them (deadlock is checked in the `Proxy` runs).
Deadlock is not checked in `frames`, `ppp_frame`, `tcp_tunnel` and the `TxPath`
runs, which end when their bounded input is used up or an assertion ends the
process.

Fairness. `Proxy`: weak fairness of each thread of the proxy, of the
microcontroller's loop for received frames and each timer, of time, and of
restarting a process that has ended. The first are event loops that serve what is
pending; the restart is an assumption about whoever supervises the proxy, without
which a failed `zn_open` would already be the end (it is answered with "connected",
and the declarations that follow kill the process). With
`Backlog = 0` a round trip ends before the next tick, milliseconds against a
second. `SerialSession`: a poll loop serves a reported error, and a handler that
has begun runs to its end. `TcpTunnel`: the poll loop serves the serial port and
every socket it reports, a `recv()` that can return does, `recvData` handles what
arrives and returns when it can, and zenoh-pico's read task, while a session is
open, calls it again. Nothing is assumed of the router, of the calls that open,
close and send, or of `OnError`, which a reset socket need not reach since
`invoke()` sees it too.

## 4. Proofs

Each theorem holds for every value of the constants that satisfies the named
assumptions, which the configurations instantiate and TLC evaluates.

* `Recursion` proves, from the well-foundedness of the natural numbers, induction
  stated with sets (`SetInduction`, `BoundedInduction`) and that a function defined
  by recursion on its argument exists and unfolds (`Iteration`, `BoundedIteration`).
  The induction theorems of the library take a predicate as a parameter, which the
  provers cannot instantiate; with a set in its place they can. The model's
  recursive functions (the firmware's declarations, the encoding of a message
  member by member, the parser's state, the slices of a stream) are reasoned about
  through it.
* `BrokerZenohProofs` (`MatchesAssumption`, `MaxNetAssumption`,
  `NoneAssumption`). `DeclaredMatchesTable` is not inductive: half-way through
  `subscriber()` the object is in zenoh and not in the table, half-way through
  `disconnect()` it is the other way round. `ZInv` adds what each of these points
  owes (`WorkerConsistent`), that table and object agree on the id
  (`TableConsistent`), that declared objects are allocated and that a dead
  process holds nothing. There is one lemma per action; `ZInvariant` combines
  them, and type correctness, `TableMatchesZenoh`, `AtMostOneSubscription`,
  `HandlerSafe`, `UndeclaredOnce` and `TablesNeedSession` follow.
  `RefinesRouting` shows that every step is a step of `RoutingTable` or leaves
  both tables alone, for any number of ids, objects and restarts.
* `BrokerSerialProofs` (`TimersAssumption`, `UptimeAssumption`,
  `AppsAssumption`). `OutageNoticed` says how stale the loopback can be at the
  end of connectTimer's period; the inductive `UInv` says it at each point of the
  period, with the ticks since the last check in place of the whole period.
  `OutageBound` holds for any period and timeout.
* `ProxyProofs` (`PartsAssumption`, `IdsAssumption`, `BudgetsAssumption`,
  `BacklogAssumption`). The composed system drives its
  two parts only as their own modules allow (`RunsBroker`), so what is proved there
  holds in it: `BrokerSoundInProxy`, `OutageNoticedInProxy`. `ProxyInv` is the
  invariants of the parts and the types of all messages under way; `ProxyTypes`
  follows. On top of it three invariants that speak of every place a message can
  be in, because a property of the tables alone is not kept by a step:
  - `TopicInv`: every declaration, publish, table entry and `Sub` object, live or
    left over, binds an id to the firmware's topic for it. `TopicsAgree` and
    `SamplesAgree` follow, for any firmware and under every fault except flashing
    another firmware, which is precisely what changes that meaning.
  - `LatencyInv`: every uptime in a frame, sample or handler call is that of a trip,
    and each trip's uptime and age make up the uptime of now, modulo the clock's
    range. With the arithmetic of remainders (`RemainderOfSum`) the unsigned
    difference is the age: `LatencyElapsed`, for any range of the clock and any
    delay. It excepts an uptime of an earlier boot while one may be under way,
    foreign samples and the firmware's own publishes on the uptime topic, samples of
    other topics, whose value is no uptime, and another firmware.
  - `DeclInv`: for every publish under way, the table has its id or the declaration
    is ahead of it on the line (`Promised`). `DeclarationsPrecedeUses` excepts lost
    frames and processes, foreign samples, and the firmware's own publishes, which
    do not wait for a connection.
* `FramingProofs`, first part (`SizeAssumption`, `BoundsAssumption`). `FramingTypes`;
  `TextIsPrinted`, from the count of text bytes other than 0x7E in every buffer
  (`TextInv`);
  `FramesInOrder`: `OrderInv` says of all buffers together that behind a byte of a
  payload only later payloads begin, and that these are later than what was
  delivered. The natural claim, that the bytes of different frames do not mix, fails
  as soon as two threads write. `FramingImplementsChannel` follows: no damage, chunking or timeout makes
  the receiver invent, repeat or reorder. `WholeInv` follows an intact frame through
  line, chunk and input frame, from which `IntactFramesArrive`. In trying to
  prove the order the guard of `SendInside` turned out too wide: before any frame
  was sent, console text passed for the frame to be inside of. It now asks for a
  frame.
* `FramingProofs`, second part (`AlphabetAssumption`), for every payload of bytes.
  - A number is the sum of its bits (`Halves`, `SameBits`), so `Xor` can be reasoned
    about bit by bit (`XorBits`): it commutes, associates and cancels, works on the
    two bytes of a word separately (`XorBytes`), adds a weight above a number
    (`Powers`) and subtracts from a row of ones (`RowsOfOnes`).
  - A step of the CRC is linear in `Xor` and takes only 0 to 0, so it keeps
    different words different; so does the CRC of a byte (`Crc8Linear`,
    `Crc8Injective`). The table is doubled eight times: each half is the half before
    xor one entry (`EntryDoubling`), and those eight entries are steps of the CRC
    (`EntrySteps`). Hence each of the 256 entries is the CRC of its index
    (`EntryIsCrc8`) and `Fcs::write` is the CRC of state xor byte (`FcsWriteIsCrc`);
    `FcsOfEveryPayload` and `TableIsCrc` follow along the loop.
  - `Residue`: after its own complement, low byte first, the FCS is the one that
    `ppp_deframe` looks for, whatever it was. `Decodes` says that what was written
    for the first bytes decodes to these bytes, with the FCS of the sender and
    without a FLAG; `EveryPayloadComesBack` and `RoundTripAlways` follow.
  - `WrongByteRejected`: where one ordinary byte became another the two loops get
    different FCSs, and since `Fcs::write` is injective in the state and in the byte
    they stay different (`Diverged`) to the end. `WrongPairRejected` says it of two
    neighbouring bytes: no second byte makes up for what the first changed in the FCS
    (`FcsWriteSeparatesPairs`). `TwoBytesLeft`: whatever a byte
    became, at most one byte less is decoded (`NotShorter`). `BitErrorsDetected`
    combines the two. They say more than the run, which inverts single bits, and less
    than `FrameExtractor` takes for granted, which drops every damaged frame: other
    damage may make a frame with a good FCS, as with any sum of 16 bits.
* `MessagePathProofs` (`CapacityAssumption`, `MaxMessagesAssumption`,
  `MessagesAssumption`, `ReaderAssumption`, `ReflectAssumption`). `PathTypes` holds
  for any threads, also when they share the encoder. `EncInv` says that the buffer
  up to the cursor is the message up to the member being written, or that this
  already does not fit; from it `MessagesEncoded`. `WireInv` cuts line and kernel
  queue into one leading part per message begun, the last of which the bytes that
  txd still holds continue; from it `LineCarriesLeadingParts`. `MessagesHandled`
  follows the parser member by member (`SoFar`), over a cut in the middle of a blob too;
  that no text is cut is in the sizes (`ReaderAssumption`: the proxy's reader has
  1024 bytes, the microcontroller's serializer 100, and the microcontroller decodes
  no message with a text). The hypotheses `[]Exclusive`
  (one thread at a time in the serializer) and `[]OneSender` are what a
  lock would give: without them the run `tx_shared` shows the opposite.
  `OneThreadSends` has no hypothesis but a single thread, as on the
  microcontroller.
* `SerialSessionProofs` (`FdsAssumption`, `MaxArrivedAssumption`). `FdInv`
  relates registrations, descriptor table and fields at each step of connect and
  disconnect, for any set of descriptors; `OrderInv` says that the kernel's queue
  continues what was emitted. `FdInvariant`, `InvokersSafe`, `FdNotLeaked` (which
  speaks of what the port holds in the kernel's table, through the four error exits
  behind `open()` too) and `BytesInOrder` follow.
* `TcpTunnelProofs` (`TunnelAssumption`), for any number of sessions, sockets,
  slices and frames.
  - `TunnelTypes` holds under every fault: only sockets that were created are
    registered, used or shut.
  - `WorkerSafe`. `WorkerNotStuck` is not inductive: that the socket `poll()`
    reported is `_socket` has to be known, which needs that an open never finds a
    socket registered, and that depends on the frames still on the line.
    `OpensAlternate` says that of a sequence of frames: a close between any two
    opens, before the first if a socket is registered, and after the last if the
    client has no session. `TunnelInvariant` combines it with the rest.
  - `TunnelImplementsStreams`, under every fault. Upwards `UpInv`: the slices on
    the line rise and are later than those that arrived. Downwards `DownInv`: the
    client's stream, the line and the present socket's buffer each rise, and each
    is earlier than the next (`Orderly`); what zenoh-pico has read is a leading part
    of the first. Losing, restarting and abandoning a socket only leave things out
    (`PartOf`), which keeps all of this; the remaining steps move a slice from one
    place to the next. `UpSteps` and `DownSteps` show that there are no others.
  - `ConnectionsCarryPrefixes`, until a frame is lost or the client restarts: the
    property says that nothing is missing, so the invariant has to say where
    everything is. In `SessionOrder` every open on the line is followed by exactly
    the slices of its session and later ones (`LineOK`), and every slice of the
    connected session is on the line or was written to its socket (`Complete`).
    What two sessions share is only the line; that the close is on it between them
    comes from `TunnelInv`.

Only model-checked:

* liveness (`Recovers`, `DeclaredUnlessLost`, `LossIsHandled`, `OpenIsAnswered`,
  `DownDelivered`), which needs fairness and `ENABLED`.

Every invariant and every refinement that a passing run checks is the
statement of a theorem, under the conditions named above where it has any.

## 5. Not modelled, and why

* `unSubscribe` and `scout` have no caller; queries are commented out.
* `broker.disconnect()` is modelled in `BrokerZenoh`, but not called in `Proxy`:
  no firmware sends `MsgDisconnect`, and nothing emits `SerialSession::connected`,
  so the handlers in `main()` that would call it never run. For the same reason a
  port that was lost is not opened again.
* DTR/RTS switching has no caller. Baud rates, port names, the configuration,
  LED, button, logging and dumps change no state of the protocol.
* Frames that no serializer produces: the deserializer passes over a member of
  another type and leaves the variable as it was, and a frame whose escapes leave
  fewer than two bytes makes `ppp_deframe` remove from an empty vector (one damaged
  byte cannot make such a frame out of a whole one, several can: `TwoBytesLeft`).
  Both are listed as hazards.
* Flashing another firmware while the proxy keeps its tables: ids then keep their
  old topics. `Proxy` has the action (`UcReboot` with another member of `Apps`);
  no run takes it, because `PublishReachesItsTopic` is only claimed for one
  firmware, and its theorem says so (`"reflash" \notin happened`). `ProxyTypes`,
  `RunsBroker`, `OutageNoticedInProxy` and `DeclarationsPrecedeUses` hold across
  it.
* The 0x7E of console text is modelled, and swallowed: `handleRxd` takes it for a
  FLAG and prints what is around it, while src-pico/README.MD:21 wants "any data
  coming from the uC that is not a data frame" on stdout. What
  `BytesToFrame` of the microcontroller prints is not modelled.
* In the tunnel: what runs after `workerThread.run()`, which does not return, and
  the `serial.connected` handler, which nothing triggers; the UDP and scouting
  functions, and send and receive of `tcp.cpp`, which nothing in the repository
  calls; the bytes of a frame, which are those of `PppFrame`. The header byte that
  `handleFrame` pushes along with the data is modelled, but the stream properties
  leave it out: the client reads it as data.
* What the tunnel does not promise: a client that restarts without closing goes on
  in the connection of its predecessor; an open on top of an open (its close was
  lost) leaves the old socket registered and can block the worker; a failed first
  open may unregister the serial port. The properties name these conditions.
* `src-pico/zenoh_session.cpp`, `listener.h` and `broker.h`: an earlier
  `BrokerZenoh` without a build target.

## 6. Plan

Done: the modules of section 2 and the proofs of section 4.

Next:

1. Proofs: that a lost port is let go in a bounded number of steps of the poll
   loop (the safety part of `LossIsHandled`); that the messages `TxPath` puts on the
   line are carried by `FrameChannel`, so that the line of `Proxy` is implemented by
   the two together.
2. `RxPath` on malformed frames: which of them `success()` lets through, and what
   the handlers then do; the nested decoding of a value on the microcontroller.
