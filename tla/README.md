# Models of the Arduino core for PSoC 6

TLA+ models of `arduino-core-psoc6`: the sockets and the WiFi classes on them,
the serial port, I2C, SPI, tones, pins and their interrupts, the time base, and
the start-up of the board. TLC checks each on a small instance, and TLAPS proves
every safety and action property that the passing runs check, for all values of
the constants. Paths below are relative to `src/`; `WiFi/` stands for
`libraries/WiFi/src/`, `core/` for `cores/psoc6/` and `bsp/` for
`variants/CY8CKIT-062S2-AI/mtb-bsp/`.

Contents: 1 the system, 2 who runs when, 3 the modules, 4 the runs, 5 fairness,
6 the proofs, 7 what the models say about the code, 8 what is not modelled,
9 the plan, 10 how to run.

## 1. The system: components, state, operations

| Component | State it keeps | Operations | What makes it correct |
|---|---|---|---|
| `Socket`, life cycle (`WiFi/SecSocket.cpp`) | per object: handle, `_status`; shared by all: `global_socket_initialized`, `global_socket_count` | begin, end, accept, bind, listen, connect, setOption | the count agrees with the open handles, the library is up while one is open, it is called only as it allows |
| `Socket`, receive path (same file) | `rx_buf`, the locals of `receive` and `receiveCallback` | receive, flush, available, peek, the receive callback | no byte is lost, doubled or out of order; no more than was asked for is copied |
| `WiFiClient` (`WiFi/WiFiClient.cpp`) | a shared `Socket`, `_timeout` | connect, read, write, stop, three callbacks | the callbacks reach a live object and the right socket |
| `WiFiServer` (`WiFi/WiFiServer.cpp`) | the listening `Socket`, `connected_clients`, `last_available_client` | begin, available, write, end, three callbacks | open connections are in the vector, data reaches the client it was sent to, each client is served |
| `WiFiUDP` (`WiFi/WiFiUdp.cpp`) | `rx_packets`, `current_packet`, `txBuffer`, remote address | begin, stop, parsePacket, read, flush, beginPacket, write, endPacket, the receive callback | a packet is one datagram, in order; a reported success was sent |
| `WiFiClass` (`WiFi/WiFi.cpp`) | `_status`, `_mode`, `_last_error`, `scan_results`, static IP settings | begin, beginAP, disconnect, end, queries, ping, scanNetworks, the scan callback | status and mode tell what the radio does; a scan returns and leaves the radio as it was |
| `Uart` (`core/Uart.cpp`) | `serial_ready`, `last_error`, `rx_buffer`, the SCB block and its FIFOs | begin, end, read, peek, write, flush, the receive interrupt | order and sessions of bytes; `write` tells what it sent; calls return |
| `TwoWire` (`libraries/Wire/src/Wire.cpp`) | two ring buffers, the address, the slave's callbacks | begin, end, requestFrom, beginTransmission, write, endTransmission, read, the slave interrupt | what is reported equals what was stored; order is kept |
| SPI (`libraries/SPI/src/SPI.cpp`) | the block, the current settings, `_is_initialized` | begin, end, beginTransaction, transfer | flag, settings and pins agree after a failure in the middle |
| Tone (`core/Tone.cpp`) | a PWM block, a timer, two flags, the pin | tone, noTone, the timer interrupt | a timed tone ends, at its own time; nothing freed is used |
| Analog I/O (`core/analog_io.c`) | the ADC and PWM channel tables, the resolution | analogRead, analogWrite, resolutions | a pin has at most one channel, a failed one can be retried |
| Digital I/O, interrupts (`core/digital_io.c`, `core/interrupts.c`) | `gpio_initialized`, one callback record | pinMode, digitalWrite, attach/detachInterrupt | an edge finds its handler; pins are handed over |
| Time base, Pulse (`core/time.c`, `core/Pulse.cpp`) | a free-running timer | millis, micros, delay, pulseIn | a wait lasts what it should, across the wrap too, and ends |
| Start-up (`core/main.cpp`, `bsp/`) | the clock tree, wait states, `SystemCoreClock` | SystemInit, cybsp_init, init_cycfg_system, main | the core always has a clock the flash keeps up with; the sketch starts on a configured board |
| Shift, Random, yield | none | | |
| Examples, tools, tests, docs | none of the core's | | |

The components interact through calls and callbacks: the sketch calls the
WiFi classes, which call `Socket`, which calls the secure-sockets library; the
library's task calls back into `Socket`, `WiFiServer`, `WiFiClient` and
`WiFiUDP`. The state they share (the two statics, `rx_buf`, the vectors) is not
guarded by any lock. `WiFiClass` calls the WiFi connection manager (WCM), whose
task calls `wcm_scan_cb`. `Uart`, Wire, Tone and the pins have interrupts.

What is hard here: two tasks and interrupts on unguarded state; calls that fail
in the middle after a part of the state was changed; handles that are given out
again; timeouts on a clock that wraps early; flow control that may never let go.
The hazards are listed, each at its line with the properties that cover it, in
`PROJECT.json`.

## 2. Who runs when

`core/main.cpp` starts one FreeRTOS task that runs `setup()` and `loop()`; the
libraries' tasks run the callbacks. `FreeRTOSConfig.h` of the variant sets
`configUSE_PREEMPTION` and time slicing, so a task may be preempted between any
two accesses; an interrupt runs to its end. The models choose the grain by
what they ask:

* `SecSocket`, `SocketRx`, `Uart`, `Tone`, `Interrupts` and the waits of
  `TimeBase` and `Pulse`: every access to shared state, or call of the HAL, is
  a step.
* `ClockSetup` and `Board`: a step for each change of the clock tree; nothing
  else runs yet.
* `WiFiServer`, `WiFiUdp`: methods and callbacks are atomic, and their order is
  free. What happens when a callback runs inside a method is a data race on a
  `std::vector` (section 8).
* `WiFiClass`: methods are atomic except `begin`, whose loop tries to connect
  until its time is over, and `scanNetworks`, whose loop leaves time for the
  callbacks; the sketch's task cannot do anything else while it waits.
* `Wire`: a transfer is atomic, with the slave's interrupt in it (the block
  holds the clock until its handler has returned); the two sketches interleave
  freely.
* `Gpio`, `Analog`, `Spi`: called by one sketch, each call a step that may fail
  at every call of the HAL in it.

## 3. The modules

| Module | Models | How the state and actions correspond |
|---|---|---|
| `SocketLibrary` | what the secure-sockets library asks of its callers (external) | states of the library: up or not, open handles; a handle opens only while it is up, it goes down only with none open |
| `SecSocket` | `Socket`'s life cycle | a step per access to a shared variable or call of the library; `pc[t]`, `self[t]`, `reg[t]` are where task `t` is, on which object, and the value of the count it has loaded (`global_socket_count++` is a load and a store). `Overlap` says whether calls of different tasks interleave |
| `ByteStream` | what the reader is promised | bytes arrive, and are taken off the front in order |
| `SocketRx` | `receive`, `flush`, `receiveCallback` | bytes are their numbers; `rd` and `cb` are where the two tasks are; `temp`, `room`, `n` are the code's locals |
| `WiFiServer` | the server and the clients it accepts | an object is the `Socket` that copies of a `WiFiClient` share; `Connection`, `Receive` and `Disconnection` are the callbacks, which look a client up by handle as the code does |
| `WiFiUdp` | `WiFiUDP` | a byte is (datagram, place); `ReceiveCallback` fetches into `rx_buf`, pushes a packet and leaves `rx_buf` empty, as the code's loops do |
| `WiFiClass` | `WiFiClass` over an abstract WCM | the status keeps its integer values, four of which are equal; `joined`, `serving`, `scanning`, `wcmUp` are the WCM; `apConf` is `ap_conf`, `served` what the radio was started with; `ConnectTry` and `ConnectGiveUp` are the loop of `begin`; a query is an action with its own failures |
| `Uart` | `Uart`, its interrupt and the SCB block | one step per round of a waiting loop; `now` is `millis()` with its early wrap; `Transmit` is the block, which may stop for ever |
| `LossyChannel` | what a buffered link that may drop bytes promises | bytes are numbered as they are put in; the reader gets some of them, in order, none twice |
| `Wire` | `TwoWire` on two boards of one bus | `M` and `S` end the names of the two boards' variables; `EndTransmission` and `RequestFrom` are the master's calls with the slave's handler inside; `temp_tx_buff` is the slave's buffer that outlives a request |
| `Tone` | `class PwmTone` | `pc` is the next statement of `play`, `startTimer` or `stop`; `HandleTimerEvent` comes between any two; `Fault` is a call of the HAL on a freed object |
| `PinManager` | the hardware manager of the HAL (external) | `owner[p]`: an initialisation takes pins no one has, freeing asks no one |
| `Gpio`, `Analog`, `Spi` | `pinMode`, the two channel tables, `SPIClassPSOC` | a table is the sequence of its pins, a failed channel not in it; `block` is "free" or the settings the SPI block runs with |
| `Interrupts` | attach and detach with the one record | `attaching` is the statement the sketch is at; `registered` and `events` are the HAL's |
| `Peripherals` | the four above on the pins of one sketch | composition: one `owner`, any order of calls |
| `ClockSetup` | `init_cycfg_system()` of the variant | `step` names the next step of the function; `HF0` is computed from paths, FLL, PLL and dividers, `waitFor` is the frequency the flash waits for |
| `TimeBase`, `Pulse` | the timer, `delay`, `pulseIn` | `call`, `asked`, `start` are the call, its argument and its first reading; `elapsed` (history) is the true time |
| `Board` | reset, clocks, `cybsp_init`, `main`, then the waits of the sketch | composition of `ClockSetup`, `TimeBase` and `Pulse` |

`MC<Module>` extends the module with the sets and the symmetry its `.cfg` files
use. `<Module>_proof` holds its theorems; `Socket_proof` those of `SecSocket`
and `SocketRx`, `WiFi_proof` those of `WiFiClass` and `WiFiUdp`, whose actions
the prefixes `Rx` and `Udp` keep apart (`RxInit`, `UdpNext`). The definitions
whose comment calls them a mutant of another are wrong versions of the action
they name, and each breaks a property: they are in no specification.

`history` variables (marked in the declarations) are read by properties only,
except where the model uses one to number bytes or connections.

## 4. The runs

| Run | Checks | Instance | Result |
|---|---|---|---|
| `sec_socket` | CountExact, LibraryUp, LibraryContract | 3 objects, 2 handles, 2 tasks, `Overlap` false, Wrap 8, one failed create | holds |
| `sec_socket_overlap` | OpenSocketsCounted | the same, `Overlap` true | violated: finding |
| `socket_rx` | NothingLost, CopiesRealBytes, StreamKept | buffer of 3, requests up to 2, 6 bytes | holds |
| `socket_rx_len` | ReadWithinRequest | the same | violated: finding |
| `wifi_server` | TypeOK, OwnData, ConnectedIsOpen, ConnectionsHeld | 2 objects, 3 handles, 3 connections | holds |
| `wifi_udp` | UdpTypeOK, PacketIsDatagram, ReadInOrder, OneMeansSent | packets of 2, `rx_buf` of 3, 3 datagrams of up to 3 bytes | holds |
| `wifi_class` | StatusTrue, ServedIsTold, ScanKeeps, CallsReturn (FairSpec) | 2 results, timeouts 0 and 2, timer modulo 4, 5 reports, 2 names | holds |
| `uart` | ReadInOrder, SessionOnly, SentIsTold, GivesUpInTime, CallsReturn (FairSpec) | FIFOs of 2, buffer of 2, 4 bytes in, 2 out, writes of up to 3, timeouts 2, clock modulo 5 | holds |
| `wire` | ChannelKept, ZeroMeansSent, AnswerIsOwn | buffers of 3, 4 bytes written, 2 answered, requests of 1 and 4, 2 addresses | holds |
| `tone` | FlagsAgree, FaultNeedsRace, TimerIsOwn, TimedEnds (FairSpec) | 2 pins, durations 0, 1 and 3 of a timer of 2, 7 calls | holds |
| `peripherals` | PinsHeld, SettingsApplied, EdgeRunsOwn, GpioStays | 3 pins, 2 of SPI, 2 with interrupts, 1 ADC and 2 PWM channels, a byte of one bit, 2 handlers, 2 settings | holds |
| `board` | CoreFed, SketchReady, DelaysRight, PulseInTime, PulseMeasured, WaitsEnd (FairSpec) | timer modulo 20, 4 ticks a millisecond, waits of 0, 3 and 9, held up by up to 2 ticks | holds |

The two runs `sec_socket_overlap` and `socket_rx_len` check what a comment, or a
caller, says of the code; section 7 has what they found. The types are a run's
invariant where they say more than the range of a variable: that no object is
twice in the server's vector, and how long the packets of UDP can be. All of
them are theorems.

Why the bounds are enough for what can happen:

* `SecSocket`: two handles and one failed create reach the counts 0 to 3; three
  objects let one be begun again, one fail and one be accepted. `Wrap` 8 leaves
  room so that only a wrong decrement wraps.
* `SocketRx`: two fillings of the buffer, a full buffer, a request smaller and
  larger than what is there, and a flush at every point.
* `WiFiServer`: more connections than objects and than handles beside the
  server's, so that handles are given out again while their old entries are in
  the vector (an object that no one refers to any more stands for a fresh one).
  Three handles serve the listening socket and two clients, the fewest for which
  the order in the vector matters, or two listening sockets, one left behind by
  a repeated `begin()`. Four connections pass as well (7.2 million states). A
  connection of its own number tells its bytes from those of the
  others; how many it sends does not matter to the properties, so unread bytes
  are a set of connections.
* `WiFiUdp`: a datagram of 3 is longer than a packet and as long as `rx_buf`;
  three datagrams overlap a packet read half, one waiting, one arriving.
* `WiFiClass`: 5 reports fill an array of 2, reach one past it and stop a scan;
  two scans see what an earlier one left. The 16-bit timer wraps (4 > 2 rounds).
  With a timeout of zero `begin` never tries to connect, as in the code.
* `Uart`: the buffer overruns and the FIFO holds more; a write of 3 does not fit
  the FIFO of 2; the clock modulo 5 wraps within a wait of 2 while differences
  are taken modulo 16, as the code's are modulo 2^32 of a clock that wraps at
  2^32 us. 4 bytes in cover a session, an overrun and a second session.
* `Wire`: a buffer of 3 is the smallest of which the loop that stops at "half"
  keeps neither one nor all; 4 bytes do not fit it; a request may be longer than
  the buffer and than the answer, or shorter than both. A transmission may be
  abandoned, fail, or go to an address no one has. Transfers are asked only of a
  block that was initialised, configured or not: the code does not look, and
  what the HAL does with an object that was never initialised is not in the
  sources.
* `Tone`: a duration that fits the timer and one that is cut; seven calls let
  two tones on two pins, their ends and a third tone follow one another.
* `Peripherals`: one pin is both of SPI and of interrupts, all are of everything
  else; both tables can be full while a pin still wants a channel, and the PWM
  table holds more than one. A value beyond the byte is cut to it. Pins are
  those of the board, modes the known ones and any other.
* `Board`: every clock tree in which `HF0` runs within the wait states, which is
  what a warm reset may leave (paths 0 and 1 on either source, FLL and PLLs on
  or off, any divider), and the one after a cold reset, with each failing step.
  A wait of 9 ms is longer than the timer counts (36 of 20 ticks), one of 3 ms
  is not, and both may start anywhere before the wrap. A pulse may have any
  position and length relative to the reads.

Deadlock is not checked in any run: the counters of history end each instance
(all bytes arrived, all connections made), a real sketch may stop calling, and
a failed assertion halts the board.

## 5. Fairness

* `SocketRx`, `SecSocket`, `WiFiUdp`, `WiFiServer`, `Wire`, `Peripherals`: none,
  only safety is checked.
* `WiFiClass!FairSpec`: the scheduler runs the loops of `begin` and
  `scanNetworks`, and the WCM completes a scan it has started. Only the last is
  an assumption about other code; without it `scanNetworks` does not return
  (section 7). `begin` returns without it.
* `Uart!FairSpec`: the sketch's task is scheduled while it is in a call.
  `Transmit` has no fairness, as CTS may hold the block back; `CallsReturn`
  holds from the timeouts alone.
* `Tone!FairSpec`: the task goes on with a call it has begun, and the interrupt
  of an armed timer comes (one-shot timers expire).
* `Board!FairSpec`: the start-up goes on, the sketch's waiting loops run, and
  time passes. `MaxLag` bounds for how long other tasks and interrupts hold the
  sketch up between two reads of the timer: with none, a wait could miss a whole
  turn of the timer, as on the real board. That is why `WaitsEnd` needs it, and
  by how much a wait may be too long is stated in terms of it.

## 6. The proofs

Every theorem assumes only the `ASSUME` of its module, which says no more than
that sizes are numbers (of at least one, where the code needs it), and what the
table says before a colon.

| Theorem | States |
|---|---|
| `Socket_proof!TypeCorrect` | types of `SecSocket`; the `uint32_t` count stays in range |
| `Socket_proof!CountIsExact`, `LibraryStaysUp` | ~Overlap: between calls the count is the open handles plus failed creates; the library is up under each open handle, and the flag is right |
| `Socket_proof!ContractKept` | ~Overlap: `SecSocket` implements `SocketLibrary` |
| `Socket_proof!RxTypeCorrect`, `NothingIsLost`, `CopiesAreReal` | types of `SocketRx` and its two invariants, every interleaving |
| `Socket_proof!StreamIsKept` | `SocketRx` implements `ByteStream` |
| `WiFiServer_proof!TypeCorrect` | types; no object is twice in the vector |
| `WiFiServer_proof!ConnectionsAreHeld` | every open connection has an entry in the vector, unless closing it has failed |
| `WiFiServer_proof!DataIsOwn`, `ConnectedIsTrue` | whatever the sketch stops: data reaches the client it was sent to, and who says connected is open, unless on a handle that the sketch stopped itself and that another client has been given |
| `WiFi_proof!TypeCorrect`, `StatusIsTrue`, `ConfIsServed`, `ScanIsHarmless` | types of `WiFiClass`, among them that the scan results exceed their array by at most one; status and mode agree with the radio; `ap_conf` with what is served; no scan takes down what runs |
| `WiFi_proof!UdpTypeCorrect`, `PacketsAreDatagrams`, `ReadsAreInOrder`, `OneIsSent` | types of `WiFiUdp` and the three properties of its run |
| `Uart_proof!TypeCorrect`, `BytesInOrder`, `BytesOfSession`, `ReadyMeansOpen`, `CountIsSent` | types; the invariants of the run, and that `serial_ready` is true exactly while the port is open |
| `Uart_proof!NotTooEarly` | GivesUpInTime: `write` and `flush` do not give up before their time |
| `Wire_proof!TypeCorrect` | no buffer is filled beyond its length, though the storing loop does not ask for the room |
| `Wire_proof!ChannelIsKept` | `Wire` implements `LossyChannel` |
| `Wire_proof!ZeroIsSent`, `AnswersAreOwn` | the two action properties of the run |
| `Tone_proof!TypeCorrect`, `FlagsAreRight`, `FaultIsRace`, `TimerIsTones` | types and the three invariants |
| `Peripherals_proof!TypeCorrect`, `PinsAreHeld`, `SettingsAreApplied`, `HandlerIsFound`, `GpioIsKept` | types, the three invariants and the action property |
| `Board_proof!TypeCorrect`, `CoreIsFed`, `SketchIsReady` | types and the two invariants of the start-up |
| `Board_proof!DelaysAreRight` | DelaysFit: `delayMicroseconds()` lasts as long as asked, and at most the hold-up longer, across the wrap too; so does `delay()` that does not meet the wrap |
| `Board_proof!PulseIsInTime`, `PulseIsMeasured` | PulsesFit: `pulseIn()` returns in time, and measures one pulse to within three hold-ups |

*SecSocket.* `CountExact` speaks of the moments between calls, and is not
inductive. `IInv` adds, for the one task `t` that may be inside a call
(`Running(t)`), by how much the count leads the number of open sockets at each
label (`Lead`), that the loaded value is current, and what the flag and the
library are there (`FlagAt`). It relies on no other task being in a call, which
is where ~Overlap enters: with overlap the loaded value may be stale, and
`sec_socket_overlap` shows that it then goes wrong. The assumption that the
handles and failures fit below `Wrap` bounds the count.

*SocketRx.* `NothingLost` says that `rx_buf` followed by `temp` is the gap-free
run of numbers after `taken`. It needs `RoomKept`: the room measured before
`cy_socket_recv` is still there when the bytes are stored, because between the
two only the reader touches `rx_buf`, and it only makes room. `CopiesRealBytes`
needs that nothing but the reader removes bytes.

*WiFiServer.* `ConnectionsHeld` is inductive with the types alone. The other two
need `OwnersDistinct` (no two objects were accepted for one connection) and
`Tidy`, which follows the sketch's `stop()` in two steps. An entry of the vector
whose handle the sketch has not stopped has that handle open. An entry whose
handle is not in `reused` has it for itself and for the connection it was
accepted for, holds only bytes of it, and is not connected if the sketch has
stopped it: then the handle may be closed, but the library has given it to no
one else. The server's own open handle has no connection, and an object the
sketch still holds that is out of the vector is not connected. A handle gets
into `reused` in two ways: the library gives out a handle that the sketch had
stopped, while its entry is still in the vector, or the sketch stops a copy
whose handle another connection has by then. `available()` and the callbacks
take the first entry that fits; that there is one follows from the well-founded
order of the indices (`LeastExists`).

*WiFiUdp.* `RecvInv` says that what a waiting packet holds is the beginning of
one datagram, and that the packets and the library hold datagrams in order, each
in one place. `ReadInv` adds the reader: what is left of the current packet
comes after the last byte read and before all that waits (`Passed`) or has yet
to come (`Past`). `SendInv` says that until `endPacket()` the buffer is what
`write()` took.

*WiFiClass.* `StatusTrue` is inductive with the types, once written as three
cases: `Off` (the status zero, whichever of its four names was meant),
`Station` and `AccessPoint`. `wcm_init` may change the mode only in `Off`. For
`ScanKeeps` it adds that a scan which is to deinitialise (`uninited`) runs in
`Off`: it is decided before the wait, and no method can run meanwhile.

*Uart.* `Order` chains what was read, the ring buffer and the FIFO into one
increasing run, which keeps its order although the buffer drops bytes.
`Session` says what each step of `end()` has cleared: outside `end()` the ring
buffer is empty unless the port is open, and everything in it came after
`opened`; this is what the order of its three statements is for. `Sent` counts:
`line`, the FIFO and what `write` has counted add up, and at "put" the FIFO
still has the room that was asked for. `Timed` (for `NotTooEarly`) says that
until the clock wraps, `waited` is the difference the loop takes, or has
reached the timeout.

*Wire.* `Order` says that the slave's buffer is increasing and above the byte
read last, and that the master's holds the bytes right after `base`, the last
one handled, which is at least all of those. The refinement maps what is in
flight to the union of both buffers. How many bytes the storing loop keeps is
stated as a set of conditions (`Stored`), which `StoredIs` shows to mean at most
half of the room, rounded up: from this follow both the absence of overflow and
`ZeroMeansSent`.

*Tone.* `PwmAgrees` and `TimerAgrees` say what is allocated at each statement,
given the flags, and which disagreements only an interrupt inside this call
(`raced`) can make; `Own` carries the requested duration through `startTimer`.

*Peripherals.* `Kept` says which user can hold a pin that is in a table or on
SPI: `pinMode()` is the only one that takes a pin away from another, on its
second call. With a mode it knows it then has the pin itself and says so in its
flag; with another it gives the pin back, and the pin joins `freed` for good,
since the table still has it and anyone may take it. For all other pins the
flag tells which of the two cases holds. For the interrupts, `Attaching` says
what the interrupted call has already done.

*Board.* `Powered`: no path is ever on a WCO that does not run, so `HF0` always
has a source. `Reached` says for each step which part of the tree is set from
there on, and `Fast` that the wait states are those for the slow or for the
final clock, in the order that keeps `HF0` below them.

For the waits, `WaitInv` says that the difference a loop takes is the true time
(`MicrosWait`), or is so to within a millisecond, and that at its last look the
sketch had reason to go on. The looks are at most `MaxLag` ticks apart, so that
the end is seen before the difference turns over: this is what `DelaysFit` asks
of the arguments (with the 32 bits of the board, that they are not within the
hold-up of 2^32 us), and with less TLC finds waits that last a turn longer. A
`delay()` that should end before the wrap (`Wrapped`) ends before `millis()` is
at its start again; one that should end after it (`Unreachable`) never ends with
`millis()` beyond its start. For `pulseIn()`, `InTime` bounds the time at each
of its reads from the last look at the timer (four reads may follow it), and
`Searching`, `Found`, `Within` and `Ended` bound by how much the time since the
mark and the time at the level differ, given how often the pin has changed.

Each of these inductive invariants was found by TLC to hold before it was
proved. Only model-checked, because out of reach of the prover: the liveness
properties (`CallsReturn` of `WiFiClass` and `Uart`, `TimedEnds`, `WaitsEnd`)
and the fairness under them.

## 7. What the models say about the code

Two runs end in a violation, each a finding in `PROJECT.json`:

1. `accept()` in the network task counts its socket by an unguarded load and
   store, while the sketch is in `begin()` or `end()`: the library may be taken
   down under the accepted socket (`WiFi/SecSocket.cpp:174`).
2. `receive(data, len)` looks at `available()` twice; between the looks the
   callback makes it larger, and more than `len` bytes are copied, into a
   one-byte variable in `WiFiClient::read` (`WiFi/SecSocket.cpp:230`).

Four more places where the code and a comment beside it disagree. The models
have them as the code does; they are told here and have no run:

3. After the sketch stops a client, its entry stays in the server's vector with
   the old handle, and the callback that is to find the client "which has
   triggered the callback" (`WiFi/WiFiServer.cpp:130`) meets it first when the
   handle is given out again (`WiFi/WiFiServer.cpp:134`; it assumes that the
   library reuses handles). And where the server has stopped the client first,
   on a disconnection, the sketch's `client.stop()` after its loop
   (`libraries/WiFi/examples/SimpleWebServerWiFi/SimpleWebServerWiFi.ino:90`)
   closes whatever connection has the handle by then (`WiFi/SecSocket.cpp:50`).
   `OwnData` and `ConnectedIsOpen` show that the damage goes no further than to
   such handles.
4. "Subsequent calls to available would return different client objects"
   (`WiFi/WiFiServer.cpp:28`), but the loop starts at the client returned last
   and so returns it again, and clients before it may wait for ever
   (`WiFi/WiFiServer.cpp:38`).
5. "Deinitialize if it was not already assigned" (`WiFi/WiFi.cpp:320`), but a
   scan by a disconnected station or access point takes the interface down, as
   its status equals that of an uninitialised one (`WiFi/WiFi.cpp:322`).
6. "10 seconds" (`WiFi/WiFi.cpp:313`), but the wait of `scanNetworks` is
   `incomplete || in time`: it never ends without a completion, and never
   before 10 s with one (`WiFi/WiFi.cpp:315`). Hence the fairness of section 5.

Also met while modelling, each in the model as the code has it: `wcm_scan_cb`
stores one result more than the array holds before it stops
(`WiFi/WiFi.cpp:603`; the type invariant says that it is only one), and no scan
clears the results; a failed `create` does not end the server's `begin()`, and a
repeated `begin()` leaves the earlier socket open, whose connections the callback
then tries to accept on the new one (`WiFi/WiFiServer.cpp:12`); `end()`
of the server skips every second client as it erases while counting up
(`WiFi/WiFiServer.cpp:89`); a failed `cy_socket_create` has raised the count for
good (`WiFi/SecSocket.cpp:43`: the `failed` of `CountExact`); `endPacket()` and
`endTransmission()` empty the buffer whether or not it was sent, so that a retry
after a failure sends nothing and reports success (`WiFi/WiFiUdp.cpp:78`,
`libraries/Wire/src/Wire.cpp:85`: why `OneMeansSent` and `ZeroMeansSent` speak
of what was written since); `beginMulticast` gives the Boolean of
`joinMulticastGroup`, true for success, to a macro that takes 0 for success
(`WiFi/WiFiUdp.cpp:38`); a slave keeps only half of what fits when its buffer is
nearly full (`libraries/Wire/src/Wire.cpp:196`); a tone without duration is
ended by the timer of the one before (`core/Tone.cpp:41`), and an interrupt
inside `tone()` or `noTone()` may free what the call goes on to use
(`core/Tone.cpp:47`); a second `attachInterrupt()` replaces the handler of the
first pin (`core/interrupts.c:58`); a second `pinMode()` on a pin frees it before
the mode is looked at, so that one of an unknown mode leaves it to no one, the
channel or the SPI that had it included, and the guard on the pin's number lets
one pass that is past the end of the flags (`core/digital_io.c:28-36`, `70-71`:
the `freed` of `PinsHeld`); `millis()` wraps after 71 minutes while its
differences are taken modulo 2^32, so that waits across the wrap end early, and
a `delay()` of more than 71 minutes never returns (`core/time.c:76`); and
nobody looks whether `time_init()` has succeeded (`core/time.c:62`).

What holds, and is not obvious: the sequence of accesses in `Socket` is right
whenever calls do not overlap, through re-begun, doubly ended and failing
sockets; the receive path loses no byte under any interleaving; server data is
mixed up on no handle but one that the sketch stopped itself; leftovers of
an oversized datagram never reach the next packet; `end()` of the serial port is
in the one order that leaves nothing of a session for the next; a sketch that
resumes after the count `write()` returned sends each byte once; two I2C boards
keep order through every failure; the flags of Tone survive an interrupt between
any two statements; no pin gets two channels of a kind however calls fail; an edge finds a
handler between any two statements of attaching and detaching; the clock set-up
never starves the core nor outruns the flash, from any clock tree a reset may
leave; and the difference that `delayMicroseconds()` takes is right across the
wrap.

## 8. What is not modelled, and why

* Data races inside `WiFiServer` and `WiFiUdp` methods on `std::vector`, and of
  the interrupt with the sketch on `RingBufferN` (in Uart and Wire): the
  containers are not in the repository, so their loads and stores would be
  invented. Their operations are taken to be atomic.
* The raw `this` that the callbacks of `WiFiClient::connect` keep: it is a
  question of the lifetimes of the sketch's C++ objects. Its `connect` is that
  of `Socket`, which is modelled.
* Liveness of the receive path: whether an event is raised again for bytes that
  were left in the library is not in the sources. Likewise that the WCM loses an
  association by itself: `WiFiClass` subscribes to no such event.
* `setTimeout()` of more than 71 minutes, and `begin()` across the wrap of
  `millis()`: the time of `ConnectTry` is counted, not read from the clock.
* The DNS setters and lookups and the access to scan results by index: data
  without control. The transfers of SPI, `analogReference()`, `setClock()` of
  Wire, the levels of pins and `interrupts()`/`noInterrupts()` likewise: they
  change nothing that the models keep.
* The default branch of the protocol in `Socket::begin()`
  (`WiFi/SecSocket.cpp:37-40`): its callers pass TCP or UDP.
* Wrong results that the code gives and no property rules out: a retried
  `endPacket()` or `endTransmission()` after a failure, the 0 that a full table
  of ADC channels reads, the count a slave's callback is told, an empty packet
  after a failed receive, a handler shared by two pins, a standing clock. The
  models have them, section 7 tells those that disagree with what a caller may
  expect, and the notes of the hazards say which property stops short of which.
* Shift, Random and yield: loops over pins, one call of a generator, and an
  empty hook; none keeps a state.
* The secure-sockets library, the WCM, the SCB block, the HAL with its hardware
  manager, and the clock hardware are external and modelled by what the code
  relies on.
* Much of the variants' text is configuration headers, linker and vector tables,
  comments and settings that the configuration compiles out
  (`mbedtls_user_config.h`, `lwipopts.h`, `cybsp_doc.h`, `FreeRTOSConfig.h`,
  `cycfg_qspi_memslot.c`, the pin and routing tables). There is no control in
  them to model; from the two sources of the start-up that have some,
  `cycfg_system.c` and `system_psoc6_cm4.c`, the enabled parts are in
  `ClockSetup` and `Board`. This is why the map covers most of `core/` and of
  the libraries and little of `bsp/`. The set-up of IPC in `SystemInit()` is for
  the flash driver and the other core, which take no part in what is modelled.
* Examples, tools, tests and docs are not part of the core.

## 9. The plan

Every safety and action property of the passing runs is a theorem. What is left,
by value: the hazards of `PROJECT.json` that no property covers yet
(`available()` of the server, which may starve clients, as a liveness property
violated under stated fairness); `Peripherals` with `Tone`, which takes pins
from the same hardware manager; and, if the containers become part of the
repository, their races.

## 10. How to run

    tlc -workers 2 -config MCSecSocket.cfg MCSecSocket
    tlapm Socket_proof.tla

A run takes from seconds to a few minutes, a proof from one to ten.
`PROJECT.json` lists the runs, the source lines every definition stands for
(`map`), the mutants, the hazards, the findings and the theorems.
