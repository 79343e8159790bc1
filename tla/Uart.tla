-------------------------------- MODULE Uart --------------------------------
(***************************************************************************)
(* class Uart (cores/psoc6/Uart.cpp): the serial port, used by the         *)
(* sketch's task, its receive interrupt (IrqHandler, which runs to its end *)
(* between two steps of the task) and the UART block, whose FIFOs fill and *)
(* drain at any time and which flow control may hold back for ever.        *)
(*                                                                         *)
(* Received and written bytes are their numbers, in the order they arrive  *)
(* on the line and in the order the sketch wants them sent; a sketch that  *)
(* is told that k bytes were written goes on after the k-th.               *)
(*                                                                         *)
(* Time is what millis() tells: it wraps at 2^32 us (Wrap here), while the *)
(* differences of it are taken in 32 bits (Word here).  A round of a       *)
(* waiting loop takes 1 to MaxLag units of it: the many rounds of one      *)
(* millisecond are one.                                                    *)
(***************************************************************************)
EXTENDS Integers, Sequences

CONSTANTS Fifo,          \* entries of each hardware FIFO
          Buf,           \* BUFFER_LENGTH
          MaxIn,         \* bound: bytes arriving
          MaxOut,        \* bound: bytes the sketch has written
          MaxSize,       \* bound: bytes of one write
          WriteTimeout,  \* 500 ms
          FlushTimeout,  \* 1000 ms
          MaxLag, Wrap, Word

ASSUME UartAssumption ==
  /\ {Fifo, Buf, MaxSize, MaxLag} \subseteq Nat \ {0}
  /\ {MaxIn, MaxOut, WriteTimeout, FlushTimeout} \subseteq Nat
  /\ Wrap \in Nat \ {0} /\ Word \in Nat /\ Word >= Wrap

VARIABLES hw,         \* the block: "free", "init" or "on" (events enabled)
          ready,      \* serial_ready
          last_error,
          rxFifo, txFifo,
          rx_buffer,
          arrived,    \* bytes that have come in on the line
          opened,     \* history: ... before the port was opened
          got,        \* history: the byte read last
          seen,       \* history: what peek() returned, 0 since the last read()
          line,       \* the byte sent last on the line
          told,       \* history: bytes the sketch was told are written
          pc,         \* where the sketch's task is
          size, left, \* size and left_to_write of write()
          writable,   \* num_bytes_writable
          now, start, \* millis(), time_start_ms
          waited,     \* history: time spent in this call, up to the timeout
          wrapped     \* history: the clock has wrapped in this call

vars == <<hw, ready, last_error, rxFifo, txFifo, rx_buffer, arrived, opened,
          got, seen, line, told, pc, size, left, writable, now, start, waited,
          wrapped>>

port == <<hw, ready, last_error, opened>>
rx == <<rxFifo, rx_buffer, arrived, got, seen>>
tx == <<txFifo, line>>
call == <<size, left, writable, told>>
clock == <<now, start, waited, wrapped>>

Least(a, b) == IF a < b THEN a ELSE b

Init ==
  /\ hw = "free" /\ ready = FALSE /\ last_error = "NONE"
  /\ rxFifo = <<>> /\ txFifo = <<>> /\ rx_buffer = <<>>
  /\ arrived = 0 /\ opened = 0 /\ got = 0 /\ seen = 0
  /\ line = 0 /\ told = 0
  /\ pc = "idle" /\ size = 0 /\ left = 0 /\ writable = 0
  /\ now \in 0 .. Wrap - 1 /\ start = 0 /\ waited = 0 /\ wrapped = FALSE
-----------------------------------------------------------------------------
(* The block and its interrupt *)

\* A byte comes in; one that finds the FIFO full is lost.
Arrive ==
  /\ hw # "free" /\ arrived < MaxIn
  /\ arrived' = arrived + 1
  /\ rxFifo' = IF Len(rxFifo) < Fifo THEN Append(rxFifo, arrived + 1) ELSE rxFifo
  /\ UNCHANGED <<port, rx_buffer, got, seen, tx, pc, call, clock>>

Transmit ==
  /\ txFifo # <<>>
  /\ line' = Head(txFifo)
  /\ txFifo' = Tail(txFifo)
  /\ UNCHANGED <<port, rx, pc, call, clock>>

\* Mutant of IrqHandler: room is made by dropping the oldest bytes.
IrqHandlerDropsOldest ==
  /\ hw = "on" /\ rxFifo # <<>>
  /\ rxFifo' = <<>>
  /\ LET all == rx_buffer \o rxFifo
         drop == IF Len(all) > Buf THEN Len(all) - Buf ELSE 0
     IN  rx_buffer' = SubSeq(all, drop + 1, Len(all))
  /\ UNCHANGED <<port, arrived, got, seen, tx, pc, call, clock>>

\* Empties the FIFO; what rx_buffer has no room for is dropped.
IrqHandler ==
  /\ hw = "on" /\ rxFifo # <<>>
  /\ rxFifo' = <<>>
  /\ rx_buffer' = rx_buffer \o
                    SubSeq(rxFifo, 1, Least(Len(rxFifo), Buf - Len(rx_buffer)))
  /\ UNCHANGED <<port, arrived, got, seen, tx, pc, call, clock>>
-----------------------------------------------------------------------------
(* begin and end, on a port that is closed and one that is not *)

\* An error is recorded and never reset; one of cyhal_uart_set_baud leaves
\* the block initialised, without interrupt.  The HAL refuses a block that is
\* in use, of this port too, and leaves it as it is.
Begin ==
  /\ pc = "idle"
  /\ \/ last_error' = "INIT_FAILED" /\ UNCHANGED <<hw, ready, opened, line, told>>
     \/ /\ hw = "free"
        /\ \/ hw' = "on" /\ ready' = TRUE /\ UNCHANGED last_error
           \/ hw' = "init" /\ last_error' = "SET_BAUD_FAILED" /\ UNCHANGED ready
        /\ opened' = arrived /\ line' = 0 /\ told' = 0
  /\ UNCHANGED <<rx, txFifo, pc, size, left, writable, clock>>

\* cyhal_uart_clear: both FIFOs, with what was not yet sent.
EndClear ==
  /\ pc = "idle" /\ hw # "free"
  /\ rxFifo' = <<>> /\ txFifo' = <<>>
  /\ line' = 0 /\ told' = 0
  /\ pc' = "end"
  /\ UNCHANGED <<port, rx_buffer, arrived, got, seen, size, left, writable, clock>>

EndFree ==
  /\ pc = "end" /\ hw # "free"
  /\ hw' = "free"
  /\ rxFifo' = <<>>
  /\ UNCHANGED <<ready, last_error, opened, rx_buffer, arrived, got, seen, tx, pc,
                 call, clock>>

\* Mutant of EndBuffer: rx_buffer is not cleared.
EndBufferKeeps ==
  /\ pc = "end" /\ hw = "free"
  /\ ready' = FALSE /\ pc' = "idle"
  /\ UNCHANGED <<hw, last_error, opened, rx, tx, call, clock>>

EndBuffer ==
  /\ pc = "end" /\ hw = "free"
  /\ rx_buffer' = <<>> /\ seen' = 0
  /\ ready' = FALSE /\ pc' = "idle"
  /\ UNCHANGED <<hw, last_error, opened, rxFifo, arrived, got, tx, call, clock>>
-----------------------------------------------------------------------------
(* read and peek: -1 of an empty buffer changes nothing *)

Read ==
  /\ pc = "idle" /\ rx_buffer # <<>>
  /\ got' = Head(rx_buffer) /\ rx_buffer' = Tail(rx_buffer) /\ seen' = 0
  /\ UNCHANGED <<port, rxFifo, arrived, tx, pc, call, clock>>

Peek ==
  /\ pc = "idle" /\ rx_buffer # <<>>
  /\ seen' = Head(rx_buffer)
  /\ UNCHANGED <<port, rxFifo, rx_buffer, arrived, got, tx, pc, call, clock>>
-----------------------------------------------------------------------------
(* write and flush, on a port that is open *)

Elapsed == (now - start) % Word

\* Mutant of StartTimer: the time of an earlier call is kept.
StartTimerStale == waited' = 0 /\ wrapped' = FALSE /\ UNCHANGED <<now, start>>

StartTimer == start' = now /\ waited' = 0 /\ wrapped' = FALSE /\ UNCHANGED now

TimePasses(timeout) ==
  \E d \in 1 .. MaxLag :
    /\ now' = (now + d) % Wrap
    /\ waited' = Least(waited + d, timeout)
    /\ wrapped' = (wrapped \/ now + d >= Wrap)
    /\ UNCHANGED start

Write ==
  /\ pc = "idle" /\ hw = "on" /\ told < MaxOut
  /\ \E s \in 1 .. MaxSize : size' = s /\ left' = s
  /\ pc' = "look"
  /\ StartTimer
  /\ UNCHANGED <<port, rx, tx, writable, told>>

WriteLook ==
  /\ pc = "look"
  /\ writable' = Fifo - Len(txFifo)
  /\ pc' = IF writable' = 0 THEN "test" ELSE "put"
  /\ TimePasses(WriteTimeout)
  /\ UNCHANGED <<port, rx, tx, size, left, told>>

\* Mutant of WritePut: the buffer pointer is not moved on.
WritePutRestarts ==
  /\ pc = "put"
  /\ \/ LET k == Least(left, writable)
        IN  /\ txFifo' = txFifo \o [i \in 1 .. k |-> told + i]
            /\ left' = left - k
            /\ pc' = "test"
            /\ UNCHANGED <<size, told>>
     \/ /\ told' = told + (size - left)
        /\ size' = 0 /\ left' = 0 /\ pc' = "idle"
        /\ UNCHANGED txFifo
  /\ UNCHANGED <<port, rx, line, writable, clock>>

\* cyhal_uart_write: the block puts what it said it could, or fails, and
\* write returns what it has written until then.
WritePut ==
  /\ pc = "put"
  /\ \/ LET k == Least(left, writable)
        IN  /\ txFifo' = txFifo \o [i \in 1 .. k |-> told + (size - left) + i]
            /\ left' = left - k
            /\ pc' = "test"
            /\ UNCHANGED <<size, told>>
     \/ /\ told' = told + (size - left)
        /\ size' = 0 /\ left' = 0 /\ pc' = "idle"
        /\ UNCHANGED txFifo
  /\ UNCHANGED <<port, rx, line, writable, clock>>

\* Mutant of WriteAgain: the timeout is not asked for.
WriteAgainUntimed ==
  /\ pc = "test" /\ left > 0
  /\ pc' = "look"
  /\ UNCHANGED <<port, rx, tx, call, clock>>

WriteAgain ==
  /\ pc = "test" /\ left > 0 /\ Elapsed < WriteTimeout
  /\ pc' = "look"
  /\ UNCHANGED <<port, rx, tx, call, clock>>

WriteReturn ==
  /\ pc = "test" /\ (left = 0 \/ Elapsed >= WriteTimeout)
  /\ told' = told + (size - left)
  /\ size' = 0 /\ left' = 0 /\ pc' = "idle"
  /\ UNCHANGED <<port, rx, tx, writable, clock>>

Flush ==
  /\ pc = "idle" /\ hw = "on"
  /\ pc' = "flush"
  /\ StartTimer
  /\ UNCHANGED <<port, rx, tx, call>>

FlushRound ==
  /\ pc = "flush" /\ txFifo # <<>> /\ Elapsed < FlushTimeout
  /\ TimePasses(FlushTimeout)
  /\ UNCHANGED <<port, rx, tx, pc, call>>

FlushReturn ==
  /\ pc = "flush" /\ (txFifo = <<>> \/ Elapsed >= FlushTimeout)
  /\ pc' = "idle"
  /\ UNCHANGED <<port, rx, tx, call, clock>>

SketchLoops ==
  \/ EndFree \/ EndBuffer
  \/ WriteLook \/ WritePut \/ WriteAgain \/ WriteReturn
  \/ FlushRound \/ FlushReturn

Next ==
  \/ Arrive \/ Transmit \/ IrqHandler
  \/ Begin \/ EndClear \/ Read \/ Peek \/ Write \/ Flush
  \/ SketchLoops

Spec == Init /\ [][Next]_vars

\* The task is scheduled; nothing says that the block ever sends a byte.
FairSpec == Spec /\ WF_vars(SketchLoops)
-----------------------------------------------------------------------------
TypeOK ==
  /\ hw \in {"free", "init", "on"} /\ ready \in BOOLEAN
  /\ last_error \in {"NONE", "INIT_FAILED", "SET_BAUD_FAILED"}
  /\ rxFifo \in Seq(1 .. MaxIn) /\ Len(rxFifo) <= Fifo
  /\ txFifo \in Seq(Nat) /\ Len(txFifo) <= Fifo
  /\ rx_buffer \in Seq(1 .. MaxIn) /\ Len(rx_buffer) <= Buf
  /\ arrived \in 0 .. MaxIn /\ opened \in 0 .. arrived
  /\ got \in 0 .. MaxIn /\ seen \in 0 .. MaxIn
  /\ line \in Nat /\ told \in Nat
  /\ pc \in {"idle", "end", "look", "put", "test", "flush"}
  /\ size \in 0 .. MaxSize /\ left \in 0 .. size /\ writable \in 0 .. Fifo
  /\ now \in 0 .. Wrap - 1 /\ start \in 0 .. Wrap - 1
  /\ waited \in Nat /\ wrapped \in BOOLEAN

Increasing(s) == \A i, j \in DOMAIN s : i < j => s[i] < s[j]

(* Received bytes stay in the order of the line, none twice, over every    *)
(* overrun, close and reopen; and what peek() showed is what read()        *)
(* returns, although the interrupt stores bytes in between, into a full    *)
(* buffer too.  Uart.cpp:87-92, 105-117, 162-171.                          *)
ReadInOrder ==
  /\ Increasing(<<got>> \o rx_buffer \o rxFifo)
  /\ seen # 0 => rx_buffer # <<>> /\ Head(rx_buffer) = seen

(* No byte of an earlier session is read after the port is opened again:   *)
(* one that the interrupt stores while end() runs is cleared too.          *)
(* Uart.cpp:87-92.                                                         *)
SessionOnly ==
  pc = "idle" => \A i \in DOMAIN rx_buffer : ready /\ rx_buffer[i] > opened

(* A port says it is ready exactly while its interrupt is enabled: partial *)
(* failures of begin() included.  Uart.cpp:67-76, 87-92.                   *)
ReadyIsOpen == pc # "end" => (ready <=> hw = "on")

(* What is in the FIFO and on the line is what write() has counted, byte   *)
(* after byte: a sketch that goes on after the count it was given sends no *)
(* byte twice and leaves none out.  Uart.cpp:123-147.                      *)
SentIsTold ==
  /\ \A i \in DOMAIN txFifo : txFifo[i] = line + i
  /\ line + Len(txFifo) = told + (size - left)

(* write() and flush() give up only after their time, unless millis()      *)
(* wrapped meanwhile (it does after 2^32 us, not 2^32 ms).                 *)
(* Uart.cpp:94-103, 133-144, time.c:75-77.                                 *)
GivesUpInTime ==
  [][/\ pc = "test" /\ pc' = "idle" /\ left > 0 /\ ~wrapped => waited >= WriteTimeout
     /\ pc = "flush" /\ pc' = "idle" /\ txFifo # <<>> /\ ~wrapped
          => waited >= FlushTimeout]_vars

(* write(), flush() and end() return although flow control may hold the    *)
(* block back for ever.  Uart.cpp:94-103, 133-144.                         *)
CallsReturn == pc # "idle" ~> pc = "idle"
=============================================================================
