---------------------------- MODULE SerialLink -------------------------------
(***************************************************************************)
(* A serial line into the keybox (ble.c, rs485.c): the interrupt puts each *)
(* byte in a queue, the receiver task collects bytes into a buffer and     *)
(* sends the buffer as a frame when it is full or when no byte came for    *)
(* Gap ticks.  A BLE frame is the bare buffer; an RS-485 frame has a cell  *)
(* for its length.  The queues, and a receive with a block time, are those *)
(* of module Kernel.                                                       *)
(***************************************************************************)
EXTENDS Integers, Sequences

CONSTANTS
    Size,       \* BLE_DATA_RX_SZ, RS_RX_SZ: cells of the buffer and of the byte queue
    Gap,        \* block time of the receiver, in ticks
    FrameSlots, \* length of the frame queue
    Late,       \* ticks until a receiver that can run has run and blocks again
    MaxMessages \* bound: messages the peer sends

ASSUME SerialAssumption ==
    /\ Size \in Nat /\ Size > 1
    /\ Gap \in Nat \ {0} /\ FrameSlots \in Nat \ {0}
    /\ Late \in Nat /\ MaxMessages \in Nat

VARIABLES
    link,       \* which of the two lines this is
    bytes,      \* ble_data_recv_byte, rs_recv_byte
    buf, i,     \* ble_data_rx_buf, rs_recv_buf; bytes collected
    rx,         \* the receiver runs, or is inside xQueueReceive
    waited,     \* ticks the receive in progress has counted
    late,       \* ticks since the receiver could run
    frames,     \* ble_data_recv, rs_recv: what is in each item, and how much is new
    message, length, sent,  \* the peer: number, length and bytes sent of its message
    quiet,      \* ticks since the last byte on the line
    good        \* history: messages sent as a peer should

line == <<message, length, sent, quiet, good>>
receiver == <<buf, i, rx, waited>>
vars == <<link, bytes, receiver, late, frames, line>>

HeaderCell(n) == [message |-> 0, at |-> 0, of |-> n]
Blank == HeaderCell(0)

(* The cell of an RS-485 buffer that holds the length.                     *)
Header == IF link = "rs" THEN 1 ELSE 0
Capacity == Size - Header

(* A line this long quiet has had its last frame cut.                      *)
Pause == Gap + 2 * Late + 1

Init ==
    /\ link \in {"ble", "rs"}
    /\ bytes = <<>>
    /\ buf = [c \in 1 .. Size |-> Blank] /\ i = 0
    /\ rx = "run" /\ waited = 0 /\ late = 0
    /\ frames = <<>>
    /\ message = 0 /\ length = 0 /\ sent = 0 /\ quiet = Pause /\ good = {}

-----------------------------------------------------------------------------
(* The peer.  A message is sent as it should be when it starts on a quiet  *)
(* line, or right behind one that filled its frame, when its bytes are less*)
(* than Gap ticks apart, and when the byte queue has room for each.        *)
Begin(n) ==
    /\ sent = length /\ message < MaxMessages
    /\ message' = message + 1 /\ length' = n /\ sent' = 0
    /\ good' = IF n <= Capacity /\ (quiet = Pause \/ (length = Capacity /\ message \in good /\ quiet < Gap))
               THEN good \cup {message + 1} ELSE good
    /\ UNCHANGED <<link, bytes, receiver, late, frames, quiet>>

(* USART2_IRQHandler, USART1_IRQHandler: a byte too many is lost.          *)
IRQHandler ==
    /\ sent < length
    /\ sent' = sent + 1 /\ quiet' = 0
    /\ LET room == Len(bytes) < Size
           byte == [message |-> message, at |-> sent + 1, of |-> length]
       IN  /\ bytes' = IF room THEN Append(bytes, byte) ELSE bytes
           /\ good' = IF room THEN good ELSE good \ {message}
    /\ UNCHANGED <<link, receiver, late, frames, message, length>>

-----------------------------------------------------------------------------
(* Mutant of SendFrame: the length is the index of the last byte.          *)
SendFrame_LastIndex(b, n) ==
    LET cells == IF link = "rs" THEN [b EXCEPT ![1] = HeaderCell(n - 1)] ELSE b
    IN  /\ buf' = cells
        /\ frames' = IF Len(frames) < FrameSlots THEN Append(frames, [cells |-> cells, new |-> n])
                     ELSE frames
        /\ i' = 0

(* xQueueSend of the buffer with block time 0, and i = 0.                  *)
SendFrame(b, n) ==
    LET cells == IF link = "rs" THEN [b EXCEPT ![1] = HeaderCell(n)] ELSE b
    IN  /\ buf' = cells
        /\ frames' = IF Len(frames) < FrameSlots THEN Append(frames, [cells |-> cells, new |-> n])
                     ELSE frames
        /\ i' = 0

(* xQueueReceive finds a byte, at once or after a while.                   *)
Collect ==
    /\ bytes # <<>>
    /\ bytes' = Tail(bytes)
    /\ LET b == [buf EXCEPT ![i + 1 + Header] = Head(bytes)]
       IN  IF i + 1 + Header = Size THEN SendFrame(b, i + 1)
           ELSE buf' = b /\ i' = i + 1 /\ UNCHANGED frames
    /\ rx' = "run" /\ waited' = 0
    /\ UNCHANGED <<link, late, line>>

(* It finds none and blocks.                                               *)
Block ==
    /\ rx = "run" /\ bytes = <<>>
    /\ rx' = "wait" /\ late' = 0
    /\ UNCHANGED <<link, bytes, buf, i, waited, frames, line>>

(* Mutant of GapPassed: a gap does not end a frame.                        *)
GapPassed_Ignored ==
    /\ rx = "wait" /\ bytes = <<>> /\ waited = Gap
    /\ rx' = "run" /\ waited' = 0
    /\ UNCHANGED <<link, bytes, buf, i, late, frames, line>>

(* It returns without a byte.                                              *)
GapPassed ==
    /\ rx = "wait" /\ bytes = <<>> /\ waited = Gap
    /\ IF i > 0 THEN SendFrame(buf, i) ELSE UNCHANGED <<buf, i, frames>>
    /\ rx' = "run" /\ waited' = 0
    /\ UNCHANGED <<link, bytes, late, line>>

Receiver == Collect \/ Block \/ GapPassed

(* The app task takes a frame.                                             *)
Fetch ==
    /\ frames # <<>>
    /\ frames' = Tail(frames)
    /\ UNCHANGED <<link, bytes, receiver, late, line>>

Ready == rx = "run" \/ bytes # <<>> \/ waited = Gap

SysTick ==
    /\ Ready => late < Late
    /\ late' = IF Ready THEN late + 1 ELSE 0
    /\ waited' = IF rx = "wait" /\ waited < Gap THEN waited + 1 ELSE waited
    /\ quiet' = IF quiet < Pause THEN quiet + 1 ELSE quiet
    /\ good' = IF sent \in 1 .. length - 1 /\ quiet + 1 >= Gap THEN good \ {message} ELSE good
    /\ UNCHANGED <<link, bytes, buf, i, rx, frames, message, length, sent>>

Next == (\E n \in 1 .. Size : Begin(n)) \/ IRQHandler \/ Receiver \/ Fetch \/ SysTick

(* The receiver has its turns and the tick comes; nothing is asked of the  *)
(* peer or of the reader of the frames.                                    *)
Spec == Init /\ [][Next]_vars /\ WF_vars(Receiver) /\ WF_vars(SysTick)

-----------------------------------------------------------------------------
Byte == [message : 1 .. MaxMessages, at : 1 .. Size, of : 1 .. Size]
Cell == Byte \cup {HeaderCell(n) : n \in 0 .. Size}

(* Every variable keeps the shape the code gives it.                       *)
TypeOK ==
    /\ link \in {"ble", "rs"}
    /\ bytes \in Seq(Byte) /\ Len(bytes) <= Size
    /\ buf \in [1 .. Size -> Cell] /\ i \in 0 .. Capacity - 1
    /\ rx \in {"run", "wait"} /\ waited \in 0 .. Gap /\ late \in 0 .. Late
    /\ frames \in Seq([cells : [1 .. Size -> Cell], new : 1 .. Capacity])
    /\ Len(frames) <= FrameSlots
    /\ message \in 0 .. MaxMessages /\ length \in 0 .. Size /\ sent \in 0 .. length
    /\ quiet \in 0 .. Pause /\ good \subseteq 1 .. MaxMessages

(* The bytes of a frame that are new, as its reader can tell them apart: an*)
(* RS-485 frame says how many.                                             *)
Content(f) == SubSeq(f.cells, Header + 1, Header + (IF link = "rs" THEN f.cells[1].of ELSE f.new))

(* A message sent as it should be is a frame of its own or the beginning of*)
(* one: no byte of the frame before is in front of it, none of its own is  *)
(* missing or in another frame, whatever was sent before and however late  *)
(* the receiver ran (ble.c:195-221, rs485.c:28-54).                        *)
GoodMessageWhole ==
    \A f \in {frames[n] : n \in DOMAIN frames} :
        LET c == Content(f) IN
        \A n \in DOMAIN c : c[n].message \in good =>
            \A k \in 1 .. c[n].of :
                k \in DOMAIN c /\ c[k] = [message |-> c[n].message, at |-> k, of |-> c[n].of]

(* Frames are consecutive runs of the bytes that found room, in order, and *)
(* only whole frames are dropped (ble.c:203-221, rs485.c:34-54).           *)
Pending == SubSeq(buf, Header + 1, Header + i) \o bytes
Contents == [n \in DOMAIN frames |-> Content(frames[n])]
Stream == INSTANCE FrameStream WITH Capacity <- Size, pending <- Pending, frames <- Contents
ImplementsStream == Stream!Spec

(* A byte never stays in the receiver: the frame is cut when the line goes *)
(* quiet (ble.c:207-211).                                                  *)
BytesLeave == (bytes # <<>> \/ i > 0) ~> (bytes = <<>> /\ i = 0)
=============================================================================
