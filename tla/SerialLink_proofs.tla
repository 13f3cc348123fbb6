-------------------------- MODULE SerialLink_proofs --------------------------
(***************************************************************************)
(* Proofs about SerialLink for buffers and queues of any size, any gap and *)
(* a receiver as late as it may be.                                        *)
(***************************************************************************)
EXTENDS SerialLink, SequenceTheorems, TLAPS

Frame == [cells : [1 .. Size -> Cell], new : 1 .. Capacity]

Sizes ==
    /\ Size \in Nat /\ Size > 1 /\ Gap \in Nat \ {0} /\ FrameSlots \in Nat \ {0}
    /\ Late \in Nat /\ MaxMessages \in Nat
    /\ Header \in 0 .. 1 /\ Capacity = Size - Header /\ (link = "rs" => Header = 1)

LEMMA SizesHold == Sizes
  BY SerialAssumption DEF Sizes, Header, Capacity

LEMMA HeaderCellType ==
  ASSUME NEW n \in 0 .. Size
  PROVE  HeaderCell(n) \in Cell /\ HeaderCell(n).of = n
  BY DEF Cell, HeaderCell

LEMMA HeadTailType ==
  ASSUME NEW S, NEW q \in Seq(S), q # <<>>
  PROVE  /\ Head(q) \in S /\ Head(q) = q[1] /\ Tail(q) \in Seq(S)
         /\ Len(Tail(q)) = Len(q) - 1 /\ Len(q) \in Nat \ {0}
         /\ \A k \in 1 .. Len(q) - 1 : Tail(q)[k] = q[k + 1]
  OBVIOUS

-----------------------------------------------------------------------------
(* The line and its clocks.                                                *)
LineType ==
    /\ link \in {"ble", "rs"}
    /\ rx \in {"run", "wait"} /\ waited \in 0 .. Gap /\ late \in 0 .. Late
    /\ message \in 0 .. MaxMessages /\ length \in 0 .. Size /\ sent \in 0 .. length
    /\ length > 0 => message > 0
    /\ quiet \in 0 .. Pause /\ good \subseteq 1 .. MaxMessages

LEMMA LineTyping ==
  ASSUME LineType, [Next]_vars
  PROVE  LineType'
<1>. USE SizesHold DEF LineType, Sizes
<1>0. Pause \in Nat /\ Pause' = Pause
  BY DEF Pause
<1>1. ASSUME NEW n \in 1 .. Size, Begin(n) PROVE LineType'
  <2>1. good' \subseteq 1 .. MaxMessages
    BY <1>1 DEF Begin
  <2>. QED
    BY <1>0, <1>1, <2>1 DEF Begin, receiver
<1>2. CASE IRQHandler
  <2>1. good' \subseteq 1 .. MaxMessages
    BY <1>2 DEF IRQHandler
  <2>. QED
    BY <1>0, <1>2, <2>1 DEF IRQHandler, receiver
<1>3. CASE Collect \/ Block \/ GapPassed
  <2>1. /\ rx' \in {"run", "wait"} /\ waited' \in {0, waited} /\ late' \in {0, late}
        /\ UNCHANGED <<link, line>>
    BY <1>3 DEF Collect, Block, GapPassed
  <2>. QED
    BY <1>0, <2>1 DEF line
<1>4. CASE Fetch
  BY <1>0, <1>4 DEF Fetch, line, receiver
<1>5. CASE SysTick
  <2>1. good' \subseteq 1 .. MaxMessages
    BY <1>5 DEF SysTick
  <2>2. waited' \in 0 .. Gap /\ late' \in 0 .. Late /\ quiet' \in 0 .. Pause
    BY <1>0, <1>5 DEF SysTick
  <2>. QED
    BY <1>0, <1>5, <2>1, <2>2 DEF SysTick
<1>6. CASE UNCHANGED vars
  BY <1>0, <1>6 DEF vars, line, receiver
<1>. QED
  BY <1>1, <1>2, <1>3, <1>4, <1>5, <1>6 DEF Next, Receiver

-----------------------------------------------------------------------------
(* The bytes, the buffer and the frames.  An RS-485 frame says how many of *)
(* its bytes are new.                                                      *)
DataType ==
    /\ bytes \in Seq(Byte) /\ Len(bytes) <= Size
    /\ buf \in [1 .. Size -> Cell] /\ i \in 0 .. Capacity - 1
    /\ frames \in Seq(Frame) /\ Len(frames) <= FrameSlots
    /\ \A n \in 1 .. Len(frames) : link = "rs" => frames[n].cells[1].of = frames[n].new

LEMMA SendFrameType ==
  ASSUME LineType, DataType, NEW b \in [1 .. Size -> Cell], NEW n \in 1 .. Capacity,
         SendFrame(b, n), link' = link
  PROVE  /\ buf' \in [1 .. Size -> Cell] /\ i' = 0
         /\ frames' \in Seq(Frame) /\ Len(frames') <= FrameSlots
         /\ \A m \in 1 .. Len(frames') : link' = "rs" => frames'[m].cells[1].of = frames'[m].new
<1>. DEFINE cells == IF link = "rs" THEN [b EXCEPT ![1] = HeaderCell(n)] ELSE b
            f == [cells |-> cells, new |-> n]
<1>0. n \in 0 .. Size /\ FrameSlots \in Nat
  BY SizesHold DEF Sizes
<1>1. buf' = cells /\ i' = 0
      /\ frames' = IF Len(frames) < FrameSlots THEN Append(frames, f) ELSE frames
  BY DEF SendFrame
<1>2. cells \in [1 .. Size -> Cell] /\ (link = "rs" => cells[1].of = n)
  BY <1>0, HeaderCellType, SizesHold DEF Sizes
<1>3. f \in Frame /\ f.cells = cells /\ f.new = n
  BY <1>2 DEF Frame
<1>. HIDE DEF f, cells
<1>4. CASE Len(frames) < FrameSlots
  <2>1. /\ frames' \in Seq(Frame) /\ Len(frames') = Len(frames) + 1
        /\ frames'[Len(frames) + 1] = f /\ \A m \in 1 .. Len(frames) : frames'[m] = frames[m]
    BY <1>1, <1>3, <1>4, AppendProperties DEF DataType
  <2>2. ASSUME NEW m \in 1 .. Len(frames'), link = "rs"
        PROVE  frames'[m].cells[1].of = frames'[m].new
    <3>1. CASE m = Len(frames) + 1
      BY <1>2, <1>3, <2>1, <2>2, <3>1
    <3>2. CASE m # Len(frames) + 1
      <4>1. m \in 1 .. Len(frames)
        BY <2>1, <3>2 DEF DataType
      <4>. QED
        BY <2>1, <2>2, <4>1 DEF DataType
    <3>. QED
      BY <3>1, <3>2
  <2>. QED
    BY <1>0, <1>1, <1>2, <1>4, <2>1, <2>2 DEF DataType
<1>5. CASE ~(Len(frames) < FrameSlots)
  BY <1>1, <1>2, <1>5 DEF DataType
<1>. QED
  BY <1>4, <1>5

LEMMA DataTyping ==
  ASSUME LineType, DataType, [Next]_vars
  PROVE  DataType' /\ link' = link
<1>. USE SizesHold DEF Sizes
<1>0. link' = link /\ Capacity' = Capacity /\ Frame' = Frame
  <2>1. link' = link
    BY DEF Next, Begin, IRQHandler, Receiver, Collect, Block, GapPassed, Fetch, SysTick, vars
  <2>2. Capacity' = Capacity
    BY <2>1 DEF Capacity, Header
  <2>. QED
    BY <2>1, <2>2 DEF Frame
<1>1. CASE (\E n \in 1 .. Size : Begin(n)) \/ SysTick \/ UNCHANGED vars
  BY <1>0, <1>1 DEF Begin, SysTick, vars, receiver, DataType
<1>2. CASE IRQHandler
  <2>1. [message |-> message, at |-> sent + 1, of |-> length] \in Byte
    BY <1>2 DEF IRQHandler, LineType, Byte
  <2>2. bytes' \in Seq(Byte) /\ Len(bytes') <= Size
    BY <1>2, <2>1 DEF IRQHandler, DataType
  <2>. QED
    BY <1>0, <1>2, <2>2 DEF IRQHandler, receiver, DataType
<1>3. CASE Collect
  <2>. DEFINE b == [buf EXCEPT ![i + 1 + Header] = Head(bytes)]
  <2>1. /\ Head(bytes) \in Byte /\ bytes' = Tail(bytes)
        /\ bytes' \in Seq(Byte) /\ Len(bytes') <= Size
    BY <1>3, HeadTailType DEF Collect, DataType
  <2>2. b \in [1 .. Size -> Cell]
    BY <2>1 DEF DataType, Cell
  <2>3. i + 1 \in 1 .. Capacity
    BY DEF DataType
  <2>4. IF i + 1 + Header = Size THEN SendFrame(b, i + 1)
        ELSE buf' = b /\ i' = i + 1 /\ UNCHANGED frames
    BY <1>3 DEF Collect
  <2>. HIDE DEF b
  <2>5. CASE i + 1 + Header = Size
    <3>1. SendFrame(b, i + 1)
      BY <2>4, <2>5
    <3>2. /\ buf' \in [1 .. Size -> Cell] /\ i' = 0
          /\ frames' \in Seq(Frame) /\ Len(frames') <= FrameSlots
          /\ \A m \in 1 .. Len(frames') : link' = "rs" => frames'[m].cells[1].of = frames'[m].new
      BY <1>0, <2>2, <2>3, <3>1, SendFrameType
    <3>3. i' \in 0 .. Capacity' - 1
      BY <1>0, <3>2
    <3>. QED
      BY <1>0, <2>1, <3>2, <3>3 DEF DataType
  <2>6. CASE i + 1 + Header # Size
    BY <1>0, <2>1, <2>2, <2>4, <2>6 DEF DataType
  <2>. QED
    BY <2>5, <2>6
<1>4. CASE Block
  BY <1>0, <1>4 DEF Block, DataType
<1>5. CASE GapPassed
  <2>1. CASE i > 0
    <3>1. SendFrame(buf, i) /\ i \in 1 .. Capacity /\ bytes' = bytes
      BY <1>5, <2>1 DEF GapPassed, DataType
    <3>2. /\ buf' \in [1 .. Size -> Cell] /\ i' = 0
          /\ frames' \in Seq(Frame) /\ Len(frames') <= FrameSlots
          /\ \A m \in 1 .. Len(frames') : link' = "rs" => frames'[m].cells[1].of = frames'[m].new
      BY <1>0, <3>1, SendFrameType DEF DataType
    <3>3. i' \in 0 .. Capacity' - 1
      BY <1>0, <3>2
    <3>. QED
      BY <1>0, <3>1, <3>2, <3>3 DEF DataType
  <2>2. CASE ~(i > 0)
    BY <1>0, <1>5, <2>2 DEF GapPassed, DataType
  <2>. QED
    BY <2>1, <2>2
<1>6. CASE Fetch
  <2>1. /\ frames' \in Seq(Frame) /\ Len(frames') = Len(frames) - 1 /\ Len(frames) \in Nat
        /\ \A k \in 1 .. Len(frames') : frames'[k] = frames[k + 1]
    BY <1>6, HeadTailType DEF Fetch, DataType
  <2>. QED
    BY <1>0, <1>6, <2>1 DEF Fetch, receiver, DataType
<1>. QED
  BY <1>0, <1>1, <1>2, <1>3, <1>4, <1>5, <1>6 DEF Next, Receiver

LEMMA InitType == Init => LineType /\ DataType
<1>. SUFFICES ASSUME Init PROVE LineType /\ DataType
  OBVIOUS
<1>. USE SizesHold DEF Sizes
<1>1. LineType
  BY DEF Init, LineType, Pause
<1>2. /\ bytes \in Seq(Byte) /\ Len(bytes) = 0 /\ frames \in Seq(Frame) /\ Len(frames) = 0
  BY DEF Init
<1>3. Blank \in Cell
  BY HeaderCellType DEF Blank
<1>. QED
  BY <1>1, <1>2, <1>3 DEF Init, DataType

(* The buffer is never written past its end and both queues stay within    *)
(* their lengths, for any size, and the index i stays below it.            *)
THEOREM TypeTheorem == Spec => []TypeOK
<1>1. LineType /\ DataType /\ [Next]_vars => (LineType /\ DataType)'
  BY LineTyping, DataTyping
<1>2. LineType /\ DataType => TypeOK
  BY DEF LineType, DataType, TypeOK, Frame
<1>. QED
  BY InitType, <1>1, <1>2, PTL DEF Spec

-----------------------------------------------------------------------------
(* What is pending: the cells collected, then the bytes of the queue.      *)
LEMMA CellsThenBytes ==
  ASSUME NEW h \in 0 .. 1, NEW n \in Nat, h + n <= Size, NEW b \in [1 .. Size -> Cell],
         NEW q \in Seq(Byte)
  PROVE  /\ SubSeq(b, h + 1, h + n) \o q \in Seq(Cell)
         /\ Len(SubSeq(b, h + 1, h + n) \o q) = n + Len(q) /\ Len(q) \in Nat
         /\ \A k \in 1 .. n + Len(q) :
               (SubSeq(b, h + 1, h + n) \o q)[k] = IF k <= n THEN b[h + k] ELSE q[k - n]
<1>. DEFINE s == SubSeq(b, h + 1, h + n)
<1>1. /\ s \in Seq(Cell) /\ Len(s) = n
      /\ \A k \in 1 .. n : s[k] = b[h + k]
  <2>1. \A k \in h + 1 .. h + n : b[k] \in Cell
    BY SizesHold DEF Sizes
  <2>2. /\ s \in Seq(Cell)
        /\ Len(s) = IF h + 1 <= h + n THEN h + n - (h + 1) + 1 ELSE 0
        /\ \A k \in 1 .. h + n - (h + 1) + 1 : s[k] = b[h + 1 + k - 1]
    BY <2>1, SubSeqProperties
  <2>3. h + n - (h + 1) + 1 = n
    OBVIOUS
  <2>. QED
    BY <2>2, <2>3
<1>2. q \in Seq(Cell) /\ Len(q) \in Nat
  BY SeqMonotonic DEF Cell
<1>. HIDE DEF s
<1>3. /\ s \o q \in Seq(Cell) /\ Len(s \o q) = n + Len(q)
      /\ \A k \in 1 .. n + Len(q) : (s \o q)[k] = IF k <= n THEN s[k] ELSE q[k - n]
  BY <1>1, <1>2, ConcatProperties
<1>4. /\ s \o q \in Seq(Cell) /\ Len(s \o q) = n + Len(q) /\ Len(q) \in Nat
      /\ \A k \in 1 .. n + Len(q) : (s \o q)[k] = IF k <= n THEN b[h + k] ELSE q[k - n]
  BY <1>1, <1>2, <1>3
<1>. QED
  BY <1>4 DEF s

LEMMA PendingIs ==
  ASSUME LineType, DataType
  PROVE  /\ Pending \in Seq(Cell) /\ Len(Pending) = i + Len(bytes) /\ Len(bytes) \in Nat
         /\ \A k \in 1 .. i + Len(bytes) :
               Pending[k] = IF k <= i THEN buf[Header + k] ELSE bytes[k - i]
<1>1. i \in Nat /\ Header + i <= Size /\ Header \in 0 .. 1
  BY SizesHold DEF DataType, Sizes
<1>. QED
  BY <1>1, CellsThenBytes DEF Pending, DataType

LEMMA PendingIsNext ==
  ASSUME LineType, DataType', link' = link
  PROVE  /\ Pending' \in Seq(Cell) /\ Len(Pending') = i' + Len(bytes') /\ Len(bytes') \in Nat
         /\ \A k \in 1 .. i' + Len(bytes') :
               Pending'[k] = IF k <= i' THEN buf'[Header + k] ELSE bytes'[k - i']
<1>1. Header' = Header /\ Capacity' = Capacity
  BY DEF Header, Capacity
<1>2. /\ i' \in Nat /\ Header + i' <= Size /\ Header \in 0 .. 1
      /\ buf' \in [1 .. Size -> Cell] /\ bytes' \in Seq(Byte)
  BY <1>1, SizesHold DEF DataType, Sizes
<1>3. Pending' = SubSeq(buf', Header + 1, Header + i') \o bytes'
  BY <1>1 DEF Pending
<1>. QED
  BY <1>2, <1>3, CellsThenBytes

(* What a reader of a frame takes for its content are its new bytes.       *)
LEMMA ContentIs ==
  ASSUME LineType, NEW f \in Frame, link = "rs" => f.cells[1].of = f.new
  PROVE  /\ Content(f) \in Seq(Cell) /\ Len(Content(f)) = f.new
         /\ \A k \in 1 .. f.new : Content(f)[k] = f.cells[Header + k]
<1>. USE SizesHold DEF Sizes
<1>1. f.new \in 1 .. Capacity /\ f.cells \in [1 .. Size -> Cell]
  BY DEF Frame
<1>2. Content(f) = SubSeq(f.cells, Header + 1, Header + f.new)
  BY DEF Content
<1>3. \A k \in Header + 1 .. Header + f.new : f.cells[k] \in Cell
  BY <1>1
<1>4. /\ Content(f) \in Seq(Cell)
      /\ Len(Content(f)) = IF Header + 1 <= Header + f.new THEN Header + f.new - (Header + 1) + 1 ELSE 0
      /\ \A k \in 1 .. Header + f.new - (Header + 1) + 1 : Content(f)[k] = f.cells[Header + 1 + k - 1]
  BY <1>1, <1>2, <1>3, SubSeqProperties
<1>5. Header + f.new - (Header + 1) + 1 = f.new
  BY <1>1
<1>. QED
  BY <1>1, <1>4, <1>5

LEMMA ContentsIs ==
  ASSUME LineType, DataType
  PROVE  /\ Contents \in Seq(Seq(Cell)) /\ Len(Contents) = Len(frames) /\ Len(frames) \in Nat
         /\ \A k \in 1 .. Len(frames) : Contents[k] = Content(frames[k])
<1>1. DOMAIN frames = 1 .. Len(frames) /\ Len(frames) \in Nat
      /\ \A k \in 1 .. Len(frames) : frames[k] \in Frame
  BY DEF DataType
<1>2. \A k \in 1 .. Len(frames) : Content(frames[k]) \in Seq(Cell)
  BY <1>1, ContentIs DEF DataType
<1>3. Contents \in [1 .. Len(frames) -> Seq(Cell)]
  BY <1>1, <1>2 DEF Contents
<1>. QED
  BY <1>1, <1>3 DEF Contents

LEMMA ContentsIsNext ==
  ASSUME LineType, DataType', link' = link
  PROVE  /\ Contents' \in Seq(Seq(Cell)) /\ Len(Contents') = Len(frames') /\ Len(frames') \in Nat
         /\ \A k \in 1 .. Len(frames') : Contents'[k] = Content(frames'[k])
<1>0. Frame' = Frame
  BY DEF Frame, Capacity, Header
<1>1. /\ DOMAIN frames' = 1 .. Len(frames') /\ Len(frames') \in Nat
      /\ \A k \in 1 .. Len(frames') : frames'[k] \in Frame
      /\ \A k \in 1 .. Len(frames') : link = "rs" => frames'[k].cells[1].of = frames'[k].new
  BY <1>0 DEF DataType
<1>2. \A k \in 1 .. Len(frames') : Content(frames'[k]) \in Seq(Cell)
  BY <1>1, ContentIs
<1>3. Contents' = [k \in 1 .. Len(frames') |-> Content(frames'[k])]
  BY <1>1 DEF Contents, Content, Header
<1>. QED
  BY <1>1, <1>2, <1>3

(* What the steps of the line do to what is pending and to the frames.     *)
Kept == Pending' = Pending /\ Contents' = Contents

ByteArrives ==
    /\ Len(bytes) < Size
    /\ Contents' = Contents
    /\ Pending' \in Seq(Cell) /\ Len(Pending') = Len(Pending) + 1
    /\ \A k \in 1 .. Len(Pending) : Pending'[k] = Pending[k]
    /\ Pending'[Len(Pending) + 1] = [message |-> message, at |-> sent + 1, of |-> length]

CutAt(n) ==
    /\ n \in 1 .. Capacity /\ n <= Len(Pending)
    /\ Pending' = SubSeq(Pending, n + 1, Len(Pending))
    /\ Contents' = IF Len(Contents) < FrameSlots THEN Append(Contents, SubSeq(Pending, 1, n))
                   ELSE Contents

LEMMA ArrivesIsArrive ==
  ASSUME LineType, DataType, ByteArrives
  PROVE  Stream!Arrive
<1>1. Pending \in Seq(Cell) /\ Len(Pending) \in Nat
  BY PendingIs
<1>2. \A k \in 1 .. Len(Pending) : Pending'[k] \in Cell
  BY <1>1 DEF ByteArrives
<1>3. /\ SubSeq(Pending', 1, Len(Pending)) \in Seq(Cell)
      /\ Len(SubSeq(Pending', 1, Len(Pending))) = Len(Pending)
      /\ \A k \in 1 .. Len(Pending) : SubSeq(Pending', 1, Len(Pending))[k] = Pending'[k]
  BY <1>1, <1>2, SubSeqProperties DEF ByteArrives
<1>4. SubSeq(Pending', 1, Len(Pending)) = Pending
  BY <1>1, <1>3, SeqEqual DEF ByteArrives
<1>. QED
  BY <1>4 DEF ByteArrives, Stream!Arrive

LEMMA CutIsCut ==
  ASSUME NEW n, CutAt(n)
  PROVE  Stream!Cut
<1>1. n \in 1 .. Size
  BY SizesHold DEF Sizes, CutAt
<1>. QED
  BY <1>1 DEF CutAt, Stream!Cut

(* A frame is cut from the front of what is pending.                       *)
LEMMA SendFrameCuts ==
  ASSUME LineType, DataType, LineType', DataType', link' = link,
         NEW b \in [1 .. Size -> Cell], NEW n \in 1 .. Capacity, SendFrame(b, n),
         n <= Len(Pending), \A k \in 1 .. n : b[Header + k] = Pending[k],
         Len(bytes') = Len(Pending) - n, \A k \in 1 .. Len(bytes') : bytes'[k] = Pending[n + k]
  PROVE  CutAt(n)
<1>. USE SizesHold DEF Sizes
<1>. DEFINE cells == IF link = "rs" THEN [b EXCEPT ![1] = HeaderCell(n)] ELSE b
            f == [cells |-> cells, new |-> n]
<1>0. Len(Pending) \in Nat /\ n \in Nat /\ n \in 1 .. Size /\ Pending \in Seq(Cell)
  BY PendingIs DEF DataType
<1>1. Pending' = SubSeq(Pending, n + 1, Len(Pending))
  <2>1. /\ Pending' \in Seq(Cell) /\ Len(Pending') = Len(bytes')
        /\ \A k \in 1 .. Len(bytes') : Pending'[k] = bytes'[k]
    <3>1. i' = 0 /\ Len(bytes') \in Nat
      BY PendingIsNext DEF SendFrame
    <3>2. /\ Pending' \in Seq(Cell) /\ Len(Pending') = 0 + Len(bytes')
          /\ \A k \in 1 .. 0 + Len(bytes') :
                Pending'[k] = IF k <= 0 THEN buf'[Header + k] ELSE bytes'[k - 0]
      BY <3>1, PendingIsNext
    <3>. QED
      BY <3>1, <3>2
  <2>. DEFINE t == SubSeq(Pending, n + 1, Len(Pending))
  <2>2. /\ t \in Seq(Cell)
        /\ Len(t) = IF n + 1 <= Len(Pending) THEN Len(Pending) - (n + 1) + 1 ELSE 0
        /\ \A k \in 1 .. Len(Pending) - (n + 1) + 1 : t[k] = Pending[n + 1 + k - 1]
    <3>1. \A k \in n + 1 .. Len(Pending) : Pending[k] \in Cell
      BY <1>0
    <3>. QED
      BY <1>0, <3>1, SubSeqProperties
  <2>3. Len(Pending) - (n + 1) + 1 = Len(Pending) - n
    BY <1>0
  <2>4. Len(t) = Len(Pending) - n /\ \A k \in 1 .. Len(Pending) - n : t[k] = Pending[n + k]
    BY <1>0, <2>2, <2>3
  <2>. HIDE DEF t
  <2>5. Pending' = t
    BY <2>1, <2>2, <2>4, SeqEqual
  <2>. QED
    BY <2>5 DEF t
<1>2. frames' = IF Len(frames) < FrameSlots THEN Append(frames, f) ELSE frames
  BY DEF SendFrame
<1>3. /\ cells \in [1 .. Size -> Cell] /\ (link = "rs" => cells[1].of = n)
      /\ \A k \in 1 .. n : cells[Header + k] = b[Header + k]
  BY <1>0, HeaderCellType
<1>4. f \in Frame /\ f.cells = cells /\ f.new = n
  BY <1>3 DEF Frame
<1>. HIDE DEF f, cells
<1>5. Content(f) = SubSeq(Pending, 1, n)
  <2>1. /\ Content(f) \in Seq(Cell) /\ Len(Content(f)) = n
        /\ \A k \in 1 .. n : Content(f)[k] = cells[Header + k]
    BY <1>3, <1>4, ContentIs
  <2>2. /\ SubSeq(Pending, 1, n) \in Seq(Cell) /\ Len(SubSeq(Pending, 1, n)) = n
        /\ \A k \in 1 .. n : SubSeq(Pending, 1, n)[k] = Pending[k]
    <3>1. \A k \in 1 .. n : Pending[k] \in Cell
      BY <1>0
    <3>. QED
      BY <1>0, <3>1, SubSeqProperties
  <2>. QED
    BY <1>3, <2>1, <2>2, SeqEqual
<1>6. /\ Contents \in Seq(Seq(Cell)) /\ Len(Contents) = Len(frames)
      /\ \A k \in 1 .. Len(frames) : Contents[k] = Content(frames[k])
  BY ContentsIs
<1>7. /\ Contents' \in Seq(Seq(Cell)) /\ Len(Contents') = Len(frames')
      /\ \A k \in 1 .. Len(frames') : Contents'[k] = Content(frames'[k])
  BY ContentsIsNext
<1>8. Contents' = IF Len(Contents) < FrameSlots THEN Append(Contents, SubSeq(Pending, 1, n))
                  ELSE Contents
  <2>1. CASE Len(frames) < FrameSlots
    <3>1. /\ frames' = Append(frames, f) /\ Len(frames') = Len(frames) + 1 /\ Len(frames) \in Nat
          /\ frames'[Len(frames) + 1] = f /\ \A k \in 1 .. Len(frames) : frames'[k] = frames[k]
      BY <1>2, <1>4, <2>1, AppendProperties DEF DataType
    <3>2. Content(f) \in Seq(Cell)
      BY <1>3, <1>4, ContentIs
    <3>3. /\ Append(Contents, Content(f)) \in Seq(Seq(Cell))
          /\ Len(Append(Contents, Content(f))) = Len(frames) + 1
          /\ Append(Contents, Content(f))[Len(frames) + 1] = Content(f)
          /\ \A k \in 1 .. Len(frames) : Append(Contents, Content(f))[k] = Contents[k]
      BY <1>6, <3>2, AppendProperties
    <3>4. \A k \in 1 .. Len(frames) + 1 : Contents'[k] = Append(Contents, Content(f))[k]
      BY <1>6, <1>7, <3>1, <3>3
    <3>5. Contents' = Append(Contents, Content(f))
      BY <1>7, <3>1, <3>3, <3>4, SeqEqual
    <3>. QED
      BY <1>5, <1>6, <2>1, <3>5
  <2>2. CASE ~(Len(frames) < FrameSlots)
    <3>1. frames' = frames
      BY <1>2, <2>2
    <3>2. Contents' = Contents
      BY <1>6, <1>7, <3>1, SeqEqual
    <3>. QED
      BY <1>6, <2>2, <3>2
  <2>. QED
    BY <2>1, <2>2
<1>. QED
  BY <1>0, <1>1, <1>8 DEF CutAt

LEMMA InitStream == Init => Stream!Init
<1>. SUFFICES ASSUME Init PROVE Stream!Init
  OBVIOUS
<1>1. LineType /\ DataType
  BY InitType
<1>2. i = 0 /\ Len(bytes) = 0 /\ Len(frames) = 0
  BY DEF Init
<1>3. Len(Pending) = 0 /\ Pending \in Seq(Cell)
  BY <1>1, <1>2, PendingIs
<1>4. Len(Contents) = 0 /\ Contents \in Seq(Seq(Cell))
  BY <1>1, <1>2, ContentsIs
<1>. QED
  BY <1>3, <1>4, EmptySeq DEF Stream!Init

LEMMA SameContents ==
  ASSUME LineType, DataType, DataType', link' = link, frames' = frames
  PROVE  Contents' = Contents
<1>. QED
  BY ContentsIs, ContentsIsNext, SeqEqual

LEMMA SamePending ==
  ASSUME LineType, DataType, link' = link, buf' = buf, i' = i, bytes' = bytes
  PROVE  Pending' = Pending
  BY DEF Pending, Header

LEMMA ArriveStep ==
  ASSUME LineType, DataType, LineType', DataType', link' = link, IRQHandler
  PROVE  ByteArrives \/ (Len(bytes) = Size /\ Kept)
<1>. USE SizesHold DEF Sizes
<1>1. /\ buf' = buf /\ i' = i /\ frames' = frames
      /\ [message |-> message, at |-> sent + 1, of |-> length] \in Byte
  BY DEF IRQHandler, receiver, LineType, Byte
<1>. DEFINE byte == [message |-> message, at |-> sent + 1, of |-> length]
<1>2. Contents' = Contents
  BY <1>1, SameContents
<1>3. CASE Len(bytes) < Size
  <2>1. bytes' = Append(bytes, byte)
    BY <1>3 DEF IRQHandler
  <2>2. /\ Len(bytes') = Len(bytes) + 1 /\ \A k \in 1 .. Len(bytes) : bytes'[k] = bytes[k]
        /\ bytes'[Len(bytes) + 1] = byte
    BY <1>1, <2>1, AppendProperties DEF DataType
  <2>3. /\ Len(Pending') = Len(Pending) + 1 /\ Len(Pending) \in Nat /\ Pending' \in Seq(Cell)
        /\ \A k \in 1 .. Len(Pending) : Pending'[k] = Pending[k]
        /\ Pending'[Len(Pending) + 1] = byte
    <3>1. i \in Nat /\ Len(Pending') = i + Len(bytes) + 1 /\ Len(Pending) = i + Len(bytes)
          /\ Len(bytes) \in Nat
      BY <1>1, <2>2, PendingIs, PendingIsNext DEF DataType
    <3>2. ASSUME NEW k \in 1 .. Len(Pending) PROVE Pending'[k] = Pending[k]
      <4>1. /\ Pending[k] = IF k <= i THEN buf[Header + k] ELSE bytes[k - i]
            /\ Pending'[k] = IF k <= i THEN buf[Header + k] ELSE bytes'[k - i]
        BY <1>1, <2>2, <3>1, PendingIs, PendingIsNext
      <4>2. k > i => k - i \in 1 .. Len(bytes)
        BY <3>1
      <4>. QED
        BY <2>2, <3>1, <4>1, <4>2
    <3>3. Pending'[Len(Pending) + 1] = byte
      <4>1. Len(Pending) + 1 \in 1 .. i + Len(bytes') /\ ~(Len(Pending) + 1 <= i)
            /\ Len(Pending) + 1 - i = Len(bytes) + 1
        BY <2>2, <3>1
      <4>2. PICK m \in 1 .. i' + Len(bytes') : m = Len(Pending) + 1
        BY <1>1, <4>1
      <4>3. Pending'[m] = IF m <= i' THEN buf'[Header + m] ELSE bytes'[m - i']
        BY <4>2, PendingIsNext
      <4>4. ~(m <= i') /\ m - i' = Len(bytes) + 1
        BY <1>1, <3>1, <4>1, <4>2
      <4>5. Pending'[m] = bytes'[Len(bytes) + 1]
        BY <4>3, <4>4
      <4>. QED
        BY <2>2, <4>2, <4>5
    <3>. QED
      BY <3>1, <3>2, <3>3, PendingIsNext
  <2>. QED
    BY <1>2, <1>3, <2>3 DEF ByteArrives
<1>4. CASE ~(Len(bytes) < Size)
  <2>1. bytes' = bytes
    BY <1>4 DEF IRQHandler
  <2>. QED
    BY <1>1, <1>2, <1>4, <2>1, SamePending DEF Kept, DataType
<1>. QED
  BY <1>3, <1>4

LEMMA CollectStep ==
  ASSUME LineType, DataType, LineType', DataType', link' = link, Collect
  PROVE  CutAt(Capacity) \/ Kept
<1>. USE SizesHold DEF Sizes
<1>. DEFINE b == [buf EXCEPT ![i + 1 + Header] = Head(bytes)]
<1>1. /\ Head(bytes) = bytes[1] /\ Head(bytes) \in Byte /\ bytes' = Tail(bytes)
      /\ Len(bytes) \in Nat \ {0} /\ Len(bytes') = Len(bytes) - 1
      /\ \A k \in 1 .. Len(bytes) - 1 : bytes'[k] = bytes[k + 1]
  BY HeadTailType DEF Collect, DataType
<1>2. /\ b \in [1 .. Size -> Cell] /\ b[Header + (i + 1)] = bytes[1]
      /\ \A k \in 1 .. i : b[Header + k] = buf[Header + k]
  BY <1>1 DEF DataType, Cell
<1>3. i + 1 \in 1 .. Capacity /\ i \in Nat
  BY DEF DataType
<1>4. IF i + 1 + Header = Size THEN SendFrame(b, i + 1)
      ELSE buf' = b /\ i' = i + 1 /\ UNCHANGED frames
  BY DEF Collect
<1>5. \A k \in 1 .. i + 1 : b[Header + k] = Pending[k]
  <2>1. ASSUME NEW k \in 1 .. i + 1 PROVE b[Header + k] = Pending[k]
    <3>1. Pending[k] = IF k <= i THEN buf[Header + k] ELSE bytes[k - i]
      BY <1>1, <1>3, PendingIs
    <3>2. CASE k <= i
      <4>1. k \in 1 .. i
        BY <1>3, <3>2
      <4>. QED
        BY <1>2, <3>1, <3>2, <4>1
    <3>3. CASE k > i
      <4>1. k = i + 1 /\ k - i = 1 /\ ~(k <= i)
        BY <1>3, <3>3
      <4>. QED
        BY <1>2, <3>1, <4>1
    <3>. QED
      BY <1>3, <3>2, <3>3
  <2>. QED
    BY <2>1
<1>6. /\ Len(Pending) = i + Len(bytes)
      /\ \A k \in 1 .. Len(bytes') : bytes'[k] = Pending[i + 1 + k]
  <2>1. ASSUME NEW k \in 1 .. Len(bytes') PROVE bytes'[k] = Pending[i + 1 + k]
    <3>1. i + 1 + k \in 1 .. i + Len(bytes) /\ bytes'[k] = bytes[k + 1]
      BY <1>1, <1>3
    <3>2. PICK m \in 1 .. i + Len(bytes) : m = i + 1 + k
      BY <3>1
    <3>3. Pending[m] = IF m <= i THEN buf[Header + m] ELSE bytes[m - i]
      BY <3>2, PendingIs
    <3>4. ~(m <= i) /\ m - i = k + 1
      BY <1>1, <1>3, <3>2
    <3>. QED
      BY <3>1, <3>2, <3>3, <3>4
  <2>. QED
    BY <2>1, PendingIs
<1>. HIDE DEF b
<1>7. CASE i + 1 + Header = Size
  <2>1. SendFrame(b, i + 1) /\ i + 1 <= Len(Pending) /\ Len(bytes') = Len(Pending) - (i + 1)
    BY <1>1, <1>3, <1>4, <1>6, <1>7
  <2>2. CutAt(i + 1)
    BY <1>2, <1>3, <1>5, <1>6, <2>1, SendFrameCuts
  <2>. QED
    BY <1>3, <1>7, <2>2
<1>8. CASE i + 1 + Header # Size
  <2>1. buf' = b /\ i' = i + 1 /\ frames' = frames
    BY <1>4, <1>8
  <2>2. Contents' = Contents
    BY <2>1, SameContents
  <2>3. Len(Pending') = Len(Pending) /\ Pending' \in Seq(Cell) /\ Pending \in Seq(Cell)
        /\ Len(Pending) \in Nat
    BY <1>1, <1>3, <1>6, <2>1, PendingIs, PendingIsNext
  <2>4. ASSUME NEW k \in 1 .. Len(Pending) PROVE Pending'[k] = Pending[k]
    <3>1. Pending'[k] = IF k <= i + 1 THEN b[Header + k] ELSE bytes'[k - (i + 1)]
      BY <1>1, <1>3, <1>6, <2>1, PendingIsNext
    <3>2. CASE k <= i + 1
      <4>1. k \in 1 .. i + 1
        BY <1>3, <2>3, <3>2
      <4>. QED
        BY <1>5, <3>1, <3>2, <4>1
    <3>3. CASE k > i + 1
      <4>1. /\ k - (i + 1) \in 1 .. Len(bytes') /\ i + 1 + (k - (i + 1)) = k
            /\ ~(k <= i + 1)
        BY <1>1, <1>3, <1>6, <2>3, <3>3
      <4>2. bytes'[k - (i + 1)] = Pending[i + 1 + (k - (i + 1))]
        BY <1>6, <4>1
      <4>. QED
        BY <3>1, <4>1, <4>2
    <3>. QED
      BY <1>3, <2>3, <3>2, <3>3
  <2>. QED
    BY <2>2, <2>3, <2>4, SeqEqual DEF Kept
<1>. QED
  BY <1>7, <1>8

(* The gap cuts everything that is pending.                                *)
LEMMA GapStep ==
  ASSUME LineType, DataType, LineType', DataType', link' = link, GapPassed
  PROVE  CutAt(Len(Pending)) \/ (i = 0 /\ Kept)
<1>. USE SizesHold DEF Sizes
<1>1. CASE i > 0
  <2>1. /\ SendFrame(buf, i) /\ bytes = <<>> /\ bytes' = <<>> /\ i \in 1 .. Capacity
        /\ buf \in [1 .. Size -> Cell] /\ i \in Nat
    BY <1>1 DEF GapPassed, DataType
  <2>2. Len(bytes) = 0 /\ Len(bytes') = 0
    BY <2>1
  <2>3. Len(Pending) = i /\ \A k \in 1 .. i : buf[Header + k] = Pending[k]
    BY <2>1, <2>2, PendingIs
  <2>4. CutAt(i)
    BY <2>1, <2>2, <2>3, SendFrameCuts
  <2>. QED
    BY <2>3, <2>4
<1>2. CASE ~(i > 0)
  BY <1>2, SameContents, SamePending DEF GapPassed, DataType, Kept
<1>. QED
  BY <1>1, <1>2

LEMMA FetchStep ==
  ASSUME LineType, DataType, LineType', DataType', link' = link, Fetch
  PROVE  Contents # <<>> /\ Contents' = Tail(Contents) /\ Pending' = Pending
<1>. USE SizesHold DEF Sizes
<1>1. /\ frames # <<>> /\ frames' = Tail(frames)
      /\ Len(frames) \in Nat \ {0} /\ Len(frames') = Len(frames) - 1
      /\ \A k \in 1 .. Len(frames) - 1 : frames'[k] = frames[k + 1]
  BY HeadTailType DEF Fetch, DataType
<1>2. /\ Contents \in Seq(Seq(Cell)) /\ Len(Contents) = Len(frames)
      /\ \A k \in 1 .. Len(frames) : Contents[k] = Content(frames[k])
  BY ContentsIs
<1>3. /\ Contents' \in Seq(Seq(Cell)) /\ Len(Contents') = Len(frames) - 1
      /\ \A k \in 1 .. Len(frames) - 1 : Contents'[k] = Content(frames'[k])
  BY <1>1, ContentsIsNext
<1>4. Contents # <<>>
  BY <1>1, <1>2
<1>5. /\ Tail(Contents) \in Seq(Seq(Cell)) /\ Len(Tail(Contents)) = Len(frames) - 1
      /\ \A k \in 1 .. Len(frames) - 1 : Tail(Contents)[k] = Contents[k + 1]
  BY <1>2, <1>4, HeadTailType
<1>6. \A k \in 1 .. Len(frames) - 1 : Contents'[k] = Tail(Contents)[k]
  <2>1. ASSUME NEW k \in 1 .. Len(frames) - 1 PROVE Contents'[k] = Tail(Contents)[k]
    <3>1. k + 1 \in 1 .. Len(frames)
      BY <1>1
    <3>2. Tail(Contents)[k] = Content(frames[k + 1])
      BY <1>2, <1>5, <3>1
    <3>. QED
      BY <1>1, <1>3, <3>2
  <2>. QED
    BY <2>1
<1>7. Contents' = Tail(Contents)
  BY <1>3, <1>5, <1>6, SeqEqual
<1>8. Pending' = Pending
  BY SamePending DEF Fetch, receiver
<1>. QED
  BY <1>4, <1>7, <1>8

LEMMA KeptStep ==
  ASSUME LineType, DataType, LineType', DataType', link' = link,
         (\E n \in 1 .. Size : Begin(n)) \/ Block \/ SysTick \/ UNCHANGED vars
  PROVE  Kept
  BY SameContents, SamePending DEF Begin, Block, SysTick, vars, receiver, Kept

(* Every step of the receiver is a step of the stream or changes neither   *)
(* what is pending nor the frames.                                         *)
LEMMA StreamStep ==
  ASSUME LineType, DataType, LineType', DataType', link' = link, [Next]_vars
  PROVE  Stream!Next \/ UNCHANGED <<Pending, Contents>>
<1>1. CASE (\E n \in 1 .. Size : Begin(n)) \/ Block \/ SysTick \/ UNCHANGED vars
  BY <1>1, KeptStep DEF Kept
<1>2. CASE IRQHandler
  <2>1. ByteArrives => Stream!Arrive
    BY ArrivesIsArrive
  <2>. QED
    BY <1>2, <2>1, ArriveStep DEF Kept, Stream!Next
<1>3. CASE Collect \/ GapPassed
  BY <1>3, CollectStep, GapStep, CutIsCut DEF Kept, Stream!Next
<1>4. CASE Fetch
  BY <1>4, FetchStep DEF Stream!Fetch, Stream!Next
<1>. QED
  BY <1>1, <1>2, <1>3, <1>4 DEF Next, Receiver

(* The receiver implements the stream of frames: no byte that found room   *)
(* is lost from a frame, doubled or moved to another, for any size of the  *)
(* buffer and however late the receiver runs (ble.c:195-221).              *)
THEOREM StreamTheorem == Spec => ImplementsStream
<1>1. LineType /\ DataType /\ [Next]_vars => (LineType /\ DataType)' /\ link' = link
  BY LineTyping, DataTyping
<1>2. LineType /\ DataType /\ (LineType /\ DataType)' /\ [Next]_vars /\ link' = link
      => [Stream!Next]_<<Pending, Contents>>
  BY StreamStep
<1>. QED
  BY InitType, InitStream, <1>1, <1>2, PTL DEF Spec, ImplementsStream, Stream!Spec

-----------------------------------------------------------------------------
(* The receiver's time.  A line that is not cut has been quiet no longer   *)
(* than the receiver was late before it waited, while it waited and after. *)
Clocked ==
    /\ bytes # <<>> \/ (rx = "run" /\ i > 0) => quiet <= late
    /\ rx = "wait" /\ bytes = <<>> => /\ waited <= quiet
                                      /\ waited < Gap => late = 0
                                      /\ i > 0 => quiet <= Late + waited + late
    /\ rx = "run" => waited = 0

LEMMA ClockedStep ==
  ASSUME LineType, DataType, DataType', Clocked, [Next]_vars
  PROVE  Clocked'
<1>. USE SizesHold DEF Sizes
<1>0. /\ Pause = Gap + 2 * Late + 1 /\ Pause' = Pause
      /\ quiet \in 0 .. Pause /\ late \in 0 .. Late /\ waited \in 0 .. Gap
      /\ rx \in {"run", "wait"} /\ i \in Nat
  BY DEF Pause, LineType, DataType
<1>1. CASE (\E n \in 1 .. Size : Begin(n)) \/ Fetch \/ UNCHANGED vars
  BY <1>1 DEF Begin, Fetch, vars, receiver, line, Clocked
<1>2. CASE IRQHandler
  <2>1. quiet' = 0 /\ late' = late /\ rx' = rx /\ waited' = waited /\ i' = i
    BY <1>2 DEF IRQHandler, receiver
  <2>2. bytes' # <<>>
    <3>1. CASE Len(bytes) < Size
      <4>. DEFINE byte == [message |-> message, at |-> sent + 1, of |-> length]
      <4>1. bytes' = Append(bytes, byte)
        BY <1>2, <3>1 DEF IRQHandler
      <4>2. byte \in Byte
        BY <1>2 DEF IRQHandler, LineType, Byte
      <4>. HIDE DEF byte
      <4>. QED
        BY <4>1, <4>2 DEF DataType
    <3>2. CASE ~(Len(bytes) < Size)
      BY <1>2, <3>2 DEF IRQHandler, DataType
    <3>. QED
      BY <3>1, <3>2
  <2>. QED
    BY <1>0, <2>1, <2>2 DEF Clocked
<1>3. CASE Collect
  <2>1. bytes # <<>> /\ rx' = "run" /\ waited' = 0 /\ late' = late /\ quiet' = quiet
    BY <1>3 DEF Collect, line
  <2>. QED
    BY <2>1 DEF Clocked
<1>4. CASE Block
  <2>1. /\ rx = "run" /\ bytes = <<>> /\ bytes' = <<>> /\ rx' = "wait" /\ late' = 0
        /\ i' = i /\ waited' = waited /\ quiet' = quiet
    BY <1>4 DEF Block, line
  <2>. QED
    BY <1>0, <2>1 DEF Clocked
<1>5. CASE GapPassed
  <2>1. /\ bytes = <<>> /\ bytes' = bytes /\ rx' = "run" /\ waited' = 0 /\ i' = 0
    BY <1>0, <1>5 DEF GapPassed, SendFrame
  <2>. QED
    BY <2>1 DEF Clocked
<1>6. CASE SysTick
  <2>1. bytes' = bytes /\ rx' = rx /\ i' = i
    BY <1>6 DEF SysTick
  <2>2. CASE Ready
    <3>1. late' = late + 1 /\ late < Late /\ quiet' \in quiet .. quiet + 1
      BY <1>0, <1>6, <2>2 DEF SysTick
    <3>2. rx = "run" => waited' = waited
      BY <1>6 DEF SysTick
    <3>3. rx = "wait" /\ bytes = <<>> => waited = Gap /\ waited' = Gap
      BY <1>0, <1>6, <2>2 DEF SysTick, Ready
    <3>4. bytes' # <<>> \/ (rx' = "run" /\ i' > 0) => quiet' <= late'
      BY <1>0, <2>1, <3>1 DEF Clocked
    <3>5. CASE rx = "wait" /\ bytes = <<>>
      <4>1. waited <= quiet /\ (i > 0 => quiet <= Late + waited + late)
        BY <3>5 DEF Clocked
      <4>2. waited' <= quiet' /\ waited' = Gap /\ (i > 0 => quiet' <= Late + waited' + late')
        BY <1>0, <3>1, <3>3, <3>5, <4>1
      <4>. QED
        BY <1>0, <2>1, <3>4, <3>5, <4>2 DEF Clocked
    <3>. QED
      BY <1>0, <2>1, <3>2, <3>4, <3>5 DEF Clocked
  <2>3. CASE ~Ready
    <3>1. /\ rx = "wait" /\ bytes = <<>> /\ waited < Gap
      BY <1>0, <2>3 DEF Ready
    <3>2. late' = 0 /\ waited' = waited + 1 /\ quiet' = (IF quiet < Pause THEN quiet + 1 ELSE quiet)
      BY <1>6, <2>3, <3>1 DEF SysTick
    <3>. QED
      BY <1>0, <2>1, <3>1, <3>2 DEF Clocked
  <2>. QED
    BY <2>2, <2>3
<1>. QED
  BY <1>1, <1>2, <1>3, <1>4, <1>5, <1>6 DEF Next, Receiver

(* A quiet line has nothing pending.                                       *)
LEMMA QuietIsEmpty ==
  ASSUME LineType, DataType, Clocked, quiet = Pause
  PROVE  i = 0 /\ bytes = <<>>
  BY SizesHold DEF Sizes, LineType, DataType, Clocked, Pause

(* While bytes wait for a cut the line has not been quiet for long.         *)
InTime == bytes # <<>> \/ i > 0 => quiet <= Gap + 2 * Late

(* A byte leaves the receiver in a frame before the line was quiet for     *)
(* longer than the gap and two turns of the receiver.                      *)
THEOREM PromptTheorem == Spec => []InTime
<1>1. Init => Clocked
  BY DEF Init, Clocked
<1>2. /\ LineType /\ DataType /\ Clocked /\ [Next]_vars
      => (LineType /\ DataType /\ Clocked)'
  BY LineTyping, DataTyping, ClockedStep
<1>3. LineType /\ DataType /\ Clocked => InTime
  BY SizesHold DEF Sizes, LineType, DataType, Clocked, InTime
<1>. QED
  BY InitType, <1>1, <1>2, <1>3, PTL DEF Spec

-----------------------------------------------------------------------------
(* Where the bytes of good messages lie in a sequence P of pending bytes,  *)
(* when n bytes of the peer's message m of length l are sent.  A frame is  *)
(* cut after Capacity bytes, and no more than two are pending.             *)
Starts == {1, Capacity + 1}

OfMessage(c, j) == [message |-> c.message, at |-> j, of |-> c.of]

(* The message of the byte at place k starts at place s, with a frame, and *)
(* is all there but for the bytes still to be sent.                        *)
StartsAt(P, k, s, m, l, n) ==
    /\ s <= k /\ k <= s + P[k].of - 1 /\ P[k].of \in 1 .. Capacity
    /\ \A j \in 1 .. P[k].of : s + j - 1 <= Len(P) => P[s + j - 1] = OfMessage(P[k], j)
    /\ \/ s + P[k].of - 1 <= Len(P)
       \/ P[k].message = m /\ P[k].of = l /\ n = Len(P) - s + 1

Placed(P, g, m, l, n) ==
    \A k \in 1 .. Len(P) :
        P[k].message \in g => \E s \in Starts : StartsAt(P, k, s, m, l, n)

(* What a reader asks of a frame.                                          *)
Whole(c, g) ==
    \A k \in DOMAIN c : c[k].message \in g =>
        \A j \in 1 .. c[k].of : j \in DOMAIN c /\ c[j] = OfMessage(c[k], j)

LEMMA LastOrBefore ==
  ASSUME NEW s \in Nat, NEW j \in Nat, NEW L \in Nat, s + j - 1 <= L + 1
  PROVE  s + j - 1 <= L \/ s + j - 1 = L + 1
  OBVIOUS

LEMMA ArrivePlaced ==
  ASSUME NEW P \in Seq(Cell), NEW Q \in Seq(Cell), NEW g, NEW m, NEW l \in Nat, NEW n \in Nat,
         n < l, Placed(P, g, m, l, n),
         Len(Q) = Len(P) + 1, Len(Q) <= 2 * Capacity,
         \A k \in 1 .. Len(P) : Q[k] = P[k],
         Q[Len(P) + 1] = [message |-> m, at |-> n + 1, of |-> l],
         m \in g => /\ l <= Capacity
                    /\ n = 0 => Len(P) \in {0, Capacity, 2 * Capacity}
                    /\ n > 0 => Len(P) > 0 /\ P[Len(P)] = [message |-> m, at |-> n, of |-> l]
  PROVE  Placed(Q, g, m, l, n + 1)
<1>. DEFINE L == Len(P)
            b == [message |-> m, at |-> n + 1, of |-> l]
<1>0. L \in Nat /\ Capacity \in Nat \ {0}
  BY SizesHold DEF Sizes
<1>1. ASSUME NEW k \in 1 .. L, P[k].message \in g PROVE \E s \in Starts : StartsAt(Q, k, s, m, l, n + 1)
  <2>1. Q[k] = P[k]
    OBVIOUS
  <2>2. PICK s \in Starts : StartsAt(P, k, s, m, l, n)
    BY <1>1 DEF Placed
  <2>3. s \in Nat \ {0} /\ P[k].of \in 1 .. Capacity
    BY <1>0, <2>2 DEF StartsAt, Starts
  <2>4. ASSUME NEW j \in 1 .. P[k].of, s + j - 1 <= L + 1 PROVE Q[s + j - 1] = OfMessage(P[k], j)
    <3>1. CASE s + j - 1 <= L
      <4>1. P[s + j - 1] = OfMessage(P[k], j) /\ s + j - 1 \in 1 .. L
        BY <2>2, <2>3, <3>1 DEF StartsAt
      <4>. QED
        BY <4>1
    <3>2. CASE s + j - 1 = L + 1
      <4>1. P[k].message = m /\ P[k].of = l /\ n = L - s + 1
        BY <1>0, <2>2, <2>3, <3>2 DEF StartsAt
      <4>2. j = n + 1
        BY <1>0, <2>3, <3>2, <4>1
      <4>. QED
        BY <3>2, <4>1, <4>2 DEF OfMessage
    <3>3. s + j - 1 <= L \/ s + j - 1 = L + 1
      <4>. HIDE DEF L
      <4>1. s \in Nat /\ j \in Nat /\ s + j - 1 <= L + 1
        BY <2>3, <2>4
      <4>. QED
        BY <1>0, <4>1, LastOrBefore
    <3>. QED
      BY <3>1, <3>2, <3>3
  <2>5. \/ s + P[k].of - 1 <= L + 1
        \/ P[k].message = m /\ P[k].of = l /\ n + 1 = L + 1 - s + 1
    BY <1>0, <2>2, <2>3 DEF StartsAt
  <2>6. s <= k /\ k <= s + P[k].of - 1
    BY <2>2 DEF StartsAt
  <2>. QED
    BY <2>1, <2>3, <2>4, <2>5, <2>6 DEF StartsAt
<1>2. ASSUME m \in g PROVE \E s \in Starts : StartsAt(Q, L + 1, s, m, l, n + 1)
  <2>0. Q[L + 1] = b /\ b.message = m /\ b.of = l /\ l \in 1 .. Capacity
    BY <1>0, <1>2
  <2>1. CASE n = 0
    <3>1. L + 1 \in Starts
      BY <1>0, <1>2, <2>1 DEF Starts
    <3>2. ASSUME NEW j \in 1 .. l, L + 1 + j - 1 <= L + 1 PROVE Q[L + 1 + j - 1] = OfMessage(b, j)
      <4>1. j = 1 /\ L + 1 + j - 1 = L + 1
        BY <1>0, <3>2
      <4>. QED
        BY <2>0, <2>1, <4>1 DEF OfMessage
    <3>3. n + 1 = L + 1 - (L + 1) + 1 /\ L + 1 <= L + 1 + l - 1
      BY <1>0, <2>0, <2>1
    <3>. QED
      BY <2>0, <3>1, <3>2, <3>3 DEF StartsAt
  <2>2. CASE n > 0
    <3>1. L \in 1 .. L /\ P[L] = [message |-> m, at |-> n, of |-> l]
      BY <1>0, <1>2, <2>2
    <3>2. PICK s \in Starts : StartsAt(P, L, s, m, l, n)
      BY <1>2, <3>1 DEF Placed
    <3>3. s \in Nat \ {0} /\ s <= L /\ L <= s + l - 1
      BY <1>0, <3>1, <3>2 DEF StartsAt, Starts
    <3>4. n = L - s + 1
      <4>1. L - s + 1 \in 1 .. l /\ s + (L - s + 1) - 1 = L
        BY <1>0, <3>3
      <4>2. P[s + (L - s + 1) - 1] = OfMessage(P[L], L - s + 1)
        BY <3>1, <3>2, <4>1 DEF StartsAt
      <4>. QED
        BY <3>1, <4>1, <4>2 DEF OfMessage
    <3>5. ASSUME NEW j \in 1 .. l, s + j - 1 <= L + 1 PROVE Q[s + j - 1] = OfMessage(b, j)
      <4>1. CASE s + j - 1 <= L
        <5>1. P[s + j - 1] = OfMessage(P[L], j) /\ s + j - 1 \in 1 .. L
          BY <3>1, <3>2, <3>3, <4>1 DEF StartsAt
        <5>. QED
          BY <3>1, <5>1 DEF OfMessage
      <4>2. CASE s + j - 1 = L + 1
        <5>1. j = n + 1
          BY <1>0, <3>3, <3>4, <4>2
        <5>. QED
          BY <2>0, <4>2, <5>1 DEF OfMessage
      <4>3. s + j - 1 <= L \/ s + j - 1 = L + 1
        <5>. HIDE DEF L
        <5>1. s \in Nat /\ j \in Nat /\ s + j - 1 <= L + 1
          BY <2>0, <3>3, <3>5
        <5>. QED
          BY <1>0, <5>1
      <4>. QED
        BY <4>1, <4>2, <4>3
    <3>6. n + 1 = L + 1 - s + 1 /\ s <= L + 1 /\ L + 1 <= s + l - 1
      BY <1>0, <3>3, <3>4
    <3>7. Len(Q) = L + 1
      OBVIOUS
    <3>8. /\ s <= L + 1 /\ L + 1 <= s + Q[L + 1].of - 1 /\ Q[L + 1].of \in 1 .. Capacity
          /\ \A j \in 1 .. Q[L + 1].of : s + j - 1 <= Len(Q) => Q[s + j - 1] = OfMessage(Q[L + 1], j)
          /\ Q[L + 1].message = m /\ Q[L + 1].of = l /\ n + 1 = Len(Q) - s + 1
      <4>. HIDE DEF L, b
      <4>1. Q[L + 1] = b /\ Q[L + 1].of = l /\ Q[L + 1].message = m
        BY <2>0
      <4>2. \A j \in 1 .. Q[L + 1].of : s + j - 1 <= Len(Q) => Q[s + j - 1] = OfMessage(Q[L + 1], j)
        BY <3>5, <3>7, <4>1
      <4>3. s <= L + 1 /\ L + 1 <= s + Q[L + 1].of - 1
        BY <3>6, <4>1
      <4>4. Q[L + 1].of \in 1 .. Capacity
        BY <2>0, <4>1
      <4>5. n + 1 = Len(Q) - s + 1
        BY <1>0, <3>3, <3>6, <3>7
      <4>. QED
        BY <4>1, <4>2, <4>3, <4>4, <4>5
    <3>. QED
      BY <3>2, <3>8 DEF StartsAt
  <2>. QED
    BY <2>1, <2>2
<1>3. ASSUME NEW k \in 1 .. L + 1, Q[k].message \in g
      PROVE  \E s \in Starts : StartsAt(Q, k, s, m, l, n + 1)
  <2>1. CASE k = L + 1
    BY <1>2, <1>3, <2>1
  <2>2. CASE k # L + 1
    <3>1. k \in 1 .. L /\ Q[k] = P[k]
      BY <1>0, <2>2
    <3>. QED
      BY <1>1, <1>3, <3>1
  <2>. QED
    BY <2>1, <2>2
<1>. QED
  BY <1>3 DEF Placed

(* A full frame takes whole messages: what starts behind it starts the next*)
(* one.                                                                    *)
LEMMA CutPlaced ==
  ASSUME NEW P \in Seq(Cell), NEW Q \in Seq(Cell), NEW g, NEW m, NEW l \in Nat, NEW n \in Nat,
         Placed(P, g, m, l, n), Capacity <= Len(P), Len(Q) = Len(P) - Capacity,
         \A k \in 1 .. Len(Q) : Q[k] = P[Capacity + k]
  PROVE  Placed(Q, g, m, l, n)
<1>. DEFINE L == Len(P)
<1>0. L \in Nat /\ Capacity \in Nat \ {0}
  BY SizesHold DEF Sizes
<1>1. ASSUME NEW k \in 1 .. Len(Q), Q[k].message \in g PROVE StartsAt(Q, k, 1, m, l, n)
  <2>1. Capacity + k \in 1 .. L /\ Q[k] = P[Capacity + k]
    BY <1>0
  <2>2. PICK s \in Starts : StartsAt(P, Capacity + k, s, m, l, n)
    BY <1>1, <2>1 DEF Placed
  <2>3. s = Capacity + 1 /\ Q[k].of \in 1 .. Capacity /\ k <= Q[k].of
    BY <1>0, <2>1, <2>2 DEF StartsAt, Starts
  <2>4. ASSUME NEW j \in 1 .. Q[k].of, 1 + j - 1 <= Len(Q) PROVE Q[1 + j - 1] = OfMessage(Q[k], j)
    <3>1. s + j - 1 <= L /\ s + j - 1 = Capacity + j /\ j \in 1 .. Len(Q) /\ 1 + j - 1 = j
      BY <1>0, <2>3, <2>4
    <3>2. P[s + j - 1] = OfMessage(P[Capacity + k], j)
      BY <2>1, <2>2, <3>1 DEF StartsAt
    <3>. QED
      BY <2>1, <3>1, <3>2
  <2>5. \/ 1 + Q[k].of - 1 <= Len(Q)
        \/ Q[k].message = m /\ Q[k].of = l /\ n = Len(Q) - 1 + 1
    BY <1>0, <2>1, <2>2, <2>3 DEF StartsAt
  <2>. QED
    BY <1>0, <2>3, <2>4, <2>5 DEF StartsAt
<1>. QED
  BY <1>1 DEF Placed, Starts

(* A frame that is full, or that is cut off while no good message is under *)
(* way, takes good messages whole.                                         *)
LEMMA CutWhole ==
  ASSUME NEW P \in Seq(Cell), NEW g, NEW m, NEW l \in Nat, NEW n \in Nat, NEW c \in 1 .. Capacity,
         Placed(P, g, m, l, n), c <= Len(P),
         c = Capacity \/ (c = Len(P) /\ ~(m \in g /\ 0 < n /\ n < l))
  PROVE  Whole(SubSeq(P, 1, c), g)
<1>. DEFINE S == SubSeq(P, 1, c)
<1>0. Len(P) \in Nat /\ Capacity \in Nat \ {0}
  BY SizesHold DEF Sizes
<1>1. S \in Seq(Cell) /\ Len(S) = c /\ \A k \in 1 .. c : S[k] = P[k]
  <2>1. \A k \in 1 .. c : P[k] \in Cell
    BY <1>0
  <2>. QED
    BY <1>0, <2>1, SubSeqProperties
<1>. HIDE DEF S
<1>2. ASSUME NEW k \in 1 .. c, P[k].message \in g, NEW j \in 1 .. P[k].of
      PROVE  j \in 1 .. c /\ P[j] = OfMessage(P[k], j)
  <2>1. PICK s \in Starts : StartsAt(P, k, s, m, l, n)
    BY <1>0, <1>2 DEF Placed
  <2>2. s = 1 /\ P[k].of \in 1 .. Capacity /\ k <= P[k].of
    BY <1>0, <2>1 DEF StartsAt, Starts
  <2>3. P[k].of <= c
    BY <1>0, <1>2, <2>1, <2>2 DEF StartsAt
  <2>4. s + j - 1 = j /\ j \in 1 .. c /\ j <= Len(P)
    BY <1>0, <2>2, <2>3
  <2>. QED
    BY <2>1, <2>4 DEF StartsAt
<1>3. ASSUME NEW k \in 1 .. c, S[k].message \in g, NEW j \in 1 .. S[k].of
      PROVE  j \in 1 .. c /\ S[j] = OfMessage(S[k], j)
  BY <1>1, <1>2, <1>3
<1>4. DOMAIN S = 1 .. c
  BY <1>1
<1>. QED
  BY <1>3, <1>4 DEF Whole, S

LEMMA PlacedWithout ==
  ASSUME NEW P \in Seq(Cell), NEW g, NEW h, NEW m, NEW l \in Nat, NEW n \in Nat,
         NEW m2, NEW l2, NEW n2,
         Placed(P, g, m, l, n), m \notin h \/ n = l,
         \A k \in 1 .. Len(P) : P[k].message \in h => P[k].message \in g
  PROVE  Placed(P, h, m2, l2, n2)
<1>. USE SizesHold DEF Sizes
<1>1. ASSUME NEW k \in 1 .. Len(P), P[k].message \in h
      PROVE  \E s \in Starts : StartsAt(P, k, s, m2, l2, n2)
  <2>1. PICK s \in Starts : StartsAt(P, k, s, m, l, n)
    BY <1>1 DEF Placed
  <2>2. s + P[k].of - 1 <= Len(P)
    <3>1. CASE P[k].message = m /\ P[k].of = l /\ n = Len(P) - s + 1
      <4>1. n = l /\ s \in Nat /\ Len(P) \in Nat
        BY <1>1, <3>1 DEF Starts
      <4>2. s + l - 1 = Len(P)
        BY <3>1, <4>1
      <4>. QED
        BY <3>1, <4>2
    <3>. QED
      BY <2>1, <3>1 DEF StartsAt
  <2>3. StartsAt(P, k, s, m2, l2, n2)
    BY <2>1, <2>2 DEF StartsAt
  <2>. QED
    BY <2>3
<1>. QED
  BY <1>1 DEF Placed

(* Which messages have been sent so far.                                   *)
Numbers(P, m) == \A k \in 1 .. Len(P) : P[k].message \in 1 .. m

AllNumbers(C, m) == \A n \in 1 .. Len(C) : Numbers(C[n], m)
AllWhole(C, g) == \A n \in 1 .. Len(C) : Whole(C[n], g)

LEMMA WholeWithin ==
  ASSUME NEW C \in Seq(Seq(Cell)), NEW g, NEW h, NEW m, AllWhole(C, g), AllNumbers(C, m),
         h \cap (1 .. m) \subseteq g
  PROVE  AllWhole(C, h)
<1>1. ASSUME NEW n \in 1 .. Len(C) PROVE Whole(C[n], h)
  <2>1. Whole(C[n], g) /\ Numbers(C[n], m) /\ C[n] \in Seq(Cell)
    BY DEF AllWhole, AllNumbers
  <2>2. DOMAIN C[n] = 1 .. Len(C[n])
    BY <2>1
  <2>. QED
    BY <2>1, <2>2 DEF Whole, Numbers
<1>. QED
  BY <1>1 DEF AllWhole

LEMMA NumbersWithin ==
  ASSUME NEW C \in Seq(Seq(Cell)), NEW P \in Seq(Cell), NEW m \in Nat,
         AllNumbers(C, m), Numbers(P, m)
  PROVE  AllNumbers(C, m + 1) /\ Numbers(P, m + 1)
<1>1. \A x \in 1 .. m : x \in 1 .. m + 1
  OBVIOUS
<1>. QED
  BY <1>1 DEF AllNumbers, Numbers

LEMMA CutFrames ==
  ASSUME NEW C \in Seq(Seq(Cell)), NEW f \in Seq(Cell), NEW g, NEW m,
         AllWhole(C, g), AllNumbers(C, m), Whole(f, g), Numbers(f, m)
  PROVE  AllWhole(Append(C, f), g) /\ AllNumbers(Append(C, f), m)
<1>1. /\ Append(C, f) \in Seq(Seq(Cell)) /\ Len(Append(C, f)) = Len(C) + 1 /\ Len(C) \in Nat
      /\ Append(C, f)[Len(C) + 1] = f /\ \A k \in 1 .. Len(C) : Append(C, f)[k] = C[k]
  BY AppendProperties
<1>2. ASSUME NEW n \in 1 .. Len(C) + 1
      PROVE  Whole(Append(C, f)[n], g) /\ Numbers(Append(C, f)[n], m)
  <2>1. CASE n = Len(C) + 1
    BY <1>1, <2>1
  <2>2. CASE n # Len(C) + 1
    <3>1. n \in 1 .. Len(C)
      BY <1>1, <2>2
    <3>. QED
      BY <1>1, <3>1 DEF AllWhole, AllNumbers
  <2>. QED
    BY <2>1, <2>2
<1>. QED
  BY <1>1, <1>2 DEF AllWhole, AllNumbers

-----------------------------------------------------------------------------
(* A good message under way fits a frame, its last byte is the last one    *)
(* pending, and the line has not been quiet for a gap; one that has not    *)
(* begun will start with a frame.                                          *)
Current(P, g, m, l, n, q) ==
    m \in g => /\ l <= Capacity
               /\ n = 0 => Len(P) \in {0, Capacity, 2 * Capacity}
               /\ n > 0 /\ Len(P) > 0 => P[Len(P)] = [message |-> m, at |-> n, of |-> l]
               /\ n > 0 /\ n < l => Len(P) > 0 /\ q < Gap

InPlace(P, C, g, m, l, n, q) ==
    /\ g \subseteq 1 .. m
    /\ Numbers(P, m) /\ AllNumbers(C, m)
    /\ Placed(P, g, m, l, n) /\ Current(P, g, m, l, n, q)
    /\ AllWhole(C, g)

MessagesInPlace == InPlace(Pending, Contents, good, message, length, sent, quiet)

LEMMA InPlaceNext ==
  ASSUME link' = link,
         InPlace(Pending', Contents', good', message', length', sent', quiet')
  PROVE  MessagesInPlace'
<1>1. Capacity' = Capacity
  BY DEF Capacity, Header
<1>2. Placed(Pending, good, message, length, sent)'
      <=> Placed(Pending', good', message', length', sent')
  BY <1>1 DEF Placed, StartsAt, Starts, OfMessage
<1>3. Current(Pending, good, message, length, sent, quiet)'
      <=> Current(Pending', good', message', length', sent', quiet')
  BY <1>1 DEF Current
<1>4. AllNumbers(Contents, message)' <=> AllNumbers(Contents', message')
  BY DEF AllNumbers, Numbers
<1>5. Numbers(Pending, message)' <=> Numbers(Pending', message')
  BY DEF Numbers
<1>6. AllWhole(Contents, good)' <=> AllWhole(Contents', good')
  BY DEF AllWhole, Whole, OfMessage
<1>. QED
  BY <1>2, <1>3, <1>4, <1>5, <1>6 DEF MessagesInPlace, InPlace

LEMMA NumbersArrive ==
  ASSUME NEW P \in Seq(Cell), NEW Q \in Seq(Cell), NEW m, Numbers(P, m), Len(Q) = Len(P) + 1,
         \A k \in 1 .. Len(P) : Q[k] = P[k], Q[Len(P) + 1].message \in 1 .. m
  PROVE  Numbers(Q, m)
<1>1. ASSUME NEW k \in 1 .. Len(P) + 1 PROVE Q[k].message \in 1 .. m
  <2>1. CASE k = Len(P) + 1
    BY <2>1
  <2>2. CASE k # Len(P) + 1
    <3>1. k \in 1 .. Len(P)
      BY <2>2
    <3>. QED
      BY <3>1 DEF Numbers
  <2>. QED
    BY <2>1, <2>2
<1>. QED
  BY <1>1 DEF Numbers

LEMMA FrontIs ==
  ASSUME NEW P \in Seq(Cell), NEW n \in 1 .. Len(P)
  PROVE  /\ SubSeq(P, 1, n) \in Seq(Cell) /\ Len(SubSeq(P, 1, n)) = n
         /\ \A k \in 1 .. n : SubSeq(P, 1, n)[k] = P[k]
<1>1. \A k \in 1 .. n : P[k] \in Cell
  OBVIOUS
<1>. QED
  BY <1>1, SubSeqProperties

Placing ==
    /\ LineType /\ DataType /\ LineType' /\ DataType' /\ link' = link
    /\ Clocked /\ MessagesInPlace

LEMMA PlacingFacts ==
  ASSUME Placing
  PROVE  /\ Pending \in Seq(Cell) /\ Len(Pending) \in Nat /\ Contents \in Seq(Seq(Cell))
         /\ Len(Pending) = i + Len(bytes) /\ Len(bytes) \in Nat /\ i \in 0 .. Capacity - 1
         /\ Capacity \in Nat \ {0} /\ Size \in Nat /\ Size <= Capacity + 1
         /\ message \in Nat /\ length \in Nat /\ sent \in 0 .. length /\ quiet \in 0 .. Pause
         /\ InPlace(Pending, Contents, good, message, length, sent, quiet)
         /\ Pause = Gap + 2 * Late + 1 /\ Gap \in Nat \ {0} /\ Late \in Nat
<1>1. LineType /\ DataType /\ MessagesInPlace
  BY DEF Placing
<1>2. Pending \in Seq(Cell) /\ Len(Pending) = i + Len(bytes) /\ Contents \in Seq(Seq(Cell))
  BY <1>1, PendingIs, ContentsIs
<1>3. Len(bytes) \in Nat /\ i \in 0 .. Capacity - 1
  BY <1>1 DEF DataType
<1>4. /\ Capacity \in Nat \ {0} /\ Size \in Nat /\ Size <= Capacity + 1
      /\ Pause = Gap + 2 * Late + 1 /\ Gap \in Nat \ {0} /\ Late \in Nat
  BY SizesHold DEF Sizes, Pause
<1>5. message \in Nat /\ length \in Nat /\ sent \in 0 .. length /\ quiet \in 0 .. Pause
  BY <1>1, SizesHold DEF Sizes, LineType
<1>. QED
  BY <1>1, <1>2, <1>3, <1>4, <1>5 DEF MessagesInPlace

LEMMA IRQInPlace ==
  ASSUME Placing, IRQHandler
  PROVE  MessagesInPlace'
<1>0. /\ sent < length /\ sent' = sent + 1 /\ quiet' = 0 /\ length' = length /\ message' = message
      /\ good' = IF Len(bytes) < Size THEN good ELSE good \ {message}
  BY DEF IRQHandler
<1>p. /\ Pending \in Seq(Cell) /\ Len(Pending) \in Nat /\ Contents \in Seq(Seq(Cell))
      /\ Len(Pending) = i + Len(bytes) /\ Len(bytes) \in Nat /\ i \in 0 .. Capacity - 1
      /\ Capacity \in Nat \ {0} /\ Size \in Nat /\ Size <= Capacity + 1
      /\ message \in Nat /\ length \in Nat /\ sent \in 0 .. length /\ quiet \in 0 .. Pause
      /\ InPlace(Pending, Contents, good, message, length, sent, quiet)
      /\ Pause = Gap + 2 * Late + 1 /\ Gap \in Nat \ {0} /\ Late \in Nat
  BY PlacingFacts
<1>. USE <1>p
<1>1. CASE ByteArrives
  <2>1. /\ Len(bytes) < Size /\ Contents' = Contents /\ Pending' \in Seq(Cell)
        /\ Len(Pending') = Len(Pending) + 1
        /\ \A k \in 1 .. Len(Pending) : Pending'[k] = Pending[k]
        /\ Pending'[Len(Pending) + 1] = [message |-> message, at |-> sent + 1, of |-> length]
    BY <1>1 DEF ByteArrives
  <2>2. good' = good
    BY <1>0, <2>1
  <2>3. message \in good => /\ length <= Capacity
                            /\ sent = 0 => Len(Pending) \in {0, Capacity, 2 * Capacity}
                            /\ sent > 0 => /\ Len(Pending) > 0
                                           /\ Pending[Len(Pending)] = [message |-> message, at |-> sent, of |-> length]
    BY <1>0 DEF InPlace, Current
  <2>4. Placed(Pending, good, message, length, sent) /\ sent \in Nat /\ Len(Pending') <= 2 * Capacity
    BY <2>1 DEF InPlace
  <2>5. Placed(Pending', good, message, length, sent + 1)
    BY <1>0, <2>1, <2>3, <2>4, ArrivePlaced
  <2>6. Current(Pending', good, message, length, sent + 1, 0)
    <3>1. message \in good => length <= Capacity
      BY <2>3
    <3>2. Len(Pending') > 0 /\ sent + 1 > 0 /\ sent + 1 # 0 /\ 0 < Gap
      BY <2>1
    <3>3. Pending'[Len(Pending')] = [message |-> message, at |-> sent + 1, of |-> length]
      BY <2>1
    <3>. QED
      BY ONLY <3>1, <3>2, <3>3 DEF Current
  <2>7. message > 0
    BY <1>0 DEF Placing, LineType
  <2>8. Numbers(Pending', message)
    <3>1. Numbers(Pending, message) /\ Pending'[Len(Pending) + 1].message \in 1 .. message
      BY <2>1, <2>7 DEF InPlace
    <3>. QED
      BY <2>1, <3>1, NumbersArrive
  <2>. QED
    BY <1>0, <2>1, <2>2, <2>5, <2>6, <2>8, InPlaceNext DEF InPlace, Placing
<1>2. CASE Len(bytes) = Size /\ Kept
  <2>1. good' = good \ {message} /\ Pending' = Pending /\ Contents' = Contents
    BY <1>0, <1>2 DEF Kept
  <2>2. Placed(Pending, good', message, length, sent + 1)
    <3>1. Placed(Pending, good, message, length, sent) /\ sent \in Nat
      BY DEF InPlace
    <3>2. message \notin good' /\ \A x : x \in good' => x \in good
      BY <2>1
    <3>. QED
      BY <3>1, <3>2, PlacedWithout
  <2>3. AllWhole(Contents, good')
    <3>1. good' \cap (1 .. message) \subseteq good
      BY <2>1
    <3>. QED
      BY <3>1, WholeWithin DEF InPlace
  <2>4. Current(Pending, good', message, length, sent + 1, 0)
    BY <2>1 DEF Current
  <2>. QED
    BY <1>0, <2>1, <2>2, <2>3, <2>4, InPlaceNext DEF InPlace, Placing
<1>. QED
  BY <1>1, <1>2, ArriveStep DEF Placing

(* The line does not notice the receiver's steps.                          *)
LEMMA LineInPlace ==
  ASSUME Placing, UNCHANGED line, Kept
  PROVE  MessagesInPlace'
  BY PlacingFacts, InPlaceNext DEF Placing, Kept, line

LEMMA CutInPlace ==
  ASSUME Placing, UNCHANGED line, NEW n, CutAt(n),
         n = Capacity \/ (n = Len(Pending) /\ n < Capacity /\ quiet >= Gap)
  PROVE  MessagesInPlace'
<1>p. /\ Pending \in Seq(Cell) /\ Len(Pending) \in Nat /\ Contents \in Seq(Seq(Cell))
      /\ Len(Pending) = i + Len(bytes) /\ Len(bytes) \in Nat /\ i \in 0 .. Capacity - 1
      /\ Capacity \in Nat \ {0} /\ Size \in Nat /\ Size <= Capacity + 1
      /\ message \in Nat /\ length \in Nat /\ sent \in 0 .. length /\ quiet \in 0 .. Pause
      /\ InPlace(Pending, Contents, good, message, length, sent, quiet)
      /\ Pause = Gap + 2 * Late + 1 /\ Gap \in Nat \ {0} /\ Late \in Nat
  BY PlacingFacts
<1>. USE <1>p
<1>0. /\ n \in 1 .. Capacity /\ n <= Len(Pending)
      /\ Pending' = SubSeq(Pending, n + 1, Len(Pending))
      /\ Contents' = IF Len(Contents) < FrameSlots THEN Append(Contents, SubSeq(Pending, 1, n))
                     ELSE Contents
      /\ message' = message /\ length' = length /\ sent' = sent /\ quiet' = quiet /\ good' = good
  BY DEF CutAt, line
<1>1. /\ good \subseteq 1 .. message /\ Numbers(Pending, message) /\ AllNumbers(Contents, message)
      /\ Placed(Pending, good, message, length, sent) /\ AllWhole(Contents, good)
      /\ Current(Pending, good, message, length, sent, quiet) /\ sent \in Nat
  BY DEF InPlace
<1>. DEFINE R == SubSeq(Pending, n + 1, Len(Pending))
            F == SubSeq(Pending, 1, n)
<1>2. /\ R \in Seq(Cell) /\ Len(R) = Len(Pending) - n
      /\ \A k \in 1 .. Len(R) : R[k] = Pending[n + k]
  <2>1. \A k \in n + 1 .. Len(Pending) : Pending[k] \in Cell
    BY <1>0
  <2>2. /\ R \in Seq(Cell)
        /\ Len(R) = IF n + 1 <= Len(Pending) THEN Len(Pending) - (n + 1) + 1 ELSE 0
        /\ \A k \in 1 .. Len(Pending) - (n + 1) + 1 : R[k] = Pending[n + 1 + k - 1]
    BY <1>0, <2>1, SubSeqProperties
  <2>. HIDE DEF R
  <2>3. Len(R) = Len(Pending) - n /\ Len(Pending) - (n + 1) + 1 = Len(Pending) - n
    BY <1>0, <2>2
  <2>. QED
    BY <1>0, <2>2, <2>3
<1>3. /\ F \in Seq(Cell) /\ Len(F) = n /\ \A k \in 1 .. n : F[k] = Pending[k]
  <2>1. n \in 1 .. Len(Pending)
    BY <1>0
  <2>. HIDE DEF F
  <2>2. F = SubSeq(Pending, 1, n)
    BY DEF F
  <2>. QED
    BY <2>1, <2>2, FrontIs
<1>4. Whole(F, good)
  <2>1. n = Capacity \/ (n = Len(Pending) /\ ~(message \in good /\ 0 < sent /\ sent < length))
    BY <1>1 DEF Current
  <2>. QED
    BY <1>0, <1>1, <2>1, CutWhole
<1>. HIDE DEF R, F
<1>5. Numbers(F, message) /\ Numbers(R, message)
  <2>1. \A k \in 1 .. Len(R) : n + k \in 1 .. Len(Pending)
    BY <1>0, <1>2
  <2>2. \A k \in 1 .. Len(F) : k \in 1 .. Len(Pending)
    BY <1>0, <1>3
  <2>. QED
    BY <1>0, <1>1, <1>2, <1>3, <2>1, <2>2 DEF Numbers
<1>6. AllWhole(Contents', good) /\ AllNumbers(Contents', message)
  <2>1. AllWhole(Append(Contents, F), good) /\ AllNumbers(Append(Contents, F), message)
    BY <1>1, <1>3, <1>4, <1>5, CutFrames
  <2>. QED
    BY <1>0, <1>1, <2>1 DEF F
<1>7. CASE n = Capacity
  <2>1. Placed(R, good, message, length, sent)
    BY <1>0, <1>1, <1>2, <1>7, CutPlaced
  <2>2. Current(R, good, message, length, sent, quiet)
    <3>. SUFFICES ASSUME message \in good
                  PROVE  /\ length <= Capacity
                         /\ sent = 0 => Len(R) \in {0, Capacity, 2 * Capacity}
                         /\ sent > 0 /\ Len(R) > 0 => R[Len(R)] = [message |-> message, at |-> sent, of |-> length]
                         /\ sent > 0 /\ sent < length => Len(R) > 0 /\ quiet < Gap
      BY DEF Current
    <3>1. /\ length <= Capacity
          /\ sent = 0 => Len(Pending) \in {0, Capacity, 2 * Capacity}
          /\ sent > 0 => Pending[Len(Pending)] = [message |-> message, at |-> sent, of |-> length]
          /\ sent > 0 /\ sent < length => quiet < Gap
      BY <1>0, <1>1 DEF Current
    <3>2. sent = 0 => Len(R) \in {0, Capacity, 2 * Capacity}
      BY <1>0, <1>2, <1>7, <3>1
    <3>3. ASSUME Len(R) > 0 PROVE R[Len(R)] = Pending[Len(Pending)]
      <4>1. Len(R) \in 1 .. Len(R) /\ n + Len(R) = Len(Pending)
        BY <1>0, <1>2, <3>3
      <4>. QED
        BY <1>2, <4>1
    <3>4. ASSUME sent > 0, sent < length, Len(Pending) = Capacity PROVE FALSE
      <4>1. Len(Pending) \in 1 .. Len(Pending) /\ Pending[Len(Pending)].message \in good
        BY <1>0, <3>1, <3>4
      <4>2. PICK s \in Starts : StartsAt(Pending, Len(Pending), s, message, length, sent)
        BY <1>1, <4>1 DEF Placed
      <4>3. s = 1
        BY <3>4, <4>2 DEF StartsAt, Starts
      <4>4. Pending[Len(Pending)].of = length /\ Pending[Len(Pending)].at = sent
        BY <3>1, <3>4
      <4>5. PICK j \in 1 .. length : j = Len(Pending)
        BY <3>4, <4>2, <4>3, <4>4 DEF StartsAt
      <4>6. s + j - 1 = Len(Pending) /\ s + j - 1 <= Len(Pending)
        BY <4>3, <4>5
      <4>7. Pending[Len(Pending)] = OfMessage(Pending[Len(Pending)], j)
        BY <4>2, <4>4, <4>6 DEF StartsAt
      <4>8. sent = Len(Pending)
        BY <4>4, <4>5, <4>7 DEF OfMessage
      <4>. QED
        BY <3>1, <3>4, <4>8
    <3>5. sent > 0 /\ sent < length => Len(R) > 0
      BY <1>0, <1>2, <1>7, <3>4
    <3>. QED
      BY <3>1, <3>2, <3>3, <3>5
  <2>. QED
    BY <1>0, <1>1, <1>5, <1>6, <2>1, <2>2, InPlaceNext DEF R, InPlace, Placing
<1>8. CASE n = Len(Pending) /\ n < Capacity /\ quiet >= Gap
  <2>1. Len(R) = 0
    BY <1>0, <1>2, <1>8
  <2>2. Placed(R, good, message, length, sent)
    BY <2>1 DEF Placed
  <2>3. Current(R, good, message, length, sent, quiet)
    BY <1>0, <1>1, <1>8, <2>1 DEF Current
  <2>. QED
    BY <1>0, <1>1, <1>5, <1>6, <2>2, <2>3, InPlaceNext DEF R, InPlace, Placing
<1>. QED
  BY <1>7, <1>8

LEMMA ReceiverInPlace ==
  ASSUME Placing, Receiver
  PROVE  MessagesInPlace'
<1>p. /\ Pending \in Seq(Cell) /\ Len(Pending) \in Nat /\ Contents \in Seq(Seq(Cell))
      /\ Len(Pending) = i + Len(bytes) /\ Len(bytes) \in Nat /\ i \in 0 .. Capacity - 1
      /\ Capacity \in Nat \ {0} /\ Size \in Nat /\ Size <= Capacity + 1
      /\ message \in Nat /\ length \in Nat /\ sent \in 0 .. length /\ quiet \in 0 .. Pause
      /\ InPlace(Pending, Contents, good, message, length, sent, quiet)
      /\ Pause = Gap + 2 * Late + 1 /\ Gap \in Nat \ {0} /\ Late \in Nat
  BY PlacingFacts
<1>. USE <1>p
<1>1. CASE Collect
  <2>1. UNCHANGED line
    BY <1>1 DEF Collect
  <2>2. CutAt(Capacity) => MessagesInPlace'
    BY <2>1, CutInPlace
  <2>3. Kept => MessagesInPlace'
    BY <2>1, LineInPlace
  <2>. QED
    BY <1>1, <2>2, <2>3, CollectStep DEF Placing
<1>2. CASE Block
  <2>1. UNCHANGED line
    BY <1>2 DEF Block
  <2>. QED
    BY <1>2, <2>1, KeptStep, LineInPlace DEF Placing
<1>3. CASE GapPassed
  <2>1. UNCHANGED line /\ rx = "wait" /\ bytes = <<>> /\ waited = Gap
    BY <1>3 DEF GapPassed
  <2>2. quiet >= Gap /\ Len(Pending) < Capacity
    BY <2>1 DEF Placing, Clocked
  <2>3. CutAt(Len(Pending)) => MessagesInPlace'
    BY <2>1, <2>2, CutInPlace
  <2>4. Kept => MessagesInPlace'
    BY <2>1, LineInPlace
  <2>. QED
    BY <1>3, <2>3, <2>4, GapStep DEF Placing
<1>. QED
  BY <1>1, <1>2, <1>3 DEF Receiver

LEMMA FetchInPlace ==
  ASSUME Placing, Fetch
  PROVE  MessagesInPlace'
<1>p. /\ Pending \in Seq(Cell) /\ Len(Pending) \in Nat /\ Contents \in Seq(Seq(Cell))
      /\ Len(Pending) = i + Len(bytes) /\ Len(bytes) \in Nat /\ i \in 0 .. Capacity - 1
      /\ Capacity \in Nat \ {0} /\ Size \in Nat /\ Size <= Capacity + 1
      /\ message \in Nat /\ length \in Nat /\ sent \in 0 .. length /\ quiet \in 0 .. Pause
      /\ InPlace(Pending, Contents, good, message, length, sent, quiet)
      /\ Pause = Gap + 2 * Late + 1 /\ Gap \in Nat \ {0} /\ Late \in Nat
  BY PlacingFacts
<1>. USE <1>p
<1>1. /\ Contents # <<>> /\ Contents' = Tail(Contents) /\ Pending' = Pending
  BY FetchStep DEF Placing
<1>2. /\ message' = message /\ length' = length /\ sent' = sent /\ quiet' = quiet /\ good' = good
  BY DEF Fetch, line
<1>3. /\ Len(Contents') = Len(Contents) - 1 /\ Len(Contents) \in Nat \ {0}
      /\ \A k \in 1 .. Len(Contents) - 1 : Contents'[k] = Contents[k + 1]
  BY <1>1, HeadTailType
<1>4. AllWhole(Contents', good) /\ AllNumbers(Contents', message)
  <2>1. ASSUME NEW k \in 1 .. Len(Contents')
        PROVE  Whole(Contents'[k], good) /\ Numbers(Contents'[k], message)
    <3>1. k + 1 \in 1 .. Len(Contents) /\ Contents'[k] = Contents[k + 1]
      BY <1>3
    <3>. QED
      BY <3>1 DEF InPlace, AllWhole, AllNumbers
  <2>. QED
    BY <2>1 DEF AllWhole, AllNumbers
<1>. QED
  BY <1>1, <1>2, <1>4, InPlaceNext DEF InPlace, Placing

(* A message begins with a frame: on a line that is quiet nothing is       *)
(* pending, and behind a message that filled its frame another begins.     *)
LEMMA BeginInPlace ==
  ASSUME Placing, NEW z \in 1 .. Size, Begin(z)
  PROVE  MessagesInPlace'
<1>p. /\ Pending \in Seq(Cell) /\ Len(Pending) \in Nat /\ Contents \in Seq(Seq(Cell))
      /\ Len(Pending) = i + Len(bytes) /\ Len(bytes) \in Nat /\ i \in 0 .. Capacity - 1
      /\ Capacity \in Nat \ {0} /\ Size \in Nat /\ Size <= Capacity + 1
      /\ message \in Nat /\ length \in Nat /\ sent \in 0 .. length /\ quiet \in 0 .. Pause
      /\ InPlace(Pending, Contents, good, message, length, sent, quiet)
      /\ Pause = Gap + 2 * Late + 1 /\ Gap \in Nat \ {0} /\ Late \in Nat
  BY PlacingFacts
<1>. USE <1>p
<1>0. /\ sent = length /\ message' = message + 1 /\ length' = z /\ sent' = 0 /\ quiet' = quiet
      /\ good' = IF /\ z <= Capacity
                    /\ quiet = Pause \/ (length = Capacity /\ message \in good /\ quiet < Gap)
                 THEN good \cup {message + 1} ELSE good
  BY DEF Begin
<1>1. Pending' = Pending /\ Contents' = Contents
  BY KeptStep DEF Placing, Kept
<1>2. /\ good \subseteq 1 .. message /\ Numbers(Pending, message) /\ AllNumbers(Contents, message)
      /\ Placed(Pending, good, message, length, sent) /\ AllWhole(Contents, good)
      /\ Current(Pending, good, message, length, sent, quiet) /\ sent \in Nat
  BY DEF InPlace
<1>3. good' \cap (1 .. message) \subseteq good /\ good' \subseteq 1 .. message + 1
  <2>1. good \subseteq good' /\ good' \subseteq good \cup {message + 1}
    BY <1>0
  <2>2. 1 .. message \subseteq 1 .. message + 1 /\ message + 1 \in 1 .. message + 1
        /\ message + 1 \notin 1 .. message
    OBVIOUS
  <2>. QED
    BY <1>2, <2>1, <2>2
<1>4. AllNumbers(Contents, message + 1) /\ Numbers(Pending, message + 1)
  BY <1>2, NumbersWithin
<1>5. AllWhole(Contents, good')
  BY <1>2, <1>3, WholeWithin
<1>6. Placed(Pending, good', message + 1, z, 0)
  <2>1. \A k \in 1 .. Len(Pending) : Pending[k].message \in good' => Pending[k].message \in good
    BY <1>2, <1>3 DEF Numbers
  <2>. QED
    BY <1>0, <1>2, <2>1, PlacedWithout
<1>7. Current(Pending, good', message + 1, z, 0, quiet)
  <2>. SUFFICES ASSUME message + 1 \in good'
                PROVE  z <= Capacity /\ Len(Pending) \in {0, Capacity, 2 * Capacity}
    BY DEF Current
  <2>1. /\ z <= Capacity
        /\ quiet = Pause \/ (length = Capacity /\ message \in good /\ quiet < Gap)
    <3>1. message + 1 \notin good
      BY <1>2
    <3>. QED
      BY <1>0, <3>1
  <2>2. CASE quiet = Pause
    <3>1. i = 0 /\ bytes = <<>>
      BY <2>2, QuietIsEmpty DEF Placing
    <3>2. Len(Pending) = 0
      BY <3>1
    <3>. QED
      BY <2>1, <3>2
  <2>3. CASE length = Capacity /\ message \in good /\ Len(Pending) > 0
    <3>1. /\ sent = Capacity
          /\ Pending[Len(Pending)] = [message |-> message, at |-> sent, of |-> length]
      BY <1>0, <1>2, <2>3 DEF Current
    <3>2. Len(Pending) \in 1 .. Len(Pending) /\ Pending[Len(Pending)].message \in good
      BY <2>3, <3>1
    <3>3. PICK s \in Starts : StartsAt(Pending, Len(Pending), s, message, length, sent)
      BY <1>2, <3>2 DEF Placed
    <3>4. /\ s \in Nat \ {0} /\ s <= Len(Pending) /\ Len(Pending) <= s + length - 1
          /\ Pending[Len(Pending)].of = length /\ Pending[Len(Pending)].at = sent
      BY <3>1, <3>3 DEF StartsAt, Starts
    <3>5. PICK j \in 1 .. length : j = Len(Pending) - s + 1
      BY <3>4
    <3>6. s + j - 1 = Len(Pending) /\ s + j - 1 <= Len(Pending)
      BY <3>4, <3>5
    <3>7. Pending[Len(Pending)] = OfMessage(Pending[Len(Pending)], j)
      BY <3>3, <3>4, <3>6 DEF StartsAt
    <3>8. j = Capacity
      BY <3>1, <3>4, <3>7 DEF OfMessage
    <3>9. Len(Pending) = s + Capacity - 1
      BY <3>4, <3>5, <3>8
    <3>10. s = 1 \/ s = Capacity + 1
      BY DEF Starts
    <3>11. Len(Pending) = Capacity \/ Len(Pending) = 2 * Capacity
      <4>1. 1 + Capacity - 1 = Capacity /\ Capacity + 1 + Capacity - 1 = 2 * Capacity
        OBVIOUS
      <4>. QED
        BY <3>9, <3>10, <4>1
    <3>. QED
      BY <2>1, <3>11
  <2>4. CASE Len(Pending) = 0
    BY <2>1, <2>4
  <2>. QED
    BY <2>1, <2>2, <2>3, <2>4
<1>. QED
  BY <1>0, <1>1, <1>3, <1>4, <1>5, <1>6, <1>7, InPlaceNext DEF InPlace, Placing

(* A gap in the middle of a message and it is no longer a good one.        *)
LEMMA TickInPlace ==
  ASSUME Placing, SysTick
  PROVE  MessagesInPlace'
<1>p. /\ Pending \in Seq(Cell) /\ Len(Pending) \in Nat /\ Contents \in Seq(Seq(Cell))
      /\ Len(Pending) = i + Len(bytes) /\ Len(bytes) \in Nat /\ i \in 0 .. Capacity - 1
      /\ Capacity \in Nat \ {0} /\ Size \in Nat /\ Size <= Capacity + 1
      /\ message \in Nat /\ length \in Nat /\ sent \in 0 .. length /\ quiet \in 0 .. Pause
      /\ InPlace(Pending, Contents, good, message, length, sent, quiet)
      /\ Pause = Gap + 2 * Late + 1 /\ Gap \in Nat \ {0} /\ Late \in Nat
  BY PlacingFacts
<1>. USE <1>p
<1>0. /\ message' = message /\ length' = length /\ sent' = sent
      /\ quiet' = IF quiet < Pause THEN quiet + 1 ELSE quiet
      /\ good' = IF sent \in 1 .. length - 1 /\ quiet + 1 >= Gap THEN good \ {message} ELSE good
  BY DEF SysTick
<1>1. Pending' = Pending /\ Contents' = Contents
  BY KeptStep DEF Placing, Kept
<1>2. /\ good \subseteq 1 .. message /\ Numbers(Pending, message) /\ AllNumbers(Contents, message)
      /\ Placed(Pending, good, message, length, sent) /\ AllWhole(Contents, good)
      /\ Current(Pending, good, message, length, sent, quiet) /\ sent \in Nat
  BY DEF InPlace
<1>3. CASE good' = good
  <2>1. Current(Pending, good, message, length, sent, quiet')
    <3>1. message \in good /\ sent > 0 /\ sent < length => quiet' < Gap
      <4>1. CASE quiet + 1 >= Gap
        BY <1>0, <1>3, <4>1
      <4>2. CASE quiet + 1 < Gap
        BY <1>0, <4>2
      <4>. QED
        BY <4>1, <4>2
    <3>. QED
      BY <1>2, <3>1 DEF Current
  <2>. QED
    BY <1>0, <1>1, <1>2, <1>3, <2>1, InPlaceNext DEF InPlace, Placing
<1>4. CASE good' = good \ {message}
  <2>1. Placed(Pending, good', message, length, sent)
    <3>1. message \notin good' /\ \A x : x \in good' => x \in good
      BY ONLY <1>4
    <3>2. Pending \in Seq(Cell) /\ length \in Nat /\ sent \in Nat
      BY <1>2
    <3>. QED
      BY ONLY <1>2, <3>1, <3>2, PlacedWithout
  <2>2. AllWhole(Contents, good')
    <3>1. good' \cap (1 .. message) \subseteq good
      BY ONLY <1>4
    <3>2. Contents \in Seq(Seq(Cell))
      OBVIOUS
    <3>. QED
      BY ONLY <1>2, <3>1, <3>2, WholeWithin
  <2>3. Current(Pending, good', message, length, sent, quiet')
    BY ONLY <1>4 DEF Current
  <2>. QED
    BY <1>0, <1>1, <1>2, <1>4, <2>1, <2>2, <2>3, InPlaceNext DEF InPlace, Placing
<1>. QED
  BY <1>0, <1>3, <1>4

LEMMA InPlaceStep ==
  ASSUME Placing, [Next]_vars
  PROVE  MessagesInPlace'
<1>1. CASE UNCHANGED vars
  <2>1. UNCHANGED line /\ Kept
    BY <1>1, KeptStep DEF vars, line, Placing
  <2>. QED
    BY <2>1, LineInPlace
<1>. QED
  BY <1>1, BeginInPlace, IRQInPlace, ReceiverInPlace, FetchInPlace, TickInPlace DEF Next

LEMMA InitInPlace == Init => MessagesInPlace
<1>. SUFFICES ASSUME Init PROVE MessagesInPlace
  OBVIOUS
<1>1. i = 0 /\ Len(bytes) = 0 /\ Len(frames) = 0 /\ good = {}
  BY DEF Init
<1>2. Len(Pending) = 0 /\ Len(Contents) = 0
  BY <1>1, InitType, PendingIs, ContentsIs
<1>. QED
  BY <1>1, <1>2
     DEF MessagesInPlace, InPlace, Numbers, AllNumbers, Placed, Current, AllWhole

(* A message sent as it should be is whole in its frame and at the front of*)
(* it, for any size of the buffer, any gap and any lateness of the receiver*)
(* (ble.c:195-221, rs485.c:28-54).                                         *)
THEOREM WholeTheorem == Spec => []GoodMessageWhole
<1>. DEFINE Inv == LineType /\ DataType /\ Clocked /\ MessagesInPlace
<1>1. Init => Inv
  BY InitType, InitInPlace DEF Init, Clocked
<1>2. Inv /\ [Next]_vars => Inv'
  <2>1. SUFFICES ASSUME Inv, [Next]_vars PROVE Inv'
    OBVIOUS
  <2>2. LineType' /\ DataType' /\ link' = link
    BY <2>1, LineTyping, DataTyping
  <2>3. Clocked'
    BY <2>1, <2>2, ClockedStep
  <2>4. Placing
    BY <2>1, <2>2 DEF Placing
  <2>5. MessagesInPlace'
    BY <2>1, <2>4, InPlaceStep
  <2>. QED
    BY <2>2, <2>3, <2>5
<1>3. Inv => GoodMessageWhole
  <2>. SUFFICES ASSUME Inv PROVE GoodMessageWhole
    OBVIOUS
  <2>1. /\ Len(Contents) = Len(frames) /\ AllWhole(Contents, good)
        /\ \A k \in 1 .. Len(frames) : Contents[k] = Content(frames[k])
    BY ContentsIs DEF MessagesInPlace, InPlace
  <2>2. DOMAIN frames = 1 .. Len(frames)
    BY DEF DataType
  <2>3. \A k \in DOMAIN frames : Whole(Content(frames[k]), good)
    BY <2>1, <2>2 DEF AllWhole
  <2>. QED
    BY <2>3 DEF GoodMessageWhole, Whole, OfMessage
<1>. QED
  BY <1>1, <1>2, <1>3, PTL DEF Spec
=============================================================================
