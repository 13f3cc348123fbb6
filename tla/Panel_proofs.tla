---------------------------- MODULE Panel_proofs -----------------------------
(***************************************************************************)
(* Proofs about Panel for queues of any length, any relay masks, and a LED *)
(* task that runs as late as it may.                                       *)
(***************************************************************************)
EXTENDS Panel, TLAPS

(* What the watchdog must leave to the longest way from one feeding to the *)
(* next: the white start, a press, a connection.                           *)
Margin ==
    /\ 1000 + 100 + 2 * Late < WdtTicks
    /\ 5 + 500 + 500 + 3 * Late < WdtTicks
    /\ 5 + 50 + 50 + 50 + 500 + 5 * Late < WdtTicks

-----------------------------------------------------------------------------
LEMMA PutType ==
  ASSUME NEW S, NEW q \in Seq(S), NEW v \in S, NEW slots \in Nat, Len(q) <= slots
  PROVE  Put(q, v, slots) \in Seq(S) /\ Len(Put(q, v, slots)) <= slots
<1>1. CASE Len(q) < slots
  BY <1>1 DEF Put
<1>2. CASE ~(Len(q) < slots)
  BY <1>2 DEF Put
<1>. QED
  BY <1>1, <1>2

LEMMA HeadTailType ==
  ASSUME NEW S, NEW q \in Seq(S), q # <<>>
  PROVE  /\ Head(q) \in S /\ Tail(q) \in Seq(S)
         /\ Len(Tail(q)) = Len(q) - 1
  OBVIOUS

LEMMA StateTypes == Permanent \subseteq States /\ "PRESS" \in States
  BY DEF States

LEMMA PassType ==
  ASSUME Late \in Nat, since \in Nat, NEW ticks \in Nat, NEW n \in Nat, Pass(ticks, n)
  PROVE  since' \in Nat /\ since' <= since + ticks + n * Late
<1>1. n * Late \in Nat
  OBVIOUS
<1>. QED
  BY <1>1 DEF Pass

LEMMA ShowPasses ==
  ASSUME Show
  PROVE  Pass(550, 2) \/ Pass(650, 4) \/ Pass(200, 2)
<1>1. CASE state = "IDLE"
  BY <1>1 DEF Show
<1>2. CASE state = "CONNECTED"
  BY <1>2 DEF Show
<1>3. CASE state = "ERASE"
  BY <1>3 DEF Show
<1>. QED
  BY <1>1, <1>2, <1>3 DEF Show, Permanent

(* The LED task goes back to a permanent state.                            *)
LedType ==
    /\ led_state \in Seq(States) /\ Len(led_state) <= LedSlots
    /\ step \in {"start", "feed", "receive", "show"}
    /\ state \in States /\ back \in Permanent /\ since \in Nat
    /\ wanted \in Permanent /\ lost \in BOOLEAN

FobType ==
    /\ keyfob_cmd \in Seq(Masks) /\ Len(keyfob_cmd) <= KeySlots
    /\ phase \in {"wait", "powered", "held", "released"} /\ cmd \in Masks \cup {None}
    /\ power \in BOOLEAN /\ relays \subseteq 3 .. 6

LEMMA LedTyping ==
  ASSUME LedType, [Next]_vars
  PROVE  LedType'
<1>. USE DEF LedType
<1>0. Late \in Nat /\ LedSlots \in Nat /\ "PRESS" \in States /\ Permanent \subseteq States
  BY PanelAssumption DEF States
<1>1. ASSUME NEW s \in Permanent, led_set_state(s) PROVE LedType'
  BY <1>0, <1>1, PutType DEF led_set_state
<1>2. ASSUME NEW mask \in Masks, Press(mask) PROVE LedType'
  BY <1>0, <1>2, PutType DEF Press
<1>3. CASE WhiteStart
  <2>1. since' \in Nat
    BY <1>0, <1>3, PassType DEF WhiteStart
  <2>. QED
    BY <1>3, <2>1 DEF WhiteStart
<1>4. CASE Feed
  BY <1>4 DEF Feed
<1>5. CASE Receive
  <2>1. since' \in Nat
    BY <1>0, <1>5, PassType DEF Receive
  <2>2. CASE led_state # <<>>
    <3>1. state' = Head(led_state) /\ led_state' = Tail(led_state) /\ step' = "show"
      BY <1>5, <2>2 DEF Receive
    <3>2. Head(led_state) \in States /\ Tail(led_state) \in Seq(States)
          /\ Len(Tail(led_state)) = Len(led_state) - 1
      BY <2>2, HeadTailType
    <3>. QED
      BY <1>0, <1>5, <2>1, <3>1, <3>2 DEF Receive
  <2>3. CASE led_state = <<>>
    BY <1>5, <2>1, <2>3 DEF Receive
  <2>. QED
    BY <2>2, <2>3
<1>6. CASE Show
  <2>1. since' \in Nat
    BY <1>0, <1>6, ShowPasses, PassType
  <2>. QED
    BY <1>6, <2>1 DEF Show
<1>7. CASE ShowPress
  <2>1. since' \in Nat
    BY <1>0, <1>7, PassType DEF ShowPress
  <2>. QED
    BY <1>0, <1>7, <2>1 DEF ShowPress
<1>8. CASE Keyfob
  BY <1>8 DEF Keyfob, Take, Close, Open, PowerOff, led
<1>9. CASE UNCHANGED vars
  BY <1>9 DEF vars, led
<1>. QED
  BY <1>1, <1>2, <1>3, <1>4, <1>5, <1>6, <1>7, <1>8, <1>9 DEF Next, Led

LEMMA FobTyping ==
  ASSUME FobType, [Next]_vars
  PROVE  FobType'
<1>. USE DEF FobType
<1>0. KeySlots \in Nat /\ \A n \in 0 .. 3 : Relay(n) \in 3 .. 6
  BY PanelAssumption DEF Relay
<1>1. ASSUME NEW s \in Permanent, led_set_state(s) PROVE FobType'
  BY <1>1 DEF led_set_state, fob
<1>2. ASSUME NEW mask \in Masks, Press(mask) PROVE FobType'
  BY <1>0, <1>2, PutType DEF Press
<1>3. CASE Led
  <2>1. UNCHANGED fob
    BY <1>3 DEF Led, WhiteStart, Feed, Receive, Show, ShowPress
  <2>. QED
    BY <2>1 DEF fob
<1>4. CASE Take
  <2>1. Head(keyfob_cmd) \in Masks /\ Tail(keyfob_cmd) \in Seq(Masks)
        /\ Len(Tail(keyfob_cmd)) = Len(keyfob_cmd) - 1
    BY <1>4, HeadTailType DEF Take
  <2>. QED
    BY <1>0, <1>4, <2>1 DEF Take
<1>5. CASE Close
  BY <1>0, <1>5 DEF Close
<1>6. CASE Open
  BY <1>6 DEF Open
<1>7. CASE PowerOff
  BY <1>7 DEF PowerOff
<1>8. CASE UNCHANGED vars
  BY <1>8 DEF vars, fob
<1>. QED
  BY <1>1, <1>2, <1>3, <1>4, <1>5, <1>6, <1>7, <1>8 DEF Next, Keyfob

LEMMA InitType == Init => LedType /\ FobType
<1>. SUFFICES ASSUME Init PROVE LedType /\ FobType
  OBVIOUS
<1>1. LedSlots \in Nat /\ KeySlots \in Nat
  BY PanelAssumption
<1>2. <<>> \in Seq(States) /\ <<>> \in Seq(Masks) /\ Len(<<>>) = 0
  OBVIOUS
<1>3. led_state \in Seq(States) /\ Len(led_state) <= LedSlots
      /\ keyfob_cmd \in Seq(Masks) /\ Len(keyfob_cmd) <= KeySlots
  BY <1>1, <1>2 DEF Init
<1>4. LedType
  BY <1>3, StateTypes DEF Init, LedType, Permanent
<1>5. FobType
  BY <1>3 DEF Init, FobType
<1>. QED
  BY <1>4, <1>5

(* Both queues stay within their bounds and the tasks in their states, for *)
(* any lengths, masks and times.                                           *)
THEOREM TypeTheorem == Spec => []TypeOK
<1>1. LedType /\ FobType /\ [Next]_vars => (LedType /\ FobType)'
  BY LedTyping, FobTyping
<1>2. LedType /\ FobType => TypeOK
  BY DEF LedType, FobType, TypeOK
<1>. QED
  BY InitType, <1>1, <1>2, PTL DEF Spec

-----------------------------------------------------------------------------
(* How long the watchdog has waited at each place of the loop.             *)
Waited ==
    /\ step \in {"start", "receive"} => since = 0
    /\ step = "show" => since <= 5 + Late
    /\ step = "feed" => since < WdtTicks

LEMMA WaitedKept ==
  ASSUME Margin, LedType, Waited, [Next]_vars
  PROVE  Waited'
<1>. USE DEF Waited
<1>0. Late \in Nat /\ WdtTicks \in Nat /\ since \in Nat
  BY PanelAssumption DEF LedType
<1>1. CASE (\E s \in Permanent : led_set_state(s)) \/ (\E mask \in Masks : Press(mask)) \/ Keyfob
  BY <1>1 DEF led_set_state, Press, Keyfob, Take, Close, Open, PowerOff, led
<1>2. CASE WhiteStart
  BY <1>0, <1>2, PassType DEF WhiteStart, Margin
<1>3. CASE Feed
  BY <1>3 DEF Feed
<1>4. CASE Receive
  <2>1. since' <= 5 + Late
    BY <1>0, <1>4, PassType DEF Receive
  <2>. QED
    BY <1>4, <2>1 DEF Receive
<1>5. CASE Show
  <2>1. since <= 5 + Late
    BY <1>5 DEF Show
  <2>2. since' <= since + 550 + 2 * Late \/ since' <= since + 650 + 4 * Late
        \/ since' <= since + 200 + 2 * Late
    BY <1>0, <1>5, ShowPasses, PassType
  <2>3. since' \in Nat
    BY <1>0, <1>5, ShowPasses, PassType
  <2>4. since' < WdtTicks
    BY <1>0, <2>1, <2>2, <2>3 DEF Margin
  <2>. QED
    BY <1>5, <2>4 DEF Show
<1>6. CASE ShowPress
  <2>1. Pass(1000, 2) /\ since <= 5 + Late
    BY <1>6 DEF ShowPress
  <2>. QED
    BY <1>0, <1>6, <2>1, PassType DEF ShowPress, Margin
<1>7. CASE UNCHANGED vars
  BY <1>7 DEF vars, led
<1>. QED
  BY <1>1, <1>2, <1>3, <1>4, <1>5, <1>6, <1>7 DEF Next, Led

(* The watchdog is fed before its time is over for every margin that the   *)
(* longest way between two feedings leaves, whatever is sent to the LED.   *)
THEOREM WatchdogTheorem == Margin /\ Spec => []FedInTime
<1>. SUFFICES ASSUME Margin PROVE Spec => []FedInTime
  OBVIOUS
<1>1. Init => LedType /\ Waited
  BY InitType DEF Init, Waited
<1>2. LedType /\ Waited /\ [Next]_vars => (LedType /\ Waited)'
  BY LedTyping, WaitedKept
<1>3. LedType /\ Waited => FedInTime
  BY PanelAssumption DEF LedType, Waited, FedInTime, Margin
<1>. QED
  BY <1>1, <1>2, <1>3, PTL DEF Spec

-----------------------------------------------------------------------------
(* The outputs at each phase of a press.                                   *)
Wired ==
    /\ power <=> phase # "wait"
    /\ relays # {} => phase = "held"

LEMMA RelayBits == {Relay(n) : n \in 0 .. 3} = 3 .. 6
<1>1. ASSUME NEW b \in 3 .. 6 PROVE b \in {Relay(n) : n \in 0 .. 3}
  <2>1. 6 - b \in 0 .. 3 /\ b = Relay(6 - b)
    BY DEF Relay
  <2>. QED
    BY <2>1
<1>. QED
  BY <1>1 DEF Relay

LEMMA WiredKept ==
  ASSUME FobType, Wired, [Next]_vars
  PROVE  Wired'
<1>. USE DEF FobType, Wired
<1>1. CASE (\E s \in Permanent : led_set_state(s)) \/ (\E mask \in Masks : Press(mask)) \/ Led
  <2>1. UNCHANGED <<phase, power, relays>>
    BY <1>1 DEF led_set_state, Press, Led, WhiteStart, Feed, Receive, Show, ShowPress, fob
  <2>. QED
    BY <2>1
<1>2. CASE Take
  BY <1>2 DEF Take
<1>3. CASE Close
  BY <1>3 DEF Close
<1>4. CASE Open
  BY <1>4, RelayBits DEF Open
<1>5. CASE PowerOff
  BY <1>5 DEF PowerOff
<1>6. CASE UNCHANGED vars
  BY <1>6 DEF vars, fob
<1>. QED
  BY <1>1, <1>2, <1>3, <1>4, <1>5, <1>6 DEF Next, Keyfob

(* Relays switch only under power and are closed only while a press is     *)
(* held, for every relay mask.                                             *)
THEOREM RelayTheorem == Spec => RelaysUnderPower
<1>1. Init => FobType /\ Wired
  BY InitType DEF Init, Wired
<1>2. FobType /\ Wired /\ [Next]_vars => (FobType /\ Wired)'
  BY FobTyping, WiredKept
<1>3. FobType /\ Wired /\ (FobType /\ Wired)' /\ [Next]_vars =>
        [/\ relays' # relays => power /\ power'
         /\ relays' # {} => power' /\ phase' = "held"]_vars
  <2>. SUFFICES ASSUME FobType, Wired, Wired', [Next]_vars
                PROVE  relays' # relays => power /\ power'
    BY DEF Wired
  <2>. USE DEF Wired
  <2>1. CASE (\E s \in Permanent : led_set_state(s)) \/ (\E mask \in Masks : Press(mask)) \/ Led
    BY <2>1 DEF led_set_state, Press, Led, WhiteStart, Feed, Receive, Show, ShowPress, fob
  <2>2. CASE Keyfob
    BY <2>2 DEF Keyfob, Take, Close, Open, PowerOff
  <2>3. CASE UNCHANGED vars
    BY <2>3 DEF vars, fob
  <2>. QED
    BY <2>1, <2>2, <2>3 DEF Next
<1>. QED
  BY <1>1, <1>2, <1>3, PTL DEF Spec, RelaysUnderPower

-----------------------------------------------------------------------------
(* A step of the key fob is a step of the queue of presses, or none.       *)
(* For every length: each press that found room is taken once, in order.   *)
THEOREM PressTheorem == Spec => Presses!Spec
<1>1. Init => Presses!Init
  BY DEF Init, Presses!Init
<1>2. FobType /\ [Next]_vars => [Presses!Next]_<<keyfob_cmd, cmd>>
  <2>. SUFFICES ASSUME FobType, [Next]_vars
                PROVE  Presses!Next \/ UNCHANGED <<keyfob_cmd, cmd>>
    OBVIOUS
  <2>1. CASE (\E s \in Permanent : led_set_state(s)) \/ Led
    BY <2>1 DEF led_set_state, Led, WhiteStart, Feed, Receive, Show, ShowPress, fob
  <2>2. ASSUME NEW mask \in Masks, Press(mask)
        PROVE  Presses!Send(mask) \/ UNCHANGED <<keyfob_cmd, cmd>>
    BY <2>2 DEF Press, Put, Presses!Send
  <2>3. CASE Take
    BY <2>3 DEF Take, Presses!Next, Presses!Receive
  <2>4. CASE Close \/ Open
    BY <2>4 DEF Close, Open
  <2>5. CASE PowerOff
    BY <2>5 DEF PowerOff, Presses!Next, Presses!Consume
  <2>6. CASE UNCHANGED vars
    BY <2>6 DEF vars, fob
  <2>. QED
    BY <2>1, <2>2, <2>3, <2>4, <2>5, <2>6 DEF Next, Keyfob, Presses!Next
<1>3. FobType /\ [Next]_vars => FobType'
  BY FobTyping
<1>. QED
  BY InitType, <1>1, <1>2, <1>3, PTL DEF Spec, Presses!Spec

-----------------------------------------------------------------------------
(* What the LED shows, or goes back to after a press; and the last         *)
(* permanent state sent is shown, or will be behind what is queued.        *)
Shows == IF state \in Permanent THEN state ELSE back

OnlyPresses(n) == \A m \in n .. Len(led_state) : led_state[m] = "PRESS"

Remembered ==
    /\ step # "show" => state = back
    /\ ~lost => \/ Shows = wanted /\ OnlyPresses(1)
                \/ \E k \in 1 .. Len(led_state) : led_state[k] = wanted /\ OnlyPresses(k + 1)

LEMMA PutIs ==
  ASSUME NEW q \in Seq(States), NEW v \in States, Len(q) < LedSlots
  PROVE  /\ Len(Put(q, v, LedSlots)) = Len(q) + 1 /\ Put(q, v, LedSlots)[Len(q) + 1] = v
         /\ \A k \in 1 .. Len(q) : Put(q, v, LedSlots)[k] = q[k]
  BY DEF Put

LEMMA RememberedKept ==
  ASSUME LedType, Remembered, [Next]_vars
  PROVE  Remembered'
<1>. USE DEF LedType, Remembered
<1>0. /\ "PRESS" \in States /\ "PRESS" \notin Permanent /\ Permanent \subseteq States
      /\ Len(led_state) \in Nat /\ LedSlots \in Nat
  BY PanelAssumption DEF States, Permanent
<1>1. ASSUME NEW s \in Permanent, led_set_state(s) PROVE Remembered'
  <2>1. /\ led_state' = Put(led_state, s, LedSlots) /\ wanted' = s
        /\ lost' = (Len(led_state) = LedSlots) /\ UNCHANGED <<step, state, back>>
    BY <1>1 DEF led_set_state
  <2>2. CASE Len(led_state) < LedSlots
    <3>1. Len(led_state') = Len(led_state) + 1 /\ led_state'[Len(led_state) + 1] = s
      BY <1>0, <2>1, <2>2, PutIs
    <3>2. PICK k \in 1 .. Len(led_state') : k = Len(led_state) + 1
      BY <1>0, <3>1
    <3>3. led_state'[k] = wanted' /\ \A m \in k + 1 .. Len(led_state') : led_state'[m] = "PRESS"
      BY <1>0, <2>1, <3>1, <3>2
    <3>. QED
      BY <2>1, <3>3 DEF OnlyPresses
  <2>3. CASE ~(Len(led_state) < LedSlots)
    <3>1. Len(led_state) = LedSlots
      BY <1>0, <2>3
    <3>2. lost' = TRUE
      BY <2>1, <3>1
    <3>. QED
      BY <2>1, <3>2
  <2>. QED
    BY <2>2, <2>3
<1>2. ASSUME NEW mask \in Masks, Press(mask) PROVE Remembered'
  <2>1. /\ led_state' = Put(led_state, "PRESS", LedSlots)
        /\ UNCHANGED <<step, state, back, wanted, lost>> /\ Shows' = Shows
    BY <1>2 DEF Press, Shows, Permanent
  <2>2. CASE Len(led_state) < LedSlots
    <3>1. /\ Len(led_state') = Len(led_state) + 1 /\ led_state'[Len(led_state) + 1] = "PRESS"
          /\ \A k \in 1 .. Len(led_state) : led_state'[k] = led_state[k]
      BY <1>0, <2>1, <2>2, PutIs
    <3>2. ASSUME NEW n \in 1 .. Len(led_state) + 1, OnlyPresses(n)
          PROVE  \A m \in n .. Len(led_state') : led_state'[m] = "PRESS"
      <4>1. ASSUME NEW m \in n .. Len(led_state) + 1 PROVE led_state'[m] = "PRESS"
        <5>1. CASE m = Len(led_state) + 1
          BY <3>1, <5>1
        <5>2. CASE m # Len(led_state) + 1
          <6>1. m \in n .. Len(led_state) /\ m \in 1 .. Len(led_state)
            BY <1>0, <5>2
          <6>. QED
            BY <3>1, <3>2, <6>1 DEF OnlyPresses
        <5>. QED
          BY <5>1, <5>2
      <4>. QED
        BY <3>1, <4>1
    <3>3. CASE Shows = wanted /\ OnlyPresses(1)
      <4>1. \A m \in 1 .. Len(led_state') : led_state'[m] = "PRESS"
        BY <1>0, <3>2, <3>3
      <4>. QED
        BY <2>1, <3>3, <4>1 DEF OnlyPresses
    <3>4. ASSUME NEW k \in 1 .. Len(led_state), led_state[k] = wanted, OnlyPresses(k + 1)
          PROVE  Remembered'
      <4>1. k + 1 \in 1 .. Len(led_state) + 1 /\ k \in 1 .. Len(led_state')
        BY <1>0, <3>1
      <4>2. \A m \in k + 1 .. Len(led_state') : led_state'[m] = "PRESS"
        BY <3>2, <3>4, <4>1
      <4>3. led_state'[k] = wanted'
        BY <2>1, <3>1, <3>4
      <4>. QED
        BY <2>1, <4>1, <4>2, <4>3 DEF OnlyPresses
    <3>. QED
      BY <2>1, <3>3, <3>4
  <2>3. CASE ~(Len(led_state) < LedSlots)
    <3>1. led_state' = led_state
      BY <2>1, <2>3 DEF Put
    <3>. QED
      BY <2>1, <3>1 DEF OnlyPresses
  <2>. QED
    BY <2>2, <2>3
<1>3. CASE WhiteStart \/ Feed
  BY <1>3 DEF WhiteStart, Feed, Shows, OnlyPresses, Permanent
<1>4. CASE Receive
  <2>1. /\ UNCHANGED <<back, wanted, lost>> /\ step' = "show" /\ state = back
        /\ Shows = back
    BY <1>4 DEF Receive, Shows
  <2>2. CASE led_state # <<>>
    <3>1. /\ state' = led_state[1] /\ Len(led_state) > 0 /\ Len(led_state') = Len(led_state) - 1
          /\ \A m \in 1 .. Len(led_state') : led_state'[m] = led_state[m + 1]
      BY <1>0, <1>4, <2>2 DEF Receive
    <3>2. CASE Shows = wanted /\ OnlyPresses(1)
      <4>1. state' = "PRESS" /\ \A m \in 1 .. Len(led_state') : led_state'[m] = "PRESS"
        BY <1>0, <3>1, <3>2 DEF OnlyPresses
      <4>2. Shows' = wanted'
        BY <1>0, <2>1, <3>2, <4>1 DEF Shows, Permanent
      <4>. QED
        BY <2>1, <4>1, <4>2 DEF OnlyPresses
    <3>3. ASSUME led_state[1] = wanted, OnlyPresses(2) PROVE Remembered'
      <4>1. Shows' = wanted'
        BY <2>1, <3>1, <3>3 DEF Shows, Permanent
      <4>2. \A m \in 1 .. Len(led_state') : led_state'[m] = "PRESS"
        BY <1>0, <3>1, <3>3 DEF OnlyPresses
      <4>. QED
        BY <2>1, <4>1, <4>2 DEF OnlyPresses
    <3>4. ASSUME NEW k \in 2 .. Len(led_state), led_state[k] = wanted, OnlyPresses(k + 1)
          PROVE  Remembered'
      <4>1. PICK n \in 1 .. Len(led_state') : k = n + 1
        <5>1. k - 1 \in 1 .. Len(led_state') /\ k = k - 1 + 1
          BY <1>0, <3>1
        <5>. QED
          BY <5>1
      <4>2. led_state'[n] = wanted'
        BY <2>1, <3>1, <3>4, <4>1
      <4>3. \A m \in n + 1 .. Len(led_state') : led_state'[m] = "PRESS"
        <5>1. \A m \in n + 1 .. Len(led_state') :
                 m \in 1 .. Len(led_state') /\ m + 1 \in k + 1 .. Len(led_state)
          BY <1>0, <3>1, <4>1
        <5>. QED
          BY <3>1, <3>4, <5>1 DEF OnlyPresses
      <4>. QED
        BY <2>1, <4>2, <4>3 DEF OnlyPresses
    <3>5. \A k \in 1 .. Len(led_state) : k = 1 \/ k \in 2 .. Len(led_state)
      BY <1>0
    <3>6. 1 + 1 = 2
      OBVIOUS
    <3>. QED
      BY <2>1, <3>2, <3>3, <3>4, <3>5, <3>6
  <2>3. CASE led_state = <<>>
    BY <1>4, <2>1, <2>3 DEF Receive, Shows, OnlyPresses, Permanent
  <2>. QED
    BY <2>2, <2>3
<1>5. CASE Show \/ ShowPress
  <2>1. /\ UNCHANGED <<led_state, wanted, lost>> /\ step' = "feed" /\ state' = back'
        /\ Shows' = Shows
    BY <1>0, <1>5 DEF Show, ShowPress, Shows, Permanent
  <2>. QED
    BY <2>1 DEF OnlyPresses
<1>6. CASE Keyfob \/ UNCHANGED vars
  <2>1. UNCHANGED led
    BY <1>6 DEF Keyfob, Take, Close, Open, PowerOff, vars
  <2>. QED
    BY <2>1 DEF led, Shows, OnlyPresses, Permanent
<1>. QED
  BY <1>1, <1>2, <1>3, <1>4, <1>5, <1>6 DEF Next, Led

(* A LED whose queue is empty shows the last permanent state it was sent,  *)
(* or goes back to it when the press it shows is over: what LedSettles     *)
(* comes to, for any presses in between and queues of any length           *)
(* (led.c:35-62).                                                          *)
Settled == ~lost /\ led_state = <<>> => Shows = wanted /\ (step # "show" => state = wanted)

(* So it is, whatever states and presses are sent, and when.               *)
THEOREM SettledTheorem == Spec => []Settled
<1>1. Init => Remembered
  BY DEF Init, Remembered, Shows, OnlyPresses, Permanent
<1>2. LedType /\ Remembered /\ [Next]_vars => (LedType /\ Remembered)'
  BY LedTyping, RememberedKept
<1>3. LedType /\ Remembered => Settled
  BY DEF LedType, Remembered, Settled, Shows
<1>. QED
  BY InitType, <1>1, <1>2, <1>3, PTL DEF Spec
=============================================================================
