---------------------------- MODULE Button_proofs ----------------------------
(***************************************************************************)
(* Proofs about Button for any times, any width of the tick counter and    *)
(* any length of the queue of reports.                                     *)
(***************************************************************************)
EXTENDS Button, TLAPS

Numbers ==
    /\ {Poll, Deglitch, LongHold, Width, Slots, MaxHold} \subseteq Nat \ {0}
    /\ Late \in Nat /\ Stable \in Nat /\ Late < Stable
    /\ Width > 2

LEMMA NumbersHold == Numbers
  BY ButtonAssumption DEF Numbers

Bounds == MaxHold + 2 * Late < Width /\ Deglitch + Late <= LongHold

LEMMA BoundsHold == Bounds
  BY ButtonAssumption DEF Bounds

(* The report a press ends in.                                             *)
LEMMA ReportType ==
  ASSUME button_cmd \in Seq({"long", "short"}), Len(button_cmd) <= Slots,
         NEW hold \in {"long", "short"},
         button_cmd' = IF Len(button_cmd) < Slots THEN Append(button_cmd, hold) ELSE button_cmd
  PROVE  /\ button_cmd' \in Seq({"long", "short"}) /\ Len(button_cmd') <= Slots
         /\ Len(button_cmd') > Len(button_cmd) => button_cmd'[Len(button_cmd')] = hold
<1>. USE NumbersHold DEF Numbers
<1>1. CASE Len(button_cmd) < Slots
  BY <1>1
<1>2. CASE ~(Len(button_cmd) < Slots)
  BY <1>2
<1>. QED
  BY <1>1, <1>2

LEMMA TypeKept ==
  ASSUME TypeOK, [Next]_vars
  PROVE  TypeOK'
<1>. USE NumbersHold DEF TypeOK, Numbers
<1>1. CASE Press
  BY <1>1 DEF Press, task
<1>2. CASE Release
  <2>1. owed' \in BOOLEAN
    BY <1>2 DEF Release
  <2>. QED
    BY <1>2, <2>1 DEF Release, task
<1>3. CASE Sample \/ Notice \/ Deglitched \/ Spin \/ Polled
  <2>1. CASE Sample
    BY <2>1 DEF Sample, contacts
  <2>2. CASE Notice
    BY <2>2 DEF Notice, contacts
  <2>3. CASE Deglitched
    BY <2>3 DEF Deglitched, contacts
  <2>4. CASE Spin
    BY <2>4 DEF Spin, contacts
  <2>5. CASE Polled
    BY <2>5 DEF Polled, contacts
  <2>. QED
    BY <1>3, <2>1, <2>2, <2>3, <2>4, <2>5
<1>4. CASE Report
  <2>. DEFINE hold == IF Hold > LongHold THEN "long" ELSE "short"
  <2>1. button_cmd' \in Seq({"long", "short"}) /\ Len(button_cmd') <= Slots
    BY <1>4, ReportType DEF Report
  <2>2. owed' \in BOOLEAN
    BY <1>4 DEF Report
  <2>. QED
    BY <1>4, <2>1, <2>2 DEF Report
<1>5. CASE Fetch
  <2>1. Tail(button_cmd) \in Seq({"long", "short"}) /\ Len(Tail(button_cmd)) = Len(button_cmd) - 1
    BY <1>5 DEF Fetch
  <2>. QED
    BY <1>5, <2>1 DEF Fetch, contacts, task
<1>6. CASE SysTick
  <2>1. xTickCount' \in 0 .. Width - 1
    BY <1>6 DEF SysTick
  <2>2. late' \in 0 .. Late /\ left' \in 0 .. Deglitch + Poll /\ same' \in 0 .. MaxHold
    BY <1>6 DEF SysTick
  <2>. QED
    BY <1>6, <2>1, <2>2 DEF SysTick
<1>7. CASE UNCHANGED vars
  BY <1>7 DEF vars, contacts, task
<1>. QED
  BY <1>1, <1>2, <1>3, <1>4, <1>5, <1>6, <1>7 DEF Next, Task

LEMMA InitType == Init => TypeOK
<1>. SUFFICES ASSUME Init PROVE TypeOK
  OBVIOUS
<1>. USE NumbersHold DEF Numbers
<1>1. button_cmd \in Seq({"long", "short"}) /\ Len(button_cmd) = 0
  BY DEF Init
<1>2. xTickCount \in 0 .. Width - 1 /\ hold_time \in 0 .. Width - 1
  BY DEF Init
<1>3. {level, prev, cur} \subseteq {"up", "down"}
  BY DEF Init
<1>4. /\ same \in 0 .. MaxHold /\ left \in 0 .. Deglitch + Poll /\ late \in 0 .. Late
      /\ lasted \in 0 .. MaxHold /\ Len(button_cmd) <= Slots
  BY <1>1 DEF Init
<1>. QED
  BY <1>1, <1>2, <1>3, <1>4 DEF Init, TypeOK

(* Every variable keeps its type, for any times and widths.                *)
THEOREM TypeTheorem == Spec => []TypeOK
  BY InitType, TypeKept, PTL DEF Spec

-----------------------------------------------------------------------------
(* What the hold time can be.  Less time was counted since the edge than   *)
(* the task waits out and may run late, or the press it has seen down since*)
(* accounts for the rest of it.                                            *)
Waited == Hold <= Deglitch + late
Down == level = "down" /\ Hold <= same + Deglitch + Late
Up == level = "up" /\ same <= late /\ Hold <= lasted + late + Deglitch + Late

HoldTime ==
    /\ pc = "deglitch" => left <= Deglitch /\ Hold <= Deglitch - left + late /\ (left > 0 => late = 0)
    /\ pc = "spin" => Waited \/ Down \/ Up
    /\ pc = "released" => Waited \/ Up

LEMMA HoldIs ==
  ASSUME NEW tick \in 0 .. Width - 1, NEW edge \in 0 .. Width - 1
  PROVE  (tick - edge) % Width = IF tick >= edge THEN tick - edge ELSE tick - edge + Width
<1>. Width \in Nat \ {0}
  BY NumbersHold DEF Numbers
<1>1. CASE tick >= edge
  BY <1>1
<1>2. CASE ~(tick >= edge)
  BY <1>2
<1>. QED
  BY <1>1, <1>2

LEMMA Ticks ==
  ASSUME TypeOK
  PROVE  xTickCount \in 0 .. Width - 1 /\ hold_time \in 0 .. Width - 1 /\ Hold \in 0 .. Width - 1
<1>1. xTickCount \in 0 .. Width - 1 /\ hold_time \in 0 .. Width - 1 /\ Width \in Nat \ {0}
  BY NumbersHold DEF TypeOK, Numbers
<1>. QED
  BY <1>1, HoldIs DEF Hold

LEMMA TickHold ==
  ASSUME TypeOK, SysTick
  PROVE  /\ Hold \in Nat /\ Hold' \in Nat /\ Hold' <= Hold + 1
         /\ Hold + 1 < Width => Hold' = Hold + 1
<1>0. xTickCount \in 0 .. Width - 1 /\ hold_time \in 0 .. Width - 1 /\ Width \in Nat \ {0}
  BY Ticks, NumbersHold DEF Numbers
<1>1. xTickCount' = IF xTickCount = Width - 1 THEN 0 ELSE xTickCount + 1
  <2>1. xTickCount' = (xTickCount + 1) % Width
    BY DEF SysTick
  <2>2. CASE xTickCount = Width - 1
    <3>1. xTickCount + 1 = Width /\ Width % Width = 0
      BY <1>0, <2>2
    <3>. QED
      BY <2>1, <2>2, <3>1
  <2>3. CASE xTickCount # Width - 1
    <3>1. (xTickCount + 1) % Width = xTickCount + 1
      BY <1>0, <2>3
    <3>. QED
      BY <2>1, <2>3, <3>1
  <2>. QED
    BY <2>2, <2>3
<1>2. xTickCount' \in 0 .. Width - 1 /\ hold_time' = hold_time
  BY <1>0, <1>1 DEF SysTick
<1>3. /\ Hold = IF xTickCount >= hold_time THEN xTickCount - hold_time
                ELSE xTickCount - hold_time + Width
      /\ Hold' = IF xTickCount' >= hold_time THEN xTickCount' - hold_time
                 ELSE xTickCount' - hold_time + Width
  BY <1>0, <1>2, HoldIs DEF Hold
<1>. QED
  BY <1>0, <1>1, <1>2, <1>3

LEMMA HoldTimeKept ==
  ASSUME TypeOK, HoldTime, [Next]_vars
  PROVE  HoldTime'
<1>0. /\ Hold \in Nat /\ same \in 0 .. MaxHold /\ late \in 0 .. Late /\ left \in Nat
      /\ lasted \in Nat /\ xTickCount \in 0 .. Width - 1 /\ level \in {"up", "down"}
      /\ Late \in Nat /\ Stable \in Nat /\ Late < Stable /\ Deglitch \in Nat /\ MaxHold \in Nat
      /\ Width \in Nat
  BY Ticks, NumbersHold DEF TypeOK, Numbers
<1>. USE <1>0 DEF HoldTime, Waited, Down, Up
<1>1. CASE Press \/ Release
  <2>1. Hold' = Hold /\ pc' = pc /\ left' = left /\ late' = late
    BY <1>1 DEF Press, Release, task, Hold
  <2>2. CASE Press
    BY <2>1, <2>2 DEF Press
  <2>3. CASE Release
    BY <2>1, <2>3 DEF Release
  <2>. QED
    BY <1>1, <2>2, <2>3
<1>2. CASE Notice
  <2>1. hold_time' = xTickCount /\ xTickCount' = xTickCount
    BY <1>2 DEF Notice
  <2>2. Hold' = 0
    BY <2>1, HoldIs DEF Hold
  <2>. QED
    BY <1>2, <2>2 DEF Notice
<1>3. CASE Deglitched \/ Spin
  <2>1. Hold' = Hold
    BY <1>3 DEF Deglitched, Spin, Hold
  <2>2. CASE Deglitched
    BY <2>1, <2>2 DEF Deglitched, contacts
  <2>3. CASE Spin /\ level = "down"
    BY <2>1, <2>3 DEF Spin, contacts
  <2>4. CASE Spin /\ level # "down"
    BY <2>1, <2>4 DEF Spin, contacts
  <2>. QED
    BY <1>3, <2>2, <2>3, <2>4
<1>4. CASE Sample \/ Report \/ Polled
  BY <1>4 DEF Sample, Report, Polled
<1>5. CASE Fetch
  BY <1>5 DEF Fetch, contacts, task, Hold
<1>6. CASE SysTick
  <2>1. Hold' \in Nat /\ Hold' <= Hold + 1
    BY <1>6, TickHold
  <2>2. pc' = pc /\ level' = level /\ lasted' = lasted
    BY <1>6 DEF SysTick
  <2>3. CASE pc = "deglitch"
    <3>1. Ready <=> left = 0
      BY <2>3 DEF Ready
    <3>. QED
      BY <1>6, <2>1, <2>2, <2>3, <3>1 DEF SysTick
  <2>4. CASE pc \in {"spin", "released"}
    <3>1. Ready /\ late' = late + 1
      BY <1>6, <2>4 DEF SysTick, Ready
    <3>2. /\ level = "down" => same' = same + 1
          /\ same' <= same + 1 /\ same' \in Nat
      BY <1>6 DEF SysTick
    <3>3. Waited => Waited'
      BY <2>1, <3>1
    <3>4. Down => Down'
      BY <2>1, <2>2, <3>2
    <3>5. Up => Up'
      BY <2>1, <2>2, <3>1, <3>2
    <3>. QED
      BY <2>2, <2>4, <3>3, <3>4, <3>5
  <2>5. CASE pc \notin {"deglitch", "spin", "released"}
    BY <2>2, <2>5
  <2>. QED
    BY <2>3, <2>4, <2>5
<1>7. CASE UNCHANGED vars
  BY <1>7 DEF vars, contacts, task, Hold
<1>. QED
  BY <1>1, <1>2, <1>3, <1>4, <1>5, <1>6, <1>7 DEF Next, Task

(* A report of a long press, which erases the keybox, always follows a     *)
(* press about as long: bounces, other presses during the wait, a late task*)
(* and a wrap of the counter do not add to it.                             *)
THEOREM FalseLongTheorem == Spec => NoFalseLong
<1>1. Init => HoldTime
  BY DEF Init, HoldTime
<1>2. TypeOK /\ HoldTime /\ [Next]_vars => (TypeOK /\ HoldTime)'
  BY TypeKept, HoldTimeKept
<1>3. TypeOK /\ HoldTime /\ [Next]_vars =>
        [Len(button_cmd') > Len(button_cmd) /\ button_cmd'[Len(button_cmd')] = "long"
            => lasted > LongHold - Deglitch - 2 * Late]_vars
  <2>. SUFFICES ASSUME TypeOK, HoldTime, Next,
                       Len(button_cmd') > Len(button_cmd), button_cmd'[Len(button_cmd')] = "long"
                PROVE  lasted > LongHold - Deglitch - 2 * Late
    OBVIOUS
  <2>1. Report
    <3>1. CASE Press \/ Release \/ SysTick
      BY <3>1 DEF Press, Release, SysTick
    <3>2. CASE Sample \/ Notice \/ Deglitched \/ Spin \/ Polled
      BY <3>2 DEF Sample, Notice, Deglitched, Spin, Polled
    <3>3. CASE Fetch
      <4>1. Len(Tail(button_cmd)) = Len(button_cmd) - 1 /\ Len(button_cmd) \in Nat
        BY <3>3 DEF Fetch, TypeOK
      <4>. QED
        BY <3>3, <4>1 DEF Fetch
    <3>. QED
      BY <3>1, <3>2, <3>3 DEF Next, Task
  <2>2. Hold > LongHold
    <3>. DEFINE hold == IF Hold > LongHold THEN "long" ELSE "short"
    <3>1. button_cmd'[Len(button_cmd')] = hold
      BY <2>1, ReportType DEF Report, TypeOK
    <3>. QED
      BY <3>1
  <2>3. Waited \/ Up
    BY <2>1 DEF Report, HoldTime
  <2>4. /\ Hold \in Nat /\ late \in 0 .. Late /\ lasted \in Nat /\ Late \in Nat
        /\ Deglitch \in Nat /\ LongHold \in Nat
    BY Ticks, NumbersHold DEF TypeOK, Numbers
  <2>. QED
    BY <2>2, <2>3, <2>4 DEF Waited, Up
<1>. QED
  BY InitType, <1>1, <1>2, <1>3, PTL DEF Spec, NoFalseLong

-----------------------------------------------------------------------------
(* While the button is up the task finds out in time: if it is not waiting *)
(* with the last level it saw up, the button is up for less than Rest.     *)
Seen ==
    /\ pc \in {"poll", "deglitch"} /\ left > 0 => late = 0
    /\ pc = "poll" => left <= Poll
    /\ level = "up" =>
        /\ pc = "noticed" => same <= late
        /\ pc = "deglitch" => same <= Late + Deglitch - left + late
        /\ pc \in {"spin", "released"} => same <= Late + Deglitch + late
        /\ pc = "poll" /\ cur = "down" => same <= 2 * Late + Deglitch + Poll - left + late
        /\ pc = "sample" /\ prev = "down" => same <= 2 * Late + Deglitch + Poll + late

(* A press after such a rest is noticed, and its time counted from then.   *)
Caught ==
    level = "down" /\ rested =>
        \/ pc = "poll" /\ cur = "up" /\ same <= Poll - left + late
        \/ pc = "sample" /\ prev = "up" /\ same <= Poll + late
        \/ pc = "noticed" /\ same <= Poll + late
        \/ pc \in {"deglitch", "spin"} /\ Hold <= same /\ same <= Hold + Poll + Late

(* A long press not reported yet is about to be, as long.                  *)
Owing ==
    owed => /\ pc \in {"spin", "released"} /\ level = "up" /\ same <= late
            /\ Hold > LongHold /\ Hold <= MaxHold + late

LEMMA SeenKept ==
  ASSUME TypeOK, HoldTime, Seen, [Next]_vars
  PROVE  Seen'
<1>0. /\ same \in Nat /\ late \in 0 .. Late /\ left \in Nat
      /\ level \in {"up", "down"} /\ prev \in {"up", "down"} /\ cur \in {"up", "down"}
      /\ Late \in Nat /\ Deglitch \in Nat /\ Poll \in Nat /\ MaxHold \in Nat
  BY NumbersHold DEF TypeOK, Numbers
<1>. USE <1>0 DEF Seen
<1>1. CASE Press \/ Release
  <2>1. pc' = pc /\ left' = left /\ late' = late /\ prev' = prev /\ cur' = cur
    BY <1>1 DEF Press, Release, task
  <2>2. level' = "up" => same' = 0
    BY <1>1 DEF Press, Release
  <2>3. pc = "deglitch" => left <= Deglitch
    BY DEF HoldTime
  <2>. QED
    BY <2>1, <2>2, <2>3
<1>2. CASE Sample
  <2>1. level' = level /\ same' = same /\ cur' = level /\ prev' = prev
    BY <1>2 DEF Sample, contacts
  <2>2. CASE pc' = "noticed"
    BY <1>2, <2>1, <2>2 DEF Sample
  <2>3. CASE pc' = "poll"
    BY <1>2, <2>1, <2>3 DEF Sample
  <2>. QED
    BY <1>2, <2>2, <2>3 DEF Sample
<1>3. CASE Notice \/ Deglitched \/ Polled
  BY <1>3 DEF Notice, Deglitched, Polled, contacts
<1>4. CASE Spin
  BY <1>4 DEF Spin, contacts
<1>5. CASE Report
  BY <1>5 DEF Report
<1>6. CASE Fetch \/ UNCHANGED vars
  BY <1>6 DEF Fetch, vars, contacts, task
<1>7. CASE SysTick
  <2>1. /\ pc' = pc /\ level' = level /\ prev' = prev /\ cur' = cur
        /\ same' \in Nat /\ same' <= same + 1
        /\ left' = (IF left > 0 THEN left - 1 ELSE 0)
        /\ late' = (IF Ready THEN late + 1 ELSE 0)
    BY <1>7 DEF SysTick
  <2>2. CASE pc \in {"poll", "deglitch"}
    <3>1. Ready <=> left = 0
      BY <2>2 DEF Ready
    <3>2. left' - late' <= left - late - 1
      BY <2>1, <2>2, <3>1
    <3>3. left' > 0 => late' = 0
      BY <2>1, <3>1
    <3>. QED
      BY <2>1, <2>2, <3>2, <3>3
  <2>3. CASE pc \notin {"poll", "deglitch"}
    <3>1. late' = late + 1
      BY <2>1, <2>3 DEF Ready
    <3>. QED
      BY <2>1, <2>3, <3>1
  <2>. QED
    BY <2>2, <2>3
<1>. QED
  BY <1>1, <1>2, <1>3, <1>4, <1>5, <1>6, <1>7 DEF Next, Task

LEMMA CaughtKept ==
  ASSUME TypeOK, HoldTime, Seen, Caught, Owing, [Next]_vars
  PROVE  Caught'
<1>0. /\ Hold \in Nat /\ same \in 0 .. MaxHold /\ late \in 0 .. Late /\ left \in Nat
      /\ level \in {"up", "down"} /\ prev \in {"up", "down"} /\ cur \in {"up", "down"}
      /\ Late \in Nat /\ Deglitch \in Nat /\ Poll \in Nat /\ MaxHold \in Nat /\ Width \in Nat
      /\ MaxHold + 2 * Late < Width
      /\ pc \in {"sample", "noticed", "deglitch", "spin", "released", "poll"}
  BY Ticks, NumbersHold, BoundsHold DEF TypeOK, Numbers, Bounds
<1>. USE <1>0 DEF Caught
<1>1. CASE Press
  <2>1. /\ level = "up" /\ rested' = (same >= Rest) /\ same' = 0
        /\ pc' = pc /\ left' = left /\ late' = late /\ prev' = prev /\ cur' = cur
    BY <1>1 DEF Press, task
  <2>2. CASE same >= Rest
    <3>1. (pc = "poll" /\ cur = "up" /\ left <= Poll) \/ (pc = "sample" /\ prev = "up")
      BY <2>1, <2>2 DEF Seen, Rest, HoldTime
    <3>. QED
      BY <2>1, <3>1
  <2>3. CASE ~(same >= Rest)
    BY <2>1, <2>3
  <2>. QED
    BY <2>2, <2>3
<1>2. CASE Release
  BY <1>2 DEF Release
<1>3. CASE Sample
  <2>1. level' = level /\ same' = same /\ cur' = level /\ rested' = rested
    BY <1>3 DEF Sample, contacts
  <2>. QED
    BY <1>3, <2>1 DEF Sample
<1>4. CASE Notice
  <2>1. hold_time' = xTickCount /\ xTickCount' = xTickCount /\ xTickCount \in 0 .. Width - 1
    BY <1>4, Ticks DEF Notice
  <2>2. Hold' = 0
    BY <2>1, HoldIs DEF Hold
  <2>. QED
    BY <1>4, <2>2 DEF Notice, contacts
<1>5. CASE Deglitched \/ Spin
  <2>1. Hold' = Hold
    BY <1>5 DEF Deglitched, Spin, Hold
  <2>. QED
    BY <1>5, <2>1 DEF Deglitched, Spin, contacts
<1>6. CASE Report
  BY <1>6 DEF Report
<1>7. CASE Polled
  BY <1>7 DEF Polled, contacts
<1>8. CASE Fetch \/ UNCHANGED vars
  BY <1>8 DEF Fetch, vars, contacts, task, Hold
<1>9. CASE SysTick
  <2>1. /\ pc' = pc /\ level' = level /\ prev' = prev /\ cur' = cur /\ rested' = rested
        /\ level = "down" => same' = same + 1 /\ same < MaxHold
        /\ left' = (IF left > 0 THEN left - 1 ELSE 0)
        /\ late' = (IF Ready THEN late + 1 ELSE 0)
    BY <1>9 DEF SysTick
  <2>2. CASE pc = "poll"
    <3>1. Ready <=> left = 0
      BY <2>2 DEF Ready
    <3>2. left' - late' <= left - late - 1
      BY <2>1, <2>2, <3>1 DEF Seen
    <3>. QED
      BY <2>1, <2>2, <3>2
  <2>3. CASE pc \in {"sample", "noticed"}
    <3>1. late' = late + 1
      BY <2>1, <2>3 DEF Ready
    <3>. QED
      BY <2>1, <2>3, <3>1
  <2>4. CASE pc \in {"deglitch", "spin"} /\ level = "down" /\ rested
    <3>1. Hold + 1 < Width
      BY <2>1, <2>4
    <3>2. Hold' = Hold + 1
      BY <1>9, <3>1, TickHold
    <3>. QED
      BY <2>1, <2>4, <3>2
  <2>. QED
    BY <2>1, <2>2, <2>3, <2>4
<1>. QED
  BY <1>1, <1>2, <1>3, <1>4, <1>5, <1>6, <1>7, <1>8, <1>9 DEF Next, Task

LEMMA OwingKept ==
  ASSUME TypeOK, HoldTime, Seen, Caught, Owing, [Next]_vars
  PROVE  Owing'
<1>0. /\ Hold \in Nat /\ same \in 0 .. MaxHold /\ late \in 0 .. Late /\ left \in Nat
      /\ level \in {"up", "down"} /\ prev \in {"up", "down"} /\ cur \in {"up", "down"}
      /\ Late \in Nat /\ Deglitch \in Nat /\ Poll \in Nat /\ MaxHold \in Nat /\ Width \in Nat
      /\ Stable \in Nat /\ Late < Stable /\ LongHold \in Nat
      /\ MaxHold + 2 * Late < Width /\ Deglitch + Late <= LongHold
      /\ pc \in {"sample", "noticed", "deglitch", "spin", "released", "poll"}
      /\ owed \in BOOLEAN
  BY Ticks, NumbersHold, BoundsHold DEF TypeOK, Numbers, Bounds
<1>. USE <1>0 DEF Owing
<1>1. CASE Press
  <2>1. ~owed
    BY <1>1 DEF Press
  <2>. QED
    BY <1>1, <2>1 DEF Press
<1>2. CASE Release
  <2>1. /\ level = "down" /\ level' = "up" /\ same' = 0 /\ pc' = pc /\ late' = late
        /\ owed' = (owed \/ (rested /\ same >= Need)) /\ Hold' = Hold
    BY <1>2 DEF Release, task, Hold
  <2>2. ASSUME rested, same >= Need PROVE pc = "spin" /\ Hold > LongHold /\ Hold <= same
    <3>1. pc \in {"deglitch", "spin"} /\ Hold <= same /\ same <= Hold + Poll + Late
      BY <2>1, <2>2 DEF Caught, Need
    <3>2. Hold > LongHold
      BY <2>2, <3>1 DEF Need
    <3>3. pc # "deglitch"
      BY <3>2 DEF HoldTime
    <3>. QED
      BY <3>1, <3>2, <3>3
  <2>. QED
    BY <2>1, <2>2
<1>3. CASE Sample \/ Notice \/ Deglitched \/ Polled
  <2>1. ~owed /\ owed' = owed
    BY <1>3 DEF Sample, Notice, Deglitched, Polled
  <2>. QED
    BY <2>1
<1>4. CASE Spin
  <2>1. Hold' = Hold
    BY <1>4 DEF Spin, Hold
  <2>. QED
    BY <1>4, <2>1 DEF Spin, contacts
<1>5. CASE Report
  <2>1. owed => Hold > LongHold
    OBVIOUS
  <2>2. ~owed'
    BY <1>5, <2>1 DEF Report
  <2>. QED
    BY <2>2
<1>6. CASE Fetch \/ UNCHANGED vars
  BY <1>6 DEF Fetch, vars, contacts, task, Hold
<1>7. CASE SysTick
  <2>. SUFFICES ASSUME owed' PROVE Owing'
    OBVIOUS
  <2>1. /\ owed /\ pc' = pc /\ level' = level /\ same' \in Nat /\ same' <= same + 1 /\ pc \in {"spin", "released"}
        /\ late' = late + 1 /\ late < Late
    BY <1>7 DEF SysTick, Ready
  <2>2. Hold + 1 < Width
    BY <2>1
  <2>3. Hold' = Hold + 1
    BY <1>7, <2>2, TickHold
  <2>. QED
    BY <2>1, <2>3
<1>. QED
  BY <1>1, <1>2, <1>3, <1>4, <1>5, <1>6, <1>7 DEF Next, Task

(* The press of a button that rested and was then held long enough is never*)
(* taken for a short one, whatever was pressed before, however late the    *)
(* task runs and wherever the tick counter wraps: what LongHonoured asks,  *)
(* but for the report to come (button.c:27-40).                            *)
OwedNotShort == [][pc = "released" /\ pc' # pc => ~owed']_vars

(* So it is, for any times the assumptions allow.                          *)
THEOREM HonouredTheorem == Spec => OwedNotShort
<1>1. Init => HoldTime /\ Seen /\ Caught /\ Owing
  BY NumbersHold DEF Init, HoldTime, Seen, Caught, Owing, Numbers
<1>. DEFINE Inv == TypeOK /\ HoldTime /\ Seen /\ Caught /\ Owing
<1>2. Inv /\ [Next]_vars => Inv'
  BY TypeKept, HoldTimeKept, SeenKept, CaughtKept, OwingKept
<1>3. Inv /\ [Next]_vars => [pc = "released" /\ pc' # pc => ~owed']_vars
  <2>. SUFFICES ASSUME Inv, Next, pc = "released", pc' # pc PROVE ~owed'
    OBVIOUS
  <2>1. Report
    <3>1. ~(Press \/ Release \/ Fetch \/ SysTick)
      BY DEF Press, Release, Fetch, SysTick, task
    <3>2. ~(Sample \/ Notice \/ Deglitched \/ Spin \/ Polled)
      BY DEF Sample, Notice, Deglitched, Spin, Polled
    <3>. QED
      BY <3>1, <3>2 DEF Next, Task
  <2>. QED
    BY <2>1 DEF Report, Owing
<1>. QED
  BY InitType, <1>1, <1>2, <1>3, PTL DEF Spec, OwedNotShort
=============================================================================
