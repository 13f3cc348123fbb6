------------------------------ MODULE Button ---------------------------------
(***************************************************************************)
(* The button task (button.c): it samples the button every Poll ticks,     *)
(* waits out the bounce of a press, spins until the button is up again and *)
(* reports whether it was held for longer than LongHold ticks.  A long     *)
(* press makes the app task reset the keybox to factory settings.          *)
(***************************************************************************)
EXTENDS Integers, Sequences

CONSTANTS
    Poll, Deglitch, LongHold,   \* 10, 100 and 2500 ticks in the code
    Width,      \* values of the tick counter
    Slots,      \* length of button_cmd
    Late,       \* ticks until a task that can run has run and waits again
    Stable,     \* the contacts never change twice within this many ticks
    MaxHold     \* bound: the longest the button is held, and time that is told apart

ASSUME ButtonAssumption ==
    /\ {Poll, Deglitch, LongHold, Width, Slots, MaxHold} \subseteq Nat \ {0}
    /\ Late \in Nat /\ Stable \in Nat /\ Late < Stable
    /\ LongHold < MaxHold /\ MaxHold + 2 * Late < Width
    /\ Deglitch + Late <= LongHold

VARIABLES
    level, same,    \* the contacts; ticks since they changed, up to MaxHold
    pc, left,       \* where the task is; ticks left of its vTaskDelay
    prev, cur, hold_time,   \* its locals
    late,           \* ticks since the task could run
    xTickCount,
    button_cmd,     \* the queue to the app task
    rested,         \* history: the button was up long enough before this press
    lasted,         \* history: how long the last press lasted, until it is reported
    owed            \* history: a long press is over and not reported

contacts == <<level, same, rested, lasted>>
task == <<pc, left, prev, cur, hold_time>>
vars == <<contacts, task, late, xTickCount, button_cmd, owed>>

(* The button must have been up so long, and then be down so long, for the *)
(* task to see a long press whatever its turns.                            *)
Rest == Deglitch + Poll + 3 * Late + 1
Need == LongHold + Poll + Late + 1

Init ==
    /\ level = "up" /\ same = MaxHold /\ rested = TRUE /\ lasted = 0
    /\ pc = "sample" /\ left = 0 /\ prev = "up" /\ cur = "up" /\ hold_time = 0
    /\ late = 0
    /\ xTickCount \in {0, Width - 2}
    /\ button_cmd = <<>>
    /\ owed = FALSE

-----------------------------------------------------------------------------
(* The finger.                                                             *)
Press ==
    /\ level = "up" /\ same >= Stable
    /\ level' = "down" /\ same' = 0
    /\ rested' = (same >= Rest)
    /\ UNCHANGED <<lasted, task, late, xTickCount, button_cmd, owed>>

Release ==
    /\ level = "down" /\ same >= Stable
    /\ level' = "up" /\ same' = 0
    /\ lasted' = same
    /\ owed' = (owed \/ (rested /\ same >= Need))
    /\ UNCHANGED <<rested, task, late, xTickCount, button_cmd>>

-----------------------------------------------------------------------------
(* button_task.  cur = button_get(), and whether it is a falling edge.     *)
Sample ==
    /\ pc = "sample"
    /\ cur' = level
    /\ IF prev = "up" /\ level = "down"
       THEN pc' = "noticed" /\ UNCHANGED <<left, late>>
       ELSE pc' = "poll" /\ left' = Poll /\ late' = 0
    /\ UNCHANGED <<contacts, prev, hold_time, xTickCount, button_cmd, owed>>

(* xTaskGetTickCount and the delay against the bounce.                     *)
Notice ==
    /\ pc = "noticed"
    /\ hold_time' = xTickCount
    /\ pc' = "deglitch" /\ left' = Deglitch /\ late' = 0
    /\ UNCHANGED <<contacts, prev, cur, xTickCount, button_cmd, owed>>

Deglitched ==
    /\ pc = "deglitch" /\ left = 0
    /\ pc' = "spin"
    /\ UNCHANGED <<contacts, left, prev, cur, hold_time, late, xTickCount, button_cmd, owed>>

(* while (button_get() == 0);                                              *)
Spin ==
    /\ pc = "spin"
    /\ IF level = "down" THEN late' = 0 /\ UNCHANGED pc ELSE pc' = "released" /\ UNCHANGED late
    /\ UNCHANGED <<contacts, left, prev, cur, hold_time, xTickCount, button_cmd, owed>>

(* Mutant of Hold: no unsigned wrap.                                       *)
Hold_NoWrap == xTickCount - hold_time

(* The hold time, in the arithmetic of the tick counter.                   *)
Hold == (xTickCount - hold_time) % Width

(* Mutant of Report: the hold time is not looked at.                       *)
Report_AlwaysLong ==
    /\ pc = "released"
    /\ button_cmd' = IF Len(button_cmd) < Slots THEN Append(button_cmd, "long") ELSE button_cmd
    /\ owed' = FALSE
    /\ pc' = "poll" /\ left' = Poll /\ late' = 0
    /\ lasted' = 0
    /\ UNCHANGED <<level, same, rested, prev, cur, hold_time, xTickCount>>

Report ==
    /\ pc = "released"
    /\ LET hold == IF Hold > LongHold THEN "long" ELSE "short"
       IN  /\ button_cmd' = IF Len(button_cmd) < Slots THEN Append(button_cmd, hold) ELSE button_cmd
           /\ owed' = (owed /\ hold = "short")
    /\ pc' = "poll" /\ left' = Poll /\ late' = 0
    /\ lasted' = 0
    /\ UNCHANGED <<level, same, rested, prev, cur, hold_time, xTickCount>>

(* After vTaskDelay: prev = cur.                                           *)
Polled ==
    /\ pc = "poll" /\ left = 0
    /\ pc' = "sample"
    /\ prev' = cur
    /\ UNCHANGED <<contacts, left, cur, hold_time, late, xTickCount, button_cmd, owed>>

Task == Sample \/ Notice \/ Deglitched \/ Spin \/ Report \/ Polled

(* The app task takes a report.                                            *)
Fetch ==
    /\ button_cmd # <<>>
    /\ button_cmd' = Tail(button_cmd)
    /\ UNCHANGED <<contacts, task, late, xTickCount, owed>>

Ready == pc \notin {"deglitch", "poll"} \/ left = 0

SysTick ==
    /\ Ready => late < Late
    /\ level = "down" => same < MaxHold
    /\ late' = IF Ready THEN late + 1 ELSE 0
    /\ left' = IF left > 0 THEN left - 1 ELSE 0
    /\ xTickCount' = (xTickCount + 1) % Width
    /\ same' = IF same < MaxHold THEN same + 1 ELSE same
    /\ UNCHANGED <<level, rested, lasted, pc, prev, cur, hold_time, button_cmd, owed>>

Next == Press \/ Release \/ Task \/ Fetch \/ SysTick

(* The task has its turns and the tick comes; nothing is asked of the      *)
(* finger or the app task.                                                 *)
Spec == Init /\ [][Next]_vars /\ WF_vars(Task) /\ WF_vars(SysTick)

-----------------------------------------------------------------------------
(* Every variable keeps the shape the code gives it.                       *)
TypeOK ==
    /\ {level, prev, cur} \subseteq {"up", "down"} /\ same \in 0 .. MaxHold
    /\ pc \in {"sample", "noticed", "deglitch", "spin", "released", "poll"}
    /\ left \in 0 .. Deglitch + Poll /\ late \in 0 .. Late
    /\ {hold_time, xTickCount} \subseteq 0 .. Width - 1
    /\ button_cmd \in Seq({"long", "short"}) /\ Len(button_cmd) <= Slots
    /\ rested \in BOOLEAN /\ owed \in BOOLEAN /\ lasted \in 0 .. MaxHold

(* A long press is reported only when the button was just held, without a  *)
(* break, for as long as LongHold less the time bounces are ignored and the*)
(* task waits for its turn; however the presses before it went and whenever*)
(* the tick counter wraps (button.c:27-40).                                *)
NoFalseLong ==
    [][Len(button_cmd') > Len(button_cmd) /\ button_cmd'[Len(button_cmd')] = "long"
          => lasted > LongHold - Deglitch - 2 * Late]_vars

(* The press of a button that was up for Rest ticks and then held for Need *)
(* ticks is reported as long; after a shorter rest it may go unseen, since *)
(* the task must sample the button up in between (button.c:15-55).         *)
LongHonoured == owed ~> ~owed
=============================================================================
