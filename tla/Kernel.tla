------------------------------- MODULE Kernel --------------------------------
(***************************************************************************)
(* The part of the FreeRTOS kernel every task of the keybox runs on: one   *)
(* queue (queue.c), the blocked, ready and suspended tasks and the tick    *)
(* (tasks.c), the interrupts and the context switch (portable/GCC/RISC-V). *)
(* A step is what runs with interrupts masked, or alone under a suspended  *)
(* scheduler; interrupts come between any two steps.                       *)
(* As in the firmware, a queue has one task that receives, an interrupt and*)
(* a task that send without waiting, and tasks sleep in vTaskDelay.        *)
(***************************************************************************)
EXTENDS Integers, FiniteSets, FiniteSetsExt

CONSTANTS
    Reader,         \* the task that receives: led, keyfob, app, a link's receiver
    Sleeper,        \* a task that sleeps, computes and sends: button, app
    Idle,           \* the idle task
    Values, NoItem, \* items of the queue; no item
    Length,         \* uxLength
    portMAX_DELAY,  \* the largest tick; as a block time: for ever
    Waits, Delays,  \* block times of xQueueReceive, delays of vTaskDelay
    OverflowWidth,  \* bound: xNumOfOverflows counts modulo this
    MaxPended       \* bound: ticks during one suspension of the scheduler

Tasks == {Reader, Sleeper, Idle}

ASSUME KernelAssumption ==
    /\ Reader # Sleeper /\ Reader # Idle /\ Sleeper # Idle
    /\ NoItem \notin Values
    /\ Length \in Nat \ {0} /\ portMAX_DELAY \in Nat \ {0}
    /\ Waits \subseteq 0 .. portMAX_DELAY
    /\ Delays \subseteq 1 .. portMAX_DELAY - 1
    /\ OverflowWidth \in Nat \ {0} /\ MaxPended \in Nat

VARIABLES
    pc, then,       \* where a task is in its kernel call; and after xTaskResumeAll
    state,          \* pxContainer of a task's xStateListItem
    event,          \* pxContainer of a task's xEventListItem
    xItemValue,     \* when a delayed task must wake; 0 off the delayed lists
    pxCurrentTCB, uxSchedulerSuspended, xYieldPending,
    swi,            \* Software_IRQn is pending: portYIELD
    xTickCount, xNumOfOverflows, xPendedTicks, xNextTaskUnblockTime,
    storage,        \* the ring of Queue_t; NoItem where an item has been copied out
    pcWriteTo, pcReadFrom, uxMessagesWaiting, cTxLock,  \* the rest of Queue_t
    got,            \* pvBuffer of the Reader between a receive and the next
    left,           \* history: ticks to be counted until the task's time is over
    xTicksToWait, xEntryTimeSet, xTimeOut   \* locals of xQueueReceive

tasks == <<state, event, xItemValue>>
scheduler == <<pxCurrentTCB, uxSchedulerSuspended, xYieldPending, swi>>
clock == <<xTickCount, xNumOfOverflows, xPendedTicks, xNextTaskUnblockTime>>
data == <<storage, pcWriteTo, pcReadFrom, uxMessagesWaiting, got>>
locals == <<xTicksToWait, xEntryTimeSet, xTimeOut>>
control == <<pc, then>>
vars == <<control, tasks, scheduler, clock, data, cTxLock, left, locals>>

Width == portMAX_DELAY + 1
Unlocked == -1

uxPriority(t) == IF t = Idle THEN 0 ELSE 5

Init ==
    /\ pc = [t \in Tasks |-> IF t = Reader THEN "call" ELSE "work"]
    /\ then = [t \in Tasks |-> "yield"]
    /\ state = [t \in Tasks |-> "ready"]
    /\ event = [t \in Tasks |-> "none"]
    /\ xItemValue = [t \in Tasks |-> 0]
    /\ pxCurrentTCB \in {Reader, Sleeper}
    /\ uxSchedulerSuspended = FALSE /\ xYieldPending = FALSE /\ swi = FALSE
    /\ xTickCount = 0 /\ xNumOfOverflows = 0 /\ xPendedTicks = 0
    /\ xNextTaskUnblockTime = portMAX_DELAY
    /\ storage = [i \in 0 .. Length - 1 |-> NoItem]
    /\ pcWriteTo = 0 /\ pcReadFrom = Length - 1 /\ uxMessagesWaiting = 0
    /\ cTxLock = Unlocked
    /\ got = NoItem
    /\ left = [t \in Tasks |-> 0]
    /\ xTicksToWait = 0 /\ xEntryTimeSet = FALSE
    /\ xTimeOut = [overflows |-> 0, entering |-> 0]

-----------------------------------------------------------------------------
(* Mutant of HeadValue: the tail.                                          *)
HeadValue_Tail(s) == IF s = {} THEN portMAX_DELAY ELSE Max({xItemValue[t] : t \in s})

(* Lists.  Value of the head of a delayed list holding the tasks s.        *)
HeadValue(s) == IF s = {} THEN portMAX_DELAY ELSE Min({xItemValue[t] : t \in s})

On(l) == {t \in Tasks : state[t] = l}
Waiting == {t \in Tasks : event[t] = "receive"}

(* The code outside a critical section.                                    *)
Interruptible == ~\E t \in Tasks : pc[t] = "unpend"

Running(t) == pxCurrentTCB = t /\ ~swi

Goto(t, l) == pc' = [pc EXCEPT ![t] = l] /\ UNCHANGED then

(* On to xTaskResumeAll, and after it to l.                                *)
ResumeThen(t, l) == pc' = [pc EXCEPT ![t] = "resume"] /\ then' = [then EXCEPT ![t] = l]

(* xTaskRemoveFromEventList on the queue's list, if a task waits there; it *)
(* returns whether that task is of higher priority than the current one.   *)
Outranks == \E t \in Waiting : uxPriority(t) > uxPriority(pxCurrentTCB)

(* Mutant of WakeWaiting: no yield is noted.                               *)
WakeWaiting_NoYield ==
    /\ event' = [t \in Tasks |-> IF t \notin Waiting THEN event[t]
                                 ELSE IF uxSchedulerSuspended THEN "pending" ELSE "none"]
    /\ state' = [t \in Tasks |-> IF t \in Waiting /\ ~uxSchedulerSuspended THEN "ready"
                                 ELSE state[t]]
    /\ xItemValue' = [t \in Tasks |-> IF t \in Waiting /\ ~uxSchedulerSuspended THEN 0
                                      ELSE xItemValue[t]]
    /\ UNCHANGED xYieldPending

WakeWaiting ==
    /\ event' = [t \in Tasks |-> IF t \notin Waiting THEN event[t]
                                 ELSE IF uxSchedulerSuspended THEN "pending" ELSE "none"]
    /\ state' = [t \in Tasks |-> IF t \in Waiting /\ ~uxSchedulerSuspended THEN "ready"
                                 ELSE state[t]]
    /\ xItemValue' = [t \in Tasks |-> IF t \in Waiting /\ ~uxSchedulerSuspended THEN 0
                                      ELSE xItemValue[t]]
    /\ xYieldPending' = (xYieldPending \/ Outranks)

(* Mutant of Block: every wait is for ever.                                *)
Block_ForEver(t, ticks, indefinitely) ==
    /\ state' = [state EXCEPT ![t] = IF indefinitely THEN "suspended" ELSE "delayed"]
    /\ xItemValue' = [xItemValue EXCEPT ![t] = (xTickCount + ticks) % Width]
    /\ UNCHANGED xNextTaskUnblockTime

(* prvAddCurrentTaskToDelayedList.                                         *)
Block(t, ticks, indefinitely) ==
    LET wake == (xTickCount + ticks) % Width
        list == IF indefinitely /\ ticks = portMAX_DELAY THEN "suspended"
                ELSE IF wake < xTickCount THEN "overflow" ELSE "delayed"
    IN  /\ state' = [state EXCEPT ![t] = list]
        /\ xItemValue' = [xItemValue EXCEPT ![t] = IF list = "suspended" THEN 0 ELSE wake]
        /\ xNextTaskUnblockTime' =
              IF list = "delayed" /\ wake < xNextTaskUnblockTime THEN wake ELSE xNextTaskUnblockTime

-----------------------------------------------------------------------------
(* Mutant of After: no wrap.                                               *)
After_NoWrap(i) == i + 1

(* Ring buffer.                                                            *)
After(i) == (i + 1) % Length

(* prvCopyDataToQueue to the back.                                         *)
CopyIn(v) ==
    /\ storage' = [storage EXCEPT ![pcWriteTo] = v]
    /\ pcWriteTo' = After(pcWriteTo)
    /\ uxMessagesWaiting' = uxMessagesWaiting + 1
    /\ UNCHANGED <<pcReadFrom, got>>

(* Mutant of CopyOut: the item is copied before pcReadFrom moves on.       *)
CopyOut_ThenMove ==
    /\ pcReadFrom' = After(pcReadFrom)
    /\ got' = storage[pcReadFrom]
    /\ storage' = [storage EXCEPT ![pcReadFrom] = NoItem]
    /\ uxMessagesWaiting' = uxMessagesWaiting - 1
    /\ UNCHANGED pcWriteTo

(* prvCopyDataFromQueue.                                                   *)
CopyOut ==
    /\ pcReadFrom' = After(pcReadFrom)
    /\ got' = storage[After(pcReadFrom)]
    /\ storage' = [storage EXCEPT ![After(pcReadFrom)] = NoItem]
    /\ uxMessagesWaiting' = uxMessagesWaiting - 1
    /\ UNCHANGED pcWriteTo

-----------------------------------------------------------------------------
(* Mutant of Switched: the lists are not switched.                         *)
Switched_Not(l) == l

(* Clock.  The list a task is on after taskSWITCH_DELAYED_LISTS.           *)
Switched(l) == CASE l = "delayed" -> "overflow" [] l = "overflow" -> "delayed" [] OTHER -> l

(* xTaskIncrementTick with the scheduler running.                          *)
xTaskIncrementTick ==
    LET tick  == (xTickCount + 1) % Width
        lists == [t \in Tasks |-> IF tick = 0 THEN Switched(state[t]) ELSE state[t]]
        next  == IF tick = 0 THEN HeadValue({t \in Tasks : lists[t] = "delayed"})
                 ELSE xNextTaskUnblockTime
        due   == {t \in Tasks : lists[t] = "delayed" /\ tick >= next /\ xItemValue[t] <= tick}
    IN  /\ xTickCount' = tick
        /\ xNumOfOverflows' = IF tick = 0 THEN (xNumOfOverflows + 1) % OverflowWidth
                              ELSE xNumOfOverflows
        /\ state' = [t \in Tasks |-> IF t \in due THEN "ready" ELSE lists[t]]
        /\ event' = [t \in Tasks |-> IF t \in due THEN "none" ELSE event[t]]
        /\ xNextTaskUnblockTime' =
              IF tick >= next THEN HeadValue({t \in Tasks : lists[t] = "delayed"} \ due) ELSE next
        /\ left' = [t \in Tasks |-> IF left[t] \in {0, portMAX_DELAY} THEN left[t]
                                    ELSE left[t] - 1]
        /\ xItemValue' = [t \in Tasks |-> IF t \in due THEN 0 ELSE xItemValue[t]]

(* Its result: a task as good as the current one woke, the current one     *)
(* shares its priority, or a yield is owed.                                *)
SwitchRequired ==
    \/ \E t \in Tasks : /\ state[t] # "ready" /\ state'[t] = "ready"
                        /\ uxPriority(t) >= uxPriority(pxCurrentTCB)
    \/ Cardinality({t \in Tasks : state'[t] = "ready" /\ uxPriority(t) = uxPriority(pxCurrentTCB)}) > 1
    \/ xYieldPending

(* SysTick_Handler.                                                        *)
SysTick ==
    /\ Interruptible
    /\ IF uxSchedulerSuspended
       THEN /\ xPendedTicks < MaxPended
            /\ xPendedTicks' = xPendedTicks + 1
            /\ UNCHANGED <<tasks, swi, xTickCount, xNumOfOverflows, xNextTaskUnblockTime, left>>
       ELSE /\ xTaskIncrementTick
            /\ swi' = (swi \/ SwitchRequired)
            /\ UNCHANGED xPendedTicks
    /\ UNCHANGED <<control, pxCurrentTCB, uxSchedulerSuspended, xYieldPending, data, cTxLock, locals>>

(* The software interrupt: vTaskSwitchContext.  Among the best ready tasks *)
(* listGET_OWNER_OF_NEXT_ENTRY takes turns.                                *)
SwitchTo(t) ==
    /\ Interruptible /\ swi
    /\ swi' = FALSE
    /\ IF uxSchedulerSuspended
       THEN t = pxCurrentTCB /\ xYieldPending' = TRUE /\ UNCHANGED pxCurrentTCB
       ELSE /\ state[t] = "ready" /\ \A o \in On("ready") : uxPriority(o) <= uxPriority(t)
            /\ xYieldPending' = FALSE /\ pxCurrentTCB' = t
    /\ UNCHANGED <<control, tasks, uxSchedulerSuspended, clock, data, cTxLock, left, locals>>

(* Mutant of xQueueSendFromISR: a locked queue does not count the item.    *)
xQueueSendFromISR_LockNotCounted(v) ==
    /\ Interruptible
    /\ uxMessagesWaiting < Length
    /\ CopyIn(v)
    /\ IF cTxLock = Unlocked THEN WakeWaiting ELSE UNCHANGED <<tasks, xYieldPending>>
    /\ UNCHANGED <<control, pxCurrentTCB, uxSchedulerSuspended, swi, clock, cTxLock, left, locals>>

(* xQueueGenericSendFromISR as the links call it: no                       *)
(* pxHigherPriorityTaskWoken, so no context switch is asked for.           *)
xQueueSendFromISR(v) ==
    /\ Interruptible
    /\ uxMessagesWaiting < Length
    /\ CopyIn(v)
    /\ IF cTxLock = Unlocked
       THEN WakeWaiting /\ UNCHANGED cTxLock
       ELSE cTxLock' = cTxLock + 1 /\ UNCHANGED <<tasks, xYieldPending>>
    /\ UNCHANGED <<control, pxCurrentTCB, uxSchedulerSuspended, swi, clock, left, locals>>

-----------------------------------------------------------------------------
(* xTaskResumeAll, its critical section: the pending ready list, then the  *)
(* pended ticks one by one, then the yield that is owed.                   *)
Pending == {t \in Tasks : event[t] = "pending"}

ResumeAll(t) ==
    /\ Running(t) /\ pc[t] = "resume"
    /\ uxSchedulerSuspended' = FALSE
    /\ state' = [o \in Tasks |-> IF o \in Pending THEN "ready" ELSE state[o]]
    /\ event' = [o \in Tasks |-> IF o \in Pending THEN "none" ELSE event[o]]
    /\ xItemValue' = [o \in Tasks |-> IF o \in Pending THEN 0 ELSE xItemValue[o]]
    /\ xYieldPending' = (xYieldPending \/ \E o \in Pending : uxPriority(o) >= uxPriority(t))
    /\ xNextTaskUnblockTime' = IF Pending = {} THEN xNextTaskUnblockTime
                               ELSE HeadValue(On("delayed") \ Pending)
    /\ Goto(t, "unpend")
    /\ UNCHANGED <<pxCurrentTCB, swi, xTickCount, xNumOfOverflows, xPendedTicks, data,
                   cTxLock, left, locals>>

UnpendTick(t) ==
    /\ Running(t) /\ pc[t] = "unpend" /\ xPendedTicks > 0
    /\ xTaskIncrementTick
    /\ xYieldPending' = SwitchRequired
    /\ xPendedTicks' = xPendedTicks - 1
    /\ UNCHANGED <<control, pxCurrentTCB, uxSchedulerSuspended, swi, data, cTxLock, locals>>

(* Back in the caller's loop.                                              *)
Loop(t) == IF t = Reader THEN "take" ELSE "work"

(* The caller that has just blocked itself yields if this has not.         *)
Resumed(t) ==
    /\ Running(t) /\ pc[t] = "unpend" /\ xPendedTicks = 0
    /\ swi' = xYieldPending
    /\ Goto(t, IF then[t] = "yield" /\ xYieldPending THEN Loop(t) ELSE then[t])
    /\ UNCHANGED <<tasks, pxCurrentTCB, uxSchedulerSuspended, xYieldPending, clock, data, cTxLock,
                   left, locals>>

Yield(t) ==
    /\ Running(t) /\ pc[t] = "yield"
    /\ swi' = TRUE
    /\ Goto(t, Loop(t))
    /\ UNCHANGED <<tasks, pxCurrentTCB, uxSchedulerSuspended, xYieldPending, clock, data, cTxLock,
                   left, locals>>

vTaskSuspendAll == uxSchedulerSuspended' = TRUE /\ UNCHANGED <<pxCurrentTCB, xYieldPending, swi>>

-----------------------------------------------------------------------------
(* xQueueReceive, called with block time w.                                *)
Call(w) ==
    /\ Running(Reader) /\ pc[Reader] = "call"
    /\ left' = [left EXCEPT ![Reader] = w]
    /\ xTicksToWait' = w /\ UNCHANGED <<xEntryTimeSet, xTimeOut>>
    /\ got' = NoItem
    /\ Goto(Reader, "take")
    /\ UNCHANGED <<tasks, scheduler, clock, storage, pcWriteTo, pcReadFrom, uxMessagesWaiting, cTxLock>>

(* Back to the caller: the locals go.                                      *)
Return ==
    /\ Goto(Reader, "call")
    /\ xTicksToWait' = 0 /\ xEntryTimeSet' = FALSE /\ xTimeOut' = [overflows |-> 0, entering |-> 0]
    /\ left' = [left EXCEPT ![Reader] = 0]

Take ==
    /\ Running(Reader) /\ pc[Reader] = "take" /\ uxMessagesWaiting > 0
    /\ CopyOut
    /\ Return
    /\ UNCHANGED <<tasks, scheduler, clock, cTxLock>>

TakeNothing ==
    /\ Running(Reader) /\ pc[Reader] = "take" /\ uxMessagesWaiting = 0 /\ xTicksToWait = 0
    /\ Return
    /\ UNCHANGED <<tasks, scheduler, clock, data, cTxLock>>

Now == [overflows |-> xNumOfOverflows, entering |-> xTickCount]

TakeLater ==
    /\ Running(Reader) /\ pc[Reader] = "take" /\ uxMessagesWaiting = 0 /\ xTicksToWait # 0
    /\ xEntryTimeSet' = TRUE
    /\ xTimeOut' = IF xEntryTimeSet THEN xTimeOut ELSE Now
    /\ left' = [left EXCEPT ![Reader] = IF xEntryTimeSet THEN left[Reader] ELSE xTicksToWait]
    /\ Goto(Reader, "suspend")
    /\ UNCHANGED <<tasks, scheduler, clock, data, cTxLock, xTicksToWait>>

Suspend ==
    /\ Running(Reader) /\ pc[Reader] = "suspend"
    /\ vTaskSuspendAll
    /\ Goto(Reader, "lock")
    /\ UNCHANGED <<tasks, clock, data, cTxLock, left, locals>>

(* prvLockQueue.                                                           *)
Lock ==
    /\ Running(Reader) /\ pc[Reader] = "lock"
    /\ cTxLock' = IF cTxLock = Unlocked THEN 0 ELSE cTxLock
    /\ Goto(Reader, "check")
    /\ UNCHANGED <<tasks, scheduler, clock, data, left, locals>>

(* xTaskCheckForTimeOut.                                                   *)
Elapsed == (xTickCount - xTimeOut.entering) % Width

(* Mutant of TimedOut: any overflow counts as time over.                   *)
TimedOut_AnyOverflow ==
    /\ xTicksToWait # portMAX_DELAY
    /\ xNumOfOverflows # xTimeOut.overflows \/ Elapsed >= xTicksToWait

TimedOut ==
    /\ xTicksToWait # portMAX_DELAY
    /\ \/ xNumOfOverflows # xTimeOut.overflows /\ xTickCount >= xTimeOut.entering
       \/ Elapsed >= xTicksToWait

Check ==
    /\ Running(Reader) /\ pc[Reader] = "check"
    /\ IF TimedOut
       THEN xTicksToWait' = 0 /\ Goto(Reader, "unlock_expired") /\ UNCHANGED xTimeOut
       ELSE /\ Goto(Reader, "empty")
            /\ IF xTicksToWait = portMAX_DELAY
               THEN UNCHANGED <<xTicksToWait, xTimeOut>>
               ELSE xTicksToWait' = xTicksToWait - Elapsed /\ xTimeOut' = Now
    /\ UNCHANGED <<tasks, scheduler, clock, data, cTxLock, left, xEntryTimeSet>>

(* Mutant of StillEmpty: the queue is not looked at again.                 *)
StillEmpty_Assumed ==
    /\ Running(Reader) /\ pc[Reader] = "empty"
    /\ Goto(Reader, "place")
    /\ UNCHANGED <<tasks, scheduler, clock, data, cTxLock, left, locals>>

(* prvIsQueueEmpty.                                                        *)
StillEmpty ==
    /\ Running(Reader) /\ pc[Reader] = "empty"
    /\ Goto(Reader, IF uxMessagesWaiting = 0 THEN "place" ELSE "unlock_again")
    /\ UNCHANGED <<tasks, scheduler, clock, data, cTxLock, left, locals>>

(* vTaskPlaceOnEventList.                                                  *)
Place ==
    /\ Running(Reader) /\ pc[Reader] = "place"
    /\ event' = [event EXCEPT ![Reader] = "receive"]
    /\ Block(Reader, xTicksToWait, TRUE)
    /\ Goto(Reader, "unlock")
    /\ UNCHANGED <<scheduler, xTickCount, xNumOfOverflows, xPendedTicks, data, cTxLock, left, locals>>

(* prvUnlockQueue: what was posted while the queue was locked wakes now.   *)
Unlock ==
    /\ Running(Reader) /\ pc[Reader] \in {"unlock", "unlock_again", "unlock_expired"}
    /\ IF cTxLock > 0 THEN WakeWaiting ELSE UNCHANGED <<tasks, xYieldPending>>
    /\ cTxLock' = Unlocked
    /\ ResumeThen(Reader, CASE pc[Reader] = "unlock" -> "yield"
                            [] pc[Reader] = "unlock_again" -> "take"
                            [] OTHER -> "expired")
    /\ UNCHANGED <<pxCurrentTCB, uxSchedulerSuspended, swi, clock, data, left, locals>>

(* The block time is over: once more whether the queue is empty.           *)
Expired ==
    /\ Running(Reader) /\ pc[Reader] = "expired"
    /\ IF uxMessagesWaiting = 0 THEN Return
       ELSE Goto(Reader, "take") /\ UNCHANGED <<left, locals>>
    /\ UNCHANGED <<tasks, scheduler, clock, data, cTxLock>>

xQueueReceive ==
    \/ \E w \in Waits : Call(w)
    \/ Take \/ TakeNothing \/ TakeLater \/ Suspend \/ Lock \/ Check \/ StillEmpty \/ Place
    \/ Unlock \/ Expired

-----------------------------------------------------------------------------
(* xQueueSend with block time 0; a full queue drops the item.              *)
xQueueSend(v) ==
    /\ Running(Sleeper) /\ pc[Sleeper] = "work"
    /\ uxMessagesWaiting < Length
    /\ CopyIn(v)
    /\ WakeWaiting
    /\ swi' = Outranks
    /\ UNCHANGED <<control, pxCurrentTCB, uxSchedulerSuspended, clock, cTxLock, left, locals>>

(* vTaskDelay(d).                                                          *)
vTaskDelay(d) ==
    /\ Running(Sleeper) /\ pc[Sleeper] = "work"
    /\ vTaskSuspendAll
    /\ left' = [left EXCEPT ![Sleeper] = d]
    /\ Goto(Sleeper, "delay")
    /\ UNCHANGED <<tasks, clock, data, cTxLock, locals>>

Sleep ==
    /\ Running(Sleeper) /\ pc[Sleeper] = "delay"
    /\ Block(Sleeper, left[Sleeper], FALSE)
    /\ ResumeThen(Sleeper, "yield")
    /\ UNCHANGED <<event, scheduler, xTickCount, xNumOfOverflows, xPendedTicks, data, cTxLock,
                   left, locals>>

(* What the Sleeper does of its own accord: send, sleep, or neither.       *)
Decide == (\E v \in Values : xQueueSend(v)) \/ (\E d \in Delays : vTaskDelay(d))

InKernel(t) == ResumeAll(t) \/ UnpendTick(t) \/ Resumed(t) \/ Yield(t)

Step(t) ==
    \/ InKernel(t)
    \/ t = Reader /\ xQueueReceive
    \/ t = Sleeper /\ Sleep

Next ==
    \/ \E t \in Tasks : Step(t) \/ SwitchTo(t)
    \/ Decide
    \/ SysTick
    \/ \E v \in Values : xQueueSendFromISR(v)

(* The SysTick keeps coming; between two interrupts the current task runs; *)
(* tasks of one priority take turns.                                       *)
Fairness ==
    /\ SF_vars(SysTick)
    /\ \A t \in {Reader, Sleeper} : SF_vars(Step(t)) /\ SF_vars(SwitchTo(t))

Spec == Init /\ [][Next]_vars /\ Fairness

-----------------------------------------------------------------------------
ReaderPlaces == {"call", "take", "suspend", "lock", "check", "empty", "place", "unlock",
                 "unlock_again", "unlock_expired", "expired", "resume", "unpend", "yield"}
SleeperPlaces == {"work", "delay", "resume", "unpend", "yield"}

(* Every variable keeps the shape the code gives it.                       *)
TypeOK ==
    /\ pc[Reader] \in ReaderPlaces /\ pc[Sleeper] \in SleeperPlaces /\ pc[Idle] = "work"
    /\ then \in [Tasks -> {"yield", "take", "expired"}]
    /\ state \in [Tasks -> {"ready", "delayed", "overflow", "suspended"}]
    /\ event \in [Tasks -> {"none", "receive", "pending"}]
    /\ xItemValue \in [Tasks -> 0 .. portMAX_DELAY]
    /\ pxCurrentTCB \in Tasks
    /\ uxSchedulerSuspended \in BOOLEAN /\ xYieldPending \in BOOLEAN /\ swi \in BOOLEAN
    /\ xTickCount \in 0 .. portMAX_DELAY /\ xNumOfOverflows \in 0 .. OverflowWidth - 1
    /\ xPendedTicks \in 0 .. MaxPended /\ xNextTaskUnblockTime \in 0 .. portMAX_DELAY
    /\ storage \in [0 .. Length - 1 -> Values \cup {NoItem}]
    /\ pcWriteTo \in 0 .. Length - 1 /\ pcReadFrom \in 0 .. Length - 1
    /\ uxMessagesWaiting \in 0 .. Length /\ cTxLock \in Unlocked .. Length
    /\ got \in Values \cup {NoItem}
    /\ left \in [Tasks -> 0 .. portMAX_DELAY]
    /\ xTicksToWait \in 0 .. portMAX_DELAY /\ xEntryTimeSet \in BOOLEAN
    /\ xTimeOut \in [overflows : 0 .. OverflowWidth - 1, entering : 0 .. portMAX_DELAY]

(* No lost wake-up: a task that waits on a queue that holds an item will   *)
(* be woken by the unlock in progress (queue.c:1352-1492, 1069-1168,       *)
(* 2264-2381).                                                             *)
NoLostWakeup == event[Reader] = "receive" /\ uxMessagesWaiting > 0 => cTxLock > 0

(* Across the wrap of the tick counter: who is on the delayed list wakes   *)
(* later than now and is not forgotten by xNextTaskUnblockTime, who is on  *)
(* the overflow list wakes after the wrap, so that the delayed list is     *)
(* empty when the lists are switched, as the kernel asserts                *)
(* (tasks.c:206, 2770, 5352-5380).                                         *)
WakeTimesAhead ==
    \A t \in Tasks :
        /\ state[t] = "delayed" => /\ xTickCount < xItemValue[t]
                                   /\ xNextTaskUnblockTime <= xItemValue[t]
        /\ state[t] = "overflow" => xItemValue[t] < xTickCount

(* A task that called vTaskDelay sleeps exactly as many counted ticks as   *)
(* it asked for (tasks.c:1346-1384, 2736-2846).                            *)
SleepsExactly ==
    pc[Sleeper] # "delay" =>
        (state[Sleeper] \in {"delayed", "overflow"} <=> left[Sleeper] > 0)

(* A ready task that outranks the running one has a context switch coming: *)
(* at once, or with the next tick (tasks.c:3231-3241, 2881, 2306).         *)
SwitchOwed ==
    (\E t \in On("ready") : uxPriority(t) > uxPriority(pxCurrentTCB)) => swi \/ xYieldPending

(* xQueueReceive comes back empty only when the whole block time has been  *)
(* counted since it found the queue empty, whatever came between, and not  *)
(* at all when it waits for ever (queue.c:1447-1490, tasks.c:3320).        *)
EmptyOnlyAfterWait ==
    [][pc[Reader] # "call" /\ pc'[Reader] = "call" /\ uxMessagesWaiting' = uxMessagesWaiting
          => left[Reader] = 0]_vars

(* The ring buffer is a FIFO that loses nothing but what does not fit and  *)
(* hands each item over once (queue.c:2160-2261).                          *)
Items == [i \in 1 .. uxMessagesWaiting |-> storage[(pcReadFrom + i) % Length]]
Fifo == INSTANCE BoundedQueue WITH queue <- Items
ImplementsQueue == Fifo!Spec

(* A receive that is under way takes what the queue holds, whenever it was *)
(* sent: before it blocked, while it was blocking, or after                *)
(* (queue.c:1352-1492; led.c:35, ble.c:207, keyfob.c:52, main.c:577).      *)
MessageTaken == (pc[Reader] # "call" /\ uxMessagesWaiting > 0) ~> pc[Reader] = "call"

(* A blocked receive with a block time has the processor again             *)
(* (tasks.c:5352-5380, 2764-2846).                                         *)
WaitEnds ==
    (event[Reader] # "none" /\ left[Reader] # portMAX_DELAY)
        ~> (event[Reader] = "none" /\ pxCurrentTCB = Reader)

=============================================================================
