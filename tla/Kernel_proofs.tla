---------------------------- MODULE Kernel_proofs ----------------------------
(***************************************************************************)
(* Proofs about Kernel for a queue of any length, a tick counter of any    *)
(* width, any block times and delays.                                      *)
(***************************************************************************)
EXTENDS Kernel, SequenceTheorems, TLAPS

(* Inside a suspension of the scheduler.                                   *)
ReaderSuspends == {"lock", "check", "empty", "place", "unlock", "unlock_again", "unlock_expired", "resume"}
SleeperSuspends == {"delay", "resume"}

(* Only the task that suspended the scheduler runs.                        *)
Control ==
    /\ pc \in [Tasks -> ReaderPlaces \cup SleeperPlaces]
    /\ pc[Reader] \in ReaderPlaces /\ pc[Sleeper] \in SleeperPlaces /\ pc[Idle] = "work"
    /\ then \in [Tasks -> {"yield", "take", "expired"}] /\ then[Sleeper] = "yield"
    /\ pc[Reader] \in ReaderSuspends => uxSchedulerSuspended /\ pxCurrentTCB = Reader
    /\ pc[Sleeper] \in SleeperSuspends => uxSchedulerSuspended /\ pxCurrentTCB = Sleeper

LEMMA TaskNames ==
  /\ Reader \in Tasks /\ Sleeper \in Tasks /\ Idle \in Tasks
  /\ Reader # Sleeper /\ Reader # Idle /\ Sleeper # Idle
  /\ \A t \in Tasks : t = Reader \/ t = Sleeper \/ t = Idle
  BY KernelAssumption DEF Tasks

(* The tasks that may be in xTaskResumeAll or yield.                       *)
LEMMA KernelTasks ==
  ASSUME Control, NEW t \in Tasks, InKernel(t)
  PROVE  t \in {Reader, Sleeper}
  BY TaskNames DEF Control, InKernel, ResumeAll, UnpendTick, Resumed, Yield

LEMMA ControlKept ==
  ASSUME Control, [Next]_vars
  PROVE  Control'
<1>. USE TaskNames DEF Control, ReaderPlaces, SleeperPlaces, ReaderSuspends, SleeperSuspends
<1>1. CASE SysTick \/ \E v \in Values : xQueueSendFromISR(v) \/ xQueueSend(v)
  BY <1>1 DEF SysTick, xQueueSendFromISR, xQueueSend, control
<1>2. ASSUME NEW t \in Tasks, SwitchTo(t) PROVE Control'
  BY <1>2 DEF SwitchTo, control
<1>3. ASSUME NEW t \in Tasks, InKernel(t) PROVE Control'
  <2>1. t \in {Reader, Sleeper}
    BY <1>3, KernelTasks
  <2>2. CASE ResumeAll(t)
    BY <2>1, <2>2 DEF ResumeAll, Running, Goto
  <2>3. CASE UnpendTick(t)
    BY <2>3 DEF UnpendTick, control
  <2>4. CASE Resumed(t)
    BY <2>1, <2>4 DEF Resumed, Running, Goto, Loop
  <2>5. CASE Yield(t)
    BY <2>1, <2>5 DEF Yield, Running, Goto, Loop
  <2>. QED
    BY <1>3, <2>2, <2>3, <2>4, <2>5 DEF InKernel
<1>4. CASE \E w \in Waits : Call(w)
  BY <1>4 DEF Call, Running, Goto, scheduler
<1>5. CASE Take \/ TakeNothing \/ TakeLater
  BY <1>5 DEF Take, TakeNothing, TakeLater, Return, Running, Goto, scheduler
<1>6. CASE Suspend
  BY <1>6 DEF Suspend, vTaskSuspendAll, Running, Goto
<1>7. CASE Lock \/ StillEmpty
  BY <1>7 DEF Lock, StillEmpty, Running, Goto, scheduler
<1>8. CASE Check
  BY <1>8 DEF Check, Running, Goto, scheduler
<1>9. CASE Place
  BY <1>9 DEF Place, Running, Goto, scheduler
<1>10. CASE Unlock
  BY <1>10 DEF Unlock, ResumeThen, Running
<1>11. CASE Expired
  BY <1>11 DEF Expired, Return, Running, Goto, scheduler
<1>12. CASE \E d \in Delays : vTaskDelay(d)
  BY <1>12 DEF vTaskDelay, vTaskSuspendAll, Running, Goto
<1>13. CASE Sleep
  BY <1>13 DEF Sleep, ResumeThen, Running, scheduler
<1>14. CASE UNCHANGED vars
  BY <1>14 DEF vars, control, scheduler
<1>. QED
  BY <1>1, <1>2, <1>3, <1>4, <1>5, <1>6, <1>7, <1>8, <1>9, <1>10, <1>11, <1>12, <1>13, <1>14
     DEF Next, Step, Decide, xQueueReceive

LEMMA InitControl == Init => Control
  BY TaskNames DEF Init, Control, ReaderPlaces, SleeperPlaces, ReaderSuspends, SleeperSuspends

-----------------------------------------------------------------------------
(* A queue is locked only inside xQueueReceive, and counts what interrupts *)
(* sent to it since.                                                       *)
ReaderLocks == {"check", "empty", "place", "unlock", "unlock_again", "unlock_expired"}

Locked ==
    /\ uxMessagesWaiting \in 0 .. Length
    /\ IF pc[Reader] \in ReaderLocks THEN cTxLock \in 0 .. uxMessagesWaiting ELSE cTxLock = Unlocked

LEMMA LockedKept ==
  ASSUME Control, Locked, [Next]_vars
  PROVE  Locked'
<1>. USE TaskNames, KernelAssumption
     DEF Control, Locked, ReaderPlaces, SleeperPlaces, ReaderSuspends, SleeperSuspends, ReaderLocks, Unlocked
<1>1. CASE SysTick \/ \E t \in Tasks : SwitchTo(t)
  BY <1>1 DEF SysTick, SwitchTo, control, data
<1>2. CASE \E v \in Values : xQueueSendFromISR(v)
  BY <1>2 DEF xQueueSendFromISR, control, CopyIn
<1>3. CASE \E v \in Values : xQueueSend(v)
  BY <1>3 DEF xQueueSend, control, CopyIn, Running
<1>4. ASSUME NEW t \in Tasks, InKernel(t) PROVE Locked'
  <2>1. t \in {Reader, Sleeper}
    BY <1>4, KernelTasks
  <2>. QED
    BY <1>4, <2>1 DEF InKernel, ResumeAll, UnpendTick, Resumed, Yield, Goto, Loop, control, data
<1>5. CASE \E w \in Waits : Call(w)
  BY <1>5 DEF Call, Goto
<1>6. CASE Take
  BY <1>6 DEF Take, Return, CopyOut, Goto
<1>7. CASE TakeNothing \/ TakeLater \/ Suspend
  BY <1>7 DEF TakeNothing, TakeLater, Suspend, Return, Goto, data
<1>8. CASE Lock
  BY <1>8 DEF Lock, Goto, data
<1>9. CASE Check
  BY <1>9 DEF Check, Goto, data
<1>10. CASE StillEmpty
  BY <1>10 DEF StillEmpty, Goto, data
<1>11. CASE Place
  BY <1>11 DEF Place, Goto, data
<1>12. CASE Unlock
  BY <1>12 DEF Unlock, ResumeThen, data
<1>13. CASE Expired
  BY <1>13 DEF Expired, Return, Goto, data
<1>14. CASE (\E d \in Delays : vTaskDelay(d)) \/ Sleep
  BY <1>14 DEF vTaskDelay, Sleep, ResumeThen, Goto, data
<1>15. CASE UNCHANGED vars
  BY <1>15 DEF vars, control, data
<1>. QED
  BY <1>1, <1>2, <1>3, <1>4, <1>5, <1>6, <1>7, <1>8, <1>9, <1>10, <1>11, <1>12, <1>13, <1>14, <1>15
     DEF Next, Step, Decide, xQueueReceive

LEMMA InitLocked == Init => Locked
  BY KernelAssumption, TaskNames DEF Init, Locked, ReaderLocks

-----------------------------------------------------------------------------
(* The lists of events.  A Reader about to place itself on the queue's list*)
(* has looked at the queue under its lock.                                 *)
Events ==
    /\ event \in [Tasks -> {"none", "receive", "pending"}]
    /\ NoLostWakeup
    /\ pc[Reader] = "place" /\ uxMessagesWaiting > 0 => cTxLock > 0

LEMMA WakeEvents ==
  ASSUME Events, WakeWaiting
  PROVE  event' \in [Tasks -> {"none", "receive", "pending"}] /\ event'[Reader] # "receive"
  BY TaskNames DEF Events, WakeWaiting, Waiting

LEMMA TickEvents ==
  ASSUME Events, xTaskIncrementTick
  PROVE  /\ event' \in [Tasks -> {"none", "receive", "pending"}]
         /\ event'[Reader] = "receive" => event[Reader] = "receive"
  BY TaskNames DEF Events, xTaskIncrementTick

LEMMA EventsKept ==
  ASSUME Control, Locked, Events, [Next]_vars
  PROVE  Events'
<1>. USE TaskNames, KernelAssumption
     DEF Control, Locked, Events, NoLostWakeup, ReaderPlaces, SleeperPlaces, ReaderSuspends,
         SleeperSuspends, ReaderLocks, Unlocked
<1>1. CASE SysTick
  <2>1. CASE uxSchedulerSuspended
    BY <1>1, <2>1 DEF SysTick, control, data, tasks
  <2>2. CASE ~uxSchedulerSuspended
    BY <1>1, <2>2, TickEvents DEF SysTick, control, data
  <2>. QED
    BY <2>1, <2>2
<1>2. CASE \E t \in Tasks : SwitchTo(t)
  BY <1>2 DEF SwitchTo, control, data, tasks
<1>3. CASE \E v \in Values : xQueueSendFromISR(v)
  <2>1. CASE cTxLock = Unlocked
    BY <1>3, <2>1, WakeEvents DEF xQueueSendFromISR, control
  <2>2. CASE cTxLock # Unlocked
    BY <1>3, <2>2 DEF xQueueSendFromISR, control, tasks, CopyIn
  <2>. QED
    BY <2>1, <2>2
<1>4. CASE \E v \in Values : xQueueSend(v)
  BY <1>4, WakeEvents DEF xQueueSend, control, Running
<1>5. ASSUME NEW t \in Tasks, InKernel(t) PROVE Events'
  <2>1. t \in {Reader, Sleeper}
    BY <1>5, KernelTasks
  <2>2. CASE ResumeAll(t)
    BY <2>1, <2>2 DEF ResumeAll, Goto, data
  <2>3. CASE UnpendTick(t)
    BY <2>3, TickEvents DEF UnpendTick, control, data
  <2>4. CASE Resumed(t) \/ Yield(t)
    BY <2>1, <2>4 DEF Resumed, Yield, Goto, Loop, data, tasks
  <2>. QED
    BY <1>5, <2>2, <2>3, <2>4 DEF InKernel
<1>6. CASE \E w \in Waits : Call(w)
  BY <1>6 DEF Call, Goto, tasks
<1>7. CASE Take
  BY <1>7 DEF Take, Return, CopyOut, Goto, tasks
<1>8. CASE TakeNothing \/ TakeLater \/ Suspend
  BY <1>8 DEF TakeNothing, TakeLater, Suspend, Return, Goto, data, tasks
<1>9. CASE Lock \/ Check
  BY <1>9 DEF Lock, Check, Goto, data, tasks
<1>10. CASE StillEmpty
  BY <1>10 DEF StillEmpty, Goto, data, tasks
<1>11. CASE Place
  BY <1>11 DEF Place, Goto, data
<1>12. CASE Unlock
  <2>1. CASE cTxLock > 0
    BY <1>12, <2>1, WakeEvents DEF Unlock, ResumeThen, data
  <2>2. CASE ~(cTxLock > 0)
    BY <1>12, <2>2 DEF Unlock, ResumeThen, data, tasks
  <2>. QED
    BY <2>1, <2>2
<1>13. CASE Expired
  BY <1>13 DEF Expired, Return, Goto, data, tasks
<1>14. CASE (\E d \in Delays : vTaskDelay(d)) \/ Sleep
  BY <1>14 DEF vTaskDelay, Sleep, ResumeThen, Goto, data, tasks
<1>15. CASE UNCHANGED vars
  BY <1>15 DEF vars, control, data, tasks
<1>. QED
  BY <1>1, <1>2, <1>3, <1>4, <1>5, <1>6, <1>7, <1>8, <1>9, <1>10, <1>11, <1>12, <1>13, <1>14, <1>15
     DEF Next, Step, Decide, xQueueReceive

(* Whenever interrupts and ticks come between the steps of a receive, a    *)
(* task that waits on a queue with an item has its wake-up on the way.     *)
THEOREM WakeupTheorem == Spec => []NoLostWakeup
<1>1. Init => Events
  BY TaskNames DEF Init, Events, NoLostWakeup
<1>2. Control /\ Locked /\ Events /\ [Next]_vars => (Control /\ Locked /\ Events)'
  BY ControlKept, LockedKept, EventsKept
<1>3. Events => NoLostWakeup
  BY DEF Events
<1>. QED
  BY InitControl, InitLocked, <1>1, <1>2, <1>3, PTL DEF Spec

-----------------------------------------------------------------------------
(* Time.  What is waited for is more than none, and less than a turn of the*)
(* counter unless it is for ever.                                          *)
Times ==
    /\ xTickCount \in 0 .. portMAX_DELAY /\ xNextTaskUnblockTime \in 0 .. portMAX_DELAY
    /\ xItemValue \in [Tasks -> 0 .. portMAX_DELAY]
    /\ state \in [Tasks -> {"ready", "delayed", "overflow", "suspended"}]
    /\ WakeTimesAhead

Waited ==
    /\ xTicksToWait \in 0 .. portMAX_DELAY
    /\ xTimeOut.entering \in 0 .. portMAX_DELAY
    /\ pc[Reader] \in {"suspend", "lock", "check", "empty", "place"} => xTicksToWait > 0
    /\ pc[Sleeper] = "delay" => left[Sleeper] \in 1 .. portMAX_DELAY - 1

LEMMA LeastValue ==
  ASSUME NEW S \in SUBSET Tasks, S # {}, NEW f \in [Tasks -> 0 .. portMAX_DELAY]
  PROVE  /\ Min({f[t] : t \in S}) \in {f[t] : t \in S}
         /\ \A t \in S : Min({f[u] : u \in S}) <= f[t]
<1>1. \E m \in S : \A n \in S : f[m] <= f[n]
  BY TaskNames, KernelAssumption
<1>2. \E m \in {f[t] : t \in S} : \A n \in {f[t] : t \in S} : m <= n
  BY <1>1
<1>. QED
  BY <1>2 DEF Min

LEMMA HeadIsLeast ==
  ASSUME NEW S \in SUBSET Tasks, xItemValue \in [Tasks -> 0 .. portMAX_DELAY]
  PROVE  HeadValue(S) \in 0 .. portMAX_DELAY /\ \A t \in S : HeadValue(S) <= xItemValue[t]
<1>1. CASE S = {}
  BY <1>1, KernelAssumption DEF HeadValue
<1>2. CASE S # {}
  <2>1. /\ Min({xItemValue[t] : t \in S}) \in {xItemValue[t] : t \in S}
        /\ \A t \in S : Min({xItemValue[u] : u \in S}) <= xItemValue[t]
    BY <1>2, LeastValue
  <2>. QED
    BY <1>2, <2>1 DEF HeadValue
<1>. QED
  BY <1>1, <1>2

LEMMA TickTimes ==
  ASSUME Times, xTaskIncrementTick
  PROVE  Times'
<1>. USE TaskNames, KernelAssumption DEF Times, WakeTimesAhead
<1>. DEFINE tick  == (xTickCount + 1) % Width
            lists == [t \in Tasks |-> IF tick = 0 THEN Switched(state[t]) ELSE state[t]]
            D     == {t \in Tasks : lists[t] = "delayed"}
            next  == IF tick = 0 THEN HeadValue(D) ELSE xNextTaskUnblockTime
            due   == {t \in Tasks : lists[t] = "delayed" /\ tick >= next /\ xItemValue[t] <= tick}
<1>1. /\ xTickCount' = tick
      /\ state' = [t \in Tasks |-> IF t \in due THEN "ready" ELSE lists[t]]
      /\ xNextTaskUnblockTime' = IF tick >= next THEN HeadValue(D \ due) ELSE next
      /\ xItemValue' = [t \in Tasks |-> IF t \in due THEN 0 ELSE xItemValue[t]]
  BY DEF xTaskIncrementTick
<1>2. tick = IF xTickCount = portMAX_DELAY THEN 0 ELSE xTickCount + 1
  BY DEF Width
<1>3. /\ HeadValue(D) \in 0 .. portMAX_DELAY /\ \A t \in D : HeadValue(D) <= xItemValue[t]
      /\ HeadValue(D \ due) \in 0 .. portMAX_DELAY /\ \A t \in D \ due : HeadValue(D \ due) <= xItemValue[t]
  BY HeadIsLeast
<1>4. next \in 0 .. portMAX_DELAY /\ tick \in 0 .. portMAX_DELAY
  BY <1>2, <1>3
<1>5. lists \in [Tasks -> {"ready", "delayed", "overflow", "suspended"}]
  BY DEF Switched
<1>6. ASSUME NEW t \in Tasks
      PROVE  /\ lists[t] = "delayed" => xItemValue[t] >= tick /\ next <= xItemValue[t]
             /\ lists[t] = "overflow" => xItemValue[t] < tick
  <2>1. CASE xTickCount = portMAX_DELAY
    <3>1. tick = 0 /\ state[t] # "delayed"
      BY <1>2, <2>1
    <3>2. lists[t] # "overflow"
      BY <3>1 DEF Switched
    <3>. QED
      BY <1>3, <3>1, <3>2
  <2>2. CASE xTickCount # portMAX_DELAY
    <3>1. tick = xTickCount + 1 /\ tick # 0
      BY <1>2, <2>2
    <3>2. lists[t] = state[t] /\ next = xNextTaskUnblockTime
      BY <3>1
    <3>. QED
      BY <3>1, <3>2
  <2>. QED
    BY <2>1, <2>2
<1>7. ASSUME NEW t \in Tasks
      PROVE  /\ state'[t] = "delayed" => xTickCount' < xItemValue'[t] /\ xNextTaskUnblockTime' <= xItemValue'[t]
             /\ state'[t] = "overflow" => xItemValue'[t] < xTickCount'
  <2>1. CASE t \in due
    BY <1>1, <2>1
  <2>2. CASE t \notin due
    <3>1. state'[t] = lists[t] /\ xItemValue'[t] = xItemValue[t] /\ xTickCount' = tick
      BY <1>1, <2>2
    <3>2. CASE lists[t] = "delayed"
      <4>1. t \in D \ due
        BY <2>2, <3>2
      <4>2. xItemValue[t] >= tick /\ next <= xItemValue[t]
        BY <1>6, <3>2
      <4>3. tick < xItemValue[t]
        BY <1>4, <2>2, <3>2, <4>2
      <4>. QED
        BY <1>1, <1>3, <3>1, <3>2, <4>1, <4>2, <4>3
    <3>3. CASE lists[t] # "delayed"
      BY <1>6, <3>1, <3>3
    <3>. QED
      BY <3>2, <3>3
  <2>. QED
    BY <2>1, <2>2
<1>8. /\ state' \in [Tasks -> {"ready", "delayed", "overflow", "suspended"}]
      /\ xItemValue' \in [Tasks -> 0 .. portMAX_DELAY]
      /\ xTickCount' \in 0 .. portMAX_DELAY /\ xNextTaskUnblockTime' \in 0 .. portMAX_DELAY
  BY <1>1, <1>3, <1>4, <1>5
<1>. QED
  BY <1>7, <1>8

LEMMA BlockTimes ==
  ASSUME Times, NEW t \in Tasks, NEW ticks \in 1 .. portMAX_DELAY, NEW indefinitely \in BOOLEAN,
         Block(t, ticks, indefinitely), xTickCount' = xTickCount
  PROVE  Times'
<1>. USE TaskNames, KernelAssumption DEF Times, WakeTimesAhead
<1>. DEFINE wake == (xTickCount + ticks) % Width
            list == IF indefinitely /\ ticks = portMAX_DELAY THEN "suspended"
                    ELSE IF wake < xTickCount THEN "overflow" ELSE "delayed"
<1>1. /\ state' = [state EXCEPT ![t] = list]
      /\ xItemValue' = [xItemValue EXCEPT ![t] = IF list = "suspended" THEN 0 ELSE wake]
      /\ xNextTaskUnblockTime' = IF list = "delayed" /\ wake < xNextTaskUnblockTime THEN wake
                                 ELSE xNextTaskUnblockTime
  BY DEF Block
<1>2. wake \in 0 .. portMAX_DELAY /\ wake # xTickCount
  <2>1. CASE xTickCount + ticks < Width
    <3>1. wake = xTickCount + ticks
      BY <2>1 DEF Width
    <3>. QED
      BY <2>1, <3>1 DEF Width
  <2>2. CASE ~(xTickCount + ticks < Width)
    <3>1. wake = xTickCount + ticks - Width
      BY <2>2 DEF Width
    <3>. QED
      BY <2>2, <3>1 DEF Width
  <2>. QED
    BY <2>1, <2>2
<1>3. ASSUME NEW u \in Tasks
      PROVE  /\ state'[u] = "delayed" => xTickCount < xItemValue'[u] /\ xNextTaskUnblockTime' <= xItemValue'[u]
             /\ state'[u] = "overflow" => xItemValue'[u] < xTickCount
  BY <1>1, <1>2
<1>. QED
  BY <1>1, <1>2, <1>3

(* Waking tasks leaves fewer of them on the delayed lists.                 *)
LEMMA FewerTimes ==
  ASSUME Times, xTickCount' = xTickCount, xNextTaskUnblockTime' = xNextTaskUnblockTime, NEW S,
         state' = [t \in Tasks |-> IF t \in S THEN "ready" ELSE state[t]],
         xItemValue' = [t \in Tasks |-> IF t \in S THEN 0 ELSE xItemValue[t]]
  PROVE  Times'
  BY KernelAssumption DEF Times, WakeTimesAhead

LEMMA WakeWaitingTimes ==
  ASSUME Times, WakeWaiting, UNCHANGED clock
  PROVE  Times'
<1>1. CASE uxSchedulerSuspended
  <2>1. state' = state /\ xItemValue' = xItemValue
    BY <1>1 DEF WakeWaiting, Times
  <2>. QED
    BY <2>1 DEF Times, WakeTimesAhead, clock
<1>2. CASE ~uxSchedulerSuspended
  BY <1>2, FewerTimes DEF WakeWaiting, clock
<1>. QED
  BY <1>1, <1>2

LEMMA SameTimes ==
  ASSUME Times, UNCHANGED <<xTickCount, xNextTaskUnblockTime, xItemValue, state>>
  PROVE  Times'
  BY DEF Times, WakeTimesAhead

LEMMA TimesKept ==
  ASSUME Control, Times, Waited, [Next]_vars
  PROVE  Times'
<1>1. CASE SysTick
  <2>1. CASE uxSchedulerSuspended
    BY <1>1, <2>1, SameTimes DEF SysTick, tasks
  <2>2. CASE ~uxSchedulerSuspended
    BY <1>1, <2>2, TickTimes DEF SysTick
  <2>. QED
    BY <2>1, <2>2
<1>2. CASE \E t \in Tasks : SwitchTo(t)
  BY <1>2, SameTimes DEF SwitchTo, tasks, clock
<1>3. CASE \E v \in Values : xQueueSendFromISR(v)
  BY <1>3, SameTimes, WakeWaitingTimes DEF xQueueSendFromISR, tasks, clock
<1>4. CASE \E v \in Values : xQueueSend(v)
  BY <1>4, WakeWaitingTimes DEF xQueueSend
<1>5. ASSUME NEW t \in Tasks, InKernel(t) PROVE Times'
  <2>1. CASE ResumeAll(t)
    <3>1. /\ state' = [o \in Tasks |-> IF o \in Pending THEN "ready" ELSE state[o]]
          /\ xItemValue' = [o \in Tasks |-> IF o \in Pending THEN 0 ELSE xItemValue[o]]
          /\ xTickCount' = xTickCount
      BY <2>1 DEF ResumeAll
    <3>2. CASE Pending = {}
      BY <2>1, <3>1, <3>2, FewerTimes DEF ResumeAll
    <3>3. CASE Pending # {}
      <4>1. xNextTaskUnblockTime' = HeadValue(On("delayed") \ Pending)
        BY <2>1, <3>3 DEF ResumeAll
      <4>2. /\ xNextTaskUnblockTime' \in 0 .. portMAX_DELAY
            /\ \A o \in On("delayed") \ Pending : xNextTaskUnblockTime' <= xItemValue[o]
        BY <4>1, HeadIsLeast DEF On, Times
      <4>. QED
        BY <3>1, <4>2, KernelAssumption DEF Times, WakeTimesAhead, On
    <3>. QED
      BY <3>2, <3>3
  <2>2. CASE UnpendTick(t)
    BY <2>2, TickTimes DEF UnpendTick
  <2>3. CASE Resumed(t) \/ Yield(t)
    BY <2>3, SameTimes DEF Resumed, Yield, tasks, clock
  <2>. QED
    BY <1>5, <2>1, <2>2, <2>3 DEF InKernel
<1>6. CASE (\E w \in Waits : Call(w)) \/ Take \/ TakeNothing \/ TakeLater \/ Suspend
  BY <1>6, SameTimes DEF Call, Take, TakeNothing, TakeLater, Suspend, tasks, clock
<1>7. CASE Lock \/ Check \/ StillEmpty \/ Expired
  BY <1>7, SameTimes DEF Lock, Check, StillEmpty, Expired, tasks, clock
<1>8. CASE Place
  <2>1. xTicksToWait \in 1 .. portMAX_DELAY /\ xTickCount' = xTickCount
    BY <1>8, KernelAssumption DEF Place, Waited
  <2>. QED
    BY <1>8, <2>1, BlockTimes, TaskNames DEF Place
<1>9. CASE Unlock
  BY <1>9, SameTimes, WakeWaitingTimes DEF Unlock, tasks, clock
<1>10. CASE \E d \in Delays : vTaskDelay(d)
  BY <1>10, SameTimes DEF vTaskDelay, tasks, clock
<1>11. CASE Sleep
  <2>1. left[Sleeper] \in 1 .. portMAX_DELAY /\ xTickCount' = xTickCount
    BY <1>11, KernelAssumption DEF Sleep, Waited
  <2>. QED
    BY <1>11, <2>1, BlockTimes, TaskNames DEF Sleep
<1>12. CASE UNCHANGED vars
  BY <1>12, SameTimes DEF vars, tasks, clock
<1>. QED
  BY <1>1, <1>2, <1>3, <1>4, <1>5, <1>6, <1>7, <1>8, <1>9, <1>10, <1>11, <1>12
     DEF Next, Step, Decide, xQueueReceive

LEMMA WaitedKept ==
  ASSUME Control, Times, Waited, left \in [Tasks -> 0 .. portMAX_DELAY], [Next]_vars
  PROVE  Waited' /\ left' \in [Tasks -> 0 .. portMAX_DELAY]
<1>. USE TaskNames, KernelAssumption
     DEF Control, Times, Waited, ReaderPlaces, SleeperPlaces, ReaderSuspends, SleeperSuspends
<1>1. CASE SysTick
  <2>1. CASE uxSchedulerSuspended
    BY <1>1, <2>1 DEF SysTick, control, locals
  <2>2. CASE ~uxSchedulerSuspended
    <3>1. left' \in [Tasks -> 0 .. portMAX_DELAY]
      BY <1>1, <2>2 DEF SysTick, xTaskIncrementTick
    <3>. QED
      BY <1>1, <2>2, <3>1 DEF SysTick, control, locals
  <2>. QED
    BY <2>1, <2>2
<1>2. CASE (\E t \in Tasks : SwitchTo(t)) \/ \E v \in Values : xQueueSendFromISR(v) \/ xQueueSend(v)
  BY <1>2 DEF SwitchTo, xQueueSendFromISR, xQueueSend, control, locals
<1>3. ASSUME NEW t \in Tasks, InKernel(t) PROVE Waited' /\ left' \in [Tasks -> 0 .. portMAX_DELAY]
  <2>1. t \in {Reader, Sleeper}
    BY <1>3, KernelTasks
  <2>2. CASE ResumeAll(t)
    BY <2>1, <2>2 DEF ResumeAll, Goto, locals
  <2>3. CASE UnpendTick(t)
    <3>1. left' \in [Tasks -> 0 .. portMAX_DELAY]
      BY <2>3 DEF UnpendTick, xTaskIncrementTick
    <3>2. pc[Sleeper] # "delay"
      BY <2>1, <2>3 DEF UnpendTick, Running
    <3>. QED
      BY <2>3, <3>1, <3>2 DEF UnpendTick, control, locals
  <2>4. CASE Resumed(t) \/ Yield(t)
    BY <2>1, <2>4 DEF Resumed, Yield, Goto, Loop, locals
  <2>. QED
    BY <1>3, <2>2, <2>3, <2>4 DEF InKernel
<1>4. CASE \E w \in Waits : Call(w)
  BY <1>4 DEF Call, Goto
<1>5. CASE Take \/ TakeNothing
  BY <1>5 DEF Take, TakeNothing, Return, Goto
<1>6. CASE TakeLater
  <2>1. left' \in [Tasks -> 0 .. portMAX_DELAY] /\ left'[Sleeper] = left[Sleeper]
    BY <1>6 DEF TakeLater
  <2>2. xTimeOut'.entering \in 0 .. portMAX_DELAY
    BY <1>6 DEF TakeLater, Now
  <2>. QED
    BY <1>6, <2>1, <2>2 DEF TakeLater, Goto
<1>7. CASE Suspend \/ Lock
  BY <1>7 DEF Suspend, Lock, Goto, locals
<1>8. CASE Check
  <2>1. CASE TimedOut
    BY <1>8, <2>1 DEF Check, Goto
  <2>2. CASE ~TimedOut
    <3>1. Elapsed \in 0 .. portMAX_DELAY
      BY DEF Elapsed, Width
    <3>2. xTicksToWait # portMAX_DELAY => Elapsed < xTicksToWait
      BY <2>2, <3>1 DEF TimedOut
    <3>3. xTicksToWait' \in 1 .. portMAX_DELAY
      BY <1>8, <2>2, <3>1, <3>2 DEF Check
    <3>4. xTimeOut'.entering \in 0 .. portMAX_DELAY
      BY <1>8, <2>2 DEF Check, Now
    <3>. QED
      BY <1>8, <2>2, <3>3, <3>4 DEF Check, Goto
  <2>. QED
    BY <2>1, <2>2
<1>9. CASE StillEmpty \/ Place
  BY <1>9 DEF StillEmpty, Place, Goto, locals
<1>10. CASE Unlock
  BY <1>10 DEF Unlock, ResumeThen, locals
<1>11. CASE Expired
  BY <1>11 DEF Expired, Return, Goto, locals
<1>12. CASE \E d \in Delays : vTaskDelay(d)
  BY <1>12 DEF vTaskDelay, Goto, locals
<1>13. CASE Sleep
  BY <1>13 DEF Sleep, ResumeThen, locals
<1>14. CASE UNCHANGED vars
  BY <1>14 DEF vars, control, locals
<1>. QED
  BY <1>1, <1>2, <1>3, <1>4, <1>5, <1>6, <1>7, <1>8, <1>9, <1>10, <1>11, <1>12, <1>13, <1>14
     DEF Next, Step, Decide, xQueueReceive

(* Across every wrap of a counter of any width, who is delayed wakes later *)
(* than now and is not forgotten, and the delayed list is empty when the   *)
(* two lists are switched.                                                 *)
THEOREM WakeTimesTheorem == Spec => []WakeTimesAhead
<1>. DEFINE Inv == Times /\ Waited /\ left \in [Tasks -> 0 .. portMAX_DELAY]
<1>1. Init => Inv
  BY TaskNames, KernelAssumption DEF Init, Times, Waited, WakeTimesAhead
<1>2. Control /\ Inv /\ [Next]_vars => (Control /\ Inv)'
  BY ControlKept, TimesKept, WaitedKept
<1>3. Inv => WakeTimesAhead
  BY DEF Times
<1>. QED
  BY InitControl, <1>1, <1>2, <1>3, PTL DEF Spec

-----------------------------------------------------------------------------
(* The Sleeper, from vTaskDelay until it is ready again: its wake time is  *)
(* as far ahead of the tick count as its delay has ticks left.             *)
Sleeping ==
    /\ event[Sleeper] = "none" /\ state[Sleeper] # "suspended"
    /\ left[Sleeper] \in 0 .. portMAX_DELAY - 1
    /\ pc[Sleeper] # "delay" =>
          /\ state[Sleeper] = "ready" => left[Sleeper] = 0
          /\ state[Sleeper] = "delayed" => xItemValue[Sleeper] = xTickCount + left[Sleeper]
          /\ state[Sleeper] = "overflow" => xItemValue[Sleeper] + Width = xTickCount + left[Sleeper]

LEMMA TickSleeps ==
  ASSUME Times, Sleeping, left \in [Tasks -> 0 .. portMAX_DELAY], xTaskIncrementTick,
         UNCHANGED pc, pc[Sleeper] # "delay"
  PROVE  Sleeping'
<1>. USE TaskNames, KernelAssumption DEF Times, WakeTimesAhead, Sleeping
<1>. DEFINE tick  == (xTickCount + 1) % Width
            lists == [t \in Tasks |-> IF tick = 0 THEN Switched(state[t]) ELSE state[t]]
            D     == {t \in Tasks : lists[t] = "delayed"}
            next  == IF tick = 0 THEN HeadValue(D) ELSE xNextTaskUnblockTime
            due   == {t \in Tasks : lists[t] = "delayed" /\ tick >= next /\ xItemValue[t] <= tick}
<1>1. /\ xTickCount' = tick
      /\ state' = [t \in Tasks |-> IF t \in due THEN "ready" ELSE lists[t]]
      /\ event' = [t \in Tasks |-> IF t \in due THEN "none" ELSE event[t]]
      /\ left' = [t \in Tasks |-> IF left[t] \in {0, portMAX_DELAY} THEN left[t] ELSE left[t] - 1]
      /\ xItemValue' = [t \in Tasks |-> IF t \in due THEN 0 ELSE xItemValue[t]]
  BY DEF xTaskIncrementTick
<1>2. tick = IF xTickCount = portMAX_DELAY THEN 0 ELSE xTickCount + 1
  BY DEF Width
<1>3. HeadValue(D) \in 0 .. portMAX_DELAY /\ \A t \in D : HeadValue(D) <= xItemValue[t]
  BY HeadIsLeast
<1>4. event'[Sleeper] = "none" /\ pc'[Sleeper] # "delay"
  BY <1>1
<1>5. left'[Sleeper] = IF left[Sleeper] = 0 THEN 0 ELSE left[Sleeper] - 1
  BY <1>1
<1>6. lists[Sleeper] \in {"ready", "delayed", "overflow"}
  BY DEF Switched
<1>7. /\ lists[Sleeper] = "ready" => left[Sleeper] = 0
      /\ lists[Sleeper] = "delayed" => /\ xItemValue[Sleeper] = tick + left'[Sleeper]
                                       /\ xItemValue[Sleeper] >= next
      /\ lists[Sleeper] = "overflow" => xItemValue[Sleeper] + Width = tick + left'[Sleeper]
  <2>1. CASE xTickCount = portMAX_DELAY
    <3>1. tick = 0 /\ state[Sleeper] # "delayed"
      BY <1>2, <2>1
    <3>2. CASE state[Sleeper] = "ready"
      BY <3>1, <3>2 DEF Switched
    <3>3. CASE state[Sleeper] = "overflow"
      <4>1. lists[Sleeper] = "delayed" /\ next = HeadValue(D) /\ Sleeper \in D
        BY <3>1, <3>3 DEF Switched
      <4>2. left[Sleeper] = xItemValue[Sleeper] + 1
        BY <2>1, <3>3 DEF Width
      <4>3. xItemValue[Sleeper] >= next
        BY <1>3, <4>1
      <4>4. xItemValue[Sleeper] = tick + left'[Sleeper]
        BY <1>5, <3>1, <4>2
      <4>. QED
        BY <4>1, <4>3, <4>4
    <3>. QED
      BY <3>1, <3>2, <3>3
  <2>2. CASE xTickCount # portMAX_DELAY
    <3>1. tick = xTickCount + 1 /\ tick # 0
      BY <1>2, <2>2
    <3>2. lists[Sleeper] = state[Sleeper] /\ next = xNextTaskUnblockTime
      BY <3>1
    <3>3. CASE state[Sleeper] = "delayed"
      BY <1>5, <3>1, <3>2, <3>3
    <3>4. CASE state[Sleeper] = "overflow"
      BY <1>5, <3>1, <3>2, <3>4 DEF Width
    <3>. QED
      BY <1>6, <3>2, <3>3, <3>4
  <2>. QED
    BY <2>1, <2>2
<1>8. left'[Sleeper] \in 0 .. portMAX_DELAY - 1
  BY <1>5
<1>9. CASE Sleeper \in due
  <2>1. lists[Sleeper] = "delayed" /\ xItemValue[Sleeper] <= tick /\ tick \in 0 .. portMAX_DELAY
    BY <1>2, <1>9
  <2>2. left'[Sleeper] = 0
    BY <1>7, <1>8, <2>1
  <2>. QED
    BY <1>1, <1>4, <1>8, <1>9, <2>2
<1>10. CASE Sleeper \notin due
  <2>1. state'[Sleeper] = lists[Sleeper] /\ xItemValue'[Sleeper] = xItemValue[Sleeper]
    BY <1>1, <1>10
  <2>2. lists[Sleeper] = "ready" => left'[Sleeper] = 0
    BY <1>5, <1>7
  <2>. QED
    BY <1>1, <1>4, <1>6, <1>7, <1>8, <2>1, <2>2 DEF Width
<1>. QED
  BY <1>9, <1>10

LEMMA SleepingKept ==
  ASSUME Control, Times, Sleeping, left \in [Tasks -> 0 .. portMAX_DELAY], [Next]_vars,
         Waited, event \in [Tasks -> {"none", "receive", "pending"}]
  PROVE  Sleeping'
<1>. USE TaskNames, KernelAssumption
     DEF Control, Times, Sleeping, ReaderPlaces, SleeperPlaces, ReaderSuspends, SleeperSuspends
<1>0. ASSUME UNCHANGED <<xTickCount, pc>>, left'[Sleeper] = left[Sleeper],
             event'[Sleeper] = event[Sleeper], state'[Sleeper] = state[Sleeper],
             xItemValue'[Sleeper] = xItemValue[Sleeper]
      PROVE  Sleeping'
  BY <1>0
<1>a. ASSUME WakeWaiting
      PROVE  /\ event'[Sleeper] = event[Sleeper] /\ state'[Sleeper] = state[Sleeper]
             /\ xItemValue'[Sleeper] = xItemValue[Sleeper]
  BY <1>a DEF WakeWaiting, Waiting
<1>1. CASE SysTick
  <2>1. CASE uxSchedulerSuspended
    BY <1>1, <2>1 DEF SysTick, control, tasks
  <2>2. CASE ~uxSchedulerSuspended
    BY <1>1, <2>2, TickSleeps DEF SysTick, control
  <2>. QED
    BY <2>1, <2>2
<1>2. CASE \E t \in Tasks : SwitchTo(t)
  BY <1>2 DEF SwitchTo, control, tasks, clock
<1>3. CASE \E v \in Values : xQueueSendFromISR(v) \/ xQueueSend(v)
  <2>1. CASE WakeWaiting
    BY <1>3, <1>a, <2>1 DEF xQueueSendFromISR, xQueueSend, control, clock
  <2>2. CASE UNCHANGED tasks
    BY <1>3, <2>2 DEF xQueueSendFromISR, xQueueSend, control, clock, tasks
  <2>. QED
    BY <1>3, <2>1, <2>2 DEF xQueueSendFromISR, xQueueSend
<1>4. ASSUME NEW t \in Tasks, InKernel(t) PROVE Sleeping'
  <2>1. t \in {Reader, Sleeper}
    BY <1>4, KernelTasks
  <2>2. CASE ResumeAll(t)
    <3>1. /\ event'[Sleeper] = "none" /\ state'[Sleeper] = state[Sleeper]
          /\ xItemValue'[Sleeper] = xItemValue[Sleeper]
      BY <2>2 DEF ResumeAll, Pending
    <3>. QED
      BY <2>1, <2>2, <3>1 DEF ResumeAll, Goto, Running
  <2>3. CASE UnpendTick(t)
    <3>1. pc[Sleeper] # "delay"
      BY <2>1, <2>3 DEF UnpendTick, Running
    <3>. QED
      BY <2>3, <3>1, TickSleeps DEF UnpendTick, control
  <2>4. CASE Resumed(t) \/ Yield(t)
    BY <2>1, <2>4 DEF Resumed, Yield, Goto, Loop, tasks, clock
  <2>. QED
    BY <1>4, <2>2, <2>3, <2>4 DEF InKernel
<1>5. CASE (\E w \in Waits : Call(w)) \/ Take \/ TakeNothing \/ TakeLater
  <2>1. left'[Sleeper] = left[Sleeper] /\ pc'[Sleeper] = pc[Sleeper]
    BY <1>5 DEF Call, Take, TakeNothing, TakeLater, Return, Goto
  <2>. QED
    BY <1>5, <2>1 DEF Call, Take, TakeNothing, TakeLater, tasks, clock
<1>6. CASE Suspend \/ Lock \/ Check \/ StillEmpty
  <2>1. pc'[Sleeper] = pc[Sleeper]
    BY <1>6 DEF Suspend, Lock, Check, StillEmpty, Goto
  <2>. QED
    BY <1>6, <2>1 DEF Suspend, Lock, Check, StillEmpty, tasks, clock
<1>7. CASE Place
  <2>1. /\ event'[Sleeper] = event[Sleeper] /\ state'[Sleeper] = state[Sleeper]
        /\ xItemValue'[Sleeper] = xItemValue[Sleeper] /\ pc'[Sleeper] = pc[Sleeper]
    BY <1>7 DEF Place, Block, Goto
  <2>. QED
    BY <1>7, <2>1 DEF Place
<1>8. CASE Unlock
  <2>1. pc'[Sleeper] = pc[Sleeper]
    BY <1>8 DEF Unlock, ResumeThen
  <2>2. CASE WakeWaiting
    BY <1>8, <1>a, <2>1, <2>2 DEF Unlock, clock
  <2>3. CASE UNCHANGED tasks
    BY <1>8, <2>1, <2>3 DEF Unlock, clock, tasks
  <2>. QED
    BY <1>8, <2>2, <2>3 DEF Unlock
<1>9. CASE Expired
  <2>1. left'[Sleeper] = left[Sleeper] /\ pc'[Sleeper] = pc[Sleeper]
    BY <1>9 DEF Expired, Return, Goto
  <2>. QED
    BY <1>9, <2>1 DEF Expired, tasks, clock
<1>10. CASE \E d \in Delays : vTaskDelay(d)
  <2>1. left'[Sleeper] \in 0 .. portMAX_DELAY - 1 /\ pc'[Sleeper] = "delay"
    BY <1>10 DEF vTaskDelay, Goto
  <2>. QED
    BY <1>10, <2>1 DEF vTaskDelay, tasks
<1>11. CASE Sleep
  <2>. DEFINE wake == (xTickCount + left[Sleeper]) % Width
  <2>1. /\ state'[Sleeper] = IF wake < xTickCount THEN "overflow" ELSE "delayed"
        /\ xItemValue'[Sleeper] = wake
    BY <1>11 DEF Sleep, Block
  <2>2. left[Sleeper] \in 1 .. portMAX_DELAY - 1
    BY <1>11 DEF Waited, Sleep
  <2>3. wake = IF xTickCount + left[Sleeper] < Width THEN xTickCount + left[Sleeper]
               ELSE xTickCount + left[Sleeper] - Width
    BY <2>2 DEF Width
  <2>. QED
    BY <1>11, <2>1, <2>2, <2>3 DEF Sleep, Width
<1>12. CASE UNCHANGED vars
  BY <1>12 DEF vars, control, tasks, clock
<1>. QED
  BY <1>1, <1>2, <1>3, <1>4, <1>5, <1>6, <1>7, <1>8, <1>9, <1>10, <1>11, <1>12
     DEF Next, Step, Decide, xQueueReceive

(* What holds of the counter, the lists and the waits at every step.       *)
TimeInv ==
    Control /\ Locked /\ Events /\ Times /\ Waited /\ left \in [Tasks -> 0 .. portMAX_DELAY]

LEMMA InitTimeInv == Init => TimeInv
<1>1. Init => Events /\ Times /\ Waited /\ left \in [Tasks -> 0 .. portMAX_DELAY]
  BY TaskNames, KernelAssumption DEF Init, Events, NoLostWakeup, Times, Waited, WakeTimesAhead
<1>. QED
  BY <1>1, InitControl, InitLocked DEF TimeInv

LEMMA TimeInvKept == TimeInv /\ [Next]_vars => TimeInv'
  BY ControlKept, LockedKept, EventsKept, TimesKept, WaitedKept DEF TimeInv

(* A task that called vTaskDelay sleeps as many counted ticks as it asked  *)
(* for, wherever the counter is and whatever else runs.                    *)
THEOREM SleepTheorem == Spec => []SleepsExactly
<1>1. Init => Sleeping
  BY TaskNames, KernelAssumption DEF Init, Sleeping
<1>2. TimeInv /\ Sleeping /\ [Next]_vars => Sleeping'
  BY SleepingKept DEF TimeInv, Events
<1>3. TimeInv /\ Sleeping => SleepsExactly
  BY TaskNames, KernelAssumption
     DEF TimeInv, Times, WakeTimesAhead, Sleeping, SleepsExactly, Width
<1>. QED
  BY InitTimeInv, TimeInvKept, <1>1, <1>2, <1>3, PTL DEF Spec

-----------------------------------------------------------------------------
(* A receive with a block time.  Until its time is over, what is left of it*)
(* is what xTaskCheckForTimeOut will find left, and fewer ticks than a turn*)
(* of the counter have passed since xTimeOut was noted.                    *)
Counted ==
    /\ left[Reader] = xTicksToWait - Elapsed
    /\ xNumOfOverflows = xTimeOut.overflows \/ xTickCount < xTimeOut.entering

Counting ==
    /\ xEntryTimeSet \in BOOLEAN
    /\ pc[Reader] = "call" => ~xEntryTimeSet
    /\ pc[Reader] \in {"suspend", "lock", "check"} => xEntryTimeSet
    /\ pc[Reader] \in {"unlock_expired", "expired"} => left[Reader] = 0
    /\ pc[Reader] \in {"resume", "unpend"} /\ then[Reader] = "expired" => left[Reader] = 0
    /\ pc[Reader] # "call" /\ xTicksToWait = 0 => left[Reader] = 0
    /\ pc[Reader] # "call" /\ xEntryTimeSet /\ xTicksToWait # portMAX_DELAY =>
          left[Reader] = 0 \/ Counted

LEMMA ElapsedIs ==
  ASSUME NEW tick \in 0 .. portMAX_DELAY, NEW entering \in 0 .. portMAX_DELAY
  PROVE  (tick - entering) % Width = IF tick >= entering THEN tick - entering
                                     ELSE tick - entering + Width
<1>1. CASE tick >= entering
  BY <1>1, KernelAssumption DEF Width
<1>2. CASE ~(tick >= entering)
  BY <1>2, KernelAssumption DEF Width
<1>. QED
  BY <1>1, <1>2

LEMMA TickCounts ==
  ASSUME TimeInv, Counting, xTaskIncrementTick, UNCHANGED <<pc, then, locals>>
  PROVE  Counting'
<1>. USE TaskNames, KernelAssumption
<1>. DEFINE tick == (xTickCount + 1) % Width
            entering == xTimeOut.entering
<1>0. /\ xTickCount \in 0 .. portMAX_DELAY /\ entering \in 0 .. portMAX_DELAY
      /\ xTicksToWait \in 0 .. portMAX_DELAY /\ left \in [Tasks -> 0 .. portMAX_DELAY]
  BY DEF TimeInv, Times, Waited
<1>1. /\ xTickCount' = tick
      /\ xNumOfOverflows' = IF tick = 0 THEN (xNumOfOverflows + 1) % OverflowWidth ELSE xNumOfOverflows
      /\ left'[Reader] = IF left[Reader] \in {0, portMAX_DELAY} THEN left[Reader] ELSE left[Reader] - 1
  BY DEF xTaskIncrementTick
<1>2. tick = IF xTickCount = portMAX_DELAY THEN 0 ELSE xTickCount + 1
  BY <1>0 DEF Width
<1>3. xTimeOut' = xTimeOut /\ xTicksToWait' = xTicksToWait /\ xEntryTimeSet' = xEntryTimeSet
  BY DEF locals
<1>4. /\ Elapsed = IF xTickCount >= entering THEN xTickCount - entering
                   ELSE xTickCount - entering + Width
      /\ Elapsed' = IF tick >= entering THEN tick - entering ELSE tick - entering + Width
  <2>1. tick \in 0 .. portMAX_DELAY
    BY <1>0, <1>2
  <2>. QED
    BY <1>0, <1>1, <1>3, <2>1, ElapsedIs DEF Elapsed
<1>5. ASSUME Counted, left[Reader] > 0, xTicksToWait # portMAX_DELAY
      PROVE  Counted'
  <2>1. Elapsed < xTicksToWait /\ left[Reader] = xTicksToWait - Elapsed /\ xTicksToWait < portMAX_DELAY
    BY <1>0, <1>4, <1>5 DEF Counted, Width
  <2>2. left'[Reader] = left[Reader] - 1
    BY <1>0, <1>1, <1>4, <1>5, <2>1 DEF Width
  <2>3. CASE xTickCount = portMAX_DELAY
    <3>1. tick = 0 /\ entering > 0
      BY <1>0, <1>2, <1>4, <2>1, <2>3 DEF Width
    <3>. QED
      BY <1>0, <1>1, <1>3, <1>4, <2>1, <2>2, <2>3, <3>1 DEF Counted, Width
  <2>4. CASE xTickCount # portMAX_DELAY
    <3>1. tick = xTickCount + 1 /\ tick # 0
      BY <1>0, <1>2, <2>4
    <3>2. xTickCount < entering => tick < entering
      BY <1>0, <1>4, <2>1, <3>1 DEF Width
    <3>3. xNumOfOverflows' = xNumOfOverflows
      BY <1>1, <3>1
    <3>4. Elapsed' = Elapsed + 1
      BY <1>0, <1>4, <3>1, <3>2 DEF Width
    <3>. QED
      BY <1>0, <1>1, <1>3, <1>4, <1>5, <2>1, <2>2, <3>1, <3>2, <3>3, <3>4 DEF Counted, Width
  <2>. QED
    BY <2>3, <2>4
<1>6. left[Reader] = 0 => left'[Reader] = 0
  BY <1>1
<1>7. left[Reader] = 0 \/ left[Reader] > 0
  BY <1>0
<1>. QED
  BY <1>3, <1>5, <1>6, <1>7 DEF Counting

LEMMA SameCounting ==
  ASSUME Counting, UNCHANGED <<pc, then, xTickCount, xNumOfOverflows, locals>>,
         left'[Reader] = left[Reader]
  PROVE  Counting'
  BY DEF Counting, Counted, Elapsed, locals

(* Time over is what it says.                                              *)
LEMMA TimedOutIsOver ==
  ASSUME TimeInv, Counting, pc[Reader] = "check", TimedOut
  PROVE  left[Reader] = 0
<1>1. left[Reader] = 0 \/ Counted
  BY DEF Counting, TimedOut
<1>2. /\ xTickCount \in 0 .. portMAX_DELAY /\ xTimeOut.entering \in 0 .. portMAX_DELAY
      /\ xTicksToWait \in 0 .. portMAX_DELAY /\ left[Reader] \in 0 .. portMAX_DELAY
  BY TaskNames DEF TimeInv, Times, Waited
<1>3. Elapsed \in Int
  BY <1>2, ElapsedIs, KernelAssumption DEF Elapsed, Width
<1>. QED
  BY <1>1, <1>2, <1>3 DEF TimedOut, Counted

LEMMA CountingKept ==
  ASSUME TimeInv, Counting, [Next]_vars
  PROVE  Counting'
<1>. USE TaskNames, KernelAssumption
<1>0. /\ Control /\ xTickCount \in 0 .. portMAX_DELAY /\ xTimeOut.entering \in 0 .. portMAX_DELAY
      /\ xTicksToWait \in 0 .. portMAX_DELAY /\ left \in [Tasks -> 0 .. portMAX_DELAY]
  BY DEF TimeInv, Times, Waited
<1>1. CASE SysTick
  <2>1. CASE uxSchedulerSuspended
    BY <1>1, <2>1, SameCounting DEF SysTick, control
  <2>2. CASE ~uxSchedulerSuspended
    BY <1>1, <2>2, TickCounts DEF SysTick, control
  <2>. QED
    BY <2>1, <2>2
<1>2. CASE (\E t \in Tasks : SwitchTo(t)) \/ \E v \in Values : xQueueSendFromISR(v) \/ xQueueSend(v)
  BY <1>2, SameCounting DEF SwitchTo, xQueueSendFromISR, xQueueSend, control, clock
<1>3. ASSUME NEW t \in Tasks, InKernel(t) PROVE Counting'
  <2>1. t \in {Reader, Sleeper}
    BY <1>0, <1>3, KernelTasks
  <2>2. CASE UnpendTick(t)
    BY <2>2, TickCounts DEF UnpendTick, control
  <2>3. CASE ResumeAll(t) \/ Resumed(t) \/ Yield(t)
    <3>1. UNCHANGED <<then, xTickCount, xNumOfOverflows, locals, left>>
      BY <2>3 DEF ResumeAll, Resumed, Yield, Goto, clock
    <3>2. \/ pc'[Reader] = pc[Reader]
          \/ pc[Reader] = "resume" /\ pc'[Reader] = "unpend"
          \/ pc[Reader] = "unpend" /\ pc'[Reader] \in {then[Reader], "take"}
          \/ pc[Reader] = "yield" /\ pc'[Reader] = "take"
      BY <1>0, <2>1, <2>3 DEF ResumeAll, Resumed, Yield, Goto, Loop, Control
    <3>3. then[Reader] \in {"yield", "take", "expired"}
      BY <1>0 DEF Control
    <3>. QED
      BY <3>1, <3>2, <3>3 DEF Counting, Counted, Elapsed, locals
  <2>. QED
    BY <1>3, <2>2, <2>3 DEF InKernel
<1>4. CASE \E w \in Waits : Call(w)
  <2>1. /\ pc'[Reader] = "take" /\ left'[Reader] = xTicksToWait' /\ xEntryTimeSet' = xEntryTimeSet
    BY <1>0, <1>4 DEF Call, Goto, Control
  <2>2. ~xEntryTimeSet /\ xEntryTimeSet \in BOOLEAN
    BY <1>4 DEF Call, Counting
  <2>. QED
    BY <2>1, <2>2 DEF Counting
<1>5. CASE Take \/ TakeNothing \/ (Expired /\ uxMessagesWaiting = 0)
  <2>1. pc'[Reader] = "call" /\ xEntryTimeSet' = FALSE
    BY <1>0, <1>5 DEF Take, TakeNothing, Expired, Return, Goto, Control
  <2>. QED
    BY <2>1 DEF Counting
<1>6. CASE TakeLater
  <2>1. /\ pc'[Reader] = "suspend" /\ xEntryTimeSet' /\ xEntryTimeSet' = TRUE
        /\ xTicksToWait' = xTicksToWait /\ xTicksToWait # 0
        /\ xTickCount' = xTickCount /\ xNumOfOverflows' = xNumOfOverflows
    BY <1>0, <1>6 DEF TakeLater, Goto, Control, clock
  <2>2. CASE xEntryTimeSet
    <3>1. left'[Reader] = left[Reader] /\ xTimeOut' = xTimeOut /\ pc[Reader] = "take"
      BY <1>0, <1>6, <2>2 DEF TakeLater
    <3>. QED
      BY <2>1, <2>2, <3>1 DEF Counting, Counted, Elapsed
  <2>3. CASE ~xEntryTimeSet
    <3>1. left'[Reader] = xTicksToWait /\ xTimeOut' = Now
      BY <1>0, <1>6, <2>3 DEF TakeLater
    <3>2. Counted'
      <4>1. Elapsed' = 0
        BY <1>0, <2>1, <3>1, ElapsedIs DEF Elapsed, Now
      <4>. QED
        BY <1>0, <2>1, <3>1, <4>1 DEF Counted, Now
    <3>. QED
      BY <1>0, <2>1, <3>2 DEF Counting
  <2>. QED
    BY <2>2, <2>3
<1>7. CASE Suspend \/ Lock \/ StillEmpty \/ Place
  <2>1. /\ UNCHANGED <<then, xTickCount, xNumOfOverflows, locals, left>>
        /\ pc[Reader] \in {"suspend", "lock", "empty", "place"}
        /\ pc'[Reader] \in {"lock", "check", "place", "unlock_again", "unlock"}
        /\ pc'[Reader] \in {"lock", "check"} => pc[Reader] \in {"suspend", "lock"}
    BY <1>0, <1>7 DEF Suspend, Lock, StillEmpty, Place, Goto, clock, Control
  <2>. QED
    BY <2>1 DEF Counting, Counted, Elapsed, locals
<1>8. CASE Check
  <2>1. /\ pc[Reader] = "check" /\ xEntryTimeSet' = xEntryTimeSet /\ left' = left /\ xEntryTimeSet
        /\ xTickCount' = xTickCount /\ xNumOfOverflows' = xNumOfOverflows
        /\ pc'[Reader] = IF TimedOut THEN "unlock_expired" ELSE "empty"
    BY <1>0, <1>8 DEF Check, Goto, clock, Control, Counting
  <2>2. CASE TimedOut
    BY <2>1, <2>2, TimedOutIsOver DEF Counting
  <2>3. CASE ~TimedOut /\ xTicksToWait = portMAX_DELAY
    BY <1>8, <2>1, <2>3 DEF Check, Counting
  <2>4. CASE ~TimedOut /\ xTicksToWait # portMAX_DELAY
    <3>1. xTicksToWait' = xTicksToWait - Elapsed /\ xTimeOut' = Now
      BY <1>8, <2>4 DEF Check
    <3>2. Elapsed' = 0
      BY <1>0, <2>1, <3>1, ElapsedIs DEF Elapsed, Now
    <3>3. Elapsed \in 0 .. portMAX_DELAY
      BY <1>0, ElapsedIs DEF Elapsed, Width
    <3>4. Elapsed < xTicksToWait
      BY <1>0, <2>4, <3>3 DEF TimedOut
    <3>5. left[Reader] = 0 \/ left[Reader] = xTicksToWait - Elapsed
      BY <2>1, <2>4 DEF Counting, Counted
    <3>6. left'[Reader] = 0 \/ Counted'
      BY <1>0, <2>1, <3>1, <3>2, <3>3, <3>5 DEF Counted, Now
    <3>7. xTicksToWait' # 0
      BY <1>0, <3>1, <3>3, <3>4
    <3>. QED
      BY <2>1, <2>4, <3>6, <3>7 DEF Counting
  <2>. QED
    BY <2>2, <2>3, <2>4
<1>9. CASE Unlock
  <2>1. UNCHANGED <<xTickCount, xNumOfOverflows, locals, left>> /\ pc'[Reader] = "resume"
    BY <1>0, <1>9 DEF Unlock, ResumeThen, clock, Control
  <2>2. /\ pc[Reader] \in {"unlock", "unlock_again", "unlock_expired"}
        /\ then'[Reader] = "expired" => pc[Reader] = "unlock_expired"
    BY <1>0, <1>9 DEF Unlock, ResumeThen, Control
  <2>. QED
    BY <2>1, <2>2 DEF Counting, Counted, Elapsed, locals
<1>10. CASE Expired /\ uxMessagesWaiting # 0
  <2>1. /\ UNCHANGED <<xTickCount, xNumOfOverflows, locals, left>> /\ pc'[Reader] = "take"
        /\ pc[Reader] = "expired"
    BY <1>0, <1>10 DEF Expired, Goto, clock, Control
  <2>. QED
    BY <2>1 DEF Counting, Counted, Elapsed, locals
<1>11. CASE (\E d \in Delays : vTaskDelay(d)) \/ Sleep
  <2>1. /\ UNCHANGED <<xTickCount, xNumOfOverflows, locals>> /\ left'[Reader] = left[Reader]
        /\ pc'[Reader] = pc[Reader] /\ then'[Reader] = then[Reader]
    BY <1>0, <1>11 DEF vTaskDelay, Sleep, Goto, ResumeThen, clock, Control
  <2>. QED
    BY <2>1 DEF Counting, Counted, Elapsed, locals
<1>12. CASE UNCHANGED vars
  BY <1>12, SameCounting DEF vars, control, clock
<1>. QED
  BY <1>1, <1>2, <1>3, <1>4, <1>5, <1>6, <1>7, <1>8, <1>9, <1>10, <1>11, <1>12
     DEF Next, Step, Decide, xQueueReceive

(* A receive comes back empty only after its whole block time, however the *)
(* counter wrapped, whatever was taken from it in between and however often*)
(* it was woken for nothing.                                               *)
THEOREM EmptyTheorem == Spec => EmptyOnlyAfterWait
<1>1. Init => Counting
  BY TaskNames DEF Init, Counting
<1>2. TimeInv /\ Counting /\ [Next]_vars => Counting'
  BY CountingKept
<1>3. TimeInv /\ Counting /\ [Next]_vars =>
        [pc[Reader] # "call" /\ pc'[Reader] = "call" /\ uxMessagesWaiting' = uxMessagesWaiting
            => left[Reader] = 0]_vars
  <2>. SUFFICES ASSUME TimeInv, Counting, Next,
                       pc[Reader] # "call", pc'[Reader] = "call", uxMessagesWaiting' = uxMessagesWaiting
                PROVE  left[Reader] = 0
    OBVIOUS
  <2>. USE TaskNames
  <2>0. Control /\ uxMessagesWaiting \in Nat
    BY KernelAssumption DEF TimeInv, Locked
  <2>1. CASE Decide \/ SysTick \/ \E v \in Values : xQueueSendFromISR(v)
    BY <2>0, <2>1 DEF Decide, SysTick, xQueueSendFromISR, xQueueSend, vTaskDelay, Goto, control, Control
  <2>2. ASSUME NEW t \in Tasks, Step(t) \/ SwitchTo(t) PROVE left[Reader] = 0
    <3>1. CASE SwitchTo(t)
      BY <3>1 DEF SwitchTo, control
    <3>2. CASE InKernel(t)
      BY <2>0, <3>2 DEF InKernel, ResumeAll, UnpendTick, Resumed, Yield, Goto, Loop, control, Control
    <3>3. CASE Sleep
      BY <2>0, <3>3 DEF Sleep, ResumeThen, Control
    <3>4. CASE Take
      BY <2>0, <3>4 DEF Take, CopyOut
    <3>5. CASE TakeNothing \/ Expired
      BY <2>0, <3>5 DEF TakeNothing, Expired, Counting, Goto, Control
    <3>6. CASE (\E w \in Waits : Call(w)) \/ TakeLater \/ Suspend \/ Lock \/ Check \/ StillEmpty \/ Place \/ Unlock
      BY <2>0, <3>6 DEF Call, TakeLater, Suspend, Lock, Check, StillEmpty, Place, Unlock, Goto, ResumeThen, Control
    <3>. QED
      BY <2>2, <3>1, <3>2, <3>3, <3>4, <3>5, <3>6 DEF Step, xQueueReceive
  <2>. QED
    BY <2>1, <2>2 DEF Next
<1>. QED
  BY InitTimeInv, TimeInvKept, <1>1, <1>2, <1>3, PTL DEF Spec, EmptyOnlyAfterWait

-----------------------------------------------------------------------------
(* The scheduler: a ready task that outranks the current one has a switch  *)
(* coming.  Only the idle task is outranked.                               *)
Scheduling ==
    /\ pxCurrentTCB \in Tasks
    /\ uxSchedulerSuspended \in BOOLEAN /\ xYieldPending \in BOOLEAN /\ swi \in BOOLEAN
    /\ SwitchOwed

LEMMA OnlyIdleIsOutranked ==
  ASSUME NEW t \in Tasks, NEW o \in Tasks
  PROVE  uxPriority(t) > uxPriority(o) <=> t # Idle /\ o = Idle
  BY DEF uxPriority

(* What keeps the current task and the yields owed, and readies no task or *)
(* owes a yield for it.                                                    *)
LEMMA SchedulingBusy ==
  ASSUME pxCurrentTCB' \in Tasks, uxSchedulerSuspended' \in BOOLEAN, xYieldPending' \in BOOLEAN,
         swi' \in BOOLEAN, pxCurrentTCB' # Idle
  PROVE  Scheduling'
  BY OnlyIdleIsOutranked DEF Scheduling, SwitchOwed, On

LEMMA SchedulingSame ==
  ASSUME Scheduling, UNCHANGED <<pxCurrentTCB, uxSchedulerSuspended, state>>,
         xYieldPending' \in BOOLEAN, swi' \in BOOLEAN,
         xYieldPending => xYieldPending', swi => swi'
  PROVE  Scheduling'
  BY DEF Scheduling, SwitchOwed, On

LEMMA WakeScheduling ==
  ASSUME Scheduling, event \in [Tasks -> {"none", "receive", "pending"}],
         WakeWaiting, UNCHANGED <<pxCurrentTCB, uxSchedulerSuspended, swi>>
  PROVE  Scheduling'
<1>1. xYieldPending' \in BOOLEAN
  BY DEF WakeWaiting
<1>2. xYieldPending \/ Outranks => xYieldPending'
  BY DEF WakeWaiting
<1>3. ASSUME NEW t \in Tasks, state'[t] = "ready", uxPriority(t) > uxPriority(pxCurrentTCB)
      PROVE  swi' \/ xYieldPending'
  <2>1. CASE state[t] = "ready"
    BY <1>2, <1>3, <2>1 DEF Scheduling, SwitchOwed, On
  <2>2. CASE state[t] # "ready"
    <3>1. t \in Waiting
      BY <1>3, <2>2 DEF WakeWaiting
    <3>. QED
      BY <1>2, <1>3, <3>1 DEF Outranks
  <2>. QED
    BY <2>1, <2>2
<1>. QED
  BY <1>1, <1>3 DEF Scheduling, SwitchOwed, On

LEMMA SchedulingKept ==
  ASSUME TimeInv, Scheduling, [Next]_vars
  PROVE  Scheduling'
<1>. USE TaskNames
<1>0. Control /\ event \in [Tasks -> {"none", "receive", "pending"}]
  BY DEF TimeInv, Events
<1>1. CASE SysTick
  <2>1. CASE uxSchedulerSuspended
    BY <1>1, <2>1 DEF SysTick, tasks, Scheduling, SwitchOwed, On
  <2>2. CASE ~uxSchedulerSuspended
    <3>1. UNCHANGED <<pxCurrentTCB, uxSchedulerSuspended, xYieldPending>>
      BY <1>1 DEF SysTick
    <3>2. swi' = (swi \/ SwitchRequired)
      BY <1>1, <2>2 DEF SysTick
    <3>3. swi' \in BOOLEAN /\ (swi => swi') /\ (SwitchRequired => swi')
      BY <3>2
    <3>4. ASSUME NEW t \in Tasks, state'[t] = "ready", uxPriority(t) > uxPriority(pxCurrentTCB)
          PROVE  swi' \/ xYieldPending'
      <4>1. CASE state[t] = "ready"
        BY <3>1, <3>3, <3>4, <4>1 DEF Scheduling, SwitchOwed, On
      <4>2. CASE state[t] # "ready"
        <5>1. uxPriority(t) >= uxPriority(pxCurrentTCB)
          BY <3>4 DEF uxPriority
        <5>. QED
          BY <3>3, <3>4, <4>2, <5>1 DEF SwitchRequired
      <4>. QED
        BY <4>1, <4>2
    <3>. QED
      BY <3>1, <3>3, <3>4 DEF Scheduling, SwitchOwed, On
  <2>. QED
    BY <2>1, <2>2
<1>2. ASSUME NEW t \in Tasks, SwitchTo(t) PROVE Scheduling'
  <2>1. CASE uxSchedulerSuspended
    BY <1>2, <2>1 DEF SwitchTo, Scheduling, SwitchOwed
  <2>2. CASE ~uxSchedulerSuspended
    <3>1. pxCurrentTCB' = t /\ \A o \in On("ready") : uxPriority(o) <= uxPriority(t)
      BY <1>2, <2>2 DEF SwitchTo
    <3>2. \A o \in On("ready") : ~(uxPriority(o) > uxPriority(t))
      BY <3>1 DEF uxPriority
    <3>3. state' = state /\ UNCHANGED uxSchedulerSuspended
      BY <1>2 DEF SwitchTo, tasks
    <3>4. swi' \in BOOLEAN /\ xYieldPending' \in BOOLEAN
      BY <1>2, <2>2 DEF SwitchTo
    <3>. QED
      BY <3>1, <3>2, <3>3, <3>4 DEF Scheduling, SwitchOwed, On
  <2>. QED
    BY <2>1, <2>2
<1>3. CASE \E v \in Values : xQueueSendFromISR(v)
  <2>1. UNCHANGED <<pxCurrentTCB, uxSchedulerSuspended, swi>>
    BY <1>3 DEF xQueueSendFromISR
  <2>2. CASE WakeWaiting
    BY <1>0, <2>1, <2>2, WakeScheduling
  <2>3. CASE UNCHANGED <<tasks, xYieldPending>>
    BY <2>1, <2>3, SchedulingSame DEF tasks, Scheduling
  <2>. QED
    BY <1>3, <2>2, <2>3 DEF xQueueSendFromISR
<1>4. CASE \E v \in Values : xQueueSend(v)
  <2>1. pxCurrentTCB' = Sleeper /\ UNCHANGED uxSchedulerSuspended /\ swi' = Outranks
    BY <1>4 DEF xQueueSend, Running
  <2>2. xYieldPending' = (xYieldPending \/ Outranks)
    BY <1>4 DEF xQueueSend, WakeWaiting
  <2>3. swi' \in BOOLEAN
    BY <2>1 DEF Outranks
  <2>4. xYieldPending' \in BOOLEAN
    BY <2>2
  <2>. QED
    BY <2>1, <2>3, <2>4, SchedulingBusy DEF Scheduling
<1>5. ASSUME NEW t \in Tasks, InKernel(t) PROVE Scheduling'
  <2>1. t \in {Reader, Sleeper}
    BY <1>0, <1>5, KernelTasks
  <2>2. pxCurrentTCB' = t /\ uxSchedulerSuspended' \in BOOLEAN
    BY <1>5 DEF InKernel, ResumeAll, UnpendTick, Resumed, Yield, Running, Scheduling
  <2>3. swi' \in BOOLEAN
    BY <1>5 DEF InKernel, ResumeAll, UnpendTick, Resumed, Yield, Scheduling
  <2>4. xYieldPending' \in BOOLEAN
    <3>1. CASE ResumeAll(t)
      BY <3>1 DEF ResumeAll
    <3>2. CASE UnpendTick(t)
      <4>1. xYieldPending' = SwitchRequired
        BY <3>2 DEF UnpendTick
      <4>. QED
        BY <4>1 DEF SwitchRequired
    <3>3. CASE Resumed(t) \/ Yield(t)
      BY <3>3 DEF Resumed, Yield, Scheduling
    <3>. QED
      BY <1>5, <3>1, <3>2, <3>3 DEF InKernel
  <2>. QED
    BY <2>1, <2>2, <2>3, <2>4, SchedulingBusy
<1>6. CASE \/ (\E w \in Waits : Call(w)) \/ Take \/ TakeNothing \/ TakeLater \/ Suspend \/ Lock
           \/ Check \/ StillEmpty \/ Place \/ Expired
  <2>1. pxCurrentTCB' = Reader /\ xYieldPending' = xYieldPending /\ swi' = swi
    BY <1>6 DEF Call, Take, TakeNothing, TakeLater, Suspend, vTaskSuspendAll, Lock, Check,
                StillEmpty, Place, Expired, Running, scheduler
  <2>2. uxSchedulerSuspended' \in BOOLEAN
    BY <1>6 DEF Call, Take, TakeNothing, TakeLater, Suspend, vTaskSuspendAll, Lock, Check,
                StillEmpty, Place, Expired, scheduler, Scheduling
  <2>. QED
    BY <2>1, <2>2, SchedulingBusy DEF Scheduling
<1>7. CASE Unlock
  <2>1. pxCurrentTCB' = Reader /\ swi' = swi /\ uxSchedulerSuspended' = uxSchedulerSuspended
    BY <1>7 DEF Unlock, Running
  <2>2. xYieldPending' \in BOOLEAN
    <3>1. CASE cTxLock > 0
      BY <1>7, <3>1 DEF Unlock, WakeWaiting
    <3>2. CASE ~(cTxLock > 0)
      BY <1>7, <3>2 DEF Unlock, Scheduling
    <3>. QED
      BY <3>1, <3>2
  <2>. QED
    BY <2>1, <2>2, SchedulingBusy DEF Scheduling
<1>8. CASE (\E d \in Delays : vTaskDelay(d)) \/ Sleep
  <2>1. pxCurrentTCB' = Sleeper /\ xYieldPending' = xYieldPending /\ swi' = swi
    BY <1>8 DEF vTaskDelay, vTaskSuspendAll, Sleep, Running, scheduler
  <2>2. uxSchedulerSuspended' \in BOOLEAN
    BY <1>8 DEF vTaskDelay, vTaskSuspendAll, Sleep, scheduler, Scheduling
  <2>. QED
    BY <2>1, <2>2, SchedulingBusy DEF Scheduling
<1>9. CASE UNCHANGED vars
  BY <1>9, SchedulingSame DEF vars, scheduler, tasks, Scheduling
<1>. QED
  BY <1>1, <1>2, <1>3, <1>4, <1>5, <1>6, <1>7, <1>8, <1>9 DEF Next, Step, Decide, xQueueReceive

LEMMA InitScheduling == Init => Scheduling
<1>1. Init => pxCurrentTCB \in Tasks /\ pxCurrentTCB # Idle
  BY TaskNames DEF Init
<1>. QED
  BY <1>1, OnlyIdleIsOutranked DEF Init, Scheduling, SwitchOwed, On

(* Interrupts that ask for no switch, and wake-ups under a suspended       *)
(* scheduler, still leave one owed to whoever outranks the running task.   *)
THEOREM SwitchTheorem == Spec => []SwitchOwed
<1>1. TimeInv /\ Scheduling /\ [Next]_vars => Scheduling'
  BY SchedulingKept
<1>2. Scheduling => SwitchOwed
  BY DEF Scheduling
<1>. QED
  BY InitTimeInv, TimeInvKept, InitScheduling, <1>1, <1>2, PTL DEF Spec

-----------------------------------------------------------------------------
(* What counts ticks and wraps keeps its width.                            *)
Widths ==
    /\ xNumOfOverflows \in 0 .. OverflowWidth - 1 /\ xPendedTicks \in 0 .. MaxPended
    /\ xTimeOut \in [overflows : 0 .. OverflowWidth - 1, entering : 0 .. portMAX_DELAY]

LEMMA TickWidths ==
  ASSUME Widths, xTaskIncrementTick
  PROVE  xNumOfOverflows' \in 0 .. OverflowWidth - 1
<1>1. xNumOfOverflows' \in {xNumOfOverflows, (xNumOfOverflows + 1) % OverflowWidth}
  BY DEF xTaskIncrementTick
<1>2. (xNumOfOverflows + 1) % OverflowWidth \in 0 .. OverflowWidth - 1
  BY KernelAssumption DEF Widths
<1>. QED
  BY <1>1, <1>2 DEF Widths

LEMMA WidthsKept ==
  ASSUME TimeInv, Widths, [Next]_vars
  PROVE  Widths'
<1>. USE KernelAssumption DEF Widths
<1>0. Now \in [overflows : 0 .. OverflowWidth - 1, entering : 0 .. portMAX_DELAY]
  BY DEF Now, TimeInv, Times
<1>1. CASE SysTick
  <2>1. CASE uxSchedulerSuspended
    BY <1>1, <2>1 DEF SysTick, locals
  <2>2. CASE ~uxSchedulerSuspended
    BY <1>1, <2>2, TickWidths DEF SysTick, locals
  <2>. QED
    BY <2>1, <2>2
<1>2. CASE (\E t \in Tasks : SwitchTo(t)) \/ \E v \in Values : xQueueSendFromISR(v) \/ xQueueSend(v)
  BY <1>2 DEF SwitchTo, xQueueSendFromISR, xQueueSend, locals, clock
<1>3. ASSUME NEW t \in Tasks, InKernel(t) PROVE Widths'
  <2>1. CASE UnpendTick(t)
    BY <2>1, TickWidths DEF UnpendTick, locals
  <2>2. CASE ResumeAll(t) \/ Resumed(t) \/ Yield(t)
    BY <2>2 DEF ResumeAll, Resumed, Yield, locals, clock
  <2>. QED
    BY <1>3, <2>1, <2>2 DEF InKernel
<1>4. CASE (\E w \in Waits : Call(w)) \/ Suspend \/ Lock \/ StillEmpty \/ Place \/ Unlock
  BY <1>4 DEF Call, Suspend, Lock, StillEmpty, Place, Unlock, locals, clock
<1>5. CASE Take \/ TakeNothing
  BY <1>5 DEF Take, TakeNothing, Return, clock
<1>6. CASE TakeLater \/ Check
  BY <1>0, <1>6 DEF TakeLater, Check, locals, clock
<1>7. CASE Expired
  BY <1>7 DEF Expired, Return, locals, clock
<1>8. CASE (\E d \in Delays : vTaskDelay(d)) \/ Sleep
  BY <1>8 DEF vTaskDelay, Sleep, locals, clock
<1>9. CASE UNCHANGED vars
  BY <1>9 DEF vars, locals, clock
<1>. QED
  BY <1>1, <1>2, <1>3, <1>4, <1>5, <1>6, <1>7, <1>8, <1>9 DEF Next, Step, Decide, xQueueReceive

LEMMA InitWidths == Init => Widths
  BY KernelAssumption DEF Init, Widths

-----------------------------------------------------------------------------
(* The ring buffer of Queue_t.                                             *)
Item == Values \cup {NoItem}

(* The cell k places behind r.                                             *)
Cell(r, k) == (r + k) % Length

(* The ring: uxMessagesWaiting items lie behind pcReadFrom, and pcWriteTo  *)
(* is behind the last of them.                                             *)
Ring ==
    /\ storage \in [0 .. Length - 1 -> Item]
    /\ pcWriteTo \in 0 .. Length - 1 /\ pcReadFrom \in 0 .. Length - 1
    /\ uxMessagesWaiting \in 0 .. Length
    /\ pcWriteTo = Cell(pcReadFrom, uxMessagesWaiting + 1)
    /\ got \in Item

LEMMA CellOf ==
  ASSUME NEW r \in 0 .. Length - 1, NEW k \in 1 .. Length + 1
  PROVE  /\ Cell(r, k) \in 0 .. Length - 1
         /\ Cell(r, k) = IF r + k < Length THEN r + k
                         ELSE IF r + k < 2 * Length THEN r + k - Length ELSE 0
<1>1. Length \in Nat \ {0} /\ r \in Int /\ k \in Int
  BY KernelAssumption
<1>2. CASE r + k < Length
  <2>1. (r + k) % Length = r + k
    BY <1>1, <1>2
  <2>. QED
    BY <1>1, <1>2, <2>1 DEF Cell
<1>3. CASE r + k >= Length /\ r + k < 2 * Length
  <2>1. (r + k) % Length = r + k - Length
    BY <1>1, <1>3
  <2>. QED
    BY <1>1, <1>3, <2>1 DEF Cell
<1>4. CASE r + k = 2 * Length
  <2>1. (r + k) % Length = 0
    BY <1>1, <1>4
  <2>. QED
    BY <1>1, <1>4, <2>1 DEF Cell
<1>. QED
  BY <1>1, <1>2, <1>3, <1>4

LEMMA ItemsType ==
  ASSUME Ring
  PROVE  /\ Items \in Seq(Item) /\ Len(Items) = uxMessagesWaiting
         /\ \A k \in 1 .. uxMessagesWaiting : Items[k] = storage[Cell(pcReadFrom, k)]
<1>1. \A k \in 1 .. uxMessagesWaiting : storage[Cell(pcReadFrom, k)] \in Item
  BY CellOf, KernelAssumption DEF Ring
<1>2. Items \in [1 .. uxMessagesWaiting -> Item] /\ uxMessagesWaiting \in Nat
  BY <1>1, KernelAssumption DEF Items, Ring, Cell
<1>. QED
  BY <1>2 DEF Items, Cell

LEMMA SendAppends ==
  ASSUME Ring, NEW v \in Values, uxMessagesWaiting < Length, CopyIn(v)
  PROVE  Ring' /\ Items' = Append(Items, v) /\ got' = got
<1>. DEFINE r == pcReadFrom
            n == uxMessagesWaiting
<1>1. r \in 0 .. Length - 1 /\ n \in 0 .. Length - 1 /\ n \in Nat /\ Length \in Nat \ {0}
  BY KernelAssumption DEF Ring
<1>2. pcReadFrom' = r /\ uxMessagesWaiting' = n + 1 /\ got' = got
  BY DEF CopyIn
<1>3. pcWriteTo = Cell(r, n + 1) /\ pcWriteTo \in 0 .. Length - 1
  BY DEF Ring
<1>4. storage' = [storage EXCEPT ![pcWriteTo] = v] /\ storage' \in [0 .. Length - 1 -> Item]
  BY <1>3 DEF CopyIn, Ring, Item
<1>5. pcWriteTo' = Cell(pcWriteTo, 1)
  BY DEF CopyIn, After, Cell
<1>6. pcWriteTo' = Cell(r, n + 2) /\ pcWriteTo' \in 0 .. Length - 1
  <2>1. /\ Cell(r, n + 1) = IF r + (n + 1) < Length THEN r + (n + 1)
                                    ELSE IF r + (n + 1) < 2 * Length THEN r + (n + 1) - Length ELSE 0
        /\ Cell(r, n + 2) = IF r + (n + 2) < Length THEN r + (n + 2)
                                    ELSE IF r + (n + 2) < 2 * Length THEN r + (n + 2) - Length ELSE 0
    BY <1>1, CellOf
  <2>2. /\ Cell(pcWriteTo, 1) = IF pcWriteTo + 1 < Length THEN pcWriteTo + 1
                                    ELSE IF pcWriteTo + 1 < 2 * Length THEN pcWriteTo + 1 - Length ELSE 0
        /\ Cell(pcWriteTo, 1) \in 0 .. Length - 1
    BY <1>1, <1>3, CellOf
  <2>. QED
    BY <1>1, <1>3, <1>5, <2>1, <2>2
<1>7. Ring'
  BY <1>1, <1>2, <1>4, <1>6 DEF Ring
<1>8. ASSUME NEW k \in 1 .. n PROVE Cell(r, k) # pcWriteTo
  <2>1. /\ Cell(r, k) = IF r + k < Length THEN r + k
                              ELSE IF r + k < 2 * Length THEN r + k - Length ELSE 0
        /\ Cell(r, n + 1) = IF r + (n + 1) < Length THEN r + (n + 1)
                                    ELSE IF r + (n + 1) < 2 * Length THEN r + (n + 1) - Length ELSE 0
    BY <1>1, CellOf
  <2>. QED
    BY <1>1, <1>3, <2>1
<1>9. ASSUME NEW k \in 1 .. n + 1 PROVE Items'[k] = Append(Items, v)[k]
  <2>1. Items'[k] = storage'[Cell(r, k)]
    BY <1>2 DEF Items, Cell
  <2>2. CASE k = n + 1
    <3>1. Append(Items, v)[k] = v
      BY <2>2, ItemsType, AppendProperties DEF Item
    <3>2. storage'[Cell(r, k)] = v
      BY <1>3, <1>4, <2>2 DEF Ring
    <3>. QED
      BY <2>1, <3>1, <3>2
  <2>3. CASE k # n + 1
    <3>1. k \in 1 .. n
      BY <1>1, <2>3
    <3>2. Append(Items, v)[k] = Items[k] /\ Items[k] = storage[Cell(r, k)]
      BY <3>1, ItemsType, AppendProperties DEF Item
    <3>3. storage'[Cell(r, k)] = storage[Cell(r, k)]
      <4>1. Cell(r, k) \in 0 .. Length - 1
        BY <1>1, CellOf
      <4>. QED
        BY <1>4, <1>8, <3>1, <4>1 DEF Ring
    <3>. QED
      BY <2>1, <3>2, <3>3
  <2>. QED
    BY <2>2, <2>3
<1>10. Items' \in Seq(Item) /\ Len(Items') = n + 1
  <2>1. Items' \in [1 .. n + 1 -> Item]
    <3>1. \A k \in 1 .. n + 1 : storage'[Cell(r, k)] \in Item
      BY <1>1, <1>4, CellOf
    <3>. QED
      BY <1>2, <3>1 DEF Items, Cell
  <2>. QED
    BY <1>1, <2>1
<1>11. Append(Items, v) \in Seq(Item) /\ Len(Append(Items, v)) = n + 1
  BY ItemsType, AppendProperties DEF Item
<1>. QED
  BY <1>2, <1>7, <1>9, <1>10, <1>11, SeqEqual

LEMMA ReceiveTakesHead ==
  ASSUME Ring, uxMessagesWaiting > 0, CopyOut
  PROVE  Ring' /\ Items # <<>> /\ got' = Head(Items) /\ Items' = Tail(Items)
<1>. DEFINE r == pcReadFrom
            n == uxMessagesWaiting
            s == Cell(r, 1)
<1>1. r \in 0 .. Length - 1 /\ n \in 1 .. Length /\ n \in Nat /\ Length \in Nat \ {0}
  BY KernelAssumption DEF Ring
<1>2. /\ s = IF r + 1 < Length THEN r + 1 ELSE IF r + 1 < 2 * Length THEN r + 1 - Length ELSE 0
      /\ s \in 0 .. Length - 1
  BY <1>1, CellOf
<1>3. /\ pcReadFrom' = s /\ uxMessagesWaiting' = n - 1 /\ pcWriteTo' = pcWriteTo
      /\ got' = storage[s] /\ storage' = [storage EXCEPT ![s] = NoItem]
  BY DEF CopyOut, After, Cell
<1>. HIDE DEF s
<1>4. storage' \in [0 .. Length - 1 -> Item] /\ got' \in Item
  BY <1>2, <1>3 DEF Ring, Item
<1>5. ASSUME NEW k \in 1 .. n PROVE Cell(s, k) = Cell(r, k + 1)
  <2>1. /\ Cell(s, k) = IF s + k < Length THEN s + k
                              ELSE IF s + k < 2 * Length THEN s + k - Length ELSE 0
        /\ Cell(r, k + 1) = IF r + (k + 1) < Length THEN r + (k + 1)
                                    ELSE IF r + (k + 1) < 2 * Length THEN r + (k + 1) - Length ELSE 0
    BY <1>1, <1>2, CellOf
  <2>. QED
    BY <1>1, <1>2, <2>1
<1>6. Ring'
  <2>1. pcWriteTo = Cell(r, n + 1) /\ pcWriteTo \in 0 .. Length - 1
    BY DEF Ring
  <2>2. pcWriteTo = Cell(s, n)
    BY <1>1, <1>5, <2>1
  <2>3. (n - 1) + 1 = n
    BY <1>1
  <2>. QED
    BY <1>1, <1>2, <1>3, <1>4, <2>1, <2>2, <2>3 DEF Ring
<1>7. Items # <<>> /\ Items \in Seq(Item) /\ Len(Items) = n
  BY <1>1, ItemsType
<1>8. got' = Head(Items)
  <2>1. Head(Items) = Items[1]
    BY <1>7
  <2>2. Items[1] = storage[s]
    BY <1>1, ItemsType DEF s
  <2>. QED
    BY <1>3, <2>1, <2>2
<1>9. /\ Tail(Items) \in Seq(Item) /\ Len(Tail(Items)) = n - 1
      /\ \A k \in 1 .. n - 1 : Tail(Items)[k] = Items[k + 1]
  BY <1>7, HeadTailProperties
<1>10. Items' \in Seq(Item) /\ Len(Items') = n - 1
  <2>1. Items' \in [1 .. n - 1 -> Item]
    <3>1. \A k \in 1 .. n - 1 : storage'[Cell(s, k)] \in Item
      BY <1>1, <1>2, <1>4, CellOf
    <3>. QED
      BY <1>3, <3>1 DEF Items, Cell
  <2>. QED
    BY <1>1, <2>1
<1>11. ASSUME NEW k \in 1 .. n - 1 PROVE Items'[k] = Tail(Items)[k]
  <2>1. Items'[k] = storage'[Cell(s, k)]
    BY <1>3 DEF Items, Cell
  <2>2. k \in 1 .. n /\ k + 1 \in 1 .. n /\ k \in 1 .. Length - 1
    BY <1>1
  <2>3. Tail(Items)[k] = storage[Cell(r, k + 1)]
    BY <1>9, <2>2, ItemsType
  <2>4. Cell(s, k) # s /\ Cell(s, k) \in 0 .. Length - 1
    <3>1. /\ Cell(s, k) = IF s + k < Length THEN s + k
                                ELSE IF s + k < 2 * Length THEN s + k - Length ELSE 0
          /\ Cell(s, k) \in 0 .. Length - 1
      BY <1>1, <1>2, <2>2, CellOf
    <3>. QED
      BY <1>1, <1>2, <2>2, <3>1
  <2>5. storage'[Cell(s, k)] = storage[Cell(s, k)]
    BY <1>3, <2>4 DEF Ring
  <2>. QED
    BY <1>5, <2>1, <2>2, <2>3, <2>5
<1>. QED
  BY <1>6, <1>7, <1>8, <1>9, <1>10, <1>11, SeqEqual

LEMMA SameRing ==
  ASSUME Ring, UNCHANGED data
  PROVE  Ring' /\ UNCHANGED <<Items, got>>
  BY DEF Ring, data, Items

(* Every step of the kernel sends, receives, starts a receive or leaves    *)
(* the ring alone.                                                         *)
LEMMA RingStep ==
  ASSUME [Next]_vars
  PROVE  \/ uxMessagesWaiting < Length /\ \E v \in Values : CopyIn(v)
         \/ uxMessagesWaiting > 0 /\ CopyOut
         \/ got' = NoItem /\ UNCHANGED <<storage, pcWriteTo, pcReadFrom, uxMessagesWaiting>>
         \/ UNCHANGED data
<1>1. CASE SysTick \/ \E t \in Tasks : SwitchTo(t)
  BY <1>1 DEF SysTick, SwitchTo
<1>2. CASE \E v \in Values : xQueueSendFromISR(v) \/ xQueueSend(v)
  BY <1>2 DEF xQueueSendFromISR, xQueueSend
<1>3. CASE \E t \in Tasks : InKernel(t)
  BY <1>3 DEF InKernel, ResumeAll, UnpendTick, Resumed, Yield
<1>4. CASE \E w \in Waits : Call(w)
  BY <1>4 DEF Call
<1>5. CASE Take
  BY <1>5 DEF Take
<1>6. CASE TakeNothing \/ TakeLater \/ Suspend \/ Lock \/ Check \/ StillEmpty \/ Place \/ Unlock \/ Expired
  BY <1>6 DEF TakeNothing, TakeLater, Suspend, Lock, Check, StillEmpty, Place, Unlock, Expired
<1>7. CASE (\E d \in Delays : vTaskDelay(d)) \/ Sleep
  BY <1>7 DEF vTaskDelay, Sleep
<1>8. CASE UNCHANGED vars
  BY <1>8 DEF vars
<1>. QED
  BY <1>1, <1>2, <1>3, <1>4, <1>5, <1>6, <1>7, <1>8 DEF Next, Step, Decide, xQueueReceive

LEMMA InitRing == Init => Ring /\ Fifo!Init
<1>1. ASSUME Init PROVE Ring
  <2>1. Cell(Length - 1, 1) = 0
    BY CellOf, KernelAssumption
  <2>. QED
    BY <1>1, <2>1, KernelAssumption DEF Init, Ring, Item
<1>2. ASSUME Init PROVE Fifo!Init
  <2>1. Items \in Seq(Item) /\ Len(Items) = 0
    BY <1>1, <1>2, ItemsType DEF Init
  <2>2. Items = <<>>
    BY <2>1, EmptySeq
  <2>. QED
    BY <1>2, <2>2 DEF Init, Fifo!Init
<1>. QED
  BY <1>1, <1>2

LEMMA RingImplementsFifo ==
  ASSUME Ring, [Next]_vars
  PROVE  Ring' /\ [Fifo!Next]_<<Items, got>>
<1>1. ASSUME NEW v \in Values, uxMessagesWaiting < Length, CopyIn(v)
      PROVE  Ring' /\ Fifo!Send(v)
  BY <1>1, SendAppends, ItemsType DEF Fifo!Send
<1>2. ASSUME uxMessagesWaiting > 0, CopyOut
      PROVE  Ring' /\ Fifo!Receive
  BY <1>2, ReceiveTakesHead DEF Fifo!Receive
<1>3. ASSUME got' = NoItem, UNCHANGED <<storage, pcWriteTo, pcReadFrom, uxMessagesWaiting>>
      PROVE  Ring' /\ Fifo!Consume
  BY <1>3 DEF Ring, Item, Items, Fifo!Consume
<1>4. ASSUME UNCHANGED data
      PROVE  Ring' /\ UNCHANGED <<Items, got>>
  BY <1>4, SameRing
<1>. QED
  BY <1>1, <1>2, <1>3, <1>4, RingStep DEF Fifo!Next

(* Whatever tasks, interrupts and ticks do, the tasks of the keybox see a  *)
(* FIFO that loses only what does not fit and hands each item over once.   *)
THEOREM QueueTheorem == Spec => ImplementsQueue
<1>. QED
  BY InitRing, RingImplementsFifo, PTL DEF Spec, ImplementsQueue, Fifo!Spec

-----------------------------------------------------------------------------
(* Every variable keeps its type: what the proofs rest on, and the widths  *)
(* and indices of the kernel.                                              *)
THEOREM TypeTheorem == Spec => []TypeOK
<1>. DEFINE Inv == TimeInv /\ Counting /\ Scheduling /\ Widths /\ Ring
<1>1. Init => Inv
  <2>1. Init => Counting
    BY TaskNames DEF Init, Counting
  <2>. QED
    BY <2>1, InitTimeInv, InitScheduling, InitWidths, InitRing
<1>2. Inv /\ [Next]_vars => Inv'
  <2>1. TimeInv /\ [Next]_vars => TimeInv'
    BY TimeInvKept
  <2>. QED
    BY <2>1, CountingKept, SchedulingKept, WidthsKept, RingImplementsFifo
<1>3. Inv => TypeOK
  <2>. SUFFICES ASSUME Inv PROVE TypeOK
    OBVIOUS
  <2>1. /\ pc[Reader] \in ReaderPlaces /\ pc[Sleeper] \in SleeperPlaces /\ pc[Idle] = "work"
        /\ then \in [Tasks -> {"yield", "take", "expired"}]
    BY DEF TimeInv, Control
  <2>2. /\ state \in [Tasks -> {"ready", "delayed", "overflow", "suspended"}]
        /\ event \in [Tasks -> {"none", "receive", "pending"}]
        /\ xItemValue \in [Tasks -> 0 .. portMAX_DELAY]
        /\ xTickCount \in 0 .. portMAX_DELAY /\ xNextTaskUnblockTime \in 0 .. portMAX_DELAY
        /\ left \in [Tasks -> 0 .. portMAX_DELAY] /\ xTicksToWait \in 0 .. portMAX_DELAY
    BY DEF TimeInv, Times, Events, Waited
  <2>3. /\ pxCurrentTCB \in Tasks
        /\ uxSchedulerSuspended \in BOOLEAN /\ xYieldPending \in BOOLEAN /\ swi \in BOOLEAN
        /\ xEntryTimeSet \in BOOLEAN
    BY DEF Scheduling, Counting
  <2>4. cTxLock \in Unlocked .. Length
    BY KernelAssumption DEF TimeInv, Locked, Unlocked
  <2>. QED
    BY <2>1, <2>2, <2>3, <2>4 DEF Widths, Ring, Item, TypeOK
<1>. QED
  BY <1>1, <1>2, <1>3, PTL DEF Spec
=============================================================================
