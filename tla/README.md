# Verification of the KeyBox firmware

KeyBox is the firmware of a box that holds car key fobs and presses their
buttons on request: a CH32V30x (RISC-V) microcontroller with FreeRTOS, a SPI NOR
flash for users and settings, a BLE module on two serial lines, an RS-485 line,
four relays, a LED, a button and a battery-backed clock. This directory holds
TLA+ models of its own code (`src/User/*.c`), the TLC configurations that check
them on small instances, and proofs of their main properties checked by TLAPS.

## The system

| Part | Code | State it keeps | Operations | What makes it hard |
|---|---|---|---|---|
| User table | `flash.c`, `flash.h` | one 4 KiB sector per user, 128 at most | count, search, add, overwrite, block, chip erase | no index and no transaction: scans end at the first erased sector; erase and program are separate and power may go between them |
| Device info | `flash.c` | sector 0: magic, keys, passkey, name | get, set | the magic is the first field written |
| Command engine | `main.c` `app_in_logic` | nonce, RAM copy of the settings, request and reply buffers | 17 commands after eight checks | one nonce for all clients, settings in three places |
| App task | `main.c` `app_task`, `app_factory_reset` | where it is in boot or reset | boot, factory reset | every step can be interrupted by a reset |
| App loop | `main.c` `app_task` | queues, connection pin, RS-485 buffer | requests, connection, button, RS-485 | four sources of work, one thread, a shared buffer |
| BLE control link | `ble.c` (UART8) | none: spins for `*` after each command | P, N, A/B, S, R, C, O | a wait without a limit |
| BLE data link | `ble.c` (USART2) | byte queue (240), frame queue (2) | interrupt, framing by a 50-tick gap, reply | frames split, merge and drop |
| RS-485 | `rs485.c` | byte queue, message queue (2) | send, interrupt, framing | two readers of one queue |
| Keyfob | `keyfob.c` | queue of 64 presses | timed relay sequence | a full queue drops silently |
| LED, watchdog | `led.c`, `main.c` | state, state to go back to | pattern, feed | feeds the watchdog whatever the app task does |
| Button | `button.c` | previous level | debounce, hold time | spins while held, tick wrap |
| RTC | `rtc.c` | counter, backup register | get, set, init | 32-bit arithmetic, negative = never set |
| RNG, start-up, debug | `rng.c`, `main.c`, `Debug/` | | | |
| Kernel | `FreeRTOS/queue.c`, `tasks.c`, the RISC-V port | task lists, tick counter, queues | receive, send, send from an interrupt, delay, tick, switch | locks that only defer, a counter that wraps, interrupts between any two steps |

Of the third-party code only the part of the FreeRTOS kernel that every task of
the firmware stands on is modelled. `Peripheral/`, `Core/`, `Startup/`,
`User/ed25519`, `User/monocypher.*` and build output (`obj/`) are outside the
project.

Interaction: the USART2 interrupt fills a byte queue, the receiver task cuts it
into frames, and the app task takes a frame, runs `app_in_logic`, signs the reply
and sends it. The app task alone touches the flash, the settings, the nonce and
the BLE control line. It hands presses to the keyfob task and states to the LED
task through queues that never block it, and takes button events from a queue.
All six tasks have priority 5 and are time-sliced.

## Modules

`FlashTable` holds the operators both users of the table share: the records, the
three scans of `flash.c` (`ScanEnds`, `FoundAt`, `CountIs`), and what a NOR
program and an interrupted erase or program do to a record. `Blank` stands for
0xFF bytes, so an erased sector is the record `Erased`, and the all-0xFF id that
a request may carry is the same value. `Torn` stands for bytes nobody wrote. An
erase that fails or is cut short (`PartialErase`) leaves each field as it was,
erased or torn: `flash_check_erasure` looks at all 4096 bytes of the sector
(`flash.c:351-355`), so the failure return may leave the id, or the whole record,
reading 0xFF.

`UserTable` opens the operations up into chip commands. `pc` is the command in
progress ("erase", "prog", "mark", "wipe"); `AddFirstUser`, `AddUser` and
`UserBlock` run the scans and start a command, `EraseDone`, `ProgDone`,
`MarkDone`, `EraseChipDone` finish it, `EraseFails` and `EraseChipFails` are
commands the chip does not carry out, `PowerCut` and `EraseChipCut` interrupt
it. `gaps` is a history variable: the sectors a fault has left without an id.
Scans read a table that nobody else writes, so each is one step. They are guards
of the form "the scan ends at i": a scan that never ended would leave its
operation disabled, and `ScansEnd` says that does not happen.

`UserDirectory` is what the table promises: a map from ids to keys and states
that changes in single steps. A fault may spoil one record (`Spoil`); one that
leaves a sector without an id may hide the users behind it (`Vanish`), and from
then on until the chip is erased nothing is promised (`Astray`).
`UserTable!Directory` gives the refinement mapping: a user is present when the
search finds it, a program counts from its start (`Effective`), and `intact` says
that there is no gap.

`CommandEngine` is `app_in_logic` with whole commands as steps. `Admitted` is
the conjunction of the checks, `RefusalCode` gives the reply of the first that
fails, and each command of the switch is an action. The signature is the key it
verifies under, over the bytes the code passes to `ed25519_verify`; for
PROXY_ADD_USER these bytes leave the id and the key out. `Hello` chooses any
word as nonce, so a nonce may repeat. `word` is the first four payload bytes,
which the nonce check and the command both read: an ADD_USER's id therefore
starts with the nonce (`FirstWord`), and a new passkey is the nonce. The user
and the target of a request may be the all-0xFF id, which no check looks for:
ADD_FIRST_USER with it programs a record that does not count, answers OK and
takes the advert out of first-user mode. `revoked`, `granted`, `unearned` and
`gaps` are history variables that no action reads.

`DeviceLifecycle` is the life between two power-ups: boot, factory reset and
`flash_device_info_set` one chip command at a time, and the control commands
to the BLE module one at a time. `todo` is the rest of `app_ble_config`,
`asked` the command whose `*` is awaited. The table is reduced to its first
sector: erased, a record without an id, or a user. The model starts with a new
chip. A chip erase may silently do nothing (`EraseChipFails`): then the module is
told first-user mode although users are stored, until the next boot, and
`ModuleInStep` makes an exception of it. Another is FACTORY_RESET over the wire
(`ResetModule`, `main.c:429-432`), which resets the module and nothing else while
the keybox serves on: `detached` holds from then to the next whole configuration.
A third is a first user with the all-0xFF id ("unnamed"), whom the next boot does
not count. A command
interrupted by a power cut has had any part of its effect; the magic goes before
the rest.

`Kernel` is the kernel as the firmware uses it: one queue, a task that receives
(`Reader`), an interrupt and a task that send without waiting, a task that
delays itself (`Sleeper`), the idle task, the tick and the software interrupt
that switches. `pc` is where a task is in its kernel call. A step is what runs
with interrupts masked, or alone under a suspended scheduler, so an interrupt or
a tick comes between any two steps of `xQueueReceive`, `vTaskDelay`,
`prvUnlockQueue` and `xTaskResumeAll`. `state` and `event` are the containers of
a task's two list items; a task's place in a list follows from its wake time.
`left` counts, independently of the code's arithmetic, the ticks a task still has
to wait. `BoundedQueue` is what the queue promises: a FIFO of `Length` items that
drops what does not fit.

`SerialLink` is a serial line into the keybox, the BLE one or the RS-485 one
(`link`): byte queue, collecting buffer, cut by the gap, frame queue. A receive
with a block time is the one `Kernel` describes. Bytes carry which message they
are of and where in it (`Byte`), so that a frame can be compared with what was
sent; the peer chooses lengths and pauses. `good` is the set of messages sent
with `Pause` quiet ticks before them and no gap inside that a receiver could
take for the end. `FrameStream` is what the receiver promises: consecutive runs
of the bytes, whole runs dropped.

`Panel` holds the LED task, which feeds the watchdog between two states, and the
key fob task with its power switch and relays. The two share nothing but the app
task that sends to them, which is the environment. `since` counts the ticks of
every pattern. `Button` is the button task against a bouncing contact, tick by
tick; the hold time is the code's modular difference. `AppLoop` is the loop of
the app task over requests, the connection pin, the button and RS-485 messages,
none of which ever has to stop: requests are numbered 1 to `LastRequest` over
and over, and messages after the `MaxRs`-th are no longer told apart. The work
of a request and of a reset is in `CommandEngine` and `DeviceLifecycle`.
`AppLoop` and `Panel` both implement `BoundedQueue` (requests, presses), which
`Kernel` implements.

The `*_proofs` modules hold the theorems. The `MC*` modules give the constants; a
`.cfg` is one run.

## What the runs check

| Run | Shows |
|---|---|
| `UserTable_safe` | no power cut, one failing erase, 4 users for 3 sectors: `NoHoles`, `UniqueIds`, `BlockedStays`, `TypeOK` |
| `UserTable_faults` | 2 power cuts, one failing erase, 3 users for 2 sectors: `ScansEnd`, `ProgramsErased`, `NoOtherUserTouched`, `ImplementsDirectory` |
| `CommandEngine_users` | `NonceSpentOnce`, `AdvertMatchesUsers`, `BlockedSilent`: 2 users and the all-0xFF id, every sender and signer, one failing erase |
| `CommandEngine_settings` | `SettingsAgree`, `ClockSetWithUsers` (the battery lasts), `TypeOK`: settings and time change, one failing erase |
| `DeviceLifecycle_recovery` | `ServesWhatItStores`, `ModuleInStep`, `WipedStaysWiped`, `TypeOK` and the liveness property `ServesAgain`, with 2 interruptions, a failing erase and FACTORY_RESET |
| `Kernel_queue` | `NoLostWakeup`, `WakeTimesAhead`, `SleepsExactly`, `SwitchOwed`, `EmptyOnlyAfterWait`, `ImplementsQueue`, `TypeOK`: receive, send, interrupt, delay and tick in every order, across wraps of the tick counter |
| `Kernel_wakeups` | liveness: what is sent at any moment of a receive is taken (`MessageTaken`), a timed wait ends with the receiver running (`WaitEnds`) |
| `SerialLink` | a message sent with pauses around it is never cut or mixed (`GoodMessageWhole`), frames are consecutive runs of the bytes (`ImplementsStream`), no byte stays behind (`BytesLeave`), on both lines |
| `Panel` | the watchdog is fed in time (`FedInTime`), relays switch only under power (`RelaysUnderPower`), the LED settles on the last state sent (`LedSettles`) |
| `Button` | no short press resets the keybox (`NoFalseLong`), no rested long press is missed (`LongHonoured`), with bounce, late turns and counter wraps |
| `AppLoop` | the LED follows the connection (`ConnectionTold`), RS_RECV never goes back (`RsGoesForward`), requests are answered and long presses reset however many requests come (`RequestsAnswered`, `LongPressResets`) |

Several properties name what they do not cover, because the code does not
promise it there:

- `NoHoles`, `UniqueIds`, `BlockedStays`, `BlockedSilent` and the directory: what
  lies at or behind a sector that a fault has left without an id (`gaps`). There
  the scans stop: users behind it vanish, a count of 0 with users stored is
  possible, and a hidden user can be added a second time.
- `AdvertMatchesUsers`: such a sector 0, a first user with the all-0xFF id, and a
  module that was sent its own factory reset; `ModuleInStep`: the same and a
  failed erase.
- `ConnectionTold`: from a factory reset to the next change of the pin (`hidden`),
  where the LED shows idle while a client is connected (`main.c:600`).
- `WipedStaysWiped`: chip erases that were cut short or not carried out; what
  those leave is in `UserTable` (`WipedInPart`). `ScansEnd` is about the user
  sectors, not about them.

One run ends in a violation: `CommandEngine_press` shows that no PRESS with the
payload the comments describe (`main.c:39` nonce first, `main.c:346-347` then
relay mask and hold time) is carried out, because the size must be 2
(`main.c:348`), which the nonce check (`main.c:246`) refuses. GET_USER_INFO
(`main.c:389`) is in the same position. So no press reaches the key fob task
today; `Panel` models it as the code would run it.

Read off the code and modelled, without a run of their own:

- the all-0xFF id is "found" in the first erased sector (`flash.c:298` against
  `308`); as the first user it is answered OK while the count stays 0, and the
  advert then shows users until the next boot (`main.c:296-302`);
- a power cut inside `flash_user_overwrite` of sector 0, or an erase of it that
  clears the id and leaves a later byte (`flash.c:351-355`), makes the count 0
  while users are stored behind it, and the keybox goes back to first-user mode,
  which `main.c:553` describes for 0 users;
- the long window is tested for ADD_USER only (`main.c:225`), where the comment at
  `main.c:162` says (proxy) add: PROXY_ADD_USER expires after five minutes;
- the magic alone vouches for the device info (`flash.c:215`) and is the first
  field written, where `flash.c:214` says "check if content is valid": a cut
  inside the program leaves a sector the next boot accepts;
- CHANGE_PASSKEY takes the nonce as the passkey without a range check
  (`main.c:367`);
- a boot that resets sends BLE commands before the wait for the module
  (`main.c:564`) and sends `ble_continue` twice (`ble.c:113`).

### Bounds

User table and engine: two or three sectors give every position the code tells
apart: the first, the last, the one after it, and one between. One user more
than sectors reaches the table-full branch. Two power cuts are what it takes to
damage a table and interrupt the repair. Two words distinguish "the nonce" from
"another word"; the all-0xFF id shares its first word with a user. `LastSlot` is
the last sector a scan looks at: in `UserTable` the one after the table, in
`CommandEngine` one more for each failing erase, since the search for the
all-0xFF id may end, and an overwrite of it program, that far out. The runs keep
the clock's battery; that it may fail (`BatteryFails`) is in the proofs of all
but `ClockTheorem`. `MaxTime` stops the clock, `MaxFlashFails`, `MaxEraseFails`
and `MaxCuts` bound the faults. Request sizes are those the handlers compare
with, and one beside each.

Kernel: a queue of two places has a ring that wraps and a difference between
one item and full; block times and delays reach past the wrap of a counter of 6
values (4 in the liveness run), which holds every order of now, wake time and
wrap; `OverflowWidth` makes the overflow counter itself wrap. A receiver kept from
running for a whole turn of both counters (99 days times 2^32 in the code) takes
that time for none and waits again; in the model this happens, and no property
is false of it. `MaxPended` is the number of ticks one suspension of the scheduler
may last: a suspended section is far shorter than a tick.

Serial lines: three cells give a first, a middle and a last byte, and for
RS-485 a frame of two bytes and a header; three messages are a bad one, a good
one and another; two frames fill the frame queue. Panel: the times are those of
the code; `Late` is a tick for each of the six tasks of priority 5; queues of
two tell "one waiting" from "full". 1638 ticks are the watchdog's nominal time at
500 Hz and its 40 kHz clock. The clock of the chip may run at up to 60 kHz: then
the time is about 1092 ticks, less than the 1100 the white start pattern takes.
Button: small times with a deglitch that ends before the hold time does, a
counter that wraps during any press, and presses longer than the hold time. The
assumption `Deglitch + Late <= LongHold` is 100 ticks against 2500 in the code.
`LongHonoured` promises a report for a press that follows `Rest` ticks of rest
(a deglitch, a poll and three late turns) and lasts `Need` ticks (the hold time,
a poll and a late turn): one tick less of either and TLC finds a missed press.
App loop: queues of two; four request numbers tell those that wait, the one in
work and the one last answered apart, and each behaviour may have any number of
requests, reports and pin changes; three RS-485 messages are told apart, and
`RsGoesForward` asks for an increase up to there.

### Fairness

- `DeviceLifecycle`: `WF(AppStep)`, as the app task shares its priority with
  tasks that block or are time-sliced; `WF(BleStart)`, `WF(BleAnswer)`: the module
  comes up and answers. The firmware has no time limit of its own (`ble.c:41-44`),
  so without this it does hang.
- `Kernel`: the tick comes (`SF(SysTick)`), a task that runs goes on, and among
  ready tasks of one priority each gets its turn (`SF` of `Step` and `SwitchTo`:
  time slicing, `configUSE_TIME_SLICING`). Strong, because interrupts and the
  other tasks disable a step again and again. Nothing is fair about senders.
- `SerialLink`, `Button`: the task and the tick; nothing about the peer or the
  contacts. `Panel`: the two tasks. `AppLoop`: the app task; requests, messages,
  reports and pin changes may come for ever or not at all.

The clients of the command engine are promised nothing: another's HELLO replaces
their nonce.

## What is proved

All theorems hold for every value of the constants under the assumptions of the
modules; what else a theorem assumes is in its statement.

`UserTable_proofs`, when requests do not carry the all-0xFF id (`Blank \notin
Inputs`; with it, a search can end in the sector after the table and an overwrite
program it), for any number of power cuts and failing erases:

- `TypeCorrect`, `ScansAlwaysEnd`, `AlwaysProgramsErased` and
  `OtherUsersUntouched`. The inductive invariant adds to these that a sector
  being erased or marked holds an id of the operation in progress and lies
  inside the table, and that the record to be programmed has an id: without
  that, the step that finishes a command says nothing about what it overwrote.
- `NeverHoles` and `IdsStayUnique`, from `OrderInvariant`: the table is in order
  but for `gaps`. `NewcomerFits` adds that no sector before the one being erased or
  programmed is free or has its id, and none after it has, gaps aside: what the
  search just before the command established. `GapsBelow`: whatever is free below
  a gap is a gap too.
- `DirectoryTheorem`, the refinement of `UserDirectory`, and `BlockedTheorem`.
  While there is no gap, each step leaves the table a reader would see as it is or
  changes one sector of one user, by a command or a fault. When a fault makes a
  gap, the users found afterwards are those in front of it, unchanged but for the
  one it struck: `Vanish`. An injection of users into the sectors below the free
  one gives the directory's limit.

`CommandEngine_proofs`, for any set of frames (those with the all-0xFF id among
them), users, table size and failures:

- `NonceTheorem`: inductive as stated, because `granted` follows the nonce.
- `AdvertTheorem`: strengthened with the type of the table and of `ble`. It
  rests on `CountZero` (the count is 0 exactly when sector 0 has no id) and
  `AddPlace` (an add never frees sector 0).
- `TypeTheorem`, `SettingsTheorem`; `ClockTheorem`, when the battery lasts and
  requests carry positive times (`TimesAreSent`).
- `SilentTheorem` (`BlockedSilent`): `Ordered` (no holes and no id twice, as in
  `UserTable`, while there is no gap) and `Silenced` (a revoked user is stored,
  blocked) together make the search that admits a request stop at the blocked
  record.
- `DirectoryTheorem`: the engine implements `UserDirectory` as `UserTable` does,
  here from what requests, restarts and resets do as whole commands
  (`StepChanges`). `UserTable` proves that of the chip commands, so both levels of
  the model keep the same promise. `VouchedTheorem`, on the same invariant
  (`Users`): every change of the sectors answers a user the search finds, with a
  key and not blocked, save a first user, added to a table that counts nobody and,
  as long as there is no gap, holds nobody; and a reset that erases everything.

`DeviceLifecycle_proofs`: `TypeTheorem`, whose `Exchange` says which sequences of
BLE commands can be left to send; `StoredTheorem` (`Stored`: from a valid check or
program to the next change RAM and flash agree); `ModuleTheorem` (`Started`,
`SettingsTold`, `AdvertRight`: the module is in step or the commands that bring
it in step are still to come, unless it is detached); `WipeTheorem`.

`Kernel_proofs`: `TypeTheorem`, `WakeupTheorem`, `WakeTimesTheorem`,
`SleepTheorem`, `SwitchTheorem`, `EmptyTheorem` and the refinement `QueueTheorem`.
The invariants build on one another: `Control` (who may be where, and who holds
the scheduler), `Locked` (the lock count and where the queue is locked), `Events`
(a task on the queue's list has seen it empty under its lock), `Times` and
`Waited` (wake times and lists), `Sleeping` (the wake time is `left` ticks ahead,
modulo the counter), `Counting` (`xTimeOut` and `left` agree: the arithmetic of
`xTaskCheckForTimeOut`), `Scheduling`, `Widths`, and `Ring` (where the items lie).

`SerialLink_proofs`: `TypeTheorem` (no line writes past its buffer; `LineType`,
`DataType`), `StreamTheorem`, and

- `PromptTheorem`: `Clocked` ties the quiet ticks of the line to what the
  receiver still waits, so that after `Gap + 2 * Late` of them nothing is left to
  cut. It is the part of `BytesLeave` that is a safety property.
- `WholeTheorem` (`GoodMessageWhole`): the peer's pauses are longer than that, so
  a good message starts at the front of the buffer or right behind a full one.
  `Placed` says it of every byte that waits to be cut and `Current` of the message
  being sent, whose next byte comes before the receiver takes the silence for the
  end; `AllWhole` is what has been cut. `Numbers` and `AllNumbers` say that no
  byte has the number of a message still to come.

`Panel_proofs`: `TypeTheorem`, `WatchdogTheorem` for any watchdog time above
`Margin` (`Waited` bounds `since` at each place of the loop), `RelayTheorem`
(`Wired`: the outputs at each phase), `PressTheorem`, and `SettledTheorem`, with
`Remembered`: the last permanent state among those that wait, are shown or are to
be shown again is the one last sent.

`AppLoop_proofs`: `TypeTheorem`, `ConnectionTheorem`, `RsTheorem` (`InOrder`:
what the buffer holds is not newer than what waits, which is in order) and
`RequestTheorem`. Neither requests nor messages are bounded.

`Button_proofs`: `TypeTheorem`, `FalseLongTheorem` (`HoldTime` bounds the
modular hold time by how long the contact was really down) and
`HonouredTheorem`: a press owed a long report is not called short. `Seen` says
how long the button can be up before the task knows, `Caught` that a press after
more rest than that is being timed and how far the time may be off, `Owing` that
what is owed is about to be reported as long. The bounds in `Seen` are where
`Rest` comes from, those in `Caught` give `Need`, for any times.

The invariants of `WholeTheorem`, `HonouredTheorem` and `SettledTheorem` were
checked with TLC on the instances of the runs before they were proved.

Only model-checked: that what must happen does happen, which is out of the
prover's reach (`ServesAgain`, `MessageTaken`, `WaitEnds`, `BytesLeave`,
`LedSettles`, `LongHonoured`, `RequestsAnswered`, `LongPressResets`). Of
`BytesLeave`, `LedSettles` and `LongHonoured` the safety half is proved
(`InTime`, `Settled`, `OwedNotShort`). Only proved, not run: these three, the type
invariants of `SerialLink`, `Panel`, `Button` and `AppLoop`, the refinements
`ImplementsPresses` and `ImplementsRequests`, and what the command engine's users
are (`Directory!Spec`, `Vouched`).

## Plan

What was planned is done: table, engine, lifecycle, serial lines, panel, button,
app loop, and the kernel beneath them, each with its refinement where there is a
simple promise to refine, and the proofs. What could come next:

1. What is left of the liveness properties to prove as safety: where the app task
   can be when a long press or a request waits.
2. A composition of `SerialLink`, `AppLoop` and `CommandEngine` in one state
   machine. The queues between them are the interface (`FrameStream`,
   `BoundedQueue`), and each side is checked against an environment that sends
   anything at any time.
3. The clock's arithmetic with its integer width (`main.c:165-172`).

## Not modelled

- Signatures and key generation (third-party; a signature is the key it verifies
  under, a key pair is not told apart), the contents of the bytes on the serial
  lines, user names beyond "valid or not", debug output (compiled out), register
  and pin set-up, which runs once before the scheduler and has nothing to
  interleave.
- The clock's arithmetic near the ends of the 32-bit range (`main.c:165-172`):
  times are small numbers in `CommandEngine`.
- A CHANGE_NAME payload without a zero byte: the `strcpy` of `main.c:407` is
  bounded neither by the payload size nor by the 32 bytes of the name, and goes on
  into what follows both. The names that arrive in the model end in time.
- What the BLE module does with a command it did not expect. It answers every
  command with `*`.
- Of the kernel: what the firmware does not use (blocking sends, semaphores,
  timers, event groups, stream buffers, notifications, deletion) and the creation
  of tasks and queues at start-up. Each queue of the firmware has one receiving
  task, so the order among several waiting tasks does not arise; `RS_RECV` and the
  loop that share a queue are the same task.

The vendored code is most of the repository: register headers and drivers,
cryptography, unused kernel modules. The lines mapped are therefore a small
share of all lines, but nearly all of the state-changing code under `src/User`
that is the firmware's own. `PROJECT.json` lists every component and its status,
and every hazard, with the property that covers it or the reason why none does.
