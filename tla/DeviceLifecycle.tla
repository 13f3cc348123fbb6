-------------------------- MODULE DeviceLifecycle ---------------------------
(***************************************************************************)
(* The life of the keybox from power-up to power-up: the boot of app_task, *)
(* the factory reset, the device-info sector of flash.c and the control    *)
(* exchange with the BLE module, each one chip command or one BLE command  *)
(* at a time, with power cuts and MCU resets between and inside them.      *)
(***************************************************************************)
EXTENDS Integers, Sequences

CONSTANTS
    Settings,       \* contents of struct flash_device_info
    Factory,        \* the one app_factory_reset writes
    Blank, Torn,    \* erased bytes; bytes no one wrote
    MaxCuts,        \* bound: power cuts and resets
    MaxEraseFails   \* bound: erase commands the chip does not carry out

ASSUME LifecycleAssumption ==
    /\ Factory \in Settings
    /\ Blank \notin Settings /\ Torn \notin Settings /\ Blank # Torn
    /\ MaxCuts \in Nat /\ MaxEraseFails \in Nat

VARIABLES
    pc,         \* where app_task is
    back,       \* where it goes on after the BLE exchange in progress
    todo,       \* BLE control commands still to be sent, in order
    asked,      \* the command whose '*' app_task waits for, or "none"
    dev,        \* app_dev_info in RAM
    info,       \* sector 0: is its magic right, and the rest
    users,      \* the first user sector: erased, a record with no id in it, a user
    clockSet,   \* the RTC holds a time, not CFG_FACTORY_TIME
    ble,        \* BLE module: powered up, settings, advert, told to start with 'C'
    wiped,      \* history: the chip was erased to the end; no user added and no
                \* chip erase failed or cut short since
    detached,   \* history: the module was sent its own factory reset since its
                \* last whole configuration
    cuts, fails \* faults so far

app == <<pc, back, todo, asked>>
chip == <<info, users>>
faults == <<cuts, fails>>
history == <<wiped, detached>>
vars == <<app, dev, chip, clockSet, ble, history, faults>>

None == "none"

(* flash_user_count() is 0 unless the first sector holds a user's id: a    *)
(* first user whose id is all 0xFF, which ADD_FIRST_USER accepts, is found *)
(* by the search but does not count.                                       *)
UserStates == {"none", "unnamed", "some"}
NoUsers == users # "some"

BleOff == [up |-> FALSE, settings |-> Blank, firstUser |-> FALSE, started |-> FALSE]

Init ==
    /\ pc = "boot" /\ back = "serve" /\ todo = <<>> /\ asked = None
    /\ dev = Blank
    /\ info = [magic |-> FALSE, body |-> Blank]
    /\ users = "none"
    /\ clockSet = FALSE
    /\ ble = BleOff
    /\ wiped = FALSE /\ detached = FALSE
    /\ cuts = 0 /\ fails = 0

-----------------------------------------------------------------------------
Goto(l) == pc' = l /\ UNCHANGED <<back, todo, asked>>

(* app_task starts sending the commands s and then goes on at l.           *)
SendBle(s, l) == pc' = "ble" /\ todo' = s /\ back' = l /\ UNCHANGED asked

(* Mutant of BleConfig: the advert the wrong way round.                    *)
BleConfig_AdvertSwapped(isReset) ==
    IF isReset THEN <<"R", "P", "N", "A", "S", "C">> ELSE <<"P", "N", "B", "S", "C">>

(* app_ble_config(is_reset).                                               *)
BleConfig(isReset) ==
    IF isReset THEN <<"R", "P", "N", "B", "S", "C">> ELSE <<"P", "N", "A", "S", "C">>

(* Mutant of Boot: the magic is not checked.                               *)
Boot_AnyMagic ==
    /\ pc = "boot"
    /\ dev' = info.body
    /\ Goto("count")
    /\ UNCHANGED <<chip, clockSet, ble, history, faults>>

(* flash_device_info_get at boot: whatever follows a right magic is taken. *)
Boot ==
    /\ pc = "boot"
    /\ dev' = info.body
    /\ IF info.magic
       THEN Goto("count")
       ELSE pc' = "reset" /\ back' = "count" /\ UNCHANGED <<todo, asked>>
    /\ UNCHANGED <<chip, clockSet, ble, history, faults>>

(* app_factory_reset up to flash_erase_chip: new settings in RAM.          *)
ResetStarts ==
    /\ pc = "reset"
    /\ dev' = Factory
    /\ Goto("wipe")
    /\ UNCHANGED <<chip, clockSet, ble, history, faults>>

InfoErased == [magic |-> FALSE, body |-> Blank]

EraseChipDone ==
    /\ pc = "wipe"
    /\ info' = InfoErased
    /\ users' = "none"
    /\ wiped' = TRUE
    /\ Goto("reset_info_erase")
    /\ UNCHANGED <<dev, clockSet, ble, detached, faults>>

(* What a sector-0 erase that does not complete may leave.                 *)
InfoLeftOver == [magic : {info.magic, FALSE}, body : {info.body, Torn, Blank}]

(* flash_erase_chip does not look at what the chip did.                    *)
EraseChipFails ==
    /\ pc = "wipe"
    /\ fails < MaxEraseFails
    /\ info' \in InfoLeftOver /\ users' \in UserStates
    /\ wiped' = FALSE
    /\ Goto("reset_info_erase")
    /\ fails' = fails + 1
    /\ UNCHANGED <<dev, clockSet, ble, detached, cuts>>

(* flash_device_info_set, called by the factory reset, which ignores its   *)
(* return value, or by CHANGE_PASSKEY / CHANGE_NAME.                       *)
InfoErase ==
    /\ pc \in {"reset_info_erase", "set_info_erase"}
    /\ info' = InfoErased
    /\ Goto(IF pc = "set_info_erase" THEN "set_info_prog" ELSE "reset_info_prog")
    /\ UNCHANGED <<dev, users, clockSet, ble, history, faults>>

InfoEraseFails ==
    /\ pc \in {"reset_info_erase", "set_info_erase"}
    /\ fails < MaxEraseFails
    /\ info' \in InfoLeftOver
    /\ Goto(IF pc = "set_info_erase" THEN "serve" ELSE "reset_rtc")
    /\ fails' = fails + 1
    /\ UNCHANGED <<dev, users, clockSet, ble, history, cuts>>

InfoProg ==
    /\ pc \in {"reset_info_prog", "set_info_prog"}
    /\ info' = [magic |-> TRUE, body |-> dev]
    /\ IF pc = "set_info_prog" THEN SendBle(<<"P">>, "serve") ELSE Goto("reset_rtc")
    /\ UNCHANGED <<dev, users, clockSet, ble, history, faults>>

(* The rest of app_factory_reset: RTC, then the BLE module.  back is where *)
(* the reset was called from.                                              *)
ResetRtc ==
    /\ pc = "reset_rtc"
    /\ clockSet' = FALSE
    /\ SendBle(BleConfig(TRUE), back)
    /\ detached' = FALSE
    /\ UNCHANGED <<dev, chip, ble, wiped, faults>>

(* "Wait for ble to start": the module is up when the delay is over.       *)
CountAndWait ==
    /\ pc = "count"
    /\ ble.up
    /\ SendBle(BleConfig(NoUsers), "serve")
    /\ detached' = FALSE
    /\ UNCHANGED <<dev, chip, clockSet, ble, wiped, faults>>

(* One ctrl command goes out; ble_ctrl_check then spins until '*'.         *)
BleAsk ==
    /\ pc = "ble" /\ asked = None /\ todo # <<>>
    /\ asked' = Head(todo)
    /\ UNCHANGED <<pc, back, todo, dev, chip, clockSet, ble, history, faults>>

(* Mutant of BleExchangeDone: the caller is always the boot.               *)
BleExchangeDone_ToBoot ==
    /\ pc = "ble" /\ asked = None /\ todo = <<>>
    /\ Goto("count")
    /\ UNCHANGED <<dev, chip, clockSet, ble, history, faults>>

(* All commands are answered: on with the caller.                          *)
BleExchangeDone ==
    /\ pc = "ble" /\ asked = None /\ todo = <<>>
    /\ Goto(back)
    /\ UNCHANGED <<dev, chip, clockSet, ble, history, faults>>

(* The module carries the command out and answers '*' (external).  'P' and *)
(* 'N' stand for the settings they carry.                                  *)
BleAnswer ==
    /\ asked # None /\ ble.up
    /\ ble' = CASE asked = "R" -> [ble EXCEPT !.settings = Blank, !.firstUser = FALSE]
                [] asked \in {"P", "N"} -> [ble EXCEPT !.settings = dev]
                [] asked \in {"A", "B"} -> [ble EXCEPT !.firstUser = (asked = "B")]
                [] asked = "C" -> [ble EXCEPT !.started = TRUE]
                [] OTHER -> ble
    /\ asked' = None
    /\ todo' = Tail(todo)
    /\ UNCHANGED <<pc, back, dev, chip, clockSet, history, faults>>

BleStart ==
    /\ ~ble.up
    /\ ble' = [ble EXCEPT !.up = TRUE]
    /\ UNCHANGED <<app, dev, chip, clockSet, history, faults>>

-----------------------------------------------------------------------------
(* The secure commands need a user that the search finds with its key: any *)
(* but an erased record.                                                   *)
SecureCommand == pc = "serve" /\ users # "none"

(* CHANGE_PASSKEY or CHANGE_NAME: RAM first, then flash, then the module.  *)
ChangeSettings(d) ==
    /\ SecureCommand
    /\ dev' = d
    /\ Goto("set_info_erase")
    /\ UNCHANGED <<chip, clockSet, ble, history, faults>>

(* FACTORY_RESET: the module alone is reset and the keybox serves on.      *)
ResetModule ==
    /\ SecureCommand
    /\ SendBle(<<"R">>, "serve")
    /\ detached' = TRUE
    /\ UNCHANGED <<dev, chip, clockSet, ble, wiped, faults>>

(* ADD_FIRST_USER: program the user, change the advert, set the clock.     *)
AddFirstUser ==
    /\ pc = "serve" /\ users = "none"
    /\ users' \in {"unnamed", "some"}
    /\ wiped' = FALSE
    /\ SendBle(<<"A">>, "first_rtc")
    /\ UNCHANGED <<dev, info, clockSet, ble, detached, faults>>

(* ADD_USER of a user whose sector then cannot be erased.                  *)
OverwriteFails ==
    /\ SecureCommand
    /\ fails < MaxEraseFails
    /\ users' \in UserStates
    /\ fails' = fails + 1
    /\ UNCHANGED <<app, dev, info, clockSet, ble, history, cuts>>

FirstUserClock ==
    /\ pc = "first_rtc"
    /\ clockSet' = TRUE
    /\ Goto("serve")
    /\ UNCHANGED <<dev, chip, ble, history, faults>>

(* Mutant of LongPress: the reset returns to itself.                       *)
LongPress_Loops ==
    /\ pc = "serve"
    /\ pc' = "reset" /\ back' = "reset" /\ UNCHANGED <<todo, asked>>
    /\ UNCHANGED <<dev, chip, clockSet, ble, history, faults>>

(* The app task finds a long press in the button queue.                    *)
LongPress ==
    /\ pc = "serve"
    /\ pc' = "reset" /\ back' = "serve" /\ UNCHANGED <<todo, asked>>
    /\ UNCHANGED <<dev, chip, clockSet, ble, history, faults>>

(* Power goes (the BLE module restarts too) or the MCU alone is reset, by  *)
(* the watchdog or a hard fault.  A chip command in progress has had part  *)
(* of its effect: magic is the first field programmed, and a keybox that   *)
(* serves may be writing a user's record.                                  *)
Interrupted ==
    CASE pc = "wipe" ->
            info' \in InfoLeftOver /\ users' \in UserStates /\ wiped' = FALSE
      [] pc \in {"reset_info_erase", "set_info_erase"} ->
            info' \in InfoLeftOver /\ UNCHANGED <<users, wiped>>
      [] pc \in {"reset_info_prog", "set_info_prog"} ->
            info' \in {[magic |-> FALSE, body |-> Torn], [magic |-> TRUE, body |-> Torn],
                       [magic |-> TRUE, body |-> dev]} /\ UNCHANGED <<users, wiped>>
      [] pc = "serve" ->
            UNCHANGED info /\ users' \in UserStates /\ wiped' = (wiped /\ users' = users)
      [] OTHER -> UNCHANGED <<chip, wiped>>

PowerCut ==
    /\ cuts < MaxCuts
    /\ Interrupted
    /\ pc' = "boot" /\ back' = "serve" /\ todo' = <<>> /\ asked' = None
    /\ dev' = Blank
    /\ ble' \in {BleOff, [ble EXCEPT !.up = FALSE, !.started = FALSE], ble}
    /\ cuts' = cuts + 1
    /\ UNCHANGED <<clockSet, detached, fails>>

AppStep ==
    \/ Boot \/ ResetStarts \/ EraseChipDone \/ InfoErase \/ InfoProg \/ ResetRtc
    \/ CountAndWait \/ BleAsk \/ BleExchangeDone \/ FirstUserClock

Next ==
    \/ AppStep \/ EraseChipFails \/ InfoEraseFails \/ OverwriteFails
    \/ BleAnswer \/ BleStart
    \/ \E d \in Settings : ChangeSettings(d)
    \/ ResetModule \/ AddFirstUser \/ LongPress
    \/ PowerCut

(* app_task shares its priority with tasks that block or are time-sliced,  *)
(* so it keeps running; the BLE module starts and answers (external).      *)
Spec == Init /\ [][Next]_vars /\ WF_vars(AppStep) /\ WF_vars(BleAnswer) /\ WF_vars(BleStart)

-----------------------------------------------------------------------------
Places == {"boot", "reset", "wipe", "reset_info_erase", "reset_info_prog", "reset_rtc", "count",
           "ble", "serve", "set_info_erase", "set_info_prog", "first_rtc"}

(* Every variable keeps the shape the code gives it.                       *)
TypeOK ==
    /\ pc \in Places /\ back \in {"count", "serve", "first_rtc"}
    /\ todo \in Seq({"R", "P", "N", "A", "B", "S", "C"})
    /\ asked \in {"R", "P", "N", "A", "B", "S", "C", None}
    /\ dev \in Settings \cup {Blank, Torn}
    /\ info \in [magic : BOOLEAN, body : Settings \cup {Blank, Torn}]
    /\ users \in UserStates /\ clockSet \in BOOLEAN
    /\ ble \in [up : BOOLEAN, settings : Settings \cup {Blank, Torn}, firstUser : BOOLEAN,
                started : BOOLEAN]
    /\ wiped \in BOOLEAN /\ detached \in BOOLEAN
    /\ cuts \in 0 .. MaxCuts /\ fails \in 0 .. MaxEraseFails

(* While it serves, whatever interrupted it before, the keybox stores the  *)
(* settings it uses under a right magic, unless an erase failed            *)
(* (main.c:512, 550; flash.c:222).                                         *)
ServesWhatItStores ==
    pc = "serve" /\ fails = 0 => info = [magic |-> TRUE, body |-> dev]

(* While it serves, the BLE module has been told to start since it powered *)
(* up and, unless an erase failed or the module was sent its own factory   *)
(* reset (main.c:430), has been told the settings in RAM and advertises    *)
(* first-user mode exactly when there is no user (main.c:537, 568; a first *)
(* user with the all-0xFF id aside, whom only the next boot overlooks).    *)
ModuleInStep ==
    pc = "serve" =>
        /\ ble.started
        /\ fails = 0 /\ ~detached =>
              /\ ble.settings = dev
              /\ users # "unnamed" => ble.firstUser = (users = "none")

(* A chip erase that ran to its end is never undone by what interrupts the *)
(* rest of the factory reset: the keybox next serves without users, in     *)
(* first-user mode (main.c:511-537, 550).                                  *)
WipedStaysWiped == wiped => users = "none" /\ (pc = "serve" => ble.firstUser)

(* However power cuts and resets fall, the keybox comes to serve again     *)
(* (main.c:550-574).                                                       *)
ServesAgain == []<>(pc = "serve")
=============================================================================
