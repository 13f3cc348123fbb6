--------------------------- MODULE CommandEngine ----------------------------
(***************************************************************************)
(* The command interpreter of main.c: app_in_logic run on one request at a *)
(* time by the app task, with the state it keeps (user table, device       *)
(* settings in RAM, in flash and in the BLE module, nonce, RTC) and the    *)
(* events that touch the same state between requests (time, a restart, the *)
(* factory reset).  Flash writes are single steps here; UserTable opens    *)
(* them up.                                                                *)
(***************************************************************************)
EXTENDS FlashTable

CONSTANTS
    Words,          \* 4-byte values: nonces, passkeys, first bytes of ids
    FirstWord,      \* the first four bytes of each id, of the all-0xFF one too
    None,           \* no nonce outstanding; a setting nobody has set
    FactoryName, FactoryPasskey,    \* CFG_FACTORY_*
    DeltaMax, DeltaProxyMax,        \* APP_TIME_DELTA_*
    Requests,       \* the frames that arrive
    BatteryFails,   \* the RTC battery may lose power with the keybox
    MaxTime,        \* bound: the RTC stops there
    MaxFlashFails   \* bound: erases of sector 0 or of a user that fail

Unsecure == {"HELLO", "ADD_FIRST_USER"}
Secured == {"SECURE_HELLO", "CHANGE_NAME", "CHANGE_PASSKEY", "FACTORY_RESET", "USER_BLOCK",
            "ADD_USER", "SYNC_TIME", "GET_USER_COUNT", "GET_USER_INFO", "PROXY_ADD_USER",
            "RESET_REASON", "DEVICE_INFO", "PRESS", "RS_SEND", "RS_RECV"}
Commands == Unsecure \cup Secured \cup {"UNKNOWN", "UNKNOWN_SECURE"}

PayloadMax == 151

(* APP_ERR_*.                                                              *)
Codes == {"OK", "WRONG_SERIAL", "WRONG_VER", "UNKNOWN_USER", "SIGNATURE_CHECK_FAILED",
          "UNKNOWN_COMMAND", "PAYLOAD_WRONG_SIZE", "USER_ALREADY_ADDED", "FLASH_FAILURE",
          "EXPIRED", "USER_BLOCKED", "USER_NAME_INVALID", "NONCE_CHECK_FAILED"}

(* struct app_req.  hdr tells whether ver and serial are ours; word is the *)
(* first four payload bytes; target, key and named are the id, the public  *)
(* key and the validity of the name that ADD_FIRST_USER, ADD_USER and      *)
(* USER_BLOCK read at their offsets; either id may be the all-0xFF one     *)
(* that marks a free sector, which no check looks for; signer is the key   *)
(* the signature verifies under, over the bytes app_in_logic hands to      *)
(* ed25519_verify.                                                         *)
RequestType ==
    [hdr : {"ok", "ver", "serial"}, user : Ids \cup {Blank}, time : Int, cmd : Commands,
     sz : 0 .. 255, word : Words, target : Ids \cup {Blank}, key : Keys, named : BOOLEAN,
     signer : Keys]

ASSUME EngineAssumption ==
    /\ FirstWord \in [Ids \cup {Blank} -> Words]
    /\ None \notin Words \cup {FactoryName} \cup Ids \cup {Blank}
    /\ FactoryPasskey \in Words
    /\ DeltaMax \in Nat /\ DeltaProxyMax \in Nat
    /\ Requests \subseteq RequestType
    /\ \A r \in Requests :
          r.cmd \in {"ADD_USER", "PROXY_ADD_USER", "USER_BLOCK"} => r.word = FirstWord[r.target]
    /\ BatteryFails \in BOOLEAN
    /\ MaxTime \in Nat /\ MaxFlashFails \in Nat
    /\ LastSlot = UsersMax + MaxFlashFails

VARIABLES
    slots,      \* the user sectors
    dev,        \* app_dev_info: passkey and name in RAM
    info,       \* sector 0: what flash_device_info_set programmed, or None
    ble,        \* what the BLE module was last told, and its advert
    nonce,      \* app_expected_nonce while app_nonce_active, else None
    rtc,        \* RTC counter; every negative value is -1
    relay,      \* keyfob_set was called by a PRESS
    out,        \* the last reply: its code and the user it answers
    revoked,    \* history: users blocked and not added again since
    granted,    \* history: a nonce was sent since the last secure command or restart
    unearned,   \* history: a secure command ran when none was granted
    gaps,       \* history: sectors a failed erase left, or found, without an id
    fails       \* flash failures so far

config == <<dev, info, ble>>
history == <<revoked, granted, unearned, gaps>>
vars == <<slots, config, nonce, rtc, relay, out, history, fails>>

Factory == [passkey |-> FactoryPasskey, name |-> FactoryName]

(* app_ble_config(is_reset): everything the module is told at boot.        *)
BleConfigured(d, isReset) == [passkey |-> d.passkey, name |-> d.name, firstUser |-> isReset]

(* After its own factory reset ('R') the module's settings are not those   *)
(* of the keybox (external).                                               *)
BleReset == [passkey |-> None, name |-> None, firstUser |-> None]

Init ==
    /\ slots = [i \in Slots |-> Erased]
    /\ dev = Factory /\ info = Factory /\ ble = BleConfigured(Factory, TRUE)
    /\ nonce = None
    /\ rtc = -1
    /\ relay = FALSE
    /\ out = [user |-> None, code |-> "NONE"]
    /\ revoked = {} /\ granted = FALSE /\ unearned = FALSE /\ gaps = {}
    /\ fails = 0

-----------------------------------------------------------------------------
(* The checks app_in_logic makes before the command, in their order.       *)

(* rtc_check_range, and the delta each command is given (main.c:225).      *)
Delta(cmd) == IF cmd = "ADD_USER" THEN DeltaProxyMax ELSE DeltaMax

InRange(time, delta) == rtc - delta < time /\ time < rtc + delta

Addressed(r) == r.hdr = "ok" /\ r.sz <= PayloadMax

Timely(r) == rtc > 0 => InRange(r.time, Delta(r.cmd))

(* Mutant of Allowed: no check of the state byte.                          *)
Allowed_Always(r) == TRUE

Allowed(r) == Found(slots, r.user) => UserOf(slots, r.user).st # "BLOCKED"

Secure(r) == r.cmd \in Secured \cup {"UNKNOWN_SECURE"}

Known(r) == Secure(r) => Found(slots, r.user)

NeedsNonce(r) == Secure(r) /\ r.cmd # "SECURE_HELLO"

Fresh(r) == NeedsNonce(r) => nonce # None /\ r.sz >= 4 /\ r.word = nonce

Signed(r) == Secure(r) => Found(slots, r.user) /\ UserOf(slots, r.user).key = r.signer

(* The request reaches the switch of app_in_logic.                         *)
Admitted(r) == Addressed(r) /\ Timely(r) /\ Allowed(r) /\ Known(r) /\ Fresh(r) /\ Signed(r)

(* Mutant of SpendsNonce: the nonce stays active.                          *)
SpendsNonce_Never(r) == FALSE

(* The nonce is cleared before the signature is checked (main.c:250).      *)
SpendsNonce(r) ==
    NeedsNonce(r) /\ Addressed(r) /\ Timely(r) /\ Allowed(r) /\ Known(r) /\ Fresh(r)

(* The code of the first check that fails.                                 *)
RefusalCode(r) ==
    LET checks == << <<r.hdr # "ver", "WRONG_VER">>,
                     <<r.sz <= PayloadMax, "PAYLOAD_WRONG_SIZE">>,
                     <<r.hdr # "serial", "WRONG_SERIAL">>,
                     <<Timely(r), "EXPIRED">>,
                     <<Allowed(r), "USER_BLOCKED">>,
                     <<Known(r), "UNKNOWN_USER">>,
                     <<Fresh(r), "NONCE_CHECK_FAILED">>,
                     <<Signed(r), "SIGNATURE_CHECK_FAILED">> >>
        first == CHOOSE i \in 1 .. 8 :
                    ~checks[i][1] /\ \A j \in 1 .. (i - 1) : checks[j][1]
    IN  checks[first][2]

(* app_out_generate, and the nonce bookkeeping every request goes through. *)
Reply(r, code) ==
    /\ out' = [user |-> r.user, code |-> code]
    /\ nonce' = IF SpendsNonce(r) THEN None ELSE nonce
    /\ LET runs == Admitted(r) /\ NeedsNonce(r) IN
          /\ granted' = (granted /\ ~runs)
          /\ unearned' = (unearned \/ (runs /\ ~granted))

Reject(r) ==
    /\ ~Admitted(r)
    /\ Reply(r, RefusalCode(r))
    /\ UNCHANGED <<slots, config, rtc, relay, revoked, gaps, fails>>

(* HELLO, SECURE_HELLO: a new nonce replaces whatever was outstanding.     *)
Hello(r, n) ==
    /\ r.cmd \in {"HELLO", "SECURE_HELLO"}
    /\ Admitted(r)
    /\ nonce' = n
    /\ granted' = TRUE
    /\ out' = [user |-> r.user, code |-> "OK"]
    /\ UNCHANGED <<slots, config, rtc, relay, revoked, unearned, gaps, fails>>

SyncTime(r) ==
    /\ r.cmd = "SYNC_TIME"
    /\ Admitted(r)
    /\ rtc' = r.time
    /\ Reply(r, "OK")
    /\ UNCHANGED <<slots, config, relay, revoked, gaps, fails>>

(* flash_user_add(u) = code, leaving the table s.                          *)
AddResult(u, code, s) ==
    \E n \in Slots :
        /\ CountIs(slots, n)
        /\ IF n >= UsersMax \/ slots[n] # Erased
           THEN code = "FLASH_FAILURE" /\ s = slots
           ELSE code = "OK" /\ s = [slots EXCEPT ![n] = Program(Erased, u)]

AddFirstUser(r) ==
    /\ r.cmd = "ADD_FIRST_USER"
    /\ Admitted(r)
    /\ \/ /\ ~CountIs(slots, 0)
          /\ Reply(r, "USER_ALREADY_ADDED")
          /\ UNCHANGED <<slots, ble, rtc, revoked>>
       \/ /\ CountIs(slots, 0)
          /\ r.sz # 64 \/ ~r.named
          /\ Reply(r, IF r.sz # 64 THEN "PAYLOAD_WRONG_SIZE" ELSE "USER_NAME_INVALID")
          /\ UNCHANGED <<slots, ble, rtc, revoked>>
       \/ /\ CountIs(slots, 0)
          /\ r.sz = 64 /\ r.named
          /\ \E code \in {"OK", "FLASH_FAILURE"} :
                /\ AddResult(NewUser(r.user, r.key), code, slots')
                /\ ble' = IF code = "OK" THEN [ble EXCEPT !.firstUser = FALSE] ELSE ble
                /\ rtc' = IF code = "OK" /\ rtc < 0 THEN r.time ELSE rtc
                /\ revoked' = IF code = "OK" THEN revoked \ {r.user} ELSE revoked
                /\ Reply(r, code)
    /\ UNCHANGED <<dev, info, relay, gaps, fails>>

(* flash_user_overwrite of sector i when its erase fails.                  *)
OverwriteFails(i) ==
    /\ fails < MaxFlashFails
    /\ fails' = fails + 1
    /\ \E g \in PartialErase(slots[i]) :
          /\ slots' = [slots EXCEPT ![i] = g]
          /\ gaps' = IF Blank \in {slots[i].id, g.id} THEN gaps \cup {i} ELSE gaps

(* ADD_USER, PROXY_ADD_USER: the id is payload[0..15], whose first word    *)
(* the nonce check has just compared with the nonce.                       *)
AddUser(r) ==
    /\ r.cmd \in {"ADD_USER", "PROXY_ADD_USER"}
    /\ Admitted(r)
    /\ \/ /\ r.sz # 80 \/ ~r.named
          /\ Reply(r, IF r.sz # 80 THEN "PAYLOAD_WRONG_SIZE" ELSE "USER_NAME_INVALID")
          /\ UNCHANGED <<slots, revoked, gaps, fails>>
       \/ /\ r.sz = 80 /\ r.named
          /\ \E i \in Slots :
                /\ FoundAt(slots, r.target, i)
                /\ slots' = [slots EXCEPT ![i] = NewUser(r.target, r.key)]
          /\ revoked' = revoked \ {r.target}
          /\ Reply(r, "OK")
          /\ UNCHANGED <<gaps, fails>>
       \/ /\ r.sz = 80 /\ r.named
          /\ \E i \in Slots : FoundAt(slots, r.target, i) /\ OverwriteFails(i)
          /\ revoked' = IF slots' = slots THEN revoked ELSE revoked \ {r.target}
          /\ Reply(r, "FLASH_FAILURE")
       \/ /\ r.sz = 80 /\ r.named
          /\ NotFound(slots, r.target)
          /\ \E code \in {"OK", "FLASH_FAILURE"} :
                /\ AddResult(NewUser(r.target, r.key), code, slots')
                /\ revoked' = IF code = "OK" THEN revoked \ {r.target} ELSE revoked
                /\ Reply(r, code)
          /\ UNCHANGED <<gaps, fails>>
    /\ UNCHANGED <<config, rtc, relay>>

UserBlock(r) ==
    /\ r.cmd = "USER_BLOCK"
    /\ Admitted(r)
    /\ \/ /\ r.sz # 16 \/ NotFound(slots, r.target)
          /\ Reply(r, IF r.sz # 16 THEN "PAYLOAD_WRONG_SIZE" ELSE "UNKNOWN_USER")
          /\ UNCHANGED <<slots, revoked>>
       \/ /\ r.sz = 16
          /\ \E i \in Slots :
                FoundAt(slots, r.target, i) /\ slots' = [slots EXCEPT ![i] = Blocked(slots[i])]
          /\ revoked' = revoked \cup ({r.target} \cap Ids)
          /\ Reply(r, "OK")
    /\ UNCHANGED <<config, rtc, relay, gaps, fails>>

(* Mutant of Configure: the module is not told.                            *)
Configure_ModuleNotTold(r, d, told) ==
    /\ dev' = d /\ info' = d
    /\ Reply(r, "OK")
    /\ UNCHANGED <<ble, fails>>

(* Sector 0 after an erase that failed: it reads as before or without the  *)
(* magic, or a setting of it is lost.                                      *)
Remains ==
    {None, info} \cup
    (IF info = None THEN {}
     ELSE [passkey : {info.passkey, None}, name : {info.name, None}])

(* flash_device_info_set(d): the RAM copy is already d when the erase      *)
(* fails, the module is told only after the program.                       *)
Configure(r, d, told) ==
    \/ /\ dev' = d /\ info' = d /\ ble' = told
       /\ Reply(r, "OK")
       /\ UNCHANGED fails
    \/ /\ fails < MaxFlashFails
       /\ fails' = fails + 1
       /\ dev' = d /\ info' \in Remains /\ UNCHANGED ble
       /\ Reply(r, "FLASH_FAILURE")

ChangePasskey(r) ==
    /\ r.cmd = "CHANGE_PASSKEY"
    /\ Admitted(r)
    /\ IF r.sz # 4
       THEN Reply(r, "PAYLOAD_WRONG_SIZE") /\ UNCHANGED <<config, fails>>
       ELSE Configure(r, [dev EXCEPT !.passkey = r.word], [ble EXCEPT !.passkey = r.word])
    /\ UNCHANGED <<slots, rtc, relay, revoked, gaps>>

(* The name is the payload up to its first zero byte, told apart by its    *)
(* first word.  A payload without one makes strcpy (main.c:407) read and   *)
(* write past the name: the names that arrive here end in time.            *)
ChangeName(r) ==
    /\ r.cmd = "CHANGE_NAME"
    /\ Admitted(r)
    /\ IF r.sz < 4 \/ r.sz > 20
       THEN Reply(r, "PAYLOAD_WRONG_SIZE") /\ UNCHANGED <<config, fails>>
       ELSE Configure(r, [dev EXCEPT !.name = r.word], [ble EXCEPT !.name = r.word])
    /\ UNCHANGED <<slots, rtc, relay, revoked, gaps>>

(* FACTORY_RESET resets the BLE module and nothing else (main.c:430).      *)
ResetBle(r) ==
    /\ r.cmd = "FACTORY_RESET"
    /\ Admitted(r)
    /\ ble' = BleReset
    /\ Reply(r, "OK")
    /\ UNCHANGED <<slots, dev, info, rtc, relay, revoked, gaps, fails>>

Press(r) ==
    /\ r.cmd = "PRESS"
    /\ Admitted(r)
    /\ relay' = (relay \/ r.sz = 2)
    /\ Reply(r, IF r.sz = 2 THEN "OK" ELSE "PAYLOAD_WRONG_SIZE")
    /\ UNCHANGED <<slots, config, rtc, revoked, gaps, fails>>

(* Commands that only report, and the unknown ones.  GET_USER_INFO takes a *)
(* one-byte payload.                                                       *)
Report(r) ==
    /\ r.cmd \in {"GET_USER_COUNT", "GET_USER_INFO", "RESET_REASON", "DEVICE_INFO",
                  "RS_SEND", "RS_RECV", "UNKNOWN", "UNKNOWN_SECURE"}
    /\ Admitted(r)
    /\ Reply(r, CASE r.cmd \in {"UNKNOWN", "UNKNOWN_SECURE"}   -> "UNKNOWN_COMMAND"
                  [] r.cmd = "GET_USER_INFO" /\ r.sz # 1       -> "PAYLOAD_WRONG_SIZE"
                  [] OTHER                                     -> "OK")
    /\ UNCHANGED <<slots, config, rtc, relay, revoked, gaps, fails>>

-----------------------------------------------------------------------------
(* Mutant of FactoryState: app_ble_config(0).                              *)
FactoryState_NotReset ==
    /\ slots' = [i \in Slots |-> Erased]
    /\ dev' = Factory /\ info' = Factory /\ ble' = BleConfigured(Factory, FALSE)
    /\ rtc' = -1
    /\ revoked' = {} /\ gaps' = {}

(* app_factory_reset, from the button or from a boot that finds no magic,  *)
(* with a chip that erases when told to (DeviceLifecycle lets it fail).    *)
(* The nonce and its flag are not among the state it resets.               *)
FactoryState ==
    /\ slots' = [i \in Slots |-> Erased]
    /\ dev' = Factory /\ info' = Factory /\ ble' = BleConfigured(Factory, TRUE)
    /\ rtc' = -1
    /\ revoked' = {} /\ gaps' = {}

FactoryReset ==
    /\ FactoryState
    /\ UNCHANGED <<nonce, relay, out, granted, unearned, fails>>

(* Mutants of Restart: the magic is not checked; rtc_init never finds the  *)
(* backup register set.                                                    *)
Restart_MagicUnchecked ==
    /\ nonce' = None
    /\ granted' = FALSE
    /\ dev' = info
    /\ UNCHANGED <<slots, info, ble, rtc, revoked, gaps, relay, out, unearned, fails>>

Restart_ClockLost ==
    /\ nonce' = None
    /\ granted' = FALSE
    /\ dev' = info
    /\ rtc' = -1
    /\ UNCHANGED <<slots, info, ble, revoked, gaps, relay, out, unearned, fails>>

(* A reset between two requests: RAM is lost, flash and the battery-backed *)
(* RTC are kept, app_task configures the BLE module again.  rtc_init gives *)
(* an RTC that lost its battery CFG_FACTORY_TIME.                          *)
Restart ==
    /\ nonce' = None
    /\ granted' = FALSE
    /\ \/ /\ info = None
          /\ FactoryState
       \/ /\ info # None
          /\ dev' = info
          /\ ble' = BleConfigured(info, CountIs(slots, 0))
          /\ rtc' \in {rtc} \cup (IF BatteryFails THEN {-1} ELSE {})
          /\ UNCHANGED <<slots, info, revoked, gaps>>
    /\ UNCHANGED <<relay, out, unearned, fails>>

Tick ==
    /\ rtc \in 0 .. (MaxTime - 1)
    /\ rtc' = rtc + 1
    /\ UNCHANGED <<slots, config, nonce, relay, out, history, fails>>

(* One iteration of app_task's loop on a received frame.                   *)
Handle(r) ==
    \/ Reject(r)
    \/ \E n \in Words : Hello(r, n)
    \/ AddFirstUser(r) \/ AddUser(r) \/ UserBlock(r)
    \/ ChangePasskey(r) \/ ChangeName(r)
    \/ SyncTime(r) \/ ResetBle(r) \/ Press(r) \/ Report(r)

Next == (\E r \in Requests : Handle(r)) \/ FactoryReset \/ Restart \/ Tick

Spec == Init /\ [][Next]_vars

-----------------------------------------------------------------------------
Settings == [passkey : Words \cup {None}, name : Words \cup {FactoryName, None}]

(* Every variable keeps the shape the code gives it.                       *)
TypeOK ==
    /\ slots \in [Slots -> Records]
    /\ dev \in Settings
    /\ info \in Settings \cup {None}
    /\ ble \in [passkey : Words \cup {None}, name : Words \cup {FactoryName, None},
               firstUser : BOOLEAN \cup {None}]
    /\ nonce \in Words \cup {None}
    /\ rtc \in Int
    /\ relay \in BOOLEAN
    /\ out \in [user : Ids \cup {Blank, None}, code : Codes \cup {"NONE"}]
    /\ revoked \subseteq Ids
    /\ granted \in BOOLEAN /\ unearned \in BOOLEAN
    /\ gaps \subseteq Slots
    /\ fails \in 0 .. MaxFlashFails

(* Each nonce lets at most one secure command through, whatever frames are *)
(* lost, repeated or overtaken by another client's HELLO, and none after a *)
(* restart (main.c:61-62, 191-194, 245-252).                               *)
NonceSpentOnce == ~unearned /\ (nonce # None => granted)

(* From the OK to a USER_BLOCK until the user is added again or the keybox *)
(* is reset, no request of that user is answered OK, not even with a nonce *)
(* it obtained before it was blocked (main.c:229-233), as long as no       *)
(* failing erase has left a sector without an id: the search would not     *)
(* look behind it.                                                         *)
BlockedSilent ==
    [][gaps = {} =>
          \A id \in revoked : out' # out /\ out'.user = id => out'.code # "OK"]_vars

(* The module advertises first-user mode exactly while the table counts no *)
(* user, from one boot to the next and across first user and resets        *)
(* (main.c:301, 537, 568), unless it was sent its own factory reset, a     *)
(* failing erase left sector 0 without an id, or the first user has the    *)
(* all-0xFF id, whose record does not count.                               *)
AdvertMatchesUsers ==
    /\ ble.firstUser # None
    /\ 0 \notin gaps
    /\ slots[0].id = Blank => slots[0] = Erased
    => (ble.firstUser <=> CountIs(slots, 0))

(* While no erase has failed, the settings in RAM, in flash and in the BLE *)
(* module agree (main.c:371-379, 403-414), unless the module was sent its  *)
(* own factory reset.                                                      *)
SettingsAgree ==
    fails = 0 =>
        /\ info = dev
        /\ ble.passkey \in {dev.passkey, None}
        /\ ble.name \in {dev.name, None}

(* A keybox that has users has its clock set, so stale requests expire     *)
(* (main.c:225, 304-307, 534); holds while the RTC battery lasts and       *)
(* clients send positive times.                                            *)
ClockSetWithUsers == ~CountIs(slots, 0) => rtc > 0

(* The payload of a command starts with the nonce (main.c:39) and that of  *)
(* a PRESS is the relay mask and the hold time (main.c:346-347): a PRESS   *)
(* of six bytes that passes every check on its sender reaches the relays.  *)
PressHonoured ==
    [][\A r \in Requests : r.cmd = "PRESS" /\ r.sz = 6 /\ Press(r) => relay']_vars
=============================================================================
