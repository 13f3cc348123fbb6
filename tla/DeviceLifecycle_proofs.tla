----------------------- MODULE DeviceLifecycle_proofs ------------------------
(***************************************************************************)
(* Proofs about DeviceLifecycle for any settings and any number of power   *)
(* cuts, resets and failing erases.                                        *)
(***************************************************************************)
EXTENDS DeviceLifecycle, TLAPS

(* What is left of the sequences of BLE commands: with the first-user      *)
(* advert to come, with the regular one, with neither, and the factory     *)
(* reset of the module alone.                                              *)
AdvertB == {<<"R", "P", "N", "B", "S", "C">>, <<"P", "N", "B", "S", "C">>, <<"N", "B", "S", "C">>,
            <<"B", "S", "C">>}
AdvertA == {<<"P", "N", "A", "S", "C">>, <<"N", "A", "S", "C">>, <<"A", "S", "C">>, <<"A">>}
AdvertTold == {<<"S", "C">>, <<"C">>, <<>>, <<"P">>}
Configs == AdvertB \cup AdvertA \cup AdvertTold
Scripts == Configs \cup {<<"R">>}

(* With settings to come; with the start to come.                          *)
SettingsToTell == {<<"R", "P", "N", "B", "S", "C">>, <<"P", "N", "B", "S", "C">>,
                   <<"P", "N", "A", "S", "C">>, <<"N", "B", "S", "C">>, <<"N", "A", "S", "C">>,
                   <<"P">>}
StartToTell == Configs \ {<<>>, <<"P">>, <<"A">>}

Commands == {"R", "P", "N", "A", "B", "S", "C"}

-----------------------------------------------------------------------------
LEMMA AdvertBTail ==
  ASSUME NEW s \in AdvertB
  PROVE  /\ s # <<>> /\ Head(s) \in {"R", "P", "N", "B"}
         /\ IF Head(s) = "B" THEN Tail(s) \in AdvertTold ELSE Tail(s) \in AdvertB
<1>1. CASE s = <<"R", "P", "N", "B", "S", "C">>
  <2>1. s # <<>> /\ Head(s) = "R" /\ Tail(s) = <<"P", "N", "B", "S", "C">>
    BY <1>1
  <2>. QED
    BY <1>1, <2>1 DEF AdvertB, AdvertTold
<1>2. CASE s = <<"P", "N", "B", "S", "C">>
  <2>1. s # <<>> /\ Head(s) = "P" /\ Tail(s) = <<"N", "B", "S", "C">>
    BY <1>2
  <2>. QED
    BY <1>2, <2>1 DEF AdvertB, AdvertTold
<1>3. CASE s = <<"N", "B", "S", "C">>
  <2>1. s # <<>> /\ Head(s) = "N" /\ Tail(s) = <<"B", "S", "C">>
    BY <1>3
  <2>. QED
    BY <1>3, <2>1 DEF AdvertB, AdvertTold
<1>4. CASE s = <<"B", "S", "C">>
  <2>1. s # <<>> /\ Head(s) = "B" /\ Tail(s) = <<"S", "C">>
    BY <1>4
  <2>. QED
    BY <1>4, <2>1 DEF AdvertB, AdvertTold
<1>. QED
  BY <1>1, <1>2, <1>3, <1>4 DEF AdvertB

LEMMA AdvertATail ==
  ASSUME NEW s \in AdvertA
  PROVE  /\ s # <<>> /\ Head(s) \in {"P", "N", "A"}
         /\ IF Head(s) = "A" THEN Tail(s) \in AdvertTold ELSE Tail(s) \in AdvertA
<1>1. CASE s = <<"P", "N", "A", "S", "C">>
  <2>1. s # <<>> /\ Head(s) = "P" /\ Tail(s) = <<"N", "A", "S", "C">>
    BY <1>1
  <2>. QED
    BY <1>1, <2>1 DEF AdvertA, AdvertTold
<1>2. CASE s = <<"N", "A", "S", "C">>
  <2>1. s # <<>> /\ Head(s) = "N" /\ Tail(s) = <<"A", "S", "C">>
    BY <1>2
  <2>. QED
    BY <1>2, <2>1 DEF AdvertA, AdvertTold
<1>3. CASE s = <<"A", "S", "C">>
  <2>1. s # <<>> /\ Head(s) = "A" /\ Tail(s) = <<"S", "C">>
    BY <1>3
  <2>. QED
    BY <1>3, <2>1 DEF AdvertA, AdvertTold
<1>4. CASE s = <<"A">>
  <2>1. s # <<>> /\ Head(s) = "A" /\ Tail(s) = <<>>
    BY <1>4
  <2>. QED
    BY <1>4, <2>1 DEF AdvertA, AdvertTold
<1>. QED
  BY <1>1, <1>2, <1>3, <1>4 DEF AdvertA

LEMMA AdvertToldTail ==
  ASSUME NEW s \in AdvertTold, s # <<>>
  PROVE  Head(s) \in {"S", "C", "P"} /\ Tail(s) \in AdvertTold
<1>1. CASE s = <<"S", "C">>
  <2>1. s # <<>> /\ Head(s) = "S" /\ Tail(s) = <<"C">>
    BY <1>1
  <2>. QED
    BY <1>1, <2>1 DEF AdvertTold
<1>2. CASE s = <<"C">>
  <2>1. s # <<>> /\ Head(s) = "C" /\ Tail(s) = <<>>
    BY <1>2
  <2>. QED
    BY <1>2, <2>1 DEF AdvertTold
<1>3. CASE s = <<"P">>
  <2>1. s # <<>> /\ Head(s) = "P" /\ Tail(s) = <<>>
    BY <1>3
  <2>. QED
    BY <1>3, <2>1 DEF AdvertTold
<1>. QED
  BY <1>1, <1>2, <1>3 DEF AdvertTold

LEMMA SettingsTail ==
  ASSUME NEW s \in Configs, s # <<>>
  PROVE  /\ s \in SettingsToTell <=> Head(s) \in {"R", "P", "N"}
         /\ Head(s) = "R" => Tail(s) \in SettingsToTell
<1>1. CASE s = <<"R", "P", "N", "B", "S", "C">>
  <2>1. s # <<>> /\ Head(s) = "R" /\ Tail(s) = <<"P", "N", "B", "S", "C">>
    BY <1>1
  <2>. QED
    BY <1>1, <2>1 DEF SettingsToTell
<1>2. CASE s = <<"P", "N", "B", "S", "C">>
  <2>1. s # <<>> /\ Head(s) = "P" /\ Tail(s) = <<"N", "B", "S", "C">>
    BY <1>2
  <2>. QED
    BY <1>2, <2>1 DEF SettingsToTell
<1>3. CASE s = <<"N", "B", "S", "C">>
  <2>1. s # <<>> /\ Head(s) = "N" /\ Tail(s) = <<"B", "S", "C">>
    BY <1>3
  <2>. QED
    BY <1>3, <2>1 DEF SettingsToTell
<1>4. CASE s = <<"B", "S", "C">>
  <2>1. s # <<>> /\ Head(s) = "B" /\ Tail(s) = <<"S", "C">>
    BY <1>4
  <2>. QED
    BY <1>4, <2>1 DEF SettingsToTell
<1>5. CASE s = <<"P", "N", "A", "S", "C">>
  <2>1. s # <<>> /\ Head(s) = "P" /\ Tail(s) = <<"N", "A", "S", "C">>
    BY <1>5
  <2>. QED
    BY <1>5, <2>1 DEF SettingsToTell
<1>6. CASE s = <<"N", "A", "S", "C">>
  <2>1. s # <<>> /\ Head(s) = "N" /\ Tail(s) = <<"A", "S", "C">>
    BY <1>6
  <2>. QED
    BY <1>6, <2>1 DEF SettingsToTell
<1>7. CASE s = <<"A", "S", "C">>
  <2>1. s # <<>> /\ Head(s) = "A" /\ Tail(s) = <<"S", "C">>
    BY <1>7
  <2>. QED
    BY <1>7, <2>1 DEF SettingsToTell
<1>8. CASE s = <<"A">>
  <2>1. s # <<>> /\ Head(s) = "A" /\ Tail(s) = <<>>
    BY <1>8
  <2>. QED
    BY <1>8, <2>1 DEF SettingsToTell
<1>9. CASE s = <<"S", "C">>
  <2>1. s # <<>> /\ Head(s) = "S" /\ Tail(s) = <<"C">>
    BY <1>9
  <2>. QED
    BY <1>9, <2>1 DEF SettingsToTell
<1>10. CASE s = <<"C">>
  <2>1. s # <<>> /\ Head(s) = "C" /\ Tail(s) = <<>>
    BY <1>10
  <2>. QED
    BY <1>10, <2>1 DEF SettingsToTell
<1>11. CASE s = <<"P">>
  <2>1. s # <<>> /\ Head(s) = "P" /\ Tail(s) = <<>>
    BY <1>11
  <2>. QED
    BY <1>11, <2>1 DEF SettingsToTell
<1>. QED
  BY <1>1, <1>2, <1>3, <1>4, <1>5, <1>6, <1>7, <1>8, <1>9, <1>10, <1>11 DEF Configs, AdvertB, AdvertA, AdvertTold

LEMMA StartTail ==
  ASSUME NEW s \in StartToTell
  PROVE  s # <<>> /\ (Head(s) = "C" \/ Tail(s) \in StartToTell)
<1>1. CASE s = <<"R", "P", "N", "B", "S", "C">>
  <2>1. s # <<>> /\ Head(s) = "R" /\ Tail(s) = <<"P", "N", "B", "S", "C">>
    BY <1>1
  <2>. QED
    BY <1>1, <2>1 DEF StartToTell, Configs, AdvertB, AdvertA, AdvertTold
<1>2. CASE s = <<"P", "N", "B", "S", "C">>
  <2>1. s # <<>> /\ Head(s) = "P" /\ Tail(s) = <<"N", "B", "S", "C">>
    BY <1>2
  <2>. QED
    BY <1>1, <1>2, <2>1 DEF StartToTell, Configs, AdvertB, AdvertA, AdvertTold
<1>3. CASE s = <<"N", "B", "S", "C">>
  <2>1. s # <<>> /\ Head(s) = "N" /\ Tail(s) = <<"B", "S", "C">>
    BY <1>3
  <2>. QED
    BY <1>1, <1>3, <2>1 DEF StartToTell, Configs, AdvertB, AdvertA, AdvertTold
<1>4. CASE s = <<"B", "S", "C">>
  <2>1. s # <<>> /\ Head(s) = "B" /\ Tail(s) = <<"S", "C">>
    BY <1>4
  <2>. QED
    BY <1>4, <2>1 DEF StartToTell, Configs, AdvertB, AdvertA, AdvertTold
<1>5. CASE s = <<"P", "N", "A", "S", "C">>
  <2>1. s # <<>> /\ Head(s) = "P" /\ Tail(s) = <<"N", "A", "S", "C">>
    BY <1>5
  <2>. QED
    BY <1>5, <2>1 DEF StartToTell, Configs, AdvertB, AdvertA, AdvertTold
<1>6. CASE s = <<"N", "A", "S", "C">>
  <2>1. s # <<>> /\ Head(s) = "N" /\ Tail(s) = <<"A", "S", "C">>
    BY <1>6
  <2>. QED
    BY <1>6, <2>1 DEF StartToTell, Configs, AdvertB, AdvertA, AdvertTold
<1>7. CASE s = <<"A", "S", "C">>
  <2>1. s # <<>> /\ Head(s) = "A" /\ Tail(s) = <<"S", "C">>
    BY <1>7
  <2>. QED
    BY <1>7, <2>1 DEF StartToTell, Configs, AdvertB, AdvertA, AdvertTold
<1>8. CASE s = <<"S", "C">>
  <2>1. s # <<>> /\ Head(s) = "S" /\ Tail(s) = <<"C">>
    BY <1>8
  <2>. QED
    BY <1>8, <2>1 DEF StartToTell, Configs, AdvertB, AdvertA, AdvertTold
<1>9. CASE s = <<"C">>
  <2>1. s # <<>> /\ Head(s) = "C" /\ Tail(s) = <<>>
    BY <1>9
  <2>. QED
    BY <1>9, <2>1 DEF StartToTell, Configs, AdvertB, AdvertA, AdvertTold
<1>. QED
  BY <1>1, <1>2, <1>3, <1>4, <1>5, <1>6, <1>7, <1>8, <1>9 DEF StartToTell, Configs, AdvertB, AdvertA, AdvertTold

LEMMA ScriptTail ==
  ASSUME NEW s \in Scripts, s # <<>>
  PROVE  Head(s) \in Commands /\ Tail(s) \in Configs
<1>1. CASE s = <<"R">>
  <2>1. Head(s) = "R" /\ Tail(s) = <<>>
    BY <1>1
  <2>. QED
    BY <2>1 DEF Commands, Configs, AdvertTold
<1>2. CASE s \in Configs
  BY <1>2, AdvertBTail, AdvertATail, AdvertToldTail DEF Configs, Commands
<1>. QED
  BY <1>1, <1>2 DEF Scripts

LEMMA ConfigIsNoReset == <<"R">> \notin Configs
<1>1. \A s \in AdvertB \cup AdvertA : s # <<"R">>
  <2>. SUFFICES ASSUME NEW s \in AdvertB \cup AdvertA, s = <<"R">> PROVE FALSE
    OBVIOUS
  <2>1. Head(s) = "R" /\ Tail(s) = <<>>
    OBVIOUS
  <2>2. <<>> \notin AdvertB
    BY DEF AdvertB
  <2>. QED
    BY <2>1, <2>2, AdvertBTail, AdvertATail
<1>2. \A s \in AdvertTold : s # <<"R">>
  <2>. SUFFICES ASSUME NEW s \in AdvertTold, s = <<"R">> PROVE FALSE
    OBVIOUS
  <2>1. Head(s) = "R" /\ s # <<>>
    OBVIOUS
  <2>. QED
    BY <2>1, AdvertToldTail
<1>. QED
  BY <1>1, <1>2 DEF Configs

LEMMA ScriptType == Scripts \subseteq Seq(Commands)
  BY DEF Scripts, Configs, AdvertB, AdvertA, AdvertTold, Commands

LEMMA NewScripts ==
  /\ BleConfig(TRUE) \in AdvertB \cap SettingsToTell \cap StartToTell
  /\ BleConfig(FALSE) \in AdvertA \cap SettingsToTell \cap StartToTell
  /\ <<"P">> \in AdvertTold \cap SettingsToTell
  /\ <<"A">> \in AdvertA
  /\ <<>> \in AdvertTold /\ <<>> \notin SettingsToTell /\ <<>> \notin StartToTell
<1>1. BleConfig(TRUE) = <<"R", "P", "N", "B", "S", "C">> /\ BleConfig(FALSE) = <<"P", "N", "A", "S", "C">>
  BY DEF BleConfig
<1>2. BleConfig(TRUE) \in AdvertB /\ BleConfig(TRUE) \in SettingsToTell
  BY <1>1 DEF AdvertB, SettingsToTell
<1>3. BleConfig(FALSE) \in AdvertA /\ BleConfig(FALSE) \in SettingsToTell
  BY <1>1 DEF AdvertA, SettingsToTell
<1>4. BleConfig(TRUE) \in StartToTell
  <2>1. <<"R", "P", "N", "B", "S", "C">> \notin {<<>>, <<"P">>, <<"A">>}
    OBVIOUS
  <2>. QED
    BY <1>1, <1>2, <2>1 DEF StartToTell, Configs
<1>5. BleConfig(FALSE) \in StartToTell
  <2>1. <<"P", "N", "A", "S", "C">> \notin {<<>>, <<"P">>, <<"A">>}
    OBVIOUS
  <2>. QED
    BY <1>1, <1>3, <2>1 DEF StartToTell, Configs
<1>6. /\ <<"P">> \in AdvertTold \cap SettingsToTell
      /\ <<"A">> \in AdvertA
      /\ <<>> \in AdvertTold /\ <<>> \notin StartToTell
  BY DEF AdvertA, AdvertTold, SettingsToTell, StartToTell
<1>7. <<>> \notin SettingsToTell
  BY DEF SettingsToTell
<1>. QED
  BY <1>2, <1>3, <1>4, <1>5, <1>6, <1>7
-----------------------------------------------------------------------------
(* What the app task is sending, and to whom it goes back.                 *)
Exchange ==
    /\ pc \in Places /\ back \in {"count", "serve", "first_rtc"}
    /\ todo \in Scripts /\ (todo = <<"R">> => detached)
    /\ asked # None => pc = "ble" /\ todo # <<>> /\ asked = Head(todo)

Stores ==
    /\ dev \in Settings \cup {Blank, Torn}
    /\ info \in [magic : BOOLEAN, body : Settings \cup {Blank, Torn}]
    /\ users \in UserStates /\ clockSet \in BOOLEAN
    /\ wiped \in BOOLEAN /\ detached \in BOOLEAN
    /\ ble \in [up : BOOLEAN, settings : Settings \cup {Blank, Torn}, firstUser : BOOLEAN,
                started : BOOLEAN]
    /\ cuts \in 0 .. MaxCuts /\ fails \in 0 .. MaxEraseFails

Typed == Exchange /\ Stores

LEMMA BleUpdate ==
  ASSUME ble \in [up : BOOLEAN, settings : Settings \cup {Blank, Torn}, firstUser : BOOLEAN,
                  started : BOOLEAN],
         dev \in Settings \cup {Blank, Torn}, BleAnswer
  PROVE  /\ ble' \in [up : BOOLEAN, settings : Settings \cup {Blank, Torn}, firstUser : BOOLEAN,
                       started : BOOLEAN]
         /\ asked \notin {"R", "A", "B"} => ble'.firstUser = ble.firstUser
         /\ asked \in {"A", "B"} => ble'.firstUser = (asked = "B")
         /\ asked \notin {"R", "P", "N"} => ble'.settings = ble.settings
         /\ asked \in {"P", "N"} => ble'.settings = dev
         /\ ble.started => ble'.started
         /\ asked = "C" => ble'.started
<1>1. CASE asked = "R"
  BY <1>1 DEF BleAnswer
<1>2. CASE asked \in {"P", "N"}
  BY <1>2 DEF BleAnswer
<1>3. CASE asked = "A"
  BY <1>3 DEF BleAnswer
<1>4. CASE asked = "B"
  BY <1>4 DEF BleAnswer
<1>5. CASE asked = "C"
  BY <1>5 DEF BleAnswer
<1>6. CASE asked \notin {"R", "P", "N", "A", "B", "C"}
  BY <1>6 DEF BleAnswer
<1>. QED
  BY <1>1, <1>2, <1>3, <1>4, <1>5, <1>6

LEMMA ExchangeKept ==
  ASSUME Exchange, [Next]_vars
  PROVE  Exchange'
<1>. USE DEF Exchange, Places
<1>0. /\ BleConfig(TRUE) \in Configs /\ BleConfig(FALSE) \in Configs
      /\ <<"P">> \in Configs /\ <<"A">> \in Configs /\ <<>> \in Configs
  BY NewScripts DEF Configs
<1>00. /\ \A s \in Configs : s \in Scripts /\ s # <<"R">>
       /\ <<"R">> \in Scripts
  BY ConfigIsNoReset DEF Scripts
<1>1. CASE Boot \/ ResetStarts \/ EraseChipDone \/ EraseChipFails \/ InfoErase \/ InfoEraseFails
  BY <1>1 DEF Boot, ResetStarts, EraseChipDone, EraseChipFails, InfoErase, InfoEraseFails, Goto, history
<1>2. CASE InfoProg
  BY <1>0, <1>00, <1>2 DEF InfoProg, SendBle, Goto, history
<1>3. CASE ResetRtc
  BY <1>0, <1>00, <1>3 DEF ResetRtc, SendBle
<1>4. CASE CountAndWait
  <2>1. todo' \in {BleConfig(TRUE), BleConfig(FALSE)}
    BY <1>4, NewScripts DEF CountAndWait, SendBle, BleConfig
  <2>. QED
    BY <1>0, <1>00, <1>4, <2>1 DEF CountAndWait, SendBle
<1>5. CASE BleAsk
  BY <1>5 DEF BleAsk, history
<1>6. CASE BleExchangeDone \/ FirstUserClock
  BY <1>6 DEF BleExchangeDone, FirstUserClock, Goto, history
<1>7. CASE BleAnswer
  <2>1. pc = "ble" /\ todo # <<>>
    BY <1>7 DEF BleAnswer
  <2>2. Tail(todo) \in Configs
    BY <2>1, ScriptTail
  <2>. QED
    BY <1>00, <1>7, <2>1, <2>2 DEF BleAnswer
<1>8. CASE BleStart \/ OverwriteFails
  BY <1>8 DEF BleStart, OverwriteFails, app, history
<1>9. CASE \E d \in Settings : ChangeSettings(d)
  BY <1>9 DEF ChangeSettings, SecureCommand, Goto, history
<1>10. CASE AddFirstUser \/ LongPress
  BY <1>0, <1>00, <1>10 DEF AddFirstUser, LongPress, SendBle, history
<1>11. CASE ResetModule
  BY <1>00, <1>11 DEF ResetModule, SecureCommand, SendBle
<1>12. CASE PowerCut
  BY <1>0, <1>00, <1>12 DEF PowerCut
<1>13. CASE UNCHANGED vars
  BY <1>13 DEF vars, app, history
<1>. QED
  BY <1>1, <1>2, <1>3, <1>4, <1>5, <1>6, <1>7, <1>8, <1>9, <1>10, <1>11, <1>12, <1>13 DEF Next, AppStep

LEMMA LeftOverType ==
  ASSUME Stores
  PROVE  /\ InfoLeftOver \subseteq [magic : BOOLEAN, body : Settings \cup {Blank, Torn}]
         /\ InfoErased \in [magic : BOOLEAN, body : Settings \cup {Blank, Torn}]
  BY DEF Stores, InfoLeftOver, InfoErased

LEMMA InterruptedType ==
  ASSUME Stores, Interrupted
  PROVE  /\ info' \in [magic : BOOLEAN, body : Settings \cup {Blank, Torn}]
         /\ users' \in UserStates /\ wiped' \in BOOLEAN
         /\ wiped' => wiped /\ users' = users
<1>1. CASE pc = "wipe"
  <2>1. info' \in InfoLeftOver /\ users' \in UserStates /\ wiped' = FALSE
    BY <1>1 DEF Interrupted
  <2>. QED
    BY <2>1, LeftOverType
<1>2. CASE pc \in {"reset_info_erase", "set_info_erase"}
  <2>1. info' \in InfoLeftOver /\ UNCHANGED <<users, wiped>>
    BY <1>2 DEF Interrupted
  <2>. QED
    BY <2>1, LeftOverType DEF Stores
<1>3. CASE pc \in {"reset_info_prog", "set_info_prog"}
  <2>1. info' \in {[magic |-> FALSE, body |-> Torn], [magic |-> TRUE, body |-> Torn],
                   [magic |-> TRUE, body |-> dev]} /\ UNCHANGED <<users, wiped>>
    BY <1>3 DEF Interrupted
  <2>2. {[magic |-> FALSE, body |-> Torn], [magic |-> TRUE, body |-> Torn], [magic |-> TRUE, body |-> dev]}
           \subseteq [magic : BOOLEAN, body : Settings \cup {Blank, Torn}]
    BY DEF Stores
  <2>. QED
    BY <2>1, <2>2 DEF Stores
<1>4. CASE pc = "serve"
  <2>1. info' = info /\ users' \in UserStates /\ wiped' = (wiped /\ users' = users)
    BY <1>4 DEF Interrupted
  <2>. QED
    BY <2>1 DEF Stores
<1>5. CASE pc \notin {"wipe", "reset_info_erase", "set_info_erase", "reset_info_prog", "set_info_prog", "serve"}
  BY <1>5 DEF Interrupted, Stores, chip
<1>. QED
  BY <1>1, <1>2, <1>3, <1>4, <1>5

LEMMA StoresKept ==
  ASSUME Stores, [Next]_vars
  PROVE  Stores'
<1>. USE DEF Stores
<1>0. /\ Factory \in Settings /\ MaxCuts \in Nat /\ MaxEraseFails \in Nat
      /\ {"none", "unnamed", "some"} = UserStates
  BY LifecycleAssumption DEF UserStates
<1>1. CASE Boot \/ ResetStarts \/ ResetRtc \/ CountAndWait \/ BleAsk \/ BleExchangeDone \/ FirstUserClock
  BY <1>0, <1>1 DEF Boot, ResetStarts, ResetRtc, CountAndWait, BleAsk, BleExchangeDone, FirstUserClock,
                    chip, faults, history
<1>2. CASE EraseChipDone \/ InfoErase
  BY <1>0, <1>2, LeftOverType DEF EraseChipDone, InfoErase, faults, history
<1>3. CASE EraseChipFails
  <2>1. info' \in InfoLeftOver /\ users' \in UserStates /\ wiped' = FALSE /\ fails < MaxEraseFails
        /\ fails' = fails + 1 /\ UNCHANGED <<dev, clockSet, ble, detached, cuts>>
    BY <1>3 DEF EraseChipFails
  <2>2. info' \in [magic : BOOLEAN, body : Settings \cup {Blank, Torn}]
    BY <2>1, LeftOverType
  <2>3. fails' \in 0 .. MaxEraseFails
    BY <1>0, <2>1
  <2>. QED
    BY <2>1, <2>2, <2>3
<1>4. CASE InfoEraseFails
  BY <1>0, <1>4, LeftOverType DEF InfoEraseFails, history
<1>5. CASE InfoProg
  BY <1>0, <1>5 DEF InfoProg, faults, history
<1>6. CASE BleAnswer
  <2>1. UNCHANGED <<dev, info, users, clockSet, wiped, detached, cuts, fails>>
    BY <1>6 DEF BleAnswer, chip, faults, history
  <2>. QED
    BY <1>6, <2>1, BleUpdate
<1>7. CASE BleStart
  <2>1. UNCHANGED <<dev, info, users, clockSet, wiped, detached, cuts, fails>>
    BY <1>7 DEF BleStart, chip, faults, history
  <2>2. ble' = [ble EXCEPT !.up = TRUE]
    BY <1>7 DEF BleStart
  <2>. QED
    BY <2>1, <2>2
<1>8. CASE \E d \in Settings : ChangeSettings(d)
  BY <1>8 DEF ChangeSettings, chip, faults, history
<1>9. CASE AddFirstUser
  BY <1>0, <1>9 DEF AddFirstUser, faults
<1>10. CASE LongPress \/ ResetModule
  BY <1>10 DEF LongPress, ResetModule, chip, faults, history
<1>11. CASE OverwriteFails
  BY <1>0, <1>11 DEF OverwriteFails, history
<1>12. CASE PowerCut
  <2>1. ble' \in {BleOff, [ble EXCEPT !.up = FALSE, !.started = FALSE], ble}
    BY <1>12 DEF PowerCut
  <2>2. BleOff \in [up : BOOLEAN, settings : Settings \cup {Blank, Torn}, firstUser : BOOLEAN,
                    started : BOOLEAN]
    BY DEF BleOff
  <2>3. [ble EXCEPT !.up = FALSE, !.started = FALSE] \in
           [up : BOOLEAN, settings : Settings \cup {Blank, Torn}, firstUser : BOOLEAN, started : BOOLEAN]
    OBVIOUS
  <2>4. ble' \in [up : BOOLEAN, settings : Settings \cup {Blank, Torn}, firstUser : BOOLEAN,
                  started : BOOLEAN]
    BY <2>1, <2>2, <2>3
  <2>5. /\ users' \in UserStates /\ info' \in [magic : BOOLEAN, body : Settings \cup {Blank, Torn}]
        /\ wiped' \in BOOLEAN
    BY <1>12, InterruptedType DEF PowerCut
  <2>. QED
    BY <1>0, <1>12, <2>4, <2>5 DEF PowerCut
<1>13. CASE UNCHANGED vars
  BY <1>13 DEF vars, chip, faults, history
<1>. QED
  BY <1>1, <1>2, <1>3, <1>4, <1>5, <1>6, <1>7, <1>8, <1>9, <1>10, <1>11, <1>12, <1>13 DEF Next, AppStep

LEMMA InitTyped == Init => Typed
<1>1. <<>> \in Scripts /\ <<>> # <<"R">>
  BY NewScripts, ConfigIsNoReset DEF Scripts, Configs
<1>2. ASSUME Init PROVE Exchange
  BY <1>1, <1>2 DEF Init, Exchange, Places
<1>3. ASSUME Init PROVE Stores
  <2>1. ble \in [up : BOOLEAN, settings : Settings \cup {Blank, Torn}, firstUser : BOOLEAN,
                 started : BOOLEAN]
    BY <1>3 DEF Init, BleOff
  <2>2. info \in [magic : BOOLEAN, body : Settings \cup {Blank, Torn}]
    BY <1>3 DEF Init
  <2>3. /\ dev \in Settings \cup {Blank, Torn} /\ users \in UserStates
        /\ clockSet \in BOOLEAN /\ wiped \in BOOLEAN /\ detached \in BOOLEAN
    BY <1>3 DEF Init, UserStates
  <2>4. cuts \in 0 .. MaxCuts /\ fails \in 0 .. MaxEraseFails
    BY <1>3, LifecycleAssumption DEF Init
  <2>. QED
    BY <2>1, <2>2, <2>3, <2>4 DEF Stores
<1>. QED
  BY <1>2, <1>3 DEF Typed

LEMMA TypedKept == Typed /\ [Next]_vars => Typed'
  BY ExchangeKept, StoresKept DEF Typed

(* Whatever is interrupted, the app task sends the rest of one of its few  *)
(* sequences of BLE commands and every store keeps its shape.              *)
THEOREM TypeTheorem == Spec => []TypeOK
<1>1. Typed => TypeOK
  <2>. SUFFICES ASSUME Typed PROVE TypeOK
    OBVIOUS
  <2>1. todo \in Seq(Commands)
    BY ScriptType DEF Typed, Exchange
  <2>2. asked \in Commands \cup {None}
    BY ScriptTail DEF Typed, Exchange
  <2>. QED
    BY <2>1, <2>2 DEF Typed, Exchange, Stores, TypeOK, Commands
<1>. QED
  BY InitTyped, TypedKept, <1>1, PTL DEF Spec

-----------------------------------------------------------------------------
(* Between the check or the program of the device info and the next change *)
(* of settings, RAM and flash agree.                                       *)
Stored ==
    fails = 0 /\ pc \in {"count", "ble", "serve", "first_rtc", "reset_rtc"}
        => info = [magic |-> TRUE, body |-> dev]

LEMMA StoredKept ==
  ASSUME Typed, Stored, [Next]_vars
  PROVE  Stored'
<1>. USE DEF Stored
<1>0. info \in [magic : BOOLEAN, body : Settings \cup {Blank, Torn}] /\ fails \in Nat
  BY LifecycleAssumption DEF Typed, Stores
<1>1. CASE Boot
  <2>1. info = [magic |-> info.magic, body |-> info.body]
    BY <1>0
  <2>2. CASE info.magic
    <3>1. info.magic = TRUE
      BY <1>0, <2>2
    <3>. QED
      BY <1>1, <2>1, <3>1 DEF Boot, chip
  <2>3. CASE ~info.magic
    BY <1>1, <2>3 DEF Boot
  <2>. QED
    BY <2>2, <2>3
<1>2. CASE ResetStarts \/ EraseChipDone \/ InfoErase
  BY <1>2 DEF ResetStarts, EraseChipDone, InfoErase, Goto
<1>3. CASE EraseChipFails \/ InfoEraseFails \/ OverwriteFails
  BY <1>0, <1>3 DEF EraseChipFails, InfoEraseFails, OverwriteFails
<1>4. CASE InfoProg
  BY <1>4 DEF InfoProg
<1>5. CASE ResetRtc \/ CountAndWait \/ BleAsk
  BY <1>5 DEF ResetRtc, CountAndWait, BleAsk, chip, faults
<1>6. CASE BleExchangeDone \/ FirstUserClock
  BY <1>6 DEF BleExchangeDone, FirstUserClock, Goto, chip, faults
<1>7. CASE BleAnswer \/ BleStart
  BY <1>7 DEF BleAnswer, BleStart, app, chip, faults
<1>8. CASE \E d \in Settings : ChangeSettings(d)
  BY <1>8 DEF ChangeSettings, Goto
<1>9. CASE AddFirstUser \/ LongPress \/ ResetModule
  BY <1>9 DEF AddFirstUser, LongPress, ResetModule, SecureCommand, chip, faults
<1>10. CASE PowerCut
  BY <1>10 DEF PowerCut
<1>11. CASE UNCHANGED vars
  BY <1>11 DEF vars, app, chip, faults
<1>. QED
  BY <1>1, <1>2, <1>3, <1>4, <1>5, <1>6, <1>7, <1>8, <1>9, <1>10, <1>11 DEF Next, AppStep

(* Wherever power cuts and resets fall, a keybox that serves stores the    *)
(* settings it uses under a right magic, unless an erase has failed.       *)
THEOREM StoredTheorem == Spec => []ServesWhatItStores
<1>1. Init => Stored
  BY DEF Init, Stored
<1>2. Typed /\ Stored /\ [Next]_vars => Stored'
  BY StoredKept
<1>3. Stored => ServesWhatItStores
  BY DEF Stored, ServesWhatItStores
<1>. QED
  BY InitTyped, TypedKept, <1>1, <1>2, <1>3, PTL DEF Spec

-----------------------------------------------------------------------------
(* The module is in step, or the commands that bring it in step are still  *)
(* to be sent.                                                             *)
Started ==
    /\ pc \in {"serve", "set_info_erase", "set_info_prog", "first_rtc"} => ble.started
    /\ pc = "ble" => ble.started \/ todo \in StartToTell

SettingsTold ==
    fails = 0 /\ ~detached =>
        /\ pc \in {"serve", "first_rtc"} => ble.settings = dev
        /\ pc = "ble" => ble.settings = dev \/ todo \in SettingsToTell

(* The chip was erased to the end, or no erase has failed.                 *)
Sound == wiped \/ fails = 0

AdvertRight ==
    /\ wiped => users = "none"
    /\ wiped /\ pc \in {"ble", "serve", "set_info_erase", "set_info_prog", "first_rtc"} => ~detached
    /\ Sound /\ pc \in {"reset_info_erase", "reset_info_prog", "reset_rtc"} => users = "none"
    /\ Sound /\ ~detached /\ users # "unnamed" =>
        /\ pc \in {"serve", "set_info_erase", "set_info_prog", "first_rtc"} => ble.firstUser = (users = "none")
        /\ pc = "ble" => \/ todo \in AdvertB /\ users = "none"
                         \/ todo \in AdvertA /\ users = "some"
                         \/ todo \in AdvertTold /\ ble.firstUser = (users = "none")

LEMMA StartedKept ==
  ASSUME Typed, Started, [Next]_vars
  PROVE  Started'
<1>. USE DEF Started
<1>0. todo \in Scripts /\ (asked # None => pc = "ble" /\ todo # <<>> /\ asked = Head(todo))
  BY DEF Typed, Exchange
<1>1. CASE Boot \/ ResetStarts \/ EraseChipDone \/ EraseChipFails
  BY <1>1 DEF Boot, ResetStarts, EraseChipDone, EraseChipFails, Goto
<1>2. CASE InfoErase \/ InfoEraseFails \/ InfoProg
  BY <1>2 DEF InfoErase, InfoEraseFails, InfoProg, Goto, SendBle
<1>3. CASE ResetRtc \/ CountAndWait
  <2>1. todo' \in {BleConfig(TRUE), BleConfig(FALSE)} /\ pc' = "ble"
    BY <1>3, NewScripts DEF ResetRtc, CountAndWait, SendBle, BleConfig
  <2>. QED
    BY <2>1, NewScripts
<1>4. CASE BleAsk
  BY <1>4 DEF BleAsk
<1>5. CASE BleExchangeDone
  <2>1. ble.started
    BY <1>5, NewScripts DEF BleExchangeDone
  <2>. QED
    BY <1>5, <2>1 DEF BleExchangeDone, Goto, Typed, Exchange
<1>6. CASE \/ FirstUserClock \/ AddFirstUser \/ LongPress \/ ResetModule \/ OverwriteFails
           \/ \E d \in Settings : ChangeSettings(d)
  BY <1>6 DEF FirstUserClock, AddFirstUser, LongPress, ResetModule, OverwriteFails, ChangeSettings,
              SecureCommand, Goto, SendBle, app
<1>7. CASE BleAnswer
  <2>1. pc = "ble" /\ pc' = pc /\ todo # <<>> /\ asked = Head(todo) /\ todo' = Tail(todo)
    BY <1>0, <1>7 DEF BleAnswer
  <2>2. ble.started \/ asked = "C" => ble'.started
    BY <1>7, BleUpdate DEF Typed, Stores
  <2>3. todo \in StartToTell => asked = "C" \/ todo' \in StartToTell
    BY <2>1, StartTail
  <2>. QED
    BY <2>1, <2>2, <2>3
<1>8. CASE BleStart
  <2>1. ble'.started = ble.started
    BY <1>8 DEF BleStart, Typed, Stores
  <2>. QED
    BY <1>8, <2>1 DEF BleStart, app
<1>9. CASE PowerCut
  BY <1>9 DEF PowerCut
<1>10. CASE UNCHANGED vars
  BY <1>10 DEF vars, app
<1>. QED
  BY <1>1, <1>2, <1>3, <1>4, <1>5, <1>6, <1>7, <1>8, <1>9, <1>10 DEF Next, AppStep

LEMMA SettingsKept ==
  ASSUME Typed, SettingsTold, [Next]_vars
  PROVE  SettingsTold'
<1>. USE DEF SettingsTold
<1>0. /\ todo \in Scripts /\ (todo = <<"R">> => detached) /\ (asked # None => pc = "ble" /\ todo # <<>> /\ asked = Head(todo))
      /\ fails \in Nat
  BY LifecycleAssumption DEF Typed, Exchange, Stores
<1>1. CASE Boot \/ ResetStarts \/ EraseChipDone \/ InfoErase
  BY <1>1 DEF Boot, ResetStarts, EraseChipDone, InfoErase, Goto
<1>2. CASE EraseChipFails \/ InfoEraseFails \/ OverwriteFails
  BY <1>0, <1>2 DEF EraseChipFails, InfoEraseFails, OverwriteFails
<1>3. CASE InfoProg
  BY <1>3, NewScripts DEF InfoProg, Goto, SendBle
<1>4. CASE ResetRtc \/ CountAndWait
  <2>1. todo' \in {BleConfig(TRUE), BleConfig(FALSE)} /\ pc' = "ble"
    BY <1>4, NewScripts DEF ResetRtc, CountAndWait, SendBle, BleConfig
  <2>. QED
    BY <2>1, NewScripts
<1>5. CASE BleAsk
  BY <1>5 DEF BleAsk, faults, history
<1>6. CASE BleExchangeDone
  <2>1. fails = 0 /\ ~detached => ble.settings = dev
    BY <1>6, NewScripts DEF BleExchangeDone
  <2>. QED
    BY <1>6, <2>1 DEF BleExchangeDone, Goto, faults, history, Typed, Exchange
<1>7. CASE FirstUserClock \/ AddFirstUser \/ LongPress \/ \E d \in Settings : ChangeSettings(d)
  BY <1>7 DEF FirstUserClock, AddFirstUser, LongPress, ChangeSettings, SecureCommand, Goto, SendBle,
              faults, history
<1>8. CASE BleAnswer
  <2>1. /\ pc = "ble" /\ pc' = pc /\ todo # <<>> /\ asked = Head(todo) /\ todo' = Tail(todo)
        /\ dev' = dev /\ fails' = fails /\ detached' = detached
    BY <1>0, <1>8 DEF BleAnswer, faults, history
  <2>2. /\ asked \in {"P", "N"} => ble'.settings = dev
        /\ asked \notin {"R", "P", "N"} => ble'.settings = ble.settings
    BY <1>8, BleUpdate DEF Typed, Stores
  <2>3. ~detached => /\ todo \in SettingsToTell <=> asked \in {"R", "P", "N"}
                     /\ asked = "R" => todo' \in SettingsToTell
    BY <1>0, <2>1, SettingsTail DEF Scripts
  <2>. QED
    BY <2>1, <2>2, <2>3
<1>9. CASE BleStart
  <2>1. ble'.settings = ble.settings
    BY <1>9 DEF BleStart, Typed, Stores
  <2>. QED
    BY <1>9, <2>1 DEF BleStart, app, faults, history
<1>10. CASE PowerCut
  BY <1>10 DEF PowerCut
<1>11. CASE UNCHANGED vars
  BY <1>11 DEF vars, app, faults, history
<1>12. CASE ResetModule
  BY <1>12 DEF ResetModule
<1>. QED
  BY <1>1, <1>2, <1>3, <1>4, <1>5, <1>6, <1>7, <1>8, <1>9, <1>10, <1>11, <1>12 DEF Next, AppStep

LEMMA AdvertKept ==
  ASSUME Typed, AdvertRight, [Next]_vars
  PROVE  AdvertRight'
<1>. USE DEF AdvertRight, Sound
<1>0. /\ todo \in Scripts /\ (todo = <<"R">> => detached)
      /\ asked # None => pc = "ble" /\ todo # <<>> /\ asked = Head(todo)
      /\ fails \in Nat /\ users \in {"none", "unnamed", "some"} /\ wiped \in BOOLEAN /\ detached \in BOOLEAN
      /\ ble.firstUser \in BOOLEAN
  BY LifecycleAssumption DEF Typed, Exchange, Stores, UserStates
<1>1. CASE Boot \/ ResetStarts
  BY <1>1 DEF Boot, ResetStarts, Goto, chip, faults, history
<1>2. CASE EraseChipDone
  BY <1>2 DEF EraseChipDone, Goto
<1>3. CASE EraseChipFails
  BY <1>0, <1>3 DEF EraseChipFails, Goto
<1>4. CASE InfoErase
  BY <1>4 DEF InfoErase, Goto, faults, history
<1>5. CASE InfoEraseFails
  BY <1>0, <1>5 DEF InfoEraseFails, Goto, history
<1>6. CASE InfoProg
  BY <1>6, NewScripts DEF InfoProg, Goto, SendBle, faults, history
<1>7. CASE ResetRtc
  BY <1>7, NewScripts DEF ResetRtc, SendBle, chip, faults
<1>8. CASE CountAndWait
  <2>1. pc' = "ble" /\ todo' = BleConfig(NoUsers) /\ ~detached' /\ UNCHANGED <<users, wiped, fails, ble>>
    BY <1>8 DEF CountAndWait, SendBle, chip, faults
  <2>2. CASE users = "some"
    <3>1. todo' = BleConfig(FALSE)
      BY <2>1, <2>2 DEF BleConfig, NoUsers
    <3>. QED
      BY <2>1, <2>2, <3>1, NewScripts
  <2>3. CASE users = "none"
    <3>1. todo' = BleConfig(TRUE)
      BY <2>1, <2>3 DEF BleConfig, NoUsers
    <3>. QED
      BY <2>1, <2>3, <3>1, NewScripts
  <2>4. CASE users = "unnamed"
    BY <2>1, <2>4
  <2>. QED
    BY <1>0, <2>2, <2>3, <2>4
<1>9. CASE BleAsk
  BY <1>9 DEF BleAsk, chip, faults, history
<1>10. CASE BleExchangeDone
  <2>1. Sound /\ ~detached /\ users # "unnamed" => ble.firstUser = (users = "none")
    BY <1>10, AdvertBTail, AdvertATail DEF BleExchangeDone
  <2>2. pc = "ble" /\ pc' \in {"count", "serve", "first_rtc"}
    BY <1>10 DEF BleExchangeDone, Goto, Typed, Exchange
  <2>. QED
    BY <1>10, <2>1, <2>2 DEF BleExchangeDone, chip, faults, history
<1>11. CASE FirstUserClock \/ LongPress \/ \E d \in Settings : ChangeSettings(d)
  BY <1>11 DEF FirstUserClock, LongPress, ChangeSettings, SecureCommand, Goto, chip, faults, history
<1>12. CASE AddFirstUser
  BY <1>12, NewScripts DEF AddFirstUser, SendBle, faults
<1>13. CASE BleAnswer
  <2>1. /\ pc = "ble" /\ pc' = pc /\ todo # <<>> /\ asked = Head(todo) /\ todo' = Tail(todo)
        /\ UNCHANGED <<users, wiped, fails, detached>>
    BY <1>0, <1>13 DEF BleAnswer, chip, faults, history
  <2>2. /\ asked \notin {"R", "A", "B"} => ble'.firstUser = ble.firstUser
        /\ asked \in {"A", "B"} => ble'.firstUser = (asked = "B")
    BY <1>13, BleUpdate DEF Typed, Stores
  <2>3. CASE todo \in AdvertB /\ users = "none"
    <3>1. CASE asked = "B"
      <4>1. todo' \in AdvertTold /\ ble'.firstUser = TRUE /\ users' = "none"
        BY <2>1, <2>2, <2>3, <3>1, AdvertBTail
      <4>. QED
        BY <1>0, <2>1, <4>1
    <3>2. CASE asked # "B"
      <4>1. todo' \in AdvertB /\ users' = "none"
        BY <2>1, <2>3, <3>2, AdvertBTail
      <4>. QED
        BY <1>0, <2>1, <4>1
    <3>. QED
      BY <3>1, <3>2
  <2>4. CASE todo \in AdvertA /\ users = "some"
    <3>1. CASE asked = "A"
      <4>1. todo' \in AdvertTold /\ ble'.firstUser = FALSE /\ users' = "some"
        BY <2>1, <2>2, <2>4, <3>1, AdvertATail
      <4>. QED
        BY <1>0, <2>1, <4>1
    <3>2. CASE asked # "A"
      <4>1. todo' \in AdvertA /\ users' = "some"
        BY <2>1, <2>4, <3>2, AdvertATail
      <4>. QED
        BY <1>0, <2>1, <4>1
    <3>. QED
      BY <3>1, <3>2
  <2>5. CASE todo \in AdvertTold /\ ble.firstUser = (users = "none")
    <3>1. asked \in {"S", "C", "P"} /\ todo' \in AdvertTold
      BY <2>1, <2>5, AdvertToldTail
    <3>2. ble'.firstUser = (users' = "none")
      BY <2>1, <2>2, <2>5, <3>1
    <3>. QED
      BY <1>0, <2>1, <3>1, <3>2
  <2>6. CASE ~(Sound /\ ~detached /\ users # "unnamed")
    BY <1>0, <2>1, <2>6
  <2>. QED
    BY <2>1, <2>3, <2>4, <2>5, <2>6
<1>14. CASE BleStart
  <2>1. ble'.firstUser = ble.firstUser
    BY <1>14 DEF BleStart, Typed, Stores
  <2>. QED
    BY <1>14, <2>1 DEF BleStart, app, chip, faults, history
<1>15. CASE ResetModule
  <2>1. ~wiped /\ wiped' = wiped /\ detached' /\ pc' = "ble"
    BY <1>15 DEF ResetModule, SecureCommand, SendBle
  <2>. QED
    BY <2>1
<1>16. CASE OverwriteFails
  <2>1. ~wiped /\ wiped' = wiped /\ fails' # 0
    BY <1>0, <1>16 DEF OverwriteFails, SecureCommand, history
  <2>. QED
    BY <2>1
<1>17. CASE PowerCut
  <2>1. pc' = "boot" /\ (wiped' => wiped /\ users' = users)
    BY <1>17, InterruptedType DEF PowerCut, Typed
  <2>. QED
    BY <2>1
<1>18. CASE UNCHANGED vars
  BY <1>18 DEF vars, app, chip, faults, history
<1>. QED
  BY <1>1, <1>2, <1>3, <1>4, <1>5, <1>6, <1>7, <1>8, <1>9, <1>10, <1>11, <1>12, <1>13, <1>14, <1>15, <1>16,
     <1>17, <1>18 DEF Next, AppStep

(* Wherever power cuts and resets fall, a keybox that serves has told its  *)
(* BLE module to start and, unless an erase failed or a user had the       *)
(* module reset since, its settings and the advert that fits its users.    *)
THEOREM ModuleTheorem == Spec => []ModuleInStep
<1>1. Init => Started /\ SettingsTold /\ AdvertRight
  BY DEF Init, Started, SettingsTold, AdvertRight
<1>2. Typed /\ Started /\ [Next]_vars => Started'
  BY StartedKept
<1>3. Typed /\ SettingsTold /\ [Next]_vars => SettingsTold'
  BY SettingsKept
<1>4. Typed /\ AdvertRight /\ [Next]_vars => AdvertRight'
  BY AdvertKept
<1>5. Started /\ SettingsTold /\ AdvertRight => ModuleInStep
  BY DEF Started, SettingsTold, AdvertRight, Sound, ModuleInStep
<1>. QED
  BY InitTyped, TypedKept, <1>1, <1>2, <1>3, <1>4, <1>5, PTL DEF Spec

(* A chip erase that ran to its end is never undone: the keybox next serves*)
(* without users and in first-user mode, failing erases or not.            *)
THEOREM WipeTheorem == Spec => []WipedStaysWiped
<1>1. Init => AdvertRight
  BY DEF Init, AdvertRight
<1>2. Typed /\ AdvertRight /\ [Next]_vars => AdvertRight'
  BY AdvertKept
<1>3. AdvertRight => WipedStaysWiped
  BY DEF AdvertRight, Sound, WipedStaysWiped
<1>. QED
  BY InitTyped, TypedKept, <1>1, <1>2, <1>3, PTL DEF Spec
=============================================================================
