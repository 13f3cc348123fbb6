------------------------ MODULE CommandEngine_proofs ------------------------
(***************************************************************************)
(* Proofs about CommandEngine for any users, words, requests and bounds.   *)
(***************************************************************************)
EXTENDS CommandEngine, FiniteSets, FiniteSetTheorems, TLAPS

(* A request that runs a secure command has spent the outstanding nonce.   *)
LEMMA RunningSpends ==
  ASSUME NEW r, Admitted(r), NeedsNonce(r)
  PROVE  SpendsNonce(r) /\ nonce # None
  BY DEF Admitted, SpendsNonce, Fresh

LEMMA ReplyNonce ==
  ASSUME NonceSpentOnce, NEW r, NEW code, Reply(r, code)
  PROVE  NonceSpentOnce'
<1>1. CASE Admitted(r) /\ NeedsNonce(r)
  BY <1>1, RunningSpends DEF Reply, NonceSpentOnce
<1>2. CASE ~(Admitted(r) /\ NeedsNonce(r))
  BY <1>2 DEF Reply, NonceSpentOnce
<1>. QED
  BY <1>1, <1>2

LEMMA HandleNonce ==
  ASSUME NonceSpentOnce, NEW r, Handle(r)
  PROVE  NonceSpentOnce'
<1>1. CASE \E n \in Words : Hello(r, n)
  BY <1>1 DEF Hello, NonceSpentOnce
<1>2. CASE Reject(r) \/ SyncTime(r) \/ ResetBle(r) \/ Press(r) \/ Report(r)
  BY <1>2, ReplyNonce DEF Reject, SyncTime, ResetBle, Press, Report
<1>3. CASE AddFirstUser(r) \/ UserBlock(r)
  BY <1>3, ReplyNonce DEF AddFirstUser, UserBlock
<1>4. CASE AddUser(r)
  BY <1>4, ReplyNonce DEF AddUser
<1>5. CASE ChangePasskey(r) \/ ChangeName(r)
  BY <1>5, ReplyNonce DEF ChangePasskey, ChangeName, Configure
<1>. QED
  BY <1>1, <1>2, <1>3, <1>4, <1>5 DEF Handle

(* Each nonce lets at most one secure command through, and none after a    *)
(* restart, for any frames in any order.                                   *)
THEOREM NonceTheorem == Spec => []NonceSpentOnce
<1>1. Init => NonceSpentOnce
  BY DEF Init, NonceSpentOnce
<1>2. NonceSpentOnce /\ [Next]_vars => NonceSpentOnce'
  <2>. SUFFICES ASSUME NonceSpentOnce, [Next]_vars PROVE NonceSpentOnce'
    OBVIOUS
  <2>1. CASE \E r \in Requests : Handle(r)
    BY <2>1, HandleNonce
  <2>2. CASE FactoryReset \/ Tick
    BY <2>2 DEF FactoryReset, Tick, history, NonceSpentOnce
  <2>3. CASE Restart
    BY <2>3 DEF Restart, NonceSpentOnce
  <2>4. CASE UNCHANGED vars
    BY <2>4 DEF vars, history, NonceSpentOnce
  <2>. QED
    BY <2>1, <2>2, <2>3, <2>4 DEF Next
<1>. QED
  BY <1>1, <1>2, PTL DEF Spec

-----------------------------------------------------------------------------
(* flash_user_count returns 0 exactly when the first sector has no id.     *)
FirstFree(s) == s[0].id = Blank

(* The parts of TypeOK the advert depends on.                              *)
TableType == slots \in [Slots -> Records]

BleRecord(b) == b = [passkey |-> b.passkey, name |-> b.name, firstUser |-> b.firstUser]

AdvertInv == TableType /\ BleRecord(ble) /\ AdvertMatchesUsers

LEMMA CountZero ==
  ASSUME NEW s
  PROVE  CountIs(s, 0) <=> FirstFree(s)
  BY TableAssumption DEF CountIs, FirstFree

LEMMA RequestFields ==
  ASSUME NEW r \in Requests
  PROVE  /\ r.user \in Ids \cup {Blank} /\ r.target \in Ids \cup {Blank}
         /\ r.key \in Keys /\ r.signer \in Keys
         /\ r.time \in Int /\ r.word \in Words /\ r.sz \in 0 .. 255
  BY EngineAssumption DEF RequestType

LEMMA RecordFacts ==
  /\ Erased \in Records /\ Erased.id = Blank /\ Erased.key = Blank
  /\ \A id \in Ids \cup {Blank}, key \in Keys :
        /\ NewUser(id, key) \in Records
        /\ NewUser(id, key).id = id /\ NewUser(id, key).key = key
        /\ NewUser(id, key).st = "OKAY" /\ NewUser(id, key) # Erased
        /\ Program(Erased, NewUser(id, key)) = NewUser(id, key)
  /\ \A old \in Records :
        /\ PartialErase(old) \subseteq Records
        /\ \A g \in PartialErase(old) : g.id \in {old.id, Torn, Blank}
        /\ Blocked(old) \in Records
        /\ Blocked(old).id = old.id /\ Blocked(old).key = old.key
        /\ Blocked(old).st = "BLOCKED" /\ Blocked(old) # Erased
  /\ 0 \in Slots
  /\ Blank \notin Ids /\ Blank \notin Keys /\ Torn \notin Ids /\ Torn # Blank
<1>1. /\ Blank \notin Ids /\ Blank \notin Keys /\ Torn \notin Ids /\ Torn # Blank /\ 0 \in Slots
      /\ Erased \in Records /\ Erased.id = Blank /\ Erased.key = Blank /\ Erased.st = "OKAY"
  BY TableAssumption DEF Slots, Erased, Records
<1>2. ASSUME NEW id \in Ids \cup {Blank}, NEW key \in Keys
      PROVE  /\ NewUser(id, key) \in Records
             /\ NewUser(id, key).id = id /\ NewUser(id, key).key = key
             /\ NewUser(id, key).st = "OKAY" /\ NewUser(id, key) # Erased
             /\ Program(Erased, NewUser(id, key)) = NewUser(id, key)
  BY <1>1 DEF NewUser, Records, Program, ProgramField
<1>3. ASSUME NEW old \in Records
      PROVE  /\ PartialErase(old) \subseteq Records
             /\ \A g \in PartialErase(old) : g.id \in {old.id, Torn, Blank}
             /\ Blocked(old) \in Records
             /\ Blocked(old).id = old.id /\ Blocked(old).key = old.key
             /\ Blocked(old).st = "BLOCKED" /\ Blocked(old) # Erased
  BY <1>1 DEF PartialErase, Records, Blocked
<1>. QED
  BY <1>1, <1>2, <1>3

(* When the first sector is free every scan ends there.                    *)
LEMMA FreeEndsScans ==
  ASSUME FirstFree(slots), NEW id, NEW i \in Slots, ScanEnds(slots, id, i)
  PROVE  i = 0
<1>1. i # 0 => 0 \in 0 .. (i - 1)
  BY TableAssumption DEF Slots
<1>. QED
  BY <1>1 DEF ScanEnds, FirstFree

(* A secure command runs only on a table whose first sector holds          *)
(* something: an erased record verifies no signature.                      *)
LEMMA SignedMeansUsers ==
  ASSUME NEW r \in Requests, Secure(r), Signed(r)
  PROVE  slots[0] # Erased
<1>. SUFFICES ASSUME slots[0] = Erased PROVE FALSE
  OBVIOUS
<1>1. FirstFree(slots)
  BY RecordFacts DEF FirstFree
<1>. DEFINE i == CHOOSE j \in Slots : FoundAt(slots, r.user, j)
<1>2. i \in Slots /\ FoundAt(slots, r.user, i)
  BY DEF Signed, Found
<1>3. UserOf(slots, r.user) = slots[i]
  BY DEF UserOf
<1>. HIDE DEF i
<1>4. i = 0
  BY <1>1, <1>2, FreeEndsScans DEF FoundAt
<1>. QED
  BY <1>3, <1>4, RequestFields, RecordFacts DEF Signed

(* Steps after which the first sector has an id exactly when it had one.   *)
LEMMA AdvertKept ==
  ASSUME AdvertInv, TableType', UNCHANGED ble, gaps \subseteq gaps',
         slots'[0] = slots[0] \/ (~FirstFree(slots) /\ ~FirstFree(slots'))
  PROVE  AdvertInv'
<1>1. CountIs(slots, 0) <=> FirstFree(slots)
  BY CountZero
<1>2. CountIs(slots', 0) <=> FirstFree(slots')
  BY CountZero
<1>. QED
  BY <1>1, <1>2 DEF AdvertInv, AdvertMatchesUsers, FirstFree

(* Steps after which AdvertMatchesUsers asks nothing.                      *)
LEMMA AdvertExempt ==
  ASSUME TableType', BleRecord(ble'),
         0 \in gaps' \/ (FirstFree(slots') /\ slots'[0] # Erased)
  PROVE  AdvertInv'
  BY DEF AdvertInv, AdvertMatchesUsers, FirstFree

(* flash_user_add programs the first sector only when it is erased.        *)
LEMMA AddPlace ==
  ASSUME TableType, NEW id \in Ids \cup {Blank}, NEW key \in Keys, NEW code,
         AddResult(NewUser(id, key), code, slots')
  PROVE  /\ TableType'
         /\ slots'[0] = slots[0] \/ slots[0] = Erased
         /\ code = "OK" /\ FirstFree(slots) => slots'[0] = NewUser(id, key)
<1>. DEFINE u == NewUser(id, key)
<1>1. PICK n \in Slots :
        /\ CountIs(slots, n)
        /\ IF n >= UsersMax \/ slots[n] # Erased
           THEN code = "FLASH_FAILURE" /\ slots' = slots
           ELSE code = "OK" /\ slots' = [slots EXCEPT ![n] = Program(Erased, u)]
  BY DEF AddResult
<1>2. CASE code = "FLASH_FAILURE" /\ slots' = slots
  BY <1>2 DEF TableType
<1>3. CASE slots[n] = Erased /\ slots' = [slots EXCEPT ![n] = Program(Erased, u)]
  <2>1. u \in Records /\ 0 \in Slots /\ slots' = [slots EXCEPT ![n] = u]
    BY <1>3, RecordFacts
  <2>2. TableType' /\ slots'[n] = u /\ \A j \in Slots : j # n => slots'[j] = slots[j]
    BY <2>1 DEF TableType
  <2>3. FirstFree(slots) => n = 0
    <3>1. n # 0 => 0 \in 0 .. (n - 1)
      BY TableAssumption DEF Slots
    <3>. QED
      BY <1>1, <3>1 DEF CountIs, FirstFree
  <2>. QED
    BY <1>3, <2>1, <2>2, <2>3
<1>. QED
  BY <1>1, <1>2, <1>3

LEMMA FirstUserAdvert ==
  ASSUME AdvertInv, NEW r \in Requests, AddFirstUser(r)
  PROVE  AdvertInv'
<1>0. r.user \in Ids \cup {Blank} /\ r.key \in Keys /\ TableType /\ BleRecord(ble)
      /\ gaps' = gaps
  BY RequestFields DEF AdvertInv, AddFirstUser
<1>2. CASE UNCHANGED <<slots, ble>>
  BY <1>0, <1>2, AdvertKept DEF AdvertInv, TableType
<1>3. CASE /\ AddResult(NewUser(r.user, r.key), "OK", slots')
           /\ ble' = [ble EXCEPT !.firstUser = FALSE] /\ CountIs(slots, 0)
  <2>1. TableType' /\ slots'[0] = NewUser(r.user, r.key)
    BY <1>0, <1>3, AddPlace, CountZero
  <2>2. slots'[0].id = r.user /\ slots'[0] # Erased
    BY <1>0, <2>1, RecordFacts
  <2>3. BleRecord(ble') /\ ble'.firstUser = FALSE
    BY <1>0, <1>3 DEF BleRecord
  <2>4. CASE r.user = Blank
    BY <2>1, <2>2, <2>3, <2>4, AdvertExempt DEF FirstFree
  <2>5. CASE r.user # Blank
    <3>1. ~CountIs(slots', 0)
      BY <2>2, <2>5, CountZero DEF FirstFree
    <3>. QED
      BY <2>1, <2>3, <3>1 DEF AdvertInv, AdvertMatchesUsers
  <2>. QED
    BY <2>4, <2>5
<1>4. CASE AddResult(NewUser(r.user, r.key), "FLASH_FAILURE", slots') /\ ble' = ble
  <2>1. slots' = slots
    BY <1>4 DEF AddResult
  <2>. QED
    BY <1>2, <1>4, <2>1
<1>5. CASE CountIs(slots, 0) /\ r.sz = 64 /\ r.named
  <2>1. PICK code \in {"OK", "FLASH_FAILURE"} :
           /\ AddResult(NewUser(r.user, r.key), code, slots')
           /\ ble' = IF code = "OK" THEN [ble EXCEPT !.firstUser = FALSE] ELSE ble
    BY <1>5 DEF AddFirstUser
  <2>2. CASE code = "OK"
    BY <1>3, <1>5, <2>1, <2>2
  <2>3. CASE code = "FLASH_FAILURE"
    BY <1>4, <2>1, <2>3
  <2>. QED
    BY <2>2, <2>3
<1>. QED
  BY <1>2, <1>5 DEF AddFirstUser

(* Writing the record u over the one a scan for id has found.              *)
LEMMA SectorAdvert ==
  ASSUME AdvertInv, NEW id, NEW i \in Slots, FoundAt(slots, id, i), NEW u \in Records, u.id = id,
         u # Erased, slots' = [slots EXCEPT ![i] = u], UNCHANGED ble, gaps \subseteq gaps'
  PROVE  AdvertInv'
<1>1. TableType' /\ slots'[i] = u /\ \A j \in Slots : j # i => slots'[j] = slots[j]
  BY DEF AdvertInv, TableType
<1>2. CASE i # 0
  BY <1>1, <1>2, RecordFacts, AdvertKept
<1>3. CASE i = 0 /\ id = Blank
  BY <1>1, <1>3, AdvertExempt DEF AdvertInv, FirstFree
<1>4. CASE i = 0 /\ id # Blank
  BY <1>1, <1>4, AdvertKept DEF FirstFree, FoundAt
<1>. QED
  BY <1>2, <1>3, <1>4

LEMMA OverwriteAdvert ==
  ASSUME AdvertInv, NEW i \in Slots, OverwriteFails(i), UNCHANGED ble
  PROVE  AdvertInv'
<1>1. PICK g \in PartialErase(slots[i]) :
         /\ slots' = [slots EXCEPT ![i] = g]
         /\ gaps' = IF Blank \in {slots[i].id, g.id} THEN gaps \cup {i} ELSE gaps
  BY DEF OverwriteFails
<1>2. slots[i] \in Records /\ g \in Records
  BY RecordFacts DEF AdvertInv, TableType
<1>3. TableType' /\ slots'[i] = g /\ \A j \in Slots : j # i => slots'[j] = slots[j]
  BY <1>1, <1>2 DEF AdvertInv, TableType
<1>4. CASE i # 0
  BY <1>1, <1>3, <1>4, RecordFacts, AdvertKept
<1>5. CASE i = 0 /\ Blank \in {slots[i].id, g.id}
  BY <1>1, <1>3, <1>5, AdvertExempt DEF AdvertInv
<1>6. CASE i = 0 /\ Blank \notin {slots[i].id, g.id}
  BY <1>1, <1>3, <1>6, AdvertKept DEF FirstFree
<1>. QED
  BY <1>4, <1>5, <1>6

LEMMA UserAdvert ==
  ASSUME AdvertInv, NEW r \in Requests, AddUser(r) \/ UserBlock(r)
  PROVE  AdvertInv'
<1>1. r.target \in Ids \cup {Blank} /\ r.key \in Keys /\ TableType /\ UNCHANGED ble
  BY RequestFields DEF AdvertInv, AddUser, UserBlock, config
<1>2. slots[0] # Erased
  BY SignedMeansUsers DEF AddUser, UserBlock, Admitted, Secure, Secured
<1>3. CASE UNCHANGED <<slots, gaps>>
  BY <1>1, <1>3, AdvertKept DEF TableType
<1>4. CASE /\ \E i \in Slots : /\ FoundAt(slots, r.target, i)
                               /\ slots' = [slots EXCEPT ![i] = NewUser(r.target, r.key)]
           /\ UNCHANGED gaps
  <2>. DEFINE u == NewUser(r.target, r.key)
  <2>1. u \in Records /\ u.id = r.target /\ u # Erased
    BY <1>1, RecordFacts
  <2>2. PICK i \in Slots : FoundAt(slots, r.target, i) /\ slots' = [slots EXCEPT ![i] = u]
    BY <1>4
  <2>. HIDE DEF u
  <2>. QED
    BY <1>1, <1>4, <2>1, <2>2, SectorAdvert
<1>5. CASE \E i \in Slots : FoundAt(slots, r.target, i) /\ OverwriteFails(i)
  BY <1>1, <1>5, OverwriteAdvert
<1>6. CASE /\ \E code \in {"OK", "FLASH_FAILURE"} :
                  AddResult(NewUser(r.target, r.key), code, slots')
           /\ UNCHANGED gaps
  <2>1. TableType' /\ slots'[0] = slots[0]
    BY <1>1, <1>2, <1>6, AddPlace
  <2>. QED
    BY <1>1, <1>6, <2>1, AdvertKept
<1>7. CASE /\ \E i \in Slots :
                  FoundAt(slots, r.target, i) /\ slots' = [slots EXCEPT ![i] = Blocked(slots[i])]
           /\ UNCHANGED gaps
  <2>1. PICK i \in Slots :
          FoundAt(slots, r.target, i) /\ slots' = [slots EXCEPT ![i] = Blocked(slots[i])]
    BY <1>7
  <2>2. slots[i] \in Records /\ slots[i].id = r.target
    BY <1>1, <2>1 DEF FoundAt, TableType
  <2>3. /\ Blocked(slots[i]) \in Records /\ Blocked(slots[i]).id = r.target
        /\ Blocked(slots[i]) # Erased
    BY <2>2, RecordFacts
  <2>. QED
    BY <1>1, <1>7, <2>1, <2>3, SectorAdvert
<1>8. CASE AddUser(r)
  BY <1>3, <1>4, <1>5, <1>6, <1>8 DEF AddUser
<1>9. CASE UserBlock(r)
  BY <1>3, <1>7, <1>9 DEF UserBlock
<1>. QED
  BY <1>8, <1>9

(* Commands that leave the table alone and tell the module at most the     *)
(* passkey or the name, or reset it.                                       *)
LEMMA OtherAdvert ==
  ASSUME AdvertInv, NEW r,
         \/ Reject(r) \/ (\E n \in Words : Hello(r, n)) \/ SyncTime(r) \/ Press(r) \/ Report(r)
         \/ ChangePasskey(r) \/ ChangeName(r) \/ ResetBle(r)
  PROVE  AdvertInv'
<1>1. UNCHANGED <<slots, gaps>>
  BY DEF Reject, Hello, SyncTime, Press, Report, ChangePasskey, ChangeName, ResetBle
<1>2. \/ UNCHANGED ble
      \/ ble' = [ble EXCEPT !.passkey = r.word]
      \/ ble' = [ble EXCEPT !.name = r.word]
      \/ ble' = BleReset
  BY DEF Reject, Hello, SyncTime, Press, Report, ChangePasskey, ChangeName, ResetBle,
         Configure, config
<1>3. BleRecord(ble') /\ (ble'.firstUser = ble.firstUser \/ ble'.firstUser = None)
  BY <1>2 DEF AdvertInv, BleRecord, BleReset
<1>4. CountIs(slots', 0) <=> CountIs(slots, 0)
  BY <1>1
<1>. QED
  BY <1>1, <1>3, <1>4 DEF AdvertInv, TableType, AdvertMatchesUsers

LEMMA ConfiguredAdvert ==
  ASSUME TableType', NEW d, ble' = BleConfigured(d, CountIs(slots', 0))
  PROVE  AdvertInv'
<1>1. ble'.firstUser = CountIs(slots', 0) /\ BleRecord(ble')
  BY DEF BleConfigured, BleRecord
<1>. QED
  BY <1>1 DEF AdvertInv, AdvertMatchesUsers, BleRecord

LEMMA FactoryAdvert ==
  ASSUME FactoryState
  PROVE  AdvertInv'
<1>1. TableType' /\ FirstFree(slots')
  BY RecordFacts DEF FactoryState, TableType, FirstFree, Erased
<1>2. CountIs(slots', 0)
  BY <1>1, CountZero
<1>3. ble'.firstUser = TRUE /\ BleRecord(ble')
  BY DEF FactoryState, BleConfigured, BleRecord
<1>. QED
  BY <1>1, <1>2, <1>3 DEF AdvertInv, AdvertMatchesUsers, BleRecord

LEMMA RestartAdvert ==
  ASSUME AdvertInv, Restart
  PROVE  AdvertInv'
<1>1. CASE FactoryState
  BY <1>1, FactoryAdvert
<1>2. CASE UNCHANGED slots /\ ble' = BleConfigured(info, CountIs(slots, 0))
  <2>1. TableType' /\ ble' = BleConfigured(info, CountIs(slots', 0))
    BY <1>2 DEF AdvertInv, TableType
  <2>. QED
    BY <2>1, ConfiguredAdvert
<1>. QED
  BY <1>1, <1>2 DEF Restart

LEMMA AdvertStart == Init => AdvertInv
<1>1. Init => TableType /\ FirstFree(slots)
  BY RecordFacts DEF Init, TableType, FirstFree, Erased
<1>2. Init => CountIs(slots, 0)
  BY <1>1, CountZero
<1>3. Init => ble.firstUser = TRUE /\ BleRecord(ble)
  BY DEF Init, BleConfigured, BleRecord
<1>. QED
  BY <1>1, <1>2, <1>3 DEF AdvertInv, AdvertMatchesUsers

LEMMA AdvertStep ==
  ASSUME AdvertInv, [Next]_vars
  PROVE  AdvertInv'
<1>1. CASE \E r \in Requests : Handle(r)
  BY <1>1, FirstUserAdvert, UserAdvert, OtherAdvert DEF Handle
<1>2. CASE FactoryReset
  BY <1>2, FactoryAdvert DEF FactoryReset
<1>3. CASE Restart
  BY <1>3, RestartAdvert
<1>4. CASE Tick \/ UNCHANGED vars
  <2>1. UNCHANGED <<slots, ble, gaps>>
    BY <1>4 DEF Tick, vars, config, history
  <2>. QED
    BY <2>1, AdvertKept DEF AdvertInv, TableType
<1>. QED
  BY <1>1, <1>2, <1>3, <1>4 DEF Next

(* The module advertises first-user mode exactly while the table counts no *)
(* user, for any requests, failing erases, restarts and resets, with the   *)
(* exceptions AdvertMatchesUsers names.                                    *)
THEOREM AdvertTheorem == Spec => []AdvertMatchesUsers
<1>1. AdvertInv /\ [Next]_vars => AdvertInv'
  BY AdvertStep
<1>2. AdvertInv => AdvertMatchesUsers
  BY DEF AdvertInv
<1>. QED
  BY AdvertStart, <1>1, <1>2, PTL DEF Spec

-----------------------------------------------------------------------------
(* What a request that is not admitted is answered.                        *)
Refusals == {"WRONG_VER", "PAYLOAD_WRONG_SIZE", "WRONG_SERIAL", "EXPIRED", "USER_BLOCKED",
             "UNKNOWN_USER", "NONCE_CHECK_FAILED", "SIGNATURE_CHECK_FAILED"}

LEMMA Refused ==
  ASSUME NEW r \in Requests, ~Admitted(r)
  PROVE  RefusalCode(r) \in Refusals
<1>. DEFINE checks == << <<r.hdr # "ver", "WRONG_VER">>,
                     <<r.sz <= PayloadMax, "PAYLOAD_WRONG_SIZE">>,
                     <<r.hdr # "serial", "WRONG_SERIAL">>,
                     <<Timely(r), "EXPIRED">>,
                     <<Allowed(r), "USER_BLOCKED">>,
                     <<Known(r), "UNKNOWN_USER">>,
                     <<Fresh(r), "NONCE_CHECK_FAILED">>,
                     <<Signed(r), "SIGNATURE_CHECK_FAILED">> >>
            Fails(i) == ~checks[i][1] /\ \A j \in 1 .. (i - 1) : checks[j][1]
            first == CHOOSE i \in 1 .. 8 : Fails(i)
<1>1. r.hdr \in {"ok", "ver", "serial"}
  BY EngineAssumption DEF RequestType
<1>2. \E i \in 1 .. 8 : ~checks[i][1]
  <2>1. /\ checks[1][1] = (r.hdr # "ver") /\ checks[2][1] = (r.sz <= PayloadMax)
        /\ checks[3][1] = (r.hdr # "serial") /\ checks[4][1] = Timely(r)
        /\ checks[5][1] = Allowed(r) /\ checks[6][1] = Known(r)
        /\ checks[7][1] = Fresh(r) /\ checks[8][1] = Signed(r)
    OBVIOUS
  <2>2. ~(/\ r.hdr # "ver" /\ r.sz <= PayloadMax /\ r.hdr # "serial" /\ Timely(r) /\ Allowed(r)
          /\ Known(r) /\ Fresh(r) /\ Signed(r))
    BY <1>1 DEF Admitted, Addressed
  <2>3. \/ ~checks[1][1] \/ ~checks[2][1] \/ ~checks[3][1] \/ ~checks[4][1]
        \/ ~checks[5][1] \/ ~checks[6][1] \/ ~checks[7][1] \/ ~checks[8][1]
    BY <2>1, <2>2
  <2>. HIDE DEF checks
  <2>. QED
    BY <2>3
<1>3. \A i \in 1 .. 8 : checks[i][2] \in Refusals
  <2>1. ASSUME NEW i \in 1 .. 8 PROVE checks[i][2] \in Refusals
    <3>1. i \in {1, 2, 3, 4, 5, 6, 7, 8}
      OBVIOUS
    <3>. QED
      BY <3>1 DEF Refusals
  <2>. QED
    BY <2>1
<1>. HIDE DEF checks
<1>4. \E i \in 1 .. 8 : Fails(i)
  <2>1. CASE ~checks[1][1]
    BY <2>1
  <2>2. CASE checks[1][1] /\ ~checks[2][1]
    BY <2>2
  <2>3. CASE checks[1][1] /\ checks[2][1] /\ ~checks[3][1]
    <3>1. Fails(3)
      BY <2>3
    <3>. QED
      BY <3>1
  <2>4. CASE checks[1][1] /\ checks[2][1] /\ checks[3][1] /\ ~checks[4][1]
    <3>1. Fails(4)
      BY <2>4
    <3>. QED
      BY <3>1
  <2>5. CASE /\ checks[1][1] /\ checks[2][1] /\ checks[3][1] /\ checks[4][1]
             /\ ~checks[5][1]
    <3>1. Fails(5)
      BY <2>5
    <3>. QED
      BY <3>1
  <2>6. CASE /\ checks[1][1] /\ checks[2][1] /\ checks[3][1] /\ checks[4][1]
             /\ checks[5][1] /\ ~checks[6][1]
    <3>1. Fails(6)
      BY <2>6
    <3>. QED
      BY <3>1
  <2>7. CASE /\ checks[1][1] /\ checks[2][1] /\ checks[3][1] /\ checks[4][1]
             /\ checks[5][1] /\ checks[6][1] /\ ~checks[7][1]
    <3>1. Fails(7)
      BY <2>7
    <3>. QED
      BY <3>1
  <2>8. CASE /\ checks[1][1] /\ checks[2][1] /\ checks[3][1] /\ checks[4][1]
             /\ checks[5][1] /\ checks[6][1] /\ checks[7][1]
    <3>1. Fails(8)
      <4>1. ~checks[8][1]
        <5>1. PICK i \in 1 .. 8 : ~checks[i][1]
          BY <1>2
        <5>2. i \in {1, 2, 3, 4, 5, 6, 7, 8}
          OBVIOUS
        <5>. QED
          BY <2>8, <5>1, <5>2
      <4>. QED
        BY <2>8, <4>1
    <3>. QED
      BY <3>1
  <2>. QED
    BY <2>1, <2>2, <2>3, <2>4, <2>5, <2>6, <2>7, <2>8
<1>5. first \in 1 .. 8
  BY <1>4
<1>6. RefusalCode(r) = checks[first][2]
  BY DEF RefusalCode, checks
<1>. QED
  BY <1>3, <1>5, <1>6

-----------------------------------------------------------------------------
(* Type correctness, for any requests: what a reply writes, and the rest.  *)
Answered ==
    /\ nonce \in Words \cup {None}
    /\ out \in [user : Ids \cup {Blank, None}, code : Codes \cup {"NONE"}]
    /\ granted \in BOOLEAN /\ unearned \in BOOLEAN

Configured ==
    /\ dev \in Settings
    /\ info \in Settings \cup {None}
    /\ ble \in [passkey : Words \cup {None}, name : Words \cup {FactoryName, None},
               firstUser : BOOLEAN \cup {None}]

Counted ==
    /\ rtc \in Int
    /\ relay \in BOOLEAN
    /\ revoked \subseteq Ids
    /\ gaps \subseteq Slots
    /\ fails \in 0 .. MaxFlashFails

LEMMA ReplyType ==
  ASSUME Answered, NEW r \in Requests, NEW code \in Codes, Reply(r, code)
  PROVE  Answered'
<1>1. out' \in [user : Ids \cup {Blank, None}, code : Codes \cup {"NONE"}]
  BY RequestFields DEF Reply
<1>2. nonce' \in Words \cup {None}
  BY DEF Reply, Answered
<1>3. granted' \in BOOLEAN /\ unearned' \in BOOLEAN
  BY Zenon DEF Reply, Answered
<1>. QED
  BY <1>1, <1>2, <1>3 DEF Answered

LEMMA AnsweredKept ==
  ASSUME Answered, NEW r \in Requests, Handle(r)
  PROVE  Answered'
<1>1. CASE Reject(r)
  <2>1. RefusalCode(r) \in Codes
    BY <1>1, Refused DEF Reject, Refusals, Codes
  <2>. QED
    BY <1>1, <2>1, ReplyType DEF Reject
<1>2. CASE \E n \in Words : Hello(r, n)
  BY <1>2, RequestFields DEF Hello, Answered, Codes
<1>3. CASE SyncTime(r) \/ ResetBle(r) \/ Press(r)
  <2>1. \E code \in Codes : Reply(r, code)
    BY <1>3 DEF SyncTime, ResetBle, Press, Codes
  <2>. QED
    BY <2>1, ReplyType
<1>4. CASE AddFirstUser(r) \/ UserBlock(r)
  <2>1. \E code \in Codes : Reply(r, code)
    BY <1>4 DEF AddFirstUser, UserBlock, Codes
  <2>. QED
    BY <2>1, ReplyType
<1>5. CASE AddUser(r)
  <2>1. \E code \in Codes : Reply(r, code)
    BY <1>5 DEF AddUser, Codes
  <2>. QED
    BY <2>1, ReplyType
<1>6. CASE ChangePasskey(r) \/ ChangeName(r)
  <2>1. \E code \in Codes : Reply(r, code)
    BY <1>6 DEF ChangePasskey, ChangeName, Configure, Codes
  <2>. QED
    BY <2>1, ReplyType
<1>7. CASE Report(r)
  <2>. DEFINE code == CASE r.cmd \in {"UNKNOWN", "UNKNOWN_SECURE"}   -> "UNKNOWN_COMMAND"
                  [] r.cmd = "GET_USER_INFO" /\ r.sz # 1       -> "PAYLOAD_WRONG_SIZE"
                  [] OTHER                                     -> "OK"
  <2>1. Reply(r, code)
    BY <1>7 DEF Report
  <2>2. code \in Codes
    BY DEF Codes
  <2>. QED
    BY <2>1, <2>2, ReplyType
<1>. QED
  BY <1>1, <1>2, <1>3, <1>4, <1>5, <1>6, <1>7 DEF Handle

LEMMA ConfigureType ==
  ASSUME Configured, NEW r, NEW w \in Words,
         \/ Configure(r, [dev EXCEPT !.passkey = w], [ble EXCEPT !.passkey = w])
         \/ Configure(r, [dev EXCEPT !.name = w], [ble EXCEPT !.name = w])
  PROVE  Configured'
<1>0. Remains \subseteq Settings \cup {None}
  BY DEF Configured, Remains, Settings
<1>1. dev' \in Settings /\ info' \in Settings \cup {None}
  BY <1>0 DEF Configure, Configured, Settings
<1>2. ble' \in [passkey : Words \cup {None}, name : Words \cup {FactoryName, None},
                firstUser : BOOLEAN \cup {None}]
  BY DEF Configure, Configured
<1>. QED
  BY <1>1, <1>2 DEF Configured

LEMMA BootType ==
  ASSUME NEW d \in Settings, NEW first \in BOOLEAN, dev' = d, info' = d,
         ble' = BleConfigured(d, first)
  PROVE  Configured'
<1>1. ble' \in [passkey : Words \cup {None}, name : Words \cup {FactoryName, None},
                firstUser : BOOLEAN \cup {None}]
  BY DEF BleConfigured, Settings
<1>. QED
  BY <1>1 DEF Configured

LEMMA FactoryIsSettings == Factory \in Settings
  BY EngineAssumption DEF Factory, Settings

LEMMA ConfiguredKept ==
  ASSUME Configured, [Next]_vars
  PROVE  Configured'
<1>1. ASSUME NEW r \in Requests, Handle(r) PROVE Configured'
  <2>1. CASE UNCHANGED config
    BY <2>1 DEF config, Configured
  <2>2. CASE AddFirstUser(r)
    <3>1. UNCHANGED <<dev, info>> /\ (ble' = ble \/ ble' = [ble EXCEPT !.firstUser = FALSE])
      BY <2>2 DEF AddFirstUser
    <3>. QED
      BY <3>1 DEF Configured
  <2>3. CASE ChangePasskey(r) \/ ChangeName(r)
    <3>1. CASE Configure(r, [dev EXCEPT !.passkey = r.word], [ble EXCEPT !.passkey = r.word])
               \/ Configure(r, [dev EXCEPT !.name = r.word], [ble EXCEPT !.name = r.word])
      BY <3>1, RequestFields, ConfigureType
    <3>. QED
      BY <2>1, <2>3, <3>1 DEF ChangePasskey, ChangeName
  <2>4. CASE ResetBle(r)
    BY <2>4 DEF ResetBle, BleReset, Configured
  <2>. QED
    BY <1>1, <2>1, <2>2, <2>3, <2>4
    DEF Handle, Reject, Hello, AddUser, UserBlock, SyncTime, Press, Report
<1>2. CASE FactoryState
  BY <1>2, FactoryIsSettings, BootType DEF FactoryState
<1>3. CASE Restart
  <2>1. CASE info # None /\ dev' = info /\ info' = info /\ ble' = BleConfigured(info, CountIs(slots, 0))
    <3>1. CountIs(slots, 0) \in BOOLEAN
      BY DEF CountIs
    <3>. QED
      BY <2>1, <3>1, BootType DEF Configured
  <2>. QED
    BY <1>2, <1>3, <2>1 DEF Restart
<1>4. CASE Tick \/ UNCHANGED vars
  BY <1>4 DEF Tick, vars, config, Configured
<1>. QED
  BY <1>1, <1>2, <1>3, <1>4 DEF Next, FactoryReset

LEMMA CountedKept ==
  ASSUME Counted, [Next]_vars
  PROVE  Counted'
<1>1. ASSUME NEW r \in Requests, Handle(r) PROVE Counted'
  <2>. USE RequestFields
  <2>1. CASE Reject(r) \/ (\E n \in Words : Hello(r, n)) \/ ResetBle(r) \/ Report(r)
    BY <2>1 DEF Reject, Hello, ResetBle, Report, Counted
  <2>2. CASE SyncTime(r)
    BY <2>2 DEF SyncTime, Counted
  <2>3. CASE Press(r)
    BY <2>3, Zenon DEF Press, Counted
  <2>4. CASE AddFirstUser(r)
    <3>1. /\ UNCHANGED <<relay, fails, gaps>> /\ rtc' \in {rtc, r.time}
          /\ revoked' \in {revoked, revoked \ {r.user}}
      BY <2>4 DEF AddFirstUser
    <3>. QED
      BY <3>1 DEF Counted
  <2>5. CASE AddUser(r)
    <3>1. UNCHANGED <<rtc, relay>> /\ revoked' \in {revoked, revoked \ {r.target}}
          /\ (gaps' = gaps \/ \E i \in Slots : gaps' = gaps \cup {i})
          /\ (fails' = fails \/ (fails < MaxFlashFails /\ fails' = fails + 1))
      BY <2>5 DEF AddUser, OverwriteFails
    <3>. QED
      BY <3>1, EngineAssumption DEF Counted
  <2>6. CASE UserBlock(r)
    <3>1. /\ UNCHANGED <<rtc, relay, fails, gaps>>
          /\ revoked' \in {revoked, revoked \cup ({r.target} \cap Ids)}
      BY <2>6 DEF UserBlock
    <3>. QED
      BY <3>1 DEF Counted
  <2>7. CASE ChangePasskey(r) \/ ChangeName(r)
    <3>1. UNCHANGED <<rtc, relay, revoked, gaps>>
          /\ (fails' = fails \/ (fails < MaxFlashFails /\ fails' = fails + 1))
      BY <2>7 DEF ChangePasskey, ChangeName, Configure
    <3>. QED
      BY <3>1, EngineAssumption DEF Counted
  <2>. QED
    BY <1>1, <2>1, <2>2, <2>3, <2>4, <2>5, <2>6, <2>7 DEF Handle
<1>2. CASE FactoryReset \/ Restart
  <2>1. /\ UNCHANGED <<relay, fails>> /\ rtc' \in {rtc, -1} /\ revoked' \in {revoked, {}}
        /\ gaps' \in {gaps, {}}
    BY <1>2 DEF FactoryReset, Restart, FactoryState
  <2>. QED
    BY <2>1 DEF Counted
<1>3. CASE Tick
  BY <1>3 DEF Tick, history, Counted
<1>4. CASE UNCHANGED vars
  BY <1>4 DEF vars, history, Counted
<1>. QED
  BY <1>1, <1>2, <1>3, <1>4 DEF Next

Typed == AdvertInv /\ Answered /\ Configured /\ Counted

LEMMA TypedStart == Init => Typed
<1>. SUFFICES ASSUME Init PROVE Typed
  OBVIOUS
<1>1. Answered
  BY DEF Init, Answered
<1>2. Configured
  BY FactoryIsSettings DEF Init, Configured, BleConfigured, Settings
<1>3. Counted
  <2>1. rtc \in Int /\ fails \in 0 .. MaxFlashFails
    BY EngineAssumption DEF Init
  <2>. QED
    BY <2>1 DEF Init, Counted
<1>. QED
  BY AdvertStart, <1>1, <1>2, <1>3 DEF Typed

LEMMA TypedStep ==
  ASSUME Typed, [Next]_vars
  PROVE  Typed'
<1>1. Answered'
  <2>1. CASE \E r \in Requests : Handle(r)
    BY <2>1, AnsweredKept DEF Typed
  <2>2. CASE FactoryReset \/ Restart \/ Tick \/ UNCHANGED vars
    <3>1. /\ nonce' \in {nonce, None} /\ granted' \in {granted, FALSE} /\ UNCHANGED <<out, unearned>>
      BY <2>2 DEF FactoryReset, Restart, Tick, vars, history
    <3>. QED
      BY <3>1 DEF Typed, Answered
  <2>. QED
    BY <2>1, <2>2 DEF Next
<1>. QED
  BY <1>1, AdvertStep, ConfiguredKept, CountedKept DEF Typed

(* Every variable keeps its shape and every reply has one of the codes of  *)
(* main.c:65-77, for any requests.                                         *)
THEOREM TypeTheorem == Spec => []TypeOK
<1>1. Typed /\ [Next]_vars => Typed'
  BY TypedStep
<1>2. Typed => TypeOK
  BY DEF Typed, AdvertInv, TableType, Answered, Configured, Counted, TypeOK
<1>. QED
  BY TypedStart, <1>1, <1>2, PTL DEF Spec

-----------------------------------------------------------------------------
LEMMA SettingsKept ==
  ASSUME Configured, Counted, SettingsAgree, [Next]_vars
  PROVE  SettingsAgree'
<1>. SUFFICES ASSUME fails' = 0
              PROVE  /\ info' = dev' /\ ble'.passkey \in {dev'.passkey, None}
                     /\ ble'.name \in {dev'.name, None}
  BY DEF SettingsAgree
<1>1. CASE fails = 0
  <2>0. /\ info = dev /\ ble.passkey \in {dev.passkey, None} /\ ble.name \in {dev.name, None}
    BY <1>1 DEF SettingsAgree
  <2>1. ASSUME NEW r \in Requests, Handle(r)
        PROVE  /\ info' = dev' /\ ble'.passkey \in {dev'.passkey, None}
               /\ ble'.name \in {dev'.name, None}
    <3>1. CASE UNCHANGED config
      BY <2>0, <3>1 DEF config
    <3>2. CASE AddFirstUser(r)
      <4>1. UNCHANGED <<dev, info>> /\ (ble' = ble \/ ble' = [ble EXCEPT !.firstUser = FALSE])
        BY <3>2 DEF AddFirstUser
      <4>. QED
        BY <2>0, <4>1 DEF Configured
    <3>3. CASE ResetBle(r)
      BY <2>0, <3>3 DEF ResetBle, BleReset
    <3>4. CASE ChangePasskey(r)
      <4>1. CASE /\ dev' = [dev EXCEPT !.passkey = r.word] /\ info' = dev'
                 /\ ble' = [ble EXCEPT !.passkey = r.word]
        BY <2>0, <4>1 DEF Configured, Settings
      <4>. QED
        BY <1>1, <3>1, <3>4, <4>1 DEF ChangePasskey, Configure
    <3>5. CASE ChangeName(r)
      <4>1. CASE /\ dev' = [dev EXCEPT !.name = r.word] /\ info' = dev'
                 /\ ble' = [ble EXCEPT !.name = r.word]
        BY <2>0, <4>1 DEF Configured, Settings
      <4>. QED
        BY <1>1, <3>1, <3>5, <4>1 DEF ChangeName, Configure
    <3>. QED
      BY <2>1, <3>1, <3>2, <3>3, <3>4, <3>5
      DEF Handle, Reject, Hello, AddUser, UserBlock, SyncTime, Press, Report
  <2>2. CASE FactoryReset \/ Restart
    <3>1. info' = dev' /\ \E first : ble' = BleConfigured(dev', first)
      BY <2>2 DEF FactoryReset, Restart, FactoryState
    <3>. QED
      BY <3>1 DEF BleConfigured
  <2>3. CASE Tick \/ UNCHANGED vars
    BY <2>0, <2>3 DEF Tick, vars, config
  <2>. QED
    BY <2>1, <2>2, <2>3 DEF Next
<1>2. CASE fails # 0
  <2>1. fails' = fails \/ fails' = fails + 1
    BY DEF Next, Handle, Reject, Hello, AddFirstUser, AddUser, UserBlock, OverwriteFails,
           ChangePasskey, ChangeName, Configure, SyncTime, ResetBle, Press, Report,
           FactoryReset, Restart, Tick, vars
  <2>. QED
    BY <1>2, <2>1, EngineAssumption DEF Counted
<1>. QED
  BY <1>1, <1>2

(* While no erase has failed, the settings in RAM, in flash and in the BLE *)
(* module agree, for any requests, restarts and resets.                    *)
THEOREM SettingsTheorem == Spec => []SettingsAgree
<1>1. Init => SettingsAgree
  BY DEF Init, SettingsAgree, BleConfigured
<1>2. Typed /\ SettingsAgree /\ [Next]_vars => Typed' /\ SettingsAgree'
  BY TypedStep, SettingsKept DEF Typed
<1>. QED
  BY TypedStart, <1>1, <1>2, PTL DEF Spec

-----------------------------------------------------------------------------
(* The clock is never set to 0: it is at its factory value or right.       *)
Clock == rtc = -1 \/ rtc > 0

(* What ClockSetWithUsers needs of the outside.                            *)
TimesAreSent == ~BatteryFails /\ \A r \in Requests : r.time > 0

(* A table in which something was written has seen the time.               *)
ClockRuns == (\E i \in Slots : slots[i] # Erased) => rtc > 0

LEMMA ClockKept ==
  ASSUME TimesAreSent, Typed, Clock, ClockRuns, [Next]_vars
  PROVE  Clock' /\ ClockRuns'
<1>2. rtc \in Int /\ 0 \in Slots
  BY RecordFacts DEF Typed, Counted
<1>3. ASSUME NEW r \in Requests, Handle(r) PROVE Clock' /\ ClockRuns'
  <2>0. r.time \in Int /\ r.time > 0
    BY RequestFields DEF TimesAreSent
  <2>1. CASE UNCHANGED <<slots, rtc>>
    BY <2>1 DEF Clock, ClockRuns
  <2>2. CASE SyncTime(r)
    BY <2>0, <2>2 DEF SyncTime, Clock, ClockRuns
  <2>3. CASE AddUser(r) \/ UserBlock(r)
    <3>1. slots[0] # Erased /\ UNCHANGED rtc
      BY <2>3, SignedMeansUsers DEF AddUser, UserBlock, Admitted, Secure, Secured
    <3>. QED
      BY <1>2, <3>1 DEF Clock, ClockRuns
  <2>4. CASE AddFirstUser(r)
    <3>1. CASE \E code \in {"OK", "FLASH_FAILURE"} :
                  /\ AddResult(NewUser(r.user, r.key), code, slots')
                  /\ rtc' = IF code = "OK" /\ rtc < 0 THEN r.time ELSE rtc
      <4>1. CASE /\ AddResult(NewUser(r.user, r.key), "FLASH_FAILURE", slots') /\ rtc' = rtc
        <5>1. slots' = slots
          BY <4>1 DEF AddResult
        <5>. QED
          BY <2>1, <4>1, <5>1
      <4>2. CASE rtc' = IF rtc < 0 THEN r.time ELSE rtc
        BY <1>2, <2>0, <4>2 DEF Clock, ClockRuns
      <4>. QED
        BY <3>1, <4>1, <4>2
    <3>. QED
      BY <2>1, <2>4, <3>1 DEF AddFirstUser
  <2>. QED
    BY <1>3, <2>1, <2>2, <2>3, <2>4
    DEF Handle, Reject, Hello, ChangePasskey, ChangeName, ResetBle, Press, Report
<1>4. CASE FactoryState
  BY <1>4 DEF FactoryState, Clock, ClockRuns
<1>5. CASE Restart
  <2>1. CASE rtc' \in {rtc} \cup (IF BatteryFails THEN {-1} ELSE {}) /\ UNCHANGED slots
    BY <2>1 DEF TimesAreSent, Clock, ClockRuns
  <2>. QED
    BY <1>4, <1>5, <2>1 DEF Restart
<1>6. CASE Tick
  BY <1>2, <1>6 DEF Tick, Clock, ClockRuns
<1>7. CASE UNCHANGED vars
  BY <1>7 DEF vars, Clock, ClockRuns
<1>. QED
  BY <1>3, <1>4, <1>5, <1>6, <1>7 DEF Next, FactoryReset

(* A keybox that has users has its clock set, when the battery lasts and   *)
(* clients send positive times.                                            *)
THEOREM ClockTheorem == TimesAreSent /\ Spec => []ClockSetWithUsers
<1>1. Init => Clock /\ ClockRuns
  BY DEF Init, Clock, ClockRuns
<1>2. ClockRuns => ClockSetWithUsers
  BY CountZero, RecordFacts DEF ClockRuns, ClockSetWithUsers, FirstFree
<1>3. TimesAreSent /\ Init /\ [][Next]_vars => []ClockSetWithUsers
  <2>. SUFFICES ASSUME TimesAreSent PROVE Init /\ [][Next]_vars => []ClockSetWithUsers
    OBVIOUS
  <2>1. Typed /\ Clock /\ ClockRuns /\ [Next]_vars => (Typed /\ Clock /\ ClockRuns)'
    BY TypedStep, ClockKept
  <2>. QED
    BY TypedStart, <1>1, <1>2, <2>1, PTL
<1>. QED
  BY <1>3 DEF Spec

-----------------------------------------------------------------------------
(* The table has its erased sectors after all others and each user once.   *)
Ordered ==
    /\ \A i, j \in Slots : slots[i].id = Blank /\ i < j => slots[j].id = Blank
    /\ \A i, j \in Slots : slots[i].id \in Ids /\ slots[i].id = slots[j].id => i = j

(* A revoked user is stored, blocked.                                      *)
Silenced == \A id \in revoked : \E i \in Slots : slots[i].id = id /\ slots[i].st = "BLOCKED"

LEMMA ScanFinds ==
  ASSUME TableType, Ordered, NEW id \in Ids, NEW i \in Slots, slots[i].id = id
  PROVE  FoundAt(slots, id, i) /\ \A j \in Slots : FoundAt(slots, id, j) => j = i
<1>1. ASSUME NEW j \in 0 .. (i - 1) PROVE slots[j].id \notin {id, Blank}
  <2>1. j \in Slots /\ j < i /\ i # j
    BY TableAssumption DEF Slots
  <2>. QED
    BY <2>1, TableAssumption DEF Ordered
<1>. QED
  BY <1>1 DEF FoundAt, ScanEnds, Ordered

LEMMA NotFoundAbsent ==
  ASSUME TableType, Ordered, NEW id \in Ids, NotFound(slots, id)
  PROVE  \A i \in Slots : slots[i].id # id
<1>1. PICK i \in Slots : ScanEnds(slots, id, i) /\ slots[i].id # id
  BY DEF NotFound
<1>2. slots[i].id = Blank /\ \A j \in 0 .. (i - 1) : slots[j].id # id
  BY <1>1 DEF ScanEnds
<1>3. ASSUME NEW j \in Slots PROVE slots[j].id # id
  <2>1. j < i => j \in 0 .. (i - 1)
    BY TableAssumption DEF Slots
  <2>2. j > i => slots[j].id = Blank
    BY <1>2 DEF Ordered
  <2>3. j < i \/ j = i \/ j > i
    BY TableAssumption DEF Slots
  <2>. QED
    BY <1>2, <2>1, <2>2, <2>3, TableAssumption
<1>. QED
  BY <1>3

(* A sector that holds no id is taken for a user that is nowhere else, or  *)
(* one that holds an id keeps it or loses it to bytes nobody wrote.        *)
LEMMA SectorOrder ==
  ASSUME TableType, Ordered, NEW k \in Slots, NEW u \in Records, u.id # Blank,
         slots' = [slots EXCEPT ![k] = u],
         slots[k].id # Blank \/ \A j \in Slots : j < k => slots[j].id # Blank,
         u.id \in Ids => \A j \in Slots : j # k => slots[j].id # u.id
  PROVE  Ordered'
<1>1. slots'[k] = u /\ \A j \in Slots : j # k => slots'[j] = slots[j]
  BY DEF TableType
<1>2. ASSUME NEW i \in Slots, NEW j \in Slots, slots'[i].id = Blank, i < j
      PROVE  slots'[j].id = Blank
  <2>1. i # k /\ slots[i].id = Blank
    BY <1>1, <1>2
  <2>2. slots[j].id = Blank
    BY <1>2, <2>1 DEF Ordered
  <2>3. j # k
    <3>. SUFFICES ASSUME j = k PROVE FALSE
      OBVIOUS
    <3>. QED
      BY <1>2, <2>1, <2>2
  <2>. QED
    BY <1>1, <2>2, <2>3
<1>3. ASSUME NEW i \in Slots, NEW j \in Slots, slots'[i].id \in Ids, slots'[i].id = slots'[j].id
      PROVE  i = j
  BY <1>1, <1>3 DEF Ordered
<1>. QED
  BY <1>2, <1>3 DEF Ordered

(* A step that changes only the sector of one user keeps the others        *)
(* silenced.                                                               *)
LEMMA OthersSilenced ==
  ASSUME TableType, Silenced, NEW k \in Slots, NEW u, NEW id,
         slots' = [slots EXCEPT ![k] = u], slots[k].id \in {id, Blank}, Blank \notin revoked,
         revoked' = revoked \ {id}
  PROVE  Silenced'
<1>1. ASSUME NEW d \in revoked' PROVE \E i \in Slots : slots'[i].id = d /\ slots'[i].st = "BLOCKED"
  <2>1. PICK i \in Slots : slots[i].id = d /\ slots[i].st = "BLOCKED"
    BY DEF Silenced
  <2>2. i # k
    BY <2>1
  <2>. QED
    BY <2>1, <2>2 DEF TableType
<1>. QED
  BY <1>1 DEF Silenced

(* A step after which every sector has the id it had.                      *)
LEMMA SameIds ==
  ASSUME Ordered, \A j \in Slots : slots'[j].id = slots[j].id
  PROVE  Ordered'
  BY DEF Ordered

LEMMA AddOrder ==
  ASSUME TableType, Ordered, Silenced, Blank \notin revoked,
         NEW id \in Ids \cup {Blank}, NEW key \in Keys,
         NEW code \in {"OK", "FLASH_FAILURE"},
         id # Blank => \A i \in Slots : slots[i].id # id,
         AddResult(NewUser(id, key), code, slots'),
         revoked' = IF code = "OK" THEN revoked \ {id} ELSE revoked
  PROVE  Ordered' /\ Silenced'
<1>1. PICK n \in Slots :
        /\ CountIs(slots, n)
        /\ IF n >= UsersMax \/ slots[n] # Erased
           THEN code = "FLASH_FAILURE" /\ slots' = slots
           ELSE code = "OK" /\ slots' = [slots EXCEPT ![n] = Program(Erased, NewUser(id, key))]
  BY DEF AddResult
<1>2. CASE slots' = slots /\ revoked' = revoked
  BY <1>2 DEF Ordered, Silenced
<1>3. CASE /\ slots[n] = Erased /\ code = "OK"
           /\ slots' = [slots EXCEPT ![n] = Program(Erased, NewUser(id, key))]
  <2>. DEFINE u == NewUser(id, key)
  <2>1. u \in Records /\ u.id = id /\ slots' = [slots EXCEPT ![n] = u] /\ slots[n].id = Blank
    BY <1>3, RecordFacts
  <2>4. \A j \in Slots : j < n => slots[j].id # Blank
    <3>1. \A j \in Slots : j < n => j \in 0 .. (n - 1)
      BY TableAssumption DEF Slots
    <3>. QED
      BY <1>1, <3>1 DEF CountIs
  <2>. HIDE DEF u
  <2>5. Ordered'
    <3>1. CASE id = Blank
      <4>1. \A j \in Slots : slots'[j].id = slots[j].id
        BY <2>1, <3>1 DEF TableType
      <4>. QED
        BY <4>1, SameIds
    <3>2. CASE id # Blank
      BY <2>1, <2>4, <3>2, SectorOrder
    <3>. QED
      BY <3>1, <3>2
  <2>. QED
    BY <1>3, <2>1, <2>5, OthersSilenced
<1>. QED
  BY <1>1, <1>2, <1>3

(* A user's record is replaced.                                            *)
LEMMA ReplaceOrder ==
  ASSUME TableType, Ordered, Silenced, Blank \notin revoked,
         NEW id \in Ids \cup {Blank}, NEW i \in Slots, slots[i].id = id,
         NEW u \in Records, u.id \in {id, Torn}, id = Blank => u.id = Blank,
         slots' = [slots EXCEPT ![i] = u], revoked' = revoked \ {id}
  PROVE  Ordered' /\ Silenced'
<1>1. Ordered'
  <2>1. CASE u.id = id
    <3>1. \A j \in Slots : slots'[j].id = slots[j].id
      BY <2>1 DEF TableType
    <3>. QED
      BY <3>1, SameIds
  <2>2. CASE u.id = Torn /\ id # Blank
    BY <2>2, RecordFacts, SectorOrder
  <2>. QED
    BY <2>1, <2>2
<1>. QED
  BY <1>1, OthersSilenced

(* A user's record is blocked, and the user is revoked.                    *)
LEMMA BlockOrder ==
  ASSUME TableType, Ordered, Silenced, NEW id, NEW i \in Slots, slots[i].id = id,
         slots' = [slots EXCEPT ![i] = Blocked(slots[i])],
         revoked' = revoked \cup ({id} \cap Ids)
  PROVE  Ordered' /\ Silenced'
<1>2. /\ slots'[i].id = slots[i].id /\ slots'[i].st = "BLOCKED"
      /\ \A j \in Slots : j # i => slots'[j] = slots[j]
  BY DEF Blocked, TableType
<1>3. \A j \in Slots : slots'[j].id = slots[j].id
  BY <1>2
<1>5. ASSUME NEW d \in revoked' PROVE \E j \in Slots : slots'[j].id = d /\ slots'[j].st = "BLOCKED"
  <2>1. CASE d = id
    BY <1>2, <2>1
  <2>2. CASE d # id
    <3>1. PICK j \in Slots : slots[j].id = d /\ slots[j].st = "BLOCKED"
      BY <2>2 DEF Silenced
    <3>. QED
      BY <1>2, <2>2, <3>1
  <2>. QED
    BY <2>1, <2>2
<1>. QED
  BY <1>3, <1>5, SameIds DEF Silenced

LEMMA UserOrder ==
  ASSUME TableType, Ordered, Silenced, revoked \subseteq Ids, gaps' = {}, NEW r \in Requests,
         AddUser(r) \/ UserBlock(r)
  PROVE  Ordered' /\ Silenced'
<1>1. r.target \in Ids \cup {Blank} /\ r.key \in Keys /\ Blank \notin revoked
  BY RequestFields, RecordFacts
<1>2. CASE UNCHANGED <<slots, revoked>>
  BY <1>2 DEF Ordered, Silenced
<1>3. CASE /\ NotFound(slots, r.target)
           /\ \E code \in {"OK", "FLASH_FAILURE"} :
                /\ AddResult(NewUser(r.target, r.key), code, slots')
                /\ revoked' = IF code = "OK" THEN revoked \ {r.target} ELSE revoked
  BY <1>1, <1>3, AddOrder, NotFoundAbsent
<1>4. CASE /\ \E i \in Slots : /\ FoundAt(slots, r.target, i)
                               /\ slots' = [slots EXCEPT ![i] = NewUser(r.target, r.key)]
           /\ revoked' = revoked \ {r.target}
  <2>. DEFINE u == NewUser(r.target, r.key)
  <2>1. PICK i \in Slots : slots[i].id = r.target /\ slots' = [slots EXCEPT ![i] = u]
    BY <1>4 DEF FoundAt
  <2>2. u \in Records /\ u.id = r.target
    BY <1>1, RecordFacts
  <2>. HIDE DEF u
  <2>. QED
    BY <1>1, <1>4, <2>1, <2>2, ReplaceOrder
<1>5. CASE /\ \E i \in Slots : FoundAt(slots, r.target, i) /\ OverwriteFails(i)
           /\ revoked' = IF slots' = slots THEN revoked ELSE revoked \ {r.target}
  <2>1. PICK i \in Slots : slots[i].id = r.target /\ OverwriteFails(i)
    BY <1>5 DEF FoundAt
  <2>2. PICK g \in PartialErase(slots[i]) :
           /\ slots' = [slots EXCEPT ![i] = g]
           /\ gaps' = IF Blank \in {slots[i].id, g.id} THEN gaps \cup {i} ELSE gaps
    BY <2>1 DEF OverwriteFails
  <2>3. g \in Records /\ g.id \in {r.target, Torn} /\ r.target # Blank
    BY <2>1, <2>2, RecordFacts DEF TableType
  <2>. QED
    BY <1>1, <1>2, <1>5, <2>1, <2>2, <2>3, ReplaceOrder
<1>6. CASE /\ \E i \in Slots : /\ FoundAt(slots, r.target, i)
                               /\ slots' = [slots EXCEPT ![i] = Blocked(slots[i])]
           /\ revoked' = revoked \cup ({r.target} \cap Ids)
  BY <1>6, BlockOrder DEF FoundAt
<1>7. CASE AddUser(r)
  BY <1>2, <1>3, <1>4, <1>5, <1>7 DEF AddUser
<1>8. CASE UserBlock(r)
  BY <1>2, <1>6, <1>8 DEF UserBlock
<1>. QED
  BY <1>7, <1>8

(* The sectors without an id are forgotten only by a reset.                *)
LEMMA GapsGrow ==
  ASSUME [Next]_vars
  PROVE  gaps \subseteq gaps' \/ FactoryState
<1>1. ASSUME NEW r \in Requests, Handle(r) PROVE gaps \subseteq gaps'
  <2>1. CASE AddUser(r)
    BY <2>1 DEF AddUser, OverwriteFails
  <2>2. CASE ~AddUser(r)
    BY <1>1, <2>2
    DEF Handle, Reject, Hello, AddFirstUser, UserBlock, ChangePasskey, ChangeName, SyncTime,
        ResetBle, Press, Report
  <2>. QED
    BY <2>1, <2>2
<1>. QED
  BY <1>1 DEF Next, FactoryReset, Restart, Tick, vars, history

LEMMA WipedOrder ==
  ASSUME FactoryState
  PROVE  Ordered' /\ Silenced'
<1>1. /\ revoked' = {}
      /\ \A i \in Slots : slots'[i].id = Blank
  BY RecordFacts DEF FactoryState
<1>. QED
  BY <1>1, RecordFacts DEF Ordered, Silenced

LEMMA SilencedKept ==
  ASSUME Typed, gaps = {} => Ordered /\ Silenced, [Next]_vars, gaps' = {}
  PROVE  Ordered' /\ Silenced'
<1>0. TableType /\ revoked \subseteq Ids /\ Blank \notin revoked
  BY RecordFacts DEF Typed, AdvertInv, Counted
<1>1. CASE Ordered /\ Silenced /\ UNCHANGED <<slots, revoked>>
  BY <1>1 DEF Ordered, Silenced
<1>2. ASSUME Ordered, Silenced, NEW r \in Requests, Handle(r) PROVE Ordered' /\ Silenced'
  <2>1. CASE AddFirstUser(r)
    <3>1. CASE CountIs(slots, 0) /\ r.sz = 64 /\ r.named
      <4>1. slots[0].id = Blank /\ r.user \in Ids \cup {Blank} /\ r.key \in Keys
        BY <3>1, CountZero, RequestFields DEF FirstFree
      <4>2. \A i \in Slots : slots[i].id = Blank
        <5>1. 0 \in Slots /\ \A i \in Slots : i = 0 \/ 0 < i
          BY TableAssumption DEF Slots
        <5>. QED
          BY <1>2, <4>1, <5>1 DEF Ordered
      <4>3. PICK code \in {"OK", "FLASH_FAILURE"} :
               /\ AddResult(NewUser(r.user, r.key), code, slots')
               /\ revoked' = IF code = "OK" THEN revoked \ {r.user} ELSE revoked
        BY <2>1, <3>1 DEF AddFirstUser
      <4>. QED
        BY <1>0, <1>2, <4>1, <4>2, <4>3, AddOrder
    <3>. QED
      BY <1>1, <1>2, <2>1, <3>1 DEF AddFirstUser
  <2>2. CASE AddUser(r) \/ UserBlock(r)
    BY <1>0, <1>2, <2>2, UserOrder
  <2>. QED
    BY <1>1, <1>2, <2>1, <2>2
    DEF Handle, Reject, Hello, ChangePasskey, ChangeName, SyncTime, ResetBle, Press, Report
<1>3. CASE FactoryState
  BY <1>3, WipedOrder
<1>4. FactoryState \/ (Ordered /\ Silenced)
  BY GapsGrow
<1>. QED
  BY <1>1, <1>2, <1>3, <1>4 DEF Next, FactoryReset, Restart, Tick, vars, history

(* The request of a revoked user is refused.                               *)
LEMMA RevokedRefused ==
  ASSUME Typed, Ordered, Silenced, NEW r \in Requests, r.user \in revoked
  PROVE  ~Admitted(r)
<1>1. r.user \in Ids /\ TableType
  BY DEF Typed, AdvertInv, Counted
<1>2. PICK i \in Slots : slots[i].id = r.user /\ slots[i].st = "BLOCKED"
  BY DEF Silenced
<1>3. FoundAt(slots, r.user, i) /\ \A j \in Slots : FoundAt(slots, r.user, j) => j = i
  BY <1>1, <1>2, ScanFinds
<1>4. (CHOOSE j \in Slots : FoundAt(slots, r.user, j)) = i
  BY <1>3
<1>. QED
  BY <1>2, <1>3, <1>4 DEF Admitted, Allowed, Found, UserOf

LEMMA RevokedSilent ==
  ASSUME Typed, Ordered, Silenced, [Next]_vars, NEW id \in revoked, out' # out, out'.user = id
  PROVE  out'.code # "OK"
<1>1. ASSUME NEW r \in Requests, Handle(r) PROVE out'.code # "OK"
  <2>1. out'.user = r.user
    BY <1>1 DEF Handle, Reject, Hello, AddFirstUser, AddUser, UserBlock, ChangePasskey,
                ChangeName, Configure, SyncTime, ResetBle, Press, Report, Reply
  <2>2. ~Admitted(r)
    BY <2>1, RevokedRefused
  <2>3. Reject(r)
    BY <1>1, <2>2 DEF Handle, Hello, AddFirstUser, AddUser, UserBlock, ChangePasskey,
                ChangeName, SyncTime, ResetBle, Press, Report
  <2>4. out'.code = RefusalCode(r)
    BY <2>3 DEF Reject, Reply
  <2>. QED
    BY <2>2, <2>4, Refused DEF Refusals
<1>. QED
  BY <1>1 DEF Next, FactoryReset, Restart, Tick, vars

(* The invariant behind what the engine does to its users.                 *)
Users == Typed /\ (gaps = {} => Ordered /\ Silenced)

LEMMA UsersStart == Init => Users /\ Ordered
<1>1. Init => revoked = {} /\ \A i \in Slots : slots[i].id = Blank
  BY RecordFacts DEF Init
<1>. QED
  BY <1>1, TypedStart, RecordFacts DEF Users, Ordered, Silenced

LEMMA UsersInvariant == Spec => []Users
<1>1. Users /\ [Next]_vars => Users'
  BY TypedStep, SilencedKept DEF Users
<1>. QED
  BY <1>1, UsersStart, PTL DEF Spec

(* From the OK to a USER_BLOCK until the user is added again or the keybox *)
(* is reset, no request of that user is answered OK, for any frames in any *)
(* order, restarts and failing erases, until one leaves a sector without   *)
(* an id.                                                                  *)
THEOREM SilentTheorem == Spec => BlockedSilent
<1>1. Users /\ [Next]_vars
      => [gaps = {} =>
             \A id \in revoked : out' # out /\ out'.user = id => out'.code # "OK"]_vars
  BY RevokedSilent DEF Users
<1>. QED
  BY UsersInvariant, <1>1, PTL DEF Spec, BlockedSilent

-----------------------------------------------------------------------------
(* The directory of users that the table holds: a user is present when the *)
(* search finds it.                                                        *)
EntryOf(s, id) ==
    IF Found(s, id) THEN [key |-> UserOf(s, id).key, st |-> UserOf(s, id).st]
    ELSE [key |-> "none", st |-> "ABSENT"]

Dir == [id \in Ids |-> EntryOf(slots, id)]

Directory ==
    INSTANCE UserDirectory WITH Lossy <- MaxFlashFails > 0, intact <- gaps = {}, dir <- Dir

Missing == [key |-> "none", st |-> "ABSENT"]

(* A table in order, as TableType and Ordered say of slots.                *)
InOrder(s) ==
    /\ s \in [Slots -> Records]
    /\ \A i, j \in Slots : s[i].id = Blank /\ i < j => s[j].id = Blank
    /\ \A i, j \in Slots : s[i].id \in Ids /\ s[i].id = s[j].id => i = j

(* The entry of a user is what its sector holds.                           *)
LEMMA EntryIs ==
  ASSUME NEW s, InOrder(s), NEW id \in Ids
  PROVE  /\ \A i \in Slots : s[i].id = id => EntryOf(s, id) = [key |-> s[i].key, st |-> s[i].st]
         /\ (\A i \in Slots : s[i].id # id) => EntryOf(s, id) = Missing
<1>1. ASSUME NEW i \in Slots, s[i].id = id PROVE EntryOf(s, id) = [key |-> s[i].key, st |-> s[i].st]
  <2>1. ASSUME NEW j \in 0 .. (i - 1) PROVE s[j].id \notin {id, Blank}
    <3>1. j \in Slots /\ j < i /\ i # j
      BY TableAssumption DEF Slots
    <3>. QED
      BY <1>1, <3>1, TableAssumption DEF InOrder
  <2>2. FoundAt(s, id, i)
    BY <1>1, <2>1 DEF FoundAt, ScanEnds
  <2>3. \A j \in Slots : FoundAt(s, id, j) => j = i
    BY <1>1 DEF FoundAt, InOrder
  <2>4. (CHOOSE j \in Slots : FoundAt(s, id, j)) = i
    BY <2>2, <2>3
  <2>. QED
    BY <2>2, <2>4 DEF Found, UserOf, EntryOf
<1>2. ASSUME \A i \in Slots : s[i].id # id PROVE EntryOf(s, id) = Missing
  BY <1>2 DEF Found, FoundAt, EntryOf, Missing
<1>. QED
  BY <1>1, <1>2

(* Table t is s with the record u in sector k.                             *)
Written(s, t, k, u) ==
    /\ InOrder(s) /\ InOrder(t) /\ k \in Slots
    /\ t = [s EXCEPT ![k] = u]

(* Writing one sector does not matter to the users that are neither in it  *)
(* before nor after.                                                       *)
LEMMA OtherEntries ==
  ASSUME NEW s, NEW t, NEW k, NEW u, Written(s, t, k, u), NEW id \in Ids, s[k].id # id, u.id # id
  PROVE  EntryOf(t, id) = EntryOf(s, id)
<1>0. InOrder(s) /\ InOrder(t) /\ k \in Slots
  BY DEF Written
<1>1. t[k] = u /\ \A j \in Slots : j # k => t[j] = s[j]
  BY DEF InOrder, Written
<1>2. CASE \E i \in Slots : s[i].id = id
  <2>1. PICK i \in Slots : s[i].id = id
    BY <1>2
  <2>2. i # k /\ t[i] = s[i]
    BY <1>1, <2>1
  <2>3. EntryOf(s, id) = [key |-> s[i].key, st |-> s[i].st]
    BY <1>0, <2>1, EntryIs
  <2>4. EntryOf(t, id) = [key |-> t[i].key, st |-> t[i].st]
    BY <1>0, <2>1, <2>2, EntryIs
  <2>. QED
    BY <2>2, <2>3, <2>4
<1>3. CASE \A i \in Slots : s[i].id # id
  <2>1. EntryOf(s, id) = Missing
    BY <1>0, <1>3, EntryIs
  <2>2. \A i \in Slots : t[i].id # id
    BY <1>1, <1>3
  <2>3. EntryOf(t, id) = Missing
    BY <1>0, <2>2, EntryIs
  <2>. QED
    BY <2>1, <2>3
<1>. QED
  BY <1>2, <1>3

-----------------------------------------------------------------------------
(* What one event does to the table: sector k takes the record u of a user *)
(* that has none, or of the user it is, is marked, is spoiled by a failing *)
(* erase, or takes a record without an id in place of another.             *)
Adds(k, u) ==
    /\ u.id \in Ids /\ u.key \in Keys /\ u.st = "OKAY"
    /\ k < UsersMax /\ slots[k] = Erased
    /\ slots' = [slots EXCEPT ![k] = u]

Replaces(k, u) ==
    /\ u.id \in Ids /\ u.key \in Keys /\ u.st = "OKAY"
    /\ slots[k].id = u.id
    /\ slots' = [slots EXCEPT ![k] = u]

Marks(k) ==
    /\ slots[k].id \in Ids
    /\ slots' = [slots EXCEPT ![k] = Blocked(slots[k])]

Spoils(k, u) ==
    /\ MaxFlashFails > 0
    /\ u.id \in {slots[k].id, Torn}
    /\ slots' = [slots EXCEPT ![k] = u]

Hides(k, u) ==
    /\ slots[k].id = Blank /\ u.id = Blank
    /\ slots' = [slots EXCEPT ![k] = u]

Wipes == slots' = [i \in Slots |-> Erased]

Changes ==
    \/ \E k \in Slots :
          Marks(k) \/ \E u \in Records : Adds(k, u) \/ Replaces(k, u) \/ Spoils(k, u) \/ Hides(k, u)
    \/ Wipes

(* A failing erase that leaves a gap.                                      *)
Fade(k, u) ==
    /\ u.id \in {slots[k].id, Torn, Blank}
    /\ slots' = [slots EXCEPT ![k] = u]

Fades == MaxFlashFails > 0 /\ \E k \in Slots, u \in Records : Fade(k, u)

LEMMA AddChanges ==
  ASSUME TableType, NEW id \in Ids \cup {Blank}, NEW key \in Keys, NEW code,
         AddResult(NewUser(id, key), code, slots')
  PROVE  slots' = slots \/ Changes
<1>. DEFINE u == NewUser(id, key)
<1>1. PICK n \in Slots :
        \/ slots' = slots
        \/ n < UsersMax /\ slots[n] = Erased /\ slots' = [slots EXCEPT ![n] = Program(Erased, u)]
  BY TableAssumption DEF AddResult, Slots
<1>2. /\ Program(Erased, u) = u /\ u \in Records
      /\ u.id = id /\ u.key = key /\ u.st = "OKAY"
  BY RecordFacts
<1>. HIDE DEF u
<1>3. slots' = slots \/ Adds(n, u) \/ Hides(n, u)
  BY <1>1, <1>2, RecordFacts DEF Adds, Hides
<1>. QED
  BY <1>2, <1>3 DEF Changes

(* The search finds a record to write over: a user's, or the first free.   *)
LEMMA ReplaceChanges ==
  ASSUME NEW id \in Ids \cup {Blank}, NEW key \in Keys, NEW i \in Slots, slots[i].id = id,
         slots' = [slots EXCEPT ![i] = NewUser(id, key)]
  PROVE  Changes
<1>. DEFINE u == NewUser(id, key)
<1>1. u \in Records /\ u.id = id /\ u.key = key /\ u.st = "OKAY"
  BY RecordFacts
<1>. HIDE DEF u
<1>2. Replaces(i, u) \/ Hides(i, u)
  BY <1>1 DEF Replaces, Hides, u
<1>. QED
  BY <1>1, <1>2 DEF Changes

LEMMA OverwriteChanges ==
  ASSUME Typed, NEW i \in Slots, OverwriteFails(i)
  PROVE  /\ Fades
         /\ gaps' = {} => Changes
<1>1. PICK g \in PartialErase(slots[i]) :
         /\ slots' = [slots EXCEPT ![i] = g]
         /\ gaps' = IF Blank \in {slots[i].id, g.id} THEN gaps \cup {i} ELSE gaps
  BY DEF OverwriteFails
<1>2. g \in Records /\ g.id \in {slots[i].id, Torn, Blank}
  BY RecordFacts DEF Typed, AdvertInv, TableType
<1>3. MaxFlashFails > 0
  BY EngineAssumption DEF OverwriteFails, Typed, Counted
<1>4. gaps' = {} => Spoils(i, g)
  BY <1>1, <1>2, <1>3 DEF Spoils
<1>. QED
  BY <1>1, <1>2, <1>3, <1>4 DEF Fade, Fades, Changes

LEMMA MarkChanges ==
  ASSUME TableType, NEW id \in Ids \cup {Blank}, NEW i \in Slots, slots[i].id = id,
         slots' = [slots EXCEPT ![i] = Blocked(slots[i])]
  PROVE  Changes
<1>1. Blocked(slots[i]) \in Records /\ Blocked(slots[i]).id = id
  BY RecordFacts DEF TableType
<1>2. Marks(i) \/ Hides(i, Blocked(slots[i]))
  BY <1>1 DEF Marks, Hides
<1>. QED
  BY <1>1, <1>2 DEF Changes

(* Without a new gap the table changes in one of these ways; with one it   *)
(* fades.                                                                  *)
StepIs ==
    /\ gaps' = {} => slots' = slots \/ Changes
    /\ gaps = {} /\ gaps' # {} => Fades
    /\ gaps # {} /\ gaps' = {} => Wipes

LEMMA RequestChanges ==
  ASSUME Typed, NEW r \in Requests, AddFirstUser(r) \/ AddUser(r) \/ UserBlock(r)
  PROVE  StepIs
<1>0. /\ TableType /\ r.user \in Ids \cup {Blank} /\ r.target \in Ids \cup {Blank}
      /\ r.key \in Keys
  BY RequestFields DEF Typed, AdvertInv
<1>1. CASE UNCHANGED gaps /\ (slots' = slots \/ Changes)
  BY <1>1 DEF StepIs
<1>2. CASE AddFirstUser(r)
  <2>1. CASE \E code : AddResult(NewUser(r.user, r.key), code, slots')
    BY <1>0, <1>1, <1>2, <2>1, AddChanges DEF AddFirstUser
  <2>. QED
    BY <1>1, <1>2, <2>1 DEF AddFirstUser
<1>3. CASE AddUser(r)
  <2>1. CASE UNCHANGED gaps /\ \E code : AddResult(NewUser(r.target, r.key), code, slots')
    BY <1>0, <1>1, <2>1, AddChanges
  <2>2. CASE /\ UNCHANGED gaps
             /\ \E i \in Slots : /\ FoundAt(slots, r.target, i)
                                 /\ slots' = [slots EXCEPT ![i] = NewUser(r.target, r.key)]
    BY <1>0, <1>1, <2>2, ReplaceChanges DEF FoundAt
  <2>3. CASE \E i \in Slots : OverwriteFails(i)
    <3>1. gaps \subseteq gaps'
      BY <2>3 DEF OverwriteFails
    <3>. QED
      BY <2>3, <3>1, OverwriteChanges DEF StepIs
  <2>. QED
    BY <1>1, <1>3, <2>1, <2>2, <2>3 DEF AddUser
<1>4. CASE UserBlock(r)
  <2>1. CASE \E i \in Slots :
                FoundAt(slots, r.target, i) /\ slots' = [slots EXCEPT ![i] = Blocked(slots[i])]
    BY <1>0, <1>1, <1>4, <2>1, MarkChanges DEF FoundAt, UserBlock
  <2>. QED
    BY <1>1, <1>4, <2>1 DEF UserBlock
<1>. QED
  BY <1>2, <1>3, <1>4

LEMMA StepChanges ==
  ASSUME Typed, [Next]_vars
  PROVE  StepIs
<1>1. CASE UNCHANGED <<slots, gaps>>
  BY <1>1 DEF StepIs
<1>2. ASSUME NEW r \in Requests, Handle(r) PROVE StepIs
  BY <1>1, <1>2, RequestChanges
  DEF Handle, Reject, Hello, ChangePasskey, ChangeName, SyncTime, ResetBle, Press, Report
<1>3. CASE FactoryState
  BY <1>3 DEF FactoryState, StepIs, Changes, Wipes
<1>. QED
  BY <1>1, <1>2, <1>3 DEF Next, FactoryReset, Restart, Tick, vars, history

-----------------------------------------------------------------------------
(* A step to the record u of one user, in the directory.                   *)
LEMMA OneEntry ==
  ASSUME InOrder(slots), InOrder(slots'), NEW k \in Slots, NEW u, u.id \in Ids,
         slots' = [slots EXCEPT ![k] = u], slots[k].id \in {u.id, Blank}
  PROVE  Dir' = [Dir EXCEPT ![u.id] = [key |-> u.key, st |-> u.st]]
<1>1. slots'[k] = u
  BY DEF InOrder
<1>2. EntryOf(slots', u.id) = [key |-> u.key, st |-> u.st]
  BY <1>1, EntryIs
<1>3. ASSUME NEW d \in Ids, d # u.id PROVE EntryOf(slots', d) = EntryOf(slots, d)
  <2>1. slots[k].id # d /\ u.id # d
    BY <1>3, TableAssumption
  <2>2. Written(slots, slots', k, u)
    BY DEF Written
  <2>. QED
    BY <2>1, <2>2, OtherEntries
<1>. QED
  BY <1>2, <1>3 DEF Dir

LEMMA PresentIs ==
  ASSUME InOrder(slots), NEW id \in Ids
  PROVE  id \in Directory!Present <=> \E i \in Slots : slots[i].id = id
<1>1. id \in Directory!Present <=> EntryOf(slots, id) # Missing
  BY DEF Directory!Present, Directory!Absent, Missing, Dir
<1>2. ASSUME NEW i \in Slots, slots[i].id = id PROVE EntryOf(slots, id) # Missing
  <2>1. EntryOf(slots, id).st = slots[i].st
    BY <1>2, EntryIs
  <2>2. slots[i].st # "ABSENT"
    BY DEF InOrder, Records
  <2>. QED
    BY <2>1, <2>2 DEF Missing
<1>3. (\A i \in Slots : slots[i].id # id) => EntryOf(slots, id) = Missing
  BY EntryIs
<1>. QED
  BY <1>1, <1>2, <1>3

(* A table with a free sector n has room in the directory: its users have  *)
(* sectors of their own below n.                                           *)
LEMMA RoomFor ==
  ASSUME InOrder(slots), NEW n \in Slots, n < UsersMax, slots[n] = Erased
  PROVE  Cardinality(Directory!Present) < UsersMax
<1>. DEFINE P == Directory!Present
            S == 0 .. (n - 1)
            f == [id \in P |-> CHOOSE i \in S : slots[i].id = id]
<1>0. n \in Nat /\ UsersMax \in Nat
  BY TableAssumption DEF Slots
<1>1. ASSUME NEW id \in P PROVE \E i \in S : slots[i].id = id
  <2>1. id \in Ids
    BY DEF Directory!Present
  <2>2. PICK i \in Slots : slots[i].id = id
    BY <2>1, PresentIs
  <2>3. slots[n].id = Blank /\ id # Blank
    BY <2>1, TableAssumption DEF Erased
  <2>4. ~(n < i) /\ i # n
    BY <2>2, <2>3 DEF InOrder
  <2>5. i \in S
    BY <1>0, <2>4 DEF Slots
  <2>. QED
    BY <2>2, <2>5
<1>2. \A id \in P : f[id] \in S /\ slots[f[id]].id = id
  BY <1>1
<1>3. f \in Injection(P, S)
  <2>1. f \in [P -> S]
    BY <1>2
  <2>2. \A a, b \in DOMAIN f : f[a] = f[b] => a = b
    BY <1>2
  <2>. HIDE DEF f
  <2>. QED
    BY <2>1, <2>2 DEF Injection, IsInjective
<1>4. IsFiniteSet(S) /\ Cardinality(S) <= n
  <2>1. IsFiniteSet(S) /\ Cardinality(S) = IF 0 > n - 1 THEN 0 ELSE n - 1 - 0 + 1
    BY <1>0, FS_Interval
  <2>. QED
    BY <1>0, <2>1
<1>. HIDE DEF P, S, f
<1>5. IsFiniteSet(P) /\ Cardinality(P) <= Cardinality(S)
  BY <1>3, <1>4, FS_Injection
<1>6. Cardinality(P) \in Nat /\ Cardinality(S) \in Nat
  BY <1>4, <1>5, FS_CardinalityType
<1>. QED
  BY <1>0, <1>4, <1>5, <1>6 DEF P

LEMMA PutStep ==
  ASSUME InOrder(slots), InOrder(slots'), gaps = {}, gaps' = {}, NEW k \in Slots, NEW u \in Records,
         Adds(k, u) \/ Replaces(k, u)
  PROVE  Directory!Put(u.id, u.key)
<1>1. /\ slots[k].id \in {u.id, Blank} /\ slots' = [slots EXCEPT ![k] = u]
      /\ u.id \in Ids /\ u.st = "OKAY"
  BY DEF Adds, Replaces, Erased
<1>2. Dir' = [Dir EXCEPT ![u.id] = [key |-> u.key, st |-> "OKAY"]]
  BY <1>1, OneEntry
<1>3. Directory!Cardinality(Directory!Present) = Cardinality(Directory!Present)
  BY DEF Directory!Cardinality, Cardinality
<1>4. u.id \in Directory!Present \/ Cardinality(Directory!Present) < UsersMax
  BY <1>1, PresentIs, RoomFor DEF Adds, Replaces
<1>. QED
  BY <1>2, <1>3, <1>4 DEF Directory!Put

LEMMA MarkStep ==
  ASSUME InOrder(slots), InOrder(slots'), gaps = {}, gaps' = {}, NEW k \in Slots, Marks(k)
  PROVE  Directory!Block(slots[k].id)
<1>. DEFINE u == slots[k]
<1>1. /\ Blocked(u).id = u.id /\ Blocked(u).key = u.key /\ Blocked(u).st = "BLOCKED"
      /\ u.id \in Ids /\ slots' = [slots EXCEPT ![k] = Blocked(u)]
  BY DEF Marks, Blocked
<1>2. Dir' = [Dir EXCEPT ![u.id] = [key |-> Blocked(u).key, st |-> Blocked(u).st]]
  BY <1>1, OneEntry
<1>3. Dir[u.id] = [key |-> u.key, st |-> u.st]
  BY <1>1, EntryIs DEF Dir
<1>4. [Dir[u.id] EXCEPT !.st = "BLOCKED"] = [key |-> u.key, st |-> "BLOCKED"]
  BY <1>3
<1>5. Dir' = [Dir EXCEPT ![u.id] = [Dir[u.id] EXCEPT !.st = "BLOCKED"]]
  BY <1>1, <1>2, <1>4
<1>6. [Dir EXCEPT ![u.id].st = "BLOCKED"] = [Dir EXCEPT ![u.id] = [Dir[u.id] EXCEPT !.st = "BLOCKED"]]
  BY DEF Dir
<1>. QED
  BY <1>1, <1>5, <1>6, PresentIs DEF Directory!Block

LEMMA SpoilStep ==
  ASSUME InOrder(slots), InOrder(slots'), gaps = {}, gaps' = {}, NEW k \in Slots, NEW u \in Records,
         Spoils(k, u)
  PROVE  Directory!Next \/ Dir' = Dir
<1>. DEFINE id == slots[k].id
<1>1. Written(slots, slots', k, u) /\ u.id \in {id, Torn}
  BY DEF Written, Spoils
<1>2. \A d \in Ids : d # id => EntryOf(slots', d) = EntryOf(slots, d)
  BY <1>1, RecordFacts, OtherEntries
<1>3. CASE id \in Ids
  <2>1. Dir' = [Dir EXCEPT ![id] = Dir'[id]]
    BY <1>2, <1>3 DEF Dir
  <2>2. id \in Directory!Present
    BY <1>3, PresentIs
  <2>3. Directory!Spoil(id)
    BY <2>1, <2>2 DEF Directory!Spoil, Spoils
  <2>. QED
    BY <1>3, <2>3 DEF Directory!Next
<1>4. CASE id \notin Ids
  BY <1>2, <1>4 DEF Dir
<1>. QED
  BY <1>3, <1>4

LEMMA HideStep ==
  ASSUME InOrder(slots), InOrder(slots'), NEW k \in Slots, NEW u \in Records, Hides(k, u)
  PROVE  Dir' = Dir
<1>1. Written(slots, slots', k, u) /\ slots[k].id = Blank /\ u.id = Blank
  BY DEF Written, Hides
<1>2. \A d \in Ids : EntryOf(slots', d) = EntryOf(slots, d)
  BY <1>1, RecordFacts, OtherEntries
<1>. QED
  BY <1>2 DEF Dir

LEMMA WipesClears ==
  ASSUME Wipes
  PROVE  Dir' = [id \in Ids |-> Missing]
<1>1. \A i \in Slots : slots'[i].id = Blank
  BY RecordFacts DEF Wipes
<1>2. \A id \in Ids : ~Found(slots', id)
  BY <1>1, RecordFacts DEF Found, FoundAt
<1>. QED
  BY <1>2 DEF EntryOf, Missing, Dir

LEMMA DirectoryStep ==
  ASSUME InOrder(slots), InOrder(slots'), gaps = {}, gaps' = {}, slots' = slots \/ Changes
  PROVE  Directory!Next \/ Dir' = Dir
<1>1. CASE slots' = slots
  BY <1>1 DEF Dir
<1>2. ASSUME NEW k \in Slots, NEW u \in Records, Adds(k, u) \/ Replaces(k, u)
      PROVE  Directory!Next
  <2>1. u.id \in Ids /\ u.key \in Keys
    BY <1>2 DEF Adds, Replaces
  <2>. QED
    BY <1>2, <2>1, PutStep DEF Directory!Next
<1>3. ASSUME NEW k \in Slots, Marks(k) PROVE Directory!Next
  <2>1. slots[k].id \in Ids /\ Directory!Block(slots[k].id)
    BY <1>3, MarkStep DEF Marks
  <2>. QED
    BY <2>1 DEF Directory!Next
<1>4. CASE Wipes
  <2>1. Directory!Clear
    BY <1>4, WipesClears DEF Directory!Clear, Directory!Absent, Missing
  <2>. QED
    BY <2>1 DEF Directory!Next
<1>. QED
  BY <1>1, <1>2, <1>3, <1>4, SpoilStep, HideStep DEF Changes

(* A user that is found in a table that has faded is found as it was.      *)
LEMMA FadesToAbsent ==
  ASSUME InOrder(slots), NEW k \in Slots, NEW u \in Records, Fade(k, u),
         NEW id \in Ids, id # slots[k].id
  PROVE  EntryOf(slots', id) \in {EntryOf(slots, id), Missing}
<1>1. CASE ~Found(slots', id)
  BY <1>1 DEF EntryOf, Missing
<1>2. CASE Found(slots', id)
  <2>. DEFINE i == CHOOSE j \in Slots : FoundAt(slots', id, j)
  <2>1. i \in Slots /\ slots'[i].id = id
    BY <1>2 DEF Found, FoundAt
  <2>2. UserOf(slots', id) = slots'[i]
    BY DEF UserOf
  <2>. HIDE DEF i
  <2>3. slots'[k] = u /\ \A j \in Slots : j # k => slots'[j] = slots[j]
    BY DEF InOrder, Fade
  <2>4. i # k /\ slots'[i] = slots[i]
    BY <2>1, <2>3, RecordFacts DEF Fade
  <2>5. EntryOf(slots, id) = [key |-> slots[i].key, st |-> slots[i].st]
    BY <2>1, <2>4, EntryIs
  <2>. QED
    BY <1>2, <2>2, <2>4, <2>5 DEF EntryOf
<1>. QED
  BY <1>1, <1>2

LEMMA VanishStep ==
  ASSUME InOrder(slots), gaps = {}, gaps' # {}, Fades
  PROVE  Directory!Vanish
<1>1. PICK k \in Slots, u \in Records : Fade(k, u)
  BY DEF Fades
<1>2. ASSUME NEW id \in Ids, id # slots[k].id PROVE Dir'[id] \in {Dir[id], Missing}
  <2>1. EntryOf(slots', id) \in {EntryOf(slots, id), Missing}
    BY <1>1, <1>2, FadesToAbsent
  <2>. QED
    BY <2>1 DEF Dir
<1>. QED
  BY <1>2 DEF Directory!Vanish, Directory!Absent, Missing, Fades

LEMMA UsersInOrder ==
  ASSUME Users, gaps = {}
  PROVE  InOrder(slots)
  BY DEF Users, Typed, AdvertInv, TableType, Ordered, InOrder

(* The engine implements the directory: whatever requests arrive, each     *)
(* leaves the users alone or adds, replaces or blocks exactly one of them  *)
(* in a single step (or, when an erase fails, spoils it), restarts change  *)
(* none, only the factory reset clears them all, and there are never more  *)
(* than UsersMax (main.c:284-447, flash.c:253-384), until a failing erase  *)
(* leaves a sector without an id, when users may vanish.                   *)
THEOREM DirectoryTheorem == Spec => Directory!Spec
<1>1. Init => Directory!Init
  <2>. SUFFICES ASSUME Init PROVE Directory!Init
    OBVIOUS
  <2>1. gaps = {} /\ \A i \in Slots : slots[i].id = Blank
    BY RecordFacts DEF Init
  <2>2. \A id \in Ids : ~Found(slots, id)
    BY <2>1, RecordFacts DEF Found, FoundAt
  <2>. QED
    BY <2>1, <2>2 DEF Directory!Init, Directory!Absent, EntryOf, Dir
<1>2. Users => (gaps = {} => InOrder(slots))
  BY UsersInOrder
<1>3. /\ Users /\ (gaps = {} => InOrder(slots)) /\ (gaps = {} => InOrder(slots))' /\ [Next]_vars
      => [Directory!Next]_<<Dir, gaps = {}>>
  <2>. SUFFICES ASSUME Users, gaps = {} => InOrder(slots), gaps' = {} => InOrder(slots'), [Next]_vars
               PROVE  [Directory!Next]_<<Dir, gaps = {}>>
    OBVIOUS
  <2>1. StepIs
    BY StepChanges DEF Users
  <2>2. CASE gaps = {} /\ gaps' = {}
    BY <2>1, <2>2, DirectoryStep DEF StepIs
  <2>3. CASE gaps = {} /\ gaps' # {}
    BY <2>1, <2>3, VanishStep DEF StepIs, Directory!Next
  <2>4. CASE gaps # {} /\ gaps' # {}
    BY <2>4 DEF Directory!Next, Directory!Astray
  <2>5. CASE gaps # {} /\ gaps' = {}
    BY <2>1, <2>5, WipesClears
    DEF StepIs, Directory!Next, Directory!Clear, Directory!Absent, Missing
  <2>. QED
    BY <2>2, <2>3, <2>4, <2>5
<1>. QED
  BY UsersInvariant, <1>1, <1>2, <1>3, PTL DEF Spec, Directory!Spec

-----------------------------------------------------------------------------
(* Every change of the table is asked for by somebody whose record, not    *)
(* blocked, holds the key of the request's signature, except that a table  *)
(* that counts no user takes its first from anybody, and that the factory  *)
(* reset erases it (main.c:229-252, 284-290): with NonceSpentOnce, each    *)
(* other change costs its voucher a nonce.  As long as no failing erase    *)
(* has left a sector without an id, a table that counts no user holds      *)
(* none; after one it may, and then anybody is let in beside them.         *)
Vouches(a) ==
    /\ Found(slots, a)
    /\ UserOf(slots, a).key \in Keys
    /\ UserOf(slots, a).st = "OKAY"
    /\ out'.user = a

Vouched ==
    [][slots' # slots =>
        \/ \E a \in Ids \cup {Blank} : Vouches(a)
        \/ CountIs(slots, 0) /\ (gaps = {} => Directory!Present = {})
        \/ slots' = [i \in Slots |-> Erased]]_vars

LEMMA AdmittedVouches ==
  ASSUME TableType, NEW r \in Requests, Admitted(r), Secure(r), out'.user = r.user
  PROVE  r.user \in Ids \cup {Blank} /\ Vouches(r.user)
<1>1. /\ r.user \in Ids \cup {Blank} /\ Found(slots, r.user)
      /\ UserOf(slots, r.user).st # "BLOCKED" /\ UserOf(slots, r.user).key \in Keys
  BY RequestFields DEF Admitted, Known, Allowed, Signed
<1>2. UserOf(slots, r.user) \in Records
  BY <1>1 DEF Found, UserOf, TableType
<1>. QED
  BY <1>1, <1>2 DEF Vouches, Records

LEMMA CountsNobody ==
  ASSUME InOrder(slots), CountIs(slots, 0)
  PROVE  Directory!Present = {}
<1>1. slots[0].id = Blank
  BY CountZero DEF FirstFree
<1>2. \A i \in Slots : i = 0 \/ 0 < i
  BY TableAssumption DEF Slots
<1>3. \A i \in Slots : slots[i].id = Blank
  BY <1>1, <1>2, RecordFacts DEF InOrder
<1>4. \A d \in Ids : d \notin Directory!Present
  BY <1>3, PresentIs, RecordFacts
<1>. QED
  BY <1>4 DEF Directory!Present

LEMMA ChangeVouched ==
  ASSUME Users, [Next]_vars, slots' # slots
  PROVE  \/ \E a \in Ids \cup {Blank} : Vouches(a)
         \/ CountIs(slots, 0) /\ (gaps = {} => Directory!Present = {})
         \/ slots' = [i \in Slots |-> Erased]
<1>0. TableType
  BY DEF Users, Typed, AdvertInv
<1>1. ASSUME NEW r \in Requests, AddUser(r) \/ UserBlock(r)
      PROVE  \E a \in Ids \cup {Blank} : Vouches(a)
  <2>1. Admitted(r) /\ Secure(r)
    BY <1>1 DEF AddUser, UserBlock, Secure, Secured
  <2>2. out'.user = r.user
    BY <1>1 DEF AddUser, UserBlock, Reply
  <2>. QED
    BY <1>0, <2>1, <2>2, AdmittedVouches
<1>2. ASSUME NEW r \in Requests, AddFirstUser(r)
      PROVE  CountIs(slots, 0) /\ (gaps = {} => Directory!Present = {})
  <2>1. CountIs(slots, 0)
    BY <1>2 DEF AddFirstUser
  <2>. QED
    BY <2>1, UsersInOrder, CountsNobody
<1>3. CASE FactoryState
  BY <1>3 DEF FactoryState
<1>4. ASSUME NEW r \in Requests, Handle(r)
      PROVE  AddFirstUser(r) \/ AddUser(r) \/ UserBlock(r)
  BY <1>4
  DEF Handle, Reject, Hello, ChangePasskey, ChangeName, SyncTime, ResetBle, Press, Report
<1>. QED
  BY <1>1, <1>2, <1>3, <1>4 DEF Next, FactoryReset, Restart, Tick, vars

(* So it is, for any requests, failing erases, restarts and resets.        *)
THEOREM VouchedTheorem == Spec => Vouched
<1>1. Users /\ [Next]_vars
      => [slots' # slots =>
            \/ \E a \in Ids \cup {Blank} : Vouches(a)
            \/ CountIs(slots, 0) /\ (gaps = {} => Directory!Present = {})
            \/ slots' = [i \in Slots |-> Erased]]_vars
  BY ChangeVouched
<1>. QED
  BY UsersInvariant, <1>1, PTL DEF Spec, Vouched
=============================================================================
