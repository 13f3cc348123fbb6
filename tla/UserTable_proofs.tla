-------------------------- MODULE UserTable_proofs --------------------------
(***************************************************************************)
(* Proofs about UserTable for any number of sectors, users, faults.  All   *)
(* theorems assume that no request carries the all-0xFF id.                *)
(***************************************************************************)
EXTENDS UserTable, FiniteSets, FiniteSetTheorems, TLAPS

(* The operation in progress works on the sector that holds its user, or   *)
(* on an erased one, and the last sector is never worked on.               *)
OnItsSector ==
    /\ pc \in {"erase", "prog", "mark"} => cur.id \in Ids
    /\ pc \in {"erase", "mark"} => slots[at].id = cur.id
    /\ pc = "prog" => slots[at] = Erased /\ at < UsersMax
    /\ slots[UsersMax] = Erased

(* Inductive whatever the faults.                                          *)
FaultInv == TypeOK /\ OnItsSector

LEMMA ErasedIsRecord == Erased \in Records
  BY DEF Erased, Records

LEMMA ProgramType ==
  ASSUME NEW old \in Records, NEW new \in Records
  PROVE  Program(old, new) \in Records
  BY DEF Program, ProgramField, Records

LEMMA PartialEraseType ==
  ASSUME NEW old \in Records
  PROVE  PartialErase(old) \subseteq Records
  BY DEF PartialErase, Records

LEMMA PrefixesType ==
  ASSUME NEW old \in Records, NEW new \in Records
  PROVE  ProgramPrefixes(old, new) \subseteq Records
<1>1. Program(old, new) \in Records
  BY ProgramType
<1>. QED
  BY <1>1 DEF ProgramPrefixes, Records

LEMMA BlockedType ==
  ASSUME NEW r \in Records
  PROVE  Blocked(r) \in Records
  BY DEF Blocked, Records

LEMMA NewUserType ==
  ASSUME NEW id \in Inputs, NEW key \in Keys \cup {Blank}
  PROVE  NewUser(id, key) \in Records /\ NewUser(id, key).id = id
  BY InputAssumption DEF NewUser, Records

LEMMA LastSector == Slots = 0 .. UsersMax /\ UsersMax \in Slots /\ Slots \subseteq Int
  BY TableAssumption, InputAssumption DEF Slots

(* Starting an operation keeps the chip and the invariant.                 *)
LEMMA AddInv ==
  ASSUME FaultInv, NEW u \in Records, u.id \in Ids, pc = "idle", Add(u)
  PROVE  FaultInv'
<1>1. PICK n \in Slots :
        \/ n >= UsersMax /\ Return(1)
        \/ n < UsersMax /\ slots[n] # Erased /\ Return(2)
        \/ n < UsersMax /\ slots[n] = Erased /\ Start("prog", u, n)
  BY DEF Add
<1>2. CASE Return(1) \/ Return(2)
  BY <1>2 DEF FaultInv, TypeOK, OnItsSector, Return, faults
<1>3. CASE n < UsersMax /\ slots[n] = Erased /\ Start("prog", u, n)
  BY <1>3 DEF FaultInv, TypeOK, OnItsSector, Start, faults
<1>. QED
  BY <1>1, <1>2, <1>3

LEMMA StartInv ==
  ASSUME FaultInv, NEW u \in Records, u.id \in Ids, NEW i \in Slots,
         FoundAt(slots, u.id, i), NEW c \in {"erase", "mark"}, Start(c, u, i)
  PROVE  FaultInv'
  BY DEF FaultInv, TypeOK, OnItsSector, Start, FoundAt, faults

(* A command that lands on the sector of its operation.                    *)
LEMMA LandInv ==
  ASSUME FaultInv, pc \in {"erase", "prog", "mark"},
         NEW r \in Records, NEW c \in {"idle", "prog"}, NEW code \in 0 .. 2,
         c = "prog" => r = Erased,
         Land(r, c, code),
         cuts' \in 0 .. MaxCuts, fails' \in 0 .. MaxEraseFails
  PROVE  FaultInv'
<1>1. at # UsersMax
  BY TableAssumption DEF FaultInv, OnItsSector, Erased
<1>2. at < UsersMax
  BY <1>1, LastSector DEF FaultInv, TypeOK
<1>3. TypeOK'
  BY DEF FaultInv, TypeOK, Land
<1>4. OnItsSector'
  <2>1. slots'[UsersMax] = Erased
    BY <1>1, LastSector DEF FaultInv, TypeOK, OnItsSector, Land
  <2>2. pc' = "prog" => slots'[at'] = Erased /\ at' < UsersMax /\ cur'.id \in Ids
    BY <1>2 DEF FaultInv, TypeOK, OnItsSector, Land
  <2>. QED
    BY <2>1, <2>2 DEF OnItsSector, Land
<1>. QED
  BY <1>3, <1>4 DEF FaultInv

LEMMA WipedInv ==
  ASSUME FaultInv, NEW s \in [Slots -> Records], s[UsersMax] = Erased, Wiped(s),
         gaps' \subseteq Slots, cuts' \in 0 .. MaxCuts, fails' \in 0 .. MaxEraseFails
  PROVE  FaultInv'
  BY DEF FaultInv, TypeOK, OnItsSector, Wiped

(* What a chip erase that does not complete leaves of each sector.         *)
Remains(s, i) ==
    \/ s[i] = slots[i]
    \/ slots[i] # Erased /\ s[i] \in PartialErase(slots[i])

LEMMA WipedInPartLeaves ==
  ASSUME FaultInv, WipedInPart
  PROVE  \E s \in [Slots -> Records] :
            /\ Wiped(s)
            /\ \A i \in Slots : Remains(s, i)
            /\ \E g \in Slots : \A i \in Slots \ {g} : s[i] \in {slots[i], Erased}
<1>1. PICK kept \in SUBSET Slots :
        LET s == [i \in Slots |-> IF i \in kept THEN slots[i] ELSE Erased]
        IN  \/ Wiped(s)
            \/ \E g \in {i \in Slots : slots[i] # Erased} :
                  \E r \in PartialErase(slots[g]) : Wiped([s EXCEPT ![g] = r])
  BY DEF WipedInPart
<1>. DEFINE s == [i \in Slots |-> IF i \in kept THEN slots[i] ELSE Erased]
<1>2. slots \in [Slots -> Records] /\ s \in [Slots -> Records]
  BY ErasedIsRecord DEF FaultInv, TypeOK
<1>3. \A i \in Slots : s[i] \in {slots[i], Erased}
  OBVIOUS
<1>4. Erased \in PartialErase(Erased) /\ \A r : Erased \in PartialErase(r)
  BY DEF PartialErase, Erased
<1>5. \A i \in Slots : Remains(s, i)
  BY <1>3, <1>4 DEF Remains
<1>. HIDE DEF s
<1>6. CASE Wiped(s)
  BY <1>2, <1>3, <1>5, <1>6, LastSector
<1>7. CASE \E g \in {i \in Slots : slots[i] # Erased} :
             \E r \in PartialErase(slots[g]) : Wiped([s EXCEPT ![g] = r])
  <2>1. PICK g \in Slots : slots[g] # Erased /\ \E r \in PartialErase(slots[g]) :
                                                  Wiped([s EXCEPT ![g] = r])
    BY <1>7
  <2>2. PICK r \in PartialErase(slots[g]) : Wiped([s EXCEPT ![g] = r])
    BY <2>1
  <2>. DEFINE t == [s EXCEPT ![g] = r]
  <2>3. r \in Records
    BY <1>2, PartialEraseType
  <2>4. t \in [Slots -> Records] /\ t[g] = r /\ \A i \in Slots \ {g} : t[i] = s[i]
    BY <1>2, <2>3
  <2>5. Wiped(t)
    BY <2>2
  <2>. HIDE DEF t
  <2>6. \A i \in Slots : Remains(t, i)
    BY <1>5, <2>1, <2>2, <2>4 DEF Remains
  <2>. QED
    BY <1>3, <2>4, <2>5, <2>6
<1>. QED
  BY <1>1, <1>6, <1>7 DEF s

LEMMA WipedInPartInv ==
  ASSUME FaultInv, WipedInPart, cuts' \in 0 .. MaxCuts, fails' \in 0 .. MaxEraseFails
  PROVE  FaultInv'
<1>1. PICK s \in [Slots -> Records] : Wiped(s) /\ \A i \in Slots : Remains(s, i)
  BY WipedInPartLeaves
<1>2. s[UsersMax] = Erased
  BY <1>1, LastSector DEF Remains, FaultInv, OnItsSector
<1>3. gaps' \subseteq Slots
  BY DEF WipedInPart, FaultInv, TypeOK
<1>. QED
  BY <1>1, <1>2, <1>3, WipedInv

LEMMA PowerCutInv ==
  ASSUME FaultInv, PowerCut
  PROVE  FaultInv'
<1>1. pc \in {"erase", "prog", "mark"} /\ cuts < MaxCuts /\ cuts' = cuts + 1 /\ fails' = fails
  BY DEF PowerCut
<1>2. cuts' \in 0 .. MaxCuts /\ fails' \in 0 .. MaxEraseFails
  BY <1>1, InputAssumption DEF FaultInv, TypeOK
<1>3. slots[at] \in Records /\ cur \in Records
  BY DEF FaultInv, TypeOK
<1>4. CASE pc = "erase"
  <2>1. PICK r \in PartialErase(slots[at]) : Land(r, "idle", 0)
    BY <1>4 DEF PowerCut
  <2>2. r \in Records
    BY <1>3, PartialEraseType
  <2>. QED
    BY <1>1, <1>2, <2>1, <2>2, LandInv
<1>5. CASE pc = "prog"
  <2>1. PICK r \in ProgramPrefixes(slots[at], cur) : Land(r, "idle", 0)
    BY <1>5 DEF PowerCut
  <2>2. r \in Records
    BY <1>3, PrefixesType
  <2>. QED
    BY <1>1, <1>2, <2>1, <2>2, LandInv
<1>6. CASE pc = "mark"
  <2>1. PICK r \in {slots[at], Blocked(slots[at])} : Land(r, "idle", 0)
    BY <1>6 DEF PowerCut
  <2>2. r \in Records
    BY <1>3, BlockedType
  <2>. QED
    BY <1>1, <1>2, <2>1, <2>2, LandInv
<1>. QED
  BY <1>1, <1>4, <1>5, <1>6

-----------------------------------------------------------------------------
LEMMA FaultInit == Init => FaultInv
  BY TableAssumption, InputAssumption, ErasedIsRecord, LastSector
  DEF Init, FaultInv, TypeOK, OnItsSector

LEMMA AddFirstUserInv ==
  ASSUME Blank \notin Inputs, FaultInv,
         NEW id \in Inputs, NEW key \in Keys, AddFirstUser(id, key)
  PROVE  FaultInv'
<1>1. NewUser(id, key) \in Records /\ NewUser(id, key).id \in Ids
  BY NewUserType, InputAssumption
<1>. QED
  BY <1>1, AddInv DEF AddFirstUser

LEMMA AddUserInv ==
  ASSUME Blank \notin Inputs, FaultInv,
         NEW id \in Inputs, NEW key \in Keys, AddUser(id, key)
  PROVE  FaultInv'
<1>. DEFINE u == NewUser(id, key)
<1>1. u \in Records /\ u.id = id /\ u.id \in Ids
  BY NewUserType, InputAssumption
<1>2. CASE \E i \in Slots : FoundAt(slots, id, i) /\ Start("erase", u, i)
  BY <1>1, <1>2, StartInv
<1>3. CASE Add(u)
  BY <1>1, <1>3, AddInv DEF AddUser
<1>. QED
  BY <1>2, <1>3 DEF AddUser

LEMMA UserBlockInv ==
  ASSUME Blank \notin Inputs, FaultInv, NEW id \in Inputs, UserBlock(id)
  PROVE  FaultInv'
<1>. DEFINE u == NewUser(id, Blank)
<1>1. u \in Records /\ u.id = id /\ u.id \in Ids
  BY NewUserType, InputAssumption
<1>2. CASE \E i \in Slots : FoundAt(slots, id, i) /\ Start("mark", u, i)
  BY <1>1, <1>2, StartInv
<1>3. CASE Return(1) /\ pc = "idle"
  BY <1>3 DEF FaultInv, TypeOK, OnItsSector, Return, faults
<1>. QED
  BY <1>2, <1>3 DEF UserBlock

LEMMA ChipInv ==
  ASSUME FaultInv,
         EraseDone \/ EraseFails \/ ProgDone \/ MarkDone
            \/ EraseChip \/ EraseChipDone \/ EraseChipFails \/ EraseChipCut
  PROVE  FaultInv'
<1>1. /\ slots \in [Slots -> Records] /\ slots[at] \in Records /\ cur \in Records
      /\ ret \in 0 .. 2 /\ 0 \in 0 .. 2 /\ 1 \in 0 .. 2
      /\ cuts \in 0 .. MaxCuts /\ fails \in 0 .. MaxEraseFails
      /\ slots[UsersMax] = Erased
  BY DEF FaultInv, TypeOK, OnItsSector
<1>2. (fails < MaxEraseFails => fails + 1 \in 0 .. MaxEraseFails)
      /\ (cuts < MaxCuts => cuts + 1 \in 0 .. MaxCuts)
  BY <1>1, InputAssumption
<1>3. CASE EraseDone
  BY <1>1, <1>3, ErasedIsRecord, LandInv DEF EraseDone, faults
<1>4. CASE EraseFails
  <2>1. PICK r \in PartialErase(slots[at]) : Land(r, "idle", 1)
    BY <1>4 DEF EraseFails
  <2>2. r \in Records
    BY <1>1, PartialEraseType
  <2>3. pc = "erase" /\ cuts' \in 0 .. MaxCuts /\ fails' \in 0 .. MaxEraseFails
    BY <1>1, <1>2, <1>4 DEF EraseFails
  <2>. QED
    BY <1>1, <2>1, <2>2, <2>3, LandInv
<1>5. CASE ProgDone
  BY <1>1, <1>5, ProgramType, LandInv DEF ProgDone, faults
<1>6. CASE MarkDone
  BY <1>1, <1>6, BlockedType, LandInv DEF MarkDone, faults
<1>7. CASE EraseChip
  BY <1>7, ErasedIsRecord, LastSector, TableAssumption
  DEF EraseChip, Start, FaultInv, TypeOK, OnItsSector, faults
<1>8. CASE EraseChipDone
  <2>. DEFINE s == [i \in Slots |-> Erased]
  <2>1. s \in [Slots -> Records] /\ s[UsersMax] = Erased
    BY ErasedIsRecord, LastSector
  <2>. QED
    BY <1>1, <1>8, <2>1, WipedInv DEF EraseChipDone, faults
<1>9. CASE EraseChipFails
  BY <1>1, <1>2, <1>9, WipedInPartInv DEF EraseChipFails
<1>10. CASE EraseChipCut
  BY <1>1, <1>2, <1>10, WipedInPartInv DEF EraseChipCut
<1>. QED
  BY <1>3, <1>4, <1>5, <1>6, <1>7, <1>8, <1>9, <1>10

LEMMA FaultStep ==
  ASSUME Blank \notin Inputs, FaultInv, [Next]_vars
  PROVE  FaultInv'
<1>1. CASE \E id \in Inputs, key \in Keys : AddFirstUser(id, key) \/ AddUser(id, key)
  BY <1>1, AddFirstUserInv, AddUserInv
<1>2. CASE \E id \in Inputs : UserBlock(id)
  BY <1>2, UserBlockInv
<1>3. CASE PowerCut
  BY <1>3, PowerCutInv
<1>4. CASE UNCHANGED vars
  BY <1>4 DEF FaultInv, TypeOK, OnItsSector, vars, faults
<1>. QED
  BY <1>1, <1>2, <1>3, <1>4, ChipInv DEF Next

(* After any faults the table and the operation in progress are well       *)
(* formed and the operation is on its own sector.                          *)
THEOREM FaultInvariant ==
  ASSUME Blank \notin Inputs
  PROVE  Spec => []FaultInv
<1>1. Init => FaultInv
  BY FaultInit
<1>2. FaultInv /\ [Next]_vars => FaultInv'
  BY FaultStep
<1>. QED
  BY <1>1, <1>2, PTL DEF Spec

(* Type correctness of the user table after any faults.                    *)
THEOREM TypeCorrect ==
  ASSUME Blank \notin Inputs
  PROVE  Spec => []TypeOK
<1>1. FaultInv => TypeOK
  BY DEF FaultInv
<1>. QED
  BY <1>1, FaultInvariant, PTL

(* The scans of flash_user_search and flash_user_block end, whatever       *)
(* power cuts and failing erases have left in the table.                   *)
THEOREM ScansAlwaysEnd ==
  ASSUME Blank \notin Inputs
  PROVE  Spec => []ScansEnd
<1>1. FaultInv => ScansEnd
  BY DEF FaultInv, OnItsSector, ScansEnd, Erased
<1>. QED
  BY <1>1, FaultInvariant, PTL

(* A program command never works on a sector that is not erased.           *)
THEOREM AlwaysProgramsErased ==
  ASSUME Blank \notin Inputs
  PROVE  Spec => []ProgramsErased
<1>1. FaultInv => ProgramsErased
  BY DEF FaultInv, OnItsSector, ProgramsErased
<1>. QED
  BY <1>1, FaultInvariant, PTL

LEMMA LandTouches ==
  ASSUME FaultInv, pc \in {"erase", "prog", "mark"}, NEW r, NEW c, NEW code, Land(r, c, code)
  PROVE  OnlyItsUser
<1>. SUFFICES ASSUME NEW i \in Slots, slots[i].id \in Ids, slots'[i] # slots[i]
             PROVE  slots[i].id = cur.id
  BY DEF OnlyItsUser
<1>1. i = at
  BY DEF Land, FaultInv, TypeOK
<1>2. pc # "prog"
  BY <1>1, TableAssumption DEF FaultInv, OnItsSector, Erased
<1>. QED
  BY <1>1, <1>2 DEF FaultInv, OnItsSector

LEMMA StepTouches ==
  ASSUME FaultInv, Next
  PROVE  OnlyItsUser
<1>1. CASE \E id \in Inputs, key \in Keys : AddFirstUser(id, key) \/ AddUser(id, key)
  BY <1>1 DEF AddFirstUser, AddUser, Add, Return, Start, OnlyItsUser
<1>2. CASE (\E id \in Inputs : UserBlock(id)) \/ EraseChip
  BY <1>2 DEF UserBlock, EraseChip, Return, Start, OnlyItsUser
<1>3. CASE EraseDone
  BY <1>3, LandTouches DEF EraseDone
<1>4. CASE EraseFails
  BY <1>4, LandTouches DEF EraseFails
<1>5. CASE ProgDone \/ MarkDone
  BY <1>5, LandTouches DEF ProgDone, MarkDone
<1>6. CASE PowerCut
  BY <1>6, LandTouches DEF PowerCut
<1>7. CASE EraseChipDone \/ EraseChipFails \/ EraseChipCut
  BY <1>7 DEF EraseChipDone, EraseChipFails, EraseChipCut, WipedInPart, Wiped, OnlyItsUser
<1>. QED
  BY <1>1, <1>2, <1>3, <1>4, <1>5, <1>6, <1>7 DEF Next

(* No step changes the record of a user other than the one the operation   *)
(* in progress names, except the chip erase of the factory reset.          *)
THEOREM OtherUsersUntouched ==
  ASSUME Blank \notin Inputs
  PROVE  Spec => NoOtherUserTouched
<1>1. FaultInv /\ [Next]_vars => [OnlyItsUser]_vars
  BY StepTouches
<1>. QED
  BY <1>1, FaultInvariant, PTL DEF Spec, NoOtherUserTouched

-----------------------------------------------------------------------------
(* The order of the table.  While a user is replaced or added, no sector   *)
(* below the one it goes to is free or holds its id, and one above holds   *)
(* it only when a fault had left a gap below.                              *)
NewcomerFits ==
    /\ pc \in {"erase", "prog"} =>
          \A j \in Slots : j < at => slots[j].id \notin {Blank, cur.id}
    /\ pc = "prog" =>
          \A j \in Slots : at < j /\ slots[j].id = cur.id => at \in gaps

(* A gap has no sector below that is free and not a gap.                   *)
GapsBelow ==
    \A i, g \in Slots :
        i < g /\ slots[i].id = Blank /\ g \in gaps
        => i \in gaps \/ (pc = "prog" /\ at = i)

(* Inductive whatever the faults.                                          *)
OrderInv == FaultInv /\ NoHoles /\ UniqueIds /\ NewcomerFits /\ GapsBelow

LEMMA OrderInit == Init => OrderInv
  BY FaultInit, TableAssumption
  DEF Init, OrderInv, NoHoles, UniqueIds, NewcomerFits, GapsBelow, Erased

(* A step that leaves the sectors and the gaps alone and starts no program *)
(* or erase.                                                               *)
LEMMA IdleKeepsOrder ==
  ASSUME OrderInv, pc # "prog", FaultInv', slots' = slots, gaps' = gaps,
         pc' \in {"idle", "mark", "wipe"}
  PROVE  OrderInv'
  BY DEF OrderInv, NoHoles, UniqueIds, NewcomerFits, GapsBelow

LEMMA ScanPrefix ==
  ASSUME NEW id, NEW i \in Slots, ScanEnds(slots, id, i), NEW j \in Slots, j < i
  PROVE  slots[j].id \notin {id, Blank}
<1>1. j \in 0 .. (i - 1)
  BY LastSector
<1>. QED
  BY <1>1 DEF ScanEnds

LEMMA CountPrefix ==
  ASSUME NEW n \in Slots, CountIs(slots, n)
  PROVE  /\ \A j \in Slots : j < n => slots[j].id # Blank
         /\ n < UsersMax => slots[n].id = Blank
<1>1. ASSUME NEW j \in Slots, j < n PROVE j \in 0 .. (n - 1)
  BY <1>1, LastSector
<1>. QED
  BY <1>1 DEF CountIs

(* flash_user_add is only called for an id that no sector below the first  *)
(* free one holds.                                                         *)
LEMMA AddedIsNew ==
  ASSUME FaultInv, NEW id \in Ids, NotFound(slots, id) \/ CountIs(slots, 0),
         NEW n \in Slots, CountIs(slots, n), n < UsersMax,
         NEW j \in Slots, j < n
  PROVE  slots[j].id # id
<1>1. \A k \in Slots : k < n => slots[k].id # Blank
  BY CountPrefix
<1>2. slots[n].id = Blank
  BY CountPrefix
<1>3. CASE CountIs(slots, 0)
  <2>1. 0 \in Slots /\ 0 < UsersMax /\ 0 < n
    BY LastSector, TableAssumption
  <2>2. slots[0].id = Blank
    BY <1>3, <2>1, CountPrefix
  <2>. QED
    BY <1>1, <2>1, <2>2
<1>4. CASE NotFound(slots, id)
  <2>1. PICK i \in Slots : ScanEnds(slots, id, i) /\ slots[i].id # id
    BY <1>4 DEF NotFound
  <2>2. slots[i].id = Blank
    BY <2>1 DEF ScanEnds
  <2>3. ~(i < n)
    BY <1>1, <2>2
  <2>4. j < i
    BY <2>3, LastSector
  <2>. QED
    BY <2>1, <2>4, ScanPrefix
<1>. QED
  BY <1>3, <1>4

LEMMA AddKeepsOrder ==
  ASSUME OrderInv, pc = "idle", NEW u, u.id \in Ids, Add(u), FaultInv',
         NotFound(slots, u.id) \/ CountIs(slots, 0)
  PROVE  OrderInv'
<1>1. PICK n \in Slots :
        /\ CountIs(slots, n)
        /\ \/ n >= UsersMax /\ Return(1)
           \/ n < UsersMax /\ slots[n] # Erased /\ Return(2)
           \/ n < UsersMax /\ slots[n] = Erased /\ Start("prog", u, n)
  BY DEF Add
<1>2. CASE Return(1) \/ Return(2)
  BY <1>2, IdleKeepsOrder DEF Return
<1>3. CASE n < UsersMax /\ slots[n] = Erased /\ Start("prog", u, n)
  <2>1. slots' = slots /\ gaps' = gaps /\ pc' = "prog" /\ at' = n /\ cur' = u
    BY <1>3 DEF Start
  <2>2. slots[n].id = Blank /\ u.id # Blank
    BY <1>3, TableAssumption DEF Erased
  <2>3. ASSUME NEW j \in Slots, j < n PROVE slots[j].id \notin {Blank, u.id}
    <3>1. slots[j].id # Blank
      BY <1>1, <2>3, CountPrefix
    <3>2. slots[j].id # u.id
      BY <1>1, <1>3, <2>3, AddedIsNew DEF OrderInv
    <3>. QED
      BY <3>1, <3>2
  <2>4. ASSUME NEW j \in Slots, n < j, slots[j].id = u.id PROVE n \in gaps
    <3>1. slots[j] # Erased
      BY <2>2, <2>4 DEF Erased
    <3>. QED
      BY <2>2, <2>4, <3>1 DEF OrderInv, NoHoles
  <2>5. NewcomerFits'
    BY <2>1, <2>3, <2>4 DEF NewcomerFits
  <2>6. NoHoles' /\ UniqueIds' /\ GapsBelow'
    BY <2>1 DEF OrderInv, NoHoles, UniqueIds, GapsBelow
  <2>. QED
    BY <2>5, <2>6 DEF OrderInv
<1>. QED
  BY <1>1, <1>2, <1>3

LEMMA RequestKeepsOrder ==
  ASSUME OrderInv, Blank \notin Inputs, FaultInv',
         NEW id \in Inputs, NEW key \in Keys,
         AddFirstUser(id, key) \/ AddUser(id, key)
  PROVE  OrderInv'
<1>. DEFINE u == NewUser(id, key)
<1>1. pc = "idle" /\ id \in Ids /\ u.id = id
  BY InputAssumption DEF AddFirstUser, AddUser, NewUser
<1>2. CASE (NotFound(slots, id) \/ CountIs(slots, 0)) /\ Add(u)
  BY <1>1, <1>2, AddKeepsOrder
<1>3. CASE \E i \in Slots : FoundAt(slots, id, i) /\ Start("erase", u, i)
  <2>1. PICK i \in Slots : FoundAt(slots, id, i) /\ Start("erase", u, i)
    BY <1>3
  <2>2. /\ slots' = slots /\ gaps' = gaps /\ pc' = "erase" /\ at' = i /\ cur' = u
    BY <2>1 DEF Start
  <2>3. \A j \in Slots : j < i => slots[j].id \notin {Blank, id}
    BY <2>1, ScanPrefix DEF FoundAt
  <2>4. NewcomerFits'
    BY <1>1, <2>2, <2>3 DEF NewcomerFits
  <2>5. NoHoles' /\ UniqueIds' /\ GapsBelow'
    BY <1>1, <2>2 DEF OrderInv, NoHoles, UniqueIds, GapsBelow
  <2>. QED
    BY <2>4, <2>5 DEF OrderInv
<1>. QED
  BY <1>2, <1>3 DEF AddFirstUser, AddUser

LEMMA EraseKeepsOrder ==
  ASSUME OrderInv, EraseDone, FaultInv'
  PROVE  OrderInv'
<1>1. /\ slots \in [Slots -> Records] /\ at \in Slots /\ pc = "erase"
      /\ slots[at].id = cur.id /\ cur.id \in Ids /\ cur.id # Blank /\ slots[at] # Erased
  BY TableAssumption DEF EraseDone, OrderInv, FaultInv, TypeOK, OnItsSector, Erased
<1>2. /\ slots' = [slots EXCEPT ![at] = Erased] /\ gaps' = gaps
      /\ pc' = "prog" /\ at' = at /\ cur' = cur
  BY DEF EraseDone, Land
<1>3. slots'[at] = Erased /\ \A j \in Slots : j # at => slots'[j] = slots[j]
  BY <1>1, <1>2
<1>4. NoHoles'
  BY <1>1, <1>2, <1>3 DEF OrderInv, NoHoles
<1>5. UniqueIds'
  BY <1>1, <1>2, <1>3, TableAssumption DEF OrderInv, UniqueIds, Erased
<1>6. GapsBelow'
  BY <1>1, <1>2, <1>3 DEF OrderInv, GapsBelow
<1>7. NewcomerFits'
  <2>1. \A j \in Slots : j < at => slots'[j].id \notin {Blank, cur.id}
    BY <1>1, <1>3, LastSector DEF OrderInv, NewcomerFits
  <2>2. \A j \in Slots : at < j /\ slots'[j].id = cur.id => at \in gaps
    BY <1>1, <1>3, LastSector DEF OrderInv, UniqueIds
  <2>. QED
    BY <1>2, <2>1, <2>2 DEF NewcomerFits
<1>. QED
  BY <1>4, <1>5, <1>6, <1>7 DEF OrderInv

(* An operation on a sector that had its id ends, with that id, with bytes *)
(* nobody wrote or with a gap.                                             *)
LEMMA EndKeepsOrder ==
  ASSUME OrderInv, pc \in {"erase", "mark"}, NEW r, NEW code, Land(r, "idle", code), FaultInv',
         r.id \in {slots[at].id, Torn, Blank}
  PROVE  OrderInv'
<1>1. /\ slots \in [Slots -> Records] /\ at \in Slots /\ pc # "prog"
      /\ slots[at].id = cur.id /\ cur.id \in Ids /\ slots[at] # Erased
      /\ Torn \notin Ids /\ Blank \notin Ids
  BY TableAssumption DEF OrderInv, FaultInv, TypeOK, OnItsSector, Erased
<1>2. /\ slots' = [slots EXCEPT ![at] = r] /\ pc' = "idle"
      /\ gaps' = IF r.id = Blank THEN gaps \cup {at} ELSE gaps
  BY DEF Land
<1>3. slots'[at] = r /\ \A j \in Slots : j # at => slots'[j] = slots[j]
  BY <1>1, <1>2
<1>4. NoHoles'
  <2>. SUFFICES ASSUME NEW i \in Slots, NEW j \in Slots, i < j,
                      slots'[i].id = Blank, slots'[j] # Erased
               PROVE  i \in gaps'
    BY DEF NoHoles
  <2>1. CASE i = at
    BY <1>2, <1>3, <2>1
  <2>2. CASE i # at
    <3>1. slots[i].id = Blank /\ slots[j] # Erased
      BY <1>1, <1>3, <2>2
    <3>2. i \in gaps
      BY <1>1, <3>1 DEF OrderInv, NoHoles
    <3>. QED
      BY <1>2, <3>2
  <2>. QED
    BY <2>1, <2>2
<1>5. GapsBelow'
  <2>. SUFFICES ASSUME NEW i \in Slots, NEW g \in Slots, i < g,
                      slots'[i].id = Blank, g \in gaps'
               PROVE  i \in gaps'
    BY DEF GapsBelow
  <2>1. CASE i = at
    BY <1>2, <1>3, <2>1
  <2>2. CASE i # at
    <3>1. slots[i].id = Blank /\ (g \in gaps \/ slots[g] # Erased)
      BY <1>1, <1>2, <1>3, <2>2
    <3>2. i \in gaps
      BY <1>1, <3>1 DEF OrderInv, NoHoles, GapsBelow
    <3>. QED
      BY <1>2, <3>2
  <2>. QED
    BY <2>1, <2>2
<1>6. UniqueIds'
  <2>1. \A i \in Slots : slots'[i].id \in Ids => slots'[i].id = slots[i].id
    BY <1>1, <1>3
  <2>. QED
    BY <1>2, <2>1 DEF OrderInv, UniqueIds
<1>. QED
  BY <1>2, <1>4, <1>5, <1>6 DEF OrderInv, NewcomerFits

(* A program command ends, with the new id, with bytes nobody wrote or     *)
(* with a gap.                                                             *)
LEMMA ProgKeepsOrder ==
  ASSUME OrderInv, pc = "prog", NEW r, NEW code, Land(r, "idle", code), FaultInv',
         r.id \in {cur.id, Torn, Blank}
  PROVE  OrderInv'
<1>1. /\ slots \in [Slots -> Records] /\ at \in Slots
      /\ slots[at] = Erased /\ cur.id \in Ids /\ Torn \notin Ids /\ Blank \notin Ids
  BY TableAssumption DEF OrderInv, FaultInv, TypeOK, OnItsSector
<1>2. /\ slots' = [slots EXCEPT ![at] = r] /\ pc' = "idle"
      /\ gaps' = IF r.id = Blank THEN gaps \cup {at} ELSE gaps
  BY DEF Land
<1>3. slots'[at] = r /\ \A j \in Slots : j # at => slots'[j] = slots[j]
  BY <1>1, <1>2
<1>4. \A j \in Slots : j < at => slots[j].id # Blank /\ slots[j].id # cur.id
  BY DEF OrderInv, NewcomerFits
<1>5. NoHoles'
  <2>. SUFFICES ASSUME NEW i \in Slots, NEW j \in Slots, i < j,
                      slots'[i].id = Blank, slots'[j] # Erased
               PROVE  i \in gaps'
    BY DEF NoHoles
  <2>1. CASE i = at
    BY <1>2, <1>3, <2>1
  <2>2. CASE i # at
    <3>1. slots[i].id = Blank /\ j # at
      BY <1>3, <1>4, <2>2
    <3>2. slots[j] # Erased
      BY <1>3, <3>1
    <3>3. i \in gaps
      BY <2>2, <3>1, <3>2 DEF OrderInv, NoHoles
    <3>. QED
      BY <1>2, <3>3
  <2>. QED
    BY <2>1, <2>2
<1>6. GapsBelow'
  <2>. SUFFICES ASSUME NEW i \in Slots, NEW g \in Slots, i < g,
                      slots'[i].id = Blank, g \in gaps'
               PROVE  i \in gaps'
    BY DEF GapsBelow
  <2>1. CASE i = at
    BY <1>2, <1>3, <2>1
  <2>2. CASE i # at
    <3>1. slots[i].id = Blank /\ g # at
      BY <1>3, <1>4, <2>2
    <3>2. g \in gaps
      BY <1>2, <3>1
    <3>3. i \in gaps
      BY <2>2, <3>1, <3>2 DEF OrderInv, GapsBelow
    <3>. QED
      BY <1>2, <3>3
  <2>. QED
    BY <2>1, <2>2
<1>7. UniqueIds'
  <2>. SUFFICES ASSUME NEW i \in Slots, NEW j \in Slots, i < j,
                      slots'[i].id \in Ids, slots'[i].id = slots'[j].id
               PROVE  i \in gaps'
    BY DEF UniqueIds
  <2>1. CASE i = at
    <3>1. slots[j].id = cur.id /\ at < j
      BY <1>1, <1>3, <2>1, LastSector
    <3>2. at \in gaps
      BY <3>1 DEF OrderInv, NewcomerFits
    <3>. QED
      BY <1>2, <2>1, <3>2
  <2>2. CASE j = at
    <3>1. slots[i].id = cur.id /\ i < at
      BY <1>1, <1>3, <2>2, LastSector
    <3>. QED
      BY <1>4, <3>1
  <2>3. CASE i # at /\ j # at
    <3>1. i \in gaps
      BY <1>3, <2>3 DEF OrderInv, UniqueIds
    <3>. QED
      BY <1>2, <3>1
  <2>. QED
    BY <2>1, <2>2, <2>3
<1>. QED
  BY <1>2, <1>5, <1>6, <1>7 DEF OrderInv, NewcomerFits

LEMMA WipedInPartKeepsOrder ==
  ASSUME OrderInv, WipedInPart, FaultInv'
  PROVE  OrderInv'
<1>1. PICK s \in [Slots -> Records] : Wiped(s) /\ \A i \in Slots : Remains(s, i)
  BY WipedInPartLeaves DEF OrderInv
<1>2. slots' = s /\ pc = "wipe" /\ pc' = "idle"
  BY <1>1 DEF Wiped
<1>3. gaps' = gaps \cup {i \in Slots : slots'[i] # slots[i] /\ slots'[i].id = Blank}
  BY DEF WipedInPart
<1>4. \A i \in Slots :
        \/ slots'[i] = slots[i]
        \/ slots[i] # Erased /\ slots'[i].id \in {slots[i].id, Torn, Blank}
  BY <1>1, <1>2 DEF Remains, PartialErase
<1>5. ASSUME NEW i \in Slots, slots'[i].id = Blank PROVE i \in gaps' \/ slots[i].id = Blank
  BY <1>3, <1>5
<1>6. ASSUME NEW j \in Slots, slots'[j] # Erased \/ j \in gaps'
      PROVE  slots[j] # Erased \/ j \in gaps
  BY <1>3, <1>4, <1>6
<1>7. NoHoles' /\ GapsBelow'
  <2>1. ASSUME NEW i \in Slots, NEW j \in Slots, i < j,
              slots'[i].id = Blank, slots'[j] # Erased \/ j \in gaps'
        PROVE  i \in gaps'
    <3>1. slots[j] # Erased \/ j \in gaps
      BY <1>6, <2>1
    <3>2. slots[i].id = Blank => i \in gaps
      BY <1>2, <2>1, <3>1 DEF OrderInv, NoHoles, GapsBelow
    <3>. QED
      BY <1>3, <1>5, <2>1, <3>2
  <2>. QED
    BY <2>1 DEF NoHoles, GapsBelow
<1>8. UniqueIds'
  <2>1. \A i \in Slots : slots'[i].id \in Ids => slots'[i].id = slots[i].id
    BY <1>4, TableAssumption
  <2>. QED
    BY <1>3, <2>1 DEF OrderInv, UniqueIds
<1>. QED
  BY <1>2, <1>7, <1>8 DEF OrderInv, NewcomerFits

LEMMA ChipKeepsOrder ==
  ASSUME OrderInv, FaultInv',
         EraseDone \/ EraseFails \/ ProgDone \/ MarkDone \/ PowerCut
            \/ EraseChip \/ EraseChipDone \/ EraseChipFails \/ EraseChipCut
  PROVE  OrderInv'
<1>1. pc = "prog" => slots[at] = Erased
  BY DEF OrderInv, FaultInv, OnItsSector
<1>2. CASE EraseDone
  BY <1>2, EraseKeepsOrder
<1>3. CASE EraseFails
  <2>1. PICK r \in PartialErase(slots[at]) : Land(r, "idle", 1)
    BY <1>3 DEF EraseFails
  <2>2. pc = "erase" /\ r.id \in {slots[at].id, Torn, Blank}
    BY <1>3 DEF EraseFails, PartialErase
  <2>. QED
    BY <2>1, <2>2, EndKeepsOrder
<1>4. CASE MarkDone
  <2>1. Blocked(slots[at]).id = slots[at].id
    BY DEF Blocked
  <2>. QED
    BY <1>4, <2>1, EndKeepsOrder DEF MarkDone
<1>5. CASE ProgDone
  <2>1. pc = "prog" /\ Program(slots[at], cur).id = cur.id
    BY <1>1, <1>5 DEF ProgDone, Program, ProgramField, Erased
  <2>. QED
    BY <1>5, <2>1, ProgKeepsOrder DEF ProgDone
<1>6. CASE EraseChip
  BY <1>6, IdleKeepsOrder DEF EraseChip, Start
<1>7. CASE EraseChipDone
  BY <1>7, TableAssumption
  DEF EraseChipDone, Wiped, OrderInv, NoHoles, UniqueIds, NewcomerFits, GapsBelow, Erased
<1>8. CASE EraseChipFails \/ EraseChipCut
  BY <1>8, WipedInPartKeepsOrder DEF EraseChipFails, EraseChipCut
<1>9. CASE PowerCut
  <2>1. CASE pc = "erase"
    <3>1. PICK r \in PartialErase(slots[at]) : Land(r, "idle", 0)
      BY <1>9, <2>1 DEF PowerCut
    <3>2. r.id \in {slots[at].id, Torn, Blank}
      BY DEF PartialErase
    <3>. QED
      BY <2>1, <3>1, <3>2, EndKeepsOrder
  <2>2. CASE pc = "prog"
    <3>1. PICK r \in ProgramPrefixes(slots[at], cur) : Land(r, "idle", 0)
      BY <1>9, <2>2 DEF PowerCut
    <3>2. r.id \in {cur.id, Torn, Blank}
      BY <1>1, <2>2 DEF ProgramPrefixes, Program, ProgramField, Erased
    <3>. QED
      BY <2>2, <3>1, <3>2, ProgKeepsOrder
  <2>3. CASE pc = "mark"
    <3>1. PICK r \in {slots[at], Blocked(slots[at])} : Land(r, "idle", 0)
      BY <1>9, <2>3 DEF PowerCut
    <3>2. r.id \in {slots[at].id, Torn, Blank}
      BY <3>1 DEF Blocked
    <3>. QED
      BY <2>3, <3>1, <3>2, EndKeepsOrder
  <2>. QED
    BY <1>9, <2>1, <2>2, <2>3 DEF PowerCut
<1>. QED
  BY <1>2, <1>3, <1>4, <1>5, <1>6, <1>7, <1>8, <1>9

LEMMA OrderStep ==
  ASSUME Blank \notin Inputs, OrderInv, [Next]_vars
  PROVE  OrderInv'
<1>1. FaultInv'
  BY FaultStep DEF OrderInv
<1>2. CASE \E id \in Inputs, key \in Keys : AddFirstUser(id, key) \/ AddUser(id, key)
  BY <1>1, <1>2, RequestKeepsOrder
<1>3. ASSUME NEW id \in Inputs, UserBlock(id) PROVE OrderInv'
  <2>1. pc = "idle" /\ slots' = slots /\ gaps' = gaps /\ pc' \in {"idle", "mark"}
    BY <1>3 DEF UserBlock, Start, Return
  <2>. QED
    BY <1>1, <2>1, IdleKeepsOrder
<1>4. CASE UNCHANGED vars
  BY <1>1, <1>4 DEF OrderInv, NoHoles, UniqueIds, NewcomerFits, GapsBelow, vars
<1>. QED
  BY <1>1, <1>2, <1>3, <1>4, ChipKeepsOrder DEF Next

(* After any power cuts and failing erases the table is in order but for   *)
(* the gaps they left.                                                     *)
THEOREM OrderInvariant ==
  ASSUME Blank \notin Inputs
  PROVE  Spec => []OrderInv
<1>1. Init => OrderInv
  BY OrderInit
<1>2. OrderInv /\ [Next]_vars => OrderInv'
  BY OrderStep
<1>. QED
  BY <1>1, <1>2, PTL DEF Spec

(* After any power cuts and failing erases, erases that leave nothing but  *)
(* the id erased among them, a sector without an id has something behind   *)
(* it only when such a fault left it so.                                   *)
THEOREM NeverHoles ==
  ASSUME Blank \notin Inputs
  PROVE  Spec => []NoHoles
<1>1. OrderInv => NoHoles
  BY DEF OrderInv
<1>. QED
  BY <1>1, OrderInvariant, PTL

(* After any power cuts and failing erases a user has two records only     *)
(* when the first of them is in a sector a fault had left without an id.   *)
THEOREM IdsStayUnique ==
  ASSUME Blank \notin Inputs
  PROVE  Spec => []UniqueIds
<1>1. OrderInv => UniqueIds
  BY DEF OrderInv
<1>. QED
  BY <1>1, OrderInvariant, PTL

-----------------------------------------------------------------------------
(* The table a reader would see, in order: erased sectors after all others *)
(* and each user once.                                                     *)
Sorted(s) ==
    /\ s \in [Slots -> Records]
    /\ \A i, j \in Slots : i < j /\ s[i].id = Blank => s[j].id = Blank
    /\ \A i, j \in Slots : s[i].id \in Ids /\ s[i].id = s[j].id => i = j

(* What is programmed is a user's record that is not blocked.              *)
Asked == pc \in {"erase", "prog"} => cur.key \in Keys /\ cur.st = "OKAY"

LEMMA AskedStart == Init => Asked
  BY DEF Init, Asked

LEMMA AskedStep ==
  ASSUME Asked, [Next]_vars
  PROVE  Asked'
<1>1. ASSUME NEW id \in Inputs, NEW key \in Keys, AddFirstUser(id, key) \/ AddUser(id, key)
      PROVE  Asked'
  BY <1>1 DEF AddFirstUser, AddUser, Add, Start, Return, NewUser, Asked
<1>2. ASSUME NEW id \in Inputs, UserBlock(id) PROVE Asked'
  BY <1>2 DEF UserBlock, Start, Return, Asked
<1>3. CASE EraseDone \/ EraseFails \/ ProgDone \/ MarkDone \/ PowerCut
  BY <1>3 DEF EraseDone, EraseFails, ProgDone, MarkDone, PowerCut, Land, Asked
<1>4. CASE EraseChip \/ EraseChipDone \/ EraseChipFails \/ EraseChipCut
  BY <1>4 DEF EraseChip, EraseChipDone, EraseChipFails, EraseChipCut, WipedInPart, Wiped, Start,
              Asked
<1>5. CASE UNCHANGED vars
  BY <1>5 DEF vars, Asked
<1>. QED
  BY <1>1, <1>2, <1>3, <1>4, <1>5 DEF Next

LEMMA EffectiveSorted ==
  ASSUME OrderInv, gaps = {}
  PROVE  Sorted(Effective)
<1>1. slots \in [Slots -> Records] /\ cur \in Records /\ at \in Slots
  BY DEF OrderInv, FaultInv, TypeOK
<1>2. \A i, j \in Slots : slots[i].id \in Ids /\ slots[i].id = slots[j].id => i = j
  BY LastSector DEF OrderInv, UniqueIds
<1>3. \A j \in Slots : slots[j] = Erased => slots[j].id = Blank
  BY DEF Erased
<1>4. CASE pc # "prog"
  BY <1>1, <1>2, <1>3, <1>4 DEF Effective, Sorted, OrderInv, NoHoles
<1>5. CASE pc = "prog"
  <2>1. /\ Effective = [slots EXCEPT ![at] = cur] /\ slots[at].id = Blank
        /\ cur.id \in Ids /\ cur.id # Blank
    BY <1>5, TableAssumption DEF Effective, OrderInv, FaultInv, OnItsSector, Erased
  <2>2. \A j \in Slots : (j < at => slots[j].id # Blank) /\ slots[j].id # cur.id
    <3>1. \A j \in Slots : j < at => slots[j].id \notin {Blank, cur.id}
      BY <1>5 DEF OrderInv, NewcomerFits
    <3>2. \A j \in Slots : at < j => slots[j].id # cur.id
      BY <1>5 DEF OrderInv, NewcomerFits
    <3>. QED
      BY <1>1, <2>1, <3>1, <3>2, LastSector
  <2>3. Effective[at] = cur /\ \A j \in Slots : j # at => Effective[j] = slots[j]
    BY <1>1, <2>1
  <2>4. Effective \in [Slots -> Records]
    BY <1>1, <2>1
  <2>5. ASSUME NEW i \in Slots, NEW j \in Slots, i < j, Effective[i].id = Blank
        PROVE  Effective[j].id = Blank
    <3>1. i # at /\ slots[i].id = Blank
      BY <2>1, <2>3, <2>5
    <3>2. j # at
      BY <2>2, <2>5, <3>1
    <3>3. slots[j] = Erased
      BY <2>5, <3>1 DEF OrderInv, NoHoles
    <3>. QED
      BY <1>3, <2>3, <3>2, <3>3
  <2>6. ASSUME NEW i \in Slots, NEW j \in Slots,
               Effective[i].id \in Ids, Effective[i].id = Effective[j].id
        PROVE  i = j
    BY <1>2, <2>2, <2>3, <2>6
  <2>. QED
    BY <2>4, <2>5, <2>6 DEF Sorted
<1>. QED
  BY <1>4, <1>5

(* The search finds a user of such a table where it is, and no other.      *)
LEMMA SearchFinds ==
  ASSUME NEW s, Sorted(s), NEW id \in Ids, NEW i \in Slots, s[i].id = id
  PROVE  Found(s, id) /\ UserOf(s, id) = s[i]
<1>1. ASSUME NEW j \in 0 .. (i - 1) PROVE s[j].id \notin {id, Blank}
  <2>1. j \in Slots /\ j < i /\ i # j
    BY TableAssumption DEF Slots
  <2>. QED
    BY <2>1, TableAssumption DEF Sorted
<1>2. FoundAt(s, id, i)
  BY <1>1 DEF FoundAt, ScanEnds
<1>3. \A j \in Slots : FoundAt(s, id, j) => j = i
  BY DEF FoundAt, Sorted
<1>4. (CHOOSE j \in Slots : FoundAt(s, id, j)) = i
  BY <1>2, <1>3
<1>. QED
  BY <1>2, <1>4 DEF Found, UserOf

Missing == [key |-> "none", st |-> "ABSENT"]

LEMMA EntryIs ==
  ASSUME NEW s, Sorted(s), NEW id \in Ids
  PROVE  /\ \A i \in Slots : s[i].id = id => EntryOf(s, id) = [key |-> s[i].key, st |-> s[i].st]
         /\ (\A i \in Slots : s[i].id # id) => EntryOf(s, id) = Missing /\ ~Found(s, id)
<1>1. ASSUME NEW i \in Slots, s[i].id = id PROVE EntryOf(s, id) = [key |-> s[i].key, st |-> s[i].st]
  BY <1>1, SearchFinds DEF EntryOf
<1>2. ASSUME \A i \in Slots : s[i].id # id PROVE EntryOf(s, id) = Missing /\ ~Found(s, id)
  BY <1>2 DEF Found, FoundAt, EntryOf, Missing
<1>. QED
  BY <1>1, <1>2

(* Table t is s with the record u in sector k.                             *)
Written(s, t, k, u) ==
    /\ Sorted(s) /\ Sorted(t) /\ k \in Slots
    /\ t = [s EXCEPT ![k] = u]

(* A sector that is not one of id, before or after, does not matter to it. *)
LEMMA OtherEntries ==
  ASSUME NEW s, NEW t, NEW k, NEW u, Written(s, t, k, u), NEW id \in Ids, s[k].id # id, u.id # id
  PROVE  EntryOf(t, id) = EntryOf(s, id)
<1>0. Sorted(s) /\ Sorted(t) /\ k \in Slots
  BY DEF Written
<1>1. t[k] = u /\ \A j \in Slots : j # k => t[j] = s[j]
  BY DEF Sorted, Written
<1>2. CASE \E i \in Slots : s[i].id = id
  <2>1. PICK i \in Slots : s[i].id = id
    BY <1>2
  <2>2. i # k /\ t[i] = s[i]
    BY <1>1, <2>1
  <2>3. EntryOf(s, id) = [key |-> s[i].key, st |-> s[i].st]
    BY <1>0, <2>1, EntryIs
  <2>4. EntryOf(t, id) = [key |-> t[i].key, st |-> t[i].st]
    BY <1>0, <2>1, <2>2, EntryIs
  <2>. QED
    BY <2>2, <2>3, <2>4
<1>3. CASE \A i \in Slots : s[i].id # id
  <2>1. \A i \in Slots : t[i].id # id
    BY <1>1, <1>3
  <2>2. EntryOf(s, id) = Missing
    BY <1>0, <1>3, EntryIs
  <2>3. EntryOf(t, id) = Missing
    BY <1>0, <2>1, EntryIs
  <2>. QED
    BY <2>2, <2>3
<1>. QED
  BY <1>2, <1>3

(* Writing a sector of one user, or a free one, leaves the others alone.   *)
LEMMA OthersKept ==
  ASSUME NEW s, NEW t, NEW k, NEW u, Written(s, t, k, u),
         NEW id, s[k].id \in {id, Blank}, u.id \in {id, Torn}
  PROVE  \A d \in Ids : d # id => EntryOf(t, d) = EntryOf(s, d)
<1>1. ASSUME NEW d \in Ids, d # id PROVE EntryOf(t, d) = EntryOf(s, d)
  <2>1. s[k].id # d /\ u.id # d
    BY <1>1, TableAssumption
  <2>. QED
    BY <2>1, OtherEntries
<1>. QED
  BY <1>1

-----------------------------------------------------------------------------
(* What a step does to the table a reader would see.                       *)
Adds ==
    /\ pc = "idle" /\ pc' = "prog" /\ cur'.id \in Ids /\ cur'.key \in Keys /\ cur'.st = "OKAY"
    /\ at' \in Slots /\ at' < UsersMax /\ Effective[at'] = Erased
    /\ Effective' = [Effective EXCEPT ![at'] = cur']

Replaces ==
    /\ pc = "erase" /\ Effective[at].id = cur.id /\ cur.id \in Ids /\ cur.key \in Keys
    /\ cur.st = "OKAY" /\ at \in Slots
    /\ Effective' = [Effective EXCEPT ![at] = cur]

Faulty == MaxEraseFails + MaxCuts > 0

Spoils ==
    /\ Faulty
    /\ \E k \in Slots : \E r \in Records :
          /\ Effective' = [Effective EXCEPT ![k] = r]
          /\ r.id \in {Effective[k].id, Torn}
          /\ \/ pc = "wipe"
             \/ pc = "erase" /\ cur.id = Effective[k].id
             \/ Effective[k].st = "OKAY"

Blocks ==
    /\ pc = "mark" /\ Effective[at].id = cur.id /\ cur.id \in Ids /\ at \in Slots
    /\ Effective' = [Effective EXCEPT ![at] = Blocked(Effective[at])]

Wipes == pc = "wipe" /\ Effective' = [i \in Slots |-> Erased]

(* Users vanish, and one record at most is another than before.            *)
Fades ==
    /\ Faulty
    /\ \E k \in Slots : \A i \in Slots :
          Effective'[i].id \in Ids =>
             /\ Effective'[i].id = Effective[i].id
             /\ i # k => Effective'[i] = Effective[i]

LEMMA AddAdds ==
  ASSUME Asked', pc = "idle", NEW u \in Records, u.id \in Ids, Add(u)
  PROVE  Effective' = Effective \/ Adds
<1>0. Effective = slots
  BY DEF Effective
<1>1. PICK n \in Slots :
        /\ CountIs(slots, n)
        /\ \/ n >= UsersMax /\ Return(1)
           \/ n < UsersMax /\ slots[n] # Erased /\ Return(2)
           \/ n < UsersMax /\ slots[n] = Erased /\ Start("prog", u, n)
  BY DEF Add
<1>2. CASE Return(1) \/ Return(2)
  BY <1>0, <1>2 DEF Return, Effective
<1>3. CASE n < UsersMax /\ slots[n] = Erased /\ Start("prog", u, n)
  <2>1. slots' = slots /\ pc' = "prog" /\ at' = n /\ cur' = u
    BY <1>3 DEF Start
  <2>2. Effective' = [slots EXCEPT ![n] = u]
    BY <2>1 DEF Effective
  <2>. QED
    BY <1>0, <1>3, <2>1, <2>2 DEF Adds, Asked
<1>. QED
  BY <1>1, <1>2, <1>3

(* A command lands and the operation ends.                                 *)
LEMMA LandEffect ==
  ASSUME OrderInv, NEW r, NEW code, Land(r, "idle", code)
  PROVE  Effective' = [Effective EXCEPT ![at] = r]
  BY DEF OrderInv, FaultInv, TypeOK, Land, Effective

LEMMA LandGaps ==
  ASSUME NEW r, NEW c, NEW code, Land(r, c, code)
  PROVE  gaps \subseteq gaps' /\ (gaps' = gaps \/ (r.id = Blank /\ c = "idle"))
  BY DEF Land

LEMMA WipedInPartEffect ==
  ASSUME OrderInv, OrderInv', WipedInPart, Faulty
  PROVE  /\ gaps \subseteq gaps'
         /\ gaps' = {} => Effective' = Effective \/ Spoils
         /\ Fades
<1>1. PICK s \in [Slots -> Records] :
        /\ Wiped(s)
        /\ \A i \in Slots : Remains(s, i)
        /\ \E g \in Slots : \A i \in Slots \ {g} : s[i] \in {slots[i], Erased}
  BY WipedInPartLeaves DEF OrderInv
<1>2. PICK g \in Slots : \A i \in Slots \ {g} : s[i] \in {slots[i], Erased}
  BY <1>1
<1>3. /\ slots' = s /\ pc = "wipe" /\ pc' = "idle"
      /\ Effective = slots /\ Effective' = s
      /\ slots \in [Slots -> Records]
  BY <1>1 DEF Wiped, Effective, OrderInv, FaultInv, TypeOK
<1>4. gaps' = gaps \cup {i \in Slots : s[i] # slots[i] /\ s[i].id = Blank}
  BY <1>3 DEF WipedInPart
<1>5. Blank \notin Ids /\ Torn \notin Ids /\ Erased.id = Blank
  BY TableAssumption DEF Erased
<1>6. \A i \in Slots : s[i] = slots[i] \/ s[i].id \in {slots[i].id, Torn, Blank}
  BY <1>1 DEF Remains, PartialErase
<1>7. ASSUME gaps' = {} PROVE Effective' = Effective \/ Spoils
  <2>1. \A i \in Slots : s[i] # slots[i] => s[i].id # Blank
    BY <1>4, <1>7
  <2>2. \A i \in Slots \ {g} : s[i] = slots[i]
    BY <1>2, <1>5, <2>1
  <2>3. s = [slots EXCEPT ![g] = s[g]]
    BY <1>3, <2>2
  <2>4. s[g] = slots[g] => s = slots
    BY <1>3, <2>3
  <2>5. s[g] # slots[g] => s[g].id \in {slots[g].id, Torn}
    BY <1>6, <2>1
  <2>6. s[g] \in Records
    BY <1>1
  <2>. QED
    BY <1>3, <2>3, <2>4, <2>5, <2>6 DEF Spoils
<1>8. Fades
  <2>1. ASSUME NEW i \in Slots, s[i].id \in Ids
        PROVE  s[i].id = slots[i].id /\ (i # g => s[i] = slots[i])
    BY <1>2, <1>5, <1>6, <2>1
  <2>. QED
    BY <1>3, <2>1 DEF Fades
<1>. QED
  BY <1>4, <1>7, <1>8

(* What a failing or interrupted command on one sector does.               *)
LEMMA SectorFault ==
  ASSUME OrderInv, Asked, pc \in {"erase", "prog"}, Faulty,
         NEW r \in Records, NEW code, Land(r, "idle", code),
         r.id \in {cur.id, Torn, Blank}
  PROVE  /\ gaps' = {} => Spoils
         /\ Fades
<1>1. Effective' = [Effective EXCEPT ![at] = r]
  BY LandEffect
<1>2. /\ at \in Slots /\ Effective \in [Slots -> Records] /\ Effective[at].id = cur.id
      /\ pc = "prog" => Effective[at].st = "OKAY"
      /\ Blank \notin Ids /\ Torn \notin Ids
  BY TableAssumption DEF OrderInv, FaultInv, TypeOK, OnItsSector, Effective, Asked
<1>3. gaps' = {} => r.id # Blank
  BY <1>2 DEF Land
<1>4. ASSUME gaps' = {} PROVE Spoils
  BY <1>1, <1>2, <1>3, <1>4 DEF Spoils
<1>5. Effective'[at] = r /\ \A i \in Slots : i # at => Effective'[i] = Effective[i]
  BY <1>1, <1>2
<1>6. Fades
  BY <1>2, <1>5 DEF Fades
<1>. QED
  BY <1>4, <1>6

LEMMA CutEffect ==
  ASSUME OrderInv, Asked, PowerCut
  PROVE  /\ gaps \subseteq gaps'
         /\ gaps' = {} => Effective' = Effective \/ Spoils \/ Blocks
         /\ gaps = {} /\ gaps' # {} => Fades
<1>0. /\ slots \in [Slots -> Records] /\ at \in Slots /\ cur \in Records
      /\ cuts < MaxCuts /\ cuts \in Nat /\ MaxCuts \in Nat /\ MaxEraseFails \in Nat
      /\ slots[at] \in Records
  BY InputAssumption DEF PowerCut, OrderInv, FaultInv, TypeOK
<1>1. Faulty
  BY <1>0 DEF Faulty
<1>2. CASE pc = "erase"
  <2>1. PICK r \in PartialErase(slots[at]) : Land(r, "idle", 0)
    BY <1>2 DEF PowerCut
  <2>2. r \in Records /\ r.id \in {slots[at].id, Torn, Blank} /\ slots[at].id = cur.id
    BY <1>0, <1>2, PartialEraseType DEF PartialErase, OrderInv, FaultInv, OnItsSector
  <2>3. gaps \subseteq gaps'
    BY <2>1, LandGaps
  <2>. QED
    BY <1>1, <1>2, <2>1, <2>2, <2>3, SectorFault
<1>3. CASE pc = "prog"
  <2>1. PICK r \in ProgramPrefixes(slots[at], cur) : Land(r, "idle", 0)
    BY <1>3 DEF PowerCut
  <2>2. r \in Records
    BY <1>0, PrefixesType
  <2>3. r.id \in {cur.id, Torn, Blank}
    BY <1>3 DEF ProgramPrefixes, Program, ProgramField, Erased, OrderInv, FaultInv, OnItsSector
  <2>4. gaps \subseteq gaps'
    BY <2>1, LandGaps
  <2>. QED
    BY <1>1, <1>3, <2>1, <2>2, <2>3, <2>4, SectorFault
<1>4. CASE pc = "mark"
  <2>1. PICK r \in {slots[at], Blocked(slots[at])} : Land(r, "idle", 0)
    BY <1>4 DEF PowerCut
  <2>2. slots[at].id = cur.id /\ cur.id \in Ids /\ Effective = slots
    BY <1>4 DEF Effective, OrderInv, FaultInv, OnItsSector
  <2>3. r.id # Blank
    BY <2>1, <2>2, TableAssumption DEF Blocked
  <2>4. gaps' = gaps
    BY <2>1, <2>3, LandGaps
  <2>5. Effective' = [Effective EXCEPT ![at] = r]
    BY <2>1, LandEffect
  <2>6. r = slots[at] => Effective' = Effective
    BY <1>0, <2>2, <2>5
  <2>. QED
    BY <1>0, <1>4, <2>1, <2>2, <2>4, <2>5, <2>6 DEF Blocks
<1>. QED
  BY <1>2, <1>3, <1>4 DEF PowerCut

(* The steps of the table: no gap or the same gaps afterwards, or a fault  *)
(* that makes users vanish.                                                *)
StepIs ==
    /\ gaps = {} /\ gaps' = {} =>
          Effective' = Effective \/ Adds \/ Replaces \/ Spoils \/ Blocks \/ Wipes
    /\ gaps = {} /\ gaps' # {} => Fades
    /\ gaps # {} /\ gaps' = {} => Wipes

LEMMA TableStep ==
  ASSUME OrderInv, OrderInv', Asked, Asked', [Next]_vars, Blank \notin Inputs
  PROVE  StepIs
<1>0. /\ slots \in [Slots -> Records] /\ at \in Slots /\ cur \in Records
      /\ slots[at] \in Records
      /\ cuts \in Nat /\ fails \in Nat /\ MaxCuts \in Nat /\ MaxEraseFails \in Nat
  BY InputAssumption DEF OrderInv, FaultInv, TypeOK
<1>1. pc # "prog" => Effective = slots
  BY DEF Effective
<1>2. ASSUME NEW id \in Inputs, NEW key \in Keys, AddFirstUser(id, key) \/ AddUser(id, key)
      PROVE  StepIs
  <2>. DEFINE u == NewUser(id, key)
  <2>1. pc = "idle" /\ u.id \in Ids /\ u \in Records
    BY <1>2, InputAssumption, NewUserType DEF AddFirstUser, AddUser
  <2>2. gaps' = gaps
    BY <1>2 DEF AddFirstUser, AddUser, Add, Return, Start
  <2>3. CASE Add(u)
    BY <2>1, <2>2, <2>3, AddAdds DEF StepIs
  <2>4. CASE \E i \in Slots : Start("erase", u, i)
    BY <1>1, <2>1, <2>2, <2>4 DEF Start, Effective, StepIs
  <2>. QED
    BY <1>2, <2>3, <2>4 DEF AddFirstUser, AddUser
<1>3. ASSUME NEW id \in Inputs, UserBlock(id) PROVE StepIs
  BY <1>1, <1>3 DEF UserBlock, Start, Return, Effective, StepIs
<1>4. CASE EraseDone
  <2>1. /\ pc = "erase" /\ pc' = "prog" /\ slots' = [slots EXCEPT ![at] = Erased]
        /\ at' = at /\ cur' = cur /\ gaps' = gaps
    BY <1>4 DEF EraseDone, Land
  <2>2. Effective' = [slots EXCEPT ![at] = cur]
    BY <1>0, <2>1 DEF Effective
  <2>3. Replaces
    BY <1>0, <1>1, <2>1, <2>2 DEF Replaces, Asked, OrderInv, FaultInv, OnItsSector
  <2>. QED
    BY <2>1, <2>3 DEF StepIs
<1>5. CASE EraseFails
  <2>1. PICK r \in PartialErase(slots[at]) : Land(r, "idle", 1)
    BY <1>5 DEF EraseFails
  <2>2. pc = "erase" /\ Faulty
    BY <1>0, <1>5 DEF EraseFails, Faulty
  <2>3. r \in Records /\ r.id \in {slots[at].id, Torn, Blank} /\ slots[at].id = cur.id
    BY <1>0, <2>2, PartialEraseType DEF PartialErase, OrderInv, FaultInv, OnItsSector
  <2>4. gaps \subseteq gaps'
    BY <2>1, LandGaps
  <2>. QED
    BY <2>1, <2>2, <2>3, <2>4, SectorFault DEF StepIs
<1>6. CASE ProgDone
  <2>1. /\ pc = "prog" /\ pc' = "idle" /\ slots' = [slots EXCEPT ![at] = Program(slots[at], cur)]
        /\ slots[at] = Erased /\ cur.id # Blank
    BY <1>6, TableAssumption DEF ProgDone, Land, OrderInv, FaultInv, OnItsSector
  <2>2. Program(Erased, cur) = [id |-> cur.id, key |-> cur.key, st |-> "OKAY"]
    BY <2>1 DEF Program, ProgramField, Erased, Asked
  <2>3. cur = [id |-> cur.id, key |-> cur.key, st |-> "OKAY"]
    BY <1>0, <2>1 DEF Records, Asked
  <2>4. gaps' = gaps
    BY <1>6, <2>1, <2>2 DEF ProgDone, Land
  <2>. QED
    BY <2>1, <2>2, <2>3, <2>4 DEF Effective, StepIs
<1>7. CASE MarkDone
  <2>1. /\ pc = "mark" /\ pc' = "idle" /\ slots' = [slots EXCEPT ![at] = Blocked(slots[at])]
        /\ slots[at].id = cur.id /\ cur.id \in Ids
    BY <1>7 DEF MarkDone, Land, OrderInv, FaultInv, OnItsSector
  <2>2. Effective' = [slots EXCEPT ![at] = Blocked(slots[at])]
    BY <2>1 DEF Effective
  <2>3. gaps' = gaps
    BY <1>7, <2>1, TableAssumption DEF MarkDone, Land, Blocked
  <2>. QED
    BY <1>0, <1>1, <2>1, <2>2, <2>3 DEF Blocks, StepIs
<1>8. CASE EraseChip
  BY <1>1, <1>8 DEF EraseChip, Start, Effective, StepIs
<1>9. CASE EraseChipDone
  BY <1>9 DEF EraseChipDone, Wiped, Wipes, Effective, StepIs
<1>10. CASE EraseChipFails \/ EraseChipCut
  <2>1. WipedInPart /\ Faulty
    BY <1>0, <1>10 DEF EraseChipFails, EraseChipCut, Faulty
  <2>. QED
    BY <2>1, WipedInPartEffect DEF StepIs
<1>11. CASE PowerCut
  BY <1>11, CutEffect DEF StepIs
<1>12. CASE UNCHANGED vars
  BY <1>12 DEF vars, Effective, StepIs
<1>. QED
  BY <1>2, <1>3, <1>4, <1>5, <1>6, <1>7, <1>8, <1>9, <1>10, <1>11, <1>12 DEF Next

-----------------------------------------------------------------------------
(* The directory.  Sector k gets the record r of the user id.              *)
LEMMA OneEntry ==
  ASSUME Sorted(Effective), Sorted(Effective'), NEW k \in Slots, NEW r, NEW id \in Ids,
         Effective' = [Effective EXCEPT ![k] = r], r.id = id,
         Effective[k].id \in {id, Blank}
  PROVE  Dir' = [Dir EXCEPT ![id] = [key |-> r.key, st |-> r.st]]
<1>1. Effective'[k] = r
  BY DEF Sorted
<1>2. EntryOf(Effective', id) = [key |-> r.key, st |-> r.st]
  BY <1>1, EntryIs
<1>3. \A d \in Ids : d # id => EntryOf(Effective', d) = EntryOf(Effective, d)
  <2>1. Written(Effective, Effective', k, r) /\ r.id \in {id, Torn}
    BY DEF Written
  <2>. QED
    BY <2>1, OthersKept
<1>. QED
  BY <1>2, <1>3 DEF Dir

LEMMA PresentIs ==
  ASSUME Sorted(Effective), NEW id \in Ids
  PROVE  id \in Directory!Present <=> \E i \in Slots : Effective[i].id = id
<1>1. id \in Directory!Present <=> EntryOf(Effective, id) # Missing
  BY DEF Directory!Present, Directory!Absent, Missing, Dir
<1>2. ASSUME NEW i \in Slots, Effective[i].id = id PROVE EntryOf(Effective, id) # Missing
  <2>1. EntryOf(Effective, id).st = Effective[i].st
    BY <1>2, EntryIs
  <2>2. Effective[i].st # "ABSENT"
    BY DEF Sorted, Records
  <2>. QED
    BY <2>1, <2>2 DEF Missing
<1>3. (\A i \in Slots : Effective[i].id # id) => EntryOf(Effective, id) = Missing
  BY EntryIs
<1>. QED
  BY <1>1, <1>2, <1>3

(* A table with a free sector n has room in the directory: its users have  *)
(* sectors of their own below n.                                           *)
LEMMA RoomFor ==
  ASSUME Sorted(Effective), NEW n \in Slots, n < UsersMax, Effective[n] = Erased
  PROVE  Cardinality(Directory!Present) < UsersMax
<1>. DEFINE P == Directory!Present
            S == 0 .. (n - 1)
            f == [id \in P |-> CHOOSE i \in S : Effective[i].id = id]
<1>0. n \in Nat /\ UsersMax \in Nat
  BY TableAssumption DEF Slots
<1>1. ASSUME NEW id \in P PROVE \E i \in S : Effective[i].id = id
  <2>1. id \in Ids
    BY DEF Directory!Present
  <2>2. PICK i \in Slots : Effective[i].id = id
    BY <2>1, PresentIs
  <2>3. Effective[n].id = Blank /\ id # Blank
    BY <2>1, TableAssumption DEF Erased
  <2>4. ~(n < i) /\ i # n
    BY <2>1, <2>2, <2>3 DEF Sorted
  <2>5. i \in S
    BY <1>0, <2>4 DEF Slots
  <2>. QED
    BY <2>2, <2>5
<1>2. \A id \in P : f[id] \in S /\ Effective[f[id]].id = id
  BY <1>1
<1>3. f \in Injection(P, S)
  <2>1. f \in [P -> S]
    BY <1>2
  <2>2. \A a, b \in DOMAIN f : f[a] = f[b] => a = b
    BY <1>2
  <2>. HIDE DEF f
  <2>. QED
    BY <2>1, <2>2 DEF Injection, IsInjective
<1>4. IsFiniteSet(S) /\ Cardinality(S) <= n
  <2>1. IsFiniteSet(S) /\ Cardinality(S) = IF 0 > n - 1 THEN 0 ELSE n - 1 - 0 + 1
    BY <1>0, FS_Interval
  <2>. QED
    BY <1>0, <2>1
<1>. HIDE DEF P, S, f
<1>5. IsFiniteSet(P) /\ Cardinality(P) <= Cardinality(S)
  BY <1>3, <1>4, FS_Injection
<1>6. Cardinality(P) \in Nat /\ Cardinality(S) \in Nat
  BY <1>4, <1>5, FS_CardinalityType
<1>. QED
  BY <1>0, <1>4, <1>5, <1>6 DEF P

LEMMA WipesClears ==
  ASSUME Wipes
  PROVE  \A id \in Ids : Dir'[id] = Missing
<1>1. \A i \in Slots : Effective'[i].id = Blank
  BY DEF Wipes, Erased
<1>2. \A id \in Ids : ~Found(Effective', id)
  BY <1>1, TableAssumption DEF Found, FoundAt
<1>. QED
  BY <1>2 DEF EntryOf, Missing, Dir

LEMMA DirectoryStep ==
  ASSUME Sorted(Effective), Sorted(Effective'), gaps = {}, gaps' = {},
         Effective' = Effective \/ Adds \/ Replaces \/ Spoils \/ Blocks \/ Wipes
  PROVE  Directory!Next \/ Dir' = Dir
<1>1. CASE Effective' = Effective
  BY <1>1 DEF Dir
<1>2. CASE Adds
  <2>1. Effective[at'].id = Blank
    BY <1>2 DEF Adds, Erased
  <2>2. Dir' = [Dir EXCEPT ![cur'.id] = [key |-> cur'.key, st |-> "OKAY"]]
    BY <1>2, <2>1, OneEntry DEF Adds
  <2>3. Cardinality(Directory!Present) < UsersMax
    BY <1>2, RoomFor DEF Adds
  <2>4. Directory!Put(cur'.id, cur'.key)
    <3>1. Directory!Cardinality(Directory!Present) = Cardinality(Directory!Present)
      BY DEF Directory!Cardinality, Cardinality
    <3>. QED
      BY <2>2, <2>3, <3>1 DEF Directory!Put
  <2>. QED
    BY <1>2, <2>4 DEF Directory!Next, Adds
<1>3. CASE Replaces
  <2>1. Dir' = [Dir EXCEPT ![cur.id] = [key |-> cur.key, st |-> "OKAY"]]
    BY <1>3, OneEntry DEF Replaces
  <2>2. cur.id \in Directory!Present
    BY <1>3, PresentIs DEF Replaces
  <2>3. Directory!Put(cur.id, cur.key)
    BY <2>1, <2>2 DEF Directory!Put
  <2>. QED
    BY <1>3, <2>3 DEF Directory!Next, Replaces
<1>4. CASE Spoils
  <2>1. PICK k \in Slots : \E r \in Records :
            Effective' = [Effective EXCEPT ![k] = r] /\ r.id \in {Effective[k].id, Torn}
    BY <1>4 DEF Spoils
  <2>2. PICK r \in Records :
            Effective' = [Effective EXCEPT ![k] = r] /\ r.id \in {Effective[k].id, Torn}
    BY <2>1
  <2>3. Written(Effective, Effective', k, r)
    BY <2>2 DEF Written
  <2>. DEFINE id == Effective[k].id
  <2>4. \A d \in Ids : d # id => EntryOf(Effective', d) = EntryOf(Effective, d)
    BY <2>2, <2>3, OthersKept
  <2>5. CASE id \in Ids
    <3>1. Dir' = [Dir EXCEPT ![id] = Dir'[id]]
      BY <2>4, <2>5 DEF Dir
    <3>2. id \in Directory!Present
      BY <2>5, PresentIs
    <3>3. Directory!Spoil(id)
      BY <1>4, <3>1, <3>2 DEF Directory!Spoil, Spoils, Faulty
    <3>. QED
      BY <2>5, <3>3 DEF Directory!Next
  <2>6. CASE id \notin Ids
    BY <2>4, <2>6 DEF Dir
  <2>. QED
    BY <2>5, <2>6
<1>5. CASE Blocks
  <2>. DEFINE r == Effective[at]
  <2>1. /\ Blocked(r).id = cur.id /\ Blocked(r).key = r.key /\ Blocked(r).st = "BLOCKED"
        /\ at \in Slots /\ r.id = cur.id /\ cur.id \in Ids
        /\ Effective' = [Effective EXCEPT ![at] = Blocked(r)]
    BY <1>5 DEF Blocks, Blocked
  <2>2. Dir' = [Dir EXCEPT ![cur.id] = [key |-> Blocked(r).key, st |-> Blocked(r).st]]
    BY <2>1, OneEntry
  <2>3. Dir[cur.id] = [key |-> r.key, st |-> r.st]
    BY <2>1, EntryIs DEF Dir
  <2>4. [Dir[cur.id] EXCEPT !.st = "BLOCKED"] = [key |-> r.key, st |-> "BLOCKED"]
    BY <2>3
  <2>5. Dir' = [Dir EXCEPT ![cur.id] = [Dir[cur.id] EXCEPT !.st = "BLOCKED"]]
    BY <2>1, <2>2, <2>4
  <2>6. [Dir EXCEPT ![cur.id].st = "BLOCKED"]
        = [Dir EXCEPT ![cur.id] = [Dir[cur.id] EXCEPT !.st = "BLOCKED"]]
    BY DEF Dir
  <2>7. Directory!Block(cur.id)
    BY <2>1, <2>5, <2>6, PresentIs DEF Directory!Block
  <2>. QED
    BY <2>1, <2>7 DEF Directory!Next
<1>6. CASE Wipes
  <2>1. Directory!Clear
    BY <1>6, WipesClears DEF Directory!Clear, Directory!Absent, Missing, Dir
  <2>. QED
    BY <2>1 DEF Directory!Next
<1>. QED
  BY <1>1, <1>2, <1>3, <1>4, <1>5, <1>6

(* A user that is found in a table that has faded is found as it was.      *)
LEMMA FadesToAbsent ==
  ASSUME Sorted(Effective), NEW k \in Slots,
         \A i \in Slots :
            Effective'[i].id \in Ids =>
               /\ Effective'[i].id = Effective[i].id
               /\ i # k => Effective'[i] = Effective[i],
         NEW id \in Ids, id # Effective[k].id
  PROVE  EntryOf(Effective', id) \in {EntryOf(Effective, id), Missing}
<1>1. CASE ~Found(Effective', id)
  BY <1>1 DEF EntryOf, Missing
<1>2. CASE Found(Effective', id)
  <2>. DEFINE i == CHOOSE j \in Slots : FoundAt(Effective', id, j)
  <2>1. i \in Slots /\ Effective'[i].id = id
    BY <1>2 DEF Found, FoundAt
  <2>2. UserOf(Effective', id) = Effective'[i]
    BY DEF UserOf
  <2>. HIDE DEF i
  <2>3. Effective[i].id = id /\ i # k
    BY <2>1
  <2>4. Effective'[i] = Effective[i]
    BY <2>1, <2>3
  <2>5. EntryOf(Effective, id) = [key |-> Effective[i].key, st |-> Effective[i].st]
    BY <2>1, <2>3, EntryIs
  <2>. QED
    BY <1>2, <2>2, <2>4, <2>5 DEF EntryOf
<1>. QED
  BY <1>1, <1>2

LEMMA VanishStep ==
  ASSUME Sorted(Effective), gaps = {}, gaps' # {}, Fades
  PROVE  Directory!Vanish
<1>1. PICK k \in Slots : \A i \in Slots :
          Effective'[i].id \in Ids =>
             /\ Effective'[i].id = Effective[i].id
             /\ i # k => Effective'[i] = Effective[i]
  BY DEF Fades
<1>2. \A id \in Ids : id # Effective[k].id => Dir'[id] \in {Dir[id], Missing}
  BY <1>1, FadesToAbsent DEF Dir
<1>. QED
  BY <1>2 DEF Directory!Vanish, Directory!Absent, Missing, Fades, Faulty

(* With its erase and program steps, any number of failing erases and      *)
(* power cuts at any of those steps, the table implements a map that       *)
(* changes in single steps and has room for UsersMax users, in which a     *)
(* fault spoils one user, and in which users vanish only when a fault      *)
(* leaves a sector without an id.                                          *)
THEOREM DirectoryTheorem ==
  ASSUME Blank \notin Inputs
  PROVE  Spec => ImplementsDirectory
<1>1. Init => Directory!Init
  <2>. SUFFICES ASSUME Init PROVE Directory!Init
    OBVIOUS
  <2>1. \A i \in Slots : Effective[i].id = Blank
    BY DEF Init, Effective, Erased
  <2>2. \A id \in Ids : ~Found(Effective, id)
    BY <2>1, TableAssumption DEF Found, FoundAt
  <2>3. gaps = {}
    BY DEF Init
  <2>. QED
    BY <2>2, <2>3 DEF Directory!Init, Directory!Absent, EntryOf, Dir
<1>2. Asked /\ [Next]_vars => Asked'
  BY AskedStep
<1>3. OrderInv => (gaps = {} => Sorted(Effective))
  BY EffectiveSorted
<1>4. /\ OrderInv /\ OrderInv' /\ Asked /\ Asked' /\ [Next]_vars
      /\ (gaps = {} => Sorted(Effective)) /\ (gaps = {} => Sorted(Effective))'
      => [Directory!Next]_<<Dir, gaps = {}>>
  <2>. SUFFICES ASSUME OrderInv, OrderInv', Asked, Asked', [Next]_vars,
                      gaps = {} => Sorted(Effective), gaps' = {} => Sorted(Effective')
               PROVE  [Directory!Next]_<<Dir, gaps = {}>>
    OBVIOUS
  <2>1. StepIs
    BY TableStep
  <2>2. CASE gaps = {} /\ gaps' = {}
    BY <2>1, <2>2, DirectoryStep DEF StepIs
  <2>3. CASE gaps = {} /\ gaps' # {}
    BY <2>1, <2>3, VanishStep DEF StepIs, Directory!Next
  <2>4. CASE gaps # {} /\ gaps' # {}
    BY <2>4 DEF Directory!Next, Directory!Astray
  <2>5. CASE gaps # {} /\ gaps' = {}
    <3>1. \A id \in Ids : Dir'[id] = Missing
      BY <2>1, <2>5, WipesClears DEF StepIs
    <3>2. Dir' = [id \in Ids |-> Missing]
      BY <3>1 DEF Dir
    <3>. QED
      BY <2>5, <3>2 DEF Directory!Next, Directory!Clear, Directory!Absent, Missing
  <2>. QED
    BY <2>2, <2>3, <2>4, <2>5
<1>. QED
  BY AskedStart, OrderInvariant, <1>1, <1>2, <1>3, <1>4, PTL
  DEF Spec, ImplementsDirectory, Directory!Spec

-----------------------------------------------------------------------------
BlockedNow(id) == Found(Effective, id) /\ UserOf(Effective, id).st = "BLOCKED"

LEMMA BlockedStep ==
  ASSUME Sorted(Effective), Sorted(Effective'),
         Effective' = Effective \/ Adds \/ Replaces \/ Spoils \/ Blocks \/ Wipes,
         NEW id \in Ids, BlockedNow(id)
  PROVE  BlockedNow(id)' \/ (pc = "erase" /\ cur.id = id) \/ pc = "wipe"
<1>1. PICK i \in Slots : Effective[i].id = id
  BY EntryIs DEF BlockedNow
<1>2. Effective[i].st = "BLOCKED"
  BY <1>1, SearchFinds DEF BlockedNow
<1>3. CASE Effective'[i].id = id /\ Effective'[i].st = "BLOCKED"
  BY <1>3, SearchFinds DEF BlockedNow
<1>4. CASE Effective' = Effective
  BY <1>1, <1>2, <1>3, <1>4
<1>5. CASE Adds
  <2>1. i # at'
    BY <1>1, <1>5, TableAssumption DEF Adds, Erased
  <2>2. Effective'[i] = Effective[i]
    BY <1>5, <2>1 DEF Adds, Sorted
  <2>. QED
    BY <1>1, <1>2, <1>3, <2>2
<1>6. CASE Replaces
  <2>1. CASE i # at
    <3>1. Effective'[i] = Effective[i]
      BY <1>6, <2>1 DEF Replaces, Sorted
    <3>. QED
      BY <1>1, <1>2, <1>3, <3>1
  <2>2. CASE i = at
    BY <1>1, <1>6, <2>2 DEF Replaces
  <2>. QED
    BY <2>1, <2>2
<1>7. CASE Blocks
  <2>1. Effective'[i].id = Effective[i].id /\ Effective'[i].st \in {Effective[i].st, "BLOCKED"}
    BY <1>7 DEF Blocks, Blocked, Sorted
  <2>. QED
    BY <1>1, <1>2, <1>3, <2>1
<1>8. CASE Wipes
  BY <1>8 DEF Wipes
<1>9. CASE Spoils
  <2>1. PICK k \in Slots : \E r \in Records :
            /\ Effective' = [Effective EXCEPT ![k] = r]
            /\ \/ pc = "wipe"
               \/ pc = "erase" /\ cur.id = Effective[k].id
               \/ Effective[k].st = "OKAY"
    BY <1>9 DEF Spoils
  <2>2. CASE i # k
    <3>1. Effective'[i] = Effective[i]
      BY <2>1, <2>2 DEF Sorted
    <3>. QED
      BY <1>1, <1>2, <1>3, <3>1
  <2>3. CASE i = k
    BY <1>1, <1>2, <2>1, <2>3
  <2>. QED
    BY <2>2, <2>3
<1>. QED
  BY <1>4, <1>5, <1>6, <1>7, <1>8, <1>9

(* A user that is blocked, and is found so, stays so until a request adds  *)
(* that user again, the chip is wiped, or a fault leaves a sector without  *)
(* an id.                                                                  *)
THEOREM BlockedTheorem ==
  ASSUME Blank \notin Inputs
  PROVE  Spec => BlockedStays
<1>1. Asked /\ [Next]_vars => Asked'
  BY AskedStep
<1>2. OrderInv => (gaps = {} => Sorted(Effective))
  BY EffectiveSorted
<1>3. /\ OrderInv /\ OrderInv' /\ Asked /\ Asked' /\ [Next]_vars
      /\ (gaps = {} => Sorted(Effective)) /\ (gaps = {} => Sorted(Effective))'
      => [\A id \in Ids :
            /\ Found(Effective, id)
            /\ UserOf(Effective, id).st = "BLOCKED"
            => \/ Found(Effective', id) /\ UserOf(Effective', id).st = "BLOCKED"
               \/ pc = "erase" /\ cur.id = id
               \/ pc = "wipe"
               \/ gaps' # {}]_vars
  <2>. SUFFICES ASSUME OrderInv, OrderInv', Asked, Asked', [Next]_vars,
                      gaps = {} => Sorted(Effective), gaps' = {} => Sorted(Effective'),
                      NEW id \in Ids, BlockedNow(id), gaps' = {}
               PROVE  BlockedNow(id)' \/ (pc = "erase" /\ cur.id = id) \/ pc = "wipe"
    BY DEF BlockedNow
  <2>1. StepIs
    BY TableStep
  <2>2. CASE gaps = {}
    BY <2>1, <2>2, BlockedStep DEF StepIs
  <2>3. CASE gaps # {}
    BY <2>1, <2>3 DEF StepIs, Wipes
  <2>. QED
    BY <2>2, <2>3
<1>. QED
  BY AskedStart, OrderInvariant, <1>1, <1>2, <1>3, PTL DEF Spec, BlockedStays
=============================================================================
