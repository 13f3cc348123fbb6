----------------------------- MODULE UserTable ------------------------------
(***************************************************************************)
(* The user table of flash.c with the steps of its NOR chip: the four      *)
(* writers of main.c (ADD_FIRST_USER, ADD_USER / PROXY_ADD_USER,           *)
(* USER_BLOCK and the factory reset) issue erase and program commands one  *)
(* at a time, an erase may fail, and power may be cut while a command is   *)
(* running; gaps records what such faults do to the order of the table.    *)
(* Only the app task touches the chip, so one operation is in progress at  *)
(* a time.                                                                 *)
(***************************************************************************)
EXTENDS FlashTable

CONSTANTS
    Inputs,         \* the ids requests carry: a subset of Ids \cup {Blank}
    MaxCuts,        \* bound: power cuts in a behaviour
    MaxEraseFails   \* bound: erase commands the chip does not carry out

ASSUME InputAssumption ==
    /\ Inputs \subseteq Ids \cup {Blank}
    /\ LastSlot = UsersMax
    /\ MaxCuts \in Nat
    /\ MaxEraseFails \in Nat

VARIABLES
    slots,      \* the chip: [Slots -> Records]
    pc,         \* the chip command in progress
    cur,        \* flash_user argument of the operation in progress
    at,         \* the sector it works on
    ret,        \* what the last operation returned
    gaps,       \* history: the sectors a fault has left without an id
    cuts, fails \* faults so far

vars == <<slots, pc, cur, at, ret, gaps, cuts, fails>>
faults == <<cuts, fails>>

Init ==
    /\ slots = [i \in Slots |-> Erased]
    /\ pc = "idle"
    /\ cur = Erased
    /\ at = 0
    /\ ret = 0
    /\ gaps = {}
    /\ cuts = 0
    /\ fails = 0

-----------------------------------------------------------------------------
(* The operation returns code without touching the chip.                   *)
Return(code) ==
    /\ ret' = code
    /\ UNCHANGED <<slots, pc, cur, at, gaps, faults>>

(* The operation on user u goes on with chip command c on sector i.        *)
Start(c, u, i) ==
    /\ pc' = c
    /\ cur' = u
    /\ at' = i
    /\ UNCHANGED <<slots, ret, gaps, faults>>

(* Mutants of Add: one user too many; the count returned for code 1; the   *)
(* sector after the free one.                                              *)
Add_PastEnd(u) ==
    \E n \in Slots :
        /\ CountIs(slots, n)
        /\ IF slots[n] # Erased THEN Return(2) ELSE Start("prog", u, n)

Add_ReturnsCount(u) ==
    \E n \in Slots :
        /\ CountIs(slots, n)
        /\ IF n >= UsersMax THEN Return(n) ELSE Start("prog", u, n)

Add_SkipsSector(u) ==
    \E n \in Slots :
        /\ CountIs(slots, n)
        /\ IF n >= UsersMax THEN Return(1) ELSE Start("prog", u, n + 1)

(* flash_user_add: refuse when the table is full (1) or when the sector    *)
(* after the last user is not erased (2), else program that sector.        *)
Add(u) ==
    \E n \in Slots :
        /\ CountIs(slots, n)
        /\ \/ n >= UsersMax /\ Return(1)
           \/ n < UsersMax /\ slots[n] # Erased /\ Return(2)
           \/ n < UsersMax /\ slots[n] = Erased /\ Start("prog", u, n)

(* ADD_FIRST_USER: only when the table counts no user.                     *)
AddFirstUser(id, key) ==
    /\ pc = "idle"
    /\ CountIs(slots, 0)
    /\ Add(NewUser(id, key))

(* Mutants of AddUser: no search; user_index left at 0.                    *)
AddUser_NoSearch(id, key) ==
    pc = "idle" /\ ~CountIs(slots, 0) /\ Add(NewUser(id, key))

AddUser_IndexUnset(id, key) ==
    /\ pc = "idle"
    /\ ~CountIs(slots, 0)
    /\ \/ Found(slots, id) /\ Start("erase", NewUser(id, key), 0)
       \/ NotFound(slots, id) /\ Add(NewUser(id, key))

(* ADD_USER, PROXY_ADD_USER: overwrite the user's sector when the search   *)
(* finds the id, add otherwise.                                            *)
AddUser(id, key) ==
    /\ pc = "idle"
    /\ ~CountIs(slots, 0)
    /\ \/ \E i \in Slots : FoundAt(slots, id, i) /\ Start("erase", NewUser(id, key), i)
       \/ NotFound(slots, id) /\ Add(NewUser(id, key))

(* USER_BLOCK: flash_user_block clears the state byte of the sector the    *)
(* search stops at, or returns 1.                                          *)
UserBlock(id) ==
    /\ pc = "idle"
    /\ ~CountIs(slots, 0)
    /\ \/ \E i \in Slots : FoundAt(slots, id, i) /\ Start("mark", NewUser(id, Blank), i)
       \/ NotFound(slots, id) /\ Return(1)

(* The factory reset erases the whole chip, whatever it holds.             *)
EraseChip == pc = "idle" /\ Start("wipe", Erased, 0)

(* The chip finished a command: sector at now reads r, and the operation   *)
(* goes on with command c or, at "idle", has returned code.  An operation  *)
(* that ends on a sector without an id leaves a gap there.                 *)
Land(r, c, code) ==
    /\ slots' = [slots EXCEPT ![at] = r]
    /\ pc' = c
    /\ ret' = code
    /\ gaps' = IF c = "idle" /\ r.id = Blank THEN gaps \cup {at} ELSE gaps
    /\ UNCHANGED <<cur, at>>

(* flash_user_overwrite after flash_erase_sector: program only a sector    *)
(* that flash_check_erasure finds erased.                                  *)
EraseDone ==
    /\ pc = "erase"
    /\ Land(Erased, "prog", ret)
    /\ UNCHANGED faults

(* Mutant of EraseFails: the sector is programmed without the check.       *)
EraseFails_Unchecked ==
    /\ pc = "erase"
    /\ fails < MaxEraseFails
    /\ \E r \in PartialErase(slots[at]) : Land(r, "prog", ret)
    /\ fails' = fails + 1
    /\ UNCHANGED cuts

(* flash_check_erasure finds a byte of the sector that is not 0xFF, one of *)
(* the record or any other.                                                *)
EraseFails ==
    /\ pc = "erase"
    /\ fails < MaxEraseFails
    /\ \E r \in PartialErase(slots[at]) : Land(r, "idle", 1)
    /\ fails' = fails + 1
    /\ UNCHANGED cuts

ProgDone ==
    /\ pc = "prog"
    /\ Land(Program(slots[at], cur), "idle", 0)
    /\ UNCHANGED faults

MarkDone ==
    /\ pc = "mark"
    /\ Land(Blocked(slots[at]), "idle", 0)
    /\ UNCHANGED faults

(* The chip erase ends with the sectors as in s; flash_erase_chip checks   *)
(* nothing and has no return code.                                         *)
Wiped(s) ==
    /\ pc = "wipe"
    /\ slots' = s
    /\ pc' = "idle"
    /\ ret' = 0
    /\ UNCHANGED <<cur, at>>

EraseChipDone ==
    /\ Wiped([i \in Slots |-> Erased])
    /\ gaps' = {}
    /\ UNCHANGED faults

(* A chip erase that does not complete leaves any mixture of erased and    *)
(* surviving sectors, and at most one that is neither.                     *)
WipedInPart ==
    /\ \E kept \in SUBSET Slots :
          LET s == [i \in Slots |-> IF i \in kept THEN slots[i] ELSE Erased]
          IN  \/ Wiped(s)
              \/ \E g \in {i \in Slots : slots[i] # Erased} :
                    \E r \in PartialErase(slots[g]) : Wiped([s EXCEPT ![g] = r])
    /\ gaps' = gaps \cup {i \in Slots : slots'[i] # slots[i] /\ slots'[i].id = Blank}

EraseChipFails ==
    /\ fails < MaxEraseFails
    /\ WipedInPart
    /\ fails' = fails + 1
    /\ UNCHANGED cuts

EraseChipCut ==
    /\ cuts < MaxCuts
    /\ WipedInPart
    /\ cuts' = cuts + 1
    /\ UNCHANGED fails

(* Power is cut during a sector command, which has had some of its effect; *)
(* the reboot keeps only the chip.                                         *)
PowerCut ==
    /\ cuts < MaxCuts
    /\ \/ /\ pc = "erase"
          /\ \E r \in PartialErase(slots[at]) : Land(r, "idle", 0)
       \/ /\ pc = "prog"
          /\ \E r \in ProgramPrefixes(slots[at], cur) : Land(r, "idle", 0)
       \/ /\ pc = "mark"
          /\ \E r \in {slots[at], Blocked(slots[at])} : Land(r, "idle", 0)
    /\ cuts' = cuts + 1
    /\ UNCHANGED fails

Next ==
    \/ \E id \in Inputs, key \in Keys : AddFirstUser(id, key) \/ AddUser(id, key)
    \/ \E id \in Inputs : UserBlock(id)
    \/ EraseDone \/ EraseFails \/ ProgDone \/ MarkDone \/ PowerCut
    \/ EraseChip \/ EraseChipDone \/ EraseChipFails \/ EraseChipCut

Spec == Init /\ [][Next]_vars

(* Every variable keeps the shape the code gives it.                       *)
TypeOK ==
    /\ slots \in [Slots -> Records]
    /\ pc \in {"idle", "erase", "prog", "mark", "wipe"}
    /\ cur \in Records
    /\ at \in Slots
    /\ ret \in 0 .. 2
    /\ gaps \subseteq Slots
    /\ cuts \in 0 .. MaxCuts
    /\ fails \in 0 .. MaxEraseFails

(* The sector after the last user never gets an id, so the unbounded scans *)
(* of flash_user_search and flash_user_block (flash.c:304, 367) end, after *)
(* any faults.                                                             *)
ScansEnd == slots[UsersMax].id = Blank

(* A program command only ever works on an erased sector inside the table: *)
(* programming over old bits would and them into garbage (flash.c:338,     *)
(* 354).                                                                   *)
ProgramsErased == pc = "prog" => slots[at] = Erased /\ at < UsersMax

(* No step, a power cut included, changes the record of a user other than  *)
(* the one the operation in progress names (flash.c:345, 363); only the    *)
(* factory reset touches them all.                                         *)
OnlyItsUser ==
    \A i \in Slots :
        slots[i].id \in Ids /\ slots'[i] # slots[i] => pc = "wipe" \/ slots[i].id = cur.id

NoOtherUserTouched == [][OnlyItsUser]_vars

(* A sector without an id has nothing behind it, so count and search see   *)
(* every user (flash.c:253, 300), unless a fault left it without one; the  *)
(* sector an overwrite has erased and is about to program is one.          *)
NoHoles ==
    \A i, j \in Slots :
        i < j /\ slots[i].id = Blank /\ slots[j] # Erased
        => i \in gaps \/ (pc = "prog" /\ at = i)

(* A user has two records only when the one the scan finds is in a sector  *)
(* that a fault had left without an id: elsewhere, blocking the record the *)
(* scan finds blocks the user (flash.c:374).                               *)
UniqueIds ==
    \A i, j \in Slots :
        i < j /\ slots[i].id \in Ids /\ slots[i].id = slots[j].id => i \in gaps

(* The table as a reader would see it once the program command in progress *)
(* lands.                                                                  *)
Effective == IF pc = "prog" THEN [slots EXCEPT ![at] = cur] ELSE slots

(* The directory this table implements: a user is present when the search  *)
(* finds it, a program command counts from its start.                      *)
EntryOf(s, id) ==
    IF Found(s, id) THEN [key |-> UserOf(s, id).key, st |-> UserOf(s, id).st]
    ELSE [key |-> "none", st |-> "ABSENT"]

Dir == [id \in Ids |-> EntryOf(Effective, id)]

Directory ==
    INSTANCE UserDirectory
    WITH Lossy <- MaxEraseFails + MaxCuts > 0, intact <- gaps = {}, dir <- Dir

(* Every step of the table is one step of the directory: nothing but the   *)
(* named user changes, and only as asked (flash.c:253-384); a fault spoils *)
(* the record of one user, and makes others vanish only when it leaves a   *)
(* sector without an id.                                                   *)
ImplementsDirectory == Directory!Spec

(* A user that is blocked, and is found so, stays so until a request adds  *)
(* that user again, the chip is wiped or a fault leaves a sector without   *)
(* an id (main.c:229, 418).                                                *)
BlockedStays ==
    [][\A id \in Ids :
        /\ Found(Effective, id)
        /\ UserOf(Effective, id).st = "BLOCKED"
        => \/ Found(Effective', id) /\ UserOf(Effective', id).st = "BLOCKED"
           \/ pc = "erase" /\ cur.id = id
           \/ pc = "wipe"
           \/ gaps' # {}]_vars
=============================================================================
