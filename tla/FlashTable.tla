----------------------------- MODULE FlashTable -----------------------------
(***************************************************************************)
(* The user area of the SPI NOR flash (src/User/flash.c) as a table: one   *)
(* record per 4 KiB sector, read by linear scans from sector 0.  Only      *)
(* operators live here; the modules that own a table (UserTable, with its  *)
(* erase and program steps, and CommandEngine, with whole commands) pass   *)
(* it as the argument s.                                                   *)
(***************************************************************************)
EXTENDS Integers

CONSTANTS
    Ids,        \* user ids, the all-0xFF one excepted
    Keys,       \* public keys
    Blank,      \* bytes that read 0xFF: the content of an erased field
    Torn,       \* bytes no caller wrote, left by an interrupted erase or program
    UsersMax,   \* FLASH_USERS_MAX
    LastSlot    \* bound: the last sector a scan looks at

ASSUME TableAssumption ==
    /\ UsersMax \in Nat \ {0}
    /\ LastSlot \in Nat /\ UsersMax <= LastSlot
    /\ Blank \notin Ids \cup Keys
    /\ Torn \notin Ids \cup Keys
    /\ Blank # Torn

(* FLASH_USERS_MAX user sectors and those after them that a scan may reach. *)
Slots == 0 .. LastSlot

(* struct flash_user_info: user, public_key and state; key stands for the  *)
(* name too, which no code compares.  Every state byte other than 0 is     *)
(* treated as FLASH_USER_OKAY (0xFF, the erased value).                    *)
Records == [id : Ids \cup {Blank, Torn}, key : Keys \cup {Blank, Torn},
            st : {"OKAY", "BLOCKED"}]

Erased == [id |-> Blank, key |-> Blank, st |-> "OKAY"]

(* What a caller hands to flash_user_add and flash_user_overwrite.         *)
NewUser(id, key) == [id |-> id, key |-> key, st |-> "OKAY"]

(* A scan for id reads sectors upwards and stops at the first that holds   *)
(* id or the all-0xFF id; a scan that never stops is a scan without an i.  *)
ScanEnds(s, id, i) ==
    /\ s[i].id \in {id, Blank}
    /\ \A j \in 0 .. (i - 1) : s[j].id \notin {id, Blank}

(* flash_user_search returns 0 with *n = i (the comparison with id comes   *)
(* before the comparison with the erased id).                              *)
FoundAt(s, id, i) == ScanEnds(s, id, i) /\ s[i].id = id

NotFound(s, id) == \E i \in Slots : ScanEnds(s, id, i) /\ s[i].id # id

Found(s, id) == \E i \in Slots : FoundAt(s, id, i)

(* The record flash_user_search copies out when it finds id.               *)
UserOf(s, id) == s[CHOOSE i \in Slots : FoundAt(s, id, i)]

(* flash_user_count() = n.                                                 *)
CountIs(s, n) ==
    /\ n <= UsersMax
    /\ \A j \in 0 .. (n - 1) : s[j].id # Blank
    /\ n < UsersMax => s[n].id = Blank

(* The state byte programmed to FLASH_USER_BLOCKED (0).                    *)
Blocked(r) == [id |-> r.id, key |-> r.key, st |-> "BLOCKED"]

(* NOR programming can only clear bits: a field reads as programmed when   *)
(* it was erased, is left alone by 0xFF bytes, and is garbage otherwise.   *)
ProgramField(old, new) ==
    IF old = Blank THEN new ELSE IF new \in {Blank, old} THEN old ELSE Torn

Program(old, new) ==
    [id  |-> ProgramField(old.id, new.id),
     key |-> ProgramField(old.key, new.key),
     st  |-> IF "BLOCKED" \in {old.st, new.st} THEN "BLOCKED" ELSE "OKAY"]

(* An interrupted flash_prog has written a prefix of user and public_key,  *)
(* the last field of it perhaps in part.                                   *)
ProgramPrefixes(old, new) ==
    LET prefix(id, key) == [id |-> id, key |-> key, st |-> old.st]
        part(o, n) == IF n = Blank THEN o ELSE Torn
        done == Program(old, new)
    IN  {old, prefix(part(old.id, new.id), old.key), prefix(done.id, old.key),
         prefix(done.id, part(old.key, new.key)), done}

(* After an erase that does not complete each field of the record reads as *)
(* before, as 0xFF, or as bytes nobody wrote, and a record that reads      *)
(* erased may sit in a sector of which another byte does not.              *)
PartialErase(old) ==
    [id : {old.id, Torn, Blank}, key : {old.key, Torn, Blank}, st : {"OKAY", "BLOCKED"}]
=============================================================================
