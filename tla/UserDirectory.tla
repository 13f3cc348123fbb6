--------------------------- MODULE UserDirectory ----------------------------
(***************************************************************************)
(* What the user table of flash.c promises its callers: a map from user    *)
(* ids to a key and a state, with room for UsersMax users, that changes in *)
(* single steps.  A fault may spoil the record of one user.  A fault that  *)
(* leaves the table with a gap hides users, and nothing is promised from   *)
(* then on until the map is cleared.                                       *)
(***************************************************************************)
EXTENDS Integers, FiniteSets

CONSTANTS Ids, Keys, UsersMax,
          Lossy     \* TRUE: there may be faults

VARIABLES dir, intact

Absent == [key |-> "none", st |-> "ABSENT"]

Present == {id \in Ids : dir[id] # Absent}

Init == dir = [id \in Ids |-> Absent] /\ intact = TRUE

(* Add a user, or replace one: the new record is not blocked.              *)
Put(id, key) ==
    /\ intact /\ intact'
    /\ id \in Present \/ Cardinality(Present) < UsersMax
    /\ dir' = [dir EXCEPT ![id] = [key |-> key, st |-> "OKAY"]]

Block(id) ==
    /\ intact /\ intact'
    /\ id \in Present
    /\ dir' = [dir EXCEPT ![id].st = "BLOCKED"]

(* A fault spoils the record of a user, or loses it.                       *)
Spoil(id) ==
    /\ Lossy /\ intact /\ intact'
    /\ id \in Present
    /\ dir' = [dir EXCEPT ![id] = dir'[id]]

(* A fault makes users vanish, and may spoil one.                          *)
Vanish ==
    /\ Lossy /\ intact /\ ~intact'
    /\ LET spoiled == {id \in Ids : dir'[id] \notin {dir[id], Absent}}
       IN  \A id, other \in spoiled : id = other

Astray == ~intact /\ ~intact'

Clear == dir' = [id \in Ids |-> Absent] /\ intact'

Next ==
    \/ \E id \in Ids : Block(id) \/ Spoil(id) \/ \E key \in Keys : Put(id, key)
    \/ Vanish \/ Astray \/ Clear

Spec == Init /\ [][Next]_<<dir, intact>>
=============================================================================
