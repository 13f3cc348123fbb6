------------------------------- MODULE Panel ---------------------------------
(***************************************************************************)
(* What the keybox shows and presses: the LED task, which also feeds the   *)
(* watchdog (led.c, main.c), and the key fob task with its power switch and*)
(* relays (keyfob.c).  The app task hands both their work through queues   *)
(* that never block it.  The LED's time is counted, from one feeding of the*)
(* watchdog to the next; a delay ends up to Late ticks after it is over.   *)
(***************************************************************************)
EXTENDS Integers, Sequences

CONSTANTS
    LedSlots, KeySlots, \* lengths of led_state and keyfob_cmd
    Masks,              \* relay masks of presses, as sets of bit numbers
    Late,               \* ticks a task that is ready waits for its turn
    WdtTicks,           \* ticks until the watchdog resets the keybox
    None                \* no press

ASSUME PanelAssumption ==
    /\ LedSlots \in Nat \ {0} /\ KeySlots \in Nat \ {0}
    /\ Late \in Nat /\ WdtTicks \in Nat
    /\ Masks \subseteq SUBSET (0 .. 7) /\ None \notin Masks

VARIABLES
    led_state,      \* the queue to the LED task
    step, state, back,  \* where the LED task is, and its locals
    since,          \* ticks since IWDG_ReloadCounter
    wanted, lost,   \* history: the last permanent state sent; it found no room
    keyfob_cmd,     \* the queue to the key fob task
    phase, cmd,     \* where the key fob task is, and its local
    power, relays   \* the outputs KEYFOB_PWR_EN and KEYFOB_RELAYS

led == <<led_state, step, state, back, since, wanted, lost>>
fob == <<keyfob_cmd, phase, cmd, power, relays>>
vars == <<led, fob>>

Permanent == {"IDLE", "CONNECTED", "ERASE"}
States == Permanent \cup {"PRESS"}

Init ==
    /\ led_state = <<>>
    /\ step = "start" /\ state = "IDLE" /\ back = "IDLE"
    /\ since = 0
    /\ wanted = "IDLE" /\ lost = FALSE
    /\ keyfob_cmd = <<>>
    /\ phase = "wait" /\ cmd = None
    /\ power = FALSE /\ relays = {}

Put(q, v, slots) == IF Len(q) < slots THEN Append(q, v) ELSE q

(* The delays of a pattern end between none and n times Late ticks late.   *)
Pass(ticks, n) == \E over \in {0, n * Late} : since' = since + ticks + over

-----------------------------------------------------------------------------
(* The app task: led_set_state of a connection or a reset ...              *)
led_set_state(s) ==
    /\ led_state' = Put(led_state, s, LedSlots)
    /\ wanted' = s /\ lost' = (Len(led_state) = LedSlots)
    /\ UNCHANGED <<step, state, back, since, fob>>

(* ... and a press: keyfob_set, then the LED.                              *)
Press(mask) ==
    /\ keyfob_cmd' = Put(keyfob_cmd, mask, KeySlots)
    /\ led_state' = Put(led_state, "PRESS", LedSlots)
    /\ UNCHANGED <<step, state, back, since, wanted, lost, phase, cmd, power, relays>>

-----------------------------------------------------------------------------
(* led_task.  White start.                                                 *)
WhiteStart ==
    /\ step = "start"
    /\ Pass(1000 + 100, 2)
    /\ step' = "feed"
    /\ UNCHANGED <<led_state, state, back, wanted, lost, fob>>

(* Mutant of Feed: the watchdog is not fed.                                *)
Feed_Not ==
    /\ step = "feed"
    /\ step' = "receive"
    /\ UNCHANGED <<led_state, state, back, since, wanted, lost, fob>>

Feed ==
    /\ step = "feed"
    /\ since' = 0
    /\ step' = "receive"
    /\ UNCHANGED <<led_state, state, back, wanted, lost, fob>>

(* xQueueReceive(led_state, &state, 5): a new state, at once or before the *)
(* 5 ticks are over, or the old one again.                                 *)
Receive ==
    /\ step = "receive"
    /\ IF led_state # <<>>
       THEN /\ state' = Head(led_state) /\ led_state' = Tail(led_state)
            /\ \E t \in {0, 5} : Pass(t, 1)
       ELSE UNCHANGED <<state, led_state>> /\ Pass(5, 1)
    /\ step' = "show"
    /\ UNCHANGED <<back, wanted, lost, fob>>

(* One round of the pattern of a permanent state.                          *)
Show ==
    /\ step = "show" /\ state \in Permanent
    /\ CASE state = "IDLE" -> Pass(50 + 500, 2)
         [] state = "CONNECTED" -> Pass(50 + 50 + 50 + 500, 4)
         [] state = "ERASE" -> Pass(100 + 100, 2)
    /\ back' = state
    /\ step' = "feed"
    /\ UNCHANGED <<led_state, state, wanted, lost, fob>>

(* Mutant of ShowPress: the state to go back to is lost.                   *)
ShowPress_BackLost ==
    /\ step = "show" /\ state = "PRESS"
    /\ Pass(500 + 500, 2)
    /\ back' = state
    /\ step' = "feed"
    /\ UNCHANGED <<led_state, state, wanted, lost, fob>>

(* A press is shown once.                                                  *)
ShowPress ==
    /\ step = "show" /\ state = "PRESS"
    /\ Pass(500 + 500, 2)
    /\ state' = back
    /\ step' = "feed"
    /\ UNCHANGED <<led_state, back, wanted, lost, fob>>

Led == WhiteStart \/ Feed \/ Receive \/ Show \/ ShowPress

-----------------------------------------------------------------------------
(* keyfob_task, waiting for ever for a press, and keyfob.                  *)
Take ==
    /\ phase = "wait" /\ keyfob_cmd # <<>>
    /\ cmd' = Head(keyfob_cmd) /\ keyfob_cmd' = Tail(keyfob_cmd)
    /\ power' = TRUE
    /\ phase' = "powered"
    /\ UNCHANGED <<relays, led>>

(* Relay number n is bit 6 - n of the port; other bits of the mask are     *)
(* ignored.                                                                *)
Relay(n) == 6 - n

Close ==
    /\ phase = "powered"
    /\ relays' = {Relay(n) : n \in cmd \cap 0 .. 3}
    /\ phase' = "held"
    /\ UNCHANGED <<keyfob_cmd, cmd, power, led>>

(* Mutant of Open: one relay is forgotten.                                 *)
Open_OneKept ==
    /\ phase = "held"
    /\ relays' = relays \ {Relay(n) : n \in 0 .. 2}
    /\ phase' = "released"
    /\ UNCHANGED <<keyfob_cmd, cmd, power, led>>

Open ==
    /\ phase = "held"
    /\ relays' = relays \ {Relay(n) : n \in 0 .. 3}
    /\ phase' = "released"
    /\ UNCHANGED <<keyfob_cmd, cmd, power, led>>

PowerOff ==
    /\ phase = "released"
    /\ power' = FALSE
    /\ phase' = "wait" /\ cmd' = None
    /\ UNCHANGED <<keyfob_cmd, relays, led>>

Keyfob == Take \/ Close \/ Open \/ PowerOff

-----------------------------------------------------------------------------
Next ==
    \/ \E s \in Permanent : led_set_state(s)
    \/ \E mask \in Masks : Press(mask)
    \/ Led
    \/ Keyfob

(* Both tasks have their turns; nobody has to send them anything.          *)
Spec == Init /\ [][Next]_vars /\ WF_vars(Led) /\ WF_vars(Keyfob)

-----------------------------------------------------------------------------
(* Every variable keeps the shape the code gives it.                       *)
TypeOK ==
    /\ led_state \in Seq(States) /\ Len(led_state) <= LedSlots
    /\ step \in {"start", "feed", "receive", "show"}
    /\ state \in States /\ back \in Permanent /\ since \in Nat
    /\ wanted \in Permanent /\ lost \in BOOLEAN
    /\ keyfob_cmd \in Seq(Masks) /\ Len(keyfob_cmd) <= KeySlots
    /\ phase \in {"wait", "powered", "held", "released"} /\ cmd \in Masks \cup {None}
    /\ power \in BOOLEAN /\ relays \subseteq 3 .. 6

(* The watchdog is fed in time, whatever states are sent, when, and however*)
(* late the LED task has its turns (main.c:636-643, led.c:23-64).          *)
FedInTime == since < WdtTicks

(* A relay is closed only while a press is held, under power that was on   *)
(* before it closed and goes off after it opened (keyfob.c:10-34).         *)
RelaysUnderPower ==
    [][/\ relays' # relays => power /\ power'
       /\ relays' # {} => power' /\ phase' = "held"]_vars

(* Every press that found room is taken up once, in order, and the next one*)
(* waits until it is over (keyfob.c:38-56).                                *)
Presses == INSTANCE BoundedQueue WITH
    Values <- Masks, Length <- KeySlots, NoItem <- None, queue <- keyfob_cmd, got <- cmd
ImplementsPresses == Presses!Spec

(* The LED ends up showing the last permanent state it was sent, through   *)
(* any presses in between, unless that one found the queue full            *)
(* (led.c:35-62).                                                          *)
LedSettles ==
    \A s \in Permanent :
        <>[](wanted = s /\ ~lost /\ led_state = <<>>) => <>[](state = s /\ back = s)
=============================================================================
