------------------------------ MODULE AppLoop --------------------------------
(***************************************************************************)
(* The loop of the app task (main.c) among the tasks and pins it serves:   *)
(* requests from the BLE receiver, messages from the RS-485 receiver, the  *)
(* connection pin of the BLE module, reports of the button, and the LED.   *)
(* What a request does to users and settings is in CommandEngine, what a   *)
(* factory reset does in DeviceLifecycle; here RS_RECV and the reset count *)
(* for what they do to the queues and the LED.                             *)
(***************************************************************************)
EXTENDS Integers, Sequences

CONSTANTS
    RequestSlots, RsSlots, ButtonSlots,     \* lengths of ble_data_recv, rs_recv, button_cmd
    LastRequest,        \* requests are numbered 1 .. LastRequest, over and over
    MaxRs,              \* bound: RS-485 messages told apart; all later ones are MaxRs
    None                \* no request

(* Numbers enough for the requests that wait, the one in work and the one  *)
(* answered last.                                                          *)
ASSUME AppAssumption ==
    /\ {RequestSlots, RsSlots, ButtonSlots} \subseteq Nat \ {0}
    /\ LastRequest \in Nat /\ LastRequest >= RequestSlots + 2
    /\ MaxRs \in Nat \ {0}

VARIABLES
    pc,             \* where the loop is
    ble_data_recv, app_raw,     \* requests waiting; the one in work
    rs_recv, app_rs_buff,       \* RS-485 messages waiting; the one in the buffer
    pin, prev,      \* the pin of the BLE module; ble_status_get's memory of it
    button_cmd,
    told,           \* the last state sent to the LED task
    reply,          \* the last reply
    requests, messages,     \* numbers of the last that came
    fresh,          \* history: a message found room since RS_RECV was answered
    hidden          \* history: a factory reset since the pin was last seen to change

inputs == <<ble_data_recv, rs_recv, button_cmd, pin, requests, messages>>
vars == <<pc, app_raw, app_rs_buff, prev, told, reply, fresh, hidden, inputs>>

Kinds == {"RS_RECV", "other"}
Request == [id : 1 .. LastRequest, kind : Kinds]

Init ==
    /\ pc = "recv"
    /\ ble_data_recv = <<>> /\ app_raw = None
    /\ rs_recv = <<>> /\ app_rs_buff = 0
    /\ pin \in BOOLEAN /\ prev = FALSE
    /\ button_cmd = <<>>
    /\ told = "IDLE"
    /\ reply = [id |-> 0, rs |-> 0]
    /\ requests = 0 /\ messages = 0
    /\ fresh = FALSE /\ hidden = FALSE

Put(q, v, slots) == IF Len(q) < slots THEN Append(q, v) ELSE q

-----------------------------------------------------------------------------
(* The other tasks and the BLE module, which go on for as long as they     *)
(* like.  A frame that finds no room changes nothing.                      *)
BleFrame(kind) ==
    /\ Len(ble_data_recv) < RequestSlots
    /\ requests' = (requests % LastRequest) + 1
    /\ ble_data_recv' = Append(ble_data_recv, [id |-> requests', kind |-> kind])
    /\ UNCHANGED <<pc, app_raw, rs_recv, app_rs_buff, pin, prev, button_cmd, told, reply, messages,
                   fresh, hidden>>

RsFrame ==
    /\ messages' = IF messages < MaxRs THEN messages + 1 ELSE MaxRs
    /\ rs_recv' = Put(rs_recv, messages', RsSlots)
    /\ fresh' = (fresh \/ Len(rs_recv) < RsSlots)
    /\ UNCHANGED <<pc, ble_data_recv, app_raw, app_rs_buff, pin, prev, button_cmd, told, reply,
                   requests, hidden>>

ButtonReport(hold) ==
    /\ button_cmd' = Put(button_cmd, hold, ButtonSlots)
    /\ UNCHANGED <<pc, ble_data_recv, app_raw, rs_recv, app_rs_buff, pin, prev, told, reply,
                   requests, messages, fresh, hidden>>

PinChanges ==
    /\ pin' = ~pin
    /\ UNCHANGED <<pc, ble_data_recv, app_raw, rs_recv, app_rs_buff, prev, button_cmd, told, reply,
                   requests, messages, fresh, hidden>>

-----------------------------------------------------------------------------
(* Mutant of Receive: the request gets no answer.                          *)
Receive_Unanswered ==
    /\ pc = "recv"
    /\ IF ble_data_recv # <<>> THEN ble_data_recv' = Tail(ble_data_recv) ELSE UNCHANGED ble_data_recv
    /\ pc' = "status"
    /\ UNCHANGED <<app_raw, rs_recv, app_rs_buff, pin, prev, button_cmd, told, reply, requests,
                   messages, fresh, hidden>>

(* app_task.  xQueueReceive(ble_data_recv, &app_raw, 100).                 *)
Receive ==
    /\ pc = "recv"
    /\ IF ble_data_recv # <<>>
       THEN /\ app_raw' = Head(ble_data_recv) /\ ble_data_recv' = Tail(ble_data_recv)
            /\ pc' = "answer"
       ELSE UNCHANGED <<app_raw, ble_data_recv>> /\ pc' = "status"
    /\ UNCHANGED <<rs_recv, app_rs_buff, pin, prev, button_cmd, told, reply, requests, messages,
                   fresh, hidden>>

(* xQueueReceive(rs_recv, app_rs_buff, 0): an empty queue leaves the buffer*)
(* as it is.                                                               *)
TakeRs ==
    IF rs_recv # <<>> THEN app_rs_buff' = Head(rs_recv) /\ rs_recv' = Tail(rs_recv)
    ELSE UNCHANGED <<rs_recv, app_rs_buff>>

(* Mutant of Answer: the queue is not looked at.                           *)
Answer_BufferOnly ==
    /\ pc = "answer"
    /\ UNCHANGED <<rs_recv, app_rs_buff>>
    /\ reply' = [id |-> app_raw.id, rs |-> IF app_raw.kind = "RS_RECV" THEN app_rs_buff ELSE reply.rs]
    /\ fresh' = IF app_raw.kind = "RS_RECV" THEN FALSE ELSE fresh
    /\ app_raw' = None
    /\ pc' = "status"
    /\ UNCHANGED <<ble_data_recv, pin, prev, button_cmd, told, requests, messages, hidden>>

(* Mutant of Answer: the loop empties the request queue before it looks    *)
(* at anything else.                                                       *)
Answer_DrainsFirst ==
    /\ pc = "answer"
    /\ IF app_raw.kind = "RS_RECV"
       THEN /\ TakeRs
            /\ reply' = [id |-> app_raw.id, rs |-> app_rs_buff']
            /\ fresh' = FALSE
       ELSE reply' = [reply EXCEPT !.id = app_raw.id] /\ UNCHANGED <<rs_recv, app_rs_buff, fresh>>
    /\ app_raw' = None
    /\ pc' = "recv"
    /\ UNCHANGED <<ble_data_recv, pin, prev, button_cmd, told, requests, messages, hidden>>

(* app_in_logic and app_out_reply.  reply.rs keeps the RS-485 message the  *)
(* last RS_RECV was answered with, 0 while the buffer is as at power-up.   *)
Answer ==
    /\ pc = "answer"
    /\ IF app_raw.kind = "RS_RECV"
       THEN /\ TakeRs
            /\ reply' = [id |-> app_raw.id, rs |-> app_rs_buff']
            /\ fresh' = FALSE
       ELSE reply' = [reply EXCEPT !.id = app_raw.id] /\ UNCHANGED <<rs_recv, app_rs_buff, fresh>>
    /\ app_raw' = None
    /\ pc' = "status"
    /\ UNCHANGED <<ble_data_recv, pin, prev, button_cmd, told, requests, messages, hidden>>

Shown(connected) == IF connected THEN "CONNECTED" ELSE "IDLE"

(* Mutant of Status: the pin is not remembered.                            *)
Status_Forgets ==
    /\ pc = "status"
    /\ IF pin # prev THEN told' = Shown(pin) /\ hidden' = FALSE ELSE UNCHANGED <<told, hidden>>
    /\ pc' = "button"
    /\ UNCHANGED <<app_raw, app_rs_buff, prev, reply, fresh, inputs>>

(* ble_status_get, and the LED on a change.                                *)
Status ==
    /\ pc = "status"
    /\ IF pin # prev THEN told' = Shown(pin) /\ hidden' = FALSE ELSE UNCHANGED <<told, hidden>>
    /\ prev' = pin
    /\ pc' = "button"
    /\ UNCHANGED <<app_raw, app_rs_buff, reply, fresh, inputs>>

Button ==
    /\ pc = "button"
    /\ button_cmd' = IF button_cmd = <<>> THEN <<>> ELSE Tail(button_cmd)
    /\ IF button_cmd # <<>> /\ Head(button_cmd) = "long"
       THEN pc' = "erase" /\ told' = "ERASE" ELSE pc' = "rs" /\ UNCHANGED told
    /\ UNCHANGED <<app_raw, app_rs_buff, prev, reply, fresh, hidden,
                   ble_data_recv, rs_recv, pin, requests, messages>>

(* The end of app_factory_reset, and status = 0, which nothing reads again.*)
ResetDone ==
    /\ pc = "erase"
    /\ told' = "IDLE" /\ hidden' = TRUE
    /\ pc' = "rs"
    /\ UNCHANGED <<app_raw, app_rs_buff, prev, reply, fresh, inputs>>

(* The loop takes a message too, into the same buffer.                     *)
DrainRs ==
    /\ pc = "rs"
    /\ TakeRs
    /\ pc' = "recv"
    /\ UNCHANGED <<app_raw, prev, reply, told, fresh, hidden,
                   ble_data_recv, button_cmd, pin, requests, messages>>

AppTask == Receive \/ Answer \/ Status \/ Button \/ ResetDone \/ DrainRs

Next ==
    \/ AppTask
    \/ \E kind \in Kinds : BleFrame(kind)
    \/ RsFrame
    \/ \E hold \in {"long", "short"} : ButtonReport(hold)
    \/ PinChanges

(* The app task has its turns: what it waits for ends (DeviceLifecycle,    *)
(* Kernel).                                                                *)
Spec == Init /\ [][Next]_vars /\ WF_vars(AppTask)

-----------------------------------------------------------------------------
(* Every variable keeps the shape the code gives it.                       *)
TypeOK ==
    /\ pc \in {"recv", "answer", "status", "button", "erase", "rs"}
    /\ ble_data_recv \in Seq(Request) /\ Len(ble_data_recv) <= RequestSlots
    /\ IF pc = "answer" THEN app_raw \in Request ELSE app_raw = None
    /\ rs_recv \in Seq(1 .. MaxRs) /\ Len(rs_recv) <= RsSlots /\ app_rs_buff \in 0 .. MaxRs
    /\ pin \in BOOLEAN /\ prev \in BOOLEAN /\ fresh \in BOOLEAN /\ hidden \in BOOLEAN
    /\ button_cmd \in Seq({"long", "short"}) /\ Len(button_cmd) <= ButtonSlots
    /\ told \in {"IDLE", "CONNECTED", "ERASE"}
    /\ reply \in [id : 0 .. LastRequest, rs : 0 .. MaxRs]
    /\ requests \in 0 .. LastRequest /\ messages \in 0 .. MaxRs

(* RS_RECV shares its queue and its buffer with the loop, which takes      *)
(* messages and drops them.  Its answers still never go back to an older   *)
(* message, and repeat one only when no other has come since, as far as    *)
(* the numbers tell (main.c:361, 611-614).                                 *)
RsGoesForward ==
    [][pc = "answer" /\ pc' # "answer" /\ app_raw.kind = "RS_RECV" =>
          /\ reply'.rs >= reply.rs
          /\ fresh => reply'.rs > reply.rs \/ reply.rs = MaxRs]_vars

(* The LED was last told what the pin last showed, unless a factory reset  *)
(* came in between: it tells the LED idle, and the change that would tell  *)
(* it connected has been seen before (main.c:586-602, 539, ble.c:227-240). *)
ConnectionTold == pc # "erase" /\ ~hidden => told = Shown(prev)

(* Each request that found room is worked on once, in order.               *)
Requests == INSTANCE BoundedQueue WITH
    Values <- Request, Length <- RequestSlots, NoItem <- None,
    queue <- ble_data_recv, got <- app_raw
ImplementsRequests == Requests!Spec

(* Every request that found room is answered, however busy the other       *)
(* senders keep the loop (main.c:577-583).                                 *)
RequestsAnswered ==
    \A n \in 1 .. LastRequest :
        (\E k \in DOMAIN ble_data_recv : ble_data_recv[k].id = n) ~> reply.id = n

(* A long press that found room starts a factory reset, though requests    *)
(* and RS-485 messages never stop coming (main.c:577-603).                 *)
LongPressResets ==
    (\E k \in DOMAIN button_cmd : button_cmd[k] = "long") ~> pc = "erase"
=============================================================================
