---------------------------- MODULE AppLoop_proofs ---------------------------
(***************************************************************************)
(* Proofs about AppLoop for queues of any length, with requests and        *)
(* messages that never stop coming.                                        *)
(***************************************************************************)
EXTENDS AppLoop, TLAPS

LEMMA PutType ==
  ASSUME NEW S, NEW q \in Seq(S), NEW v \in S, NEW slots \in Nat, Len(q) <= slots
  PROVE  Put(q, v, slots) \in Seq(S) /\ Len(Put(q, v, slots)) <= slots
<1>1. CASE Len(q) < slots
  BY <1>1 DEF Put
<1>2. CASE ~(Len(q) < slots)
  BY <1>2 DEF Put
<1>. QED
  BY <1>1, <1>2

LEMMA HeadTailType ==
  ASSUME NEW S, NEW q \in Seq(S), q # <<>>
  PROVE  /\ Head(q) \in S /\ Tail(q) \in Seq(S)
         /\ Len(Tail(q)) = Len(q) - 1
  OBVIOUS

Slots == RequestSlots \in Nat /\ RsSlots \in Nat /\ ButtonSlots \in Nat
         /\ LastRequest \in Nat \ {0} /\ MaxRs \in Nat \ {0}

LEMMA SlotsAreNat == Slots
  BY AppAssumption DEF Slots

-----------------------------------------------------------------------------
(* The loop and its requests.                                              *)
RequestType ==
    /\ pc \in {"recv", "answer", "status", "button", "erase", "rs"}
    /\ ble_data_recv \in Seq(Request) /\ Len(ble_data_recv) <= RequestSlots
    /\ IF pc = "answer" THEN app_raw \in Request ELSE app_raw = None
    /\ requests \in 0 .. LastRequest

LEMMA NextNumber ==
  ASSUME NEW n \in Nat
  PROVE  (n % LastRequest) + 1 \in 1 .. LastRequest
<1>1. n % LastRequest \in 0 .. LastRequest - 1
  BY SlotsAreNat, SMTT(30) DEF Slots
<1>. QED
  BY <1>1, SlotsAreNat DEF Slots

LEMMA NewRequest ==
  ASSUME RequestType, NEW kind \in Kinds, BleFrame(kind)
  PROVE  /\ requests' \in 1 .. LastRequest
         /\ [id |-> requests', kind |-> kind] \in Request
         /\ ble_data_recv' = Append(ble_data_recv, [id |-> requests', kind |-> kind])
<1>1. requests \in Nat
  BY SlotsAreNat DEF RequestType, Slots
<1>2. requests' \in 1 .. LastRequest
  BY <1>1, NextNumber DEF BleFrame
<1>. QED
  BY <1>2 DEF BleFrame, Request

LEMMA RequestTyping ==
  ASSUME RequestType, [Next]_vars
  PROVE  RequestType'
<1>. USE SlotsAreNat DEF RequestType, Slots
<1>1. ASSUME NEW kind \in Kinds, BleFrame(kind) PROVE RequestType'
  <2>1. /\ requests' \in 0 .. LastRequest /\ [id |-> requests', kind |-> kind] \in Request
        /\ ble_data_recv' = Append(ble_data_recv, [id |-> requests', kind |-> kind])
    BY <1>1, NewRequest
  <2>2. ble_data_recv' \in Seq(Request) /\ Len(ble_data_recv') <= RequestSlots
    BY <1>1, <2>1 DEF BleFrame
  <2>. QED
    BY <1>1, <2>1, <2>2 DEF BleFrame
<1>2. CASE RsFrame \/ (\E hold \in {"long", "short"} : ButtonReport(hold)) \/ PinChanges
  BY <1>2 DEF RsFrame, ButtonReport, PinChanges
<1>3. CASE Receive
  <2>1. CASE ble_data_recv # <<>>
    <3>1. /\ Head(ble_data_recv) \in Request /\ Tail(ble_data_recv) \in Seq(Request)
          /\ Len(Tail(ble_data_recv)) = Len(ble_data_recv) - 1
      BY <2>1, HeadTailType
    <3>. QED
      BY <1>3, <2>1, <3>1 DEF Receive
  <2>2. CASE ble_data_recv = <<>>
    BY <1>3, <2>2 DEF Receive
  <2>. QED
    BY <2>1, <2>2
<1>4. CASE Answer
  BY <1>4 DEF Answer
<1>5. CASE Status \/ ResetDone
  BY <1>5 DEF Status, ResetDone, inputs
<1>6. CASE Button \/ DrainRs
  BY <1>6 DEF Button, DrainRs
<1>7. CASE UNCHANGED vars
  BY <1>7 DEF vars, inputs
<1>. QED
  BY <1>1, <1>2, <1>3, <1>4, <1>5, <1>6, <1>7 DEF Next, AppTask

-----------------------------------------------------------------------------
(* The RS-485 messages: numbered in the order they came, the newest last;  *)
(* what the buffer holds is older than all that wait.  Past MaxRs the      *)
(* numbers do not tell.                                                    *)
Before(a, b) == a < b \/ (a = MaxRs /\ b = MaxRs)

RsType ==
    /\ rs_recv \in Seq(1 .. MaxRs) /\ Len(rs_recv) <= RsSlots
    /\ app_rs_buff \in 0 .. MaxRs /\ messages \in 0 .. MaxRs
    /\ reply \in [id : 0 .. LastRequest, rs : 0 .. MaxRs]
    /\ fresh \in BOOLEAN

InOrder ==
    /\ \A j, k \in 1 .. Len(rs_recv) : j < k => Before(rs_recv[j], rs_recv[k])
    /\ \A k \in 1 .. Len(rs_recv) : Before(app_rs_buff, rs_recv[k]) /\ rs_recv[k] <= messages
    /\ app_rs_buff <= messages
    /\ reply.rs <= app_rs_buff
    /\ fresh => rs_recv # <<>> \/ Before(reply.rs, app_rs_buff)

LEMMA TakeRsKeeps ==
  ASSUME RsType, InOrder, TakeRs, messages' = messages
  PROVE  /\ rs_recv' \in Seq(1 .. MaxRs) /\ Len(rs_recv') <= RsSlots /\ app_rs_buff' \in 0 .. MaxRs
         /\ \A j, k \in 1 .. Len(rs_recv') : j < k => Before(rs_recv'[j], rs_recv'[k])
         /\ \A k \in 1 .. Len(rs_recv') : Before(app_rs_buff', rs_recv'[k]) /\ rs_recv'[k] <= messages
         /\ app_rs_buff' <= messages
         /\ app_rs_buff' >= app_rs_buff /\ (rs_recv # <<>> => Before(app_rs_buff, app_rs_buff'))
         /\ reply.rs <= app_rs_buff' /\ (fresh => Before(reply.rs, app_rs_buff'))
<1>. USE SlotsAreNat DEF Slots
<1>1. CASE rs_recv = <<>>
  BY <1>1 DEF TakeRs, RsType, InOrder
<1>2. CASE rs_recv # <<>>
  <2>1. app_rs_buff' = Head(rs_recv) /\ rs_recv' = Tail(rs_recv)
    BY <1>2 DEF TakeRs
  <2>2. /\ Head(rs_recv) = rs_recv[1] /\ Len(rs_recv) \in Nat \ {0}
        /\ Tail(rs_recv) \in Seq(1 .. MaxRs) /\ Len(Tail(rs_recv)) = Len(rs_recv) - 1
        /\ \A k \in 1 .. Len(rs_recv) - 1 : Tail(rs_recv)[k] = rs_recv[k + 1]
    BY <1>2 DEF RsType
  <2>3. \A k \in 1 .. Len(rs_recv) : rs_recv[k] \in 1 .. MaxRs
    BY DEF RsType
  <2>4. \A j, k \in 1 .. Len(rs_recv') : j < k => Before(rs_recv'[j], rs_recv'[k])
    BY <2>1, <2>2 DEF InOrder
  <2>5. \A k \in 1 .. Len(rs_recv') : Before(app_rs_buff', rs_recv'[k]) /\ rs_recv'[k] <= messages
    BY <2>1, <2>2 DEF InOrder
  <2>6. Before(app_rs_buff, app_rs_buff') /\ app_rs_buff' <= messages /\ app_rs_buff' \in 0 .. MaxRs
    BY <2>1, <2>2, <2>3 DEF InOrder, RsType
  <2>7. app_rs_buff' >= app_rs_buff
    BY <2>6 DEF Before, RsType
  <2>8. reply.rs \in 0 .. MaxRs /\ app_rs_buff \in 0 .. MaxRs /\ reply.rs <= app_rs_buff
    BY DEF RsType, InOrder
  <2>9. Before(reply.rs, app_rs_buff') /\ reply.rs <= app_rs_buff'
    BY <2>6, <2>7, <2>8 DEF Before
  <2>. QED
    BY <2>1, <2>2, <2>4, <2>5, <2>6, <2>7, <2>9 DEF RsType
<1>. QED
  BY <1>1, <1>2

LEMMA RsTyping ==
  ASSUME RequestType, RsType, InOrder, [Next]_vars
  PROVE  RsType' /\ InOrder'
<1>. USE SlotsAreNat DEF Slots
<1>1. CASE RsFrame
  <2>0. /\ \A k \in 1 .. Len(rs_recv) : rs_recv[k] \in 1 .. MaxRs /\ rs_recv[k] <= messages
        /\ messages \in 0 .. MaxRs /\ app_rs_buff \in 0 .. MaxRs /\ app_rs_buff <= messages
    BY DEF RsType, InOrder
  <2>1. /\ messages' = IF messages < MaxRs THEN messages + 1 ELSE MaxRs
        /\ UNCHANGED <<app_rs_buff, reply>>
    BY <1>1 DEF RsFrame
  <2>2. messages' \in 1 .. MaxRs /\ messages <= messages'
    BY <2>0, <2>1
  <2>3. \A n \in 0 .. MaxRs : n <= messages => Before(n, messages')
    BY <2>0, <2>1 DEF Before
  <2>4. fresh' = (fresh \/ Len(rs_recv) < RsSlots)
    BY <1>1 DEF RsFrame
  <2>5. CASE Len(rs_recv) < RsSlots
    <3>1. rs_recv' = Append(rs_recv, messages')
      BY <1>1, <2>5 DEF RsFrame, Put
    <3>2. /\ rs_recv' \in Seq(1 .. MaxRs) /\ Len(rs_recv') = Len(rs_recv) + 1
          /\ rs_recv'[Len(rs_recv) + 1] = messages'
          /\ \A k \in 1 .. Len(rs_recv) : rs_recv'[k] = rs_recv[k]
      BY <2>2, <3>1 DEF RsType
    <3>3. Len(rs_recv) \in Nat /\ rs_recv' # <<>>
      BY <3>2 DEF RsType
    <3>4. ASSUME NEW j \in 1 .. Len(rs_recv'), NEW k \in 1 .. Len(rs_recv'), j < k
          PROVE  Before(rs_recv'[j], rs_recv'[k])
      <4>1. j \in 1 .. Len(rs_recv) /\ rs_recv'[j] = rs_recv[j]
        BY <3>2, <3>3, <3>4
      <4>2. CASE k = Len(rs_recv) + 1
        <5>1. rs_recv[j] \in 0 .. MaxRs /\ rs_recv[j] <= messages
          BY <2>0, <4>1
        <5>. QED
          BY <2>3, <3>2, <4>1, <4>2, <5>1
      <4>3. CASE k # Len(rs_recv) + 1
        <5>1. k \in 1 .. Len(rs_recv) /\ rs_recv'[k] = rs_recv[k]
          BY <3>2, <3>3, <4>3
        <5>. QED
          BY <3>4, <4>1, <5>1 DEF InOrder
      <4>. QED
        BY <4>2, <4>3
    <3>5. ASSUME NEW k \in 1 .. Len(rs_recv')
          PROVE  Before(app_rs_buff, rs_recv'[k]) /\ rs_recv'[k] <= messages'
      <4>1. CASE k = Len(rs_recv) + 1
        BY <2>0, <2>2, <2>3, <3>2, <4>1
      <4>2. CASE k # Len(rs_recv) + 1
        <5>1. k \in 1 .. Len(rs_recv) /\ rs_recv'[k] = rs_recv[k]
          BY <3>2, <3>3, <4>2
        <5>2. Before(app_rs_buff, rs_recv[k])
          BY <5>1 DEF InOrder
        <5>3. rs_recv[k] <= messages'
          BY <2>0, <2>2, <5>1
        <5>. QED
          BY <5>1, <5>2, <5>3
      <4>. QED
        BY <4>1, <4>2
    <3>6. RsType'
      BY <2>1, <2>2, <2>4, <2>5, <3>2 DEF RsType
    <3>7. app_rs_buff <= messages'
      BY <2>0, <2>2
    <3>. QED
      BY <2>1, <3>3, <3>4, <3>5, <3>6, <3>7 DEF InOrder
  <2>6. CASE ~(Len(rs_recv) < RsSlots)
    <3>1. rs_recv' = rs_recv /\ fresh' = fresh
      BY <1>1, <2>4, <2>6 DEF RsFrame, Put, RsType
    <3>2. RsType'
      BY <2>1, <2>2, <3>1 DEF RsType
    <3>3. (\A k \in 1 .. Len(rs_recv) : rs_recv[k] <= messages') /\ app_rs_buff <= messages'
      BY <2>0, <2>2
    <3>. QED
      BY <2>1, <3>1, <3>2, <3>3 DEF InOrder
  <2>. QED
    BY <2>5, <2>6
<1>2. CASE (\E kind \in Kinds : BleFrame(kind)) \/ (\E hold \in {"long", "short"} : ButtonReport(hold)) \/ PinChanges
  <2>1. UNCHANGED <<rs_recv, app_rs_buff, messages, reply, fresh>>
    BY <1>2 DEF BleFrame, ButtonReport, PinChanges
  <2>. QED
    BY <2>1 DEF RsType, InOrder
<1>3. CASE Receive \/ Button
  BY <1>3 DEF Receive, Button, RsType, InOrder
<1>4. CASE Answer
  <2>1. app_raw \in Request /\ app_raw.id \in 0 .. LastRequest /\ messages' = messages
    BY <1>4 DEF RequestType, Answer, Request
  <2>2. CASE app_raw.kind = "RS_RECV"
    <3>1. TakeRs /\ reply' = [id |-> app_raw.id, rs |-> app_rs_buff'] /\ fresh' = FALSE
      BY <1>4, <2>2 DEF Answer
    <3>2. RsType'
      BY <2>1, <3>1, TakeRsKeeps DEF RsType
    <3>. QED
      BY <2>1, <3>1, <3>2, TakeRsKeeps DEF InOrder, RsType
  <2>3. CASE app_raw.kind # "RS_RECV"
    <3>1. reply' = [reply EXCEPT !.id = app_raw.id] /\ UNCHANGED <<rs_recv, app_rs_buff, fresh>>
      BY <1>4, <2>3 DEF Answer
    <3>. QED
      BY <2>1, <3>1 DEF RsType, InOrder
  <2>. QED
    BY <2>2, <2>3
<1>5. CASE Status \/ ResetDone
  BY <1>5 DEF Status, ResetDone, inputs, RsType, InOrder
<1>6. CASE DrainRs
  <2>1. TakeRs /\ UNCHANGED <<reply, fresh, messages>>
    BY <1>6 DEF DrainRs
  <2>2. fresh => Before(reply.rs, app_rs_buff')
    BY <2>1, TakeRsKeeps
  <2>3. reply.rs <= app_rs_buff'
    BY <2>1, TakeRsKeeps
  <2>. QED
    BY <2>1, <2>2, <2>3, TakeRsKeeps DEF RsType, InOrder
<1>7. CASE UNCHANGED vars
  BY <1>7 DEF vars, inputs, RsType, InOrder
<1>. QED
  BY <1>1, <1>2, <1>3, <1>4, <1>5, <1>6, <1>7 DEF Next, AppTask

-----------------------------------------------------------------------------
(* The button's reports, the pin and the LED.                              *)
PinType ==
    /\ pin \in BOOLEAN /\ prev \in BOOLEAN /\ hidden \in BOOLEAN
    /\ button_cmd \in Seq({"long", "short"}) /\ Len(button_cmd) <= ButtonSlots
    /\ told \in {"IDLE", "CONNECTED", "ERASE"}
    /\ ConnectionTold

LEMMA PinTyping ==
  ASSUME RequestType, PinType, [Next]_vars
  PROVE  PinType'
<1>. USE SlotsAreNat DEF PinType, Slots, ConnectionTold
<1>1. CASE (\E kind \in Kinds : BleFrame(kind)) \/ RsFrame
  BY <1>1 DEF BleFrame, RsFrame
<1>2. ASSUME NEW hold \in {"long", "short"}, ButtonReport(hold) PROVE PinType'
  <2>1. button_cmd' \in Seq({"long", "short"}) /\ Len(button_cmd') <= ButtonSlots
    BY <1>2, PutType DEF ButtonReport
  <2>. QED
    BY <1>2, <2>1 DEF ButtonReport
<1>3. CASE PinChanges
  BY <1>3 DEF PinChanges
<1>4. CASE Receive
  BY <1>4 DEF Receive
<1>5. CASE Answer
  BY <1>5 DEF Answer
<1>6. CASE Status
  <2>1. told' \in {"IDLE", "CONNECTED", "ERASE"}
    BY <1>6 DEF Status, Shown
  <2>2. hidden' \in BOOLEAN
    BY <1>6 DEF Status
  <2>3. UNCHANGED <<pin, button_cmd>> /\ prev' = pin /\ pc' = "button"
    BY <1>6 DEF Status, inputs
  <2>4. ConnectionTold'
    <3>1. CASE pin # prev
      BY <1>6, <2>3, <3>1 DEF Status
    <3>2. CASE pin = prev
      BY <1>6, <2>3, <3>2 DEF Status
    <3>. QED
      BY <3>1, <3>2
  <2>. QED
    BY <2>1, <2>2, <2>3, <2>4
<1>7. CASE Button
  <2>1. button_cmd' \in Seq({"long", "short"}) /\ Len(button_cmd') <= ButtonSlots
    <3>1. CASE button_cmd = <<>>
      BY <1>7, <3>1 DEF Button
    <3>2. CASE button_cmd # <<>>
      BY <1>7, <3>2, HeadTailType DEF Button
    <3>. QED
      BY <3>1, <3>2
  <2>2. UNCHANGED <<pin, prev, hidden>> /\ pc = "button"
    BY <1>7 DEF Button
  <2>3. (pc' = "erase" /\ told' = "ERASE") \/ told' = told
    BY <1>7 DEF Button
  <2>. QED
    BY <2>1, <2>2, <2>3
<1>8. CASE ResetDone
  BY <1>8 DEF ResetDone, inputs
<1>9. CASE DrainRs
  BY <1>9 DEF DrainRs
<1>10. CASE UNCHANGED vars
  BY <1>10 DEF vars, inputs
<1>. QED
  BY <1>1, <1>2, <1>3, <1>4, <1>5, <1>6, <1>7, <1>8, <1>9, <1>10 DEF Next, AppTask

-----------------------------------------------------------------------------
LEMMA InitType == Init => RequestType /\ RsType /\ InOrder /\ PinType
<1>. SUFFICES ASSUME Init PROVE RequestType /\ RsType /\ InOrder /\ PinType
  OBVIOUS
<1>. USE SlotsAreNat DEF Slots
<1>0. \A S : <<>> \in Seq(S) /\ Len(<<>>) = 0
  OBVIOUS
<1>1. RequestType
  BY <1>0 DEF Init, RequestType
<1>2. RsType /\ InOrder
  <2>1. rs_recv \in Seq(1 .. MaxRs) /\ Len(rs_recv) <= RsSlots
    BY <1>0 DEF Init
  <2>2. reply \in [id : 0 .. LastRequest, rs : 0 .. MaxRs]
    BY DEF Init
  <2>3. RsType
    BY <2>1, <2>2 DEF Init, RsType
  <2>4. Len(rs_recv) = 0 /\ reply.rs = 0 /\ app_rs_buff = 0 /\ messages = 0 /\ ~fresh
    BY <1>0 DEF Init
  <2>. QED
    BY <2>3, <2>4 DEF InOrder
<1>3. PinType
  <2>1. button_cmd \in Seq({"long", "short"}) /\ Len(button_cmd) <= ButtonSlots
    BY <1>0 DEF Init
  <2>2. ConnectionTold
    BY DEF Init, ConnectionTold, Shown
  <2>. QED
    BY <2>1, <2>2 DEF Init, PinType
<1>. QED
  BY <1>1, <1>2, <1>3

LEMMA TypeKept ==
  RequestType /\ RsType /\ InOrder /\ PinType /\ [Next]_vars =>
      (RequestType /\ RsType /\ InOrder /\ PinType)'
  BY RequestTyping, RsTyping, PinTyping

(* The queues stay within their bounds and a request is in work exactly    *)
(* while it is answered.                                                   *)
THEOREM TypeTheorem == Spec => []TypeOK
<1>1. RequestType /\ RsType /\ PinType => TypeOK
  BY DEF RequestType, RsType, PinType, TypeOK
<1>. QED
  BY InitType, TypeKept, <1>1, PTL DEF Spec

(* The LED was last told what the pin last showed, a factory reset aside.  *)
THEOREM ConnectionTheorem == Spec => []ConnectionTold
<1>1. PinType => ConnectionTold
  BY DEF PinType
<1>. QED
  BY InitType, TypeKept, <1>1, PTL DEF Spec

(* Two readers of one queue and one buffer: the answers to RS_RECV still go*)
(* forward, and repeat a message only when none came, for any queue and as *)
(* many messages as are told apart.                                        *)
THEOREM RsTheorem == Spec => RsGoesForward
<1>1. RequestType /\ RsType /\ InOrder /\ [Next]_vars =>
        [pc = "answer" /\ pc' # "answer" /\ app_raw.kind = "RS_RECV" =>
            /\ reply'.rs >= reply.rs
            /\ fresh => reply'.rs > reply.rs \/ reply.rs = MaxRs]_vars
  <2>. SUFFICES ASSUME RequestType, RsType, InOrder, Next,
                       pc = "answer", pc' # "answer", app_raw.kind = "RS_RECV"
                PROVE  reply'.rs >= reply.rs /\ (fresh => reply'.rs > reply.rs \/ reply.rs = MaxRs)
    OBVIOUS
  <2>1. Answer
    BY DEF Next, AppTask, BleFrame, RsFrame, ButtonReport, PinChanges, Receive, Status, Button,
           ResetDone, DrainRs
  <2>2. TakeRs /\ reply' = [id |-> app_raw.id, rs |-> app_rs_buff'] /\ messages' = messages
    BY <2>1 DEF Answer
  <2>3. /\ reply.rs <= app_rs_buff' /\ (fresh => Before(reply.rs, app_rs_buff'))
        /\ app_rs_buff' \in 0 .. MaxRs /\ reply.rs \in 0 .. MaxRs
    BY <2>2, TakeRsKeeps DEF RsType
  <2>. QED
    BY <2>2, <2>3, SlotsAreNat DEF Before, Slots
<1>. QED
  BY InitType, TypeKept, <1>1, PTL DEF Spec, RsGoesForward

-----------------------------------------------------------------------------
(* The loop and the receiver task on either side of the queue: each request*)
(* that found room is worked on once, in order.                            *)
THEOREM RequestTheorem == Spec => ImplementsRequests
<1>1. Init => Requests!Init
  BY DEF Init, Requests!Init
<1>2. RequestType /\ [Next]_vars => [Requests!Next]_<<ble_data_recv, app_raw>>
  <2>. SUFFICES ASSUME RequestType, [Next]_vars
                PROVE  Requests!Next \/ UNCHANGED <<ble_data_recv, app_raw>>
    OBVIOUS
  <2>1. ASSUME NEW kind \in Kinds, BleFrame(kind)
        PROVE  Requests!Next \/ UNCHANGED <<ble_data_recv, app_raw>>
    <3>1. /\ [id |-> requests', kind |-> kind] \in Request
          /\ ble_data_recv' = Append(ble_data_recv, [id |-> requests', kind |-> kind])
      BY <2>1, NewRequest
    <3>2. Requests!Send([id |-> requests', kind |-> kind])
      BY <2>1, <3>1 DEF BleFrame, Requests!Send
    <3>. QED
      BY <3>1, <3>2 DEF Requests!Next
  <2>2. CASE RsFrame \/ (\E hold \in {"long", "short"} : ButtonReport(hold)) \/ PinChanges
    BY <2>2 DEF RsFrame, ButtonReport, PinChanges
  <2>3. CASE Receive
    BY <2>3 DEF Receive, Requests!Next, Requests!Receive
  <2>4. CASE Answer
    BY <2>4 DEF Answer, Requests!Next, Requests!Consume
  <2>5. CASE Status \/ Button \/ ResetDone \/ DrainRs
    BY <2>5 DEF Status, Button, ResetDone, DrainRs, inputs
  <2>6. CASE UNCHANGED vars
    BY <2>6 DEF vars, inputs
  <2>. QED
    BY <2>1, <2>2, <2>3, <2>4, <2>5, <2>6 DEF Next, AppTask
<1>3. RequestType /\ [Next]_vars => RequestType'
  BY RequestTyping
<1>. QED
  BY InitType, <1>1, <1>2, <1>3, PTL DEF Spec, ImplementsRequests, Requests!Spec
=============================================================================
