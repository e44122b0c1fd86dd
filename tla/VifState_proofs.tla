-------------------------- MODULE VifState_proofs --------------------------
(***************************************************************************)
(* For any VAPs, delays, queues and bounds: types, that Wifi_VIF_State has *)
(* the driver's configuration when nothing is under way, and that the end  *)
(* of a push-button session is always noticed.                             *)
(***************************************************************************)
EXTENDS VifState, SequenceTheorems, TLAPS

Updating == {"get_vap", "get_wps", "get_multi_ap", "write"}

LEMMA Delays ==
  /\ DELAY \in Nat /\ SettleMax \in Nat /\ HAL_CB_QUEUE_MAX \in Nat
  /\ SettleMax > 0 => SettleMax < DELAY
  /\ DELAY = 0 => SettleMax = 0
  /\ SessionEnds \subseteq EndEvents /\ NoVap \notin Vaps
<1>1. DELAY \in Nat /\ SettleMax \in Nat
  BY ConstantsAssumption
<1> QED
  BY <1>1, ConstantsAssumption, DelayAssumption DEF EndEvents

-----------------------------------------------------------------------------
(* Types.                                                                  *)

\* One row, one field.
LEMMA RowType ==
  ASSUME NEW f \in [Vaps -> Driver], NEW v \in Vaps, NEW d \in Driver
  PROVE  /\ f[v] \in Driver
         /\ [f EXCEPT ![v] = d] \in [Vaps -> Driver]
         /\ \A b \in BOOLEAN : [d EXCEPT !.pbc = b] \in Driver
         /\ \A b \in BOOLEAN : [d EXCEPT !.wps = b] \in Driver
         /\ \A a \in Addrs : [d EXCEPT !.vlan = a] \in Driver
         /\ \A t \in Types : [d EXCEPT !.type = t] \in Driver
         /\ \A c \in Confs : [d EXCEPT !.conf = c] \in Driver
         /\ d.conf \in Confs /\ d.type \in Types /\ d.vlan \in Addrs
         /\ d.wps \in BOOLEAN /\ d.pbc \in BOOLEAN
  BY DEF Driver

\* A call that fails is noted.
LEMMA FailureType ==
  ASSUME TypeOK, HalCallFails \/ UNCHANGED <<missed, failures>>
  PROVE  missed' \in BOOLEAN /\ failures' \in Nat /\ (missed => missed')
<1>1. failures \in Nat /\ missed \in BOOLEAN
  BY DEF TypeOK
<1>2. failures' = failures \/ failures' = failures + 1
  BY DEF HalCallFails
<1>3. failures' \in Nat
  BY <1>1, <1>2
<1>4. missed' = TRUE \/ missed' = missed
  BY DEF HalCallFails
<1>5. missed' \in BOOLEAN /\ (missed => missed')
  BY <1>1, <1>4, Zenon
<1> QED
  BY <1>3, <1>5

\* vif_state_update begins.
LEMMA UpdateType ==
  ASSUME TypeOK, NEW v \in Vaps, NEW by, StateUpdate(v, by),
         by \in {"instant", "forced", "task", "resync", "multi_ap"}
  PROVE  /\ loop' = "get_vap" /\ upd' \in Vaps /\ upd' # NoVap
         /\ vstate' \in Driver
         /\ caller' \in {"none", "instant", "forced", "task", "resync", "multi_ap"}
  BY Delays, RowType DEF StateUpdate, TypeOK

\* It ends.
LEMMA ReturnType ==
  ASSUME TypeOK, Return, loop \in Updating
  PROVE  /\ loop' \in {"idle", "multi_ap"} /\ upd' = NoVap
         /\ timer' \in [Vaps -> 0 .. DELAY] /\ caller' = "none"
  BY Delays DEF Return, TypeOK, Updating

\* What a request does about the state.
LEMMA Deferred ==
  ASSUME TypeOK, NEW v \in Vaps, vif_state_update_deferred(v)
  PROVE  \/ /\ DELAY # 0 /\ timer' = [timer EXCEPT ![v] = DELAY]
            /\ UNCHANGED <<loop, upd, vstate, caller>>
         \/ DELAY = 0 /\ timer' = timer /\ StateUpdate(v, "instant")
         \/ DELAY # 0 /\ timer' = [timer EXCEPT ![v] = 0] /\ StateUpdate(v, "forced")
<1>1. CASE DELAY = 0
  BY <1>1 DEF vif_state_update_deferred
<1>2. CASE DELAY # 0 /\ timer[v] = 0
  BY <1>2 DEF vif_state_update_deferred, updateVars
<1>3. CASE DELAY # 0 /\ timer[v] # 0
  BY <1>3 DEF vif_state_update_deferred
<1> QED
  BY <1>1, <1>2, <1>3

LEMMA DeferredType ==
  ASSUME TypeOK, loop = "idle", NEW v \in Vaps, vif_state_update_deferred(v)
  PROVE  /\ timer' \in [Vaps -> 0 .. DELAY]
         /\ loop' \in {"idle", "get_vap"} /\ upd' \in Vaps \cup {NoVap}
         /\ upd' = NoVap <=> loop' = "idle"
         /\ vstate' \in Driver
         /\ caller' \in {"none", "instant", "forced", "task", "resync", "multi_ap"}
<1>1. timer' \in [Vaps -> 0 .. DELAY]
  BY Deferred, Delays DEF TypeOK
<1>2. CASE UNCHANGED <<loop, upd, vstate, caller>>
  BY <1>1, <1>2 DEF TypeOK
<1>3. CASE StateUpdate(v, "instant") \/ StateUpdate(v, "forced")
  BY <1>1, <1>3, UpdateType
<1> QED
  BY <1>2, <1>3, Deferred

LEMMA InitTypeOK == Init => TypeOK
<1> SUFFICES ASSUME NEW d \in Driver,
                    /\ hw = [v \in Vaps |-> d]
                    /\ want = [v \in Vaps |-> d.conf]
                    /\ settle = [v \in Vaps |-> 0]
                    /\ wps_hal_init /\ multi_ap_hal_init
                    /\ timer = [v \in Vaps |-> 0]
                    /\ loop = "idle"
                    /\ upd = NoVap /\ vstate = d /\ caller = "none"
                    /\ shown = hw
                    /\ missed = FALSE
                    /\ events = 0 /\ configs = 0 /\ failures = 0
             PROVE  TypeOK
  BY DEF Init
<1>1. hw \in [Vaps -> Driver] /\ want \in [Vaps -> Confs]
  BY DEF Driver
<1>2. settle \in [Vaps -> 0 .. SettleMax] /\ timer \in [Vaps -> 0 .. DELAY]
  BY Delays
<1>3. /\ wpsRaised \in Seq(WpsEvent) /\ mapRaised \in Seq(Vaps)
      /\ hal_cb_wps_queue \in Seq(WpsEvent) /\ hal_cb_multi_ap_queue \in Seq(Vaps)
  BY EmptySeq DEF wps_hal_init, multi_ap_hal_init, WpsQueue!Init, MultiApQueue!Init
<1> QED
  BY <1>1, <1>2, <1>3 DEF TypeOK

LEMMA DriverType == TypeOK /\ DriverStep => TypeOK'
<1> USE DEF driverVars, raisedVars, queueVars, updateVars, boundVars
<1>1. ASSUME TypeOK, DriverEvent PROVE events' \in Nat
  BY <1>1 DEF TypeOK, DriverEvent
<1>2. ASSUME TypeOK, NEW v \in Vaps, NEW e \in EndEvents \cup {"OVERLAP"}, RaiseWps(v, e)
      PROVE  wpsRaised' \in Seq(WpsEvent)
  <2>1. [ssid_index |-> v, event |-> e] \in WpsEvent
    BY DEF WpsEvent, WpsEvents, EndEvents
  <2>2. wpsRaised \in Seq(WpsEvent)
    BY <1>2 DEF TypeOK
  <2> QED
    BY <1>2, <2>1, <2>2, AppendProperties DEF RaiseWps
<1>3. ASSUME TypeOK, NEW v \in Vaps, NEW e \in SessionEnds, PbcEnds(v, e) PROVE TypeOK'
  <2>1. hw' \in [Vaps -> Driver]
    BY <1>3, RowType DEF PbcEnds, TypeOK
  <2>2. wpsRaised' \in Seq(WpsEvent) /\ events' \in Nat
    BY <1>1, <1>2, <1>3, Delays DEF PbcEnds
  <2> QED
    BY <1>3, <2>1, <2>2 DEF PbcEnds, TypeOK
<1>4. ASSUME TypeOK, NEW v \in Vaps, NEW a \in Addrs, VlanChanges(v, a) PROVE TypeOK'
  <2>1. hw' \in [Vaps -> Driver]
    BY <1>4, RowType DEF VlanChanges, TypeOK
  <2>2. mapRaised' \in Seq(Vaps) /\ events' \in Nat
    BY <1>1, <1>4, AppendProperties DEF VlanChanges, TypeOK
  <2> QED
    BY <1>4, <2>1, <2>2 DEF VlanChanges, TypeOK
<1>5. ASSUME TypeOK, NEW v \in Vaps, PbcOverlap(v) PROVE TypeOK'
  <2>1. wpsRaised' \in Seq(WpsEvent) /\ events' \in Nat
    BY <1>1, <1>2, <1>5 DEF PbcOverlap
  <2> QED
    BY <1>5, <2>1 DEF PbcOverlap, TypeOK
<1> QED
  BY <1>3, <1>4, <1>5 DEF DriverStep

\* What vif_config_set_wps leaves when it does anything: ends and starts tell
\* whether a session was cancelled and whether one was started.
WpsSet(v, cancelled, enabled, ends, starts) ==
    /\ hw' = [hw EXCEPT ![v].wps = @ \/ enabled,
                        ![v].pbc = starts \/ (@ /\ ~cancelled)]
    /\ wpsRaised' = wpsRaised
         \o (IF ends THEN <<[ssid_index |-> v, event |-> "DISABLE"]>> ELSE <<>>)
         \o (IF starts THEN <<[ssid_index |-> v, event |-> "ACTIVE"]>> ELSE <<>>)

LEMMA WpsOutcome ==
  ASSUME NEW v, NEW wps \in BOOLEAN, NEW pbc \in BOOLEAN, vif_config_set_wps(v, wps, pbc)
  PROVE  /\ HalCallFails \/ UNCHANGED <<missed, failures>>
         /\ \/ UNCHANGED <<hw, wpsRaised>>
            \/ \E cancelled, enabled, pushed \in BOOLEAN :
                 WpsSet(v, cancelled, enabled, cancelled /\ hw[v].pbc, enabled /\ pushed /\ pbc)
<1>1. CASE ~wps
  BY <1>1, Zenon DEF vif_config_set_wps
<1>2. CASE wps
  BY <1>2, Zenon DEF vif_config_set_wps, WpsSet
<1> QED
  BY <1>1, <1>2

LEMMA ConfigType == TypeOK /\ ConfigStep => TypeOK'
<1> USE DEF driverVars, raisedVars, queueVars, boundVars
<1>1. ASSUME TypeOK PROVE configs + 1 \in Nat
  BY <1>1 DEF TypeOK
<1>2. ASSUME TypeOK, NEW v \in Vaps, NEW c \in Confs, NEW t \in Types, ConfigSet(v, c, t)
      PROVE  TypeOK'
  <2>1. hw' \in [Vaps -> Driver] /\ want' \in [Vaps -> Confs]
        /\ settle' \in [Vaps -> 0 .. SettleMax]
    <3>1. CASE UNCHANGED driverVars
      BY <1>2, <3>1 DEF TypeOK
    <3>2. CASE /\ want' = [want EXCEPT ![v] = c]
               /\ settle' = [settle EXCEPT ![v] = SettleMax]
               /\ hw' = [hw EXCEPT ![v].type = t,
                                   ![v].conf = IF SettleMax = 0 THEN c ELSE @]
      <4>1. hw' \in [Vaps -> Driver]
        BY <1>2, <3>2 DEF TypeOK, Driver
      <4>2. SettleMax \in 0 .. SettleMax
        BY Delays
      <4>3. want' \in [Vaps -> Confs] /\ settle' \in [Vaps -> 0 .. SettleMax]
        BY <1>2, <3>2, <4>2 DEF TypeOK
      <4> QED
        BY <4>1, <4>3
    <3> QED
      BY <1>2, <3>1, <3>2 DEF ConfigSet
  <2>2. /\ timer' \in [Vaps -> 0 .. DELAY]
        /\ loop' \in {"idle", "get_vap"} /\ upd' \in Vaps \cup {NoVap}
        /\ upd' = NoVap <=> loop' = "idle"
        /\ vstate' \in Driver
        /\ caller' \in {"none", "instant", "forced", "task", "resync", "multi_ap"}
    BY <1>2, DeferredType DEF ConfigSet
  <2>3. missed' \in BOOLEAN /\ failures' \in Nat
    BY <1>2, FailureType DEF ConfigSet
  <2>4. /\ configs' = configs + 1
        /\ UNCHANGED <<wpsRaised, mapRaised, hal_cb_wps_queue, hal_cb_multi_ap_queue,
                       shown, events>>
    BY <1>2 DEF ConfigSet
  <2> QED
    BY <1>1, <1>2, <2>1, <2>2, <2>3, <2>4 DEF TypeOK
<1>3. ASSUME TypeOK, NEW v \in Vaps, NEW wps \in BOOLEAN, NEW pbc \in BOOLEAN,
             ConfigSetWps(v, wps, pbc)
      PROVE  TypeOK'
  <2>1. hw' \in [Vaps -> Driver] /\ wpsRaised' \in Seq(WpsEvent)
        /\ missed' \in BOOLEAN /\ failures' \in Nat
    <3>1. vif_config_set_wps(v, wps, pbc)
      BY <1>3 DEF ConfigSetWps
    <3>2. missed' \in BOOLEAN /\ failures' \in Nat
      BY <1>3, <3>1, WpsOutcome, FailureType
    <3>3. CASE UNCHANGED <<hw, wpsRaised>>
      BY <1>3, <3>2, <3>3 DEF TypeOK
    <3>4. ASSUME NEW cancelled \in BOOLEAN, NEW enabled \in BOOLEAN, NEW pushed \in BOOLEAN,
                 WpsSet(v, cancelled, enabled, cancelled /\ hw[v].pbc, enabled /\ pushed /\ pbc)
          PROVE  hw' \in [Vaps -> Driver] /\ wpsRaised' \in Seq(WpsEvent)
      <4>1. hw' \in [Vaps -> Driver]
        BY <1>3, <3>4 DEF WpsSet, TypeOK, Driver
      <4>2. \A e \in WpsEvents : <<[ssid_index |-> v, event |-> e]>> \in Seq(WpsEvent)
        BY DEF WpsEvent
      <4>3. "DISABLE" \in WpsEvents /\ "ACTIVE" \in WpsEvents
            /\ wpsRaised \in Seq(WpsEvent) /\ <<>> \in Seq(WpsEvent)
        BY <1>3, EmptySeq DEF WpsEvents, TypeOK
      <4> DEFINE end == IF cancelled /\ hw[v].pbc
                          THEN <<[ssid_index |-> v, event |-> "DISABLE"]>> ELSE <<>>
                 start == IF enabled /\ pushed /\ pbc
                            THEN <<[ssid_index |-> v, event |-> "ACTIVE"]>> ELSE <<>>
      <4>4. end \in Seq(WpsEvent) /\ start \in Seq(WpsEvent)
        BY <4>2, <4>3
      <4>5. wpsRaised' = wpsRaised \o end \o start
        BY <3>4 DEF WpsSet
      <4> HIDE DEF end, start
      <4>6. wpsRaised' \in Seq(WpsEvent)
        BY <4>3, <4>4, <4>5, ConcatProperties
      <4> QED
        BY <4>1, <4>6
    <3> QED
      BY <3>1, <3>2, <3>3, <3>4, WpsOutcome
  <2>2. /\ timer' \in [Vaps -> 0 .. DELAY]
        /\ loop' \in {"idle", "get_vap"} /\ upd' \in Vaps \cup {NoVap}
        /\ upd' = NoVap <=> loop' = "idle"
        /\ vstate' \in Driver
        /\ caller' \in {"none", "instant", "forced", "task", "resync", "multi_ap"}
    BY <1>3, DeferredType DEF ConfigSetWps
  <2>3. /\ configs' = configs + 1
        /\ UNCHANGED <<want, settle, mapRaised, hal_cb_wps_queue, hal_cb_multi_ap_queue,
                       shown, events>>
    BY <1>3 DEF ConfigSetWps
  <2> QED
    BY <1>1, <1>3, <2>1, <2>2, <2>3 DEF TypeOK
<1> QED
  BY <1>2, <1>3 DEF ConfigStep

LEMMA CallbackType == TypeOK /\ (wps_hal_cb \/ multi_ap_hal_cb) => TypeOK'
<1> USE DEF driverVars, raisedVars, queueVars, updateVars, boundVars
<1>1. ASSUME TypeOK, wps_hal_cb PROVE TypeOK'
  <2>1. wpsRaised \in Seq(WpsEvent) /\ wpsRaised # <<>> /\ hal_cb_wps_queue \in Seq(WpsEvent)
    BY <1>1 DEF wps_hal_cb, TypeOK
  <2>2. Head(wpsRaised) \in WpsEvent /\ Tail(wpsRaised) \in Seq(WpsEvent)
    BY <2>1
  <2>3. hal_cb_wps_queue' \in Seq(WpsEvent)
    <3>1. Append(hal_cb_wps_queue, Head(wpsRaised)) \in Seq(WpsEvent)
      BY <2>1, <2>2, AppendProperties
    <3> QED
      BY <1>1, <2>1, <3>1 DEF wps_hal_cb, WpsQueue!Accept
  <2>4. missed' \in BOOLEAN
    BY <1>1 DEF wps_hal_cb, TypeOK
  <2> QED
    BY <1>1, <2>2, <2>3, <2>4 DEF wps_hal_cb, TypeOK
<1>2. ASSUME TypeOK, multi_ap_hal_cb PROVE TypeOK'
  <2>1. mapRaised \in Seq(Vaps) /\ mapRaised # <<>> /\ hal_cb_multi_ap_queue \in Seq(Vaps)
    BY <1>2 DEF multi_ap_hal_cb, TypeOK
  <2>2. Head(mapRaised) \in Vaps /\ Tail(mapRaised) \in Seq(Vaps)
    BY <2>1
  <2>3. hal_cb_multi_ap_queue' \in Seq(Vaps)
    <3>1. Append(hal_cb_multi_ap_queue, Head(mapRaised)) \in Seq(Vaps)
      BY <2>1, <2>2, AppendProperties
    <3> QED
      BY <1>2, <2>1, <3>1 DEF multi_ap_hal_cb, MultiApQueue!Accept
  <2>4. missed' \in BOOLEAN
    BY <1>2 DEF multi_ap_hal_cb, TypeOK
  <2> QED
    BY <1>2, <2>2, <2>3, <2>4 DEF multi_ap_hal_cb, TypeOK
<1> QED
  BY <1>1, <1>2

LEMMA LoopType == TypeOK /\ (WpsAsync \/ MultiApAsync \/ AsyncStep) => TypeOK'
<1> USE DEF driverVars, raisedVars, queueVars, updateVars, boundVars
<1>1. ASSUME TypeOK, WpsAsync \/ MultiApAsync PROVE TypeOK'
  BY <1>1 DEF WpsAsync, MultiApAsync, TypeOK
<1>2. ASSUME TypeOK, WpsAsyncEnd \/ MultiApAsyncEnd PROVE TypeOK'
  BY <1>2 DEF WpsAsyncEnd, MultiApAsyncEnd, TypeOK
<1>3. ASSUME TypeOK, WpsHandle PROVE TypeOK'
  <2>1. hal_cb_wps_queue \in Seq(WpsEvent) /\ hal_cb_wps_queue # <<>>
        /\ hal_cb_wps_queue' = Tail(hal_cb_wps_queue)
    BY <1>3 DEF WpsHandle, WpsQueue!Deliver, TypeOK
  <2>2. Head(hal_cb_wps_queue) \in WpsEvent /\ hal_cb_wps_queue' \in Seq(WpsEvent)
    BY <2>1
  <2>3. missed' \in BOOLEAN /\ failures' \in Nat
    BY <1>3, FailureType DEF WpsHandle
  <2>4. shown' \in [Vaps -> Driver]
    <3> DEFINE e == Head(hal_cb_wps_queue)
    <3>1. e.ssid_index \in Vaps
      BY <2>2 DEF WpsEvent
    <3>2. \/ shown' = shown
          \/ shown' = [shown EXCEPT ![e.ssid_index].pbc =
                          IF e.event \in EndEvents THEN FALSE ELSE @]
      BY <1>3 DEF WpsHandle
    <3> HIDE DEF e
    <3> DEFINE row == shown[e.ssid_index]
               pbc == IF e.event \in EndEvents THEN FALSE ELSE row.pbc
    <3>3. row \in Driver /\ pbc \in BOOLEAN
      BY <1>3, <3>1, RowType DEF TypeOK
    <3>4. [row EXCEPT !.pbc = pbc] \in Driver
      BY <1>3, <3>1, <3>3, RowType DEF TypeOK
    <3>5. shown' = shown \/ shown' = [shown EXCEPT ![e.ssid_index] = [row EXCEPT !.pbc = pbc]]
      BY <3>2
    <3> HIDE DEF row, pbc
    <3> QED
      BY <1>3, <3>1, <3>4, <3>5 DEF TypeOK
  <2> QED
    BY <1>3, <2>2, <2>3, <2>4 DEF WpsHandle, TypeOK
<1>4. ASSUME TypeOK, MultiApHandle PROVE TypeOK'
  <2>1. hal_cb_multi_ap_queue \in Seq(Vaps) /\ hal_cb_multi_ap_queue # <<>>
        /\ hal_cb_multi_ap_queue' = Tail(hal_cb_multi_ap_queue)
    BY <1>4 DEF MultiApHandle, MultiApQueue!Deliver, TypeOK
  <2>2. Head(hal_cb_multi_ap_queue) \in Vaps /\ hal_cb_multi_ap_queue' \in Seq(Vaps)
    BY <2>1
  <2>3. missed' \in BOOLEAN /\ failures' \in Nat
    BY <1>4, FailureType DEF MultiApHandle
  <2>4. CASE StateUpdate(Head(hal_cb_multi_ap_queue), "multi_ap")
    <3>1. /\ loop' = "get_vap" /\ upd' \in Vaps /\ upd' # NoVap /\ vstate' \in Driver
          /\ caller' \in {"none", "instant", "forced", "task", "resync", "multi_ap"}
      BY <1>4, <2>2, <2>4, UpdateType
    <3> QED
      BY <1>4, <2>2, <2>3, <3>1 DEF MultiApHandle, TypeOK
  <2>5. CASE UNCHANGED <<loop, updateVars>>
    BY <1>4, <2>2, <2>3, <2>5 DEF MultiApHandle, TypeOK
  <2> QED
    BY <1>4, <2>4, <2>5 DEF MultiApHandle
<1> QED
  BY <1>1, <1>2, <1>3, <1>4 DEF AsyncStep

LEMMA UpdateStepType == TypeOK /\ UpdateStep => TypeOK'
<1> SUFFICES ASSUME TypeOK, UpdateStep PROVE TypeOK'
  OBVIOUS
<1> USE DEF driverVars, raisedVars, queueVars, boundVars
<1>1. loop \in Updating /\ upd \in Vaps
  BY DEF UpdateStep, StateGetVap, wps_to_state, multi_ap_to_state, StateWrite, TypeOK,
         Updating
<1>2. missed' \in BOOLEAN /\ failures' \in Nat
  BY FailureType DEF UpdateStep, StateGetVap, wps_to_state, multi_ap_to_state, StateWrite
<1>3. /\ hw[upd] \in Driver /\ hw[upd].conf \in Confs /\ hw[upd].type \in Types
      /\ hw[upd].vlan \in Addrs /\ hw[upd].wps \in BOOLEAN /\ hw[upd].pbc \in BOOLEAN
  BY <1>1, RowType DEF TypeOK
<1>4. CASE StateGetVap
  <2>1. CASE vstate' = [vstate EXCEPT !.conf = hw[upd].conf] /\ loop' = "get_wps"
             /\ UNCHANGED <<timer, upd, caller>>
    <3>1. vstate' \in Driver
      BY <1>3, <2>1 DEF TypeOK, Driver
    <3> QED
      BY <1>1, <1>2, <1>4, <2>1, <3>1, Delays DEF StateGetVap, TypeOK
  <2>2. CASE Return /\ UNCHANGED vstate
    BY <1>1, <1>2, <1>4, <2>2, ReturnType DEF StateGetVap, TypeOK
  <2> QED
    BY <1>4, <2>1, <2>2 DEF StateGetVap
<1>5. CASE wps_to_state
  <2>1. vstate' \in Driver
    <3>1. \/ vstate' = [vstate EXCEPT !.wps = hw[upd].wps, !.pbc = hw[upd].pbc]
          \/ vstate' = [vstate EXCEPT !.pbc = hw[upd].pbc]
          \/ vstate' = [vstate EXCEPT !.wps = hw[upd].wps]
          \/ vstate' = vstate
      BY <1>5 DEF wps_to_state
    <3> QED
      BY <1>3, <3>1 DEF TypeOK, Driver
  <2> QED
    BY <1>1, <1>2, <1>5, <2>1, Delays DEF wps_to_state, TypeOK
<1>6. CASE multi_ap_to_state
  <2>1. vstate' \in Driver
    <3>1. \/ vstate' = [vstate EXCEPT !.type = hw[upd].type, !.vlan = hw[upd].vlan]
          \/ vstate' = [vstate EXCEPT !.type = hw[upd].type]
          \/ vstate' = vstate
      BY <1>6 DEF multi_ap_to_state
    <3> QED
      BY <1>3, <3>1 DEF TypeOK, Driver
  <2> QED
    BY <1>1, <1>2, <1>6, <2>1, Delays DEF multi_ap_to_state, TypeOK
<1>7. CASE StateWrite
  <2>1. shown' \in [Vaps -> Driver]
    BY <1>1, <1>7 DEF StateWrite, TypeOK
  <2>2. /\ loop' \in {"idle", "multi_ap"} /\ upd' = NoVap
        /\ timer' \in [Vaps -> 0 .. DELAY] /\ caller' = "none"
    BY <1>1, <1>7, ReturnType DEF StateWrite
  <2> QED
    BY <1>2, <1>7, <2>1, <2>2 DEF StateWrite, TypeOK
<1> QED
  BY <1>4, <1>5, <1>6, <1>7 DEF UpdateStep

LEMMA TimeType ==
  TypeOK /\ (Tick \/ \E v \in Vaps : Settle(v) \/ vif_state_update_task(v) \/ Resync(v))
     => TypeOK'
<1> USE DEF driverVars, raisedVars, queueVars, updateVars, boundVars
<1>1. ASSUME TypeOK, Tick PROVE TypeOK'
  <2>1. ASSUME NEW max \in Nat, NEW n \in 0 .. max
        PROVE  (IF n = 0 THEN 0 ELSE n - 1) \in 0 .. max
    OBVIOUS
  <2>2. timer' \in [Vaps -> 0 .. DELAY]
    BY <1>1, <2>1, Delays DEF Tick, TypeOK
  <2>3. settle' \in [Vaps -> 0 .. SettleMax]
    BY <1>1, <2>1, Delays DEF Tick, TypeOK
  <2> QED
    BY <1>1, <2>2, <2>3 DEF Tick, TypeOK
<1>2. ASSUME TypeOK, NEW v \in Vaps, Settle(v) PROVE TypeOK'
  <2>1. hw' \in [Vaps -> Driver] /\ settle' \in [Vaps -> 0 .. SettleMax]
    <3>1. want[v] \in Confs
      BY <1>2 DEF TypeOK
    <3>2. hw' \in [Vaps -> Driver]
      BY <1>2, <3>1 DEF Settle, TypeOK, Driver
    <3> QED
      BY <1>2, <3>2, Delays DEF Settle, TypeOK
  <2> QED
    BY <1>2, <2>1 DEF Settle, TypeOK
<1>3. ASSUME TypeOK, NEW v \in Vaps, vif_state_update_task(v) \/ Resync(v) PROVE TypeOK'
  <2>1. /\ loop' = "get_vap" /\ upd' \in Vaps /\ upd' # NoVap /\ vstate' \in Driver
        /\ caller' \in {"none", "instant", "forced", "task", "resync", "multi_ap"}
    BY <1>3, UpdateType DEF vif_state_update_task, Resync
  <2>2. timer' \in [Vaps -> 0 .. DELAY]
    <3>1. 0 \in 0 .. DELAY /\ timer \in [Vaps -> 0 .. DELAY]
      BY <1>3, Delays DEF TypeOK
    <3>2. timer' = timer \/ timer' = [timer EXCEPT ![v] = 0]
      BY <1>3 DEF vif_state_update_task, Resync
    <3> QED
      BY <3>1, <3>2
  <2> QED
    BY <1>3, <2>1, <2>2 DEF vif_state_update_task, Resync, TypeOK
<1> QED
  BY <1>1, <1>2, <1>3

LEMMA NextTypeOK == TypeOK /\ [Next]_vars => TypeOK'
<1>1. TypeOK /\ UNCHANGED vars => TypeOK'
  BY DEF vars, driverVars, raisedVars, queueVars, updateVars, boundVars, TypeOK
<1> QED
  BY <1>1, DriverType, ConfigType, CallbackType, LoopType, UpdateStepType, TimeType DEF Next

-----------------------------------------------------------------------------
(* The configuration.  While the driver has not applied a configuration,   *)
(* the VAP's timer has longer to run, or the update that will start it     *)
(* anew is under way.  Without either, the row agrees with the driver, and *)
(* an update of the row has read what the driver still has.                *)

Forced(v) == upd = v /\ caller = "forced"

Agree(row, d) == row.conf = d.conf /\ row.type = d.type /\ row.wps = d.wps

\* What the update has read so far.
Fresh(v) ==
    /\ loop # "get_vap" => vstate.conf = hw[v].conf
    /\ loop \in {"get_multi_ap", "write"} => vstate.wps = hw[v].wps
    /\ loop = "write" => vstate.type = hw[v].type

Waited(v) == settle[v] > 0 => timer[v] > settle[v] \/ Forced(v)

Followed(v) ==
    ~missed /\ timer[v] = 0 /\ ~Forced(v)
      => /\ upd # v => Agree(shown[v], hw[v])
         /\ upd = v => Fresh(v)

\* Only a timer that was running is started anew.
ForcedInv == caller = "forced" => DELAY > 0

ConfInv == ForcedInv /\ \A v \in Vaps : Waited(v) /\ Followed(v)

\* Steps that do not touch what the invariant is about.
LEMMA Undisturbed ==
  ASSUME ConfInv, TypeOK,
         \A v \in Vaps : /\ hw'[v].conf = hw[v].conf /\ hw'[v].type = hw[v].type
                         /\ hw'[v].wps = hw[v].wps
                         /\ shown'[v].conf = shown[v].conf /\ shown'[v].type = shown[v].type
                         /\ shown'[v].wps = shown[v].wps,
         UNCHANGED <<settle, timer, upd, caller, vstate>>,
         loop' = loop \/ upd = NoVap,
         missed => missed'
  PROVE  ConfInv'
<1>1. ForcedInv'
  BY DEF ConfInv, ForcedInv
<1>2. ASSUME NEW v \in Vaps PROVE Waited(v)' /\ Followed(v)'
  <2>1. Waited(v) /\ Followed(v) /\ v # NoVap
    BY Delays DEF ConfInv
  <2>2. Forced(v)' <=> Forced(v)
    BY DEF Forced
  <2>3. Waited(v)'
    BY <2>1, <2>2 DEF Waited
  <2>4. Followed(v)'
    BY <2>1, <2>2 DEF Followed, Agree, Fresh
  <2> QED
    BY <2>3, <2>4
<1> QED
  BY <1>1, <1>2 DEF ConfInv

\* The other fields of a row.
SameConf(f, g) ==
    \A v \in Vaps : /\ g[v].conf = f[v].conf /\ g[v].type = f[v].type
                    /\ g[v].wps = f[v].wps

LEMMA OtherFields ==
  ASSUME NEW f \in [Vaps -> Driver], NEW v, NEW x
  PROVE  SameConf(f, [f EXCEPT ![v].pbc = x]) /\ SameConf(f, [f EXCEPT ![v].vlan = x])
<1>1. \A d \in Driver : /\ [d EXCEPT !.pbc = x].conf = d.conf
                        /\ [d EXCEPT !.pbc = x].type = d.type
                        /\ [d EXCEPT !.pbc = x].wps = d.wps
                        /\ [d EXCEPT !.vlan = x].conf = d.conf
                        /\ [d EXCEPT !.vlan = x].type = d.type
                        /\ [d EXCEPT !.vlan = x].wps = d.wps
  BY DEF Driver
<1> QED
  BY <1>1 DEF SameConf

LEMMA DriverConf == TypeOK /\ ConfInv /\ DriverStep => ConfInv'
<1> SUFFICES ASSUME TypeOK, ConfInv, DriverStep PROVE ConfInv'
  OBVIOUS
<1> USE DEF updateVars
<1>1. \/ hw' = hw
      \/ \E v \in Vaps : hw' = [hw EXCEPT ![v].pbc = FALSE]
      \/ \E v \in Vaps, a \in Addrs : hw' = [hw EXCEPT ![v].vlan = a]
  BY DEF DriverStep, PbcEnds, VlanChanges, PbcOverlap, driverVars
<1>2. SameConf(hw, hw')
  <2>1. CASE hw' = hw
    BY <2>1 DEF SameConf
  <2>2. ASSUME NEW v \in Vaps, hw' = [hw EXCEPT ![v].pbc = FALSE] PROVE SameConf(hw, hw')
    BY <2>2, OtherFields DEF TypeOK
  <2>3. ASSUME NEW v \in Vaps, NEW a \in Addrs, hw' = [hw EXCEPT ![v].vlan = a]
        PROVE  SameConf(hw, hw')
    BY <2>3, OtherFields DEF TypeOK
  <2> QED
    BY <1>1, <2>1, <2>2, <2>3
<1>3. UNCHANGED <<shown, settle, timer, upd, caller, vstate, loop, missed>>
  BY DEF DriverStep, PbcEnds, VlanChanges, PbcOverlap, driverVars
<1> QED
  BY <1>2, <1>3, Undisturbed DEF SameConf

LEMMA EventsConf ==
  TypeOK /\ ConfInv /\ (\/ wps_hal_cb \/ multi_ap_hal_cb \/ WpsAsync \/ MultiApAsync
                        \/ WpsHandle \/ WpsAsyncEnd \/ MultiApAsyncEnd) => ConfInv'
<1> USE DEF driverVars, updateVars
<1>1. ASSUME TypeOK, ConfInv, wps_hal_cb \/ multi_ap_hal_cb PROVE ConfInv'
  <2>1. UNCHANGED <<hw, shown, settle, timer, upd, caller, vstate, loop>>
        /\ (missed => missed')
    BY <1>1 DEF wps_hal_cb, multi_ap_hal_cb
  <2> QED
    BY <1>1, <2>1, Undisturbed
<1>2. ASSUME TypeOK, ConfInv, WpsAsync \/ MultiApAsync \/ WpsAsyncEnd \/ MultiApAsyncEnd
      PROVE  ConfInv'
  <2>1. UNCHANGED <<hw, shown, settle, timer, upd, caller, vstate, missed>>
    BY <1>2 DEF WpsAsync, MultiApAsync, WpsAsyncEnd, MultiApAsyncEnd
  <2>2. upd = NoVap
    BY <1>2 DEF WpsAsync, MultiApAsync, WpsAsyncEnd, MultiApAsyncEnd, TypeOK
  <2> QED
    BY <1>2, <2>1, <2>2, Undisturbed
<1>3. ASSUME TypeOK, ConfInv, WpsHandle PROVE ConfInv'
  <2> DEFINE e == Head(hal_cb_wps_queue)
             pbc == IF e.event \in EndEvents THEN FALSE ELSE shown[e.ssid_index].pbc
  <2>1. shown' = shown \/ shown' = [shown EXCEPT ![e.ssid_index].pbc = pbc]
    BY <1>3 DEF WpsHandle
  <2> HIDE DEF e, pbc
  <2>2. SameConf(shown, shown')
    <3>1. CASE shown' = shown
      BY <3>1 DEF SameConf
    <3>2. CASE shown' = [shown EXCEPT ![e.ssid_index].pbc = pbc]
      BY <1>3, <3>2, OtherFields DEF TypeOK
    <3> QED
      BY <2>1, <3>1, <3>2
  <2>3. UNCHANGED <<hw, settle, timer, upd, caller, vstate, loop>> /\ (missed => missed')
    BY <1>3, FailureType DEF WpsHandle
  <2> QED
    BY <1>3, <2>2, <2>3, Undisturbed DEF SameConf
<1> QED
  BY <1>1, <1>2, <1>3

\* A request for v; other VAPs are not concerned, and v is waited for or, when
\* there is no delay, read at once.
LEMMA ConfigConf == TypeOK /\ ConfInv /\ ConfigStep => ConfInv'
<1> SUFFICES ASSUME TypeOK, ConfInv, ConfigStep PROVE ConfInv'
  OBVIOUS
<1>1. PICK v \in Vaps : \/ \E c \in Confs, t \in Types : ConfigSet(v, c, t)
                        \/ \E wps, pbc \in BOOLEAN : ConfigSetWps(v, wps, pbc)
  BY DEF ConfigStep
<1>2. loop = "idle" /\ upd = NoVap /\ shown' = shown /\ vif_state_update_deferred(v)
  BY <1>1 DEF ConfigSet, ConfigSetWps, TypeOK
<1>3. /\ (missed => missed') /\ settle' \in [Vaps -> 0 .. SettleMax]
      /\ \A u \in Vaps \ {v} : hw'[u] = hw[u] /\ settle'[u] = settle[u]
  <2>1. ASSUME NEW c \in Confs, NEW t \in Types, ConfigSet(v, c, t)
        PROVE  /\ (missed => missed') /\ settle' \in [Vaps -> 0 .. SettleMax]
               /\ \A u \in Vaps \ {v} : hw'[u] = hw[u] /\ settle'[u] = settle[u]
    <3>1. missed => missed'
      BY <2>1, FailureType DEF ConfigSet
    <3>2. CASE UNCHANGED driverVars
      BY <3>1, <3>2 DEF driverVars, TypeOK
    <3>3. CASE /\ settle' = [settle EXCEPT ![v] = SettleMax]
               /\ hw' = [hw EXCEPT ![v].type = t,
                                   ![v].conf = IF SettleMax = 0 THEN c ELSE @]
      <4>1. \A u \in Vaps \ {v} : hw'[u] = hw[u] /\ settle'[u] = settle[u]
        BY <3>3 DEF TypeOK
      <4>2. SettleMax \in 0 .. SettleMax
        BY Delays
      <4>3. settle' \in [Vaps -> 0 .. SettleMax]
        BY <3>3, <4>2 DEF TypeOK
      <4> QED
        BY <3>1, <4>1, <4>3
    <3> QED
      BY <2>1, <3>2, <3>3 DEF ConfigSet
  <2>2. ASSUME NEW wps \in BOOLEAN, NEW pbc \in BOOLEAN, ConfigSetWps(v, wps, pbc)
        PROVE  /\ (missed => missed') /\ settle' \in [Vaps -> 0 .. SettleMax]
               /\ \A u \in Vaps \ {v} : hw'[u] = hw[u] /\ settle'[u] = settle[u]
    <3>1. missed => missed'
      BY <2>2, WpsOutcome, FailureType DEF ConfigSetWps
    <3>2. settle' = settle
      BY <2>2 DEF ConfigSetWps
    <3>3. ASSUME NEW cancelled \in BOOLEAN, NEW enabled \in BOOLEAN, NEW ends, NEW starts,
                 WpsSet(v, cancelled, enabled, ends, starts)
          PROVE  \A u \in Vaps \ {v} : hw'[u] = hw[u]
      BY <3>3 DEF WpsSet, TypeOK
    <3>4. \A u \in Vaps \ {v} : hw'[u] = hw[u]
      <4>1. \/ UNCHANGED <<hw, wpsRaised>>
            \/ \E cancelled, enabled, pushed \in BOOLEAN :
                 WpsSet(v, cancelled, enabled, cancelled /\ hw[v].pbc, enabled /\ pushed /\ pbc)
        BY <2>2, WpsOutcome DEF ConfigSetWps
      <4> QED
        BY <3>3, <4>1, Zenon
    <3> QED
      BY <3>1, <3>2, <3>4 DEF TypeOK
  <2> QED
    BY <1>1, <2>1, <2>2
<1>4. timer \in [Vaps -> 0 .. DELAY] /\ settle[v] \in 0 .. SettleMax
      /\ settle'[v] \in 0 .. SettleMax
  BY <1>3 DEF TypeOK
<1>5. ASSUME NEW u \in Vaps \ {v} PROVE Waited(u)' /\ Followed(u)'
  <2>1. timer'[u] = timer[u] /\ upd' # u /\ upd # u
    BY <1>2, <1>4, Deferred, Delays DEF StateUpdate
  <2>2. Waited(u) /\ Followed(u) /\ ~Forced(u) /\ ~Forced(u)'
    BY <2>1 DEF ConfInv, Forced
  <2> QED
    BY <1>2, <1>3, <2>1, <2>2 DEF Waited, Followed
<1>6. Waited(v)' /\ Followed(v)' /\ ForcedInv'
  <2>1. CASE DELAY # 0 /\ timer' = [timer EXCEPT ![v] = DELAY]
             /\ UNCHANGED <<loop, upd, vstate, caller>>
    <3>1. timer'[v] = DELAY
      BY <1>4, <2>1
    <3> QED
      BY <1>4, <2>1, <3>1, Delays DEF Waited, Followed, ForcedInv, ConfInv
  <2>2. CASE DELAY = 0 /\ timer' = timer /\ StateUpdate(v, "instant")
    <3>1. settle'[v] = 0 /\ upd' = v /\ loop' = "get_vap" /\ caller' = "instant"
      BY <1>4, <2>2, Delays DEF StateUpdate
    <3> QED
      BY <3>1 DEF Waited, Followed, ForcedInv, Fresh
  <2>3. CASE DELAY # 0 /\ timer' = [timer EXCEPT ![v] = 0] /\ StateUpdate(v, "forced")
    <3>1. upd' = v /\ caller' = "forced"
      BY <2>3 DEF StateUpdate
    <3> QED
      BY <2>3, <3>1, Delays DEF Waited, Followed, ForcedInv, Forced
  <2> QED
    BY <1>2, <2>1, <2>2, <2>3, Deferred
<1> QED
  BY <1>5, <1>6 DEF ConfInv

\* An update begins for another reason than a request.
LEMMA BeginConf ==
  ASSUME TypeOK, ConfInv, upd = NoVap, NEW v \in Vaps, NEW by \in {"task", "resync", "multi_ap"},
         StateUpdate(v, by), UNCHANGED <<hw, settle, shown>>, missed => missed',
         timer' = timer \/ (timer[v] = 1 /\ timer' = [timer EXCEPT ![v] = 0])
  PROVE  ConfInv'
<1>1. upd' = v /\ loop' = "get_vap" /\ caller' = by /\ v # NoVap
  BY Delays DEF StateUpdate
<1>2. ForcedInv'
  BY <1>1 DEF ForcedInv
<1>3. ASSUME NEW u \in Vaps PROVE Waited(u)' /\ Followed(u)'
  <2>1. Waited(u) /\ Followed(u) /\ ~Forced(u) /\ ~Forced(u)' /\ u # NoVap
    BY <1>1, Delays DEF ConfInv, Forced
  <2>2. timer[u] \in Nat /\ settle[u] \in Nat
    BY Delays DEF TypeOK
  <2>3. timer'[u] = timer[u] \/ (u = v /\ timer[u] = 1 /\ timer'[u] = 0)
    BY DEF TypeOK
  <2>4. Waited(u)'
    BY <2>1, <2>2, <2>3 DEF Waited
  <2>5. CASE u = v
    BY <1>1, <2>4, <2>5 DEF Followed, Fresh
  <2>6. CASE u # v
    BY <1>1, <2>1, <2>3, <2>4, <2>6 DEF Followed
  <2> QED
    BY <2>5, <2>6
<1> QED
  BY <1>2, <1>3 DEF ConfInv

LEMMA BeginStepConf ==
  TypeOK /\ ConfInv /\ (MultiApHandle \/ \E v \in Vaps : vif_state_update_task(v) \/ Resync(v))
     => ConfInv'
<1> USE DEF driverVars, updateVars
<1>1. ASSUME TypeOK, ConfInv, MultiApHandle PROVE ConfInv'
  <2>1. upd = NoVap /\ UNCHANGED <<hw, settle, shown, timer>> /\ (missed => missed')
    BY <1>1, FailureType DEF MultiApHandle, TypeOK
  <2>2. CASE UNCHANGED <<loop, updateVars>>
    BY <1>1, <2>1, <2>2, Undisturbed
  <2>3. CASE StateUpdate(Head(hal_cb_multi_ap_queue), "multi_ap")
    <3>1. Head(hal_cb_multi_ap_queue) \in Vaps
      <4>1. hal_cb_multi_ap_queue \in Seq(Vaps) /\ hal_cb_multi_ap_queue # <<>>
        BY <1>1 DEF MultiApHandle, MultiApQueue!Deliver, TypeOK
      <4> QED
        BY <4>1
    <3> QED
      BY <1>1, <2>1, <2>3, <3>1, BeginConf
  <2> QED
    BY <1>1, <2>2, <2>3 DEF MultiApHandle
<1>2. ASSUME TypeOK, ConfInv, NEW v \in Vaps, vif_state_update_task(v) PROVE ConfInv'
  BY <1>2, BeginConf DEF vif_state_update_task, TypeOK
<1>3. ASSUME TypeOK, ConfInv, NEW v \in Vaps, Resync(v) PROVE ConfInv'
  BY <1>3, BeginConf DEF Resync, TypeOK
<1> QED
  BY <1>1, <1>2, <1>3

\* The steps of an update.
LEMMA ReturnConf ==
  ASSUME TypeOK, ConfInv, Return, loop \in Updating, UNCHANGED <<hw, settle>>,
         missed => missed',
         \/ missed'
         \/ loop = "write" /\ shown' = [shown EXCEPT ![upd] = vstate]
  PROVE  ConfInv'
<1>1. upd \in Vaps /\ upd # NoVap /\ upd' = NoVap /\ caller' = "none"
  BY Delays DEF Return, TypeOK, Updating
<1>2. ForcedInv'
  BY <1>1 DEF ForcedInv
<1>3. ASSUME NEW u \in Vaps PROVE Waited(u)' /\ Followed(u)'
  <2>1. Waited(u) /\ Followed(u) /\ ~Forced(u)' /\ u # NoVap
    BY <1>1, Delays DEF ConfInv, Forced
  <2>2. settle[u] \in 0 .. SettleMax /\ timer[u] \in Nat
    BY Delays DEF TypeOK
  <2>3. /\ ~Forced(u) => timer'[u] = timer[u]
        /\ Forced(u) => timer'[u] = DELAY /\ DELAY > 0
    BY <1>1 DEF Return, Forced, TypeOK, ConfInv, ForcedInv
  <2>4. Waited(u)'
    <3>1. CASE Forced(u)
      BY <2>2, <2>3, <3>1, Delays DEF Waited
    <3>2. CASE ~Forced(u)
      BY <2>1, <2>3, <3>2 DEF Waited
    <3> QED
      BY <3>1, <3>2
  <2>5. Followed(u)'
    <3>1. SUFFICES ASSUME ~missed', timer'[u] = 0 PROVE Agree(shown'[u], hw'[u])
      BY <1>1, <2>1 DEF Followed
    <3>2. ~missed /\ ~Forced(u) /\ timer[u] = 0 /\ loop = "write"
          /\ shown' = [shown EXCEPT ![upd] = vstate]
      BY <2>3, <3>1
    <3>3. CASE u = upd
      BY <1>1, <2>1, <3>2, <3>3 DEF Followed, Fresh, Agree, TypeOK
    <3>4. CASE u # upd
      BY <2>1, <3>2, <3>4 DEF Followed, TypeOK
    <3> QED
      BY <3>3, <3>4
  <2> QED
    BY <2>4, <2>5
<1> QED
  BY <1>2, <1>3 DEF ConfInv

\* One more part is read.
LEMMA ReadConf ==
  ASSUME TypeOK, ConfInv, loop \in Updating, UNCHANGED <<hw, settle, shown, timer, upd, caller>>,
         missed => missed', ~missed' /\ Fresh(upd) => Fresh(upd)'
  PROVE  ConfInv'
<1>1. upd \in Vaps /\ ForcedInv'
  BY Delays DEF TypeOK, Updating, ConfInv, ForcedInv
<1>2. ASSUME NEW u \in Vaps PROVE Waited(u)' /\ Followed(u)'
  <2>1. Waited(u) /\ Followed(u) /\ (Forced(u)' <=> Forced(u))
    BY DEF ConfInv, Forced
  <2>2. Waited(u)'
    BY <2>1 DEF Waited
  <2>3. u = upd => Fresh(u)' = Fresh(upd)'
    BY DEF Fresh
  <2>4. Followed(u)'
    BY <2>1, <2>3 DEF Followed
  <2> QED
    BY <2>2, <2>4
<1> QED
  BY <1>1, <1>2 DEF ConfInv

LEMMA UpdateStepConf == TypeOK /\ ConfInv /\ UpdateStep => ConfInv'
<1> SUFFICES ASSUME TypeOK, ConfInv, UpdateStep PROVE ConfInv'
  OBVIOUS
<1> USE DEF driverVars
<1>1. loop \in Updating /\ vstate \in Driver
  BY DEF UpdateStep, StateGetVap, wps_to_state, multi_ap_to_state, StateWrite, TypeOK,
         Updating
<1>2. missed => missed'
  BY FailureType DEF UpdateStep, StateGetVap, wps_to_state, multi_ap_to_state, StateWrite
<1>3. CASE StateGetVap
  <2>1. CASE Return /\ HalCallFails
    BY <1>1, <1>2, <1>3, <2>1, ReturnConf DEF StateGetVap, HalCallFails
  <2>2. CASE vstate' = [vstate EXCEPT !.conf = hw[upd].conf] /\ loop' = "get_wps"
             /\ UNCHANGED <<timer, upd, caller, missed>>
    <3>1. vstate'.conf = hw[upd].conf
      BY <1>1, <2>2 DEF Driver
    <3>2. Fresh(upd)'
      BY <1>3, <2>2, <3>1 DEF Fresh, StateGetVap
    <3> QED
      BY <1>1, <1>2, <1>3, <2>2, <3>2, ReadConf DEF StateGetVap
  <2> QED
    BY <1>3, <2>1, <2>2 DEF StateGetVap
<1>4. CASE wps_to_state
  <2>1. ~missed' => vstate' = [vstate EXCEPT !.wps = hw[upd].wps, !.pbc = hw[upd].pbc]
    BY <1>4 DEF wps_to_state, HalCallFails
  <2>2. ~missed' => vstate'.wps = hw[upd].wps /\ vstate'.conf = vstate.conf
    BY <1>1, <2>1 DEF Driver
  <2>3. ~missed' /\ Fresh(upd) => Fresh(upd)'
    BY <1>4, <2>2 DEF Fresh, wps_to_state
  <2> QED
    BY <1>1, <1>2, <1>4, <2>3, ReadConf DEF wps_to_state
<1>5. CASE multi_ap_to_state
  <2>1. ~missed' => vstate' = [vstate EXCEPT !.type = hw[upd].type, !.vlan = hw[upd].vlan]
    BY <1>5 DEF multi_ap_to_state, HalCallFails
  <2>2. ~missed' => vstate'.type = hw[upd].type /\ vstate'.wps = vstate.wps
                    /\ vstate'.conf = vstate.conf
    BY <1>1, <2>1 DEF Driver
  <2>3. ~missed' /\ Fresh(upd) => Fresh(upd)'
    BY <1>5, <2>2 DEF Fresh, multi_ap_to_state
  <2> QED
    BY <1>1, <1>2, <1>5, <2>3, ReadConf DEF multi_ap_to_state
<1>6. CASE StateWrite
  BY <1>1, <1>2, <1>6, ReturnConf DEF StateWrite, HalCallFails
<1> QED
  BY <1>3, <1>4, <1>5, <1>6 DEF UpdateStep

LEMMA TickConf == TypeOK /\ ConfInv /\ Tick => ConfInv'
<1> SUFFICES ASSUME TypeOK, ConfInv, Tick PROVE ConfInv'
  OBVIOUS
<1>1. UNCHANGED <<hw, shown, loop, upd, vstate, caller, missed>>
  BY DEF Tick, updateVars
<1>2. ForcedInv'
  BY <1>1 DEF ConfInv, ForcedInv
<1>3. ASSUME NEW u \in Vaps PROVE Waited(u)' /\ Followed(u)'
  <2>1. Waited(u) /\ Followed(u) /\ (Forced(u)' <=> Forced(u)) /\ (Fresh(u)' <=> Fresh(u))
    BY <1>1 DEF ConfInv, Forced, Fresh
  <2>2. timer[u] \in Nat /\ settle[u] \in Nat /\ timer[u] # 1 /\ settle[u] # 1
    BY Delays DEF TypeOK, Tick
  <2>3. /\ timer'[u] = IF timer[u] = 0 THEN 0 ELSE timer[u] - 1
        /\ settle'[u] = IF settle[u] = 0 THEN 0 ELSE settle[u] - 1
    BY DEF Tick
  <2>4. Waited(u)'
    BY <2>1, <2>2, <2>3 DEF Waited
  <2>5. timer'[u] = 0 => timer[u] = 0
    BY <2>2, <2>3
  <2>6. Followed(u)'
    BY <1>1, <2>1, <2>5 DEF Followed
  <2> QED
    BY <2>4, <2>6
<1> QED
  BY <1>2, <1>3 DEF ConfInv

\* The driver applies the configuration of v, whose timer still runs.
LEMMA SettleConf == TypeOK /\ ConfInv /\ (\E v \in Vaps : Settle(v)) => ConfInv'
<1> SUFFICES ASSUME TypeOK, ConfInv, NEW v \in Vaps, Settle(v) PROVE ConfInv'
  OBVIOUS
<1>1. UNCHANGED <<shown, timer, loop, upd, vstate, caller, missed>>
  BY DEF Settle, updateVars
<1>2. ForcedInv'
  BY <1>1 DEF ConfInv, ForcedInv
<1>3. ASSUME NEW u \in Vaps PROVE Waited(u)' /\ Followed(u)'
  <2>1. Waited(u) /\ Followed(u) /\ (Forced(u)' <=> Forced(u))
    BY <1>1 DEF ConfInv, Forced
  <2>2. CASE u = v
    <3>1. settle'[u] = 0 /\ settle[u] > 0 /\ settle[u] \in Nat /\ timer[u] \in Nat
      BY <2>2, Delays DEF Settle, TypeOK
    <3>2. timer[u] > settle[u] \/ Forced(u)
      BY <2>1, <3>1 DEF Waited
    <3> QED
      BY <1>1, <2>1, <3>1, <3>2 DEF Waited, Followed
  <2>3. CASE u # v
    <3>1. settle'[u] = settle[u] /\ hw'[u] = hw[u]
      BY <2>3 DEF Settle, TypeOK
    <3> QED
      BY <1>1, <2>1, <3>1 DEF Waited, Followed, Fresh
  <2> QED
    BY <2>2, <2>3
<1> QED
  BY <1>2, <1>3 DEF ConfInv

LEMMA NextConf == TypeOK /\ ConfInv /\ [Next]_vars => ConfInv'
<1>1. ASSUME TypeOK, ConfInv, UNCHANGED vars PROVE ConfInv'
  <2>1. UNCHANGED <<hw, shown, settle, timer, upd, caller, vstate, loop, missed>>
    BY <1>1 DEF vars, driverVars, updateVars
  <2> QED
    BY <1>1, <2>1, Undisturbed
<1> QED
  BY <1>1, DriverConf, ConfigConf, EventsConf, BeginStepConf, UpdateStepConf, TickConf,
     SettleConf DEF Next, AsyncStep

LEMMA InitConf == Init => ConfInv
<1>1. ASSUME NEW d \in Driver,
             settle = [v \in Vaps |-> 0], timer = [v \in Vaps |-> 0],
             upd = NoVap, caller = "none", shown = hw
      PROVE  ConfInv
  <2>1. \A v \in Vaps : Waited(v) /\ Followed(v)
    BY <1>1, Delays DEF Waited, Followed, Agree
  <2> QED
    BY <1>1, <2>1 DEF ConfInv, ForcedInv
<1> QED
  BY <1>1 DEF Init

\* With no timer and no update nothing is waited for.
LEMMA ConfIsShown == TypeOK /\ ConfInv => ConfShownWhenQuiet
<1> SUFFICES ASSUME TypeOK, ConfInv, NEW v \in Vaps, ~missed, timer[v] = 0, upd # v
             PROVE  settle[v] = 0 /\ Agree(shown[v], hw[v])
  BY DEF ConfShownWhenQuiet, Agree
<1>1. Waited(v) /\ Followed(v) /\ ~Forced(v) /\ settle[v] \in Nat
  BY Delays DEF ConfInv, Forced, TypeOK
<1> QED
  BY <1>1 DEF Waited, Followed

-----------------------------------------------------------------------------
(* The push button.  The end of a session is on its way from the moment    *)
(* the session is over until no row shows it, whatever an update read.     *)

EndOf(v, e) == e.ssid_index = v /\ e.event \in EndEvents
EndIn(s, v) == \E i \in 1 .. Len(s) : EndOf(v, s[i])

\* The end of a session of v was raised or accepted, and not handled.
Coming(v) == EndIn(hal_cb_wps_queue, v) \/ EndIn(wpsRaised, v)

\* A row of v, or what will be written to it, has a session.
Seen(v) == shown[v].pbc \/ (upd = v /\ vstate.pbc)

PbcInv == \A v \in Vaps : ~missed /\ ~hw[v].pbc /\ Seen(v) => Coming(v)

LEMMA EndAppend ==
  ASSUME NEW s \in Seq(WpsEvent), NEW e \in WpsEvent, NEW v
  PROVE  EndIn(Append(s, e), v) <=> EndIn(s, v) \/ EndOf(v, e)
<1>1. /\ Len(Append(s, e)) = Len(s) + 1 /\ Len(s) \in Nat
      /\ Append(s, e)[Len(s) + 1] = e
      /\ \A i \in 1 .. Len(s) : Append(s, e)[i] = s[i]
  BY AppendProperties
<1> DEFINE t == Append(s, e)
<1> HIDE DEF t
<1>2. ASSUME EndIn(t, v) PROVE EndIn(s, v) \/ EndOf(v, e)
  <2>1. PICK i \in 1 .. Len(t) : EndOf(v, t[i])
    BY <1>2 DEF EndIn
  <2>2. i \in 1 .. Len(s) \/ i = Len(s) + 1
    BY <1>1 DEF t
  <2> QED
    BY <1>1, <2>1, <2>2 DEF EndIn, t
<1>3. ASSUME EndIn(s, v) PROVE EndIn(t, v)
  <2>1. PICK i \in 1 .. Len(s) : EndOf(v, s[i])
    BY <1>3 DEF EndIn
  <2>2. i \in 1 .. Len(t) /\ t[i] = s[i]
    BY <1>1 DEF t
  <2> QED
    BY <2>1, <2>2 DEF EndIn
<1>4. ASSUME EndOf(v, e) PROVE EndIn(t, v)
  <2>1. Len(s) + 1 \in 1 .. Len(t) /\ t[Len(s) + 1] = e
    BY <1>1 DEF t
  <2> QED
    BY <1>4, <2>1 DEF EndIn
<1> QED
  BY <1>2, <1>3, <1>4 DEF t

LEMMA EndConcat ==
  ASSUME NEW s \in Seq(WpsEvent), NEW t \in Seq(WpsEvent), NEW v
  PROVE  EndIn(s \o t, v) <=> EndIn(s, v) \/ EndIn(t, v)
<1>1. /\ Len(s \o t) = Len(s) + Len(t) /\ Len(s) \in Nat /\ Len(t) \in Nat
      /\ \A i \in 1 .. Len(s) + Len(t) :
            (s \o t)[i] = IF i <= Len(s) THEN s[i] ELSE t[i - Len(s)]
  BY ConcatProperties
<1> DEFINE c == s \o t
<1> HIDE DEF c
<1>2. ASSUME EndIn(c, v) PROVE EndIn(s, v) \/ EndIn(t, v)
  <2>1. PICK i \in 1 .. Len(c) : EndOf(v, c[i])
    BY <1>2 DEF EndIn
  <2>2. CASE i <= Len(s)
    <3>1. i \in 1 .. Len(s) /\ c[i] = s[i]
      BY <1>1, <2>2 DEF c
    <3> QED
      BY <2>1, <3>1 DEF EndIn
  <2>3. CASE ~(i <= Len(s))
    <3>1. i - Len(s) \in 1 .. Len(t) /\ c[i] = t[i - Len(s)]
      BY <1>1, <2>3 DEF c
    <3> QED
      BY <2>1, <3>1 DEF EndIn
  <2> QED
    BY <2>2, <2>3
<1>3. ASSUME EndIn(s, v) PROVE EndIn(c, v)
  <2>1. PICK i \in 1 .. Len(s) : EndOf(v, s[i])
    BY <1>3 DEF EndIn
  <2>2. i \in 1 .. Len(c) /\ c[i] = s[i]
    BY <1>1 DEF c
  <2> QED
    BY <2>1, <2>2 DEF EndIn
<1>4. ASSUME EndIn(t, v) PROVE EndIn(c, v)
  <2>1. PICK i \in 1 .. Len(t) : EndOf(v, t[i])
    BY <1>4 DEF EndIn
  <2>2. Len(s) + i \in 1 .. Len(c) /\ ~(Len(s) + i <= Len(s)) /\ (Len(s) + i) - Len(s) = i
    BY <1>1 DEF c
  <2>3. c[Len(s) + i] = t[i]
    BY <1>1, <2>2 DEF c
  <2> QED
    BY <2>1, <2>2, <2>3 DEF EndIn
<1> QED
  BY <1>2, <1>3, <1>4 DEF c

\* The oldest event, and those behind it.
LEMMA EndHead ==
  ASSUME NEW s \in Seq(WpsEvent), s # <<>>, NEW v
  PROVE  /\ Head(s) \in WpsEvent /\ Tail(s) \in Seq(WpsEvent)
         /\ EndIn(s, v) <=> EndOf(v, Head(s)) \/ EndIn(Tail(s), v)
<1>1. /\ Head(s) \in WpsEvent /\ Tail(s) \in Seq(WpsEvent) /\ Head(s) = s[1]
      /\ Len(s) \in Nat \ {0} /\ Len(Tail(s)) = Len(s) - 1
      /\ \A i \in 1 .. Len(s) - 1 : Tail(s)[i] = s[i + 1]
  OBVIOUS
<1> DEFINE h == Head(s)
           t == Tail(s)
<1> HIDE DEF h, t
<1>2. ASSUME EndIn(s, v) PROVE EndOf(v, h) \/ EndIn(t, v)
  <2>1. PICK i \in 1 .. Len(s) : EndOf(v, s[i])
    BY <1>2 DEF EndIn
  <2>2. i = 1 \/ (i - 1 \in 1 .. Len(t) /\ t[i - 1] = s[i])
    BY <1>1 DEF t
  <2> QED
    BY <1>1, <2>1, <2>2 DEF EndIn, h
<1>3. ASSUME EndOf(v, h) PROVE EndIn(s, v)
  <2>1. 1 \in 1 .. Len(s) /\ s[1] = h
    BY <1>1 DEF h
  <2> QED
    BY <1>3, <2>1 DEF EndIn
<1>4. ASSUME EndIn(t, v) PROVE EndIn(s, v)
  <2>1. PICK i \in 1 .. Len(t) : EndOf(v, t[i])
    BY <1>4 DEF EndIn
  <2>2. i + 1 \in 1 .. Len(s) /\ s[i + 1] = t[i]
    BY <1>1 DEF t
  <2> QED
    BY <2>1, <2>2 DEF EndIn
<1> QED
  BY <1>1, <1>2, <1>3, <1>4 DEF h, t

\* What keeps the invariant: no row shows a session that the driver does not
\* have, a session that ends leaves its event, and an event stays until no row
\* shows the session.
LEMMA PbcKept ==
  ASSUME PbcInv, missed => missed',
         ~missed' => \A v \in Vaps : /\ Seen(v)' => Seen(v) \/ hw'[v].pbc
                                     /\ hw[v].pbc => hw'[v].pbc \/ Coming(v)'
                                     /\ Coming(v) => Coming(v)' \/ ~Seen(v)'
  PROVE  PbcInv'
<1> SUFFICES ASSUME NEW v \in Vaps, ~missed', ~hw'[v].pbc, Seen(v)' PROVE Coming(v)'
  BY DEF PbcInv
<1>1. Seen(v) /\ (hw[v].pbc \/ Coming(v))
  BY DEF PbcInv
<1> QED
  BY <1>1

\* Steps that leave the sessions and the events alone.
LEMMA PbcAside ==
  ASSUME PbcInv, missed => missed',
         ~missed' => /\ UNCHANGED <<hal_cb_wps_queue, wpsRaised>>
                     /\ \A v \in Vaps : /\ hw'[v].pbc = hw[v].pbc
                                        /\ Seen(v)' => Seen(v) \/ hw'[v].pbc
  PROVE  PbcInv'
<1>1. ~missed' => \A v \in Vaps : Coming(v)' = Coming(v)
  BY DEF Coming
<1> QED
  BY <1>1, PbcKept

LEMMA DriverPbc == TypeOK /\ PbcInv /\ DriverStep => PbcInv'
<1> USE DEF driverVars, updateVars, queueVars
<1>1. ASSUME TypeOK, PbcInv, NEW v \in Vaps, NEW e \in EndEvents \cup {"OVERLAP"},
             RaiseWps(v, e)
      PROVE  \A u \in Vaps : EndIn(wpsRaised', u) <=>
                EndIn(wpsRaised, u) \/ (u = v /\ e \in EndEvents)
  <2> DEFINE ev == [ssid_index |-> v, event |-> e]
  <2>1. ev \in WpsEvent /\ wpsRaised \in Seq(WpsEvent)
    BY <1>1 DEF WpsEvent, WpsEvents, EndEvents, TypeOK
  <2>2. \A u \in Vaps : EndOf(u, ev) <=> (u = v /\ e \in EndEvents)
    BY DEF EndOf
  <2>3. wpsRaised' = Append(wpsRaised, ev)
    BY <1>1 DEF RaiseWps
  <2> HIDE DEF ev
  <2> QED
    BY <2>1, <2>2, <2>3, EndAppend
<1>2. ASSUME TypeOK, PbcInv, NEW v \in Vaps, NEW e \in SessionEnds, PbcEnds(v, e)
      PROVE  PbcInv'
  <2>1. e \in EndEvents
    BY Delays
  <2>2. \A u \in Vaps : EndIn(wpsRaised', u) <=> EndIn(wpsRaised, u) \/ u = v
    BY <1>1, <1>2, <2>1 DEF PbcEnds
  <2>3. \A u \in Vaps : u # v => hw'[u].pbc = hw[u].pbc
    BY <1>2 DEF PbcEnds, TypeOK
  <2>4. UNCHANGED <<shown, upd, vstate, hal_cb_wps_queue, missed>>
    BY <1>2 DEF PbcEnds
  <2>5. \A u \in Vaps : /\ Seen(u)' => Seen(u)
                        /\ hw[u].pbc => hw'[u].pbc \/ Coming(u)'
                        /\ Coming(u) => Coming(u)'
    BY <2>2, <2>3, <2>4 DEF Seen, Coming
  <2> QED
    BY <1>2, <2>4, <2>5, PbcKept
<1>3. ASSUME TypeOK, PbcInv, NEW v \in Vaps, NEW a \in Addrs, VlanChanges(v, a) PROVE PbcInv'
  <2>1. \A u \in Vaps : hw'[u].pbc = hw[u].pbc
    BY <1>3 DEF VlanChanges, TypeOK, Driver
  <2>2. UNCHANGED <<shown, upd, vstate, hal_cb_wps_queue, wpsRaised, missed>>
    BY <1>3 DEF VlanChanges
  <2>3. \A u \in Vaps : Seen(u)' = Seen(u)
    BY <2>2 DEF Seen
  <2> QED
    BY <1>3, <2>1, <2>2, <2>3, PbcAside
<1>4. ASSUME TypeOK, PbcInv, NEW v \in Vaps, PbcOverlap(v) PROVE PbcInv'
  <2>1. \A u \in Vaps : EndIn(wpsRaised, u) => EndIn(wpsRaised', u)
    BY <1>1, <1>4 DEF PbcOverlap
  <2>2. UNCHANGED <<hw, shown, upd, vstate, hal_cb_wps_queue, missed>>
    BY <1>4 DEF PbcOverlap
  <2>3. \A u \in Vaps : /\ Seen(u)' => Seen(u) /\ hw'[u].pbc = hw[u].pbc
                        /\ Coming(u) => Coming(u)'
    BY <2>1, <2>2 DEF Seen, Coming
  <2> QED
    BY <1>4, <2>2, <2>3, PbcKept
<1> QED
  BY <1>2, <1>3, <1>4 DEF DriverStep

\* An update that begins shows what the row shows.
LEMMA BeginSeen ==
  ASSUME upd = NoVap, UNCHANGED shown,
         \/ UNCHANGED <<upd, vstate>>
         \/ \E v \in Vaps : upd' = v /\ vstate' = shown[v]
  PROVE  \A u \in Vaps : Seen(u)' => Seen(u)
  BY Delays DEF Seen

LEMMA ConfigPbc == TypeOK /\ PbcInv /\ ConfigStep => PbcInv'
<1> USE DEF driverVars, updateVars, queueVars, raisedVars
<1>1. ASSUME TypeOK, loop = "idle", UNCHANGED shown, NEW v \in Vaps,
             vif_state_update_deferred(v)
      PROVE  \A u \in Vaps : Seen(u)' => Seen(u)
  <2>1. upd = NoVap
    BY <1>1 DEF TypeOK
  <2>2. UNCHANGED <<upd, vstate>> \/ (upd' = v /\ vstate' = shown[v])
    BY <1>1, Deferred DEF StateUpdate
  <2> QED
    BY <1>1, <2>1, <2>2, BeginSeen
<1>2. ASSUME TypeOK, PbcInv, NEW v \in Vaps, NEW c \in Confs, NEW t \in Types,
             ConfigSet(v, c, t)
      PROVE  PbcInv'
  <2>1. \A u \in Vaps : hw'[u].pbc = hw[u].pbc
    <3>1. CASE hw' = hw
      BY <3>1
    <3>2. CASE hw' = [hw EXCEPT ![v].type = t, ![v].conf = IF SettleMax = 0 THEN c ELSE @]
      BY <1>2, <3>2 DEF TypeOK, Driver
    <3> QED
      BY <1>2, <3>1, <3>2 DEF ConfigSet
  <2>2. \A u \in Vaps : Seen(u)' => Seen(u)
    BY <1>1, <1>2 DEF ConfigSet
  <2>3. UNCHANGED <<hal_cb_wps_queue, wpsRaised>> /\ (missed => missed')
    BY <1>2, FailureType DEF ConfigSet
  <2> QED
    BY <1>2, <2>1, <2>2, <2>3, PbcAside
<1>3. ASSUME TypeOK, PbcInv, NEW v \in Vaps, NEW wps \in BOOLEAN, NEW pbc \in BOOLEAN,
             ConfigSetWps(v, wps, pbc)
      PROVE  PbcInv'
  <2>1. \A u \in Vaps : Seen(u)' => Seen(u)
    BY <1>1, <1>3 DEF ConfigSetWps
  <2>2. UNCHANGED <<hal_cb_wps_queue>> /\ (missed => missed')
    BY <1>3, WpsOutcome, FailureType DEF ConfigSetWps
  <2>3. CASE UNCHANGED <<hw, wpsRaised>>
    BY <1>3, <2>1, <2>2, <2>3, PbcAside
  <2>4. ASSUME NEW cancelled \in BOOLEAN, NEW enabled \in BOOLEAN, NEW pushed \in BOOLEAN,
               WpsSet(v, cancelled, enabled, cancelled /\ hw[v].pbc, enabled /\ pushed /\ pbc)
        PROVE  PbcInv'
    <3> DEFINE ends == cancelled /\ hw[v].pbc
               starts == enabled /\ pushed /\ pbc
               disable == [ssid_index |-> v, event |-> "DISABLE"]
               active == [ssid_index |-> v, event |-> "ACTIVE"]
               end == IF ends THEN <<disable>> ELSE <<>>
               start == IF starts THEN <<active>> ELSE <<>>
    <3>1. disable \in WpsEvent /\ active \in WpsEvent /\ EndOf(v, disable)
      BY DEF WpsEvent, WpsEvents, EndOf, EndEvents
    <3>2. wpsRaised' = (wpsRaised \o end) \o start
      BY <2>4 DEF WpsSet
    <3> HIDE DEF disable, active
    <3>3. end \in Seq(WpsEvent) /\ start \in Seq(WpsEvent) /\ wpsRaised \in Seq(WpsEvent)
      BY <1>3, <3>1, EmptySeq DEF TypeOK
    <3>4. ends => EndIn(end, v)
      <4>1. ends => end = <<disable>> /\ Len(end) = 1 /\ end[1] = disable
        OBVIOUS
      <4>2. 1 \in 1 .. 1
        OBVIOUS
      <4> HIDE DEF end
      <4> QED
        BY <3>1, <4>1, <4>2 DEF EndIn
    <3> HIDE DEF end, start
    <3>5. wpsRaised \o end \in Seq(WpsEvent)
      BY <3>3, ConcatProperties
    <3>6. \A u : EndIn(wpsRaised', u) <=>
                    EndIn(wpsRaised, u) \/ EndIn(end, u) \/ EndIn(start, u)
      BY <3>2, <3>3, <3>5, EndConcat
    <3>7. \A u \in Vaps : hw[u].pbc => hw'[u].pbc \/ Coming(u)'
      <4>1. CASE ~cancelled
        <5>1. hw[v].pbc => hw'[v].pbc
          BY <1>3, <2>4, <4>1 DEF WpsSet, TypeOK, Driver
        <5>2. \A u \in Vaps : u # v => hw'[u] = hw[u]
          BY <1>3, <2>4 DEF WpsSet, TypeOK
        <5> QED
          BY <5>1, <5>2
      <4>2. CASE cancelled
        <5>1. hw[v].pbc => Coming(v)'
          BY <2>4, <3>4, <3>6, <4>2 DEF Coming
        <5>2. \A u \in Vaps : u # v => hw'[u] = hw[u]
          BY <1>3, <2>4 DEF WpsSet, TypeOK
        <5> QED
          BY <5>1, <5>2
      <4> QED
        BY <4>1, <4>2
    <3>8. \A u \in Vaps : Coming(u) => Coming(u)'
      BY <2>2, <3>6 DEF Coming
    <3> QED
      BY <1>3, <2>1, <2>2, <3>7, <3>8, PbcKept
  <2>5. vif_config_set_wps(v, wps, pbc)
    BY <1>3 DEF ConfigSetWps
  <2> QED
    BY <2>3, <2>4, <2>5, WpsOutcome
<1> QED
  BY <1>2, <1>3 DEF ConfigStep

LEMMA EventsPbc ==
  TypeOK /\ PbcInv /\ (\/ wps_hal_cb \/ multi_ap_hal_cb \/ WpsAsync \/ MultiApAsync
                       \/ AsyncStep) => PbcInv'
<1> USE DEF driverVars, updateVars, queueVars, raisedVars
<1>1. ASSUME TypeOK, PbcInv, wps_hal_cb PROVE PbcInv'
  <2>1. UNCHANGED <<hw, shown, upd, vstate>> /\ (missed => missed')
    BY <1>1 DEF wps_hal_cb
  <2>2. /\ wpsRaised \in Seq(WpsEvent) /\ wpsRaised # <<>>
        /\ hal_cb_wps_queue \in Seq(WpsEvent) /\ wpsRaised' = Tail(wpsRaised)
        /\ ~missed' => hal_cb_wps_queue' = Append(hal_cb_wps_queue, Head(wpsRaised))
    BY <1>1 DEF wps_hal_cb, WpsQueue!Accept, TypeOK
  <2>3. ASSUME ~missed', NEW u \in Vaps PROVE Coming(u)' <=> Coming(u)
    <3>1. Head(wpsRaised) \in WpsEvent
          /\ (EndIn(wpsRaised, u) <=> EndOf(u, Head(wpsRaised)) \/ EndIn(wpsRaised', u))
      BY <2>2, EndHead
    <3>2. EndIn(hal_cb_wps_queue', u) <=>
             EndIn(hal_cb_wps_queue, u) \/ EndOf(u, Head(wpsRaised))
      <4>1. hal_cb_wps_queue' = Append(hal_cb_wps_queue, Head(wpsRaised))
            /\ hal_cb_wps_queue \in Seq(WpsEvent)
        BY <2>2, <2>3
      <4>2. EndIn(Append(hal_cb_wps_queue, Head(wpsRaised)), u) <=>
               EndIn(hal_cb_wps_queue, u) \/ EndOf(u, Head(wpsRaised))
        BY <3>1, <4>1, EndAppend
      <4> QED
        BY <4>1, <4>2, Zenon
    <3> QED
      BY <3>1, <3>2 DEF Coming
  <2>4. \A u \in Vaps : Seen(u)' = Seen(u)
    BY <2>1 DEF Seen
  <2> QED
    BY <1>1, <2>1, <2>3, <2>4, PbcKept
<1>2. ASSUME TypeOK, PbcInv,
             multi_ap_hal_cb \/ WpsAsync \/ MultiApAsync \/ WpsAsyncEnd \/ MultiApAsyncEnd
      PROVE  PbcInv'
  <2>1. /\ UNCHANGED <<hw, shown, upd, vstate, hal_cb_wps_queue, wpsRaised>>
        /\ missed => missed'
    BY <1>2 DEF multi_ap_hal_cb, WpsAsync, MultiApAsync, WpsAsyncEnd, MultiApAsyncEnd
  <2>2. \A u \in Vaps : Seen(u)' = Seen(u)
    BY <2>1 DEF Seen
  <2> QED
    BY <1>2, <2>1, <2>2, PbcAside
<1>3. ASSUME TypeOK, PbcInv, WpsHandle PROVE PbcInv'
  <2> DEFINE e == Head(hal_cb_wps_queue)
  <2>1. /\ hal_cb_wps_queue \in Seq(WpsEvent) /\ hal_cb_wps_queue # <<>>
        /\ hal_cb_wps_queue' = Tail(hal_cb_wps_queue)
        /\ UNCHANGED <<hw, upd, vstate, wpsRaised>> /\ upd = NoVap
    BY <1>3 DEF WpsHandle, WpsQueue!Deliver, TypeOK
  <2>2. (missed => missed')
        /\ (~missed' => shown' = [shown EXCEPT ![e.ssid_index].pbc =
                                    IF e.event \in EndEvents THEN FALSE ELSE @])
    BY <1>3, FailureType DEF WpsHandle, HalCallFails
  <2> HIDE DEF e
  <2>3. ASSUME ~missed', NEW u \in Vaps
        PROVE  /\ Seen(u)' => Seen(u) /\ ~EndOf(u, e)
               /\ Coming(u) => Coming(u)' \/ EndOf(u, e)
    <3>1. Coming(u) => Coming(u)' \/ EndOf(u, e)
      BY <2>1, EndHead DEF Coming, e
    <3>2. (Seen(u)' <=> shown'[u].pbc) /\ (Seen(u) <=> shown[u].pbc)
      BY <2>1, Delays DEF Seen
    <3>3. CASE u # e.ssid_index
      <4>1. shown'[u] = shown[u]
        BY <1>3, <2>2, <2>3, <3>3 DEF TypeOK
      <4> QED
        BY <3>1, <3>2, <3>3, <4>1 DEF EndOf
    <3>4. CASE u = e.ssid_index
      <4> DEFINE pbc == IF e.event \in EndEvents THEN FALSE ELSE shown[u].pbc
      <4>1. shown' = [shown EXCEPT ![u].pbc = pbc] /\ shown[u] \in Driver
            /\ shown \in [Vaps -> Driver]
        BY <1>3, <2>2, <2>3, <3>4 DEF TypeOK
      <4> HIDE DEF pbc
      <4>2. shown'[u] = [shown[u] EXCEPT !.pbc = pbc]
        BY <4>1
      <4>3. shown'[u].pbc = pbc
        BY <4>1, <4>2 DEF Driver
      <4>4. shown'[u].pbc = IF e.event \in EndEvents THEN FALSE ELSE shown[u].pbc
        BY <4>3 DEF pbc
      <4> QED
        BY <3>1, <3>2, <3>4, <4>4 DEF EndOf
    <3> QED
      BY <3>3, <3>4
  <2> QED
    BY <1>3, <2>1, <2>2, <2>3, PbcKept
<1>4. ASSUME TypeOK, PbcInv, MultiApHandle PROVE PbcInv'
  <2>1. /\ upd = NoVap /\ UNCHANGED <<hw, shown, wpsRaised, hal_cb_wps_queue>>
        /\ missed => missed'
    BY <1>4, FailureType DEF MultiApHandle, TypeOK
  <2>2. Head(hal_cb_multi_ap_queue) \in Vaps
    <3>1. hal_cb_multi_ap_queue \in Seq(Vaps) /\ hal_cb_multi_ap_queue # <<>>
      BY <1>4 DEF MultiApHandle, MultiApQueue!Deliver, TypeOK
    <3> QED
      BY <3>1
  <2>3. UNCHANGED <<upd, vstate>> \/ \E v \in Vaps : upd' = v /\ vstate' = shown[v]
    BY <1>4, <2>2 DEF MultiApHandle, StateUpdate
  <2>4. \A u \in Vaps : Seen(u)' => Seen(u)
    BY <2>1, <2>3, BeginSeen
  <2> QED
    BY <1>4, <2>1, <2>4, PbcAside
<1> QED
  BY <1>1, <1>2, <1>3, <1>4 DEF AsyncStep

LEMMA UpdatePbc == TypeOK /\ PbcInv /\ UpdateStep => PbcInv'
<1> SUFFICES ASSUME TypeOK, PbcInv, UpdateStep PROVE PbcInv'
  OBVIOUS
<1> USE DEF driverVars, queueVars, raisedVars
<1>1. /\ UNCHANGED <<hw, hal_cb_wps_queue, wpsRaised>> /\ (missed => missed')
      /\ vstate \in Driver /\ upd \in Vaps /\ upd # NoVap
  BY FailureType, Delays DEF UpdateStep, StateGetVap, wps_to_state, multi_ap_to_state,
     StateWrite, TypeOK
<1>2. CASE StateGetVap
  <2>1. ~missed' => /\ vstate' = [vstate EXCEPT !.conf = hw[upd].conf]
                    /\ UNCHANGED <<upd, shown>>
    BY <1>2 DEF StateGetVap, HalCallFails
  <2>2. ~missed' => vstate'.pbc = vstate.pbc
    BY <1>1, <2>1 DEF Driver
  <2>3. ~missed' => \A u \in Vaps : Seen(u)' => Seen(u)
    BY <2>1, <2>2 DEF Seen
  <2> QED
    BY <1>1, <2>3, PbcAside
<1>3. CASE wps_to_state
  <2>1. ~missed' => vstate' = [vstate EXCEPT !.wps = hw[upd].wps, !.pbc = hw[upd].pbc]
    BY <1>3 DEF wps_to_state, HalCallFails
  <2>2. ~missed' => vstate'.pbc = hw[upd].pbc
    BY <1>1, <2>1 DEF Driver
  <2>3. UNCHANGED <<upd, shown>>
    BY <1>3 DEF wps_to_state
  <2>4. ~missed' => \A u \in Vaps : Seen(u)' => Seen(u) \/ hw'[u].pbc
    BY <1>1, <2>2, <2>3 DEF Seen
  <2> QED
    BY <1>1, <2>4, PbcAside
<1>4. CASE multi_ap_to_state
  <2>1. ~missed' => vstate' = [vstate EXCEPT !.type = hw[upd].type, !.vlan = hw[upd].vlan]
    BY <1>4 DEF multi_ap_to_state, HalCallFails
  <2>2. ~missed' => vstate'.pbc = vstate.pbc
    BY <1>1, <2>1 DEF Driver
  <2>3. UNCHANGED <<upd, shown>>
    BY <1>4 DEF multi_ap_to_state
  <2>4. ~missed' => \A u \in Vaps : Seen(u)' => Seen(u)
    BY <2>2, <2>3 DEF Seen
  <2> QED
    BY <1>1, <2>4, PbcAside
<1>5. CASE StateWrite
  <2>1. ~missed' => shown' = [shown EXCEPT ![upd] = vstate]
    BY <1>5 DEF StateWrite, HalCallFails
  <2>2. upd' = NoVap
    BY <1>5 DEF StateWrite, Return
  <2>3. ~missed' => \A u \in Vaps : Seen(u)' => Seen(u)
    BY <1>1, <2>1, <2>2, Delays DEF Seen, TypeOK
  <2> QED
    BY <1>1, <2>3, PbcAside
<1> QED
  BY <1>2, <1>3, <1>4, <1>5 DEF UpdateStep

LEMMA TimePbc ==
  TypeOK /\ PbcInv
    /\ (Tick \/ \E v \in Vaps : Settle(v) \/ vif_state_update_task(v) \/ Resync(v))
     => PbcInv'
<1> USE DEF driverVars, updateVars, queueVars, raisedVars
<1>1. ASSUME TypeOK, PbcInv, Tick PROVE PbcInv'
  <2>1. UNCHANGED <<hw, shown, upd, vstate, hal_cb_wps_queue, wpsRaised, missed>>
    BY <1>1 DEF Tick
  <2>2. \A u \in Vaps : Seen(u)' = Seen(u)
    BY <2>1 DEF Seen
  <2> QED
    BY <1>1, <2>1, <2>2, PbcAside
<1>2. ASSUME TypeOK, PbcInv, NEW v \in Vaps, Settle(v) PROVE PbcInv'
  <2>1. \A u \in Vaps : hw'[u].pbc = hw[u].pbc
    BY <1>2 DEF Settle, TypeOK, Driver
  <2>2. UNCHANGED <<shown, upd, vstate, hal_cb_wps_queue, wpsRaised, missed>>
    BY <1>2 DEF Settle
  <2>3. \A u \in Vaps : Seen(u)' = Seen(u)
    BY <2>2 DEF Seen
  <2> QED
    BY <1>2, <2>1, <2>2, <2>3, PbcAside
<1>3. ASSUME TypeOK, PbcInv, NEW v \in Vaps, vif_state_update_task(v) \/ Resync(v)
      PROVE  PbcInv'
  <2>1. upd = NoVap /\ UNCHANGED <<hw, shown, hal_cb_wps_queue, wpsRaised, missed>>
        /\ upd' = v /\ vstate' = shown[v]
    BY <1>3 DEF vif_state_update_task, Resync, StateUpdate, TypeOK
  <2>2. \A u \in Vaps : Seen(u)' => Seen(u)
    BY <2>1, BeginSeen
  <2> QED
    BY <1>3, <2>1, <2>2, PbcAside
<1> QED
  BY <1>1, <1>2, <1>3

LEMMA NextPbc == TypeOK /\ PbcInv /\ [Next]_vars => PbcInv'
<1>1. ASSUME TypeOK, PbcInv, UNCHANGED vars PROVE PbcInv'
  <2>1. UNCHANGED <<hw, shown, upd, vstate, hal_cb_wps_queue, wpsRaised, missed>>
    BY <1>1 DEF vars, driverVars, updateVars, queueVars, raisedVars
  <2>2. \A u \in Vaps : Seen(u)' = Seen(u)
    BY <2>1 DEF Seen
  <2> QED
    BY <1>1, <2>1, <2>2, PbcAside
<1> QED
  BY <1>1, DriverPbc, ConfigPbc, EventsPbc, UpdatePbc, TimePbc DEF Next

LEMMA InitPbc == Init => PbcInv
<1>1. ASSUME NEW d \in Driver, ~d.pbc, hw = [v \in Vaps |-> d], shown = hw, upd = NoVap
      PROVE  PbcInv
  BY <1>1, Delays DEF PbcInv, Seen
<1> QED
  BY <1>1 DEF Init

\* The events to come are those of both queues together.
LEMMA PbcIsNoticed == TypeOK /\ PbcInv => PbcEndIsNoticed
<1> SUFFICES ASSUME TypeOK, PbcInv, NEW v \in Vaps, ~missed, ~hw[v].pbc,
                    \E row \in Rows(v) : row.pbc
             PROVE  EndIn(hal_cb_wps_queue \o wpsRaised, v)
  BY DEF PbcEndIsNoticed, EndIn, EndOf
<1>1. Seen(v)
  BY DEF Rows, Seen
<1>2. Coming(v)
  BY <1>1 DEF PbcInv
<1> QED
  BY <1>2, EndConcat DEF Coming, TypeOK

-----------------------------------------------------------------------------
(* The theorems.                                                           *)

LEMMA Invariant == Spec => [](TypeOK /\ ConfInv /\ PbcInv)
<1>1. Init => TypeOK /\ ConfInv /\ PbcInv
  BY InitTypeOK, InitConf, InitPbc
<1>2. TypeOK /\ ConfInv /\ PbcInv /\ [Next]_vars => TypeOK' /\ ConfInv' /\ PbcInv'
  BY NextTypeOK, NextConf, NextPbc
<1> QED
  BY <1>1, <1>2, PTL DEF Spec

\* In every state the variables have their types, and an update is under way
\* exactly when it has a VAP.
THEOREM TypeCorrect == Spec => []TypeOK
  BY Invariant, PTL

\* vif_state_update_deferred never reads a VAP's state for the last time before
\* the driver has applied the last configuration.
THEOREM ConfAlwaysShown == Spec => []ConfShownWhenQuiet
<1>1. TypeOK /\ ConfInv => ConfShownWhenQuiet
  BY ConfIsShown
<1> QED
  BY <1>1, Invariant, PTL

\* Whenever a push-button session that is over is shown, or about to be, the
\* event that ends it is still to be handled (wps.c).
THEOREM PbcEndAlwaysNoticed == Spec => []PbcEndIsNoticed
<1>1. TypeOK /\ PbcInv => PbcEndIsNoticed
  BY PbcIsNoticed
<1> QED
  BY <1>1, Invariant, PTL
=============================================================================
