------------------------------ MODULE VifState ------------------------------
(***************************************************************************)
(* How Wifi_VIF_State follows the driver: vif_state_update (vif.c) and     *)
(* everything that makes it run or writes to the row beside it.            *)
(*                                                                         *)
(* A configuration takes effect in the driver some time after              *)
(* wifi_createVAP returned, so its state is read CONFIG_RDK_VIF_STATE_     *)
(* UPDATE_DELAY seconds later, by one timer per VAP; a second request for  *)
(* the VAP reads the state at once and starts the timer anew.  WPS events  *)
(* (wps.c) write wps_pbc = false and nothing else, Multi-AP VLAN events    *)
(* (multi_ap.c) read the whole state, and both come from HAL threads       *)
(* through queues of their own.  The health check's resync (Radio.tla)     *)
(* reads every VAP now and then.  All of this shares the event loop; the   *)
(* driver changes between any two HAL calls of an update.                  *)
(***************************************************************************)
EXTENDS Naturals, Sequences

CONSTANTS
    Vaps,
    Confs,              \* what wifi_createVAP is given
    Types,              \* Multi-AP device types
    Addrs,              \* addresses of the station behind the AP VLAN
    SessionEnds,        \* WPS events that end a session by itself
    DELAY,              \* CONFIG_RDK_VIF_STATE_UPDATE_DELAY, in ticks
    SettleMax,          \* ticks within which the driver applies a configuration
    HAL_CB_QUEUE_MAX,
    MaxRaised,          \* bound: events raised and not delivered, per queue
    MaxEvents,          \* bound: changes the driver makes by itself
    MaxConfigs,         \* bound: configuration requests
    MaxFailures,        \* bound: failing HAL calls
    NoVap

ASSUME ConstantsAssumption ==
    /\ {DELAY, SettleMax, MaxRaised, MaxEvents, MaxConfigs, MaxFailures} \subseteq Nat
    /\ HAL_CB_QUEUE_MAX \in Nat \ {0}
    /\ SessionEnds \subseteq {"TIMEOUT", "SUCCESS"}
    /\ NoVap \notin Vaps

\* The delay exists because the configuration is applied asynchronously; it
\* does its job when it is longer than that takes.
ASSUME DelayAssumption == SettleMax = 0 \/ SettleMax < DELAY

WpsEvents == {"ACTIVE", "OVERLAP", "TIMEOUT", "SUCCESS", "DISABLE"}
EndEvents == {"TIMEOUT", "SUCCESS", "DISABLE"}
WpsEvent == [ssid_index : Vaps, event : WpsEvents]

Driver == [conf : Confs, wps : BOOLEAN, type : Types, pbc : BOOLEAN, vlan : Addrs]

VARIABLES
    \* the driver
    hw,                 \* the state of each VAP
    want, settle,       \* the last configuration and the ticks left to apply it
    wpsRaised, mapRaised,       \* events whose callback was not called yet
    \* the target library
    hal_cb_wps_queue, hal_cb_multi_ap_queue,
    timer,              \* defer_timer of each VAP; 0: no entry in the list
    loop,               \* what the event loop is doing
    upd, vstate,        \* the VAP vif_state_update works on, and what it read
    caller,             \* who called vif_state_update
    \* OpenSync's view
    shown,              \* the rows of Wifi_VIF_State
    \* history and bounds
    missed,             \* an event was dropped or a HAL call failed
    events, configs, failures

driverVars == <<hw, want, settle>>
raisedVars == <<wpsRaised, mapRaised>>
queueVars == <<hal_cb_wps_queue, hal_cb_multi_ap_queue>>
updateVars == <<upd, vstate, caller>>
boundVars == <<events, configs, failures>>
vars == <<driverVars, raisedVars, queueVars, timer, loop, updateVars, shown,
          missed, boundVars>>

WpsQueue == INSTANCE AbstractEventQueue
              WITH box <- hal_cb_wps_queue, Events <- WpsEvent
MultiApQueue == INSTANCE AbstractEventQueue
              WITH box <- hal_cb_multi_ap_queue, Events <- Vaps

wps_hal_init == wpsRaised = <<>> /\ WpsQueue!Init

multi_ap_hal_init == mapRaised = <<>> /\ MultiApQueue!Init

Init ==
    \E d \in Driver :
      /\ ~d.wps /\ ~d.pbc
      /\ hw = [v \in Vaps |-> d]
      /\ want = [v \in Vaps |-> d.conf]
      /\ settle = [v \in Vaps |-> 0]
      /\ wps_hal_init /\ multi_ap_hal_init
      /\ timer = [v \in Vaps |-> 0]
      /\ loop = "idle"
      /\ upd = NoVap /\ vstate = d /\ caller = "none"
      /\ shown = hw
      /\ missed = FALSE
      /\ events = 0 /\ configs = 0 /\ failures = 0

HalCallFails ==
    /\ failures < MaxFailures
    /\ failures' = failures + 1
    /\ missed' = TRUE

-----------------------------------------------------------------------------
(* The driver.                                                             *)

DriverEvent ==
    /\ events < MaxEvents
    /\ events' = events + 1

RaiseWps(v, e) ==
    /\ Len(wpsRaised) < MaxRaised
    /\ wpsRaised' = Append(wpsRaised, [ssid_index |-> v, event |-> e])

\* A push-button session ends by itself.
PbcEnds(v, e) ==
    /\ hw[v].pbc
    /\ DriverEvent
    /\ hw' = [hw EXCEPT ![v].pbc = FALSE]
    /\ RaiseWps(v, e)
    /\ UNCHANGED <<want, settle, mapRaised, queueVars, timer, loop, updateVars,
                   shown, missed, configs, failures>>

\* Two stations push at the same time; the session goes on.
PbcOverlap(v) ==
    /\ hw[v].pbc
    /\ DriverEvent
    /\ RaiseWps(v, "OVERLAP")
    /\ UNCHANGED <<driverVars, mapRaised, queueVars, timer, loop, updateVars,
                   shown, missed, configs, failures>>

VlanChanges(v, a) ==
    /\ hw[v].vlan # a
    /\ DriverEvent
    /\ hw' = [hw EXCEPT ![v].vlan = a]
    /\ Len(mapRaised) < MaxRaised
    /\ mapRaised' = Append(mapRaised, v)
    /\ UNCHANGED <<want, settle, wpsRaised, queueVars, timer, loop, updateVars,
                   shown, missed, configs, failures>>

Settle(v) ==
    /\ settle[v] > 0
    /\ settle' = [settle EXCEPT ![v] = 0]
    /\ hw' = [hw EXCEPT ![v].conf = want[v]]
    /\ UNCHANGED <<want, raisedVars, queueVars, timer, loop, updateVars, shown,
                   missed, boundVars>>

\* A tick of the clock; the driver is never late and the loop at most a tick.
Tick ==
    /\ \A v \in Vaps : timer[v] # 1 /\ settle[v] # 1
    /\ \E v \in Vaps : timer[v] > 1
    /\ timer' = [v \in Vaps |-> IF timer[v] = 0 THEN 0 ELSE timer[v] - 1]
    /\ settle' = [v \in Vaps |-> IF settle[v] = 0 THEN 0 ELSE settle[v] - 1]
    /\ UNCHANGED <<hw, want, raisedVars, queueVars, loop, updateVars, shown,
                   missed, boundVars>>

-----------------------------------------------------------------------------
(* The HAL's callbacks, as HalEventQueue models them.  Each waits while the  *)
(* loop empties its queue.                                                 *)

wps_hal_cb ==
    /\ wpsRaised # <<>>
    /\ loop # "wps"
    /\ wpsRaised' = Tail(wpsRaised)
    /\ \/ /\ WpsQueue!Accept(Head(wpsRaised))
          /\ UNCHANGED missed
       \/ /\ Len(hal_cb_wps_queue) = HAL_CB_QUEUE_MAX
          /\ missed' = TRUE
          /\ UNCHANGED hal_cb_wps_queue
    /\ UNCHANGED <<driverVars, mapRaised, hal_cb_multi_ap_queue, timer, loop,
                   updateVars, shown, boundVars>>

multi_ap_hal_cb ==
    /\ mapRaised # <<>>
    /\ loop # "multi_ap" /\ caller # "multi_ap"
    /\ mapRaised' = Tail(mapRaised)
    /\ \/ /\ MultiApQueue!Accept(Head(mapRaised))
          /\ UNCHANGED missed
       \/ /\ Len(hal_cb_multi_ap_queue) = HAL_CB_QUEUE_MAX
          /\ missed' = TRUE
          /\ UNCHANGED hal_cb_multi_ap_queue
    /\ UNCHANGED <<driverVars, wpsRaised, hal_cb_wps_queue, timer, loop,
                   updateVars, shown, boundVars>>

-----------------------------------------------------------------------------
(* vif_state_update: one HAL call after the other, then the partial update *)
(* of the row.  A field that could not be read stays as it is.             *)

StateUpdate(v, by) ==
    /\ loop' = "get_vap"
    /\ upd' = v
    /\ caller' = by
    /\ vstate' = shown[v]

\* The update is over, whether the row was written or not.
Return ==
    /\ loop' = IF caller = "multi_ap" THEN "multi_ap" ELSE "idle"
    /\ timer' = IF caller = "forced" THEN [timer EXCEPT ![upd] = DELAY] ELSE timer
    /\ upd' = NoVap
    /\ caller' = "none"

StateGetVap ==
    /\ loop = "get_vap"
    /\ \/ /\ vstate' = [vstate EXCEPT !.conf = hw[upd].conf]
          /\ loop' = "get_wps"
          /\ UNCHANGED <<timer, upd, caller, missed, failures>>
       \/ HalCallFails /\ Return /\ UNCHANGED vstate
    /\ UNCHANGED <<driverVars, raisedVars, queueVars, shown, events, configs>>

\* Mutated form: the status of the push button is not read.
wps_to_state_enable_only ==
    /\ loop = "get_wps"
    /\ vstate' = [vstate EXCEPT !.wps = hw[upd].wps]
    /\ loop' = "get_multi_ap"
    /\ UNCHANGED <<driverVars, raisedVars, queueVars, timer, upd, caller, shown,
                   events, configs, missed, failures>>

\* wifi_getApWpsEnable and wifi_getApWpsButtonPushStatus.
wps_to_state ==
    /\ loop = "get_wps"
    /\ \/ /\ vstate' = [vstate EXCEPT !.wps = hw[upd].wps, !.pbc = hw[upd].pbc]
          /\ UNCHANGED <<missed, failures>>
       \/ HalCallFails /\ \E x \in {vstate, [vstate EXCEPT !.pbc = hw[upd].pbc],
                                    [vstate EXCEPT !.wps = hw[upd].wps]} : vstate' = x
    /\ loop' = "get_multi_ap"
    /\ UNCHANGED <<driverVars, raisedVars, queueVars, timer, upd, caller, shown,
                   events, configs>>

\* Without the device type nothing else is read.
multi_ap_to_state ==
    /\ loop = "get_multi_ap"
    /\ \/ /\ vstate' = [vstate EXCEPT !.type = hw[upd].type, !.vlan = hw[upd].vlan]
          /\ UNCHANGED <<missed, failures>>
       \/ HalCallFails /\ \E x \in {vstate, [vstate EXCEPT !.type = hw[upd].type]} :
                             vstate' = x
    /\ loop' = "write"
    /\ UNCHANGED <<driverVars, raisedVars, queueVars, timer, upd, caller, shown,
                   events, configs>>

\* radio_rops_vstate, or a failing wifi_getRadioIfName before it.
StateWrite ==
    /\ loop = "write"
    /\ \/ shown' = [shown EXCEPT ![upd] = vstate] /\ UNCHANGED <<missed, failures>>
       \/ HalCallFails /\ UNCHANGED shown
    /\ Return
    /\ UNCHANGED <<driverVars, raisedVars, queueVars, vstate, events, configs>>

-----------------------------------------------------------------------------
(* Configuration.                                                          *)

\* vif_config_set_wps.  A request with wps unset is only taken off VIF_Config.
\* One with wps set cancels, enables, and pushes the button if wps_pbc asks for
\* it; the driver reports the cancelled and the started session.
vif_config_set_wps(v, wps, pbc) ==
    \/ ~wps /\ UNCHANGED <<hw, wpsRaised, missed, failures>>
    \/ /\ wps
       /\ Len(wpsRaised) + 2 <= MaxRaised
       /\ \E cancelled, enabled, pushed \in BOOLEAN :
            LET ends == cancelled /\ hw[v].pbc
                starts == enabled /\ pushed /\ pbc
            IN  /\ IF cancelled /\ enabled /\ pushed
                     THEN UNCHANGED <<missed, failures>>
                     ELSE HalCallFails
                /\ hw' = [hw EXCEPT ![v].wps = @ \/ enabled,
                                    ![v].pbc = starts \/ (@ /\ ~cancelled)]
                /\ wpsRaised' = wpsRaised
                     \o (IF ends THEN <<[ssid_index |-> v, event |-> "DISABLE"]>> ELSE <<>>)
                     \o (IF starts THEN <<[ssid_index |-> v, event |-> "ACTIVE"]>> ELSE <<>>)

\* Mutated form: an entry in the list is left alone.
vif_state_update_deferred_once(v) ==
    IF DELAY = 0
      THEN StateUpdate(v, "instant") /\ UNCHANGED timer
      ELSE /\ timer' = [timer EXCEPT ![v] = IF @ = 0 THEN DELAY ELSE @]
           /\ UNCHANGED <<loop, updateVars>>

\* The instant update, the first request for the VAP, or a further one.
vif_state_update_deferred(v) ==
    CASE DELAY = 0 ->
           StateUpdate(v, "instant") /\ UNCHANGED timer
      [] DELAY # 0 /\ timer[v] = 0 ->
           timer' = [timer EXCEPT ![v] = DELAY] /\ UNCHANGED <<loop, updateVars>>
      [] DELAY # 0 /\ timer[v] # 0 ->
           StateUpdate(v, "forced") /\ timer' = [timer EXCEPT ![v] = 0]

\* target_vif_config_set2 with a change of the VAP and of the device type.  A
\* failing wifi_createVAP or wifi_setMultiApDeviceType is only logged.
ConfigSet(v, c, t) ==
    /\ loop = "idle"
    /\ configs < MaxConfigs
    /\ configs' = configs + 1
    /\ \/ /\ want' = [want EXCEPT ![v] = c]
          /\ settle' = [settle EXCEPT ![v] = SettleMax]
          /\ hw' = [hw EXCEPT ![v].type = t, ![v].conf = IF SettleMax = 0 THEN c ELSE @]
          /\ UNCHANGED <<missed, failures>>
       \/ HalCallFails /\ UNCHANGED driverVars
    /\ vif_state_update_deferred(v)
    /\ UNCHANGED <<raisedVars, queueVars, shown, events>>

\* target_vif_config_set2 with a change of the WPS fields.
ConfigSetWps(v, wps, pbc) ==
    /\ loop = "idle"
    /\ configs < MaxConfigs
    /\ configs' = configs + 1
    /\ vif_config_set_wps(v, wps, pbc)
    /\ vif_state_update_deferred(v)
    /\ UNCHANGED <<want, settle, mapRaised, queueVars, shown, events>>

\* vif_state_update_task: the timer expires.
vif_state_update_task(v) ==
    /\ loop = "idle"
    /\ timer[v] = 1
    /\ timer' = [timer EXCEPT ![v] = 0]
    /\ StateUpdate(v, "task")
    /\ UNCHANGED <<driverVars, raisedVars, queueVars, shown, missed, boundVars>>

\* The resync pass of Radio.tla reaches the VAP.
Resync(v) ==
    /\ loop = "idle"
    /\ StateUpdate(v, "resync")
    /\ UNCHANGED <<driverVars, raisedVars, queueVars, timer, shown, missed,
                   boundVars>>

-----------------------------------------------------------------------------
(* The events on the event loop.                                           *)

WpsAsync ==
    /\ loop = "idle"
    /\ hal_cb_wps_queue # <<>>
    /\ loop' = "wps"
    /\ UNCHANGED <<driverVars, raisedVars, queueVars, timer, updateVars, shown,
                   missed, boundVars>>

\* Mutated form: the end of a cancelled session is ignored.
WpsHandleNoDisable ==
    /\ loop = "wps"
    /\ WpsQueue!Deliver
    /\ LET e == Head(hal_cb_wps_queue)
       IN  shown' = [shown EXCEPT ![e.ssid_index].pbc =
                          IF e.event \in SessionEnds THEN FALSE ELSE @]
    /\ UNCHANGED <<driverVars, raisedVars, hal_cb_multi_ap_queue, timer, loop,
                   updateVars, boundVars, missed>>

\* wps_hal_async_cb, one event: the end of a session is written to the row,
\* unless the name of the VAP or of its radio cannot be found.
WpsHandle ==
    /\ loop = "wps"
    /\ WpsQueue!Deliver
    /\ LET e == Head(hal_cb_wps_queue)
       IN  \/ /\ shown' = [shown EXCEPT ![e.ssid_index].pbc =
                             IF e.event \in EndEvents THEN FALSE ELSE @]
              /\ UNCHANGED <<missed, failures>>
           \/ HalCallFails /\ UNCHANGED shown
    /\ UNCHANGED <<driverVars, raisedVars, hal_cb_multi_ap_queue, timer, loop,
                   updateVars, events, configs>>

WpsAsyncEnd ==
    /\ loop = "wps"
    /\ hal_cb_wps_queue = <<>>
    /\ loop' = "idle"
    /\ UNCHANGED <<driverVars, raisedVars, queueVars, timer, updateVars, shown,
                   missed, boundVars>>

MultiApAsync ==
    /\ loop = "idle"
    /\ hal_cb_multi_ap_queue # <<>>
    /\ loop' = "multi_ap"
    /\ UNCHANGED <<driverVars, raisedVars, queueVars, timer, updateVars, shown,
                   missed, boundVars>>

\* multi_ap_hal_async_cb, one event: the whole state is read and written.
MultiApHandle ==
    /\ loop = "multi_ap"
    /\ MultiApQueue!Deliver
    /\ \/ /\ StateUpdate(Head(hal_cb_multi_ap_queue), "multi_ap")
          /\ UNCHANGED <<missed, failures>>
       \/ HalCallFails /\ UNCHANGED <<loop, updateVars>>
    /\ UNCHANGED <<driverVars, raisedVars, hal_cb_wps_queue, timer, shown,
                   events, configs>>

MultiApAsyncEnd ==
    /\ loop = "multi_ap"
    /\ hal_cb_multi_ap_queue = <<>>
    /\ loop' = "idle"
    /\ UNCHANGED <<driverVars, raisedVars, queueVars, timer, updateVars, shown,
                   missed, boundVars>>

-----------------------------------------------------------------------------
DriverStep ==
    \E v \in Vaps :
      \/ \E e \in SessionEnds : PbcEnds(v, e)
      \/ \E a \in Addrs : VlanChanges(v, a)
      \/ PbcOverlap(v)

ConfigStep ==
    \E v \in Vaps :
      \/ \E c \in Confs, t \in Types : ConfigSet(v, c, t)
      \/ \E wps, pbc \in BOOLEAN : ConfigSetWps(v, wps, pbc)

UpdateStep == StateGetVap \/ wps_to_state \/ multi_ap_to_state \/ StateWrite
AsyncStep == WpsHandle \/ WpsAsyncEnd \/ MultiApHandle \/ MultiApAsyncEnd

Next ==
    \/ DriverStep \/ ConfigStep
    \/ wps_hal_cb \/ multi_ap_hal_cb
    \/ WpsAsync \/ MultiApAsync \/ AsyncStep
    \/ UpdateStep
    \/ Tick
    \/ \E v \in Vaps : Settle(v) \/ vif_state_update_task(v) \/ Resync(v)

Spec == Init /\ [][Next]_vars

\* Time passes, the driver applies what it was given, the loop handles what
\* woke it, and the health check recurs.
FairSpec ==
    /\ Spec
    /\ WF_vars(Tick)
    /\ WF_vars(UpdateStep)
    /\ WF_vars(AsyncStep)
    /\ SF_vars(wps_hal_cb) /\ SF_vars(multi_ap_hal_cb)
    /\ SF_vars(WpsAsync) /\ SF_vars(MultiApAsync)
    /\ \A v \in Vaps : /\ WF_vars(Settle(v))
                       /\ SF_vars(vif_state_update_task(v))
                       /\ SF_vars(Resync(v))

-----------------------------------------------------------------------------
(* Properties.                                                             *)

TypeOK ==
    /\ hw \in [Vaps -> Driver] /\ shown \in [Vaps -> Driver]
    /\ want \in [Vaps -> Confs] /\ settle \in [Vaps -> 0 .. SettleMax]
    /\ wpsRaised \in Seq(WpsEvent) /\ mapRaised \in Seq(Vaps)
    /\ hal_cb_wps_queue \in Seq(WpsEvent) /\ hal_cb_multi_ap_queue \in Seq(Vaps)
    /\ timer \in [Vaps -> 0 .. DELAY]
    /\ loop \in {"idle", "get_vap", "get_wps", "get_multi_ap", "write", "wps",
                 "multi_ap"}
    /\ upd \in Vaps \cup {NoVap}
    /\ upd = NoVap <=> loop \in {"idle", "wps", "multi_ap"}
    /\ vstate \in Driver
    /\ caller \in {"none", "instant", "forced", "task", "resync", "multi_ap"}
    /\ missed \in BOOLEAN
    /\ events \in Nat /\ configs \in Nat /\ failures \in Nat

Rows(v) == {shown[v]} \cup (IF upd = v THEN {vstate} ELSE {})

\* The deferred update is not taken too early.  However close together the
\* configuration requests come, and whoever else reads the state in between,
\* once a VAP has no timer running and no update under way OpenSync sees the
\* configuration the driver has, the device type and the WPS mode with it.
ConfShownWhenQuiet ==
    \A v \in Vaps :
      ~missed /\ timer[v] = 0 /\ upd # v
        => /\ settle[v] = 0
           /\ shown[v].conf = hw[v].conf
           /\ shown[v].type = hw[v].type
           /\ shown[v].wps = hw[v].wps

\* wps_pbc is not stuck at true.  If OpenSync sees, or is about to be shown, a
\* push-button session that is over, the event of its end is still to come:
\* an update that read "active" just before the end cannot undo the event.
PbcEndIsNoticed ==
    \A v \in Vaps :
      ~missed /\ ~hw[v].pbc /\ (\E row \in Rows(v) : row.pbc)
        => \E i \in 1 .. Len(hal_cb_wps_queue \o wpsRaised) :
             LET e == (hal_cb_wps_queue \o wpsRaised)[i]
             IN  e.ssid_index = v /\ e.event \in EndEvents

\* When nothing changes any more, OpenSync eventually sees the driver's state
\* for good, in spite of dropped events and of the end of a cancelled session
\* that is handled after the next session was started and shown.
EventuallyShown == <>[](shown = hw)
=============================================================================
