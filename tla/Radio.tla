------------------------------- MODULE Radio -------------------------------
(***************************************************************************)
(* Radio configuration and radio state (radio.c).                          *)
(*                                                                         *)
(* The driver changes channels on its own time: some while after           *)
(* radio_change_channel asked for it, or at once when radar is detected.   *)
(* OpenSync sees what op_rstate last told it (shown).  Three things bring  *)
(* the two together, all on the event loop: channel events, copied off the *)
(* bounded queue under the mutex and processed as a batch after it is      *)
(* released; the resync pass over all radios, run by a timer that a        *)
(* configuration change starts and g_resync_ongoing guards; and the health *)
(* check, which asks for a resync pass now and then.                       *)
(***************************************************************************)
EXTENDS Integers, Sequences, SequencesExt

CONSTANTS
    NumRadios,          \* radio indexes are 1 .. NumRadios
    Channels,
    NoChannel,          \* no channel change is under way
    HAL_CB_QUEUE_MAX,
    RESYNC_UPDATE_DELAY_SECONDS,
    MaxRaised,          \* bound: events raised and not yet delivered
    MaxChanges,         \* bound: channel and radar events and configuration requests
    MaxConfigs,         \* bound: configuration requests among them
    MaxFailures         \* bound: failing HAL calls

ASSUME RadioAssumption ==
    /\ NumRadios \in Nat \ {0}
    /\ NoChannel \notin Channels
    /\ HAL_CB_QUEUE_MAX \in Nat \ {0}
    /\ RESYNC_UPDATE_DELAY_SECONDS \in Nat \ {0}
    /\ MaxRaised \in Nat /\ MaxChanges \in Nat
    /\ MaxConfigs \in Nat /\ MaxFailures \in Nat

Radios == 1 .. NumRadios

Event == [event : {"CHANNELS_CHANGED", "RADAR_DETECTED"}, radioIndex : Radios,
          channel : Channels, tv : 1 .. MaxChanges]

RadioState == [enabled : BOOLEAN, channel : Channels]

\* The last radar event of any radio, as each radio's state shows it.
Radar == [channel : Channels \cup {NoChannel}, time : Nat]

\* The channel map, zero-wait DFS and the rest of the row come from the driver
\* in the same call as the channel, which stands for them.
ShownState == [enabled : BOOLEAN, channel : Channels, radar : Radar]

VARIABLES
    \* the driver
    hw,                 \* enabled and channel of each radio
    csa,                \* the channel a radio is switching to, or NoChannel
    raised,             \* events whose callback has not been called yet
    \* the library
    hal_cb_queue,
    cbe,                \* the rest of the batch copied to the stack
    cbe0_tv,            \* timestamp of the batch's first event
    state_already_synchronized,
    dfs,                \* dfs_last_channel and dfs_radar_timestamp
    g_resync_ongoing,
    timer,              \* seconds left on the resync timer, 0: stopped
    loop,               \* idle, async (processing a batch) or resync
    nextRadio,          \* the radio the resync pass visits next
    \* OpenSync's view
    shown,
    \* history and bounds
    missed,             \* an event was dropped or its state update failed
    reader,             \* radio of the batch's first CHANNELS_CHANGED, 0: none yet
    overlooked,         \* radios whose last event was dropped, skipped on account
                        \* of another radio's, or failed to be read
    events, configs, failures

driverVars == <<hw, csa>>
batchVars == <<cbe, cbe0_tv, state_already_synchronized>>
historyVars == <<missed, reader, overlooked>>
resyncVars == <<g_resync_ongoing, timer, nextRadio>>
vars == <<driverVars, raised, hal_cb_queue, batchVars, dfs, resyncVars, loop,
          shown, historyVars, events, configs, failures>>

EventQueue == INSTANCE AbstractEventQueue WITH box <- hal_cb_queue, Events <- Event

\* The state of a radio as the driver has it by now.
radio_state_get(r, radar) ==
    [enabled |-> hw[r].enabled, channel |-> hw[r].channel, radar |-> radar]

Init ==
    \E c \in Channels :
      /\ hw = [r \in Radios |-> [enabled |-> TRUE, channel |-> c]]
      /\ csa = [r \in Radios |-> NoChannel]
      /\ raised = <<>>
      /\ EventQueue!Init
      /\ cbe = <<>>
      /\ cbe0_tv = 0
      /\ state_already_synchronized = FALSE
      /\ dfs = [channel |-> NoChannel, time |-> 0]
      /\ shown = [r \in Radios |-> radio_state_get(r, dfs)]
      /\ g_resync_ongoing = FALSE
      /\ timer = 0
      /\ loop = "idle"
      /\ nextRadio = 1
      /\ missed = FALSE
      /\ reader = 0 /\ overlooked = {}
      /\ events = 0 /\ configs = 0 /\ failures = 0

HalCallFails ==
    /\ failures < MaxFailures
    /\ failures' = failures + 1

-----------------------------------------------------------------------------
(* The driver.  The time of an event is its number.                        *)

Raise(kind, r, c) ==
    /\ events + configs < MaxChanges
    /\ events' = events + 1
    /\ Len(raised) < MaxRaised
    /\ raised' = Append(raised, [event |-> kind, radioIndex |-> r,
                                 channel |-> c, tv |-> events'])

\* A channel switch is complete, or the driver selected a channel by itself.
ChannelChanged(r, c) ==
    /\ csa[r] \in {NoChannel, c}
    /\ hw' = [hw EXCEPT ![r].channel = c]
    /\ csa' = [csa EXCEPT ![r] = NoChannel]
    /\ Raise("CHANNELS_CHANGED", r, c)
    /\ UNCHANGED <<hal_cb_queue, batchVars, dfs, resyncVars, loop, shown,
                   historyVars, configs, failures>>

\* Radar on the operating channel: the driver leaves it.
RadarDetected(r, c) ==
    /\ c # hw[r].channel
    /\ hw' = [hw EXCEPT ![r].channel = c]
    /\ csa' = [csa EXCEPT ![r] = NoChannel]
    /\ Raise("RADAR_DETECTED", r, hw[r].channel)
    /\ UNCHANGED <<hal_cb_queue, batchVars, dfs, resyncVars, loop, shown,
                   historyVars, configs, failures>>

\* chan_event_cb, as HalEventQueue models it; its mutex is held only while the
\* batch is copied, so it may run at any other time.
HalCallback ==
    /\ raised # <<>>
    /\ raised' = Tail(raised)
    /\ \/ /\ EventQueue!Accept(Head(raised))
          /\ UNCHANGED <<missed, overlooked>>
       \/ /\ Len(hal_cb_queue) = HAL_CB_QUEUE_MAX
          /\ missed' = TRUE
          /\ overlooked' = overlooked \cup {Head(raised).radioIndex}
          /\ UNCHANGED hal_cb_queue
    /\ UNCHANGED <<driverVars, batchVars, dfs, resyncVars, loop, shown, reader,
                   events, configs, failures>>

-----------------------------------------------------------------------------
(* Channel events on the event loop.                                       *)

\* Copy the whole queue to the stack, under the mutex.
AsyncCopy ==
    /\ loop = "idle"
    /\ hal_cb_queue # <<>>
    /\ cbe' = hal_cb_queue
    /\ cbe0_tv' = Head(hal_cb_queue).tv
    /\ state_already_synchronized' = FALSE
    /\ hal_cb_queue' = <<>>
    /\ loop' = "async"
    /\ reader' = 0
    /\ UNCHANGED <<driverVars, raised, dfs, resyncVars, shown, missed, overlooked,
                   events, configs, failures>>

\* A failing radio_state_get leaves the view as it was.
radio_state_update(r, radar) ==
    \/ /\ shown' = [shown EXCEPT ![r] = radio_state_get(r, radar)]
       /\ overlooked' = overlooked \ {r}
       /\ UNCHANGED failures
    \/ /\ HalCallFails
       /\ overlooked' = IF loop = "async" THEN overlooked \cup {r} ELSE overlooked
       /\ UNCHANGED shown

\* Mutated form: the first event ends the loop over the batch.
ChannelsChangedEventReturns ==
    /\ loop = "async"
    /\ cbe # <<>>
    /\ Head(cbe).event = "CHANNELS_CHANGED"
    /\ cbe' = <<>>
    /\ radio_state_update(Head(cbe).radioIndex, dfs)
    /\ reader' = Head(cbe).radioIndex
    /\ state_already_synchronized' = TRUE
    /\ missed' = (missed \/ failures' # failures)
    /\ UNCHANGED <<driverVars, raised, hal_cb_queue, cbe0_tv, dfs, resyncVars,
                   loop, events, configs>>

\* The driver is read for the first such event of a batch only.
ChannelsChangedEvent ==
    /\ loop = "async"
    /\ cbe # <<>>
    /\ Head(cbe).event = "CHANNELS_CHANGED"
    /\ cbe' = Tail(cbe)
    /\ LET r == Head(cbe).radioIndex
       IN  /\ IF state_already_synchronized
                THEN /\ overlooked' = IF reader \in {0, r} THEN overlooked
                                                          ELSE overlooked \cup {r}
                     /\ UNCHANGED <<shown, failures>>
                ELSE radio_state_update(r, dfs)
           /\ reader' = IF reader = 0 THEN r ELSE reader
    /\ state_already_synchronized' = TRUE
    /\ missed' = (missed \/ failures' # failures)
    /\ UNCHANGED <<driverVars, raised, hal_cb_queue, cbe0_tv, dfs, resyncVars,
                   loop, events, configs>>

\* Mutated form: a radar event is skipped as well once the driver was read.
RadarDetectedEventOnce ==
    /\ loop = "async"
    /\ cbe # <<>>
    /\ Head(cbe).event = "RADAR_DETECTED"
    /\ cbe' = Tail(cbe)
    /\ dfs' = [channel |-> Head(cbe).channel, time |-> cbe0_tv]
    /\ IF state_already_synchronized
         THEN UNCHANGED <<shown, overlooked, failures>>
         ELSE radio_state_update(Head(cbe).radioIndex, dfs')
    /\ missed' = (missed \/ failures' # failures)
    /\ UNCHANGED <<driverVars, raised, hal_cb_queue, cbe0_tv,
                   state_already_synchronized, resyncVars, loop, reader,
                   events, configs>>

\* The code takes the timestamp of the first event of the batch.
RadarDetectedEvent ==
    /\ loop = "async"
    /\ cbe # <<>>
    /\ Head(cbe).event = "RADAR_DETECTED"
    /\ cbe' = Tail(cbe)
    /\ dfs' = [channel |-> Head(cbe).channel, time |-> cbe0_tv]
    /\ radio_state_update(Head(cbe).radioIndex, dfs')
    /\ missed' = (missed \/ failures' # failures)
    /\ UNCHANGED <<driverVars, raised, hal_cb_queue, cbe0_tv,
                   state_already_synchronized, resyncVars, loop, reader,
                   events, configs>>

AsyncEnd ==
    /\ loop = "async"
    /\ cbe = <<>>
    /\ loop' = "idle"
    /\ UNCHANGED <<driverVars, raised, hal_cb_queue, batchVars, dfs, resyncVars,
                   shown, historyVars, events, configs, failures>>

-----------------------------------------------------------------------------
(* Resync, health check and configuration on the event loop.               *)

\* One pass is scheduled or under way at a time.
radio_trigger_resync ==
    IF g_resync_ongoing
      THEN UNCHANGED <<g_resync_ongoing, timer>>
      ELSE /\ g_resync_ongoing' = TRUE
           /\ timer' = RESYNC_UPDATE_DELAY_SECONDS

\* Mutated form: the health check only winds up its own timer.
healthcheck_task_idle ==
    /\ loop = "idle"
    /\ UNCHANGED vars

\* The health check also starts its own timer again, so it recurs.
healthcheck_task ==
    /\ loop = "idle"
    /\ radio_trigger_resync
    /\ UNCHANGED <<driverVars, raised, hal_cb_queue, batchVars, dfs, nextRadio,
                   loop, shown, historyVars, events, configs, failures>>

\* target_radio_config_set2, every change applied: channel 0 and an absent
\* channel start no switch; a failing sync message is only logged.
ConfigSet(r, enable, c) ==
    /\ loop = "idle"
    /\ configs < MaxConfigs /\ events + configs < MaxChanges
    /\ configs' = configs + 1
    /\ hw' = [hw EXCEPT ![r].enabled = enable]
    /\ csa' = [csa EXCEPT ![r] = IF c = NoChannel THEN @ ELSE c]
    /\ radio_trigger_resync
    /\ UNCHANGED <<raised, hal_cb_queue, batchVars, dfs, nextRadio, loop, shown,
                   historyVars, events, failures>>

\* target_radio_config_set2, with a HAL call failing: the changes made before
\* it stay, and the early return skips the resync.
ConfigSetFails(r, enable) ==
    /\ loop = "idle"
    /\ configs < MaxConfigs /\ events + configs < MaxChanges
    /\ configs' = configs + 1
    /\ HalCallFails
    /\ hw' = [hw EXCEPT ![r].enabled = enable]
    /\ UNCHANGED <<csa, raised, hal_cb_queue, batchVars, dfs, resyncVars, loop,
                   shown, historyVars, events>>

Tick ==
    /\ timer > 1
    /\ timer' = timer - 1
    /\ UNCHANGED <<driverVars, raised, hal_cb_queue, batchVars, dfs, nextRadio,
                   g_resync_ongoing, loop, shown, historyVars, events,
                   configs, failures>>

\* The timer expires and libev calls radio_resync_all_task.
ResyncBegin ==
    /\ loop = "idle"
    /\ timer = 1
    /\ timer' = 0
    /\ loop' = "resync"
    /\ nextRadio' = 1
    /\ UNCHANGED <<driverVars, raised, hal_cb_queue, batchVars, dfs,
                   g_resync_ongoing, shown, historyVars, events, configs,
                   failures>>

ResyncRadio ==
    /\ loop = "resync"
    /\ nextRadio <= NumRadios
    /\ nextRadio' = nextRadio + 1
    /\ radio_state_update(nextRadio, dfs)
    /\ UNCHANGED <<driverVars, raised, hal_cb_queue, batchVars, dfs,
                   g_resync_ongoing, timer, loop, missed, reader, events, configs>>

\* Mutated form: the early exit does not pass "out".
ResyncEndForgets ==
    /\ loop = "resync"
    /\ \/ nextRadio > NumRadios /\ g_resync_ongoing' = FALSE /\ UNCHANGED failures
       \/ HalCallFails /\ UNCHANGED g_resync_ongoing
    /\ loop' = "idle"
    /\ nextRadio' = 1
    /\ UNCHANGED <<driverVars, raised, hal_cb_queue, batchVars, dfs, timer,
                   shown, historyVars, events, configs>>

\* Every radio was visited, or a failing wifi_getHalCapability or
\* wifi_getRadioVapInfoMap ends the pass early, at "out" as well.
ResyncEnd ==
    /\ loop = "resync"
    /\ \/ nextRadio > NumRadios /\ UNCHANGED failures
       \/ HalCallFails
    /\ g_resync_ongoing' = FALSE
    /\ loop' = "idle"
    /\ nextRadio' = 1
    /\ UNCHANGED <<driverVars, raised, hal_cb_queue, batchVars, dfs, timer,
                   shown, historyVars, events, configs>>

-----------------------------------------------------------------------------
AsyncStep == ChannelsChangedEvent \/ RadarDetectedEvent \/ AsyncEnd
ResyncStep == ResyncRadio \/ ResyncEnd

Next ==
    \/ \E r \in Radios, c \in Channels : ChannelChanged(r, c) \/ RadarDetected(r, c)
    \/ \E r \in Radios, enable \in BOOLEAN, c \in Channels \cup {NoChannel} :
          ConfigSet(r, enable, c)
    \/ \E r \in Radios, enable \in BOOLEAN : ConfigSetFails(r, enable)
    \/ HalCallback \/ AsyncCopy \/ AsyncStep
    \/ healthcheck_task \/ Tick \/ ResyncBegin \/ ResyncStep

Spec == Init /\ [][Next]_vars

\* Time passes, the loop handles what woke it, and the health check recurs.
FairSpec ==
    /\ Spec
    /\ WF_vars(HalCallback)
    /\ WF_vars(Tick)
    /\ WF_vars(AsyncStep)
    /\ WF_vars(ResyncStep)
    /\ SF_vars(AsyncCopy)
    /\ SF_vars(ResyncBegin)
    /\ SF_vars(healthcheck_task)

-----------------------------------------------------------------------------
(* Properties.                                                             *)

TypeOK ==
    /\ hw \in [Radios -> RadioState]
    /\ shown \in [Radios -> ShownState]
    /\ csa \in [Radios -> Channels \cup {NoChannel}]
    /\ raised \in Seq(Event)
    /\ hal_cb_queue \in Seq(Event)
    /\ cbe \in Seq(Event)
    /\ cbe0_tv \in Nat
    /\ state_already_synchronized \in BOOLEAN
    /\ dfs \in Radar
    /\ g_resync_ongoing \in BOOLEAN
    /\ timer \in 0 .. RESYNC_UPDATE_DELAY_SECONDS
    /\ loop \in {"idle", "async", "resync"}
    /\ nextRadio \in 1 .. NumRadios + 1
    /\ missed \in BOOLEAN /\ reader \in 0 .. NumRadios /\ overlooked \subseteq Radios
    /\ events \in 0 .. MaxChanges /\ configs \in Nat /\ failures \in Nat

\* A batch fits into the array on the stack it is copied to: the copying loop
\* checks nothing and relies on the callback's limit.
BatchFits == Len(cbe) <= HAL_CB_QUEUE_MAX

\* A resync is marked as ongoing exactly while its timer runs or its pass is
\* under way.  If the mark stayed set without a timer, every later trigger
\* would be ignored and OpenSync would never be told anything again.
OngoingMeansScheduled ==
    g_resync_ongoing <=> timer # 0 \/ loop = "resync"

\* A trigger never puts a scheduled pass off: configuration changes that come
\* faster than the delay cannot starve it.
NeverPostponed == [][timer # 0 => timer' <= timer]_vars

\* radio_state_update is called for the first CHANNELS_CHANGED of a batch and
\* skipped for the rest of it: "Only need to read channel map once"
\* (radio.c:907).  Once all events are handled and none was lost, the channel
\* OpenSync sees is the one the driver uses.
ChannelsShown ==
    ~missed /\ raised = <<>> /\ hal_cb_queue = <<>> /\ cbe = <<>>
      => \A r \in Radios : shown[r].channel = hw[r].channel

\* A channel that OpenSync does not know has an event of its radio on the way,
\* or that event was overlooked: the queue was full, the driver could not be
\* read, or another radio's event in the same batch was read for instead of it.
\* Reading the driver late is safe, and once for several events of one radio is
\* enough, whatever channel it changes to meanwhile.
ChannelsFollow ==
    \A r \in Radios : \/ shown[r].channel = hw[r].channel
                     \/ r \in overlooked
                     \/ \E e \in ToSet(raised) \cup ToSet(hal_cb_queue) \cup ToSet(cbe) :
                           e.radioIndex = r

\* The queue and the batch taken off it are one box of twice the size: each
\* accepted event is handled once and in the order of acceptance, also while the
\* next events are accepted behind a batch that is being handled.
Unhandled == INSTANCE AbstractEventQueue WITH
    box <- cbe \o hal_cb_queue, Events <- Event, HAL_CB_QUEUE_MAX <- 2 * HAL_CB_QUEUE_MAX

ImplementsBox == Unhandled!Spec

\* When no more changes are made and no more HAL calls fail, OpenSync
\* eventually sees the state of every radio and the last radar event, also
\* after a configuration request that failed half way and triggered no resync.
EventuallyShown == <>[](\A r \in Radios : shown[r] = radio_state_get(r, dfs))
=============================================================================
