--------------------------- MODULE Radio_proofs ---------------------------
(***************************************************************************)
(* For any number of radios and channels, any queue size and any delay:    *)
(* types, the bound on a batch of channel events, the two properties of    *)
(* the resync timer, that OpenSync follows the channels, and that queue    *)
(* and batch are one box.                                                  *)
(*                                                                         *)
(* Resync: the flag is cleared only at the end of a pass, and the timer is *)
(* started only when the flag is clear; so no timer runs during a pass,    *)
(* which is what makes the equivalence inductive.  Batch: a batch is the   *)
(* queue at some moment, so the bound on the queue is the bound on it.     *)
(* Channels: an event in the batch counts as on the way only if its radio  *)
(* will still be read for it (Due); one that will be skipped is covered by *)
(* the earlier read of the same radio or marks it as overlooked.           *)
(***************************************************************************)
EXTENDS Radio, TLAPS

QueueFits == Len(hal_cb_queue) <= HAL_CB_QUEUE_MAX

TimerOffInPass == loop = "resync" => timer = 0

RInv == TypeOK /\ QueueFits /\ BatchFits /\ OngoingMeansScheduled /\ TimerOffInPass

USE RadioAssumption

-----------------------------------------------------------------------------
LEMMA InitRInv == Init => RInv
<1> SUFFICES ASSUME Init PROVE RInv
  OBVIOUS
<1>1. PICK c \in Channels :
         hw = [r \in Radios |-> [enabled |-> TRUE, channel |-> c]]
  BY DEF Init
<1>2. hw \in [Radios -> RadioState] /\ dfs \in Radar
  BY <1>1 DEF RadioState, Radar, Init
<1>3. \A r \in Radios : radio_state_get(r, dfs) \in ShownState
  BY <1>2 DEF radio_state_get, ShownState, RadioState
<1>4. shown \in [Radios -> ShownState]
  BY <1>3 DEF Init
<1>5. <<>> \in Seq(Event) /\ 0 \in 0 .. RESYNC_UPDATE_DELAY_SECONDS
      /\ 1 \in 1 .. NumRadios + 1 /\ 0 \in Nat /\ 0 \in 0 .. NumRadios /\ 0 \in 0 .. MaxChanges
  OBVIOUS
<1>6. csa \in [Radios -> Channels \cup {NoChannel}]
  BY DEF Init
<1>7. TypeOK
  BY <1>2, <1>4, <1>5, <1>6 DEF Init, TypeOK, EventQueue!Init
<1> QED
  BY <1>7 DEF Init, RInv, QueueFits, BatchFits, OngoingMeansScheduled,
              TimerOffInPass, EventQueue!Init

\* An event the driver raises is well formed.
LEMMA RaiseType ==
  ASSUME TypeOK, NEW kind \in {"CHANNELS_CHANGED", "RADAR_DETECTED"},
         NEW r \in Radios, NEW c \in Channels, Raise(kind, r, c)
  PROVE  raised' \in Seq(Event) /\ events' \in 1 .. MaxChanges
<1>1. events' \in 1 .. MaxChanges
  BY DEF TypeOK, Raise
<1> DEFINE e == [event |-> kind, radioIndex |-> r, channel |-> c, tv |-> events']
<1>2. e \in Event
  BY <1>1 DEF Event
<1>3. raised' = Append(raised, e)
  BY DEF Raise
<1> HIDE DEF e
<1>4. raised' \in Seq(Event)
  BY <1>2, <1>3 DEF TypeOK
<1> QED
  BY <1>1, <1>4

LEMMA DriverStep ==
  ASSUME RInv, NEW r \in Radios, NEW c \in Channels,
         ChannelChanged(r, c) \/ RadarDetected(r, c)
  PROVE  RInv'
<1> USE DEF RInv, QueueFits, BatchFits, OngoingMeansScheduled, TimerOffInPass,
            driverVars, batchVars, resyncVars, historyVars, RadioState
<1>1. hw[r].channel \in Channels
  BY DEF TypeOK
<1>2. CASE ChannelChanged(r, c)
  <2>1. raised' \in Seq(Event) /\ events' \in 1 .. MaxChanges
    BY <1>2, RaiseType DEF ChannelChanged
  <2>2. hw' \in [Radios -> RadioState] /\ csa' \in [Radios -> Channels \cup {NoChannel}]
    BY <1>2 DEF ChannelChanged, TypeOK
  <2>3. TypeOK'
    BY <1>2, <2>1, <2>2 DEF ChannelChanged, TypeOK
  <2> QED
    BY <1>2, <2>3 DEF ChannelChanged
<1>3. CASE RadarDetected(r, c)
  <2>1. raised' \in Seq(Event) /\ events' \in 1 .. MaxChanges
    BY <1>1, <1>3, RaiseType DEF RadarDetected
  <2>2. hw' \in [Radios -> RadioState] /\ csa' \in [Radios -> Channels \cup {NoChannel}]
    BY <1>3 DEF RadarDetected, TypeOK
  <2>3. TypeOK'
    BY <1>3, <2>1, <2>2 DEF RadarDetected, TypeOK
  <2> QED
    BY <1>3, <2>3 DEF RadarDetected
<1> QED
  BY <1>2, <1>3

LEMMA CallbackStep == RInv /\ HalCallback => RInv'
<1> SUFFICES ASSUME RInv, HalCallback PROVE RInv'
  OBVIOUS
<1> USE DEF RInv, QueueFits, BatchFits, OngoingMeansScheduled, TimerOffInPass,
            driverVars, batchVars, resyncVars, historyVars
<1>1. raised \in Seq(Event) /\ hal_cb_queue \in Seq(Event) /\ raised # <<>>
  BY DEF TypeOK, HalCallback
<1>2. raised' \in Seq(Event) /\ Head(raised) \in Event
  BY <1>1 DEF HalCallback
<1>3. hal_cb_queue' \in Seq(Event) /\ Len(hal_cb_queue') <= HAL_CB_QUEUE_MAX
  <2>1. CASE EventQueue!Accept(Head(raised))
    <3>1. /\ Len(hal_cb_queue) < HAL_CB_QUEUE_MAX
          /\ hal_cb_queue' = Append(hal_cb_queue, Head(raised))
      BY <2>1 DEF EventQueue!Accept
    <3>2. Len(Append(hal_cb_queue, Head(raised))) = Len(hal_cb_queue) + 1
          /\ Append(hal_cb_queue, Head(raised)) \in Seq(Event)
      BY <1>1, <1>2
    <3> QED
      BY <1>1, <3>1, <3>2
  <2>2. CASE hal_cb_queue' = hal_cb_queue
    BY <1>1, <2>2
  <2> QED
    BY <2>1, <2>2 DEF HalCallback
<1>4. overlooked' \subseteq Radios /\ missed' \in BOOLEAN
  <2>1. Head(raised).radioIndex \in Radios
    BY <1>2 DEF Event
  <2> QED
    BY <2>1 DEF HalCallback, TypeOK
<1>5. TypeOK'
  BY <1>2, <1>3, <1>4 DEF HalCallback, TypeOK
<1> QED
  BY <1>3, <1>5 DEF HalCallback

\* A state update shows the driver's state of one radio, or nothing.
LEMMA UpdateType ==
  ASSUME TypeOK, NEW r \in Radios, NEW radar \in Radar,
         radio_state_update(r, radar)
  PROVE  /\ shown' \in [Radios -> ShownState] /\ failures' \in Nat
         /\ overlooked' \subseteq Radios
<1>1. hw[r] \in RadioState /\ shown \in [Radios -> ShownState] /\ failures \in Nat
  BY DEF TypeOK
<1>2. radio_state_get(r, radar) \in ShownState
  BY <1>1 DEF radio_state_get, RadioState, ShownState
<1>3. overlooked' \subseteq Radios
  BY DEF radio_state_update, TypeOK
<1>4. CASE shown' = [shown EXCEPT ![r] = radio_state_get(r, radar)] /\ UNCHANGED failures
  BY <1>1, <1>2, <1>3, <1>4
<1>5. CASE HalCallFails /\ UNCHANGED shown
  BY <1>1, <1>3, <1>5 DEF HalCallFails
<1> QED
  BY <1>4, <1>5 DEF radio_state_update

LEMMA AsyncRInv == RInv /\ (AsyncCopy \/ AsyncStep) => RInv'
<1> USE DEF RInv, QueueFits, BatchFits, OngoingMeansScheduled, TimerOffInPass,
            driverVars, batchVars, resyncVars, historyVars
<1>1. ASSUME RInv, AsyncCopy PROVE RInv'
  <2>1. hal_cb_queue \in Seq(Event) /\ hal_cb_queue # <<>>
    BY <1>1 DEF AsyncCopy, TypeOK
  <2>2. Head(hal_cb_queue) \in Event /\ <<>> \in Seq(Event) /\ Len(<<>>) = 0
    BY <2>1
  <2>3. cbe0_tv' \in Nat
    BY <1>1, <2>2 DEF AsyncCopy, Event
  <2>4. reader' \in 0 .. NumRadios
    BY <1>1 DEF AsyncCopy
  <2>5. TypeOK'
    BY <1>1, <2>2, <2>3, <2>4 DEF AsyncCopy, TypeOK
  <2> QED
    BY <1>1, <2>2, <2>5 DEF AsyncCopy
<1>2. ASSUME RInv, cbe # <<>>
      PROVE  /\ Head(cbe).radioIndex \in Radios /\ Head(cbe).channel \in Channels
             /\ Tail(cbe) \in Seq(Event) /\ Len(Tail(cbe)) <= HAL_CB_QUEUE_MAX
  <2>1. cbe \in Seq(Event) /\ Len(cbe) \in Nat
    BY <1>2 DEF TypeOK
  <2>2. Head(cbe) \in Event /\ Tail(cbe) \in Seq(Event) /\ Len(Tail(cbe)) = Len(cbe) - 1
    BY <1>2, <2>1
  <2> QED
    BY <1>2, <2>1, <2>2 DEF Event
<1>3. ASSUME RInv, ChannelsChangedEvent PROVE RInv'
  <2>1. cbe # <<>> /\ dfs \in Radar
    BY <1>3 DEF ChannelsChangedEvent, TypeOK
  <2>2. /\ shown' \in [Radios -> ShownState] /\ failures' \in Nat
        /\ overlooked' \subseteq Radios
    <3>1. CASE radio_state_update(Head(cbe).radioIndex, dfs)
      BY <1>2, <1>3, <2>1, <3>1, UpdateType
    <3>2. CASE UNCHANGED <<shown, failures>>
               /\ overlooked' \subseteq overlooked \cup {Head(cbe).radioIndex}
      BY <1>2, <1>3, <2>1, <3>2 DEF TypeOK
    <3> QED
      BY <1>3, <3>1, <3>2 DEF ChannelsChangedEvent
  <2>3. reader' \in 0 .. NumRadios
    <3>1. Head(cbe).radioIndex \in 0 .. NumRadios /\ reader \in 0 .. NumRadios
      BY <1>2, <1>3, <2>1 DEF Radios, TypeOK
    <3> QED
      BY <1>3, <3>1 DEF ChannelsChangedEvent
  <2>4. TypeOK'
    BY <1>2, <1>3, <2>1, <2>2, <2>3 DEF ChannelsChangedEvent, TypeOK
  <2> QED
    BY <1>2, <1>3, <2>1, <2>4 DEF ChannelsChangedEvent
<1>4. ASSUME RInv, RadarDetectedEvent PROVE RInv'
  <2>1. dfs' \in Radar
    BY <1>2, <1>4 DEF RadarDetectedEvent, TypeOK, Radar
  <2>2. /\ shown' \in [Radios -> ShownState] /\ failures' \in Nat
        /\ overlooked' \subseteq Radios
    BY <1>2, <1>4, <2>1, UpdateType DEF RadarDetectedEvent
  <2>3. TypeOK'
    BY <1>2, <1>4, <2>1, <2>2 DEF RadarDetectedEvent, TypeOK
  <2> QED
    BY <1>2, <1>4, <2>3 DEF RadarDetectedEvent
<1>5. ASSUME RInv, AsyncEnd PROVE RInv'
  <2>1. TypeOK'
    BY <1>5 DEF AsyncEnd, TypeOK
  <2> QED
    BY <1>5, <2>1 DEF AsyncEnd
<1> QED
  BY <1>1, <1>3, <1>4, <1>5 DEF AsyncStep

\* A trigger starts the timer, or finds it running; it never puts it off.
LEMMA TriggerType ==
  ASSUME RInv, loop = "idle", radio_trigger_resync
  PROVE  /\ timer' \in 0 .. RESYNC_UPDATE_DELAY_SECONDS
         /\ g_resync_ongoing' = TRUE /\ timer' # 0
         /\ timer # 0 => timer' = timer
  BY DEF RInv, TypeOK, OngoingMeansScheduled, radio_trigger_resync

LEMMA ConfigRInv ==
  ASSUME RInv, NEW r \in Radios, NEW enable \in BOOLEAN,
         NEW c \in Channels \cup {NoChannel},
         ConfigSet(r, enable, c) \/ ConfigSetFails(r, enable)
  PROVE  RInv'
<1> USE DEF RInv, QueueFits, BatchFits, OngoingMeansScheduled, TimerOffInPass,
            driverVars, batchVars, resyncVars, historyVars, RadioState
<1>1. CASE ConfigSet(r, enable, c)
  <2>1. /\ timer' \in 0 .. RESYNC_UPDATE_DELAY_SECONDS
        /\ g_resync_ongoing' = TRUE /\ timer' # 0
    BY <1>1, TriggerType DEF ConfigSet
  <2>2. /\ hw' \in [Radios -> RadioState]
        /\ csa' \in [Radios -> Channels \cup {NoChannel}] /\ configs' \in Nat
    <3>1. hw \in [Radios -> RadioState] /\ hw' = [hw EXCEPT ![r].enabled = enable]
      BY <1>1 DEF ConfigSet, TypeOK
    <3>2. hw' \in [Radios -> RadioState]
      BY <3>1
    <3>3. /\ csa \in [Radios -> Channels \cup {NoChannel}]
          /\ csa' = [csa EXCEPT ![r] = IF c = NoChannel THEN @ ELSE c]
      BY <1>1 DEF ConfigSet, TypeOK
    <3>4. csa' \in [Radios -> Channels \cup {NoChannel}]
      BY <3>3
    <3>5. configs \in Nat /\ configs' = configs + 1
      BY <1>1 DEF ConfigSet, TypeOK
    <3>6. configs' \in Nat
      BY <3>5
    <3> QED
      BY <3>2, <3>4, <3>6
  <2>3. TypeOK'
    BY <1>1, <2>1, <2>2 DEF ConfigSet, TypeOK
  <2> QED
    BY <1>1, <2>1, <2>3 DEF ConfigSet
<1>2. CASE ConfigSetFails(r, enable)
  <2>1. hw' \in [Radios -> RadioState] /\ configs' \in Nat /\ failures' \in Nat
    <3>1. hw \in [Radios -> RadioState] /\ hw' = [hw EXCEPT ![r].enabled = enable]
      BY <1>2 DEF ConfigSetFails, TypeOK
    <3>2. hw' \in [Radios -> RadioState]
      BY <3>1
    <3>3. /\ configs \in Nat /\ failures \in Nat
          /\ configs' = configs + 1 /\ failures' = failures + 1
      BY <1>2 DEF ConfigSetFails, HalCallFails, TypeOK
    <3> QED
      BY <3>2, <3>3
  <2>2. TypeOK'
    BY <1>2, <2>1 DEF ConfigSetFails, TypeOK
  <2> QED
    BY <1>2, <2>2 DEF ConfigSetFails
<1> QED
  BY <1>1, <1>2

LEMMA ResyncRInv ==
  RInv /\ (healthcheck_task \/ Tick \/ ResyncBegin \/ ResyncStep) => RInv'
<1> USE DEF RInv, QueueFits, BatchFits, OngoingMeansScheduled, TimerOffInPass,
            driverVars, batchVars, resyncVars, historyVars
<1>1. ASSUME RInv, healthcheck_task PROVE RInv'
  <2>1. /\ timer' \in 0 .. RESYNC_UPDATE_DELAY_SECONDS
        /\ g_resync_ongoing' = TRUE /\ timer' # 0
    BY <1>1, TriggerType DEF healthcheck_task
  <2>2. TypeOK'
    BY <1>1, <2>1 DEF healthcheck_task, TypeOK
  <2> QED
    BY <1>1, <2>1, <2>2 DEF healthcheck_task
<1>2. ASSUME RInv, Tick PROVE RInv'
  <2>1. timer' \in 0 .. RESYNC_UPDATE_DELAY_SECONDS /\ timer' # 0
    BY <1>2 DEF Tick, TypeOK
  <2>2. TypeOK'
    BY <1>2, <2>1 DEF Tick, TypeOK
  <2> QED
    BY <1>2, <2>1, <2>2 DEF Tick
<1>3. ASSUME RInv, ResyncBegin PROVE RInv'
  <2>1. TypeOK'
    BY <1>3 DEF ResyncBegin, TypeOK
  <2> QED
    BY <1>3, <2>1 DEF ResyncBegin
<1>4. ASSUME RInv, ResyncRadio PROVE RInv'
  <2>1. nextRadio \in Radios /\ nextRadio' \in 1 .. NumRadios + 1
    BY <1>4 DEF ResyncRadio, TypeOK, Radios
  <2>2. /\ shown' \in [Radios -> ShownState] /\ failures' \in Nat
        /\ overlooked' \subseteq Radios
    BY <1>4, <2>1, UpdateType DEF ResyncRadio, TypeOK
  <2>3. TypeOK'
    BY <1>4, <2>1, <2>2 DEF ResyncRadio, TypeOK
  <2> QED
    BY <1>4, <2>3 DEF ResyncRadio
<1>5. ASSUME RInv, ResyncEnd PROVE RInv'
  <2>1. failures' \in Nat /\ nextRadio' \in 1 .. NumRadios + 1
    BY <1>5 DEF ResyncEnd, HalCallFails, TypeOK
  <2>2. TypeOK'
    BY <1>5, <2>1 DEF ResyncEnd, TypeOK
  <2> QED
    BY <1>5, <2>2 DEF ResyncEnd
<1> QED
  BY <1>1, <1>2, <1>3, <1>4, <1>5 DEF ResyncStep

LEMMA NextRInv == RInv /\ [Next]_vars => RInv'
<1>1. RInv /\ UNCHANGED vars => RInv'
  BY DEF RInv, TypeOK, QueueFits, BatchFits, OngoingMeansScheduled,
         TimerOffInPass, vars, driverVars, batchVars, resyncVars, historyVars
<1>2. ASSUME RInv, Next PROVE RInv'
  <2>1. CASE \E r \in Radios, enable \in BOOLEAN : ConfigSetFails(r, enable)
    BY <1>2, <2>1, ConfigRInv
  <2>2. CASE \E r \in Radios, enable \in BOOLEAN, c \in Channels \cup {NoChannel} :
               ConfigSet(r, enable, c)
    BY <1>2, <2>2, ConfigRInv
  <2>3. CASE \E r \in Radios, c \in Channels : ChannelChanged(r, c) \/ RadarDetected(r, c)
    BY <1>2, <2>3, DriverStep
  <2> QED
    BY <1>2, <2>1, <2>2, <2>3, CallbackStep, AsyncRInv, ResyncRInv DEF Next
<1> QED
  BY <1>1, <1>2

-----------------------------------------------------------------------------
(* The channels OpenSync knows.                                            *)

About(r, s) == \E e \in ToSet(s) : e.radioIndex = r

\* An event of the batch for which r will be read, or r overlooked.
Due(r, e) ==
    /\ e.radioIndex = r
    /\ e.event = "RADAR_DETECTED" \/ ~state_already_synchronized \/ reader # r

InBatch(r) == \E e \in ToSet(cbe) : Due(r, e)

RadioFollows(r) ==
    shown[r].channel = hw[r].channel \/ r \in overlooked
      \/ About(r, raised) \/ About(r, hal_cb_queue) \/ InBatch(r)

FollowInv ==
    /\ loop # "async" => cbe = <<>>
    /\ state_already_synchronized <=> reader # 0
    /\ \A r \in Radios : RadioFollows(r)

LEMMA ToSetAppend ==
  ASSUME NEW s \in Seq(Event), NEW e \in Event
  PROVE  /\ \A x \in ToSet(s) : x \in ToSet(Append(s, e))
         /\ e \in ToSet(Append(s, e))
<1>1. /\ Len(s) \in Nat /\ DOMAIN s = 1 .. Len(s)
      /\ DOMAIN Append(s, e) = 1 .. Len(s) + 1
  OBVIOUS
<1>2. /\ \A i \in 1 .. Len(s) : Append(s, e)[i] = s[i]
      /\ Append(s, e)[Len(s) + 1] = e
  OBVIOUS
<1> QED
  BY <1>1, <1>2 DEF ToSet

LEMMA ToSetTail ==
  ASSUME NEW s \in Seq(Event), s # <<>>, NEW x \in ToSet(s), x # Head(s)
  PROVE  x \in ToSet(Tail(s))
<1>1. PICK i \in 1 .. Len(s) : x = s[i]
  BY DEF ToSet
<1>2. i # 1 /\ Len(s) \in Nat /\ DOMAIN Tail(s) = 1 .. Len(s) - 1
  BY <1>1
<1>3. i - 1 \in DOMAIN Tail(s)
  BY <1>1, <1>2
<1>4. Tail(s)[i - 1] = s[i]
  BY <1>1, <1>2
<1> QED
  BY <1>1, <1>3, <1>4 DEF ToSet

\* The driver changes a channel and raises an event; an event moves on; a
\* batch is copied when there is none.
LEMMA RaiseFollows ==
  ASSUME RInv, FollowInv, NEW q \in Radios, NEW c \in Channels,
         ChannelChanged(q, c) \/ RadarDetected(q, c)
  PROVE  FollowInv'
<1> USE DEF batchVars, resyncVars, historyVars
<1>1. PICK e \in Event : e.radioIndex = q /\ raised' = Append(raised, e)
  <2>1. events \in 0 .. MaxChanges /\ configs \in Nat /\ hw[q].channel \in Channels
    BY DEF RInv, TypeOK, RadioState
  <2>2. PICK kind \in {"CHANNELS_CHANGED", "RADAR_DETECTED"}, ch \in Channels : Raise(kind, q, ch)
    BY <2>1 DEF ChannelChanged, RadarDetected
  <2>3. events' \in 1 .. MaxChanges
    BY <2>1, <2>2 DEF Raise
  <2> DEFINE e == [event |-> kind, radioIndex |-> q, channel |-> ch, tv |-> events']
  <2>4. e \in Event /\ e.radioIndex = q
    BY <2>3 DEF Event
  <2>5. raised' = Append(raised, e)
    BY <2>2 DEF Raise
  <2> HIDE DEF e
  <2> QED
    BY <2>4, <2>5
<1>2. raised \in Seq(Event)
  BY DEF RInv, TypeOK
<1>3. ASSUME NEW r \in Radios
      PROVE  RadioFollows(r)'
  <2>1. CASE r = q
    BY <1>1, <1>2, <2>1, ToSetAppend DEF RadioFollows, About
  <2>2. CASE r # q
    <3>1. hw'[r].channel = hw[r].channel
      BY <2>2 DEF ChannelChanged, RadarDetected, RInv, TypeOK
    <3>2. UNCHANGED <<shown, overlooked, hal_cb_queue, cbe, state_already_synchronized, reader>>
      BY DEF ChannelChanged, RadarDetected
    <3>3. About(r, raised) => About(r, raised')
      BY <1>1, <1>2, ToSetAppend DEF About
    <3>4. InBatch(r) => InBatch(r)'
      BY <3>2 DEF InBatch, Due
    <3> QED
      BY <3>1, <3>2, <3>3, <3>4 DEF FollowInv, RadioFollows, About
  <2> QED
    BY <2>1, <2>2
<1> QED
  BY <1>3 DEF FollowInv, ChannelChanged, RadarDetected

LEMMA CallbackFollows == RInv /\ FollowInv /\ HalCallback => FollowInv'
<1> SUFFICES ASSUME RInv, FollowInv, HalCallback
             PROVE  FollowInv'
  OBVIOUS
<1> USE DEF driverVars, batchVars, resyncVars
<1>1. raised \in Seq(Event) /\ raised # <<>> /\ hal_cb_queue \in Seq(Event) /\ Head(raised) \in Event
  BY DEF RInv, TypeOK, HalCallback
<1>2. UNCHANGED <<shown, hw, cbe, state_already_synchronized, reader, loop>> /\ raised' = Tail(raised)
  BY DEF HalCallback
<1>3. ASSUME NEW r \in Radios
      PROVE  RadioFollows(r)'
  <2>1. InBatch(r)' <=> InBatch(r)
    BY <1>2 DEF InBatch, Due
  <2>2. About(r, raised) => About(r, raised') \/ Head(raised).radioIndex = r
    BY <1>1, <1>2, ToSetTail DEF About
  <2>3. CASE EventQueue!Accept(Head(raised)) /\ UNCHANGED <<missed, overlooked>>
    <3>1. /\ About(r, hal_cb_queue) => About(r, hal_cb_queue')
          /\ Head(raised).radioIndex = r => About(r, hal_cb_queue')
      BY <1>1, <2>3, ToSetAppend DEF About, EventQueue!Accept
    <3> QED
      BY <1>2, <2>1, <2>2, <2>3, <3>1 DEF FollowInv, RadioFollows
  <2>4. CASE overlooked' = overlooked \cup {Head(raised).radioIndex} /\ UNCHANGED hal_cb_queue
    BY <1>2, <2>1, <2>2, <2>4 DEF FollowInv, RadioFollows, About
  <2> QED
    BY <2>3, <2>4 DEF HalCallback
<1> QED
  BY <1>2, <1>3 DEF FollowInv

LEMMA CopyFollows == RInv /\ FollowInv /\ AsyncCopy => FollowInv'
<1> SUFFICES ASSUME RInv, FollowInv, AsyncCopy
             PROVE  FollowInv'
  OBVIOUS
<1>1. /\ UNCHANGED <<shown, hw, overlooked, raised>> /\ cbe' = hal_cb_queue
      /\ state_already_synchronized' = FALSE /\ loop' = "async" /\ cbe = <<>> /\ reader' = 0
  BY DEF AsyncCopy, FollowInv, driverVars
<1>2. ASSUME NEW r \in Radios
      PROVE  RadioFollows(r)'
  <2>1. ~InBatch(r)
    BY <1>1 DEF InBatch, ToSet
  <2>2. About(r, hal_cb_queue) => InBatch(r)'
    BY <1>1 DEF About, InBatch, Due
  <2> QED
    BY <1>1, <2>1, <2>2 DEF FollowInv, RadioFollows
<1> QED
  BY <1>1, <1>2 DEF FollowInv

\* A successful read shows the channel of that moment; a failing one in a
\* batch marks the radio.
LEMMA UpdateFollows ==
  ASSUME RInv, NEW q \in Radios, NEW radar, radio_state_update(q, radar), UNCHANGED hw,
         NEW r \in Radios,
         shown[r].channel = hw[r].channel \/ r \in overlooked \/ (r = q /\ loop = "async")
  PROVE  shown'[r].channel = hw'[r].channel \/ r \in overlooked'
<1>1. CASE HalCallFails /\ UNCHANGED shown
           /\ overlooked' = IF loop = "async" THEN overlooked \cup {q} ELSE overlooked
  BY <1>1
<1>2. CASE shown' = [shown EXCEPT ![q] = radio_state_get(q, radar)] /\ overlooked' = overlooked \ {q}
  <2>1. CASE r = q
    BY <1>2, <2>1 DEF radio_state_get, RInv, TypeOK
  <2>2. CASE r # q
    BY <1>2, <2>2 DEF RInv, TypeOK
  <2> QED
    BY <2>1, <2>2
<1> QED
  BY <1>1, <1>2 DEF radio_state_update

LEMMA EventFollows ==
  RInv /\ FollowInv /\ (ChannelsChangedEvent \/ RadarDetectedEvent) => FollowInv'
<1> SUFFICES ASSUME RInv, FollowInv, ChannelsChangedEvent \/ RadarDetectedEvent
             PROVE  FollowInv'
  OBVIOUS
<1> DEFINE e == Head(cbe)
           q == e.radioIndex
<1>1. /\ cbe \in Seq(Event) /\ cbe # <<>> /\ cbe' = Tail(cbe) /\ loop = "async" /\ loop' = loop
      /\ UNCHANGED <<hw, raised, hal_cb_queue>>
  BY DEF RInv, TypeOK, ChannelsChangedEvent, RadarDetectedEvent, driverVars
<1>2. e \in Event /\ q \in Radios
  <2>1. e \in Event
    BY <1>1
  <2> HIDE DEF e
  <2> QED
    BY <2>1 DEF Event
<1>3. \A x \in ToSet(cbe) : x = e \/ x \in ToSet(cbe')
  BY <1>1, ToSetTail
<1>4. /\ state_already_synchronized' => state_already_synchronized \/ reader' = q
      /\ state_already_synchronized => reader' = reader
  BY DEF ChannelsChangedEvent, RadarDetectedEvent, FollowInv
<1>5. q # 0
  BY <1>2 DEF Radios
<1>6. state_already_synchronized' <=> reader' # 0
  BY <1>4, <1>5 DEF ChannelsChangedEvent, RadarDetectedEvent, FollowInv
<1> HIDE DEF e, q
<1>7. ASSUME NEW r \in Radios
      PROVE  RadioFollows(r)'
  <2>1. CASE r # q
    <3>1. InBatch(r) => InBatch(r)'
      BY <1>3, <1>4, <2>1 DEF InBatch, Due, q
    <3>2. shown[r].channel = hw[r].channel \/ r \in overlooked
            => shown'[r].channel = hw'[r].channel \/ r \in overlooked'
      BY <1>1, <1>2, <2>1, UpdateFollows DEF ChannelsChangedEvent, RadarDetectedEvent, q, e
    <3> QED
      BY <1>1, <3>1, <3>2 DEF FollowInv, RadioFollows
  <2>2. CASE r = q /\ \E radar : radio_state_update(q, radar)
    BY <1>1, <1>2, <2>2, UpdateFollows DEF RadioFollows
  <2>3. CASE /\ r = q /\ ChannelsChangedEvent /\ state_already_synchronized
             /\ UNCHANGED shown
             /\ overlooked' = IF reader \in {0, q} THEN overlooked ELSE overlooked \cup {q}
    <3>1. reader # 0 /\ reader' = reader
      BY <1>4, <2>3 DEF FollowInv
    <3>2. CASE reader # r
      BY <2>3, <3>1, <3>2 DEF RadioFollows
    <3>3. CASE reader = r
      <4>1. e.event = "CHANNELS_CHANGED"
        BY <2>3 DEF ChannelsChangedEvent, e
      <4>2. InBatch(r) => InBatch(r)'
        BY <1>3, <2>3, <3>3, <4>1 DEF InBatch, Due
      <4> QED
        BY <1>1, <2>3, <3>3, <4>2 DEF FollowInv, RadioFollows
    <3> QED
      BY <3>2, <3>3
  <2> QED
    BY <2>1, <2>2, <2>3 DEF ChannelsChangedEvent, RadarDetectedEvent, e, q
<1> QED
  BY <1>1, <1>6, <1>7 DEF FollowInv

\* The rest changes no channel and handles no event.
LEMMA PassFollows == RInv /\ FollowInv /\ ResyncRadio => FollowInv'
<1> SUFFICES ASSUME RInv, FollowInv, ResyncRadio
             PROVE  FollowInv'
  OBVIOUS
<1>1. nextRadio \in Radios /\ loop = "resync" /\ radio_state_update(nextRadio, dfs)
  BY DEF ResyncRadio, RInv, TypeOK, Radios
<1>2. UNCHANGED <<hw, raised, hal_cb_queue, cbe, state_already_synchronized, reader, loop>>
  BY DEF ResyncRadio, driverVars, batchVars
<1>3. ASSUME NEW r \in Radios
      PROVE  RadioFollows(r)'
  <2>1. InBatch(r)' <=> InBatch(r)
    BY <1>2 DEF InBatch, Due
  <2>2. shown[r].channel = hw[r].channel \/ r \in overlooked
          => shown'[r].channel = hw'[r].channel \/ r \in overlooked'
    BY <1>1, <1>2, UpdateFollows
  <2> QED
    BY <1>2, <2>1, <2>2 DEF FollowInv, RadioFollows
<1> QED
  BY <1>2, <1>3 DEF FollowInv

LEMMA AsideFollows ==
  ASSUME RInv, FollowInv, \A r \in Radios : hw'[r].channel = hw[r].channel,
         UNCHANGED <<shown, overlooked, raised, hal_cb_queue, cbe, state_already_synchronized, reader>>,
         cbe = <<>> \/ loop' = loop
  PROVE  FollowInv'
<1>1. ASSUME NEW r \in Radios
      PROVE  RadioFollows(r)'
  <2>1. InBatch(r)' <=> InBatch(r)
    BY DEF InBatch, Due
  <2> QED
    BY <2>1 DEF FollowInv, RadioFollows
<1> QED
  BY <1>1 DEF FollowInv

LEMMA NextFollows == RInv /\ FollowInv /\ [Next]_vars => FollowInv'
<1> SUFFICES ASSUME RInv, FollowInv, [Next]_vars
             PROVE  FollowInv'
  OBVIOUS
<1> USE DEF driverVars, batchVars, resyncVars, historyVars
<1>1. CASE UNCHANGED vars
  BY <1>1, AsideFollows DEF vars
<1>2. ASSUME NEW q \in Radios, NEW enable \in BOOLEAN, NEW c \in Channels \cup {NoChannel},
             ConfigSet(q, enable, c) \/ ConfigSetFails(q, enable)
      PROVE  FollowInv'
  <2>1. \A r \in Radios : hw'[r].channel = hw[r].channel
    <3>1. hw \in [Radios -> RadioState] /\ hw' = [hw EXCEPT ![q].enabled = enable]
      BY <1>2 DEF ConfigSet, ConfigSetFails, RInv, TypeOK
    <3>2. hw'[q] = [hw[q] EXCEPT !.enabled = enable] /\ hw[q] \in RadioState
      BY <3>1
    <3>3. hw'[q].channel = hw[q].channel
      BY <3>2 DEF RadioState
    <3>4. \A r \in Radios \ {q} : hw'[r] = hw[r]
      BY <3>1
    <3> QED
      BY <3>3, <3>4
  <2>2. UNCHANGED <<shown, overlooked, raised, hal_cb_queue, cbe, state_already_synchronized, reader,
                    loop>>
    BY <1>2 DEF ConfigSet, ConfigSetFails
  <2> QED
    BY <2>1, <2>2, AsideFollows
<1>3. CASE healthcheck_task \/ Tick \/ ResyncBegin \/ ResyncEnd \/ AsyncEnd
  <2>1. /\ UNCHANGED <<hw, shown, overlooked, raised, hal_cb_queue, cbe, state_already_synchronized,
                       reader>>
        /\ loop' # loop => cbe = <<>>
    BY <1>3 DEF healthcheck_task, Tick, ResyncBegin, ResyncEnd, AsyncEnd, FollowInv
  <2> QED
    BY <2>1, AsideFollows
<1>4. CASE \E q \in Radios, enable \in BOOLEAN : ConfigSetFails(q, enable)
  BY <1>2, <1>4
<1> QED
  BY <1>1, <1>2, <1>3, <1>4, RaiseFollows, CallbackFollows, CopyFollows, EventFollows, PassFollows
     DEF Next, AsyncStep, ResyncStep

-----------------------------------------------------------------------------
\* The inductive invariant.
LEMMA RInvariance == Spec => []RInv
<1> QED
  BY InitRInv, NextRInv, PTL DEF Spec

LEMMA FollowInvariance == Spec => []FollowInv
<1>1. Init => FollowInv
  BY DEF Init, FollowInv, RadioFollows, radio_state_get
<1> QED
  BY <1>1, NextFollows, RInvariance, PTL DEF Spec

\* Every variable keeps its type; in particular the resync timer is never set
\* to more than its delay.
THEOREM TypeCorrect == Spec => []TypeOK
<1>1. RInv => TypeOK
  BY DEF RInv
<1> QED
  BY <1>1, RInvariance, PTL

\* The unchecked copy loop of chan_event_async_cb stays inside its array.
THEOREM BatchBounded == Spec => []BatchFits
<1>1. RInv => BatchFits
  BY DEF RInv
<1> QED
  BY <1>1, RInvariance, PTL

\* g_resync_ongoing is set exactly while a pass is scheduled or under way.
THEOREM ResyncScheduled == Spec => []OngoingMeansScheduled
<1>1. RInv => OngoingMeansScheduled
  BY DEF RInv
<1> QED
  BY <1>1, RInvariance, PTL

\* Whatever channel the driver changes to while events wait, are copied and are
\* handled, OpenSync knows a radio's channel, or an event of that radio is still
\* on the way, or was dropped, failed or skipped on account of another radio's
\* (chan_event_cb, chan_event_async_cb, radio_resync_all_task).
THEOREM ChannelsAlwaysFollow == Spec => []ChannelsFollow
<1>1. FollowInv => ChannelsFollow
  BY DEF FollowInv, RadioFollows, About, InBatch, Due, ChannelsFollow
<1> QED
  BY <1>1, FollowInvariance, PTL

\* The queue and the batch that is handled are one box: every event is handled
\* once, in the order of acceptance (chan_event_cb, chan_event_async_cb).
THEOREM BoxImplemented == Spec => ImplementsBox
<1> DEFINE box == cbe \o hal_cb_queue
<1>1. Init => Unhandled!Init
  BY DEF Init, Unhandled!Init, EventQueue!Init
<1>2. RInv /\ FollowInv /\ [Next]_vars => [Unhandled!Next]_box
  <2> SUFFICES ASSUME RInv, FollowInv, [Next]_vars, box' # box
               PROVE  Unhandled!Next
    OBVIOUS
  <2> USE DEF batchVars, resyncVars, historyVars
  <2>1. cbe \in Seq(Event) /\ hal_cb_queue \in Seq(Event) /\ raised \in Seq(Event)
    BY DEF RInv, TypeOK
  <2>2. ~UNCHANGED <<cbe, hal_cb_queue>>
    OBVIOUS
  <2>3. CASE HalCallback
    <3> DEFINE e == Head(raised)
    <3>1. e \in Event /\ UNCHANGED cbe
      BY <2>1, <2>3 DEF HalCallback
    <3>2. Len(hal_cb_queue) < HAL_CB_QUEUE_MAX /\ hal_cb_queue' = Append(hal_cb_queue, e)
      BY <2>2, <2>3, <3>1 DEF HalCallback, EventQueue!Accept
    <3>3. Len(cbe) <= HAL_CB_QUEUE_MAX
      BY DEF RInv, BatchFits
    <3> HIDE DEF e
    <3>4. box' = Append(box, e)
      BY <2>1, <3>1, <3>2
    <3>5. Len(box) < 2 * HAL_CB_QUEUE_MAX
      BY <2>1, <3>2, <3>3
    <3> QED
      BY <3>1, <3>4, <3>5 DEF Unhandled!Next, Unhandled!Accept
  <2>4. CASE AsyncCopy
    <3>1. cbe = <<>> /\ cbe' = hal_cb_queue /\ hal_cb_queue' = <<>>
      BY <2>4 DEF AsyncCopy, FollowInv
    <3> QED
      BY <2>1, <3>1
  <2>5. CASE ChannelsChangedEvent \/ RadarDetectedEvent
    <3>1. cbe # <<>> /\ cbe' = Tail(cbe) /\ UNCHANGED hal_cb_queue
      BY <2>5 DEF ChannelsChangedEvent, RadarDetectedEvent
    <3>2. box # <<>> /\ box' = Tail(box)
      BY <2>1, <3>1
    <3> QED
      BY <3>2 DEF Unhandled!Next, Unhandled!Deliver
  <2>6. UNCHANGED <<cbe, hal_cb_queue>>
          \/ HalCallback \/ AsyncCopy \/ ChannelsChangedEvent \/ RadarDetectedEvent
    BY DEF Next, vars, AsyncStep, ResyncStep, ChannelChanged, RadarDetected, ConfigSet,
           ConfigSetFails, AsyncEnd, healthcheck_task, Tick, ResyncBegin, ResyncRadio, ResyncEnd
  <2> QED
    BY <2>2, <2>3, <2>4, <2>5, <2>6
<1> QED
  BY <1>1, <1>2, RInvariance, FollowInvariance, PTL DEF Spec, ImplementsBox, Unhandled!Spec

\* No step puts a scheduled resync pass off.
THEOREM ResyncNeverPostponed == Spec => NeverPostponed
<1>1. RInv /\ [Next]_vars => [timer # 0 => timer' <= timer]_vars
  <2> SUFFICES ASSUME RInv, Next, timer # 0 PROVE timer' <= timer
    BY DEF vars
  <2> USE DEF resyncVars
  <2>1. timer \in Nat
    BY DEF RInv, TypeOK
  <2>2. CASE timer' = timer
    BY <2>1, <2>2
  <2>3. CASE healthcheck_task
    BY <2>1, <2>3, TriggerType DEF healthcheck_task
  <2>4. ASSUME NEW r \in Radios, NEW enable \in BOOLEAN,
               NEW c \in Channels \cup {NoChannel}, ConfigSet(r, enable, c)
        PROVE  timer' <= timer
    BY <2>1, <2>4, TriggerType DEF ConfigSet
  <2>5. CASE Tick \/ ResyncBegin
    BY <2>1, <2>5 DEF Tick, ResyncBegin
  <2>6. CASE \/ \E r \in Radios, c \in Channels : ChannelChanged(r, c) \/ RadarDetected(r, c)
             \/ \E r \in Radios, enable \in BOOLEAN : ConfigSetFails(r, enable)
             \/ HalCallback \/ AsyncCopy \/ AsyncStep \/ ResyncStep
    <3>1. timer' = timer
      BY <2>6 DEF ChannelChanged, RadarDetected, ConfigSetFails, HalCallback,
                  AsyncCopy, AsyncStep, ChannelsChangedEvent, RadarDetectedEvent,
                  AsyncEnd, ResyncStep, ResyncRadio, ResyncEnd
    <3> QED
      BY <2>1, <3>1
  <2> QED
    BY <2>3, <2>4, <2>5, <2>6 DEF Next
<1> QED
  BY <1>1, RInvariance, PTL DEF Spec, NeverPostponed
=============================================================================
