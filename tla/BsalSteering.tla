---------------------------- MODULE BsalSteering ----------------------------
(***************************************************************************)
(* Steering group, events and client information of bsal_legacy.c.         *)
(*                                                                         *)
(* The Band Steering Manager configures one interface per band; the HAL    *)
(* takes a group of two, so the library puts the HAL call off until it has *)
(* both.  The HAL's thread delivers the events of hostapd to process_event *)
(* while the manager's loop configures, and the capabilities a CONNECT     *)
(* event carries are kept, by MAC address, for target_bsal_client_info.    *)
(* The cache entries of two stations never meet: there is one station.     *)
(***************************************************************************)
EXTENDS SequencesExt, Integers

CONSTANTS
    Aps,            \* interface names, or the HAL's indexes of them
    Bands,          \* the bands lookup_ifname accepts: 2.4 and 5 GHz
    BandOf,         \* the band of each interface, one of Bands or another
    Cfgs,           \* what else a bsal_ifconfig_t has
    Caps,           \* what a station's association request tells of it
    MaxRaised,      \* bound: events on their way to the library
    Unset           \* no interface, no event, nothing known

ASSUME SteeringAssumption == DOMAIN BandOf = Aps /\ MaxRaised \in Nat

Iface == [ap : Aps, cfg : Cfgs]
Group == [Bands -> Iface \cup {Unset}]
EmptyGroup == [b \in Bands |-> Unset]

\* "strange" is a DISCONNECT event with a source or a type not in the maps.
Event == [type : {"connect", "disconnect", "strange"}, ap : Aps,
          caps : Caps \cup {Unset}]

ASSUME UnsetAssumption == Unset \notin Iface \cup Event

VARIABLES
    bsal_event_cb,  \* _bsal_event_cb is set
    registered,     \* the HAL has process_event registered
    cleaning,       \* target_bsal_cleanup is between its two statements
    group,          \* iface_24g and iface_5g
    hwGroup,        \* the group the HAL has
    unsettled,      \* history: a setGroup failed, or group was forgotten
    raised,         \* events of the HAL, oldest first
    thread,         \* the event process_event found the interface of
    assoc,          \* the station's associations, oldest first
    client_info,    \* the station's entry in g_client_info_list
    excused,        \* history: an event was ignored, or came out of order
    crashed         \* process_event called a callback that is not there

svars == <<bsal_event_cb, registered, cleaning, group, hwGroup, unsettled,
           raised, thread, assoc, client_info, excused, crashed>>
manager == <<bsal_event_cb, registered, cleaning>>
groups == <<group, hwGroup, unsettled>>
events == <<raised, thread, assoc, client_info, excused, crashed>>

SteeringInit ==
    /\ bsal_event_cb = FALSE /\ registered = FALSE /\ cleaning = FALSE
    /\ group = EmptyGroup /\ hwGroup = EmptyGroup /\ unsettled = FALSE
    /\ raised = <<>> /\ thread = Unset /\ assoc = <<>>
    /\ client_info = Unset /\ excused = FALSE /\ crashed = FALSE

-----------------------------------------------------------------------------
(***************************************************************************)
(* The manager's loop.                                                     *)
(***************************************************************************)
\* The calls below do nothing for an interface of a band that is not supported
\* or one the HAL cannot find.
lookup_ifname(a) == BandOf[a] \in Bands

\* target_bsal_init.  A failed registration leaves the callback set.
BsalInit ==
    /\ ~bsal_event_cb /\ ~cleaning
    /\ bsal_event_cb' = TRUE
    /\ group' = EmptyGroup
    /\ unsettled' = (unsettled \/ hwGroup # EmptyGroup)
    /\ registered' \in BOOLEAN
    /\ UNCHANGED <<cleaning, hwGroup, events>>

\* Mutated form: the callback is taken away before the HAL is told.
CleanupCallbackFirst ==
    \/ /\ ~cleaning
       /\ cleaning' = TRUE /\ bsal_event_cb' = FALSE
       /\ UNCHANGED <<registered, groups, events>>
    \/ /\ cleaning /\ thread = Unset
       /\ cleaning' = FALSE /\ registered' = FALSE
       /\ UNCHANGED <<bsal_event_cb, groups, events>>

\* target_bsal_cleanup.  The HAL lets a running process_event return before it
\* says that it is unregistered; group, client_info and neighbors stay.
BsalCleanup ==
    \/ /\ ~cleaning /\ thread = Unset
       /\ cleaning' = TRUE /\ registered' = FALSE
       /\ UNCHANGED <<bsal_event_cb, groups, events>>
    \/ /\ cleaning
       /\ cleaning' = FALSE /\ bsal_event_cb' = FALSE
       /\ UNCHANGED <<registered, groups, events>>

BothSet(g) == \A b \in Bands : g[b] # Unset

\* wifi_steering_setGroup, which may fail, "if both configs are already set"
\* above all.
HalSetGroup(g) ==
    \/ hwGroup' = g /\ unsettled' = FALSE
    \/ hwGroup' = hwGroup /\ unsettled' = TRUE

\* target_bsal_iface_add.  Even if the HAL fails the interface stays set.
IfaceAdd(a, cfg) ==
    /\ lookup_ifname(a)
    /\ group[BandOf[a]] = Unset
    /\ group' = [group EXCEPT ![BandOf[a]] = [ap |-> a, cfg |-> cfg]]
    /\ IF BothSet(group') THEN HalSetGroup(group') ELSE UNCHANGED <<hwGroup, unsettled>>
    /\ UNCHANGED <<manager, events>>

\* Mutated form: the group is not removed first.  (The HAL, left to itself,
\* says yes and keeps the old one.)
UpdateGroupInPlace ==
    IF hwGroup # EmptyGroup THEN UNCHANGED <<hwGroup, unsettled>>
    ELSE HalSetGroup(group')

\* "We first delete the group, and then add it back": each may fail.
UpdateGroup ==
    \/ UNCHANGED hwGroup /\ unsettled' = TRUE
    \/ hwGroup' = EmptyGroup /\ unsettled' = TRUE
    \/ hwGroup' = group' /\ unsettled' = FALSE

\* target_bsal_iface_update
IfaceUpdate(a, cfg) ==
    /\ lookup_ifname(a)
    /\ group[BandOf[a]] # Unset
    /\ group' = [group EXCEPT ![BandOf[a]] = [ap |-> a, cfg |-> cfg]]
    /\ IF BothSet(group') THEN UpdateGroup ELSE UNCHANGED <<hwGroup, unsettled>>
    /\ UNCHANGED <<manager, events>>

\* target_bsal_iface_remove.  The HAL keeps the group until both are gone.
IfaceRemove(a) ==
    /\ lookup_ifname(a)
    /\ group[BandOf[a]] # Unset
    /\ group' = [group EXCEPT ![BandOf[a]] = Unset]
    /\ IF group' = EmptyGroup THEN HalSetGroup(EmptyGroup)
       ELSE UNCHANGED <<hwGroup, unsettled>>
    /\ UNCHANGED <<manager, events>>

-----------------------------------------------------------------------------
(***************************************************************************)
(* hostapd and the HAL's thread.                                           *)
(***************************************************************************)
Raise(type, a, caps) ==
    /\ Len(raised) < MaxRaised
    /\ raised' = Append(raised, [type |-> type, ap |-> a, caps |-> caps])

\* A station that moves to another interface is associated with both for some
\* time, and may tell something else of itself.
StaConnect(a, caps) ==
    /\ \A i \in 1 .. Len(assoc) : assoc[i].ap # a
    /\ assoc' = Append(assoc, [ap |-> a, caps |-> caps])
    /\ Raise("connect", a, caps)
    /\ UNCHANGED <<manager, groups, thread, client_info, excused, crashed>>

StaDisconnect(a) ==
    /\ \E i \in 1 .. Len(assoc) : assoc[i].ap = a /\ assoc' = RemoveAt(assoc, i)
    /\ \E type \in {"disconnect", "strange"} : Raise(type, a, Unset)
    /\ UNCHANGED <<manager, groups, thread, client_info, excused, crashed>>

KnownAp(a) == \E b \in Bands : group[b] # Unset /\ group[b].ap = a

\* The first half of process_event: no callback, or an interface that is not
\* configured, and the event is ignored.
TakeEvent ==
    LET e == Head(raised) IN
    /\ raised # <<>> /\ thread = Unset
    /\ raised' = Tail(raised)
    /\ IF registered /\ bsal_event_cb /\ KnownAp(e.ap)
       THEN thread' = e /\ UNCHANGED excused
       ELSE excused' = TRUE /\ UNCHANGED thread
    /\ UNCHANGED <<manager, groups, assoc, client_info, crashed>>

\* Mutated form: a DISCONNECT leaves the entry.
CacheEventKept(e) ==
    IF e.type = "connect"
    THEN client_info' = e.caps /\ excused' = FALSE
    ELSE excused' = (e.type = "strange" \/ excused \/ assoc # <<>>)
         /\ UNCHANGED client_info

\* bsal_client_info_update and bsal_client_info_remove.  A DISCONNECT of the
\* interface the station left removes what the CONNECT of the new one told.
CacheEvent(e) ==
    CASE e.type = "connect" ->
            client_info' = e.caps /\ excused' = FALSE
      [] e.type = "disconnect" ->
            client_info' = Unset /\ excused' = (excused \/ assoc # <<>>)
      [] e.type = "strange" ->
            excused' = TRUE /\ UNCHANGED client_info

\* The second half: the callback is called without another look at it, except
\* for an event that turned out to be strange.
DeliverEvent ==
    /\ thread # Unset
    /\ CacheEvent(thread)
    /\ crashed' = (thread.type # "strange" /\ ~bsal_event_cb)
    /\ thread' = Unset
    /\ UNCHANGED <<manager, groups, raised, assoc>>

\* The manager is started again after a crash or by its supervisor.
RestartSteering ==
    /\ bsal_event_cb' = FALSE /\ registered' = FALSE /\ cleaning' = FALSE
    /\ group' = EmptyGroup
    /\ unsettled' = (hwGroup # EmptyGroup)
    /\ thread' = Unset /\ client_info' = Unset /\ raised' = <<>>
    /\ excused' = (assoc # <<>>)
    /\ crashed' = FALSE
    /\ UNCHANGED <<hwGroup, assoc>>

SteeringNext ==
    /\ ~crashed
    /\ \/ BsalInit
       \/ BsalCleanup
       \/ \E a \in Aps, cfg \in Cfgs : IfaceAdd(a, cfg) \/ IfaceUpdate(a, cfg)
       \/ \E a \in Aps : IfaceRemove(a)
       \/ \E a \in Aps, caps \in Caps : StaConnect(a, caps)
       \/ \E a \in Aps : StaDisconnect(a)
       \/ TakeEvent
       \/ DeliverEvent

-----------------------------------------------------------------------------
(***************************************************************************)
(* Properties.                                                             *)
(***************************************************************************)
SteeringTypeOK ==
    /\ {bsal_event_cb, registered, cleaning, unsettled, excused, crashed}
            \subseteq BOOLEAN
    /\ group \in Group /\ hwGroup \in Group
    /\ raised \in Seq(Event) /\ Len(raised) <= MaxRaised
    /\ thread \in Event \cup {Unset}
    /\ assoc \in Seq([ap : Aps, caps : Caps])
    /\ client_info \in Caps \cup {Unset}

\* The HAL's group is the one the manager configured once both interfaces are,
\* and gone once none is, in whatever order they are added, updated, removed
\* and added again, unless the HAL failed or the library forgot its group.
GroupFollowsManager ==
    ~unsettled =>
        /\ BothSet(group) => hwGroup = group
        /\ group = EmptyGroup => hwGroup = EmptyGroup

\* process_event looks at the callback, works, and calls it.  The callback is
\* not taken away meanwhile: the HAL is told first, and waits for the thread.
\* Nothing is said of mgmt_frame_cb, which an option adds: it does not look.
CallbackIsThere == ~crashed

\* bsal_client_set_connected
SetConnected(a) ==
    IF \E i \in 1 .. Len(assoc) : assoc[i].ap = a
    THEN [connected |-> TRUE, caps |-> client_info]
    ELSE [connected |-> FALSE, caps |-> Unset]

\* target_bsal_client_info, which fails for an interface that is not set.
ClientInfo(a) == IF KnownAp(a) THEN SetConnected(a) ELSE Unset

\* Once the events are handled, a station is reported with the capabilities of
\* its last association, and nothing is kept of a station that is gone, unless
\* an event was ignored since or a DISCONNECT came after the station was back.
InfoFollowsStation ==
    (raised = <<>> /\ thread = Unset /\ ~excused) =>
        IF assoc = <<>> THEN client_info = Unset
        ELSE LET last == assoc[Len(assoc)] IN
             ClientInfo(last.ap) \in
                {Unset, [connected |-> TRUE, caps |-> last.caps]}
=============================================================================
