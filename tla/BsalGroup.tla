----------------------------- MODULE BsalGroup -----------------------------
(***************************************************************************)
(* The steering group of bsal.c, which is built in place of bsal_legacy.c  *)
(* for a Wi-Fi HAL 3 phase 2: an array with an entry per radio, given to   *)
(* the HAL as a list once every entry is in use, and taken from it once    *)
(* none is.  Events, client information and neighbors are those of         *)
(* BsalSteering and BsalNeighbors.                                         *)
(***************************************************************************)
EXTENDS Sequences, Naturals

CONSTANTS
    Ifnames,        \* interfaces, one of which the manager configures per band
    BandOf,         \* the band of each interface's radio, neither of the last two
    numRadios,      \* of the HAL's capabilities
    Cfgs,           \* what else a bsal_ifconfig_t has
    Zero,           \* what calloc and memset leave
    Pointer         \* the bytes of a pointer, and what follows it on the stack

Bands == {BandOf[a] : a \in Ifnames}
Config == [ap : Ifnames, cfg : Cfgs]

\* iface_t: the band, and the configuration and wifihal_cfg made of it.
iface_t == [band : Bands \cup {Zero, Pointer}, config : Config \cup {Zero, Pointer}]
Unused == [band |-> Zero, config |-> Zero]

VARIABLES
    _bsal_event_cb,     \* it is set
    group,              \* group.iface, of length iface_number
    hwGroup,            \* the list the HAL has
    configured,         \* history: each band's configuration that was accepted
    unsettled           \* history: a HAL call failed, or the group was forgotten

vars == <<_bsal_event_cb, group, hwGroup, configured, unsettled>>

Init ==
    /\ _bsal_event_cb = FALSE
    /\ group = <<>> /\ hwGroup = <<>>
    /\ configured = [b \in Bands |-> Zero] /\ unsettled = FALSE

-----------------------------------------------------------------------------
(* The array.                                                              *)

lookup_ifname(a, cfg) ==
    [band |-> BandOf[a], config |-> [ap |-> a, cfg |-> cfg]]

group_get_iface_by_name(a) ==
    {i \in DOMAIN group : /\ group[i].band # Zero
                          /\ group[i].config \notin {Zero, Pointer}
                          /\ group[i].config.ap = a}

FirstWith(band, i) ==
    /\ i \in DOMAIN group
    /\ group[i].band = band
    /\ \A j \in 1 .. i - 1 : group[j].band # band

\* The copy is from the address of the parameter, itself a pointer: the band
\* becomes half of an address in the stack.
OnStack == [band |-> Pointer, config |-> Pointer]

group_add_iface(iface) ==
    /\ group_get_iface_by_name(iface.config.ap) = {}
    /\ \E i \in DOMAIN group : /\ FirstWith(Zero, i)
                               /\ group' = [group EXCEPT ![i] = OnStack]

group_update_iface(iface) ==
    \E i \in DOMAIN group : /\ FirstWith(iface.band, i)
                            /\ group' = [group EXCEPT ![i] = iface]

group_remove_iface(iface) ==
    \E i \in DOMAIN group : /\ FirstWith(iface.band, i)
                            /\ group' = [group EXCEPT ![i] = Unused]

is_group_initialized == \A i \in DOMAIN group' : group'[i].band # Zero
is_group_uninitialized == \A i \in DOMAIN group' : group'[i].band = Zero

\* Every configuration is copied to the start of the list.
create_wifihal_ap_config_list ==
    [i \in DOMAIN group' |-> IF i = 1 THEN group'[Len(group')].config ELSE Zero]

wifi_steering_setGroup(list) ==
    \/ hwGroup' = list /\ unsettled' = FALSE
    \/ hwGroup' = hwGroup /\ unsettled' = TRUE

-----------------------------------------------------------------------------
(* The manager's calls; one that is refused changes nothing.               *)

\* Without capabilities there is no array; the registration of the callback
\* that is made last may fail, too.
target_bsal_init ==
    /\ ~_bsal_event_cb
    /\ _bsal_event_cb' = TRUE
    /\ \/ group' = [i \in 1 .. numRadios |-> Unused]
       \/ group' = <<>>
    /\ configured' = [b \in Bands |-> Zero]
    /\ unsettled' = (unsettled \/ hwGroup # <<>>)
    /\ UNCHANGED hwGroup

\* The manager makes no other call before the next target_bsal_init.
target_bsal_cleanup ==
    /\ _bsal_event_cb
    /\ _bsal_event_cb' = FALSE
    /\ group' = <<>>
    /\ configured' = [b \in Bands |-> Zero]
    /\ unsettled' = (unsettled \/ hwGroup # <<>>)
    /\ UNCHANGED hwGroup

target_bsal_iface_add(a, cfg) ==
    /\ group_add_iface(lookup_ifname(a, cfg))
    /\ IF is_group_initialized
         THEN wifi_steering_setGroup(create_wifihal_ap_config_list)
         ELSE UNCHANGED <<hwGroup, unsettled>>
    /\ configured' = [configured EXCEPT ![BandOf[a]] = lookup_ifname(a, cfg).config]
    /\ UNCHANGED _bsal_event_cb

target_bsal_iface_update(a, cfg) ==
    /\ group_update_iface(lookup_ifname(a, cfg))
    /\ IF is_group_initialized
         THEN wifi_steering_setGroup(create_wifihal_ap_config_list)
         ELSE UNCHANGED <<hwGroup, unsettled>>
    /\ configured' = [configured EXCEPT ![BandOf[a]] = lookup_ifname(a, cfg).config]
    /\ UNCHANGED _bsal_event_cb

target_bsal_iface_remove(a, cfg) ==
    /\ group_remove_iface(lookup_ifname(a, cfg))
    /\ IF is_group_uninitialized
         THEN wifi_steering_setGroup(<<>>)
         ELSE UNCHANGED <<hwGroup, unsettled>>
    /\ configured' = [configured EXCEPT ![BandOf[a]] = Zero]
    /\ UNCHANGED _bsal_event_cb

Next ==
    \/ target_bsal_init
    \/ target_bsal_cleanup
    \/ /\ _bsal_event_cb
       /\ \E a \in Ifnames, cfg \in Cfgs :
            \/ target_bsal_iface_add(a, cfg)
            \/ target_bsal_iface_update(a, cfg)
            \/ target_bsal_iface_remove(a, cfg)

Spec == Init /\ [][Next]_vars

-----------------------------------------------------------------------------
(* Properties.                                                             *)

\* "Ifaces added to group" (bsal.c:765), after the addition was postponed "until
\* all radios are set": with an interface for each band, and no failure, the
\* HAL's list holds the configurations that were accepted.
IfacesAddedToGroup ==
    (~unsettled /\ \A b \in Bands : configured[b] # Zero) =>
        {hwGroup[i] : i \in DOMAIN hwGroup} = {configured[b] : b \in Bands}
=============================================================================
