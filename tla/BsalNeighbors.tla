--------------------------- MODULE BsalNeighbors ---------------------------
(***************************************************************************)
(* The neighbor reports of bsal_legacy.c.                                  *)
(*                                                                         *)
(* The Band Steering Manager adds and removes neighbors one at a time; the *)
(* HAL takes whole lists.  The library therefore keeps all neighbors of    *)
(* all interfaces in one tree and sends the interface's list after every   *)
(* change, undoing the change when the HAL refuses the list.  The tree     *)
(* does not copy keys, it points to them, and the removal that is undone   *)
(* inserts the entry with a pointer to a variable on its stack.            *)
(***************************************************************************)
EXTENDS FiniteSets

CONSTANTS
    Ifnames,        \* interface names
    Bssids,         \* of neighbors
    Infos,          \* what else a bsal_neigh_info_t has
    Nodes,          \* bound: entries allocated at a time
    None            \* ds_tree_find found nothing

VARIABLES
    neighbors,      \* bsal_ifaces_neighbors: its entries
    hwReports,      \* the list the HAL has for each interface
    adrift,         \* history: interfaces whose list nothing has settled yet
    misled          \* history: a search compared a key that is gone

nvars == <<neighbors, hwReports, adrift, misled>>

Report == [bssid : Bssids, info : Infos]
\* A bsal_neighbor_t.  key_intact tells that the tree's pointer to the key is
\* to the entry's own copy.
Entry == [node : Nodes, ifname : Ifnames, bssid : Bssids, nr : Report,
          key_intact : BOOLEAN]

ASSUME NoneAssumption == None \notin Entry

NeighborsInit ==
    /\ neighbors = {}
    /\ hwReports = [a \in Ifnames |-> {}]
    /\ adrift = {}
    /\ misled = FALSE

-----------------------------------------------------------------------------
\* What ds_tree_find may return.  A key that is gone holds anything by now,
\* the very key that is searched for included: the functions that search have
\* theirs in the same place.
Found(a, b) ==
    LET gone == {e \in neighbors : ~e.key_intact}
        own == {e \in neighbors : e.key_intact /\ e.ifname = a /\ e.bssid = b} IN
    IF gone # {} THEN {None} \cup gone \cup own
    ELSE IF own # {} THEN own ELSE {None}

Search == misled' = (misled \/ \E e \in neighbors : ~e.key_intact)

\* Mutated form: the key of an entry is copied, not its report.
KeysOf(tree, a) ==
    {[bssid |-> e.bssid, ifname |-> a] : e \in {n \in tree : n.ifname = a}}

\* The list of one interface, made from all entries.
ListOf(tree, a) == {e.nr : e \in {n \in tree : n.ifname = a}}

\* bsal_send_update_neighbor_list with a HAL that takes the list.
Sent(tree, a) == hwReports' = [hwReports EXCEPT ![a] = ListOf(tree, a)]

\* Mutated form: an entry is left in the tree when its list was refused.
AddNeighborKept(a, nr) ==
    LET free == Nodes \ {e.node : e \in neighbors} IN
    /\ free # {}
    /\ LET new == [node |-> CHOOSE n \in free : TRUE, ifname |-> a,
                   bssid |-> nr.bssid, nr |-> nr, key_intact |-> TRUE] IN
       /\ neighbors' = neighbors \cup {new}
       /\ \/ Sent(neighbors', a) /\ adrift' = adrift \ {a}
          \/ UNCHANGED <<hwReports, adrift>>

AddNeighbor(a, nr) ==
    LET free == Nodes \ {e.node : e \in neighbors} IN
    /\ free # {}
    /\ LET new == [node |-> CHOOSE n \in free : TRUE, ifname |-> a,
                   bssid |-> nr.bssid, nr |-> nr, key_intact |-> TRUE] IN
       \/ /\ neighbors' = neighbors \cup {new}
          /\ Sent(neighbors', a)
          /\ adrift' = adrift \ {a}
       \/ UNCHANGED <<neighbors, hwReports, adrift>>

\* The entry that was modified is removed, too, when the list is refused.
ModifyNeighbor(a, e, nr) ==
    \/ /\ neighbors' = (neighbors \ {e}) \cup {[e EXCEPT !.nr = nr]}
       /\ Sent(neighbors', a)
       /\ adrift' = adrift \ {a}
    \/ /\ neighbors' = neighbors \ {e}
       /\ adrift' = adrift \cup {a}
       /\ UNCHANGED hwReports

\* target_bsal_rrm_set_neighbor
SetNeighbor(a, nr) ==
    /\ Search
    /\ \E e \in Found(a, nr.bssid) :
        IF e = None THEN AddNeighbor(a, nr) ELSE ModifyNeighbor(a, e, nr)

\* target_bsal_rrm_remove_neighbor
RemoveNeighbor(a, b) ==
    /\ Search
    /\ \E e \in Found(a, b) \ {None} :
        \/ /\ neighbors' = neighbors \ {e}
           /\ Sent(neighbors', a)
           /\ adrift' = adrift \ {a}
        \/ /\ neighbors' = (neighbors \ {e}) \cup {[e EXCEPT !.key_intact = FALSE]}
           /\ UNCHANGED <<hwReports, adrift>>

\* The manager is started again; the HAL's lists stay.
RestartNeighbors ==
    /\ neighbors' = {}
    /\ adrift' = {a \in Ifnames : hwReports[a] # {}}
    /\ misled' = FALSE
    /\ UNCHANGED hwReports

NeighborsNext ==
    \/ \E a \in Ifnames, nr \in Report : SetNeighbor(a, nr)
    \/ \E a \in Ifnames, b \in Bssids : RemoveNeighbor(a, b)

-----------------------------------------------------------------------------
(***************************************************************************)
(* Properties.                                                             *)
(***************************************************************************)
NeighborsTypeOK ==
    /\ neighbors \subseteq Entry
    /\ hwReports \in [Ifnames -> SUBSET Report]
    /\ adrift \subseteq Ifnames
    /\ misled \in BOOLEAN

\* Refused lists do not set the HAL's list of an interface and the tree apart,
\* and no neighbor is listed twice.  Only a refused modification does, until
\* the next list, and what follows a search that met a key that is gone.
NeighborsAgree ==
    ~misled => \A a \in Ifnames \ adrift :
        /\ hwReports[a] = ListOf(neighbors, a)
        /\ \A r, s \in hwReports[a] : r.bssid = s.bssid => r = s
=============================================================================
