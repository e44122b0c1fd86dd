------------------------------ MODULE Clients ------------------------------
(***************************************************************************)
(* Client tracking (clients.c) with the queue that feeds it and the resync *)
(* pass of radio.c that repairs it.                                        *)
(*                                                                         *)
(* The HAL knows which station is associated with which VAP (assoc).  The  *)
(* target library keeps connected_clients, a tree from MAC address to the  *)
(* VAP and key id it last reported, and tells OpenSync's Wireless Manager  *)
(* about every change through op_client, as "active" or "inactive".  It    *)
(* learns of changes in two ways: from events that HAL threads put into    *)
(* the bounded queue of HalEventQueue, possibly late and possibly dropped, *)
(* and from the HAL's list of associated stations, which the resync pass   *)
(* reads VAP by VAP.  Both run on the event loop; the HAL does not wait    *)
(* for either, except that its callback blocks while the loop drains the   *)
(* queue under the mutex.                                                  *)
(***************************************************************************)
EXTENDS Integers, Sequences

CONSTANTS
    Stas,               \* MAC addresses
    NumVaps,            \* VAP indexes are 1 .. NumVaps, in the HAL's order
    KeyIds,             \* key ids of pre-shared keys, EmptyKeyId not among them
    EmptyKeyId,         \* what the HAL returns for the key of the config file
    InitialKeyId,       \* cached_key_ids before any VIF configuration: "key"
    MultiPsk,           \* CONFIG_RDK_MULTI_PSK_SUPPORT
    HAL_CB_QUEUE_MAX,
    MaxRaised,          \* bound: events the HAL has raised, not yet delivered
    MaxChanges,         \* bound: changes made by stations and configuration
    MaxFailures         \* bound: failing HAL calls

ASSUME ConstantsAssumption ==
    /\ NumVaps \in Nat \ {0}
    /\ HAL_CB_QUEUE_MAX \in Nat \ {0}
    /\ MaxRaised \in Nat /\ MaxChanges \in Nat /\ MaxFailures \in Nat
    /\ MultiPsk \in BOOLEAN
    /\ InitialKeyId \in KeyIds
    /\ EmptyKeyId \notin KeyIds

Vaps == 1 .. NumVaps
NoVap == 0

Event == [apIndex : Vaps, mac : Stas, cli_Active : BOOLEAN]

VARIABLES
    \* the HAL
    assoc,              \* VAP each station is associated with, or NoVap
    keyId,              \* key id the HAL has for each station
    enabled,            \* bss_info.enabled of each VAP
    raised,             \* events whose callback has not been called yet
    \* the target library
    hal_cb_queue,
    cached_key_ids,     \* key id of each VAP, from its configuration
    connected_clients,  \* per station: apIndex (NoVap: no entry) and key_id
    loop,               \* what the event loop is doing: idle, async, resync
    nextVap,            \* the VAP the resync pass visits next
    \* OpenSync's view
    active,             \* "active" minus "inactive" reports, per station and VAP
    shownKey,           \* key id in the last report of each station
    \* history and bounds
    missed,             \* an event was dropped or a HAL call failed
    changes, failures

halVars == <<assoc, keyId, enabled>>
codeVars == <<cached_key_ids, connected_clients>>
loopVars == <<loop, nextVap>>
reportVars == <<active, shownKey>>
vars == <<halVars, raised, hal_cb_queue, codeVars, loopVars, reportVars,
          missed, changes, failures>>

Untracked == [apIndex |-> NoVap, key_id |-> InitialKeyId]

EventQueue == INSTANCE AbstractEventQueue WITH box <- hal_cb_queue, Events <- Event

Init ==
    /\ assoc = [s \in Stas |-> NoVap]
    /\ keyId = [s \in Stas |-> EmptyKeyId]
    /\ enabled = [a \in Vaps |-> TRUE]
    /\ raised = <<>>
    /\ EventQueue!Init
    /\ cached_key_ids = [a \in Vaps |-> InitialKeyId]
    /\ connected_clients = [s \in Stas |-> Untracked]
    /\ loop = "idle"
    /\ nextVap = 1
    /\ active = [s \in Stas |-> [a \in Vaps |-> 0]]
    /\ shownKey = [s \in Stas |-> InitialKeyId]
    /\ missed = FALSE
    /\ changes = 0
    /\ failures = 0

-----------------------------------------------------------------------------
(* Stations, driver and configuration.                                     *)

Connect(a, s) == [apIndex |-> a, mac |-> s, cli_Active |-> TRUE]
Disconnect(a, s) == [apIndex |-> a, mac |-> s, cli_Active |-> FALSE]

Change ==
    /\ changes < MaxChanges
    /\ changes' = changes + 1

Raise(events) ==
    /\ Len(raised) + Len(events) <= MaxRaised
    /\ raised' = raised \o events

\* A station associates; with multi-PSK the driver learns which key it used.
Associate(s, a, k) ==
    /\ Change
    /\ assoc[s] = NoVap
    /\ enabled[a]
    /\ assoc' = [assoc EXCEPT ![s] = a]
    /\ keyId' = [keyId EXCEPT ![s] = k]
    /\ Raise(<<Connect(a, s)>>)
    /\ UNCHANGED <<enabled, hal_cb_queue, codeVars, loopVars, reportVars,
                   missed, failures>>

Leave(s) ==
    /\ Change
    /\ assoc[s] # NoVap
    /\ assoc' = [assoc EXCEPT ![s] = NoVap]
    /\ Raise(<<Disconnect(assoc[s], s)>>)
    /\ UNCHANGED <<keyId, enabled, hal_cb_queue, codeVars, loopVars,
                   reportVars, missed, failures>>

\* A station moves between two VAPs: the old VAP may notice only after the new
\* one has reported the station.
Roam(s, a, k) ==
    /\ Change
    /\ assoc[s] \notin {NoVap, a}
    /\ enabled[a]
    /\ assoc' = [assoc EXCEPT ![s] = a]
    /\ keyId' = [keyId EXCEPT ![s] = k]
    /\ \/ Raise(<<Connect(a, s), Disconnect(assoc[s], s)>>)
       \/ Raise(<<Disconnect(assoc[s], s), Connect(a, s)>>)
    /\ UNCHANGED <<enabled, hal_cb_queue, codeVars, loopVars, reportVars,
                   missed, failures>>

\* A VAP without stations is disabled or enabled.
ToggleVap(a) ==
    /\ Change
    /\ \A s \in Stas : assoc[s] # a
    /\ enabled' = [enabled EXCEPT ![a] = ~@]
    /\ UNCHANGED <<assoc, keyId, raised, hal_cb_queue, codeVars, loopVars,
                   reportVars, missed, failures>>

\* vif.c, set_password: a new VIF configuration names the key of the VAP.
SetKeyId(a, k) ==
    /\ Change
    /\ loop = "idle"
    /\ cached_key_ids' = [cached_key_ids EXCEPT ![a] = k]
    /\ UNCHANGED <<halVars, raised, hal_cb_queue, connected_clients, loopVars,
                   reportVars, missed, failures>>

\* clients_hal_assocdev_cb, as HalEventQueue models it in full.
HalCallback ==
    /\ raised # <<>>
    /\ loop # "async"
    /\ raised' = Tail(raised)
    /\ \/ /\ EventQueue!Accept(Head(raised))
          /\ UNCHANGED missed
       \/ /\ Len(hal_cb_queue) = HAL_CB_QUEUE_MAX
          /\ missed' = TRUE
          /\ UNCHANGED hal_cb_queue
    /\ UNCHANGED <<halVars, codeVars, loopVars, reportVars, changes, failures>>

-----------------------------------------------------------------------------
(***************************************************************************)
(* The handlers, as functions of what the library keeps of one station:    *)
(* its entry in connected_clients and what was reported about it.          *)
(***************************************************************************)

View(s) == [client |-> connected_clients[s],
            active |-> active[s],
            shown  |-> shownKey[s]]

Become(view) ==
    /\ connected_clients' = [s \in Stas |-> view[s].client]
    /\ active' = [s \in Stas |-> view[s].active]
    /\ shownKey' = [s \in Stas |-> view[s].shown]

clients_update(v, a, connected) ==
    [v EXCEPT !.active[a] = @ + (IF connected THEN 1 ELSE -1),
              !.shown = v.client.key_id]

Track(v, a, k) == [v EXCEPT !.client = [apIndex |-> a, key_id |-> k]]

\* Mutated form: a move is reported on the new VAP only.
clients_connection_silent(v, a, k) ==
    IF v.client = [apIndex |-> a, key_id |-> k]
      THEN v
      ELSE clients_update(Track(v, a, k), a, TRUE)

\* A new client, a client that moves, a client whose key changed; anything
\* else is known already.
clients_connection(v, a, k) ==
    LET old == v.client.apIndex IN
    CASE old = NoVap ->
           clients_update(Track(v, a, k), a, TRUE)
      [] old \notin {NoVap, a} ->
           clients_update(Track(clients_update(v, old, FALSE), a, k), a, TRUE)
      [] old = a /\ v.client.key_id # k ->
           clients_update(Track(clients_update(v, a, FALSE), a, k), a, TRUE)
      [] OTHER -> v

\* Mutated form: the VAP of the event is not compared with the client's.
clients_disconnection_anywhere(v, a) ==
    IF v.client.apIndex = NoVap
      THEN v
      ELSE [clients_update(v, v.client.apIndex, FALSE) EXCEPT !.client = Untracked]

\* A client that is not tracked, or is active on another VAP, is left alone;
\* the callers remove the client from the tree.
clients_disconnection(v, a) ==
    IF v.client.apIndex # a
      THEN v
      ELSE [clients_update(v, a, FALSE) EXCEPT !.client = Untracked]

\* wifi_getMultiPskClientKey knows the stations that are associated now.
KeyLookupOk(s, a) == MultiPsk => assoc[s] = a

\* Mutated form: the empty key id of the config file's key is used as it is.
KeyOfUnfiltered(s, a) ==
    IF MultiPsk THEN keyId[s] ELSE cached_key_ids[a]

KeyOf(s, a) ==
    IF MultiPsk /\ keyId[s] # EmptyKeyId THEN keyId[s] ELSE cached_key_ids[a]

-----------------------------------------------------------------------------
(* The event loop: draining the queue.                                     *)

\* Woken by a pending event (HalEventQueue, NoLostWakeup); the mutex is held
\* until AsyncEnd, so that no event is appended and no other handler runs.
AsyncBegin ==
    /\ loop = "idle"
    /\ hal_cb_queue # <<>>
    /\ loop' = "async"
    /\ UNCHANGED <<halVars, raised, hal_cb_queue, codeVars, nextVap,
                   reportVars, missed, changes, failures>>

HalCallFails ==
    /\ failures < MaxFailures
    /\ failures' = failures + 1

\* One entry of the queue.
AsyncEntry ==
    /\ loop = "async"
    /\ EventQueue!Deliver
    /\ LET e == Head(hal_cb_queue)
           v == View(e.mac)
           a == e.apIndex
           new == IF ~e.cli_Active
                    THEN clients_disconnection(v, a)
                    ELSE IF KeyLookupOk(e.mac, a)
                           THEN clients_connection(v, a, KeyOf(e.mac, a))
                           ELSE v
       IN  Become([s \in Stas |-> IF s = e.mac THEN new ELSE View(s)])
    /\ UNCHANGED <<halVars, raised, cached_key_ids, loopVars, missed, changes,
                   failures>>

\* wifi_getApName or the key lookup fails: the entry is skipped.
AsyncEntrySkipped ==
    /\ loop = "async"
    /\ EventQueue!Deliver
    /\ HalCallFails
    /\ missed' = TRUE
    /\ UNCHANGED <<halVars, raised, codeVars, loopVars, reportVars, changes>>

AsyncEnd ==
    /\ loop = "async"
    /\ hal_cb_queue = <<>>
    /\ loop' = "idle"
    /\ UNCHANGED <<halVars, raised, hal_cb_queue, codeVars, nextVap,
                   reportVars, missed, changes, failures>>

-----------------------------------------------------------------------------
(* The event loop: radio_resync_all_task.                                  *)

ResyncBegin ==
    /\ loop = "idle"
    /\ loop' = "resync"
    /\ nextVap' = 1
    /\ UNCHANGED <<halVars, raised, hal_cb_queue, codeVars, reportVars, missed,
                   changes, failures>>

\* Mutated form: the stations the HAL no longer lists are not looked for.
fetch_existing_no_detect(s, a) ==
    LET v == View(s) IN
    IF assoc[s] = a
      THEN clients_connection(v, a, KeyOf(s, a))
      ELSE v

\* clients_hal_fetch_existing(a), for one station: connect it if the HAL lists
\* it on a, and let detect_disconnection drop it if the tree has it on a and
\* the HAL does not.
fetch_existing(s, a) ==
    LET v == View(s) IN
    IF assoc[s] = a
      THEN clients_connection(v, a, KeyOf(s, a))
      ELSE clients_disconnection(v, a)

ResyncVap ==
    /\ loop = "resync"
    /\ nextVap <= NumVaps
    /\ nextVap' = nextVap + 1
    /\ IF enabled[nextVap]
         THEN Become([s \in Stas |-> fetch_existing(s, nextVap)])
         ELSE UNCHANGED <<connected_clients, reportVars>>
    /\ UNCHANGED <<halVars, raised, hal_cb_queue, cached_key_ids, loop, missed,
                   changes, failures>>

\* HAL calls fail for some of the stations, or for the VAP or its radio as a
\* whole: those stations stay as they are and the pass goes on.
ResyncVapPartly ==
    /\ loop = "resync"
    /\ nextVap <= NumVaps
    /\ nextVap' = nextVap + 1
    /\ enabled[nextVap]
    /\ HalCallFails
    /\ \E failed \in (SUBSET Stas) \ {{}} :
         Become([s \in Stas |->
                    IF s \in failed THEN View(s) ELSE fetch_existing(s, nextVap)])
    /\ UNCHANGED <<halVars, raised, hal_cb_queue, cached_key_ids, loop, missed,
                   changes>>

\* The pass reached its end, or a failing wifi_getHalCapability or
\* wifi_getRadioVapInfoMap sends it to "out" early.
ResyncEnd ==
    /\ loop = "resync"
    /\ \/ nextVap > NumVaps /\ UNCHANGED failures
       \/ nextVap <= NumVaps /\ HalCallFails
    /\ loop' = "idle"
    /\ nextVap' = 1
    /\ UNCHANGED <<halVars, raised, hal_cb_queue, codeVars, reportVars, missed,
                   changes>>

-----------------------------------------------------------------------------
HalStep ==
    \/ \E s \in Stas : Leave(s)
    \/ \E s \in Stas, a \in Vaps, k \in KeyIds \cup {EmptyKeyId} :
          Associate(s, a, k) \/ Roam(s, a, k)
    \/ \E a \in Vaps : ToggleVap(a)
    \/ \E a \in Vaps, k \in KeyIds : SetKeyId(a, k)

AsyncStep == AsyncBegin \/ AsyncEntry \/ AsyncEntrySkipped \/ AsyncEnd
ResyncStep == ResyncVap \/ ResyncVapPartly \/ ResyncEnd

Next == HalStep \/ HalCallback \/ AsyncStep \/ ResyncBegin \/ ResyncStep

Spec == Init /\ [][Next]_vars

(***************************************************************************)
(* Fairness: the HAL delivers what it raised, the loop handles what woke   *)
(* it, and the resync pass recurs, because healthcheck_task arms its timer *)
(* again every time it triggers a pass.  A pass that is due is not put off *)
(* for ever by passes of the async watcher and vice versa: libev invokes   *)
(* every pending watcher in each iteration.                                *)
(***************************************************************************)
FairSpec ==
    /\ Spec
    /\ WF_vars(HalCallback)
    /\ SF_vars(AsyncBegin)
    /\ WF_vars(AsyncEntry \/ AsyncEntrySkipped \/ AsyncEnd)
    /\ SF_vars(ResyncBegin)
    /\ WF_vars(ResyncStep)

-----------------------------------------------------------------------------
(* Properties.                                                             *)

TypeOK ==
    /\ assoc \in [Stas -> Vaps \cup {NoVap}]
    /\ keyId \in [Stas -> KeyIds \cup {EmptyKeyId}]
    /\ enabled \in [Vaps -> BOOLEAN]
    /\ raised \in Seq(Event)
    /\ hal_cb_queue \in Seq(Event)
    /\ cached_key_ids \in [Vaps -> KeyIds]
    /\ connected_clients \in
         [Stas -> [apIndex : Vaps \cup {NoVap}, key_id : KeyIds]]
    /\ loop \in {"idle", "async", "resync"}
    /\ nextVap \in 1 .. NumVaps + 1
    /\ active \in [Stas -> [Vaps -> Int]]
    /\ shownKey \in [Stas -> KeyIds]
    /\ missed \in BOOLEAN
    /\ changes \in Nat
    /\ failures \in Nat

\* What the Wireless Manager was told is exactly what the tree holds: every
\* "active" was preceded by an "inactive" on the VAP the client was on before,
\* no "inactive" is sent twice, and the key id last shown is the one compared
\* with the next event.  This has to hold across all orders of events of two
\* VAPs, drops, skipped entries and snapshots of the resync pass.
ReportsMatchTree ==
    \A s \in Stas :
        /\ \A a \in Vaps :
             active[s][a] = IF connected_clients[s].apIndex = a THEN 1 ELSE 0
        /\ connected_clients[s].apIndex # NoVap
             => shownKey[s] = connected_clients[s].key_id

\* If no event was dropped or skipped, then whenever everything raised was
\* handled, each station is tracked on the VAP it is associated with: events
\* that a snapshot of the resync pass has overtaken, and the late disconnect
\* of the VAP a station left, do no lasting harm.
AccurateWhenQuiet ==
    ~missed /\ raised = <<>> /\ hal_cb_queue = <<>> /\ loop = "idle"
      => \A s \in Stas : connected_clients[s].apIndex = assoc[s]

\* A station is shown where it is, with the key it uses; or it is shown on a
\* VAP that is disabled, which the resync pass does not visit.
Accurate(s) ==
    LET c == connected_clients[s] IN
    \/ /\ c.apIndex = assoc[s]
       /\ assoc[s] # NoVap => c.key_id = KeyOf(s, assoc[s])
    \/ c.apIndex # NoVap /\ ~enabled[c.apIndex]

\* Once stations and configuration keep still and HAL calls succeed, dropped
\* and skipped events are made good by the recurring resync pass, except for
\* clients on disabled VAPs.
EventuallyAccurate == <>[](\A s \in Stas : Accurate(s))
=============================================================================
