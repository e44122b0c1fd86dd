---------------------------- MODULE Bsal_proofs ----------------------------
(***************************************************************************)
(* For any interfaces, neighbors and capabilities: types, the steering     *)
(* group, the callback, the client information and the neighbor lists.     *)
(*                                                                         *)
(* Group: the property is inductive.  Callback: while the HAL's thread is  *)
(* inside process_event the callback is set, because the manager is not    *)
(* inside target_bsal_cleanup, and there nothing is registered any more.   *)
(* Information: what the last event still to be handled says of the        *)
(* station's last association; all earlier ones are overruled by it.       *)
(* Neighbors: as long as no search was misled, an interface and a BSSID    *)
(* have one entry at most, whose report has that BSSID.                    *)
(***************************************************************************)
EXTENDS Bsal, SequenceTheorems, TLAPS

\* The part of the callback.
ThreadInv ==
    /\ thread # Unset => bsal_event_cb
    /\ cleaning => ~registered /\ thread = Unset
    /\ ~crashed

Pending == raised # <<>> \/ thread # Unset
LastEvent == IF raised # <<>> THEN raised[Len(raised)] ELSE thread

\* The part of the client information.
InfoInv ==
    /\ assoc = <<>> =>
          IF Pending THEN LastEvent.type # "connect"
                     ELSE excused \/ client_info = Unset
    /\ assoc # <<>> =>
          IF Pending THEN LastEvent.type = "connect" =>
                            /\ LastEvent.ap = assoc[Len(assoc)].ap
                            /\ LastEvent.caps = assoc[Len(assoc)].caps
                     ELSE excused \/ client_info = assoc[Len(assoc)].caps

OneEntryEach ==
    \A e, f \in neighbors : e.ifname = f.ifname /\ e.bssid = f.bssid => e = f
OwnBssid == \A e \in neighbors : e.nr.bssid = e.bssid
ListsSettled == \A a \in Ifnames \ adrift : hwReports[a] = ListOf(neighbors, a)

\* The part of the neighbors.
NeighborsInv == ~misled => OneEntryEach /\ OwnBssid /\ ListsSettled

-----------------------------------------------------------------------------
(* Types.                                                                  *)

\* What is left of a sequence without one of its elements.
LEMMA RemoveAtType ==
  ASSUME NEW S, NEW s \in Seq(S), NEW i \in 1 .. Len(s)
  PROVE  RemoveAt(s, i) \in Seq(S)
<1>1. SubSeq(s, 1, i - 1) \in Seq(S)
  BY SubSeqProperties
<1>2. SubSeq(s, i + 1, Len(s)) \in Seq(S)
  BY SubSeqProperties
<1> QED
  BY <1>1, <1>2, ConcatProperties DEF RemoveAt

\* An event that is raised is the last one.
LEMMA RaiseFacts ==
  ASSUME SteeringTypeOK, NEW type \in {"connect", "disconnect", "strange"},
         NEW a \in Aps, NEW caps \in Caps \cup {Unset}, Raise(type, a, caps)
  PROVE  /\ raised' \in Seq(Event) /\ Len(raised') <= MaxRaised
         /\ raised' # <<>>
         /\ raised'[Len(raised')] = [type |-> type, ap |-> a, caps |-> caps]
<1> DEFINE e == [type |-> type, ap |-> a, caps |-> caps]
<1>1. e \in Event
  BY DEF Event
<1>2. raised \in Seq(Event) /\ raised' = Append(raised, e) /\ Len(raised) < MaxRaised
      /\ MaxRaised \in Nat
  BY SteeringAssumption DEF Raise, SteeringTypeOK
<1> HIDE DEF e
<1>3. /\ Append(raised, e) \in Seq(Event)
      /\ Len(Append(raised, e)) = Len(raised) + 1
      /\ Append(raised, e)[Len(raised) + 1] = e
  BY <1>1, <1>2
<1> QED
  BY <1>2, <1>3 DEF e

LEMMA InitTypeOK == Init => TypeOK
<1> SUFFICES ASSUME Init PROVE TypeOK
  OBVIOUS
<1> USE DEF Init, SteeringInit, NeighborsInit
<1>1. group \in Group /\ hwGroup \in Group
  BY DEF Group, EmptyGroup
<1>2. raised \in Seq(Event) /\ Len(raised) <= MaxRaised
      /\ assoc \in Seq([ap : Aps, caps : Caps])
  BY SteeringAssumption
<1>3. hwReports \in [Ifnames -> SUBSET Report]
  OBVIOUS
<1> QED
  BY <1>1, <1>2, <1>3 DEF TypeOK, SteeringTypeOK, NeighborsTypeOK

\* An interface that is set or taken away leaves a group.
LEMMA GroupType ==
  ASSUME NEW g \in Group, NEW b \in Bands, NEW i \in Iface \cup {Unset}
  PROVE  [g EXCEPT ![b] = i] \in Group
  BY DEF Group

LEMMA SteeringType ==
  ASSUME SteeringTypeOK, SteeringNext
  PROVE  SteeringTypeOK'
<1> USE DEF SteeringTypeOK, manager, groups, events
<1>0. EmptyGroup \in Group
  BY DEF EmptyGroup, Group
<1>1. CASE BsalInit
  BY <1>0, <1>1 DEF BsalInit
<1>2. CASE BsalCleanup
  BY <1>2 DEF BsalCleanup
<1>3. ASSUME NEW a \in Aps, NEW cfg \in Cfgs, IfaceAdd(a, cfg) \/ IfaceUpdate(a, cfg)
      PROVE  SteeringTypeOK'
  <2>1. BandOf[a] \in Bands /\ [ap |-> a, cfg |-> cfg] \in Iface
    BY <1>3 DEF IfaceAdd, IfaceUpdate, lookup_ifname, Iface
  <2>2. group' \in Group
    BY <1>3, <2>1, GroupType DEF IfaceAdd, IfaceUpdate
  <2>3. hwGroup' \in {hwGroup, EmptyGroup, group'} /\ unsettled' \in {TRUE, FALSE, unsettled}
    BY <1>3 DEF IfaceAdd, IfaceUpdate, HalSetGroup, UpdateGroup
  <2> QED
    BY <1>0, <1>3, <2>2, <2>3 DEF IfaceAdd, IfaceUpdate
<1>4. ASSUME NEW a \in Aps, IfaceRemove(a) PROVE SteeringTypeOK'
  <2>1. group' \in Group
    BY <1>4, GroupType DEF IfaceRemove, lookup_ifname
  <2>2. hwGroup' \in {hwGroup, EmptyGroup} /\ unsettled' \in {TRUE, FALSE, unsettled}
    BY <1>4 DEF IfaceRemove, HalSetGroup
  <2> QED
    BY <1>0, <1>4, <2>1, <2>2 DEF IfaceRemove
<1>5. ASSUME NEW a \in Aps, NEW caps \in Caps, StaConnect(a, caps)
      PROVE  SteeringTypeOK'
  <2>1. raised' \in Seq(Event) /\ Len(raised') <= MaxRaised
    BY <1>5, RaiseFacts DEF StaConnect
  <2>2. assoc' \in Seq([ap : Aps, caps : Caps])
    BY <1>5 DEF StaConnect
  <2> QED
    BY <1>5, <2>1, <2>2 DEF StaConnect
<1>6. ASSUME NEW a \in Aps, StaDisconnect(a) PROVE SteeringTypeOK'
  <2>1. raised' \in Seq(Event) /\ Len(raised') <= MaxRaised
    BY <1>6, RaiseFacts DEF StaDisconnect
  <2>2. assoc' \in Seq([ap : Aps, caps : Caps])
    BY <1>6, RemoveAtType DEF StaDisconnect
  <2> QED
    BY <1>6, <2>1, <2>2 DEF StaDisconnect
<1>7. CASE TakeEvent
  <2>1. raised \in Seq(Event) /\ raised # <<>> /\ raised' = Tail(raised)
    BY <1>7 DEF TakeEvent
  <2>2. raised' \in Seq(Event) /\ Len(raised') = Len(raised) - 1 /\ Head(raised) \in Event
    BY <2>1
  <2>3. Len(raised') <= MaxRaised
    BY <2>1, <2>2, SteeringAssumption
  <2>4. thread' \in Event \cup {Unset} /\ excused' \in BOOLEAN
    BY <1>7, <2>2 DEF TakeEvent
  <2> QED
    BY <1>7, <2>2, <2>3, <2>4 DEF TakeEvent
<1>8. CASE DeliverEvent
  <2>1. thread \in Event
    BY <1>8 DEF DeliverEvent
  <2>2. client_info' \in Caps \cup {Unset}
    BY <1>8, <2>1 DEF DeliverEvent, CacheEvent, Event
  <2>3. excused' \in BOOLEAN /\ crashed' \in BOOLEAN
    BY <1>8, <2>1 DEF DeliverEvent, CacheEvent, Event
  <2> QED
    BY <1>8, <2>2, <2>3 DEF DeliverEvent
<1> QED
  BY <1>1, <1>2, <1>3, <1>4, <1>5, <1>6, <1>7, <1>8 DEF SteeringNext

\* What a search finds.
LEMMA FoundType ==
  ASSUME NeighborsTypeOK, NEW a, NEW b, NEW e \in Found(a, b)
  PROVE  e \in neighbors \cup {None}
  BY DEF Found

LEMMA NeighborsType ==
  ASSUME NeighborsTypeOK, NeighborsNext
  PROVE  NeighborsTypeOK'
<1> USE DEF NeighborsTypeOK
<1>1. ASSUME NEW tree \in SUBSET Entry, NEW a \in Ifnames, Sent(tree, a)
      PROVE  hwReports' \in [Ifnames -> SUBSET Report]
  BY <1>1 DEF Sent, ListOf, Entry
<1>2. ASSUME NEW a \in Ifnames, NEW nr \in Report, SetNeighbor(a, nr)
      PROVE  NeighborsTypeOK'
  <2>1. misled' \in BOOLEAN
    BY <1>2 DEF SetNeighbor, Search
  <2>2. PICK e \in Found(a, nr.bssid) :
           IF e = None THEN AddNeighbor(a, nr) ELSE ModifyNeighbor(a, e, nr)
    BY <1>2 DEF SetNeighbor
  <2>3. CASE e = None
    <3> DEFINE free == Nodes \ {f.node : f \in neighbors}
               new == [node |-> CHOOSE n \in free : TRUE, ifname |-> a,
                       bssid |-> nr.bssid, nr |-> nr, key_intact |-> TRUE]
    <3>1. free # {} /\ \/ /\ neighbors' = neighbors \cup {new}
                          /\ Sent(neighbors', a) /\ adrift' = adrift \ {a}
                       \/ UNCHANGED <<neighbors, hwReports, adrift>>
      BY <2>2, <2>3 DEF AddNeighbor
    <3>2. new \in Entry
      BY <3>1 DEF Entry, Report
    <3> HIDE DEF new, free
    <3>3. neighbors' \subseteq Entry /\ adrift' \subseteq Ifnames
      BY <3>1, <3>2
    <3> QED
      BY <1>1, <2>1, <3>1, <3>3
  <2>4. CASE e # None
    <3>1. e \in Entry
      BY <2>2, <2>4, FoundType
    <3>2. [e EXCEPT !.nr = nr] \in Entry
      BY <3>1 DEF Entry
    <3>3. neighbors' \subseteq Entry /\ adrift' \subseteq Ifnames
      BY <2>2, <2>4, <3>2 DEF ModifyNeighbor
    <3>4. hwReports' = hwReports \/ Sent(neighbors', a)
      BY <2>2, <2>4 DEF ModifyNeighbor
    <3> QED
      BY <1>1, <2>1, <3>3, <3>4
  <2> QED
    BY <2>3, <2>4
<1>3. ASSUME NEW a \in Ifnames, NEW b \in Bssids, RemoveNeighbor(a, b)
      PROVE  NeighborsTypeOK'
  <2>1. misled' \in BOOLEAN
    BY <1>3 DEF RemoveNeighbor, Search
  <2>2. PICK e \in Found(a, b) \ {None} :
           \/ /\ neighbors' = neighbors \ {e}
              /\ Sent(neighbors', a) /\ adrift' = adrift \ {a}
           \/ /\ neighbors' = (neighbors \ {e}) \cup {[e EXCEPT !.key_intact = FALSE]}
              /\ UNCHANGED <<hwReports, adrift>>
    BY <1>3 DEF RemoveNeighbor
  <2>3. e \in Entry /\ [e EXCEPT !.key_intact = FALSE] \in Entry
    BY FoundType DEF Entry
  <2>4. neighbors' \subseteq Entry /\ adrift' \subseteq Ifnames
    BY <2>2, <2>3
  <2> QED
    BY <1>1, <2>1, <2>2, <2>4
<1> QED
  BY <1>2, <1>3 DEF NeighborsNext

LEMMA NextTypeOK == TypeOK /\ [Next]_<<svars, nvars>> => TypeOK'
<1> SUFFICES ASSUME TypeOK, [Next]_<<svars, nvars>> PROVE TypeOK'
  OBVIOUS
<1> USE DEF TypeOK
<1>1. ASSUME UNCHANGED svars PROVE SteeringTypeOK'
  BY <1>1 DEF SteeringTypeOK, svars
<1>2. ASSUME UNCHANGED nvars PROVE NeighborsTypeOK'
  BY <1>2 DEF NeighborsTypeOK, nvars
<1>3. CASE Restart
  <2>1. SteeringTypeOK'
    <3>1. EmptyGroup \in Group
      BY DEF EmptyGroup, Group
    <3>2. <<>> \in Seq(Event) /\ Len(<<>>) <= MaxRaised
      BY SteeringAssumption
    <3>3. unsettled' \in BOOLEAN /\ excused' \in BOOLEAN
      BY <1>3 DEF Restart, RestartSteering
    <3> QED
      BY <1>3, <3>1, <3>2, <3>3 DEF Restart, RestartSteering, SteeringTypeOK
  <2>2. NeighborsTypeOK'
    BY <1>3 DEF Restart, RestartNeighbors, NeighborsTypeOK
  <2> QED
    BY <2>1, <2>2
<1> QED
  BY <1>1, <1>2, <1>3, SteeringType, NeighborsType DEF Next

-----------------------------------------------------------------------------
(* The group.                                                              *)

LEMMA NextGroup ==
  TypeOK /\ GroupFollowsManager /\ [Next]_<<svars, nvars>> => GroupFollowsManager'
<1> SUFFICES ASSUME TypeOK, GroupFollowsManager, [Next]_<<svars, nvars>>, ~unsettled'
             PROVE  /\ BothSet(group') => hwGroup' = group'
                    /\ group' = EmptyGroup => hwGroup' = EmptyGroup
  BY DEF GroupFollowsManager, BothSet, EmptyGroup
<1> USE DEF manager, groups, events
<1>a. group \in Group /\ hwGroup \in Group
  BY DEF TypeOK, SteeringTypeOK
<1>b. \A i \in Iface : i # Unset
  BY UnsetAssumption
<1>1. CASE group' = group /\ hwGroup' = hwGroup /\ unsettled' = unsettled
  BY <1>1 DEF GroupFollowsManager
<1>2. CASE BsalInit \/ Restart
  BY <1>2 DEF BsalInit, Restart, RestartSteering
<1>3. ASSUME NEW a \in Aps, NEW cfg \in Cfgs, IfaceAdd(a, cfg) \/ IfaceUpdate(a, cfg)
      PROVE  /\ BothSet(group') => hwGroup' = group'
             /\ group' = EmptyGroup => hwGroup' = EmptyGroup
  <2>1. BandOf[a] \in Bands /\ [ap |-> a, cfg |-> cfg] \in Iface
    BY <1>3 DEF IfaceAdd, IfaceUpdate, lookup_ifname, Iface
  <2>2. group'[BandOf[a]] # Unset
    BY <1>3, <1>a, <1>b, <2>1 DEF IfaceAdd, IfaceUpdate, Group
  <2>3. group' # EmptyGroup
    BY <2>1, <2>2 DEF EmptyGroup
  <2>4. BothSet(group') => hwGroup' = group'
    BY <1>3 DEF IfaceAdd, IfaceUpdate, HalSetGroup, UpdateGroup
  <2> QED
    BY <2>3, <2>4
<1>4. ASSUME NEW a \in Aps, IfaceRemove(a)
      PROVE  /\ BothSet(group') => hwGroup' = group'
             /\ group' = EmptyGroup => hwGroup' = EmptyGroup
  <2>1. BandOf[a] \in Bands /\ group'[BandOf[a]] = Unset
    BY <1>4, <1>a DEF IfaceRemove, lookup_ifname, Group
  <2>2. ~BothSet(group')
    BY <2>1 DEF BothSet
  <2>3. group' = EmptyGroup => hwGroup' = EmptyGroup
    BY <1>4 DEF IfaceRemove, HalSetGroup
  <2> QED
    BY <2>2, <2>3
<1>5. ASSUME NEW a \in Aps, NEW caps \in Caps, StaConnect(a, caps) \/ StaDisconnect(a)
      PROVE  group' = group /\ hwGroup' = hwGroup /\ unsettled' = unsettled
  BY <1>5 DEF StaConnect, StaDisconnect
<1>6. CASE BsalCleanup \/ TakeEvent \/ DeliverEvent
  BY <1>1, <1>6 DEF BsalCleanup, TakeEvent, DeliverEvent
<1>7. ASSUME NEW a \in Aps, StaDisconnect(a)
      PROVE  group' = group /\ hwGroup' = hwGroup /\ unsettled' = unsettled
  BY <1>7 DEF StaDisconnect
<1>8. CASE UNCHANGED svars
  BY <1>1, <1>8 DEF svars
<1> QED
  BY <1>1, <1>2, <1>3, <1>4, <1>5, <1>6, <1>7, <1>8 DEF Next, SteeringNext

-----------------------------------------------------------------------------
(* The callback.                                                           *)

LEMMA NextThread ==
  TypeOK /\ ThreadInv /\ [Next]_<<svars, nvars>> => ThreadInv'
<1> SUFFICES ASSUME TypeOK, ThreadInv, [Next]_<<svars, nvars>> PROVE ThreadInv'
  OBVIOUS
<1> USE DEF ThreadInv, manager, groups, events
<1>0. {bsal_event_cb, registered, cleaning, crashed} \subseteq BOOLEAN
  BY DEF TypeOK, SteeringTypeOK
<1>1. ASSUME UNCHANGED <<bsal_event_cb, registered, cleaning, thread, crashed>>
      PROVE  ThreadInv'
  BY <1>1
<1>2. CASE BsalInit
  BY <1>2 DEF BsalInit
<1>3. CASE BsalCleanup
  BY <1>3 DEF BsalCleanup
<1>4. CASE TakeEvent
  BY <1>4 DEF TakeEvent
<1>5. CASE DeliverEvent
  BY <1>0, <1>5 DEF DeliverEvent
<1>6. CASE Restart
  BY <1>6 DEF Restart, RestartSteering
<1>7. ASSUME NEW a \in Aps, NEW cfg \in Cfgs,
             IfaceAdd(a, cfg) \/ IfaceUpdate(a, cfg) \/ IfaceRemove(a)
      PROVE  ThreadInv'
  BY <1>1, <1>7 DEF IfaceAdd, IfaceUpdate, IfaceRemove
<1>8. ASSUME NEW a \in Aps, IfaceRemove(a) \/ StaDisconnect(a) PROVE ThreadInv'
  BY <1>1, <1>8 DEF IfaceRemove, StaDisconnect
<1>9. ASSUME NEW a \in Aps, NEW caps \in Caps, StaConnect(a, caps) PROVE ThreadInv'
  BY <1>1, <1>9 DEF StaConnect
<1>10. CASE UNCHANGED svars
  BY <1>1, <1>10 DEF svars
<1> QED
  BY <1>2, <1>3, <1>4, <1>5, <1>6, <1>7, <1>8, <1>9, <1>10 DEF Next, SteeringNext

-----------------------------------------------------------------------------
(* The client information.                                                 *)

\* What StaConnect and StaDisconnect raise is the last event.
LEMMA LastRaised ==
  ASSUME TypeOK, NEW type \in {"connect", "disconnect", "strange"},
         NEW a \in Aps, NEW caps \in Caps \cup {Unset}, Raise(type, a, caps)
  PROVE  Pending' /\ LastEvent' = [type |-> type, ap |-> a, caps |-> caps]
  BY RaiseFacts DEF TypeOK, Pending, LastEvent

LEMMA NextInfo ==
  TypeOK /\ InfoInv /\ [Next]_<<svars, nvars>> => InfoInv'
<1> SUFFICES ASSUME TypeOK, InfoInv, [Next]_<<svars, nvars>> PROVE InfoInv'
  OBVIOUS
<1> USE DEF manager, groups, events
<1>0. /\ raised \in Seq(Event) /\ thread \in Event \cup {Unset} /\ Unset \notin Event
      /\ assoc \in Seq([ap : Aps, caps : Caps])
  BY UnsetAssumption DEF TypeOK, SteeringTypeOK
<1>1. ASSUME UNCHANGED <<raised, thread, assoc, client_info, excused>> PROVE InfoInv'
  BY <1>1 DEF InfoInv, Pending, LastEvent
<1>2. ASSUME NEW a \in Aps, NEW caps \in Caps, StaConnect(a, caps) PROVE InfoInv'
  <2> DEFINE new == [ap |-> a, caps |-> caps]
  <2>1. assoc' = Append(assoc, new) /\ new \in [ap : Aps, caps : Caps]
    BY <1>2 DEF StaConnect
  <2>2. assoc' # <<>> /\ assoc'[Len(assoc')] = new
    BY <1>0, <2>1
  <2>3. Pending' /\ LastEvent' = [type |-> "connect", ap |-> a, caps |-> caps]
    BY <1>2, LastRaised DEF StaConnect
  <2> QED
    BY <2>2, <2>3 DEF InfoInv
<1>3. ASSUME NEW a \in Aps, StaDisconnect(a) PROVE InfoInv'
  <2>1. PICK type \in {"disconnect", "strange"} : Raise(type, a, Unset)
    BY <1>3 DEF StaDisconnect
  <2>2. Pending' /\ LastEvent'.type # "connect"
    BY <2>1, LastRaised
  <2> QED
    BY <2>2 DEF InfoInv
<1>4. CASE TakeEvent
  <2> DEFINE e == Head(raised)
  <2>1. /\ raised # <<>> /\ thread = Unset /\ raised' = Tail(raised)
        /\ UNCHANGED <<assoc, client_info>>
    BY <1>4 DEF TakeEvent
  <2>2. \/ thread' = e /\ excused' = excused
        \/ thread' = Unset /\ excused' = TRUE
    BY <1>4, <2>1 DEF TakeEvent
  <2>3. /\ e \in Event /\ e # Unset
        /\ Tail(raised) = <<>> => LastEvent = e
        /\ Tail(raised) # <<>> => Tail(raised)[Len(Tail(raised))] = LastEvent
    <3>1. /\ e \in Event /\ e = raised[1] /\ Len(raised) \in Nat \ {0}
          /\ Len(Tail(raised)) = Len(raised) - 1
          /\ \A i \in 1 .. Len(raised) - 1 : Tail(raised)[i] = raised[i + 1]
      BY <1>0, <2>1
    <3>2. Tail(raised) = <<>> => Len(raised) = 1
      BY <3>1, EmptySeq
    <3>3. Tail(raised) # <<>> => Len(raised) > 1
      BY <1>0, <2>1, <3>1, EmptySeq
    <3> QED
      BY <1>0, <2>1, <3>1, <3>2, <3>3 DEF LastEvent
  <2> HIDE DEF e
  <2>4. Pending
    BY <2>1 DEF Pending
  <2>5. Pending' => LastEvent' = LastEvent
    BY <2>1, <2>3, <2>2 DEF Pending, LastEvent
  <2>6. Pending' \/ excused' = TRUE
    BY <2>1, <2>3, <2>2 DEF Pending
  <2> QED
    BY <2>1, <2>4, <2>5, <2>6 DEF InfoInv
<1>5. CASE DeliverEvent
  <2>1. /\ thread \in Event /\ thread # Unset /\ thread' = Unset
        /\ UNCHANGED <<raised, assoc>> /\ CacheEvent(thread)
    BY <1>0, <1>5 DEF DeliverEvent
  <2>2. Pending
    BY <2>1 DEF Pending
  <2>3. CASE raised # <<>>
    <3>1. Pending' /\ LastEvent' = LastEvent
      BY <2>1, <2>3 DEF Pending, LastEvent
    <3> QED
      BY <2>1, <2>2, <3>1 DEF InfoInv
  <2>4. CASE raised = <<>>
    <3>1. ~Pending' /\ LastEvent = thread
      BY <2>1, <2>4 DEF Pending, LastEvent
    <3>2. CASE thread.type = "connect"
      <4>1. client_info' = thread.caps
        BY <2>1, <3>2 DEF CacheEvent
      <4>2. assoc # <<>> /\ thread.caps = assoc[Len(assoc)].caps
        BY <2>2, <3>1, <3>2 DEF InfoInv
      <4> QED
        BY <2>1, <3>1, <4>1, <4>2 DEF InfoInv
    <3>3. CASE thread.type = "disconnect"
      <4>1. client_info' = Unset /\ (assoc # <<>> => excused')
        BY <2>1, <3>3 DEF CacheEvent
      <4> QED
        BY <2>1, <3>1, <4>1 DEF InfoInv
    <3>4. CASE thread.type = "strange"
      <4>1. excused'
        BY <2>1, <3>4 DEF CacheEvent
      <4> QED
        BY <2>1, <3>1, <4>1 DEF InfoInv
    <3> QED
      BY <2>1, <3>2, <3>3, <3>4 DEF Event
  <2> QED
    BY <2>3, <2>4
<1>6. CASE Restart
  <2>1. ~Pending' /\ client_info' = Unset /\ excused' = (assoc # <<>>) /\ assoc' = assoc
    BY <1>6 DEF Restart, RestartSteering, Pending
  <2> QED
    BY <2>1 DEF InfoInv
<1>7. ASSUME NEW a \in Aps, NEW cfg \in Cfgs, IfaceAdd(a, cfg) \/ IfaceUpdate(a, cfg)
      PROVE  InfoInv'
  BY <1>1, <1>7 DEF IfaceAdd, IfaceUpdate
<1>8. ASSUME NEW a \in Aps, IfaceRemove(a) PROVE InfoInv'
  BY <1>1, <1>8 DEF IfaceRemove
<1>9. CASE BsalInit \/ BsalCleanup
  BY <1>1, <1>9 DEF BsalInit, BsalCleanup
<1>10. CASE UNCHANGED svars
  BY <1>1, <1>10 DEF svars
<1> QED
  BY <1>2, <1>3, <1>4, <1>5, <1>6, <1>7, <1>8, <1>9, <1>10 DEF Next, SteeringNext

-----------------------------------------------------------------------------
(* The neighbors.                                                          *)

\* The HAL takes the list of one interface: only its entries changed.
LEMMA ListSent ==
  ASSUME TypeOK, ListsSettled, NEW a \in Ifnames, Sent(neighbors', a),
         adrift' = adrift \ {a},
         \A e \in (neighbors \ neighbors') \cup (neighbors' \ neighbors) : e.ifname = a
  PROVE  ListsSettled'
<1>1. \A c \in Ifnames \ {a} : ListOf(neighbors', c) = ListOf(neighbors, c)
  BY DEF ListOf
<1>2. \A c \in Ifnames : hwReports'[c] = IF c = a THEN ListOf(neighbors', a)
                                                  ELSE hwReports[c]
  BY DEF Sent, TypeOK, NeighborsTypeOK
<1>3. SUFFICES ASSUME NEW c \in Ifnames \ adrift'
               PROVE  hwReports'[c] = ListOf(neighbors', c)
  BY DEF ListsSettled, ListOf
<1> QED
  BY <1>1, <1>2 DEF ListsSettled

LEMMA NextNeighbors ==
  TypeOK /\ NeighborsInv /\ [Next]_<<svars, nvars>> => NeighborsInv'
<1> SUFFICES ASSUME TypeOK, NeighborsInv, [Next]_<<svars, nvars>>, ~misled'
             PROVE  OneEntryEach' /\ OwnBssid' /\ ListsSettled'
  BY DEF NeighborsInv
<1>0. neighbors \subseteq Entry /\ None \notin neighbors
  BY NoneAssumption DEF TypeOK, NeighborsTypeOK
<1>a. ASSUME Search
      PROVE  /\ OneEntryEach /\ OwnBssid /\ ListsSettled
             /\ \A e \in neighbors : e.key_intact
             /\ \A a, b : Found(a, b) =
                   LET own == {e \in neighbors : e.ifname = a /\ e.bssid = b} IN
                   IF own # {} THEN own ELSE {None}
  <2>1. ~misled /\ \A e \in neighbors : e.key_intact
    BY <1>a DEF Search
  <2> QED
    BY <2>1 DEF NeighborsInv, Found
<1>1. ASSUME NEW a \in Ifnames, NEW nr \in Report, SetNeighbor(a, nr)
      PROVE  OneEntryEach' /\ OwnBssid' /\ ListsSettled'
  <2>1. Search
    BY <1>1 DEF SetNeighbor
  <2>2. OneEntryEach /\ OwnBssid /\ ListsSettled
    BY <1>a, <2>1
  <2>3. PICK e \in Found(a, nr.bssid) :
           IF e = None THEN AddNeighbor(a, nr) ELSE ModifyNeighbor(a, e, nr)
    BY <1>1 DEF SetNeighbor
  <2>4. CASE e = None
    <3> DEFINE free == Nodes \ {f.node : f \in neighbors}
               new == [node |-> CHOOSE n \in free : TRUE, ifname |-> a,
                       bssid |-> nr.bssid, nr |-> nr, key_intact |-> TRUE]
    <3>1. \/ /\ neighbors' = neighbors \cup {new}
             /\ Sent(neighbors', a) /\ adrift' = adrift \ {a}
          \/ UNCHANGED <<neighbors, hwReports, adrift>>
      BY <2>3, <2>4 DEF AddNeighbor
    <3>2. new.ifname = a /\ new.bssid = nr.bssid /\ new.nr = nr
      OBVIOUS
    <3> HIDE DEF new, free
    <3>3. \A f \in neighbors : ~(f.ifname = a /\ f.bssid = nr.bssid)
      BY <1>0, <1>a, <2>1, <2>3, <2>4
    <3>4. CASE UNCHANGED <<neighbors, hwReports, adrift>>
      BY <2>2, <3>4 DEF OneEntryEach, OwnBssid, ListsSettled, ListOf
    <3>5. CASE neighbors' = neighbors \cup {new} /\ Sent(neighbors', a)
               /\ adrift' = adrift \ {a}
      <4>1. OneEntryEach' /\ OwnBssid'
        BY <2>2, <3>2, <3>3, <3>5 DEF OneEntryEach, OwnBssid
      <4>2. ListsSettled'
        BY <2>2, <3>2, <3>5, ListSent
      <4> QED
        BY <4>1, <4>2
    <3> QED
      BY <3>1, <3>4, <3>5
  <2>5. CASE e # None
    <3> DEFINE new == [e EXCEPT !.nr = nr]
    <3>1. e \in neighbors /\ e.ifname = a /\ e.bssid = nr.bssid
      BY <1>a, <2>1, <2>3, <2>5
    <3>2. new.ifname = a /\ new.bssid = nr.bssid /\ new.nr = nr
      BY <1>0, <3>1 DEF Entry
    <3>3. \/ /\ neighbors' = (neighbors \ {e}) \cup {new}
             /\ Sent(neighbors', a) /\ adrift' = adrift \ {a}
          \/ /\ neighbors' = neighbors \ {e}
             /\ adrift' = adrift \cup {a} /\ hwReports' = hwReports
      BY <2>3, <2>5 DEF ModifyNeighbor
    <3> HIDE DEF new
    <3>4. OneEntryEach' /\ OwnBssid'
      BY <2>2, <3>1, <3>2, <3>3 DEF OneEntryEach, OwnBssid
    <3>5. CASE neighbors' = (neighbors \ {e}) \cup {new} /\ Sent(neighbors', a)
               /\ adrift' = adrift \ {a}
      BY <2>2, <3>1, <3>2, <3>4, <3>5, ListSent
    <3>6. CASE neighbors' = neighbors \ {e} /\ adrift' = adrift \cup {a}
               /\ hwReports' = hwReports
      <4>1. \A c \in Ifnames \ {a} : ListOf(neighbors', c) = ListOf(neighbors, c)
        BY <3>1, <3>6 DEF ListOf
      <4>2. ListsSettled'
        BY <2>2, <3>6, <4>1 DEF ListsSettled, ListOf
      <4> QED
        BY <3>4, <4>2
    <3> QED
      BY <3>3, <3>5, <3>6
  <2> QED
    BY <2>4, <2>5
<1>2. ASSUME NEW a \in Ifnames, NEW b \in Bssids, RemoveNeighbor(a, b)
      PROVE  OneEntryEach' /\ OwnBssid' /\ ListsSettled'
  <2>1. Search
    BY <1>2 DEF RemoveNeighbor
  <2>2. OneEntryEach /\ OwnBssid /\ ListsSettled
    BY <1>a, <2>1
  <2> DEFINE Lost(e) == [e EXCEPT !.key_intact = FALSE]
  <2>3. PICK e \in Found(a, b) \ {None} :
           \/ /\ neighbors' = neighbors \ {e}
              /\ Sent(neighbors', a) /\ adrift' = adrift \ {a}
           \/ /\ neighbors' = (neighbors \ {e}) \cup {Lost(e)}
              /\ UNCHANGED <<hwReports, adrift>>
    BY <1>2 DEF RemoveNeighbor
  <2>4. e \in neighbors /\ e.ifname = a
    BY <1>a, <2>1, <2>3
  <2>5. Lost(e).ifname = e.ifname /\ Lost(e).bssid = e.bssid /\ Lost(e).nr = e.nr
    BY <1>0, <2>4 DEF Entry
  <2> HIDE DEF Lost
  <2>6. OneEntryEach' /\ OwnBssid'
    BY <2>2, <2>3, <2>4, <2>5 DEF OneEntryEach, OwnBssid
  <2>7. CASE neighbors' = neighbors \ {e} /\ Sent(neighbors', a) /\ adrift' = adrift \ {a}
    BY <2>2, <2>4, <2>6, <2>7, ListSent
  <2>8. CASE neighbors' = (neighbors \ {e}) \cup {Lost(e)} /\ UNCHANGED <<hwReports, adrift>>
    <3>1. \A c : ListOf(neighbors', c) = ListOf(neighbors, c)
      BY <2>4, <2>5, <2>8 DEF ListOf
    <3> QED
      BY <2>2, <2>6, <2>8, <3>1 DEF ListsSettled, ListOf
  <2> QED
    BY <2>3, <2>7, <2>8
<1>3. CASE Restart
  <2>1. neighbors' = {} /\ hwReports' = hwReports
        /\ adrift' = {a \in Ifnames : hwReports[a] # {}}
    BY <1>3 DEF Restart, RestartNeighbors
  <2> QED
    BY <2>1 DEF OneEntryEach, OwnBssid, ListsSettled, ListOf
<1>4. CASE UNCHANGED nvars
  BY <1>4 DEF nvars, NeighborsInv, OneEntryEach, OwnBssid, ListsSettled, ListOf
<1> QED
  BY <1>1, <1>2, <1>3, <1>4 DEF Next, NeighborsNext

-----------------------------------------------------------------------------
LEMMA InitInvs == Init => GroupFollowsManager /\ ThreadInv /\ InfoInv /\ NeighborsInv
<1> SUFFICES ASSUME Init PROVE GroupFollowsManager /\ ThreadInv /\ InfoInv /\ NeighborsInv
  OBVIOUS
<1>1. GroupFollowsManager /\ ThreadInv
  BY DEF Init, SteeringInit, GroupFollowsManager, ThreadInv
<1>2. InfoInv
  BY DEF Init, SteeringInit, InfoInv, Pending
<1>3. NeighborsInv
  BY DEF Init, NeighborsInit, NeighborsInv, OneEntryEach, OwnBssid, ListsSettled, ListOf
<1> QED
  BY <1>1, <1>2, <1>3

\* Every variable keeps its type; in particular no more than MaxRaised events
\* wait, and the HAL's lists are made of neighbor reports.
THEOREM TypeCorrect == Spec => []TypeOK
  BY InitTypeOK, NextTypeOK, PTL DEF Spec

\* The HAL's group is the manager's once both interfaces are set, and gone once
\* none is.
THEOREM GroupAlwaysFollows == Spec => []GroupFollowsManager
  BY InitInvs, NextGroup, TypeCorrect, PTL DEF Spec

\* process_event never calls a callback that was taken away meanwhile.
THEOREM CallbackAlwaysThere == Spec => []CallbackIsThere
<1>1. Spec => []ThreadInv
  BY InitInvs, NextThread, TypeCorrect, PTL DEF Spec
<1>2. ThreadInv => CallbackIsThere
  BY DEF ThreadInv, CallbackIsThere
<1> QED
  BY <1>1, <1>2, PTL

\* Once the events are handled, what is reported of a station is what its last
\* association told, or nothing, unless an event was ignored or came too late.
THEOREM InfoAlwaysFollows == Spec => []InfoFollowsStation
<1>1. Spec => []InfoInv
  BY InitInvs, NextInfo, TypeCorrect, PTL DEF Spec
<1>2. TypeOK /\ InfoInv => InfoFollowsStation
  <2> SUFFICES ASSUME TypeOK, InfoInv, raised = <<>>, thread = Unset, ~excused,
                      assoc # <<>>
               PROVE  LET last == assoc[Len(assoc)] IN
                      ClientInfo(last.ap) \in
                         {Unset, [connected |-> TRUE, caps |-> last.caps]}
    BY DEF InfoFollowsStation, InfoInv, Pending
  <2>1. Len(assoc) \in 1 .. Len(assoc)
    BY DEF TypeOK, SteeringTypeOK
  <2>2. client_info = assoc[Len(assoc)].caps
    BY DEF InfoInv, Pending
  <2> QED
    BY <2>1, <2>2 DEF ClientInfo, SetConnected
<1> QED
  BY <1>1, <1>2, TypeCorrect, PTL

\* The HAL's list of an interface is the tree's, and lists no neighbor twice.
THEOREM NeighborsAlwaysAgree == Spec => []NeighborsAgree
<1>1. Spec => []NeighborsInv
  BY InitInvs, NextNeighbors, TypeCorrect, PTL DEF Spec
<1>2. NeighborsInv => NeighborsAgree
  BY DEF NeighborsInv, NeighborsAgree, OneEntryEach, OwnBssid, ListsSettled, ListOf
<1> QED
  BY <1>1, <1>2, PTL
=============================================================================
