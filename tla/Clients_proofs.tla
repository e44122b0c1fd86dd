--------------------------- MODULE Clients_proofs ---------------------------
(***************************************************************************)
(* For every number of stations, VAPs and keys: client tracking is type    *)
(* correct, what was reported to OpenSync is what the tree holds, and the  *)
(* tree has each station where it is once its events are handled.          *)
(*                                                                         *)
(* The arguments are local to one station.  A view (its tree entry and its *)
(* reports) is consistent if the reports are those of the entry; the two   *)
(* handlers keep a view consistent whatever event they are given, so the   *)
(* order of events, drops and resync passes cannot matter for the reports. *)
(* For the tree it does, and Sound says what is true of the events under   *)
(* way: each step that raises, handles or overtakes some keeps it.         *)
(***************************************************************************)
EXTENDS Clients, SequenceTheorems, TLAPS

Views == [client : [apIndex : Vaps \cup {NoVap}, key_id : KeyIds],
          active : [Vaps -> Int],
          shown  : KeyIds]

\* The reports of a view are those of its tree entry.
Consistent(v) ==
    /\ \A a \in Vaps : v.active[a] = IF v.client.apIndex = a THEN 1 ELSE 0
    /\ v.client.apIndex # NoVap => v.shown = v.client.key_id

GoodViews == {v \in Views : Consistent(v)}

ViewsGood == \A s \in Stas : View(s) \in GoodViews

\* The variables a handler leaves alone.
RestTypeOK ==
    /\ assoc \in [Stas -> Vaps \cup {NoVap}]
    /\ keyId \in [Stas -> KeyIds \cup {EmptyKeyId}]
    /\ enabled \in [Vaps -> BOOLEAN]
    /\ raised \in Seq(Event)
    /\ hal_cb_queue \in Seq(Event)
    /\ cached_key_ids \in [Vaps -> KeyIds]
    /\ loop \in {"idle", "async", "resync"}
    /\ nextVap \in 1 .. NumVaps + 1
    /\ missed \in BOOLEAN
    /\ changes \in Nat
    /\ failures \in Nat

IsFunctions ==
    /\ connected_clients \in
         [Stas -> [apIndex : Vaps \cup {NoVap}, key_id : KeyIds]]
    /\ active \in [Stas -> [Vaps -> Int]]
    /\ shownKey \in [Stas -> KeyIds]

CInv == RestTypeOK /\ IsFunctions /\ ViewsGood

USE ConstantsAssumption

-----------------------------------------------------------------------------
\* NoVap is no VAP.
LEMMA VapsPositive == NoVap \notin Vaps /\ Vaps \subseteq Int
  BY DEF Vaps, NoVap

\* A view after a report to the Wireless Manager that adds d.
Reported(v, a, d) ==
    [v EXCEPT !.active[a] = @ + d, !.shown = v.client.key_id]

\* Reporting a client active adds one, reporting it inactive takes one away.
LEMMA UpdateReports ==
  ASSUME NEW v, NEW a
  PROVE  /\ clients_update(v, a, TRUE) = Reported(v, a, 1)
         /\ clients_update(v, a, FALSE) = Reported(v, a, -1)
  BY DEF clients_update, Reported

LEMMA ReportedIs ==
  ASSUME NEW v \in Views, NEW a \in Vaps, NEW d \in Int
  PROVE  /\ Reported(v, a, d) \in Views
         /\ Reported(v, a, d).client = v.client
         /\ Reported(v, a, d).shown = v.client.key_id
         /\ \A b \in Vaps : Reported(v, a, d).active[b]
                              = IF b = a THEN v.active[b] + d ELSE v.active[b]
<1> DEFINE f == [v.active EXCEPT ![a] = @ + d]
           w == Reported(v, a, d)
<1>1. /\ v.client \in [apIndex : Vaps \cup {NoVap}, key_id : KeyIds]
      /\ v.active \in [Vaps -> Int] /\ v.shown \in KeyIds
      /\ v = [client |-> v.client, active |-> v.active, shown |-> v.shown]
  BY DEF Views
<1>2. /\ f \in [Vaps -> Int]
      /\ \A b \in Vaps : f[b] = IF b = a THEN v.active[b] + d ELSE v.active[b]
  <2>1. \A b \in Vaps : v.active[b] + d \in Int
    BY <1>1, VapsPositive
  <2> QED
    BY <1>1, <2>1
<1>3. w = [client |-> v.client, active |-> f, shown |-> v.client.key_id]
  <2>1. w = [[v EXCEPT !.active = f] EXCEPT !.shown = v.client.key_id]
    BY DEF Reported
  <2> HIDE DEF f, w
  <2> QED
    BY <1>1, <2>1
<1> HIDE DEF f, w
<1>4. w \in Views
  BY <1>1, <1>2, <1>3 DEF Views
<1>5. w.client = v.client /\ w.active = f /\ w.shown = v.client.key_id
  BY <1>3
<1>6. \A b \in Vaps : w.active[b] = IF b = a THEN v.active[b] + d ELSE v.active[b]
  BY <1>2, <1>5
<1> QED
  BY <1>4, <1>5, <1>6 DEF w

\* An untracked station with no reports is a consistent view.
LEMMA DropGood ==
  ASSUME NEW v \in GoodViews, NEW a \in Vaps
  PROVE  clients_disconnection(v, a) \in GoodViews
<1> USE VapsPositive
<1>1. v \in Views /\ Consistent(v)
  BY DEF GoodViews
<1>2. CASE v.client.apIndex # a
  BY <1>2 DEF clients_disconnection
<1>3. CASE v.client.apIndex = a
  <2> DEFINE w == clients_disconnection(v, a)
  <2>1. w = [client |-> Untracked,
             active |-> [v.active EXCEPT ![a] = @ - 1],
             shown  |-> v.client.key_id]
    BY <1>1, <1>3 DEF clients_disconnection, clients_update, Views
  <2> HIDE DEF w
  <2>2. w \in Views
    BY <1>1, <2>1 DEF Views, Untracked
  <2>3. ASSUME NEW b \in Vaps
        PROVE  w.active[b] = IF w.client.apIndex = b THEN 1 ELSE 0
    <3>1. w.active[b] = IF b = a THEN v.active[a] - 1 ELSE v.active[b]
      BY <1>1, <2>1 DEF Views
    <3>2. w.client.apIndex = NoVap
      BY <2>1 DEF Untracked
    <3>3. v.active[b] = IF a = b THEN 1 ELSE 0
      BY <1>1, <1>3 DEF Consistent
    <3> QED
      BY <3>1, <3>2, <3>3
  <2>4. w.client.apIndex = NoVap
    BY <2>1 DEF Untracked
  <2>5. w \in GoodViews
    BY <2>2, <2>3, <2>4 DEF GoodViews, Consistent
  <2> QED
    BY <2>5 DEF w
<1> QED
  BY <1>2, <1>3

\* A client that is not tracked is recorded and reported active.
LEMMA AddGood ==
  ASSUME NEW v \in Views, NEW a \in Vaps, NEW k \in KeyIds,
         \A b \in Vaps : v.active[b] = 0
  PROVE  clients_update(Track(v, a, k), a, TRUE) \in GoodViews
<1> USE VapsPositive
<1> DEFINE t == Track(v, a, k)
           w == Reported(t, a, 1)
<1>1. t = [client |-> [apIndex |-> a, key_id |-> k],
           active |-> v.active, shown |-> v.shown]
  BY DEF Track, Views
<1>2. t \in Views /\ 1 \in Int
  BY <1>1 DEF Views
<1> HIDE DEF t
<1>3. /\ w \in Views
      /\ w.client = t.client /\ w.shown = t.client.key_id
      /\ \A b \in Vaps : w.active[b] = IF b = a THEN t.active[b] + 1 ELSE t.active[b]
  BY <1>2, ReportedIs
<1> HIDE DEF w
<1>4. ASSUME NEW b \in Vaps PROVE w.active[b] = IF a = b THEN 1 ELSE 0
  <2>1. t.active[b] = 0
    BY <1>1
  <2>2. w.active[b] = IF b = a THEN t.active[b] + 1 ELSE t.active[b]
    BY <1>3
  <2> QED
    BY <2>1, <2>2
<1>5. w.client.apIndex = a /\ w.shown = w.client.key_id
  BY <1>1, <1>3
<1>6. w \in GoodViews
  BY <1>3, <1>4, <1>5 DEF GoodViews, Consistent
<1>7. clients_update(t, a, TRUE) = w
  BY UpdateReports DEF w
<1> QED
  BY <1>6, <1>7 DEF t

\* Reporting a tracked client inactive leaves no report standing.
LEMMA ClearGood ==
  ASSUME NEW v \in GoodViews, v.client.apIndex \in Vaps
  PROVE  LET w == clients_update(v, v.client.apIndex, FALSE)
         IN  w \in Views /\ \A b \in Vaps : w.active[b] = 0
<1> USE VapsPositive
<1> DEFINE old == v.client.apIndex
           w == Reported(v, old, -1)
<1>1. v \in Views /\ Consistent(v) /\ -1 \in Int
  BY DEF GoodViews
<1>2. /\ w \in Views
      /\ \A b \in Vaps : w.active[b] = IF b = old THEN v.active[b] + (-1)
                                                  ELSE v.active[b]
  BY <1>1, ReportedIs
<1> HIDE DEF w
<1>3. ASSUME NEW b \in Vaps PROVE w.active[b] = 0
  <2>1. v.active[b] = IF old = b THEN 1 ELSE 0
    BY <1>1 DEF Consistent
  <2>2. CASE b = old
    <3>1. v.active[b] = 1 /\ w.active[b] = v.active[b] + (-1)
      BY <1>2, <2>1, <2>2
    <3> QED
      BY <3>1
  <2>3. CASE b # old
    BY <1>2, <2>1, <2>3
  <2> QED
    BY <2>2, <2>3
<1>4. clients_update(v, old, FALSE) = w
  BY UpdateReports DEF w
<1> QED
  BY <1>2, <1>3, <1>4

\* A connection keeps a view consistent, whatever was tracked before.
LEMMA ConnectGood ==
  ASSUME NEW v \in GoodViews, NEW a \in Vaps, NEW k \in KeyIds
  PROVE  clients_connection(v, a, k) \in GoodViews
<1> USE VapsPositive
<1> DEFINE old == v.client.apIndex
<1>1. v \in Views /\ Consistent(v)
  BY DEF GoodViews
<1>2. old \in Vaps \cup {NoVap}
  BY <1>1 DEF Views
<1>3. CASE old = NoVap
  <2>1. \A b \in Vaps : v.active[b] = 0
    BY <1>1, <1>3 DEF Consistent
  <2>2. clients_connection(v, a, k) = clients_update(Track(v, a, k), a, TRUE)
    BY <1>3 DEF clients_connection
  <2> QED
    BY <1>1, <2>1, <2>2, AddGood
<1>4. CASE old \in Vaps /\ (old # a \/ v.client.key_id # k)
  <2> DEFINE w == clients_update(v, old, FALSE)
  <2>1. w \in Views /\ \A b \in Vaps : w.active[b] = 0
    BY <1>4, ClearGood
  <2>2. clients_connection(v, a, k) = clients_update(Track(w, a, k), a, TRUE)
    BY <1>4 DEF clients_connection
  <2> HIDE DEF w
  <2> QED
    BY <2>1, <2>2, AddGood
<1>5. CASE old = a /\ v.client.key_id = k
  BY <1>5 DEF clients_connection
<1> QED
  BY <1>2, <1>3, <1>4, <1>5

\* The key id an entry gets is that of the configuration or a key of a client.
LEMMA KeyOfIsKey ==
  ASSUME RestTypeOK, NEW s \in Stas, NEW a \in Vaps
  PROVE  KeyOf(s, a) \in KeyIds
  BY DEF RestTypeOK, KeyOf

\* Both handlers at once: one visit of the resync pass, for one station.
LEMMA FetchGood ==
  ASSUME CInv, NEW s \in Stas, NEW a \in Vaps
  PROVE  fetch_existing(s, a) \in GoodViews
<1>1. View(s) \in GoodViews /\ KeyOf(s, a) \in KeyIds
  BY KeyOfIsKey DEF CInv, ViewsGood
<1> QED
  BY <1>1, ConnectGood, DropGood DEF fetch_existing

\* A step that replaces the views by consistent ones keeps them consistent.
LEMMA BecomeGood ==
  ASSUME NEW view, \A s \in Stas : view[s] \in GoodViews, Become(view)
  PROVE  IsFunctions' /\ ViewsGood'
<1>1. IsFunctions'
  BY DEF Become, IsFunctions, GoodViews, Views
<1>2. ASSUME NEW s \in Stas PROVE View(s)' \in GoodViews
  <2>1. View(s)' = [client |-> view[s].client, active |-> view[s].active,
                    shown  |-> view[s].shown]
    BY DEF Become, View
  <2>2. view[s] = [client |-> view[s].client, active |-> view[s].active,
                   shown  |-> view[s].shown]
    BY DEF GoodViews, Views
  <2> QED
    BY <2>1, <2>2
<1> QED
  BY <1>1, <1>2 DEF ViewsGood

LEMMA ViewsUnchanged ==
  ASSUME CInv, UNCHANGED <<connected_clients, reportVars>>
  PROVE  IsFunctions' /\ ViewsGood'
<1>1. \A s \in Stas : View(s)' = View(s)
  BY DEF View, reportVars
<1> QED
  BY <1>1 DEF CInv, IsFunctions, ViewsGood, reportVars

-----------------------------------------------------------------------------
\* Nothing is tracked and nothing reported initially.
LEMMA InitCInv == Init => CInv
<1> SUFFICES ASSUME Init PROVE CInv
  OBVIOUS
<1> USE VapsPositive
<1>1. RestTypeOK
  <2>1. <<>> \in Seq(Event)
    OBVIOUS
  <2>2. 1 \in 1 .. NumVaps + 1 /\ 0 \in Nat
    OBVIOUS
  <2>3. /\ assoc \in [Stas -> Vaps \cup {NoVap}]
        /\ keyId \in [Stas -> KeyIds \cup {EmptyKeyId}]
        /\ enabled \in [Vaps -> BOOLEAN]
        /\ cached_key_ids \in [Vaps -> KeyIds]
    BY DEF Init
  <2> QED
    BY <2>1, <2>2, <2>3 DEF Init, RestTypeOK, EventQueue!Init
<1>2. IsFunctions
  BY DEF Init, IsFunctions, Untracked
<1>3. ASSUME NEW s \in Stas PROVE View(s) \in GoodViews
  <2>1. View(s) = [client |-> Untracked, active |-> [a \in Vaps |-> 0],
                   shown |-> InitialKeyId]
    BY DEF Init, View
  <2> QED
    BY <2>1 DEF GoodViews, Views, Consistent, Untracked
<1> QED
  BY <1>1, <1>2, <1>3 DEF CInv, ViewsGood

\* Removing the head of a queue of events, and appending one.
LEMMA QueueSteps ==
  ASSUME RestTypeOK
  PROVE  /\ raised # <<>> => Tail(raised) \in Seq(Event) /\ Head(raised) \in Event
         /\ EventQueue!Deliver => hal_cb_queue' \in Seq(Event)
                                  /\ Head(hal_cb_queue) \in Event
         /\ \A e \in Event : EventQueue!Accept(e) => hal_cb_queue' \in Seq(Event)
<1>1. raised \in Seq(Event) /\ hal_cb_queue \in Seq(Event)
  BY DEF RestTypeOK
<1>2. ASSUME NEW q \in Seq(Event), q # <<>>
      PROVE  Tail(q) \in Seq(Event) /\ Head(q) \in Event
  BY <1>2
<1>3. ASSUME NEW q \in Seq(Event), NEW e \in Event
      PROVE  Append(q, e) \in Seq(Event)
  BY <1>3
<1> QED
  BY <1>1, <1>2, <1>3 DEF EventQueue!Deliver, EventQueue!Accept

\* Raising at most two events of known stations on known VAPs.
LEMMA RaiseSteps ==
  ASSUME RestTypeOK, NEW s \in Stas, NEW a \in Vaps, NEW b \in Vaps,
         \/ Raise(<<Connect(a, s)>>)
         \/ Raise(<<Disconnect(a, s)>>)
         \/ Raise(<<Connect(a, s), Disconnect(b, s)>>)
         \/ Raise(<<Disconnect(b, s), Connect(a, s)>>)
  PROVE  raised' \in Seq(Event)
<1>1. Connect(a, s) \in Event /\ Disconnect(a, s) \in Event /\ Disconnect(b, s) \in Event
  BY DEF Connect, Disconnect, Event
<1> DEFINE c == Connect(a, s)
           d == Disconnect(a, s)
           e == Disconnect(b, s)
<1>2. /\ <<c>> \in Seq(Event) /\ <<d>> \in Seq(Event)
      /\ <<c, e>> \in Seq(Event) /\ <<e, c>> \in Seq(Event)
  <2> HIDE DEF c, d, e
  <2>1. c \in Event /\ d \in Event /\ e \in Event
    BY <1>1 DEF c, d, e
  <2> QED
    BY <2>1
<1>3. raised \in Seq(Event)
  BY DEF RestTypeOK
<1> HIDE DEF c, d, e
<1>4. \E q \in Seq(Event) : raised' = raised \o q
  BY <1>2 DEF Raise, c, d, e
<1> QED
  BY <1>3, <1>4

\* Steps of stations, driver and configuration leave the views alone.
LEMMA HalStepCInv == CInv /\ HalStep => CInv'
<1> SUFFICES ASSUME CInv, HalStep PROVE CInv'
  OBVIOUS
<1> USE VapsPositive DEF RestTypeOK, halVars, codeVars, loopVars, reportVars, Change
<1>0. RestTypeOK
  BY DEF CInv
<1>1. ASSUME NEW s \in Stas, Leave(s) PROVE CInv'
  <2>1. assoc[s] \in Vaps
    BY <1>0, <1>1 DEF Leave
  <2>2. raised' \in Seq(Event)
    BY <1>0, <1>1, <2>1, RaiseSteps DEF Leave
  <2>3. IsFunctions' /\ ViewsGood'
    BY <1>1, ViewsUnchanged DEF Leave
  <2> QED
    BY <1>0, <1>1, <2>2, <2>3 DEF Leave, CInv
<1>2. ASSUME NEW s \in Stas, NEW a \in Vaps, NEW k \in KeyIds \cup {EmptyKeyId},
             Associate(s, a, k)
      PROVE  CInv'
  <2>1. raised' \in Seq(Event)
    BY <1>0, <1>2, RaiseSteps DEF Associate
  <2>2. IsFunctions' /\ ViewsGood'
    BY <1>2, ViewsUnchanged DEF Associate
  <2> QED
    BY <1>0, <1>2, <2>1, <2>2 DEF Associate, CInv
<1>3. ASSUME NEW s \in Stas, NEW a \in Vaps, NEW k \in KeyIds \cup {EmptyKeyId},
             Roam(s, a, k)
      PROVE  CInv'
  <2>1. assoc[s] \in Vaps
    BY <1>0, <1>3 DEF Roam
  <2>2. raised' \in Seq(Event)
    BY <1>0, <1>3, <2>1, RaiseSteps DEF Roam
  <2>3. IsFunctions' /\ ViewsGood'
    BY <1>3, ViewsUnchanged DEF Roam
  <2> QED
    BY <1>0, <1>3, <2>2, <2>3 DEF Roam, CInv
<1>4. ASSUME NEW a \in Vaps, ToggleVap(a) PROVE CInv'
  <2>1. IsFunctions' /\ ViewsGood'
    BY <1>4, ViewsUnchanged DEF ToggleVap
  <2> QED
    BY <1>0, <1>4, <2>1 DEF ToggleVap, CInv
<1>5. ASSUME NEW a \in Vaps, NEW k \in KeyIds, SetKeyId(a, k) PROVE CInv'
  <2>1. IsFunctions' /\ ViewsGood'
    BY <1>5, ViewsUnchanged DEF SetKeyId
  <2> QED
    BY <1>0, <1>5, <2>1 DEF SetKeyId, CInv
<1> QED
  BY <1>1, <1>2, <1>3, <1>4, <1>5 DEF HalStep

\* Steps of the library keep every view consistent.
LEMMA LibraryStepCInv ==
  CInv /\ (HalCallback \/ AsyncStep \/ ResyncBegin \/ ResyncStep) => CInv'
<1> USE VapsPositive DEF RestTypeOK, halVars, codeVars, loopVars, reportVars,
                         HalCallFails
<1>1. ASSUME CInv, HalCallback PROVE CInv'
  <2>1. IsFunctions' /\ ViewsGood'
    BY <1>1, ViewsUnchanged DEF HalCallback
  <2>2. hal_cb_queue' \in Seq(Event) /\ raised' \in Seq(Event)
    BY <1>1, QueueSteps DEF HalCallback, CInv
  <2> QED
    BY <1>1, <2>1, <2>2 DEF HalCallback, CInv
<1>2. ASSUME CInv, AsyncBegin \/ AsyncEnd \/ ResyncBegin \/ ResyncEnd PROVE CInv'
  <2>1. IsFunctions' /\ ViewsGood'
    BY <1>2, ViewsUnchanged DEF AsyncBegin, AsyncEnd, ResyncBegin, ResyncEnd
  <2> QED
    BY <1>2, <2>1 DEF AsyncBegin, AsyncEnd, ResyncBegin, ResyncEnd, CInv
<1>3. ASSUME CInv, AsyncEntrySkipped PROVE CInv'
  <2>1. IsFunctions' /\ ViewsGood'
    BY <1>3, ViewsUnchanged DEF AsyncEntrySkipped
  <2>2. hal_cb_queue' \in Seq(Event)
    BY <1>3, QueueSteps DEF AsyncEntrySkipped, CInv
  <2> QED
    BY <1>3, <2>1, <2>2 DEF AsyncEntrySkipped, CInv
<1>4. ASSUME CInv, AsyncEntry PROVE CInv'
  <2> DEFINE e == Head(hal_cb_queue)
             a == e.apIndex
             v == View(e.mac)
             new == IF ~e.cli_Active
                      THEN clients_disconnection(v, a)
                      ELSE IF KeyLookupOk(e.mac, a)
                             THEN clients_connection(v, a, KeyOf(e.mac, a))
                             ELSE v
             view == [s \in Stas |-> IF s = e.mac THEN new ELSE View(s)]
  <2>1. hal_cb_queue' \in Seq(Event) /\ e \in Event
    BY <1>4, QueueSteps DEF AsyncEntry, CInv
  <2>2. e.mac \in Stas /\ a \in Vaps
    BY <2>1 DEF Event
  <2>3. v \in GoodViews
    BY <1>4, <2>2 DEF CInv, ViewsGood
  <2>4. KeyOf(e.mac, a) \in KeyIds
    BY <1>4, <2>2, KeyOfIsKey DEF CInv
  <2>5. new \in GoodViews
    <3> HIDE DEF a, v, e
    <3>1. clients_disconnection(v, a) \in GoodViews
      BY <2>2, <2>3, DropGood
    <3>2. clients_connection(v, a, KeyOf(e.mac, a)) \in GoodViews
      BY <2>2, <2>3, <2>4, ConnectGood
    <3> QED
      BY <2>3, <3>1, <3>2
  <2>6. Become(view)
    BY <1>4 DEF AsyncEntry
  <2>7. \A s \in Stas : view[s] \in GoodViews
    <3> HIDE DEF new
    <3> QED
      BY <1>4, <2>5 DEF CInv, ViewsGood
  <2>8. IsFunctions' /\ ViewsGood'
    <3> HIDE DEF view
    <3> QED
      BY <2>6, <2>7, BecomeGood
  <2> QED
    BY <1>4, <2>1, <2>8 DEF AsyncEntry, CInv
<1>5. ASSUME CInv, ResyncVap PROVE CInv'
  <2>1. nextVap \in Vaps /\ nextVap' \in 1 .. NumVaps + 1
    BY <1>5 DEF ResyncVap, CInv, Vaps
  <2>2. IsFunctions' /\ ViewsGood'
    <3>1. CASE enabled[nextVap]
      <4> DEFINE view == [s \in Stas |-> fetch_existing(s, nextVap)]
      <4>1. \A s \in Stas : view[s] \in GoodViews
        BY <1>5, <2>1, FetchGood
      <4>2. Become(view)
        BY <1>5, <3>1 DEF ResyncVap
      <4> HIDE DEF view
      <4> QED
        BY <4>1, <4>2, BecomeGood
    <3>2. CASE ~enabled[nextVap]
      BY <1>5, <3>2, ViewsUnchanged DEF ResyncVap
    <3> QED
      BY <3>1, <3>2
  <2> QED
    BY <1>5, <2>1, <2>2 DEF ResyncVap, CInv
<1>6. ASSUME CInv, ResyncVapPartly PROVE CInv'
  <2>1. nextVap \in Vaps /\ nextVap' \in 1 .. NumVaps + 1
    BY <1>6 DEF ResyncVapPartly, CInv, Vaps
  <2>2. PICK failed \in (SUBSET Stas) \ {{}} :
          Become([s \in Stas |->
                    IF s \in failed THEN View(s) ELSE fetch_existing(s, nextVap)])
    BY <1>6 DEF ResyncVapPartly
  <2> DEFINE view == [s \in Stas |->
                    IF s \in failed THEN View(s) ELSE fetch_existing(s, nextVap)]
  <2>3. \A s \in Stas : view[s] \in GoodViews
    BY <1>6, <2>1, FetchGood DEF CInv, ViewsGood
  <2>4. Become(view)
    BY <2>2
  <2>5. IsFunctions' /\ ViewsGood'
    <3> HIDE DEF view
    <3> QED
      BY <2>3, <2>4, BecomeGood
  <2> QED
    BY <1>6, <2>1, <2>5 DEF ResyncVapPartly, CInv
<1> QED
  BY <1>1, <1>2, <1>3, <1>4, <1>5, <1>6 DEF AsyncStep, ResyncStep

LEMMA StutterCInv == CInv /\ UNCHANGED vars => CInv'
<1> SUFFICES ASSUME CInv, UNCHANGED vars PROVE CInv'
  OBVIOUS
<1>1. IsFunctions' /\ ViewsGood'
  BY ViewsUnchanged DEF vars, codeVars, reportVars
<1> QED
  BY <1>1 DEF CInv, RestTypeOK, vars, halVars, codeVars, loopVars

-----------------------------------------------------------------------------
\* The inductive invariant holds in every reachable state.
LEMMA Invariance == Spec => []CInv
<1>1. Init => CInv
  BY InitCInv
<1>2. CInv /\ [Next]_vars => CInv'
  BY HalStepCInv, LibraryStepCInv, StutterCInv DEF Next
<1> QED
  BY <1>1, <1>2, PTL DEF Spec

\* Every variable keeps its type: in particular only key ids of the
\* configuration or of clients, never the empty one, enter the tree.
THEOREM TypeCorrect == Spec => []TypeOK
<1>1. CInv => TypeOK
  BY DEF CInv, RestTypeOK, IsFunctions, TypeOK
<1> QED
  BY <1>1, Invariance, PTL

\* The Wireless Manager was told exactly what the tree holds: "active" and
\* "inactive" alternate per client and VAP, for every order of events, drops,
\* failures and resync passes.
THEOREM ReportsCorrect == Spec => []ReportsMatchTree
<1>1. CInv => ReportsMatchTree
  BY DEF CInv, ViewsGood, GoodViews, Consistent, View, ReportsMatchTree
<1> QED
  BY <1>1, Invariance, PTL
-----------------------------------------------------------------------------
(***************************************************************************)
(* A station is tracked where it is once its events are handled.  p stands *)
(* for the events that are under way, the queue's and then the raised      *)
(* ones, x for the VAP a station is tracked on, a for the one it is        *)
(* associated with.                                                        *)
(***************************************************************************)

\* After the i-th event the station s leaves the VAP a.
Departs(p, s, a, i) == \E j \in i + 1 .. Len(p) : p[j] = Disconnect(a, s)

\* After the i-th event nothing moves s away from a.
Settled(p, s, a, i) ==
    \A j \in i + 1 .. Len(p) : p[j].mac = s => ~p[j].cli_Active /\ p[j].apIndex # a

\* Wherever s connects it also leaves, and so it does from where it is tracked,
\* unless it is there; and it will arrive where it is, to stay.
Sound(p, s, x, a) ==
    /\ \A i \in 1 .. Len(p), b \in Vaps \ {a} : p[i] = Connect(b, s) => Departs(p, s, b, i)
    /\ x \notin {NoVap, a} => Departs(p, s, x, 0)
    /\ a # NoVap => \/ \E i \in 1 .. Len(p) : p[i] = Connect(a, s) /\ Settled(p, s, a, i)
                    \/ x = a /\ Settled(p, s, a, 0)

AccurateInv ==
    ~missed => \A s \in Stas : Sound(hal_cb_queue \o raised, s,
                                     connected_clients[s].apIndex, assoc[s])

\* Events are told apart by what they say.
LEMMA Events ==
  ASSUME NEW s \in Stas, NEW a \in Vaps
  PROVE  /\ Connect(a, s) \in Event /\ Disconnect(a, s) \in Event
         /\ Connect(a, s).mac = s /\ Connect(a, s).apIndex = a /\ Connect(a, s).cli_Active
         /\ Disconnect(a, s).mac = s /\ Disconnect(a, s).apIndex = a
         /\ ~Disconnect(a, s).cli_Active
         /\ \A e \in Event : e.mac = s /\ e.apIndex = a =>
              /\ e.cli_Active => e = Connect(a, s)
              /\ ~e.cli_Active => e = Disconnect(a, s)
  BY DEF Event, Connect, Disconnect

\* An event of a sequence, and the sequence without its first or with more.
LEMMA EventSeqs ==
  ASSUME NEW p \in Seq(Event)
  PROVE  /\ Len(p) \in Nat /\ \A i \in 1 .. Len(p) : p[i] \in Event
         /\ p # <<>> => /\ Tail(p) \in Seq(Event) /\ Len(Tail(p)) = Len(p) - 1
                        /\ \A i \in 1 .. Len(p) - 1 : Tail(p)[i] = p[i + 1]
                        /\ Head(p) = p[1] /\ Len(p) >= 1
         /\ \A q \in Seq(Event) :
              /\ p \o q \in Seq(Event) /\ Len(p \o q) = Len(p) + Len(q)
              /\ \A i \in 1 .. Len(p) : (p \o q)[i] = p[i]
              /\ \A i \in 1 .. Len(q) : (p \o q)[Len(p) + i] = q[i]
<1>1. Len(p) \in Nat /\ \A i \in 1 .. Len(p) : p[i] \in Event
  OBVIOUS
<1>2. p # <<>> => /\ Tail(p) \in Seq(Event) /\ Len(Tail(p)) = Len(p) - 1
                  /\ \A i \in 1 .. Len(p) - 1 : Tail(p)[i] = p[i + 1]
                  /\ Head(p) = p[1] /\ Len(p) >= 1
  BY HeadTailProperties, EmptySeq
<1>3. ASSUME NEW q \in Seq(Event)
      PROVE  /\ p \o q \in Seq(Event) /\ Len(p \o q) = Len(p) + Len(q)
             /\ \A i \in 1 .. Len(p) : (p \o q)[i] = p[i]
             /\ \A i \in 1 .. Len(q) : (p \o q)[Len(p) + i] = q[i]
  <2>1. Len(q) \in Nat
    OBVIOUS
  <2>2. /\ p \o q \in Seq(Event) /\ Len(p \o q) = Len(p) + Len(q)
        /\ \A i \in 1 .. Len(p) + Len(q) :
             (p \o q)[i] = IF i <= Len(p) THEN p[i] ELSE q[i - Len(p)]
    BY ConcatProperties
  <2> DEFINE r == p \o q
  <2> HIDE DEF r
  <2>3. \A i \in 1 .. Len(q) : r[Len(p) + i] = q[i]
    <3> TAKE i \in 1 .. Len(q)
    <3>1. Len(p) + i \in 1 .. Len(p) + Len(q) /\ ~(Len(p) + i <= Len(p))
          /\ (Len(p) + i) - Len(p) = i
      BY <1>1, <2>1
    <3> QED
      BY <2>2, <3>1 DEF r
  <2>4. \A i \in 1 .. Len(p) : r[i] = p[i]
    BY <1>1, <2>1, <2>2 DEF r
  <2> QED
    BY <2>2, <2>3, <2>4 DEF r
<1> QED
  BY <1>1, <1>2, <1>3

\* s moves from a to b, or leaves a: it raises q.
LEMMA MoveSound ==
  ASSUME NEW s \in Stas, NEW p \in Seq(Event), NEW q \in Seq(Event),
         NEW x \in Vaps \cup {NoVap}, NEW a \in Vaps \cup {NoVap},
         NEW b \in Vaps \cup {NoVap},
         Sound(p, s, x, a),
         a # NoVap => \E j \in 1 .. Len(q) : q[j] = Disconnect(a, s),
         b # NoVap => \E i \in 1 .. Len(q) : q[i] = Connect(b, s) /\ Settled(q, s, b, i),
         \A i \in 1 .. Len(q) : q[i].cli_Active => q[i].apIndex = b
  PROVE  Sound(p \o q, s, x, b)
<1> USE VapsPositive
<1> DEFINE r == p \o q
           n == Len(p)
<1>1. /\ n \in Nat /\ Len(q) \in Nat /\ Len(r) = n + Len(q)
      /\ \A i \in 1 .. n : r[i] = p[i]
      /\ \A i \in 1 .. Len(q) : r[n + i] = q[i] /\ n + i \in 1 .. Len(r)
  BY EventSeqs
<1> HIDE DEF r, n
<1>2. \A i \in n + 1 .. Len(r) : i - n \in 1 .. Len(q) /\ n + (i - n) = i
  BY <1>1
<1>3. \A i \in 0 .. n : a # NoVap => Departs(r, s, a, i)
  BY <1>1 DEF Departs
<1>4. \A i \in 0 .. n, c \in Vaps : Departs(p, s, c, i) => Departs(r, s, c, i)
  BY <1>1 DEF Departs, n
<1>5. ASSUME NEW i \in 1 .. Len(r), NEW c \in Vaps \ {b}, r[i] = Connect(c, s)
      PROVE  Departs(r, s, c, i)
  <2>1. CASE i <= n
    <3>1. i \in 1 .. n /\ i \in 0 .. n /\ p[i] = Connect(c, s)
      BY <1>1, <1>5, <2>1
    <3>2. c # a => Departs(p, s, c, i)
      BY <3>1 DEF Sound, n
    <3> QED
      BY <1>3, <1>4, <3>1, <3>2
  <2>2. CASE ~(i <= n)
    <3>1. i - n \in 1 .. Len(q) /\ q[i - n] = Connect(c, s)
      BY <1>1, <1>2, <1>5, <2>2
    <3>2. q[i - n].cli_Active /\ q[i - n].apIndex = c
      BY <3>1, Events
    <3> QED
      BY <3>1, <3>2
  <2> QED
    BY <2>1, <2>2
<1>6. x \notin {NoVap, b} => Departs(r, s, x, 0)
  <2>1. x \notin {NoVap, a} => Departs(p, s, x, 0)
    BY DEF Sound
  <2> QED
    BY <1>1, <1>3, <1>4, <2>1
<1>7. ASSUME b # NoVap PROVE \E i \in 1 .. Len(r) : r[i] = Connect(b, s) /\ Settled(r, s, b, i)
  <2>1. PICK i \in 1 .. Len(q) : q[i] = Connect(b, s) /\ Settled(q, s, b, i)
    BY <1>7
  <2>2. ASSUME NEW j \in n + i + 1 .. Len(r), r[j].mac = s
        PROVE  ~r[j].cli_Active /\ r[j].apIndex # b
    <3>1. j - n \in i + 1 .. Len(q) /\ j - n \in 1 .. Len(q) /\ n + (j - n) = j
      BY <1>1
    <3>2. r[j] = q[j - n]
      BY <1>1, <3>1
    <3> QED
      BY <2>1, <2>2, <3>1, <3>2 DEF Settled
  <2>3. n + i \in 1 .. Len(r) /\ r[n + i] = Connect(b, s)
    BY <1>1, <2>1
  <2> QED
    BY <2>2, <2>3 DEF Settled
<1> QED
  BY <1>5, <1>6, <1>7 DEF Sound, r

\* Other stations raise q.
LEMMA OthersSound ==
  ASSUME NEW s \in Stas, NEW p \in Seq(Event), NEW q \in Seq(Event),
         NEW x \in Vaps \cup {NoVap}, NEW a \in Vaps \cup {NoVap},
         Sound(p, s, x, a), \A i \in 1 .. Len(q) : q[i].mac # s
  PROVE  Sound(p \o q, s, x, a)
<1> USE VapsPositive
<1> DEFINE r == p \o q
           n == Len(p)
<1>1. /\ n \in Nat /\ Len(q) \in Nat /\ Len(r) = n + Len(q)
      /\ \A i \in 1 .. n : r[i] = p[i]
      /\ \A i \in 1 .. Len(q) : r[n + i] = q[i]
  BY EventSeqs
<1> HIDE DEF r, n
<1>2. ASSUME NEW i \in n + 1 .. Len(r) PROVE r[i].mac # s
  <2>1. i - n \in 1 .. Len(q) /\ n + (i - n) = i
    BY <1>1
  <2> QED
    BY <1>1, <2>1
<1>3. \A i \in 1 .. Len(r) : r[i].mac = s => i \in 1 .. n /\ r[i] = p[i]
  BY <1>1, <1>2
<1>4. \A i \in 0 .. n, c \in Vaps : Departs(p, s, c, i) => Departs(r, s, c, i)
  BY <1>1 DEF Departs, n
<1>5. \A i \in 0 .. n : Settled(p, s, a, i) => Settled(r, s, a, i)
  BY <1>1, <1>3 DEF Settled, n
<1>6. ASSUME NEW i \in 1 .. Len(r), NEW c \in Vaps \ {a}, r[i] = Connect(c, s)
      PROVE  Departs(r, s, c, i)
  <2>1. i \in 1 .. n /\ i \in 0 .. n /\ p[i] = Connect(c, s)
    BY <1>1, <1>3, <1>6, Events
  <2> QED
    BY <1>4, <2>1 DEF Sound, n
<1>7. x \notin {NoVap, a} => Departs(r, s, x, 0)
  <2>1. 0 \in 0 .. n
    BY <1>1
  <2> QED
    BY <1>4, <2>1 DEF Sound
<1>8. a # NoVap => \/ \E i \in 1 .. Len(r) : r[i] = Connect(a, s) /\ Settled(r, s, a, i)
                   \/ x = a /\ Settled(r, s, a, 0)
  <2>1. \A i \in 1 .. n : i \in 1 .. Len(r) /\ i \in 0 .. n
    BY <1>1
  <2>2. 0 \in 0 .. n
    BY <1>1
  <2> QED
    BY <1>1, <1>5, <2>1, <2>2 DEF Sound, n
<1> QED
  BY <1>6, <1>7, <1>8 DEF Sound, r

\* The first event is handled: y is where s is tracked afterwards.
LEMMA HandledSound ==
  ASSUME NEW s \in Stas, NEW p \in Seq(Event), p # <<>>,
         NEW x \in Vaps \cup {NoVap}, NEW a \in Vaps \cup {NoVap}, Sound(p, s, x, a),
         NEW y \in Vaps \cup {NoVap},
         Head(p).mac # s => y = x,
         Head(p).mac = s /\ ~Head(p).cli_Active
           => y = IF x = Head(p).apIndex THEN NoVap ELSE x,
         Head(p).mac = s /\ Head(p).cli_Active
           => y = Head(p).apIndex \/ (y = x /\ Head(p).apIndex # a)
  PROVE  Sound(Tail(p), s, y, a)
<1> USE VapsPositive
<1> DEFINE t == Tail(p)
           n == Len(p)
           e == Head(p)
           c == e.apIndex
<1>1. /\ n \in Nat /\ n >= 1 /\ Len(t) = n - 1 /\ e = p[1] /\ e \in Event
      /\ \A i \in 1 .. n - 1 : t[i] = p[i + 1]
  BY EventSeqs
<1>2. c \in Vaps
  BY <1>1 DEF Event
<1> HIDE DEF t, n, e, c
<1>3. n \in Nat /\ n >= 1 /\ Len(t) = n - 1
  BY <1>1
<1>4. \A i \in 1 .. n, b \in Vaps : Departs(p, s, b, i) => Departs(t, s, b, i - 1)
  <2> TAKE i \in 1 .. n, b \in Vaps
  <2> HAVE Departs(p, s, b, i)
  <2>1. PICK j \in i + 1 .. n : p[j] = Disconnect(b, s)
    BY DEF Departs, n
  <2>2. j - 1 \in (i - 1) + 1 .. Len(t) /\ j - 1 \in 1 .. n - 1 /\ (j - 1) + 1 = j
    BY <1>3
  <2> QED
    BY <1>1, <2>1, <2>2 DEF Departs
<1>5. \A i \in 0 .. n : Settled(p, s, a, i) => Settled(t, s, a, IF i = 0 THEN 0 ELSE i - 1)
  <2> TAKE i \in 0 .. n
  <2> HAVE Settled(p, s, a, i)
  <2> DEFINE k == IF i = 0 THEN 0 ELSE i - 1
  <2>1. ASSUME NEW j \in k + 1 .. Len(t), t[j].mac = s PROVE ~t[j].cli_Active /\ t[j].apIndex # a
    <3>1. j + 1 \in i + 1 .. n /\ j \in 1 .. n - 1
      <4>1. k \in Nat /\ i \in Int /\ i <= k + 1
        BY <1>3
      <4>2. j \in k + 1 .. n - 1
        BY <1>3
      <4> HIDE DEF k
      <4> QED
        BY <1>3, <4>1, <4>2
    <3>2. t[j] = p[j + 1]
      BY <1>1, <3>1
    <3> QED
      BY <2>1, <3>1, <3>2 DEF Settled, n
  <2> QED
    BY <2>1 DEF Settled
<1>6. ASSUME NEW i \in 1 .. Len(t), NEW b \in Vaps \ {a}, t[i] = Connect(b, s)
      PROVE  Departs(t, s, b, i)
  <2>1. i + 1 \in 1 .. n /\ p[i + 1] = Connect(b, s) /\ (i + 1) - 1 = i
    BY <1>1, <1>6
  <2> QED
    BY <1>4, <2>1 DEF Sound, n
<1>7. ASSUME y \notin {NoVap, a} PROVE Departs(t, s, y, 0)
  <2>1. CASE y = x /\ ~(e.mac = s /\ ~e.cli_Active /\ x = c)
    <3>1. PICK j \in 0 + 1 .. n : p[j] = Disconnect(x, s)
      BY <1>7, <2>1 DEF Sound, Departs, n
    <3>2. j # 1
      <4>1. x \in Vaps
        BY <1>7, <2>1
      <4>2. p[1] = Disconnect(x, s) => e.mac = s /\ ~e.cli_Active /\ e.apIndex = x
        BY <1>1, <4>1, Events
      <4> QED
        BY <2>1, <3>1, <4>2 DEF c
    <3>3. 1 \in 1 .. n /\ Departs(p, s, x, 1)
      BY <1>1, <3>1, <3>2 DEF Departs, n
    <3>4. Departs(t, s, x, 1 - 1)
      BY <1>4, <1>7, <2>1, <3>3
    <3> QED
      BY <2>1, <3>4
  <2>2. CASE e.mac = s /\ e.cli_Active /\ y = c
    <3>1. p[1] = Connect(c, s)
      <4>1. e \in Event /\ e.mac = s /\ e.apIndex = c /\ e.cli_Active
        BY <1>1, <2>2 DEF c
      <4>2. e = Connect(c, s)
        BY <1>2, <4>1, Events
      <4> QED
        BY <1>1, <4>2
    <3>2. 1 \in 1 .. n /\ Departs(p, s, c, 1)
      BY <1>1, <1>2, <1>7, <2>2, <3>1 DEF Sound, n
    <3>3. Departs(t, s, c, 1 - 1)
      BY <1>2, <1>4, <3>2
    <3> QED
      BY <2>2, <3>3
  <2>3. \/ y = x /\ ~(e.mac = s /\ ~e.cli_Active /\ x = c)
        \/ e.mac = s /\ e.cli_Active /\ y = c
    BY <1>7 DEF e, c
  <2> QED
    BY <2>1, <2>2, <2>3
<1>8. ASSUME a # NoVap
      PROVE  \/ \E i \in 1 .. Len(t) : t[i] = Connect(a, s) /\ Settled(t, s, a, i)
             \/ y = a /\ Settled(t, s, a, 0)
  <2>1. CASE \E i \in 1 .. n : p[i] = Connect(a, s) /\ Settled(p, s, a, i)
    <3>1. PICK i \in 1 .. n : p[i] = Connect(a, s) /\ Settled(p, s, a, i)
      BY <2>1
    <3>2. Settled(t, s, a, i - 1)
      BY <1>1, <1>5, <3>1
    <3>3. CASE i = 1
      <4>1. e = Connect(a, s) /\ e.mac = s /\ e.cli_Active /\ c = a
        BY <1>1, <1>8, <3>1, <3>3, Events DEF c
      <4>2. y = a
        BY <4>1 DEF e, c
      <4> QED
        BY <3>2, <3>3, <4>2
    <3>4. CASE i # 1
      <4>1. i - 1 \in 1 .. Len(t) /\ i - 1 \in 1 .. n - 1 /\ (i - 1) + 1 = i
        BY <1>1, <3>4
      <4>2. t[i - 1] = Connect(a, s)
        BY <1>1, <3>1, <4>1
      <4> QED
        BY <3>2, <4>1, <4>2
    <3> QED
      BY <3>3, <3>4
  <2>2. CASE x = a /\ Settled(p, s, a, 0)
    <3>1. Settled(t, s, a, 0)
      BY <1>1, <1>5, <2>2
    <3>2. e.mac = s => ~e.cli_Active /\ c # a
      <4>1. 1 \in 0 + 1 .. Len(p)
        BY <1>1 DEF n
      <4> QED
        BY <1>1, <2>2, <4>1 DEF Settled, c
    <3>3. y = a
      BY <2>2, <3>2 DEF e, c
    <3> QED
      BY <3>1, <3>3
  <2> QED
    BY <1>8, <2>1, <2>2 DEF Sound, n
<1> QED
  BY <1>6, <1>7, <1>8 DEF Sound, t

\* The resync pass looks at the VAP c.
LEMMA FetchedSound ==
  ASSUME NEW s \in Stas, NEW p, NEW x, NEW a, NEW c \in Vaps, Sound(p, s, x, a)
  PROVE  Sound(p, s, IF a = c THEN c ELSE IF x = c THEN NoVap ELSE x, a)
<1>1. CASE x # c \/ a = c
  BY <1>1 DEF Sound
<1>2. CASE x = c /\ a # c
  BY <1>2 DEF Sound
<1> QED
  BY <1>1, <1>2

\* Where the handlers leave a station.
LEMMA Tracking ==
  ASSUME NEW v \in GoodViews, NEW a \in Vaps, NEW k \in KeyIds
  PROVE  /\ clients_connection(v, a, k).client.apIndex = a
         /\ clients_disconnection(v, a).client.apIndex
              = IF v.client.apIndex = a THEN NoVap ELSE v.client.apIndex
<1> USE VapsPositive
<1>1. v \in Views /\ v.client.apIndex \in Vaps \cup {NoVap}
  BY DEF GoodViews, Views
<1>2. ASSUME NEW w \in Views
      PROVE  clients_update(Track(w, a, k), a, TRUE).client.apIndex = a
  <2>1. Track(w, a, k) \in Views /\ Track(w, a, k).client = [apIndex |-> a, key_id |-> k]
    BY DEF Views, Track
  <2>2. Reported(Track(w, a, k), a, 1).client = Track(w, a, k).client
    BY <2>1, ReportedIs
  <2>3. clients_update(Track(w, a, k), a, TRUE) = Reported(Track(w, a, k), a, 1)
    BY UpdateReports
  <2>4. clients_update(Track(w, a, k), a, TRUE).client = [apIndex |-> a, key_id |-> k]
    BY <2>1, <2>2, <2>3
  <2> DEFINE u == clients_update(Track(w, a, k), a, TRUE)
  <2>5. u.client = [apIndex |-> a, key_id |-> k]
    BY <2>4
  <2> HIDE DEF u
  <2>6. u.client.apIndex = a
    BY <2>5
  <2> QED
    BY <2>6 DEF u
<1>3. clients_connection(v, a, k).client.apIndex = a
  <2>1. CASE v.client.apIndex = NoVap
    BY <1>1, <1>2, <2>1 DEF clients_connection
  <2>2. CASE v.client.apIndex \in Vaps /\ (v.client.apIndex # a \/ v.client.key_id # k)
    <3> DEFINE w == clients_update(v, v.client.apIndex, FALSE)
    <3>1. w \in Views
      BY <2>2, ClearGood
    <3>2. clients_connection(v, a, k) = clients_update(Track(w, a, k), a, TRUE)
      BY <2>2 DEF clients_connection
    <3> HIDE DEF w
    <3> QED
      BY <1>2, <3>1, <3>2
  <2>3. CASE v.client.apIndex = a /\ v.client.key_id = k
    BY <2>3 DEF clients_connection
  <2> QED
    BY <1>1, <2>1, <2>2, <2>3
<1>4. clients_disconnection(v, a).client.apIndex
        = IF v.client.apIndex = a THEN NoVap ELSE v.client.apIndex
  <2>1. CASE v.client.apIndex # a
    BY <2>1 DEF clients_disconnection
  <2>2. CASE v.client.apIndex = a
    <3>1. clients_disconnection(v, a).client = Untracked
      BY <1>1, <2>2 DEF clients_disconnection, clients_update, Views
    <3> QED
      BY <2>2, <3>1 DEF Untracked
  <2> QED
    BY <2>1, <2>2
<1> QED
  BY <1>3, <1>4

\* What is under way, and what of it a step keeps.
LEMMA UnderWay ==
  ASSUME CInv
  PROVE  /\ raised \in Seq(Event) /\ hal_cb_queue \in Seq(Event)
         /\ hal_cb_queue \o raised \in Seq(Event)
         /\ assoc \in [Stas -> Vaps \cup {NoVap}]
         /\ \A s \in Stas : connected_clients[s].apIndex \in Vaps \cup {NoVap}
         /\ \A s \in Stas : View(s) \in GoodViews
         /\ \A s \in Stas : View(s).client = connected_clients[s]
<1>1. raised \in Seq(Event) /\ hal_cb_queue \in Seq(Event)
  BY DEF CInv, RestTypeOK
<1>2. hal_cb_queue \o raised \in Seq(Event)
  BY <1>1, EventSeqs
<1> QED
  BY <1>1, <1>2 DEF CInv, RestTypeOK, IsFunctions, ViewsGood, View

\* A station moves from where it is to b, or leaves.
LEMMA StationMoves ==
  ASSUME CInv, AccurateInv, NEW s \in Stas, NEW b \in Vaps \cup {NoVap}, NEW q \in Seq(Event),
         raised' = raised \o q, assoc' = [assoc EXCEPT ![s] = b],
         UNCHANGED <<hal_cb_queue, connected_clients, missed>>,
         assoc[s] # NoVap => \E j \in 1 .. Len(q) : q[j] = Disconnect(assoc[s], s),
         b # NoVap => \E i \in 1 .. Len(q) : q[i] = Connect(b, s) /\ Settled(q, s, b, i),
         \A i \in 1 .. Len(q) : q[i].mac = s /\ (q[i].cli_Active => q[i].apIndex = b)
  PROVE  AccurateInv'
<1> SUFFICES ASSUME ~missed, NEW t \in Stas
             PROVE  Sound(hal_cb_queue' \o raised', t, connected_clients'[t].apIndex, assoc'[t])
  BY DEF AccurateInv
<1> DEFINE p == hal_cb_queue \o raised
           x == connected_clients[t].apIndex
<1>1. /\ raised \in Seq(Event) /\ hal_cb_queue \in Seq(Event) /\ p \in Seq(Event)
      /\ assoc \in [Stas -> Vaps \cup {NoVap}] /\ x \in Vaps \cup {NoVap}
  BY UnderWay
<1>2. hal_cb_queue' \o raised' = p \o q /\ connected_clients'[t].apIndex = x
  BY <1>1, ConcatAssociative
<1>3. Sound(p, t, x, assoc[t])
  BY DEF AccurateInv
<1> HIDE DEF p, x
<1>4. CASE t = s
  <2>1. assoc'[t] = b /\ assoc[s] \in Vaps \cup {NoVap}
    BY <1>1, <1>4
  <2>2. Sound(p \o q, s, x, b)
    BY <1>1, <1>3, <1>4, <2>1, MoveSound
  <2> QED
    BY <1>2, <1>4, <2>1, <2>2
<1>5. CASE t # s
  <2>1. assoc'[t] = assoc[t] /\ assoc[t] \in Vaps \cup {NoVap}
    BY <1>1, <1>5
  <2>2. Sound(p \o q, t, x, assoc[t])
    BY <1>1, <1>3, <1>5, <2>1, OthersSound
  <2> QED
    BY <1>2, <2>1, <2>2
<1> QED
  BY <1>4, <1>5

\* The events that a step of a station raises.
LEMMA Raised ==
  ASSUME NEW s \in Stas, NEW a \in Vaps
  PROVE  /\ LET q == <<Connect(a, s)>>
            IN  /\ q \in Seq(Event) /\ Len(q) = 1 /\ q[1] = Connect(a, s)
                /\ Settled(q, s, a, 1)
         /\ LET q == <<Disconnect(a, s)>>
            IN  q \in Seq(Event) /\ Len(q) = 1 /\ q[1] = Disconnect(a, s)
         /\ \A b \in Vaps : b # a =>
              /\ LET q == <<Connect(a, s), Disconnect(b, s)>>
                 IN  /\ q \in Seq(Event) /\ Len(q) = 2
                     /\ q[1] = Connect(a, s) /\ q[2] = Disconnect(b, s) /\ Settled(q, s, a, 1)
              /\ LET q == <<Disconnect(b, s), Connect(a, s)>>
                 IN  /\ q \in Seq(Event) /\ Len(q) = 2
                     /\ q[1] = Disconnect(b, s) /\ q[2] = Connect(a, s) /\ Settled(q, s, a, 2)
<1>1. Connect(a, s) \in Event /\ Disconnect(a, s) \in Event
  BY Events
<1>2. ASSUME NEW c \in Event
      PROVE  LET q == <<c>>
             IN  q \in Seq(Event) /\ Len(q) = 1 /\ q[1] = c /\ Settled(q, s, a, 1)
  BY <1>2 DEF Settled
<1>3. ASSUME NEW c \in Event, NEW d \in Event
      PROVE  LET q == <<c, d>>
             IN  /\ q \in Seq(Event) /\ Len(q) = 2 /\ q[1] = c /\ q[2] = d
                 /\ Settled(q, s, a, 2)
                 /\ ~d.cli_Active /\ d.apIndex # a => Settled(q, s, a, 1)
  BY <1>3 DEF Settled
<1>4. ASSUME NEW b \in Vaps, b # a
      PROVE  /\ Disconnect(b, s) \in Event /\ ~Disconnect(b, s).cli_Active
             /\ Disconnect(b, s).apIndex # a
  BY <1>4, Events
<1> QED
  BY <1>1, <1>2, <1>3, <1>4

LEMMA StationsAccurate == CInv /\ AccurateInv /\ HalStep => AccurateInv'
<1> SUFFICES ASSUME CInv, AccurateInv, HalStep PROVE AccurateInv'
  OBVIOUS
<1> USE VapsPositive DEF halVars, codeVars
<1>1. assoc \in [Stas -> Vaps \cup {NoVap}]
  BY UnderWay
<1>2. ASSUME NEW s \in Stas, Leave(s) PROVE AccurateInv'
  <2> DEFINE q == <<Disconnect(assoc[s], s)>>
  <2>1. assoc[s] \in Vaps
    BY <1>1, <1>2 DEF Leave
  <2>2. /\ raised' = raised \o q /\ assoc' = [assoc EXCEPT ![s] = NoVap]
        /\ UNCHANGED <<hal_cb_queue, connected_clients, missed>>
    BY <1>2 DEF Leave, Raise
  <2>3. /\ q \in Seq(Event) /\ Len(q) = 1 /\ q[1] = Disconnect(assoc[s], s)
        /\ q[1].mac = s /\ ~q[1].cli_Active
    BY <2>1, Raised, Events
  <2> HIDE DEF q
  <2>4. \A i \in 1 .. Len(q) : i = 1
    BY <2>3
  <2>5. 1 \in 1 .. Len(q)
    BY <2>3
  <2> QED
    BY <2>2, <2>3, <2>4, <2>5, StationMoves
<1>3. ASSUME NEW s \in Stas, NEW a \in Vaps, NEW k \in KeyIds \cup {EmptyKeyId},
             Associate(s, a, k)
      PROVE  AccurateInv'
  <2> DEFINE q == <<Connect(a, s)>>
  <2>1. /\ raised' = raised \o q /\ assoc' = [assoc EXCEPT ![s] = a] /\ assoc[s] = NoVap
        /\ UNCHANGED <<hal_cb_queue, connected_clients, missed>>
    BY <1>3 DEF Associate, Raise
  <2>2. /\ q \in Seq(Event) /\ Len(q) = 1 /\ q[1] = Connect(a, s) /\ Settled(q, s, a, 1)
        /\ q[1].mac = s /\ q[1].apIndex = a
    BY Raised, Events
  <2> HIDE DEF q
  <2>3. 1 \in 1 .. Len(q) /\ \A i \in 1 .. Len(q) : i = 1
    BY <2>2
  <2> QED
    BY <2>1, <2>2, <2>3, StationMoves
<1>4. ASSUME NEW s \in Stas, NEW a \in Vaps, NEW k \in KeyIds \cup {EmptyKeyId}, Roam(s, a, k)
      PROVE  AccurateInv'
  <2>1. assoc[s] \in Vaps /\ assoc[s] # a
    BY <1>1, <1>4 DEF Roam
  <2>2. /\ assoc' = [assoc EXCEPT ![s] = a]
        /\ UNCHANGED <<hal_cb_queue, connected_clients, missed>>
    BY <1>4 DEF Roam
  <2> DEFINE c == Connect(a, s)
             d == Disconnect(assoc[s], s)
  <2>3. /\ c.mac = s /\ c.apIndex = a /\ c.cli_Active
        /\ d.mac = s /\ ~d.cli_Active
    BY <2>1, Events
  <2>4. PICK q \in {<<c, d>>, <<d, c>>} : raised' = raised \o q
    BY <1>4 DEF Roam, Raise
  <2>5. /\ q \in Seq(Event) /\ Len(q) = 2
        /\ \/ q[1] = c /\ q[2] = d /\ Settled(q, s, a, 1)
           \/ q[1] = d /\ q[2] = c /\ Settled(q, s, a, 2)
    <3>1. CASE q = <<c, d>>
      BY <2>1, <3>1, Raised
    <3>2. CASE q = <<d, c>>
      BY <2>1, <3>2, Raised
    <3> QED
      BY <2>4, <3>1, <3>2
  <2> HIDE DEF c, d
  <2>6. 1 \in 1 .. Len(q) /\ 2 \in 1 .. Len(q) /\ \A i \in 1 .. Len(q) : i = 1 \/ i = 2
    BY <2>5
  <2>7. \E j \in 1 .. Len(q) : q[j] = Disconnect(assoc[s], s)
    BY <2>5, <2>6 DEF d
  <2>8. \E i \in 1 .. Len(q) : q[i] = Connect(a, s) /\ Settled(q, s, a, i)
    BY <2>5, <2>6 DEF c
  <2>9. \A i \in 1 .. Len(q) : q[i].mac = s /\ (q[i].cli_Active => q[i].apIndex = a)
    BY <2>3, <2>5, <2>6
  <2> QED
    BY <2>2, <2>4, <2>5, <2>7, <2>8, <2>9, StationMoves
<1>5. ASSUME \E a \in Vaps : ToggleVap(a) \/ \E k \in KeyIds : SetKeyId(a, k)
      PROVE  AccurateInv'
  BY <1>5 DEF ToggleVap, SetKeyId, AccurateInv
<1> QED
  BY <1>2, <1>3, <1>4, <1>5 DEF HalStep

\* Some stations are looked at by the resync pass, the others stay as they are.
LEMMA FetchAccurate ==
  ASSUME CInv, AccurateInv, NEW c \in Vaps, NEW failed \in SUBSET Stas,
         Become([s \in Stas |-> IF s \in failed THEN View(s) ELSE fetch_existing(s, c)]),
         UNCHANGED <<assoc, raised, hal_cb_queue, missed>>
  PROVE  AccurateInv'
<1> SUFFICES ASSUME ~missed, NEW s \in Stas
             PROVE  Sound(hal_cb_queue \o raised, s, connected_clients'[s].apIndex, assoc[s])
  BY DEF AccurateInv
<1> DEFINE x == connected_clients[s].apIndex
           p == hal_cb_queue \o raised
<1>1. Sound(p, s, x, assoc[s])
  BY DEF AccurateInv
<1>2. connected_clients'[s] = IF s \in failed THEN View(s).client ELSE fetch_existing(s, c).client
  BY DEF Become
<1>3. View(s) \in GoodViews /\ View(s).client.apIndex = x
  BY UnderWay
<1>4. KeyOf(s, c) \in KeyIds
  BY KeyOfIsKey DEF CInv
<1>5. fetch_existing(s, c).client.apIndex
        = IF assoc[s] = c THEN c ELSE IF x = c THEN NoVap ELSE x
  BY <1>3, <1>4, Tracking DEF fetch_existing
<1>6. Sound(p, s, IF assoc[s] = c THEN c ELSE IF x = c THEN NoVap ELSE x, assoc[s])
  BY <1>1, FetchedSound
<1> HIDE DEF p, x
<1> QED
  BY <1>1, <1>2, <1>3, <1>5, <1>6 DEF p

LEMMA LibraryAccurate ==
  CInv /\ AccurateInv /\ (HalCallback \/ AsyncStep \/ ResyncBegin \/ ResyncStep)
    => AccurateInv'
<1> USE DEF halVars, codeVars, loopVars, reportVars
<1>1. ASSUME CInv, AccurateInv, HalCallback PROVE AccurateInv'
  <2>1. CASE missed'
    BY <2>1 DEF AccurateInv
  <2>2. CASE ~missed'
    <3>1. /\ hal_cb_queue' = Append(hal_cb_queue, Head(raised)) /\ raised' = Tail(raised)
          /\ raised # <<>> /\ UNCHANGED <<missed, assoc, connected_clients>>
      BY <1>1, <2>2 DEF HalCallback, EventQueue!Accept
    <3>2. raised \in Seq(Event) /\ hal_cb_queue \in Seq(Event)
      BY <1>1, UnderWay
    <3>3. hal_cb_queue' \o raised' = hal_cb_queue \o raised
      BY <3>1, <3>2
    <3> QED
      BY <1>1, <3>1, <3>3 DEF AccurateInv
  <2> QED
    BY <2>1, <2>2
<1>2. ASSUME CInv, AccurateInv, AsyncBegin \/ AsyncEnd \/ ResyncBegin \/ ResyncEnd
      PROVE  AccurateInv'
  BY <1>2 DEF AsyncBegin, AsyncEnd, ResyncBegin, ResyncEnd, AccurateInv
<1>3. ASSUME AsyncEntrySkipped PROVE AccurateInv'
  BY <1>3 DEF AsyncEntrySkipped, AccurateInv
<1>4. ASSUME CInv, AccurateInv, AsyncEntry PROVE AccurateInv'
  <2> SUFFICES ASSUME ~missed, NEW s \in Stas
               PROVE  Sound(hal_cb_queue' \o raised', s, connected_clients'[s].apIndex, assoc'[s])
    BY <1>4 DEF AsyncEntry, AccurateInv
  <2> DEFINE e == Head(hal_cb_queue)
             a == e.apIndex
             p == hal_cb_queue \o raised
             x == connected_clients[s].apIndex
             y == connected_clients'[s].apIndex
             new == IF ~e.cli_Active
                      THEN clients_disconnection(View(e.mac), a)
                      ELSE IF KeyLookupOk(e.mac, a)
                             THEN clients_connection(View(e.mac), a, KeyOf(e.mac, a))
                             ELSE View(e.mac)
             view == [t \in Stas |-> IF t = e.mac THEN new ELSE View(t)]
  <2>1. /\ hal_cb_queue # <<>> /\ hal_cb_queue' = Tail(hal_cb_queue)
        /\ Become(view) /\ UNCHANGED <<assoc, raised>>
    BY <1>4 DEF AsyncEntry, EventQueue!Deliver
  <2>2. /\ raised \in Seq(Event) /\ hal_cb_queue \in Seq(Event) /\ p \in Seq(Event)
        /\ assoc[s] \in Vaps \cup {NoVap} /\ x \in Vaps \cup {NoVap}
        /\ View(s) \in GoodViews /\ View(s).client.apIndex = x
    BY <1>4, UnderWay
  <2>3. /\ p # <<>> /\ Head(p) = e /\ e \in Event
        /\ hal_cb_queue' \o raised' = Tail(p)
    BY <2>1, <2>2
  <2>4. e.mac \in Stas /\ a \in Vaps
    BY <2>3 DEF Event
  <2>5. Sound(p, s, x, assoc[s])
    BY <1>4 DEF AccurateInv
  <2>6. y = view[s].client.apIndex
    BY <2>1 DEF Become
  <2> HIDE DEF p, x, y, e
  <2>7. e.mac # s => y = x
    BY <2>2, <2>6
  <2>8. e.mac = s /\ ~e.cli_Active => y = IF x = a THEN NoVap ELSE x
    BY <2>2, <2>4, <2>6, Tracking
  <2>9. e.mac = s /\ e.cli_Active => y = a \/ (y = x /\ a # assoc[s])
    <3> SUFFICES ASSUME e.mac = s, e.cli_Active PROVE y = a \/ (y = x /\ a # assoc[s])
      OBVIOUS
    <3>1. KeyOf(s, a) \in KeyIds
      BY <1>4, <2>4, KeyOfIsKey DEF CInv
    <3>2. CASE KeyLookupOk(s, a)
      BY <2>2, <2>4, <2>6, <3>1, <3>2, Tracking
    <3>3. CASE ~KeyLookupOk(s, a)
      BY <2>2, <2>6, <3>3 DEF KeyLookupOk
    <3> QED
      BY <3>2, <3>3
  <2>10. y \in Vaps \cup {NoVap}
    BY <2>2, <2>4, <2>7, <2>8, <2>9
  <2>11. Sound(Tail(p), s, y, assoc[s])
    BY <2>2, <2>3, <2>5, <2>7, <2>8, <2>9, <2>10, HandledSound
  <2> QED
    BY <2>1, <2>3, <2>11 DEF y
<1>5. ASSUME CInv, AccurateInv, ResyncVap PROVE AccurateInv'
  <2>1. nextVap \in Vaps
    BY <1>5 DEF ResyncVap, CInv, RestTypeOK, Vaps
  <2>2. CASE ~enabled[nextVap]
    BY <1>5, <2>2 DEF ResyncVap, AccurateInv
  <2>3. CASE enabled[nextVap]
    <3>1. Become([s \in Stas |-> IF s \in {} THEN View(s) ELSE fetch_existing(s, nextVap)])
      BY <1>5, <2>3 DEF ResyncVap
    <3>2. UNCHANGED <<assoc, raised, hal_cb_queue, missed>> /\ {} \in SUBSET Stas
      BY <1>5 DEF ResyncVap
    <3> QED
      BY <1>5, <2>1, <3>1, <3>2, FetchAccurate
  <2> QED
    BY <2>2, <2>3
<1>6. ASSUME CInv, AccurateInv, ResyncVapPartly PROVE AccurateInv'
  <2>1. nextVap \in Vaps
    BY <1>6 DEF ResyncVapPartly, CInv, RestTypeOK, Vaps
  <2>2. PICK failed \in (SUBSET Stas) \ {{}} :
          Become([s \in Stas |->
                    IF s \in failed THEN View(s) ELSE fetch_existing(s, nextVap)])
    BY <1>6 DEF ResyncVapPartly
  <2>3. UNCHANGED <<assoc, raised, hal_cb_queue, missed>>
    BY <1>6 DEF ResyncVapPartly
  <2> QED
    BY <1>6, <2>1, <2>2, <2>3, FetchAccurate
<1> QED
  BY <1>1, <1>2, <1>3, <1>4, <1>5, <1>6 DEF AsyncStep, ResyncStep

\* Once everything raised is handled, each station is tracked where it is, for
\* any number of stations and VAPs and any sizes of the queue: neither events
\* that a snapshot of the resync pass has overtaken, nor a late disconnect of
\* the VAP a station left, do lasting harm (clients_connection,
\* clients_disconnection, detect_disconnection).
THEOREM TrackingAlwaysAccurate == Spec => []AccurateWhenQuiet
<1>1. Init => AccurateInv
  <2> SUFFICES ASSUME Init, NEW s \in Stas
               PROVE  Sound(<<>> \o <<>>, s, NoVap, NoVap)
    <3>1. Init => raised = <<>> /\ hal_cb_queue = <<>>
      BY DEF Init, EventQueue!Init
    <3>2. Init => \A s \in Stas : connected_clients[s].apIndex = NoVap /\ assoc[s] = NoVap
      <4>1. Untracked.apIndex = NoVap
        BY DEF Untracked
      <4> QED
        BY <4>1 DEF Init
    <3> QED
      BY <3>1, <3>2 DEF AccurateInv
  <2>1. Len(<<>> \o <<>>) = 0
    OBVIOUS
  <2>2. 1 .. 0 = {}
    OBVIOUS
  <2> QED
    BY <2>1, <2>2 DEF Sound
<1>2. CInv /\ AccurateInv /\ [Next]_vars => AccurateInv'
  <2>1. AccurateInv /\ UNCHANGED vars => AccurateInv'
    BY DEF vars, halVars, codeVars, AccurateInv
  <2> QED
    BY <2>1, StationsAccurate, LibraryAccurate DEF Next
<1>3. CInv /\ AccurateInv => AccurateWhenQuiet
  <2> SUFFICES ASSUME CInv, AccurateInv, ~missed, raised = <<>>, hal_cb_queue = <<>>,
                      NEW s \in Stas
               PROVE  connected_clients[s].apIndex = assoc[s]
    BY DEF AccurateWhenQuiet
  <2> DEFINE x == connected_clients[s].apIndex
  <2>1. Sound(<<>> \o <<>>, s, x, assoc[s])
    BY DEF AccurateInv
  <2>2. Len(<<>> \o <<>>) = 0 /\ 1 .. 0 = {} /\ 0 + 1 .. 0 = {}
    OBVIOUS
  <2> HIDE DEF x
  <2>3. x \notin {NoVap, assoc[s]} => FALSE
    BY <2>1, <2>2 DEF Sound, Departs
  <2>4. assoc[s] # NoVap => x = assoc[s]
    BY <2>1, <2>2 DEF Sound
  <2> QED
    BY <2>3, <2>4 DEF x
<1> QED
  BY <1>1, <1>2, <1>3, Invariance, PTL DEF Spec
=============================================================================
