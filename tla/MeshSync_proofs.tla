-------------------------- MODULE MeshSync_proofs --------------------------
(***************************************************************************)
(* For any bounds: types, and the three safety properties of the           *)
(* connection to the Mesh-Agent.                                           *)
(*                                                                         *)
(* Connection: inside the connect task the timer still runs and the socket *)
(* is open; a manager that does not run has neither; a closed socket holds *)
(* no message.  Mode: as long as CM's socket is open, the agent is up and  *)
(* the last state message in the socket carries the mesh state; so when CM *)
(* has read it, or read the data model, the mode is the mesh state.        *)
(* Change: the message that names an unseen change is one WM acts on, so   *)
(* it leaves the socket only with a resync or with the change lost.        *)
(***************************************************************************)
EXTENDS MeshSync, TLAPS

ConnOK(m) ==
    /\ sync_initialized[m] <=> running[m]
    /\ ~running[m] => ~sync_timer[m] /\ sync_fd[m] = "none"
    /\ connecting[m] => sync_timer[m] /\ sync_fd[m] # "none"
    /\ running[m] /\ ~connecting[m] => (sync_timer[m] <=> sync_fd[m] = "none")
    /\ sync_fd[m] = "none" => inbox[m] = <<>>

ConnInv == \A m \in Mgrs : ConnOK(m)

\* Positions of the state messages in a socket.
States(box) == {i \in DOMAIN box : box[i].type = "STATE_CHANGE"}

LastStateIs(box, mode) ==
    \A i \in States(box) : (\A j \in States(box) : j <= i) => box[i].state = mode

ModeInv ==
    sync_fd["CM"] = "open" =>
        /\ agentUp
        /\ LastStateIs(inbox["CM"], mesh)
        /\ ~connecting["CM"] /\ ~unreported =>
              /\ status = radio_cloud_mode
              /\ States(inbox["CM"]) = {} => radio_cloud_mode = mesh

\* WM asks for a resync when it receives such a message.
AsksResync(msg) ==
    msg.type = "WIFI_CHANGE" \/ (msg.type = "ACL_CHANGE" /\ SyncExtHomeAcls)

SomeAsks(box) == \E i \in DOMAIN box : AsksResync(box[i])

SeenInv == unseen /\ ~lost => SomeAsks(inbox["WM"])

USE SyncAssumption

-----------------------------------------------------------------------------
(* Sockets.                                                                *)

\* A message that arrives is the last one.
LEMMA AppendFacts ==
  ASSUME NEW box \in Seq(Message), NEW msg \in Message
  PROVE  /\ Append(box, msg) \in Seq(Message)
         /\ Append(box, msg) # <<>>
         /\ DOMAIN box = 1 .. Len(box)
         /\ DOMAIN Append(box, msg) = 1 .. Len(box) + 1
         /\ \A i \in 1 .. Len(box) : Append(box, msg)[i] = box[i]
         /\ Append(box, msg)[Len(box) + 1] = msg
  OBVIOUS

\* Reading takes the first message and moves the others up.
LEMMA TailFacts ==
  ASSUME NEW box \in Seq(Message), box # <<>>
  PROVE  /\ Head(box) \in Message /\ Head(box) = box[1]
         /\ Tail(box) \in Seq(Message)
         /\ Len(box) \in Nat \ {0}
         /\ DOMAIN box = 1 .. Len(box)
         /\ DOMAIN Tail(box) = 1 .. Len(box) - 1
         /\ \A i \in 1 .. Len(box) - 1 : Tail(box)[i] = box[i + 1]
  OBVIOUS

\* A new state message is the last one, any other leaves the last one alone.
LEMMA AppendState ==
  ASSUME NEW box \in Seq(Message), NEW msg \in Message, NEW mode \in Modes,
         msg.type = "STATE_CHANGE" => msg.state = mode,
         msg.type # "STATE_CHANGE" => LastStateIs(box, mode)
  PROVE  LastStateIs(Append(box, msg), mode)
<1> DEFINE new == Append(box, msg)
<1>1. /\ DOMAIN box = 1 .. Len(box) /\ DOMAIN new = 1 .. Len(box) + 1
      /\ \A i \in 1 .. Len(box) : new[i] = box[i]
      /\ new[Len(box) + 1] = msg
      /\ Len(box) \in Nat
  BY AppendFacts
<1> HIDE DEF new
<1>2. CASE msg.type = "STATE_CHANGE"
  BY <1>1, <1>2 DEF LastStateIs, States
<1>3. CASE msg.type # "STATE_CHANGE"
  <2>1. States(new) = States(box)
    BY <1>1, <1>3 DEF States
  <2> QED
    BY <1>1, <1>3, <2>1 DEF LastStateIs, States
<1> QED
  BY <1>2, <1>3 DEF new

\* A state message that arrives is there; no other message takes one away.
LEMMA AppendNoState ==
  ASSUME NEW box \in Seq(Message), NEW msg \in Message,
         States(Append(box, msg)) = {}
  PROVE  States(box) = {} /\ msg.type # "STATE_CHANGE"
<1> DEFINE new == Append(box, msg)
<1>1. /\ DOMAIN box = 1 .. Len(box) /\ DOMAIN new = 1 .. Len(box) + 1
      /\ \A i \in 1 .. Len(box) : new[i] = box[i]
      /\ new[Len(box) + 1] = msg
      /\ Len(box) \in Nat
  BY AppendFacts
<1>2. States(new) = {}
  OBVIOUS
<1> HIDE DEF new
<1> QED
  BY <1>1, <1>2 DEF States

\* Reading a message that is not the last state message leaves that one; when
\* it was the last one, it carries the mode.
LEMMA TailState ==
  ASSUME NEW box \in Seq(Message), box # <<>>, NEW mode \in Modes,
         LastStateIs(box, mode)
  PROVE  /\ LastStateIs(Tail(box), mode)
         /\ States(Tail(box)) = {} => \/ States(box) = {}
                                      \/ /\ Head(box).type = "STATE_CHANGE"
                                         /\ Head(box).state = mode
<1> DEFINE rest == Tail(box)
<1>1. /\ Head(box) = box[1] /\ Len(box) \in Nat \ {0}
      /\ DOMAIN box = 1 .. Len(box) /\ DOMAIN rest = 1 .. Len(box) - 1
      /\ \A i \in 1 .. Len(box) - 1 : rest[i] = box[i + 1]
  BY TailFacts
<1> HIDE DEF rest
<1>2. \A i \in DOMAIN box :
        i \in States(box) <=> \/ i = 1 /\ box[1].type = "STATE_CHANGE"
                             \/ i - 1 \in States(rest)
  BY <1>1 DEF States
<1>3. LastStateIs(rest, mode)
  <2> SUFFICES ASSUME NEW i \in States(rest), \A j \in States(rest) : j <= i
               PROVE  rest[i].state = mode
    BY DEF LastStateIs
  <2>1. i \in 1 .. Len(box) - 1 /\ rest[i] = box[i + 1] /\ i + 1 \in States(box)
    BY <1>1 DEF States
  <2>2. \A j \in States(box) : j <= i + 1
    <3> TAKE j \in States(box)
    <3>1. j \in 1 .. Len(box)
      BY <1>1 DEF States
    <3>2. CASE j = 1
      BY <2>1, <3>2
    <3>3. CASE j - 1 \in States(rest)
      BY <2>1, <3>1, <3>3
    <3> QED
      BY <1>1, <1>2, <3>1, <3>2, <3>3
  <2> QED
    BY <2>1, <2>2 DEF LastStateIs
<1>4. ASSUME States(rest) = {}, States(box) # {}
      PROVE  Head(box).type = "STATE_CHANGE" /\ Head(box).state = mode
  <2>1. States(box) = {1} /\ box[1].type = "STATE_CHANGE"
    BY <1>1, <1>2, <1>4 DEF States
  <2>2. 1 <= 1
    OBVIOUS
  <2> QED
    BY <1>1, <2>1, <2>2 DEF LastStateIs
<1> QED
  BY <1>3, <1>4 DEF rest

\* The message that names a change stays until it is read.
LEMMA AsksStays ==
  ASSUME NEW box \in Seq(Message), NEW msg \in Message
  PROVE  /\ SomeAsks(box) \/ AsksResync(msg) => SomeAsks(Append(box, msg))
         /\ box # <<>> /\ SomeAsks(box) =>
               SomeAsks(Tail(box)) \/ AsksResync(Head(box))
<1> DEFINE new == Append(box, msg)
<1>1. /\ DOMAIN box = 1 .. Len(box) /\ DOMAIN new = 1 .. Len(box) + 1
      /\ \A i \in 1 .. Len(box) : new[i] = box[i]
      /\ new[Len(box) + 1] = msg
      /\ Len(box) \in Nat
  BY AppendFacts
<1> HIDE DEF new
<1>2. SomeAsks(box) \/ AsksResync(msg) => SomeAsks(new)
  BY <1>1 DEF SomeAsks
<1>3. ASSUME box # <<>>, SomeAsks(box) 
      PROVE  SomeAsks(Tail(box)) \/ AsksResync(Head(box))
  <2> DEFINE rest == Tail(box)
  <2>1. /\ Head(box) = box[1] /\ Len(box) \in Nat \ {0}
        /\ DOMAIN box = 1 .. Len(box) /\ DOMAIN rest = 1 .. Len(box) - 1
        /\ \A i \in 1 .. Len(box) - 1 : rest[i] = box[i + 1]
    BY <1>3, TailFacts
  <2> HIDE DEF rest
  <2>2. PICK i \in DOMAIN box : AsksResync(box[i])
    BY <1>3 DEF SomeAsks
  <2>3. CASE i = 1
    BY <2>1, <2>2, <2>3
  <2>4. CASE i # 1
    <3>1. i - 1 \in DOMAIN rest /\ rest[i - 1] = box[i]
      BY <2>1, <2>4
    <3> QED
      BY <2>2, <3>1 DEF SomeAsks, rest
  <2> QED
    BY <2>3, <2>4
<1> QED
  BY <1>2, <1>3 DEF new

-----------------------------------------------------------------------------
(* Types.                                                                  *)

LEMMA InitTypeOK == Init => TypeOK
<1> SUFFICES ASSUME Init PROVE TypeOK
  OBVIOUS
<1>1. /\ sync_fd \in [Mgrs -> {"none", "open", "eof"}]
      /\ inbox \in [Mgrs -> Seq(Message)]
  BY DEF Init
<1>2. /\ running \in [Mgrs -> BOOLEAN] /\ sync_initialized \in [Mgrs -> BOOLEAN]
      /\ sync_timer \in [Mgrs -> BOOLEAN] /\ connecting \in [Mgrs -> BOOLEAN]
  BY DEF Init
<1>3. changes \in Nat /\ outages \in Nat /\ failures \in Nat
  BY DEF Init
<1> QED
  BY <1>1, <1>2, <1>3 DEF Init, TypeOK

\* What the agent sends reaches the open sockets only.
LEMMA BroadcastType ==
  ASSUME TypeOK, NEW msg \in Message, Broadcast(msg)
  PROVE  inbox' \in [Mgrs -> Seq(Message)] /\ changes' \in Nat
<1>1. \A m \in Mgrs : inbox[m] \in Seq(Message)
  BY DEF TypeOK
<1>2. \A m \in Mgrs : Append(inbox[m], msg) \in Seq(Message)
  BY <1>1, AppendFacts
<1> QED
  BY <1>1, <1>2 DEF Broadcast, TypeOK

LEMMA NextTypeOK == TypeOK /\ [Next]_vars => TypeOK'
<1> SUFFICES ASSUME TypeOK, [Next]_vars PROVE TypeOK'
  OBVIOUS
<1> USE DEF TypeOK, agentVars, mgrVars, modeVars, seenVars
<1>1. CASE AgentStart
  BY <1>1 DEF AgentStart
<1>2. CASE AgentStop
  <2>1. sync_fd' \in [Mgrs -> {"none", "open", "eof"}]
    BY <1>2 DEF AgentStop
  <2>2. outages' \in Nat
    BY <1>2 DEF AgentStop, Outage
  <2> QED
    BY <1>2, <2>1, <2>2 DEF AgentStop
<1>3. ASSUME NEW mode \in Modes, MeshStateChange(mode) PROVE TypeOK'
  <2>1. [type |-> "STATE_CHANGE", state |-> mode] \in Message
    BY DEF Message, Types
  <2>2. inbox' \in [Mgrs -> Seq(Message)] /\ changes' \in Nat
    BY <1>3, <2>1, BroadcastType DEF MeshStateChange
  <2> QED
    BY <1>3, <2>2 DEF MeshStateChange
<1>4. ASSUME NEW type \in Types \ {"STATE_CHANGE"}, OtherChange(type) PROVE TypeOK'
  <2>1. [type |-> type, state |-> mesh] \in Message
    BY DEF Message
  <2>2. inbox' \in [Mgrs -> Seq(Message)] /\ changes' \in Nat
    BY <1>4, <2>1, BroadcastType DEF OtherChange
  <2>3. unseen' \in BOOLEAN /\ lost' \in BOOLEAN
    BY <1>4 DEF OtherChange
  <2> QED
    BY <1>4, <2>2, <2>3 DEF OtherChange
<1>5. ASSUME NEW m \in Mgrs, Start(m) PROVE TypeOK'
  <2>1. device_mode' \in Modes /\ failures' \in Nat
    BY <1>5 DEF Start, target_device_config_register, CallFails
  <2> QED
    BY <1>5, <2>1 DEF Start, sync_init
<1>6. ASSUME NEW m \in Mgrs, Close(m) PROVE TypeOK'
  <2>1. inbox' \in [Mgrs -> Seq(Message)]
    BY <1>6 DEF Close, sync_cleanup
  <2>2. lost' \in BOOLEAN
    BY <1>6 DEF Close, LoseInbox
  <2> QED
    BY <1>6, <2>1, <2>2 DEF Close, sync_cleanup, Outage
<1>7. ASSUME NEW m \in Mgrs, Connect(m) PROVE TypeOK'
  BY <1>7 DEF Connect
<1>8. ASSUME NEW m \in Mgrs, OnConnect(m) PROVE TypeOK'
  <2>1. /\ radio_cloud_mode' \in Modes \cup {"UNKNOWN"}
        /\ status' \in Modes \cup {"UNKNOWN"}
    BY <1>8 DEF OnConnect, radio_cloud_mode_set, sync_send_status
  <2>2. unreported' \in BOOLEAN
    BY <1>8 DEF OnConnect, radio_cloud_mode_set, sync_send_status
  <2>3. failures' \in Nat
    BY <1>8 DEF OnConnect, radio_cloud_mode_set, sync_send_status, CallFails
  <2> QED
    BY <1>8, <2>1, <2>2, <2>3 DEF OnConnect
<1>9. ASSUME NEW m \in Mgrs, ReadFails(m) PROVE TypeOK'
  <2>1. inbox' \in [Mgrs -> Seq(Message)]
    BY <1>9 DEF ReadFails, sync_reconnect
  <2>2. lost' \in BOOLEAN
    BY <1>9 DEF ReadFails, sync_reconnect, LoseInbox
  <2>3. outages' \in Nat
    BY <1>9 DEF ReadFails, Outage
  <2> QED
    BY <1>9, <2>1, <2>2, <2>3 DEF ReadFails, sync_reconnect
<1>10. ASSUME NEW m \in Mgrs, ReceiveAny(m) PROVE TypeOK'
  <2>1. ASSUME NEW n \in Mgrs, inbox[n] # <<>>,
               inbox' = [inbox EXCEPT ![n] = Tail(@)]
        PROVE  inbox' \in [Mgrs -> Seq(Message)]
    BY <2>1, TailFacts
  <2>2. CASE ReceiveOther(m)
    <3>1. inbox' \in [Mgrs -> Seq(Message)]
      BY <2>1, <2>2 DEF ReceiveOther, Receive, Consume
    <3> QED
      BY <2>2, <3>1 DEF ReceiveOther, Receive, Consume
  <2>3. CASE ReceiveWifiChange
    <3>1. inbox' \in [Mgrs -> Seq(Message)]
      BY <2>1, <2>3 DEF ReceiveWifiChange, Receive, Consume, Mgrs
    <3>2. unseen' \in BOOLEAN /\ lost' \in BOOLEAN
      BY <2>3 DEF ReceiveWifiChange
    <3>3. failures' \in Nat
      BY <2>3 DEF ReceiveWifiChange, CallFails
    <3> QED
      BY <2>3, <3>1, <3>2, <3>3 DEF ReceiveWifiChange, Receive, Consume
  <2>4. CASE ReceiveStateChange
    <3>1. inbox' \in [Mgrs -> Seq(Message)]
      BY <2>1, <2>4 DEF ReceiveStateChange, Receive, Consume, Mgrs
    <3>2. Head(inbox["CM"]).state \in Modes
      BY <2>4, TailFacts DEF ReceiveStateChange, Receive, Mgrs, Message
    <3>3. /\ radio_cloud_mode' \in Modes \cup {"UNKNOWN"} /\ device_mode' \in Modes
          /\ status' \in Modes \cup {"UNKNOWN"} /\ unreported' \in BOOLEAN
      BY <2>4, <3>2 DEF ReceiveStateChange, radio_cloud_mode_set, sync_send_status
    <3>4. failures' \in Nat
      BY <2>4 DEF ReceiveStateChange, radio_cloud_mode_set, sync_send_status,
                  CallFails
    <3> QED
      BY <2>4, <3>1, <3>3, <3>4 DEF ReceiveStateChange, Receive, Consume
  <2>5. CASE ReceiveUrlChange
    <3>1. lost' \in BOOLEAN /\ <<>> \in Seq(Message)
      BY <2>5 DEF ReceiveUrlChange, LoseInbox
    <3> QED
      BY <2>5, <3>1 DEF ReceiveUrlChange, Receive
  <2> QED
    BY <1>10, <2>2, <2>3, <2>4, <2>5 DEF ReceiveAny
<1>11. CASE UNCHANGED vars
  BY <1>11 DEF vars
<1> QED
  BY <1>1, <1>2, <1>3, <1>4, <1>5, <1>6, <1>7, <1>8, <1>9, <1>10, <1>11 DEF Next

-----------------------------------------------------------------------------
(* The connection.                                                         *)

\* A step that leaves a manager and the presence of its socket alone keeps its
\* part of the invariant.
LEMMA ConnKept ==
  ASSUME NEW m \in Mgrs, ConnOK(m),
         /\ running'[m] = running[m] /\ sync_initialized'[m] = sync_initialized[m]
         /\ sync_timer'[m] = sync_timer[m] /\ connecting'[m] = connecting[m],
         sync_fd'[m] = "none" <=> sync_fd[m] = "none",
         sync_fd[m] = "none" => inbox'[m] = inbox[m]
  PROVE  ConnOK(m)'
  BY DEF ConnOK

LEMMA NextConnInv == TypeOK /\ ConnInv /\ [Next]_vars => ConnInv'
<1> SUFFICES ASSUME TypeOK, ConnInv, [Next]_vars, NEW n \in Mgrs PROVE ConnOK(n)'
  BY DEF ConnInv
<1> USE DEF agentVars, mgrVars, modeVars, seenVars
<1>0. ConnOK(n)
  BY DEF ConnInv
<1>1. CASE AgentStart \/ UNCHANGED vars
  BY <1>0, <1>1, ConnKept DEF AgentStart, vars
<1>2. CASE AgentStop
  <2>1. sync_fd'[n] = "none" <=> sync_fd[n] = "none"
    BY <1>2 DEF AgentStop
  <2> QED
    BY <1>0, <1>2, <2>1, ConnKept DEF AgentStop
<1>3. ASSUME NEW mode \in Modes, MeshStateChange(mode) PROVE ConnOK(n)'
  <2>1. sync_fd[n] = "none" => inbox'[n] = inbox[n]
    BY <1>3 DEF MeshStateChange, Broadcast
  <2> QED
    BY <1>0, <1>3, <2>1, ConnKept DEF MeshStateChange
<1>4. ASSUME NEW type \in Types, OtherChange(type) PROVE ConnOK(n)'
  <2>1. sync_fd[n] = "none" => inbox'[n] = inbox[n]
    BY <1>4 DEF OtherChange, Broadcast
  <2> QED
    BY <1>0, <1>4, <2>1, ConnKept DEF OtherChange
<1>5. ASSUME NEW m \in Mgrs, Start(m) PROVE ConnOK(n)'
  BY <1>0, <1>5 DEF Start, sync_init, ConnOK, TypeOK
<1>6. ASSUME NEW m \in Mgrs, Close(m) PROVE ConnOK(n)'
  BY <1>0, <1>6 DEF Close, sync_cleanup, ConnOK, TypeOK
<1>7. ASSUME NEW m \in Mgrs, Connect(m) PROVE ConnOK(n)'
  BY <1>0, <1>7 DEF Connect, ConnOK, TypeOK
<1>8. ASSUME NEW m \in Mgrs, OnConnect(m) PROVE ConnOK(n)'
  BY <1>0, <1>8 DEF OnConnect, ConnOK, TypeOK
<1>9. ASSUME NEW m \in Mgrs, ReadFails(m) PROVE ConnOK(n)'
  BY <1>0, <1>9 DEF ReadFails, sync_reconnect, ConnOK, TypeOK
<1>10. ASSUME NEW m \in Mgrs, Receive(m, Head(inbox[m]).type), Consume(m)
       PROVE  ConnOK(n)'
  <2>1. sync_fd[n] = "none" => inbox'[n] = inbox[n]
    BY <1>10 DEF Receive, Consume, TypeOK
  <2> QED
    BY <1>0, <1>10, <2>1, ConnKept DEF Consume
<1>11. CASE ReceiveUrlChange
  BY <1>0, <1>11 DEF ReceiveUrlChange, ConnOK, TypeOK
<1>12. ASSUME NEW m \in Mgrs, ReceiveAny(m) PROVE ConnOK(n)'
  BY <1>10, <1>11, <1>12 DEF ReceiveAny, ReceiveOther, ReceiveWifiChange,
                             ReceiveStateChange, Receive, Mgrs
<1> QED
  BY <1>1, <1>2, <1>3, <1>4, <1>5, <1>6, <1>7, <1>8, <1>9, <1>12 DEF Next

-----------------------------------------------------------------------------
(* The mode.                                                               *)

\* A step that leaves all that the mode depends on alone keeps the invariant.
LEMMA ModeKept ==
  ASSUME ModeInv,
         sync_fd'["CM"] = sync_fd["CM"], inbox'["CM"] = inbox["CM"],
         connecting'["CM"] = connecting["CM"],
         UNCHANGED <<agentUp, mesh, status, radio_cloud_mode, unreported>>
  PROVE  ModeInv'
  BY DEF ModeInv, LastStateIs, States

LEMMA NextModeInv == TypeOK /\ ConnInv /\ ModeInv /\ [Next]_vars => ModeInv'
<1> SUFFICES ASSUME TypeOK, ConnInv, ModeInv, [Next]_vars PROVE ModeInv'
  OBVIOUS
<1> USE DEF agentVars, mgrVars, modeVars, seenVars
<1>a. "CM" \in Mgrs /\ inbox["CM"] \in Seq(Message) /\ mesh \in Modes
  BY DEF Mgrs, TypeOK
<1>b. ConnOK("CM")
  BY <1>a DEF ConnInv
<1>c. ASSUME NEW m \in Mgrs, m # "CM",
             \/ inbox' = inbox \/ \E box : inbox' = [inbox EXCEPT ![m] = box],
             \/ sync_fd' = sync_fd \/ \E fd : sync_fd' = [sync_fd EXCEPT ![m] = fd],
             \/ connecting' = connecting
             \/ \E c : connecting' = [connecting EXCEPT ![m] = c],
             UNCHANGED <<agentUp, mesh, status, radio_cloud_mode, unreported>>
      PROVE  ModeInv'
  <2>1. /\ sync_fd'["CM"] = sync_fd["CM"] /\ inbox'["CM"] = inbox["CM"]
        /\ connecting'["CM"] = connecting["CM"]
    BY <1>a, <1>c DEF TypeOK
  <2> QED
    BY <1>c, <2>1, ModeKept
<1>1. CASE AgentStart
  BY <1>1 DEF AgentStart, ModeInv
<1>2. CASE AgentStop
  BY <1>a, <1>2 DEF AgentStop, ModeInv, TypeOK
<1>3. ASSUME NEW mode \in Modes, MeshStateChange(mode) PROVE ModeInv'
  <2> DEFINE msg == [type |-> "STATE_CHANGE", state |-> mode]
  <2>1. msg \in Message /\ msg.type = "STATE_CHANGE" /\ msg.state = mode
    BY DEF Message, Types
  <2>2. sync_fd'["CM"] = "open" => inbox'["CM"] = Append(inbox["CM"], msg)
    BY <1>a, <1>3 DEF MeshStateChange, Broadcast
  <2>3. mesh' = mode /\ agentUp' /\ sync_fd' = sync_fd
    BY <1>3 DEF MeshStateChange
  <2> HIDE DEF msg
  <2>4. LastStateIs(Append(inbox["CM"], msg), mode)
    BY <1>a, <2>1, AppendState
  <2>5. States(Append(inbox["CM"], msg)) # {}
    BY <1>a, <2>1, AppendNoState
  <2>6. connecting' = connecting /\ UNCHANGED <<status, radio_cloud_mode, unreported>>
    BY <1>3 DEF MeshStateChange
  <2>7. sync_fd["CM"] = "open" =>
           (~connecting["CM"] /\ ~unreported => status = radio_cloud_mode)
    BY DEF ModeInv
  <2>8. sync_fd'["CM"] = "open" =>
           LastStateIs(inbox["CM"], mesh)' /\ (States(inbox["CM"]) # {})'
    BY <2>2, <2>3, <2>4, <2>5 DEF LastStateIs, States
  <2> QED
    BY <2>3, <2>6, <2>7, <2>8 DEF ModeInv
<1>4. ASSUME NEW type \in Types \ {"STATE_CHANGE"}, OtherChange(type) PROVE ModeInv'
  <2> DEFINE msg == [type |-> type, state |-> mesh]
  <2>1. msg \in Message /\ msg.type # "STATE_CHANGE"
    BY <1>a DEF Message
  <2>2. sync_fd'["CM"] = "open" => inbox'["CM"] = Append(inbox["CM"], msg)
    BY <1>a, <1>4 DEF OtherChange, Broadcast
  <2> HIDE DEF msg
  <2>3. LastStateIs(inbox["CM"], mesh) => LastStateIs(Append(inbox["CM"], msg), mesh)
    BY <1>a, <2>1, AppendState
  <2>4. States(Append(inbox["CM"], msg)) = {} => States(inbox["CM"]) = {}
    BY <1>a, <2>1, AppendNoState
  <2>5. sync_fd' = sync_fd /\ connecting' = connecting
        /\ UNCHANGED <<agentUp, mesh, status, radio_cloud_mode, unreported>>
    BY <1>4 DEF OtherChange
  <2>6. sync_fd'["CM"] = "open" /\ LastStateIs(inbox["CM"], mesh) =>
           LastStateIs(inbox["CM"], mesh)'
    BY <2>2, <2>3, <2>5 DEF LastStateIs, States
  <2>7. sync_fd'["CM"] = "open" /\ (States(inbox["CM"]) = {})' =>
           States(inbox["CM"]) = {}
    BY <2>2, <2>4 DEF States
  <2> QED
    BY <2>5, <2>6, <2>7 DEF ModeInv
<1>5. ASSUME NEW m \in Mgrs, Start(m) PROVE ModeInv'
  BY <1>5, ModeKept DEF Start
<1>6. ASSUME NEW m \in Mgrs, Close(m) PROVE ModeInv'
  <2>1. CASE m = "CM"
    BY <1>a, <1>6, <2>1 DEF Close, sync_cleanup, ModeInv, TypeOK
  <2>2. CASE m # "CM"
    BY <1>6, <1>c, <2>2 DEF Close, sync_cleanup
  <2> QED
    BY <2>1, <2>2
<1>7. ASSUME NEW m \in Mgrs, Connect(m) PROVE ModeInv'
  <2>1. CASE m = "CM"
    <3>1. inbox["CM"] = <<>> /\ States(<<>>) = {}
      BY <1>b, <1>7, <2>1 DEF Connect, ConnOK, States
    <3>2. connecting'["CM"] /\ agentUp' /\ inbox' = inbox
      BY <1>a, <1>7, <2>1 DEF Connect, TypeOK
    <3> QED
      BY <3>1, <3>2 DEF ModeInv, LastStateIs, States
  <2>2. CASE m # "CM"
    BY <1>7, <1>c, <2>2 DEF Connect
  <2> QED
    BY <2>1, <2>2
<1>8. ASSUME NEW m \in Mgrs, OnConnect(m) PROVE ModeInv'
  <2>1. CASE m = "CM"
    <3>1. UNCHANGED <<agentUp, mesh, sync_fd, inbox>>
      BY <1>8 DEF OnConnect
    <3>2. sync_fd["CM"] = "open" =>
             unreported' \/ (radio_cloud_mode' = mesh /\ status' = mesh)
      BY <1>8, <2>1 DEF OnConnect, radio_cloud_mode_set, sync_send_status
    <3> QED
      BY <3>1, <3>2 DEF ModeInv, LastStateIs, States
  <2>2. CASE m # "CM"
    BY <1>8, <1>c, <2>2 DEF OnConnect
  <2> QED
    BY <2>1, <2>2
<1>9. ASSUME NEW m \in Mgrs, ReadFails(m) PROVE ModeInv'
  <2>1. CASE m = "CM"
    BY <1>a, <1>9, <2>1 DEF ReadFails, sync_reconnect, ModeInv, TypeOK
  <2>2. CASE m # "CM"
    BY <1>9, <1>c, <2>2 DEF ReadFails, sync_reconnect
  <2> QED
    BY <2>1, <2>2
<1>10. ASSUME NEW m \in Mgrs, ReceiveOther(m) PROVE ModeInv'
  <2>1. CASE m = "CM"
    <3>1. /\ inbox["CM"] # <<>> /\ Head(inbox["CM"]).type # "STATE_CHANGE"
          /\ inbox'["CM"] = Tail(inbox["CM"])
          /\ sync_fd' = sync_fd /\ connecting' = connecting
          /\ UNCHANGED <<agentUp, mesh, status, radio_cloud_mode, unreported>>
      BY <1>a, <1>10, <2>1 DEF ReceiveOther, Receive, Consume, TypeOK
    <3>2. LastStateIs(inbox["CM"], mesh) =>
             /\ LastStateIs(Tail(inbox["CM"]), mesh)
             /\ States(Tail(inbox["CM"])) = {} => States(inbox["CM"]) = {}
      BY <1>a, <3>1, TailState
    <3>3. LastStateIs(inbox["CM"], mesh) =>
             /\ LastStateIs(inbox["CM"], mesh)'
             /\ (States(inbox["CM"]) = {})' => States(inbox["CM"]) = {}
      BY <3>1, <3>2 DEF LastStateIs, States
    <3> QED
      BY <3>1, <3>3 DEF ModeInv
  <2>2. CASE m # "CM"
    BY <1>10, <1>c, <2>2 DEF ReceiveOther, Receive, Consume
  <2> QED
    BY <2>1, <2>2
<1>11. CASE ReceiveWifiChange
  <2>1. "WM" \in Mgrs /\ "WM" # "CM"
    BY DEF Mgrs
  <2> QED
    BY <1>11, <1>c, <2>1 DEF ReceiveWifiChange, Receive, Consume
<1>12. CASE ReceiveStateChange
  <2> DEFINE mode == Head(inbox["CM"]).state
  <2>1. /\ inbox["CM"] # <<>> /\ Head(inbox["CM"]).type = "STATE_CHANGE"
        /\ inbox'["CM"] = Tail(inbox["CM"])
        /\ sync_fd' = sync_fd /\ connecting' = connecting /\ ~connecting["CM"]
        /\ UNCHANGED <<agentUp, mesh>>
    BY <1>a, <1>12 DEF ReceiveStateChange, Receive, Consume, TypeOK
  <2>2. \/ radio_cloud_mode = mode /\ UNCHANGED <<status, radio_cloud_mode, unreported>>
        \/ /\ radio_cloud_mode' = mode
           /\ sync_fd["CM"] = "open" => unreported' \/ status' = mode
    BY <1>12 DEF ReceiveStateChange, radio_cloud_mode_set, sync_send_status
  <2>3. LastStateIs(inbox["CM"], mesh) =>
           /\ LastStateIs(Tail(inbox["CM"]), mesh)
           /\ States(Tail(inbox["CM"])) = {} => States(inbox["CM"]) = {} \/ mode = mesh
    BY <1>a, <2>1, TailState
  <2>4. States(inbox["CM"]) # {}
    BY <1>a, <2>1, TailFacts DEF States
  <2>5. LastStateIs(inbox["CM"], mesh) =>
           /\ LastStateIs(inbox["CM"], mesh)'
           /\ (States(inbox["CM"]) = {})' => mode = mesh
    BY <2>1, <2>3, <2>4 DEF LastStateIs, States
  <2> HIDE DEF mode
  <2> QED
    BY <2>1, <2>2, <2>5 DEF ModeInv
<1>13. CASE ReceiveUrlChange
  BY <1>a, <1>13 DEF ReceiveUrlChange, ModeInv
<1>14. CASE UNCHANGED vars
  BY <1>14, ModeKept DEF vars
<1> QED
  BY <1>1, <1>2, <1>3, <1>4, <1>5, <1>6, <1>7, <1>8, <1>9, <1>10, <1>11, <1>12,
     <1>13, <1>14 DEF Next, ReceiveAny

-----------------------------------------------------------------------------
(* Changes WM has not acted on.                                            *)

LEMMA NextSeenInv == TypeOK /\ SeenInv /\ [Next]_vars => SeenInv'
<1> SUFFICES ASSUME TypeOK, SeenInv, [Next]_vars, unseen', ~lost'
             PROVE  SomeAsks(inbox'["WM"])
  BY DEF SeenInv, SomeAsks, AsksResync
<1> USE DEF agentVars, mgrVars, modeVars, seenVars
<1>a. "WM" \in Mgrs /\ "WM" # "CM" /\ inbox["WM"] \in Seq(Message)
  BY DEF Mgrs, TypeOK
<1>b. ASSUME inbox'["WM"] = inbox["WM"], unseen' = unseen, lost' = lost
      PROVE  SomeAsks(inbox'["WM"])
  BY <1>b DEF SeenInv
<1>c. ASSUME NEW msg \in Message,
             inbox'["WM"] = inbox["WM"] \/ inbox'["WM"] = Append(inbox["WM"], msg),
             unseen' = unseen, lost' = lost
      PROVE  SomeAsks(inbox'["WM"])
  BY <1>a, <1>c, AsksStays DEF SeenInv
<1>1. CASE AgentStart \/ AgentStop
  BY <1>1, <1>b DEF AgentStart, AgentStop
<1>2. ASSUME NEW mode \in Modes, MeshStateChange(mode) PROVE SomeAsks(inbox'["WM"])
  <2>1. [type |-> "STATE_CHANGE", state |-> mode] \in Message
    BY DEF Message, Types
  <2> QED
    BY <1>2, <1>a, <1>c, <2>1 DEF MeshStateChange, Broadcast
<1>3. ASSUME NEW type \in Types, OtherChange(type) PROVE SomeAsks(inbox'["WM"])
  <2> DEFINE msg == [type |-> type, state |-> mesh]
  <2>1. msg \in Message
    BY DEF Message, TypeOK
  <2>2. inbox'["WM"] = IF sync_fd["WM"] = "open" THEN Append(inbox["WM"], msg)
                                                  ELSE inbox["WM"]
    BY <1>a, <1>3 DEF OtherChange, Broadcast
  <2>3. CASE type = "WIFI_CHANGE" \/ (type = "ACL_CHANGE" /\ SyncExtHomeAcls)
    <3>1. sync_fd["WM"] = "open"
      BY <1>3, <2>3 DEF OtherChange
    <3>2. AsksResync(msg)
      BY <2>3 DEF AsksResync
    <3> QED
      BY <1>a, <2>1, <2>2, <3>1, <3>2, AsksStays
  <2>4. CASE ~(type = "WIFI_CHANGE" \/ (type = "ACL_CHANGE" /\ SyncExtHomeAcls))
    <3>1. unseen' = unseen /\ lost' = lost
      BY <1>3, <2>4 DEF OtherChange
    <3> QED
      BY <1>c, <2>1, <2>2, <3>1
  <2> QED
    BY <2>3, <2>4
<1>4. ASSUME NEW m \in Mgrs, Start(m) \/ Connect(m) \/ OnConnect(m)
      PROVE  SomeAsks(inbox'["WM"])
  BY <1>4, <1>b DEF Start, Connect, OnConnect
<1>5. ASSUME NEW m \in Mgrs, Close(m) \/ ReadFails(m) PROVE SomeAsks(inbox'["WM"])
  <2>1. unseen' = unseen /\ LoseInbox(m) /\ inbox' = [inbox EXCEPT ![m] = <<>>]
    BY <1>5 DEF Close, sync_cleanup, ReadFails, sync_reconnect
  <2>2. m # "WM" /\ ~lost
    BY <2>1 DEF LoseInbox
  <2>3. inbox'["WM"] = inbox["WM"]
    BY <1>a, <2>1, <2>2 DEF TypeOK
  <2> QED
    BY <2>1, <2>2, <2>3 DEF SeenInv
<1>6. ASSUME NEW m \in Mgrs, ReceiveOther(m) PROVE SomeAsks(inbox'["WM"])
  <2>1. /\ inbox[m] # <<>> /\ inbox' = [inbox EXCEPT ![m] = Tail(@)]
        /\ unseen' = unseen /\ lost' = lost
        /\ m = "WM" => ~AsksResync(Head(inbox[m]))
    BY <1>6, <1>a DEF ReceiveOther, Receive, Consume, AsksResync
  <2>2. CASE m = "WM"
    BY <1>a, <2>1, <2>2, AsksStays, TailFacts DEF SeenInv, TypeOK
  <2>3. CASE m # "WM"
    BY <1>a, <1>b, <2>1, <2>3 DEF TypeOK
  <2> QED
    BY <2>2, <2>3
<1>7. CASE ReceiveWifiChange
  <2>1. \/ unseen' = FALSE
        \/ lost' = (lost \/ unseen) /\ unseen' = unseen
    BY <1>7 DEF ReceiveWifiChange
  <2> QED
    BY <2>1
<1>8. CASE ReceiveStateChange
  <2>1. inbox'["WM"] = inbox["WM"]
    BY <1>a, <1>8 DEF ReceiveStateChange, Consume, TypeOK
  <2> QED
    BY <1>b, <1>8, <2>1 DEF ReceiveStateChange
<1>9. CASE ReceiveUrlChange
  <2>1. unseen' = unseen /\ LoseInbox("WM")
    BY <1>9 DEF ReceiveUrlChange
  <2> QED
    BY <2>1 DEF LoseInbox
<1>10. CASE UNCHANGED vars
  BY <1>10, <1>b DEF vars
<1> QED
  BY <1>1, <1>2, <1>3, <1>4, <1>5, <1>6, <1>7, <1>8, <1>9, <1>10 DEF Next, ReceiveAny

-----------------------------------------------------------------------------
LEMMA InitInvs == Init => ConnInv /\ ModeInv /\ SeenInv
<1> SUFFICES ASSUME Init PROVE ConnInv /\ ModeInv /\ SeenInv
  OBVIOUS
<1>1. ConnInv
  BY DEF Init, ConnInv, ConnOK
<1>2. ModeInv /\ SeenInv
  BY DEF Init, ModeInv, SeenInv, Mgrs
<1> QED
  BY <1>1, <1>2

\* Every variable keeps its type: among others, sockets hold whole messages and
\* the mode is a mode of the data model or unknown.
THEOREM TypeCorrect == Spec => []TypeOK
  BY InitTypeOK, NextTypeOK, PTL DEF Spec

\* The inductive invariant of the connection.
LEMMA ConnInvariance == Spec => []ConnInv
  BY InitInvs, NextConnInv, TypeCorrect, PTL DEF Spec

\* A manager is connected or its connect timer runs, never both, never neither.
THEOREM AlwaysConnectedOrTrying == Spec => []ConnectedOrTrying
<1>1. ConnInv => ConnectedOrTrying
  BY DEF ConnInv, ConnOK, ConnectedOrTrying
<1> QED
  BY <1>1, ConnInvariance, PTL

\* CM's mode and the one the agent was told are the mesh state, whenever CM is
\* connected and has read the state messages it was sent.
THEOREM ModeAlwaysFollows == Spec => []ModeFollowsMesh
<1>1. Spec => []ModeInv
  BY InitInvs, NextModeInv, TypeCorrect, ConnInvariance, PTL DEF Spec
<1>2. ModeInv => ModeFollowsMesh
  BY DEF ModeInv, ModeFollowsMesh, States
<1> QED
  BY <1>1, <1>2, PTL

\* No change is dropped unnoticed: the message about it is in WM's socket.
THEOREM ChangesNeverSilent == Spec => []NoSilentChange
<1>1. Spec => []SeenInv
  BY InitInvs, NextSeenInv, TypeCorrect, PTL DEF Spec
<1>2. SeenInv => NoSilentChange
  BY DEF SeenInv, NoSilentChange, SomeAsks, AsksResync
<1> QED
  BY <1>1, <1>2, PTL
=============================================================================
