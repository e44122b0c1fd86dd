------------------------------ MODULE MeshSync ------------------------------
(***************************************************************************)
(* The connection to the Mesh-Agent (sync.c) and the cloud mode that comes *)
(* with it (cloud_config.c, target.c).                                     *)
(*                                                                         *)
(* Two managers, WM and CM, are processes that link this library; each has *)
(* its own socket to the agent, its own connect timer and its own copy of  *)
(* the library's variables.  The agent sends every change to everybody who *)
(* is connected; a manager acts on the messages meant for it.  CM keeps    *)
(* two records of the mesh state: radio_cloud_mode, which it reads from    *)
(* the data model on every connect and reports back to the agent, and the  *)
(* device_mode column of AWLAN_Node, which only its start and messages set.*)
(***************************************************************************)
EXTENDS Naturals, Sequences

CONSTANTS
    SyncExtHomeAcls,    \* CONFIG_RDK_SYNC_EXT_HOME_ACLS
    MaxInbox,           \* bound: messages on their way to one manager
    MaxChanges,         \* bound: changes the agent reports
    MaxOutages,         \* bound: stops of the agent, errors of a socket,
                        \*        closed or restarted managers
    MaxFailures         \* bound: failing data model and HAL calls

ASSUME SyncAssumption ==
    /\ SyncExtHomeAcls \in BOOLEAN
    /\ MaxInbox \in Nat /\ MaxChanges \in Nat
    /\ MaxOutages \in Nat /\ MaxFailures \in Nat

Mgrs == {"WM", "CM"}
Modes == {"FULL", "MONITOR"}

\* WIFI_CHANGE stands for the messages about SSIDs, security, channels, kicked
\* devices and resets, ACL_CHANGE for the three about access control lists.
Types == {"WIFI_CHANGE", "ACL_CHANGE", "SUBNET_CHANGE", "URL_CHANGE",
          "STATE_CHANGE"}
Message == [type : Types, state : Modes]

VARIABLES
    \* the agent
    agentUp,
    mesh,               \* mesh state in the data model
    status,             \* last MESH_WIFI_STATUS it received, or UNKNOWN
    \* per manager
    running,            \* target_init is done
    sync_initialized,
    sync_timer,         \* the connect timer is running
    sync_fd,            \* none, open, or eof: open with its peer gone
    inbox,              \* messages in the socket
    connecting,         \* inside sync_task_connect, after connect()
    \* state of CM and of the database
    radio_cloud_mode,
    device_mode,        \* AWLAN_Node, outlives the managers
    \* history and bounds
    unreported,         \* CM could not read or report the mode on this connection
    unseen,             \* a change WM has not yet asked a resync for
    lost,               \* that change will never reach WM
    changes, outages, failures

agentVars == <<agentUp, mesh, status>>
mgrVars == <<running, sync_initialized, sync_timer, sync_fd, inbox, connecting>>
modeVars == <<radio_cloud_mode, device_mode, unreported>>
seenVars == <<unseen, lost>>
vars == <<agentVars, mgrVars, modeVars, seenVars, changes, outages, failures>>

Init ==
    /\ agentUp = FALSE
    /\ mesh \in Modes
    /\ status = "UNKNOWN"
    /\ running = [m \in Mgrs |-> FALSE]
    /\ sync_initialized = [m \in Mgrs |-> FALSE]
    /\ sync_timer = [m \in Mgrs |-> FALSE]
    /\ sync_fd = [m \in Mgrs |-> "none"]
    /\ inbox = [m \in Mgrs |-> <<>>]
    /\ connecting = [m \in Mgrs |-> FALSE]
    /\ radio_cloud_mode = "UNKNOWN"
    /\ device_mode \in Modes
    /\ unreported = FALSE
    /\ unseen = FALSE /\ lost = FALSE
    /\ changes = 0 /\ outages = 0 /\ failures = 0

CallFails == failures < MaxFailures /\ failures' = failures + 1
Outage == outages < MaxOutages /\ outages' = outages + 1

-----------------------------------------------------------------------------
(* The agent.                                                              *)

AgentStart ==
    /\ ~agentUp
    /\ agentUp' = TRUE
    /\ status' = "UNKNOWN"
    /\ UNCHANGED <<mesh, mgrVars, modeVars, seenVars, changes, outages, failures>>

AgentStop ==
    /\ agentUp
    /\ Outage
    /\ agentUp' = FALSE
    /\ sync_fd' = [m \in Mgrs |-> IF sync_fd[m] = "open" THEN "eof" ELSE sync_fd[m]]
    /\ UNCHANGED <<mesh, status, running, sync_initialized, sync_timer, inbox,
                   connecting, modeVars, seenVars, changes, failures>>

\* The agent sends a message to every manager that is connected.
Broadcast(msg) ==
    /\ changes < MaxChanges
    /\ changes' = changes + 1
    /\ \A m \in Mgrs : sync_fd[m] = "open" => Len(inbox[m]) < MaxInbox
    /\ inbox' = [m \in Mgrs |-> IF sync_fd[m] = "open"
                                  THEN Append(inbox[m], msg) ELSE inbox[m]]

MeshStateChange(mode) ==
    /\ agentUp
    /\ mesh' = mode
    /\ Broadcast([type |-> "STATE_CHANGE", state |-> mode])
    /\ UNCHANGED <<agentUp, status, running, sync_initialized, sync_timer, sync_fd,
                   connecting, modeVars, seenVars, outages, failures>>

OtherChange(type) ==
    /\ agentUp
    /\ Broadcast([type |-> type, state |-> mesh])
    /\ IF type = "WIFI_CHANGE" \/ (type = "ACL_CHANGE" /\ SyncExtHomeAcls)
         THEN unseen' = TRUE /\ lost' = (lost \/ sync_fd["WM"] # "open")
         ELSE UNCHANGED seenVars
    /\ UNCHANGED <<agentVars, running, sync_initialized, sync_timer, sync_fd,
                   connecting, modeVars, outages, failures>>

-----------------------------------------------------------------------------
(* Connecting and disconnecting.                                           *)

\* Kick off the connect task.
sync_init(m) ==
    /\ sync_initialized' = [sync_initialized EXCEPT ![m] = TRUE]
    /\ sync_timer' = [sync_timer EXCEPT ![m] = TRUE]

\* CM sets device_mode, if it can read the mesh state.
target_device_config_register ==
    \/ device_mode' = mesh /\ UNCHANGED failures
    \/ CallFails /\ UNCHANGED device_mode

\* A manager starts.
Start(m) ==
    /\ ~running[m]
    /\ running' = [running EXCEPT ![m] = TRUE]
    /\ sync_init(m)
    /\ IF m = "CM" THEN target_device_config_register
                   ELSE UNCHANGED <<device_mode, failures>>
    /\ UNCHANGED <<agentVars, sync_fd, inbox, connecting, radio_cloud_mode,
                   unreported, seenVars, changes, outages>>

\* WM's pending messages are gone with its socket.
LoseInbox(m) ==
    lost' = (lost \/ (m = "WM" /\ unseen))

sync_cleanup(m) ==
    /\ sync_fd' = [sync_fd EXCEPT ![m] = "none"]
    /\ inbox' = [inbox EXCEPT ![m] = <<>>]
    /\ sync_initialized' = [sync_initialized EXCEPT ![m] = FALSE]

\* target_close cleans up for WM; the process then ends, as CM's does, and the
\* kernel closes its socket in the same way.
Close(m) ==
    /\ running[m] /\ ~connecting[m]
    /\ Outage
    /\ running' = [running EXCEPT ![m] = FALSE]
    /\ sync_cleanup(m)
    /\ sync_timer' = [sync_timer EXCEPT ![m] = FALSE]
    /\ radio_cloud_mode' = IF m = "CM" THEN "UNKNOWN" ELSE radio_cloud_mode
    /\ LoseInbox(m)
    /\ UNCHANGED <<agentVars, connecting, device_mode, unreported, unseen,
                   changes, failures>>

\* sync_task_connect up to a successful connect().  When that fails, the
\* handler returns and the timer repeats.
Connect(m) ==
    /\ sync_timer[m] /\ ~connecting[m]
    /\ agentUp
    /\ sync_fd' = [sync_fd EXCEPT ![m] = "open"]
    /\ connecting' = [connecting EXCEPT ![m] = TRUE]
    /\ UNCHANGED <<agentVars, running, sync_initialized, sync_timer, inbox,
                   modeVars, seenVars, changes, outages, failures>>

\* The agent receives the mode if it is still there and send() takes the
\* message: a busy socket drops it, and nothing sends it again.
sync_send_status(mode) ==
    \/ sync_fd["CM"] = "open"
       /\ status' = mode /\ unreported' = FALSE /\ UNCHANGED failures
    \/ sync_fd["CM"] = "open" /\ CallFails
       /\ unreported' = TRUE /\ UNCHANGED status
    \/ sync_fd["CM"] # "open"
       /\ unreported' = TRUE /\ UNCHANGED <<status, failures>>

radio_cloud_mode_set(mode) ==
    /\ radio_cloud_mode' = mode
    /\ sync_send_status(mode)

\* Mutated form: no callback is called after a connect.
OnConnectForgotten(m) ==
    /\ connecting[m]
    /\ UNCHANGED <<radio_cloud_mode, status, unreported, failures>>
    /\ connecting' = [connecting EXCEPT ![m] = FALSE]
    /\ sync_timer' = [sync_timer EXCEPT ![m] = FALSE]
    /\ UNCHANGED <<agentUp, mesh, running, sync_initialized, sync_fd, inbox,
                   device_mode, seenVars, changes, outages>>

\* Mutated form: the timer is not stopped once connected.
OnConnectKeepsTimer(m) ==
    /\ connecting[m]
    /\ IF m = "CM" THEN radio_cloud_mode_set(mesh)
                   ELSE UNCHANGED <<radio_cloud_mode, status, unreported, failures>>
    /\ connecting' = [connecting EXCEPT ![m] = FALSE]
    /\ UNCHANGED <<agentUp, mesh, running, sync_initialized, sync_timer, sync_fd,
                   inbox, device_mode, seenVars, changes, outages>>

\* The rest of sync_task_connect: CM's callback, cloud_config_mode_init, reads
\* the state from the data model, and the timer is stopped.
OnConnect(m) ==
    /\ connecting[m]
    /\ \/ m = "CM" /\ radio_cloud_mode_set(mesh)
       \/ m = "CM" /\ CallFails /\ unreported' = TRUE
          /\ UNCHANGED <<radio_cloud_mode, status>>
       \/ m # "CM" /\ UNCHANGED <<radio_cloud_mode, status, unreported, failures>>
    /\ connecting' = [connecting EXCEPT ![m] = FALSE]
    /\ sync_timer' = [sync_timer EXCEPT ![m] = FALSE]
    /\ UNCHANGED <<agentUp, mesh, running, sync_initialized, sync_fd, inbox,
                   device_mode, seenVars, changes, outages>>

\* Mutated form: a connection that is gone is closed and not opened again.
sync_reconnect_never(m) ==
    /\ sync_fd' = [sync_fd EXCEPT ![m] = "none"]
    /\ inbox' = [inbox EXCEPT ![m] = <<>>]
    /\ LoseInbox(m)
    /\ UNCHANGED sync_timer

\* Close the socket with what is in it and start the connect timer.
sync_reconnect(m) ==
    /\ sync_fd' = [sync_fd EXCEPT ![m] = "none"]
    /\ inbox' = [inbox EXCEPT ![m] = <<>>]
    /\ LoseInbox(m)
    /\ sync_timer' = [sync_timer EXCEPT ![m] = TRUE]

\* sync_evio_cb, when the peer is gone and everything it sent was read, or
\* when the socket reports an error at any time.
ReadFails(m) ==
    /\ running[m] /\ ~connecting[m]
    /\ \/ sync_fd[m] = "eof" /\ inbox[m] = <<>> /\ UNCHANGED outages
       \/ sync_fd[m] # "none" /\ Outage
    /\ sync_reconnect(m)
    /\ UNCHANGED <<agentVars, running, sync_initialized, connecting, modeVars,
                   unseen, changes, failures>>

-----------------------------------------------------------------------------
(* Messages.                                                               *)

Receive(m, type) ==
    /\ running[m] /\ ~connecting[m]
    /\ sync_fd[m] # "none"
    /\ inbox[m] # <<>>
    /\ Head(inbox[m]).type = type
    /\ UNCHANGED <<agentUp, mesh, changes>>

Consume(m) ==
    /\ inbox' = [inbox EXCEPT ![m] = Tail(@)]
    /\ UNCHANGED <<running, sync_initialized, sync_timer, sync_fd, connecting,
                   outages>>

\* A message that is not meant for this manager, or not handled by anybody:
\* no manager calls sync_init as NM, so nobody handles MESH_SUBNET_CHANGE.
ReceiveOther(m) ==
    /\ \E type \in Types : Receive(m, type)
    /\ LET type == Head(inbox[m]).type IN
         \/ m = "WM" /\ type \in {"STATE_CHANGE", "URL_CHANGE", "SUBNET_CHANGE"}
         \/ m = "WM" /\ type = "ACL_CHANGE" /\ ~SyncExtHomeAcls
         \/ m = "CM" /\ type \in {"WIFI_CHANGE", "ACL_CHANGE", "SUBNET_CHANGE"}
    /\ Consume(m)
    /\ UNCHANGED <<status, modeVars, seenVars, failures>>

\* Mutated form: changes of access control lists ask for no resync.
ReceiveWifiChangeNoAcl ==
    /\ \/ Receive("WM", "WIFI_CHANGE") /\ unseen' = FALSE /\ lost' = FALSE
       \/ Receive("WM", "ACL_CHANGE") /\ SyncExtHomeAcls /\ UNCHANGED seenVars
    /\ Consume("WM")
    /\ UNCHANGED <<status, modeVars, failures>>

\* WM asks for a resync, which reads whatever has changed by then.  If the HAL
\* cannot name the interface, the message is dropped.
ReceiveWifiChange ==
    /\ \/ Receive("WM", "WIFI_CHANGE")
       \/ Receive("WM", "ACL_CHANGE") /\ SyncExtHomeAcls
    /\ Consume("WM")
    /\ \/ unseen' = FALSE /\ lost' = FALSE /\ UNCHANGED failures
       \/ CallFails /\ lost' = (lost \/ unseen) /\ UNCHANGED unseen
    /\ UNCHANGED <<status, modeVars>>

\* CM updates both records, unless radio_cloud_mode has the new value already.
ReceiveStateChange ==
    /\ Receive("CM", "STATE_CHANGE")
    /\ Consume("CM")
    /\ LET mode == Head(inbox["CM"]).state IN
         IF radio_cloud_mode = mode
           THEN UNCHANGED <<status, modeVars, failures>>
           ELSE device_mode' = mode /\ radio_cloud_mode_set(mode)
    /\ UNCHANGED seenVars

\* target_managers_restart: all managers end and are started again.
ReceiveUrlChange ==
    /\ Receive("CM", "URL_CHANGE")
    /\ \A m \in Mgrs : ~connecting[m]
    /\ running' = [m \in Mgrs |-> FALSE]
    /\ sync_initialized' = [m \in Mgrs |-> FALSE]
    /\ sync_timer' = [m \in Mgrs |-> FALSE]
    /\ sync_fd' = [m \in Mgrs |-> "none"]
    /\ inbox' = [m \in Mgrs |-> <<>>]
    /\ radio_cloud_mode' = "UNKNOWN"
    /\ LoseInbox("WM")
    /\ UNCHANGED <<status, connecting, device_mode, unreported, unseen, outages,
                   failures>>

-----------------------------------------------------------------------------
ReceiveAny(m) ==
    \/ ReceiveOther(m)
    \/ m = "WM" /\ ReceiveWifiChange
    \/ m = "CM" /\ (ReceiveStateChange \/ ReceiveUrlChange)

Next ==
    \/ AgentStart \/ AgentStop
    \/ \E mode \in Modes : MeshStateChange(mode)
    \/ \E type \in Types \ {"STATE_CHANGE"} : OtherChange(type)
    \/ \E m \in Mgrs :
          \/ Start(m) \/ Close(m)
          \/ Connect(m) \/ OnConnect(m) \/ ReadFails(m)
          \/ ReceiveAny(m)

Spec == Init /\ [][Next]_vars

\* Managers are started again, the repeating timer fires, and the loop reads
\* what arrives.  The agent owes nothing.
FairSpec ==
    /\ Spec
    /\ \A m \in Mgrs :
          /\ WF_vars(Start(m)) /\ WF_vars(Connect(m)) /\ WF_vars(OnConnect(m))
          /\ WF_vars(ReadFails(m)) /\ WF_vars(ReceiveAny(m))

-----------------------------------------------------------------------------
(* Properties.                                                             *)

TypeOK ==
    /\ agentUp \in BOOLEAN /\ mesh \in Modes /\ status \in Modes \cup {"UNKNOWN"}
    /\ running \in [Mgrs -> BOOLEAN]
    /\ sync_initialized \in [Mgrs -> BOOLEAN]
    /\ sync_timer \in [Mgrs -> BOOLEAN]
    /\ sync_fd \in [Mgrs -> {"none", "open", "eof"}]
    /\ inbox \in [Mgrs -> Seq(Message)]
    /\ connecting \in [Mgrs -> BOOLEAN]
    /\ radio_cloud_mode \in Modes \cup {"UNKNOWN"} /\ device_mode \in Modes
    /\ unreported \in BOOLEAN /\ unseen \in BOOLEAN /\ lost \in BOOLEAN
    /\ changes \in Nat /\ outages \in Nat /\ failures \in Nat

\* A manager that uses the sync client is either connected or has the connect
\* timer running, never both and never neither, so that no outage leaves it
\* deaf and no second socket is opened over the first.
ConnectedOrTrying ==
    \A m \in Mgrs : ~connecting[m] =>
        /\ sync_initialized[m] => (sync_timer[m] <=> sync_fd[m] = "none")
        /\ ~sync_initialized[m] => ~sync_timer[m] /\ sync_fd[m] = "none"

\* While CM is connected and has read its messages, its mode is the mesh state
\* and the agent knows it, even if the state changed while CM was away or
\* between its connect() and its look at the data model.
ModeFollowsMesh ==
    /\ sync_fd["CM"] = "open" /\ ~connecting["CM"] /\ ~unreported
    /\ \A i \in DOMAIN inbox["CM"] : inbox["CM"][i].type # "STATE_CHANGE"
    => radio_cloud_mode = mesh /\ status = mesh

\* A change that WM has not asked a resync for is still in its socket, unless
\* it was lost with a connection or an interface the HAL could not name.
NoSilentChange ==
    unseen /\ ~lost =>
        \E i \in DOMAIN inbox["WM"] :
            inbox["WM"][i].type \in {"WIFI_CHANGE", "ACL_CHANGE"}

\* If the agent stays up, every manager gets connected and stays so.
EventuallyConnected ==
    <>[]agentUp => <>[](\A m \in Mgrs : sync_fd[m] = "open" /\ ~connecting[m])
=============================================================================
