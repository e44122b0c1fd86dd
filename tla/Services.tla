------------------------------ MODULE Services ------------------------------
(***************************************************************************)
(* What this code does beside keeping Wi-Fi configured: the leases of the  *)
(* Network Manager, log forwarding, XM's connector, and, for the Stats     *)
(* Manager, neighbor scans and the counters of clients and of channels     *)
(* (stats.c).  They share no state and no messages, so what they do        *)
(* together is what each of them does alone: a behaviour is one of a       *)
(* service, chosen at the start.                                           *)
(***************************************************************************)
EXTENDS DhcpLeases, Pl2rl, Connector, NeighborScan, StatsDeltas

VARIABLE service

Service == {"leases", "log", "connector", "scan", "client", "survey"}

\* The others' initial states that differ in data only are not needed.
Init ==
    /\ DhcpInit /\ Pl2rlInit /\ ConnectorInit /\ ScanInit /\ DeltasInit
    /\ service \in Service
    /\ service # "leases" => file = NoFile
    /\ service # "connector" => \A k \in Kinds : conf[k] \cup table[k] = {}
    /\ service # "scan" => hal_table = <<>>
    /\ service # "survey" => cumulative = [t \in ScanTypes |-> TRUE]

Step(name, next, others) ==
    /\ service = name
    /\ next
    /\ UNCHANGED <<service, others>>

Next ==
    \/ Step("leases", DhcpNext, <<pl2rlVars, connectorVars, scanVars, deltasVars>>)
    \/ Step("log", Pl2rlNext, <<dhcpVars, connectorVars, scanVars, deltasVars>>)
    \/ Step("connector", ConnectorNext, <<dhcpVars, pl2rlVars, scanVars, deltasVars>>)
    \/ Step("scan", ScanNext, <<dhcpVars, pl2rlVars, connectorVars, deltasVars>>)
    \/ Step("client", ClientNext, <<dhcpVars, pl2rlVars, connectorVars, scanVars>>)
    \/ Step("survey", SurveyNext, <<dhcpVars, pl2rlVars, connectorVars, scanVars>>)

vars == <<service, dhcpVars, pl2rlVars, connectorVars, scanVars, deltasVars>>

Leases == service = "leases"
Log == service = "log"
Scan == service = "scan"

\* Network Manager's loop runs: the timer ends, the watcher polls and its
\* callback is called.  Time passes for a process that logs, which goes on
\* logging; its daemon is started again and serves every connection.  The scan's
\* timer fires and callbacks return; the driver need not ever be done.
Fairness ==
    /\ WF_dhcpVars(Leases /\ WatcherPolls)
    /\ WF_dhcpVars(Leases /\ dhcp_lease_onchange)
    /\ WF_dhcpVars(Leases /\ dhcp_lease_init)
    /\ \A p \in Procs : /\ WF_pl2rlVars(Log /\ Clock(p))
                        /\ SF_pl2rlVars(Log /\ pl2rl_log(p))
                        /\ WF_pl2rlVars(Log /\ pl2rl_send(p))
    /\ WF_pl2rlVars(Log /\ pl2rld_client_listener_init)
    /\ \A c \in Conns : /\ WF_pl2rlVars(Log /\ pl2rld_client_accept_cb(c))
                        /\ SF_pl2rlVars(Log /\ RecvHeader(c))
                        /\ WF_pl2rlVars(Log /\ RecvRest(c))
    /\ WF_scanVars(Scan /\ stats_scan_results_fetch)
    /\ WF_scanVars(Scan /\ CallbackReturns)

Spec == Init /\ [][Next]_vars /\ Fairness

-----------------------------------------------------------------------------
(* Properties.                                                             *)

ServicesTypeOK ==
    /\ service \in Service
    /\ DhcpTypeOK /\ Pl2rlTypeOK /\ ConnectorTypeOK /\ ScanTypeOK /\ DeltasTypeOK

\* While server objects remain, the Network Manager ends up with the leases of
\* dnsmasq's file, each client once: dnsmasq may have rewritten or removed the
\* file between the watcher's look, its callback and the parse, and objects
\* may have come and gone (osn_dhcps.c).
LeasesEventuallyCurrent == <>[](Leases /\ Readable => Current)

\* A process that goes on logging is heard again and again, whatever happened to
\* the daemon and the connection, unless its connection is out of step (pl2rl.c).
LogHeardAgain == []<><<Heard>>_pl2rlVars \/ <>[](Log => OutOfStep)
=============================================================================
