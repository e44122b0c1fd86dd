----------------------------- MODULE Connector -----------------------------
(***************************************************************************)
(* The connector (lib/connector): OpenSync's XM process keeps the port     *)
(* forwards, the DHCP reservations and the LAN settings of OVSDB also in   *)
(* the RDK's data model.                                                   *)
(*                                                                         *)
(* When XM starts it deletes all rows of the two RDK tables, copies the    *)
(* RDK's address pool to OVSDB, and then is given all rows of OVSDB as     *)
(* new, and each later change in order.  It writes a rule in two calls of  *)
(* the bus, one that makes an empty row and one that fills it, and deletes *)
(* one in two: it reads the table, and deletes the first row that matches. *)
(* A call that fails is logged and not tried again.                        *)
(*                                                                         *)
(* External, as this code uses them: XM's main, the order of OVSDB's       *)
(* updates, the bus, and the tables, which number their rows and do not    *)
(* give a number twice; the RDK's own web page changes them, too.          *)
(***************************************************************************)
EXTENDS Integers, Sequences, FiniteSets, SequencesExt

CONSTANTS
    Rules,              \* a port forward or a reservation
    Empty,              \* the content of a row that was not filled yet
    LanSettings,        \* values of an address, a netmask, a range, options
    AsOptions,          \* OVSDB's options for the RDK's lease time and routers
    LanChanges,         \* the sets of settings that change together
    LanManagement,      \* CONFIG_RDK_CONNECTOR_DHCP_SYNC_LAN_MANAGEMENT
    MaxEvents           \* bound: changes of the cloud and of the web page, failing
                        \* calls of the bus and restarts of XM, together

Kinds == {"reservation", "portforward"}

\* OVSDB's column dhcpd has two of them: the range of addresses (start, stop),
\* and the options (lease_time, dhcp_option), whose value in the RDK is a lease
\* time in seconds and a list of routers.
Fields == {"inet_addr", "netmask", "range", "options"}
Dhcpd == {"range", "options"}

ASSUME ConnectorAssumption ==
    /\ IsFiniteSet(Rules) /\ Empty \notin Rules
    /\ LanChanges \subseteq (SUBSET Fields \ {{}})
    /\ AsOptions \in [LanSettings -> LanSettings]
    /\ LanManagement \in BOOLEAN
    /\ MaxEvents \in Nat

VARIABLES
    conf,               \* OVSDB: the rules, by kind
    lan,                \* OVSDB: Wifi_Inet_Config of the bridge
    updates,            \* of OVSDB that XM has not handled
    job,                \* what XM is in the middle of
    table,              \* RDK: rows by kind
    lastIdx,            \* RDK: the last number given, by kind
    rdkLan,             \* RDK: LanManagementEntry and Pool.1
    skew, lanSkew,      \* what a failed call or the web page has put out of step
    events               \* of the bound

ovsdbVars == <<conf, lan>>
rdkVars == <<table, lastIdx, rdkLan>>
connectorVars == <<ovsdbVars, updates, job, rdkVars, skew, lanSkew, events>>

Job == [do : {"down", "idle"}]
       \cup [do : {"clean"}, kind : Kinds]
       \cup [do : {"cleaning"}, kind : Kinds, left : SUBSET Nat]
       \cup [do : {"get pool"}]
       \cup [do : {"put pool"}, pool : LanSettings, options : LanSettings]
       \cup [do : {"fill", "delete"}, kind : Kinds, rule : Rules, idx : Nat]
       \cup [do : {"pool"}, pool : LanSettings]
Down == [do |-> "down"]
Idle == [do |-> "idle"]

Event == events < MaxEvents /\ events' = events + 1

\* Before the first start the RDK may hold rules of its own.
ConnectorInit ==
    /\ conf \in [Kinds -> SUBSET Rules]
    /\ \E v \in LanSettings : lan = [f \in Fields |-> v]
    /\ updates = <<>> /\ job = Down
    /\ table \in [Kinds -> {{}} \cup {{[idx |-> 1, rule |-> r]} : r \in Rules}]
    /\ lastIdx = [k \in Kinds |-> 1]
    /\ \E v \in LanSettings : rdkLan = [f \in Fields |-> v]
    /\ skew = [k \in Kinds |-> {}] /\ lanSkew = {}
    /\ events = 0

-----------------------------------------------------------------------------
(* The cloud and the web page.                                             *)

Subscribed == job.do \notin {"down", "clean", "cleaning", "get pool", "put pool"}
Notify(update) == updates' = IF Subscribed THEN Append(updates, update) ELSE updates

CloudChangesRule(k, r) ==
    /\ Event
    /\ IF r \in conf[k]
         THEN /\ conf' = [conf EXCEPT ![k] = @ \ {r}]
              /\ Notify([op |-> "del", kind |-> k, rule |-> r])
         ELSE /\ conf' = [conf EXCEPT ![k] = @ \cup {r}]
              /\ Notify([op |-> "add", kind |-> k, rule |-> r])
    /\ UNCHANGED <<lan, job, rdkVars, skew, lanSkew>>

CloudChangesLan(changed, v) ==
    /\ Event
    /\ \A f \in changed : lan[f] # v
    /\ lan' = [f \in Fields |-> IF f \in changed THEN v ELSE lan[f]]
    /\ Notify([op |-> "inet", inet |-> lan', changed |-> changed])
    /\ UNCHANGED <<conf, job, rdkVars, skew, lanSkew>>

Skewed(k, rules) == skew' = [skew EXCEPT ![k] = @ \cup rules]

PageChangesTable(k) ==
    /\ Event
    /\ \/ \E r \in Rules :
            /\ table' = [table EXCEPT ![k] = @ \cup {[idx |-> lastIdx[k] + 1, rule |-> r]}]
            /\ lastIdx' = [lastIdx EXCEPT ![k] = @ + 1]
            /\ Skewed(k, {r})
       \/ \E row \in table[k] :
            /\ table' = [table EXCEPT ![k] = @ \ {row}]
            /\ Skewed(k, {row.rule})
            /\ UNCHANGED lastIdx
    /\ UNCHANGED <<ovsdbVars, updates, job, rdkLan, lanSkew>>

PageChangesPool(f, v) ==
    /\ Event
    /\ rdkLan' = [rdkLan EXCEPT ![f] = v]
    /\ lanSkew' = lanSkew \cup {f}
    /\ UNCHANGED <<ovsdbVars, updates, job, table, lastIdx, skew>>

-----------------------------------------------------------------------------
(* XM starts: connector_init.                                              *)

\* The first thing it does, once the bus is there.
connector_init ==
    /\ job = Down
    /\ job' = [do |-> "clean", kind |-> "reservation"]
    /\ UNCHANGED <<ovsdbVars, updates, rdkVars, skew, lanSkew, events>>

AfterClean(k) ==
    IF k = "reservation" THEN [do |-> "clean", kind |-> "portforward"]
                         ELSE [do |-> "get pool"]

\* Goes on with the rows that are left, in their order.
Cleaning(k, left) ==
    job' = IF left = {} THEN AfterClean(k) ELSE [do |-> "cleaning", kind |-> k, left |-> left]

\* The table is read: a failure leaves all rows, and nothing looks at it.
ReadTable(k) ==
    /\ job = [do |-> "clean", kind |-> k]
    /\ \/ /\ Cleaning(k, {row.idx : row \in table[k]})
          /\ skew' = [skew EXCEPT ![k] = {}]
          /\ UNCHANGED events
       \/ /\ Event
          /\ job' = AfterClean(k)
          /\ Skewed(k, {row.rule : row \in table[k]})
    /\ UNCHANGED <<ovsdbVars, updates, rdkVars, lanSkew>>

\* The row of the table with this number, if there still is one.
Rows(k, idx) == {row \in table[k] : row.idx = idx}

\* DeleteTblRow: a failure leaves the row and the rule out of step.
DeleteTblRow(k, idx, rules) ==
    \/ /\ Rows(k, idx) # {}
       /\ table' = [table EXCEPT ![k] = @ \ Rows(k, idx)]
       /\ UNCHANGED <<skew, events>>
    \/ /\ IF Rows(k, idx) = {} THEN UNCHANGED events ELSE Event
       /\ Skewed(k, rules)
       /\ UNCHANGED table

CleanRow(k) ==
    /\ job.do = "cleaning" /\ job.kind = k
    /\ LET idx == Min(job.left)
       IN  /\ DeleteTblRow(k, idx, {row.rule : row \in Rows(k, idx)})
           /\ Cleaning(k, job.left \ {idx})
    /\ UNCHANGED <<ovsdbVars, updates, lastIdx, rdkLan, lanSkew>>

dhcp_reservation_clean_dm == ReadTable("reservation") \/ CleanRow("reservation")
portforward_clean_dm == ReadTable("portforward") \/ CleanRow("portforward")

\* XM gets all rows as new, the rules in any order, and then what changes.
Initially(c, l) ==
    { <<[op |-> "inet", inet |-> l, changed |-> Fields]>> \o seq :
        seq \in SetToSeqs(UNION {{[op |-> "add", kind |-> k, rule |-> r] : r \in c[k]} :
                                  k \in Kinds}) }

Subscribe ==
    /\ updates' \in Initially(conf, lan')
    /\ job' = Idle
    /\ UNCHANGED <<conf, rdkVars, skew, lanSkew>>

\* The lease time is cut to whole hours, the routers become gateways and name
\* servers.
get_dhcp_configuration ==
    /\ job.do = "get pool"
    /\ \/ /\ job' = [do |-> "put pool", pool |-> rdkLan["range"],
                      options |-> AsOptions[rdkLan["options"]]]
          /\ UNCHANGED <<ovsdbVars, updates, rdkVars, skew, lanSkew, events>>
       \/ /\ Event
          /\ UNCHANGED lan
          /\ Subscribe

\* The second half: connector_inet_update_cb writes what was read.
connector_lan_br_config_push_ovsdb_dm ==
    \/ get_dhcp_configuration
    \/ /\ job.do = "put pool"
       /\ \/ /\ lan' = [lan EXCEPT !["range"] = job.pool, !["options"] = job.options]
             /\ UNCHANGED events
          \/ Event /\ UNCHANGED lan
       /\ Subscribe

Crash ==
    /\ job # Down
    /\ Event
    /\ job' = Down /\ updates' = <<>>
    /\ UNCHANGED <<ovsdbVars, rdkVars, skew, lanSkew>>

-----------------------------------------------------------------------------
(* XM handles an update.                                                   *)

NextIs(op) == job = Idle /\ updates # <<>> /\ Head(updates).op = op
Handled == updates' = Tail(updates)

\* AddTblRow makes the row, setParameterValues fills it; a row that could not
\* be filled stays, empty.
AddTblRow(k) ==
    /\ NextIs("add") /\ Head(updates).kind = k
    /\ LET r == Head(updates).rule
           idx == lastIdx[k] + 1
       IN  \/ /\ table' = [table EXCEPT ![k] = @ \cup {[idx |-> idx, rule |-> Empty]}]
              /\ lastIdx' = [lastIdx EXCEPT ![k] = idx]
              /\ job' = [do |-> "fill", kind |-> k, rule |-> r, idx |-> idx]
              /\ UNCHANGED <<skew, events>>
           \/ /\ Event
              /\ Skewed(k, {r})
              /\ UNCHANGED <<table, lastIdx, job>>
    /\ Handled
    /\ UNCHANGED <<ovsdbVars, rdkLan, lanSkew>>

FillRow(k) ==
    /\ job.do = "fill" /\ job.kind = k
    /\ LET row == Rows(k, job.idx)
       IN  \/ /\ row # {}
              /\ table' = [table EXCEPT ![k] =
                             (@ \ row) \cup {[idx |-> job.idx, rule |-> job.rule]}]
              /\ UNCHANGED <<skew, events>>
           \/ /\ IF row = {} THEN UNCHANGED events ELSE Event
              /\ Skewed(k, {job.rule, Empty})
              /\ UNCHANGED table
    /\ job' = Idle
    /\ UNCHANGED <<ovsdbVars, updates, lastIdx, rdkLan, lanSkew>>

\* Their results, passed through push_dm, are not used.
set_dhcp_reservation_config == AddTblRow("reservation") \/ FillRow("reservation")
set_portforward_configuration == AddTblRow("portforward") \/ FillRow("portforward")

Matching(k, r) == {row.idx : row \in {row \in table[k] : row.rule = r}}

\* Mutated form: the row of the last parameter that was read, matching or not.
FindRowLast(k) ==
    /\ NextIs("del") /\ Head(updates).kind = k
    /\ job' = IF table[k] = {} THEN Idle
              ELSE [do |-> "delete", kind |-> k, rule |-> Head(updates).rule,
                    idx |-> Max({row.idx : row \in table[k]})]
    /\ Handled
    /\ UNCHANGED <<ovsdbVars, rdkVars, skew, lanSkew, events>>

\* The table is read, and the first row that matches in all values is deleted.
FindRow(k) ==
    /\ NextIs("del") /\ Head(updates).kind = k
    /\ LET r == Head(updates).rule
       IN  \/ /\ job' = IF Matching(k, r) = {} THEN Idle
                        ELSE [do |-> "delete", kind |-> k, rule |-> r,
                              idx |-> Min(Matching(k, r))]
              /\ UNCHANGED <<skew, events>>
           \/ /\ Event
              /\ Skewed(k, {r})
              /\ UNCHANGED job
    /\ Handled
    /\ UNCHANGED <<ovsdbVars, rdkVars, lanSkew>>

DeleteRow(k) ==
    /\ job.do = "delete" /\ job.kind = k
    /\ DeleteTblRow(k, job.idx, {job.rule})
    /\ job' = Idle
    /\ UNCHANGED <<ovsdbVars, updates, lastIdx, rdkLan, lanSkew>>

dhcp_reservation_del_dm == FindRow("reservation") \/ DeleteRow("reservation")
portforward_del_dm == FindRow("portforward") \/ DeleteRow("portforward")

\* setParameterValues sets all the fields or none.
SetLan(fields, values, skewed) ==
    /\ rdkLan' = [f \in Fields |-> IF f \in fields THEN values[f] ELSE rdkLan[f]]
    /\ lanSkew' = skewed \ fields
    /\ UNCHANGED events
LanFails(fields, skewed) ==
    /\ Event
    /\ lanSkew' = skewed \cup fields
    /\ UNCHANGED rdkLan

DhcpdChanged(u) == u.changed \cap Dhcpd # {}

\* A failure ends the update: the pool is not set either.
set_lan_management(u) ==
    \/ /\ SetLan({"inet_addr", "netmask"}, u.inet, lanSkew)
       /\ job' = IF DhcpdChanged(u) THEN [do |-> "pool", pool |-> u.inet["range"]] ELSE Idle
    \/ /\ LanFails({"inet_addr", "netmask"} \cup (u.changed \cap {"range"}), lanSkew)
       /\ UNCHANGED job

\* Only the range is set, whatever has changed of the column.
set_dhcp_configuration(pool, skewed) ==
    /\ \/ SetLan({"range"}, [f \in {"range"} |-> pool], skewed)
       \/ LanFails({"range"}, skewed)
    /\ job' = Idle

\* A netmask that changes without its address is not pushed.
Unpushed(u) == IF "inet_addr" \in u.changed THEN {} ELSE u.changed \cap {"netmask"}

\* connector_sync_inet lets any change pass, push_rdk_dm looks for two.
connector_lan_br_config_push_rdk_dm(u) ==
    IF LanManagement /\ "inet_addr" \in u.changed
      THEN set_lan_management(u)
    ELSE IF DhcpdChanged(u)
      THEN set_dhcp_configuration(u.inet["range"], lanSkew \cup Unpushed(u))
      ELSE lanSkew' = lanSkew \cup Unpushed(u) /\ UNCHANGED <<job, rdkLan, events>>

connector_sync_inet ==
    /\ NextIs("inet")
    /\ connector_lan_br_config_push_rdk_dm(Head(updates))
    /\ Handled
    /\ UNCHANGED <<ovsdbVars, table, lastIdx, skew>>

SetPool ==
    /\ job.do = "pool"
    /\ set_dhcp_configuration(job.pool, lanSkew)
    /\ UNCHANGED <<ovsdbVars, updates, table, lastIdx, skew>>

XmStep ==
    \/ connector_init
    \/ dhcp_reservation_clean_dm \/ portforward_clean_dm
    \/ connector_lan_br_config_push_ovsdb_dm
    \/ set_dhcp_reservation_config \/ set_portforward_configuration
    \/ dhcp_reservation_del_dm \/ portforward_del_dm
    \/ connector_sync_inet \/ SetPool

ConnectorNext ==
    \/ XmStep
    \/ Crash
    \/ \E k \in Kinds : PageChangesTable(k) \/ \E r \in Rules : CloudChangesRule(k, r)
    \/ \E v \in LanSettings : \/ \E f \in Dhcpd : PageChangesPool(f, v)
                              \/ \E fs \in LanChanges : CloudChangesLan(fs, v)

-----------------------------------------------------------------------------
(* Properties.                                                             *)

ConnectorTypeOK ==
    /\ conf \in [Kinds -> SUBSET Rules]
    /\ lan \in [Fields -> LanSettings] /\ rdkLan \in [Fields -> LanSettings]
    /\ \A i \in DOMAIN updates : updates[i].op \in {"add", "del", "inet"}
    /\ job.do \in {"cleaning", "clean", "put pool", "fill", "delete", "pool", "get pool",
                   "down", "idle"}
    /\ lastIdx \in [Kinds -> Nat]
    /\ \A k \in Kinds : \A row \in table[k] :
         row.rule \in Rules \cup {Empty} /\ row.idx \in 1 .. lastIdx[k]
    /\ skew \in [Kinds -> SUBSET (Rules \cup {Empty})] /\ lanSkew \subseteq Fields
    /\ events \in 0 .. MaxEvents

RuleInSync(k, r) ==
    Cardinality(Matching(k, r)) = IF r \in conf[k] THEN 1 ELSE 0

\* The settings that XM writes; the options only ever go the other way.
Pushed == IF LanManagement THEN Fields \ {"options"} ELSE {"range"}

InSync ==
    /\ \A k \in Kinds : \A r \in (Rules \cup {Empty}) \ skew[k] : RuleInSync(k, r)
    /\ \A f \in Pushed \ lanSkew : rdkLan[f] = lan[f]

\* When XM has nothing to do, the RDK has each rule of OVSDB in exactly one
\* row, no row of another rule and no empty one, and the same range of addresses
\* of its DHCP server, and, in a build that syncs LAN management, the same
\* address and netmask: over all changes made while XM starts or is in the
\* middle of another change, and all crashes.  Excepted is what the web page,
\* or a call that failed, put out of step since the table was cleaned, and a
\* netmask that changed without its address.  Nothing is said of the lease
\* time and the DHCP options, which OVSDB is given when XM starts and which
\* set_dhcp_configuration never writes.
InSyncWhenQuiet == job = Idle /\ updates = <<>> => InSync
=============================================================================
