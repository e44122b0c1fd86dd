----------------------------- MODULE DhcpLeases -----------------------------
(***************************************************************************)
(* The DHCP server backend (lib/osn/src/osn_dhcps.c).                      *)
(*                                                                         *)
(* dnsmasq of the RDK serves the addresses; this backend only reads its    *)
(* lease file for OpenSync's Network Manager.  One watcher of the file and *)
(* one debounce timer are shared by all server objects: the first object   *)
(* of the list starts them, the last one that is deleted stops them.  Each *)
(* time the file changed, and once when the timer ends, all caches are     *)
(* cleared, the file is parsed into the cache of the first object, and     *)
(* every object's cache is dispatched.                                     *)
(*                                                                         *)
(* Everything runs on the loop of one process; dnsmasq writes the file on  *)
(* its own, whole, because both sides lock it.                             *)
(***************************************************************************)
EXTENDS Integers, Sequences, SequencesExt

CONSTANTS
    Servers,            \* server objects, one per interface
    Clients,            \* pairs of IP and hardware address
    Ranges,             \* address ranges
    Files,              \* what the lease file may hold
    NoFile, Garbage, NotTold,
    MaxWrites,          \* bound: changes of the lease file
    MaxCreated,         \* bound: server objects
    MaxParseFailures    \* bound: failures to open or lock the file

\* The time stands for all a line says that does not identify the lease.
Lease == [client : Clients, time : {1, 2}]
Line == Lease \cup {Garbage}

ASSUME DhcpAssumption ==
    /\ Garbage \notin Lease
    /\ NoFile \in Files /\ Files \ {NoFile} \subseteq Seq(Line)
    /\ MaxWrites \in Nat /\ MaxCreated \in Nat /\ MaxParseFailures \in Nat

VARIABLES
    file, writes,       \* dnsmasq's file, and how often it changed
    dhcp_server_list,
    ds_leases,          \* cache of each object
    ds_status_fn,       \* the object has a status callback
    ds_range_list,
    attr,               \* dhcp_lease_watcher.attr: the file as last seen
    watching,           \* dhcp_lease_watcher is active
    fed,                \* its callback is due
    dhcp_lease_init_debounce,
    told,               \* what the last status callback of an object was given
    lastRead,           \* the last parse: "none", "ok" or "failed"
    orphaned,           \* the object that had the leases is gone
    created, parseFailures

fileVars == <<file, writes>>
serverVars == <<dhcp_server_list, ds_leases, ds_status_fn, ds_range_list>>
watchVars == <<attr, watching, fed, dhcp_lease_init_debounce>>
dhcpGhosts == <<told, lastRead, orphaned>>
dhcpVars == <<fileVars, serverVars, watchVars, dhcpGhosts, created, parseFailures>>

Stat == [seen |-> writes, st_nlink |-> file # NoFile]

DhcpInit ==
    /\ file \in Files /\ writes = 0
    /\ dhcp_server_list = <<>>
    /\ ds_leases = [s \in Servers |-> <<>>]
    /\ ds_status_fn = [s \in Servers |-> FALSE]
    /\ ds_range_list = [s \in Servers |-> {}]
    /\ attr = Stat
    /\ watching = FALSE /\ fed = FALSE /\ dhcp_lease_init_debounce = FALSE
    /\ told = [s \in Servers |-> NotTold]
    /\ lastRead = "none" /\ orphaned = FALSE
    /\ created = 0 /\ parseFailures = 0

-----------------------------------------------------------------------------
(* dnsmasq.                                                                *)

WriteFile ==
    /\ writes < MaxWrites
    /\ writes' = writes + 1
    /\ file' \in Files
    /\ UNCHANGED <<serverVars, watchVars, dhcpGhosts, created, parseFailures>>

-----------------------------------------------------------------------------
(* The calls of the Network Manager.                                       *)

\* The first object starts the watcher, and the timer of a first look.
dhcp_server_init(s) ==
    /\ IF dhcp_server_list = <<>>
         THEN /\ attr' = Stat
              /\ watching' = TRUE
              /\ dhcp_lease_init_debounce' = TRUE
              /\ lastRead' = "none"
              /\ orphaned' = FALSE
         ELSE UNCHANGED <<attr, watching, dhcp_lease_init_debounce, lastRead, orphaned>>
    /\ dhcp_server_list' = Append(dhcp_server_list, s)

osn_dhcp_server_new(s) ==
    /\ s \notin ToSet(dhcp_server_list)
    /\ created < MaxCreated
    /\ created' = created + 1
    /\ dhcp_server_init(s)
    /\ UNCHANGED <<fileVars, ds_leases, ds_status_fn, ds_range_list, fed, told,
                   parseFailures>>

Place(s) == CHOOSE i \in DOMAIN dhcp_server_list : dhcp_server_list[i] = s

\* Removes an object; the watcher and the timer stay as they are.
RemoveServer(s) ==
    /\ s \in ToSet(dhcp_server_list)
    /\ ds_range_list' = [ds_range_list EXCEPT ![s] = {}]
    /\ dhcp_server_list' = RemoveAt(dhcp_server_list, Place(s))
    /\ ds_leases' = [ds_leases EXCEPT ![s] = <<>>]
    /\ ds_status_fn' = [ds_status_fn EXCEPT ![s] = FALSE]
    /\ told' = [told EXCEPT ![s] = NotTold]
    /\ orphaned' = (orphaned \/ ds_leases[s] # <<>>)
    /\ UNCHANGED <<fileVars, attr, lastRead, created, parseFailures>>

\* Mutated form: the list is not looked at.
osn_dhcp_server_del_stops(s) ==
    /\ RemoveServer(s)
    /\ watching' = FALSE /\ fed' = FALSE /\ dhcp_lease_init_debounce' = FALSE

\* The last object stops the watcher, with a callback that is due.
osn_dhcp_server_del(s) ==
    /\ RemoveServer(s)
    /\ IF watching /\ dhcp_server_list' = <<>>
         THEN watching' = FALSE /\ fed' = FALSE /\ dhcp_lease_init_debounce' = FALSE
         ELSE UNCHANGED <<watching, fed, dhcp_lease_init_debounce>>

osn_dhcp_server_status_notify(s) ==
    /\ s \in ToSet(dhcp_server_list) /\ ~ds_status_fn[s]
    /\ ds_status_fn' = [ds_status_fn EXCEPT ![s] = TRUE]
    /\ UNCHANGED <<fileVars, dhcp_server_list, ds_leases, ds_range_list, watchVars,
                   dhcpGhosts, created, parseFailures>>

SetRanges(s, ranges) ==
    /\ s \in ToSet(dhcp_server_list)
    /\ ds_range_list' = [ds_range_list EXCEPT ![s] = ranges]
    /\ UNCHANGED <<fileVars, dhcp_server_list, ds_leases, ds_status_fn, watchVars,
                   dhcpGhosts, created, parseFailures>>

\* A range that is there already, or is not there, is no error.
osn_dhcp_server_range_add(s, r) == SetRanges(s, ds_range_list[s] \cup {r})
osn_dhcp_server_range_del(s, r) == SetRanges(s, ds_range_list[s] \ {r})

-----------------------------------------------------------------------------
(* The lease file.                                                         *)

dhcp_server_lease_parse_line(line) == line # Garbage

lease_exists(leases, dl) == \E i \in DOMAIN leases : leases[i].client = dl.client

dhcp_server_lease_add(leases, dl) ==
    IF lease_exists(leases, dl) THEN leases ELSE Append(leases, dl)

\* Mutated form: a lease that is there already is added again.
LeasesInTwice(content) ==
    LET Read(leases, line) ==
          IF dhcp_server_lease_parse_line(line) THEN Append(leases, line) ELSE leases
    IN  FoldLeft(Read, <<>>, content)

\* The loop of dhcp_lease_parse: a line that is no lease is skipped.
LeasesIn(content) ==
    LET Read(leases, line) ==
          IF dhcp_server_lease_parse_line(line) THEN dhcp_server_lease_add(leases, line)
                                                ELSE leases
    IN  FoldLeft(Read, <<>>, content)

\* All caches are cleared, then the lines go to the first object of the list.
dhcp_server_find_by_lease == Head(dhcp_server_list)

Cleared == [s \in Servers |-> <<>>]

Parsed ==
    IF dhcp_server_list = <<>>
      THEN Cleared
      ELSE [Cleared EXCEPT ![dhcp_server_find_by_lease] = LeasesIn(file)]

dhcp_server_status_dispatch ==
    told' = [s \in Servers |-> IF s \in ToSet(dhcp_server_list) /\ ds_status_fn[s]
                                 THEN ds_leases'[s] ELSE told[s]]

\* dhcp_lease_parse: a file that is not there, or cannot be opened or locked,
\* leaves the caches empty, and its callers ignore the result.
dhcp_lease_parse ==
    \/ /\ file # NoFile
       /\ ds_leases' = Parsed
       /\ lastRead' = "ok"
       /\ UNCHANGED parseFailures
    \/ /\ file = NoFile
       /\ ds_leases' = Cleared
       /\ lastRead' = "ok"
       /\ UNCHANGED parseFailures
    \/ /\ file # NoFile
       /\ parseFailures < MaxParseFailures
       /\ parseFailures' = parseFailures + 1
       /\ ds_leases' = Cleared
       /\ lastRead' = "failed"

\* The watcher looks at the file from time to time.
WatcherPolls ==
    /\ watching /\ ~fed
    /\ attr # Stat
    /\ attr' = Stat
    /\ fed' = TRUE
    /\ UNCHANGED <<fileVars, serverVars, watching, dhcp_lease_init_debounce, dhcpGhosts,
                   created, parseFailures>>

\* What the watcher saw may be gone by now: it decides whether to parse, and
\* the parse reads what is there.
dhcp_lease_onchange ==
    /\ fed
    /\ fed' = FALSE
    /\ IF attr.st_nlink
         THEN dhcp_lease_parse
         ELSE ds_leases' = Cleared /\ lastRead' = "ok" /\ UNCHANGED parseFailures
    /\ dhcp_server_status_dispatch
    /\ orphaned' = FALSE
    /\ UNCHANGED <<fileVars, dhcp_server_list, ds_status_fn, ds_range_list, attr,
                   watching, dhcp_lease_init_debounce, created>>

\* The debounce timer ends.
dhcp_lease_init ==
    /\ dhcp_lease_init_debounce
    /\ dhcp_lease_init_debounce' = FALSE
    /\ dhcp_lease_parse
    /\ dhcp_server_status_dispatch
    /\ orphaned' = FALSE
    /\ UNCHANGED <<fileVars, dhcp_server_list, ds_status_fn, ds_range_list, attr,
                   watching, fed, created>>

DhcpNext ==
    \/ WriteFile
    \/ \E s \in Servers :
         \/ osn_dhcp_server_new(s)
         \/ osn_dhcp_server_del(s)
         \/ osn_dhcp_server_status_notify(s)
         \/ \E r \in Ranges : osn_dhcp_server_range_add(s, r)
                              \/ osn_dhcp_server_range_del(s, r)
    \/ WatcherPolls
    \/ dhcp_lease_onchange
    \/ dhcp_lease_init

-----------------------------------------------------------------------------
(* Properties.                                                             *)

DhcpTypeOK ==
    /\ file \in Files /\ writes \in 0 .. MaxWrites
    /\ dhcp_server_list \in Seq(Servers) /\ IsInjective(dhcp_server_list)
    /\ ds_leases \in [Servers -> Seq(Lease)]
    /\ ds_status_fn \in [Servers -> BOOLEAN]
    /\ ds_range_list \in [Servers -> SUBSET Ranges]
    /\ attr \in [seen : 0 .. MaxWrites, st_nlink : BOOLEAN]
    /\ watching \in BOOLEAN /\ fed \in BOOLEAN
    /\ dhcp_lease_init_debounce \in BOOLEAN
    /\ \A s \in Servers : told[s] = NotTold \/ told[s] \in Seq(Lease)
    /\ lastRead \in {"none", "ok", "failed"} /\ orphaned \in BOOLEAN
    /\ created \in 0 .. MaxCreated /\ parseFailures \in 0 .. MaxParseFailures

LeasesOf(content) ==
    IF content = NoFile
      THEN {}
      ELSE {l.client : l \in ToSet(content) \ {Garbage}}

Told(s) == IF told[s] = NotTold THEN <<>> ELSE told[s]

\* The users of the objects were told, together, exactly the clients of the
\* file, and none of them twice.
Current ==
    /\ {dl.client : dl \in UNION {ToSet(Told(s)) : s \in Servers}} = LeasesOf(file)
    /\ \A s, t \in Servers : \A i \in DOMAIN Told(s), j \in DOMAIN Told(t) :
         Told(s)[i].client = Told(t)[j].client => s = t /\ i = j

\* The last parse did not fail, and the first object, which was given the
\* leases, is still there and has a callback.
Readable ==
    /\ dhcp_server_list # <<>>
    /\ lastRead = "ok" /\ ~orphaned
    /\ told[Head(dhcp_server_list)] # NotTold

\* When the watcher has seen the file as it is and neither its callback nor the
\* debounce timer is due, the users have the leases of the file: also when it
\* was rewritten or removed between the watcher's look, its callback and the
\* parse, and when objects came and went since.
CurrentWhenQuiet ==
    Readable /\ attr = Stat /\ ~fed /\ ~dhcp_lease_init_debounce => Current
=============================================================================
