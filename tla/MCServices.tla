----------------------------- MODULE MCServices -----------------------------
(* Small instances of the services.  Scans: two channels and two access    *)
(* points, with two SSIDs on one channel, on both channels, listed twice,  *)
(* and a table that does not fit the array.  Counters: two of one client,  *)
(* and words of 300: an amount of 301 does not fit, the survey counters    *)
(* start just below and wrap.                                              *)
EXTENDS Services

CONSTANTS s1, s2, c1, c2, r1, p1, k1, k2, rule1, rule2, a, b,
          ch1, ch2, b1, b2, net, guest, none

MCServers == {s1, s2}
MCClients == {c1, c2}
MCRanges == {r1}

L(c, t) == [client |-> c, time |-> t]
MCFiles == {NoFile, <<>>, <<L(c1, 1)>>,
            <<L(c2, 1), Garbage, L(c1, 1), L(c2, 2)>>}

MCProcs == {p1}
MCConns == {k1, k2}

MCRules == {rule1, rule2}
MCLanSettings == {a, b}
MCLanChanges == {{"inet_addr", "range"}, {"netmask"}, {"range"}, {"options"}}

\* Two lease times of less than an hour between them.
MCAsOptions == [v \in MCLanSettings |-> a]

MCChans == {ch1, ch2}
MCBssids == {b1, b2}
MCSsids == {net, guest}

Seen(bssid, ssid, chan) == [bssid |-> bssid, ssid |-> ssid, chan |-> chan]

MCTables ==
    LET cached == <<Seen(b2, net, ch2), Seen(b1, net, ch1), Seen(b2, net, ch2)>>
    IN  {<<>>,
         <<Seen(b1, net, ch1), Seen(b1, guest, ch1)>>,
         <<Seen(b1, net, ch1), Seen(b1, net, ch2), Seen(b2, net, ch1)>>,
         cached,
         cached \o <<Seen(b2, guest, ch1)>>}

MCCounters == {"tx", "rx"}
MCAmounts == {1, 301}
MCTimes == {1, 3}

\* The connector starts with one rule at most, the RDK with another one and with
\* other LAN settings.
MCInit ==
    /\ Init
    /\ conf["portforward"] \subseteq {rule2} /\ conf["reservation"] = {}
    /\ UNION {table[k] : k \in Kinds} \subseteq {[idx |-> 1, rule |-> rule1]}
    /\ lan["range"] = a /\ rdkLan["range"] = b

MCSpec == MCInit /\ [][Next]_vars /\ Fairness
=============================================================================
