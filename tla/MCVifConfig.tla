----------------------------- MODULE MCVifConfig -----------------------------
(* The fields of the requests change in groups: the security with one key  *)
(* beside the SSID, several keys beside the access control list            *)
(* (MCVifConfig.cfg), and a request for a key management the HAL does not  *)
(* have (MCVifConfigDpp.cfg).  Stations join a network with and without a  *)
(* parent, or one of two credentials.                                      *)
(*                                                                         *)
(* Builds: the default one, one with several keys whose home APs are       *)
(* synchronized, and one with HAL 3 phase 2.  A home AP matters where it   *)
(* is not synchronized; its list then is its owner's.  Other lists are     *)
(* empty at the start.                                                     *)
EXTENDS StaConfig

CONSTANTS s1, s2, k1, k2, m1, m2, m3, b1, b2

MCSsids == {s1, s2}
MCKeys == {k1, k2}
MCMacs == {m1, m2, m3}
MCBuilds == {[multi_psk |-> FALSE, phase2 |-> FALSE, home_acls |-> FALSE],
             [multi_psk |-> TRUE, phase2 |-> FALSE, home_acls |-> TRUE],
             [multi_psk |-> TRUE, phase2 |-> TRUE, home_acls |-> FALSE]}
MCKeyMgmts == {{}, {"wpa-psk"}, {"sae"}, {"wpa-psk", "sae"}, {"wpa-eap"}}
MCKeyMgmtsDpp == {{}, {"wpa-psk"}, {"dpp"}}

Base == [wpa |-> TRUE, wpa_key_mgmt |-> {"wpa-psk"}, wpa_pairwise |-> FALSE,
         rsn_pairwise |-> TRUE, pmf |-> FALSE, wpa_psks |-> <<k1>>, ssid |-> s1,
         ssid_broadcast |-> TRUE, other |-> FALSE, mac_list_type |-> "none",
         mac_list |-> {}]

Opened(c) == [c EXCEPT !.wpa = FALSE, !.wpa_key_mgmt = {}, !.wpa_psks = <<>>]

Secured ==
    {[Base EXCEPT !.wpa_key_mgmt = kms, !.wpa_psks = <<k>>] :
       kms \in KeyMgmts \ {{}}, k \in Keys}
    \cup {[Base EXCEPT !.wpa_pairwise = TRUE, !.rsn_pairwise = rsn] : rsn \in BOOLEAN}
    \cup {[Base EXCEPT !.pmf = TRUE]}

\* Keys are optional for an enterprise network.
Enterprise == [Base EXCEPT !.wpa_key_mgmt = {"wpa-eap"}, !.wpa_psks = <<>>]

MCRequests ==
    Secured \cup {Opened(Base), Enterprise}
    \cup {[c EXCEPT !.ssid = s2] : c \in {Base, Opened(Base)}}
    \cup {[Base EXCEPT !.ssid_broadcast = FALSE, !.other = TRUE]}

MCRequestsPsk ==
    {Base, Opened(Base)}
    \cup {[c EXCEPT !.mac_list_type = "whitelist", !.mac_list = list] :
            c \in {Base, [Base EXCEPT !.wpa_psks = <<k1, k2>>], Opened(Base)},
            list \in {{m1, m2}, {m2, m3}}}
    \cup {[Base EXCEPT !.wpa_psks = psks] : psks \in {<<k2>>, <<k2, k1>>}}

MCRequestsAll == MCRequests \cup MCRequestsPsk

MCBssids == {b1, b2}
MCCredentials == {[ssid |-> s1, key |-> k1], [ssid |-> s2, key |-> k2]}

BaseSta == [enabled |-> TRUE, ssid |-> s1, parent |-> b1, mode |-> "2", key |-> k1,
            cconfs |-> [ssid |-> s1, key |-> k1]]

MCStaRequests ==
    {[BaseSta EXCEPT !.ssid = ssid, !.parent = parent] :
       ssid \in {Unset, s1, s2}, parent \in {Unset, b1, b2}}
    \cup {[BaseSta EXCEPT !.ssid = Unset, !.cconfs = c, !.enabled = e] :
            c \in MCCredentials, e \in BOOLEAN}
    \cup {[BaseSta EXCEPT !.mode = mode, !.key = k] :
            mode \in StaModes \cup {Unset}, k \in MCKeys}

MCRequestsDpp == {Base, Opened(Base), [Base EXCEPT !.wpa_key_mgmt = {"dpp"}]}

MCInit ==
    /\ Init
    /\ build.home_acls => ~home_ap
    /\ IF SyncsAcls THEN hwAcl = {} ELSE hwAcl = {m1} /\ hw.mac_filter = "blacklist"

MCSpec == MCInit /\ [][Next]_vars
====
