------------------------------ MODULE VifConfig ------------------------------
(***************************************************************************)
(* target_vif_config_set2 (vif.c): one configuration request for an AP,    *)
(* from the reading of its vap_info to wifi_createVAP.                     *)
(*                                                                         *)
(* The handler changes a copy of vap_info and hands it to the driver at    *)
(* the end, but on the way it already pushes further pre-shared keys,      *)
(* tells the Mesh-Agent about the SSID and the security, and edits the     *)
(* access control list entry by entry.  Nearly every failure is logged and *)
(* passed over, so a request may be applied in parts.                      *)
(*                                                                         *)
(* The fields that are copied and have no other effect (enabled, ap_bridge,*)
(* rrm, btm, uapsd_enable, bridge, mcast2ucast) are one field, "other".    *)
(* What follows the handler is in VifState; VAPs that are stations are in  *)
(* StaConfig, which has the specification of both.                         *)
(*                                                                         *)
(* The build options are variables that no step changes, so that a run     *)
(* checks several builds.                                                  *)
(***************************************************************************)
EXTENDS Naturals, Sequences

CONSTANTS
    Ssids, Keys, Macs,
    KeyMgmts,           \* values of wpa_key_mgmt requests may have
    Builds,             \* combinations of build options to check
    Requests,           \* the configurations that are requested
    MaxRequests,        \* bound: configuration requests
    MaxFailures         \* bound: failing HAL calls and sync messages

ASSUME ConstantsAssumption ==
    /\ KeyMgmts \subseteq SUBSET {"wpa-psk", "sae", "wpa-eap", "dpp"}
    /\ {} \in KeyMgmts
    /\ Builds \subseteq [multi_psk : BOOLEAN, phase2 : BOOLEAN, home_acls : BOOLEAN]
    /\ MaxRequests \in Nat /\ MaxFailures \in Nat

Modes == {"none", "wpa", "wpa2", "wpa_wpa2", "wpa3", "wpa3_transition",
          "wpa2_enterprise"}

MacFilters == {"none", "whitelist", "blacklist"}

\* Wifi_VIF_Config.  An open network has no key management and no keys, as
\* vif_external_security_update writes it, and only an enterprise network may
\* do without keys otherwise.
VifConf ==
    {c \in [wpa : BOOLEAN, wpa_key_mgmt : KeyMgmts, wpa_pairwise : BOOLEAN,
            rsn_pairwise : BOOLEAN, pmf : BOOLEAN,
            wpa_psks : {<<>>} \cup {<<k>> : k \in Keys}
                       \cup {<<k, l>> : k \in Keys, l \in Keys},
            ssid : Ssids, ssid_broadcast : BOOLEAN, other : BOOLEAN,
            mac_list_type : MacFilters,
            mac_list : SUBSET Macs] :
        /\ c.wpa <=> c.wpa_key_mgmt # {}
        /\ ~c.wpa => c.wpa_psks = <<>>
        /\ c.wpa_psks = <<>> => c.wpa_key_mgmt \subseteq {"wpa-eap"}}

VapInfo == [mode : Modes, mfp : BOOLEAN, key : Keys, ssid : Ssids,
            showSsid : BOOLEAN, other : BOOLEAN,
            mac_filter : MacFilters]

ASSUME RequestsAssumption == Requests \subseteq VifConf

VARIABLES
    build,              \* multi_psk: keys beyond the first, and no security
                        \*            messages to the Mesh-Agent
                        \* phase2: WIFI_HAL_VERSION_3_PHASE2
                        \* home_acls: CONFIG_RDK_SYNC_EXT_HOME_ACLS
    home_ap,            \* is_home_ap: the VAP is the owner's home network
    hw,                 \* the driver's vap_info
    hwAcl, hwKeys,      \* its access control list, its keys beyond the first
    vconf, changed,     \* the request, and the fields it changes
    pc,                 \* where the handler is
    vap_info,           \* the handler's copy
    trigger_reconfig,
    acl_list, todo,     \* the list as the handler read it, entries to handle
    cached_key_ids,     \* (the id of) the first key
    mesh,               \* what the Mesh-Agent was told last
    failed,             \* some HAL call or message failed so far
    requests, failures

driverVars == <<hw, hwAcl, hwKeys>>
requestVars == <<vconf, changed>>
localVars == <<vap_info, trigger_reconfig, acl_list, todo>>
boundVars == <<failed, requests, failures>>
fixedVars == <<build, home_ap>>
apVars == <<fixedVars, driverVars, requestVars, pc, localVars, cached_key_ids, mesh, boundVars>>

Fails ==
    /\ failures < MaxFailures
    /\ failures' = failures + 1
    /\ failed' = TRUE

NoFailure == UNCHANGED <<failed, failures>>

\* Without the option the access control list of a home AP is another owner's.
SyncsAcls == build.home_acls \/ ~home_ap

-----------------------------------------------------------------------------
(* Security modes.                                                         *)

\* strstr finds "" in every string, so "no key management" matches any
\* request, not only the empty one.
security_wpa_key_mgmt_match(c, key_mgmt) ==
    key_mgmt = "" \/ key_mgmt \in c.wpa_key_mgmt

security_key_mgmt_ovsdb_to_hal(c) ==
    LET Match(key_mgmt) == security_wpa_key_mgmt_match(c, key_mgmt)
    IN  CASE Match("wpa-psk") /\ Match("sae") -> "wpa3_transition"
          [] Match("sae") /\ ~Match("wpa-psk") -> "wpa3"
          [] Match("wpa-eap") /\ ~Match("sae") -> "wpa2_enterprise"
          [] Match("wpa-psk") /\ ~Match("sae") /\ ~Match("wpa-eap") ->
               (CASE c.wpa_pairwise /\ c.rsn_pairwise -> "wpa_wpa2"
                  [] c.wpa_pairwise /\ ~c.rsn_pairwise -> "wpa"
                  [] ~c.wpa_pairwise /\ c.rsn_pairwise -> "wpa2"
                  [] OTHER -> "none")
          [] OTHER -> IF Match("") THEN "none" ELSE "unsupported"

\* The mode in a message to the Mesh-Agent; "" is a message without one.
security_key_mgmt_ovsdb_to_sync(c) ==
    LET mode == security_key_mgmt_ovsdb_to_hal(c)
    IN  IF security_wpa_key_mgmt_match(c, "wpa-psk") /\ mode \in Modes \ {"none"}
          THEN mode ELSE ""

\* Mutated form: the transition mode is taken for SAE alone.
security_key_mgmt_hal_to_ovsdb_sae(mode) ==
    [wpa_key_mgmt |->
       CASE mode \in {"wpa", "wpa2", "wpa_wpa2"} -> {"wpa-psk"}
         [] mode \in {"wpa3", "wpa3_transition"} -> {"sae"}
         [] mode = "wpa2_enterprise" -> {"wpa-eap"}
         [] OTHER -> {},
     wpa_pairwise |-> mode \in {"wpa", "wpa_wpa2"},
     rsn_pairwise |-> mode \notin {"wpa", "none"}]

\* What the driver's mode is in the terms of a configuration, as
\* vif_external_security_update and the VIF state have it.
security_key_mgmt_hal_to_ovsdb(mode) ==
    [wpa_key_mgmt |->
       CASE mode \in {"wpa", "wpa2", "wpa_wpa2"} -> {"wpa-psk"}
         [] mode = "wpa3" -> {"sae"}
         [] mode = "wpa3_transition" -> {"wpa-psk", "sae"}
         [] mode = "wpa2_enterprise" -> {"wpa-eap"}
         [] OTHER -> {},
     wpa_pairwise |-> mode \in {"wpa", "wpa_wpa2"},
     rsn_pairwise |-> mode \notin {"wpa", "none"}]

-----------------------------------------------------------------------------
(* What is read back from the driver.                                      *)

\* Pairs of an id and a key; the first key's id is in the library only.
get_psks ==
    LET Pair(k) == <<k, k>>
    IN  <<<<cached_key_ids, hw.key>>>>
          \o (IF build.multi_psk THEN [i \in DOMAIN hwKeys |-> Pair(hwKeys[i])] ELSE <<>>)

\* The security of Wifi_VIF_State.
get_security ==
    [wpa |-> hw.mode # "none", pmf |-> hw.mfp,
     wpa_psks |-> IF hw.mode \in {"none", "wpa2_enterprise"} THEN <<>> ELSE get_psks]

\* Both versions of it: that of HAL 3 phase 2 shows every VAP's list.
acl_to_state ==
    IF build.phase2 \/ SyncsAcls
      THEN [mac_list_type |-> hw.mac_filter, mac_list |-> hwAcl]
      ELSE [mac_list_type |-> "", mac_list |-> {}]

get_acl_list == hwAcl

\* What Wifi_VIF_Config is told when the Mesh-Agent reports that the owner of
\* the driver's configuration changed the security.
vif_external_security_update == security_key_mgmt_hal_to_ovsdb(hw.mode)

-----------------------------------------------------------------------------
\* OpenSync has read the AP.  Requests without security, with several keys or
\* with other key management come later.  A list that is another owner's may be
\* any.
ApInit ==
    \E c \in Requests, filter \in MacFilters :
      /\ build \in Builds /\ home_ap \in BOOLEAN
      /\ Len(c.wpa_psks) = 1
      /\ vconf = c
      /\ c.wpa /\ "dpp" \notin c.wpa_key_mgmt
      /\ vap_info = [mode |-> security_key_mgmt_ovsdb_to_hal(c),
                     mfp |-> c.pmf, key |-> Head(c.wpa_psks), ssid |-> c.ssid,
                     showSsid |-> c.ssid_broadcast, other |-> c.other,
                     mac_filter |-> filter]
      /\ hw = vap_info
      /\ hwAcl \in SUBSET Macs
      /\ SyncsAcls => filter = c.mac_list_type /\ hwAcl = c.mac_list
      /\ hwKeys = Tail(c.wpa_psks)
      /\ changed = {}
      /\ pc = "idle"
      /\ trigger_reconfig = FALSE
      /\ acl_list = {} /\ todo = {}
      /\ cached_key_ids = hw.key
      /\ mesh = [ssid |-> hw.ssid, showSsid |-> hw.showSsid,
                 secMode |-> security_key_mgmt_ovsdb_to_sync(c),
                 passphrase |-> <<hw.key>>]
      /\ failed = FALSE
      /\ requests = 0 /\ failures = 0

-----------------------------------------------------------------------------
(* The handler.                                                            *)

\* A request arrives and vap_info is read; if that fails nothing is done.
target_vif_config_set2(c) ==
    /\ pc = "idle"
    /\ requests < MaxRequests
    /\ requests' = requests + 1
    /\ c # vconf
    /\ Len(c.wpa_psks) > 1 => build.multi_psk
    /\ vconf' = c
    /\ changed' = {f \in DOMAIN c : c[f] # vconf[f]}
    /\ \/ /\ vap_info' = hw
          /\ pc' = "security"
          /\ NoFailure
       \/ Fails /\ UNCHANGED <<vap_info, pc>>
    /\ trigger_reconfig' = FALSE
    /\ UNCHANGED <<driverVars, acl_list, todo, cached_key_ids, mesh>>

\* A message to the Mesh-Agent, which is lost when it cannot be sent.
Send(told) ==
    \/ mesh' = told /\ NoFailure
    \/ Fails /\ UNCHANGED mesh

sync_send_ssid_change == Send([mesh EXCEPT !.ssid = vconf.ssid])

sync_send_ssid_broadcast_change == Send([mesh EXCEPT !.showSsid = vconf.ssid_broadcast])

sync_send_security_change(secMode, passphrase) ==
    Send([mesh EXCEPT !.secMode = secMode, !.passphrase = passphrase])

SendSecurity(secMode) ==
    IF build.multi_psk
      THEN NoFailure /\ UNCHANGED mesh
      ELSE sync_send_security_change(secMode,
               IF vconf.wpa_psks = <<>> THEN <<>> ELSE <<Head(vconf.wpa_psks)>>)

\* Mutated form: the key is forgotten, although the driver keeps it.
SetOpenForgetsKey ==
    /\ pc = "security"
    /\ "wpa" \in changed /\ ~vconf.wpa
    /\ vap_info' = [vap_info EXCEPT !.mode = "none"]
    /\ trigger_reconfig' = TRUE
    /\ SendSecurity("none")
    /\ cached_key_ids' = ""
    /\ pc' = "ssid_broadcast"
    /\ UNCHANGED <<driverVars, requestVars, acl_list, todo, requests>>

\* set_security when the network is opened: nothing else is looked at.
SetOpen ==
    /\ pc = "security"
    /\ "wpa" \in changed /\ ~vconf.wpa
    /\ vap_info' = [vap_info EXCEPT !.mode = "none"]
    /\ trigger_reconfig' = TRUE
    /\ SendSecurity("none")
    /\ pc' = "ssid_broadcast"
    /\ UNCHANGED <<driverVars, requestVars, acl_list, todo, cached_key_ids, requests>>

SecurityFields == {"wpa_key_mgmt", "wpa_pairwise", "rsn_pairwise", "pmf"}

\* Mutated form: the message is sent for a change of the mode only.
SetSecurityModeMessage ==
    LET mode == security_key_mgmt_ovsdb_to_hal(vconf)
        newMode == changed \cap SecurityFields # {}
        newKeys == "wpa_psks" \in changed /\ vconf.wpa_psks # <<>>
    IN  /\ pc = "security"
        /\ ~("wpa" \in changed /\ ~vconf.wpa)
        /\ vap_info' = [vap_info EXCEPT
                          !.mode = IF newMode THEN mode ELSE @,
                          !.mfp = IF newMode THEN vconf.pmf ELSE @,
                          !.key = IF newKeys THEN Head(vconf.wpa_psks) ELSE @]
        /\ cached_key_ids' = IF newKeys THEN Head(vconf.wpa_psks) ELSE cached_key_ids
        /\ hwKeys' = IF newKeys THEN Tail(vconf.wpa_psks) ELSE hwKeys
        /\ trigger_reconfig' = (trigger_reconfig \/ newMode \/ newKeys)
        /\ IF newMode
             THEN SendSecurity(security_key_mgmt_ovsdb_to_sync(vconf))
             ELSE NoFailure /\ UNCHANGED mesh
        /\ pc' = "ssid_broadcast"
        /\ UNCHANGED <<hw, hwAcl, requestVars, acl_list, todo, requests>>

\* set_security otherwise: the mode, then the keys, then one message.  A mode
\* that cannot be decoded ends it.  Keys that cannot be pushed do not count as
\* a change, although the copy and cached_key_ids have the new key by then.
SetSecurity ==
    LET mode == security_key_mgmt_ovsdb_to_hal(vconf)
        decode == changed \cap SecurityFields # {}
        newMode == decode /\ mode # "unsupported"
        newKeys == /\ "wpa_psks" \in changed /\ vconf.wpa_psks # <<>>
                   /\ decode => newMode
        key == Head(vconf.wpa_psks)
    IN  /\ pc = "security"
        /\ ~("wpa" \in changed /\ ~vconf.wpa)
        /\ vap_info' = [vap_info EXCEPT !.mode = IF newMode THEN mode ELSE @,
                                        !.mfp = IF newMode THEN vconf.pmf ELSE @,
                                        !.key = IF newKeys THEN key ELSE @]
        /\ cached_key_ids' = IF newKeys THEN key ELSE cached_key_ids
        /\ \/ /\ hwKeys' = IF newKeys THEN Tail(vconf.wpa_psks) ELSE hwKeys
              /\ trigger_reconfig' = (trigger_reconfig \/ newMode \/ newKeys)
              /\ IF newMode \/ newKeys
                   THEN SendSecurity(security_key_mgmt_ovsdb_to_sync(vconf))
                   ELSE NoFailure /\ UNCHANGED mesh
           \/ /\ build.multi_psk /\ newKeys
              /\ Fails
              /\ trigger_reconfig' = (trigger_reconfig \/ newMode)
              /\ UNCHANGED <<hwKeys, mesh>>
        /\ pc' = "ssid_broadcast"
        /\ UNCHANGED <<hw, hwAcl, requestVars, acl_list, todo, requests>>

\* The fields without side effects and ssid_broadcast.  A value that is neither
\* "enabled" nor "disabled" would end the handler; no row has one.
SetSsidBroadcast ==
    /\ pc = "ssid_broadcast"
    /\ vap_info' = [vap_info EXCEPT
                      !.other = IF "other" \in changed THEN vconf.other ELSE @,
                      !.showSsid = IF "ssid_broadcast" \in changed
                                     THEN vconf.ssid_broadcast ELSE @]
    /\ IF "ssid_broadcast" \in changed
         THEN sync_send_ssid_broadcast_change
         ELSE NoFailure /\ UNCHANGED mesh
    /\ trigger_reconfig' = (trigger_reconfig \/ changed \cap {"other", "ssid_broadcast"} # {})
    /\ pc' = "ssid"
    /\ UNCHANGED <<driverVars, requestVars, acl_list, todo, cached_key_ids, requests>>

\* Mutated form: the copy is not a reason to call wifi_createVAP.
SetSsidUntriggered ==
    /\ pc = "ssid"
    /\ vap_info' = [vap_info EXCEPT !.ssid = IF "ssid" \in changed
                                               THEN vconf.ssid ELSE @]
    /\ mesh' = [mesh EXCEPT !.ssid = vap_info'.ssid]
    /\ pc' = "acl"
    /\ UNCHANGED <<driverVars, requestVars, trigger_reconfig, acl_list, todo,
                   cached_key_ids, boundVars>>

SetSsid ==
    /\ pc = "ssid"
    /\ IF "ssid" \in changed
         THEN /\ vap_info' = [vap_info EXCEPT !.ssid = vconf.ssid]
              /\ trigger_reconfig' = TRUE
              /\ sync_send_ssid_change
         ELSE NoFailure /\ UNCHANGED <<vap_info, trigger_reconfig, mesh>>
    /\ pc' = "acl"
    /\ UNCHANGED <<driverVars, requestVars, acl_list, todo, cached_key_ids, requests>>

\* acl_apply: the filter goes into vap_info.  A changed list is compared with
\* the driver's, which may be unreadable; with HAL 3 phase 2 the driver's is
\* flushed, in vain perhaps, and the whole list is added.  Home APs are left
\* alone unless their lists are synchronized.
acl_apply ==
    LET filter == SyncsAcls /\ "mac_list_type" \in changed
        list == SyncsAcls /\ "mac_list" \in changed
    IN  /\ pc = "acl"
        /\ vap_info' = [vap_info EXCEPT
                          !.mac_filter = IF filter THEN vconf.mac_list_type ELSE @]
        /\ trigger_reconfig' = (trigger_reconfig \/ filter)
        /\ \/ /\ ~list
              /\ pc' = "create"
              /\ UNCHANGED <<acl_list, todo, hwAcl>> /\ NoFailure
           \/ /\ list /\ build.phase2
              /\ todo' = vconf.mac_list
              /\ pc' = "acl_add"
              /\ \/ hwAcl' = {} /\ NoFailure
                 \/ Fails /\ UNCHANGED hwAcl
              /\ UNCHANGED acl_list
           \/ /\ list /\ ~build.phase2
              /\ \/ /\ acl_list' = get_acl_list
                    /\ todo' = get_acl_list \ vconf.mac_list
                    /\ pc' = "acl_remove"
                    /\ NoFailure
                 \/ Fails /\ pc' = "create" /\ UNCHANGED <<acl_list, todo>>
              /\ UNCHANGED hwAcl
        /\ UNCHANGED <<hw, hwKeys, requestVars, cached_key_ids, mesh, requests>>

\* remove_not_needed_acls, one entry.
AclRemove(m) ==
    /\ pc = "acl_remove"
    /\ m \in todo
    /\ todo' = todo \ {m}
    /\ \/ hwAcl' = hwAcl \ {m} /\ NoFailure
       \/ Fails /\ UNCHANGED hwAcl
    /\ UNCHANGED <<hw, hwKeys, requestVars, pc, vap_info, trigger_reconfig,
                   acl_list, cached_key_ids, mesh, requests>>

\* Mutated form: the list is flushed and the whole request added.
AclRemovedFlush ==
    /\ pc = "acl_remove"
    /\ hwAcl' = {}
    /\ todo' = vconf.mac_list
    /\ pc' = "acl_add"
    /\ UNCHANGED <<hw, hwKeys, requestVars, vap_info, trigger_reconfig, acl_list,
                   cached_key_ids, mesh, boundVars>>

\* The entries to add are found with the list that was read at the start.
AclRemoved ==
    /\ pc = "acl_remove"
    /\ todo = {}
    /\ todo' = vconf.mac_list \ acl_list
    /\ pc' = "acl_add"
    /\ UNCHANGED <<driverVars, requestVars, vap_info, trigger_reconfig, acl_list,
                   cached_key_ids, mesh, boundVars>>

\* add_needed_acls, or the loop of HAL 3 phase 2, one entry.
AclAdd(m) ==
    /\ pc = "acl_add"
    /\ m \in todo
    /\ todo' = todo \ {m}
    /\ \/ hwAcl' = hwAcl \cup {m} /\ NoFailure
       \/ Fails /\ UNCHANGED hwAcl
    /\ UNCHANGED <<hw, hwKeys, requestVars, pc, vap_info, trigger_reconfig,
                   acl_list, cached_key_ids, mesh, requests>>

AclAdded ==
    /\ pc = "acl_add"
    /\ todo = {}
    /\ pc' = "create"
    /\ UNCHANGED <<driverVars, requestVars, localVars, cached_key_ids, mesh, boundVars>>

\* wifi_createVAP, if there is a reason; its failure is logged.
CreateVap ==
    /\ pc = "create"
    /\ IF trigger_reconfig
         THEN \/ hw' = vap_info /\ NoFailure
              \/ Fails /\ UNCHANGED hw
         ELSE NoFailure /\ UNCHANGED hw
    /\ pc' = "idle"
    /\ UNCHANGED <<hwAcl, hwKeys, requestVars, localVars, cached_key_ids, mesh, requests>>

Step ==
    \/ \E c \in Requests : target_vif_config_set2(c)
    \/ SetOpen \/ SetSecurity \/ SetSsidBroadcast \/ SetSsid
    \/ acl_apply \/ AclRemoved \/ AclAdded
    \/ \E m \in Macs : AclRemove(m) \/ AclAdd(m)
    \/ CreateVap

ApNext == Step /\ UNCHANGED fixedVars

-----------------------------------------------------------------------------
(* Properties.                                                             *)

\* What the Mesh-Agent knows.
MeshInfo == [ssid : Ssids, showSsid : BOOLEAN, secMode : Modes \cup {""},
             passphrase : Seq(Keys)]

ApTypeOK ==
    /\ build \in Builds /\ home_ap \in BOOLEAN
    /\ hw \in VapInfo /\ vap_info \in VapInfo
    /\ hwAcl \subseteq Macs /\ hwKeys \in Seq(Keys)
    /\ vconf \in VifConf /\ changed \subseteq DOMAIN vconf
    /\ pc \in {"idle", "security", "ssid_broadcast", "ssid", "acl", "acl_remove",
               "acl_add", "create"}
    /\ trigger_reconfig \in BOOLEAN
    /\ acl_list \subseteq Macs /\ todo \subseteq Macs
    /\ cached_key_ids \in Keys
    /\ mesh \in MeshInfo
    /\ failed \in BOOLEAN
    /\ requests \in Nat /\ failures \in Nat

\* After a sequence of requests, each handled with the changed flags only, the
\* driver has everything the last one asks for, and Wifi_VIF_State shows every
\* key under the id it has: what an earlier request set is neither lost nor left behind,
\* also when the network was opened and closed again in between.  The access
\* control list of a home AP is excepted in builds that do not synchronize it.
RequestApplied ==
    pc = "idle" /\ ~failed
      => /\ <<hw.ssid, hw.showSsid, hw.other>>
              = <<vconf.ssid, vconf.ssid_broadcast, vconf.other>>
         /\ SyncsAcls => acl_to_state = [mac_list_type |-> vconf.mac_list_type,
                                         mac_list |-> vconf.mac_list]
         /\ hw.mode = security_key_mgmt_ovsdb_to_hal(vconf)
         /\ vconf.wpa => get_security.pmf = vconf.pmf
         /\ vconf.wpa_psks # <<>> => <<hw.key>> \o hwKeys = vconf.wpa_psks
         /\ hw.mode \notin {"none", "wpa2_enterprise"} =>
              get_security.wpa_psks =
                [i \in DOMAIN vconf.wpa_psks |-> <<vconf.wpa_psks[i], vconf.wpa_psks[i]>>]

\* Once a request was handled without a failure, the SSID, its visibility and
\* the security the Mesh-Agent was told, before wifi_createVAP was called, are
\* the driver's.  It is told of no mode for SAE and enterprise networks, and of
\* nothing at all in a build with CONFIG_RDK_DISABLE_SYNC.
MeshKnowsDriver ==
    pc = "idle" /\ ~failed
      => /\ <<mesh.ssid, mesh.showSsid>> = <<hw.ssid, hw.showSsid>>
         /\ hw.mode \in {"wpa", "wpa2", "wpa_wpa2", "wpa3_transition"} /\ ~build.multi_psk
              => mesh.secMode = hw.mode /\ mesh.passphrase = <<hw.key>>

\* Entries that a request leaves alone: those it names, or another owner's.
Staying == IF SyncsAcls THEN vconf.mac_list ELSE Macs

\* HAL 3 phase 2 flushes the list before it adds the new one, and between the
\* two every station is off it.
Flushing == build.phase2 /\ SyncsAcls /\ pc = "acl" /\ "mac_list" \in changed

\* Except by that flush, a station that stays on the list is never off it, not
\* even between two HAL calls and whatever fails: nobody is cut off by a change
\* made for others.  From the list of a home AP that is not synchronized
\* nothing is taken off at all, whatever is requested.
AclKeepsCommon == [][Flushing \/ hwAcl \cap Staying' \subseteq hwAcl']_apVars

\* A configuration adopted from the driver and requested again decodes to the
\* mode it came from.  Otherwise OpenSync and the owner of the driver's
\* configuration would change the network back and forth.
AdoptionIsStable ==
    hw.mode # "none"
      => security_key_mgmt_ovsdb_to_hal(vif_external_security_update) = hw.mode

\* "Only key mgmt modes combinations that can be reflected in RDK HAL API are
\* handled" (vif.c:822): a request with none but other modes, such as "dpp",
\* does not touch the security of the network, and so does not open it.
UnsupportedNotHandled ==
    [][ /\ vconf.wpa
        /\ vconf.wpa_key_mgmt \cap {"wpa-psk", "sae", "wpa-eap"} = {}
        => hw'.mode = hw.mode ]_apVars
=============================================================================
