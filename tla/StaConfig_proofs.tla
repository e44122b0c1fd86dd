-------------------------- MODULE StaConfig_proofs --------------------------
(***************************************************************************)
(* For any configurations, keys, stations and bounds: types, and what a    *)
(* configuration request does to the driver, its access control list and   *)
(* the Mesh-Agent, for an AP and for a station.                            *)
(*                                                                         *)
(* The handler applies only the fields that changed.  So at each place of  *)
(* the handler a field of its copy is either the requested one or still to *)
(* be handled, and then it is one that changed; a field that did not       *)
(* change was right before, because the last request was applied.  The     *)
(* copy differs from the driver's vap_info only when there is a reason to  *)
(* call wifi_createVAP.  The Mesh-Agent is told what goes into the copy.   *)
(***************************************************************************)
EXTENDS StaConfig, SequenceTheorems, TLAPS

\* What the driver has when the handler is done.
Copy == IF pc = "idle" THEN hw ELSE vap_info

SecurityLeft == pc = "security" /\ changed \cap SecurityFields # {}
KeysLeft == pc = "security" /\ "wpa_psks" \in changed

SecurityInv ==
    /\ SecurityLeft \/ Copy.mode = security_key_mgmt_ovsdb_to_hal(vconf)
    /\ vconf.wpa => SecurityLeft \/ Copy.mfp = vconf.pmf
    /\ vconf.wpa_psks # <<>> => KeysLeft \/ <<Copy.key>> \o hwKeys = vconf.wpa_psks
    /\ cached_key_ids = Copy.key

FieldsInv ==
    /\ \/ Copy.other = vconf.other
       \/ "other" \in changed /\ pc \in {"security", "ssid_broadcast"}
    /\ \/ Copy.showSsid = vconf.ssid_broadcast
       \/ "ssid_broadcast" \in changed /\ pc \in {"security", "ssid_broadcast"}
    /\ \/ Copy.ssid = vconf.ssid
       \/ "ssid" \in changed /\ pc \in {"security", "ssid_broadcast", "ssid"}
    /\ SyncsAcls =>
         \/ Copy.mac_filter = vconf.mac_list_type
         \/ /\ "mac_list_type" \in changed
            /\ pc \in {"security", "ssid_broadcast", "ssid", "acl"}

TriggerInv == pc # "idle" /\ ~trigger_reconfig => vap_info = hw

\* The handler looks at the list only if it is OpenSync's.
AclInv ==
    /\ SyncsAcls /\ pc \in {"idle", "create"} => hwAcl = vconf.mac_list
    /\ SyncsAcls /\ pc \in {"security", "ssid_broadcast", "ssid", "acl"}
          => hwAcl = vconf.mac_list \/ "mac_list" \in changed
    /\ pc = "acl_remove" => hwAcl = (acl_list \cap vconf.mac_list) \cup todo
    /\ pc = "acl_add" => hwAcl \cup todo = vconf.mac_list

\* The modes the Mesh-Agent is told.
PskModes == {"wpa", "wpa2", "wpa_wpa2", "wpa3_transition"}

MeshInv ==
    /\ mesh.ssid = Copy.ssid /\ mesh.showSsid = Copy.showSsid
    /\ Copy.mode \in PskModes /\ ~build.multi_psk
          => mesh.secMode = Copy.mode /\ mesh.passphrase = <<Copy.key>>

AppliedInv == ~failed => SecurityInv /\ FieldsInv /\ TriggerInv /\ AclInv /\ MeshInv

\* Whatever failed: entries to remove are of a list that is OpenSync's, and not
\* on the one that was requested, and more than one key is requested only of a
\* build that has them.
TodoApart == pc = "acl_remove" => SyncsAcls /\ todo \cap vconf.mac_list = {}
BuildInv == Len(vconf.wpa_psks) > 1 => build.multi_psk

-----------------------------------------------------------------------------
(* Configurations and security modes.                                      *)

ConfFields == {"wpa", "wpa_key_mgmt", "wpa_pairwise", "rsn_pairwise", "pmf",
               "wpa_psks", "ssid", "ssid_broadcast", "other", "mac_list_type",
               "mac_list"}

LEMMA ConfType ==
  ASSUME NEW c \in VifConf
  PROVE  /\ DOMAIN c = ConfFields
         /\ {c.wpa, c.wpa_pairwise, c.rsn_pairwise, c.pmf, c.ssid_broadcast, c.other}
               \subseteq BOOLEAN
         /\ c.wpa_key_mgmt \in KeyMgmts /\ c.ssid \in Ssids
         /\ c.mac_list_type \in MacFilters
         /\ c.mac_list \subseteq Macs
         /\ c.wpa <=> c.wpa_key_mgmt # {}
         /\ ~c.wpa => c.wpa_psks = <<>>
         /\ c.wpa_psks = <<>> => c.wpa_key_mgmt \subseteq {"wpa-eap"}
  BY DEF VifConf, ConfFields

\* A first key and the keys beyond it.
LEMMA KeysSplit ==
  ASSUME NEW key \in Keys, NEW beyond \in Seq(Keys)
  PROVE  /\ <<key>> \o beyond \in Seq(Keys)
         /\ Len(<<key>> \o beyond) = Len(beyond) + 1
         /\ (<<key>> \o beyond)[1] = key
         /\ \A i \in 1 .. Len(beyond) : (<<key>> \o beyond)[i + 1] = beyond[i]
<1> DEFINE s == <<key>>
<1>1. s \in Seq(Keys) /\ Len(s) = 1 /\ s[1] = key /\ Len(beyond) \in Nat
  OBVIOUS
<1> HIDE DEF s
<1>2. /\ s \o beyond \in Seq(Keys) /\ Len(s \o beyond) = Len(s) + Len(beyond)
      /\ \A i \in 1 .. Len(s) + Len(beyond) :
            (s \o beyond)[i] = IF i <= Len(s) THEN s[i] ELSE beyond[i - Len(s)]
  BY <1>1, ConcatProperties
<1>3. /\ Len(s \o beyond) = Len(beyond) + 1 /\ (s \o beyond)[1] = key
      /\ \A i \in 1 .. Len(beyond) : (s \o beyond)[i + 1] = beyond[i]
  BY <1>1, <1>2
<1> QED
  BY <1>2, <1>3 DEF s

LEMMA KeysJoin ==
  ASSUME NEW psks \in Seq(Keys), psks # <<>>
  PROVE  /\ Head(psks) \in Keys /\ Tail(psks) \in Seq(Keys)
         /\ <<Head(psks)>> \o Tail(psks) = psks
<1> DEFINE s == <<Head(psks)>> \o Tail(psks)
<1>1. /\ Head(psks) \in Keys /\ Tail(psks) \in Seq(Keys) /\ Head(psks) = psks[1]
      /\ Len(psks) \in Nat \ {0} /\ Len(Tail(psks)) = Len(psks) - 1
      /\ \A i \in 1 .. Len(psks) - 1 : Tail(psks)[i] = psks[i + 1]
  OBVIOUS
<1>2. /\ s \in Seq(Keys) /\ Len(s) = Len(psks) /\ s[1] = psks[1]
      /\ \A i \in 1 .. Len(psks) - 1 : s[i + 1] = psks[i + 1]
  BY <1>1, KeysSplit
<1> HIDE DEF s
<1>3. ASSUME NEW i \in 1 .. Len(s) PROVE s[i] = psks[i]
  <2>1. CASE i = 1
    BY <1>2, <2>1
  <2>2. CASE i # 1
    <3>1. i - 1 \in 1 .. Len(psks) - 1 /\ (i - 1) + 1 = i
      BY <1>1, <1>2, <2>2
    <3> QED
      BY <1>2, <3>1
  <2> QED
    BY <2>1, <2>2
<1>4. s = psks
  BY <1>2, <1>3, SeqEqual
<1> QED
  BY <1>1, <1>4 DEF s

LEMMA OneKey == <<>> \in Seq(Keys) /\ \A k \in Keys : <<k>> \in Seq(Keys)
  OBVIOUS

LEMMA KeysType ==
  ASSUME NEW c \in VifConf
  PROVE  c.wpa_psks \in Seq(Keys)
<1>1. c.wpa_psks \in {<<>>} \cup {<<k>> : k \in Keys}
                     \cup {<<k, l>> : k \in Keys, l \in Keys}
  BY DEF VifConf
<1>2. CASE c.wpa_psks = <<>>
  BY <1>2
<1>3. ASSUME NEW k \in Keys, c.wpa_psks = <<k>> PROVE c.wpa_psks \in Seq(Keys)
  BY <1>3
<1>4. ASSUME NEW k \in Keys, NEW l \in Keys, c.wpa_psks = <<k, l>>
      PROVE  c.wpa_psks \in Seq(Keys)
  BY <1>4
<1> QED
  BY <1>1, <1>2, <1>3, <1>4

\* Every configuration decodes to a mode: the one for none is always at hand.
LEMMA HalMode ==
  ASSUME NEW c \in VifConf
  PROVE  security_key_mgmt_ovsdb_to_hal(c) \in Modes
<1>1. c.wpa_pairwise \in BOOLEAN /\ c.rsn_pairwise \in BOOLEAN
  BY ConfType
<1> QED
  BY <1>1 DEF security_key_mgmt_ovsdb_to_hal, security_wpa_key_mgmt_match, Modes

\* An open network decodes to none, one without keys to none or enterprise, and
\* one whose keys the Mesh-Agent is told to the mode it is told.
LEMMA SyncMode ==
  ASSUME NEW c \in VifConf
  PROVE  /\ ~c.wpa => security_key_mgmt_ovsdb_to_hal(c) = "none"
         /\ c.wpa_psks = <<>> =>
               security_key_mgmt_ovsdb_to_hal(c) \in {"none", "wpa2_enterprise"}
         /\ security_key_mgmt_ovsdb_to_hal(c) \in PskModes =>
               /\ c.wpa_psks # <<>>
               /\ security_key_mgmt_ovsdb_to_sync(c) = security_key_mgmt_ovsdb_to_hal(c)
         /\ security_key_mgmt_ovsdb_to_sync(c) \in Modes \cup {""}
<1>1. /\ c.wpa_pairwise \in BOOLEAN /\ c.rsn_pairwise \in BOOLEAN
      /\ c.wpa <=> c.wpa_key_mgmt # {}
      /\ c.wpa_psks = <<>> => c.wpa_key_mgmt \subseteq {"wpa-eap"}
  BY ConfType
<1>2. ~c.wpa => security_key_mgmt_ovsdb_to_hal(c) = "none"
  BY <1>1 DEF security_key_mgmt_ovsdb_to_hal, security_wpa_key_mgmt_match
<1>3. security_key_mgmt_ovsdb_to_hal(c) \in PskModes => "wpa-psk" \in c.wpa_key_mgmt
  BY <1>1 DEF security_key_mgmt_ovsdb_to_hal, security_wpa_key_mgmt_match, PskModes
<1>4. c.wpa_psks = <<>> =>
         security_key_mgmt_ovsdb_to_hal(c) \in {"none", "wpa2_enterprise"}
  BY <1>1 DEF security_key_mgmt_ovsdb_to_hal, security_wpa_key_mgmt_match
<1>5. security_key_mgmt_ovsdb_to_hal(c) \in PskModes => c.wpa_psks # <<>>
  BY <1>4 DEF PskModes
<1>6. security_key_mgmt_ovsdb_to_hal(c) \in PskModes =>
         security_key_mgmt_ovsdb_to_sync(c) = security_key_mgmt_ovsdb_to_hal(c)
  BY <1>3 DEF security_key_mgmt_ovsdb_to_sync, security_wpa_key_mgmt_match, PskModes, Modes
<1>7. security_key_mgmt_ovsdb_to_sync(c) \in Modes \cup {""}
  BY DEF security_key_mgmt_ovsdb_to_sync
<1> QED
  BY <1>2, <1>4, <1>5, <1>6, <1>7

-----------------------------------------------------------------------------
(* Types.                                                                  *)

LEMMA InitTypeOK == Init => TypeOK
<1> SUFFICES ASSUME Init PROVE TypeOK
  OBVIOUS
<1> USE DEF Init
<1>1. PICK c \in Requests, filter \in MacFilters :
      /\ build \in Builds /\ home_ap \in BOOLEAN
      /\ Len(c.wpa_psks) = 1
      /\ vconf = c
      /\ c.wpa /\ "dpp" \notin c.wpa_key_mgmt
      /\ vap_info = [mode |-> security_key_mgmt_ovsdb_to_hal(c),
                     mfp |-> c.pmf, key |-> Head(c.wpa_psks), ssid |-> c.ssid,
                     showSsid |-> c.ssid_broadcast, other |-> c.other,
                     mac_filter |-> filter]
      /\ hw = vap_info
      /\ hwAcl \in SUBSET Macs
      /\ SyncsAcls => filter = c.mac_list_type /\ hwAcl = c.mac_list
      /\ hwKeys = Tail(c.wpa_psks)
      /\ changed = {}
      /\ pc = "idle"
      /\ trigger_reconfig = FALSE
      /\ acl_list = {} /\ todo = {}
      /\ cached_key_ids = hw.key
      /\ mesh = [ssid |-> hw.ssid, showSsid |-> hw.showSsid,
                 secMode |-> security_key_mgmt_ovsdb_to_sync(c),
                 passphrase |-> <<hw.key>>]
      /\ failed = FALSE
      /\ requests = 0 /\ failures = 0
  BY DEF ApInit
<1>2. c \in VifConf
  BY <1>1, RequestsAssumption
<1>3. c.wpa_psks \in Seq(Keys) /\ c.wpa_psks # <<>>
  BY <1>1, <1>2, ConfType, KeysType
<1>4. vap_info \in VapInfo
  BY <1>1, <1>2, <1>3, ConfType, KeysJoin, HalMode DEF VapInfo
<1>5. hwKeys \in Seq(Keys) /\ hw.key \in Keys /\ hw.ssid \in Ssids /\ hw.showSsid \in BOOLEAN
  BY <1>1, <1>3, <1>4, KeysJoin DEF VapInfo
<1>6. mesh \in MeshInfo
  <2>1. security_key_mgmt_ovsdb_to_sync(c) \in Modes \cup {""}
    BY <1>2, SyncMode
  <2>2. <<hw.key>> \in Seq(Keys)
    BY <1>5
  <2> QED
    BY <1>1, <1>5, <2>1, <2>2 DEF MeshInfo
<1>7. ApTypeOK
  BY <1>1, <1>2, <1>4, <1>5, <1>6 DEF ApTypeOK
<1>8. sta_info \in StaInfo
  BY DEF StaInfo
<1> QED
  BY <1>7, <1>8 DEF TypeOK

\* A message leaves what the Mesh-Agent was told well formed.
LEMMA SendType ==
  ASSUME ApTypeOK, NEW told \in MeshInfo,
         Send(told)
  PROVE  /\ mesh' \in MeshInfo
         /\ failed' \in BOOLEAN /\ failures' \in Nat
         /\ ~failed' => mesh' = told
<1>1. mesh' = told \/ mesh' = mesh
  BY DEF Send
<1>2. failures' \in Nat
  <2>1. failures \in Nat
    BY DEF ApTypeOK
  <2>2. failures' = failures \/ failures' = failures + 1
    BY DEF Send, Fails, NoFailure
  <2> QED
    BY <2>1, <2>2
<1>3. failed' = TRUE \/ (failed' = failed /\ mesh' = told)
  BY DEF Send, Fails, NoFailure
<1> QED
  BY <1>1, <1>2, <1>3 DEF ApTypeOK

\* A call that fails, or none.
LEMMA FailureType ==
  ASSUME ApTypeOK, Fails \/ NoFailure
  PROVE  failed' \in BOOLEAN /\ failures' \in Nat /\ (failed => failed')
<1>1. failures' \in Nat
  <2>1. failures \in Nat
    BY DEF ApTypeOK
  <2> QED
    BY <2>1 DEF Fails, NoFailure
<1>2. failed' = TRUE \/ failed' = failed
  BY DEF Fails, NoFailure
<1> QED
  BY <1>1, <1>2 DEF ApTypeOK

\* What a step of the handler may do to the copy.
LEMMA CopyType ==
  ASSUME NEW v \in VapInfo, NEW c \in VifConf
  PROVE  /\ \A mode \in Modes, mfp \in BOOLEAN, key \in Keys :
               [v EXCEPT !.mode = mode, !.mfp = mfp, !.key = key] \in VapInfo
         /\ [v EXCEPT !.mode = "none"] \in VapInfo
         /\ \A other \in BOOLEAN, show \in BOOLEAN :
               [v EXCEPT !.other = other, !.showSsid = show] \in VapInfo
         /\ \A ssid \in Ssids : [v EXCEPT !.ssid = ssid] \in VapInfo
         /\ \A filter \in MacFilters :
               [v EXCEPT !.mac_filter = filter] \in VapInfo
  BY DEF VapInfo, Modes

\* set_security, with its local values named.
SecurityStep(mode, newMode, newKeys) ==
    /\ pc = "security"
    /\ ~("wpa" \in changed /\ ~vconf.wpa)
    /\ vap_info' = [vap_info EXCEPT
                      !.mode = IF newMode THEN mode ELSE @,
                      !.mfp = IF newMode THEN vconf.pmf ELSE @,
                      !.key = IF newKeys THEN Head(vconf.wpa_psks) ELSE @]
    /\ cached_key_ids' = IF newKeys THEN Head(vconf.wpa_psks) ELSE cached_key_ids
    /\ \/ /\ hwKeys' = IF newKeys THEN Tail(vconf.wpa_psks) ELSE hwKeys
          /\ trigger_reconfig' = (trigger_reconfig \/ newMode \/ newKeys)
          /\ IF newMode \/ newKeys
               THEN SendSecurity(security_key_mgmt_ovsdb_to_sync(vconf))
               ELSE NoFailure /\ UNCHANGED mesh
       \/ /\ Fails /\ newKeys
          /\ trigger_reconfig' = (trigger_reconfig \/ newMode)
          /\ UNCHANGED <<hwKeys, mesh>>
    /\ pc' = "ssid_broadcast"
    /\ UNCHANGED <<hw, hwAcl, requestVars, acl_list, todo, requests>>

\* Every configuration decodes, so the mode and the keys are looked at alone.
LEMMA SetSecurityIs ==
  ASSUME ApTypeOK, SetSecurity
  PROVE  SecurityStep(security_key_mgmt_ovsdb_to_hal(vconf),
                      changed \cap SecurityFields # {},
                      "wpa_psks" \in changed /\ vconf.wpa_psks # <<>>)
<1>1. security_key_mgmt_ovsdb_to_hal(vconf) # "unsupported"
  BY HalMode DEF ApTypeOK, Modes
<1> DEFINE decode == changed \cap SecurityFields # {}
           psks == "wpa_psks" \in changed /\ vconf.wpa_psks # <<>>
<1>2. /\ (decode /\ security_key_mgmt_ovsdb_to_hal(vconf) # "unsupported") = decode
      /\ (/\ "wpa_psks" \in changed /\ vconf.wpa_psks # <<>>
          /\ decode => decode /\ security_key_mgmt_ovsdb_to_hal(vconf) # "unsupported")
         = psks
  BY <1>1
<1> QED
  BY <1>2, Zenon DEF SetSecurity, SecurityStep

LEMMA SecurityMessage ==
  ASSUME ApTypeOK, NEW secMode \in Modes \cup {""}, SendSecurity(secMode)
  PROVE  /\ mesh' \in MeshInfo
         /\ failed' \in BOOLEAN /\ failures' \in Nat
         /\ ~failed' /\ ~build.multi_psk => mesh' = [mesh EXCEPT
               !.secMode = secMode,
               !.passphrase = IF vconf.wpa_psks = <<>> THEN <<>>
                                                       ELSE <<Head(vconf.wpa_psks)>>]
         /\ ~failed' /\ build.multi_psk => mesh' = mesh
<1> DEFINE pass == IF vconf.wpa_psks = <<>> THEN <<>> ELSE <<Head(vconf.wpa_psks)>>
<1>1. vconf.wpa_psks \in Seq(Keys)
  BY KeysType DEF ApTypeOK
<1>2. pass \in Seq(Keys)
  <2>1. CASE vconf.wpa_psks = <<>>
    BY <2>1, OneKey
  <2>2. CASE vconf.wpa_psks # <<>>
    <3>1. Head(vconf.wpa_psks) \in Keys
      BY <1>1, <2>2, KeysJoin
    <3> QED
      BY <2>2, <3>1, OneKey
  <2> QED
    BY <2>1, <2>2
<1> DEFINE told == [mesh EXCEPT !.secMode = secMode, !.passphrase = pass]
<1>3. CASE build.multi_psk
  <2>1. mesh' = mesh /\ NoFailure
    BY <1>3 DEF SendSecurity
  <2> QED
    BY <1>3, <2>1, FailureType DEF ApTypeOK
<1>4. CASE ~build.multi_psk
  <2>1. Send(told)
    BY <1>4 DEF SendSecurity, sync_send_security_change
  <2> HIDE DEF pass
  <2>2. told \in MeshInfo
    BY <1>2 DEF ApTypeOK, MeshInfo
  <2> HIDE DEF told
  <2>3. /\ mesh' \in MeshInfo
        /\ failed' \in BOOLEAN /\ failures' \in Nat
        /\ ~failed' => mesh' = told
    BY <2>1, <2>2, SendType
  <2> QED
    BY <1>4, <2>3 DEF told, pass
<1> QED
  BY <1>3, <1>4

\* The station's handler.
LEMMA StationType ==
  ASSUME TypeOK, NEW c \in StaRequests
  PROVE  StaApplied(c) \in StaInfo
<1>1. /\ c \in StaConf /\ c.cconfs \in Credentials
      /\ c.cconfs \in [ssid : Ssids, key : Keys]
  BY StaAssumption DEF StaConf
<1>2. StaMode(c.mode) \in {"wpa_wpa2", "wpa", "wpa2"}
  BY DEF StaMode
<1>3. Joining(c) \in StaInfo
  BY <1>1, <1>2 DEF Joining, StaInfo, StaConf, TypeOK
<1> QED
  BY <1>1, <1>3 DEF StaApplied, StaInfo, StaConf, TypeOK

LEMMA ApNextType ==
  ASSUME ApTypeOK, ApNext
  PROVE  ApTypeOK'
<1> USE DEF driverVars, requestVars, localVars, boundVars
<1>0. /\ vap_info \in VapInfo /\ vconf \in VifConf
      /\ UNCHANGED <<build, home_ap>>
  BY DEF ApTypeOK, ApNext, fixedVars
<1>a. ASSUME UNCHANGED <<build, home_ap, vconf, changed>>,
             hw' \in VapInfo, vap_info' \in VapInfo, hwAcl' \subseteq Macs,
             hwKeys' \in Seq(Keys), trigger_reconfig' \in BOOLEAN,
             acl_list' \subseteq Macs, todo' \subseteq Macs,
             cached_key_ids' \in Keys, mesh' \in MeshInfo,
             failed' \in BOOLEAN, failures' \in Nat, requests' = requests,
             pc' \in {"idle", "security", "ssid_broadcast", "ssid", "acl",
                      "acl_remove", "acl_add", "create"}
      PROVE  ApTypeOK'
  BY <1>a DEF ApTypeOK
<1>1. ASSUME NEW c \in Requests, target_vif_config_set2(c) PROVE ApTypeOK'
  <2>1. c \in VifConf
    BY RequestsAssumption
  <2>2. changed' \subseteq DOMAIN vconf' /\ vconf' \in VifConf /\ requests' \in Nat
    BY <1>1, <2>1 DEF target_vif_config_set2, ApTypeOK
  <2>3. failed' \in BOOLEAN /\ failures' \in Nat
    BY <1>1, FailureType DEF target_vif_config_set2
  <2>4. vap_info' \in VapInfo /\ pc' \in {"idle", "security"}
    BY <1>1 DEF target_vif_config_set2, ApTypeOK
  <2>5. /\ UNCHANGED <<hw, hwAcl, hwKeys, acl_list, todo, cached_key_ids, mesh>>
        /\ trigger_reconfig' = FALSE
    BY <1>1 DEF target_vif_config_set2
  <2> QED
    BY <1>0, <2>2, <2>3, <2>4, <2>5 DEF ApTypeOK
<1>2. CASE SetOpen
  <2>1. mesh' \in MeshInfo /\ failed' \in BOOLEAN /\ failures' \in Nat
    BY <1>2, SecurityMessage DEF SetOpen, Modes
  <2>2. vap_info' \in VapInfo
    BY <1>0, <1>2, CopyType DEF SetOpen
  <2>3. UNCHANGED <<hw, hwAcl, hwKeys, vconf, changed, acl_list, todo, cached_key_ids,
                    requests>>
        /\ trigger_reconfig' = TRUE /\ pc' = "ssid_broadcast"
    BY <1>2 DEF SetOpen
  <2> QED
    BY <1>0, <1>a, <2>1, <2>2, <2>3 DEF ApTypeOK
<1>3. CASE SetSecurity
  <2> DEFINE mode == security_key_mgmt_ovsdb_to_hal(vconf)
             newMode == changed \cap SecurityFields # {}
             newKeys == "wpa_psks" \in changed /\ vconf.wpa_psks # <<>>
  <2>1. SecurityStep(mode, newMode, newKeys)
    BY <1>3, SetSecurityIs
  <2>2. mode \in Modes /\ security_key_mgmt_ovsdb_to_sync(vconf) \in Modes \cup {""}
        /\ vconf.pmf \in BOOLEAN
    BY <1>0, HalMode, SyncMode, ConfType
  <2>3. newKeys => Head(vconf.wpa_psks) \in Keys /\ Tail(vconf.wpa_psks) \in Seq(Keys)
    BY <1>0, KeysType, KeysJoin
  <2> HIDE DEF mode, newMode, newKeys
  <2>4. /\ vap_info.mode \in Modes /\ vap_info.mfp \in BOOLEAN /\ vap_info.key \in Keys
        /\ hwKeys \in Seq(Keys) /\ cached_key_ids \in Keys
    BY DEF ApTypeOK, VapInfo
  <2>5. vap_info' \in VapInfo
    <3> DEFINE newMfp == IF newMode THEN vconf.pmf ELSE vap_info.mfp
               newKey == IF newKeys THEN Head(vconf.wpa_psks) ELSE vap_info.key
               chosen == IF newMode THEN mode ELSE vap_info.mode
    <3>1. newMfp \in BOOLEAN /\ newKey \in Keys /\ chosen \in Modes
      BY <2>2, <2>3, <2>4
    <3>2. vap_info' = [vap_info EXCEPT !.mode = chosen, !.mfp = newMfp, !.key = newKey]
      BY <2>1, Zenon DEF SecurityStep
    <3> HIDE DEF newMfp, newKey, chosen
    <3> QED
      BY <1>0, <3>1, <3>2, CopyType
  <2>6. cached_key_ids' \in Keys /\ hwKeys' \in Seq(Keys)
    <3>1. cached_key_ids' = (IF newKeys THEN Head(vconf.wpa_psks) ELSE cached_key_ids)
      BY <2>1 DEF SecurityStep
    <3>2. hwKeys' = hwKeys \/ (newKeys /\ hwKeys' = Tail(vconf.wpa_psks))
      BY <2>1 DEF SecurityStep
    <3> QED
      BY <2>3, <2>4, <3>1, <3>2
  <2>7. mesh' \in MeshInfo /\ failed' \in BOOLEAN /\ failures' \in Nat
    <3>1. CASE SendSecurity(security_key_mgmt_ovsdb_to_sync(vconf))
      BY <2>2, <3>1, SecurityMessage
    <3>2. CASE (Fails \/ NoFailure) /\ UNCHANGED mesh
      BY <3>2, FailureType DEF ApTypeOK
    <3> QED
      BY <2>1, <3>1, <3>2 DEF SecurityStep
  <2>8. trigger_reconfig' \in BOOLEAN
    BY <2>1 DEF SecurityStep
  <2>9. UNCHANGED <<hw, hwAcl, vconf, changed, acl_list, todo, requests>>
        /\ pc' = "ssid_broadcast"
    BY <2>1 DEF SecurityStep
  <2> QED
    BY <1>0, <1>a, <2>5, <2>6, <2>7, <2>8, <2>9 DEF ApTypeOK
<1>4. CASE SetSsidBroadcast
  <2>1. /\ vap_info.other \in BOOLEAN /\ vap_info.showSsid \in BOOLEAN
        /\ vconf.other \in BOOLEAN /\ vconf.ssid_broadcast \in BOOLEAN
    BY <1>0, ConfType DEF VapInfo
  <2>2. vap_info' \in VapInfo
    <3> DEFINE newOther == IF "other" \in changed THEN vconf.other ELSE vap_info.other
               newShow == IF "ssid_broadcast" \in changed
                            THEN vconf.ssid_broadcast ELSE vap_info.showSsid
    <3>1. newOther \in BOOLEAN /\ newShow \in BOOLEAN
      BY <2>1
    <3>2. vap_info' = [vap_info EXCEPT !.other = newOther, !.showSsid = newShow]
      BY <1>4, Zenon DEF SetSsidBroadcast
    <3> HIDE DEF newOther, newShow
    <3> QED
      BY <1>0, <3>1, <3>2, CopyType
  <2>3. mesh' \in MeshInfo /\ failed' \in BOOLEAN /\ failures' \in Nat
    <3>1. [mesh EXCEPT !.showSsid = vconf.ssid_broadcast] \in MeshInfo
      BY <2>1 DEF ApTypeOK, MeshInfo
    <3>2. CASE sync_send_ssid_broadcast_change
      BY <3>1, <3>2, SendType DEF sync_send_ssid_broadcast_change
    <3>3. CASE NoFailure /\ UNCHANGED mesh
      BY <3>3, FailureType DEF ApTypeOK
    <3> QED
      BY <1>4, <3>2, <3>3 DEF SetSsidBroadcast
  <2>4. trigger_reconfig' \in BOOLEAN
    BY <1>4 DEF SetSsidBroadcast
  <2>5. UNCHANGED <<hw, hwAcl, hwKeys, vconf, changed, acl_list, todo, cached_key_ids,
                    requests>> /\ pc' = "ssid"
    BY <1>4 DEF SetSsidBroadcast
  <2> QED
    BY <1>0, <1>a, <2>2, <2>3, <2>4, <2>5 DEF ApTypeOK
<1>5. CASE SetSsid
  <2>1. vconf.ssid \in Ssids
    BY <1>0, ConfType
  <2>2. vap_info' \in VapInfo /\ trigger_reconfig' \in BOOLEAN
    BY <1>0, <1>5, <2>1, CopyType DEF SetSsid, ApTypeOK
  <2>3. mesh' \in MeshInfo /\ failed' \in BOOLEAN /\ failures' \in Nat
    <3>1. [mesh EXCEPT !.ssid = vconf.ssid] \in MeshInfo
      BY <2>1 DEF ApTypeOK, MeshInfo
    <3>2. CASE sync_send_ssid_change
      BY <3>1, <3>2, SendType DEF sync_send_ssid_change
    <3>3. CASE NoFailure /\ UNCHANGED mesh
      BY <3>3, FailureType DEF ApTypeOK
    <3> QED
      BY <1>5, <3>2, <3>3 DEF SetSsid
  <2>4. UNCHANGED <<hw, hwAcl, hwKeys, vconf, changed, acl_list, todo, cached_key_ids,
                    requests>> /\ pc' = "acl"
    BY <1>5 DEF SetSsid
  <2> QED
    BY <1>0, <1>a, <2>2, <2>3, <2>4 DEF ApTypeOK
<1>6. CASE acl_apply
  <2>1. /\ vconf.mac_list_type \in MacFilters
        /\ vap_info.mac_filter \in MacFilters
    BY <1>0, ConfType DEF VapInfo
  <2>2. vap_info' \in VapInfo
    <3> DEFINE filter == IF SyncsAcls /\ "mac_list_type" \in changed
                           THEN vconf.mac_list_type ELSE vap_info.mac_filter
    <3>1. filter \in MacFilters
      BY <2>1
    <3>2. vap_info' = [vap_info EXCEPT !.mac_filter = filter]
      BY <1>6, Zenon DEF acl_apply
    <3> HIDE DEF filter
    <3> QED
      BY <1>0, <3>1, <3>2, CopyType
  <2>3. failed' \in BOOLEAN /\ failures' \in Nat
    BY <1>6, FailureType DEF acl_apply
  <2>4. trigger_reconfig' \in BOOLEAN
    BY <1>6 DEF acl_apply
  <2>5. /\ acl_list' \subseteq Macs /\ todo' \subseteq Macs /\ hwAcl' \subseteq Macs
        /\ pc' \in {"acl_remove", "acl_add", "create"}
    BY <1>0, <1>6, ConfType DEF acl_apply, get_acl_list, ApTypeOK
  <2>6. UNCHANGED <<hw, hwKeys, vconf, changed, cached_key_ids, mesh, requests>>
    BY <1>6 DEF acl_apply
  <2> QED
    BY <1>0, <1>a, <2>2, <2>3, <2>4, <2>5, <2>6 DEF ApTypeOK
<1>7. ASSUME NEW m \in Macs, AclRemove(m) \/ AclAdd(m) PROVE ApTypeOK'
  <2>1. failed' \in BOOLEAN /\ failures' \in Nat
    BY <1>7, FailureType DEF AclRemove, AclAdd
  <2>2. hwAcl' \subseteq Macs /\ todo' \subseteq Macs
    BY <1>7 DEF AclRemove, AclAdd, ApTypeOK
  <2>3. UNCHANGED <<hw, hwKeys, vconf, changed, pc, vap_info, trigger_reconfig, acl_list,
                    cached_key_ids, mesh, requests>>
    BY <1>7 DEF AclRemove, AclAdd
  <2> QED
    BY <1>0, <1>a, <2>1, <2>2, <2>3 DEF ApTypeOK
<1>8. CASE AclRemoved \/ AclAdded
  <2>1. todo' \subseteq Macs /\ pc' \in {"acl_add", "create"}
    BY <1>0, <1>8, ConfType DEF AclRemoved, AclAdded, ApTypeOK
  <2>2. UNCHANGED <<hw, hwAcl, hwKeys, vconf, changed, vap_info, trigger_reconfig,
                    acl_list, cached_key_ids, mesh, failed, requests, failures>>
    BY <1>8 DEF AclRemoved, AclAdded
  <2> QED
    BY <1>0, <1>a, <2>1, <2>2 DEF ApTypeOK
<1>9. CASE CreateVap
  <2>1. failed' \in BOOLEAN /\ failures' \in Nat
    BY <1>9, FailureType DEF CreateVap
  <2>2. hw' \in VapInfo /\ pc' = "idle"
    BY <1>9 DEF CreateVap, ApTypeOK
  <2>3. UNCHANGED <<hwAcl, hwKeys, vconf, changed, vap_info, trigger_reconfig, acl_list,
                    todo, cached_key_ids, mesh, requests>>
    BY <1>9 DEF CreateVap
  <2> QED
    BY <1>0, <1>a, <2>1, <2>2, <2>3 DEF ApTypeOK
<1> QED
  BY <1>1, <1>2, <1>3, <1>4, <1>5, <1>6, <1>7, <1>8, <1>9 DEF ApNext, Step

LEMMA NextTypeOK == TypeOK /\ [Next]_vars => TypeOK'
<1> SUFFICES ASSUME TypeOK, [Next]_vars PROVE TypeOK'
  OBVIOUS
<1> USE DEF driverVars, requestVars, localVars, boundVars, fixedVars
<1>1. CASE ApNext /\ UNCHANGED <<vap_mode, sta_info, sta_vconf>>
  BY <1>1, ApNextType DEF TypeOK
<1>2. ASSUME NEW c \in StaRequests, vif_sta_config_set2(c) PROVE TypeOK'
  <2>1. sta_info' \in StaInfo
    BY <1>2, StationType DEF vif_sta_config_set2, TypeOK
  <2>2. sta_vconf' \in StaConf \cup {Unset} /\ vap_mode' \in {"ap", "sta"}
    BY <1>2, StaAssumption DEF vif_sta_config_set2, TypeOK
  <2>3. failed' \in BOOLEAN /\ failures' \in Nat
    BY <1>2, FailureType DEF vif_sta_config_set2, TypeOK
  <2>4. requests' \in Nat
    BY <1>2 DEF vif_sta_config_set2, TypeOK, ApTypeOK
  <2>5. UNCHANGED <<build, home_ap, hw, hwAcl, hwKeys, vconf, changed, pc, vap_info,
                    trigger_reconfig, acl_list, todo, cached_key_ids, mesh>>
    BY <1>2 DEF vif_sta_config_set2
  <2>6. ApTypeOK'
    BY <2>3, <2>4, <2>5 DEF TypeOK, ApTypeOK
  <2> QED
    BY <2>1, <2>2, <2>6 DEF TypeOK
<1>3. CASE UNCHANGED vars
  BY <1>3 DEF vars, apVars, TypeOK, ApTypeOK
<1> QED
  BY <1>1, <1>2, <1>3 DEF Next

-----------------------------------------------------------------------------
(* A request for an AP.                                                    *)

\* A field that is not marked as changed is as the last request had it.
LEMMA Unmarked ==
  ASSUME NEW c \in VifConf, NEW v \in VifConf,
         NEW marks, marks = {f \in DOMAIN c : c[f] # v[f]}
  PROVE  /\ "wpa_psks" \notin marks => c.wpa_psks = v.wpa_psks
         /\ marks \cap SecurityFields = {} =>
               /\ c.wpa = v.wpa /\ c.pmf = v.pmf
               /\ security_key_mgmt_ovsdb_to_hal(c) = security_key_mgmt_ovsdb_to_hal(v)
         /\ "ssid" \notin marks => c.ssid = v.ssid
         /\ "ssid_broadcast" \notin marks => c.ssid_broadcast = v.ssid_broadcast
         /\ "other" \notin marks => c.other = v.other
         /\ "mac_list_type" \notin marks => c.mac_list_type = v.mac_list_type
         /\ "mac_list" \notin marks => c.mac_list = v.mac_list
<1>1. \A f \in ConfFields : f \notin marks => c[f] = v[f]
  BY ConfType
<1>2. marks \cap SecurityFields = {} =>
         /\ c.wpa_key_mgmt = v.wpa_key_mgmt /\ c.wpa_pairwise = v.wpa_pairwise
         /\ c.rsn_pairwise = v.rsn_pairwise /\ c.pmf = v.pmf
  BY <1>1 DEF SecurityFields, ConfFields
<1>3. (c.wpa <=> c.wpa_key_mgmt # {}) /\ (v.wpa <=> v.wpa_key_mgmt # {})
      /\ c.wpa \in BOOLEAN /\ v.wpa \in BOOLEAN
  BY ConfType
<1>4. marks \cap SecurityFields = {} =>
         security_key_mgmt_ovsdb_to_hal(c) = security_key_mgmt_ovsdb_to_hal(v)
  BY <1>2 DEF security_key_mgmt_ovsdb_to_hal, security_wpa_key_mgmt_match
<1>5. marks \cap SecurityFields = {} => c.wpa = v.wpa
  BY <1>2, <1>3
<1> QED
  BY <1>1, <1>2, <1>4, <1>5 DEF ConfFields

LEMMA Sticky == ASSUME ApTypeOK, Fails \/ NoFailure, ~failed' PROVE ~failed /\ NoFailure
  BY DEF Fails, NoFailure

AllInv == SecurityInv /\ FieldsInv /\ TriggerInv /\ AclInv /\ MeshInv

LEMMA RequestStep ==
  ASSUME ApTypeOK, AllInv, NEW c \in Requests, target_vif_config_set2(c),
         UNCHANGED <<build, home_ap>>, ~failed'
  PROVE  AllInv'
<1> USE DEF driverVars, requestVars, localVars, boundVars
<1>1. /\ pc = "idle" /\ pc' = "security" /\ vap_info' = hw /\ vconf' = c
      /\ changed' = {f \in DOMAIN c : c[f] # vconf[f]}
      /\ UNCHANGED <<hw, hwAcl, hwKeys, cached_key_ids, mesh>>
  BY DEF target_vif_config_set2, Fails
<1>2. c \in VifConf /\ vconf \in VifConf
  BY RequestsAssumption DEF ApTypeOK
<1>3. Copy' = Copy /\ Copy = hw
  BY <1>1 DEF Copy
<1>4. /\ "wpa_psks" \notin changed' => c.wpa_psks = vconf.wpa_psks
      /\ changed' \cap SecurityFields = {} =>
            /\ c.wpa = vconf.wpa /\ c.pmf = vconf.pmf
            /\ security_key_mgmt_ovsdb_to_hal(c) = security_key_mgmt_ovsdb_to_hal(vconf)
      /\ "ssid" \notin changed' => c.ssid = vconf.ssid
      /\ "ssid_broadcast" \notin changed' => c.ssid_broadcast = vconf.ssid_broadcast
      /\ "other" \notin changed' => c.other = vconf.other
      /\ "mac_list_type" \notin changed' => c.mac_list_type = vconf.mac_list_type
      /\ "mac_list" \notin changed' => c.mac_list = vconf.mac_list
  BY <1>1, <1>2, Unmarked
<1>5. /\ Copy.mode = security_key_mgmt_ovsdb_to_hal(vconf)
      /\ vconf.wpa => Copy.mfp = vconf.pmf
      /\ vconf.wpa_psks # <<>> => <<Copy.key>> \o hwKeys = vconf.wpa_psks
      /\ cached_key_ids = Copy.key
  BY <1>1 DEF AllInv, SecurityInv, SecurityLeft, KeysLeft
<1>7. SecurityInv'
  <2>1. SecurityLeft' \/ (/\ Copy'.mode = security_key_mgmt_ovsdb_to_hal(c)
                          /\ c.wpa => Copy'.mfp = c.pmf)
    BY <1>1, <1>3, <1>4, <1>5 DEF SecurityLeft
  <2>2. c.wpa_psks # <<>> => KeysLeft' \/ <<Copy'.key>> \o hwKeys' = c.wpa_psks
    BY <1>1, <1>3, <1>4, <1>5 DEF KeysLeft
  <2>3. SecurityInv' = (/\ SecurityLeft' \/ Copy'.mode = security_key_mgmt_ovsdb_to_hal(c)
                        /\ c.wpa => SecurityLeft' \/ Copy'.mfp = c.pmf
                        /\ c.wpa_psks # <<>> =>
                              KeysLeft' \/ <<Copy'.key>> \o hwKeys' = c.wpa_psks
                        /\ cached_key_ids' = Copy'.key)
    BY <1>1, Zenon DEF SecurityInv
  <2> QED
    BY <1>1, <1>3, <1>5, <2>1, <2>2, <2>3
<1>8. FieldsInv'
  BY <1>1, <1>3, <1>4 DEF AllInv, FieldsInv, SyncsAcls
<1>9. TriggerInv' /\ AclInv'
  BY <1>1, <1>4 DEF AllInv, TriggerInv, AclInv, SyncsAcls
<1>10. MeshInv'
  BY <1>1, <1>3 DEF AllInv, MeshInv
<1> QED
  BY <1>7, <1>8, <1>9, <1>10 DEF AllInv

LEMMA OpenStep ==
  ASSUME ApTypeOK, AllInv, SetOpen, UNCHANGED <<build, home_ap>>, ~failed'
  PROVE  AllInv'
<1> USE DEF driverVars, requestVars, localVars, boundVars
<1>1. /\ pc = "security" /\ pc' = "ssid_broadcast" /\ ~vconf.wpa
      /\ vap_info' = [vap_info EXCEPT !.mode = "none"] /\ trigger_reconfig' = TRUE
      /\ UNCHANGED <<hw, hwAcl, hwKeys, vconf, changed, acl_list, todo, cached_key_ids>>
  BY DEF SetOpen
<1>2. vconf \in VifConf /\ vap_info \in VapInfo
  BY DEF ApTypeOK
<1>3. security_key_mgmt_ovsdb_to_hal(vconf) = "none" /\ vconf.wpa_psks = <<>>
  BY <1>1, <1>2, SyncMode, ConfType
<1>4. /\ vap_info'.mode = "none" /\ vap_info'.key = vap_info.key
      /\ vap_info'.other = vap_info.other /\ vap_info'.showSsid = vap_info.showSsid
      /\ vap_info'.ssid = vap_info.ssid /\ vap_info'.mac_filter = vap_info.mac_filter
  BY <1>1, <1>2 DEF VapInfo
<1>5. Copy' = vap_info' /\ Copy = vap_info
  BY <1>1 DEF Copy
<1>6. SecurityInv'
  BY <1>1, <1>3, <1>4, <1>5 DEF AllInv, SecurityInv, security_key_mgmt_ovsdb_to_hal,
     security_wpa_key_mgmt_match
<1>7. FieldsInv'
  BY <1>1, <1>4, <1>5 DEF AllInv, FieldsInv, SyncsAcls
<1>8. TriggerInv' /\ AclInv'
  BY <1>1 DEF AllInv, TriggerInv, AclInv, SyncsAcls
<1>9. MeshInv'
  <2>1. mesh'.ssid = mesh.ssid /\ mesh'.showSsid = mesh.showSsid
    BY SecurityMessage DEF SetOpen, Modes, ApTypeOK, MeshInfo
  <2> QED
    BY <1>4, <1>5, <2>1 DEF AllInv, MeshInv, PskModes
<1> QED
  BY <1>6, <1>7, <1>8, <1>9 DEF AllInv

LEMMA SecurityIsApplied ==
  ASSUME ApTypeOK, AllInv, SetSecurity, UNCHANGED <<build, home_ap>>, ~failed'
  PROVE  AllInv'
<1> DEFINE mode == security_key_mgmt_ovsdb_to_hal(vconf)
           newMode == changed \cap SecurityFields # {}
           newKeys == "wpa_psks" \in changed /\ vconf.wpa_psks # <<>>
<1>a. SecurityStep(mode, newMode, newKeys)
  BY SetSecurityIs
<1>1. /\ pc = "security" /\ pc' = "ssid_broadcast"
      /\ UNCHANGED <<hw, hwAcl, vconf, changed, acl_list, todo>>
  BY <1>a DEF SecurityStep, requestVars
<1>2. vconf \in VifConf /\ vap_info \in VapInfo
  BY DEF ApTypeOK
<1>4. /\ newMode \/ vap_info.mode = mode
      /\ vconf.wpa => newMode \/ vap_info.mfp = vconf.pmf
      /\ vconf.wpa_psks # <<>> => newKeys \/ <<vap_info.key>> \o hwKeys = vconf.wpa_psks
      /\ cached_key_ids = vap_info.key
  BY <1>1 DEF AllInv, SecurityInv, SecurityLeft, KeysLeft, Copy
<1>5. newKeys => <<Head(vconf.wpa_psks)>> \o Tail(vconf.wpa_psks) = vconf.wpa_psks
                 /\ Head(vconf.wpa_psks) \in Keys
  BY <1>2, KeysType, KeysJoin
<1>6. /\ mode \in PskModes =>
            vconf.wpa_psks # <<>> /\ security_key_mgmt_ovsdb_to_sync(vconf) = mode
      /\ security_key_mgmt_ovsdb_to_sync(vconf) \in Modes \cup {""}
  BY <1>2, SyncMode
<1> HIDE DEF mode, newMode, newKeys
<1>7. /\ vap_info'.mode = IF newMode THEN mode ELSE vap_info.mode
      /\ vap_info'.mfp = IF newMode THEN vconf.pmf ELSE vap_info.mfp
      /\ vap_info'.key = IF newKeys THEN Head(vconf.wpa_psks) ELSE vap_info.key
      /\ vap_info'.other = vap_info.other /\ vap_info'.showSsid = vap_info.showSsid
      /\ vap_info'.ssid = vap_info.ssid /\ vap_info'.mac_filter = vap_info.mac_filter
      /\ newMode \/ newKeys \/ vap_info' = vap_info
  BY <1>2, <1>a DEF SecurityStep, VapInfo
<1>8. /\ cached_key_ids' = IF newKeys THEN Head(vconf.wpa_psks) ELSE cached_key_ids
      /\ hwKeys' = IF newKeys THEN Tail(vconf.wpa_psks) ELSE hwKeys
      /\ trigger_reconfig' = (trigger_reconfig \/ newMode \/ newKeys)
      /\ IF newMode \/ newKeys
           THEN SendSecurity(security_key_mgmt_ovsdb_to_sync(vconf))
           ELSE UNCHANGED mesh
  BY <1>a DEF SecurityStep, Fails, NoFailure
<1>9. Copy' = vap_info' /\ Copy = vap_info
  BY <1>1 DEF Copy
<1>10. /\ vap_info'.mode = mode
       /\ vconf.wpa => vap_info'.mfp = vconf.pmf
       /\ vconf.wpa_psks # <<>> => <<vap_info'.key>> \o hwKeys' = vconf.wpa_psks
       /\ cached_key_ids' = vap_info'.key
  BY <1>4, <1>5, <1>7, <1>8
<1>11. SecurityInv'
  <2>1. SecurityInv' = (/\ SecurityLeft' \/ Copy'.mode = mode
                        /\ vconf.wpa => SecurityLeft' \/ Copy'.mfp = vconf.pmf
                        /\ vconf.wpa_psks # <<>> => KeysLeft' \/ <<Copy'.key>> \o hwKeys' = vconf.wpa_psks
                        /\ cached_key_ids' = Copy'.key)
    BY <1>1, Zenon DEF SecurityInv, mode
  <2> QED
    BY <1>9, <1>10, <2>1
<1>12. FieldsInv'
  BY <1>1, <1>7, <1>9 DEF AllInv, FieldsInv, SyncsAcls
<1>13. TriggerInv' /\ AclInv'
  BY <1>1, <1>7, <1>8 DEF AllInv, TriggerInv, AclInv, SyncsAcls
<1>14. MeshInv'
  <2>1. CASE newMode \/ newKeys
    <3>1. CASE build.multi_psk
      <4>1. mesh' = mesh
        BY <1>6, <1>8, <2>1, <3>1, SecurityMessage
      <4> QED
        BY <1>7, <1>9, <3>1, <4>1 DEF AllInv, MeshInv
    <3>2. CASE ~build.multi_psk
      <4>1. mesh' = [mesh EXCEPT
               !.secMode = security_key_mgmt_ovsdb_to_sync(vconf),
               !.passphrase = IF vconf.wpa_psks = <<>> THEN <<>>
                                                       ELSE <<Head(vconf.wpa_psks)>>]
        BY <1>6, <1>8, <2>1, <3>2, SecurityMessage
      <4>2. mesh'.ssid = mesh.ssid /\ mesh'.showSsid = mesh.showSsid
        BY <4>1 DEF ApTypeOK, MeshInfo
      <4>3. mesh'.secMode = security_key_mgmt_ovsdb_to_sync(vconf)
        BY <4>1 DEF ApTypeOK, MeshInfo
      <4>4. vconf.wpa_psks # <<>> => mesh'.passphrase = <<Head(vconf.wpa_psks)>>
        BY <1>6, <4>1 DEF ApTypeOK, MeshInfo
      <4>5. vconf.wpa_psks # <<>> => vap_info'.key = Head(vconf.wpa_psks)
        <5>1. CASE newKeys
          BY <1>7, <5>1
        <5>2. CASE vconf.wpa_psks # <<>> /\ ~newKeys
          <6>1. vap_info.key \in Keys /\ hwKeys \in Seq(Keys)
            BY <1>2 DEF VapInfo, ApTypeOK
          <6>2. <<vap_info.key>> \o hwKeys = vconf.wpa_psks
            BY <1>4, <5>2
          <6>3. vconf.wpa_psks[1] = vap_info.key
            BY <6>1, <6>2, KeysSplit
          <6>4. vconf.wpa_psks \in Seq(Keys) /\ vconf.wpa_psks # <<>>
            BY <1>2, <1>6, <5>2, KeysType
          <6>5. Head(vconf.wpa_psks) = vconf.wpa_psks[1]
            BY <6>4
          <6> QED
            BY <1>7, <5>2, <6>3, <6>5
        <5> QED
          BY <5>1, <5>2
      <4>6. mesh'.ssid = vap_info'.ssid /\ mesh'.showSsid = vap_info'.showSsid
        <5>1. mesh.ssid = vap_info.ssid /\ mesh.showSsid = vap_info.showSsid
          BY <1>9 DEF AllInv, MeshInv
        <5>2. vap_info'.ssid = vap_info.ssid /\ vap_info'.showSsid = vap_info.showSsid
          BY <1>7
        <5> QED
          BY <4>2, <5>1, <5>2
      <4>7. mode \in PskModes =>
               mesh'.secMode = mode /\ mesh'.passphrase = <<vap_info'.key>>
        <5>1. vconf.wpa_psks # <<>> => mesh'.passphrase = <<vap_info'.key>>
          BY <4>5, <4>4, Zenon
        <5> QED
          BY <1>6, <4>3, <5>1, Zenon
      <4> QED
        BY <1>9, <1>10, <4>6, <4>7 DEF MeshInv
    <3> QED
      BY <3>1, <3>2
  <2>2. CASE ~newMode /\ ~newKeys
    BY <1>7, <1>8, <1>9, <2>2 DEF AllInv, MeshInv
  <2> QED
    BY <2>1, <2>2
<1> QED
  BY <1>11, <1>12, <1>13, <1>14 DEF AllInv

LEMMA BroadcastStep ==
  ASSUME ApTypeOK, AllInv, SetSsidBroadcast, UNCHANGED <<build, home_ap>>, ~failed'
  PROVE  AllInv'
<1> USE DEF driverVars, requestVars, localVars, boundVars
<1>1. /\ pc = "ssid_broadcast" /\ pc' = "ssid"
      /\ UNCHANGED <<hw, hwAcl, hwKeys, vconf, changed, acl_list, todo, cached_key_ids>>
  BY DEF SetSsidBroadcast
<1>2. vconf \in VifConf /\ vap_info \in VapInfo
  BY DEF ApTypeOK
<1>3. /\ vap_info'.other = IF "other" \in changed THEN vconf.other ELSE vap_info.other
      /\ vap_info'.showSsid = IF "ssid_broadcast" \in changed
                                THEN vconf.ssid_broadcast ELSE vap_info.showSsid
      /\ vap_info'.mode = vap_info.mode /\ vap_info'.mfp = vap_info.mfp
      /\ vap_info'.key = vap_info.key
      /\ vap_info'.ssid = vap_info.ssid /\ vap_info'.mac_filter = vap_info.mac_filter
  BY <1>2 DEF SetSsidBroadcast, VapInfo
<1>4. /\ changed \cap {"other", "ssid_broadcast"} = {} => vap_info' = vap_info
      /\ trigger_reconfig' = (trigger_reconfig
                              \/ changed \cap {"other", "ssid_broadcast"} # {})
  BY <1>2 DEF SetSsidBroadcast, VapInfo
<1>5. Copy' = vap_info' /\ Copy = vap_info
  BY <1>1 DEF Copy
<1>6. SecurityInv'
  <2>1. SecurityInv' = (/\ SecurityLeft' \/ Copy'.mode = security_key_mgmt_ovsdb_to_hal(vconf)
                        /\ vconf.wpa => SecurityLeft' \/ Copy'.mfp = vconf.pmf
                        /\ vconf.wpa_psks # <<>> => KeysLeft' \/ <<Copy'.key>> \o hwKeys = vconf.wpa_psks
                        /\ cached_key_ids = Copy'.key)
    BY <1>1, Zenon DEF SecurityInv
  <2>2. SecurityLeft' = FALSE /\ SecurityLeft = FALSE /\ KeysLeft' = FALSE /\ KeysLeft = FALSE
    BY <1>1 DEF SecurityLeft, KeysLeft
  <2> QED
    BY <1>3, <1>5, <2>1, <2>2 DEF AllInv, SecurityInv
<1>7. FieldsInv'
  BY <1>1, <1>3, <1>5 DEF AllInv, FieldsInv, SyncsAcls
<1>8. TriggerInv' /\ AclInv'
  BY <1>1, <1>4 DEF AllInv, TriggerInv, AclInv, SyncsAcls
<1>9. MeshInv'
  <2> DEFINE told == [mesh EXCEPT !.showSsid = vconf.ssid_broadcast]
  <2>1. told \in MeshInfo /\ told.showSsid = vconf.ssid_broadcast /\ told.ssid = mesh.ssid
        /\ told.secMode = mesh.secMode /\ told.passphrase = mesh.passphrase
    BY <1>2, ConfType DEF ApTypeOK, MeshInfo
  <2>2. IF "ssid_broadcast" \in changed THEN Send(told) ELSE mesh' = mesh
    BY DEF SetSsidBroadcast, sync_send_ssid_broadcast_change
  <2> HIDE DEF told
  <2>3. mesh' = IF "ssid_broadcast" \in changed THEN told ELSE mesh
    BY <2>1, <2>2, SendType
  <2> QED
    BY <1>3, <1>5, <2>1, <2>3 DEF AllInv, MeshInv
<1> QED
  BY <1>6, <1>7, <1>8, <1>9 DEF AllInv

LEMMA SsidStep ==
  ASSUME ApTypeOK, AllInv, SetSsid, UNCHANGED <<build, home_ap>>, ~failed'
  PROVE  AllInv'
<1> USE DEF driverVars, requestVars, localVars, boundVars
<1>1. /\ pc = "ssid" /\ pc' = "acl"
      /\ UNCHANGED <<hw, hwAcl, hwKeys, vconf, changed, acl_list, todo, cached_key_ids>>
  BY DEF SetSsid
<1>2. vconf \in VifConf /\ vap_info \in VapInfo
  BY DEF ApTypeOK
<1>3. /\ vap_info'.ssid = IF "ssid" \in changed THEN vconf.ssid ELSE vap_info.ssid
      /\ vap_info'.mode = vap_info.mode /\ vap_info'.mfp = vap_info.mfp
      /\ vap_info'.key = vap_info.key /\ vap_info'.other = vap_info.other
      /\ vap_info'.showSsid = vap_info.showSsid
      /\ vap_info'.mac_filter = vap_info.mac_filter
  BY <1>2 DEF SetSsid, VapInfo
<1>4. trigger_reconfig' = FALSE => vap_info' = vap_info /\ trigger_reconfig = FALSE
  BY DEF SetSsid
<1>5. Copy' = vap_info' /\ Copy = vap_info
  BY <1>1 DEF Copy
<1>6. SecurityInv'
  <2>1. SecurityInv' = (/\ SecurityLeft' \/ Copy'.mode = security_key_mgmt_ovsdb_to_hal(vconf)
                        /\ vconf.wpa => SecurityLeft' \/ Copy'.mfp = vconf.pmf
                        /\ vconf.wpa_psks # <<>> => KeysLeft' \/ <<Copy'.key>> \o hwKeys = vconf.wpa_psks
                        /\ cached_key_ids = Copy'.key)
    BY <1>1, Zenon DEF SecurityInv
  <2>2. SecurityLeft' = FALSE /\ SecurityLeft = FALSE /\ KeysLeft' = FALSE /\ KeysLeft = FALSE
    BY <1>1 DEF SecurityLeft, KeysLeft
  <2> QED
    BY <1>3, <1>5, <2>1, <2>2 DEF AllInv, SecurityInv
<1>7. FieldsInv'
  BY <1>1, <1>3, <1>5 DEF AllInv, FieldsInv, SyncsAcls
<1>8. TriggerInv' /\ AclInv'
  <2>1. trigger_reconfig \in BOOLEAN /\ trigger_reconfig' \in {TRUE, trigger_reconfig}
    BY DEF SetSsid, ApTypeOK
  <2> QED
    BY <1>1, <1>4, <2>1 DEF AllInv, TriggerInv, AclInv, SyncsAcls
<1>9. MeshInv'
  <2> DEFINE told == [mesh EXCEPT !.ssid = vconf.ssid]
  <2>1. told \in MeshInfo /\ told.ssid = vconf.ssid /\ told.showSsid = mesh.showSsid
        /\ told.secMode = mesh.secMode /\ told.passphrase = mesh.passphrase
    BY <1>2, ConfType DEF ApTypeOK, MeshInfo
  <2>2. IF "ssid" \in changed THEN Send(told) ELSE mesh' = mesh
    BY DEF SetSsid, sync_send_ssid_change
  <2> HIDE DEF told
  <2>3. mesh' = IF "ssid" \in changed THEN told ELSE mesh
    BY <2>1, <2>2, SendType
  <2> QED
    BY <1>3, <1>5, <2>1, <2>3 DEF AllInv, MeshInv
<1> QED
  BY <1>6, <1>7, <1>8, <1>9 DEF AllInv

LEMMA AclApplyStep ==
  ASSUME ApTypeOK, AllInv, acl_apply, UNCHANGED <<build, home_ap>>, ~failed'
  PROVE  AllInv'
<1> USE DEF driverVars, requestVars, localVars, boundVars
<1>1. /\ pc = "acl"
      /\ UNCHANGED <<hw, hwKeys, vconf, changed, cached_key_ids, mesh>>
  BY DEF acl_apply
<1>2. vconf \in VifConf /\ vap_info \in VapInfo
  BY DEF ApTypeOK
<1>3. /\ vap_info'.mac_filter = IF SyncsAcls /\ "mac_list_type" \in changed
                                  THEN vconf.mac_list_type ELSE vap_info.mac_filter
      /\ vap_info'.mode = vap_info.mode /\ vap_info'.mfp = vap_info.mfp
      /\ vap_info'.key = vap_info.key /\ vap_info'.other = vap_info.other
      /\ vap_info'.showSsid = vap_info.showSsid /\ vap_info'.ssid = vap_info.ssid
      /\ ~(SyncsAcls /\ "mac_list_type" \in changed) => vap_info' = vap_info
  BY <1>2 DEF acl_apply, VapInfo
<1>4. trigger_reconfig' = (trigger_reconfig \/ (SyncsAcls /\ "mac_list_type" \in changed))
  BY DEF acl_apply
<1>5. \/ /\ pc' = "acl_remove" /\ acl_list' = hwAcl /\ todo' = hwAcl \ vconf.mac_list
         /\ hwAcl' = hwAcl
      \/ pc' = "acl_add" /\ hwAcl' = {} /\ todo' = vconf.mac_list
      \/ pc' = "create" /\ ~(SyncsAcls /\ "mac_list" \in changed) /\ hwAcl' = hwAcl
  BY DEF acl_apply, get_acl_list, Fails
<1>6. Copy' = vap_info' /\ Copy = vap_info
  BY <1>1, <1>5 DEF Copy
<1>7. SecurityInv'
  <2>1. SecurityInv' = (/\ SecurityLeft' \/ Copy'.mode = security_key_mgmt_ovsdb_to_hal(vconf)
                        /\ vconf.wpa => SecurityLeft' \/ Copy'.mfp = vconf.pmf
                        /\ vconf.wpa_psks # <<>> => KeysLeft' \/ <<Copy'.key>> \o hwKeys = vconf.wpa_psks
                        /\ cached_key_ids = Copy'.key)
    BY <1>1, Zenon DEF SecurityInv
  <2>2. SecurityLeft' = FALSE /\ SecurityLeft = FALSE /\ KeysLeft' = FALSE /\ KeysLeft = FALSE
    BY <1>1, <1>5 DEF SecurityLeft, KeysLeft
  <2> QED
    BY <1>3, <1>6, <2>1, <2>2 DEF AllInv, SecurityInv
<1>8. FieldsInv'
  BY <1>1, <1>3, <1>6 DEF AllInv, FieldsInv, SyncsAcls
<1>9. TriggerInv'
  BY <1>1, <1>3, <1>4 DEF AllInv, TriggerInv
<1>10. AclInv'
  BY <1>1, <1>5 DEF AllInv, AclInv, SyncsAcls
<1>11. MeshInv'
  BY <1>1, <1>3, <1>6 DEF AllInv, MeshInv
<1> QED
  BY <1>7, <1>8, <1>9, <1>10, <1>11 DEF AllInv

\* The steps on the access control list leave everything else alone.
LEMMA AclStep ==
  ASSUME AllInv, AclInv',
         pc \in {"acl_remove", "acl_add"}, pc' \in {"acl_remove", "acl_add", "create"},
         UNCHANGED <<build, home_ap, hw, hwKeys, vconf, changed, vap_info, trigger_reconfig,
                     cached_key_ids, mesh>>
  PROVE  AllInv'
<1>1. Copy' = vap_info /\ Copy = vap_info
  BY DEF Copy
<1>2. SecurityInv'
  <2>1. SecurityInv' = (/\ SecurityLeft' \/ Copy'.mode = security_key_mgmt_ovsdb_to_hal(vconf)
                        /\ vconf.wpa => SecurityLeft' \/ Copy'.mfp = vconf.pmf
                        /\ vconf.wpa_psks # <<>> => KeysLeft' \/ <<Copy'.key>> \o hwKeys = vconf.wpa_psks
                        /\ cached_key_ids = Copy'.key)
    BY Zenon DEF SecurityInv
  <2>2. SecurityLeft' = FALSE /\ SecurityLeft = FALSE /\ KeysLeft' = FALSE /\ KeysLeft = FALSE
    BY DEF SecurityLeft, KeysLeft
  <2> QED
    BY <1>1, <2>1, <2>2 DEF AllInv, SecurityInv
<1>3. FieldsInv'
  BY <1>1 DEF AllInv, FieldsInv, SyncsAcls
<1>4. TriggerInv'
  BY DEF AllInv, TriggerInv
<1>5. MeshInv'
  BY <1>1 DEF AllInv, MeshInv
<1> QED
  BY <1>2, <1>3, <1>4, <1>5 DEF AllInv

LEMMA RemoveStep ==
  ASSUME ApTypeOK, AllInv, TodoApart, NEW m \in Macs, AclRemove(m), UNCHANGED <<build, home_ap>>,
         ~failed'
  PROVE  AllInv'
<1> USE DEF driverVars, requestVars, localVars, boundVars
<1>1. /\ pc = "acl_remove" /\ pc' = "acl_remove" /\ m \in todo
      /\ todo' = todo \ {m} /\ hwAcl' = hwAcl \ {m}
      /\ UNCHANGED <<hw, hwKeys, vconf, changed, vap_info, trigger_reconfig, acl_list,
                     cached_key_ids, mesh>>
  BY DEF AclRemove, Fails
<1>2. m \notin vconf.mac_list
  BY <1>1 DEF TodoApart
<1>3. AclInv'
  BY <1>1, <1>2 DEF AllInv, AclInv, SyncsAcls
<1> QED
  BY <1>1, <1>3, AclStep

LEMMA AddStep ==
  ASSUME ApTypeOK, AllInv, NEW m \in Macs, AclAdd(m), UNCHANGED <<build, home_ap>>, ~failed'
  PROVE  AllInv'
<1> USE DEF driverVars, requestVars, localVars, boundVars
<1>1. /\ pc = "acl_add" /\ pc' = "acl_add" /\ m \in todo
      /\ todo' = todo \ {m} /\ hwAcl' = hwAcl \cup {m}
      /\ UNCHANGED <<hw, hwKeys, vconf, changed, vap_info, trigger_reconfig, acl_list,
                     cached_key_ids, mesh>>
  BY DEF AclAdd, Fails
<1>2. AclInv'
  BY <1>1 DEF AllInv, AclInv, SyncsAcls
<1> QED
  BY <1>1, <1>2, AclStep

LEMMA ListStep ==
  ASSUME ApTypeOK, AllInv, AclRemoved \/ AclAdded, UNCHANGED <<build, home_ap>>, ~failed'
  PROVE  AllInv'
<1> USE DEF driverVars, requestVars, localVars, boundVars
<1>1. CASE AclRemoved
  <2>1. /\ pc = "acl_remove" /\ pc' = "acl_add" /\ todo = {}
        /\ todo' = vconf.mac_list \ acl_list
        /\ UNCHANGED <<hw, hwAcl, hwKeys, vconf, changed, vap_info, trigger_reconfig,
                       acl_list, cached_key_ids, mesh>>
    BY <1>1 DEF AclRemoved
  <2>2. AclInv'
    BY <2>1 DEF AllInv, AclInv, SyncsAcls
  <2> QED
    BY <2>1, <2>2, AclStep
<1>2. CASE AclAdded
  <2>1. /\ pc = "acl_add" /\ pc' = "create" /\ todo = {}
        /\ UNCHANGED <<hw, hwAcl, hwKeys, vconf, changed, vap_info, trigger_reconfig,
                       acl_list, todo, cached_key_ids, mesh>>
    BY <1>2 DEF AclAdded
  <2>2. AclInv'
    BY <2>1 DEF AllInv, AclInv, SyncsAcls
  <2> QED
    BY <2>1, <2>2, AclStep
<1> QED
  BY <1>1, <1>2

LEMMA CreateStep ==
  ASSUME ApTypeOK, AllInv, CreateVap, UNCHANGED <<build, home_ap>>, ~failed'
  PROVE  AllInv'
<1> USE DEF driverVars, requestVars, localVars, boundVars
<1>1. /\ pc = "create" /\ pc' = "idle"
      /\ hw' = IF trigger_reconfig THEN vap_info ELSE hw
      /\ UNCHANGED <<hwAcl, hwKeys, vconf, changed, vap_info, trigger_reconfig, acl_list,
                     todo, cached_key_ids, mesh>>
  BY DEF CreateVap, Fails
<1>2. hw' = vap_info
  BY <1>1 DEF AllInv, TriggerInv
<1>3. Copy' = vap_info /\ Copy = vap_info
  BY <1>1, <1>2 DEF Copy
<1>4. SecurityInv'
  <2>1. SecurityInv' = (/\ SecurityLeft' \/ Copy'.mode = security_key_mgmt_ovsdb_to_hal(vconf)
                        /\ vconf.wpa => SecurityLeft' \/ Copy'.mfp = vconf.pmf
                        /\ vconf.wpa_psks # <<>> => KeysLeft' \/ <<Copy'.key>> \o hwKeys = vconf.wpa_psks
                        /\ cached_key_ids = Copy'.key)
    BY <1>1, Zenon DEF SecurityInv
  <2>2. SecurityLeft' = FALSE /\ SecurityLeft = FALSE /\ KeysLeft' = FALSE /\ KeysLeft = FALSE
    BY <1>1 DEF SecurityLeft, KeysLeft
  <2> QED
    BY <1>3, <2>1, <2>2 DEF AllInv, SecurityInv
<1>5. FieldsInv'
  BY <1>1, <1>3 DEF AllInv, FieldsInv, SyncsAcls
<1>6. TriggerInv' /\ AclInv'
  BY <1>1 DEF AllInv, TriggerInv, AclInv, SyncsAcls
<1>7. MeshInv'
  BY <1>1, <1>3 DEF AllInv, MeshInv
<1> QED
  BY <1>4, <1>5, <1>6, <1>7 DEF AllInv

\* Whatever fails, the entries to remove are not in the request.
LEMMA TodoStep == TodoApart /\ ApNext => TodoApart'
<1> SUFFICES ASSUME TodoApart, Step, SyncsAcls' = SyncsAcls PROVE TodoApart'
  BY DEF ApNext, SyncsAcls, fixedVars
<1> USE DEF driverVars, requestVars, localVars, boundVars
<1>1. ASSUME NEW c \in Requests, target_vif_config_set2(c) PROVE TodoApart'
  <2>1. pc' # "acl_remove"
    BY <1>1 DEF target_vif_config_set2
  <2> QED
    BY <2>1 DEF TodoApart
<1>2. CASE SetOpen \/ SetSecurity \/ SetSsidBroadcast \/ SetSsid \/ AclRemoved \/ AclAdded
           \/ CreateVap
  <2>1. pc' \in {"ssid_broadcast", "ssid", "acl", "acl_add", "create", "idle"}
    BY <1>2 DEF SetOpen, SetSecurity, SetSsidBroadcast, SetSsid, AclRemoved, AclAdded,
                CreateVap
  <2> QED
    BY <2>1 DEF TodoApart
<1>3. CASE acl_apply
  <2>1. /\ vconf' = vconf
        /\ pc' = "acl_remove" => SyncsAcls /\ todo' = get_acl_list \ vconf.mac_list
    BY <1>3 DEF acl_apply
  <2> QED
    BY <2>1 DEF TodoApart
<1>4. ASSUME NEW m \in Macs, AclRemove(m) PROVE TodoApart'
  BY <1>4 DEF AclRemove, TodoApart
<1>5. ASSUME NEW m \in Macs, AclAdd(m) PROVE TodoApart'
  BY <1>5 DEF AclAdd, TodoApart
<1> QED
  BY <1>1, <1>2, <1>3, <1>4, <1>5 DEF Step

\* More than one key comes with a build that has them.
LEMMA BuildStep == BuildInv /\ ApNext => BuildInv'
<1> SUFFICES ASSUME BuildInv, Step, UNCHANGED <<build, home_ap>> PROVE BuildInv'
  BY DEF ApNext, fixedVars
<1> USE DEF driverVars, requestVars, localVars, boundVars
<1>1. ASSUME NEW c \in Requests, target_vif_config_set2(c) PROVE BuildInv'
  <2>1. vconf' = c /\ (Len(c.wpa_psks) > 1 => build.multi_psk)
    BY <1>1 DEF target_vif_config_set2
  <2> QED
    BY <2>1 DEF BuildInv
<1>2. CASE vconf' = vconf
  BY <1>2 DEF BuildInv
<1>3. \/ vconf' = vconf \/ \E c \in Requests : target_vif_config_set2(c)
  BY DEF Step, SetOpen, SetSecurity, SetSsidBroadcast, SetSsid, acl_apply, AclRemoved,
         AclAdded, AclRemove, AclAdd, CreateVap
<1> QED
  BY <1>1, <1>2, <1>3

\* Nothing forgets a failure.
LEMMA ApFailure == Step => Fails \/ NoFailure
  BY DEF Step, target_vif_config_set2, SetOpen, SetSecurity, SetSsidBroadcast, SetSsid,
         acl_apply, AclRemoved, AclAdded, AclRemove, AclAdd, CreateVap, SendSecurity,
         sync_send_security_change, sync_send_ssid_broadcast_change,
         sync_send_ssid_change, Send, NoFailure, boundVars

\* Every step of the handler is one of the steps above, or a failure.
LEMMA AppliedStep == ApTypeOK /\ AppliedInv /\ TodoApart /\ ApNext => AppliedInv'
<1> SUFFICES ASSUME ApTypeOK, AppliedInv, TodoApart, Step, UNCHANGED <<build, home_ap>>, ~failed'
             PROVE  AllInv'
  BY DEF ApNext, AppliedInv, AllInv, fixedVars
<1> USE DEF driverVars, requestVars, localVars, boundVars
<1>1. ~failed
  BY ApFailure, Sticky
<1>2. AllInv
  BY <1>1 DEF AppliedInv, AllInv
<1>3. ASSUME NEW c \in Requests, target_vif_config_set2(c) PROVE AllInv'
  BY <1>2, <1>3, RequestStep
<1>4. CASE SetOpen
  BY <1>2, <1>4, OpenStep
<1>5. CASE SetSecurity
  BY <1>2, <1>5, SecurityIsApplied
<1>6. CASE SetSsidBroadcast
  BY <1>2, <1>6, BroadcastStep
<1>7. CASE SetSsid
  BY <1>2, <1>7, SsidStep
<1>8. CASE acl_apply
  BY <1>2, <1>8, AclApplyStep
<1>9. ASSUME NEW m \in Macs, AclRemove(m) PROVE AllInv'
  BY <1>2, <1>9, RemoveStep
<1>10. ASSUME NEW m \in Macs, AclAdd(m) PROVE AllInv'
  BY <1>2, <1>10, AddStep
<1>11. CASE AclRemoved \/ AclAdded
  BY <1>2, <1>11, ListStep
<1>12. CASE CreateVap
  BY <1>2, <1>12, CreateStep
<1> QED
  BY <1>3, <1>4, <1>5, <1>6, <1>7, <1>8, <1>9, <1>10, <1>11, <1>12 DEF Step

\* Everything above holds when OpenSync has read the AP at start.
LEMMA InitApplied == Init => AppliedInv /\ TodoApart /\ BuildInv
<1> SUFFICES ASSUME Init PROVE AllInv /\ TodoApart /\ BuildInv
  BY DEF AppliedInv, AllInv
<1>1. PICK c \in Requests, filter \in MacFilters :
      /\ build \in Builds /\ home_ap \in BOOLEAN
      /\ Len(c.wpa_psks) = 1
      /\ vconf = c
      /\ c.wpa /\ "dpp" \notin c.wpa_key_mgmt
      /\ vap_info = [mode |-> security_key_mgmt_ovsdb_to_hal(c),
                     mfp |-> c.pmf, key |-> Head(c.wpa_psks), ssid |-> c.ssid,
                     showSsid |-> c.ssid_broadcast, other |-> c.other,
                     mac_filter |-> filter]
      /\ hw = vap_info
      /\ hwAcl \in SUBSET Macs
      /\ SyncsAcls => filter = c.mac_list_type /\ hwAcl = c.mac_list
      /\ hwKeys = Tail(c.wpa_psks)
      /\ changed = {}
      /\ pc = "idle"
      /\ trigger_reconfig = FALSE
      /\ acl_list = {} /\ todo = {}
      /\ cached_key_ids = hw.key
      /\ mesh = [ssid |-> hw.ssid, showSsid |-> hw.showSsid,
                 secMode |-> security_key_mgmt_ovsdb_to_sync(c),
                 passphrase |-> <<hw.key>>]
      /\ failed = FALSE
      /\ requests = 0 /\ failures = 0
  BY DEF Init, ApInit
<1> DEFINE sync == security_key_mgmt_ovsdb_to_sync(c)
           mode == security_key_mgmt_ovsdb_to_hal(c)
<1>2. c \in VifConf /\ c.wpa_psks \in Seq(Keys) /\ (mode \in PskModes => sync = mode)
  BY <1>1, RequestsAssumption, KeysType, SyncMode
<1>3. c.wpa_psks # <<>> => <<Head(c.wpa_psks)>> \o Tail(c.wpa_psks) = c.wpa_psks
  BY <1>2, KeysJoin
<1> HIDE DEF sync, mode
<1>4. /\ hw.mode = mode /\ hw.mfp = c.pmf /\ hw.key = Head(c.wpa_psks) /\ hw.ssid = c.ssid
      /\ hw.showSsid = c.ssid_broadcast /\ hw.other = c.other
      /\ SyncsAcls => hw.mac_filter = c.mac_list_type
  BY <1>1 DEF mode
<1>5. Copy = hw
  BY <1>1 DEF Copy
<1>6. SecurityInv
  BY <1>1, <1>3, <1>4, <1>5 DEF SecurityInv, mode
<1>7. FieldsInv
  BY <1>1, <1>4, <1>5 DEF FieldsInv
<1>8. TriggerInv /\ AclInv /\ TodoApart
  BY <1>1 DEF TriggerInv, AclInv, TodoApart
<1>9. MeshInv
  <2>1. mesh.ssid = hw.ssid /\ mesh.showSsid = hw.showSsid /\ mesh.secMode = sync
        /\ mesh.passphrase = <<hw.key>>
    BY <1>1 DEF sync
  <2> QED
    BY <1>2, <1>4, <1>5, <2>1 DEF MeshInv
<1>10. BuildInv
  BY <1>1 DEF BuildInv
<1> QED
  BY <1>6, <1>7, <1>8, <1>9, <1>10 DEF AllInv

-----------------------------------------------------------------------------
(* Either kind of VAP.                                                     *)

ApInv == AppliedInv /\ TodoApart /\ BuildInv

LEMMA NextApInv == TypeOK /\ ApInv /\ [Next]_vars => ApInv'
<1> SUFFICES ASSUME TypeOK, ApInv, [Next]_vars PROVE ApInv'
  OBVIOUS
<1> USE DEF driverVars, requestVars, localVars, boundVars, fixedVars
<1>1. CASE ApNext
  BY <1>1, AppliedStep, TodoStep, BuildStep DEF ApInv, TypeOK
<1>2. CASE UNCHANGED <<build, home_ap, hw, hwAcl, hwKeys, vconf, changed, pc, vap_info,
                       trigger_reconfig, acl_list, todo, cached_key_ids, mesh>>
           /\ (~failed' => ~failed)
  <2>1. UNCHANGED <<SecurityInv, FieldsInv, TriggerInv, AclInv, MeshInv>>
    <3>1. UNCHANGED <<Copy, SecurityLeft, KeysLeft>>
      BY <1>2, Zenon DEF Copy, SecurityLeft, KeysLeft
    <3>2. UNCHANGED SecurityInv
      BY <1>2, <3>1, Zenon DEF SecurityInv
    <3>3. UNCHANGED FieldsInv
      BY <1>2, <3>1, Zenon DEF FieldsInv, SyncsAcls
    <3>4. UNCHANGED <<TriggerInv, AclInv, MeshInv>>
      BY <1>2, <3>1, Zenon DEF TriggerInv, AclInv, MeshInv, SyncsAcls
    <3> QED
      BY <3>2, <3>3, <3>4, Zenon
  <2>2. UNCHANGED <<TodoApart, BuildInv>>
    BY <1>2, Zenon DEF TodoApart, BuildInv, SyncsAcls
  <2> QED
    BY <1>2, <2>1, <2>2, Zenon DEF ApInv, AppliedInv
<1>3. ASSUME NEW c \in StaRequests, vif_sta_config_set2(c) PROVE ApInv'
  <2>1. UNCHANGED <<build, home_ap, hw, hwAcl, hwKeys, vconf, changed, pc, vap_info,
                    trigger_reconfig, acl_list, todo, cached_key_ids, mesh>>
    BY <1>3 DEF vif_sta_config_set2
  <2>2. ~failed' => ~failed
    BY <1>3, FailureType DEF vif_sta_config_set2, TypeOK
  <2> QED
    BY <1>2, <2>1, <2>2
<1>4. CASE UNCHANGED vars
  BY <1>2, <1>4 DEF vars, apVars
<1> QED
  BY <1>1, <1>3, <1>4 DEF Next

\* The keys Wifi_VIF_State shows, each under its id.
LEMMA PairsJoin ==
  ASSUME NEW key \in Keys, NEW beyond \in Seq(Keys), NEW psks \in Seq(Keys),
         <<key>> \o beyond = psks
  PROVE  <<<<key, key>>>> \o [i \in DOMAIN beyond |-> <<beyond[i], beyond[i]>>]
           = [i \in DOMAIN psks |-> <<psks[i], psks[i]>>]
<1> DEFINE Pairs == Keys \X Keys
           first == <<<<key, key>>>>
           rest == [i \in DOMAIN beyond |-> <<beyond[i], beyond[i]>>]
           shown == [i \in DOMAIN psks |-> <<psks[i], psks[i]>>]
<1>1. /\ Len(beyond) \in Nat /\ Len(psks) = Len(beyond) + 1
      /\ DOMAIN beyond = 1 .. Len(beyond) /\ DOMAIN psks = 1 .. Len(psks)
      /\ psks[1] = key
      /\ \A i \in 1 .. Len(beyond) : psks[i + 1] = beyond[i]
  BY KeysSplit
<1>2. first \in Seq(Pairs) /\ Len(first) = 1 /\ first[1] = <<key, key>>
  OBVIOUS
<1>3. rest \in Seq(Pairs) /\ Len(rest) = Len(beyond)
      /\ \A i \in 1 .. Len(beyond) : rest[i] = <<beyond[i], beyond[i]>>
  <2>1. \A i \in DOMAIN beyond : beyond[i] \in Keys
    OBVIOUS
  <2>2. rest \in [1 .. Len(beyond) -> Pairs]
    BY <1>1, <2>1
  <2> QED
    BY <1>1, <2>2, LenProperties
<1>4. shown \in Seq(Pairs) /\ Len(shown) = Len(psks)
      /\ \A i \in 1 .. Len(psks) : shown[i] = <<psks[i], psks[i]>>
  <2>1. \A i \in DOMAIN psks : psks[i] \in Keys
    OBVIOUS
  <2>2. shown \in [1 .. Len(psks) -> Pairs]
    BY <1>1, <2>1
  <2> QED
    BY <1>1, <2>2, LenProperties
<1> HIDE DEF Pairs, first, rest, shown
<1>5. /\ first \o rest \in Seq(Pairs) /\ Len(first \o rest) = Len(first) + Len(rest)
      /\ \A i \in 1 .. Len(first) + Len(rest) :
            (first \o rest)[i] = IF i <= Len(first) THEN first[i] ELSE rest[i - Len(first)]
  <2>1. first \in Seq(Pairs) /\ rest \in Seq(Pairs)
    BY <1>2, <1>3
  <2> QED
    BY <2>1, ConcatProperties
<1>6. ASSUME NEW i \in 1 .. Len(first \o rest) PROVE (first \o rest)[i] = shown[i]
  <2>1. CASE i = 1
    <3>1. (first \o rest)[1] = first[1]
      BY <1>2, <1>3, <1>5, <2>1
    <3>2. shown[1] = <<psks[1], psks[1]>>
      BY <1>1, <1>4
    <3> QED
      BY <1>1, <1>2, <2>1, <3>1, <3>2, Zenon
  <2>2. CASE i # 1
    <3>1. i - 1 \in 1 .. Len(beyond) /\ (i - 1) + 1 = i /\ i \in 1 .. Len(psks)
      BY <1>1, <1>2, <1>3, <1>5, <2>2
    <3>2. (first \o rest)[i] = rest[i - 1]
      BY <1>2, <1>5, <2>2
    <3> QED
      BY <1>1, <1>3, <1>4, <3>1, <3>2
  <2> QED
    BY <2>1, <2>2
<1>7. first \o rest = shown
  BY <1>1, <1>2, <1>3, <1>4, <1>5, <1>6, SeqEqual
<1> QED
  BY <1>7 DEF first, rest, shown

\* Between two requests the invariant is what a request promises.
LEMMA AppliedIsRequest == ApTypeOK /\ AppliedInv /\ BuildInv => RequestApplied
<1> SUFFICES ASSUME ApTypeOK, AllInv, BuildInv, pc = "idle" PROVE RequestApplied
  BY DEF AppliedInv, AllInv, RequestApplied
<1>1. vconf \in VifConf /\ hw.key \in Keys /\ hwKeys \in Seq(Keys)
  BY DEF ApTypeOK, VapInfo
<1>2. Copy = hw /\ ~SecurityLeft /\ ~KeysLeft
  BY DEF Copy, SecurityLeft, KeysLeft
<1>3. /\ hw.mode = security_key_mgmt_ovsdb_to_hal(vconf)
      /\ vconf.wpa => hw.mfp = vconf.pmf
      /\ vconf.wpa_psks # <<>> => <<hw.key>> \o hwKeys = vconf.wpa_psks
      /\ cached_key_ids = hw.key
  BY <1>2 DEF AllInv, SecurityInv
<1>4. /\ hw.other = vconf.other /\ hw.showSsid = vconf.ssid_broadcast
      /\ hw.ssid = vconf.ssid
      /\ SyncsAcls => hw.mac_filter = vconf.mac_list_type /\ hwAcl = vconf.mac_list
  BY <1>2 DEF AllInv, FieldsInv, AclInv
<1>5. ASSUME hw.mode \notin {"none", "wpa2_enterprise"}
      PROVE  get_security.wpa_psks =
               [i \in DOMAIN vconf.wpa_psks |-> <<vconf.wpa_psks[i], vconf.wpa_psks[i]>>]
  <2>1. <<hw.key>> \o hwKeys = vconf.wpa_psks /\ vconf.wpa_psks \in Seq(Keys)
    BY <1>1, <1>3, <1>5, SyncMode, KeysType
  <2> DEFINE rest == [i \in DOMAIN hwKeys |-> <<hwKeys[i], hwKeys[i]>>]
  <2>2. ~build.multi_psk => rest = <<>>
    <3>1. Len(vconf.wpa_psks) = Len(hwKeys) + 1 /\ Len(hwKeys) \in Nat
      BY <1>1, <2>1, KeysSplit
    <3>2. ~build.multi_psk => Len(hwKeys) = 0
      BY <3>1 DEF BuildInv
    <3>3. ~build.multi_psk => hwKeys = <<>>
      BY <1>1, <3>2
    <3> QED
      BY <3>3
  <2>3. get_psks = <<<<hw.key, hw.key>>>> \o rest
    BY <1>3, <2>2, Zenon DEF get_psks
  <2>4. get_security.wpa_psks = get_psks
    BY <1>5 DEF get_security
  <2> QED
    BY <1>1, <2>1, <2>3, <2>4, PairsJoin
<1>6. get_security.pmf = hw.mfp
  BY DEF get_security
<1>7. SyncsAcls => acl_to_state = [mac_list_type |-> vconf.mac_list_type,
                                   mac_list |-> vconf.mac_list]
  BY <1>4 DEF acl_to_state
<1> QED
  BY <1>3, <1>4, <1>5, <1>6, <1>7 DEF RequestApplied

LEMMA AppliedIsTold == AppliedInv => MeshKnowsDriver
  BY DEF AppliedInv, MeshInv, Copy, MeshKnowsDriver, PskModes

\* Every mode the driver may have but none comes back.
LEMMA ModeComesBack == ApTypeOK => AdoptionIsStable
  BY DEF ApTypeOK, VapInfo, Modes, AdoptionIsStable, security_key_mgmt_ovsdb_to_hal,
         security_wpa_key_mgmt_match, vif_external_security_update,
         security_key_mgmt_hal_to_ovsdb

-----------------------------------------------------------------------------
(* A request for a station.                                                *)

LEMMA StationStep ==
  ASSUME TypeOK, StationFollowsRequest, NEW c \in StaRequests, vif_sta_config_set2(c)
  PROVE  StationFollowsRequest'
<1> SUFFICES ASSUME ~failed' PROVE StationFollowsRequest'
  BY DEF StationFollowsRequest
<1>1. ~failed /\ sta_vconf' = c /\ sta_info' = StaApplied(c)
  BY Sticky DEF vif_sta_config_set2, TypeOK, Fails
<1>2. /\ c \in StaConf /\ c.cconfs \in Credentials
      /\ c.cconfs \in [ssid : Ssids, key : Keys] /\ sta_info \in StaInfo
      /\ c.cconfs = [ssid |-> c.cconfs.ssid, key |-> c.cconfs.key]
  BY StaAssumption DEF StaConf, TypeOK
<1>3. CASE Differing(c) \cap {"ssid", "mode", "key", "parent"} # {}
  <2>1. sta_info' = [Joining(c) EXCEPT !.enabled = c.enabled]
    BY <1>1, <1>3 DEF StaApplied
  <2>2. CASE c.ssid = Unset
    <3>1. /\ sta_info'.enabled = c.enabled /\ sta_info'.mode = "wpa2"
          /\ sta_info'.key = c.cconfs.key /\ sta_info'.ssid = c.cconfs.ssid
      BY <1>2, <2>1, <2>2 DEF Joining, StaInfo
    <3> QED
      BY <1>1, <1>2, <2>2, <3>1 DEF StationFollowsRequest, vif_sta_state_get
  <2>3. CASE c.ssid # Unset
    <3>1. /\ sta_info'.enabled = c.enabled /\ sta_info'.mode = StaMode(c.mode)
          /\ sta_info'.key = c.key /\ sta_info'.ssid = c.ssid
          /\ c.parent \in {sta_info'.bssid, Unset}
      BY <1>2, <2>1, <2>3 DEF Joining, StaInfo
    <3> QED
      BY <1>1, <1>2, <2>3, <3>1 DEF StationFollowsRequest, vif_sta_state_get, StaMode,
                                    StaConf, StaModes
  <2> QED
    BY <2>2, <2>3
<1>4. CASE Differing(c) \cap {"ssid", "mode", "key", "parent"} = {}
  <2>1. sta_info' = [sta_info EXCEPT !.enabled = c.enabled]
    BY <1>1, <1>4 DEF StaApplied
  <2>2. DOMAIN c = {"enabled", "ssid", "parent", "mode", "key", "cconfs"}
    BY <1>2 DEF StaConf
  <2>3. sta_vconf # Unset
    BY <1>4, <2>2 DEF Differing
  <2>4. /\ c.ssid = sta_vconf.ssid /\ c.mode = sta_vconf.mode /\ c.key = sta_vconf.key
        /\ c.parent = sta_vconf.parent
    BY <1>4, <2>2, <2>3 DEF Differing
  <2>5. /\ sta_info'.enabled = c.enabled /\ sta_info'.mode = sta_info.mode
        /\ sta_info'.key = sta_info.key /\ sta_info'.ssid = sta_info.ssid
        /\ sta_info'.bssid = sta_info.bssid
    BY <1>2, <2>1 DEF StaInfo
  <2> QED
    BY <1>1, <2>3, <2>4, <2>5 DEF StationFollowsRequest, vif_sta_state_get
<1> QED
  BY <1>3, <1>4

LEMMA NextStation ==
  TypeOK /\ StationFollowsRequest /\ [Next]_vars => StationFollowsRequest'
<1> SUFFICES ASSUME TypeOK, StationFollowsRequest, [Next]_vars PROVE StationFollowsRequest'
  OBVIOUS
<1>1. CASE vap_mode = "ap" /\ ApNext /\ UNCHANGED <<vap_mode, sta_info, sta_vconf>>
  <2>1. ~failed' => ~failed
    BY <1>1, ApFailure, Sticky DEF ApNext, TypeOK
  <2> QED
    BY <1>1, <2>1 DEF StationFollowsRequest, vif_sta_state_get
<1>2. ASSUME NEW c \in StaRequests, vif_sta_config_set2(c) PROVE StationFollowsRequest'
  BY <1>2, StationStep
<1>3. CASE UNCHANGED vars
  BY <1>3 DEF vars, apVars, boundVars, StationFollowsRequest, vif_sta_state_get
<1> QED
  BY <1>1, <1>2, <1>3 DEF Next

-----------------------------------------------------------------------------
(* The theorems.                                                           *)

LEMMA Invariant == Spec => [](TypeOK /\ ApInv /\ StationFollowsRequest)
<1>1. Init => TypeOK /\ ApInv /\ StationFollowsRequest
  BY InitTypeOK, InitApplied DEF Init, ApInv, StationFollowsRequest
<1>2. TypeOK /\ ApInv /\ StationFollowsRequest /\ [Next]_vars
         => TypeOK' /\ ApInv' /\ StationFollowsRequest'
  BY NextTypeOK, NextApInv, NextStation
<1> QED
  BY <1>1, <1>2, PTL DEF Spec

\* In every state of an AP and of a station the variables have their types.
THEOREM TypeCorrect == Spec => []TypeOK
  BY Invariant, PTL

\* After any number of requests the driver has, and Wifi_VIF_State shows, what
\* the last one asks for, although only changed fields are applied (vif.c): in
\* every build, and for home APs and others, but for the access control lists
\* of home APs in a build that leaves them to their owner.
THEOREM RequestAlwaysApplied == Spec => []RequestApplied
<1>1. TypeOK /\ ApInv => RequestApplied
  BY AppliedIsRequest DEF TypeOK, ApInv
<1> QED
  BY <1>1, Invariant, PTL

\* Once a request is handled, the Mesh-Agent has the driver's SSID, visibility
\* and, in the modes it is told, security.
THEOREM MeshAlwaysKnows == Spec => []MeshKnowsDriver
<1>1. ApInv => MeshKnowsDriver
  BY AppliedIsTold DEF ApInv
<1> QED
  BY <1>1, Invariant, PTL

\* What vif_external_security_update writes to Wifi_VIF_Config decodes to the
\* driver's mode.
THEOREM AdoptionAlwaysStable == Spec => []AdoptionIsStable
<1>1. TypeOK => AdoptionIsStable
  BY ModeComesBack DEF TypeOK
<1> QED
  BY <1>1, Invariant, PTL

\* A station is shown with the network of its last request, or of one credential.
THEOREM StationAlwaysFollows == Spec => []StationFollowsRequest
  BY Invariant, PTL

\* A station that the request keeps is never off the list, except between the
\* flush and the additions of HAL 3 phase 2; from a list that is another
\* owner's nothing is ever removed (acl_apply).
THEOREM AclAlwaysKeepsCommon == Spec => AclKeepsCommon
<1>1. TypeOK /\ ApInv /\ [Next]_vars
         => [Flushing \/ hwAcl \cap Staying' \subseteq hwAcl']_apVars
  <2> SUFFICES ASSUME TypeOK, ApInv, [Next]_vars, apVars' # apVars, ~Flushing
               PROVE  hwAcl \cap Staying' \subseteq hwAcl'
    OBVIOUS
  <2> USE DEF driverVars, requestVars, localVars, boundVars, fixedVars
  <2>1. ASSUME NEW m \in Macs, AclRemove(m), UNCHANGED fixedVars
        PROVE  hwAcl \cap Staying' \subseteq hwAcl'
    <3>1. /\ pc = "acl_remove" /\ m \in todo /\ vconf' = vconf
          /\ hwAcl' = hwAcl \ {m} \/ hwAcl' = hwAcl
      BY <2>1 DEF AclRemove
    <3>2. SyncsAcls' /\ m \notin vconf.mac_list
      BY <2>1, <3>1 DEF ApInv, TodoApart, SyncsAcls
    <3> QED
      BY <3>1, <3>2 DEF Staying
  <2>2. ASSUME NEW m \in Macs, AclAdd(m)
        PROVE  hwAcl \cap Staying' \subseteq hwAcl'
    BY <2>2 DEF AclAdd
  <2>3. CASE hwAcl' = hwAcl
    BY <2>3
  <2>4. ASSUME NEW c \in Requests, target_vif_config_set2(c) PROVE hwAcl' = hwAcl
    BY <2>4 DEF target_vif_config_set2
  <2>5. CASE SetOpen \/ SetSecurity \/ SetSsidBroadcast \/ SetSsid
             \/ AclRemoved \/ AclAdded \/ CreateVap
    BY <2>3, <2>5 DEF SetOpen, SetSecurity, SetSsidBroadcast, SetSsid,
                      AclRemoved, AclAdded, CreateVap
  <2>6. CASE acl_apply
    BY <2>3, <2>6 DEF acl_apply, Flushing
  <2>7. ASSUME NEW c \in StaRequests, vif_sta_config_set2(c) PROVE hwAcl' = hwAcl
    BY <2>7 DEF vif_sta_config_set2
  <2>8. CASE UNCHANGED vars
    BY <2>3, <2>8 DEF vars, apVars
  <2> QED
    BY <2>1, <2>2, <2>3, <2>4, <2>5, <2>6, <2>7, <2>8 DEF Next, ApNext, Step
<1> QED
  BY <1>1, Invariant, PTL DEF Spec, AclKeepsCommon
=============================================================================
