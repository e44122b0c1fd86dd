------------------------------ MODULE StaConfig ------------------------------
(***************************************************************************)
(* VIF configuration (vif.c) for either kind of VAP: an AP, by VifConfig,  *)
(* or a station, by vif_sta_config_set2.                                   *)
(*                                                                         *)
(* A station has either a network to join in its own row, with or without  *)
(* a parent, or the first credential it was given.  The handler makes the  *)
(* changes in the vap_info it read and writes that back in one call, so    *)
(* here it is one action.                                                  *)
(***************************************************************************)
EXTENDS VifConfig

CONSTANTS
    StaRequests,        \* the configurations that are requested
    Credentials,        \* rows of Wifi_Credential_Config
    Bssids,
    Unset               \* an empty string, address or key

StaModes == {"mixed", "1", "2"}

\* Wifi_VIF_Config of a station, with cconfs.  Any other mode is the last one.
StaConf ==
    [enabled : BOOLEAN, ssid : Ssids \cup {Unset}, parent : Bssids \cup {Unset},
     mode : StaModes \cup {Unset}, key : Keys, cconfs : Credentials]

StaInfo ==
    [enabled : BOOLEAN, ssid : Ssids \cup {Unset}, bssid : Bssids \cup {Unset},
     mode : {"wpa_wpa2", "wpa", "wpa2", "none"}, key : Keys \cup {Unset}]

ASSUME StaAssumption ==
    /\ Unset \notin Ssids \cup Bssids \cup Keys \cup StaModes
    /\ Credentials \subseteq [ssid : Ssids, key : Keys]
    /\ StaRequests \subseteq StaConf

VARIABLES
    vap_mode,
    sta_info,           \* the driver's
    sta_vconf           \* the last request, or Unset

vars == <<apVars, vap_mode, sta_info, sta_vconf>>

\* target_radio_config_init2 makes no rows of stations: the first request is
\* the first OpenSync knows of one.
Init ==
    /\ ApInit
    /\ vap_mode \in {"ap", "sta"}
    /\ sta_info = [enabled |-> FALSE, ssid |-> Unset, bssid |-> Unset, mode |-> "none",
                   key |-> Unset]
    /\ sta_vconf = Unset

\* The fields of c that differ from the last request.
Differing(c) ==
    IF sta_vconf = Unset
      THEN DOMAIN c
      ELSE {f \in DOMAIN c : c[f] # sta_vconf[f]}

StaMode(mode) ==
    CASE mode = "mixed" -> "wpa_wpa2"
      [] mode = "1" -> "wpa"
      [] OTHER -> "wpa2"

\* Without an SSID of its own the station takes the credential's network.  An
\* empty parent is not copied.
Joining(c) ==
    IF c.ssid = Unset
      THEN [sta_info EXCEPT !.mode = "wpa2", !.key = c.cconfs.key, !.ssid = c.cconfs.ssid]
      ELSE [sta_info EXCEPT !.mode = StaMode(c.mode), !.key = c.key, !.ssid = c.ssid,
                            !.bssid = IF c.parent = Unset THEN @ ELSE c.parent]

\* Mutated form: a change of the parent alone is not looked at.
StaApplied_no_parent(c) ==
    [(IF Differing(c) \cap {"ssid", "mode", "key"} # {} THEN Joining(c) ELSE sta_info)
       EXCEPT !.enabled = c.enabled]

\* A change of the credentials alone is not looked at.
StaApplied(c) ==
    [(IF Differing(c) \cap {"ssid", "mode", "key", "parent"} # {} THEN Joining(c) ELSE sta_info)
       EXCEPT !.enabled = c.enabled]

\* A vap_info that cannot be read ends the request; a failure of wifi_createVAP
\* is logged.
vif_sta_config_set2(c) ==
    /\ requests < MaxRequests
    /\ requests' = requests + 1
    /\ c # sta_vconf
    /\ sta_vconf' = c
    /\ \/ sta_info' = StaApplied(c) /\ NoFailure
       \/ Fails /\ UNCHANGED sta_info
    /\ UNCHANGED <<fixedVars, driverVars, requestVars, pc, localVars, cached_key_ids,
                   mesh, vap_mode>>

Next ==
    \/ vap_mode = "ap" /\ ApNext /\ UNCHANGED <<vap_mode, sta_info, sta_vconf>>
    \/ vap_mode = "sta" /\ \E c \in StaRequests : vif_sta_config_set2(c)

Spec == Init /\ [][Next]_vars

-----------------------------------------------------------------------------
(* Properties.                                                             *)

TypeOK ==
    /\ ApTypeOK
    /\ vap_mode \in {"ap", "sta"}
    /\ sta_info \in StaInfo
    /\ sta_vconf \in StaConf \cup {Unset}

\* What Wifi_VIF_State shows of a station.
vif_sta_state_get ==
    [enabled |-> sta_info.enabled, ssid |-> sta_info.ssid, parent |-> sta_info.bssid,
     key |-> sta_info.key,
     mode |-> CASE sta_info.mode = "wpa_wpa2" -> "mixed"
                [] sta_info.mode = "wpa" -> "1"
                [] sta_info.mode = "wpa2" -> "2"
                [] OTHER -> Unset]

\* After any sequence of requests without a failure, each applied with the
\* flags of what changed, a station is shown with the network and the parent the
\* last one names; with none of its own it has the SSID and the key of one
\* credential, never a mix of two networks.
StationFollowsRequest ==
    sta_vconf # Unset /\ ~failed
      => LET state == vif_sta_state_get
         IN  /\ state.enabled = sta_vconf.enabled
             /\ IF sta_vconf.ssid = Unset
                  THEN /\ [ssid |-> state.ssid, key |-> state.key] \in Credentials
                       /\ state.mode = "2"
                  ELSE /\ <<state.ssid, state.key>> = <<sta_vconf.ssid, sta_vconf.key>>
                       /\ sta_vconf.mode \in {state.mode, Unset}
                       /\ sta_vconf.parent \in {state.parent, Unset}
=============================================================================
