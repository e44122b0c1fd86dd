----------------------------- MODULE MCClients -----------------------------
(* Client tracking with multi-PSK, two stations and two VAPs.              *)
EXTENDS Clients

CONSTANTS s1, s2, key, k1, NoKey

MCStas == {s1, s2}
MCKeyIds == {key, k1}
=============================================================================
