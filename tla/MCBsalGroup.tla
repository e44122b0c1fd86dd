---------------------------- MODULE MCBsalGroup ----------------------------
\* A box with three radios, one interface on each.
EXTENDS BsalGroup, TLC

MCBandOf == ("home24" :> "24G") @@ ("home50" :> "5G") @@ ("home60" :> "6G")
=============================================================================
