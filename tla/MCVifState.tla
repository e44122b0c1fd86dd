----------------------------- MODULE MCVifState -----------------------------
(* One VAP with a queue of two, two configurations, one event of each kind *)
(* and one failing HAL call: what one VAP's timer, events and readings do  *)
(* to each other.  VAPs share only the loop, which runs one update at a    *)
(* time.                                                                   *)
EXTENDS VifState

CONSTANTS v1, a, b, none

MCVaps == {v1}
MCPair == {a, b}
MCOne == {a}
MCTimeout == {"TIMEOUT"}
=============================================================================
