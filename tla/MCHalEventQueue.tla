-------------------------- MODULE MCHalEventQueue --------------------------
(* HalEventQueue with three HAL threads, two payloads and a short queue.     *)
EXTENDS HalEventQueue

CONSTANTS t1, t2, t3, e1, e2

MCThreads == {t1, t2, t3}
MCEvents == {e1, e2}
=============================================================================
