------------------------------ MODULE MCRadio ------------------------------
(* Two radios, whose events may meet in one batch (MCRadio.cfg), and what  *)
(* a comment promises about such a batch (MCRadioTwo.cfg).                  *)
EXTENDS Radio

CONSTANTS c1, c2, none

MCChannels == {c1, c2}
=============================================================================
