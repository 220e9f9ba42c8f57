---------------------------- MODULE MCEepromLink ----------------------------
(* A 64-word EEPROM (eepromSize_128B) of which the first and the last word   *)
(* and those at both sides of cycle 0x11 are watched, where the erase-all    *)
(* command stops: it is expected to reach them all, or those up to there.    *)
EXTENDS EepromLink

CONSTANT Other

MCWatched == {0, 17, 18, 63}
MCWord == {Erased, Other}
Lowest == {0, 17}
AllOperations == {"READ", "WRITE", "ERASE", "WRAL", "ERAL", "WEN", "WDS"}
=============================================================================
