---------------------------- MODULE SerialEeprom ----------------------------
(***************************************************************************)
(* What a game expects of the serial EEPROM on a cartridge: an array of    *)
(* words behind a one-command interface.  A programming command is taken   *)
(* only when the chip is not busy, and only has an effect when programming *)
(* has been enabled; from then on every read returns the new contents, and *)
(* the chip is eventually no longer busy.                                  *)
(***************************************************************************)
CONSTANTS Address,   \* the words a reader looks at
          Word,      \* what a word may hold
          Erased,    \* what an erased word holds
          Erasable   \* the words that erase-all erases: all, if the chip is in order

VARIABLES cells,     \* the contents of the array
          enabled,   \* whether programming is enabled
          busy,      \* a programming command is in progress
          output     \* the word the last read returned

vars == <<cells, enabled, busy, output>>

Init == /\ cells \in [Address -> Word]
        /\ enabled = FALSE
        /\ busy = FALSE
        /\ output \in Word

\* The contents after programming command op, on address a with word d.
Programmed(op, a, d) ==
  CASE op = "WRITE" -> [x \in Address |-> IF x = a THEN d ELSE cells[x]]
    [] op = "ERASE" -> [x \in Address |-> IF x = a THEN Erased ELSE cells[x]]
    [] op = "WRAL"  -> [x \in Address |-> d]
    [] op = "ERAL"  -> [x \in Address |-> IF x \in Erasable THEN Erased ELSE cells[x]]

Enable  == ~busy /\ enabled' = TRUE  /\ UNCHANGED <<cells, busy, output>>
Disable == ~busy /\ enabled' = FALSE /\ UNCHANGED <<cells, busy, output>>

Program(op, a, d) ==
  /\ ~busy
  /\ enabled
  /\ cells' = Programmed(op, a, d)
  /\ busy' = TRUE
  /\ UNCHANGED <<enabled, output>>

Read(a) == output' = cells[a] /\ UNCHANGED <<cells, enabled, busy>>

Complete == busy /\ busy' = FALSE /\ UNCHANGED <<cells, enabled, output>>

Next == \/ Enable \/ Disable \/ Complete
        \/ \E a \in Address : Read(a)
        \/ \E op \in {"WRITE", "ERASE", "WRAL", "ERAL"}, a \in Address, d \in Word :
              Program(op, a, d)

Spec == Init /\ [][Next]_vars /\ WF_vars(Complete)
=============================================================================
