----------------------------- MODULE SaveMemory ------------------------------
(***************************************************************************)
(* What the MCU keeps while the console is off (nvram.c, mcu.c:631-664,    *)
(* spi_cmd.c:148-187, rtc.c:195-213): the save identity, type and contents *)
(* of the emulated EEPROM in an SRAM that a shutdown may retain, and a     *)
(* second identity in a backup register beside the clock.                  *)
(***************************************************************************)
CONSTANTS
  Ids,          \* save identities
  Types         \* EEPROM types other than NONE

VARIABLES
  nvram,        \* the SRAM's retained section
  bkp8,         \* TAMP->BKP8R
  clock_source, \* of the RTC; selected until the backup domain is reset
  retained,     \* the power mode of the shutdown: Standby, not Shutdown
  saved_id,     \* save_id of mcu_reset_backup_domain
  told, toldId  \* history: what the console has last stored in the two places

memory == <<nvram, bkp8, clock_source, retained, saved_id, told, toldId>>

NONE == "NONE"
Cleared == "zero"  \* a backup register after a reset of its domain

\* The section with no power: nothing in it means anything.
Lost  == [magic |-> FALSE, save_id |-> "junk", eeprom_type |-> "junk", data |-> "junk"]
Fresh == [magic |-> TRUE, save_id |-> NONE, eeprom_type |-> NONE, data |-> "junk"]

MemoryInit ==
  /\ nvram = Lost /\ bkp8 = Cleared /\ clock_source = NONE
  /\ retained = FALSE /\ saved_id = Cleared
  /\ told = Fresh /\ toldId = Cleared

\* nvram_init
NvramInit ==
  /\ nvram' = IF nvram.magic THEN nvram ELSE Fresh
  /\ UNCHANGED <<bkp8, clock_source, retained, saved_id, told, toldId>>

RetentionRequired(m) == m.eeprom_type # NONE /\ m.save_id # NONE

-----------------------------------------------------------------------------
(* The console's commands.                                                 *)

\* EEPROM_MODE, and EEPROM_WRITE or EEPROM_ERASE.
SetEepromMode(type) ==
  /\ nvram' = [nvram EXCEPT !.eeprom_type = type] /\ told' = [told EXCEPT !.eeprom_type = type]
  /\ UNCHANGED <<bkp8, clock_source, retained, saved_id, toldId>>

WriteEeprom ==
  /\ nvram' = [nvram EXCEPT !.data = "data"] /\ told' = [told EXCEPT !.data = "data"]
  /\ UNCHANGED <<bkp8, clock_source, retained, saved_id, toldId>>

\* SET_SAVE_ID: a domain that the command does not name forgets its identity.
SetSaveId(id, sram, rtc) ==
  LET sramId == IF sram THEN id ELSE NONE
      rtcId  == IF rtc THEN id ELSE NONE
  IN  /\ nvram' = [nvram EXCEPT !.save_id = sramId] /\ told' = [told EXCEPT !.save_id = sramId]
      /\ bkp8' = rtcId /\ toldId' = rtcId
      /\ UNCHANGED <<clock_source, retained, saved_id>>

\* mcu_reset_backup_domain: the reset ...
ResetBackupDomain ==
  /\ saved_id' = bkp8
  /\ bkp8' = Cleared /\ clock_source' = NONE
  /\ UNCHANGED <<nvram, retained, told, toldId>>

\* ... and the identity's return.
RestoreSaveId ==
  /\ bkp8' = saved_id /\ saved_id' = Cleared
  /\ UNCHANGED <<nvram, clock_source, retained, told, toldId>>

SetClockSource(source) ==
  /\ clock_source' = source
  /\ UNCHANGED <<nvram, bkp8, retained, saved_id, told, toldId>>

-----------------------------------------------------------------------------
(* Power.                                                                  *)

\* An identity that the reset of its domain has taken and not yet given back is
\* lost when the MCU stops there.
Forget(cut) == toldId' = IF cut THEN bkp8 ELSE toldId

\* Mutant: the SRAM is kept for the oscillator's sake only.
ShutdownMemoryByClock(cut) ==
  /\ retained' = (clock_source = "LSI")
  /\ Forget(cut)
  /\ UNCHANGED <<nvram, bkp8, clock_source, saved_id, told>>

\* mcu_shutdown's choice.  In its Shutdown mode the internal oscillator that
\* may clock the RTC stops, and so does the SRAM.
ShutdownMemory(cut) ==
  /\ retained' = (RetentionRequired(nvram) \/ clock_source = "LSI")
  /\ Forget(cut)
  /\ UNCHANGED <<nvram, bkp8, clock_source, saved_id, told>>

\* The SRAM when the MCU starts again from "halted" or from where it was; what
\* need not be kept and is gone is no longer told.
Survives(halted) == ~halted \/ retained

RestartMemory(halted, cut) ==
  /\ nvram' = IF Survives(halted) THEN nvram ELSE Lost
  /\ told'  = IF Survives(halted) \/ RetentionRequired(told) THEN told ELSE Fresh
  /\ retained' = FALSE /\ saved_id' = Cleared
  /\ Forget(cut)
  /\ UNCHANGED <<bkp8, clock_source>>

\* Neither console nor battery.
LoseMemory ==
  /\ nvram' = Lost /\ bkp8' = Cleared /\ clock_source' = NONE
  /\ retained' = FALSE /\ saved_id' = Cleared
  /\ told' = Fresh /\ toldId' = Cleared

-----------------------------------------------------------------------------
MemoryTypeOK ==
  /\ nvram = Lost \/ nvram \in [magic : {TRUE}, save_id : Ids \cup {NONE},
                                eeprom_type : Types \cup {NONE}, data : {"junk", "data"}]
  /\ {bkp8, toldId, saved_id} \subseteq Ids \cup {NONE, Cleared}
  /\ clock_source \in {NONE, "LSE", "LSI"} /\ retained \in BOOLEAN

\* Once nvram_init has run: an identity that is found belongs to the type and
\* contents found with it, and what must be kept has been kept.
SramKept ==
  /\ nvram.save_id # NONE => nvram = told
  /\ RetentionRequired(told) => nvram = told
=============================================================================
