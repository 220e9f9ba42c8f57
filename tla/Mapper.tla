------------------------------- MODULE Mapper --------------------------------
(***************************************************************************)
(* The FPGA's mapper (fpga/rtl/nileswan.sv): the registers that the        *)
(* console sees in I/O space, what they put at each area of its memory,    *)
(* and the emulation of a flash chip in front of the PSRAM.                *)
(*                                                                         *)
(* Left out: the registers of devices that other modules model, the bank   *)
(* masks, which let all through here, the width of the bus, and reads that *)
(* write (enable_lodsw_psram_write).                                       *)
(***************************************************************************)
EXTENDS Integers, Sequences

VARIABLES
  reg,              \* the registers
  flash_emu_state

mapper == <<reg, flash_emu_state>>

FlashEmuState == {"WaitAA", "Wait55", "Cmd", "FastMode", "FastModeWrite", "SingleWrite", "Erase"}

Registers == [
  enable_nileswan_ex : BOOLEAN, enable_bandai2003_ex : BOOLEAN,
  enable_sram : BOOLEAN, enable_flash_emu : BOOLEAN, self_flash : BOOLEAN,
  ram_addr_ext : 0..1023, rom0_addr_ext : 0..1023, rom1_addr_ext : 0..1023,
  rom_linear_addr_ext : 0..63]

\* As the bitstream is loaded.
PowerOn == [
  enable_nileswan_ex |-> TRUE, enable_bandai2003_ex |-> TRUE,
  enable_sram |-> TRUE, enable_flash_emu |-> FALSE, self_flash |-> FALSE,
  ram_addr_ext |-> 1023, rom0_addr_ext |-> 1023, rom1_addr_ext |-> 1023,
  rom_linear_addr_ext |-> 63]

-----------------------------------------------------------------------------
(* Writes to the registers.                                                *)

Unlock == 221  \* 8'hDD

Bit(v, n) == (v \div 2^n) % 2 = 1

\* POW_CNT: locked with the rest of the extension's, but for one value.
PowCnt(r, v) ==
  IF r.enable_nileswan_ex \/ v = Unlock
  THEN [r EXCEPT !.enable_nileswan_ex = Bit(v, 2), !.enable_bandai2003_ex = Bit(v, 4),
                 !.enable_sram = Bit(v, 6)]
  ELSE r

EmuCnt(r, v) == IF r.enable_nileswan_ex THEN [r EXCEPT !.enable_flash_emu = Bit(v, 2)] ELSE r

MemoryCtrl(r, v) == IF r.enable_bandai2003_ex THEN [r EXCEPT !.self_flash = Bit(v, 0)] ELSE r

\* A bank's high bits belong to the extended mapper; the low ones are there in
\* the simple one too.
Extended(r, old, bank) == IF r.enable_bandai2003_ex THEN bank ELSE 256 * (old \div 256) + (bank % 256)
RamBank(r, bank)  == [r EXCEPT !.ram_addr_ext = Extended(r, @, bank)]
Rom0Bank(r, bank) == [r EXCEPT !.rom0_addr_ext = Extended(r, @, bank)]
Rom1Bank(r, bank) == [r EXCEPT !.rom1_addr_ext = Extended(r, @, bank)]
LinearBank(r, bank) == [r EXCEPT !.rom_linear_addr_ext = bank]

-----------------------------------------------------------------------------
(* What an access reaches.                                                 *)

\* The areas, by the address's high digit; those above are linear.
RAM == 1
ROM0 == 2
ROM1 == 3

InRom(area) == area # RAM \/ reg.self_flash

RomBank(area) ==
  LET ext == CASE area = RAM  -> reg.ram_addr_ext
               [] area = ROM0 -> reg.rom0_addr_ext
               [] area = ROM1 -> reg.rom1_addr_ext
               [] OTHER       -> 16 * reg.rom_linear_addr_ext + area
  IN  ext % 512

Device(area) ==
  LET rom == RomBank(area)
      ram == reg.ram_addr_ext % 16
  IN  CASE InRom(area) /\ rom \in {511, 500}               -> "bootrom"
        [] InRom(area) /\ rom = 510                        -> "rxbuf"
        [] InRom(area) /\ rom < 256                        -> "psram"
        [] ~InRom(area) /\ ram < 8 /\ reg.enable_sram      -> "sram"
        [] ~InRom(area) /\ ram = 14                        -> "ipcbuf"
        [] ~InRom(area) /\ ram = 15                        -> "txbuf"
        [] OTHER                                           -> "none"

-----------------------------------------------------------------------------
(* The flash.                                                              *)

\* Mutant: anything may follow AA.
FlashEmuNextAnySecond(b) ==
  CASE flash_emu_state = "WaitAA"        -> IF b = "AA" THEN "Wait55" ELSE "WaitAA"
    [] flash_emu_state = "Wait55"        -> "Cmd"
    [] flash_emu_state = "Cmd"           -> CASE b = "20" -> "FastMode" [] b = "A0" -> "SingleWrite"
                                              [] b \in {"10", "30"} -> "Erase" [] OTHER -> "WaitAA"
    [] flash_emu_state = "FastMode"      -> CASE b = "A0" -> "FastModeWrite" [] b = "90" -> "WaitAA"
                                              [] OTHER -> "FastMode"
    [] flash_emu_state = "FastModeWrite" -> "FastMode"
    [] flash_emu_state = "SingleWrite"   -> "WaitAA"
    [] flash_emu_state = "Erase"         -> IF b = "AA" THEN "Wait55" ELSE "WaitAA"

\* After a byte that is written where the PSRAM is mapped, emulation or not.
FlashEmuNext(b) ==
  CASE flash_emu_state = "WaitAA"        -> IF b = "AA" THEN "Wait55" ELSE "WaitAA"
    [] flash_emu_state = "Wait55"        -> IF b = "55" THEN "Cmd" ELSE "WaitAA"
    [] flash_emu_state = "Cmd"           -> CASE b = "20" -> "FastMode" [] b = "A0" -> "SingleWrite"
                                              [] b \in {"10", "30"} -> "Erase" [] OTHER -> "WaitAA"
    [] flash_emu_state = "FastMode"      -> CASE b = "A0" -> "FastModeWrite" [] b = "90" -> "WaitAA"
                                              [] OTHER -> "FastMode"
    [] flash_emu_state = "FastModeWrite" -> "FastMode"
    [] flash_emu_state = "SingleWrite"   -> "WaitAA"
    [] flash_emu_state = "Erase"         -> IF b = "AA" THEN "Wait55" ELSE "WaitAA"

\* Mutant: the fast mode's writes are not let through.
PassWriteSlow == reg.enable_flash_emu => flash_emu_state = "SingleWrite"

\* What the emulation lets through to the PSRAM in the RAM area.
PassWrite == reg.enable_flash_emu => flash_emu_state \in {"SingleWrite", "FastModeWrite"}

PassRead  == reg.enable_flash_emu => flash_emu_state \notin {"Erase", "FastMode"}

MapperTypeOK == reg \in Registers /\ flash_emu_state \in FlashEmuState
=============================================================================
