-------------------------------- MODULE Safe ---------------------------------
(***************************************************************************)
(* The cartridge with the safe version of IPL1 as well (ipl1/src/safe/):   *)
(* its menu tests the memories or copies a recovery program from the SPI   *)
(* flash to the end of the PSRAM, verifies it and jumps into it; that      *)
(* program (userland/src/recovery/) tests the flash emulation.             *)
(*                                                                         *)
(* The PSRAM, which may be damaged, may keep something else than what was  *)
(* written; the flash has at each place the place's number, or cannot be   *)
(* read.  The emulation's state is followed from the recovery program on.  *)
(* The board's lines, which the tests look for, are not modelled.          *)
(***************************************************************************)
EXTENDS Cart

CONSTANT Luck  \* bound: programs that are loaded, and pieces that are not kept
ASSUME LuckAssumption == Luck \in Nat

\* The recovery programs in the SPI flash: the first bank, and how many.
Factory == [at |-> 1, banks |-> 3]
Updated == [at |-> 4, banks |-> 4]

VARIABLES
  psram_max_bank,   \* the setting: the amount of PSRAM
  wanted,           \* the program that is loaded; is it to run its tests
  magic,            \* the last bytes of the IPC buffer say so
  luck,
  line, result,     \* the flash test: its next line, the last byte read
  sram_byte         \* ... and the byte of the PSRAM that it uses

settings == <<psram_max_bank, wanted, magic>>
test == <<line, result, sram_byte>>
safe == <<settings, luck, test>>
allVars == <<cartVars, safe>>

NoProgram == [at |-> 0, banks |-> 0, tests |-> FALSE]

SafeInit ==
  /\ CartInit
  /\ psram_max_bank = 255 /\ wanted = NoProgram /\ magic = FALSE /\ luck = 0
  /\ line = 1 /\ result = "none" /\ sram_byte = "other"

SafeAt(here) == pc = "IPL1_SAFE" /\ step = here

-----------------------------------------------------------------------------
(* The menu.                                                               *)

\* run_menu: the keys choose any of the items; "back" and "exit" lead here again.
RunMenu == SafeAt("menu")

\* ipc_init, in the buffer itself.
StartSafe ==
  /\ SafeAt("backup")
  /\ reg' = RamBank(reg, 14)
  /\ ipc' = IF Device(RAM)' = "ipcbuf" THEN "state" ELSE ipc
  /\ step' = "menu"
  /\ UNCHANGED <<vars, flash_emu_state, win, psram, load, history, safe>>

\* mem_test_run_quick_v2 writes to places and banks that differ in one line,
\* none of them the last: also to the beginning of the IPC buffer.
BoardCheck ==
  /\ RunMenu
  /\ reg' = Rom0Bank(RamBank(MemoryCtrl(reg, 0), 14), 128)
  /\ ipc' = "junk"
  /\ UNCHANGED <<vars, flash_emu_state, step, win, psram, load, history, safe>>

RamSize ==
  /\ RunMenu
  /\ psram_max_bank' = 382 - psram_max_bank  \* ^= 0x80
  /\ UNCHANGED <<cartVars, wanted, magic, luck, test>>

\* The deep test fills all of the banks.
Filled == [b \in Reached |-> IF b <= psram_max_bank THEN [p \in DOMAIN psram[b] |-> Test] ELSE psram[b]]

\* The tests of the menu "advanced" do not end: what they leave is not followed.
TestForEver ==
  /\ RunMenu
  /\ psram' = OldPsram
  /\ step' = "testing"
  /\ UNCHANGED <<vars, mapper, ipc, win, load, history, safe>>

KeepTesting == SafeAt("testing") /\ UNCHANGED allVars

\* load_spi_flash's beginning.
Load(program) ==
  /\ luck < Luck /\ luck' = luck + 1
  /\ wanted' = program
  /\ bank' = psram_max_bank + 1 - program.banks /\ offset' = 0
  /\ step' = "write"
  /\ UNCHANGED <<vars, win, size, bank_count, bank_count_max, history, psram_max_bank, test>>

Program(p, tests) == [at |-> p.at, banks |-> p.banks, tests |-> tests]

LaunchRecovery(p) ==
  /\ RunMenu
  /\ Load(Program(p, FALSE))
  /\ reg' = MemoryCtrl(reg, 1)
  /\ UNCHANGED <<flash_emu_state, ipc, psram, magic>>

\* mem_test_run_ipc clears the buffer in the end, through the buffer's mirror.
IpcTest == ipc' = "zero"

\* The board check, the deep test and the IPC buffer's; the program that is to
\* be loaded is told to test more.
ManufacturingTest ==
  /\ RunMenu
  /\ psram' = Filled
  /\ IpcTest
  /\ UNCHANGED flash_emu_state
  /\ \/ /\ reg' = RamBank(MemoryCtrl(Rom0Bank(reg, 128), 0), 14)
        /\ magic' = FALSE
        /\ UNCHANGED <<vars, step, win, load, history, psram_max_bank, wanted, luck, test>>
     \/ /\ reg' = MemoryCtrl(RamBank(Rom0Bank(reg, 128), 14), 1)
        /\ magic' = TRUE
        /\ Load(Program(Factory, TRUE))

-----------------------------------------------------------------------------
(* load_spi_flash and try_boot_rom.                                        *)

FlashPlace(b, p) == BankSize * (wanted.at + b - (psram_max_bank + 1 - wanted.banks)) + p
Failed == step' = "menu" /\ UNCHANGED <<bank, offset>>
Loading == UNCHANGED <<vars, flash_emu_state, ipc, win, size, bank_count, bank_count_max, history, settings, test>>

\* Half a bank is read to the PSRAM.
WritePiece ==
  /\ SafeAt("write") /\ bank <= psram_max_bank
  /\ reg' = RamBank(reg, bank)
  /\ \/ /\ \/ /\ CopyToRam([p \in offset..offset + Half - 1 |-> FlashPlace(bank, p)])
              /\ UNCHANGED luck
           \/ /\ luck < Luck /\ luck' = luck + 1
              /\ CopyToRam([p \in offset..offset + Half - 1 |-> Test])
        /\ offset' = (offset + Half) % BankSize
        /\ bank' = IF offset' = 0 THEN bank + 1 ELSE bank
        /\ UNCHANGED step
     \/ Failed /\ UNCHANGED <<psram, luck>>
  /\ Loading

WriteEnds ==
  /\ SafeAt("write") /\ bank > psram_max_bank
  /\ bank' = psram_max_bank + 1 - wanted.banks
  /\ step' = "verify"
  /\ Loading
  /\ UNCHANGED <<reg, psram, offset, luck>>

\* Mutant: the bank that is compared is the last one written.
VerifyBankUnselected ==
  /\ SafeAt("verify") /\ bank <= psram_max_bank
  /\ UNCHANGED reg
  /\ \/ /\ Device(RAM)' = "psram" /\ RomBank(RAM)' \in Reached
        /\ \A p \in 0..BankSize - 1 : psram[RomBank(RAM)'][p] = FlashPlace(RomBank(RAM)', p)
        /\ bank' = bank + 1
        /\ UNCHANGED <<step, offset>>
     \/ Failed
  /\ Loading
  /\ UNCHANGED <<psram, luck>>

\* A bank is read a second time, and compared.
VerifyBank ==
  /\ SafeAt("verify") /\ bank <= psram_max_bank
  /\ reg' = RamBank(reg, bank)
  /\ \/ /\ Device(RAM)' = "psram" /\ RomBank(RAM)' \in Reached
        /\ \A p \in 0..BankSize - 1 : psram[RomBank(RAM)'][p] = FlashPlace(bank, p)
        /\ bank' = bank + 1
        /\ UNCHANGED <<step, offset>>
     \/ Failed
  /\ Loading
  /\ UNCHANGED <<psram, luck>>

\* The header is looked at where the console will; what is in the flash may not
\* be a program.
TryBoot ==
  /\ SafeAt("verify") /\ bank > psram_max_bank
  /\ reg' = LinearBank(RamBank(Rom1Bank(Rom0Bank(MemoryCtrl(reg, 0),
              psram_max_bank), psram_max_bank - 12), 0), psram_max_bank \div 16)
  /\ step' \in {"menu"} \cup (IF Device(15)' = "psram" THEN {"run"} ELSE {})
  /\ Loading
  /\ UNCHANGED <<psram, offset, bank, luck>>

-----------------------------------------------------------------------------
(* The recovery program.                                                   *)

\* main: the factory version runs all its tests if it is told to; the first of
\* them are not modelled here, and may fail.  The bytes that were written to the
\* PSRAM have left the flash in whichever state.
StartRecovery ==
  /\ SafeAt("run")
  /\ reg' = RamBank(PowCnt(reg, Unlock), 14)
  /\ step' = IF wanted.at = Factory.at /\ Device(RAM)' = "ipcbuf" /\ magic THEN "tests" ELSE "recovery"
  /\ wanted' = NoProgram /\ magic' = FALSE
  /\ psram' = OldPsram /\ ipc' = "zero" /\ bank' = 0 /\ offset' = 0 /\ luck' = 0 /\ psram_max_bank' = 255
  /\ flash_emu_state' \in FlashEmuState
  /\ UNCHANGED <<vars, win, size, bank_count, bank_count_max, history, test>>

EarlierTestFails ==
  /\ SafeAt("tests")
  /\ step' = "recovery"
  /\ UNCHANGED <<vars, mapper, ipc, win, psram, load, history, safe>>

\* test_flash_fsm: it writes a byte, switches the emulation on and writes
\* others; what it expects to read is after them.
Write(b)  == [do |-> "write", value |-> b]
Expect(b) == [do |-> "expect", value |-> b]
Writes(bs) == [k \in DOMAIN bs |-> Write(bs[k])]
Enable == [do |-> "enable", value |-> "none"]
Read   == [do |-> "read", value |-> "none"]

\* flash_fsm_erase, and what it is to return.
Erase(code) ==
  Writes(<<"AA", "55", "80", "AA", "55", code>>) \o <<Read>> \o Writes(<<"AA", "55", "90">>)
    \o <<Expect("FF")>>

Lines ==
  <<Write("11"), Enable, Write("00"), Read, Expect("11")>>
    \o Writes(<<"AA", "55", "A0", "22">>) \o <<Read, Expect("22")>>
    \o Writes(<<"AA", "55", "20", "A0", "33", "90">>) \o <<Read, Expect("33")>>
    \o Erase("30") \o Erase("10") \o <<Read, Expect("33")>>

StartTest ==
  /\ step \in {"tests", "recovery"} /\ SafeAt(step)
  /\ reg' = RamBank(MemoryCtrl(reg, 1), 16)
  /\ line' = 1
  /\ step' = "flash test"
  /\ UNCHANGED <<vars, flash_emu_state, ipc, win, psram, load, history, settings, luck, result, sram_byte>>

\* What is read is the byte, or what the emulation answers.
ReadByte == IF PassRead THEN sram_byte ELSE IF flash_emu_state = "Erase" THEN "FF" ELSE "00"

\* The line that the test has come to, in the RAM area where its bank is.
Testing(do) == SafeAt("flash test") /\ line <= Len(Lines) /\ Lines[line].do = do /\ Device(RAM) = "psram"
Value == Lines[line].value
OtherThanTest == UNCHANGED <<vars, ipc, win, psram, load, settings, luck>>
NextLine == line' = line + 1 /\ UNCHANGED step /\ OtherThanTest

TestWrite ==
  /\ Testing("write")
  /\ flash_emu_state' = FlashEmuNext(Value)
  /\ sram_byte' = IF PassWrite THEN Value ELSE sram_byte
  /\ Remember(Value)
  /\ NextLine
  /\ UNCHANGED <<reg, result>>

TestEnable ==
  /\ Testing("enable")
  /\ reg' = EmuCnt(reg, 4)
  /\ Forget
  /\ NextLine
  /\ UNCHANGED <<flash_emu_state, result, sram_byte>>

TestRead ==
  /\ Testing("read")
  /\ result' = ReadByte
  /\ NextLine
  /\ UNCHANGED <<mapper, history, sram_byte>>

TestExpect ==
  /\ Testing("expect")
  /\ IF result = Value THEN NextLine
     ELSE step' = "test failed" /\ UNCHANGED line /\ OtherThanTest
  /\ UNCHANGED <<mapper, history, result, sram_byte>>

\* Well or not, the emulation is switched off.
TestEnds ==
  /\ SafeAt("test failed") \/ (SafeAt("flash test") /\ line > Len(Lines))
  /\ reg' = EmuCnt(MemoryCtrl(reg, 0), 0)
  /\ bytes' = << >> /\ fast' = FALSE /\ clean' = FALSE
  /\ result' = "none" /\ sram_byte' = "other" /\ line' = 1
  /\ step' = "recovery"
  /\ UNCHANGED flash_emu_state
  /\ OtherThanTest

SafeSteps ==
  \/ StartSafe \/ BoardCheck \/ RamSize \/ TestForEver \/ KeepTesting
  \/ (\E p \in {Factory, Updated} : LaunchRecovery(p)) \/ ManufacturingTest
  \/ WritePiece \/ WriteEnds \/ VerifyBank \/ TryBoot
  \/ StartRecovery \/ EarlierTestFails \/ StartTest
  \/ TestWrite \/ TestEnable \/ TestRead \/ TestExpect \/ TestEnds

SafeNext == (CartNext /\ UNCHANGED safe) \/ SafeSteps

SafeSpec == SafeInit /\ [][SafeNext]_allVars /\ Fairness

-----------------------------------------------------------------------------
(* Properties.                                                             *)

\* Every variable has its type.
SafeTypeOK ==
  /\ CartTypeOK
  /\ psram_max_bank \in {127, 255} /\ magic \in BOOLEAN /\ luck \in 0..Luck
  /\ wanted.at \in 0..7 /\ wanted.banks \in 0..4 /\ wanted.tests \in BOOLEAN
  /\ line \in 1..Len(Lines) + 1

\* When the safe version jumps into a recovery program, the program fills the
\* PSRAM's last banks - those of the amount that is set - as it is in the
\* flash, whatever was loaded before and although the PSRAM did not keep all
\* that was written; the console sees it where it jumps and at the top of its
\* memory; and if it is to run its tests it is told so (safe/main.c:50-141).
RecoveryInPlace ==
  SafeAt("run") =>
    /\ \A b \in psram_max_bank + 1 - wanted.banks..psram_max_bank, p \in 0..BankSize - 1 :
         psram[b][p] = FlashPlace(b, p)
    /\ \A area \in {ROM0, 15} : Device(area) = "psram" /\ RomBank(area) = psram_max_bank
    /\ wanted.tests => magic

\* Whichever IPL1 it is that jumps, there is a program.
ProgramInPlace == MenuInPlace /\ RecoveryInPlace

\* The recovery program's test of the flash emulation (tests/flash_fsm.c:55-119)
\* fails only where the emulation is switched on in the fast mode, which the
\* writes before it may have left on (nileswan.sv:592-641).
FlashTestPasses == SafeAt("test failed") => ~clean
=============================================================================
