-------------------------------- MODULE Cart ---------------------------------
(***************************************************************************)
(* The cartridge from power-on to a game: IPL0 (Ipl0) loads IPL1, and IPL1 *)
(* (ipl1/src/boot/main.c:119-297) restarts the FPGA, copies the menu from  *)
(* the card to the end of the PSRAM and jumps into it; a game then does    *)
(* with the mapper what it likes.  Each of IPL1's accesses goes where the  *)
(* mapper's registers send it.  (For the safe version see Safe.)           *)
(*                                                                         *)
(* A bank of the PSRAM has BankSize places for 64 KiB; of its 256 banks    *)
(* those that a program may reach are there.  libnile and FatFs, which     *)
(* read the card, are taken to read what is on it or to fail.              *)
(***************************************************************************)
EXTENDS Ipl0, Mapper

CONSTANTS
  BankSize,    \* 0x10000
  MinSize,     \* the smallest file that is read (16)
  MaxSize      \* bound: the largest on the card

PSRAM_MAX_BANK == 255
Half == BankSize \div 2
\* The last four banks of each of the two chips.
Reached == {b \in 0..PSRAM_MAX_BANK : b % 128 >= 124}

ASSUME CartAssumption ==
  /\ BankSize \in Nat /\ BankSize > 1 /\ BankSize % 2 = 0
  /\ MinSize \in Nat \ {0} /\ MaxSize \in MinSize..(BankSize * 4)

VARIABLES
  step,                      \* IPL1, or the game
  ipc,                       \* the IPC buffer: "zero", "state" that ipc_init has set up, or "junk"
  win,                       \* fs.win: its backup
  psram,                     \* Old, Test, Written, or the position in the file
  size,                      \* f_size
  offset, bank,              \* load_menu: where the next piece goes
  bank_count, bank_count_max,
  bytes, fast, clean         \* history: the last bytes written to the PSRAM since the emulation was
                             \* switched on; the fast mode's command was among them; it was
                             \* switched on between two commands

load == <<size, offset, bank, bank_count, bank_count_max>>
history == <<bytes, fast, clean>>
ipl1 == <<step, ipc, win, psram, load, history>>
cartVars == <<vars, mapper, ipl1>>

Old == -1
Test == -2
Written == -3
OldPsram == [b \in Reached |-> [p \in 0..BankSize - 1 |-> Old]]

CartInit ==
  /\ Ipl0Init
  /\ reg = PowerOn /\ flash_emu_state = "WaitAA"
  /\ step = "backup" /\ ipc = "zero" /\ win = "zero" /\ psram = OldPsram
  /\ size = 0 /\ offset = 0 /\ bank = 0 /\ bank_count = 0 /\ bank_count_max = 0
  /\ bytes = << >> /\ fast = FALSE /\ clean = FALSE

At(here) == pc \in {"IPL1", "IPL1_FACTORY"} /\ step = here

-----------------------------------------------------------------------------
(* IPL1.                                                                   *)

\* The IPC buffer does not survive the FPGA's restart, which the factory version
\* does without: it is copied away, and the copy is set up.
BackUp ==
  /\ At("backup")
  /\ reg' = RamBank(reg, 14)
  /\ win' = "state"
  /\ step' = IF pc = "IPL1" THEN "warmboot" ELSE "restore"
  /\ UNCHANGED <<vars, flash_emu_state, ipc, psram, load, history>>

\* WARMBOOT_CNT; 20 ms later the FPGA is as it is at power-on.
Warmboot ==
  /\ At("warmboot") /\ reg.enable_nileswan_ex
  /\ Restart
  /\ reg' = PowerOn /\ flash_emu_state' = "WaitAA" /\ ipc' = "zero"
  /\ step' = "restore"
  /\ UNCHANGED <<cpu, flash, win, psram, load, history>>

\* Mutant: the PSRAM is mapped before the buffer is restored.
RestoreAfterSelfFlash ==
  /\ At("restore")
  /\ reg' = MemoryCtrl(RamBank(reg, 14), 1)
  /\ ipc' = IF Device(RAM)' = "ipcbuf" THEN win ELSE ipc
  /\ step' = "map"
  /\ UNCHANGED <<vars, flash_emu_state, win, psram, load, history>>

Restore ==
  /\ At("restore")
  /\ reg' = RamBank(reg, 14)
  /\ ipc' = IF Device(RAM)' = "ipcbuf" THEN win ELSE ipc
  /\ step' = "map"
  /\ UNCHANGED <<vars, flash_emu_state, win, psram, load, history>>

\* The PSRAM's last bank, in ROM and - to write to it - in RAM.
Map ==
  /\ At("map")
  /\ reg' = MemoryCtrl(RamBank(LinearBank(Rom1Bank(Rom0Bank(reg,
              PSRAM_MAX_BANK), PSRAM_MAX_BANK - 12), PSRAM_MAX_BANK \div 16), PSRAM_MAX_BANK), 1)
  /\ step' = "contact"
  /\ UNCHANGED <<vars, flash_emu_state, ipc, win, psram, load, history>>

\* A piece, a function of places, is copied to the RAM area once the bank is selected.
CopyToRam(piece) ==
  psram' = IF Device(RAM)' = "psram" /\ RomBank(RAM)' \in Reached
           THEN [psram EXCEPT ![RomBank(RAM)'] =
                   [p \in DOMAIN @ |-> IF p \in DOMAIN piece THEN piece[p] ELSE @[p]]]
           ELSE psram

\* check_pin_contact writes all over the bank it has: 0 to 255, which leaves
\* the flash's state.
CheckContact ==
  /\ At("contact")
  /\ UNCHANGED <<vars, mapper, ipc, win, load, history>>
  /\ CopyToRam([p \in {q \in 0..BankSize - 1 : q % 2 = 0} |-> Test])
  /\ step' \in {"open", "error"}

\* The file's end goes to the PSRAM's.
Open ==
  /\ At("open")
  /\ \/ \E s \in MinSize..MaxSize :
          /\ size' = s
          /\ offset' = (BankSize - 1) - ((s - 1) % BankSize)
          /\ bank' = PSRAM_MAX_BANK - ((s - 1) \div BankSize)
          /\ bank_count' = 0
          /\ bank_count_max' = (PSRAM_MAX_BANK + 1 - bank') * 2 - (IF offset' >= Half THEN 1 ELSE 0)
          /\ step' = "read"
     \/ step' = "error" /\ UNCHANGED load
  /\ UNCHANGED <<vars, mapper, ipc, win, psram, history>>

\* Where the bytes come from: f_read goes on where it has stopped.
FileStart == BankSize * (PSRAM_MAX_BANK + 1) - size
FileAt(p) == BankSize * bank + p - FileStart

\* A bank is selected, and read to its half or its end; the flash sees bytes
\* that may be any.
ReadPiece ==
  LET end == IF offset < Half THEN Half ELSE BankSize IN
  /\ At("read") /\ bank <= PSRAM_MAX_BANK
  /\ reg' = RamBank(reg, bank)
  /\ flash_emu_state' \in FlashEmuState
  /\ bank_count' = bank_count + 1
  /\ \/ /\ CopyToRam([p \in offset..end - 1 |-> FileAt(p)])
        /\ offset' = end % BankSize
        /\ bank' = IF end = BankSize THEN bank + 1 ELSE bank
        /\ UNCHANGED step
     \/ step' = "error" /\ UNCHANGED <<psram, offset, bank>>
  /\ UNCHANGED <<vars, ipc, win, size, bank_count_max, history>>

\* The header is looked at where the console will; a corrupt one is not right.
Validate ==
  /\ At("read") /\ bank > PSRAM_MAX_BANK
  /\ step' \in {"error"} \cup (IF Device(15) = "psram" THEN {"run"} ELSE {})
  /\ UNCHANGED <<vars, mapper, ipc, win, psram, load, history>>

\* The menu starts where ROM0 has the PSRAM's last bank; what was copied is not
\* followed further.
Run ==
  /\ At("run")
  /\ reg' = RamBank(MemoryCtrl(reg, 0), 0)
  /\ step' = "game"
  /\ win' = "zero" /\ psram' = OldPsram
  /\ size' = 0 /\ offset' = 0 /\ bank' = 0 /\ bank_count' = 0 /\ bank_count_max' = 0
  /\ UNCHANGED <<vars, flash_emu_state, ipc, history>>

\* finish_report_error: what can be turned off is, and the program halts.
ReportError ==
  /\ At("error")
  /\ WriteCnt("Write", 0, 0, FALSE)
  /\ reg' = PowCnt(reg, 128)
  /\ step' = "halted"
  /\ UNCHANGED <<cpu, flash, flash_emu_state, ipc, win, psram, load, history>>

Halt == At("halted") /\ UNCHANGED cartVars

Ipl1 ==
  \/ BackUp \/ Warmboot \/ Restore \/ Map \/ CheckContact \/ Open \/ ReadPiece \/ Validate \/ Run
  \/ ReportError \/ Halt

-----------------------------------------------------------------------------
(* A game.                                                                 *)

\* The history of the emulation begins where it is switched on, ...
Forget == bytes' = << >> /\ fast' = FALSE /\ clean' = (flash_emu_state = "WaitAA")

\* ... and goes on with a byte that is written while it is on.
Remember(b) ==
  IF reg.enable_flash_emu
  THEN /\ bytes' = IF Len(bytes) < 3 THEN Append(bytes, b) ELSE Append(Tail(bytes), b)
       /\ fast' = (fast \/ bytes' = <<"AA", "55", "20">>)
       /\ UNCHANGED clean
  ELSE UNCHANGED history

\* A register is written: POW_CNT with bits 2, 4 and 6 in several ways.
WriteReg ==
  /\ At("game")
  /\ \/ \E v \in {0, 84, Unlock} : reg' = PowCnt(reg, v)
     \/ \E v \in {0, 4} : reg' = EmuCnt(reg, v)
     \/ \E v \in {0, 1} : reg' = MemoryCtrl(reg, v)
     \/ \E b \in {0, 14, PSRAM_MAX_BANK, 511} : reg' = RamBank(reg, b)
  /\ IF reg'.enable_flash_emu = reg.enable_flash_emu THEN UNCHANGED history ELSE Forget
  /\ UNCHANGED <<vars, flash_emu_state, step, ipc, win, psram, load>>

\* A byte is written to the RAM area, where the PSRAM's last bank is; each write
\* that passes changes the byte there.
WriteByte(b) ==
  /\ At("game")
  /\ Device(RAM) = "psram" /\ RomBank(RAM) = PSRAM_MAX_BANK
  /\ flash_emu_state' = FlashEmuNext(b)
  /\ psram' = IF PassWrite
            THEN [psram EXCEPT ![PSRAM_MAX_BANK][0] = IF @ = Written THEN Old ELSE Written]
            ELSE psram
  /\ Remember(b)
  /\ UNCHANGED <<vars, reg, step, ipc, win, load>>

Game == WriteReg \/ \E b \in {"AA", "55", "A0", "20", "30", "90", "other"} : WriteByte(b)

CartNext ==
  \/ Next /\ UNCHANGED <<mapper, ipl1>>
  \/ Ipl1
  \/ Game

CartSpec == CartInit /\ [][CartNext]_cartVars /\ Fairness

-----------------------------------------------------------------------------
(* Properties.                                                             *)

\* Every variable has its type.
CartTypeOK ==
  /\ TypeOK
  /\ MapperTypeOK
  /\ {ipc, win} \subseteq {"zero", "state", "junk"}
  /\ psram \in [Reached -> [0..BankSize - 1 -> Written..8 * BankSize - 1]]
  /\ size \in 0..MaxSize /\ offset \in 0..BankSize - 1 /\ bank \in 0..PSRAM_MAX_BANK + 1
  /\ bank_count <= bank_count_max
  /\ Len(bytes) <= 3 /\ {fast, clean} \subseteq BOOLEAN

\* When IPL1 jumps into the menu, the file's last byte is the PSRAM's last and
\* nothing of it is missing, the console sees that bank at ROM0, where it
\* jumps, and at the top of its memory, the buffer that the programs share has
\* come through the restart of the FPGA, and the progress bar is full
\* (ipl1/src/boot/main.c:136-195, 217-291).
MenuInPlace ==
  At("run") =>
    /\ \A k \in 0..size - 1 :
         psram[PSRAM_MAX_BANK - (k \div BankSize)][BankSize - 1 - (k % BankSize)] = size - 1 - k
    /\ Device(ROM0) = "psram" /\ RomBank(ROM0) = PSRAM_MAX_BANK
    /\ Device(15) = "psram" /\ RomBank(15) = PSRAM_MAX_BANK
    /\ ipc = "state"
    /\ bank_count = bank_count_max

\* "The flash emulation mode can be enabled to inhibit writes which are not a
\* result of valid flash write commands" (mapper_emulation.md:24), if the last
\* write before it was not inside of one: what changes the PSRAM follows AA 55
\* A0, or A0 after the fast mode's command (nileswan.sv:582-641).
FlashOnlyByCommand ==
  [][step = "game" /\ step' = "game" /\ psram' # psram /\ reg.enable_flash_emu /\ clean =>
       \/ bytes = <<"AA", "55", "A0">>
       \/ fast /\ bytes # << >> /\ bytes[Len(bytes)] = "A0"]_cartVars
=============================================================================
