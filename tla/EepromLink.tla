----------------------------- MODULE EepromLink -----------------------------
(***************************************************************************)
(* The serial EEPROM of a cartridge, as the flash cart emulates it: the    *)
(* FPGA (fpga/rtl/eeprom.sv) holds the array the game reads, and repeats   *)
(* every programming command, word by word, to the microcontroller         *)
(* (firmware/src/eeprom.c), whose copy is the one that survives a power    *)
(* cycle.  The two are joined by an SPI link from FPGA to MCU and by one   *)
(* pin, the MCU's busy signal, whose falling edge ends the command.        *)
(*                                                                         *)
(* Only the words of Watched are kept; the counter that sweeps over the    *)
(* array still runs over all of 0..Mask.                                   *)
(***************************************************************************)
EXTENDS Integers, Sequences

CONSTANTS Mask,      \* addr_mask of the EEPROM: its last address
          Watched,   \* the addresses whose words the model keeps
          Word,      \* the values of a word
          Erased,    \* 16'hFFFF
          Operations,\* the commands the game issues
          Erasable   \* the addresses where erase-all is expected to erase

\* The FPGA: the last address of each size, and the bit of a command word where
\* the five bits of its opcode begin.
Layout(last, bit) == [mask |-> last, op |-> bit]
OfSize(size) ==
  CASE size = "128B" -> Layout(63, 4)
    [] size = "1KB"  -> Layout(511, 8)
    [] size = "2KB"  -> Layout(1023, 8)

\* The MCU: address_mask and command_bits of each chip.
OfType(type) ==
  CASE type = "NONE"    -> Layout(0, 0)
    [] type = "M93LC06" -> Layout(15, 4)
    [] type = "M93LC46" -> Layout(63, 4)
    [] type = "M93LC56" -> Layout(127, 6)
    [] type = "M93LC66" -> Layout(255, 6)
    [] type = "M93LC76" -> Layout(511, 8)
    [] type = "M93LC86" -> Layout(1023, 8)

\* Both are set to the same chip; the FPGA has no size for every one.
ASSUME MaskAssumption ==
  \E size \in {"128B", "1KB", "2KB"}, type \in {"M93LC46", "M93LC76", "M93LC86"} :
    OfSize(size) = OfType(type) /\ Mask = OfSize(size).mask
ASSUME WatchedAssumption == Watched \subseteq 0..Mask
ASSUME ErasedAssumption == Erased \in Word
ASSUME ErasableAssumption == Erasable \subseteq Watched
ASSUME OperationsAssumption ==
  Operations \subseteq {"READ", "WRITE", "ERASE", "WRAL", "ERAL", "WEN", "WDS"}

\* A command word: the opcode and the address in CART_SERIAL_COM.
Command == [op : Operations, addr : Watched]
ASSUME WordAssumption == Word \cap Command = {}

NoWord == [op |-> "NONE", addr |-> 0]

VARIABLES
  \* The FPGA.
  memory,            \* the block RAM
  command,           \* CART_SERIAL_COM
  serial_data_out,   \* CART_SERIAL_DATA, as the game writes it
  serial_data_in,    \* CART_SERIAL_DATA, as the game reads it
  cmd,               \* the programming command in progress
  busy,              \* InternalWriteBusy: internal_write_start # internal_write_done
  write_counter,     \* the serial clock cycles of the command in progress: 10 bits
  write_protect,
  external_busy,     \* the MCU has not yet acknowledged the command
  bugged_done_bit,
  edge,              \* mcu_ready_edge: the last three samples of the pin
  \* The link.
  words,             \* what the MCU's SPI receive FIFO holds
  pin,               \* the MCU's busy pin
  \* The MCU.
  eeprom_data,       \* nvram.eeprom_data
  write_command,     \* the command whose data word is still to come
  finishing          \* inside mcu_fpga_finish_busy

fpgaVars == <<memory, command, serial_data_out, serial_data_in, cmd, busy,
              write_counter, write_protect, external_busy, bugged_done_bit, edge>>
mcuVars  == <<eeprom_data, write_command, finishing>>
vars     == <<fpgaVars, words, pin, mcuVars>>

Cmds == {"Write", "Erase", "EraseAll", "WriteAll"}

\* Bit 1 of CART_SERIAL_CTRL.
Ready == ~busy /\ ~external_busy

\* A game has started; its save has been copied to both sides.
Init ==
  /\ memory \in [Watched -> Word]
  /\ eeprom_data = memory
  /\ command = NoWord
  /\ serial_data_out = Erased
  /\ serial_data_in = Erased
  /\ cmd = "Write"
  /\ busy = FALSE
  /\ write_counter = 0
  /\ write_protect = TRUE
  /\ external_busy = FALSE
  /\ bugged_done_bit = FALSE
  /\ edge = <<FALSE, FALSE, FALSE>>
  /\ words = <<>>
  /\ pin = FALSE
  /\ write_command = NoWord
  /\ finishing = FALSE

-----------------------------------------------------------------------------
(* The game.  It writes the registers only while no command is in progress *)
(* and it is slower than the serial clock: the counter of the last command *)
(* is back at zero before it starts the next.                              *)

GameMayWrite == Ready /\ write_counter = 0

WriteCom(c) ==
  /\ GameMayWrite
  /\ command' = c
  /\ UNCHANGED <<memory, serial_data_out, serial_data_in, cmd, busy, write_counter,
                 write_protect, external_busy, bugged_done_bit, edge, words, pin,
                 mcuVars>>

WriteSerialData(d) ==
  /\ GameMayWrite
  /\ serial_data_out' = d
  /\ UNCHANGED <<memory, command, serial_data_in, cmd, busy, write_counter,
                 write_protect, external_busy, bugged_done_bit, edge, words, pin,
                 mcuVars>>

\* A read is also served while the FPGA waits for the MCU; then it does not
\* touch the done bit.
ControlRead ==
  /\ command.op = "READ"
  /\ ~busy
  /\ serial_data_in' = memory[command.addr]
  /\ bugged_done_bit' = (bugged_done_bit \/ Ready)
  /\ UNCHANGED <<memory, command, serial_data_out, cmd, busy, write_counter,
                 write_protect, external_busy, edge, words, pin, mcuVars>>

\* A programming command starts only when the write protection is off.
Start(c) ==
  /\ GameMayWrite
  /\ cmd' = c
  /\ busy' = ~write_protect
  /\ bugged_done_bit' = FALSE
  /\ UNCHANGED <<memory, command, serial_data_out, serial_data_in, write_counter,
                 write_protect, external_busy, edge, words, pin, mcuVars>>

ControlWrite ==
  \/ command.op = "WRITE" /\ Start("Write")
  \/ command.op = "WRAL"  /\ Start("WriteAll")

ControlErase ==
  \/ command.op = "ERASE" /\ Start("Erase")
  \/ command.op = "ERAL"  /\ Start("EraseAll")

ControlProtect ==
  /\ GameMayWrite
  /\ \/ command.op = "WDS" /\ write_protect' = TRUE
     \/ command.op = "WEN" /\ write_protect' = FALSE
  /\ UNCHANGED <<memory, command, serial_data_out, serial_data_in, cmd, busy,
                 write_counter, external_busy, bugged_done_bit, edge, words, pin,
                 mcuVars>>

-----------------------------------------------------------------------------
(* The serial clock: the sweep over the array, the words sent to the MCU    *)
(* and the sampling of its busy pin, all on one edge.                       *)

\* The last cycle of the command in progress.
WriteCounterLastValue ==
  CASE cmd = "Write"    -> write_counter = 33
    [] cmd = "EraseAll" -> write_counter = 17
    [] OTHER            -> write_counter % (Mask + 1) = Mask

WriteAddress ==
  IF cmd \in {"EraseAll", "WriteAll"} THEN write_counter % (Mask + 1) ELSE command.addr

WriteData ==
  IF cmd \in {"Erase", "EraseAll"} THEN Erased ELSE serial_data_out

\* Mutant: the SPI clock is not stopped after the data word of a WRITE ALL.
SentUnstopped ==
  CASE write_counter = 17 -> <<command>>
    [] write_counter \in {33, 49} /\ cmd \notin {"Erase", "EraseAll"} -> <<serial_data_out>>
    [] OTHER -> <<>>

\* The word whose last bit leaves in this cycle: the command in cycle 0x11,
\* then, the clock still running, the data in cycle 0x21.
Sent ==
  CASE write_counter = 17 -> <<command>>
    [] write_counter = 33 /\ cmd \notin {"Erase", "EraseAll"} -> <<serial_data_out>>
    [] OTHER -> <<>>

MCUReadyFallingEdge == edge[3] /\ ~edge[2]

\* Mutant: the level of the pin in place of the latch its edge clears.
AwaitingLevel == edge[2]

\* What external_busy becomes: the acknowledgement wins over the start.
Awaiting ==
  /\ ~MCUReadyFallingEdge
  /\ external_busy \/ (busy /\ write_counter = 0)

SClk ==
  /\ memory' = [a \in Watched |->
                  IF busy /\ a = WriteAddress THEN WriteData ELSE memory[a]]
  /\ busy' = (busy /\ ~WriteCounterLastValue)
  /\ write_counter' = IF busy THEN (write_counter + 1) % 1024 ELSE 0
  /\ external_busy' = Awaiting
  /\ edge' = <<pin, edge[1], edge[2]>>
  /\ words' = words \o Sent
  /\ UNCHANGED <<command, serial_data_out, serial_data_in, cmd, write_protect,
                 bugged_done_bit, pin, mcuVars>>

-----------------------------------------------------------------------------
(* The MCU: SPI1_IRQHandler hands every word to eeprom_exch_word.           *)

\* Mutant: WRAL stores the word at one address.
StoreWordOnce(w) ==
  /\ eeprom_data' = [eeprom_data EXCEPT ![write_command.addr] = w]
  /\ write_command' = NoWord
  /\ finishing' = TRUE

\* The word w that completes the pending WRITE or WRAL.
StoreWord(w) ==
  /\ eeprom_data' = [a \in Watched |->
        IF write_command.op = "WRAL" \/ a = write_command.addr THEN w
                                                               ELSE eeprom_data[a]]
  /\ write_command' = NoWord
  /\ finishing' = TRUE

\* The word w as a command.
DecodeWord(w) ==
  LET op == IF w \in Command THEN w.op ELSE "NONE"
  IN  /\ eeprom_data' = [a \in Watched |->
            IF op = "ERAL" \/ (op = "ERASE" /\ a = w.addr) THEN Erased
                                                           ELSE eeprom_data[a]]
      /\ write_command' = IF op \in {"WRITE", "WRAL"} THEN w ELSE NoWord
      /\ finishing' = (op \notin {"WRITE", "WRAL"})

ExchangeWord ==
  /\ words # <<>>
  /\ ~finishing
  /\ pin' = TRUE
  /\ words' = Tail(words)
  /\ IF write_command # NoWord THEN StoreWord(Head(words)) ELSE DecodeWord(Head(words))
  /\ UNCHANGED fpgaVars

\* Mutant: no delay before the pin is released.
FinishBusyAtOnce ==
  /\ finishing
  /\ pin' = FALSE
  /\ finishing' = FALSE
  /\ UNCHANGED <<fpgaVars, words, eeprom_data, write_command>>

\* The delay of mcu_fpga_finish_busy is over a serial clock period: by its
\* end the FPGA has sampled the pin high.
FinishBusy ==
  /\ finishing
  /\ edge[1]
  /\ pin' = FALSE
  /\ finishing' = FALSE
  /\ UNCHANGED <<fpgaVars, words, eeprom_data, write_command>>

-----------------------------------------------------------------------------
Game == \/ \E c \in Command : WriteCom(c)
        \/ \E d \in Word : WriteSerialData(d)
        \/ ControlRead \/ ControlWrite \/ ControlErase \/ ControlProtect

Next == Game \/ SClk \/ ExchangeWord \/ FinishBusy

\* The clock runs and the MCU's interrupt is served; the game owes nothing.
Fairness == WF_vars(SClk) /\ WF_vars(ExchangeWord) /\ WF_vars(FinishBusy)

Spec == Init /\ [][Next]_vars /\ Fairness

-----------------------------------------------------------------------------
TypeOK ==
  /\ memory \in [Watched -> Word]
  /\ command \in Command \cup {NoWord}
  /\ serial_data_out \in Word
  /\ serial_data_in \in Word
  /\ cmd \in Cmds
  /\ busy \in BOOLEAN
  /\ write_counter \in 0 .. Mask + 1 /\ write_counter < 1024
  /\ write_protect \in BOOLEAN
  /\ external_busy \in BOOLEAN
  /\ bugged_done_bit \in BOOLEAN
  /\ edge \in [1..3 -> BOOLEAN]
  /\ words \in Seq(Command \cup Word)
  /\ Len(words) <= 2
  /\ pin \in BOOLEAN
  /\ eeprom_data \in [Watched -> Word]
  /\ write_command \in Command \cup {NoWord}
  /\ finishing \in BOOLEAN

\* When the game may issue a command, the copy that will be saved is the one
\* the game has been reading and writing (mapper_emulation.md:8; eeprom.sv:76-190,
\* eeprom.c:89-150).  Where erase-all is not expected to erase, the MCU may have.
Mirror ==
  Ready => \A a \in Watched :
             \/ memory[a] = eeprom_data[a]
             \/ a \notin Erasable /\ eeprom_data[a] = Erased

\* When the game may issue a command, nothing of the last one is left on the
\* link: no word under way, none awaited, the pin low and its edges consumed,
\* so the next word is decoded as a command and the next edge ends it.
Quiescent ==
  Ready => /\ words = <<>>
           /\ write_command = NoWord
           /\ ~pin /\ ~finishing
           /\ ~MCUReadyFallingEdge

\* The array the game sees: a command in progress has already taken effect.
Programmed ==
  IF ~busy THEN memory
  ELSE CASE cmd = "Write"    -> [memory EXCEPT ![command.addr] = serial_data_out]
         [] cmd = "Erase"    -> [memory EXCEPT ![command.addr] = Erased]
         [] cmd = "WriteAll" -> [a \in Watched |-> serial_data_out]
         [] cmd = "EraseAll" -> [a \in Watched |-> IF a \in Erasable THEN Erased ELSE memory[a]]

Chip == INSTANCE SerialEeprom WITH
          Address <- Watched,
          cells   <- Programmed,
          enabled <- ~write_protect,
          busy    <- ~Ready,
          output  <- serial_data_in

\* The game cannot tell the FPGA and the MCU from an EEPROM: a protected array
\* does not change, a read returns the last word programmed, a command ends.
IsSerialEeprom == Chip!Spec
=============================================================================
