------------------------------ MODULE FpgaSpi -------------------------------
(***************************************************************************)
(* The SPI controller of the FPGA (fpga/rtl/spi.sv).  The console writes a *)
(* control register and reads it back until the busy bit is clear; the     *)
(* transfer itself runs on a clock of its own, and the two sides tell each *)
(* other of a start and an end by flipping a bit that the other side       *)
(* samples.  There are two banks of both buffers: the console sees one     *)
(* while a transfer uses the other.                                        *)
(*                                                                         *)
(* A byte goes over the line in Bits periods and is one value here.  The   *)
(* device at the other end is left to whoever extends this module.         *)
(***************************************************************************)
EXTENDS Integers, Sequences

CONSTANTS Bits,      \* periods of a byte (8)
          BufSize,   \* bytes in a bank of a buffer (512)
          Byte,      \* what a byte may be
          Filler     \* 8'hFF

ASSUME SizeAssumption == Bits \in Nat /\ Bits >= 2 /\ BufSize \in Nat \ {0}
ASSUME FillerAssumption == Filler \in Byte

Bank == 0..1
Position == 0..BufSize - 1
Modes == {"Write", "Read", "Exchange", "WaitAndRead"}

VARIABLES
  (* the console's side *)
  start_async, feedback_async, abort_req_async,
  mode, transfer_len,
  bus_mapped_buffer,   \* the bank the console sees
  (* the transfer's side *)
  start_transfer_clk, feedback_transfer_clk, abort_req_transfer_clk,
  running, last_period_delay, seen_non_filler,
  byte_position, bit_position,
  shiftreg,            \* the byte being sent, as it was loaded
  tx_read,             \* the output of the transmit buffer's memory
  (* the buffers *)
  rx_buffer, tx_buffer,
  (* the line *)
  incoming,            \* the byte the device is sending
  count                \* history: bytes transferred since the register was
                       \* written, but for fillers that are waited for

config == <<mode, transfer_len, bus_mapped_buffer>>
async == <<start_async, abort_req_async>>
sequencer == <<running, last_period_delay, feedback_transfer_clk, seen_non_filler, byte_position,
               bit_position>>
synchronizers == <<start_transfer_clk, abort_req_transfer_clk>>
spi == <<config, async, feedback_async, sequencer, synchronizers, shiftreg, tx_read, rx_buffer,
         tx_buffer, incoming, count>>

\* Registers that are given no value are zero in a configured iCE40.
Init ==
  /\ start_async = 0 /\ feedback_async = <<0, 0>> /\ abort_req_async = FALSE
  /\ mode = "Write" /\ transfer_len = 0 /\ bus_mapped_buffer = 0
  /\ start_transfer_clk = <<0, 0, 0>> /\ feedback_transfer_clk = 0
  /\ abort_req_transfer_clk = <<FALSE, FALSE>>
  /\ running = FALSE /\ last_period_delay = FALSE /\ seen_non_filler = FALSE
  /\ byte_position = 0 /\ bit_position = 0
  /\ shiftreg = Filler /\ tx_read = Filler
  /\ rx_buffer = [b \in Bank |-> [p \in Position |-> Filler]]
  /\ tx_buffer = [b \in Bank |-> [p \in Position |-> Filler]]
  /\ incoming = Filler /\ count = 0

\* The same, when the FPGA is started again.
Restart ==
  /\ start_async' = 0 /\ feedback_async' = <<0, 0>> /\ abort_req_async' = FALSE
  /\ mode' = "Write" /\ transfer_len' = 0 /\ bus_mapped_buffer' = 0
  /\ start_transfer_clk' = <<0, 0, 0>> /\ feedback_transfer_clk' = 0
  /\ abort_req_transfer_clk' = <<FALSE, FALSE>>
  /\ running' = FALSE /\ last_period_delay' = FALSE /\ seen_non_filler' = FALSE
  /\ byte_position' = 0 /\ bit_position' = 0
  /\ shiftreg' = Filler /\ tx_read' = Filler
  /\ rx_buffer' = [b \in Bank |-> [p \in Position |-> Filler]]
  /\ tx_buffer' = [b \in Bank |-> [p \in Position |-> Filler]]
  /\ incoming' = Filler /\ count' = 0

-----------------------------------------------------------------------------
(* The transfer.                                                           *)

Busy == feedback_async[2] # start_async
Start == start_transfer_clk[3] # start_transfer_clk[2]
AbortReq == abort_req_transfer_clk[2]
LastBit == bit_position = Bits - 1
NextBytePosition == (byte_position + 1) % BufSize

\* The byte that ends now counts: it, or one before it, is not a filler, or
\* fillers are not to be waited for.
FillerOver == seen_non_filler \/ incoming # Filler

\* Mutants: the last byte is left out; an abort waits for the device.
LastPeriodShort == ((FillerOver /\ NextBytePosition = transfer_len) \/ AbortReq) /\ LastBit
LastPeriodAbortLate == FillerOver /\ (byte_position = transfer_len \/ AbortReq) /\ LastBit

LastPeriod == ((FillerOver /\ byte_position = transfer_len) \/ AbortReq) /\ LastBit

Synchronize ==
  /\ start_transfer_clk' = <<start_async, start_transfer_clk[1], start_transfer_clk[2]>>
  /\ abort_req_transfer_clk' = <<abort_req_async, abort_req_transfer_clk[1]>>

\* The end is acknowledged one period late.
Feedback ==
  /\ last_period_delay' = (LastPeriod /\ ~last_period_delay)
  /\ feedback_transfer_clk' = IF last_period_delay THEN start_transfer_clk[3]
                              ELSE feedback_transfer_clk

\* Mutant: the position is not reset between transfers.
AdvanceWithoutReset ==
  byte_position' = IF (Start /\ byte_position = BufSize - 1) \/ (LastBit /\ FillerOver)
                   THEN NextBytePosition ELSE byte_position

Advance ==
  byte_position' = IF Start \/ (LastBit /\ FillerOver) THEN NextBytePosition
                   ELSE IF ~running THEN BufSize - 1 ELSE byte_position

\* What goes out: ones, unless the mode is to send.
Outgoing == IF mode \in {"Write", "Exchange"} THEN shiftreg ELSE Filler

\* A period of the transfer clock.  Received bytes go to the bank the console
\* does not see, and those to be sent come from there.
TransferClk ==
  /\ Synchronize
  /\ running' = (Start \/ (running /\ ~LastPeriod))
  /\ Feedback
  /\ seen_non_filler' = IF Start THEN mode # "WaitAndRead"
                        ELSE seen_non_filler \/ (LastBit /\ incoming # Filler)
  /\ Advance
  /\ bit_position' = IF running THEN (bit_position + 1) % Bits ELSE bit_position
  /\ shiftreg' = IF Start \/ LastBit THEN tx_read ELSE shiftreg
  /\ tx_read' = tx_buffer[1 - bus_mapped_buffer][NextBytePosition]
  /\ rx_buffer' = IF LastBit /\ mode # "Write"
                  THEN [rx_buffer EXCEPT ![bus_mapped_buffer][byte_position] = incoming]
                  ELSE rx_buffer
  /\ count' = IF LastBit /\ FillerOver THEN count + 1 ELSE count
  /\ UNCHANGED <<config, async, feedback_async, tx_buffer>>

-----------------------------------------------------------------------------
(* The console's bus.                                                      *)

\* Any read of the cartridge samples the transfer's feedback.
Sampled == feedback_async' = <<feedback_transfer_clk, feedback_async[1]>>

CartRead ==
  /\ Sampled
  /\ UNCHANGED <<config, async, sequencer, synchronizers, shiftreg, tx_read, rx_buffer, tx_buffer,
                 incoming, count>>

\* What the console reads from the receive buffer.
RxData(p) == rx_buffer[1 - bus_mapped_buffer][p]

WriteTx(bytes) ==
  /\ tx_buffer' = [tx_buffer EXCEPT ![bus_mapped_buffer] =
                     [p \in Position |-> IF p + 1 \in DOMAIN bytes THEN bytes[p + 1] ELSE @[p]]]
  /\ UNCHANGED <<config, async, feedback_async, sequencer, synchronizers, shiftreg, tx_read,
                 rx_buffer, incoming, count>>

\* Mutant: the register is written whatever the transfer does.
WriteCntUnguarded(m, len, bank, start) ==
  /\ mode' = m /\ transfer_len' = len /\ bus_mapped_buffer' = bank
  /\ IF start /\ ~Busy THEN start_async' = 1 - start_async /\ abort_req_async' = FALSE /\ count' = 0
     ELSE UNCHANGED <<async, count>>
  /\ UNCHANGED <<feedback_async, sequencer, synchronizers, shiftreg, tx_read, rx_buffer,
                 tx_buffer, incoming>>

\* A write of both bytes of SPI_CNT: ignored during a transfer, except that
\* without the start bit it aborts the transfer.
WriteCnt(m, len, bank, start) ==
  /\ IF Busy
     THEN /\ abort_req_async' = (abort_req_async \/ ~start)
          /\ UNCHANGED <<config, start_async, count>>
     ELSE /\ mode' = m /\ transfer_len' = len /\ bus_mapped_buffer' = bank /\ count' = 0
          /\ IF start THEN start_async' = 1 - start_async /\ abort_req_async' = FALSE
             ELSE UNCHANGED async
  /\ UNCHANGED <<feedback_async, sequencer, synchronizers, shiftreg, tx_read, rx_buffer,
                 tx_buffer, incoming>>

-----------------------------------------------------------------------------
(* Types.                                                                  *)

\* Every register has its width.
SpiTypeOK ==
  /\ start_async \in 0..1 /\ feedback_async \in [1..2 -> 0..1] /\ abort_req_async \in BOOLEAN
  /\ mode \in Modes /\ transfer_len \in Position /\ bus_mapped_buffer \in Bank
  /\ start_transfer_clk \in [1..3 -> 0..1] /\ feedback_transfer_clk \in 0..1
  /\ abort_req_transfer_clk \in [1..2 -> BOOLEAN]
  /\ {running, last_period_delay, seen_non_filler} \subseteq BOOLEAN
  /\ byte_position \in Position /\ bit_position \in 0..Bits - 1
  /\ {shiftreg, tx_read, incoming} \subseteq Byte
  /\ {rx_buffer, tx_buffer} \subseteq [Bank -> [Position -> Byte]]
  /\ count \in 0..BufSize
=============================================================================
