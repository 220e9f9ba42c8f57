----------------------------- MODULE NativeSpi ------------------------------
(***************************************************************************)
(* The native-mode command engine of the MCU firmware (spi.c, spi_cmd.c    *)
(* and the loop of main.c), with the SPI peripheral and the DMA controller *)
(* it programs and the console that clocks the bus.                        *)
(*                                                                         *)
(* Every byte the console clocks out clocks one byte in.  Two interrupt    *)
(* handlers of equal priority and the main loop pass one command along:    *)
(*                                                                         *)
(*   SPI1_IRQHandler          pairs two bytes into a command word          *)
(*   DMA channel 2, TC2       receives the argument bytes                  *)
(*   mcu_spi_task             executes the command in the main loop        *)
(*   DMA channel 3, TC3       transmits the response                       *)
(*                                                                         *)
(* while DMA channel 1 pads the line with 0xFF whenever channel 3 is off.  *)
(***************************************************************************)
EXTENDS Integers, Sequences

CONSTANTS
  Cmd,          \* the command words in use
  RxLen,        \* argument bytes of each (spi_native_start_command_rx)
  TxLen,        \* data bytes of each response; -1 an error, -2 no response
  Echo,         \* commands whose response is their argument bytes
  HighIsFF,     \* commands whose second byte is 0xFF (parameter 510 or 511)
  ModeOf,       \* SPI mode entered by each command with TxLen -2
  Unknown,      \* a command word that names no command
  ArgByte,      \* the values an argument byte may have
  FifoDepth     \* bytes in each SPI FIFO (4 on the STM32)

NoCmd == "none"
Mode == {"native", "other", "halted"}
Silent == {c \in Cmd : TxLen[c] = -2}

ASSUME CommandAssumption ==
  /\ NoCmd \notin Cmd /\ Unknown \in Cmd /\ RxLen[Unknown] = 0 /\ TxLen[Unknown] = -1
  /\ RxLen \in [Cmd -> Nat]
  /\ TxLen \in [Cmd -> Int] /\ \A c \in Cmd : -2 <= TxLen[c] /\ TxLen[c] < 32768
  /\ Echo \subseteq Cmd /\ \A c \in Echo : TxLen[c] = RxLen[c] /\ RxLen[c] > 0
  /\ HighIsFF \subseteq Cmd
  /\ ModeOf \in [Silent -> Mode]
ASSUME FifoAssumption == FifoDepth \in Nat \ {0}

-----------------------------------------------------------------------------
(* Bytes.  A byte is a tuple named for what it is; 0xFF is one value       *)
(* whatever it is used for.                                                *)

FF == <<"FF">>
Low(c) == <<"low", c>>
High(c) == IF c \in HighIsFF THEN FF ELSE <<"high", c>>
Header(n) == <<"header", n>>
Data(c, i) == <<"data", c, i>>

ArgsOf(c) == [1..RxLen[c] -> ArgByte]

\* cmd = last_byte | (byte << 8); a pair the console never sent is a word
\* that names no command.
Decode(low, high) ==
  IF \E c \in Cmd : low = Low(c) /\ high = High(c)
  THEN CHOOSE c \in Cmd : low = Low(c) /\ high = High(c)
  ELSE Unknown

\* The 16-bit little-endian header: length in bits 1-15, error in bit 0.
HeaderOf(len) ==
  IF len = -1 THEN <<Header(1), Header(0)>>
  ELSE <<Header((2 * len) % 256), Header((2 * len) \div 256)>>

Response(c, args) ==
  HeaderOf(TxLen[c]) \o
    (IF c \in Echo THEN args ELSE [i \in 1..TxLen[c] |-> Data(c, i)])

HeaderValue(bytes) == bytes[1][2] + 256 * bytes[2][2]

-----------------------------------------------------------------------------
VARIABLES
  (* SPI peripheral and DMA channels *)
  spiOn,        \* LL_SPI_IsEnabled
  rxFifo, txFifo,
  rxne,         \* the receive interrupt is enabled
  rxDma,        \* channel 2 is enabled
  rxLeft,       \* bytes channel 2 still has to move
  txEmpty,      \* channel 1 (padding) is enabled
  txDma,        \* channel 3 (response) is enabled
  txPos,        \* bytes of txBuffer channel 3 has moved
  tc2, tc3,     \* transfer-complete flags
  event,        \* the core's event register, which WFE waits on
  (* firmware *)
  mode,         \* spi_mode
  idx,          \* spi_native_idx = 1
  queue,        \* native_byte_queue
  cmd,          \* spi_cmd
  rxBuffer,     \* the bytes of spi_rx_buffer received for this command
  txBuffer,     \* the response in spi_tx_buffer
  pc,           \* main loop
  usbActive,    \* mcu_usb_is_active()
  (* console *)
  host, request, toSend, received,
  (* history *)
  executed,     \* requests executed since the last one was sent
  answer        \* the last answer received

spi == <<spiOn, rxFifo, txFifo>>
dma == <<rxDma, rxLeft, txEmpty, txDma, txPos, tc2, tc3>>
firmware == <<mode, idx, queue, cmd, rxBuffer, txBuffer>>
console == <<host, request, toSend, received, answer>>
vars == <<spi, rxne, dma, event, firmware, pc, usbActive, console, executed>>

NoRequest == [cmd |-> NoCmd, args |-> << >>]
Request == UNION {[cmd : {c}, args : ArgsOf(c)] : c \in Cmd}
Answer(r) == Response(r.cmd, r.args)

\* After power-on or reset, before main.c calls mcu_spi_init.
Init ==
  /\ spiOn = FALSE /\ rxFifo = << >> /\ txFifo = << >>
  /\ rxne = FALSE /\ rxDma = FALSE /\ rxLeft = 0
  /\ txEmpty = FALSE /\ txDma = FALSE /\ txPos = 0 /\ tc2 = FALSE /\ tc3 = FALSE
  /\ event = FALSE
  /\ mode = "native" /\ idx = FALSE /\ queue = FF /\ cmd = Unknown
  /\ rxBuffer = << >> /\ txBuffer = << >>
  /\ pc = "boot" /\ usbActive = FALSE
  /\ host = "idle" /\ request = NoRequest /\ toSend = << >> /\ received = << >>
  /\ answer = << >> /\ executed = << >>

-----------------------------------------------------------------------------
(* The console.                                                            *)

\* One byte each way.  A byte that finds the receive FIFO full is dropped
\* (overrun): only padding ever is, see HostSend.
Exchange(byte) ==
  /\ spiOn /\ txFifo # << >>
  /\ txFifo' = Tail(txFifo)
  /\ rxFifo' = IF Len(rxFifo) < FifoDepth THEN Append(rxFifo, byte) ELSE rxFifo
  /\ UNCHANGED spiOn

HostStart ==
  /\ host = "idle" /\ spiOn /\ mode = "native"
  /\ \E r \in Request :
       /\ request' = r
       /\ toSend' = <<Low(r.cmd), High(r.cmd)>> \o r.args
  /\ host' = "sending" /\ received' = << >> /\ answer' = << >>
  /\ executed' = << >>
  /\ UNCHANGED <<spi, rxne, dma, event, firmware, pc, usbActive>>

\* Command and argument bytes.  The SPI clock is slow enough for the MCU to
\* take these before its FIFO is full (the protocol's maximum frequency).
HostSend ==
  /\ host = "sending" /\ Len(rxFifo) < FifoDepth
  /\ Exchange(Head(toSend))
  /\ toSend' = Tail(toSend)
  /\ host' = IF Len(toSend) > 1 THEN "sending"
             ELSE IF request.cmd \in Silent THEN "waiting" ELSE "polling"
  /\ UNCHANGED <<rxne, dma, event, firmware, pc, usbActive, request, received, answer, executed>>

\* The response: padding is skipped up to the first byte that is not 0xFF
\* (mode_WaitAndRead of the FPGA), then the header says how many bytes follow.
HostReceive ==
  /\ host = "polling"
  /\ Exchange(FF)
  /\ LET byte == Head(txFifo)
         got == IF received = << >> /\ byte = FF THEN received ELSE Append(received, byte)
         done == Len(got) >= 2 /\ Len(got) = 2 + HeaderValue(got) \div 2
     IN /\ received' = got
        /\ host' = IF done THEN "idle" ELSE host
        /\ answer' = IF done THEN got ELSE answer
        /\ request' = IF done THEN NoRequest ELSE request
  /\ UNCHANGED <<rxne, dma, event, firmware, pc, usbActive, toSend, executed>>

\* "Switch to mode" has no response: the console waits long enough.
HostModeDone ==
  /\ host = "waiting" /\ executed # << >> /\ pc # "spi_init"
  /\ host' = IF mode = "native" THEN "idle" ELSE "detached"
  /\ request' = NoRequest
  /\ UNCHANGED <<spi, rxne, dma, event, firmware, pc, usbActive, toSend, received, answer, executed>>

\* The console pulls the MCU's reset line, at any time: main() starts again.
HostReset ==
  /\ pc # "boot"
  /\ spiOn' = FALSE /\ rxFifo' = << >> /\ txFifo' = << >>
  /\ rxne' = FALSE /\ rxDma' = FALSE /\ rxLeft' = 0 /\ txEmpty' = FALSE /\ txDma' = FALSE
  /\ txPos' = 0 /\ tc2' = FALSE /\ tc3' = FALSE /\ event' = FALSE
  /\ mode' = "native" /\ idx' = FALSE /\ queue' = FF /\ cmd' = Unknown
  /\ rxBuffer' = << >> /\ txBuffer' = << >>
  /\ pc' = "boot" /\ usbActive' = FALSE
  /\ host' = "idle" /\ request' = NoRequest /\ toSend' = << >> /\ received' = << >>
  /\ answer' = << >> /\ executed' = << >>

-----------------------------------------------------------------------------
(* The DMA controller.                                                     *)

DmaPad ==
  /\ txEmpty /\ spiOn /\ Len(txFifo) < FifoDepth
  /\ txFifo' = Append(txFifo, FF)
  /\ UNCHANGED <<spiOn, rxFifo, rxne, dma, event, firmware, pc, usbActive, console, executed>>

DmaTransmit ==
  /\ txDma /\ spiOn /\ Len(txFifo) < FifoDepth /\ txPos < Len(txBuffer)
  /\ txFifo' = Append(txFifo, txBuffer[txPos + 1])
  /\ txPos' = txPos + 1
  /\ tc3' = (txPos + 1 = Len(txBuffer))
  /\ UNCHANGED <<spiOn, rxFifo, rxne, rxDma, rxLeft, txEmpty, txDma, tc2, event, firmware,
                 pc, usbActive, console, executed>>

DmaReceive ==
  /\ rxDma /\ rxLeft > 0 /\ rxFifo # << >>
  /\ rxBuffer' = Append(rxBuffer, Head(rxFifo))
  /\ rxFifo' = Tail(rxFifo)
  /\ rxLeft' = rxLeft - 1
  /\ tc2' = (rxLeft = 1)
  /\ UNCHANGED <<spiOn, txFifo, rxne, rxDma, txEmpty, txDma, txPos, tc3, event, mode, idx,
                 queue, cmd, txBuffer, pc, usbActive, console, executed>>

-----------------------------------------------------------------------------
(* Interrupt handlers.  They share one priority, so none interrupts        *)
(* another; each may run between any two steps of the main loop.  Leaving  *)
(* a handler sets the event register.                                      *)

\* The first byte of a word; 0xFF in that place is padding and is skipped.
SpiIrqByte ==
  /\ rxne /\ rxFifo # << >> /\ mode = "native"
  /\ queue = FF
  /\ queue' = Head(rxFifo)
  /\ rxFifo' = Tail(rxFifo)
  /\ event' = TRUE
  /\ UNCHANGED <<spiOn, txFifo, rxne, dma, mode, idx, cmd, rxBuffer, txBuffer, pc, usbActive,
                 console, executed>>

\* Mutant: line 221 is missing.
StopListeningForgotten == UNCHANGED rxne

\* Commands are not read while one is being served.
StopListening == rxne' = FALSE

\* Mutant: line 232 is missing.
EndPairingForgotten == queue' = Head(rxFifo)

\* The word is complete: the next byte is again a first byte.
EndPairing == queue' = FF

\* Mutant: the task is told at once, before the arguments arrive (no else).
StartCommandRxTooEarly(c) ==
  /\ rxDma' = (RxLen[c] > 0) /\ rxLeft' = RxLen[c] /\ rxBuffer' = << >>
  /\ idx' = TRUE

\* The arguments are received by DMA; with none, the command is ready.
StartCommandRx(c) ==
  IF RxLen[c] > 0
  THEN /\ rxDma' = TRUE /\ rxLeft' = RxLen[c] /\ rxBuffer' = << >>
       /\ UNCHANGED idx
  ELSE /\ idx' = TRUE
       /\ UNCHANGED <<rxDma, rxLeft, rxBuffer>>

\* The second byte of a word.
SpiIrqCommand ==
  /\ rxne /\ rxFifo # << >> /\ mode = "native"
  /\ queue # FF
  /\ StopListening
  /\ cmd' = Decode(queue, Head(rxFifo))
  /\ StartCommandRx(Decode(queue, Head(rxFifo)))
  /\ EndPairing
  /\ rxFifo' = Tail(rxFifo)
  /\ event' = TRUE
  /\ UNCHANGED <<spiOn, txFifo, txEmpty, txDma, txPos, tc2, tc3, mode, txBuffer, pc, usbActive,
                 console, executed>>

\* Response sent: back to padding, and the next command may come.
DmaIrqTransmitted ==
  /\ tc3 /\ mode = "native"
  /\ txDma' = FALSE /\ txEmpty' = TRUE
  /\ rxne' = TRUE
  /\ tc3' = FALSE
  /\ event' = TRUE
  /\ UNCHANGED <<spi, rxDma, rxLeft, txPos, tc2, firmware, pc, usbActive, console, executed>>

\* Arguments received: the command is ready for the main loop.
DmaIrqReceived ==
  /\ tc2 /\ mode = "native"
  /\ rxDma' = FALSE
  /\ tc2' = FALSE
  /\ idx' = TRUE
  /\ event' = TRUE
  /\ UNCHANGED <<spi, rxne, rxLeft, txEmpty, txDma, txPos, tc3, mode, queue, cmd, rxBuffer,
                 txBuffer, pc, usbActive, console, executed>>

\* A USB interrupt: the host attaches, suspends or resumes.
UsbIrq ==
  /\ pc \notin {"boot", "halted"}
  /\ usbActive' \in BOOLEAN
  /\ event' = TRUE
  /\ UNCHANGED <<spi, rxne, dma, firmware, pc, console, executed>>

-----------------------------------------------------------------------------
(* The main loop.                                                          *)

\* mcu_spi_task finds nothing to do.
TaskIdle ==
  /\ pc = "task" /\ ~idx
  /\ pc' = "sleep"
  /\ UNCHANGED <<spi, rxne, dma, event, firmware, usbActive, console, executed>>

\* Mutant: the flag is not cleared (line 173 missing).
TaskClaimKeepsFlag ==
  /\ pc = "task" /\ idx
  /\ pc' = "execute"
  /\ UNCHANGED <<spi, rxne, dma, event, firmware, usbActive, console, executed>>

\* mcu_spi_task takes the command over.
TaskClaim ==
  /\ pc = "task" /\ idx
  /\ idx' = FALSE
  /\ pc' = "execute"
  /\ UNCHANGED <<spi, rxne, dma, event, mode, queue, cmd, rxBuffer, txBuffer, usbActive,
                 console, executed>>

Executes == executed' = Append(executed, [cmd |-> cmd, args |-> IF RxLen[cmd] = 0 THEN << >>
                                                                ELSE rxBuffer])

\* Mutant: line 150 is missing.
ConfigureTransmitForgotten == UNCHANGED txPos

\* Channel 3 is set to the start and length of the response.
ConfigureTransmit == txPos' = 0

\* Execute the command, write header and data, point channel 3 at them.
ExecuteAndRespond ==
  /\ pc = "execute" /\ cmd \notin Silent
  /\ Executes
  /\ txBuffer' = Response(cmd, rxBuffer)
  /\ ConfigureTransmit
  /\ pc' = "switch"
  /\ UNCHANGED <<spi, rxne, rxDma, rxLeft, txEmpty, txDma, tc2, tc3, event, mode, idx, queue,
                 cmd, rxBuffer, usbActive, console>>

\* Mutant: the padding channel is left on (line 152 missing).
SwitchToResponseKeepsPadding ==
  /\ pc = "switch"
  /\ txDma' = TRUE
  /\ pc' = "sleep"
  /\ UNCHANGED <<spi, rxne, rxDma, rxLeft, txEmpty, txPos, tc2, tc3, event, firmware, usbActive,
                 console, executed>>

\* The critical section that hands the line from channel 1 to channel 3.
SwitchToResponse ==
  /\ pc = "switch"
  /\ txEmpty' = FALSE /\ txDma' = TRUE
  /\ pc' = "sleep"
  /\ UNCHANGED <<spi, rxne, rxDma, rxLeft, txPos, tc2, tc3, event, firmware, usbActive,
                 console, executed>>

\* "Switch to mode", first half of mcu_spi_init: all DMA off, SPI off, FIFOs
\* emptied and the peripheral reset; or mcu_shutdown, which never returns.
ExecuteMode ==
  /\ pc = "execute" /\ cmd \in Silent
  /\ Executes
  /\ mode' = ModeOf[cmd]
  /\ IF ModeOf[cmd] = "halted"
     THEN /\ pc' = "halted"
          /\ UNCHANGED <<spi, rxDma, txEmpty, txDma>>
     ELSE /\ pc' = "spi_init"
          /\ spiOn' = FALSE /\ rxFifo' = << >> /\ txFifo' = << >>
          /\ rxDma' = FALSE /\ txEmpty' = FALSE /\ txDma' = FALSE
  /\ UNCHANGED <<rxne, rxLeft, txPos, tc2, tc3, event, idx, queue, cmd, rxBuffer, txBuffer,
                 usbActive, console>>

\* The second half: receive interrupt on, flags cleared, SPI on, padding on.
SpiInitDone ==
  /\ pc \in {"boot", "spi_init"}
  /\ spiOn' = TRUE
  /\ rxne' = TRUE
  /\ tc2' = FALSE /\ tc3' = FALSE
  /\ txEmpty' = (mode = "native")
  /\ pc' = IF pc = "boot" THEN "task" ELSE "sleep"
  /\ UNCHANGED <<rxFifo, txFifo, rxDma, rxLeft, txDma, txPos, event, firmware, usbActive,
                 console, executed>>

\* Mutant: WFI in place of WFE waits for an interrupt that has come already.
SleepWFI ==
  /\ pc = "sleep"
  /\ usbActive \/ tc2 \/ tc3 \/ (rxne /\ rxFifo # << >>)
  /\ pc' = "task"
  /\ UNCHANGED <<spi, rxne, dma, event, firmware, usbActive, console, executed>>

\* The end of the loop: WFE returns at once when the event register is set,
\* and is skipped while USB is active.
Sleep ==
  /\ pc = "sleep"
  /\ \/ usbActive /\ UNCHANGED event
     \/ ~usbActive /\ event /\ event' = FALSE
  /\ pc' = "task"
  /\ UNCHANGED <<spi, rxne, dma, firmware, usbActive, console, executed>>

Next ==
  \/ HostStart \/ HostSend \/ HostReceive \/ HostModeDone \/ HostReset
  \/ DmaPad \/ DmaTransmit \/ DmaReceive
  \/ SpiIrqByte \/ SpiIrqCommand \/ DmaIrqTransmitted \/ DmaIrqReceived \/ UsbIrq
  \/ TaskIdle \/ TaskClaim \/ ExecuteAndRespond \/ SwitchToResponse \/ ExecuteMode
  \/ SpiInitDone \/ Sleep

\* The DMA engine and the handlers run whenever they can, the main loop is
\* never starved, and a console that began a transaction keeps clocking.
Fairness ==
  /\ WF_vars(HostSend) /\ WF_vars(HostReceive) /\ WF_vars(HostModeDone)
  /\ WF_vars(DmaPad) /\ WF_vars(DmaTransmit) /\ WF_vars(DmaReceive)
  /\ WF_vars(SpiIrqByte) /\ WF_vars(SpiIrqCommand)
  /\ WF_vars(DmaIrqTransmitted) /\ WF_vars(DmaIrqReceived)
  /\ WF_vars(TaskIdle) /\ WF_vars(TaskClaim) /\ WF_vars(ExecuteAndRespond)
  /\ WF_vars(SwitchToResponse) /\ WF_vars(ExecuteMode) /\ WF_vars(SpiInitDone)
  /\ WF_vars(Sleep)

Spec == Init /\ [][Next]_vars /\ Fairness

-----------------------------------------------------------------------------
(* Properties.                                                             *)

Octet == {n \in Nat : n < 256}
Byte == {FF} \cup ArgByte \cup ({"low", "high"} \X Cmd) \cup ({"header"} \X Octet)
          \cup ({"data"} \X Cmd \X Nat)

FlagTypeOK ==
  /\ spiOn \in BOOLEAN /\ rxne \in BOOLEAN /\ rxDma \in BOOLEAN /\ txEmpty \in BOOLEAN
  /\ txDma \in BOOLEAN /\ tc2 \in BOOLEAN /\ tc3 \in BOOLEAN /\ event \in BOOLEAN
  /\ idx \in BOOLEAN /\ usbActive \in BOOLEAN

FifoTypeOK ==
  /\ rxFifo \in Seq(Byte) /\ Len(rxFifo) <= FifoDepth
  /\ txFifo \in Seq(Byte) /\ Len(txFifo) <= FifoDepth

BufferTypeOK ==
  /\ rxLeft \in Nat /\ rxBuffer \in Seq(Byte)
  /\ txPos \in Nat /\ txBuffer \in Seq(Byte) /\ txPos <= Len(txBuffer)

FirmwareTypeOK ==
  /\ mode \in Mode /\ queue \in Byte /\ cmd \in Cmd
  /\ pc \in {"boot", "task", "execute", "switch", "spi_init", "sleep", "halted"}

ConsoleTypeOK ==
  /\ host \in {"idle", "sending", "polling", "waiting", "detached"}
  /\ request \in Request \cup {NoRequest}
  /\ toSend \in Seq(Byte) /\ received \in Seq(Byte) /\ answer \in Seq(Byte)
  /\ executed \in Seq([cmd : Cmd, args : Seq(Byte)])

\* Every variable has its type, and the FIFOs hold what the hardware holds.
TypeOK == FlagTypeOK /\ FifoTypeOK /\ BufferTypeOK /\ FirmwareTypeOK /\ ConsoleTypeOK

\* The main loop has the command, or is (re)starting the SPI or stopped.
InMain == pc \in {"boot", "execute", "switch", "spi_init", "halted"}

\* The two handlers, the two DMA channels and the main loop share spi_cmd,
\* both buffers and spi_native_idx with no lock: what makes that safe is that
\* at any time exactly one of them is entitled to the command - the receive
\* interrupt, channel 2, the task's flag, the main loop, or channel 3
\* (spi.c:135-231).
OneOwner ==
  /\ rxne \/ rxDma \/ idx \/ InMain \/ txDma
  /\ ~(rxne /\ (rxDma \/ idx \/ InMain \/ txDma))
  /\ ~(rxDma /\ (idx \/ InMain \/ txDma))
  /\ ~(idx /\ (InMain \/ txDma))
  /\ ~(InMain /\ txDma)

\* Channels 1 and 3 feed one transmit register: both on would mix padding into
\* a response, both off for good would stop the line (spi.c:151-154, 178-190).
OneTransmitter ==
  /\ ~(txEmpty /\ txDma)
  /\ mode = "native" /\ spiOn /\ ~txDma => txEmpty

\* Byte pairing never slips: half a command word is held only while the
\* console waits for that very command, never at rest, where the next
\* command's first byte would be taken for the second half (spi.c:205-232).
InSync ==
  /\ queue # FF => request # NoRequest /\ executed = << >> /\ queue = Low(request.cmd)
  /\ host = "idle" => \A i \in 1..Len(rxFifo) : rxFifo[i] = FF

\* Nobody writes the response while channel 3 still reads it, and nobody
\* writes the command or its arguments while the main loop executes it.
BuffersStable ==
  [][/\ txDma /\ txDma' => UNCHANGED txBuffer
     /\ pc = "execute" /\ pc' \notin {"boot", "execute"} => UNCHANGED <<cmd, rxBuffer>>
     /\ idx /\ idx' => UNCHANGED <<cmd, rxBuffer>>]_vars

\* Each command is executed exactly once, with its own arguments, and the
\* response the console decodes from the padded stream is that command's.
Service == INSTANCE CommandService
  WITH Silent <- {r \in Request : r.cmd \in Silent},
       outstanding <- request,
       NoAnswer <- << >>

ExactlyOnce == Service!Spec

\* A command the console has begun is completed (or the MCU is reset): no
\* wake-up is lost between the task's test and WFE, and no stage keeps it.
EveryCommandCompletes ==
  host \in {"sending", "polling", "waiting"} ~> host \in {"idle", "detached"}
=============================================================================
