-------------------------------- MODULE Ipl0 --------------------------------
(***************************************************************************)
(* The first boot loader (software/ipl0/ipl0.s:147-228), which loads the   *)
(* second from the SPI flash through the controller of FpgaSpi, one bank   *)
(* filling while it copies from the other, and the programs that come      *)
(* after it, which do with the controller what they like.                  *)
(***************************************************************************)
EXTENDS FpgaSpi

CONSTANTS Images,      \* where the flash has the three versions of IPL1
          Other,       \* a byte that is neither a filler nor of an image
          HeaderSize,  \* bytes of an image's header (16)
          Sectors,     \* the number of buffers the header asks for
          Transfers    \* bound: transfers that a program starts

ASSUME Ipl0Assumption ==
  /\ HeaderSize \in 1..BufSize /\ Sectors \in Nat \ {0} /\ BufSize >= 2
  /\ Transfers \in Nat
  /\ Other \in Byte \ {Filler}
  /\ Images \subseteq {"IPL1", "IPL1_FACTORY", "IPL1_SAFE"}

\* The command read from that address, which for the real flash is four bytes,
\* and the bytes that come then.
ReadCommand(i) == <<Other, [image |-> i, at |-> 0]>>
ImageByte(i, at) == [image |-> i, at |-> at]
ASSUME ImageAssumption ==
  \A i \in Images, at \in 0..HeaderSize + (Sectors + 1) * BufSize : ImageByte(i, at) \in Byte

VARIABLES
  pc,
  bx,           \* the image that was chosen
  cx,           \* buffers left to read
  si,           \* the place in the buffer that is copied
  ram,          \* the bytes copied
  transfers,    \* transfers of the program so far
  command,      \* the flash: bytes received since it was selected
  at            \* ... and bytes sent

cpu == <<pc, bx, cx, si, ram, transfers>>
flash == <<command, at>>
vars == <<spi, cpu, flash>>

\* The versions of IPL1 use the controller only through their library.
Booting == pc \notin {"program"} \cup Images
Programming == pc = "program"

\* What the scan of the keypad finds pressed, as far as IPL0 looks at it.
KeypadScan == SUBSET {"X3", "B"}

\* The image is chosen by the keys and the button on the cartridge.
BootImage(keys, button) ==
  IF keys = {"X3", "B"} THEN "IPL1_SAFE" ELSE IF button THEN "IPL1_FACTORY" ELSE "IPL1"

Ipl0Init ==
  /\ Init
  /\ bx \in Images /\ \E keys \in KeypadScan, button \in BOOLEAN : bx = BootImage(keys, button)
  /\ pc = "command" /\ cx = 0 /\ si = 0 /\ ram = << >> /\ transfers = 0
  /\ command = << >> /\ at = 0

-----------------------------------------------------------------------------
(* The devices.                                                            *)

\* The next byte from the flash, once it has a whole command.
FlashByte == IF Len(command') = 2 THEN ImageByte(command'[2].image, at') ELSE Filler

\* The clock ticks: at the end of a byte the flash takes it, or has sent one.
FlashPeriod ==
  /\ Booting
  /\ TransferClk
  /\ IF ~LastBit THEN UNCHANGED flash
     ELSE IF Len(command) < 2 THEN command' = Append(command, Outgoing) /\ UNCHANGED at
     ELSE at' = at + 1 /\ UNCHANGED command
  /\ incoming' = FlashByte
  /\ UNCHANGED cpu

\* Another device sends what it likes, a byte at a time.
DevicePeriod ==
  /\ Programming
  /\ TransferClk
  /\ incoming' \in IF LastBit \/ Start THEN {Filler, Other} ELSE {incoming}
  /\ UNCHANGED <<cpu, flash>>

-----------------------------------------------------------------------------
(* IPL0.                                                                   *)

\* A step of the program that only goes on to the next.
Goto(next) == pc' = next /\ UNCHANGED <<bx, cx, si, ram, transfers, flash>>

\* spiStartRead: the command is written to the transmit buffer, ...
StoreCommand ==
  /\ pc = "command"
  /\ WriteTx(ReadCommand(bx))
  /\ Goto("send")

\* ... and sent.
SendCommand ==
  /\ pc = "send"
  /\ WriteCnt("Write", 1, 1 - bus_mapped_buffer, TRUE)
  /\ Goto("wait command")

\* spiSpinwait: the busy bit is read as it is after the sampling.
Spinwait(here, next) ==
  /\ pc = here
  /\ CartRead
  /\ Goto(IF feedback_async'[2] # start_async THEN here ELSE next)

\* The header is read into the bank that the command's reply would be in, ...
ReadHeader ==
  /\ pc = "header"
  /\ WriteCnt("Read", HeaderSize - 1, bus_mapped_buffer, TRUE)
  /\ Goto("wait header")

\* ... which the console sees once the first buffer is being read.
ReadFirst ==
  /\ pc = "first"
  /\ WriteCnt("Read", BufSize - 1, 1 - bus_mapped_buffer, TRUE)
  /\ Goto("count")

\* The header tells where to and how much: CX buffers (if it is not the header
\* that is read, there is no telling).
ReadCount ==
  /\ pc = "count"
  /\ CartRead
  /\ cx' = IF RxData(0) = ImageByte(bx, 0) THEN Sectors ELSE 0
  /\ pc' = "wait"
  /\ UNCHANGED <<bx, si, ram, transfers, flash>>

\* Mutant: the buffer is not flipped.
ReadNextSameBank ==
  /\ pc = "next"
  /\ WriteCnt("Read", BufSize - 1, bus_mapped_buffer, TRUE)
  /\ Goto("copy")

\* readLoop: one buffer is read while the one before it is copied.
ReadNext ==
  /\ pc = "next"
  /\ WriteCnt("Read", BufSize - 1, 1 - bus_mapped_buffer, TRUE)
  /\ Goto("copy")

\* The source index is never reset: the buffer repeats every BufSize addresses.
CopyByte ==
  /\ pc = "copy" /\ si < BufSize
  /\ CartRead
  /\ ram' = Append(ram, RxData(si))
  /\ si' = si + 1
  /\ UNCHANGED <<pc, bx, cx, transfers, flash>>

LoopEnd ==
  /\ pc = "copy" /\ si = BufSize
  /\ si' = 0 /\ cx' = cx - 1
  /\ pc' = IF cx' = 0 THEN "last" ELSE "wait"
  /\ UNCHANGED <<spi, bx, ram, transfers, flash>>

\* The memory and the flash are the loaded program's now: that version of IPL1,
\* or a program of which all is possible.
Jump ==
  /\ pc = "jump"
  /\ pc' \in {"program", bx}
  /\ bx' = "none" /\ ram' = << >> /\ command' = << >> /\ at' = 0
  /\ UNCHANGED <<spi, cx, si, transfers>>

Boot ==
  \/ StoreCommand \/ SendCommand \/ Spinwait("wait command", "header")
  \/ ReadHeader \/ Spinwait("wait header", "first") \/ ReadFirst \/ ReadCount
  \/ Spinwait("wait", "next") \/ ReadNext \/ CopyByte \/ LoopEnd
  \/ Spinwait("last", "jump") \/ Jump

-----------------------------------------------------------------------------
(* Programs.                                                               *)

ProgramPolls == Programming /\ CartRead /\ UNCHANGED <<cpu, flash>>

ProgramSends ==
  /\ Programming
  /\ WriteTx([p \in 1..BufSize |-> IF p = 1 THEN Filler ELSE Other])
  /\ UNCHANGED <<cpu, flash>>

ProgramTransfers ==
  /\ Programming /\ transfers < Transfers
  /\ \E m \in Modes, len \in Position, bank \in Bank : WriteCnt(m, len, bank, TRUE)
  /\ transfers' = IF Busy THEN transfers ELSE transfers + 1
  /\ UNCHANGED <<pc, bx, cx, si, ram, flash>>

\* The register without its start bit: a bank is flipped, or a transfer aborted.
ProgramAborts ==
  /\ Programming
  /\ \E bank \in Bank : WriteCnt(mode, transfer_len, bank, FALSE)
  /\ UNCHANGED <<cpu, flash>>

Next ==
  \/ FlashPeriod \/ DevicePeriod
  \/ Boot
  \/ ProgramPolls \/ ProgramSends \/ ProgramTransfers \/ ProgramAborts

\* The transfer clock runs, IPL0 does, and a program that waits reads the
\* register again and again.
Fairness == WF_vars(FlashPeriod) /\ WF_vars(DevicePeriod) /\ WF_vars(Boot) /\ WF_vars(ProgramPolls)

-----------------------------------------------------------------------------
(* Properties.                                                             *)

\* Every variable has its type.
TypeOK ==
  /\ SpiTypeOK
  /\ bx \in Images \cup {"none"} /\ cx \in 0..Sectors /\ si \in 0..BufSize /\ ram \in Seq(Byte)
  /\ transfers \in 0..Transfers
  /\ command \in Seq(Byte) /\ at \in 0..HeaderSize + (Sectors + 1) * BufSize

\* "All values besides the transfer abort are read only while a transfer is in
\* progress" (io_ports.md:35), on the transfer's side too, which sees starts
\* late and whose end is seen late; and "the transfer always starts from the
\* beginning of the buffers" (io_ports.md:33): the byte that ends is the next
\* of the bank, both ways.
TransfersInOrder ==
  [][/\ running \/ Start => UNCHANGED config
     /\ count' = count + 1 =>
          /\ mode \in {"Write", "Exchange"} => shiftreg = tx_buffer[1 - bus_mapped_buffer][count]
          /\ mode # "Write" => rx_buffer' = [rx_buffer EXCEPT ![bus_mapped_buffer][count] = incoming]]_vars

\* A transfer that the console sees over is over, and has transferred just the
\* bytes asked for, unless it was aborted (spi.sv:47-51, 137-160).
OverWhenNotBusy ==
  ~Busy => /\ ~running /\ ~Start /\ ~last_period_delay
           /\ count \in {0, transfer_len + 1} \/ abort_req_async

\* "After an abort is issued the busy bit will continue to be high until the
\* abort is finally completed" (io_ports.md:37): a console that waits does not
\* wait for ever, unless it lets a WaitAndRead wait for a device that never
\* answers.
TransferEnds ==
  <>[]Busy => <>[](mode = "WaitAndRead" /\ ~seen_non_filler /\ ~abort_req_async)

\* What has been copied to memory is the beginning of the image that was
\* chosen, and all of it when IPL0 jumps to it (ipl0.s:147-228).
LoadsImage ==
  /\ \A k \in DOMAIN ram : ram[k] = ImageByte(bx, HeaderSize + k - 1)
  /\ pc = "jump" => Len(ram) = Sectors * BufSize
=============================================================================
