------------------------------ MODULE SafeProofs -----------------------------
(***************************************************************************)
(* Proofs about the cartridge, as Safe completes it: the FPGA's SPI        *)
(* controller, for bytes of any width, banks of any size and whatever      *)
(* program uses it; what IPL0 loads through it; what the flash emulation   *)
(* lets through, whatever was loaded before; the program which is entered, *)
(* whole where it was linked to run; the test of the flash emulation; and  *)
(* the types of all of it, which the others keep.                          *)
(***************************************************************************)
EXTENDS Safe, SequenceTheorems, TLAPS

-----------------------------------------------------------------------------
(* The invariant.                                                          *)

\* What the transfer sends: the bank that the console does not see.
Hidden == tx_buffer[1 - bus_mapped_buffer]

\* An abort that the transfer knows of was asked for during it.
AbortOwn(n) == abort_req_transfer_clk[n] => abort_req_async

\* What was transferred, once all of it is.
AllOrAborted == count \in {0, transfer_len + 1} \/ abort_req_async

StartSeen(n) == start_transfer_clk[n] = start_async
EndSeen(n) == feedback_async[n] = start_async
EndTold == feedback_transfer_clk = start_async
NoneSeen == ~EndTold /\ ~EndSeen(1) /\ ~EndSeen(2)

\* A transfer is asked for, and on its way through the flip-flops, ...
Requested ==
  /\ NoneSeen /\ ~StartSeen(3) /\ (StartSeen(2) => StartSeen(1))
  /\ ~running /\ ~last_period_delay
  /\ count = 0
  /\ StartSeen(1) => byte_position = BufSize - 1 /\ AbortOwn(1)
  /\ StartSeen(2) => tx_read = Hidden[0] /\ AbortOwn(2)

\* ... it runs, ...
Running ==
  /\ NoneSeen /\ StartSeen(1) /\ StartSeen(2) /\ StartSeen(3)
  /\ running /\ ~last_period_delay
  /\ count = byte_position /\ byte_position <= transfer_len
  /\ AbortOwn(1) /\ AbortOwn(2)
  /\ mode # "WaitAndRead" =>
       /\ seen_non_filler
       /\ shiftreg = Hidden[byte_position]
       /\ bit_position > 0 => tx_read = Hidden[NextBytePosition]

\* ... its last period is over, ...
Ending ==
  /\ NoneSeen /\ StartSeen(1) /\ StartSeen(2) /\ StartSeen(3)
  /\ ~running /\ last_period_delay
  /\ AllOrAborted

\* ... and the end is told, and after two more reads seen.
Ended ==
  /\ EndTold /\ (EndSeen(2) => EndSeen(1))
  /\ StartSeen(1) /\ StartSeen(2) /\ StartSeen(3)
  /\ ~running /\ ~last_period_delay
  /\ AllOrAborted

RegisterTypes ==
  /\ start_async \in 0..1 /\ feedback_transfer_clk \in 0..1
  /\ \A n \in 1..2 : feedback_async[n] \in 0..1
  /\ \A n \in 1..3 : start_transfer_clk[n] \in 0..1
  /\ bus_mapped_buffer \in Bank /\ transfer_len \in Position /\ byte_position \in Position
  /\ bit_position \in 0..Bits - 1 /\ count \in Nat
  /\ DOMAIN tx_buffer = Bank

TransferInv ==
  /\ RegisterTypes
  /\ ~running => bit_position = 0
  /\ Requested \/ Running \/ Ending \/ Ended

\* IPL0 jumps, and IPL1 restarts the FPGA, with the controller at rest.
RestInv == pc \in {"jump", "IPL1", "IPL1_FACTORY"} => ~Busy

LEMMA TransferInit == Init => TransferInv
  BY SizeAssumption DEF Init, TransferInv, RegisterTypes, Bank, Position, Ended, EndTold, EndSeen, StartSeen,
     AllOrAborted

\* Counting in a bank.
LEMMA NextPosition ==
  ASSUME NEW p \in Position
  PROVE  /\ (p + 1) % BufSize \in Position
         /\ p < BufSize - 1 => (p + 1) % BufSize = p + 1
         /\ p = BufSize - 1 => (p + 1) % BufSize = 0
  BY SizeAssumption DEF Position

\* Counting in a byte.
LEMMA NextBit ==
  ASSUME NEW b \in 0..Bits - 1
  PROVE  /\ (b + 1) % Bits \in 0..Bits - 1
         /\ b < Bits - 1 => (b + 1) % Bits = b + 1
         /\ b = Bits - 1 => (b + 1) % Bits = 0
  BY SizeAssumption

-----------------------------------------------------------------------------
(* The transfer's clock.                                                   *)

LEMMA ClockTypes == TransferInv /\ TransferClk => RegisterTypes' /\ (~running' => bit_position' = 0)
<1> SUFFICES ASSUME TransferInv, TransferClk PROVE RegisterTypes' /\ (~running' => bit_position' = 0)
  OBVIOUS
<1> USE DEF TransferInv, RegisterTypes, TransferClk
<1>1. UNCHANGED <<start_async, feedback_async, bus_mapped_buffer, transfer_len, tx_buffer>>
  BY DEF config, async
<1>2. start_transfer_clk' = <<start_async, start_transfer_clk[1], start_transfer_clk[2]>>
  BY DEF Synchronize
<1>3. \A n \in 1..3 : start_transfer_clk'[n] \in 0..1
  BY <1>2
<1>4. feedback_transfer_clk' \in 0..1
  BY DEF Feedback
<1>5. byte_position' \in Position
  BY NextPosition, SizeAssumption DEF Advance, NextBytePosition, Position
<1>6. bit_position' \in 0..Bits - 1
  BY NextBit
<1>7. count' \in Nat
  OBVIOUS
<1>8. ~running' => bit_position' = 0
  BY NextBit DEF LastPeriod, LastBit
<1> QED
  BY <1>1, <1>3, <1>4, <1>5, <1>6, <1>7, <1>8

\* Where no transfer runs no byte ends.
LEMMA NoByteEnds ==
  ASSUME TransferInv, ~running
  PROVE  ~LastBit /\ ~LastPeriod
  BY SizeAssumption DEF TransferInv, RegisterTypes, LastPeriod, LastBit

\* The shift registers.
LEMMA Shifted ==
  ASSUME TransferClk
  PROVE  /\ start_transfer_clk'[1] = start_async
         /\ start_transfer_clk'[2] = start_transfer_clk[1]
         /\ start_transfer_clk'[3] = start_transfer_clk[2]
         /\ abort_req_transfer_clk'[1] = abort_req_async
         /\ abort_req_transfer_clk'[2] = abort_req_transfer_clk[1]
         /\ UNCHANGED <<config, async, feedback_async, tx_buffer>>
  BY DEF TransferClk, Synchronize

LEMMA RequestedStep ==
  ASSUME TransferInv, Requested, TransferClk
  PROVE  Requested' \/ Running'
<1> USE DEF TransferInv, RegisterTypes, Requested, NoneSeen, StartSeen, EndSeen, EndTold, AbortOwn
<1>1. ~LastBit /\ ~LastPeriod
  BY NoByteEnds
<1>2. ~last_period_delay' /\ feedback_transfer_clk' = feedback_transfer_clk /\ count' = 0
  BY <1>1 DEF TransferClk, Feedback
<1>3. CASE StartSeen(2)
  <2>1. Start /\ running' /\ StartSeen(1)
    BY <1>3 DEF Start, TransferClk
  <2>2. byte_position' = 0 /\ bit_position' = 0
    BY <1>3, <2>1, NextPosition DEF TransferClk, Advance, NextBytePosition
  <2>3. shiftreg' = Hidden'[0]
    BY <1>3, <2>1, Shifted DEF TransferClk, Hidden, config
  <2>4. mode' # "WaitAndRead" => seen_non_filler'
    BY <2>1, Shifted DEF TransferClk, config
  <2>5. (abort_req_transfer_clk'[1] => abort_req_async') /\ (abort_req_transfer_clk'[2] => abort_req_async')
    BY <1>3, <2>1, Shifted DEF async
  <2>6. StartSeen(1)' /\ StartSeen(2)' /\ StartSeen(3)' /\ NoneSeen'
    BY <1>2, <1>3, <2>1, Shifted DEF async
  <2>7. 0 <= transfer_len'
    BY Shifted DEF config, Position
  <2> QED
    BY <1>2, <2>1, <2>2, <2>3, <2>4, <2>5, <2>6, <2>7 DEF Running
<1>4. CASE ~StartSeen(2)
  <2>1. ~Start /\ ~running'
    <3>1. start_transfer_clk[2] \in 0..1 /\ start_transfer_clk[3] \in 0..1
      OBVIOUS
    <3>2. start_transfer_clk[3] = start_transfer_clk[2]
      BY <1>4, <3>1
    <3> QED
      BY <3>2 DEF Start, TransferClk
  <2>2. byte_position' = BufSize - 1
    BY <1>1, <2>1 DEF TransferClk, Advance
  <2>3. StartSeen(1)' /\ ~StartSeen(3)' /\ NoneSeen' /\ (StartSeen(2)' => StartSeen(1))
    BY <1>2, <1>4, Shifted DEF async
  <2>4. abort_req_transfer_clk'[1] => abort_req_async'
    BY Shifted DEF async
  <2>5. StartSeen(1) => (abort_req_transfer_clk'[2] => abort_req_async')
    BY Shifted DEF async
  <2>6. StartSeen(1) => tx_read' = Hidden'[0]
    BY Shifted, NextPosition DEF TransferClk, NextBytePosition, Hidden, config
  <2> QED
    BY <1>2, <2>1, <2>2, <2>3, <2>4, <2>5, <2>6
<1> QED
  BY <1>3, <1>4

LEMMA RunningStep ==
  ASSUME TransferInv, Running, TransferClk
  PROVE  Running' \/ Ending'
<1> USE DEF TransferInv, RegisterTypes, Running, NoneSeen, StartSeen, EndSeen, EndTold, AbortOwn
<1>1. ~Start
  BY DEF Start
<1>2. /\ UNCHANGED <<feedback_transfer_clk, feedback_async, start_async, abort_req_async, transfer_len, mode>>
      /\ Hidden' = Hidden
  BY Shifted DEF TransferClk, Feedback, config, async, Hidden
<1>3. NoneSeen' /\ StartSeen(1)' /\ StartSeen(2)' /\ StartSeen(3)'
  BY <1>2, Shifted
<1>4. CASE LastPeriod
  <2>1. ~running' /\ last_period_delay'
    BY <1>1, <1>4 DEF TransferClk, Feedback
  <2>2. LastBit /\ ((FillerOver /\ byte_position = transfer_len) \/ abort_req_async)
    BY <1>4 DEF LastPeriod, AbortReq
  <2>3. AllOrAborted'
    BY <1>2, <2>2 DEF TransferClk, AllOrAborted, Position
  <2> QED
    BY <1>3, <2>1, <2>3 DEF Ending
<1>5. CASE ~LastPeriod
  <2>1. running' /\ ~last_period_delay'
    BY <1>5 DEF TransferClk, Feedback
  <2>2. (abort_req_transfer_clk'[1] => abort_req_async') /\ (abort_req_transfer_clk'[2] => abort_req_async')
    BY <1>2, Shifted
  <2>3. CASE LastBit /\ FillerOver
    <3>1. byte_position < transfer_len /\ byte_position < BufSize - 1
      <4>1. byte_position # transfer_len
        BY <1>5, <2>3 DEF LastPeriod
      <4> QED
        BY <4>1, SizeAssumption DEF Position
    <3>2. byte_position' = byte_position + 1 /\ NextBytePosition = byte_position + 1 /\ count' = count + 1
      BY <2>3, <3>1, NextPosition DEF TransferClk, Advance, NextBytePosition
    <3>3. bit_position' = 0
      BY <2>3, NextBit DEF TransferClk, LastBit
    <3>4. mode' # "WaitAndRead" => seen_non_filler' /\ shiftreg' = Hidden'[byte_position']
      <4>1. bit_position > 0
        BY <2>3, SizeAssumption DEF LastBit
      <4>2. shiftreg' = tx_read
        BY <2>3 DEF TransferClk
      <4>3. seen_non_filler' <=> (seen_non_filler \/ (LastBit /\ incoming # Filler))
        BY <1>1 DEF TransferClk
      <4> QED
        BY <1>2, <3>2, <4>1, <4>2, <4>3
    <3> QED
      BY <1>2, <1>3, <2>1, <2>2, <3>1, <3>2, <3>3, <3>4
  <2>4. CASE LastBit /\ ~FillerOver
    <3>1. mode = "WaitAndRead"
      BY <2>4 DEF FillerOver
    <3>2. byte_position' = byte_position /\ count' = count
      BY <1>1, <2>4 DEF TransferClk, Advance
    <3> QED
      BY <1>2, <1>3, <2>1, <2>2, <3>1, <3>2
  <2>5. CASE ~LastBit
    <3>1. byte_position' = byte_position /\ count' = count /\ shiftreg' = shiftreg
      BY <1>1, <2>5 DEF TransferClk, Advance
    <3>2. tx_read' = Hidden'[NextBytePosition']
      BY <1>2, <3>1, Shifted DEF TransferClk, NextBytePosition, Hidden, config
    <3>3. mode' # "WaitAndRead" => seen_non_filler' /\ shiftreg' = Hidden'[byte_position']
      BY <1>1, <1>2, <3>1 DEF TransferClk
    <3> QED
      BY <1>2, <1>3, <2>1, <2>2, <3>1, <3>2, <3>3
  <2> QED
    BY <2>3, <2>4, <2>5
<1> QED
  BY <1>4, <1>5

LEMMA EndingStep ==
  ASSUME TransferInv, Ending \/ Ended, TransferClk
  PROVE  Ended'
<1> USE DEF TransferInv, RegisterTypes, Ending, Ended, NoneSeen, StartSeen, EndSeen, EndTold
<1>1. ~LastBit /\ ~LastPeriod /\ ~Start
  BY NoByteEnds DEF Start
<1>2. ~running' /\ ~last_period_delay' /\ count' = count
  BY <1>1 DEF TransferClk, Feedback
<1>3. feedback_transfer_clk' = start_async
  BY DEF TransferClk, Feedback
<1>4. AllOrAborted'
  BY <1>2, Shifted DEF AllOrAborted, config, async
<1> QED
  BY <1>2, <1>3, <1>4, Shifted DEF async

LEMMA ClockStep == TransferInv /\ TransferClk => TransferInv'
  BY ClockTypes, RequestedStep, RunningStep, EndingStep DEF TransferInv

-----------------------------------------------------------------------------
(* The console.                                                            *)

LEMMA ReadStep == TransferInv /\ CartRead => TransferInv'
<1> SUFFICES ASSUME TransferInv, CartRead PROVE TransferInv'
  OBVIOUS
<1>1. feedback_async'[1] = feedback_transfer_clk /\ feedback_async'[2] = feedback_async[1]
  BY DEF CartRead, Sampled
<1> QED
  BY <1>1 DEF CartRead, TransferInv, RegisterTypes, Requested, Running, Ending, Ended, NoneSeen, StartSeen,
     EndSeen, EndTold, AbortOwn, AllOrAborted, Hidden, NextBytePosition, config, async, sequencer,
     synchronizers

LEMMA WriteTxStep == ASSUME NEW b, TransferInv, WriteTx(b) PROVE TransferInv'
<1>1. Hidden' = Hidden /\ DOMAIN tx_buffer' = Bank
  BY DEF WriteTx, TransferInv, RegisterTypes, Hidden, Bank, config
<1> QED
  BY <1>1 DEF WriteTx, TransferInv, RegisterTypes, Requested, Running, Ending, Ended, NoneSeen, StartSeen,
     EndSeen, EndTold, AbortOwn, AllOrAborted, NextBytePosition, config, async, sequencer, synchronizers

LEMMA WriteCntStep ==
  ASSUME NEW m, NEW len \in Position, NEW b \in Bank, NEW start \in BOOLEAN,
         TransferInv, WriteCnt(m, len, b, start)
  PROVE  TransferInv'
<1> USE DEF WriteCnt, TransferInv, RegisterTypes, NoneSeen, StartSeen, EndSeen, EndTold, AbortOwn,
        AllOrAborted, Hidden, NextBytePosition, config, async, sequencer, synchronizers
<1>1. CASE Busy
  BY <1>1 DEF Requested, Running, Ending, Ended
<1>2. CASE ~Busy
  <2>1. Ended /\ EndSeen(2)
    BY <1>2 DEF Busy, Requested, Running, Ending
  <2>2. CASE start
    <3>1. Requested'
      BY <1>2, <2>1, <2>2 DEF Ended, Requested
    <3> QED
      BY <1>2, <2>2, <3>1
  <2>3. CASE ~start
    <3>1. Ended'
      BY <1>2, <2>1, <2>3 DEF Ended
    <3> QED
      BY <1>2, <2>3, <3>1
  <2> QED
    BY <2>2, <2>3
<1> QED
  BY <1>1, <1>2

LEMMA RestartStep == Restart => TransferInv'
  BY SizeAssumption DEF Restart, TransferInv, RegisterTypes, Bank, Position, Ended, EndTold, EndSeen,
     StartSeen, AllOrAborted

-----------------------------------------------------------------------------
(* Who uses it.                                                            *)

\* A write of the control register, with a length and a bank that it has.
Control ==
  \E m : \E len \in Position, b \in Bank, start \in BOOLEAN : WriteCnt(m, len, b, start)

ConsoleStep == CartRead \/ (\E b : WriteTx(b)) \/ Control

LEMMA Controls ==
  ASSUME NEW m, NEW len \in Position, NEW b \in Bank, NEW start \in BOOLEAN,
         WriteCnt(m, len, b, start)
  PROVE  ConsoleStep
  BY DEF ConsoleStep, Control

\* In IPL0, and in a program.
LEMMA NextUses ==
  ASSUME TransferInv, RestInv, Next
  PROVE  RestInv' /\ (TransferClk \/ ConsoleStep \/ UNCHANGED spi)
<1>1. ~Busy /\ CartRead => ~Busy'
  BY DEF Busy, CartRead, Sampled, async, TransferInv, RegisterTypes, Requested, Running, Ending, Ended,
     NoneSeen, EndSeen, EndTold
<1>2. bus_mapped_buffer \in Bank /\ 1 - bus_mapped_buffer \in Bank /\ transfer_len \in Position
  BY DEF TransferInv, RegisterTypes, Bank
<1>3. 1 \in Position /\ HeaderSize - 1 \in Position /\ BufSize - 1 \in Position
  BY SizeAssumption, Ipl0Assumption DEF Position
<1>4. TRUE \in BOOLEAN /\ FALSE \in BOOLEAN
  OBVIOUS
<1>5. CASE FlashPeriod \/ DevicePeriod
  BY <1>5, Shifted DEF FlashPeriod, DevicePeriod, RestInv, Busy, cpu, async
<1>6. CASE StoreCommand
  BY <1>6 DEF StoreCommand, Goto, RestInv, ConsoleStep
<1>7. CASE SendCommand
  BY <1>2, <1>3, <1>4, <1>7, Controls DEF SendCommand, Goto, RestInv
<1>8. CASE ReadHeader
  BY <1>2, <1>3, <1>4, <1>8, Controls DEF ReadHeader, Goto, RestInv
<1>9. CASE ReadFirst
  BY <1>2, <1>3, <1>4, <1>9, Controls DEF ReadFirst, Goto, RestInv
<1>10. CASE ReadNext
  BY <1>2, <1>3, <1>4, <1>10, Controls DEF ReadNext, Goto, RestInv
<1>11. ASSUME NEW here, NEW next, Spinwait(here, next),
              here \in {"wait command", "wait header", "wait", "last"}, next # "IPL1", next # "IPL1_FACTORY"
       PROVE  RestInv' /\ ConsoleStep
  BY <1>11 DEF Spinwait, Goto, RestInv, Busy, CartRead, async, ConsoleStep
<1>12. CASE ReadCount \/ CopyByte
  BY <1>12 DEF ReadCount, CopyByte, RestInv, ConsoleStep
<1>13. CASE LoopEnd
  BY <1>13 DEF LoopEnd, RestInv
<1>14. CASE Jump
  BY <1>14 DEF Jump, RestInv, Busy, spi, async
<1>15. CASE ProgramPolls \/ ProgramSends
  BY <1>15 DEF ProgramPolls, ProgramSends, Programming, RestInv, cpu, ConsoleStep
<1>16. CASE ProgramTransfers
  <2>1. ConsoleStep
    BY <1>4, <1>16, Controls DEF ProgramTransfers
  <2> QED
    BY <1>16, <2>1 DEF ProgramTransfers, Programming, RestInv
<1>17. CASE ProgramAborts
  <2>1. \E b \in Bank : WriteCnt(mode, transfer_len, b, FALSE)
    BY <1>17 DEF ProgramAborts
  <2> QED
    BY <1>2, <1>4, <1>17, <2>1, Controls DEF ProgramAborts, Programming, RestInv, cpu
<1> QED
  BY <1>5, <1>6, <1>7, <1>8, <1>9, <1>10, <1>11, <1>12, <1>13, <1>14, <1>15, <1>16, <1>17 DEF Next, Boot

\* IPL1's two versions that come to a menu use it twice; nothing else does.
LEMMA OnlyController ==
  ASSUME [SafeNext]_allVars
  PROVE  Next \/ Warmboot \/ ReportError \/ UNCHANGED vars
<1>1. CASE Ipl1
  BY <1>1 DEF Ipl1, BackUp, Restore, Map, CheckContact, Open, ReadPiece, Validate, Run, Halt, cartVars
<1>2. CASE Game
  BY <1>2 DEF Game, WriteReg, WriteByte
<1>3. CASE SafeSteps
  BY <1>3 DEF SafeSteps, StartSafe, BoardCheck, RamSize, TestForEver, KeepTesting, LaunchRecovery,
     ManufacturingTest, Load, WritePiece, WriteEnds, VerifyBank, TryBoot, Loading, StartRecovery,
     EarlierTestFails, StartTest, TestWrite, TestEnable, TestRead, TestExpect, TestEnds, NextLine,
     OtherThanTest, allVars, cartVars
<1>4. CASE UNCHANGED allVars
  BY <1>4 DEF allVars, cartVars
<1> QED
  BY <1>1, <1>2, <1>3, <1>4 DEF SafeNext, CartNext

SpiUse == TransferClk \/ ConsoleStep \/ (Restart /\ ~Busy) \/ UNCHANGED spi

LEMMA Uses ==
  ASSUME TransferInv, RestInv, [SafeNext]_allVars
  PROVE  RestInv' /\ SpiUse
<1>1. CASE Next
  BY <1>1, NextUses DEF SpiUse
<1>2. CASE Warmboot
  BY <1>2 DEF Warmboot, At, Restart, RestInv, Busy, SpiUse, cpu
<1>3. CASE ReportError
  <2>1. WriteCnt("Write", 0, 0, FALSE) /\ UNCHANGED cpu /\ ~Busy
    BY <1>3 DEF ReportError, At, RestInv
  <2>2. 0 \in Position /\ 0 \in Bank /\ FALSE \in BOOLEAN
    BY SizeAssumption DEF Position, Bank
  <2>3. ConsoleStep
    BY <2>1, <2>2, Controls, Zenon
  <2> QED
    BY <2>1, <2>3 DEF WriteCnt, RestInv, Busy, SpiUse, cpu, async
<1>4. CASE UNCHANGED vars
  BY <1>4 DEF vars, spi, cpu, async, RestInv, Busy, SpiUse
<1> QED
  BY <1>1, <1>2, <1>3, <1>4, OnlyController

LEMMA SpiStep == TransferInv /\ SpiUse => TransferInv'
<1> SUFFICES ASSUME TransferInv, SpiUse PROVE TransferInv'
  OBVIOUS
<1>1. CASE UNCHANGED spi
  BY <1>1 DEF spi, TransferInv, RegisterTypes, Requested, Running, Ending, Ended, NoneSeen, StartSeen,
     EndSeen, EndTold, AbortOwn, AllOrAborted, Hidden, NextBytePosition, config, async, sequencer,
     synchronizers
<1> QED
  BY <1>1, ClockStep, ReadStep, WriteTxStep, WriteCntStep, RestartStep DEF SpiUse, ConsoleStep, Control

LEMMA ControllerInit == SafeInit => TransferInv /\ RestInv
  BY TransferInit DEF SafeInit, CartInit, Ipl0Init, RestInv

LEMMA ControllerStep == TransferInv /\ RestInv /\ [SafeNext]_allVars => (TransferInv /\ RestInv)'
  BY Uses, SpiStep

-----------------------------------------------------------------------------
(* What it promises.                                                       *)

\* A transfer that the console sees over is over, and has transferred just the
\* bytes asked for, unless it was aborted (OverWhenNotBusy; spi.sv:47-51,
\* 137-160).
THEOREM NotBusyIsOver == SafeSpec => []OverWhenNotBusy
<1>1. TransferInv => OverWhenNotBusy
  BY DEF TransferInv, RegisterTypes, Requested, Running, Ending, Ended, NoneSeen, StartSeen, EndSeen,
     EndTold, AllOrAborted, OverWhenNotBusy, Busy, Start
<1> QED
  BY <1>1, ControllerInit, ControllerStep, PTL DEF SafeSpec

\* A byte ends only in a transfer that runs, and it is the next one.
LEMMA ByteInOrder ==
  ASSUME TransferInv, TransferClk, count' = count + 1
  PROVE  /\ mode \in {"Write", "Exchange"} => shiftreg = tx_buffer[1 - bus_mapped_buffer][count]
         /\ mode # "Write" => rx_buffer' = [rx_buffer EXCEPT ![bus_mapped_buffer][count] = incoming]
<1>1. LastBit /\ count \in Nat
  BY DEF TransferClk, TransferInv, RegisterTypes
<1>2. Running
  BY <1>1, NoByteEnds DEF TransferInv, Requested, Ending, Ended
<1> QED
  BY <1>1, <1>2 DEF Running, TransferClk, Hidden

LEMMA UseInOrder ==
  ASSUME TransferInv, SpiUse
  PROVE  /\ running \/ Start => UNCHANGED config
         /\ count' = count + 1 =>
              /\ mode \in {"Write", "Exchange"} => shiftreg = tx_buffer[1 - bus_mapped_buffer][count]
              /\ mode # "Write" => rx_buffer' = [rx_buffer EXCEPT ![bus_mapped_buffer][count] = incoming]
<1>1. count \in Nat
  BY DEF TransferInv, RegisterTypes
<1>2. ~Busy => ~running /\ ~Start
  BY DEF TransferInv, RegisterTypes, Requested, Running, Ending, Ended, NoneSeen, StartSeen, EndSeen,
     EndTold, Busy, Start
<1>3. CASE TransferClk
  BY <1>3, ByteInOrder, Shifted
<1>4. CASE CartRead \/ (\E b : WriteTx(b)) \/ UNCHANGED spi
  BY <1>1, <1>4 DEF CartRead, WriteTx, spi
<1>5. CASE Restart /\ ~Busy
  BY <1>1, <1>2, <1>5 DEF Restart
<1>6. CASE Control
  BY <1>1, <1>2, <1>6 DEF Control, WriteCnt
<1> QED
  BY <1>3, <1>4, <1>5, <1>6 DEF SpiUse, ConsoleStep

\* The registers of a transfer are read while it runs and not changed, and each
\* byte is the next of the bank, both ways (TransfersInOrder; spi.sv:60-170).
THEOREM TransfersAlwaysInOrder == SafeSpec => TransfersInOrder
<1>1. TransferInv /\ RestInv /\ [SafeNext]_allVars =>
        [/\ running \/ Start => UNCHANGED config
         /\ count' = count + 1 =>
              /\ mode \in {"Write", "Exchange"} => shiftreg = tx_buffer[1 - bus_mapped_buffer][count]
              /\ mode # "Write" => rx_buffer' = [rx_buffer EXCEPT ![bus_mapped_buffer][count] = incoming]]_vars
  BY Uses, UseInOrder
<1> QED
  BY <1>1, ControllerInit, ControllerStep, PTL DEF SafeSpec, TransfersInOrder

-----------------------------------------------------------------------------
(* What IPL0 loads.                                                        *)

Chosen(k) == ImageByte(bx, k)

\* The beginning of the command, as the flash has received it.
Sent == IF count = 0 THEN << >> ELSE IF count = 1 THEN <<Other>> ELSE ReadCommand(bx)
CommandIn(buffer) == buffer[0] = Other /\ buffer[1] = [image |-> bx, at |-> 0]

\* All bytes of a transfer come that were asked for.
AllComes ==
  /\ ~abort_req_async
  /\ count <= transfer_len + 1
  /\ Ending \/ Ended => count = transfer_len + 1

\* A bank holds n bytes of the image.
Holds(b, from, n) == \A k \in 0..n - 1 : rx_buffer[b][k] = Chosen(from + k)

Sending ==
  /\ AllComes
  /\ mode = "Write" /\ transfer_len = 1 /\ CommandIn(Hidden)
  /\ command = Sent /\ at = 0

Reading(from, n) ==
  /\ AllComes
  /\ mode = "Read" /\ transfer_len = n - 1
  /\ command = ReadCommand(bx) /\ at = from + count
  /\ Holds(bus_mapped_buffer, from, count)

Copied(n) == ram \in Seq(Byte) /\ Len(ram) = n /\ \A k \in 1..n : ram[k] = Chosen(HeaderSize + k - 1)

\* The bytes of the buffers that are copied, all but cx of them.
Done == (Sectors - cx) * BufSize

Empty == ram = << >> /\ si = 0

\* The stages of the boot loader: the command is stored ...
Choosing ==
  /\ pc \in {"command", "send"} /\ Empty
  /\ ~abort_req_async /\ command = << >> /\ at = 0
  /\ pc = "send" => CommandIn(tx_buffer[bus_mapped_buffer])

\* ... and sent, the header is read, and looked at while the first buffer is, ...
Commanding == pc \in {"wait command", "header"} /\ Empty /\ Sending
Heading == pc \in {"wait header", "first"} /\ Empty /\ Reading(0, HeaderSize)
Counting ==
  /\ pc = "count" /\ Empty
  /\ Reading(HeaderSize, BufSize)
  /\ rx_buffer[1 - bus_mapped_buffer][0] = Chosen(0)

\* ... a buffer is waited for, and copied while the next one is read.
Waiting ==
  /\ pc \in {"wait", "next", "last", "jump"}
  /\ cx \in 0..Sectors /\ si = 0
  /\ IF cx = 0 THEN pc \in {"last", "jump"} ELSE pc \in {"wait", "next"}
  /\ Copied(Done)
  /\ Reading(HeaderSize + Done, BufSize)

Copying ==
  /\ pc = "copy"
  /\ cx \in 1..Sectors /\ si \in 0..BufSize
  /\ Copied(Done + si)
  /\ Reading(HeaderSize + Done + BufSize, BufSize)
  /\ Holds(1 - bus_mapped_buffer, HeaderSize + Done, BufSize)

Stage == Choosing \/ Commanding \/ Heading \/ Counting \/ Waiting \/ Copying

AtRest == pc \in {"command", "send", "header", "first", "next", "jump"}

FlashSends == incoming = IF Len(command) = 2 THEN ImageByte(command[2].image, at) ELSE Filler

BufferShape ==
  /\ DOMAIN rx_buffer = Bank
  /\ \A b \in Bank : DOMAIN rx_buffer[b] = Position /\ DOMAIN tx_buffer[b] = Position

LoadInv ==
  /\ BufferShape
  /\ ~Booting => ram = << >>
  /\ Booting => bx \in Images /\ FlashSends /\ Stage /\ (AtRest => ~Busy)

LEMMA LoadInit == SafeInit => LoadInv
<1> SUFFICES ASSUME SafeInit PROVE LoadInv
  OBVIOUS
<1> USE DEF SafeInit, CartInit, Ipl0Init, Init
<1>1. BufferShape
  BY DEF BufferShape, Bank
<1>2. Choosing /\ ~Busy
  BY DEF Choosing, Empty, Busy
<1>3. Len(command) # 2
  OBVIOUS
<1> QED
  BY <1>1, <1>2, <1>3 DEF LoadInv, FlashSends, Stage

\* A period of the clock in a transfer of which all comes.
LEMMA PeriodComes ==
  ASSUME TransferInv, AllComes, mode # "WaitAndRead", TransferClk
  PROVE  /\ AllComes'
         /\ UNCHANGED <<mode, transfer_len, bus_mapped_buffer, tx_buffer, Hidden>>
         /\ ~LastBit => UNCHANGED <<count, rx_buffer>>
         /\ LastBit => /\ count' = count + 1 /\ count <= transfer_len /\ running
                       /\ mode = "Write" => UNCHANGED rx_buffer /\ shiftreg = Hidden[count]
                       /\ mode # "Write" =>
                            rx_buffer' = [rx_buffer EXCEPT ![bus_mapped_buffer][count] = incoming]
<1>1. /\ UNCHANGED <<mode, transfer_len, bus_mapped_buffer, tx_buffer, abort_req_async>>
      /\ UNCHANGED Hidden
  BY Shifted DEF config, async, Hidden
<1>2. count \in Nat /\ transfer_len \in Nat
  BY DEF TransferInv, RegisterTypes, Position
<1>3. CASE Requested
  <2>1. ~LastBit /\ count = 0
    BY <1>3, NoByteEnds DEF Requested
  <2>2. count' = 0 /\ rx_buffer' = rx_buffer
    BY <2>1 DEF TransferClk
  <2>3. ~Ending' /\ ~Ended'
    BY <1>3, RequestedStep DEF Requested, Running, Ending, Ended, NoneSeen, EndTold
  <2> QED
    BY <1>1, <1>2, <2>1, <2>2, <2>3 DEF AllComes
<1>4. CASE Running
  <2>1. Running' \/ Ending'
    BY <1>4, RunningStep
  <2>2. count = byte_position /\ byte_position <= transfer_len /\ seen_non_filler
        /\ shiftreg = Hidden[byte_position] /\ ~AbortReq /\ running
    BY <1>4 DEF Running, AllComes, AbortOwn, AbortReq
  <2>3. LastBit => /\ count' = count + 1
                   /\ rx_buffer' = IF mode # "Write"
                        THEN [rx_buffer EXCEPT ![bus_mapped_buffer][byte_position] = incoming]
                        ELSE rx_buffer
    BY <2>2 DEF TransferClk, FillerOver
  <2>4. ~LastBit => UNCHANGED <<count, rx_buffer>>
    BY DEF TransferClk
  <2>5. count' <= transfer_len + 1
    BY <1>2, <2>2, <2>3, <2>4
  <2>6. Ending' => count' = transfer_len + 1
    <3>1. Ending' => LastPeriod
      BY <1>4 DEF Ending, Running, TransferClk
    <3>2. LastPeriod => LastBit /\ byte_position = transfer_len
      BY <2>2 DEF LastPeriod
    <3> QED
      BY <2>2, <2>3, <3>1, <3>2
  <2>7. ~Ended'
    BY <2>1 DEF Running, Ending, Ended, NoneSeen
  <2> QED
    BY <1>1, <2>2, <2>3, <2>4, <2>5, <2>6, <2>7 DEF AllComes
<1>5. CASE Ending \/ Ended
  <2>1. ~LastBit
    BY <1>5, NoByteEnds DEF Ending, Ended
  <2>2. UNCHANGED <<count, rx_buffer>>
    BY <2>1 DEF TransferClk
  <2> QED
    BY <1>1, <1>5, <2>1, <2>2 DEF AllComes
<1> QED
  BY <1>3, <1>4, <1>5 DEF TransferInv

LEMMA CommandLength ==
  /\ Len(ReadCommand(bx)) = 2 /\ ReadCommand(bx)[1] = Other
  /\ ReadCommand(bx)[2] = [image |-> bx, at |-> 0]
  /\ Len(<< >>) = 0 /\ Len(<<Other>>) = 1
  BY DEF ReadCommand

\* Two elements, one after the other.
LEMMA AppendTwice ==
  ASSUME NEW S, NEW x \in S, NEW y \in S
  PROVE  Append(<< >>, x) = <<x>> /\ Append(<<x>>, y) = <<x, y>>
<1> DEFINE q == Append(<< >>, x)
           r == Append(<<x>>, y)
<1>1. Len(q) = 1 /\ q \in Seq(S) /\ q[1] = x /\ Len(r) = 2 /\ r \in Seq(S) /\ r[1] = x /\ r[2] = y
  OBVIOUS
<1> HIDE DEF q, r
<1>2. q = <<x>> /\ r = <<x, y>>
  BY <1>1
<1> QED
  BY <1>2 DEF q, r

LEMMA AppendCommand ==
  /\ Append(<< >>, Other) = <<Other>>
  /\ Append(<<Other>>, [image |-> bx, at |-> 0]) = ReadCommand(bx)
<1> DEFINE S == {Other, [image |-> bx, at |-> 0]}
<1>1. Other \in S /\ [image |-> bx, at |-> 0] \in S
  OBVIOUS
<1> HIDE DEF S
<1> QED
  BY <1>1, AppendTwice DEF ReadCommand

\* The buffers keep their shape.
LEMMA ShapeStep == TransferInv /\ BufferShape /\ SpiUse => BufferShape'
<1> SUFFICES ASSUME TransferInv, BufferShape, SpiUse PROVE BufferShape'
  OBVIOUS
<1> USE DEF BufferShape
<1>1. CASE TransferClk
  <2>1. rx_buffer' = rx_buffer
        \/ rx_buffer' = [rx_buffer EXCEPT ![bus_mapped_buffer][byte_position] = incoming]
    BY <1>1 DEF TransferClk
  <2>2. tx_buffer' = tx_buffer
    BY <1>1, Shifted
  <2> QED
    BY <2>1, <2>2
<1>2. CASE CartRead \/ Control \/ UNCHANGED spi
  BY <1>2 DEF CartRead, Control, WriteCnt, spi
<1>3. CASE \E b : WriteTx(b)
  BY <1>3 DEF WriteTx
<1>4. CASE Restart
  BY <1>4 DEF Restart
<1> QED
  BY <1>1, <1>2, <1>3, <1>4 DEF SpiUse, ConsoleStep

\* Where the console sees no transfer none is.
LEMMA RestIsEnded ==
  ASSUME TransferInv, ~Busy
  PROVE  Ended /\ EndSeen(2)
  BY DEF TransferInv, RegisterTypes, Busy, Requested, Running, Ending, Ended, NoneSeen, EndSeen

LEMMA ReadComes ==
  ASSUME TransferInv, AllComes, CartRead
  PROVE  /\ AllComes'
         /\ UNCHANGED <<mode, transfer_len, bus_mapped_buffer, tx_buffer, rx_buffer, count, Hidden>>
<1>1. /\ UNCHANGED <<mode, transfer_len, bus_mapped_buffer, tx_buffer, rx_buffer, count, Hidden>>
      /\ UNCHANGED <<start_async, abort_req_async, start_transfer_clk, feedback_transfer_clk>>
      /\ UNCHANGED <<running, last_period_delay>>
  BY DEF CartRead, config, async, sequencer, synchronizers, Hidden
<1>2. Ending' \/ Ended' => Ending \/ Ended
  BY <1>1 DEF TransferInv, Requested, Running, Ending, Ended, NoneSeen, EndTold
<1> QED
  BY <1>1, <1>2 DEF AllComes

LEMMA StartComes ==
  ASSUME TransferInv, ~Busy, NEW m, NEW len \in Position, NEW b \in Bank, WriteCnt(m, len, b, TRUE)
  PROVE  /\ AllComes' /\ count' = 0
         /\ mode' = m /\ transfer_len' = len /\ bus_mapped_buffer' = b
         /\ UNCHANGED <<rx_buffer, tx_buffer>>
<1>1. Ended /\ EndSeen(2)
  BY RestIsEnded
<1>2. /\ ~abort_req_async' /\ count' = 0 /\ start_async' = 1 - start_async
      /\ mode' = m /\ transfer_len' = len /\ bus_mapped_buffer' = b
      /\ UNCHANGED <<rx_buffer, tx_buffer, last_period_delay, feedback_transfer_clk>>
  BY DEF WriteCnt, sequencer
<1>3. ~Ending' /\ ~Ended'
  BY <1>1, <1>2 DEF Ended, Ending, EndTold, TransferInv, RegisterTypes
<1> QED
  BY <1>2, <1>3 DEF AllComes, Position

-----------------------------------------------------------------------------
(* The flash sends and receives.                                           *)

LEMMA SendingPeriod ==
  ASSUME TransferInv, Sending, FlashPeriod
  PROVE  Sending'
<1>1. TransferClk /\ UNCHANGED bx
  BY DEF FlashPeriod, cpu
<1>2. /\ AllComes' /\ mode = "Write"
      /\ UNCHANGED <<mode, transfer_len, Hidden>>
      /\ ~LastBit => count' = count
      /\ LastBit => count' = count + 1 /\ count <= 1 /\ shiftreg = Hidden[count]
  BY <1>1, PeriodComes DEF Sending
<1>3. count \in Nat
  BY DEF TransferInv, RegisterTypes
<1>4. CommandIn(Hidden) /\ at = 0 /\ command = Sent /\ transfer_len = 1
  BY DEF Sending
<1>5. CommandIn(Hidden)'
  BY <1>1, <1>2, <1>4 DEF CommandIn
<1>6. CASE ~LastBit
  BY <1>1, <1>2, <1>4, <1>5, <1>6 DEF FlashPeriod, Sending, Sent, ReadCommand, flash
<1>7. CASE LastBit
  <2>1. Outgoing = Hidden[count]
    BY <1>2, <1>7 DEF Outgoing
  <2>2. CASE count = 0
    <3>1. command = << >> /\ Outgoing = Other /\ count' = 1
      BY <1>2, <1>4, <1>7, <2>1, <2>2 DEF Sent, CommandIn
    <3>2. command' = <<Other>> /\ at' = at
      BY <1>7, <3>1, CommandLength, AppendCommand DEF FlashPeriod
    <3> QED
      BY <1>2, <1>4, <1>5, <3>1, <3>2 DEF Sending, Sent
  <2>3. CASE count = 1
    <3>1. command = <<Other>> /\ Outgoing = [image |-> bx, at |-> 0] /\ count' = 2
      BY <1>2, <1>4, <1>7, <2>1, <2>3 DEF Sent, CommandIn
    <3>2. command' = ReadCommand(bx) /\ at' = at
      BY <1>7, <3>1, CommandLength, AppendCommand DEF FlashPeriod
    <3>3. ReadCommand(bx)' = ReadCommand(bx)
      BY <1>1 DEF ReadCommand
    <3> QED
      BY <1>2, <1>4, <1>5, <3>1, <3>2, <3>3 DEF Sending, Sent
  <2> QED
    BY <1>2, <1>3, <1>7, <2>2, <2>3
<1> QED
  BY <1>6, <1>7

LEMMA ReadingPeriod ==
  ASSUME TransferInv, BufferShape, FlashSends, FlashPeriod,
         NEW from \in Nat, NEW n \in 1..BufSize, Reading(from, n)
  PROVE  Reading(from, n)' /\ UNCHANGED <<bus_mapped_buffer, rx_buffer[1 - bus_mapped_buffer]>>
<1>1. TransferClk /\ UNCHANGED bx
  BY DEF FlashPeriod, cpu
<1>2. /\ AllComes' /\ mode = "Read" /\ transfer_len = n - 1
      /\ UNCHANGED <<mode, transfer_len, bus_mapped_buffer>>
      /\ ~LastBit => count' = count /\ rx_buffer' = rx_buffer
      /\ LastBit => /\ count' = count + 1 /\ count <= n - 1
                    /\ rx_buffer' = [rx_buffer EXCEPT ![bus_mapped_buffer][count] = incoming]
  BY <1>1, PeriodComes DEF Reading
<1>3. count \in Nat /\ bus_mapped_buffer \in Bank /\ 1 - bus_mapped_buffer \in Bank
      /\ 1 - bus_mapped_buffer # bus_mapped_buffer
  BY DEF TransferInv, RegisterTypes, Bank
<1>4. command = ReadCommand(bx) /\ Len(command) = 2 /\ command[2].image = bx
  BY CommandLength DEF Reading
<1>5. incoming = Chosen(at) /\ at = from + count
  BY <1>4 DEF FlashSends, Chosen, Reading
<1>6. ReadCommand(bx)' = ReadCommand(bx) /\ \A k : Chosen(k)' = Chosen(k)
  BY <1>1 DEF ReadCommand, Chosen
<1>7. CASE ~LastBit
  <2>1. UNCHANGED <<command, at>>
    BY <1>7 DEF FlashPeriod, flash
  <2>2. Holds(bus_mapped_buffer, from, count)'
    BY <1>1, <1>2, <1>6, <1>7 DEF Reading, Holds, Chosen
  <2> QED
    BY <1>2, <1>4, <1>5, <1>6, <1>7, <2>1, <2>2 DEF Reading
<1>8. CASE LastBit
  <2>1. command' = command /\ at' = at + 1
    BY <1>4, <1>8 DEF FlashPeriod
  <2>2. /\ rx_buffer'[bus_mapped_buffer] = [rx_buffer[bus_mapped_buffer] EXCEPT ![count] = incoming]
        /\ rx_buffer'[1 - bus_mapped_buffer] = rx_buffer[1 - bus_mapped_buffer]
    BY <1>2, <1>3, <1>8 DEF BufferShape
  <2>3. count \in DOMAIN rx_buffer[bus_mapped_buffer]
    BY <1>2, <1>3, <1>8, SizeAssumption DEF BufferShape, Position
  <2>4. ASSUME NEW k \in 0..count
        PROVE  rx_buffer'[bus_mapped_buffer][k] = Chosen(from + k)
    <3>1. CASE k = count
      BY <1>5, <2>2, <2>3, <3>1
    <3>2. CASE k # count
      <4>1. k \in 0..count - 1
        BY <1>3, <3>2
      <4> QED
        BY <2>2, <3>2, <4>1 DEF Reading, Holds
    <3> QED
      BY <3>1, <3>2
  <2>5. Holds(bus_mapped_buffer, from, count)'
    <3>1. \A k \in 0..count' - 1 : k \in 0..count
      BY <1>2, <1>3, <1>8
    <3> QED
      BY <1>1, <1>2, <2>4, <3>1 DEF Holds, Chosen
  <2>6. at' = from + count'
    BY <1>2, <1>3, <1>5, <1>8, <2>1
  <2> QED
    BY <1>2, <1>4, <1>6, <2>1, <2>2, <2>5, <2>6 DEF Reading
<1> QED
  BY <1>7, <1>8

-----------------------------------------------------------------------------
(* The boot loader's steps.                                                *)

\* How many bytes are copied, after a buffer less.
LEMMA DoneCounts ==
  /\ cx \in 0..Sectors => Done \in Nat /\ Done <= Sectors * BufSize
  /\ cx \in 1..Sectors => Done + BufSize <= Sectors * BufSize
  /\ (Sectors + 1) * BufSize = Sectors * BufSize + BufSize /\ Sectors * BufSize \in Nat
  /\ cx = Sectors => Done = 0
  /\ cx = 0 => Done = Sectors * BufSize
  /\ \A c \in 1..Sectors : (Sectors - (c - 1)) * BufSize = (Sectors - c) * BufSize + BufSize
<1>1. Sectors \in Nat /\ BufSize \in Nat
  BY SizeAssumption, Ipl0Assumption
<1>2. ASSUME NEW s \in Nat, NEW b \in Nat, NEW c \in 0..s
      PROVE  /\ (s - c) * b \in Nat /\ (s - (c - 1)) * b = (s - c) * b + b
             /\ (s - s) * b = 0 /\ (s - 0) * b = s * b
             /\ (s - c) * b <= s * b /\ s * b \in Nat /\ (s + 1) * b = s * b + b
             /\ c >= 1 => (s - c) * b + b <= s * b
  BY <1>2, SMT
<1>3. \A c \in 1..Sectors : c \in 0..Sectors /\ c >= 1
  BY <1>1
<1>4. 0 \in 0..Sectors
  BY <1>1
<1>5. cx \in 0..Sectors => Done \in Nat /\ Done <= Sectors * BufSize
  BY <1>1, <1>2 DEF Done
<1>6. cx \in 1..Sectors => Done + BufSize <= Sectors * BufSize
  BY <1>1, <1>2, <1>3 DEF Done
<1>7. (Sectors + 1) * BufSize = Sectors * BufSize + BufSize /\ Sectors * BufSize \in Nat
  BY <1>1, <1>2, <1>4
<1>8. (cx = Sectors => Done = 0) /\ (cx = 0 => Done = Sectors * BufSize)
  BY <1>1, <1>2, <1>4 DEF Done
<1>9. \A c \in 1..Sectors : (Sectors - (c - 1)) * BufSize = (Sectors - c) * BufSize + BufSize
  BY <1>1, <1>2, <1>3
<1> QED
  BY <1>5, <1>6, <1>7, <1>8, <1>9

\* Where the boot loader is.
LEMMA StagePlaces ==
  ASSUME LoadInv
  PROVE  /\ Booting <=> pc \in {"command", "send", "wait command", "header", "wait header", "first", "count",
                               "wait", "next", "copy", "last", "jump"}
         /\ Booting =>
              /\ bx \in Images /\ FlashSends /\ (AtRest => ~Busy)
              /\ pc \in {"command", "send"} => Choosing
              /\ pc \in {"wait command", "header"} => Commanding
              /\ pc \in {"wait header", "first"} => Heading
              /\ pc = "count" => Counting
              /\ pc \in {"wait", "next", "last", "jump"} => Waiting
              /\ pc = "copy" => Copying
<1>1. Booting => Stage
  BY DEF LoadInv
<1>2. pc \in {"command", "send", "wait command", "header", "wait header", "first", "count",
              "wait", "next", "copy", "last", "jump"} => Booting
  BY Ipl0Assumption DEF Booting
<1> QED
  BY <1>1, <1>2 DEF LoadInv, Stage, Choosing, Commanding, Heading, Counting, Waiting, Copying

LEMMA LoadPeriod ==
  ASSUME TransferInv, LoadInv, FlashPeriod
  PROVE  LoadInv'
<1>1. Booting /\ TransferClk /\ UNCHANGED <<pc, bx, cx, si, ram>>
  BY DEF FlashPeriod, cpu
<1>2. BufferShape'
  BY <1>1, ShapeStep DEF LoadInv, SpiUse
<1>3. FlashSends'
  BY DEF FlashPeriod, FlashByte, FlashSends
<1>4. Busy' = Busy
  BY <1>1, Shifted DEF Busy, async
<1>5. Stage'
  <2> USE DEF Stage, Empty
  <2>1. CASE Choosing
    <3>1. ~LastBit
      BY <2>1, StagePlaces, RestIsEnded, NoByteEnds DEF Choosing, AtRest, Ended, LoadInv
    <3>2. UNCHANGED <<command, at, abort_req_async, tx_buffer, bus_mapped_buffer>>
      BY <1>1, <3>1, Shifted DEF FlashPeriod, flash, async, config
    <3> QED
      BY <1>1, <2>1, <3>2 DEF Choosing, CommandIn
  <2>2. CASE Commanding
    BY <1>1, <2>2, SendingPeriod DEF Commanding
  <2>3. CASE Heading
    <3>1. 0 \in Nat /\ HeaderSize \in 1..BufSize
      BY Ipl0Assumption
    <3>2. Reading(0, HeaderSize)'
      BY <2>3, <3>1, <1>1, ReadingPeriod DEF Heading, LoadInv
    <3> QED
      BY <1>1, <2>3, <3>2 DEF Heading
  <2>4. CASE Counting
    <3>1. HeaderSize \in Nat /\ BufSize \in 1..BufSize
      BY SizeAssumption, Ipl0Assumption
    <3>2. Reading(HeaderSize, BufSize)' /\ UNCHANGED <<bus_mapped_buffer, rx_buffer[1 - bus_mapped_buffer]>>
      BY <2>4, <3>1, <1>1, ReadingPeriod DEF Counting, LoadInv
    <3> QED
      BY <1>1, <2>4, <3>2 DEF Counting, Chosen
  <2>5. CASE Waiting
    <3>1. PICK from \in Nat : from = HeaderSize + Done
      BY <2>5, DoneCounts, Ipl0Assumption DEF Waiting
    <3>2. BufSize \in 1..BufSize /\ Reading(from, BufSize)
      BY <2>5, <3>1, SizeAssumption DEF Waiting
    <3>3. Reading(from, BufSize)'
      BY <3>2, <1>1, ReadingPeriod DEF LoadInv
    <3>4. from = (HeaderSize + Done)'
      BY <1>1, <3>1 DEF Done
    <3>5. Reading(HeaderSize + Done, BufSize)'
      BY <3>3, <3>4 DEF Reading
    <3>6. Copied(Done)'
      BY <1>1, <2>5 DEF Waiting, Copied, Done, Chosen
    <3> QED
      BY <1>1, <2>5, <3>5, <3>6 DEF Waiting
  <2>6. CASE Copying
    <3>1. PICK from \in Nat : from = HeaderSize + Done + BufSize
      BY <2>6, DoneCounts, SizeAssumption, Ipl0Assumption DEF Copying
    <3>2. BufSize \in 1..BufSize /\ Reading(from, BufSize)
      BY <2>6, <3>1, SizeAssumption DEF Copying
    <3>3. Reading(from, BufSize)' /\ UNCHANGED <<bus_mapped_buffer, rx_buffer[1 - bus_mapped_buffer]>>
      BY <3>2, <1>1, ReadingPeriod DEF LoadInv
    <3>4. from = (HeaderSize + Done + BufSize)'
      BY <1>1, <3>1 DEF Done
    <3>5. Reading(HeaderSize + Done + BufSize, BufSize)'
      BY <3>3, <3>4 DEF Reading
    <3>6. Copied(Done + si)' /\ Holds(1 - bus_mapped_buffer, HeaderSize + Done, BufSize)'
      BY <1>1, <2>6, <3>3 DEF Copying, Copied, Holds, Done, Chosen
    <3> QED
      BY <1>1, <2>6, <3>5, <3>6 DEF Copying
  <2> QED
    BY <1>1, <2>1, <2>2, <2>3, <2>4, <2>5, <2>6 DEF LoadInv
<1> QED
  BY <1>1, <1>2, <1>3, <1>4, <1>5 DEF LoadInv, Booting, AtRest

\* A step of the boot loader that leads to the next stage.
LEMMA NextStage ==
  ASSUME TransferInv, LoadInv, SpiUse, Booting, UNCHANGED <<bx, incoming, command, at>>,
         Stage', AtRest' => ~Busy'
  PROVE  LoadInv'
<1>1. BufferShape'
  BY ShapeStep DEF LoadInv
<1>2. FlashSends' /\ bx' \in Images
  BY DEF LoadInv, FlashSends
<1>3. Booting'
  BY Ipl0Assumption DEF Booting, Stage, Choosing, Commanding, Heading, Counting, Waiting, Copying
<1> QED
  BY <1>1, <1>2, <1>3 DEF LoadInv

\* The boot loader's writes of the control register, at rest.
LEMMA StartsTransfer ==
  ASSUME TransferInv, LoadInv, Booting, AtRest, NEW m, NEW len \in Position, NEW b \in Bank,
         WriteCnt(m, len, b, TRUE)
  PROVE  /\ SpiUse /\ AllComes' /\ count' = 0 /\ UNCHANGED <<rx_buffer, tx_buffer, incoming>>
         /\ mode' = m /\ transfer_len' = len /\ bus_mapped_buffer' = b
<1>1. ~Busy
  BY DEF LoadInv
<1>2. TRUE \in BOOLEAN
  OBVIOUS
<1>3. SpiUse
  BY <1>2, Controls DEF SpiUse
<1> QED
  BY <1>1, <1>3, StartComes DEF WriteCnt

LEMMA LoadStore ==
  ASSUME TransferInv, LoadInv, StoreCommand
  PROVE  LoadInv'
<1>1. Choosing /\ ~Busy /\ Booting /\ WriteTx(ReadCommand(bx)) /\ pc' = "send"
      /\ UNCHANGED <<bx, cx, si, ram, command, at>>
  BY StagePlaces DEF StoreCommand, Goto, AtRest, flash
<1>2. SpiUse
  BY <1>1 DEF SpiUse, ConsoleStep
<1>3. UNCHANGED <<abort_req_async, start_async, feedback_async, bus_mapped_buffer, incoming>>
  BY <1>1 DEF WriteTx, async, config
<1>4. CommandIn(tx_buffer[bus_mapped_buffer])'
  <2>1. tx_buffer'[bus_mapped_buffer] =
          [p \in Position |-> IF p + 1 \in DOMAIN ReadCommand(bx) THEN ReadCommand(bx)[p + 1]
                              ELSE tx_buffer[bus_mapped_buffer][p]]
    BY <1>1 DEF WriteTx, TransferInv, RegisterTypes, BufferShape, LoadInv
  <2>2. 0 \in Position /\ 1 \in Position
    BY SizeAssumption, Ipl0Assumption DEF Position
  <2>3. DOMAIN ReadCommand(bx) = 1..2
    BY DEF ReadCommand
  <2>4. tx_buffer'[bus_mapped_buffer][0] = Other
        /\ tx_buffer'[bus_mapped_buffer][1] = [image |-> bx, at |-> 0]
    BY <2>1, <2>2, <2>3, CommandLength
  <2> QED
    BY <1>1, <1>3, <2>4 DEF CommandIn
<1>5. Choosing'
  BY <1>1, <1>3, <1>4 DEF Choosing, Empty
<1>6. ~Busy'
  BY <1>1, <1>3 DEF Busy
<1> QED
  BY <1>1, <1>2, <1>3, <1>5, <1>6, NextStage DEF Stage

LEMMA LoadSend ==
  ASSUME TransferInv, LoadInv, SendCommand
  PROVE  LoadInv'
<1>1. Choosing /\ Booting /\ pc = "send" /\ pc' = "wait command" /\ UNCHANGED <<bx, cx, si, ram, command, at>>
  BY StagePlaces DEF SendCommand, Goto, flash
<1>2. 1 \in Position /\ bus_mapped_buffer \in Bank /\ 1 - bus_mapped_buffer \in Bank
      /\ 1 - (1 - bus_mapped_buffer) = bus_mapped_buffer
  BY SizeAssumption, Ipl0Assumption DEF Position, Bank, TransferInv, RegisterTypes
<1>3. /\ SpiUse /\ AllComes' /\ count' = 0 /\ UNCHANGED <<rx_buffer, tx_buffer, incoming>>
      /\ mode' = "Write" /\ transfer_len' = 1 /\ bus_mapped_buffer' = 1 - bus_mapped_buffer
  BY <1>1, <1>2, StartsTransfer DEF SendCommand, AtRest
<1>4. Hidden' = tx_buffer[bus_mapped_buffer]
  BY <1>2, <1>3 DEF Hidden
<1>5. CommandIn(Hidden)'
  BY <1>1, <1>4 DEF Choosing, CommandIn
<1>6. Sending'
  BY <1>1, <1>3, <1>5 DEF Sending, Sent, Choosing
<1>7. Commanding'
  BY <1>1, <1>6 DEF Commanding, Choosing, Empty
<1> QED
  BY <1>1, <1>3, <1>7, NextStage DEF Stage, AtRest

LEMMA LoadWait ==
  ASSUME TransferInv, LoadInv, NEW here, NEW next, Spinwait(here, next),
         <<here, next>> \in {<<"wait command", "header">>, <<"wait header", "first">>, <<"wait", "next">>,
                             <<"last", "jump">>}
  PROVE  LoadInv'
<1>1. /\ pc = here /\ CartRead /\ UNCHANGED <<bx, cx, si, ram, command, at>>
      /\ pc' = (IF Busy' THEN here ELSE next)
  BY DEF Spinwait, Goto, flash, Busy, CartRead, async
<1>2. Booting /\ SpiUse
  BY <1>1, StagePlaces DEF SpiUse, ConsoleStep
<1>3. AtRest' => ~Busy'
  BY <1>1 DEF AtRest
<1>4. incoming' = incoming
  BY <1>1 DEF CartRead
<1>5. Stage'
  <2>1. AllComes
    BY <1>1, StagePlaces DEF Commanding, Heading, Waiting, Sending, Reading
  <2>2. /\ AllComes'
        /\ UNCHANGED <<mode, transfer_len, bus_mapped_buffer, tx_buffer, rx_buffer, count, Hidden>>
    BY <1>1, <2>1, ReadComes
  <2>3. Sending => Sending'
    BY <1>1, <2>2 DEF Sending, CommandIn, Sent, ReadCommand
  <2>4. CASE here = "wait command"
    BY <1>1, <2>3, <2>4, StagePlaces DEF Commanding, Empty, Stage
  <2>5. CASE here = "wait header"
    BY <1>1, <2>2, <2>5, StagePlaces DEF Heading, Empty, Stage, Reading, Holds, Chosen, ReadCommand
  <2>6. CASE here \in {"wait", "last"}
    <3>1. Waiting /\ pc' \in {"wait", "next", "last", "jump"}
          /\ (pc' \in {"last", "jump"} <=> pc \in {"last", "jump"})
      BY <1>1, <2>6, StagePlaces
    <3> QED
      BY <1>1, <2>2, <3>1 DEF Waiting, Stage, Reading, Holds, Chosen, ReadCommand, Copied, Done
  <2> QED
    BY <2>4, <2>5, <2>6
<1> QED
  BY <1>1, <1>2, <1>3, <1>4, <1>5, NextStage

\* At rest, all that was asked for has come.
LEMMA AllCame ==
  ASSUME TransferInv, LoadInv, Booting, AtRest, AllComes
  PROVE  count = transfer_len + 1
  BY RestIsEnded DEF LoadInv, AllComes

LEMMA LoadHeader ==
  ASSUME TransferInv, LoadInv, ReadHeader
  PROVE  LoadInv'
<1>1. /\ Commanding /\ Booting /\ pc = "header" /\ pc' = "wait header"
      /\ UNCHANGED <<bx, cx, si, ram, command, at>>
  BY StagePlaces DEF ReadHeader, Goto, flash
<1>2. HeaderSize - 1 \in Position /\ bus_mapped_buffer \in Bank
  BY SizeAssumption, Ipl0Assumption DEF Position, TransferInv, RegisterTypes
<1>3. /\ SpiUse /\ AllComes' /\ count' = 0 /\ UNCHANGED incoming
      /\ mode' = "Read" /\ transfer_len' = HeaderSize - 1
  BY <1>1, <1>2, StartsTransfer DEF ReadHeader, AtRest
<1>4. command = ReadCommand(bx) /\ at = 0
  <2>1. count = transfer_len + 1 /\ transfer_len = 1
    BY <1>1, AllCame DEF Commanding, Sending, AtRest
  <2>2. count # 0 /\ count # 1
    BY <2>1
  <2>3. command = Sent /\ at = 0
    BY <1>1 DEF Commanding, Sending
  <2> QED
    BY <2>2, <2>3 DEF Sent
<1>5. Reading(0, HeaderSize)'
  <2>1. at' = 0 /\ count' = 0
    BY <1>1, <1>3, <1>4
  <2>2. at' = 0 + count' /\ \A k \in 0..count' - 1 : FALSE
    BY <2>1
  <2> QED
    BY <1>1, <1>3, <1>4, <2>2 DEF Reading, Holds, ReadCommand
<1>6. Heading'
  BY <1>1, <1>5 DEF Heading, Commanding, Empty
<1> QED
  BY <1>1, <1>3, <1>6, NextStage DEF Stage, AtRest

\* The bank that has been read is the one that the console sees then.
LEMMA FlippedBank ==
  ASSUME TransferInv
  PROVE  /\ bus_mapped_buffer \in Bank /\ 1 - bus_mapped_buffer \in Bank /\ BufSize - 1 \in Position
         /\ 1 - (1 - bus_mapped_buffer) = bus_mapped_buffer
  BY SizeAssumption DEF TransferInv, RegisterTypes, Bank, Position

LEMMA LoadFirst ==
  ASSUME TransferInv, LoadInv, ReadFirst
  PROVE  LoadInv'
<1>1. /\ Heading /\ Booting /\ pc = "first" /\ pc' = "count" /\ UNCHANGED <<bx, cx, si, ram, command, at>>
  BY StagePlaces DEF ReadFirst, Goto, flash
<1>2. /\ SpiUse /\ AllComes' /\ count' = 0 /\ UNCHANGED <<rx_buffer, incoming>>
      /\ mode' = "Read" /\ transfer_len' = BufSize - 1 /\ bus_mapped_buffer' = 1 - bus_mapped_buffer
  BY <1>1, FlippedBank, StartsTransfer DEF ReadFirst, AtRest
<1>3. count = HeaderSize
  BY <1>1, AllCame, Ipl0Assumption, SizeAssumption DEF Heading, Reading, AtRest
<1>4. rx_buffer[bus_mapped_buffer][0] = Chosen(0)
  <2>1. 0 \in 0..count - 1
    BY <1>3, Ipl0Assumption
  <2>2. rx_buffer[bus_mapped_buffer][0] = Chosen(0 + 0)
    BY <1>1, <2>1 DEF Heading, Reading, Holds
  <2> QED
    BY <2>2
<1>5. (rx_buffer[1 - bus_mapped_buffer][0] = Chosen(0))'
  BY <1>1, <1>2, <1>4, FlippedBank DEF Chosen
<1>6. at = HeaderSize
  BY <1>1, <1>3, Ipl0Assumption DEF Heading, Reading
<1>7. Reading(HeaderSize, BufSize)'
  BY <1>1, <1>2, <1>6, Ipl0Assumption DEF Heading, Reading, Holds, ReadCommand
<1>8. Counting'
  BY <1>1, <1>5, <1>7 DEF Counting, Heading, Empty
<1> QED
  BY <1>1, <1>2, <1>8, NextStage DEF Stage, AtRest

LEMMA LoadCount ==
  ASSUME TransferInv, LoadInv, ReadCount
  PROVE  LoadInv'
<1>1. /\ Counting /\ Booting /\ CartRead /\ pc' = "wait"
      /\ UNCHANGED <<bx, si, ram, command, at>>
  BY StagePlaces DEF ReadCount, flash
<1>2. /\ SpiUse /\ AllComes' /\ UNCHANGED incoming
      /\ UNCHANGED <<mode, transfer_len, bus_mapped_buffer, rx_buffer, count>>
  BY <1>1, ReadComes DEF SpiUse, ConsoleStep, CartRead, Counting, Reading
<1>3. cx' = Sectors
  BY <1>1 DEF ReadCount, RxData, Counting, Chosen
<1>4. Done' = 0 /\ cx' \in 1..Sectors
  BY <1>3, SizeAssumption, Ipl0Assumption DEF Done
<1>5. Copied(Done)'
  BY <1>1, <1>4, CommandLength DEF Copied, Counting, Empty
<1>6. Reading(HeaderSize + Done, BufSize)'
  BY <1>1, <1>2, <1>4, Ipl0Assumption DEF Counting, Reading, Holds, Chosen, ReadCommand
<1>7. Waiting'
  BY <1>1, <1>4, <1>5, <1>6 DEF Waiting, Counting, Empty
<1> QED
  BY <1>1, <1>2, <1>7, NextStage DEF Stage, AtRest

LEMMA LoadNext ==
  ASSUME TransferInv, LoadInv, ReadNext
  PROVE  LoadInv'
<1>1. /\ Waiting /\ Booting /\ pc = "next" /\ pc' = "copy" /\ UNCHANGED <<bx, cx, si, ram, command, at>>
  BY StagePlaces DEF ReadNext, Goto, flash
<1>2. /\ SpiUse /\ AllComes' /\ count' = 0 /\ UNCHANGED <<rx_buffer, incoming>>
      /\ mode' = "Read" /\ transfer_len' = BufSize - 1 /\ bus_mapped_buffer' = 1 - bus_mapped_buffer
  BY <1>1, FlippedBank, StartsTransfer DEF ReadNext, AtRest
<1>3. count = BufSize
  BY <1>1, AllCame, SizeAssumption DEF Waiting, Reading, AtRest
<1>4. Done \in Nat /\ Done' = Done /\ cx \in 1..Sectors /\ HeaderSize \in Nat /\ BufSize \in Nat
  BY <1>1, DoneCounts, SizeAssumption, Ipl0Assumption DEF Waiting, Done
<1>5. Holds(1 - bus_mapped_buffer, HeaderSize + Done, BufSize)'
  BY <1>1, <1>2, <1>3, <1>4, FlippedBank DEF Waiting, Reading, Holds, Chosen
<1>6. at = HeaderSize + Done + BufSize
  BY <1>1, <1>3 DEF Waiting, Reading
<1>7. Reading(HeaderSize + Done + BufSize, BufSize)'
  BY <1>1, <1>2, <1>4, <1>6 DEF Waiting, Reading, Holds, ReadCommand
<1>8. Copied(Done + si)' /\ si' = 0
  BY <1>1, <1>4 DEF Waiting, Copied, Chosen
<1>9. Copying'
  BY <1>1, <1>4, <1>5, <1>7, <1>8 DEF Copying
<1> QED
  BY <1>1, <1>2, <1>9, NextStage DEF Stage, AtRest

\* A sequence that is one longer.
LEMMA OneMore ==
  ASSUME NEW S, NEW q \in Seq(S), NEW x \in S
  PROVE  /\ Append(q, x) \in Seq(S) /\ Len(Append(q, x)) = Len(q) + 1
         /\ \A k \in 1..Len(q) : Append(q, x)[k] = q[k]
         /\ Append(q, x)[Len(q) + 1] = x
  OBVIOUS

LEMMA LoadEnd ==
  ASSUME TransferInv, LoadInv, LoopEnd
  PROVE  LoadInv'
<1>1. /\ Copying /\ Booting /\ si = BufSize /\ si' = 0 /\ cx' = cx - 1
      /\ pc' = (IF cx' = 0 THEN "last" ELSE "wait")
      /\ UNCHANGED spi /\ UNCHANGED <<bx, ram, command, at>>
  BY StagePlaces DEF LoopEnd, flash
<1>2. /\ SpiUse /\ UNCHANGED <<incoming, mode, transfer_len, bus_mapped_buffer, rx_buffer, count>>
      /\ AllComes'
  BY <1>1 DEF SpiUse, spi, config, async, sequencer, synchronizers, AllComes, Ending, Ended, NoneSeen,
     EndTold, EndSeen, StartSeen, AllOrAborted, Copying, Reading
<1>3. Done \in Nat /\ Done' = Done + BufSize /\ cx' \in 0..Sectors
  BY <1>1, DoneCounts, Ipl0Assumption DEF Copying, Done
<1>4. Copied(Done)'
  BY <1>1, <1>3 DEF Copying, Copied, Chosen
<1>5. HeaderSize + Done + BufSize = (HeaderSize + Done)'
  BY <1>3, SizeAssumption, Ipl0Assumption
<1>6. Reading(HeaderSize + Done, BufSize)'
  BY <1>1, <1>2, <1>5 DEF Copying, Reading, Holds, Chosen, ReadCommand
<1>7. Waiting'
  BY <1>1, <1>3, <1>4, <1>6 DEF Waiting
<1> QED
  BY <1>1, <1>2, <1>7, NextStage DEF Stage, AtRest

LEMMA LoadCopy ==
  ASSUME TransferInv, LoadInv, CopyByte
  PROVE  LoadInv'
<1>1. /\ Copying /\ Booting /\ CartRead /\ pc = "copy" /\ pc' = "copy" /\ si < BufSize /\ si' = si + 1
      /\ ram' = Append(ram, RxData(si)) /\ UNCHANGED <<bx, cx, command, at>>
  BY StagePlaces DEF CopyByte, flash
<1>2. /\ SpiUse /\ AllComes' /\ UNCHANGED incoming
      /\ UNCHANGED <<mode, transfer_len, bus_mapped_buffer, rx_buffer, count>>
  BY <1>1, ReadComes DEF SpiUse, ConsoleStep, CartRead, Copying, Reading
<1>3. Done \in Nat /\ Done' = Done /\ si \in Nat /\ si' \in 0..BufSize /\ HeaderSize \in Nat
  BY <1>1, DoneCounts, SizeAssumption, Ipl0Assumption DEF Copying, Done
<1>4. RxData(si) = Chosen(HeaderSize + Done + si)
  BY <1>1, <1>3, SizeAssumption DEF Copying, Holds, RxData
<1>5. Copied(Done + si)'
  <2>1. PICK n \in Nat : n = Done + si
    BY <1>3
  <2>2. Copied(n)
    BY <1>1, <2>1 DEF Copying
  <2>3. RxData(si) \in Byte
    <3>1. HeaderSize + Done + si \in 0..HeaderSize + (Sectors + 1) * BufSize
      BY <1>1, <1>3, DoneCounts, SizeAssumption DEF Copying
    <3> QED
      BY <1>1, <1>4, <3>1, ImageAssumption DEF Chosen, LoadInv
  <2>4. ram \in Seq(Byte) /\ Len(ram) = n
    BY <2>2 DEF Copied
  <2>5. /\ ram' \in Seq(Byte) /\ Len(ram') = n + 1
        /\ \A k \in 1..n : ram'[k] = ram[k]
        /\ ram'[n + 1] = RxData(si)
    BY <1>1, <2>3, <2>4, OneMore
  <2>6. RxData(si) = Chosen(HeaderSize + (n + 1) - 1)
    BY <1>3, <1>4, <2>1
  <2>7. \A k \in 1..n + 1 : ram'[k] = Chosen(HeaderSize + k - 1)
    <3>1. \A k \in 1..n + 1 : k \in 1..n \/ k = n + 1
      OBVIOUS
    <3> QED
      BY <2>2, <2>5, <2>6, <3>1 DEF Copied
  <2>8. (Done + si)' = n + 1
    BY <1>1, <1>3, <2>1
  <2> QED
    BY <1>1, <2>5, <2>7, <2>8 DEF Copied, Chosen
<1>6. Reading(HeaderSize + Done + BufSize, BufSize)'
  BY <1>1, <1>2, <1>3 DEF Copying, Reading, Holds, Chosen, ReadCommand
<1>7. Holds(1 - bus_mapped_buffer, HeaderSize + Done, BufSize)'
  BY <1>1, <1>2, <1>3 DEF Copying, Holds, Chosen
<1>8. Copying'
  BY <1>1, <1>3, <1>5, <1>6, <1>7 DEF Copying
<1> QED
  BY <1>1, <1>2, <1>8, NextStage DEF Stage, AtRest

\* Where the boot loader is not, nothing of what it has loaded is left.
LEMMA LoadElsewhere ==
  ASSUME TransferInv, LoadInv, SpiUse, ~Booting', ram' = << >>
  PROVE  LoadInv'
  BY ShapeStep DEF LoadInv

LEMMA LoadStep ==
  ASSUME TransferInv, RestInv, LoadInv, [SafeNext]_allVars
  PROVE  LoadInv'
<1>1. SpiUse
  BY Uses
<1>2. CASE FlashPeriod
  BY <1>2, LoadPeriod
<1>3. CASE Boot
  <2>1. CASE Jump
    <3>1. ram' = << >> /\ ~Booting'
      BY <2>1, StagePlaces DEF Jump, Booting, LoadInv
    <3> QED
      BY <1>1, <3>1, LoadElsewhere
  <2>2. CASE Spinwait("wait command", "header")
    BY <2>2, LoadWait
  <2>3. CASE Spinwait("wait header", "first")
    BY <2>3, LoadWait
  <2>4. CASE Spinwait("wait", "next")
    BY <2>4, LoadWait
  <2>5. CASE Spinwait("last", "jump")
    BY <2>5, LoadWait
  <2> QED
    BY <1>3, <2>1, <2>2, <2>3, <2>4, <2>5, LoadStore, LoadSend, LoadHeader, LoadFirst, LoadCount, LoadNext,
       LoadCopy, LoadEnd DEF Boot
<1>4. CASE DevicePeriod \/ ProgramPolls \/ ProgramSends \/ ProgramTransfers \/ ProgramAborts
  <2>1. ~Booting /\ UNCHANGED <<pc, ram>>
    BY <1>4 DEF DevicePeriod, ProgramPolls, ProgramSends, ProgramTransfers, ProgramAborts, cpu, Programming,
       Booting
  <2> QED
    BY <1>1, <2>1, LoadElsewhere DEF LoadInv, Booting
<1>5. CASE Warmboot \/ ReportError
  <2>1. ~Booting /\ UNCHANGED <<pc, ram>>
    BY <1>5, StagePlaces DEF Warmboot, ReportError, At, cpu
  <2> QED
    BY <1>1, <2>1, LoadElsewhere DEF LoadInv, Booting
<1>6. CASE UNCHANGED vars
  BY <1>6, ZenonT(30) DEF vars, spi, cpu, flash, LoadInv, BufferShape, Booting, FlashSends, Stage, AtRest,
     Choosing, Commanding, Heading, Counting, Waiting, Copying, Empty, Sending, Reading, Holds, Copied, Done, Sent, CommandIn, AllComes,
     Chosen, Hidden, Busy, Ending, Ended, NoneSeen, EndTold, EndSeen, StartSeen, AllOrAborted, config, async,
     sequencer, synchronizers, ReadCommand
<1> QED
  BY <1>2, <1>3, <1>4, <1>5, <1>6, OnlyController DEF Next

\* What is in the memory when the boot loader jumps into it is the image that was
\* chosen, whole and in its place, however the clocks of console and transfer
\* come to lie (LoadsImage; ipl0.s:147-228).
THEOREM BootsWhatWasChosen == SafeSpec => []LoadsImage
<1>1. LoadInv => LoadsImage
  <2> SUFFICES ASSUME LoadInv PROVE LoadsImage
    OBVIOUS
  <2>1. CASE ram = << >> /\ pc # "jump"
    BY <2>1 DEF LoadsImage
  <2>2. ASSUME NEW n, Copied(n)
        PROVE  \A k \in DOMAIN ram : ram[k] = ImageByte(bx, HeaderSize + k - 1)
    BY <2>2 DEF Copied, Chosen
  <2>3. CASE Waiting
    <3>1. pc = "jump" => Len(ram) = Sectors * BufSize
      BY <2>3, DoneCounts DEF Waiting, Copied
    <3> QED
      BY <2>2, <2>3, <3>1 DEF Waiting, LoadsImage
  <2>4. CASE Copying
    BY <2>2, <2>4 DEF Copying, LoadsImage
  <2> QED
    BY <2>1, <2>3, <2>4, StagePlaces DEF LoadInv, Stage, Choosing, Commanding, Heading, Counting, Empty
<1> QED
  BY <1>1, ControllerInit, ControllerStep, LoadInit, LoadStep, PTL DEF SafeSpec


-----------------------------------------------------------------------------
(* The history.                                                            *)

GameByte == {"AA", "55", "A0", "20", "30", "90", "other"}

Last(q) == q[Len(q)]
BeforeLast(q) == q[Len(q) - 1]
Shift(q, b) == IF Len(q) < 3 THEN Append(q, b) ELSE Append(Tail(q), b)

LEMMA UpToThree ==
  ASSUME NEW n \in Nat, n <= 3
  PROVE  n = 0 \/ n = 1 \/ n = 2 \/ n = 3
  OBVIOUS

\* Sequences of at most three elements, spelt out.
LEMMA ShortSequences ==
  ASSUME NEW S, NEW q \in Seq(S)
  PROVE  /\ Len(q) = 0 => q = << >>
         /\ Len(q) = 1 => q = <<q[1]>> /\ q[1] \in S
         /\ Len(q) = 2 => q = <<q[1], q[2]>> /\ q[1] \in S /\ q[2] \in S
         /\ Len(q) = 3 => q = <<q[1], q[2], q[3]>> /\ q[1] \in S /\ q[2] \in S /\ q[3] \in S
  OBVIOUS

LEMMA AppendNone ==
  ASSUME NEW S, NEW b \in S
  PROVE  Append(<< >>, b) = <<b>>
<1> DEFINE r == Append(<< >>, b)
<1>1. Len(r) = 1 /\ r \in Seq(S) /\ r[1] = b
  OBVIOUS
<1> HIDE DEF r
<1>2. r = <<b>>
  BY <1>1, ShortSequences
<1>3. QED
  BY <1>2 DEF r

LEMMA AppendOne ==
  ASSUME NEW S, NEW x \in S, NEW b \in S
  PROVE  Append(<<x>>, b) = <<x, b>>
<1> DEFINE r == Append(<<x>>, b)
<1>1. Len(r) = 2 /\ r \in Seq(S) /\ r[1] = x /\ r[2] = b
  OBVIOUS
<1> HIDE DEF r
<1>2. r = <<x, b>>
  BY <1>1, ShortSequences
<1>3. QED
  BY <1>2 DEF r

LEMMA AppendTwo ==
  ASSUME NEW S, NEW x \in S, NEW y \in S, NEW b \in S
  PROVE  Append(<<x, y>>, b) = <<x, y, b>>
<1> DEFINE r == Append(<<x, y>>, b)
<1>1. Len(r) = 3 /\ r \in Seq(S) /\ r[1] = x /\ r[2] = y /\ r[3] = b
  OBVIOUS
<1> HIDE DEF r
<1>2. r = <<x, y, b>>
  BY <1>1, ShortSequences
<1>3. QED
  BY <1>2 DEF r

LEMMA OneLong ==
  ASSUME NEW S, NEW x \in S
  PROVE  <<x>> \in Seq(S) /\ Len(<<x>>) = 1 /\ Last(<<x>>) = x
  BY DEF Last

LEMMA TwoLong ==
  ASSUME NEW S, NEW x \in S, NEW y \in S
  PROVE  <<x, y>> \in Seq(S) /\ Len(<<x, y>>) = 2 /\ Last(<<x, y>>) = y /\ BeforeLast(<<x, y>>) = x
  BY DEF Last, BeforeLast

LEMMA ThreeLong ==
  ASSUME NEW S, NEW x \in S, NEW y \in S, NEW z \in S
  PROVE  /\ <<x, y, z>> \in Seq(S) /\ Len(<<x, y, z>>) = 3
         /\ Last(<<x, y, z>>) = z /\ BeforeLast(<<x, y, z>>) = y /\ Tail(<<x, y, z>>) = <<y, z>>
  BY DEF Last, BeforeLast

\* The byte comes last; of at most three bytes the last two stay.
LEMMA ShiftKeeps ==
  ASSUME NEW S, NEW b \in S, NEW q \in Seq(S), Len(q) <= 3
  PROVE  /\ Shift(q, b) \in Seq(S)
         /\ Len(Shift(q, b)) <= 3 /\ Len(Shift(q, b)) >= 1 /\ Last(Shift(q, b)) = b
         /\ Len(q) >= 1 => Len(Shift(q, b)) >= 2 /\ BeforeLast(Shift(q, b)) = Last(q)
         /\ Len(q) >= 2 => Shift(q, b) = <<BeforeLast(q), Last(q), b>>
<1>1. CASE Len(q) = 0
  <2>1. q = << >>
    BY <1>1, ShortSequences
  <2>2. Shift(q, b) = <<b>>
    BY <1>1, <2>1, AppendNone DEF Shift
  <2>3. QED
    BY <1>1, <2>2, OneLong
<1>2. CASE Len(q) = 1
  <2>1. PICK x \in S : q = <<x>>
    BY <1>2, ShortSequences
  <2>2. Shift(q, b) = <<x, b>>
    BY <1>2, <2>1, AppendOne DEF Shift
  <2>3. Last(q) = x
    BY <2>1, OneLong
  <2>4. /\ Shift(q, b) \in Seq(S) /\ Len(Shift(q, b)) = 2
        /\ Last(Shift(q, b)) = b /\ BeforeLast(Shift(q, b)) = x
    BY <2>2, TwoLong, Zenon
  <2>5. QED
    BY <1>2, <2>3, <2>4
<1>3. CASE Len(q) = 2
  <2>1. PICK x \in S, y \in S : q = <<x, y>>
    BY <1>3, ShortSequences
  <2>2. Shift(q, b) = <<x, y, b>>
    BY <1>3, <2>1, AppendTwo DEF Shift
  <2>3. Last(q) = y /\ BeforeLast(q) = x
    BY <2>1, TwoLong, Zenon
  <2>4. /\ Shift(q, b) \in Seq(S) /\ Len(Shift(q, b)) = 3
        /\ Last(Shift(q, b)) = b /\ BeforeLast(Shift(q, b)) = y
    <3>1. <<x, y, b>> \in Seq(S) /\ Len(<<x, y, b>>) = 3
      OBVIOUS
    <3>2. Last(<<x, y, b>>) = b /\ BeforeLast(<<x, y, b>>) = y
      BY <3>1 DEF Last, BeforeLast
    <3>3. QED
      BY <3>2, <2>2, <3>1, Zenon
  <2>5. QED
    BY <1>3, <2>2, <2>3, <2>4
<1>4. CASE Len(q) = 3
  <2>1. PICK w \in S, x \in S, y \in S : q = <<w, x, y>>
    BY <1>4, ShortSequences
  <2>2. Tail(q) = <<x, y>> /\ Last(q) = y /\ BeforeLast(q) = x
    <3>1. /\ Last(<<w, x, y>>) = y /\ BeforeLast(<<w, x, y>>) = x
          /\ Tail(<<w, x, y>>) = <<x, y>>
      BY ThreeLong
    <3>2. QED
      BY <2>1, <3>1, Zenon
  <2>3. Append(Tail(q), b) = <<x, y, b>>
    BY <2>2, AppendTwo
  <2>4. Shift(q, b) = <<x, y, b>>
    BY <1>4, <2>3 DEF Shift
  <2>5. /\ Shift(q, b) \in Seq(S) /\ Len(Shift(q, b)) = 3
        /\ Last(Shift(q, b)) = b /\ BeforeLast(Shift(q, b)) = y
    <3>1. <<x, y, b>> \in Seq(S) /\ Len(<<x, y, b>>) = 3
      OBVIOUS
    <3>2. Last(<<x, y, b>>) = b /\ BeforeLast(<<x, y, b>>) = y
      BY <3>1 DEF Last, BeforeLast
    <3>3. QED
      BY <3>2, <2>4, <3>1, Zenon
  <2>6. QED
    BY <1>4, <2>2, <2>4, <2>5
<1>5. Len(q) \in Nat
  BY LenProperties
<1>6. Len(q) = 0 \/ Len(q) = 1 \/ Len(q) = 2 \/ Len(q) = 3
  BY <1>5, UpToThree, Zenon
<1>7. QED
  BY <1>1, <1>2, <1>3, <1>4, <1>6

-----------------------------------------------------------------------------
(* The emulation's state and the bytes that led to it.                     *)

Follows ==
  /\ flash_emu_state = "Wait55" => Len(bytes) >= 1 /\ Last(bytes) = "AA"
  /\ flash_emu_state = "Cmd" => Len(bytes) >= 2 /\ BeforeLast(bytes) = "AA" /\ Last(bytes) = "55"
  /\ flash_emu_state = "SingleWrite" => bytes = <<"AA", "55", "A0">>
  /\ flash_emu_state \in {"FastMode", "FastModeWrite"} => fast
  /\ flash_emu_state = "FastModeWrite" => Len(bytes) >= 1 /\ Last(bytes) = "A0"

InFlashTest == {"flash test", "test failed"}

\* In a game the state follows from the bytes since the emulation was switched
\* on between two commands.  Before the game it is on only in the test.
FlashInv ==
  /\ flash_emu_state \in FlashEmuState
  /\ clean => step \in {"game"} \cup InFlashTest
  /\ step \notin InFlashTest => bytes \in Seq(GameByte) /\ Len(bytes) <= 3
  /\ step = "game" /\ clean /\ reg.enable_flash_emu => Follows

LEMMA FlashStart == SafeInit => FlashInv
  BY DEF SafeInit, CartInit, FlashInv, FlashEmuState, InFlashTest

\* A byte leads the state on as the history.
LEMMA ByteFollows ==
  ASSUME NEW b \in GameByte, bytes \in Seq(GameByte), Len(bytes) <= 3,
         reg.enable_flash_emu, Follows, flash_emu_state \in FlashEmuState,
         Remember(b), flash_emu_state' = FlashEmuNext(b)
  PROVE  Follows'
<1>1. bytes' = Shift(bytes, b) /\ fast' = (fast \/ bytes' = <<"AA", "55", "20">>)
  BY DEF Remember, Shift
<1>2. /\ Len(bytes') >= 1 /\ Last(bytes') = b
      /\ Len(bytes) >= 1 => Len(bytes') >= 2 /\ BeforeLast(bytes') = Last(bytes)
      /\ Len(bytes) >= 2 => bytes' = <<BeforeLast(bytes), Last(bytes), b>>
  BY <1>1, ShiftKeeps
<1> USE DEF FlashEmuNext
<1>3. flash_emu_state' = "Wait55" => b = "AA"
  BY DEF FlashEmuState
<1>4. flash_emu_state' = "Cmd" => flash_emu_state = "Wait55" /\ b = "55"
  BY DEF FlashEmuState
<1>5. flash_emu_state' = "SingleWrite" => flash_emu_state = "Cmd" /\ b = "A0"
  BY DEF FlashEmuState
<1>6. flash_emu_state' = "FastMode" =>
        (flash_emu_state = "Cmd" /\ b = "20") \/ flash_emu_state \in {"FastMode", "FastModeWrite"}
  BY DEF FlashEmuState
<1>7. flash_emu_state' = "FastModeWrite" => flash_emu_state = "FastMode" /\ b = "A0"
  BY DEF FlashEmuState
<1> HIDE DEF FlashEmuNext
<1>8. flash_emu_state' = "Cmd" =>
        Len(bytes') >= 2 /\ BeforeLast(bytes') = "AA" /\ Last(bytes') = "55"
  BY <1>2, <1>4 DEF Follows
<1>9. flash_emu_state = "Cmd" => bytes' = <<"AA", "55", b>>
  BY <1>2 DEF Follows
<1>10. flash_emu_state' \in {"FastMode", "FastModeWrite"} => fast'
  BY <1>1, <1>6, <1>7, <1>9 DEF Follows
<1>11. QED
  BY <1>2, <1>3, <1>5, <1>7, <1>8, <1>9, <1>10 DEF Follows

\* An action that leaves the history, and is neither a game's nor the test's.
LEMMA FlashElsewhere ==
  ASSUME FlashInv, UNCHANGED history, flash_emu_state' \in FlashEmuState,
         step \notin {"game"} \cup InFlashTest
  PROVE  FlashInv'
  BY DEF FlashInv, history, InFlashTest

\* A register written restarts the history or leaves it; a byte goes into it.
LEMMA GameStep == FlashInv /\ Game => FlashInv'
<1> SUFFICES ASSUME FlashInv, Game PROVE FlashInv'
  OBVIOUS
<1>0. step = "game" /\ step' = "game" /\ bytes \in Seq(GameByte) /\ Len(bytes) <= 3
  BY DEF Game, WriteReg, WriteByte, At, FlashInv, InFlashTest
<1>1. CASE WriteReg
  <2>1. flash_emu_state' = flash_emu_state
    BY <1>1 DEF WriteReg
  <2>2. CASE UNCHANGED history /\ reg'.enable_flash_emu = reg.enable_flash_emu
    BY <1>0, <2>1, <2>2 DEF FlashInv, Follows, history, InFlashTest
  <2>3. CASE Forget
    <3>1. bytes' = << >> /\ bytes' \in Seq(GameByte) /\ Len(bytes') = 0
      BY <2>3, EmptySeq DEF Forget
    <3>2. clean' => Follows'
      BY <2>1, <2>3 DEF Forget, Follows
    <3>3. QED
      BY <1>0, <2>1, <3>1, <3>2 DEF FlashInv
  <2>4. QED
    BY <1>1, <2>2, <2>3 DEF WriteReg
<1>2. ASSUME NEW b \in GameByte, WriteByte(b)
      PROVE  FlashInv'
  <2>1. flash_emu_state' = FlashEmuNext(b) /\ reg' = reg /\ Remember(b)
    BY <1>2 DEF WriteByte
  <2>2. flash_emu_state' \in FlashEmuState
    BY <2>1 DEF FlashInv, FlashEmuNext, FlashEmuState
  <2>3. CASE reg.enable_flash_emu
    <3>1. bytes' = Shift(bytes, b) /\ clean' = clean
      BY <2>1, <2>3 DEF Remember, Shift
    <3>2. bytes' \in Seq(GameByte) /\ Len(bytes') <= 3
      BY <1>0, <3>1, ShiftKeeps
    <3>3. clean /\ reg'.enable_flash_emu => Follows'
      BY <1>0, <2>1, <2>3, ByteFollows DEF FlashInv
    <3>4. QED
      BY <1>0, <2>2, <3>1, <3>2, <3>3 DEF FlashInv
  <2>4. CASE ~reg.enable_flash_emu
    BY <1>0, <2>1, <2>2, <2>4 DEF FlashInv, Remember, history
  <2>5. QED
    BY <2>3, <2>4
<1>3. QED
  BY <1>1, <1>2 DEF Game, GameByte

\* Who leaves all of it.
LEMMA FlashUnchanged ==
  ASSUME FlashInv, UNCHANGED <<mapper, step, history>>
  PROVE  FlashInv'
  BY DEF FlashInv, Follows, mapper, history, InFlashTest

LEMMA Ipl1Step == FlashInv /\ Ipl1 => FlashInv'
<1> SUFFICES ASSUME FlashInv, Ipl1 PROVE FlashInv'
  OBVIOUS
<1>1. CASE Halt
  BY <1>1, FlashUnchanged DEF Halt, cartVars, ipl1
<1>2. CASE ~Halt
  <2>1. UNCHANGED history /\ step \notin {"game"} \cup InFlashTest
    BY <1>2 DEF Ipl1, BackUp, Warmboot, Restore, Map, CheckContact, Open, ReadPiece, Validate, Run,
       ReportError, At, InFlashTest
  <2>2. flash_emu_state' \in {flash_emu_state, "WaitAA"} \cup FlashEmuState
    BY <1>2 DEF Ipl1, BackUp, Warmboot, Restore, Map, CheckContact, Open, ReadPiece, Validate, Run,
       ReportError, mapper
  <2>3. flash_emu_state' \in FlashEmuState
    BY <2>2 DEF FlashInv, FlashEmuState
  <2>4. QED
    BY <2>1, <2>3, FlashElsewhere
<1>3. QED
  BY <1>1, <1>2

\* The menu, the loader and the recovery program up to its test.
MenuSteps ==
  \/ StartSafe \/ BoardCheck \/ RamSize \/ TestForEver \/ (\E p \in {Factory, Updated} : LaunchRecovery(p))
  \/ ManufacturingTest \/ WritePiece \/ WriteEnds \/ VerifyBank \/ TryBoot
  \/ StartRecovery \/ EarlierTestFails \/ StartTest

LEMMA MenuStep == FlashInv /\ MenuSteps => FlashInv'
<1> SUFFICES ASSUME FlashInv, MenuSteps PROVE FlashInv'
  OBVIOUS
<1>1. CASE StartSafe \/ BoardCheck \/ RamSize \/ TestForEver
  BY <1>1, FlashElsewhere DEF StartSafe, BoardCheck, RamSize, TestForEver, RunMenu, SafeAt, InFlashTest,
     FlashInv, mapper, cartVars, ipl1
<1>2. CASE (\E p \in {Factory, Updated} : LaunchRecovery(p)) \/ ManufacturingTest
  BY <1>2, FlashElsewhere DEF LaunchRecovery, ManufacturingTest, Load, RunMenu, SafeAt, InFlashTest, FlashInv
<1>3. CASE WritePiece \/ WriteEnds \/ VerifyBank \/ TryBoot
  BY <1>3, FlashElsewhere DEF WritePiece, WriteEnds, VerifyBank, TryBoot, Loading, SafeAt, InFlashTest,
     FlashInv
<1>4. CASE StartRecovery \/ EarlierTestFails \/ StartTest
  BY <1>4, FlashElsewhere DEF StartRecovery, EarlierTestFails, StartTest, SafeAt, InFlashTest,
     FlashInv, mapper
<1>5. QED
  BY <1>1, <1>2, <1>3, <1>4 DEF MenuSteps

TestSteps == TestWrite \/ TestEnable \/ TestRead \/ TestExpect \/ TestEnds

LEMMA TestStep == FlashInv /\ TestSteps => FlashInv'
<1> SUFFICES ASSUME FlashInv, TestSteps PROVE FlashInv'
  OBVIOUS
<1>1. flash_emu_state' \in FlashEmuState
  <2>1. CASE TestWrite
    BY <2>1 DEF TestWrite, FlashInv, FlashEmuNext, FlashEmuState
  <2>2. CASE ~TestWrite
    BY <2>2 DEF TestSteps, TestEnable, TestRead, TestExpect, TestEnds, FlashInv, mapper
  <2>3. QED
    BY <2>1, <2>2
<1>2. CASE TestEnds
  <2>1. bytes' = << >> /\ ~clean' /\ step' = "recovery"
    BY <1>2 DEF TestEnds
  <2>2. bytes' \in Seq(GameByte) /\ Len(bytes') <= 3
    BY <2>1, EmptySeq
  <2>3. QED
    BY <1>1, <2>1, <2>2 DEF FlashInv
<1>3. CASE ~TestEnds
  <2>1. step' \in InFlashTest
    BY <1>3 DEF TestSteps, TestWrite, TestEnable, TestRead, TestExpect, NextLine, Testing, SafeAt,
       InFlashTest
  <2>2. QED
    BY <1>1, <2>1 DEF FlashInv, InFlashTest
<1>4. QED
  BY <1>2, <1>3

LEMMA FlashStep == FlashInv /\ [SafeNext]_allVars => FlashInv'
<1> SUFFICES ASSUME FlashInv, [SafeNext]_allVars PROVE FlashInv'
  OBVIOUS
<1>1. CASE Next /\ UNCHANGED <<mapper, ipl1>>
  BY <1>1, FlashUnchanged DEF ipl1
<1>2. CASE Ipl1
  BY <1>2, Ipl1Step
<1>3. CASE Game
  BY <1>3, GameStep
<1>4. CASE MenuSteps
  BY <1>4, MenuStep
<1>5. CASE TestSteps
  BY <1>5, TestStep
<1>6. CASE KeepTesting \/ UNCHANGED allVars
  BY <1>6, FlashUnchanged DEF KeepTesting, allVars, cartVars, ipl1
<1>7. QED
  BY <1>1, <1>2, <1>3, <1>4, <1>5, <1>6 DEF SafeNext, CartNext, SafeSteps, MenuSteps, TestSteps

-----------------------------------------------------------------------------
(* What gets through.                                                      *)

Allowed == bytes = <<"AA", "55", "A0">> \/ (fast /\ bytes # << >> /\ bytes[Len(bytes)] = "A0")

LEMMA OnlyGamesWrite ==
  ASSUME FlashInv, [SafeNext]_allVars, step = "game", step' = "game", psram' # psram
  PROVE  \E b \in GameByte : WriteByte(b)
<1>1. ~Ipl1
  BY DEF Ipl1, BackUp, Warmboot, Restore, Map, CheckContact, Open, ReadPiece, Validate, Run,
     ReportError, Halt, At
<1>2. ~MenuSteps /\ ~KeepTesting
  BY DEF MenuSteps, StartSafe, BoardCheck, RamSize, TestForEver, KeepTesting, RunMenu, LaunchRecovery,
     ManufacturingTest, WritePiece, WriteEnds, VerifyBank, TryBoot, StartRecovery, EarlierTestFails,
     StartTest, SafeAt
<1>3. ~TestSteps
  BY DEF TestSteps, TestWrite, TestEnable, TestRead, TestExpect, TestEnds, Testing, SafeAt
<1>4. ~UNCHANGED ipl1 /\ ~UNCHANGED allVars
  BY DEF ipl1, allVars, cartVars
<1>5. ~WriteReg
  BY DEF WriteReg
<1>6. Game
  BY <1>1, <1>2, <1>3, <1>4 DEF SafeNext, CartNext, SafeSteps, MenuSteps, TestSteps
<1>7. QED
  BY <1>5, <1>6 DEF Game, GameByte

LEMMA FlashGuards ==
  ASSUME FlashInv, [SafeNext]_allVars, step = "game", step' = "game", psram' # psram,
         reg.enable_flash_emu, clean
  PROVE  Allowed
<1>1. PassWrite
  BY OnlyGamesWrite DEF WriteByte
<1>2. flash_emu_state \in {"SingleWrite", "FastModeWrite"} /\ Follows
  BY <1>1 DEF PassWrite, FlashInv
<1>3. CASE flash_emu_state = "SingleWrite"
  BY <1>2, <1>3 DEF Follows, Allowed
<1>4. CASE flash_emu_state = "FastModeWrite"
  <2>1. fast /\ Len(bytes) >= 1 /\ Last(bytes) = "A0"
    BY <1>2, <1>4 DEF Follows
  <2>2. bytes # << >>
    BY <2>1, EmptySeq
  <2>3. QED
    BY <2>1, <2>2 DEF Allowed, Last
<1>5. QED
  BY <1>2, <1>3, <1>4

\* Whatever a game writes to the registers and to the memory, and in whatever
\* order, the PSRAM changes under the flash emulation only by a program command,
\* if the emulation was switched on between two commands
\* (nileswan.sv:582-641).
THEOREM FlashWritesByCommand == SafeSpec => FlashOnlyByCommand
<1>1. FlashInv /\ [SafeNext]_allVars =>
        [step = "game" /\ step' = "game" /\ psram' # psram /\ reg.enable_flash_emu /\ clean =>
           \/ bytes = <<"AA", "55", "A0">>
           \/ fast /\ bytes # << >> /\ bytes[Len(bytes)] = "A0"]_cartVars
  BY FlashGuards DEF Allowed
<1>2. QED
  BY FlashStart, FlashStep, <1>1, PTL DEF SafeSpec, FlashOnlyByCommand

-----------------------------------------------------------------------------
(* The programs that are loaded.                                           *)

Place(b, p) == BankSize * b + p

\* The place that the file's next piece goes to.
Come == Place(bank, offset)

FileHere ==
  \A b \in Reached, p \in 0..BankSize - 1 :
    FileStart <= Place(b, p) /\ Place(b, p) < Come => psram[b][p] = Place(b, p) - FileStart

PiecesLeft == (PSRAM_MAX_BANK + 1 - bank) * 2 - (IF offset >= Half THEN 1 ELSE 0)

\* While the menu is read: what has come is in its place, and the rest is counted.
FileInv ==
  /\ size \in MinSize..MaxSize /\ offset \in 0..BankSize - 1 /\ bank \in 252..PSRAM_MAX_BANK + 1
  /\ bank > PSRAM_MAX_BANK => offset = 0
  /\ FileStart <= Come /\ FileHere
  /\ bank_count \in Nat /\ bank_count + PiecesLeft = bank_count_max

Unlocked == reg.enable_nileswan_ex /\ reg.enable_bandai2003_ex

\* The menu's version of IPL1, step by step.
MenuInv ==
  /\ \A here \in {"warmboot", "restore", "map", "contact", "open", "read", "run"} : At(here) => Unlocked
  /\ At("warmboot") \/ At("restore") => win = "state"
  /\ At("restore") => ~reg.self_flash
  /\ \A here \in {"map", "contact", "open", "read", "run"} : At(here) => ipc = "state"
  /\ \A here \in {"contact", "open", "read", "run"} :
       At(here) => reg.rom0_addr_ext = PSRAM_MAX_BANK /\ reg.rom_linear_addr_ext = PSRAM_MAX_BANK \div 16
                   /\ reg.self_flash
  /\ At("read") \/ At("run") => FileInv
  /\ At("run") => bank > PSRAM_MAX_BANK

\* The banks of the program that the safe version loads, up to one.
Verified(last) ==
  \A b \in psram_max_bank + 1 - wanted.banks..last, p \in 0..BankSize - 1 : psram[b][p] = FlashPlace(b, p)

\* The safe version, and the program it loads.
RecoveryInv ==
  /\ pc = "IPL1_SAFE" => Unlocked
  /\ psram_max_bank \in {127, 255}
  /\ SafeAt("write") \/ SafeAt("verify") \/ SafeAt("run") =>
       /\ wanted \in {Program(p, t) : p \in {Factory, Updated}, t \in BOOLEAN}
       /\ wanted.tests => magic
       /\ bank \in psram_max_bank + 1 - wanted.banks..psram_max_bank + 1
  /\ SafeAt("verify") => Verified(bank - 1)
  /\ SafeAt("run") => /\ Verified(psram_max_bank)
                      /\ reg.rom0_addr_ext = psram_max_bank
                      /\ reg.rom_linear_addr_ext = psram_max_bank \div 16

Versions == {"IPL1", "IPL1_FACTORY", "IPL1_SAFE"}

PsramShape ==
  /\ DOMAIN psram = Reached
  /\ \A b \in Reached : DOMAIN psram[b] = 0..BankSize - 1

\* Until it runs one of the versions of IPL1 is not begun, and the mapper as at
\* power-on.
LoaderInv ==
  /\ reg \in Registers /\ PsramShape
  /\ step = "backup" => reg = PowerOn
  /\ pc \notin Versions => step = "backup"
  /\ MenuInv /\ RecoveryInv

\* Every write of a register leaves a register's value, and the other fields.
Number == 0..1023

LEMMA BankTypes ==
  ASSUME NEW r, NEW old \in Number, NEW b \in Number
  PROVE  Extended(r, old, b) \in Number /\ (r.enable_bandai2003_ex => Extended(r, old, b) = b)
<1>1. 256 * (old \div 256) + (b % 256) \in Number
  BY DEF Number
<1> QED
  BY <1>1 DEF Extended

LEMMA RamBankSets ==
  ASSUME NEW r \in Registers, NEW b \in Number
  PROVE  /\ RamBank(r, b) \in Registers
         /\ RamBank(r, b).enable_nileswan_ex = r.enable_nileswan_ex
         /\ RamBank(r, b).enable_bandai2003_ex = r.enable_bandai2003_ex
         /\ RamBank(r, b).self_flash = r.self_flash
         /\ RamBank(r, b).rom0_addr_ext = r.rom0_addr_ext
         /\ RamBank(r, b).rom_linear_addr_ext = r.rom_linear_addr_ext
         /\ r.enable_bandai2003_ex => RamBank(r, b).ram_addr_ext = b
<1>1. r.ram_addr_ext \in Number
  BY DEF Registers, Number
<1>2. /\ Extended(r, r.ram_addr_ext, b) \in Number
      /\ r.enable_bandai2003_ex => Extended(r, r.ram_addr_ext, b) = b
  BY <1>1, BankTypes
<1> QED
  BY <1>2 DEF RamBank, Registers, Number

LEMMA Rom0BankSets ==
  ASSUME NEW r \in Registers, NEW b \in Number
  PROVE  /\ Rom0Bank(r, b) \in Registers
         /\ Rom0Bank(r, b).enable_nileswan_ex = r.enable_nileswan_ex
         /\ Rom0Bank(r, b).enable_bandai2003_ex = r.enable_bandai2003_ex
         /\ Rom0Bank(r, b).self_flash = r.self_flash
         /\ r.enable_bandai2003_ex => Rom0Bank(r, b).rom0_addr_ext = b
<1>1. r.rom0_addr_ext \in Number
  BY DEF Registers, Number
<1>2. /\ Extended(r, r.rom0_addr_ext, b) \in Number
      /\ r.enable_bandai2003_ex => Extended(r, r.rom0_addr_ext, b) = b
  BY <1>1, BankTypes
<1> QED
  BY <1>2 DEF Rom0Bank, Registers, Number

LEMMA Rom1BankSets ==
  ASSUME NEW r \in Registers, NEW b \in Number
  PROVE  /\ Rom1Bank(r, b) \in Registers
         /\ Rom1Bank(r, b).enable_nileswan_ex = r.enable_nileswan_ex
         /\ Rom1Bank(r, b).enable_bandai2003_ex = r.enable_bandai2003_ex
         /\ Rom1Bank(r, b).self_flash = r.self_flash
         /\ Rom1Bank(r, b).rom0_addr_ext = r.rom0_addr_ext
<1>1. r.rom1_addr_ext \in Number
  BY DEF Registers, Number
<1>2. Extended(r, r.rom1_addr_ext, b) \in Number
  BY <1>1, BankTypes
<1> QED
  BY <1>2 DEF Rom1Bank, Registers, Number

LEMMA LinearBankSets ==
  ASSUME NEW r \in Registers, NEW b \in 0..63
  PROVE  /\ LinearBank(r, b) \in Registers
         /\ LinearBank(r, b).enable_nileswan_ex = r.enable_nileswan_ex
         /\ LinearBank(r, b).enable_bandai2003_ex = r.enable_bandai2003_ex
         /\ LinearBank(r, b).self_flash = r.self_flash
         /\ LinearBank(r, b).rom0_addr_ext = r.rom0_addr_ext
         /\ LinearBank(r, b).rom_linear_addr_ext = b
  BY DEF LinearBank, Registers

\* The bits of the values that are written.
LEMMA BitValues ==
  /\ Bit(0, 0) = FALSE /\ Bit(1, 0) = TRUE
  /\ Bit(Unlock, 2) = TRUE /\ Bit(Unlock, 4) = TRUE
  /\ \A v, n : Bit(v, n) \in BOOLEAN
<1>1. Bit(0, 0) = FALSE
  BY DEF Bit
<1>2. Bit(1, 0) = TRUE
  BY DEF Bit
<1>3. Bit(Unlock, 2) = TRUE
  BY DEF Bit, Unlock
<1>4. Bit(Unlock, 4) = TRUE
  BY DEF Bit, Unlock
<1>5. \A v, n : Bit(v, n) \in BOOLEAN
  BY DEF Bit
<1> QED
  BY <1>1, <1>2, <1>3, <1>4, <1>5

LEMMA FlagWritesKeep ==
  ASSUME NEW r \in Registers, NEW v
  PROVE  /\ PowCnt(r, v) \in Registers
         /\ EmuCnt(r, v) \in Registers
         /\ EmuCnt(r, v).enable_nileswan_ex = r.enable_nileswan_ex
         /\ EmuCnt(r, v).enable_bandai2003_ex = r.enable_bandai2003_ex
         /\ MemoryCtrl(r, v) \in Registers
         /\ MemoryCtrl(r, v).enable_nileswan_ex = r.enable_nileswan_ex
         /\ MemoryCtrl(r, v).enable_bandai2003_ex = r.enable_bandai2003_ex
         /\ MemoryCtrl(r, v).rom0_addr_ext = r.rom0_addr_ext
         /\ MemoryCtrl(r, v).rom_linear_addr_ext = r.rom_linear_addr_ext
         /\ r.enable_bandai2003_ex => MemoryCtrl(r, v).self_flash = Bit(v, 0)
<1>1. Bit(v, 0) \in BOOLEAN /\ Bit(v, 2) \in BOOLEAN /\ Bit(v, 4) \in BOOLEAN /\ Bit(v, 6) \in BOOLEAN
  BY BitValues
<1>2. PowCnt(r, v) \in Registers
  <2>1. [r EXCEPT !.enable_nileswan_ex = Bit(v, 2), !.enable_bandai2003_ex = Bit(v, 4),
                  !.enable_sram = Bit(v, 6)] \in Registers
    <3>1. ASSUME NEW x \in BOOLEAN, NEW y \in BOOLEAN, NEW z \in BOOLEAN
          PROVE  [r EXCEPT !.enable_nileswan_ex = x, !.enable_bandai2003_ex = y, !.enable_sram = z]
                   \in Registers
      <4>1. [r EXCEPT !.enable_nileswan_ex = x] \in Registers
        BY DEF Registers
      <4>2. PICK q \in Registers : q = [r EXCEPT !.enable_nileswan_ex = x]
        BY <4>1
      <4>3. [q EXCEPT !.enable_bandai2003_ex = y] \in Registers
        BY DEF Registers
      <4>4. PICK p \in Registers : p = [q EXCEPT !.enable_bandai2003_ex = y]
        BY <4>3
      <4>5. [p EXCEPT !.enable_sram = z] \in Registers
        BY SMTT(30) DEF Registers
      <4> QED
        BY <4>2, <4>4, <4>5
    <3> QED
      BY <1>1, <3>1
  <2> QED
    BY <2>1 DEF PowCnt
<1>3. /\ EmuCnt(r, v) \in Registers
      /\ EmuCnt(r, v).enable_nileswan_ex = r.enable_nileswan_ex
      /\ EmuCnt(r, v).enable_bandai2003_ex = r.enable_bandai2003_ex
  BY <1>1 DEF EmuCnt, Registers
<1>4. /\ MemoryCtrl(r, v) \in Registers
      /\ MemoryCtrl(r, v).enable_nileswan_ex = r.enable_nileswan_ex
      /\ MemoryCtrl(r, v).enable_bandai2003_ex = r.enable_bandai2003_ex
      /\ MemoryCtrl(r, v).rom0_addr_ext = r.rom0_addr_ext
      /\ MemoryCtrl(r, v).rom_linear_addr_ext = r.rom_linear_addr_ext
  BY <1>1 DEF MemoryCtrl, Registers
<1>5. r.enable_bandai2003_ex => MemoryCtrl(r, v).self_flash = Bit(v, 0)
  BY <1>1 DEF MemoryCtrl, Registers
<1> QED
  BY <1>2, <1>3, <1>4, <1>5

LEMMA UnlockUnlocks ==
  ASSUME NEW r \in Registers
  PROVE  PowCnt(r, Unlock).enable_nileswan_ex /\ PowCnt(r, Unlock).enable_bandai2003_ex
  BY BitValues DEF PowCnt, Registers

LEMMA PowerOnIs ==
  /\ PowerOn \in Registers /\ ~PowerOn.self_flash
  /\ PowerOn.enable_nileswan_ex /\ PowerOn.enable_bandai2003_ex
  BY DEF PowerOn, Registers

\* Numbers of a bank and of the sizes.
LEMMA Sizes ==
  /\ BankSize \in Nat /\ BankSize > 1 /\ Half \in 1..BankSize - 1 /\ 2 * Half = BankSize
  /\ Half % BankSize = Half /\ BankSize % BankSize = 0
  /\ MinSize \in Nat /\ MinSize > 0 /\ MaxSize \in Nat /\ MaxSize <= 4 * BankSize
<1>1. BankSize \in Nat /\ BankSize > 1 /\ BankSize % 2 = 0
  BY CartAssumption
<1>2. Half \in 1..BankSize - 1 /\ 2 * Half = BankSize
  BY <1>1 DEF Half
<1>3. Half % BankSize = Half /\ BankSize % BankSize = 0
  BY <1>1, <1>2
<1> QED
  BY <1>1, <1>2, <1>3, CartAssumption

LEMMA Division ==
  ASSUME NEW n \in Nat, n > 0, NEW m \in Nat
  PROVE  \E q \in Nat, r \in 0..n - 1 : q = m \div n /\ r = m % n /\ m = n * q + r
<1>1. m % n = m - n * (m \div n)
  OBVIOUS
<1>2. m \div n \in Nat /\ m % n \in 0..n - 1
  OBVIOUS
<1>3. PICK q \in Nat, r \in 0..n - 1 : q = m \div n /\ r = m % n
  BY <1>2
<1>4. m = n * q + r
  BY <1>1, <1>3
<1> QED
  BY <1>3, <1>4

\* Places of different banks.
LEMMA PlaceFacts ==
  /\ \A b \in Nat, p \in 0..BankSize : Place(b, p) \in Nat
  /\ \A b \in Nat : Place(b, BankSize) = Place(b + 1, 0)
  /\ \A b \in Nat, c \in Nat, p \in 0..BankSize - 1, q \in 0..BankSize :
       b < c => Place(b, p) < Place(c, q) /\ Place(b, p) < Place(c, 0)
  /\ \A b \in Nat, p \in 0..BankSize, q \in 0..BankSize : Place(b, p) <= Place(b, q) <=> p <= q
<1>1. BankSize \in Nat
  BY Sizes
<1>2. ASSUME NEW n \in Nat, NEW b \in Nat, NEW p \in Nat
      PROVE  n * b + p \in Nat /\ n * b + n = n * (b + 1) + 0
  BY <1>2, SMT
<1>3. ASSUME NEW n \in Nat, NEW b \in Nat, NEW c \in Nat, b < c, NEW p \in Nat, p < n, NEW q \in Nat
      PROVE  n * b + p < n * c + q /\ n * b + p < n * c + 0
  <2>1. PICK d \in Nat : c = b + 1 + d
    BY <1>3
  <2>2. n * c = n * b + n + n * d /\ n * d >= 0 /\ n * b \in Nat /\ n * d \in Nat
    BY <1>3, <2>1
  <2> QED
    BY <1>3, <2>2
<1>4. ASSUME NEW n \in Nat, NEW b \in Nat, NEW p \in Nat, NEW q \in Nat
      PROVE  n * b + p <= n * b + q <=> p <= q
  BY <1>4, SMT
<1>5. \A b \in Nat, p \in 0..BankSize : Place(b, p) \in Nat
  BY <1>1, <1>2 DEF Place
<1>6. \A b \in Nat : Place(b, BankSize) = Place(b + 1, 0)
  BY <1>1, <1>2 DEF Place
<1>7. \A b \in Nat, c \in Nat, p \in 0..BankSize - 1, q \in 0..BankSize :
        b < c => Place(b, p) < Place(c, q) /\ Place(b, p) < Place(c, 0)
  BY <1>1, <1>3 DEF Place
<1>8. \A b \in Nat, p \in 0..BankSize, q \in 0..BankSize : Place(b, p) <= Place(b, q) <=> p <= q
  BY <1>1, <1>4 DEF Place
<1> QED
  BY <1>5, <1>6, <1>7, <1>8

\* The RAM area, with a bank of the PSRAM's last ones in it.
LEMMA RamArea ==
  ASSUME reg' \in Registers, reg'.ram_addr_ext \in 0..255, reg'.self_flash
  PROVE  Device(RAM)' = "psram" /\ RomBank(RAM)' = reg'.ram_addr_ext
<1>1. PICK n \in 0..255 : n = reg'.ram_addr_ext
  OBVIOUS
<1>2. n % 512 = n /\ n \notin {511, 500} /\ n # 510 /\ n < 256
  BY <1>1
<1>3. RomBank(RAM)' = n
  BY <1>1, <1>2 DEF RomBank, RAM, ROM0, ROM1
<1>4. InRom(RAM)'
  BY DEF InRom
<1> QED
  BY <1>1, <1>2, <1>3, <1>4 DEF Device

LEMMA RomAreas ==
  ASSUME NEW last \in {127, 255}, reg.rom0_addr_ext = last, reg.rom_linear_addr_ext = last \div 16
  PROVE  \A area \in {ROM0, 15} : Device(area) = "psram" /\ RomBank(area) = last
<1>1. last % 512 = last /\ last \notin {511, 500} /\ last # 510 /\ last < 256
      /\ 16 * (last \div 16) + 15 = last
  OBVIOUS
<1>2. ASSUME NEW area \in {ROM0, 15} PROVE RomBank(area) = last
  BY <1>1, <1>2 DEF RomBank, RAM, ROM0, ROM1
<1>3. ASSUME NEW area \in {ROM0, 15} PROVE InRom(area)
  BY DEF InRom, RAM, ROM0
<1> QED
  BY <1>1, <1>2, <1>3 DEF Device

LEMMA LastBanks ==
  /\ \A b \in 252..255 : b \in Reached
  /\ \A b \in Reached : b \in Nat /\ b <= 255
  BY DEF Reached, PSRAM_MAX_BANK

LEMMA LoaderInit == SafeInit => LoaderInv
<1> SUFFICES ASSUME SafeInit PROVE LoaderInv
  OBVIOUS
<1>1. reg = PowerOn /\ step = "backup" /\ pc = "command" /\ psram = OldPsram /\ psram_max_bank = 255
  BY DEF SafeInit, CartInit, Ipl0Init
<1>2. PsramShape
  BY <1>1 DEF PsramShape, OldPsram
<1>3. MenuInv /\ RecoveryInv
  BY <1>1 DEF MenuInv, RecoveryInv, At, SafeAt
<1> QED
  BY <1>1, <1>2, <1>3, PowerOnIs DEF LoaderInv

-----------------------------------------------------------------------------
(* Each step keeps it.                                                     *)

\* What the boot loader and the controller do ends with one of the versions of
\* IPL1 at its beginning.
LEMMA LoaderWaits ==
  ASSUME LoaderInv, Next, UNCHANGED <<mapper, ipl1, safe>>
  PROVE  LoaderInv'
<1>1. pc' = pc \/ pc \notin Versions
  BY DEF Versions, Next, Boot, FlashPeriod, DevicePeriod, StoreCommand, SendCommand, Spinwait, ReadHeader,
     ReadFirst, ReadCount, ReadNext, CopyByte, LoopEnd, Jump, Goto, ProgramPolls, ProgramSends,
     ProgramTransfers, ProgramAborts, cpu, Programming, Booting
<1>2. UNCHANGED <<reg, step, psram, psram_max_bank, wanted, magic, ipc, win, bank, offset, size, bank_count,
                  bank_count_max>>
  BY DEF mapper, ipl1, safe, load, settings
<1>3. CASE step = "backup"
  <2>1. reg = PowerOn /\ Unlocked'
    BY <1>2, <1>3, PowerOnIs DEF LoaderInv, Unlocked
  <2>2. \A here : here # "backup" => ~At(here)' /\ ~SafeAt(here)'
    BY <1>2, <1>3 DEF At, SafeAt
  <2>3. MenuInv'
    BY <1>3, <2>2 DEF MenuInv
  <2>4. RecoveryInv'
    BY <1>2, <2>1, <2>2 DEF RecoveryInv, LoaderInv
  <2> QED
    BY <1>2, <1>3, <2>1, <2>3, <2>4 DEF LoaderInv, PsramShape
<1>4. CASE step # "backup"
  <2>1. pc' = pc
    BY <1>1, <1>4 DEF LoaderInv
  <2> QED
    BY <1>2, <2>1 DEF LoaderInv, MenuInv, RecoveryInv, Unlocked, At, SafeAt, FileInv, FileHere, FileStart,
       Come, Place, PiecesLeft, Verified, FlashPlace, PsramShape
<1> QED
  BY <1>3, <1>4

\* The menu's version: only its own part of the invariant is at stake.
LEMMA MenuOnly ==
  ASSUME LoaderInv, Ipl1 \/ Game, UNCHANGED safe, pc' = pc,
         reg' \in Registers, PsramShape', step' # "backup", MenuInv'
  PROVE  LoaderInv'
<1>1. pc \in {"IPL1", "IPL1_FACTORY"} /\ pc # "IPL1_SAFE"
  BY DEF Ipl1, Game, BackUp, Warmboot, Restore, Map, CheckContact, Open, ReadPiece, Validate, Run, ReportError,
     Halt, WriteReg, WriteByte, At
<1>2. \A here : ~SafeAt(here)'
  BY <1>1 DEF SafeAt
<1>3. RecoveryInv'
  BY <1>1, <1>2 DEF RecoveryInv, LoaderInv, safe, settings
<1> QED
  BY <1>1, <1>3 DEF LoaderInv, Versions

\* Which steps of the menu's version leave which part of it.
LEMMA MenuQuietStep ==
  ASSUME LoaderInv, UNCHANGED safe,
         BackUp \/ Warmboot \/ Restore \/ CheckContact \/ Run \/ ReportError \/ Halt \/ Game
  PROVE  LoaderInv'
<1>1. reg \in Registers /\ PsramShape /\ (step = "backup" => reg = PowerOn) /\ MenuInv
  BY DEF LoaderInv
<1>2. CASE BackUp
  <2>1. reg = PowerOn /\ reg' = RamBank(reg, 14) /\ 14 \in Number
    BY <1>1, <1>2 DEF BackUp, At, Number
  <2>2. reg' \in Registers /\ Unlocked' /\ ~reg'.self_flash
    BY <1>1, <2>1, RamBankSets, PowerOnIs DEF Unlocked
  <2>3. MenuInv'
    BY <1>2, <2>2 DEF BackUp, MenuInv, At
  <2> QED
    BY <1>1, <1>2, <2>2, <2>3, MenuOnly DEF BackUp, Ipl1, PsramShape, vars, cpu
<1>3. CASE Warmboot
  <2>1. reg' = PowerOn /\ reg' \in Registers /\ Unlocked' /\ ~reg'.self_flash
    BY <1>3, PowerOnIs DEF Warmboot, Unlocked
  <2>2. MenuInv'
    BY <1>1, <1>3, <2>1 DEF Warmboot, MenuInv, At
  <2> QED
    BY <1>1, <1>3, <2>1, <2>2, MenuOnly DEF Warmboot, Ipl1, PsramShape, cpu
<1>4. CASE Restore
  <2>1. reg' = RamBank(reg, 14) /\ 14 \in Number /\ Unlocked /\ ~reg.self_flash /\ win = "state"
    BY <1>1, <1>4 DEF Restore, At, Number, MenuInv
  <2>2. reg' \in Registers /\ Unlocked' /\ ~reg'.self_flash /\ reg'.ram_addr_ext = 14
    BY <1>1, <2>1, RamBankSets DEF Unlocked
  <2>3. Device(RAM)' = "ipcbuf"
    BY <2>2 DEF Device, InRom, RAM
  <2>4. ipc' = "state"
    BY <1>4, <2>1, <2>3 DEF Restore
  <2>5. MenuInv'
    BY <1>4, <2>2, <2>4 DEF Restore, MenuInv, At
  <2> QED
    BY <1>1, <1>4, <2>2, <2>5, MenuOnly DEF Restore, Ipl1, PsramShape, vars, cpu
<1>5. CASE CheckContact
  <2>1. PsramShape'
    BY <1>1, <1>5 DEF CheckContact, CopyToRam, PsramShape
  <2>2. MenuInv'
    BY <1>1, <1>5 DEF CheckContact, MenuInv, At, mapper, Unlocked
  <2> QED
    BY <1>1, <1>5, <2>1, <2>2, MenuOnly DEF CheckContact, Ipl1, vars, cpu, mapper
<1>6. CASE Run
  <2>1. reg' \in Registers
    <3>1. MemoryCtrl(reg, 0) \in Registers /\ 0 \in Number
      BY <1>1, FlagWritesKeep DEF Number
    <3> QED
      BY <1>6, <3>1, RamBankSets DEF Run
  <2>2. PsramShape' /\ MenuInv'
    BY <1>6 DEF Run, PsramShape, OldPsram, MenuInv, At
  <2> QED
    BY <1>6, <2>1, <2>2, MenuOnly DEF Run, Ipl1, vars, cpu
<1>7. CASE ReportError
  <2>1. reg' \in Registers
    BY <1>1, <1>7, FlagWritesKeep DEF ReportError
  <2>2. PsramShape' /\ MenuInv'
    BY <1>1, <1>7 DEF ReportError, PsramShape, MenuInv, At
  <2> QED
    BY <1>7, <2>1, <2>2, MenuOnly DEF ReportError, Ipl1, cpu
<1>8. CASE Halt
  <2>1. MenuInv' /\ PsramShape' /\ reg' \in Registers /\ step' = "halted" /\ pc' = pc
    BY <1>1, <1>8 DEF Halt, cartVars, vars, cpu, mapper, ipl1, MenuInv, At, PsramShape
  <2> QED
    BY <1>8, <2>1, MenuOnly DEF Ipl1
<1>9. CASE Game
  <2>1. /\ reg' = reg \/ (\E v : reg' = PowCnt(reg, v) \/ reg' = EmuCnt(reg, v) \/ reg' = MemoryCtrl(reg, v))
           \/ (\E b \in Number : reg' = RamBank(reg, b))
        /\ step = "game" /\ step' = "game" /\ pc' = pc
    BY <1>9 DEF Game, WriteReg, WriteByte, At, PSRAM_MAX_BANK, vars, cpu, Number
  <2>2. reg' \in Registers
    BY <1>1, <2>1, FlagWritesKeep, RamBankSets
  <2>3. PsramShape'
    BY <1>1, <1>9 DEF Game, WriteReg, WriteByte, PsramShape
  <2>4. MenuInv'
    BY <2>1 DEF MenuInv, At
  <2> QED
    BY <1>9, <2>1, <2>2, <2>3, <2>4, MenuOnly
<1> QED
  BY <1>2, <1>3, <1>4, <1>5, <1>6, <1>7, <1>8, <1>9

\* MemoryCtrl(..., 1) and the banks that IPL1 selects.
LEMMA MapsPsram ==
  ASSUME LoaderInv, UNCHANGED safe, Map
  PROVE  LoaderInv'
<1>1. reg \in Registers /\ Unlocked /\ ipc = "state" /\ PsramShape
  BY DEF LoaderInv, MenuInv, Map, At
<1> DEFINE r0 == Rom0Bank(reg, PSRAM_MAX_BANK)
           r1 == Rom1Bank(r0, PSRAM_MAX_BANK - 12)
           r2 == LinearBank(r1, PSRAM_MAX_BANK \div 16)
           r3 == RamBank(r2, PSRAM_MAX_BANK)
           r4 == MemoryCtrl(r3, 1)
<1>2. /\ PSRAM_MAX_BANK \in Number /\ PSRAM_MAX_BANK - 12 \in Number /\ PSRAM_MAX_BANK \div 16 \in 0..63
  BY DEF PSRAM_MAX_BANK, Number
<1>3. reg' = r4
  BY DEF Map
<1>4. r0 \in Registers /\ r0.enable_nileswan_ex /\ r0.enable_bandai2003_ex
      /\ r0.rom0_addr_ext = PSRAM_MAX_BANK
  BY <1>1, <1>2, Rom0BankSets DEF Unlocked
<1> HIDE DEF r0
<1>5. r1 \in Registers /\ r1.enable_nileswan_ex /\ r1.enable_bandai2003_ex
      /\ r1.rom0_addr_ext = PSRAM_MAX_BANK
  BY <1>2, <1>4, Rom1BankSets
<1> HIDE DEF r1
<1>6. r2 \in Registers /\ r2.enable_nileswan_ex /\ r2.enable_bandai2003_ex
      /\ r2.rom0_addr_ext = PSRAM_MAX_BANK /\ r2.rom_linear_addr_ext = PSRAM_MAX_BANK \div 16
  BY <1>2, <1>5, LinearBankSets
<1> HIDE DEF r2
<1>7. r3 \in Registers /\ r3.enable_nileswan_ex /\ r3.enable_bandai2003_ex
      /\ r3.rom0_addr_ext = PSRAM_MAX_BANK /\ r3.rom_linear_addr_ext = PSRAM_MAX_BANK \div 16
  BY <1>2, <1>6, RamBankSets
<1> HIDE DEF r3
<1>8. /\ reg' \in Registers /\ Unlocked' /\ reg'.self_flash
      /\ reg'.rom0_addr_ext = PSRAM_MAX_BANK /\ reg'.rom_linear_addr_ext = PSRAM_MAX_BANK \div 16
  BY <1>3, <1>7, FlagWritesKeep, BitValues, ZenonT(30) DEF Unlocked
<1>9. MenuInv'
  BY <1>1, <1>8 DEF Map, MenuInv, At
<1> QED
  BY <1>1, <1>8, <1>9, MenuOnly DEF Map, Ipl1, PsramShape, vars, cpu

\* The file begins where its length says.
LEMMA Opens ==
  ASSUME LoaderInv, UNCHANGED safe, Open
  PROVE  LoaderInv'
<1>1. /\ At("open") /\ reg' = reg /\ ipc' = ipc /\ psram' = psram /\ pc' = pc
      /\ step' \in {"read", "error"}
      /\ Unlocked' /\ ipc' = "state" /\ reg'.rom0_addr_ext = PSRAM_MAX_BANK
      /\ reg'.rom_linear_addr_ext = PSRAM_MAX_BANK \div 16 /\ reg'.self_flash
  BY DEF LoaderInv, MenuInv, Open, At, mapper, Unlocked, vars, cpu
<1>2. ASSUME step' = "read" PROVE FileInv'
  <2>1. PICK s \in MinSize..MaxSize :
          /\ size' = s
          /\ offset' = (BankSize - 1) - ((s - 1) % BankSize)
          /\ bank' = PSRAM_MAX_BANK - ((s - 1) \div BankSize)
          /\ bank_count' = 0
          /\ bank_count_max' = (PSRAM_MAX_BANK + 1 - bank') * 2 - (IF offset' >= Half THEN 1 ELSE 0)
    BY <1>2 DEF Open
  <2>2. PICK q \in 0..3, r \in 0..BankSize - 1 :
          q = (s - 1) \div BankSize /\ r = (s - 1) % BankSize /\ s - 1 = BankSize * q + r
    <3>1. s - 1 \in Nat /\ s - 1 < 4 * BankSize
      BY Sizes
    <3>2. PICK q \in Nat, r \in 0..BankSize - 1 :
            q = (s - 1) \div BankSize /\ r = (s - 1) % BankSize /\ s - 1 = BankSize * q + r
      BY <3>1, Sizes, Division
    <3>3. q < 4
      <4>1. q >= 4 => BankSize * q >= BankSize * 4
        BY <3>2, Sizes
      <4> QED
        BY <3>1, <3>2, <4>1, Sizes
    <3> QED
      BY <3>2, <3>3
  <2>3. offset' = BankSize - 1 - r /\ bank' = 255 - q
    BY <2>1, <2>2 DEF PSRAM_MAX_BANK
  <2>4. offset' \in 0..BankSize - 1 /\ bank' \in 252..PSRAM_MAX_BANK + 1 /\ ~(bank' > PSRAM_MAX_BANK)
    BY <2>2, <2>3, Sizes DEF PSRAM_MAX_BANK
  <2>5. Come' = FileStart'
    <3>1. Come' = BankSize * (255 - q) + (BankSize - 1 - r)
      BY <2>3 DEF Come, Place
    <3>2. FileStart' = BankSize * 256 - s
      BY <2>1 DEF FileStart, PSRAM_MAX_BANK
    <3>3. BankSize * (255 - q) = BankSize * 255 - BankSize * q
      BY <2>2, Sizes
    <3> QED
      BY <2>2, <3>1, <3>2, <3>3, Sizes
  <2>6. Come' \in Nat
    <3>1. bank' \in Nat /\ offset' \in 0..BankSize
      BY <2>4, Sizes DEF PSRAM_MAX_BANK
    <3> QED
      BY <3>1, PlaceFacts DEF Come, Place
  <2>7. FileHere'
    <3> SUFFICES ASSUME NEW b \in Reached, NEW p \in 0..BankSize - 1,
                        FileStart' <= Place(b, p), Place(b, p) < Come'
                 PROVE  FALSE
      BY DEF FileHere, Place
    <3>1. Place(b, p) \in Nat
      BY PlaceFacts, LastBanks, Sizes, SMTT(30)
    <3> QED
      BY <2>5, <2>6, <3>1
  <2>8. PiecesLeft' = bank_count_max' /\ bank_count' \in Nat /\ bank_count' + PiecesLeft' = bank_count_max'
    BY <2>1, <2>4 DEF PiecesLeft, PSRAM_MAX_BANK
  <2> QED
    BY <2>1, <2>4, <2>5, <2>6, <2>7, <2>8 DEF FileInv
<1>3. MenuInv'
  BY <1>1, <1>2 DEF MenuInv, At
<1>4. PsramShape' /\ reg' \in Registers
  BY <1>1 DEF LoaderInv, PsramShape
<1> QED
  BY <1>1, <1>3, <1>4, MenuOnly DEF Ipl1

\* A piece of a bank that is mapped into the RAM area.
LEMMA CopyIs ==
  ASSUME PsramShape, Device(RAM)' = "psram", NEW n \in Reached, RomBank(RAM)' = n,
         NEW piece, CopyToRam(piece)
  PROVE  /\ PsramShape'
         /\ \A b \in Reached : b # n => psram'[b] = psram[b]
         /\ \A p \in 0..BankSize - 1 :
              psram'[n][p] = IF p \in DOMAIN piece THEN piece[p] ELSE psram[n][p]
  BY DEF CopyToRam, PsramShape

\* A piece is read, to the middle of a bank or to its end.
LEMMA ReadsPiece ==
  ASSUME LoaderInv, UNCHANGED safe, ReadPiece
  PROVE  LoaderInv'
<1>1. /\ At("read") /\ pc' = pc /\ bank <= PSRAM_MAX_BANK /\ reg' = RamBank(reg, bank)
      /\ ipc' = ipc /\ bank_count' = bank_count + 1 /\ size' = size /\ bank_count_max' = bank_count_max
      /\ step' \in {"read", "error"}
  BY DEF ReadPiece, At, vars, cpu
<1>2. /\ reg \in Registers /\ PsramShape /\ Unlocked /\ ipc = "state" /\ FileInv
      /\ reg.rom0_addr_ext = PSRAM_MAX_BANK /\ reg.rom_linear_addr_ext = PSRAM_MAX_BANK \div 16
      /\ reg.self_flash
  BY <1>1 DEF LoaderInv, MenuInv
<1>3. /\ bank \in 252..255 /\ bank \in Number /\ bank \in Reached /\ bank \in Nat
      /\ offset \in 0..BankSize - 1 /\ offset \in 0..BankSize /\ FileStart <= Come
  BY <1>1, <1>2, LastBanks, Sizes DEF FileInv, PSRAM_MAX_BANK, Number
<1>4. /\ reg' \in Registers /\ Unlocked' /\ reg'.ram_addr_ext = bank /\ reg'.self_flash
      /\ reg'.rom0_addr_ext = PSRAM_MAX_BANK /\ reg'.rom_linear_addr_ext = PSRAM_MAX_BANK \div 16
  BY <1>1, <1>2, <1>3, RamBankSets DEF Unlocked
<1>5. Device(RAM)' = "psram" /\ RomBank(RAM)' = bank
  <2>1. reg'.ram_addr_ext \in 0..255
    BY <1>3, <1>4
  <2> QED
    BY <1>4, <2>1, RamArea
<1> DEFINE end == IF offset < Half THEN Half ELSE BankSize
<1>6. end \in 0..BankSize /\ offset < end
  BY <1>3, Sizes
<1>7. ASSUME step' = "read"
      PROVE  PsramShape' /\ FileInv'
  <2>1. /\ CopyToRam([p \in offset..end - 1 |-> FileAt(p)])
        /\ offset' = end % BankSize
        /\ bank' = (IF end = BankSize THEN bank + 1 ELSE bank)
    BY <1>7 DEF ReadPiece, At
  <2>3. /\ PsramShape'
        /\ \A b \in Reached : b # bank => psram'[b] = psram[b]
        /\ \A p \in 0..BankSize - 1 :
             psram'[bank][p] = IF p \in offset..end - 1 THEN FileAt(p) ELSE psram[bank][p]
    <3>1. PICK piece : piece = [p \in offset..end - 1 |-> FileAt(p)]
      OBVIOUS
    <3>2. CopyToRam(piece) /\ DOMAIN piece = offset..end - 1
          /\ \A p \in offset..end - 1 : piece[p] = FileAt(p)
      BY <2>1, <3>1
    <3> HIDE DEF end
    <3>3. /\ PsramShape'
          /\ \A b \in Reached : b # bank => psram'[b] = psram[b]
          /\ \A p \in 0..BankSize - 1 :
               psram'[bank][p] = IF p \in DOMAIN piece THEN piece[p] ELSE psram[bank][p]
      BY <1>2, <1>3, <1>5, <3>2, CopyIs
    <3> QED
      BY <3>2, <3>3
  <2>4. \/ offset < Half /\ end = Half /\ offset' = Half /\ bank' = bank
        \/ offset >= Half /\ end = BankSize /\ offset' = 0 /\ bank' = bank + 1
    BY <1>3, <2>1, Sizes
  <2> HIDE DEF end
  <2>5. Come' = Place(bank, end)
    <3>1. Place(bank, BankSize) = Place(bank + 1, 0)
      BY <1>3, PlaceFacts
    <3> QED
      BY <2>4, <3>1 DEF Come, Place
  <2>6. FileStart' = FileStart
    BY <1>1 DEF FileStart
  <2>7. FileHere'
    <3> SUFFICES ASSUME NEW b \in Reached, NEW p \in 0..BankSize - 1,
                        FileStart <= Place(b, p), Place(b, p) < Place(bank, end)
                 PROVE  psram'[b][p] = Place(b, p) - FileStart
      BY <2>5, <2>6 DEF FileHere, Place
    <3>1. b \in Nat /\ p \in 0..BankSize
      BY LastBanks, Sizes
    <3>2. CASE b = bank
      <4>1. p < end
        BY <1>3, <1>6, <3>1, <3>2, PlaceFacts
      <4>2. CASE p >= offset
        <5>1. p \in offset..end - 1
          BY <1>3, <1>6, <4>1, <4>2
        <5>2. psram'[bank][p] = FileAt(p)
          BY <2>3, <5>1
        <5>3. FileAt(p) = Place(bank, p) - FileStart
          <6>1. BankSize * bank + p = Place(bank, p) /\ BankSize * bank \in Nat
            BY <1>3, Sizes DEF Place
          <6>2. FileStart \in Int
            BY <1>2, Sizes DEF FileInv, FileStart, PSRAM_MAX_BANK
          <6>3. FileAt(p) = BankSize * bank + p - FileStart
            BY DEF FileAt
          <6> QED
            BY <6>1, <6>2, <6>3
        <5> QED
          BY <3>2, <5>2, <5>3
      <4>3. CASE p < offset
        <5>1. Place(b, p) < Come
          <6>1. ~(Place(b, offset) <= Place(b, p))
            BY <1>3, <3>1, <4>3, PlaceFacts
          <6>2. Place(b, offset) \in Nat /\ Place(b, p) \in Nat
            BY <1>3, <3>1, PlaceFacts
          <6> QED
            BY <3>2, <6>1, <6>2 DEF Come
        <5>2. psram[b][p] = Place(b, p) - FileStart
          BY <1>2, <5>1 DEF FileInv, FileHere
        <5>3. psram'[b][p] = psram[b][p]
          <6>1. p \notin offset..end - 1
            BY <1>3, <1>6, <4>3
          <6> QED
            BY <2>3, <3>2, <6>1
        <5> QED
          BY <5>2, <5>3
      <4> QED
        BY <1>3, <4>2, <4>3
    <3>3. CASE b < bank
      <4>1. Place(b, p) < Come
        BY <1>3, <3>1, <3>3, PlaceFacts DEF Come
      <4> QED
        BY <1>2, <2>3, <3>3, <4>1 DEF FileInv, FileHere
    <3>4. CASE b > bank
      <4>1. Place(bank, end) <= Place(bank, BankSize) /\ Place(bank, BankSize) = Place(bank + 1, 0)
        BY <1>3, <1>6, Sizes, PlaceFacts
      <4>2. Place(bank + 1, 0) <= Place(b, p)
        <5>1. CASE b = bank + 1
          BY <3>1, <5>1, Sizes, PlaceFacts
        <5>2. CASE b > bank + 1
          <6>1. Place(bank + 1, 0) < Place(b, p)
            BY <1>3, <3>1, <5>2, Sizes, PlaceFacts
          <6>2. Place(bank + 1, 0) \in Nat /\ Place(b, p) \in Nat
            BY <1>3, <3>1, Sizes, PlaceFacts
          <6> QED
            BY <6>1, <6>2
        <5> QED
          BY <1>3, <3>1, <3>4, <5>1, <5>2
      <4>3. Place(bank, end) \in Nat /\ Place(bank + 1, 0) \in Nat /\ Place(b, p) \in Nat
        BY <1>3, <1>6, <3>1, Sizes, PlaceFacts
      <4> QED
        BY <4>1, <4>2, <4>3
    <3> QED
      BY <1>3, <3>1, <3>2, <3>3, <3>4
  <2>8. /\ size' \in MinSize..MaxSize /\ offset' \in 0..BankSize - 1 /\ bank' \in 252..PSRAM_MAX_BANK + 1
        /\ bank' > PSRAM_MAX_BANK => offset' = 0
    BY <1>1, <1>2, <1>3, <2>4, Sizes DEF FileInv, PSRAM_MAX_BANK
  <2>9. FileStart' <= Come'
    <3>1. Place(bank, offset) <= Place(bank, end)
      BY <1>3, <1>6, PlaceFacts
    <3>2. Place(bank, offset) \in Nat /\ Place(bank, end) \in Nat
      BY <1>3, <1>6, PlaceFacts
    <3>3. FileStart \in Int
      BY <1>2, Sizes DEF FileInv, FileStart, PSRAM_MAX_BANK
    <3> QED
      BY <1>3, <2>5, <2>6, <3>1, <3>2, <3>3 DEF Come
  <2>10. bank_count' \in Nat /\ bank_count' + PiecesLeft' = bank_count_max'
    <3>1. PiecesLeft' = PiecesLeft - 1 /\ PiecesLeft \in Int
      BY <1>3, <2>4, Sizes DEF PiecesLeft, PSRAM_MAX_BANK
    <3> QED
      BY <1>1, <1>2, <3>1 DEF FileInv
  <2> QED
    BY <2>3, <2>7, <2>8, <2>9, <2>10 DEF FileInv
<1>8. PsramShape'
  BY <1>1, <1>2, <1>7 DEF ReadPiece, At, PsramShape
<1>9. MenuInv'
  BY <1>1, <1>2, <1>4, <1>7 DEF MenuInv, At
<1> QED
  BY <1>1, <1>4, <1>8, <1>9, MenuOnly DEF Ipl1

\* The header is looked at, and the menu begun or not.
LEMMA Validates ==
  ASSUME LoaderInv, UNCHANGED safe, Validate
  PROVE  LoaderInv'
<1>1. /\ At("read") /\ bank > PSRAM_MAX_BANK /\ step' \in {"error", "run"} /\ pc' = pc
      /\ UNCHANGED <<reg, ipc, psram, size, offset, bank, bank_count, bank_count_max>>
  BY DEF Validate, vars, cpu, mapper, load
<1>2. FileInv /\ Unlocked /\ ipc = "state" /\ reg.self_flash
      /\ reg.rom0_addr_ext = PSRAM_MAX_BANK /\ reg.rom_linear_addr_ext = PSRAM_MAX_BANK \div 16
  BY <1>1 DEF LoaderInv, MenuInv
<1>3. FileInv' /\ Unlocked'
  BY <1>1, <1>2 DEF FileInv, Unlocked, FileHere, FileStart, Come, Place, PiecesLeft
<1>4. MenuInv'
  BY <1>1, <1>2, <1>3 DEF MenuInv, At
<1>5. reg' \in Registers /\ PsramShape'
  BY <1>1 DEF LoaderInv, PsramShape
<1> QED
  BY <1>1, <1>4, <1>5, MenuOnly DEF Ipl1

\* The extended mapper stays unlocked until a game locks it.
OpenRegisters == {r \in Registers : r.enable_nileswan_ex /\ r.enable_bandai2003_ex}

LEMMA StaysOpen ==
  ASSUME NEW r \in OpenRegisters
  PROVE  /\ \A b \in Number : /\ RamBank(r, b) \in OpenRegisters /\ Rom0Bank(r, b) \in OpenRegisters
                              /\ Rom1Bank(r, b) \in OpenRegisters
         /\ \A b \in 0..63 : LinearBank(r, b) \in OpenRegisters
         /\ \A v : MemoryCtrl(r, v) \in OpenRegisters /\ EmuCnt(r, v) \in OpenRegisters
<1>1. r \in Registers /\ r.enable_nileswan_ex /\ r.enable_bandai2003_ex
  BY DEF OpenRegisters
<1>2. ASSUME NEW b \in Number
      PROVE  /\ RamBank(r, b) \in OpenRegisters /\ Rom0Bank(r, b) \in OpenRegisters
             /\ Rom1Bank(r, b) \in OpenRegisters
  BY <1>1, RamBankSets, Rom0BankSets, Rom1BankSets DEF OpenRegisters
<1>3. ASSUME NEW b \in 0..63 PROVE LinearBank(r, b) \in OpenRegisters
  BY <1>1, LinearBankSets DEF OpenRegisters
<1>4. ASSUME NEW v PROVE MemoryCtrl(r, v) \in OpenRegisters /\ EmuCnt(r, v) \in OpenRegisters
  BY <1>1, FlagWritesKeep DEF OpenRegisters
<1> QED
  BY <1>2, <1>3, <1>4

\* What every step of the safe version keeps.
LEMMA SafeRegisters ==
  ASSUME LoaderInv, SafeSteps
  PROVE  pc = "IPL1_SAFE" /\ reg' \in OpenRegisters
<1>1. pc = "IPL1_SAFE"
  BY DEF SafeSteps, StartSafe, BoardCheck, RamSize, TestForEver, KeepTesting, LaunchRecovery, ManufacturingTest,
     WritePiece, WriteEnds, VerifyBank, TryBoot, StartRecovery, EarlierTestFails, StartTest, TestWrite,
     TestEnable, TestRead, TestExpect, TestEnds, Testing, RunMenu, SafeAt
<1>2. reg \in OpenRegisters /\ reg \in Registers
  BY <1>1 DEF LoaderInv, RecoveryInv, OpenRegisters, Unlocked
<1>3. /\ psram_max_bank \in Number /\ psram_max_bank - 12 \in Number /\ psram_max_bank \div 16 \in 0..63
      /\ 0 \in Number /\ 14 \in Number /\ 16 \in Number /\ 128 \in Number
  <2>1. psram_max_bank = 127 \/ psram_max_bank = 255
    BY DEF LoaderInv, RecoveryInv
  <2> QED
    BY <2>1 DEF Number
<1>4. SafeAt("write") \/ SafeAt("verify") => \A b : b = bank /\ b <= psram_max_bank => b \in Number
  <2>1. ASSUME SafeAt("write") \/ SafeAt("verify"), bank <= psram_max_bank PROVE bank \in Number
    <3>1. bank \in psram_max_bank + 1 - wanted.banks..psram_max_bank + 1
          /\ wanted \in {Program(p, t) : p \in {Factory, Updated}, t \in BOOLEAN}
      BY <2>1 DEF LoaderInv, RecoveryInv
    <3>2. wanted.banks = 3 \/ wanted.banks = 4
      BY <3>1 DEF Program, Factory, Updated
    <3>3. psram_max_bank = 127 \/ psram_max_bank = 255
      BY DEF LoaderInv, RecoveryInv
    <3> QED
      BY <2>1, <3>1, <3>2, <3>3 DEF Number
  <2> QED
    BY <2>1
<1>5. \A r \in OpenRegisters :
        /\ \A b \in Number : /\ RamBank(r, b) \in OpenRegisters /\ Rom0Bank(r, b) \in OpenRegisters
                             /\ Rom1Bank(r, b) \in OpenRegisters
        /\ \A b \in 0..63 : LinearBank(r, b) \in OpenRegisters
        /\ \A v : MemoryCtrl(r, v) \in OpenRegisters /\ EmuCnt(r, v) \in OpenRegisters
  BY StaysOpen
<1>6. CASE StartSafe
  <2>1. reg' = RamBank(reg, 14)
    BY <1>6 DEF StartSafe
  <2> QED
    BY <1>1, <1>2, <1>3, <1>5, <2>1
<1>7. CASE WritePiece \/ VerifyBank
  <2>1. reg' = RamBank(reg, bank) /\ bank \in Number
    BY <1>4, <1>7 DEF WritePiece, VerifyBank
  <2> QED
    BY <1>1, <1>2, <1>5, <2>1
<1>8. CASE BoardCheck
  <2>1. reg' = Rom0Bank(RamBank(MemoryCtrl(reg, 0), 14), 128)
    BY <1>8 DEF BoardCheck
  <2> QED
    BY <1>1, <1>2, <1>3, <1>5, <2>1
<1>9. CASE \E p \in {Factory, Updated} : LaunchRecovery(p)
  <2>1. reg' = MemoryCtrl(reg, 1)
    BY <1>9 DEF LaunchRecovery
  <2> QED
    BY <1>1, <1>2, <1>5, <2>1
<1>10. CASE ManufacturingTest
  <2>1. \/ reg' = RamBank(MemoryCtrl(Rom0Bank(reg, 128), 0), 14)
        \/ reg' = MemoryCtrl(RamBank(Rom0Bank(reg, 128), 14), 1)
    BY <1>10 DEF ManufacturingTest
  <2>2. PICK q \in OpenRegisters : q = Rom0Bank(reg, 128)
    BY <1>2, <1>3, <1>5
  <2>3. RamBank(MemoryCtrl(q, 0), 14) \in OpenRegisters /\ MemoryCtrl(RamBank(q, 14), 1) \in OpenRegisters
    BY <1>3, <1>5
  <2> QED
    BY <1>1, <2>1, <2>2, <2>3
<1>11. CASE TryBoot
  <2>1. reg' = LinearBank(RamBank(Rom1Bank(Rom0Bank(MemoryCtrl(reg, 0),
                 psram_max_bank), psram_max_bank - 12), 0), psram_max_bank \div 16)
    BY <1>11 DEF TryBoot
  <2>2. Rom0Bank(MemoryCtrl(reg, 0), psram_max_bank) \in OpenRegisters
    BY <1>2, <1>3, <1>5
  <2> QED
    BY <1>1, <1>3, <1>5, <2>1, <2>2
<1>12. CASE StartRecovery
  <2>1. PowCnt(reg, Unlock) \in OpenRegisters
    BY <1>2, UnlockUnlocks, FlagWritesKeep DEF OpenRegisters
  <2>2. reg' = RamBank(PowCnt(reg, Unlock), 14)
    BY <1>12 DEF StartRecovery
  <2> QED
    BY <1>1, <1>3, <1>5, <2>1, <2>2
<1>13. CASE StartTest
  <2>1. reg' = RamBank(MemoryCtrl(reg, 1), 16)
    BY <1>13 DEF StartTest
  <2> QED
    BY <1>1, <1>2, <1>3, <1>5, <2>1
<1>14. CASE TestEnable \/ TestEnds
  <2>1. reg' = EmuCnt(reg, 4) \/ reg' = EmuCnt(MemoryCtrl(reg, 0), 0)
    BY <1>14 DEF TestEnable, TestEnds
  <2> QED
    BY <1>1, <1>2, <1>5, <2>1
<1>15. CASE \/ RamSize \/ TestForEver \/ KeepTesting \/ WriteEnds \/ EarlierTestFails \/ TestWrite \/ TestRead
            \/ TestExpect
  <2>1. reg' = reg
    BY <1>15 DEF RamSize, TestForEver, KeepTesting, WriteEnds, EarlierTestFails, TestWrite, TestRead,
       TestExpect, NextLine, OtherThanTest, allVars, cartVars, mapper
  <2> QED
    BY <1>1, <1>2, <2>1
<1> QED
  BY <1>1, <1>6, <1>7, <1>8, <1>9, <1>10, <1>11, <1>12, <1>13, <1>14, <1>15 DEF SafeSteps

LEMMA SafeShapes ==
  ASSUME LoaderInv, SafeSteps
  PROVE  pc' = pc /\ step' # "backup" /\ PsramShape' /\ psram_max_bank' \in {127, 255}
<1>1. PsramShape /\ psram_max_bank \in {127, 255}
  BY DEF LoaderInv, RecoveryInv
<1>2. CASE StartSafe \/ BoardCheck
  BY <1>1, <1>2 DEF StartSafe, BoardCheck, RunMenu, SafeAt, PsramShape, vars, cpu, safe, settings
<1>3. CASE RamSize
  <2>1. psram_max_bank' \in {127, 255}
    BY <1>1, <1>3 DEF RamSize
  <2> QED
    BY <1>1, <1>3, <2>1 DEF RamSize, RunMenu, SafeAt, PsramShape, cartVars, vars, cpu, ipl1
<1>4. CASE TestForEver
  BY <1>1, <1>4 DEF TestForEver, PsramShape, OldPsram, vars, cpu, safe, settings
<1>5. CASE KeepTesting
  BY <1>1, <1>5 DEF KeepTesting, SafeAt, PsramShape, allVars, cartVars, vars, cpu, ipl1, safe, settings
<1>6. CASE \E p \in {Factory, Updated} : LaunchRecovery(p)
  BY <1>1, <1>6 DEF LaunchRecovery, Load, PsramShape, vars, cpu
<1>7. CASE ManufacturingTest
  <2>1. PsramShape'
    BY <1>1, <1>7 DEF ManufacturingTest, Filled, PsramShape
  <2> QED
    BY <1>1, <1>7, <2>1, ZenonT(30) DEF ManufacturingTest, Load, RunMenu, SafeAt, vars, cpu
<1>8. CASE WritePiece
  <2>1. PsramShape'
    BY <1>1, <1>8 DEF WritePiece, CopyToRam, PsramShape
  <2> QED
    BY <1>1, <1>8, <2>1 DEF WritePiece, Failed, Loading, SafeAt, vars, cpu, settings
<1>9. CASE WriteEnds \/ VerifyBank \/ TryBoot
  BY <1>1, <1>9 DEF WriteEnds, VerifyBank, TryBoot, Failed, Loading, SafeAt, PsramShape, vars, cpu, settings
<1>10. CASE StartRecovery
  BY <1>1, <1>10 DEF StartRecovery, PsramShape, OldPsram, vars, cpu
<1>11. CASE EarlierTestFails \/ StartTest
  BY <1>1, <1>11, ZenonT(30) DEF EarlierTestFails, StartTest, PsramShape, vars, cpu, safe, settings
<1>12. CASE TestWrite \/ TestEnable \/ TestRead \/ TestExpect \/ TestEnds
  BY <1>1, <1>12 DEF TestWrite, TestEnable, TestRead, TestExpect, TestEnds, Testing, NextLine, OtherThanTest,
     SafeAt, PsramShape, vars, cpu, settings
<1> QED
  BY <1>2, <1>3, <1>4, <1>5, <1>6, <1>7, <1>8, <1>9, <1>10, <1>11, <1>12 DEF SafeSteps

\* A program is chosen, and nothing of it loaded.
LEMMA LoadBegins ==
  ASSUME LoaderInv, SafeSteps, NEW p \in {Factory, Updated}, NEW t \in BOOLEAN, Load(Program(p, t)), t => magic'
  PROVE  RecoveryInv'
<1>1. pc = "IPL1_SAFE" /\ reg' \in OpenRegisters /\ pc' = pc /\ psram_max_bank' \in {127, 255}
      /\ Unlocked'
  BY SafeRegisters, SafeShapes DEF OpenRegisters, Unlocked
<1>2. /\ wanted' = Program(p, t) /\ step' = "write" /\ psram_max_bank' = psram_max_bank
      /\ bank' = psram_max_bank + 1 - Program(p, t).banks
  BY DEF Load
<1>3. wanted'.tests = t /\ wanted'.banks \in {3, 4}
      /\ wanted' \in {Program(r, u) : r \in {Factory, Updated}, u \in BOOLEAN}
  BY <1>2 DEF Program, Factory, Updated
<1>4. bank' \in psram_max_bank' + 1 - wanted'.banks..psram_max_bank' + 1
  <2>1. PICK n \in {3, 4} : n = wanted'.banks
    BY <1>3
  <2> QED
    BY <1>1, <1>2, <2>1
<1> QED
  BY <1>1, <1>2, <1>3, <1>4 DEF RecoveryInv, SafeAt

LEMMA SafeLoads ==
  ASSUME LoaderInv, SafeSteps
  PROVE  RecoveryInv'
<1>1. pc = "IPL1_SAFE" /\ reg' \in OpenRegisters /\ pc' = pc /\ psram_max_bank' \in {127, 255}
      /\ Unlocked'
  BY SafeRegisters, SafeShapes DEF OpenRegisters, Unlocked
<1>2. ASSUME step' \notin {"write", "verify", "run"} PROVE RecoveryInv'
  BY <1>1, <1>2 DEF RecoveryInv, SafeAt
<1>3. CASE \/ StartSafe \/ BoardCheck \/ RamSize \/ TestForEver \/ KeepTesting \/ StartRecovery
           \/ EarlierTestFails \/ StartTest
  <2>1. step' \notin {"write", "verify", "run"}
    BY <1>3 DEF StartSafe, BoardCheck, RamSize, TestForEver, KeepTesting, StartRecovery, EarlierTestFails,
       StartTest, RunMenu, SafeAt, allVars, cartVars, ipl1
  <2> QED
    BY <1>2, <2>1
<1>4. CASE TestWrite \/ TestEnable \/ TestRead \/ TestExpect \/ TestEnds
  <2>1. step' \notin {"write", "verify", "run"}
    BY <1>4 DEF TestWrite, TestEnable, TestRead, TestExpect, TestEnds, Testing, NextLine, SafeAt
  <2> QED
    BY <1>2, <2>1
<1>5. CASE \E p \in {Factory, Updated} : LaunchRecovery(p)
  BY <1>5, LoadBegins DEF LaunchRecovery
<1>6. CASE ManufacturingTest
  <2>1. CASE UNCHANGED step
    <3>1. step' \notin {"write", "verify", "run"}
      BY <1>6, <2>1 DEF ManufacturingTest, RunMenu, SafeAt
    <3> QED
      BY <1>2, <3>1
  <2>2. CASE magic' = TRUE /\ Load(Program(Factory, TRUE))
    BY <2>2, LoadBegins
  <2> QED
    BY <1>6, <2>1, <2>2 DEF ManufacturingTest
\* While it is loaded the settings stay.
<1>7. ASSUME Loading, SafeAt("write") \/ SafeAt("verify")
      PROVE  /\ wanted' = wanted /\ magic' = magic /\ psram_max_bank' = psram_max_bank
             /\ wanted.tests => magic
             /\ wanted \in {Program(p, t) : p \in {Factory, Updated}, t \in BOOLEAN}
             /\ \E n \in {3, 4} : wanted.banks = n /\ bank \in psram_max_bank + 1 - n..psram_max_bank + 1
  <2>1. /\ wanted.tests => magic
        /\ wanted \in {Program(p, t) : p \in {Factory, Updated}, t \in BOOLEAN}
        /\ bank \in psram_max_bank + 1 - wanted.banks..psram_max_bank + 1
    BY <1>7 DEF LoaderInv, RecoveryInv
  <2>2. wanted.banks \in {3, 4}
    BY <2>1 DEF Program, Factory, Updated
  <2> QED
    BY <1>7, <2>1, <2>2 DEF Loading, settings
<1>8. psram_max_bank = 127 \/ psram_max_bank = 255
  BY DEF LoaderInv, RecoveryInv
<1>9. CASE WritePiece
  <2>1. Loading /\ SafeAt("write") /\ bank <= psram_max_bank
        /\ \/ step' = "write" /\ bank' \in {bank, bank + 1}
           \/ step' = "menu"
    BY <1>9 DEF WritePiece, Failed, SafeAt
  <2>2. CASE step' = "write"
    <3>1. PICK n \in {3, 4} : wanted.banks = n /\ bank \in psram_max_bank + 1 - n..psram_max_bank + 1
      BY <1>7, <2>1
    <3>2. bank' \in psram_max_bank' + 1 - n..psram_max_bank' + 1 /\ wanted'.banks = n
      BY <1>7, <1>8, <2>1, <2>2, <3>1
    <3> QED
      BY <1>1, <1>7, <2>1, <2>2, <3>2 DEF RecoveryInv, SafeAt
  <2> QED
    BY <1>2, <2>1, <2>2
<1>10. CASE WriteEnds
  <2>1. /\ Loading /\ SafeAt("write") /\ step' = "verify" /\ psram' = psram
        /\ bank' = psram_max_bank + 1 - wanted.banks
    BY <1>10 DEF WriteEnds
  <2>2. PICK n \in {3, 4} : wanted.banks = n
    BY <1>7, <2>1
  <2>3. bank' \in psram_max_bank' + 1 - n..psram_max_bank' + 1 /\ wanted'.banks = n
    BY <1>7, <1>8, <2>1, <2>2
  <2>4. Verified(bank - 1)'
    <3>1. PICK first \in Int : first = psram_max_bank' + 1 - wanted'.banks /\ first = bank'
      BY <1>7, <1>8, <2>1, <2>2
    <3>2. \A b \in first..first - 1 : FALSE
      OBVIOUS
    <3> QED
      BY <3>1, <3>2 DEF Verified
  <2> QED
    BY <1>1, <1>7, <2>1, <2>3, <2>4 DEF RecoveryInv, SafeAt
<1>11. CASE VerifyBank
  <2>1. /\ Loading /\ SafeAt("verify") /\ bank <= psram_max_bank /\ psram' = psram
        /\ reg' = RamBank(reg, bank)
        /\ \/ /\ step' = "verify" /\ bank' = bank + 1
              /\ Device(RAM)' = "psram" /\ RomBank(RAM)' \in Reached
              /\ \A p \in 0..BankSize - 1 : psram[RomBank(RAM)'][p] = FlashPlace(bank, p)
           \/ step' = "menu"
    BY <1>11 DEF VerifyBank, Failed, SafeAt
  <2>2. CASE step' = "menu"
    BY <1>2, <2>2
  <2>3. CASE step' = "verify"
    <3>1. PICK n \in {3, 4} : wanted.banks = n /\ bank \in psram_max_bank + 1 - n..psram_max_bank + 1
      BY <1>7, <2>1
    <3>2. bank' \in psram_max_bank' + 1 - n..psram_max_bank' + 1 /\ wanted'.banks = n
          /\ bank \in 0..255 /\ bank \in Number
      BY <1>7, <1>8, <2>1, <2>3, <3>1 DEF Number
    <3>3. RomBank(RAM)' = bank
      <4>1. reg'.ram_addr_ext = bank
        BY <1>1, <2>1, <3>2, RamBankSets DEF LoaderInv, RecoveryInv, Unlocked
      <4>2. PICK m \in 0..255 : m = reg'.ram_addr_ext /\ m = bank
        BY <3>2, <4>1
      <4>3. m % 512 = m
        OBVIOUS
      <4> QED
        BY <4>2, <4>3 DEF RomBank, RAM, ROM0, ROM1
    <3>4. \A p \in 0..BankSize - 1 : psram[bank][p] = FlashPlace(bank, p)
      BY <2>1, <2>3, <3>3
    <3>5. Verified(bank - 1)
      BY <2>1 DEF LoaderInv, RecoveryInv
    <3>6. \A b \in psram_max_bank + 1 - wanted.banks..bank, p \in 0..BankSize - 1 :
            psram[b][p] = FlashPlace(b, p)
      <4>1. \A b \in psram_max_bank + 1 - wanted.banks..bank :
              b = bank \/ b \in psram_max_bank + 1 - wanted.banks..bank - 1
        BY <1>8, <3>1, <3>2
      <4> QED
        BY <3>4, <3>5, <4>1 DEF Verified
    <3>7. Verified(bank - 1)'
      <4>1. psram_max_bank' = psram_max_bank /\ wanted' = wanted /\ psram' = psram /\ bank' - 1 = bank
        BY <1>7, <2>1, <2>3, <3>2
      <4> QED
        BY <3>6, <4>1 DEF Verified, FlashPlace
    <3> QED
      BY <1>1, <1>7, <2>1, <2>3, <3>2, <3>7 DEF RecoveryInv, SafeAt
  <2> QED
    BY <2>1, <2>2, <2>3
<1>12. CASE TryBoot
  <2>1. /\ Loading /\ SafeAt("verify") /\ bank > psram_max_bank /\ psram' = psram /\ bank' = bank
        /\ reg' = LinearBank(RamBank(Rom1Bank(Rom0Bank(MemoryCtrl(reg, 0),
                    psram_max_bank), psram_max_bank - 12), 0), psram_max_bank \div 16)
        /\ step' \in {"menu", "run"}
    BY <1>12 DEF TryBoot
  <2>2. CASE step' = "menu"
    BY <1>2, <2>2
  <2>3. CASE step' = "run"
    <3>1. PICK n \in {3, 4} : wanted.banks = n /\ bank \in psram_max_bank + 1 - n..psram_max_bank + 1
      BY <1>7, <2>1
    <3>2. bank' \in psram_max_bank' + 1 - n..psram_max_bank' + 1 /\ wanted'.banks = n
          /\ bank - 1 = psram_max_bank /\ psram_max_bank' = psram_max_bank
      BY <1>7, <1>8, <2>1, <3>1
    <3>3. Verified(bank - 1)
      BY <2>1 DEF LoaderInv, RecoveryInv
    <3>4. Verified(psram_max_bank)'
      BY <1>7, <2>1, <3>2, <3>3 DEF Verified, FlashPlace
    <3>5. reg'.rom0_addr_ext = psram_max_bank /\ reg'.rom_linear_addr_ext = psram_max_bank \div 16
      <4>1. PICK m \in {127, 255} : m = psram_max_bank
        BY <1>8
      <4>2. m \in Number /\ m - 12 \in Number /\ 0 \in Number /\ m \div 16 \in 0..63
        BY DEF Number
      <4>3. reg \in OpenRegisters
        BY <1>1 DEF LoaderInv, RecoveryInv, OpenRegisters, Unlocked
      <4>4. PICK r0 \in OpenRegisters : r0 = MemoryCtrl(reg, 0)
        BY <4>3, StaysOpen
      <4>5. PICK r1 \in OpenRegisters : r1 = Rom0Bank(r0, m) /\ r1.rom0_addr_ext = m
        BY <4>2, StaysOpen, Rom0BankSets DEF OpenRegisters
      <4>6. PICK r2 \in OpenRegisters : r2 = Rom1Bank(r1, m - 12) /\ r2.rom0_addr_ext = m
        BY <4>2, <4>5, StaysOpen, Rom1BankSets, SMTT(30) DEF OpenRegisters
      <4>7. PICK r3 \in OpenRegisters : r3 = RamBank(r2, 0) /\ r3.rom0_addr_ext = m
        <5>1. RamBank(r2, 0) \in OpenRegisters
          BY <4>2, <4>6, StaysOpen
        <5>2. RamBank(r2, 0).rom0_addr_ext = m
          BY <4>2, <4>6, RamBankSets DEF OpenRegisters
        <5> QED
          BY <5>1, <5>2
      <4>8. LinearBank(r3, m \div 16).rom0_addr_ext = m
            /\ LinearBank(r3, m \div 16).rom_linear_addr_ext = m \div 16
        BY <4>2, <4>7, LinearBankSets DEF OpenRegisters
      <4> QED
        BY <2>1, <4>1, <4>4, <4>5, <4>6, <4>7, <4>8
    <3>6. reg'.rom0_addr_ext = psram_max_bank' /\ reg'.rom_linear_addr_ext = psram_max_bank' \div 16
      BY <3>2, <3>5
    <3> QED
      BY <1>1, <1>7, <2>1, <2>3, <3>2, <3>4, <3>6 DEF RecoveryInv, SafeAt
  <2> QED
    BY <2>1, <2>2, <2>3
<1> QED
  BY <1>3, <1>4, <1>5, <1>6, <1>9, <1>10, <1>11, <1>12 DEF SafeSteps

\* Every step of the cartridge keeps it.
LEMMA LoaderStep ==
  ASSUME LoaderInv, [SafeNext]_allVars
  PROVE  LoaderInv'
<1>1. CASE Next /\ UNCHANGED <<mapper, ipl1, safe>>
  BY <1>1, LoaderWaits
<1>2. CASE Ipl1 /\ UNCHANGED safe
  BY <1>2, MenuQuietStep, MapsPsram, Opens, ReadsPiece, Validates DEF Ipl1
<1>3. CASE Game /\ UNCHANGED safe
  BY <1>3, MenuQuietStep
<1>4. CASE SafeSteps
  <2>1. pc' = "IPL1_SAFE" /\ reg' \in Registers
    BY <1>4, SafeRegisters, SafeShapes DEF OpenRegisters
  <2>2. step' # "backup" /\ PsramShape' /\ RecoveryInv'
    BY <1>4, SafeShapes, SafeLoads
  <2>3. \A here : ~At(here)'
    BY <2>1 DEF At
  <2>4. MenuInv'
    BY <2>3 DEF MenuInv
  <2> QED
    BY <2>1, <2>2, <2>4 DEF LoaderInv, Versions
<1>5. CASE UNCHANGED allVars
  BY <1>5 DEF allVars, cartVars, vars, cpu, mapper, ipl1, load, safe, settings, LoaderInv, PsramShape, MenuInv,
     RecoveryInv, Unlocked, At, SafeAt, FileInv, FileHere, FileStart, Come, Place, PiecesLeft, Verified, FlashPlace
<1> QED
  BY <1>1, <1>2, <1>3, <1>4, <1>5 DEF SafeNext, CartNext

\* Where the invariant's program is, the property's is.
LEMMA LoaderMenu == LoaderInv => MenuInPlace
<1> SUFFICES ASSUME LoaderInv, At("run") PROVE MenuInPlace
  BY DEF MenuInPlace
<1>1. /\ FileInv /\ bank > PSRAM_MAX_BANK /\ ipc = "state"
      /\ reg.rom0_addr_ext = PSRAM_MAX_BANK /\ reg.rom_linear_addr_ext = PSRAM_MAX_BANK \div 16
  BY DEF LoaderInv, MenuInv
<1>2. /\ bank = 256 /\ offset = 0 /\ size \in MinSize..MaxSize /\ FileHere
      /\ bank_count \in Nat /\ bank_count + PiecesLeft = bank_count_max
  BY <1>1 DEF FileInv, PSRAM_MAX_BANK
<1>3. bank_count = bank_count_max
  <2>1. ~(offset >= Half)
    BY <1>2, Sizes
  <2>2. (PSRAM_MAX_BANK + 1 - bank) * 2 = 0
    BY <1>2 DEF PSRAM_MAX_BANK
  <2>3. PiecesLeft = 0
    BY <2>1, <2>2 DEF PiecesLeft
  <2> QED
    BY <1>2, <2>3
<1>4. \A area \in {ROM0, 15} : Device(area) = "psram" /\ RomBank(area) = PSRAM_MAX_BANK
  <2>1. PSRAM_MAX_BANK \in {127, 255}
    BY DEF PSRAM_MAX_BANK
  <2> QED
    BY <1>1, <2>1, RomAreas
<1>5. ASSUME NEW k \in 0..size - 1
      PROVE  psram[PSRAM_MAX_BANK - (k \div BankSize)][BankSize - 1 - (k % BankSize)] = size - 1 - k
  <2>1. k \in Nat /\ k < 4 * BankSize /\ size \in Nat /\ k < size
    BY <1>2, Sizes
  <2>2. PICK q \in Nat, r \in 0..BankSize - 1 :
          q = k \div BankSize /\ r = k % BankSize /\ k = BankSize * q + r
    BY <2>1, Sizes, Division
  <2>3. q \in 0..3
    <3>1. q >= 4 => BankSize * q >= BankSize * 4
      BY <2>2, Sizes
    <3> QED
      BY <2>1, <2>2, <3>1, Sizes
  <2>4. PICK b \in 252..255 : b = PSRAM_MAX_BANK - q /\ b = 255 - q
    BY <2>3 DEF PSRAM_MAX_BANK
  <2>5. PICK p \in 0..BankSize - 1 : p = BankSize - 1 - r
    BY <2>2, Sizes
  <2>6. Place(b, p) = BankSize * 256 - 1 - k
    <3>1. BankSize * (255 - q) = BankSize * 255 - BankSize * q
      BY <2>3, Sizes
    <3> QED
      BY <2>2, <2>3, <2>4, <2>5, <3>1, Sizes DEF Place
  <2>7. FileStart = BankSize * 256 - size /\ Come = BankSize * 256
    BY <1>2, Sizes DEF FileStart, PSRAM_MAX_BANK, Come, Place
  <2>8. PICK whole \in Nat : whole = BankSize * 256
    BY Sizes
  <2>9. psram[b][p] = Place(b, p) - FileStart
    <3>1. FileStart <= Place(b, p) /\ Place(b, p) < Come
      BY <2>1, <2>6, <2>7, <2>8
    <3>2. b \in Reached
      BY <2>4, LastBanks
    <3> QED
      BY <1>2, <2>5, <3>1, <3>2 DEF FileHere
  <2>10. Place(b, p) - FileStart = size - 1 - k
    BY <2>1, <2>6, <2>7, <2>8
  <2> QED
    BY <2>2, <2>4, <2>5, <2>9, <2>10
<1> QED
  BY <1>1, <1>3, <1>4, <1>5 DEF MenuInPlace

LEMMA LoaderRecovery == LoaderInv => RecoveryInPlace
<1> SUFFICES ASSUME LoaderInv, SafeAt("run") PROVE RecoveryInPlace
  BY DEF RecoveryInPlace
<1>1. /\ Verified(psram_max_bank) /\ psram_max_bank \in {127, 255} /\ (wanted.tests => magic)
      /\ reg.rom0_addr_ext = psram_max_bank /\ reg.rom_linear_addr_ext = psram_max_bank \div 16
  BY DEF LoaderInv, RecoveryInv
<1>2. \A area \in {ROM0, 15} : Device(area) = "psram" /\ RomBank(area) = psram_max_bank
  BY <1>1, RomAreas
<1> QED
  BY <1>1, <1>2 DEF RecoveryInPlace, Verified

\* Whichever version of IPL1 jumps, the program is where it jumps: the menu with
\* the file's last byte in the PSRAM's last, or the recovery program as it is in
\* the flash, verified, and told of its tests (ipl1/src/boot/main.c:136-291,
\* ipl1/src/safe/main.c:50-141).
THEOREM WhatIsEnteredIsWhole == SafeSpec => []ProgramInPlace
<1>1. SafeInit => LoaderInv
  BY LoaderInit
<1>2. LoaderInv /\ [SafeNext]_allVars => LoaderInv'
  BY LoaderStep
<1>3. LoaderInv => ProgramInPlace
  BY LoaderMenu, LoaderRecovery DEF ProgramInPlace
<1> QED
  BY <1>1, <1>2, <1>3, PTL DEF SafeSpec

-----------------------------------------------------------------------------
(* The test of the flash emulation, line by line.                          *)

TestByte == {"00", "10", "11", "20", "22", "30", "33", "55", "80", "90", "A0", "AA", "FF", "none"}
Line == [do : {"write", "expect", "enable", "read"}, value : TestByte]

LEMMA LineTypes ==
  /\ Enable \in Line /\ Read \in Line
  /\ \A b \in TestByte : Write(b) \in Line /\ Expect(b) \in Line
  BY DEF Line, Enable, Read, Write, Expect, TestByte

LEMMA WritesThree ==
  ASSUME NEW a, NEW b, NEW c
  PROVE  Writes(<<a, b, c>>) = <<Write(a), Write(b), Write(c)>>
  BY DEF Writes

LEMMA WritesFour ==
  ASSUME NEW a, NEW b, NEW c, NEW d
  PROVE  Writes(<<a, b, c, d>>) = <<Write(a), Write(b), Write(c), Write(d)>>
  BY DEF Writes

LEMMA WritesSix ==
  ASSUME NEW a, NEW b, NEW c, NEW d, NEW e, NEW f
  PROVE  Writes(<<a, b, c, d, e, f>>) = <<Write(a), Write(b), Write(c), Write(d), Write(e), Write(f)>>
  BY DEF Writes

LEMMA SixLines ==
  ASSUME NEW a \in Line, NEW b \in Line, NEW c \in Line, NEW d \in Line, NEW e \in Line, NEW f \in Line
  PROVE  <<a, b, c, d, e, f>> \in Seq(Line) /\ Len(<<a, b, c, d, e, f>>) = 6
  OBVIOUS

\* A sequence lies in another one after n elements.
Lies(s, n, q) == n + Len(s) <= Len(q) /\ \A k \in 1..Len(s) : q[n + k] = s[k]

LEMMA Joined ==
  ASSUME NEW s \in Seq(Line), NEW t \in Seq(Line), NEW j, j = s \o t
  PROVE  /\ j \in Seq(Line) /\ Len(j) = Len(s) + Len(t)
         /\ Lies(s, 0, j) /\ Lies(t, Len(s), j)
<1>1. /\ Len(s) \in Nat /\ Len(t) \in Nat
      /\ s \o t \in Seq(Line) /\ Len(s \o t) = Len(s) + Len(t)
      /\ \A i \in 1..Len(s) + Len(t) : (s \o t)[i] = IF i <= Len(s) THEN s[i] ELSE t[i - Len(s)]
  BY ConcatProperties
<1> QED
  BY <1>1 DEF Lies

LEMMA LiesStill ==
  ASSUME NEW r \in Seq(Line), NEW s \in Seq(Line), NEW q \in Seq(Line), NEW m \in Nat, NEW n \in Nat,
         Lies(r, m, s), Lies(s, n, q)
  PROVE  Lies(r, n + m, q)
<1>1. Len(r) \in Nat /\ Len(s) \in Nat /\ Len(q) \in Nat
  OBVIOUS
<1>2. ASSUME NEW k \in 1..Len(r) PROVE q[n + m + k] = r[k]
  <2>1. m + k \in 1..Len(s) /\ s[m + k] = r[k]
    BY <1>1 DEF Lies
  <2>2. q[n + (m + k)] = s[m + k]
    BY <2>1 DEF Lies
  <2>3. n + (m + k) = n + m + k
    BY <1>1
  <2> QED
    BY <2>1, <2>2, <2>3
<1> QED
  BY <1>1, <1>2 DEF Lies

\* The parts of a sequence that was joined lie where the sequence does.
LEMMA PartsLie ==
  ASSUME NEW s \in Seq(Line), NEW t \in Seq(Line), NEW j, j = s \o t,
         NEW q \in Seq(Line), NEW n \in Nat, Lies(j, n, q)
  PROVE  Lies(s, n, q) /\ Lies(t, n + Len(s), q)
<1>1. j \in Seq(Line) /\ Lies(s, 0, j) /\ Lies(t, Len(s), j)
  BY Joined
<1>2. 0 \in Nat /\ Len(s) \in Nat /\ n + 0 = n
  OBVIOUS
<1>3. Lies(s, n + 0, q) /\ Lies(t, n + Len(s), q)
  BY <1>1, <1>2, LiesStill
<1> QED
  BY <1>2, <1>3

LEMMA EraseIs ==
  ASSUME NEW c \in TestByte
  PROVE  /\ Erase(c) \in Seq(Line) /\ Len(Erase(c)) = 11
         /\ Erase(c)[1] = Write("AA") /\ Erase(c)[2] = Write("55") /\ Erase(c)[3] = Write("80")
         /\ Erase(c)[4] = Write("AA") /\ Erase(c)[5] = Write("55") /\ Erase(c)[6] = Write(c)
         /\ Erase(c)[7] = Read
         /\ Erase(c)[8] = Write("AA") /\ Erase(c)[9] = Write("55") /\ Erase(c)[10] = Write("90")
         /\ Erase(c)[11] = Expect("FF")
<1>1. PICK unlock : unlock = Writes(<<"AA", "55", "80", "AA", "55", c>>)
  OBVIOUS
<1>2. PICK reset : reset = Writes(<<"AA", "55", "90">>)
  OBVIOUS
<1>3. /\ unlock \in Seq(Line) /\ Len(unlock) = 6
      /\ unlock = <<Write("AA"), Write("55"), Write("80"), Write("AA"), Write("55"), Write(c)>>
  <2>1. unlock = <<Write("AA"), Write("55"), Write("80"), Write("AA"), Write("55"), Write(c)>>
    BY <1>1, WritesSix
  <2>2. \A b \in {"AA", "55", "80", c} : Write(b) \in Line
    BY LineTypes DEF TestByte
  <2> QED
    BY <2>1, <2>2, SixLines
<1>4. /\ reset \in Seq(Line) /\ Len(reset) = 3
      /\ reset = <<Write("AA"), Write("55"), Write("90")>>
  <2>1. reset = <<Write("AA"), Write("55"), Write("90")>>
    BY <1>2, WritesThree
  <2>2. \A b \in {"AA", "55", "90"} : Write(b) \in Line
    BY LineTypes DEF TestByte
  <2> QED
    BY <2>1, <2>2
<1>5. PICK one, two : one = <<Read>> /\ two = <<Expect("FF")>>
  OBVIOUS
<1>6. /\ one \in Seq(Line) /\ Len(one) = 1 /\ one[1] = Read
      /\ two \in Seq(Line) /\ Len(two) = 1 /\ two[1] = Expect("FF")
  <2>1. Read \in Line /\ Expect("FF") \in Line
    BY LineTypes DEF TestByte
  <2> QED
    BY <2>1, <1>5
<1>7. Erase(c) = ((unlock \o one) \o reset) \o two
  BY <1>1, <1>2, <1>5 DEF Erase
<1>8. PICK seven : seven = unlock \o one
  OBVIOUS
<1>9. PICK ten : ten = seven \o reset
  OBVIOUS
<1>10. PICK e : e = ten \o two
  OBVIOUS
<1>11. Erase(c) = e
  BY <1>7, <1>8, <1>9, <1>10
<1>12. unlock \in Seq(Line) /\ Len(unlock) = 6 /\ reset \in Seq(Line) /\ Len(reset) = 3
       /\ one \in Seq(Line) /\ Len(one) = 1 /\ two \in Seq(Line) /\ Len(two) = 1
  BY <1>3, <1>4, <1>6
<1>13. /\ Lies(unlock, 0, e) /\ Lies(one, 6, e) /\ Lies(reset, 7, e) /\ Lies(two, 10, e)
       /\ e \in Seq(Line) /\ Len(e) = 11
  <2>1. seven \in Seq(Line) /\ Len(seven) = Len(unlock) + Len(one)
    BY <1>8, <1>12, Joined
  <2>2. ten \in Seq(Line) /\ Len(ten) = Len(seven) + Len(reset)
    BY <1>9, <1>12, <2>1, Joined
  <2>3. e \in Seq(Line) /\ Len(e) = Len(ten) + Len(two) /\ Lies(ten, 0, e) /\ Lies(two, Len(ten), e)
    BY <1>10, <1>12, <2>2, Joined
  <2>4. Lies(seven, 0, e) /\ Lies(reset, 0 + Len(seven), e)
    BY <1>9, <1>12, <2>1, <2>3, PartsLie
  <2>5. Lies(unlock, 0, e) /\ Lies(one, 0 + Len(unlock), e)
    BY <1>8, <1>12, <2>3, <2>4, PartsLie
  <2>6. Len(seven) = 7 /\ Len(ten) = 10 /\ Len(e) = 11 /\ 0 + Len(seven) = 7 /\ 0 + Len(unlock) = 6
    BY <1>12, <2>1, <2>2, <2>3
  <2> QED
    BY <2>3, <2>4, <2>5, <2>6
<1>14. /\ e[1] = unlock[1] /\ e[2] = unlock[2] /\ e[3] = unlock[3] /\ e[4] = unlock[4]
       /\ e[5] = unlock[5] /\ e[6] = unlock[6]
  BY <1>12, <1>13 DEF Lies
<1>15. e[7] = Read /\ e[11] = Expect("FF")
  BY <1>6, <1>13 DEF Lies
<1>16. e[8] = reset[1] /\ e[9] = reset[2] /\ e[10] = reset[3]
  BY <1>12, <1>13 DEF Lies
<1> QED
  BY <1>3, <1>4, <1>11, <1>13, <1>14, <1>15, <1>16

\* The pieces that Lines is joined of.
Opening == <<Write("11"), Enable, Write("00"), Read, Expect("11")>>
SlowProgram == Writes(<<"AA", "55", "A0", "22">>)
Check(b) == <<Read, Expect(b)>>
FastProgram == Writes(<<"AA", "55", "20", "A0", "33", "90">>)

LEMMA Pieces ==
  /\ Opening \in Seq(Line) /\ Len(Opening) = 5
  /\ SlowProgram \in Seq(Line) /\ Len(SlowProgram) = 4
  /\ SlowProgram = <<Write("AA"), Write("55"), Write("A0"), Write("22")>>
  /\ FastProgram \in Seq(Line) /\ Len(FastProgram) = 6
  /\ FastProgram = <<Write("AA"), Write("55"), Write("20"), Write("A0"), Write("33"), Write("90")>>
  /\ \A b \in TestByte : Check(b) \in Seq(Line) /\ Len(Check(b)) = 2
<1>1. Enable \in Line /\ Read \in Line /\ \A b \in TestByte : Write(b) \in Line /\ Expect(b) \in Line
  BY LineTypes
<1>2. Opening \in Seq(Line) /\ Len(Opening) = 5
  <2>1. \A a, c, e \in Line : <<a, Enable, c, Read, e>> \in Seq(Line) /\ Len(<<a, Enable, c, Read, e>>) = 5
    BY <1>1
  <2>2. Write("11") \in Line /\ Write("00") \in Line /\ Expect("11") \in Line
    BY <1>1 DEF TestByte
  <2> QED
    BY <2>1, <2>2 DEF Opening
<1>3. /\ SlowProgram \in Seq(Line) /\ Len(SlowProgram) = 4
      /\ SlowProgram = <<Write("AA"), Write("55"), Write("A0"), Write("22")>>
  <2>1. SlowProgram = <<Write("AA"), Write("55"), Write("A0"), Write("22")>>
    BY WritesFour DEF SlowProgram
  <2>2. \A a, b, c, d \in Line : <<a, b, c, d>> \in Seq(Line) /\ Len(<<a, b, c, d>>) = 4
    OBVIOUS
  <2>3. \A b \in {"AA", "55", "A0", "22"} : Write(b) \in Line
    BY <1>1 DEF TestByte
  <2> QED
    BY <2>1, <2>2, <2>3
<1>4. /\ FastProgram \in Seq(Line) /\ Len(FastProgram) = 6
      /\ FastProgram = <<Write("AA"), Write("55"), Write("20"), Write("A0"), Write("33"), Write("90")>>
  <2>1. FastProgram = <<Write("AA"), Write("55"), Write("20"), Write("A0"), Write("33"), Write("90")>>
    BY WritesSix DEF FastProgram
  <2>2. \A b \in {"AA", "55", "20", "A0", "33", "90"} : Write(b) \in Line
    BY <1>1 DEF TestByte
  <2> QED
    BY <2>1, <2>2, SixLines
<1>5. ASSUME NEW b \in TestByte PROVE Check(b) \in Seq(Line) /\ Len(Check(b)) = 2
  <2>1. \A x \in Line : <<Read, x>> \in Seq(Line) /\ Len(<<Read, x>>) = 2
    BY <1>1
  <2> QED
    BY <1>1, <2>1 DEF Check
<1> QED
  BY <1>2, <1>3, <1>4, <1>5

LEMMA PlacesOfPieces ==
  /\ Lines \in Seq(Line) /\ Len(Lines) = 43
  /\ Lies(Opening, 0, Lines) /\ Lies(SlowProgram, 5, Lines) /\ Lies(Check("22"), 9, Lines)
  /\ Lies(FastProgram, 11, Lines) /\ Lies(Check("33"), 17, Lines)
  /\ Lies(Erase("30"), 19, Lines) /\ Lies(Erase("10"), 30, Lines) /\ Lies(Check("33"), 41, Lines)
<1>1. PICK a, b, c, d, e, f, g : /\ a = Opening /\ b = SlowProgram /\ c = Check("22") /\ d = FastProgram
                                 /\ e = Check("33") /\ f = Erase("30") /\ g = Erase("10")
  OBVIOUS
<1>2. /\ a \in Seq(Line) /\ Len(a) = 5 /\ b \in Seq(Line) /\ Len(b) = 4
      /\ c \in Seq(Line) /\ Len(c) = 2 /\ d \in Seq(Line) /\ Len(d) = 6
      /\ e \in Seq(Line) /\ Len(e) = 2 /\ f \in Seq(Line) /\ Len(f) = 11
      /\ g \in Seq(Line) /\ Len(g) = 11
  <2>1. "22" \in TestByte /\ "33" \in TestByte /\ "30" \in TestByte /\ "10" \in TestByte
    BY DEF TestByte
  <2>2. Check("22") \in Seq(Line) /\ Len(Check("22")) = 2 /\ Check("33") \in Seq(Line) /\ Len(Check("33")) = 2
    BY <2>1, Pieces
  <2>3. /\ Erase("30") \in Seq(Line) /\ Len(Erase("30")) = 11
        /\ Erase("10") \in Seq(Line) /\ Len(Erase("10")) = 11
    BY <2>1, EraseIs
  <2> QED
    BY <1>1, <2>2, <2>3, Pieces
<1>3. Lines = ((((((a \o b) \o c) \o d) \o e) \o f) \o g) \o e
  BY <1>1 DEF Lines, Opening, SlowProgram, Check, FastProgram
<1>4. PICK ab : ab = a \o b
  OBVIOUS
<1>5. PICK abc : abc = ab \o c
  OBVIOUS
<1>6. PICK abcd : abcd = abc \o d
  OBVIOUS
<1>7. PICK half : half = abcd \o e
  OBVIOUS
<1>8. PICK erased : erased = half \o f
  OBVIOUS
<1>9. PICK twice : twice = erased \o g
  OBVIOUS
<1>10. PICK all : all = twice \o e
  OBVIOUS
<1>11. Lines = all
  BY <1>3, <1>4, <1>5, <1>6, <1>7, <1>8, <1>9, <1>10
<1>12. /\ ab \in Seq(Line) /\ Len(ab) = Len(a) + Len(b)
  BY <1>2, <1>4, Joined, ZenonT(30)
<1>13. abc \in Seq(Line) /\ Len(abc) = Len(ab) + Len(c)
  BY <1>2, <1>5, <1>12, Joined
<1>14. abcd \in Seq(Line) /\ Len(abcd) = Len(abc) + Len(d)
  BY <1>2, <1>6, <1>13, Joined
<1>15. half \in Seq(Line) /\ Len(half) = Len(abcd) + Len(e)
  BY <1>2, <1>7, <1>14, Joined
<1>16. erased \in Seq(Line) /\ Len(erased) = Len(half) + Len(f)
  BY <1>2, <1>8, <1>15, Joined
<1>17. twice \in Seq(Line) /\ Len(twice) = Len(erased) + Len(g)
  BY <1>2, <1>9, <1>16, Joined
<1>18. /\ all \in Seq(Line) /\ Len(all) = Len(twice) + Len(e)
       /\ Lies(twice, 0, all) /\ Lies(e, Len(twice), all)
  BY <1>2, <1>10, <1>17, Joined
<1>19. /\ Len(ab) = 9 /\ Len(abc) = 11 /\ Len(abcd) = 17 /\ Len(half) = 19
       /\ Len(erased) = 30 /\ Len(twice) = 41 /\ Len(all) = 43
  BY <1>2, <1>12, <1>13, <1>14, <1>15, <1>16, <1>17, <1>18
<1>20. Lies(erased, 0, all) /\ Lies(g, 0 + Len(erased), all)
  BY <1>2, <1>9, <1>16, <1>18, PartsLie
<1>21. Lies(half, 0, all) /\ Lies(f, 0 + Len(half), all)
  BY <1>2, <1>8, <1>15, <1>18, <1>20, PartsLie
<1>22. Lies(abcd, 0, all) /\ Lies(e, 0 + Len(abcd), all)
  BY <1>2, <1>7, <1>14, <1>18, <1>21, PartsLie
<1>23. Lies(abc, 0, all) /\ Lies(d, 0 + Len(abc), all)
  BY <1>2, <1>6, <1>13, <1>18, <1>22, PartsLie
<1>24. Lies(ab, 0, all) /\ Lies(c, 0 + Len(ab), all)
  BY <1>2, <1>5, <1>12, <1>18, <1>23, PartsLie
<1>25. Lies(a, 0, all) /\ Lies(b, 0 + Len(a), all)
  BY <1>2, <1>4, <1>18, <1>24, PartsLie
<1>26. /\ Lies(a, 0, all) /\ Lies(b, 5, all) /\ Lies(c, 9, all) /\ Lies(d, 11, all)
       /\ Lies(e, 17, all) /\ Lies(f, 19, all) /\ Lies(g, 30, all) /\ Lies(e, 41, all)
  <2>1. /\ 0 + Len(a) = 5 /\ 0 + Len(ab) = 9 /\ 0 + Len(abc) = 11 /\ 0 + Len(abcd) = 17
        /\ 0 + Len(half) = 19 /\ 0 + Len(erased) = 30
    BY <1>2, <1>19
  <2> QED
    BY <1>18, <1>19, <1>20, <1>21, <1>22, <1>23, <1>24, <1>25, <2>1
<1> QED
  BY <1>1, <1>11, <1>18, <1>19, <1>26

LEMMA LineByLine ==
  /\ Lines[1] = Write("11") /\ Lines[2] = Enable /\ Lines[3] = Write("00")
  /\ Lines[4] = Read /\ Lines[5] = Expect("11") /\ Lines[6] = Write("AA")
  /\ Lines[7] = Write("55") /\ Lines[8] = Write("A0") /\ Lines[9] = Write("22")
  /\ Lines[10] = Read /\ Lines[11] = Expect("22") /\ Lines[12] = Write("AA")
  /\ Lines[13] = Write("55") /\ Lines[14] = Write("20") /\ Lines[15] = Write("A0")
  /\ Lines[16] = Write("33") /\ Lines[17] = Write("90") /\ Lines[18] = Read
  /\ Lines[19] = Expect("33") /\ Lines[20] = Write("AA") /\ Lines[21] = Write("55")
  /\ Lines[22] = Write("80") /\ Lines[23] = Write("AA") /\ Lines[24] = Write("55")
  /\ Lines[25] = Write("30") /\ Lines[26] = Read /\ Lines[27] = Write("AA")
  /\ Lines[28] = Write("55") /\ Lines[29] = Write("90") /\ Lines[30] = Expect("FF")
  /\ Lines[31] = Write("AA") /\ Lines[32] = Write("55") /\ Lines[33] = Write("80")
  /\ Lines[34] = Write("AA") /\ Lines[35] = Write("55") /\ Lines[36] = Write("10")
  /\ Lines[37] = Read /\ Lines[38] = Write("AA") /\ Lines[39] = Write("55")
  /\ Lines[40] = Write("90") /\ Lines[41] = Expect("FF") /\ Lines[42] = Read
  /\ Lines[43] = Expect("33")
<1>1. /\ Opening[1] = Write("11") /\ Opening[2] = Enable /\ Opening[3] = Write("00") /\ Opening[4] = Read
      /\ Opening[5] = Expect("11")
      /\ SlowProgram[1] = Write("AA") /\ SlowProgram[2] = Write("55") /\ SlowProgram[3] = Write("A0")
      /\ SlowProgram[4] = Write("22")
  BY Pieces DEF Opening
<1>2. /\ FastProgram[1] = Write("AA") /\ FastProgram[2] = Write("55") /\ FastProgram[3] = Write("20")
      /\ FastProgram[4] = Write("A0") /\ FastProgram[5] = Write("33") /\ FastProgram[6] = Write("90")
      /\ \A b : Check(b)[1] = Read /\ Check(b)[2] = Expect(b)
  BY Pieces DEF Check
<1>3. "30" \in TestByte /\ "10" \in TestByte /\ "22" \in TestByte /\ "33" \in TestByte
  BY DEF TestByte
<1>4. /\ Lines[0 + 1] = Opening[1] /\ Lines[0 + 2] = Opening[2] /\ Lines[0 + 3] = Opening[3]
      /\ Lines[0 + 4] = Opening[4] /\ Lines[0 + 5] = Opening[5]
  BY Pieces, PlacesOfPieces DEF Lies
<1>5. /\ Lines[5 + 1] = SlowProgram[1] /\ Lines[5 + 2] = SlowProgram[2] /\ Lines[5 + 3] = SlowProgram[3]
      /\ Lines[5 + 4] = SlowProgram[4]
  BY Pieces, PlacesOfPieces DEF Lies
<1>6. /\ Lines[11 + 1] = FastProgram[1] /\ Lines[11 + 2] = FastProgram[2] /\ Lines[11 + 3] = FastProgram[3]
      /\ Lines[11 + 4] = FastProgram[4] /\ Lines[11 + 5] = FastProgram[5] /\ Lines[11 + 6] = FastProgram[6]
  BY Pieces, PlacesOfPieces DEF Lies
<1>7. /\ Lines[9 + 1] = Check("22")[1] /\ Lines[9 + 2] = Check("22")[2]
      /\ Lines[17 + 1] = Check("33")[1] /\ Lines[17 + 2] = Check("33")[2]
      /\ Lines[41 + 1] = Check("33")[1] /\ Lines[41 + 2] = Check("33")[2]
  <2>1. Len(Check("22")) = 2 /\ Len(Check("33")) = 2
    BY <1>3, Pieces
  <2> QED
    BY <2>1, PlacesOfPieces DEF Lies
<1>8. ASSUME NEW c \in TestByte, NEW n \in Nat, Lies(Erase(c), n, Lines)
      PROVE  /\ Lines[n + 1] = Write("AA") /\ Lines[n + 2] = Write("55") /\ Lines[n + 3] = Write("80")
             /\ Lines[n + 4] = Write("AA") /\ Lines[n + 5] = Write("55") /\ Lines[n + 6] = Write(c)
             /\ Lines[n + 7] = Read
             /\ Lines[n + 8] = Write("AA") /\ Lines[n + 9] = Write("55") /\ Lines[n + 10] = Write("90")
             /\ Lines[n + 11] = Expect("FF")
  <2>1. \A k \in 1..11 : Lines[n + k] = Erase(c)[k]
    BY <1>8, EraseIs DEF Lies
  <2>2. PICK e : e = Erase(c)
    OBVIOUS
  <2>3. /\ Lines[n + 1] = e[1] /\ Lines[n + 2] = e[2] /\ Lines[n + 3] = e[3] /\ Lines[n + 4] = e[4]
        /\ Lines[n + 5] = e[5] /\ Lines[n + 6] = e[6] /\ Lines[n + 7] = e[7] /\ Lines[n + 8] = e[8]
        /\ Lines[n + 9] = e[9] /\ Lines[n + 10] = e[10] /\ Lines[n + 11] = e[11]
    BY <2>1, <2>2
  <2> QED
    BY <2>2, <2>3, EraseIs
<1>9. /\ Lines[19 + 1] = Write("AA") /\ Lines[19 + 2] = Write("55") /\ Lines[19 + 3] = Write("80")
      /\ Lines[19 + 4] = Write("AA") /\ Lines[19 + 5] = Write("55") /\ Lines[19 + 6] = Write("30")
      /\ Lines[19 + 7] = Read
      /\ Lines[19 + 8] = Write("AA") /\ Lines[19 + 9] = Write("55") /\ Lines[19 + 10] = Write("90")
      /\ Lines[19 + 11] = Expect("FF")
  BY <1>3, <1>8, PlacesOfPieces
<1>10. /\ Lines[30 + 1] = Write("AA") /\ Lines[30 + 2] = Write("55") /\ Lines[30 + 3] = Write("80")
       /\ Lines[30 + 4] = Write("AA") /\ Lines[30 + 5] = Write("55") /\ Lines[30 + 6] = Write("10")
       /\ Lines[30 + 7] = Read
       /\ Lines[30 + 8] = Write("AA") /\ Lines[30 + 9] = Write("55") /\ Lines[30 + 10] = Write("90")
       /\ Lines[30 + 11] = Expect("FF")
  BY <1>3, <1>8, PlacesOfPieces
<1> QED
  BY <1>1, <1>2, <1>4, <1>5, <1>6, <1>7, <1>9, <1>10

\* What is written and read, and where.
LEMMA LineKinds ==
  ASSUME NEW k \in 1..43
  PROVE  /\ Lines[k].do = "enable" => k = 2
         /\ Lines[k].do = "read" => k \in {4, 10, 18, 26, 37, 42}
         /\ Lines[k].do = "expect" => k \in {5, 11, 19, 30, 41, 43}
         /\ Lines[k].do = "write" => k \notin {2, 4, 5, 10, 11, 18, 19, 26, 30, 37, 41, 42, 43}
<1> USE LineByLine DEF Write, Expect, Enable, Read
<1>1. CASE k \in 1..11
  BY <1>1
<1>2. CASE k \in 12..22
  BY <1>2
<1>3. CASE k \in 23..33
  BY <1>3
<1>4. CASE k \in 34..43
  BY <1>4
<1> QED
  BY <1>1, <1>2, <1>3, <1>4

LEMMA LineBytes ==
  /\ Lines[1].value = "11" /\ Lines[3].value = "00" /\ Lines[9].value = "22" /\ Lines[14].value = "20"
  /\ Lines[16].value = "33" /\ Lines[25].value = "30" /\ Lines[36].value = "10"
  /\ \A k \in {6, 12, 20, 23, 27, 31, 34, 38} : Lines[k].value = "AA"
  /\ \A k \in {7, 13, 21, 24, 28, 32, 35, 39} : Lines[k].value = "55"
  /\ \A k \in {8, 15} : Lines[k].value = "A0"
  /\ \A k \in {22, 33} : Lines[k].value = "80"
  /\ \A k \in {17, 29, 40} : Lines[k].value = "90"
  /\ Lines[5].value = "11" /\ Lines[11].value = "22"
  /\ \A k \in {19, 43} : Lines[k].value = "33"
  /\ \A k \in {30, 41} : Lines[k].value = "FF"
  BY LineByLine DEF Write, Expect

-----------------------------------------------------------------------------
(* Running the test.                                                       *)

\* The state of the emulation when the test has come to a line.
StateAt(k) ==
  CASE k \in {7, 13, 21, 24, 28, 32, 35, 39} -> "Wait55"
    [] k \in {8, 14, 22, 25, 29, 33, 36, 40} -> "Cmd"
    [] k = 9                                 -> "SingleWrite"
    [] k \in {15, 17}                        -> "FastMode"
    [] k = 16                                -> "FastModeWrite"
    [] k \in {26, 27, 37, 38}                -> "Erase"
    [] OTHER                                 -> "WaitAA"

\* The byte in the PSRAM.
ByteAt(k) == IF k <= 9 THEN "11" ELSE IF k <= 16 THEN "22" ELSE "33"

\* With the emulation switched on between two commands all goes as it should.
OnScript ==
  /\ reg.enable_flash_emu
  /\ flash_emu_state = StateAt(line) /\ sram_byte = ByteAt(line)
  /\ line \in {5, 11, 19, 43} => result = sram_byte
  /\ line \in (27..30) \cup (38..41) => result = "FF"

LEMMA WriteFollows ==
  ASSUME line \in 3..43, Lines[line].do = "write", flash_emu_state = StateAt(line)
  PROVE  /\ FlashEmuNext(Lines[line].value) = StateAt(line + 1)
         /\ StateAt(line) \in {"SingleWrite", "FastModeWrite"} <=> line \in {9, 16}
<1> DEFINE b == Lines[line].value
<1>1. /\ line \in 3..40 /\ line \notin {4, 5, 10, 11, 18, 19, 26, 30, 37}
  BY LineKinds
<1>2. StateAt(line) \in {"SingleWrite", "FastModeWrite"} <=> line \in {9, 16}
  BY <1>1 DEF StateAt
<1>3. CASE line \in {3, 9, 16, 17, 22, 29, 33, 40}
  <2>1. StateAt(line + 1) = IF line = 16 THEN "FastMode" ELSE "WaitAA"
    BY <1>3 DEF StateAt
  <2>2. line \in {22, 29, 33, 40} => b \in {"80", "90"} /\ StateAt(line) = "Cmd"
    BY LineBytes DEF StateAt
  <2>3. line = 3 => b = "00" /\ StateAt(line) = "WaitAA"
    BY LineBytes DEF StateAt
  <2>4. line = 17 => b = "90" /\ StateAt(line) = "FastMode"
    BY LineBytes DEF StateAt
  <2>5. (line = 9 => StateAt(line) = "SingleWrite") /\ (line = 16 => StateAt(line) = "FastModeWrite")
    BY DEF StateAt
  <2> HIDE DEF b
  <2>6. FlashEmuNext(b) = IF line = 16 THEN "FastMode" ELSE "WaitAA"
    BY <1>3, <2>2, <2>3, <2>4, <2>5 DEF FlashEmuNext
  <2> QED
    BY <1>2, <2>1, <2>6 DEF b
<1>4. CASE line \in {6, 12, 20, 23, 27, 31, 34, 38}
  <2>1. b = "AA" /\ StateAt(line) \in {"WaitAA", "Erase"} /\ StateAt(line + 1) = "Wait55"
    BY <1>4, LineBytes DEF StateAt
  <2> HIDE DEF b
  <2>2. FlashEmuNext(b) = "Wait55"
    BY <2>1 DEF FlashEmuNext
  <2> QED
    BY <1>2, <2>1, <2>2 DEF b
<1>5. CASE line \in {7, 13, 21, 24, 28, 32, 35, 39}
  <2>1. b = "55" /\ StateAt(line) = "Wait55" /\ StateAt(line + 1) = "Cmd"
    BY <1>5, LineBytes DEF StateAt
  <2> HIDE DEF b
  <2>2. FlashEmuNext(b) = "Cmd"
    BY <2>1 DEF FlashEmuNext
  <2> QED
    BY <1>2, <2>1, <2>2 DEF b
<1>6. CASE line \in {8, 14, 15, 25, 36}
  <2>1. /\ line = 8 => b = "A0" /\ StateAt(line) = "Cmd" /\ StateAt(line + 1) = "SingleWrite"
        /\ line = 14 => b = "20" /\ StateAt(line) = "Cmd" /\ StateAt(line + 1) = "FastMode"
        /\ line = 15 => b = "A0" /\ StateAt(line) = "FastMode" /\ StateAt(line + 1) = "FastModeWrite"
        /\ line \in {25, 36} => b \in {"30", "10"} /\ StateAt(line) = "Cmd" /\ StateAt(line + 1) = "Erase"
    BY LineBytes DEF StateAt
  <2> HIDE DEF b
  <2>2. FlashEmuNext(b) = StateAt(line + 1)
    BY <1>6, <2>1 DEF FlashEmuNext
  <2> QED
    BY <1>2, <2>2 DEF b
<1> QED
  BY <1>1, <1>3, <1>4, <1>5, <1>6

\* The safe version and the recovery program leave the emulation alone outside
\* of its test, and the test follows its script if it began on it.
TestInv ==
  /\ pc = "IPL1_SAFE" /\ step \notin InFlashTest => ~reg.enable_flash_emu
  /\ SafeAt("flash test") =>
       /\ line \in 1..44
       /\ line <= 2 => ~clean /\ ~reg.enable_flash_emu
       /\ line = 2 => sram_byte = "11"
       /\ line > 2 /\ clean => OnScript
  /\ FlashTestPasses

\* The registers' writes that leave it alone, whatever they write.
IsRecord(r) == r = [x \in DOMAIN r |-> r[x]] /\ "enable_flash_emu" \in DOMAIN r
Leaves(r, new) == IsRecord(new) /\ new.enable_flash_emu = r.enable_flash_emu

LEMMA EmuKept ==
  ASSUME NEW r, IsRecord(r), NEW v
  PROVE  /\ Leaves(r, RamBank(r, v)) /\ Leaves(r, Rom0Bank(r, v)) /\ Leaves(r, Rom1Bank(r, v))
         /\ Leaves(r, LinearBank(r, v)) /\ Leaves(r, MemoryCtrl(r, v)) /\ Leaves(r, PowCnt(r, v))
  BY DEF Leaves, IsRecord, RamBank, Rom0Bank, Rom1Bank, LinearBank, MemoryCtrl, PowCnt

\* The one that does not.
LEMMA EmuSwitched ==
  ASSUME NEW r \in OpenRegisters
  PROVE  EmuCnt(r, 4).enable_flash_emu /\ ~EmuCnt(r, 0).enable_flash_emu
<1>1. Bit(4, 2) = TRUE
  BY DEF Bit
<1>2. Bit(0, 2) = FALSE
  BY DEF Bit
<1> QED
  BY <1>1, <1>2 DEF EmuCnt, OpenRegisters, Registers

LEMMA TestStart == SafeInit => TestInv
<1> SUFFICES ASSUME SafeInit PROVE TestInv
  OBVIOUS
<1>1. pc = "command"
  BY DEF SafeInit, CartInit, Ipl0Init
<1> QED
  BY <1>1 DEF TestInv, FlashTestPasses, SafeAt

\* Before the safe version runs, the mapper is as at power-on.
LEMMA TestWaits ==
  ASSUME TestInv, LoaderInv, Next, UNCHANGED <<mapper, ipl1, safe>>
  PROVE  TestInv'
<1>1. pc' = pc \/ pc \notin Versions
  BY DEF Versions, Next, Boot, FlashPeriod, DevicePeriod, StoreCommand, SendCommand, Spinwait, ReadHeader,
     ReadFirst, ReadCount, ReadNext, CopyByte, LoopEnd, Jump, Goto, ProgramPolls, ProgramSends,
     ProgramTransfers, ProgramAborts, cpu, Programming, Booting
<1>2. UNCHANGED <<reg, flash_emu_state, step, clean, line, result, sram_byte>>
  BY DEF mapper, ipl1, safe, history, test
<1>3. CASE pc' = pc
  BY <1>2, <1>3 DEF TestInv, FlashTestPasses, OnScript, SafeAt
<1>4. CASE pc \notin Versions
  <2>1. step = "backup" /\ reg = PowerOn
    BY <1>4 DEF LoaderInv
  <2>2. ~reg.enable_flash_emu
    BY <2>1 DEF PowerOn
  <2> QED
    BY <1>2, <2>1, <2>2 DEF TestInv, FlashTestPasses, SafeAt
<1> QED
  BY <1>1, <1>3, <1>4

LEMMA MenuEmu ==
  ASSUME LoaderInv, MenuSteps
  PROVE  pc = "IPL1_SAFE" /\ reg'.enable_flash_emu = reg.enable_flash_emu
<1>1. pc = "IPL1_SAFE" /\ reg \in OpenRegisters /\ reg \in Registers
  <2>1. pc = "IPL1_SAFE"
    BY SafeRegisters DEF MenuSteps, SafeSteps
  <2> QED
    BY <2>1 DEF LoaderInv, RecoveryInv, OpenRegisters, Unlocked
<1>2. IsRecord(reg)
  BY <1>1 DEF IsRecord, Registers
<1>3. CASE RamSize \/ TestForEver \/ WriteEnds \/ EarlierTestFails
  BY <1>1, <1>3 DEF RamSize, TestForEver, WriteEnds, EarlierTestFails, cartVars, mapper
<1>4. CASE StartSafe \/ WritePiece \/ VerifyBank
  <2>1. \E b : reg' = RamBank(reg, b)
    BY <1>4 DEF StartSafe, WritePiece, VerifyBank
  <2> QED
    BY <1>1, <1>2, <2>1, EmuKept DEF Leaves
<1>5. CASE BoardCheck
  <2>1. PICK a : a = MemoryCtrl(reg, 0)
    OBVIOUS
  <2>2. PICK b : b = RamBank(a, 14)
    OBVIOUS
  <2>3. reg' = Rom0Bank(b, 128)
    BY <1>5, <2>1, <2>2 DEF BoardCheck
  <2>4. Leaves(reg, a)
    BY <1>2, <2>1, EmuKept
  <2>5. Leaves(a, b)
    BY <2>2, <2>4, EmuKept DEF Leaves
  <2>6. Leaves(b, reg')
    BY <2>3, <2>5, EmuKept DEF Leaves
  <2> QED
    BY <1>1, <2>4, <2>5, <2>6 DEF Leaves
<1>6. CASE \E p \in {Factory, Updated} : LaunchRecovery(p)
  <2>1. reg' = MemoryCtrl(reg, 1)
    BY <1>6 DEF LaunchRecovery
  <2> QED
    BY <1>1, <1>2, <2>1, EmuKept DEF Leaves
<1>7. CASE ManufacturingTest
  <2>1. PICK a : a = Rom0Bank(reg, 128)
    OBVIOUS
  <2>2. PICK b : b = MemoryCtrl(a, 0)
    OBVIOUS
  <2>3. PICK c : c = RamBank(a, 14)
    OBVIOUS
  <2>4. reg' = RamBank(b, 14) \/ reg' = MemoryCtrl(c, 1)
    BY <1>7, <2>1, <2>2, <2>3 DEF ManufacturingTest
  <2>5. Leaves(reg, a)
    BY <1>2, <2>1, EmuKept
  <2>6. Leaves(a, b) /\ Leaves(a, c)
    BY <2>2, <2>3, <2>5, EmuKept DEF Leaves
  <2>7. Leaves(b, reg') \/ Leaves(c, reg')
    BY <2>4, <2>6, EmuKept DEF Leaves
  <2> QED
    BY <1>1, <2>5, <2>6, <2>7 DEF Leaves
<1>8. CASE TryBoot
  <2>1. PICK a : a = MemoryCtrl(reg, 0)
    OBVIOUS
  <2>2. PICK b : b = Rom0Bank(a, psram_max_bank)
    OBVIOUS
  <2>3. PICK c : c = Rom1Bank(b, psram_max_bank - 12)
    OBVIOUS
  <2>4. PICK d : d = RamBank(c, 0)
    OBVIOUS
  <2>5. reg' = LinearBank(d, psram_max_bank \div 16)
    BY <1>8, <2>1, <2>2, <2>3, <2>4 DEF TryBoot
  <2>6. Leaves(reg, a)
    BY <1>2, <2>1, EmuKept
  <2>7. Leaves(a, b)
    BY <2>2, <2>6, EmuKept DEF Leaves
  <2>8. Leaves(b, c)
    BY <2>3, <2>7, EmuKept DEF Leaves
  <2>9. Leaves(c, d)
    BY <2>4, <2>8, EmuKept DEF Leaves
  <2>10. Leaves(d, reg')
    BY <2>5, <2>9, EmuKept DEF Leaves
  <2> QED
    BY <1>1, <2>6, <2>7, <2>8, <2>9, <2>10 DEF Leaves
<1>9. CASE StartRecovery \/ StartTest
  <2>1. PICK a, b : a = PowCnt(reg, Unlock) /\ b = MemoryCtrl(reg, 1)
    OBVIOUS
  <2>2. reg' = RamBank(a, 14) \/ reg' = RamBank(b, 16)
    BY <1>9, <2>1 DEF StartRecovery, StartTest
  <2>3. Leaves(reg, a) /\ Leaves(reg, b)
    BY <1>2, <2>1, EmuKept
  <2>4. Leaves(a, reg') \/ Leaves(b, reg')
    BY <2>2, <2>3, EmuKept DEF Leaves
  <2> QED
    BY <1>1, <2>3, <2>4 DEF Leaves
<1> QED
  BY <1>3, <1>4, <1>5, <1>6, <1>7, <1>8, <1>9 DEF MenuSteps

LEMMA TestMenu ==
  ASSUME TestInv, FlashInv, LoaderInv, MenuSteps
  PROVE  TestInv'
<1>1. pc = "IPL1_SAFE" /\ reg'.enable_flash_emu = reg.enable_flash_emu
  BY MenuEmu
<1>2. step \notin InFlashTest
  BY DEF MenuSteps, StartSafe, BoardCheck, RamSize, TestForEver, LaunchRecovery, ManufacturingTest, WritePiece,
     WriteEnds, VerifyBank, TryBoot, StartRecovery, EarlierTestFails, StartTest, RunMenu, SafeAt, InFlashTest
<1>3. (~reg.enable_flash_emu /\ ~clean) \/ step = "game"
  BY <1>1, <1>2 DEF TestInv, FlashInv
<1>4. step # "game"
  BY <1>1 DEF MenuSteps, StartSafe, BoardCheck, RamSize, TestForEver, LaunchRecovery, ManufacturingTest, WritePiece,
     WriteEnds, VerifyBank, TryBoot, StartRecovery, EarlierTestFails, StartTest, RunMenu, SafeAt
<1>5. UNCHANGED history
  BY DEF MenuSteps, StartSafe, BoardCheck, RamSize, TestForEver, LaunchRecovery, ManufacturingTest, WritePiece,
     WriteEnds, VerifyBank, TryBoot, StartRecovery, EarlierTestFails, StartTest, Loading, Load, cartVars, ipl1
<1>6. ~clean'
  BY <1>3, <1>4, <1>5 DEF history
<1>7. step' = "flash test" => line' = 1
  BY <1>2 DEF MenuSteps, StartSafe, BoardCheck, RamSize, TestForEver, LaunchRecovery, ManufacturingTest, WritePiece,
     WriteEnds, VerifyBank, TryBoot, StartRecovery, EarlierTestFails, StartTest, Loading, Load, cartVars, ipl1,
     RunMenu, SafeAt, InFlashTest, Failed
<1>8. ~reg'.enable_flash_emu
  BY <1>1, <1>3, <1>4
<1>9. FlashTestPasses'
  BY <1>6 DEF FlashTestPasses
<1>10. /\ 1 \in 1..44 /\ 1 # 2 /\ ~(1 > 2)
  OBVIOUS
<1>11. CASE step' = "flash test"
  <2>1. line' = 1
    BY <1>7, <1>11
  <2> QED
    BY <1>6, <1>8, <1>9, <1>10, <2>1 DEF TestInv
<1>12. CASE step' # "flash test"
  BY <1>8, <1>9, <1>12 DEF TestInv, SafeAt
<1> QED
  BY <1>11, <1>12

\* The test's lines, one kind after the other.
LEMMA LineNow ==
  ASSUME TestInv, NEW do, Testing(do)
  PROVE  /\ pc = "IPL1_SAFE" /\ step = "flash test" /\ line \in 1..43 /\ Lines[line].do = do
         /\ line <= 2 => ~clean /\ ~reg.enable_flash_emu
         /\ line = 2 => sram_byte = "11"
         /\ line > 2 /\ clean => OnScript
<1>1. Len(Lines) = 43
  BY PlacesOfPieces
<1>2. line \in 1..44 /\ line <= Len(Lines) /\ Lines[line].do = do
  BY DEF TestInv, Testing, SafeAt
<1>3. line \in 1..43
  BY <1>1, <1>2
<1> QED
  BY <1>2, <1>3 DEF TestInv, Testing, SafeAt

LEMMA TestWrites ==
  ASSUME TestInv, TestWrite
  PROVE  TestInv'
<1> DEFINE b == Lines[line].value
<1>1. /\ pc = "IPL1_SAFE" /\ step = "flash test" /\ line \in 1..43 /\ Lines[line].do = "write"
      /\ line <= 2 => ~clean /\ ~reg.enable_flash_emu
      /\ line > 2 /\ clean => OnScript
  BY LineNow DEF TestWrite
<1>2. /\ flash_emu_state' = FlashEmuNext(b) /\ sram_byte' = (IF PassWrite THEN b ELSE sram_byte)
      /\ clean' = clean /\ reg' = reg /\ result' = result
      /\ line' = line + 1 /\ step' = step /\ pc' = pc
  BY DEF TestWrite, Remember, history, NextLine, OtherThanTest, vars, cpu, Value
<1>3. line \notin {2, 4, 5, 10, 11, 18, 19, 26, 30, 37, 41, 42, 43}
  BY <1>1, LineKinds
<1>4. line = 1 => sram_byte' = "11"
  <2>1. SUFFICES ASSUME line = 1 PROVE sram_byte' = "11"
    OBVIOUS
  <2>2. 1 <= 2
    OBVIOUS
  <2>3. ~reg.enable_flash_emu
    BY <1>1, <2>1, <2>2
  <2>4. b = "11"
    BY <2>1, LineBytes
  <2> QED
    BY <1>2, <2>3, <2>4 DEF PassWrite
<1>5. ASSUME line > 2, clean
      PROVE  OnScript'
  <2>1. line \in 3..43 /\ OnScript
    <3>1. line \in 1..43
      BY <1>1
    <3>2. line \in 3..43
      BY <3>1, <1>5
    <3> QED
      BY <1>1, <1>5, <3>2
  <2>2. flash_emu_state = StateAt(line) /\ sram_byte = ByteAt(line) /\ reg.enable_flash_emu
    BY <2>1 DEF OnScript
  <2>3. /\ FlashEmuNext(b) = StateAt(line + 1)
        /\ flash_emu_state \in {"SingleWrite", "FastModeWrite"} <=> line \in {9, 16}
    BY <1>1, <2>1, <2>2, WriteFollows
  <2>4. PassWrite <=> line \in {9, 16}
    BY <2>2, <2>3 DEF PassWrite
  <2>5. sram_byte' = ByteAt(line + 1)
    <3>1. CASE line \in {9, 16}
      BY <1>2, <2>4, <3>1, LineBytes DEF ByteAt
    <3>2. CASE line \notin {9, 16}
      <4>1. ByteAt(line + 1) = ByteAt(line)
        BY <2>1, <3>2 DEF ByteAt
      <4> QED
        BY <1>2, <2>2, <2>4, <3>2, <4>1
    <3> QED
      BY <3>1, <3>2
  <2>6. line + 1 \notin {5, 11, 19, 43}
    BY <1>3, <2>1
  <2>7. line + 1 \in (27..30) \cup (38..41) => line \in (27..30) \cup (38..41)
    BY <1>3, <2>1
  <2>8. line' \in (27..30) \cup (38..41) => result' = "FF"
    BY <1>2, <2>1, <2>7 DEF OnScript
  <2>9. flash_emu_state' = StateAt(line') /\ sram_byte' = ByteAt(line') /\ line' \notin {5, 11, 19, 43}
    BY <1>2, <2>3, <2>5, <2>6
  <2> QED
    BY <1>2, <2>2, <2>8, <2>9 DEF OnScript
<1>6. line + 1 \in 1..44 /\ (line + 1 <= 2 => line = 1) /\ (line + 1 = 2 => line = 1) /\ (line + 1 > 2 => line > 2)
      /\ (line = 1 => line <= 2)
  <2>1. line \in 1..43 /\ line # 2
    BY <1>1, <1>3
  <2> QED
    BY <2>1
<1>7. FlashTestPasses'
  BY <1>1, <1>2 DEF FlashTestPasses, SafeAt
<1> QED
  BY <1>1, <1>2, <1>4, <1>5, <1>6, <1>7 DEF TestInv, InFlashTest, SafeAt

LEMMA TestEnables ==
  ASSUME TestInv, LoaderInv, TestEnable
  PROVE  TestInv'
<1>1. /\ pc = "IPL1_SAFE" /\ step = "flash test" /\ line \in 1..43 /\ Lines[line].do = "enable"
      /\ line = 2 => sram_byte = "11"
  BY LineNow DEF TestEnable
<1>2. line = 2
  BY <1>1, LineKinds
<1>3. reg \in OpenRegisters
  <2>1. pc = "IPL1_SAFE"
    BY <1>1
  <2> QED
    BY <2>1 DEF LoaderInv, RecoveryInv, OpenRegisters, Unlocked
<1>4. reg'.enable_flash_emu
  BY <1>3, EmuSwitched DEF TestEnable
<1>5. /\ clean' = (flash_emu_state = "WaitAA") /\ flash_emu_state' = flash_emu_state /\ sram_byte' = sram_byte
      /\ line' = line + 1 /\ step' = step /\ pc' = pc
  BY DEF TestEnable, Forget, NextLine, OtherThanTest, vars, cpu
<1>6. line' = 3
  BY <1>2, <1>5
<1>7. /\ StateAt(3) = "WaitAA" /\ ByteAt(3) = "11" /\ 3 \in 1..44 /\ ~(3 <= 2) /\ 3 # 2
      /\ 3 \notin {5, 11, 19, 43} /\ 3 \notin (27..30) \cup (38..41)
  BY DEF StateAt, ByteAt
<1>8. clean' => OnScript'
  BY <1>1, <1>2, <1>4, <1>5, <1>6, <1>7 DEF OnScript
<1>9. FlashTestPasses'
  BY <1>1, <1>5 DEF FlashTestPasses, SafeAt
<1> QED
  BY <1>1, <1>5, <1>6, <1>7, <1>8, <1>9 DEF TestInv, InFlashTest, SafeAt

LEMMA TestReads ==
  ASSUME TestInv, TestRead
  PROVE  TestInv'
<1>1. /\ pc = "IPL1_SAFE" /\ step = "flash test" /\ line \in 1..43 /\ Lines[line].do = "read"
      /\ line > 2 /\ clean => OnScript
  BY LineNow DEF TestRead
<1>2. line \in {4, 10, 18, 26, 37, 42}
  BY <1>1, LineKinds
<1>3. /\ UNCHANGED <<reg, flash_emu_state, clean, sram_byte>> /\ result' = ReadByte
      /\ line' = line + 1 /\ step' = step /\ pc' = pc
  BY DEF TestRead, NextLine, OtherThanTest, vars, cpu, mapper, history
<1>4. ASSUME clean
      PROVE  OnScript'
  <2>1. flash_emu_state = StateAt(line) /\ sram_byte = ByteAt(line) /\ reg.enable_flash_emu
    <3>1. line > 2
      BY <1>2
    <3>2. OnScript
      BY <1>1, <1>4, <3>1
    <3> QED
      BY <3>2 DEF OnScript
  <2>2. /\ StateAt(line) = IF line \in {26, 37} THEN "Erase" ELSE "WaitAA"
        /\ StateAt(line + 1) = StateAt(line) /\ ByteAt(line + 1) = ByteAt(line)
    BY <1>2 DEF StateAt, ByteAt
  <2>3. ReadByte = IF line \in {26, 37} THEN "FF" ELSE sram_byte
    BY <2>1, <2>2 DEF ReadByte, PassRead
  <2>4. /\ line + 1 \in {5, 11, 19, 43} => line \notin {26, 37}
        /\ line + 1 \in (27..30) \cup (38..41) => line \in {26, 37}
    BY <1>2
  <2>5. /\ line' \in {5, 11, 19, 43} => result' = sram_byte'
        /\ line' \in (27..30) \cup (38..41) => result' = "FF"
    BY <1>3, <2>3, <2>4
  <2>6. flash_emu_state' = StateAt(line') /\ sram_byte' = ByteAt(line')
    BY <1>3, <2>1, <2>2
  <2> QED
    BY <1>3, <2>1, <2>5, <2>6 DEF OnScript
<1>5. line + 1 \in 1..44 /\ ~(line + 1 <= 2) /\ line + 1 # 2
  BY <1>2
<1>6. FlashTestPasses'
  BY <1>1, <1>3 DEF FlashTestPasses, SafeAt
<1> QED
  BY <1>1, <1>3, <1>4, <1>5, <1>6 DEF TestInv, InFlashTest, SafeAt

LEMMA TestExpects ==
  ASSUME TestInv, TestExpect
  PROVE  TestInv'
<1>1. /\ pc = "IPL1_SAFE" /\ step = "flash test" /\ line \in 1..43 /\ Lines[line].do = "expect"
      /\ line > 2 /\ clean => OnScript
  BY LineNow DEF TestExpect
<1>2. line \in {5, 11, 19, 30, 41, 43}
  BY <1>1, LineKinds
<1>3. /\ UNCHANGED <<reg, flash_emu_state, clean, sram_byte, result>> /\ pc' = pc
      /\ \/ result = Lines[line].value /\ line' = line + 1 /\ step' = step
         \/ result # Lines[line].value /\ step' = "test failed"
  BY DEF TestExpect, NextLine, OtherThanTest, vars, cpu, mapper, history, Value
<1>4. ASSUME clean
      PROVE  /\ result = Lines[line].value
             /\ line' = line + 1 => OnScript'
  <2>1. OnScript
    <3>1. line > 2
      BY <1>2
    <3> QED
      BY <1>1, <1>4, <3>1
  <2>2. /\ line = 5 => ByteAt(line) = "11" /\ Lines[line].value = "11"
        /\ line = 11 => ByteAt(line) = "22" /\ Lines[line].value = "22"
        /\ line \in {19, 43} => ByteAt(line) = "33" /\ Lines[line].value = "33"
        /\ line \in {30, 41} => Lines[line].value = "FF"
    BY LineBytes DEF ByteAt
  <2>3. line \in {30, 41} => line \in (27..30) \cup (38..41)
    OBVIOUS
  <2>4. result = Lines[line].value
    BY <1>2, <2>1, <2>2, <2>3 DEF OnScript
  <2>5. /\ StateAt(line + 1) = StateAt(line) /\ ByteAt(line + 1) = ByteAt(line)
        /\ line + 1 \notin {5, 11, 19, 43} /\ line + 1 \notin (27..30) \cup (38..41)
    BY <1>2 DEF StateAt, ByteAt
  <2> QED
    BY <1>3, <2>1, <2>4, <2>5 DEF OnScript
<1>5. line + 1 \in 1..44 /\ ~(line + 1 <= 2) /\ line + 1 # 2
  BY <1>2
<1>6. CASE result = Lines[line].value /\ line' = line + 1 /\ step' = step
  <2>1. FlashTestPasses'
    BY <1>1, <1>3, <1>6 DEF FlashTestPasses, SafeAt
  <2> QED
    BY <1>1, <1>3, <1>4, <1>5, <1>6, <2>1 DEF TestInv, InFlashTest, SafeAt
<1>7. CASE result # Lines[line].value /\ step' = "test failed"
  <2>1. ~clean'
    BY <1>3, <1>4, <1>7
  <2> QED
    BY <1>7, <2>1 DEF TestInv, InFlashTest, SafeAt, FlashTestPasses
<1> QED
  BY <1>3, <1>6, <1>7

LEMMA TestIsOver ==
  ASSUME TestInv, LoaderInv, TestEnds
  PROVE  TestInv'
<1>1. pc = "IPL1_SAFE"
  BY DEF TestEnds, SafeAt
<1>2. reg \in OpenRegisters
  BY <1>1 DEF LoaderInv, RecoveryInv, OpenRegisters, Unlocked
<1>3. PICK r : r = MemoryCtrl(reg, 0)
  OBVIOUS
<1>4. r \in OpenRegisters
  BY <1>2, <1>3, StaysOpen
<1>5. reg' = EmuCnt(r, 0) /\ step' = "recovery"
  BY <1>3 DEF TestEnds
<1>6. ~reg'.enable_flash_emu
  BY <1>4, <1>5, EmuSwitched
<1> QED
  BY <1>5, <1>6 DEF TestInv, FlashTestPasses, SafeAt

LEMMA TestElsewhere ==
  ASSUME TestInv, pc # "IPL1_SAFE", pc' = pc
  PROVE  TestInv'
  BY DEF TestInv, FlashTestPasses, SafeAt

LEMMA TestInvStep ==
  ASSUME TestInv, FlashInv, LoaderInv, [SafeNext]_allVars
  PROVE  TestInv'
<1>1. CASE Next /\ UNCHANGED <<mapper, ipl1, safe>>
  BY <1>1, TestWaits
<1>2. CASE Ipl1
  <2>1. pc # "IPL1_SAFE"
    BY <1>2 DEF Ipl1, BackUp, Warmboot, Restore, Map, CheckContact, Open, ReadPiece, Validate, Run,
       ReportError, Halt, At
  <2>2. pc' = pc
    BY <1>2 DEF Ipl1, BackUp, Warmboot, Restore, Map, CheckContact, Open, ReadPiece, Validate, Run,
       ReportError, Halt, cartVars, vars, cpu
  <2> QED
    BY <2>1, <2>2, TestElsewhere
<1>3. CASE Game
  <2>1. pc # "IPL1_SAFE" /\ pc' = pc
    BY <1>3 DEF Game, WriteReg, WriteByte, At, vars, cpu
  <2> QED
    BY <2>1, TestElsewhere
<1>4. CASE MenuSteps
  BY <1>4, TestMenu
<1>5. CASE TestSteps
  BY <1>5, TestWrites, TestEnables, TestReads, TestExpects, TestIsOver DEF TestSteps
<1>6. CASE KeepTesting \/ UNCHANGED allVars
  <2>1. UNCHANGED <<pc, step, reg, flash_emu_state, clean, line, result, sram_byte>>
    BY <1>6 DEF KeepTesting, allVars, cartVars, vars, cpu, mapper, ipl1, history, safe, test
  <2> QED
    BY <2>1 DEF TestInv, FlashTestPasses, OnScript, SafeAt
<1> QED
  BY <1>1, <1>2, <1>3, <1>4, <1>5, <1>6 DEF SafeNext, CartNext, SafeSteps, MenuSteps, TestSteps

\* The recovery program's test of the flash emulation, its 43 lines after
\* whatever the loader and the menu did, never fails where the emulation was
\* switched on between two commands (tests/flash_fsm.c:55-119,
\* nileswan.sv:592-641).
THEOREM FlashTestIsFair == SafeSpec => []FlashTestPasses
<1>1. SafeInit => FlashInv /\ LoaderInv /\ TestInv
  BY FlashStart, LoaderInit, TestStart
<1>2. FlashInv /\ LoaderInv /\ TestInv /\ [SafeNext]_allVars => FlashInv' /\ LoaderInv' /\ TestInv'
  BY FlashStep, LoaderStep, TestInvStep
<1>3. TestInv => FlashTestPasses
  BY DEF TestInv
<1> QED
  BY <1>1, <1>2, <1>3, PTL DEF SafeSpec

-----------------------------------------------------------------------------
(* Types: the controller and the boot loader.                              *)

Buffers == [Bank -> [Position -> Byte]]

\* The types that the transfer's invariant does not have.
SpiTypes ==
  /\ feedback_async \in [1..2 -> 0..1] /\ start_transfer_clk \in [1..3 -> 0..1]
  /\ abort_req_async \in BOOLEAN /\ abort_req_transfer_clk \in [1..2 -> BOOLEAN]
  /\ running \in BOOLEAN /\ last_period_delay \in BOOLEAN /\ seen_non_filler \in BOOLEAN
  /\ mode \in Modes
  /\ shiftreg \in Byte /\ tx_read \in Byte /\ incoming \in Byte
  /\ rx_buffer \in Buffers /\ tx_buffer \in Buffers
  /\ count \in 0..BufSize

LEMMA SpiTypesAre == TransferInv /\ SpiTypes => SpiTypeOK
  BY DEF TransferInv, RegisterTypes, SpiTypes, SpiTypeOK, Buffers

\* A console's access, with bytes and a mode.
TypedAccess ==
  \/ CartRead
  \/ \E b \in Seq(Byte) : WriteTx(b)
  \/ \E m \in Modes, len \in Position, b \in Bank, start \in BOOLEAN : WriteCnt(m, len, b, start)

TypedUse == (TransferClk /\ incoming' \in Byte) \/ TypedAccess \/ Restart \/ UNCHANGED spi

\* A synchronizer of two.
LEMMA PairOf ==
  ASSUME NEW S, NEW x \in S, NEW y \in S
  PROVE  <<x, y>> \in [1..2 -> S]
  OBVIOUS

\* At power-on.
LEMMA SpiTypesInit == Init => SpiTypes
<1> SUFFICES ASSUME Init PROVE SpiTypes
  OBVIOUS
<1> USE DEF Init
<1>1. rx_buffer \in Buffers /\ tx_buffer \in Buffers /\ shiftreg \in Byte /\ tx_read \in Byte /\ incoming \in Byte
  BY FillerAssumption DEF Buffers
<1>2. feedback_async \in [1..2 -> 0..1] /\ start_transfer_clk \in [1..3 -> 0..1]
  OBVIOUS
<1>3. abort_req_transfer_clk \in [1..2 -> BOOLEAN]
  <2>1. FALSE \in BOOLEAN
    OBVIOUS
  <2> QED
    BY <2>1, PairOf
<1>4. count \in 0..BufSize
  BY SizeAssumption
<1> QED
  BY <1>1, <1>2, <1>3, <1>4 DEF SpiTypes, Modes

\* A period: the buffers are written where they have a place.
LEMMA SpiTypesClock ==
  ASSUME TransferInv, SpiTypes, TransferClk, incoming' \in Byte
  PROVE  SpiTypes'
<1> USE DEF SpiTypes
<1>1. /\ bus_mapped_buffer \in Bank /\ 1 - bus_mapped_buffer \in Bank /\ byte_position \in Position
      /\ NextBytePosition \in Position
  BY NextPosition DEF TransferInv, RegisterTypes, Bank, NextBytePosition
<1>2. UNCHANGED <<feedback_async, abort_req_async, mode, tx_buffer>>
  BY Shifted DEF config, async
<1>3. start_transfer_clk' \in [1..3 -> 0..1]
  <2>1. start_transfer_clk' = <<start_async, start_transfer_clk[1], start_transfer_clk[2]>>
    BY DEF TransferClk, Synchronize
  <2>2. start_async \in 0..1 /\ start_transfer_clk[1] \in 0..1 /\ start_transfer_clk[2] \in 0..1
    BY DEF TransferInv, RegisterTypes
  <2> QED
    BY <2>1, <2>2
<1>4. abort_req_transfer_clk' \in [1..2 -> BOOLEAN]
  <2>1. abort_req_transfer_clk' = <<abort_req_async, abort_req_transfer_clk[1]>>
    BY DEF TransferClk, Synchronize
  <2>2. abort_req_transfer_clk[1] \in BOOLEAN
    OBVIOUS
  <2> QED
    BY <2>1, <2>2
<1>5. running' \in BOOLEAN /\ last_period_delay' \in BOOLEAN
  BY DEF TransferClk, Feedback
<1>6. seen_non_filler' \in BOOLEAN
  BY DEF TransferClk
<1>7. shiftreg' \in Byte
  BY DEF TransferClk
<1>8. tx_read' \in Byte
  <2>1. tx_read' = tx_buffer[1 - bus_mapped_buffer][NextBytePosition]
    BY DEF TransferClk
  <2> QED
    BY <1>1, <2>1 DEF Buffers
<1>9. rx_buffer' \in Buffers
  <2>1. rx_buffer' = rx_buffer \/ rx_buffer' = [rx_buffer EXCEPT ![bus_mapped_buffer][byte_position] = incoming]
    BY DEF TransferClk
  <2>2. PICK row \in [Position -> Byte] : row = rx_buffer[bus_mapped_buffer]
    BY <1>1 DEF Buffers
  <2>3. PICK new \in [Position -> Byte] : new = [row EXCEPT ![byte_position] = incoming]
    OBVIOUS
  <2>4. rx_buffer' = rx_buffer \/ rx_buffer' = [rx_buffer EXCEPT ![bus_mapped_buffer] = new]
    BY <2>1, <2>2, <2>3
  <2> QED
    BY <1>1, <2>4 DEF Buffers
<1>10. count' \in 0..BufSize
  <2>1. CASE LastBit /\ FillerOver
    <3>1. Running
      BY <2>1, NoByteEnds DEF TransferInv, Requested, Ending, Ended
    <3>2. count' = count + 1 /\ count = byte_position
      BY <2>1, <3>1 DEF TransferClk, Running
    <3> QED
      BY <1>1, <3>2, SizeAssumption DEF Position
  <2>2. CASE ~(LastBit /\ FillerOver)
    BY <2>2 DEF TransferClk
  <2> QED
    BY <2>1, <2>2
<1> QED
  BY <1>2, <1>3, <1>4, <1>5, <1>6, <1>7, <1>8, <1>9, <1>10

\* Every use.
LEMMA SpiTypesStep ==
  ASSUME TransferInv, SpiTypes, TypedUse
  PROVE  SpiTypes'
<1>1. CASE TransferClk /\ incoming' \in Byte
  BY <1>1, SpiTypesClock
<1>2. CASE CartRead
  <2>1. feedback_async' = <<feedback_transfer_clk, feedback_async[1]>>
    BY <1>2 DEF CartRead, Sampled
  <2>2. feedback_async' \in [1..2 -> 0..1]
    BY <2>1 DEF TransferInv, RegisterTypes
  <2> QED
    BY <1>2, <2>2 DEF CartRead, SpiTypes, config, async, sequencer, synchronizers
<1>3. ASSUME NEW b \in Seq(Byte), WriteTx(b) PROVE SpiTypes'
  <2>1. bus_mapped_buffer \in Bank
    BY DEF TransferInv, RegisterTypes
  <2>2. ASSUME NEW old \in [Position -> Byte]
        PROVE  [p \in Position |-> IF p + 1 \in DOMAIN b THEN b[p + 1] ELSE old[p]] \in [Position -> Byte]
    OBVIOUS
  <2>3. tx_buffer' \in Buffers
    <3>1. tx_buffer[bus_mapped_buffer] \in [Position -> Byte]
      BY <2>1 DEF SpiTypes, Buffers
    <3>2. PICK new \in [Position -> Byte] :
            new = [p \in Position |-> IF p + 1 \in DOMAIN b THEN b[p + 1] ELSE tx_buffer[bus_mapped_buffer][p]]
      BY <2>2, <3>1
    <3>3. tx_buffer' = [tx_buffer EXCEPT ![bus_mapped_buffer] = new]
      BY <1>3, <3>2 DEF WriteTx
    <3> QED
      BY <2>1, <3>3 DEF SpiTypes, Buffers
  <2> QED
    BY <1>3, <2>3 DEF WriteTx, SpiTypes, config, async, sequencer, synchronizers
<1>4. ASSUME NEW m \in Modes, NEW len \in Position, NEW b \in Bank, NEW start \in BOOLEAN,
             WriteCnt(m, len, b, start)
      PROVE  SpiTypes'
  <2>1. abort_req_async' \in BOOLEAN
    BY <1>4 DEF WriteCnt, SpiTypes, async
  <2>2. mode' \in Modes /\ count' \in 0..BufSize
    BY <1>4, SizeAssumption DEF WriteCnt, SpiTypes, config
  <2> QED
    BY <1>4, <2>1, <2>2 DEF WriteCnt, SpiTypes, sequencer, synchronizers
<1>5. CASE Restart
  <2> USE <1>5 DEF Restart
  <2>1. /\ rx_buffer' \in Buffers /\ tx_buffer' \in Buffers
        /\ shiftreg' \in Byte /\ tx_read' \in Byte /\ incoming' \in Byte
    BY FillerAssumption DEF Buffers
  <2>2. feedback_async' \in [1..2 -> 0..1] /\ start_transfer_clk' \in [1..3 -> 0..1]
    OBVIOUS
  <2>3. abort_req_transfer_clk' \in [1..2 -> BOOLEAN]
    <3>1. FALSE \in BOOLEAN
      OBVIOUS
    <3> QED
      BY <3>1, PairOf
  <2>4. count' \in 0..BufSize
    BY SizeAssumption
  <2> QED
    BY <2>1, <2>2, <2>3, <2>4 DEF SpiTypes, Modes
<1>6. CASE UNCHANGED spi
  BY <1>6 DEF spi, SpiTypes, config, async, sequencer, synchronizers
<1> QED
  BY <1>1, <1>2, <1>3, <1>4, <1>5, <1>6 DEF TypedUse, TypedAccess

\* The boot loader's registers, and the flash while it has it.
FlashTypes == command \in Seq(Byte) /\ at \in 0..HeaderSize + (Sectors + 1) * BufSize /\ incoming \in Byte

CpuTypes ==
  /\ bx \in Images \cup {"none"} /\ cx \in 0..Sectors /\ si \in 0..BufSize
  /\ transfers \in 0..Transfers
  /\ ~Booting => command = << >> /\ at = 0

\* The command is of bytes.
LEMMA CommandTypes ==
  ASSUME bx \in Images
  PROVE  << >> \in Seq(Byte) /\ <<Other>> \in Seq(Byte) /\ ReadCommand(bx) \in Seq(Byte)
<1>1. 0 \in 0..HeaderSize + (Sectors + 1) * BufSize
  BY DoneCounts, SizeAssumption, Ipl0Assumption
<1>2. ImageByte(bx, 0) \in Byte /\ Other \in Byte
  BY <1>1, ImageAssumption, Ipl0Assumption
<1>3. PICK x \in Byte, y \in Byte : x = Other /\ y = [image |-> bx, at |-> 0]
  BY <1>2 DEF ImageByte
<1>4. << >> \in Seq(Byte) /\ <<x>> \in Seq(Byte) /\ <<x, y>> \in Seq(Byte)
  OBVIOUS
<1> QED
  BY <1>3, <1>4 DEF ReadCommand

\* Of the command, and in the image or the buffers after it.
LEMMA BootTypes == TransferInv /\ LoadInv => ram \in Seq(Byte) /\ (Booting => FlashTypes)
<1> SUFFICES ASSUME TransferInv, LoadInv PROVE ram \in Seq(Byte) /\ (Booting => FlashTypes)
  OBVIOUS
<1>1. << >> \in Seq(Byte)
  BY EmptySeq
<1>2. ram \in Seq(Byte)
  BY <1>1, StagePlaces, Zenon DEF LoadInv, Stage, Choosing, Commanding, Heading, Counting, Waiting, Copying,
     Empty, Copied
<1>3. ASSUME Booting PROVE FlashTypes
  <2>1. PICK size0 \in Nat : size0 = Sectors * BufSize
    BY DoneCounts
  <2>2. (Sectors + 1) * BufSize = size0 + BufSize /\ BufSize \in Nat /\ HeaderSize \in 1..BufSize
    BY <2>1, DoneCounts, SizeAssumption, Ipl0Assumption
  <2>3. bx \in Images /\ FlashSends /\ Stage /\ count \in Nat
    BY <1>3 DEF LoadInv, TransferInv, RegisterTypes
  <2>4. ASSUME NEW from \in Nat, NEW n \in 1..BufSize, Reading(from, n), from + n <= HeaderSize + size0 + BufSize
        PROVE  command = ReadCommand(bx) /\ at \in 0..HeaderSize + size0 + BufSize
    <3>1. count <= n /\ at = from + count /\ command = ReadCommand(bx)
      BY <2>4 DEF Reading, AllComes
    <3> QED
      BY <2>2, <2>3, <2>4, <3>1
  <2>5. /\ command \in {<< >>, <<Other>>, ReadCommand(bx)}
        /\ at \in 0..HeaderSize + size0 + BufSize
    <3>1. CASE Choosing
      BY <2>2, <3>1 DEF Choosing
    <3>2. CASE Commanding
      <4>1. command = Sent /\ at = 0
        BY <3>2 DEF Commanding, Sending
      <4>2. command \in {<< >>, <<Other>>, ReadCommand(bx)}
        BY <4>1, Zenon DEF Sent
      <4> QED
        BY <2>1, <2>2, <4>1, <4>2
    <3>3. CASE Heading
      <4>1. Reading(0, HeaderSize)
        BY <3>3, Zenon DEF Heading
      <4>2. 0 \in Nat /\ 0 + HeaderSize <= HeaderSize + size0 + BufSize
        BY <2>1, <2>2
      <4> QED
        BY <2>2, <2>4, <4>1, <4>2, Zenon
    <3>4. CASE Counting
      BY <2>2, <2>4, <3>4, SizeAssumption DEF Counting
    <3>5. CASE Waiting
      <4>1. PICK done \in Nat : done = Done /\ done <= size0
        BY <2>1, <3>5, DoneCounts DEF Waiting
      <4>2. PICK from \in Nat : from = HeaderSize + done
        BY <2>2, <4>1
      <4>3. Reading(from, BufSize) /\ from + BufSize <= HeaderSize + size0 + BufSize /\ BufSize \in 1..BufSize
        BY <2>2, <3>5, <4>1, <4>2, SizeAssumption DEF Waiting
      <4> QED
        BY <2>4, <4>3
    <3>6. CASE Copying
      <4>1. PICK done \in Nat : done = Done /\ done + BufSize <= size0
        BY <2>1, <3>6, DoneCounts, Ipl0Assumption DEF Copying
      <4>2. PICK from \in Nat : from = HeaderSize + done + BufSize
        BY <2>2, <4>1
      <4>3. Reading(from, BufSize) /\ from + BufSize <= HeaderSize + size0 + BufSize /\ BufSize \in 1..BufSize
        BY <2>2, <3>6, <4>1, <4>2, SizeAssumption DEF Copying
      <4> QED
        BY <2>4, <4>3
    <3> QED
      BY <2>3, <3>1, <3>2, <3>3, <3>4, <3>5, <3>6 DEF Stage
  <2>6. at \in 0..HeaderSize + (Sectors + 1) * BufSize
    BY <2>2, <2>5
  <2>7. command \in Seq(Byte)
    BY <2>3, <2>5, CommandTypes
  <2>8. incoming \in Byte
    <3>1. CASE Len(command) = 2
      <4>1. command = ReadCommand(bx)
        BY <2>5, <3>1, CommandLength
      <4>2. command[2].image = bx
        BY <4>1, CommandLength
      <4> QED
        BY <2>3, <2>6, <3>1, <4>2, ImageAssumption DEF FlashSends
    <3>2. CASE Len(command) # 2
      BY <2>3, <3>2, FillerAssumption DEF FlashSends
    <3> QED
      BY <3>1, <3>2
  <2> QED
    BY <2>6, <2>7, <2>8 DEF FlashTypes
<1> QED
  BY <1>2, <1>3

LEMMA BootTypesNext == TransferInv' /\ LoadInv' => ram' \in Seq(Byte) /\ (Booting' => FlashTypes')
<1>1. (TransferInv /\ LoadInv => ram \in Seq(Byte) /\ (Booting => FlashTypes))'
  BY BootTypes, PTL
<1> QED
  BY <1>1

LEMMA CpuTypesInit == SafeInit => CpuTypes /\ SpiTypes
<1> SUFFICES ASSUME SafeInit PROVE CpuTypes /\ SpiTypes
  OBVIOUS
<1>1. Init /\ bx \in Images /\ pc = "command" /\ cx = 0 /\ si = 0 /\ transfers = 0 /\ command = << >> /\ at = 0
  BY DEF SafeInit, CartInit, Ipl0Init
<1> QED
  BY <1>1, SpiTypesInit, SizeAssumption, Ipl0Assumption DEF CpuTypes

\* What the boot loader and the programs do.
LEMMA CpuTypesNext ==
  ASSUME TransferInv, RestInv, LoadInv, SpiTypes, CpuTypes, Next, LoadInv', TransferInv'
  PROVE  CpuTypes' /\ TypedUse
<1> USE DEF CpuTypes
<1>1. /\ bus_mapped_buffer \in Bank /\ 1 - bus_mapped_buffer \in Bank /\ transfer_len \in Position /\ mode \in Modes
      /\ 1 \in Position /\ HeaderSize - 1 \in Position /\ BufSize - 1 \in Position
      /\ "Write" \in Modes /\ "Read" \in Modes /\ TRUE \in BOOLEAN /\ FALSE \in BOOLEAN
  BY SizeAssumption, Ipl0Assumption DEF TransferInv, RegisterTypes, Bank, Position, Modes, SpiTypes
<1>2. ASSUME NEW m \in Modes, NEW len \in Position, NEW b \in Bank, NEW start \in BOOLEAN, WriteCnt(m, len, b, start)
      PROVE  TypedUse
  BY <1>2 DEF TypedUse, TypedAccess
<1>3. CASE FlashPeriod
  <2>1. Booting' /\ TransferClk /\ UNCHANGED cpu
    BY <1>3 DEF FlashPeriod, Booting, cpu
  <2>2. incoming' \in Byte
    BY <2>1, BootTypesNext DEF FlashTypes
  <2> QED
    BY <2>1, <2>2 DEF cpu, TypedUse
<1>4. CASE DevicePeriod
  <2>1. TransferClk /\ UNCHANGED <<cpu, flash>> /\ incoming' \in {Filler, Other, incoming}
    BY <1>4 DEF DevicePeriod
  <2>2. incoming' \in Byte
    BY <2>1, FillerAssumption, Ipl0Assumption DEF SpiTypes
  <2> QED
    BY <2>1, <2>2 DEF cpu, flash, TypedUse, Booting
<1>5. CASE StoreCommand
  <2>1. Booting /\ bx \in Images
    BY <1>5, StagePlaces DEF StoreCommand
  <2>2. WriteTx(ReadCommand(bx)) /\ ReadCommand(bx) \in Seq(Byte)
    BY <1>5, <2>1, CommandTypes DEF StoreCommand
  <2>3. Booting' /\ UNCHANGED <<bx, cx, si, transfers>>
    BY <1>5, Ipl0Assumption DEF StoreCommand, Goto, Booting
  <2> QED
    BY <2>2, <2>3, Zenon DEF TypedUse, TypedAccess
<1>6. CASE SendCommand
  <2>1. TypedUse
    BY <1>1, <1>2, <1>6 DEF SendCommand
  <2>2. Booting' /\ UNCHANGED <<bx, cx, si, transfers>>
    BY <1>6, Ipl0Assumption DEF SendCommand, Goto, Booting
  <2> QED
    BY <2>1, <2>2
<1>7. CASE ReadHeader
  <2>1. TypedUse
    BY <1>1, <1>2, <1>7 DEF ReadHeader
  <2>2. Booting' /\ UNCHANGED <<bx, cx, si, transfers>>
    BY <1>7, Ipl0Assumption DEF ReadHeader, Goto, Booting
  <2> QED
    BY <2>1, <2>2
<1>8. CASE ReadFirst
  <2>1. TypedUse
    BY <1>1, <1>2, <1>8 DEF ReadFirst
  <2>2. Booting' /\ UNCHANGED <<bx, cx, si, transfers>>
    BY <1>8, Ipl0Assumption DEF ReadFirst, Goto, Booting
  <2> QED
    BY <2>1, <2>2
<1>9. CASE ReadNext
  <2>1. TypedUse
    BY <1>1, <1>2, <1>9 DEF ReadNext
  <2>2. Booting' /\ UNCHANGED <<bx, cx, si, transfers>>
    BY <1>9, Ipl0Assumption DEF ReadNext, Goto, Booting
  <2> QED
    BY <2>1, <2>2
<1>10. ASSUME NEW here, NEW next, Spinwait(here, next),
              here \in {"wait command", "wait header", "wait", "last"},
              next \in {"header", "first", "next", "jump"}
       PROVE  CpuTypes' /\ TypedUse
  <2>1. CartRead /\ UNCHANGED <<bx, cx, si, transfers>> /\ Booting'
    BY <1>10, Ipl0Assumption DEF Spinwait, Goto, Booting
  <2> QED
    BY <2>1 DEF TypedUse, TypedAccess
<1>11. CASE ReadCount
  <2>1. CartRead /\ UNCHANGED <<bx, si, transfers>> /\ cx' \in {Sectors, 0} /\ Booting'
    BY <1>11, Ipl0Assumption DEF ReadCount, Booting
  <2> QED
    BY <2>1, Ipl0Assumption DEF TypedUse, TypedAccess
<1>12. CASE CopyByte
  <2>1. CartRead /\ UNCHANGED <<bx, cx, transfers>> /\ si' = si + 1 /\ si < BufSize /\ Booting'
    BY <1>12, Ipl0Assumption DEF CopyByte, Booting
  <2> QED
    BY <2>1, SizeAssumption DEF TypedUse, TypedAccess
<1>13. CASE LoopEnd
  <2>1. UNCHANGED <<spi, bx, transfers>> /\ cx' = cx - 1 /\ si' = 0 /\ Booting'
    BY <1>13, Ipl0Assumption DEF LoopEnd, Booting
  <2>2. cx \in 1..Sectors
    BY <1>13, StagePlaces DEF LoopEnd, Copying
  <2> QED
    BY <2>1, <2>2, SizeAssumption, Ipl0Assumption DEF TypedUse
<1>14. CASE Jump
  BY <1>14 DEF Jump, TypedUse
<1>15. CASE ProgramPolls
  BY <1>15 DEF ProgramPolls, TypedUse, TypedAccess, cpu, flash, Booting
<1>16. CASE ProgramSends
  <2>1. PICK b \in [1..BufSize -> Byte] : b = [p \in 1..BufSize |-> IF p = 1 THEN Filler ELSE Other]
    BY FillerAssumption, Ipl0Assumption
  <2>2. b \in Seq(Byte)
    BY SizeAssumption
  <2>3. WriteTx(b)
    BY <1>16, <2>1 DEF ProgramSends
  <2>4. UNCHANGED <<cpu, flash>>
    BY <1>16 DEF ProgramSends
  <2>5. TypedUse
    BY <2>2, <2>3 DEF TypedUse, TypedAccess
  <2> QED
    BY <2>4, <2>5 DEF cpu, flash, Booting
<1>17. CASE ProgramTransfers
  <2>1. TypedUse
    BY <1>1, <1>2, <1>17 DEF ProgramTransfers
  <2>2. transfers' \in 0..Transfers
    BY <1>17, Ipl0Assumption DEF ProgramTransfers
  <2> QED
    BY <1>17, <2>1, <2>2 DEF ProgramTransfers, flash, Booting
<1>18. CASE ProgramAborts
  <2>1. \E b \in Bank : WriteCnt(mode, transfer_len, b, FALSE)
    BY <1>18 DEF ProgramAborts
  <2>2. TypedUse
    BY <1>1, <1>2, <2>1
  <2> QED
    BY <1>18, <2>2 DEF ProgramAborts, cpu, flash, Booting
<1> QED
  BY <1>3, <1>4, <1>5, <1>6, <1>7, <1>8, <1>9, <1>10, <1>11, <1>12, <1>13, <1>14, <1>15, <1>16, <1>17, <1>18
     DEF Next, Boot

\* Every step of the cartridge.
LEMMA CpuTypesStep ==
  ASSUME TransferInv, RestInv, LoadInv, SpiTypes, CpuTypes, [SafeNext]_allVars
  PROVE  CpuTypes' /\ SpiTypes'
<1>1. TransferInv' /\ LoadInv'
  BY ControllerStep, LoadStep
<1>2. CASE Next
  BY <1>1, <1>2, CpuTypesNext, SpiTypesStep
<1>3. CASE Warmboot
  <2>1. Restart /\ UNCHANGED <<cpu, flash>>
    BY <1>3 DEF Warmboot
  <2> QED
    BY <2>1, SpiTypesStep DEF TypedUse, CpuTypes, cpu, flash, Booting
<1>4. CASE ReportError
  <2>1. WriteCnt("Write", 0, 0, FALSE) /\ UNCHANGED <<cpu, flash>>
    BY <1>4 DEF ReportError
  <2>2. "Write" \in Modes /\ 0 \in Position /\ 0 \in Bank /\ FALSE \in BOOLEAN
    BY SizeAssumption DEF Position, Bank, Modes
  <2>3. TypedUse
    BY <2>1, <2>2, Zenon DEF TypedUse, TypedAccess
  <2> QED
    BY <2>1, <2>3, SpiTypesStep DEF CpuTypes, cpu, flash, Booting
<1>5. CASE UNCHANGED vars
  BY <1>5, SpiTypesStep DEF vars, cpu, flash, TypedUse, CpuTypes, Booting
<1> QED
  BY <1>2, <1>3, <1>4, <1>5, OnlyController

-----------------------------------------------------------------------------
(* Types: the history, the settings, and the buffers that are passed on.   *)

\* A byte that a game or the test writes.
AnyByte == GameByte \cup TestByte

Loadable == {Program(p, t) : p \in {Factory, Updated}, t \in BOOLEAN}
Programs == {NoProgram} \cup Loadable

Passed == {"zero", "state", "junk"}

HistoryTypes == bytes \in Seq(AnyByte) /\ Len(bytes) <= 3 /\ fast \in BOOLEAN /\ clean \in BOOLEAN

SettingTypes ==
  /\ magic \in BOOLEAN /\ wanted \in Programs /\ luck \in 0..Luck
  /\ line \in 1..Len(Lines) + 1
  /\ ipc \in Passed /\ win \in Passed

LEMMA SettingsInit == SafeInit => HistoryTypes /\ SettingTypes
<1> SUFFICES ASSUME SafeInit PROVE HistoryTypes /\ SettingTypes
  OBVIOUS
<1>1. Len(Lines) = 43
  BY PlacesOfPieces
<1>2. bytes = << >> /\ ~fast /\ ~clean /\ bytes \in Seq(AnyByte) /\ Len(bytes) = 0 /\ fast = FALSE /\ clean = FALSE
  BY EmptySeq DEF SafeInit, CartInit
<1>3. magic = FALSE /\ wanted = NoProgram /\ luck = 0 /\ line = 1 /\ ipc = "zero" /\ win = "zero"
  BY DEF SafeInit, CartInit
<1>4. HistoryTypes
  <2>1. fast \in BOOLEAN /\ clean \in BOOLEAN
    BY <1>2
  <2> QED
    BY <1>2, <2>1 DEF HistoryTypes
<1>5. magic \in BOOLEAN
  BY <1>3
<1>7. wanted \in Programs
  BY <1>3, Zenon DEF Programs
<1>8. ipc \in Passed /\ win \in Passed
  BY <1>3 DEF Passed
<1>6. luck \in 0..Luck /\ line \in 1..Len(Lines) + 1
  BY <1>1, <1>3, LuckAssumption
<1> QED
  BY <1>4, <1>5, <1>6, <1>7, <1>8 DEF SettingTypes

\* A byte is remembered, or the history begins again.
LEMMA RememberTypes ==
  ASSUME HistoryTypes, NEW b \in AnyByte, Remember(b)
  PROVE  HistoryTypes'
<1>1. CASE reg.enable_flash_emu
  <2>1. bytes' = Shift(bytes, b) /\ clean' = clean /\ fast' = (fast \/ bytes' = <<"AA", "55", "20">>)
    BY <1>1 DEF Remember, Shift
  <2>2. bytes' \in Seq(AnyByte) /\ Len(bytes') <= 3
    BY <2>1, ShiftKeeps DEF HistoryTypes
  <2>3. fast' \in BOOLEAN
    BY <2>1
  <2> QED
    BY <2>1, <2>2, <2>3 DEF HistoryTypes
<1>2. CASE ~reg.enable_flash_emu
  BY <1>2 DEF Remember, HistoryTypes, history
<1> QED
  BY <1>1, <1>2

LEMMA ForgetTypes == Forget => HistoryTypes'
<1> SUFFICES ASSUME Forget PROVE HistoryTypes'
  OBVIOUS
<1>1. bytes' = << >> /\ bytes' \in Seq(AnyByte) /\ Len(bytes') = 0
  BY EmptySeq DEF Forget
<1>2. fast' \in BOOLEAN
  BY DEF Forget
<1>3. clean' \in BOOLEAN
  BY DEF Forget
<1> QED
  BY <1>1, <1>2, <1>3 DEF HistoryTypes

\* A line that is there has a next one.
LEMMA LineTyped ==
  ASSUME NEW do, Testing(do), line \in 1..Len(Lines) + 1
  PROVE  line + 1 \in 1..Len(Lines) + 1 /\ Value \in TestByte
<1>1. Lines \in Seq(Line) /\ Len(Lines) = 43
  BY PlacesOfPieces
<1>2. line <= Len(Lines)
  BY DEF Testing
<1>3. line \in 1..43
  BY <1>1, <1>2
<1>4. Lines[line] \in Line
  BY <1>1, <1>3, ElementOfSeq
<1> QED
  BY <1>1, <1>3, <1>4 DEF Value, Line

\* Games and the test write bytes; nothing else does.
LEMMA HistoryStep ==
  ASSUME HistoryTypes, SettingTypes, [SafeNext]_allVars
  PROVE  HistoryTypes'
<1>1. CASE UNCHANGED history
  BY <1>1 DEF history, HistoryTypes
<1>2. CASE Ipl1
  <2>1. UNCHANGED history
    BY <1>2 DEF Ipl1, BackUp, Warmboot, Restore, Map, CheckContact, Open, ReadPiece, Validate, Run,
       ReportError, Halt, cartVars, ipl1
  <2> QED
    BY <1>1, <2>1
<1>3. CASE MenuSteps
  <2>1. UNCHANGED history
    BY <1>3 DEF MenuSteps, StartSafe, BoardCheck, RamSize, TestForEver, LaunchRecovery, ManufacturingTest,
       WritePiece, WriteEnds, VerifyBank, TryBoot, StartRecovery, EarlierTestFails, StartTest, Loading, Load,
       cartVars, ipl1
  <2> QED
    BY <1>1, <2>1
<1>4. CASE Game
  BY <1>1, <1>4, RememberTypes, ForgetTypes DEF Game, WriteReg, WriteByte, AnyByte, GameByte
<1>5. CASE TestWrite
  <2>1. Remember(Value) /\ Value \in AnyByte
    BY <1>5, LineTyped DEF TestWrite, AnyByte, SettingTypes
  <2> QED
    BY <2>1, RememberTypes
<1>6. CASE TestEnable
  BY <1>6, ForgetTypes DEF TestEnable
<1>7. CASE TestEnds
  <2>1. bytes' = << >> /\ bytes' \in Seq(AnyByte) /\ Len(bytes') = 0 /\ fast' = FALSE /\ clean' = FALSE
    BY <1>7, EmptySeq DEF TestEnds
  <2>2. fast' \in BOOLEAN /\ clean' \in BOOLEAN
    BY <2>1
  <2> QED
    BY <2>1, <2>2 DEF HistoryTypes
<1>8. CASE TestRead \/ TestExpect
  BY <1>1, <1>8 DEF TestRead, TestExpect
<1>9. CASE (Next /\ UNCHANGED <<mapper, ipl1>>) \/ KeepTesting \/ UNCHANGED allVars
  <2>1. UNCHANGED history
    BY <1>9 DEF KeepTesting, allVars, cartVars, ipl1
  <2> QED
    BY <1>1, <2>1
<1> QED
  BY <1>2, <1>3, <1>4, <1>5, <1>6, <1>7, <1>8, <1>9 DEF SafeNext, CartNext, SafeSteps, MenuSteps

\* The menu, the loader and the recovery program's steps.
LEMMA SettingsMenu ==
  ASSUME SettingTypes, MenuSteps
  PROVE  SettingTypes'
<1> USE DEF SettingTypes
<1>0. 1 \in 1..Len(Lines) + 1
  BY PlacesOfPieces
<1>1. CASE StartSafe \/ BoardCheck
  BY <1>1 DEF StartSafe, BoardCheck, Passed, safe, settings, test
<1>2. CASE RamSize \/ TestForEver
  BY <1>2 DEF RamSize, TestForEver, cartVars, ipl1, safe, settings, test
<1>3. ASSUME NEW p \in {Factory, Updated}, NEW t \in BOOLEAN, Load(Program(p, t))
      PROVE  wanted' \in Programs /\ luck' \in 0..Luck /\ line' = line /\ win' = win
  <2>1. luck' \in 0..Luck
    BY <1>3, LuckAssumption DEF Load
  <2> QED
    BY <1>3, <2>1 DEF Load, Programs, Loadable, test
<1>4. CASE \E p \in {Factory, Updated} : LaunchRecovery(p)
  <2>1. PICK p \in {Factory, Updated} : LaunchRecovery(p)
    BY <1>4
  <2>2. wanted' \in Programs /\ luck' \in 0..Luck /\ line' = line /\ win' = win /\ ipc' = ipc /\ magic' = magic
    BY <1>3, <2>1 DEF LaunchRecovery
  <2> QED
    BY <2>2
<1>5. CASE ManufacturingTest
  <2>1. ipc' \in Passed /\ magic' \in BOOLEAN
    BY <1>5, ZenonT(30) DEF ManufacturingTest, IpcTest, Passed
  <2>2. CASE Load(Program(Factory, TRUE))
    BY <1>3, <2>1, <2>2
  <2>3. CASE UNCHANGED <<vars, step, win, load, history, psram_max_bank, wanted, luck, test>>
    BY <2>1, <2>3 DEF test
  <2> QED
    BY <1>5, <2>2, <2>3 DEF ManufacturingTest
<1>6. CASE WritePiece
  <2>1. luck' \in 0..Luck
    BY <1>6, LuckAssumption DEF WritePiece
  <2> QED
    BY <1>6, <2>1 DEF WritePiece, Loading, settings, test
<1>7. CASE WriteEnds \/ VerifyBank \/ TryBoot
  BY <1>7 DEF WriteEnds, VerifyBank, TryBoot, Loading, settings, test
<1>8. CASE StartRecovery
  <2>1. /\ wanted' = NoProgram /\ magic' = FALSE /\ luck' = 0 /\ ipc' = "zero" /\ win' = win /\ line' = line
    BY <1>8 DEF StartRecovery, test
  <2>2. wanted' \in Programs
    BY <2>1, Zenon DEF Programs
  <2>4. magic' \in BOOLEAN /\ ipc' \in Passed
    BY <2>1 DEF Passed
  <2>3. luck' \in 0..Luck
    BY <2>1, LuckAssumption
  <2> QED
    BY <2>1, <2>2, <2>3, <2>4
<1>9. CASE EarlierTestFails \/ StartTest
  BY <1>0, <1>9 DEF EarlierTestFails, StartTest, safe, settings, test
<1> QED
  BY <1>1, <1>2, <1>4, <1>5, <1>6, <1>7, <1>8, <1>9 DEF MenuSteps

\* And everything else.
LEMMA SettingsStep ==
  ASSUME SettingTypes, [SafeNext]_allVars
  PROVE  SettingTypes'
<1> USE DEF SettingTypes
<1>1. CASE (Next /\ UNCHANGED <<mapper, ipl1>> /\ UNCHANGED safe) \/ KeepTesting \/ UNCHANGED allVars
  BY <1>1 DEF KeepTesting, allVars, cartVars, ipl1, safe, settings, test
<1>2. CASE (Ipl1 \/ Game) /\ UNCHANGED safe
  <2>1. ipc' \in Passed /\ win' \in Passed
    BY <1>2 DEF Ipl1, Game, WriteReg, WriteByte, BackUp, Warmboot, Restore, Map, CheckContact, Open, ReadPiece,
       Validate, Run, ReportError, Halt, cartVars, ipl1, Passed
  <2> QED
    BY <1>2, <2>1 DEF safe, settings, test
<1>3. CASE MenuSteps
  BY <1>3, SettingsMenu
<1>4. CASE TestSteps
  <2>1. 1 \in 1..Len(Lines) + 1
    BY PlacesOfPieces
  <2>2. line' \in 1..Len(Lines) + 1
    BY <1>4, <2>1, LineTyped DEF TestSteps, TestWrite, TestEnable, TestRead, TestExpect, TestEnds, NextLine
  <2> QED
    BY <1>4, <2>2 DEF TestSteps, TestWrite, TestEnable, TestRead, TestExpect, TestEnds, NextLine,
       OtherThanTest, settings
<1> QED
  BY <1>1, <1>2, <1>3, <1>4 DEF SafeNext, CartNext, SafeSteps, MenuSteps, TestSteps

-----------------------------------------------------------------------------
(* Types: the PSRAM and the loaders' counters.                             *)

Content == Written..8 * BankSize - 1
PsramTypes == psram \in [Reached -> [0..BankSize - 1 -> Content]]

LoadTypes ==
  /\ size \in 0..MaxSize /\ offset \in 0..BankSize - 1 /\ bank \in 0..PSRAM_MAX_BANK + 1
  /\ bank_count <= bank_count_max

LEMMA ContentHas ==
  Old \in Content /\ Test \in Content /\ Written \in Content /\ 0..8 * BankSize - 1 \subseteq Content
  BY Sizes DEF Content, Old, Test, Written

LEMMA OldPsramTypes == OldPsram \in [Reached -> [0..BankSize - 1 -> Content]]
  BY ContentHas DEF OldPsram

LEMMA PsramInit == SafeInit => PsramTypes /\ LoadTypes
<1> SUFFICES ASSUME SafeInit PROVE PsramTypes /\ LoadTypes
  OBVIOUS
<1>1. psram = OldPsram /\ size = 0 /\ offset = 0 /\ bank = 0 /\ bank_count = 0 /\ bank_count_max = 0
  BY DEF SafeInit, CartInit
<1> QED
  BY <1>1, OldPsramTypes, Sizes DEF PsramTypes, LoadTypes, PSRAM_MAX_BANK

\* A piece of typed places leaves a typed PSRAM.
LEMMA CopyTypes ==
  ASSUME PsramTypes, NEW piece, CopyToRam(piece),
         \A p \in DOMAIN piece : p \in 0..BankSize - 1 => piece[p] \in Content
  PROVE  PsramTypes'
<1>1. CASE Device(RAM)' = "psram" /\ RomBank(RAM)' \in Reached
  <2>1. PICK n \in Reached : n = RomBank(RAM)'
    BY <1>1
  <2>2. PICK row \in [0..BankSize - 1 -> Content] : row = psram[n]
    BY DEF PsramTypes
  <2>3. PICK new \in [0..BankSize - 1 -> Content] :
          new = [p \in 0..BankSize - 1 |-> IF p \in DOMAIN piece THEN piece[p] ELSE row[p]]
    OBVIOUS
  <2>4. psram' = [psram EXCEPT ![n] = new]
    BY <1>1, <2>1, <2>2, <2>3 DEF CopyToRam
  <2> QED
    BY <2>4 DEF PsramTypes
<1>2. CASE ~(Device(RAM)' = "psram" /\ RomBank(RAM)' \in Reached)
  BY <1>2 DEF CopyToRam, PsramTypes
<1> QED
  BY <1>1, <1>2

\* A piece of the file is of positions in it.
LEMMA FilePieceTypes ==
  ASSUME FileInv, bank <= PSRAM_MAX_BANK, NEW p \in 0..BankSize - 1, offset <= p
  PROVE  FileAt(p) \in Content
<1>1. /\ size \in Nat /\ size <= 4 * BankSize /\ offset \in 0..BankSize - 1 /\ bank \in 252..255
      /\ FileStart <= Come
  BY Sizes DEF FileInv, PSRAM_MAX_BANK
<1>2. FileStart = BankSize * 256 - size /\ FileAt(p) = BankSize * bank + p - FileStart
      /\ Come = BankSize * bank + offset
  BY DEF FileStart, FileAt, Come, Place, PSRAM_MAX_BANK
<1>3. BankSize * bank <= BankSize * 255 /\ BankSize * bank \in Nat
  BY <1>1, Sizes
<1>4. BankSize * bank + p - (BankSize * 256 - size) \in 0..8 * BankSize - 1
  BY <1>1, <1>2, <1>3, Sizes
<1> QED
  BY <1>2, <1>4, ContentHas

\* A piece of a recovery program is of its places in the flash.
LEMMA FlashPieceTypes ==
  ASSUME wanted \in Loadable, psram_max_bank \in {127, 255},
         bank \in psram_max_bank + 1 - wanted.banks..psram_max_bank + 1, bank <= psram_max_bank,
         NEW p \in 0..BankSize - 1
  PROVE  FlashPlace(bank, p) \in Content
<1>1. (wanted.at = 1 /\ wanted.banks = 3) \/ (wanted.at = 4 /\ wanted.banks = 4)
  BY DEF Loadable, Program, Factory, Updated
<1>2. PICK n \in 0..7 : n = wanted.at + bank - (psram_max_bank + 1 - wanted.banks)
  BY <1>1
<1>3. BankSize * n \in Nat /\ BankSize * n <= BankSize * 7
  BY Sizes
<1>4. BankSize * n + p \in 0..8 * BankSize - 1
  BY <1>3, Sizes
<1> QED
  BY <1>2, <1>4, ContentHas DEF FlashPlace

\* Every step that writes to the PSRAM.
LEMMA PsramStep ==
  ASSUME PsramTypes, LoaderInv, [SafeNext]_allVars
  PROVE  PsramTypes'
<1>1. CASE UNCHANGED psram
  BY <1>1 DEF PsramTypes
<1>2. CASE psram' = OldPsram
  BY <1>2, OldPsramTypes DEF PsramTypes
<1>3. CASE CheckContact
  <2>1. PICK piece : piece = [p \in {q \in 0..BankSize - 1 : q % 2 = 0} |-> Test]
    OBVIOUS
  <2>2. CopyToRam(piece) /\ \A p \in DOMAIN piece : piece[p] \in Content
    BY <1>3, <2>1, ContentHas DEF CheckContact
  <2> QED
    BY <2>2, CopyTypes
<1>4. CASE ReadPiece
  <2>1. FileInv /\ bank <= PSRAM_MAX_BANK
    BY <1>4 DEF ReadPiece, LoaderInv, MenuInv
  <2>2. PICK end : end = IF offset < Half THEN Half ELSE BankSize
    OBVIOUS
  <2>3. CopyToRam([p \in offset..end - 1 |-> FileAt(p)]) \/ psram' = psram
    BY <1>4, <2>2 DEF ReadPiece
  <2>4. CASE CopyToRam([p \in offset..end - 1 |-> FileAt(p)])
    <3>1. PICK piece : piece = [p \in offset..end - 1 |-> FileAt(p)]
      OBVIOUS
    <3>2. ASSUME NEW p \in offset..end - 1, p \in 0..BankSize - 1 PROVE FileAt(p) \in Content
      BY <2>1, <3>2, FilePieceTypes
    <3>3. CopyToRam(piece) /\ \A p \in DOMAIN piece : p \in 0..BankSize - 1 => piece[p] \in Content
      BY <2>4, <3>1, <3>2
    <3> QED
      BY <3>3, CopyTypes
  <2> QED
    BY <1>1, <2>3, <2>4
<1>5. ASSUME NEW b, WriteByte(b) PROVE PsramTypes'
  <2>1. PICK shown \in {Written, Old} :
          psram' = psram \/ psram' = [psram EXCEPT ![PSRAM_MAX_BANK][0] = shown]
    BY <1>5 DEF WriteByte
  <2>2. CASE psram' = [psram EXCEPT ![PSRAM_MAX_BANK][0] = shown]
    <3>1. PSRAM_MAX_BANK \in Reached /\ 0 \in 0..BankSize - 1
      BY LastBanks, Sizes DEF PSRAM_MAX_BANK
    <3>2. PICK row \in [0..BankSize - 1 -> Content] : row = psram[PSRAM_MAX_BANK]
      BY <3>1 DEF PsramTypes
    <3>3. PICK new \in [0..BankSize - 1 -> Content] : new = [row EXCEPT ![0] = shown]
      BY ContentHas
    <3>4. psram' = [psram EXCEPT ![PSRAM_MAX_BANK] = new]
      BY <2>2, <3>2, <3>3
    <3> QED
      BY <3>1, <3>4 DEF PsramTypes
  <2> QED
    BY <1>1, <2>1, <2>2
<1>6. CASE ManufacturingTest
  <2>1. \A b \in Reached : [p \in DOMAIN psram[b] |-> Test] \in [0..BankSize - 1 -> Content]
    BY ContentHas DEF PsramTypes
  <2>2. Filled \in [Reached -> [0..BankSize - 1 -> Content]]
    BY <2>1 DEF Filled, PsramTypes
  <2> QED
    BY <1>6, <2>2 DEF ManufacturingTest, PsramTypes
<1>7. CASE WritePiece
  <2>1. /\ wanted \in Loadable /\ psram_max_bank \in {127, 255} /\ bank <= psram_max_bank
        /\ bank \in psram_max_bank + 1 - wanted.banks..psram_max_bank + 1
    BY <1>7 DEF WritePiece, LoaderInv, RecoveryInv, Loadable
  <2>2. \/ CopyToRam([p \in offset..offset + Half - 1 |-> FlashPlace(bank, p)])
        \/ CopyToRam([p \in offset..offset + Half - 1 |-> Test])
        \/ psram' = psram
    BY <1>7 DEF WritePiece
  <2>3. CASE CopyToRam([p \in offset..offset + Half - 1 |-> FlashPlace(bank, p)])
    <3>1. PICK piece : piece = [p \in offset..offset + Half - 1 |-> FlashPlace(bank, p)]
      OBVIOUS
    <3>2. \A p \in 0..BankSize - 1 : FlashPlace(bank, p) \in Content
      BY <2>1, FlashPieceTypes
    <3>3. CopyToRam(piece) /\ \A p \in DOMAIN piece : p \in 0..BankSize - 1 => piece[p] \in Content
      BY <2>3, <3>1, <3>2
    <3> QED
      BY <3>3, CopyTypes
  <2>4. CASE CopyToRam([p \in offset..offset + Half - 1 |-> Test])
    <3>1. PICK piece : piece = [p \in offset..offset + Half - 1 |-> Test]
      OBVIOUS
    <3>2. CopyToRam(piece) /\ \A p \in DOMAIN piece : piece[p] \in Content
      BY <2>4, <3>1, ContentHas
    <3> QED
      BY <3>2, CopyTypes
  <2> QED
    BY <1>1, <2>2, <2>3, <2>4
<1>8. CASE (Next /\ UNCHANGED <<mapper, ipl1>>) \/ KeepTesting \/ UNCHANGED allVars
  <2>1. UNCHANGED psram
    BY <1>8 DEF KeepTesting, allVars, cartVars, ipl1
  <2> QED
    BY <1>1, <2>1
<1>9. CASE \/ BackUp \/ Warmboot \/ Restore \/ Map \/ Open \/ Validate \/ ReportError \/ Halt \/ WriteReg
  BY <1>1, <1>9 DEF BackUp, Warmboot, Restore, Map, Open, Validate, ReportError, Halt, WriteReg, cartVars, ipl1
<1>10. CASE Run \/ TestForEver \/ StartRecovery
  BY <1>2, <1>10 DEF Run, TestForEver, StartRecovery
<1>11. CASE \/ StartSafe \/ BoardCheck \/ RamSize \/ (\E p \in {Factory, Updated} : LaunchRecovery(p))
            \/ WriteEnds \/ VerifyBank \/ TryBoot \/ EarlierTestFails \/ StartTest
  BY <1>1, <1>11 DEF StartSafe, BoardCheck, RamSize, LaunchRecovery, WriteEnds, VerifyBank, TryBoot,
     EarlierTestFails, StartTest, cartVars, ipl1
<1>12. CASE TestSteps
  BY <1>1, <1>12 DEF TestSteps, TestWrite, TestEnable, TestRead, TestExpect, TestEnds, NextLine, OtherThanTest
<1> QED
  BY <1>3, <1>4, <1>5, <1>6, <1>7, <1>8, <1>9, <1>10, <1>11, <1>12 DEF SafeNext, CartNext, SafeSteps, Ipl1, Game,
     TestSteps

\* The counters stay in the file and the banks.
LEMMA LoadTypesStep ==
  ASSUME LoadTypes, LoaderInv, [SafeNext]_allVars
  PROVE  LoadTypes'
<1> USE DEF LoadTypes
<1>1. CASE UNCHANGED load
  BY <1>1 DEF load
<1>2. 0 \in 0..MaxSize /\ 0 \in 0..BankSize - 1 /\ 0 \in 0..PSRAM_MAX_BANK + 1 /\ 0 <= 0
  BY Sizes DEF PSRAM_MAX_BANK
<1>3. CASE Open
  <2>1. ASSUME step' = "read" PROVE LoadTypes'
    <3>1. LoaderInv'
      BY <1>3, Opens, LoaderStep
    <3>2. At("read")'
      BY <1>3, <2>1 DEF Open, At, vars, cpu
    <3>3. FileInv'
      BY <3>1, <3>2 DEF LoaderInv, MenuInv
    <3>4. bank_count' <= bank_count_max'
      <4>1. PICK s \in MinSize..MaxSize :
              /\ bank_count' = 0
              /\ bank_count_max' = (PSRAM_MAX_BANK + 1 - bank') * 2 - (IF offset' >= Half THEN 1 ELSE 0)
              /\ bank' = PSRAM_MAX_BANK - ((s - 1) \div BankSize)
        BY <1>3, <2>1 DEF Open
      <4>2. bank' <= PSRAM_MAX_BANK
        <5>1. (s - 1) \div BankSize \in Nat
          <6>1. s - 1 \in Nat
            BY Sizes
          <6>2. PICK q \in Nat, r \in 0..BankSize - 1 :
                  q = (s - 1) \div BankSize /\ r = (s - 1) % BankSize /\ s - 1 = BankSize * q + r
            BY <6>1, Sizes, Division
          <6> QED
            BY <6>2
        <5> QED
          BY <4>1, <5>1 DEF PSRAM_MAX_BANK
      <4>3. bank' \in 252..256
        BY <3>3 DEF FileInv, PSRAM_MAX_BANK
      <4> QED
        BY <4>1, <4>2, <4>3 DEF PSRAM_MAX_BANK
    <3> QED
      BY <3>3, <3>4, Sizes DEF FileInv, PSRAM_MAX_BANK
  <2> QED
    BY <1>1, <1>3, <2>1 DEF Open
<1>4. CASE ReadPiece
  <2>1. /\ FileInv /\ bank <= PSRAM_MAX_BANK
        /\ size' = size /\ bank_count_max' = bank_count_max /\ bank_count' = bank_count + 1
    BY <1>4 DEF ReadPiece, LoaderInv, MenuInv
  <2>2. bank_count' <= bank_count_max'
    <3>1. PiecesLeft \in Nat /\ PiecesLeft >= 1
      BY <2>1 DEF FileInv, PiecesLeft, PSRAM_MAX_BANK
    <3> QED
      BY <2>1, <3>1 DEF FileInv
  <2>3. offset' \in 0..BankSize - 1 /\ bank' \in 0..PSRAM_MAX_BANK + 1
    <3>1. \/ offset' = Half % BankSize \/ offset' = BankSize % BankSize \/ offset' = offset
      BY <1>4 DEF ReadPiece
    <3>2. bank' \in {bank, bank + 1}
      BY <1>4 DEF ReadPiece
    <3> QED
      BY <2>1, <3>1, <3>2, Sizes DEF PSRAM_MAX_BANK
  <2> QED
    BY <2>1, <2>2, <2>3
<1>5. CASE Run
  BY <1>2, <1>5 DEF Run
<1>6. ASSUME NEW p \in {Factory, Updated}, NEW t, Load(Program(p, t)) PROVE LoadTypes'
  <2>1. Program(p, t).banks \in {3, 4}
    BY DEF Program, Factory, Updated
  <2>2. psram_max_bank \in {127, 255}
    BY DEF LoaderInv, RecoveryInv
  <2>3. PICK n \in {3, 4} : n = Program(p, t).banks
    BY <2>1
  <2>4. bank' = psram_max_bank + 1 - n /\ offset' = 0 /\ UNCHANGED <<size, bank_count, bank_count_max>>
    BY <1>6, <2>3 DEF Load
  <2>5. bank' \in 0..PSRAM_MAX_BANK + 1
    BY <2>2, <2>4 DEF PSRAM_MAX_BANK
  <2> QED
    BY <1>2, <2>4, <2>5
<1>7. CASE (\E p \in {Factory, Updated} : LaunchRecovery(p)) \/ ManufacturingTest
  <2>1. (\E p \in {Factory, Updated}, t \in BOOLEAN : Load(Program(p, t))) \/ UNCHANGED load
    BY <1>7 DEF LaunchRecovery, ManufacturingTest
  <2> QED
    BY <1>1, <1>6, <2>1
<1>8. CASE WritePiece \/ WriteEnds \/ VerifyBank \/ TryBoot
  <2>1. UNCHANGED <<size, bank_count, bank_count_max>>
    BY <1>8 DEF WritePiece, WriteEnds, VerifyBank, TryBoot, Loading
  <2>2. SafeAt("write") \/ SafeAt("verify")
    BY <1>8 DEF WritePiece, WriteEnds, VerifyBank, TryBoot
  <2>3. /\ wanted \in Loadable /\ psram_max_bank \in {127, 255}
        /\ bank \in psram_max_bank + 1 - wanted.banks..psram_max_bank + 1
    BY <2>2 DEF LoaderInv, RecoveryInv, Loadable
  <2>4. wanted.banks = 3 \/ wanted.banks = 4
    BY <2>3 DEF Loadable, Program, Factory, Updated
  <2>5. offset' \in {offset, (offset + Half) % BankSize}
        /\ (bank' \in {bank, psram_max_bank + 1 - wanted.banks} \/ (bank' = bank + 1 /\ bank <= psram_max_bank))
    BY <1>8 DEF WritePiece, WriteEnds, VerifyBank, TryBoot, Failed
  <2>6. (offset + Half) % BankSize \in 0..BankSize - 1
    BY Sizes
  <2>7. bank' \in 0..PSRAM_MAX_BANK + 1
    BY <2>3, <2>4, <2>5 DEF PSRAM_MAX_BANK
  <2> QED
    BY <2>1, <2>5, <2>6, <2>7
<1>9. CASE StartRecovery
  BY <1>2, <1>9 DEF StartRecovery
<1>10. CASE (Next /\ UNCHANGED <<mapper, ipl1>>) \/ KeepTesting \/ UNCHANGED allVars
  <2>1. UNCHANGED load
    BY <1>10 DEF KeepTesting, allVars, cartVars, ipl1
  <2> QED
    BY <1>1, <2>1
<1>11. CASE BackUp \/ Warmboot \/ Restore \/ Map \/ CheckContact \/ Validate \/ ReportError \/ Halt \/ Game
  BY <1>1, <1>11 DEF BackUp, Warmboot, Restore, Map, CheckContact, Validate, ReportError, Halt, Game, WriteReg,
     WriteByte, cartVars, ipl1
<1>12. CASE StartSafe \/ BoardCheck \/ RamSize \/ TestForEver \/ EarlierTestFails \/ StartTest
  BY <1>1, <1>12 DEF StartSafe, BoardCheck, RamSize, TestForEver, EarlierTestFails, StartTest, cartVars, ipl1
<1>13. CASE TestSteps
  BY <1>1, <1>13 DEF TestSteps, TestWrite, TestEnable, TestRead, TestExpect, TestEnds, NextLine, OtherThanTest
<1> QED
  BY <1>3, <1>4, <1>5, <1>7, <1>8, <1>9, <1>10, <1>11, <1>12, <1>13 DEF SafeNext, CartNext, SafeSteps, Ipl1,
     TestSteps

\* Every register, buffer and counter of the cartridge - the SPI controller's,
\* the mapper's, the loaders', the settings and the PSRAM - keeps its type,
\* through IPL0, both versions of IPL1, games and the recovery program
\* (SafeTypeOK; spi.sv, nileswan.sv, ipl0.s, ipl1/src).
THEOREM CartridgeTypes == SafeSpec => []SafeTypeOK
<1> DEFINE Others == TransferInv /\ RestInv /\ LoadInv /\ FlashInv /\ LoaderInv
           Types == SpiTypes /\ CpuTypes /\ HistoryTypes /\ SettingTypes /\ PsramTypes /\ LoadTypes
<1>1. SafeInit => Others /\ Types
  BY ControllerInit, LoadInit, FlashStart, LoaderInit, CpuTypesInit, SettingsInit, PsramInit
<1>2. Others /\ Types /\ [SafeNext]_allVars => Others' /\ Types'
  BY ControllerStep, LoadStep, FlashStep, LoaderStep, CpuTypesStep, HistoryStep, SettingsStep, PsramStep,
     LoadTypesStep
<1>3. Others /\ Types => SafeTypeOK
  <2> SUFFICES ASSUME Others, Types PROVE SafeTypeOK
    OBVIOUS
  <2>1. SpiTypeOK
    BY SpiTypesAre
  <2>2. command \in Seq(Byte) /\ at \in 0..HeaderSize + (Sectors + 1) * BufSize /\ ram \in Seq(Byte)
    <3>1. CASE Booting
      BY <3>1, BootTypes DEF FlashTypes
    <3>2. CASE ~Booting
      <4>1. command = << >> /\ at = 0 /\ ram \in Seq(Byte)
        BY <3>2, BootTypes DEF CpuTypes
      <4>2. 0 \in 0..HeaderSize + (Sectors + 1) * BufSize
        BY DoneCounts, SizeAssumption, Ipl0Assumption
      <4> QED
        BY <4>1, <4>2, EmptySeq
    <3> QED
      BY <3>1, <3>2
  <2>3. TypeOK
    BY <2>1, <2>2 DEF TypeOK, CpuTypes
  <2>4. MapperTypeOK
    BY DEF MapperTypeOK, LoaderInv, FlashInv
  <2>5. CartTypeOK
    BY <2>3, <2>4 DEF CartTypeOK, PsramTypes, Content, LoadTypes, HistoryTypes, SettingTypes, Passed
  <2>6. wanted.at \in 0..7 /\ wanted.banks \in 0..4 /\ wanted.tests \in BOOLEAN
    <3>1. wanted \in Programs
      BY DEF SettingTypes
    <3>2. \A p \in {Factory, Updated}, t \in BOOLEAN :
            Program(p, t).at \in 0..7 /\ Program(p, t).banks \in 0..4 /\ Program(p, t).tests \in BOOLEAN
      BY DEF Program, Factory, Updated
    <3>3. NoProgram.at \in 0..7 /\ NoProgram.banks \in 0..4 /\ NoProgram.tests \in BOOLEAN
      BY DEF NoProgram
    <3>4. CASE wanted = NoProgram
      BY <3>3, <3>4
    <3>5. ASSUME NEW p \in {Factory, Updated}, NEW t \in BOOLEAN, wanted = Program(p, t)
          PROVE  wanted.at \in 0..7 /\ wanted.banks \in 0..4 /\ wanted.tests \in BOOLEAN
      BY <3>2, <3>5
    <3>6. wanted = NoProgram \/ \E p \in {Factory, Updated}, t \in BOOLEAN : wanted = Program(p, t)
      BY <3>1 DEF Programs, Loadable
    <3> QED
      BY <3>4, <3>5, <3>6
  <2>7. psram_max_bank \in {127, 255}
    BY DEF LoaderInv, RecoveryInv
  <2> QED
    BY <2>5, <2>6, <2>7 DEF SafeTypeOK, SettingTypes
<1> QED
  BY <1>1, <1>2, <1>3, PTL DEF SafeSpec
=============================================================================
