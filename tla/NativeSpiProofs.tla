-------------------------- MODULE NativeSpiProofs ---------------------------
(***************************************************************************)
(* Proofs about the native-mode command engine, for every command set,     *)
(* every argument and response length and every FIFO depth.                *)
(***************************************************************************)
EXTENDS NativeSpi, SequenceTheorems, TLAPS

\* A transfer-complete flag is up only while its channel is still enabled:
\* what makes OneOwner inductive, since a flag passes the command on.
FlagsOwned == (tc2 => rxDma) /\ (tc3 => txDma)

\* The inductive invariant behind the two theorems on ownership.
OwnerInv == FlagsOwned /\ OneOwner /\ OneTransmitter

\* The MCU starts in its main loop, which owns everything.
LEMMA OwnerInit == Init => OwnerInv
  BY DEF Init, OwnerInv, FlagsOwned, OneOwner, OneTransmitter, InMain

\* The stages are left and entered as the comment of OneOwner says.
LEMMA OwnerStep == OwnerInv /\ [Next]_vars => OwnerInv'
<1> SUFFICES ASSUME OwnerInv, [Next]_vars PROVE OwnerInv'
  OBVIOUS
<1> USE DEF OwnerInv, FlagsOwned, OneOwner, OneTransmitter, InMain
<1>1. CASE HostStart
  BY <1>1 DEF HostStart, spi, dma, firmware
<1>2. CASE HostSend
  BY <1>2 DEF HostSend, Exchange, dma, firmware
<1>3. CASE HostReceive
  BY <1>3 DEF HostReceive, Exchange, dma, firmware
<1>4. CASE HostModeDone
  BY <1>4 DEF HostModeDone, spi, dma, firmware
<1>5. CASE HostReset
  BY <1>5 DEF HostReset
<1>6. CASE DmaPad
  BY <1>6 DEF DmaPad, dma, firmware
<1>7. CASE DmaTransmit
  BY <1>7 DEF DmaTransmit, firmware
<1>8. CASE DmaReceive
  BY <1>8 DEF DmaReceive
<1>9. CASE SpiIrqByte
  BY <1>9 DEF SpiIrqByte, dma
<1>10. CASE SpiIrqCommand
  BY <1>10 DEF SpiIrqCommand, StopListening, StartCommandRx
<1>11. CASE DmaIrqTransmitted
  BY <1>11 DEF DmaIrqTransmitted, spi, firmware
<1>12. CASE DmaIrqReceived
  BY <1>12 DEF DmaIrqReceived, spi
<1>13. CASE UsbIrq
  BY <1>13 DEF UsbIrq, spi, dma, firmware
<1>14. CASE TaskIdle
  BY <1>14 DEF TaskIdle, spi, dma, firmware
<1>15. CASE TaskClaim
  BY <1>15 DEF TaskClaim, spi, dma
<1>16. CASE ExecuteAndRespond
  BY <1>16 DEF ExecuteAndRespond, spi
<1>17. CASE SwitchToResponse
  BY <1>17 DEF SwitchToResponse, spi, firmware
<1>18. CASE ExecuteMode
  BY <1>18 DEF ExecuteMode, spi
<1>19. CASE SpiInitDone
  BY <1>19 DEF SpiInitDone, firmware
<1>20. CASE Sleep
  BY <1>20 DEF Sleep, spi, dma, firmware
<1>21. CASE UNCHANGED vars
  BY <1>21 DEF vars, spi, dma, firmware
<1>22. QED
  BY <1>1, <1>2, <1>3, <1>4, <1>5, <1>6, <1>7, <1>8, <1>9, <1>10, <1>11, <1>12, <1>13,
     <1>14, <1>15, <1>16, <1>17, <1>18, <1>19, <1>20, <1>21 DEF Next

\* At any time exactly one of the receive interrupt, channel 2, the task's
\* flag, the main loop and channel 3 is entitled to the command and its
\* buffers, whatever the commands and however the handlers interleave.
THEOREM OwnershipIsExclusive == Spec => []OneOwner
<1>1. OwnerInv => OneOwner
  BY DEF OwnerInv
<1>2. QED
  BY OwnerInit, OwnerStep, <1>1, PTL DEF Spec

\* Padding and response are never fed to the transmit register together, and
\* in native mode the line is never left without either.
THEOREM TransmitterIsExclusive == Spec => []OneTransmitter
<1>1. OwnerInv => OneTransmitter
  BY DEF OwnerInv
<1>2. QED
  BY OwnerInit, OwnerStep, <1>1, PTL DEF Spec

\* The buffers are never written by anyone but their owner: the response is
\* left alone while channel 3 reads it, the command and its arguments from the
\* moment they are complete until the main loop has executed them.
THEOREM BuffersAreStable == Spec => BuffersStable
<1> DEFINE Stable == /\ txDma /\ txDma' => UNCHANGED txBuffer
                     /\ pc = "execute" /\ pc' \notin {"boot", "execute"}
                          => UNCHANGED <<cmd, rxBuffer>>
                     /\ idx /\ idx' => UNCHANGED <<cmd, rxBuffer>>
<1>1. OwnerInv /\ [Next]_vars => [Stable]_vars
  <2> SUFFICES ASSUME OwnerInv, Next PROVE Stable
    OBVIOUS
  <2> USE DEF OwnerInv, FlagsOwned, OneOwner, InMain
  <2>1. CASE HostReset
    BY <2>1 DEF HostReset
  <2>2. CASE DmaReceive
    BY <2>2 DEF DmaReceive
  <2>3. CASE SpiIrqCommand
    BY <2>3 DEF SpiIrqCommand, StartCommandRx
  <2>4. CASE DmaIrqReceived
    BY <2>4 DEF DmaIrqReceived
  <2>5. CASE TaskClaim
    BY <2>5 DEF TaskClaim
  <2>6. CASE ExecuteAndRespond
    BY <2>6 DEF ExecuteAndRespond
  <2>7. CASE ExecuteMode
    BY <2>7 DEF ExecuteMode
  <2>8. CASE HostStart \/ HostSend \/ HostReceive \/ HostModeDone \/ DmaPad
    BY <2>8 DEF HostStart, HostSend, HostReceive, HostModeDone, DmaPad, firmware
  <2>9. CASE DmaTransmit \/ DmaIrqTransmitted \/ UsbIrq \/ TaskIdle \/ SwitchToResponse
    BY <2>9 DEF DmaTransmit, DmaIrqTransmitted, UsbIrq, TaskIdle, SwitchToResponse, firmware
  <2>10. CASE SpiIrqByte \/ SpiInitDone \/ Sleep
    BY <2>10 DEF SpiIrqByte, SpiInitDone, Sleep, firmware
  <2>11. QED
    BY <2>1, <2>2, <2>3, <2>4, <2>5, <2>6, <2>7, <2>8, <2>9, <2>10 DEF Next
<1>2. QED
  BY OwnerInit, OwnerStep, <1>1, PTL DEF Spec, BuffersStable

-----------------------------------------------------------------------------
(* Type correctness.                                                       *)

\* A console that is sending still has a byte to send.
Sending == host = "sending" => toSend # << >>

TypeInv == TypeOK /\ Sending

\* The filler byte, and the bytes of a command word, are bytes.
LEMMA FillerIsByte == FF \in Byte
  BY DEF Byte

\* Both halves of a command word.
LEMMA CommandBytes ==
  ASSUME NEW c \in Cmd
  PROVE  Low(c) \in Byte /\ High(c) \in Byte
  BY DEF Byte, Low, High

\* Whatever two bytes the console sends, a command word comes out.
LEMMA DecodeType ==
  ASSUME NEW low, NEW high
  PROVE  Decode(low, high) \in Cmd
  BY CommandAssumption DEF Decode, CommandAssumption

\* Every response is a byte string: both header bytes fit in eight bits.
LEMMA ResponseType ==
  ASSUME NEW c \in Cmd, c \notin Silent, NEW args \in Seq(Byte)
  PROVE  Response(c, args) \in Seq(Byte)
<1> DEFINE n == TxLen[c]
<1>1. n \in Int /\ -1 <= n /\ n < 32768
  BY CommandAssumption DEF CommandAssumption, Silent
<1>2. HeaderOf(n) \in Seq(Byte)
  <2>1. CASE n = -1
    <3>1. HeaderOf(n) = <<Header(1), Header(0)>>
      BY <2>1 DEF HeaderOf
    <3>2. Header(1) \in Byte /\ Header(0) \in Byte
      BY DEF Byte, Header, Octet
    <3>3. QED
      BY <3>1, <3>2
  <2>2. CASE n # -1
    <3> DEFINE lo == (2 * n) % 256
               hi == (2 * n) \div 256
    <3>1. HeaderOf(n) = <<Header(lo), Header(hi)>>
      BY <2>2 DEF HeaderOf
    <3>2. lo \in Octet /\ hi \in Octet
      BY <1>1, <2>2 DEF Octet
    <3>3. Header(lo) \in Byte /\ Header(hi) \in Byte
      BY <3>2 DEF Byte, Header, Octet
    <3>4. QED
      BY <3>1, <3>3
  <2>3. QED
    BY <2>1, <2>2
<1>3. CASE c \in Echo
  BY <1>2, <1>3 DEF Response
<1>4. CASE c \notin Echo
  <2> DEFINE data == [i \in 1..n |-> Data(c, i)]
  <2>1. \A i \in 1..n : Data(c, i) \in Byte
    BY <1>1 DEF Byte, Data
  <2>2. data \in Seq(Byte)
    <3>1. CASE n = -1
      BY <3>1
    <3>2. CASE n \in Nat
      BY <3>2, <2>1
    <3>3. QED
      BY <1>1, <3>1, <3>2
  <2>3. QED
    BY <1>2, <1>4, <2>2 DEF Response
<1>5. QED
  BY <1>3, <1>4

\* The bytes the console sends for a request.
LEMMA RequestBytes ==
  ASSUME NEW r \in Request, ArgByte \subseteq Byte
  PROVE  /\ r.cmd \in Cmd
         /\ <<Low(r.cmd), High(r.cmd)>> \o r.args \in Seq(Byte)
         /\ <<Low(r.cmd), High(r.cmd)>> \o r.args # << >>
<1>1. PICK c \in Cmd : r \in [cmd : {c}, args : ArgsOf(c)]
  BY DEF Request
<1>2. r.cmd = c /\ r.args \in [1..RxLen[c] -> ArgByte]
  BY <1>1 DEF ArgsOf
<1>3. RxLen[c] \in Nat
  BY CommandAssumption DEF CommandAssumption
<1>4. r.args \in Seq(Byte)
  BY <1>2, <1>3
<1>5. <<Low(c), High(c)>> \in Seq(Byte)
  BY CommandBytes
<1>6. QED
  BY <1>2, <1>4, <1>5

\* The facts about constants that every step uses.
LEMMA ConstantFacts ==
  /\ FF \in Byte /\ ArgByte \subseteq Byte /\ Unknown \in Cmd
  /\ FifoDepth \in Nat /\ 0 < FifoDepth
  /\ << >> \in Seq(Byte) /\ Len(<< >>) = 0
<1>1. FF \in Byte /\ ArgByte \subseteq Byte
  BY DEF Byte
<1>2. Unknown \in Cmd
  BY CommandAssumption DEF CommandAssumption
<1>3. FifoDepth \in Nat /\ 0 < FifoDepth
  BY FifoAssumption DEF FifoAssumption
<1>4. << >> \in Seq(Byte) /\ Len(<< >>) = 0
  OBVIOUS
<1>5. QED
  BY <1>1, <1>2, <1>3, <1>4

\* Every command has a number of argument bytes.
LEMMA RxLenType == \A c \in Cmd : RxLen[c] \in Nat
<1>1. RxLen \in [Cmd -> Nat]
  BY CommandAssumption DEF CommandAssumption
<1>2. QED
  BY <1>1

\* Every command without a response enters a mode.
LEMMA ModeType == \A c \in Silent : ModeOf[c] \in Mode
<1>1. ModeOf \in [Silent -> Mode]
  BY CommandAssumption DEF CommandAssumption
<1>2. QED
  BY <1>1

\* What taking a byte off a queue, and putting one on, does to its type.
LEMMA HeadTail ==
  ASSUME NEW s \in Seq(Byte), s # << >>
  PROVE  /\ Head(s) \in Byte /\ Tail(s) \in Seq(Byte)
         /\ Len(Tail(s)) = Len(s) - 1 /\ Len(s) > 0 /\ Len(s) \in Nat
  OBVIOUS

\* Queueing a byte makes a queue of bytes one longer.
LEMMA Appended ==
  ASSUME NEW s \in Seq(Byte), NEW b \in Byte
  PROVE  Append(s, b) \in Seq(Byte) /\ Len(Append(s, b)) = Len(s) + 1 /\ Len(s) \in Nat
  OBVIOUS

\* The initial state is typed.
LEMMA TypeInit == Init => TypeInv
<1> SUFFICES ASSUME Init PROVE TypeInv
  OBVIOUS
<1>1. FlagTypeOK
  BY DEF Init, FlagTypeOK
<1>2. FifoTypeOK
  BY ConstantFacts DEF Init, FifoTypeOK
<1>3. BufferTypeOK
  BY ConstantFacts DEF Init, BufferTypeOK
<1>4. FirmwareTypeOK
  BY ConstantFacts DEF Init, FirmwareTypeOK, Mode
<1>5. ConsoleTypeOK /\ Sending
  BY DEF Init, ConsoleTypeOK, Sending
<1>6. QED
  BY <1>1, <1>2, <1>3, <1>4, <1>5 DEF TypeInv, TypeOK

\* Flags stay flags.
LEMMA FlagTypeStep == TypeInv /\ [Next]_vars => FlagTypeOK'
<1> SUFFICES ASSUME TypeInv, [Next]_vars PROVE FlagTypeOK'
  OBVIOUS
<1> USE DEF TypeInv, TypeOK, FlagTypeOK
<1>1. CASE HostReset
  BY <1>1 DEF HostReset, spi, dma, firmware
<1>2. CASE DmaTransmit
  BY <1>2 DEF DmaTransmit, spi, dma, firmware
<1>3. CASE DmaReceive
  BY <1>3 DEF DmaReceive, spi, dma, firmware
<1>4. CASE SpiIrqByte
  BY <1>4 DEF SpiIrqByte, spi, dma, firmware
<1>5. CASE SpiIrqCommand
  BY <1>5 DEF SpiIrqCommand, StopListening, StartCommandRx, spi, dma, firmware
<1>6. CASE DmaIrqTransmitted
  BY <1>6 DEF DmaIrqTransmitted, spi, dma, firmware
<1>7. CASE DmaIrqReceived
  BY <1>7 DEF DmaIrqReceived, spi, dma, firmware
<1>8. CASE UsbIrq
  BY <1>8 DEF UsbIrq, spi, dma, firmware
<1>9. CASE TaskClaim
  BY <1>9 DEF TaskClaim, spi, dma, firmware
<1>10. CASE SwitchToResponse
  BY <1>10 DEF SwitchToResponse, spi, dma, firmware
<1>11. CASE ExecuteMode
  BY <1>11 DEF ExecuteMode, spi, dma, firmware
<1>12. CASE SpiInitDone
  BY <1>12 DEF SpiInitDone, spi, dma, firmware
<1>13. CASE Sleep
  BY <1>13 DEF Sleep, spi, dma, firmware
<1>14. CASE HostStart \/ HostSend \/ HostReceive \/ HostModeDone \/ DmaPad
  BY <1>14 DEF HostStart, HostSend, HostReceive, HostModeDone, DmaPad, spi, dma, firmware,
    Exchange
<1>15. CASE TaskIdle \/ ExecuteAndRespond
  BY <1>15 DEF TaskIdle, ExecuteAndRespond, spi, dma, firmware, Exchange
<1>16. CASE UNCHANGED vars
  BY <1>16 DEF vars, spi, dma, firmware, Exchange
<1>17. QED
  BY <1>1, <1>2, <1>3, <1>4, <1>5, <1>6, <1>7, <1>8, <1>9, <1>10, <1>11, <1>12, <1>13, <1>14,
    <1>15, <1>16 DEF Next

\* The FIFOs hold bytes, and never more than fit.
LEMMA FifoTypeStep == TypeInv /\ [Next]_vars => FifoTypeOK'
<1> SUFFICES ASSUME TypeInv, [Next]_vars PROVE FifoTypeOK'
  OBVIOUS
<1> USE DEF TypeInv, TypeOK, FifoTypeOK
<1>1. CASE HostSend
  <2>1. Head(toSend) \in Byte
    BY <1>1, HeadTail DEF HostSend, ConsoleTypeOK, Sending
  <2>2. txFifo' \in Seq(Byte) /\ Len(txFifo') <= FifoDepth
    BY <1>1, HeadTail, ConstantFacts DEF HostSend, Exchange
  <2>3. rxFifo' \in Seq(Byte) /\ Len(rxFifo') <= FifoDepth
    BY <1>1, <2>1, Appended, ConstantFacts DEF HostSend, Exchange
  <2>4. QED
    BY <2>2, <2>3
<1>2. CASE HostReceive
  <2>1. txFifo' \in Seq(Byte) /\ Len(txFifo') <= FifoDepth
    BY <1>2, HeadTail, ConstantFacts DEF HostReceive, Exchange
  <2>2. rxFifo' \in Seq(Byte) /\ Len(rxFifo') <= FifoDepth
    BY <1>2, Appended, ConstantFacts DEF HostReceive, Exchange
  <2>3. QED
    BY <2>1, <2>2
<1>3. CASE HostReset
  BY <1>3, ConstantFacts DEF HostReset
<1>4. CASE DmaPad
  BY <1>4, Appended, ConstantFacts DEF DmaPad
<1>5. CASE DmaTransmit
  <2>1. txBuffer[txPos + 1] \in Byte
    BY <1>5 DEF DmaTransmit, BufferTypeOK
  <2>2. QED
    BY <1>5, <2>1, Appended, ConstantFacts DEF DmaTransmit
<1>6. CASE DmaReceive
  BY <1>6, HeadTail, ConstantFacts DEF DmaReceive
<1>7. CASE SpiIrqByte
  BY <1>7, HeadTail, ConstantFacts DEF SpiIrqByte
<1>8. CASE SpiIrqCommand
  BY <1>8, HeadTail, ConstantFacts DEF SpiIrqCommand
<1>9. CASE ExecuteMode
  <2>1. CASE UNCHANGED spi
    BY <2>1 DEF spi
  <2>2. CASE rxFifo' = << >> /\ txFifo' = << >>
    BY <2>2, ConstantFacts
  <2>3. QED
    BY <1>9, <2>1, <2>2 DEF ExecuteMode
<1>10. CASE HostStart \/ HostModeDone \/ DmaIrqTransmitted \/ DmaIrqReceived \/ UsbIrq
  BY <1>10 DEF HostStart, HostModeDone, DmaIrqTransmitted, DmaIrqReceived, UsbIrq, spi
<1>11. CASE TaskIdle \/ TaskClaim \/ ExecuteAndRespond \/ SwitchToResponse \/ SpiInitDone
  BY <1>11 DEF TaskIdle, TaskClaim, ExecuteAndRespond, SwitchToResponse, SpiInitDone, spi
<1>12. CASE Sleep
  BY <1>12 DEF Sleep, spi
<1>13. CASE UNCHANGED vars
  BY <1>13 DEF vars, spi
<1>14. QED
  BY <1>1, <1>2, <1>3, <1>4, <1>5, <1>6, <1>7, <1>8, <1>9, <1>10, <1>11, <1>12, <1>13 DEF Next

\* Channel 3 never reads past the response.
LEMMA BufferTypeStep == TypeInv /\ [Next]_vars => BufferTypeOK'
<1> SUFFICES ASSUME TypeInv, [Next]_vars PROVE BufferTypeOK'
  OBVIOUS
<1> USE DEF TypeInv, TypeOK, BufferTypeOK
<1>1. CASE HostReset
  BY <1>1, ConstantFacts DEF HostReset
<1>2. CASE DmaTransmit
  BY <1>2 DEF DmaTransmit, firmware
<1>3. CASE DmaReceive
  <2>1. Head(rxFifo) \in Byte
    BY <1>3, HeadTail DEF DmaReceive, FifoTypeOK
  <2>2. rxBuffer' \in Seq(Byte)
    BY <1>3, <2>1, Appended DEF DmaReceive
  <2>3. rxLeft' \in Nat
    BY <1>3 DEF DmaReceive
  <2>4. QED
    BY <1>3, <2>2, <2>3 DEF DmaReceive
<1>4. CASE SpiIrqCommand
  BY <1>4, DecodeType, RxLenType, ConstantFacts DEF SpiIrqCommand, StartCommandRx
<1>5. CASE ExecuteAndRespond
  <2>1. Response(cmd, rxBuffer) \in Seq(Byte)
    BY <1>5, ResponseType DEF ExecuteAndRespond, FirmwareTypeOK
  <2>2. 0 <= Len(Response(cmd, rxBuffer))
    BY <2>1
  <2>3. QED
    BY <1>5, <2>1, <2>2 DEF ExecuteAndRespond, ConfigureTransmit
<1>6. CASE HostStart \/ HostSend \/ HostReceive \/ HostModeDone \/ DmaPad
  BY <1>6 DEF HostStart, HostSend, HostReceive, HostModeDone, DmaPad, dma, firmware
<1>7. CASE SpiIrqByte \/ DmaIrqTransmitted \/ DmaIrqReceived \/ UsbIrq \/ TaskIdle
  BY <1>7 DEF SpiIrqByte, DmaIrqTransmitted, DmaIrqReceived, UsbIrq, TaskIdle, dma, firmware
<1>8. CASE TaskClaim \/ SwitchToResponse \/ ExecuteMode \/ SpiInitDone \/ Sleep
  BY <1>8 DEF TaskClaim, SwitchToResponse, ExecuteMode, SpiInitDone, Sleep, dma, firmware
<1>9. CASE UNCHANGED vars
  BY <1>9 DEF vars, dma, firmware
<1>10. QED
  BY <1>1, <1>2, <1>3, <1>4, <1>5, <1>6, <1>7, <1>8, <1>9 DEF Next

\* The mode, the half word, the command and the place in the main loop.
LEMMA FirmwareTypeStep == TypeInv /\ [Next]_vars => FirmwareTypeOK'
<1> SUFFICES ASSUME TypeInv, [Next]_vars PROVE FirmwareTypeOK'
  OBVIOUS
<1> USE DEF TypeInv, TypeOK, FirmwareTypeOK
<1>1. CASE HostReset
  BY <1>1, ConstantFacts DEF HostReset, Mode
<1>2. CASE SpiIrqByte
  <2>1. queue' \in Byte
    BY <1>2, HeadTail DEF SpiIrqByte, FifoTypeOK
  <2>2. QED
    BY <1>2, <2>1 DEF SpiIrqByte
<1>3. CASE SpiIrqCommand
  BY <1>3, DecodeType, ConstantFacts DEF SpiIrqCommand, EndPairing
<1>4. CASE TaskIdle
  BY <1>4 DEF TaskIdle, firmware
<1>5. CASE TaskClaim
  BY <1>5 DEF TaskClaim
<1>6. CASE ExecuteAndRespond
  BY <1>6 DEF ExecuteAndRespond
<1>7. CASE SwitchToResponse
  BY <1>7 DEF SwitchToResponse, firmware
<1>8. CASE ExecuteMode
  BY <1>8, ModeType DEF ExecuteMode
<1>9. CASE SpiInitDone
  BY <1>9 DEF SpiInitDone, firmware
<1>10. CASE Sleep
  BY <1>10 DEF Sleep, firmware
<1>11. CASE HostStart \/ HostSend \/ HostReceive \/ HostModeDone \/ DmaPad
  BY <1>11 DEF HostStart, HostSend, HostReceive, HostModeDone, DmaPad, firmware
<1>12. CASE DmaTransmit \/ DmaReceive \/ DmaIrqTransmitted \/ DmaIrqReceived \/ UsbIrq
  BY <1>12 DEF DmaTransmit, DmaReceive, DmaIrqTransmitted, DmaIrqReceived, UsbIrq, firmware
<1>13. CASE UNCHANGED vars
  BY <1>13 DEF vars, firmware
<1>14. QED
  BY <1>1, <1>2, <1>3, <1>4, <1>5, <1>6, <1>7, <1>8, <1>9, <1>10, <1>11, <1>12, <1>13 DEF Next

\* What the console sends and receives are bytes, and it runs out of none.
LEMMA ConsoleTypeStep == TypeInv /\ [Next]_vars => (ConsoleTypeOK /\ Sending)'
<1> SUFFICES ASSUME TypeInv, [Next]_vars PROVE (ConsoleTypeOK /\ Sending)'
  OBVIOUS
<1> USE DEF TypeInv, TypeOK, ConsoleTypeOK, Sending
<1>1. CASE HostStart
  <2>1. PICK r \in Request : request' = r /\ toSend' = <<Low(r.cmd), High(r.cmd)>> \o r.args
    BY <1>1 DEF HostStart
  <2>2. toSend' \in Seq(Byte) /\ toSend' # << >>
    BY <2>1, RequestBytes, ConstantFacts
  <2>3. executed' = << >> /\ executed' \in Seq([cmd : Cmd, args : Seq(Byte)])
    BY <1>1 DEF HostStart
  <2>4. QED
    BY <1>1, <2>1, <2>2, <2>3, ConstantFacts DEF HostStart
<1>2. CASE HostSend
  <2>1. toSend' \in Seq(Byte) /\ (Len(toSend) > 1 => toSend' # << >>)
    <3>1. toSend' = Tail(toSend) /\ toSend \in Seq(Byte) /\ toSend # << >>
      BY <1>2 DEF HostSend
    <3>2. toSend' \in Seq(Byte) /\ Len(toSend') = Len(toSend) - 1 /\ Len(toSend) \in Nat
      BY <3>1, HeadTail
    <3>3. toSend' = << >> => Len(toSend') = 0
      OBVIOUS
    <3>4. QED
      BY <3>2, <3>3
  <2>2. host' \in {"sending", "waiting", "polling"} /\ (host' = "sending" => Len(toSend) > 1)
    BY <1>2 DEF HostSend
  <2>3. UNCHANGED <<request, received, answer, executed>>
    BY <1>2 DEF HostSend
  <2>4. QED
    BY <2>1, <2>2, <2>3
<1>3. CASE HostReceive
  <2> DEFINE got == IF received = << >> /\ Head(txFifo) = FF THEN received
                    ELSE Append(received, Head(txFifo))
  <2>1. got \in Seq(Byte)
    BY <1>3, HeadTail, Appended DEF HostReceive, Exchange, FifoTypeOK
  <2>2. received' = got /\ answer' \in {got, answer} /\ request' \in {NoRequest, request}
    BY <1>3 DEF HostReceive
  <2>3. host' \in {"idle", "polling"} /\ UNCHANGED <<toSend, executed>>
    BY <1>3 DEF HostReceive
  <2>4. QED
    <3> HIDE DEF got
    <3> QED
      BY <2>1, <2>2, <2>3
<1>4. CASE HostModeDone
  BY <1>4 DEF HostModeDone
<1>5. CASE HostReset
  <2>1. executed' = << >> /\ executed' \in Seq([cmd : Cmd, args : Seq(Byte)])
    BY <1>5 DEF HostReset
  <2>2. QED
    BY <1>5, <2>1, ConstantFacts DEF HostReset
<1>6. CASE ExecuteAndRespond
  <2> DEFINE e == [cmd |-> cmd, args |-> IF RxLen[cmd] = 0 THEN << >> ELSE rxBuffer]
  <2>1. e \in [cmd : Cmd, args : Seq(Byte)]
    BY ConstantFacts DEF FirmwareTypeOK, BufferTypeOK
  <2>2. executed' = Append(executed, e)
    BY <1>6 DEF ExecuteAndRespond, Executes
  <2>3. executed' \in Seq([cmd : Cmd, args : Seq(Byte)])
    <3> HIDE DEF e
    <3> QED
      BY <2>1, <2>2
  <2>4. QED
    BY <1>6, <2>3 DEF ExecuteAndRespond, console
<1>7. CASE ExecuteMode
  <2> DEFINE e == [cmd |-> cmd, args |-> IF RxLen[cmd] = 0 THEN << >> ELSE rxBuffer]
  <2>1. e \in [cmd : Cmd, args : Seq(Byte)]
    BY ConstantFacts DEF FirmwareTypeOK, BufferTypeOK
  <2>2. executed' = Append(executed, e)
    BY <1>7 DEF ExecuteMode, Executes
  <2>3. executed' \in Seq([cmd : Cmd, args : Seq(Byte)])
    <3> HIDE DEF e
    <3> QED
      BY <2>1, <2>2
  <2>4. QED
    BY <1>7, <2>3 DEF ExecuteMode, console
<1>8. CASE DmaPad \/ DmaTransmit \/ DmaReceive \/ SpiIrqByte \/ SpiIrqCommand
  BY <1>8 DEF DmaPad, DmaTransmit, DmaReceive, SpiIrqByte, SpiIrqCommand, console
<1>9. CASE DmaIrqTransmitted \/ DmaIrqReceived \/ UsbIrq \/ TaskIdle \/ TaskClaim
  BY <1>9 DEF DmaIrqTransmitted, DmaIrqReceived, UsbIrq, TaskIdle, TaskClaim, console
<1>10. CASE SwitchToResponse \/ SpiInitDone \/ Sleep
  BY <1>10 DEF SwitchToResponse, SpiInitDone, Sleep, console
<1>11. CASE UNCHANGED vars
  BY <1>11 DEF vars, console
<1>12. QED
  BY <1>1, <1>2, <1>3, <1>4, <1>5, <1>6, <1>7, <1>8, <1>9, <1>10, <1>11 DEF Next

\* Every step preserves every part of the type invariant.
LEMMA TypeStep == TypeInv /\ [Next]_vars => TypeInv'
  BY FlagTypeStep, FifoTypeStep, BufferTypeStep, FirmwareTypeStep, ConsoleTypeStep
     DEF TypeInv, TypeOK

\* No step of console, DMA, handlers or main loop ever takes a variable out of
\* its type, nor a FIFO past its depth.
THEOREM TypeCorrect == Spec => []TypeOK
<1>1. TypeInv => TypeOK
  BY DEF TypeInv
<1>2. QED
  BY TypeInit, TypeStep, <1>1, PTL DEF Spec

-----------------------------------------------------------------------------
(* What the console sends and what the MCU has taken of it.  A place is a  *)
(* number of bytes of the request's word and arguments, counted from the   *)
(* first byte of the word; before that and after it there is padding.      *)

WordLen == 2 + RxLen[request.cmd]

WordAt(j) ==
  CASE j = 1            -> Low(request.cmd)
    [] j = 2            -> High(request.cmd)
    [] j \in 3..WordLen -> request.args[j - 2]
    [] OTHER            -> FF

Filler(s) == \A i \in 1..Len(s) : s[i] = FF

\* What the receive FIFO holds and the console has yet to send goes on at place p.
Arriving(p) ==
  /\ \A i \in 1..Len(rxFifo) : rxFifo[i] = WordAt(p + i)
  /\ \A i \in 1..Len(toSend) : toSend[i] = WordAt(p + Len(rxFifo) + i)
  /\ IF Len(toSend) = 0 THEN p + Len(rxFifo) >= WordLen
                        ELSE p + Len(rxFifo) + Len(toSend) = WordLen

ArgsTaken == \A i \in 1..Len(rxBuffer) : rxBuffer[i] = request.args[i]

\* The word has not begun, or half of it was taken, ...
Awaited == queue = FF /\ (rxne \/ txDma) /\ \E p \in Int : p <= 0 /\ Arriving(p)
Paired == queue = Low(request.cmd) /\ rxne /\ Arriving(1)

\* ... or channel 2 receives the arguments, ...
Arguments ==
  /\ rxDma /\ queue = FF /\ cmd = request.cmd
  /\ RxLen[cmd] > 0 /\ rxLeft + Len(rxBuffer) = RxLen[cmd]
  /\ ArgsTaken /\ Arriving(2 + Len(rxBuffer))

\* ... or everything was.
Complete ==
  /\ idx \/ pc = "execute"
  /\ queue = FF /\ cmd = request.cmd
  /\ RxLen[cmd] > 0 => Len(rxBuffer) = RxLen[cmd] /\ ArgsTaken
  /\ Arriving(WordLen)

Taking == Awaited \/ Paired \/ Arguments \/ Complete

\* The console's side of a request.
Served ==
  /\ request \in Request /\ answer = << >>
  /\ host \in {"sending", "polling", "waiting"}
  /\ host = "sending" <=> Len(toSend) > 0
  /\ host = "polling" => request.cmd \notin Silent
  /\ host = "waiting" => request.cmd \in Silent

\* A request that has not been executed.
Requested ==
  /\ Served /\ executed = << >> /\ received = << >> /\ Filler(txFifo)
  /\ mode = "native" /\ pc \notin {"boot", "switch", "spi_init", "halted"}
  /\ txDma => txPos = Len(txBuffer)
  /\ Taking

\* What the transmit FIFO holds goes on after q bytes of the response.
AnswerAt(j) == IF j \in 1..Len(txBuffer) THEN txBuffer[j] ELSE FF

Returning(q) ==
  /\ \A i \in 1..Len(txFifo) : txFifo[i] = AnswerAt(q + i)
  /\ IF Len(received) = 0 THEN q <= 0 ELSE q = Len(received)
  /\ IF txDma THEN q + Len(txFifo) = txPos ELSE q + Len(txFifo) >= Len(txBuffer)

\* No part of the next request is on its way.
NothingElse == queue = FF /\ Filler(rxFifo) /\ ~rxDma /\ ~idx

\* A request that was executed, whose response is on its way.
Answering ==
  /\ Served /\ executed = <<request>> /\ host = "polling"
  /\ NothingElse /\ mode = "native"
  /\ txBuffer = Answer(request)
  /\ Len(received) < Len(txBuffer) /\ \A i \in 1..Len(received) : received[i] = txBuffer[i]
  /\ \/ pc = "switch" /\ Len(received) = 0 /\ Filler(txFifo) /\ txPos = 0
     \/ pc \in {"task", "sleep"} /\ (txDma \/ rxne) /\ \E q \in Int : Returning(q)

\* A switch of the mode that was executed.
Switching ==
  /\ Served /\ executed = <<request>> /\ host = "waiting"
  /\ queue = FF /\ ~rxDma /\ ~idx /\ ~txDma /\ pc \notin {"boot", "execute", "switch"}
  /\ mode = "native" => pc # "halted" /\ Filler(rxFifo) /\ Filler(txFifo)

\* Nothing is asked of the MCU.
Resting ==
  /\ request = NoRequest /\ host \in {"idle", "detached"} /\ Len(toSend) = 0
  /\ queue = FF /\ ~rxDma /\ ~idx /\ pc \notin {"execute", "switch", "spi_init"}
  /\ host = "idle" =>
       /\ NothingElse /\ mode = "native" /\ Filler(txFifo) /\ pc # "halted"
       /\ txDma => txPos = Len(txBuffer)
  /\ host = "detached" => mode # "native"

\* The ends of transfers, and an MCU that has not started.
EndInv ==
  /\ tc2 => rxLeft = 0
  /\ tc3 => txPos = Len(txBuffer)
  /\ pc \in {"boot", "spi_init"} => ~spiOn

\* A command is on its way to be executed, its response on its way back, ...
Stage == Requested \/ Answering \/ Switching \/ Resting

ServiceInv == EndInv /\ Stage

-----------------------------------------------------------------------------
(* Sequences by their elements.                                            *)

\* What is left of a queue when its first byte is taken.
LEMMA Taken ==
  ASSUME NEW s \in Seq(Byte), s # << >>
  PROVE  /\ Head(s) = s[1] /\ Len(s) > 0 /\ Len(s) \in Nat /\ Len(Tail(s)) = Len(s) - 1
         /\ \A i \in 1..Len(Tail(s)) : Tail(s)[i] = s[i + 1]
  OBVIOUS

\* What a queue holds when a byte is put in.
LEMMA Put ==
  ASSUME NEW s \in Seq(Byte), NEW b
  PROVE  /\ Len(Append(s, b)) = Len(s) + 1 /\ Len(s) \in Nat
         /\ \A i \in 1..Len(s) : Append(s, b)[i] = s[i]
         /\ Append(s, b)[Len(s) + 1] = b
  OBVIOUS

\* Padding stays padding when some of it is taken, or more of it comes.
LEMMA FillerTaken ==
  ASSUME NEW s \in Seq(Byte), s # << >>, Filler(s)
  PROVE  Head(s) = FF /\ Filler(Tail(s))
  BY Taken DEF Filler

\* Padding put behind padding is padding.
LEMMA FillerPut ==
  ASSUME NEW s \in Seq(Byte), Filler(s)
  PROVE  Filler(Append(s, FF))
<1>1. \A i \in 1..Len(s) + 1 : Append(s, FF)[i] = FF
  BY Put DEF Filler
<1> QED
  BY <1>1, Put DEF Filler

\* So is an empty FIFO.
LEMMA NothingIsFiller == Filler(<< >>)
  BY DEF Filler

\* Different bytes are different.
LEMMA Distinct ==
  /\ \A c, d : Low(c) = Low(d) => c = d
  /\ \A c : Low(c) # FF
  /\ \A n : Header(n) # FF
<1>1. \A c, d : Low(c) = Low(d) => c = d
  BY DEF Low
<1>2. \A c : Low(c) # FF
  <2>1. \A c : Len(Low(c)) = 2
    BY DEF Low
  <2>2. Len(FF) = 1
    BY DEF FF
  <2> QED
    BY <2>1, <2>2
<1>3. \A n : Header(n) # FF
  <2>1. \A n : Len(Header(n)) = 2
    BY DEF Header
  <2>2. Len(FF) = 1
    BY DEF FF
  <2> QED
    BY <2>1, <2>2
<1> QED
  BY <1>1, <1>2, <1>3

\* A word is decoded as the command that was sent.
LEMMA DecodesWhatWasSent ==
  ASSUME NEW c \in Cmd
  PROVE  Decode(Low(c), High(c)) = c
  BY Distinct, Zenon DEF Decode

\* A request: its command, and as many argument bytes as that command has.
LEMMA RequestShape ==
  ASSUME NEW r \in Request
  PROVE  /\ r.cmd \in Cmd /\ r.args \in Seq(Byte) /\ Len(r.args) = RxLen[r.cmd]
         /\ RxLen[r.cmd] \in Nat /\ r = [cmd |-> r.cmd, args |-> r.args]
         /\ r # NoRequest
<1>1. PICK c \in Cmd : r \in [cmd : {c}, args : ArgsOf(c)]
  BY DEF Request
<1>2. r.cmd = c /\ r.args \in [1..RxLen[c] -> ArgByte] /\ r = [cmd |-> r.cmd, args |-> r.args]
  BY <1>1 DEF ArgsOf
<1>3. RxLen[c] \in Nat
  BY RxLenType
<1>4. r.args \in Seq(ArgByte) /\ Len(r.args) = RxLen[c]
  BY <1>2, <1>3
<1>5. r.args \in Seq(Byte)
  BY <1>2, <1>3, ConstantFacts
<1>6. NoCmd \notin Cmd
  BY CommandAssumption DEF CommandAssumption
<1> QED
  BY <1>2, <1>3, <1>4, <1>5, <1>6 DEF NoRequest

\* The bytes of the request's word and arguments, one by one.
LEMMA WordFacts ==
  ASSUME request \in Request
  PROVE  /\ WordLen \in Nat /\ WordLen >= 2 /\ WordLen = 2 + RxLen[request.cmd]
         /\ WordAt(1) = Low(request.cmd) /\ WordAt(2) = High(request.cmd)
         /\ \A i \in 1..RxLen[request.cmd] : WordAt(2 + i) = request.args[i]
         /\ \A j \in Int : j <= 0 \/ j > WordLen => WordAt(j) = FF
<1>1. RxLen[request.cmd] \in Nat
  BY RequestShape
<1>2. WordLen \in Nat /\ WordLen >= 2 /\ WordLen = 2 + RxLen[request.cmd]
  BY <1>1 DEF WordLen
<1>3. WordAt(1) = Low(request.cmd) /\ WordAt(2) = High(request.cmd)
  BY <1>2 DEF WordAt
<1>4. ASSUME NEW i \in 1..RxLen[request.cmd]
      PROVE  WordAt(2 + i) = request.args[i]
  <2>1. 2 + i \in 3..WordLen /\ 2 + i # 1 /\ 2 + i # 2 /\ (2 + i) - 2 = i
    BY <1>1, <1>2
  <2> QED
    BY <2>1 DEF WordAt
<1>5. ASSUME NEW j \in Int, j <= 0 \/ j > WordLen
      PROVE  WordAt(j) = FF
  <2>1. j # 1 /\ j # 2 /\ j \notin 3..WordLen
    BY <1>2, <1>5
  <2> QED
    BY <2>1 DEF WordAt
<1> QED
  BY <1>2, <1>3, <1>4, <1>5

\* What the console sends is the word, then the arguments.
LEMMA WordSent ==
  ASSUME request \in Request, toSend = <<Low(request.cmd), High(request.cmd)>> \o request.args
  PROVE  /\ Len(toSend) = WordLen
         /\ \A i \in 1..Len(toSend) : toSend[i] = WordAt(i)
<1> DEFINE w == <<Low(request.cmd), High(request.cmd)>>
           a == request.args
<1>1. w \in Seq(Byte) /\ Len(w) = 2 /\ w[1] = Low(request.cmd) /\ w[2] = High(request.cmd)
  BY CommandBytes, RequestShape
<1>2. a \in Seq(Byte) /\ Len(a) = RxLen[request.cmd] /\ Len(a) \in Nat
  BY RequestShape
<1> HIDE DEF w, a
<1>3. /\ Len(w \o a) = 2 + Len(a)
      /\ \A i \in 1..2 + Len(a) : (w \o a)[i] = IF i <= 2 THEN w[i] ELSE a[i - 2]
  <2>1. /\ Len(w \o a) = Len(w) + Len(a)
        /\ \A i \in 1..Len(w) + Len(a) : (w \o a)[i] = IF i <= Len(w) THEN w[i] ELSE a[i - Len(w)]
    BY <1>1, <1>2, ConcatProperties, Zenon
  <2> QED
    BY <2>1, <1>1, <1>2
<1>4. toSend = w \o a
  BY DEF w, a
<1>5. Len(toSend) = WordLen
  BY <1>2, <1>3, <1>4, WordFacts
<1>6. ASSUME NEW i \in 1..Len(toSend)
      PROVE  toSend[i] = WordAt(i)
  <2>0. i \in 1..2 + Len(a) /\ i \in Int
    BY <1>2, <1>3, <1>4
  <2>1. CASE i = 1
    BY <2>0, <2>1, <1>1, <1>3, <1>4, WordFacts
  <2>2. CASE i = 2
    BY <2>0, <2>2, <1>1, <1>3, <1>4, WordFacts
  <2>3. CASE i > 2
    <3>1. toSend[i] = a[i - 2] /\ i - 2 \in 1..RxLen[request.cmd] /\ 2 + (i - 2) = i
      BY <2>0, <2>3, <1>2, <1>3, <1>4
    <3>2. a[i - 2] = request.args[i - 2]
      BY DEF a
    <3>3. WordAt(2 + (i - 2)) = request.args[i - 2]
      BY <3>1, WordFacts
    <3> QED
      BY <3>1, <3>2, <3>3
  <2> QED
    BY <2>0, <2>1, <2>2, <2>3
<1> QED
  BY <1>5, <1>6

-----------------------------------------------------------------------------
(* The way of a request's bytes to the MCU.                                *)

\* The word and its length are the request's alone.
LEMMA WordKept ==
  ASSUME request' = request
  PROVE  WordLen' = WordLen /\ \A j : WordAt(j)' = WordAt(j)
  BY DEF WordLen, WordAt

\* What is on the way is not touched by the other steps.
LEMMA ArrivingKept ==
  ASSUME UNCHANGED <<rxFifo, toSend, request>>, NEW p, Arriving(p)
  PROVE  Arriving(p)'
  BY WordKept DEF Arriving

\* The next byte of the request moves from the console to the receive FIFO.
LEMMA ArrivingSent ==
  ASSUME request \in Request, NEW p \in Int, Arriving(p),
         rxFifo \in Seq(Byte), toSend \in Seq(Byte), toSend # << >>,
         rxFifo' = Append(rxFifo, Head(toSend)), toSend' = Tail(toSend), request' = request
  PROVE  Arriving(p)'
<1> DEFINE n == Len(rxFifo)
           m == Len(toSend)
<1>1. /\ n \in Nat /\ m \in Nat /\ m > 0 /\ Len(rxFifo') = n + 1 /\ Len(toSend') = m - 1
      /\ \A i \in 1..n : rxFifo'[i] = rxFifo[i]
      /\ rxFifo'[n + 1] = toSend[1]
      /\ \A i \in 1..(m - 1) : toSend'[i] = toSend[i + 1]
  BY Put, Taken
<1>2. /\ \A i \in 1..n : rxFifo[i] = WordAt(p + i)
      /\ \A i \in 1..m : toSend[i] = WordAt(p + n + i)
      /\ p + n + m = WordLen
  BY <1>1 DEF Arriving
<1>3. WordLen' = WordLen /\ \A j : WordAt(j)' = WordAt(j)
  BY WordKept
<1> HIDE DEF n, m
<1>4. \A i \in 1..n + 1 : rxFifo'[i] = WordAt(p + i)
  <2> TAKE i \in 1..n + 1
  <2>1. CASE i \in 1..n
    BY <2>1, <1>1, <1>2
  <2>2. CASE i = n + 1
    <3>1. 1 \in 1..m /\ p + n + 1 = p + (n + 1)
      BY <1>1
    <3>2. toSend[1] = WordAt(p + n + 1)
      BY <3>1, <1>2
    <3> QED
      BY <2>2, <3>1, <3>2, <1>1
  <2> QED
    BY <2>1, <2>2, <1>1
<1>5. \A i \in 1..(m - 1) : toSend'[i] = WordAt(p + (n + 1) + i)
  <2> TAKE i \in 1..(m - 1)
  <2>1. i + 1 \in 1..m /\ p + n + (i + 1) = p + (n + 1) + i
    BY <1>1
  <2>2. toSend[i + 1] = WordAt(p + n + (i + 1))
    BY <2>1, <1>2
  <2> QED
    BY <2>1, <2>2, <1>1
<1>6. IF m - 1 = 0 THEN p + (n + 1) >= WordLen ELSE p + (n + 1) + (m - 1) = WordLen
  BY <1>1, <1>2, WordFacts
<1> QED
  BY <1>1, <1>3, <1>4, <1>5, <1>6 DEF Arriving

\* Padding follows the request, whether or not the FIFO has room for it.
LEMMA ArrivingPadded ==
  ASSUME request \in Request, NEW p \in Int, Arriving(p),
         rxFifo \in Seq(Byte), Len(toSend) = 0,
         rxFifo' \in {rxFifo, Append(rxFifo, FF)}, toSend' = toSend, request' = request
  PROVE  Arriving(p)'
<1>1. CASE rxFifo' = rxFifo
  BY <1>1, ArrivingKept
<1>2. CASE rxFifo' = Append(rxFifo, FF)
  <2> DEFINE n == Len(rxFifo)
  <2>1. /\ n \in Nat /\ Len(rxFifo') = n + 1
        /\ \A i \in 1..n : rxFifo'[i] = rxFifo[i]
        /\ rxFifo'[n + 1] = FF
    BY <1>2, Put
  <2>2. (\A i \in 1..n : rxFifo[i] = WordAt(p + i)) /\ p + n >= WordLen
    BY DEF Arriving
  <2>3. WordLen' = WordLen /\ \A j : WordAt(j)' = WordAt(j)
    BY WordKept
  <2>4. WordLen \in Nat /\ \A j \in Int : j > WordLen => WordAt(j) = FF
    BY WordFacts
  <2> HIDE DEF n
  <2>5. \A i \in 1..n + 1 : rxFifo'[i] = WordAt(p + i)
    BY <2>1, <2>2, <2>4
  <2>6. p + (n + 1) >= WordLen
    BY <2>1, <2>2, <2>4
  <2>7. Len(toSend') = 0 /\ 1..0 = {}
    OBVIOUS
  <2> QED
    BY <2>1, <2>3, <2>5, <2>6, <2>7 DEF Arriving
<1> QED
  BY <1>1, <1>2

\* The MCU takes the byte at the next place.
LEMMA ArrivingTaken ==
  ASSUME request \in Request, NEW p \in Int, Arriving(p),
         rxFifo \in Seq(Byte), rxFifo # << >>, toSend \in Seq(Byte),
         rxFifo' = Tail(rxFifo), UNCHANGED <<toSend, request>>
  PROVE  Head(rxFifo) = WordAt(p + 1) /\ Arriving(p + 1)'
<1> DEFINE n == Len(rxFifo)
           m == Len(toSend)
<1>1. /\ n \in Nat /\ n > 0 /\ m \in Nat /\ Len(rxFifo') = n - 1 /\ Len(toSend') = m
      /\ Head(rxFifo) = rxFifo[1]
      /\ \A i \in 1..(n - 1) : rxFifo'[i] = rxFifo[i + 1]
  BY Taken
<1>2. /\ \A i \in 1..n : rxFifo[i] = WordAt(p + i)
      /\ \A i \in 1..m : toSend[i] = WordAt(p + n + i)
      /\ IF m = 0 THEN p + n >= WordLen ELSE p + n + m = WordLen
  BY DEF Arriving
<1>3. WordLen' = WordLen /\ \A j : WordAt(j)' = WordAt(j)
  BY WordKept
<1> HIDE DEF n, m
<1>4. Head(rxFifo) = WordAt(p + 1)
  BY <1>1, <1>2
<1>5. \A i \in 1..(n - 1) : rxFifo'[i] = WordAt((p + 1) + i)
  <2> TAKE i \in 1..(n - 1)
  <2>1. i + 1 \in 1..n /\ p + (i + 1) = (p + 1) + i
    BY <1>1
  <2>2. rxFifo[i + 1] = WordAt(p + (i + 1))
    BY <2>1, <1>2
  <2> QED
    BY <2>1, <2>2, <1>1
<1>6. (p + 1) + (n - 1) = p + n
  BY <1>1
<1> QED
  BY <1>1, <1>2, <1>3, <1>4, <1>5, <1>6 DEF Arriving, m

-----------------------------------------------------------------------------
(* The way of the response back.                                           *)

\* The header of a response says how long it is, and never begins with the
\* filler byte, which the console would skip.
LEMMA AnswerFacts ==
  ASSUME NEW r \in Request, r.cmd \notin Silent
  PROVE  /\ Answer(r) \in Seq(Byte) /\ Len(Answer(r)) \in Nat /\ Len(Answer(r)) >= 2
         /\ Answer(r)[1] # FF
         /\ Len(Answer(r)) = 2 + HeaderValue(Answer(r)) \div 2
<1> DEFINE c == r.cmd
           n == TxLen[c]
           h == HeaderOf(n)
           d == IF c \in Echo THEN r.args ELSE [i \in 1..n |-> Data(c, i)]
<1>1. c \in Cmd /\ r.args \in Seq(Byte) /\ Len(r.args) = RxLen[c]
  BY RequestShape
<1>2. n \in Int /\ -1 <= n /\ n < 32768 /\ (c \in Echo => n = RxLen[c] /\ n > 0)
  BY <1>1, CommandAssumption DEF CommandAssumption, Silent
<1>3. d \in Seq(Byte) /\ Len(d) = IF n = -1 THEN 0 ELSE n
  <2>1. CASE c \in Echo
    BY <2>1, <1>1, <1>2
  <2>2. CASE c \notin Echo
    <3>1. \A i \in 1..n : Data(c, i) \in Byte
      BY <1>1, <1>2 DEF Byte, Data
    <3> DEFINE e == [i \in 1..n |-> Data(c, i)]
    <3>2. ASSUME n = -1 PROVE e \in Seq(Byte) /\ Len(e) = 0
      <4>1. 1..n = 1..0
        BY <3>2
      <4>2. e \in [1..0 -> Byte]
        BY <4>1, <3>1
      <4> HIDE DEF e
      <4> QED
        BY <4>2
    <3>3. ASSUME n \in Nat PROVE e \in Seq(Byte) /\ Len(e) = n
      <4>1. e \in [1..n -> Byte]
        BY <3>1
      <4> HIDE DEF e
      <4> QED
        BY <4>1, <3>3
    <3>4. n = -1 \/ n \in Nat
      BY <1>2
    <3>5. d = e
      BY <2>2
    <3> HIDE DEF d, e, n
    <3> QED
      BY <3>2, <3>3, <3>4, <3>5
  <2> QED
    BY <2>1, <2>2
<1>4. h \in Seq(Byte) /\ Len(h) = 2 /\ h[1] # FF
      /\ (h[1][2] + 256 * h[2][2]) \div 2 = IF n = -1 THEN 0 ELSE n
  <2>1. CASE n = -1
    <3>1. h = <<Header(1), Header(0)>>
      BY <2>1 DEF HeaderOf
    <3>2. Header(1) \in Byte /\ Header(0) \in Byte /\ Header(1)[2] = 1 /\ Header(0)[2] = 0
      BY DEF Byte, Header, Octet
    <3> QED
      BY <3>1, <3>2, <2>1, Distinct
  <2>2. CASE n # -1
    <3> DEFINE lo == (2 * n) % 256
               hi == (2 * n) \div 256
    <3>1. h = <<Header(lo), Header(hi)>>
      BY <2>2 DEF HeaderOf
    <3>2. lo \in Octet /\ hi \in Octet /\ (lo + 256 * hi) \div 2 = n
      BY <1>2, <2>2 DEF Octet
    <3> HIDE DEF lo, hi
    <3>3. Header(lo) \in Byte /\ Header(hi) \in Byte /\ Header(lo)[2] = lo /\ Header(hi)[2] = hi
      BY <3>2 DEF Byte, Header
    <3>4. Len(h) = 2 /\ h[1] = Header(lo) /\ h[2] = Header(hi) /\ h \in Seq(Byte)
      BY <3>1, <3>3
    <3> QED
      BY <3>2, <3>3, <3>4, <2>2, Distinct
  <2> QED
    BY <2>1, <2>2
<1>5. Answer(r) = h \o d
  BY DEF Answer, Response
<1> HIDE DEF h, d
<1>6. /\ h \o d \in Seq(Byte) /\ Len(h \o d) = Len(h) + Len(d)
      /\ \A i \in 1..Len(h) + Len(d) : (h \o d)[i] = IF i <= Len(h) THEN h[i] ELSE d[i - Len(h)]
  BY <1>3, <1>4, ConcatProperties, Zenon
<1>7. (h \o d)[1] = h[1] /\ (h \o d)[2] = h[2] /\ Len(d) \in Nat
  BY <1>2, <1>3, <1>4, <1>6
<1>8. Len(h \o d) = 2 + Len(d)
  BY <1>4, <1>6
<1>9. HeaderValue(h \o d) = h[1][2] + 256 * h[2][2]
  BY <1>7 DEF HeaderValue
<1> HIDE DEF n
<1>10. HeaderValue(h \o d) \div 2 = Len(d)
  BY <1>9, <1>4, <1>3
<1> QED
  BY <1>4, <1>5, <1>6, <1>7, <1>8, <1>10

\* The response is not touched by the other steps.
LEMMA ReturningKept ==
  ASSUME UNCHANGED <<txFifo, txBuffer, received, txDma, txPos>>, NEW q, Returning(q)
  PROVE  Returning(q)'
  BY DEF Returning, AnswerAt

\* Channel 3 puts the next byte of the response in the transmit FIFO.
LEMMA ReturningSent ==
  ASSUME NEW q \in Int, Returning(q), txDma, txFifo \in Seq(Byte),
         txPos \in Nat, Len(txBuffer) \in Nat, txPos < Len(txBuffer),
         txFifo' = Append(txFifo, txBuffer[txPos + 1]), txPos' = txPos + 1,
         UNCHANGED <<txBuffer, received, txDma>>
  PROVE  Returning(q)'
<1> DEFINE n == Len(txFifo)
<1>1. /\ n \in Nat /\ Len(txFifo') = n + 1
      /\ \A i \in 1..n : txFifo'[i] = txFifo[i]
      /\ txFifo'[n + 1] = txBuffer[txPos + 1]
  BY Put
<1>2. (\A i \in 1..n : txFifo[i] = AnswerAt(q + i)) /\ q + n = txPos
  BY DEF Returning
<1> HIDE DEF n
<1>3. \A j : AnswerAt(j)' = AnswerAt(j)
  BY DEF AnswerAt
<1>4. \A i \in 1..n + 1 : txFifo'[i] = AnswerAt(q + i)
  <2> TAKE i \in 1..n + 1
  <2>1. CASE i \in 1..n
    BY <2>1, <1>1, <1>2
  <2>2. CASE i = n + 1
    <3>1. q + (n + 1) = txPos + 1 /\ txPos + 1 \in 1..Len(txBuffer)
      BY <1>1, <1>2
    <3> QED
      BY <2>2, <3>1, <1>1 DEF AnswerAt
  <2> QED
    BY <2>1, <2>2, <1>1
<1>5. q + (n + 1) = txPos'
  BY <1>1, <1>2
<1> QED
  BY <1>1, <1>3, <1>4, <1>5 DEF Returning

\* Padding follows the response.
LEMMA ReturningPadded ==
  ASSUME NEW q \in Int, Returning(q), ~txDma, txFifo \in Seq(Byte), Len(txBuffer) \in Nat,
         txFifo' = Append(txFifo, FF), UNCHANGED <<txBuffer, received, txDma, txPos>>
  PROVE  Returning(q)'
<1> DEFINE n == Len(txFifo)
<1>1. /\ n \in Nat /\ Len(txFifo') = n + 1
      /\ \A i \in 1..n : txFifo'[i] = txFifo[i]
      /\ txFifo'[n + 1] = FF
  BY Put
<1>2. (\A i \in 1..n : txFifo[i] = AnswerAt(q + i)) /\ q + n >= Len(txBuffer)
  BY DEF Returning
<1> HIDE DEF n
<1>3. \A j : AnswerAt(j)' = AnswerAt(j)
  BY DEF AnswerAt
<1>4. \A i \in 1..n + 1 : txFifo'[i] = AnswerAt(q + i)
  <2> TAKE i \in 1..n + 1
  <2>1. CASE i \in 1..n
    BY <2>1, <1>1, <1>2
  <2>2. CASE i = n + 1
    <3>1. q + (n + 1) \notin 1..Len(txBuffer)
      BY <1>1, <1>2
    <3> QED
      BY <2>2, <3>1, <1>1 DEF AnswerAt
  <2> QED
    BY <2>1, <2>2, <1>1
<1>5. q + (n + 1) >= Len(txBuffer)'
  BY <1>1, <1>2
<1> QED
  BY <1>1, <1>3, <1>4, <1>5 DEF Returning

\* The console takes the byte at the next place.
LEMMA ReturningTaken ==
  ASSUME NEW q \in Int, txFifo \in Seq(Byte), txFifo # << >>, Returning(q),
         txFifo' = Tail(txFifo), UNCHANGED <<txBuffer, txDma, txPos>>,
         txPos \in Nat, Len(txBuffer) \in Nat,
         IF Len(received') = 0 THEN q + 1 <= 0 ELSE q + 1 = Len(received')
  PROVE  Returning(q + 1)' /\ Head(txFifo) = AnswerAt(q + 1)
<1> DEFINE n == Len(txFifo)
<1>1. /\ n \in Nat /\ n > 0 /\ Len(txFifo') = n - 1 /\ Head(txFifo) = txFifo[1]
      /\ \A i \in 1..(n - 1) : txFifo'[i] = txFifo[i + 1]
  BY Taken
<1>2. /\ \A i \in 1..n : txFifo[i] = AnswerAt(q + i)
      /\ IF txDma THEN q + n = txPos ELSE q + n >= Len(txBuffer)
  BY DEF Returning
<1> HIDE DEF n
<1>3. \A j : AnswerAt(j)' = AnswerAt(j)
  BY DEF AnswerAt
<1>4. \A i \in 1..(n - 1) : txFifo'[i] = AnswerAt((q + 1) + i)
  <2> TAKE i \in 1..(n - 1)
  <2>1. i + 1 \in 1..n /\ q + (i + 1) = (q + 1) + i
    BY <1>1
  <2>2. txFifo[i + 1] = AnswerAt(q + (i + 1))
    BY <2>1, <1>2
  <2> QED
    BY <2>1, <2>2, <1>1
<1>5. (q + 1) + (n - 1) = q + n
  BY <1>1
<1>6. Head(txFifo) = AnswerAt(q + 1)
  BY <1>1, <1>2
<1> QED
  BY <1>1, <1>2, <1>3, <1>4, <1>5, <1>6 DEF Returning

-----------------------------------------------------------------------------
(* Every step keeps ServiceInv.                                            *)

\* What the steps below need of the other invariants.
LEMMA StateFacts ==
  ASSUME TypeInv
  PROVE  /\ rxFifo \in Seq(Byte) /\ txFifo \in Seq(Byte) /\ toSend \in Seq(Byte)
         /\ received \in Seq(Byte) /\ rxBuffer \in Seq(Byte) /\ txBuffer \in Seq(Byte)
         /\ Len(rxFifo) \in Nat /\ Len(txFifo) \in Nat /\ Len(toSend) \in Nat
         /\ Len(received) \in Nat /\ Len(rxBuffer) \in Nat /\ Len(txBuffer) \in Nat
         /\ rxLeft \in Nat /\ txPos \in Nat /\ txPos <= Len(txBuffer)
         /\ cmd \in Cmd /\ RxLen[cmd] \in Nat
  BY RxLenType DEF TypeInv, TypeOK, FifoTypeOK, BufferTypeOK, ConsoleTypeOK, FirmwareTypeOK

\* Transfers end when their last byte has moved, and an MCU that is (re)starting
\* its SPI has it switched off.
LEMMA EndStep ==
  ASSUME TypeInv, OwnerInv, EndInv, [Next]_vars
  PROVE  EndInv'
<1> USE DEF EndInv
<1>1. CASE HostReset
  BY <1>1 DEF HostReset
<1>2. CASE DmaTransmit
  BY <1>2 DEF DmaTransmit, firmware
<1>3. CASE DmaReceive
  <2>1. tc2' <=> rxLeft = 1
    BY <1>3, Zenon DEF DmaReceive
  <2> QED
    BY <1>3, <2>1 DEF DmaReceive
<1>4. CASE SpiIrqCommand
  <2>1. ~tc2
    BY <1>4 DEF SpiIrqCommand, OwnerInv, FlagsOwned, OneOwner
  <2> QED
    BY <1>4, <2>1 DEF SpiIrqCommand
<1>5. CASE ExecuteAndRespond
  <2>1. ~tc3
    BY <1>5 DEF ExecuteAndRespond, OwnerInv, FlagsOwned, OneOwner, InMain
  <2> QED
    BY <1>5, <2>1 DEF ExecuteAndRespond, spi
<1>6. CASE HostStart \/ HostModeDone \/ DmaPad \/ SpiIrqByte \/ DmaIrqTransmitted
  BY <1>6 DEF HostStart, HostModeDone, DmaPad, SpiIrqByte, DmaIrqTransmitted, spi, dma, firmware
<1>7. CASE HostSend \/ HostReceive
  BY <1>7 DEF HostSend, HostReceive, Exchange, dma, firmware
<1>8. CASE DmaIrqReceived \/ UsbIrq \/ TaskIdle \/ TaskClaim \/ SwitchToResponse
  BY <1>8 DEF DmaIrqReceived, UsbIrq, TaskIdle, TaskClaim, SwitchToResponse, spi, dma, firmware
<1>9. CASE ExecuteMode
  BY <1>9 DEF ExecuteMode, spi
<1>10. CASE SpiInitDone
  BY <1>10 DEF SpiInitDone, firmware
<1>11. CASE Sleep \/ UNCHANGED vars
  BY <1>11 DEF Sleep, vars, spi, dma, firmware
<1> QED
  BY <1>1, <1>2, <1>3, <1>4, <1>5, <1>6, <1>7, <1>8, <1>9, <1>10, <1>11 DEF Next

\* The console begins: none of the request has arrived yet.
LEMMA StartStep ==
  ASSUME TypeInv, OwnerInv, EndInv, Stage, HostStart
  PROVE  Requested'
<1>1. PICK r \in Request : request' = r /\ toSend' = <<Low(r.cmd), High(r.cmd)>> \o r.args
  BY DEF HostStart
<1>2. Resting /\ host = "idle"
  BY DEF HostStart, Stage, Requested, Answering, Switching, Resting, Served
<1>3. /\ UNCHANGED <<rxFifo, txFifo, rxne, txDma, queue, mode, pc, txPos, txBuffer>>
      /\ host' = "sending" /\ received' = << >> /\ answer' = << >> /\ executed' = << >>
      /\ spiOn
  BY DEF HostStart, spi, dma, firmware
<1>4. (request \in Request)'
  BY <1>1
<1>5. (WordLen \in Nat /\ WordLen >= 2)' /\ (Len(toSend) = WordLen)'
      /\ (\A i \in 1..Len(toSend) : toSend[i] = WordAt(i))'
      /\ (\A j \in Int : j <= 0 \/ j > WordLen => WordAt(j) = FF)'
  <2>1. toSend' = <<Low(request'.cmd), High(request'.cmd)>> \o request'.args
    BY <1>1
  <2>2. (request \in Request /\ toSend = <<Low(request.cmd), High(request.cmd)>> \o request.args)'
    BY <1>4, <2>1
  <2>3. (/\ WordLen \in Nat /\ WordLen >= 2
         /\ \A j \in Int : j <= 0 \/ j > WordLen => WordAt(j) = FF)'
    BY <1>4, WordFacts, PTL
  <2>4. (Len(toSend) = WordLen /\ \A i \in 1..Len(toSend) : toSend[i] = WordAt(i))'
    BY <2>2, WordSent, PTL
  <2> QED
    BY <2>3, <2>4
<1>6. Filler(rxFifo) /\ queue = FF /\ mode = "native" /\ Filler(txFifo)
      /\ pc \notin {"boot", "execute", "switch", "spi_init", "halted"}
      /\ (txDma => txPos = Len(txBuffer)) /\ (rxne \/ txDma)
  BY <1>2, <1>3 DEF Resting, NothingElse, EndInv, OwnerInv, OneOwner, InMain
<1>7. Arriving(0 - Len(rxFifo))'
  <2> DEFINE n == Len(rxFifo)
             p == 0 - n
  <2>1. n \in Nat /\ n' = n /\ p \in Int /\ p' = p
    BY <1>3, StateFacts
  <2>2. \A i \in 1..n : rxFifo'[i] = WordAt(p + i)'
    BY <1>3, <1>5, <1>6, <2>1 DEF Filler
  <2>3. \A i \in 1..Len(toSend') : toSend'[i] = WordAt(p + n + i)'
    <3>1. \A i \in 1..Len(toSend') : p + n + i = i
      BY <2>1, <1>5
    <3> QED
      BY <3>1, <1>5
  <2>4. IF Len(toSend') = 0 THEN p + n >= WordLen' ELSE p + n + Len(toSend') = WordLen'
    BY <1>5, <2>1
  <2> QED
    BY <2>1, <2>2, <2>3, <2>4 DEF Arriving
<1>8. Awaited'
  <2>1. 0 - Len(rxFifo') \in Int /\ 0 - Len(rxFifo') <= 0
    BY <1>3, StateFacts
  <2> QED
    BY <1>3, <1>6, <1>7, <2>1 DEF Awaited
<1>9. Served'
  BY <1>3, <1>4, <1>5 DEF Served
<1> QED
  BY <1>3, <1>6, <1>8, <1>9 DEF Requested, Taking, Filler

\* A step that leaves the receiving side alone leaves the request where it is.
LEMMA TakingKept ==
  ASSUME TypeInv, Taking, \A p \in Int : Arriving(p) => Arriving(p)',
         UNCHANGED <<queue, rxDma, cmd, rxLeft, rxBuffer, idx, request>>,
         rxne => rxne', txDma => (rxne \/ txDma)', pc = "execute" => pc' = "execute"
  PROVE  Taking'
<1>1. CASE Awaited
  BY <1>1 DEF Awaited, Taking
<1>2. CASE Paired
  BY <1>2 DEF Paired, Taking
<1>3. CASE Arguments
  <2>1. 2 + Len(rxBuffer) \in Int
    BY StateFacts
  <2> QED
    BY <1>3, <2>1 DEF Arguments, ArgsTaken, Taking
<1>4. CASE Complete
  <2>1. WordLen \in Int /\ WordLen' = WordLen
    BY WordKept, <1>4, StateFacts DEF WordLen, Complete
  <2> QED
    BY <1>4, <2>1 DEF Complete, ArgsTaken, Taking
<1> QED
  BY <1>1, <1>2, <1>3, <1>4 DEF Taking

\* A byte of the request goes out, and a byte of padding comes back.
LEMMA SendStep ==
  ASSUME TypeInv, OwnerInv, EndInv, Stage, HostSend
  PROVE  Requested'
<1>1. Requested
  BY DEF HostSend, Stage, Answering, Switching, Resting
<1>2. /\ rxFifo' = Append(rxFifo, Head(toSend)) /\ toSend' = Tail(toSend)
      /\ txFifo # << >> /\ txFifo' = Tail(txFifo)
      /\ UNCHANGED <<rxne, rxDma, rxLeft, txDma, txPos, mode, idx, queue, cmd, rxBuffer,
                     txBuffer, pc, request, received, answer, executed>>
      /\ host' = IF Len(toSend) > 1 THEN "sending"
                 ELSE IF request.cmd \in Silent THEN "waiting" ELSE "polling"
  BY DEF HostSend, Exchange, dma, firmware
<1>3. toSend \in Seq(Byte) /\ toSend # << >> /\ Len(toSend) \in Nat /\ Len(toSend') = Len(toSend) - 1
  BY StateFacts, Taken, <1>2 DEF TypeInv, Sending, HostSend
<1>4. Taking'
  <2>1. \A p \in Int : Arriving(p) => Arriving(p)'
    BY <1>1, <1>2, <1>3, StateFacts, ArrivingSent DEF Requested, Served
  <2> QED
    BY <1>1, <1>2, <2>1, TakingKept DEF Requested
<1>5. Served'
  BY <1>1, <1>2, <1>3 DEF Requested, Served
<1>6. Filler(txFifo)'
  <2>1. Filler(Tail(txFifo))
    BY <1>1, <1>2, StateFacts, FillerTaken DEF Requested
  <2> QED
    BY <1>2, <2>1 DEF Filler
<1> QED
  BY <1>1, <1>2, <1>4, <1>5, <1>6 DEF Requested

\* The console switches to another mode, or gives up on the MCU.
LEMMA ModeDoneStep ==
  ASSUME TypeInv, OwnerInv, EndInv, Stage, HostModeDone
  PROVE  Resting' /\ Switching
<1>1. Switching
  BY DEF HostModeDone, Stage, Requested, Answering, Resting
<1>2. /\ UNCHANGED <<rxFifo, txFifo, rxDma, txDma, queue, mode, idx, pc, toSend>>
      /\ host' = IF mode = "native" THEN "idle" ELSE "detached"
      /\ request' = NoRequest /\ pc # "spi_init"
  BY DEF HostModeDone, spi, dma, firmware
<1>3. Len(toSend) = 0
  BY <1>1, StateFacts DEF Switching, Served
<1> QED
  BY <1>1, <1>2, <1>3 DEF Switching, Resting, NothingElse, Filler

\* A reset leaves nothing behind.
LEMMA ResetStep ==
  ASSUME HostReset
  PROVE  Resting'
<1>1. Filler(rxFifo)' /\ Filler(txFifo)' /\ Len(toSend') = 0
  BY DEF HostReset, Filler
<1> QED
  BY <1>1 DEF HostReset, Resting, NothingElse

\* Padding is put behind padding, or behind a whole response.
LEMMA PadStep ==
  ASSUME TypeInv, OwnerInv, EndInv, Stage, DmaPad
  PROVE  Stage'
<1>1. /\ txFifo' = Append(txFifo, FF) /\ txEmpty
      /\ UNCHANGED <<rxFifo, rxne, rxDma, rxLeft, txDma, txPos, tc2, tc3, mode, idx, queue, cmd,
                     rxBuffer, txBuffer, pc, host, request, toSend, received, answer, executed>>
  BY DEF DmaPad, dma, firmware, console
<1>2. Filler(txFifo) => Filler(txFifo)'
  <2>1. Filler(txFifo) => Filler(Append(txFifo, FF))
    BY StateFacts, FillerPut
  <2> QED
    BY <1>1, <2>1 DEF Filler
<1>3. Filler(rxFifo) => Filler(rxFifo)'
  BY <1>1 DEF Filler
<1>4. CASE Requested
  <2>1. \A p \in Int : Arriving(p) => Arriving(p)'
    BY <1>1, ArrivingKept
  <2>2. Taking'
    BY <1>1, <1>4, <2>1, TakingKept DEF Requested
  <2>3. Requested'
    BY <1>1, <1>2, <1>4, <2>2 DEF Requested, Served
  <2> QED
    BY <2>3 DEF Stage
<1>5. CASE Answering
  <2>1. ~txDma
    BY <1>1 DEF OwnerInv, OneTransmitter
  <2>2. \A q \in Int : Returning(q) => Returning(q)'
    BY <1>1, <2>1, StateFacts, ReturningPadded
  <2>3. Answering'
    BY <1>1, <1>2, <1>3, <1>5, <2>2 DEF Answering, Served, NothingElse, Answer
  <2> QED
    BY <2>3 DEF Stage
<1>6. CASE Switching
  <2>1. Switching'
    BY <1>1, <1>2, <1>3, <1>6 DEF Switching, Served
  <2> QED
    BY <2>1 DEF Stage
<1>7. CASE Resting
  <2>1. Resting'
    BY <1>1, <1>2, <1>3, <1>7 DEF Resting, NothingElse
  <2> QED
    BY <2>1 DEF Stage
<1> QED
  BY <1>4, <1>5, <1>6, <1>7 DEF Stage

\* Only a response that is wanted has bytes left to transmit.
LEMMA TransmitStep ==
  ASSUME TypeInv, OwnerInv, EndInv, Stage, DmaTransmit
  PROVE  Stage'
<1>1. /\ txFifo' = Append(txFifo, txBuffer[txPos + 1]) /\ txPos' = txPos + 1
      /\ txDma /\ txPos < Len(txBuffer)
      /\ UNCHANGED <<rxFifo, rxne, rxDma, rxLeft, txDma, mode, idx, queue, cmd,
                     rxBuffer, txBuffer, pc, host, request, toSend, received, answer, executed>>
  BY DEF DmaTransmit, firmware, console
<1>2. ~Requested /\ ~Switching
  BY <1>1, StateFacts DEF Requested, Switching
<1>3. pc # "switch"
  BY <1>1 DEF OwnerInv, OneOwner, InMain
<1>4. Filler(rxFifo) => Filler(rxFifo)'
  BY <1>1 DEF Filler
<1>5. CASE Answering
  <2>1. \A q \in Int : Returning(q) => Returning(q)'
    BY <1>1, StateFacts, ReturningSent
  <2>2. Answering'
    BY <1>1, <1>3, <1>4, <1>5, <2>1 DEF Answering, Served, NothingElse, Answer
  <2> QED
    BY <2>2 DEF Stage
<1>6. CASE Resting
  <2>1. host # "idle"
    BY <1>1, <1>6, StateFacts DEF Resting
  <2>2. Resting'
    BY <1>1, <1>6, <2>1 DEF Resting
  <2> QED
    BY <2>2 DEF Stage
<1> QED
  BY <1>2, <1>5, <1>6 DEF Stage

\* Channel 2 takes the next argument byte.
LEMMA ReceiveStep ==
  ASSUME TypeInv, OwnerInv, EndInv, Stage, DmaReceive
  PROVE  Requested'
<1>1. /\ rxDma /\ rxLeft > 0 /\ rxFifo # << >>
      /\ rxBuffer' = Append(rxBuffer, Head(rxFifo)) /\ rxFifo' = Tail(rxFifo)
      /\ rxLeft' = rxLeft - 1
      /\ UNCHANGED <<txFifo, rxne, rxDma, txDma, txPos, mode, idx, queue, cmd,
                     txBuffer, pc, host, request, toSend, received, answer, executed>>
  BY DEF DmaReceive, console
<1>2. Requested
  BY <1>1 DEF Stage, Answering, Switching, Resting, NothingElse
<1>3. Arguments
  BY <1>1, <1>2 DEF Requested, Taking, Awaited, Paired, Complete, OwnerInv, OneOwner, InMain
<1> DEFINE n == Len(rxBuffer)
<1>4. /\ n \in Nat /\ n + 1 \in 1..RxLen[request.cmd] /\ rxLeft' + (n + 1) = RxLen[cmd]
      /\ Len(rxBuffer') = n + 1 /\ rxBuffer'[n + 1] = Head(rxFifo)
      /\ \A i \in 1..n : rxBuffer'[i] = rxBuffer[i]
  BY <1>1, <1>3, StateFacts, Put DEF Arguments
<1>5. request \in Request
  BY <1>2 DEF Requested, Served
<1> PICK p \in Int : p = 2 + n
  BY <1>4
<1>6. Head(rxFifo) = WordAt(p + 1) /\ Arriving(p + 1)'
  <2>1. Arriving(p)
    BY <1>3 DEF Arguments
  <2> QED
    BY <1>1, <1>5, <2>1, StateFacts, ArrivingTaken
<1>7. Head(rxFifo) = request.args[n + 1]
  <2>1. p + 1 = 2 + (n + 1)
    BY <1>4
  <2> QED
    BY <1>4, <1>5, <1>6, <2>1, WordFacts
<1>8. ArgsTaken'
  <2>1. \A i \in 1..n : rxBuffer[i] = request.args[i]
    BY <1>3 DEF Arguments, ArgsTaken
  <2> HIDE DEF n
  <2>2. \A i \in 1..(n + 1) : rxBuffer'[i] = request'.args[i]
    BY <1>1, <1>4, <1>7, <2>1
  <2> QED
    BY <1>4, <2>2 DEF ArgsTaken
<1>9. Arriving(2 + Len(rxBuffer))'
  <2>1. p + 1 = 2 + Len(rxBuffer')
    BY <1>4
  <2> QED
    BY <1>6, <2>1
<1>10. Arguments'
  BY <1>1, <1>3, <1>4, <1>8, <1>9 DEF Arguments
<1> QED
  BY <1>1, <1>2, <1>10 DEF Requested, Served, Filler, Taking

\* Padding is skipped; the first byte that is not padding begins the word.
LEMMA ByteStep ==
  ASSUME TypeInv, OwnerInv, EndInv, Stage, SpiIrqByte
  PROVE  Stage'
<1>1. /\ rxne /\ rxFifo # << >> /\ mode = "native" /\ queue = FF
      /\ queue' = Head(rxFifo) /\ rxFifo' = Tail(rxFifo)
      /\ UNCHANGED <<txFifo, rxne, rxDma, rxLeft, txDma, txPos, mode, idx, cmd, rxBuffer,
                     txBuffer, pc, host, request, toSend, received, answer, executed>>
  BY DEF SpiIrqByte, dma, console
<1>2. Filler(rxFifo) => queue' = FF /\ Filler(rxFifo)'
  <2>1. Filler(rxFifo) => Head(rxFifo) = FF /\ Filler(Tail(rxFifo))
    BY <1>1, StateFacts, FillerTaken
  <2> QED
    BY <1>1, <2>1 DEF Filler
<1>3. Filler(txFifo) => Filler(txFifo)'
  BY <1>1 DEF Filler
<1>4. CASE Requested
  <2>1. Awaited /\ request \in Request
    BY <1>1, <1>4, Distinct DEF Requested, Served, Taking, Paired, Arguments, Complete, OwnerInv,
      OneOwner, InMain
  <2>2. PICK p \in Int : p <= 0 /\ Arriving(p)
    BY <2>1 DEF Awaited
  <2>3. Head(rxFifo) = WordAt(p + 1) /\ Arriving(p + 1)'
    BY <1>1, <2>1, <2>2, StateFacts, ArrivingTaken
  <2>4. ASSUME p = 0 PROVE Taking'
    <3>1. p + 1 = 1
      BY <2>4
    <3>2. queue' = Low(request.cmd) /\ Arriving(1)'
      BY <1>1, <2>1, <2>3, <3>1, WordFacts
    <3> QED
      BY <1>1, <3>2 DEF Paired, Taking
  <2>5. ASSUME p < 0 PROVE Taking'
    <3>1. p + 1 \in Int /\ p + 1 <= 0
      BY <2>5
    <3>2. WordAt(p + 1) = FF
      BY <2>1, <3>1, WordFacts
    <3> QED
      BY <1>1, <2>3, <3>1, <3>2 DEF Awaited, Taking
  <2>6. Taking'
    BY <2>2, <2>4, <2>5
  <2>7. Requested'
    BY <1>1, <1>3, <1>4, <2>6 DEF Requested, Served
  <2> QED
    BY <2>7 DEF Stage
<1>5. CASE Answering
  <2>1. \A q \in Int : Returning(q) => Returning(q)'
    BY <1>1, ReturningKept
  <2>2. Answering'
    BY <1>1, <1>2, <1>3, <1>5, <2>1 DEF Answering, Served, NothingElse, Answer
  <2> QED
    BY <2>2 DEF Stage
<1>6. CASE Switching
  <2>1. Switching'
    BY <1>1, <1>2, <1>3, <1>6 DEF Switching, Served
  <2> QED
    BY <2>1 DEF Stage
<1>7. CASE Resting
  <2>1. Resting'
    BY <1>1, <1>2, <1>3, <1>7 DEF Resting, NothingElse
  <2> QED
    BY <2>1 DEF Stage
<1> QED
  BY <1>4, <1>5, <1>6, <1>7 DEF Stage

\* The second byte completes the word of the request, and of no other command.
LEMMA CommandStep ==
  ASSUME TypeInv, OwnerInv, EndInv, Stage, SpiIrqCommand
  PROVE  Requested'
<1>1. /\ rxne /\ rxFifo # << >> /\ mode = "native" /\ queue # FF
      /\ queue' = FF /\ rxFifo' = Tail(rxFifo) /\ cmd' = Decode(queue, Head(rxFifo))
      /\ UNCHANGED <<txFifo, txDma, txPos, mode, txBuffer, pc, host, request, toSend, received,
                     answer, executed>>
      /\ StartCommandRx(Decode(queue, Head(rxFifo)))
  BY DEF SpiIrqCommand, StopListening, EndPairing, console
<1>2. Requested /\ request \in Request
  BY <1>1 DEF Stage, Answering, Switching, Resting, NothingElse, Requested, Served
<1>3. Paired
  BY <1>1, <1>2 DEF Requested, Taking, Awaited, Arguments, Complete
<1>4. Head(rxFifo) = WordAt(1 + 1) /\ Arriving(1 + 1)'
  BY <1>1, <1>2, <1>3, StateFacts, ArrivingTaken DEF Paired
<1>5. Head(rxFifo) = High(request.cmd) /\ Arriving(2)'
  BY <1>2, <1>4, WordFacts
<1>6. Decode(queue, Head(rxFifo)) = request.cmd /\ request.cmd \in Cmd
  BY <1>2, <1>3, <1>5, DecodesWhatWasSent, RequestShape DEF Paired
<1>7. RxLen[request.cmd] \in Nat /\ WordLen' = 2 + RxLen[request.cmd]
  BY <1>1, <1>6, RxLenType DEF WordLen
<1>8. CASE RxLen[request.cmd] > 0
  <2>1. rxDma' /\ rxLeft' = RxLen[request.cmd] /\ rxBuffer' = << >>
    BY <1>1, <1>6, <1>8 DEF StartCommandRx
  <2>2. Arriving(2 + Len(rxBuffer))'
    <3>1. 2 + Len(rxBuffer') = 2
      BY <2>1
    <3> QED
      BY <1>5, <3>1
  <2>3. Arguments'
    BY <1>1, <1>6, <1>7, <1>8, <2>1, <2>2 DEF Arguments, ArgsTaken
  <2> QED
    BY <1>1, <1>2, <2>3 DEF Requested, Served, Filler, Taking
<1>9. CASE RxLen[request.cmd] = 0
  <2>1. idx'
    BY <1>1, <1>6, <1>9, <1>7 DEF StartCommandRx
  <2>2. Arriving(WordLen)'
    <3>1. WordLen' = 2
      BY <1>7, <1>9
    <3> QED
      BY <1>5, <3>1
  <2>3. Complete'
    BY <1>1, <1>6, <1>9, <2>1, <2>2 DEF Complete
  <2> QED
    BY <1>1, <1>2, <2>3 DEF Requested, Served, Filler, Taking
<1> QED
  BY <1>7, <1>8, <1>9

\* The end of a response: all of it is in the FIFO, and the MCU listens again.
LEMMA TransmittedStep ==
  ASSUME TypeInv, OwnerInv, EndInv, Stage, DmaIrqTransmitted
  PROVE  Stage'
<1>1. /\ tc3 /\ ~txDma' /\ rxne'
      /\ UNCHANGED <<rxFifo, txFifo, rxDma, rxLeft, txPos, mode, idx, queue, cmd, rxBuffer,
                     txBuffer, pc, host, request, toSend, received, answer, executed>>
  BY DEF DmaIrqTransmitted, spi, firmware, console
<1>2. txDma /\ txPos = Len(txBuffer) /\ ~InMain
  BY <1>1 DEF OwnerInv, FlagsOwned, OneOwner, EndInv
<1>3. (Filler(rxFifo) => Filler(rxFifo)') /\ (Filler(txFifo) => Filler(txFifo)')
  BY <1>1 DEF Filler
<1>4. CASE Requested
  <2>1. \A p \in Int : Arriving(p) => Arriving(p)'
    BY <1>1, ArrivingKept
  <2>2. Taking'
    BY <1>1, <1>4, <2>1, TakingKept DEF Requested
  <2>3. Requested'
    BY <1>1, <1>3, <1>4, <2>2 DEF Requested, Served
  <2> QED
    BY <2>3 DEF Stage
<1>5. CASE Answering
  <2>1. ASSUME NEW q \in Int, Returning(q)
        PROVE  Returning(q)'
    <3>1. q + Len(txFifo) = Len(txBuffer)
      BY <1>2, <2>1 DEF Returning
    <3>2. q + Len(txFifo) >= Len(txBuffer)
      BY <3>1, StateFacts
    <3> QED
      BY <1>1, <2>1, <3>2 DEF Returning, AnswerAt
  <2>2. Answering'
    BY <1>1, <1>2, <1>3, <1>5, <2>1 DEF Answering, Served, NothingElse, Answer, InMain
  <2> QED
    BY <2>2 DEF Stage
<1>6. CASE Resting
  <2>1. Resting'
    BY <1>1, <1>3, <1>6 DEF Resting, NothingElse
  <2> QED
    BY <2>1 DEF Stage
<1> QED
  BY <1>2, <1>4, <1>5, <1>6 DEF Stage, Switching

\* The end of the arguments: all of them are in the buffer.
LEMMA ReceivedStep ==
  ASSUME TypeInv, OwnerInv, EndInv, Stage, DmaIrqReceived
  PROVE  Requested'
<1>1. /\ tc2 /\ idx'
      /\ UNCHANGED <<rxFifo, txFifo, txDma, txPos, mode, queue, cmd, rxBuffer,
                     txBuffer, pc, host, request, toSend, received, answer, executed>>
  BY DEF DmaIrqReceived, spi, console
<1>2. rxDma /\ rxLeft = 0
  BY <1>1 DEF OwnerInv, FlagsOwned, EndInv
<1>3. Requested
  BY <1>2 DEF Stage, Answering, Switching, Resting, NothingElse
<1>4. Arguments
  BY <1>2, <1>3 DEF Requested, Taking, Awaited, Paired, Complete, OwnerInv, OneOwner, InMain
<1>5. Len(rxBuffer) = RxLen[cmd] /\ 2 + Len(rxBuffer) = WordLen
  BY <1>2, <1>4, StateFacts DEF Arguments, WordLen
<1>6. Arriving(WordLen)'
  <2> PICK p : p = WordLen
    OBVIOUS
  <2>1. Arriving(p)
    BY <1>4, <1>5 DEF Arguments
  <2>2. Arriving(p)' /\ p = WordLen'
    BY <1>1, <2>1, ArrivingKept, WordKept
  <2> QED
    BY <2>2
<1>7. Complete'
  BY <1>1, <1>4, <1>5, <1>6 DEF Arguments, Complete, ArgsTaken
<1> QED
  BY <1>1, <1>3, <1>7 DEF Requested, Served, Filler, Taking

\* Steps that only wake the main loop, or let it find nothing and sleep.
LEMMA QuietStep ==
  ASSUME TypeInv, OwnerInv, EndInv, Stage, UsbIrq \/ TaskIdle \/ Sleep \/ UNCHANGED vars
  PROVE  Stage'
<1>1. /\ UNCHANGED <<rxFifo, txFifo, rxne, rxDma, rxLeft, txDma, txPos, mode, idx, queue, cmd,
                     rxBuffer, txBuffer, host, request, toSend, received, answer, executed>>
      /\ pc' = pc \/ (pc \in {"task", "sleep"} /\ pc' \in {"task", "sleep"})
  <2>1. CASE UsbIrq
    BY <2>1 DEF UsbIrq, spi, dma, firmware, console
  <2>2. CASE TaskIdle
    BY <2>2 DEF TaskIdle, spi, dma, firmware, console
  <2>3. CASE Sleep
    BY <2>3 DEF Sleep, spi, dma, firmware, console
  <2>4. CASE UNCHANGED vars
    BY <2>4 DEF vars, spi, dma, firmware, console
  <2> QED
    BY <2>1, <2>2, <2>3, <2>4
<1>2. (Filler(rxFifo) => Filler(rxFifo)') /\ (Filler(txFifo) => Filler(txFifo)')
  BY <1>1 DEF Filler
<1>3. CASE Requested
  <2>1. \A p \in Int : Arriving(p) => Arriving(p)'
    BY <1>1, ArrivingKept
  <2>2. Taking'
    BY <1>1, <1>3, <2>1, TakingKept DEF Requested
  <2>3. Requested'
    BY <1>1, <1>2, <1>3, <2>2 DEF Requested, Served
  <2> QED
    BY <2>3 DEF Stage
<1>4. CASE Answering
  <2>1. \A q \in Int : Returning(q) => Returning(q)'
    BY <1>1, ReturningKept
  <2>2. Answering'
    BY <1>1, <1>2, <1>4, <2>1 DEF Answering, Served, NothingElse, Answer
  <2> QED
    BY <2>2 DEF Stage
<1>5. CASE Switching
  <2>1. Switching'
    BY <1>1, <1>2, <1>5 DEF Switching, Served
  <2> QED
    BY <2>1 DEF Stage
<1>6. CASE Resting
  <2>1. Resting'
    BY <1>1, <1>2, <1>6 DEF Resting, NothingElse
  <2> QED
    BY <2>1 DEF Stage
<1> QED
  BY <1>3, <1>4, <1>5, <1>6 DEF Stage

\* The main loop takes a whole command over.
LEMMA ClaimStep ==
  ASSUME TypeInv, OwnerInv, EndInv, Stage, TaskClaim
  PROVE  Requested'
<1>1. /\ idx /\ pc' = "execute"
      /\ UNCHANGED <<rxFifo, txFifo, rxne, rxDma, rxLeft, txDma, txPos, mode, queue, cmd, rxBuffer,
                     txBuffer, host, request, toSend, received, answer, executed>>
  BY DEF TaskClaim, spi, dma, console
<1>2. Requested
  BY <1>1 DEF Stage, Answering, Switching, Resting, NothingElse
<1>3. Complete
  BY <1>1, <1>2 DEF Requested, Taking, Awaited, Paired, Arguments, OwnerInv, OneOwner, InMain
<1>4. Arriving(WordLen)'
  <2> PICK p : p = WordLen
    OBVIOUS
  <2>1. Arriving(p)
    BY <1>3 DEF Complete
  <2>2. Arriving(p)' /\ p = WordLen'
    BY <1>1, <2>1, ArrivingKept, WordKept
  <2> QED
    BY <2>2
<1>5. Complete'
  BY <1>1, <1>3, <1>4 DEF Complete, ArgsTaken
<1> QED
  BY <1>1, <1>2, <1>5 DEF Requested, Served, Filler, Taking

\* Whatever the main loop executes is the console's request, with its own
\* arguments and no part of any other request behind it.
LEMMA ExecutesTheRequest ==
  ASSUME TypeInv, OwnerInv, EndInv, Stage, pc = "execute", Executes
  PROVE  /\ Requested /\ executed' = <<request>> /\ cmd = request.cmd
         /\ RxLen[cmd] > 0 => rxBuffer = request.args
         /\ queue = FF /\ Filler(rxFifo) /\ Len(toSend) = 0
         /\ ~rxDma /\ ~idx /\ ~txDma
<1>1. Requested
  BY DEF Stage, Answering, Switching, Resting
<1>2. Complete /\ ~rxDma /\ ~idx /\ ~txDma
  BY <1>1 DEF Requested, Taking, Awaited, Paired, Arguments, OwnerInv, OneOwner, InMain
<1>3. request \in Request /\ cmd = request.cmd /\ queue = FF /\ executed = << >>
  BY <1>1, <1>2 DEF Requested, Served, Complete
<1>4. RxLen[cmd] > 0 => rxBuffer = request.args
  <2> SUFFICES ASSUME RxLen[cmd] > 0 PROVE rxBuffer = request.args
    OBVIOUS
  <2>1. /\ rxBuffer \in Seq(Byte) /\ request.args \in Seq(Byte)
        /\ Len(rxBuffer) = Len(request.args)
        /\ \A i \in 1..Len(rxBuffer) : rxBuffer[i] = request.args[i]
    BY <1>2, <1>3, StateFacts, RequestShape DEF Complete, ArgsTaken
  <2> QED
    BY <2>1, SeqEqual
<1>5. executed' = <<request>>
  <2> DEFINE a == IF RxLen[cmd] = 0 THEN << >> ELSE rxBuffer
  <2>1. request = [cmd |-> request.cmd, args |-> request.args]
        /\ Len(request.args) = RxLen[cmd] /\ request.args \in Seq(Byte) /\ RxLen[cmd] \in Nat
    BY <1>3, RequestShape
  <2>2. a = request.args
    BY <1>4, <2>1
  <2>3. executed' = Append(executed, [cmd |-> cmd, args |-> a])
    BY DEF Executes
  <2> HIDE DEF a
  <2>4. [cmd |-> cmd, args |-> a] = request
    BY <1>3, <2>1, <2>2
  <2> QED
    BY <1>3, <2>3, <2>4
<1>6. Arriving(WordLen) /\ WordLen \in Nat /\ Len(rxFifo) \in Nat /\ Len(toSend) \in Nat
  BY <1>2, <1>3, StateFacts, WordFacts DEF Complete
<1>7. Filler(rxFifo)
  <2>1. ASSUME NEW i \in 1..Len(rxFifo) PROVE rxFifo[i] = FF
    <3>1. rxFifo[i] = WordAt(WordLen + i)
      BY <1>6 DEF Arriving
    <3>2. WordLen + i \in Int /\ WordLen + i > WordLen
      BY <1>6
    <3> QED
      BY <1>3, <3>1, <3>2, WordFacts
  <2> QED
    BY <2>1 DEF Filler
<1>8. Len(toSend) = 0
  BY <1>6 DEF Arriving
<1> QED
  BY <1>1, <1>2, <1>3, <1>4, <1>5, <1>7, <1>8

\* Executed: the response is written, and is this request's.
LEMMA RespondStep ==
  ASSUME TypeInv, OwnerInv, EndInv, Stage, ExecuteAndRespond
  PROVE  Answering' /\ Requested /\ executed' = <<request>>
<1>1. /\ pc = "execute" /\ Executes /\ pc' = "switch" /\ cmd \notin Silent
      /\ txBuffer' = Response(cmd, rxBuffer) /\ txPos' = 0
      /\ UNCHANGED <<rxFifo, txFifo, rxne, rxDma, rxLeft, txDma, mode, idx, queue, cmd, rxBuffer,
                     host, request, toSend, received, answer>>
  BY DEF ExecuteAndRespond, ConfigureTransmit, spi, dma, console
<1>2. /\ Requested /\ executed' = <<request>> /\ cmd = request.cmd
      /\ RxLen[cmd] > 0 => rxBuffer = request.args
      /\ queue = FF /\ Filler(rxFifo) /\ Len(toSend) = 0
      /\ ~rxDma /\ ~idx /\ ~txDma
  BY <1>1, ExecutesTheRequest
<1>3. request \in Request /\ host = "polling" /\ received = << >>
  BY <1>1, <1>2 DEF Requested, Served
<1>4. txBuffer' = Answer(request)
  <2>1. cmd \in Echo => RxLen[cmd] > 0
    BY CommandAssumption DEF CommandAssumption
  <2>2. CASE cmd \in Echo
    BY <1>1, <1>2, <2>1, <2>2 DEF Answer
  <2>3. CASE cmd \notin Echo
    BY <1>1, <1>2, <2>3 DEF Answer, Response
  <2> QED
    BY <2>2, <2>3
<1>5. Len(txBuffer') \in Nat /\ Len(txBuffer') >= 2
  BY <1>1, <1>2, <1>3, <1>4, AnswerFacts
<1>6. Len(received') = 0
  BY <1>1, <1>3
<1>7. /\ Served' /\ executed' = <<request>>' /\ host' = "polling"
      /\ NothingElse' /\ mode' = "native" /\ Filler(txFifo)'
  BY <1>1, <1>2, <1>3 DEF Requested, Served, NothingElse, Filler
<1>8. (txBuffer = Answer(request))'
  BY <1>1, <1>4 DEF Answer
<1>9. Answering'
  BY <1>1, <1>5, <1>6, <1>7, <1>8 DEF Answering
<1> QED
  BY <1>2, <1>9

\* Executed: a switch of the mode, which restarts the SPI or stops the MCU.
LEMMA ModeStep ==
  ASSUME TypeInv, OwnerInv, EndInv, Stage, ExecuteMode
  PROVE  Switching' /\ Requested /\ executed' = <<request>>
<1>1. /\ pc = "execute" /\ Executes /\ cmd \in Silent /\ mode' = ModeOf[cmd]
      /\ UNCHANGED <<idx, queue, host, request, toSend, received, answer>>
      /\ \/ ModeOf[cmd] = "halted" /\ pc' = "halted" /\ UNCHANGED <<rxFifo, txFifo, rxDma, txDma>>
         \/ pc' = "spi_init" /\ rxFifo' = << >> /\ txFifo' = << >> /\ ~rxDma' /\ ~txDma'
  BY DEF ExecuteMode, spi, console
<1>2. /\ Requested /\ executed' = <<request>> /\ cmd = request.cmd
      /\ queue = FF /\ Len(toSend) = 0 /\ ~rxDma /\ ~idx /\ ~txDma
  BY <1>1, ExecutesTheRequest
<1>3. Served' /\ host' = "waiting"
  BY <1>1, <1>2 DEF Requested, Served
<1>4. Filler(<< >>)
  BY NothingIsFiller
<1>5. mode' = "native" => pc' # "halted" /\ Filler(rxFifo)' /\ Filler(txFifo)'
  BY <1>1, <1>4 DEF Filler
<1> QED
  BY <1>1, <1>2, <1>3, <1>5 DEF Switching

\* Channel 3 takes the line over: the response follows the padding.
LEMMA SwitchStep ==
  ASSUME TypeInv, OwnerInv, EndInv, Stage, SwitchToResponse
  PROVE  Answering'
<1>1. /\ pc = "switch" /\ txDma' /\ pc' = "sleep"
      /\ UNCHANGED <<rxFifo, txFifo, rxne, rxDma, rxLeft, txPos, mode, idx, queue, cmd, rxBuffer,
                     txBuffer, host, request, toSend, received, answer, executed>>
  BY DEF SwitchToResponse, spi, firmware, console
<1>2. Answering
  BY <1>1 DEF Stage, Requested, Switching, Resting
<1>3. Len(received) = 0 /\ Filler(txFifo) /\ txPos = 0
  BY <1>1, <1>2 DEF Answering
<1>4. PICK q \in Int : q = 0 - Len(txFifo)
  BY StateFacts
<1>5. Returning(q)'
  <2>1. ASSUME NEW i \in 1..Len(txFifo)
        PROVE  txFifo[i] = FF /\ q + i <= 0
    BY <1>3, <1>4, StateFacts DEF Filler
  <2>2. q <= 0 /\ q + Len(txFifo) = 0
    BY <1>4, StateFacts
  <2> QED
    BY <1>1, <1>3, <2>1, <2>2 DEF Returning, AnswerAt
<1> QED
  BY <1>1, <1>2, <1>5 DEF Answering, Served, NothingElse, Filler, Answer

\* The SPI is on again, with nothing in it.
LEMMA InitDoneStep ==
  ASSUME TypeInv, OwnerInv, EndInv, Stage, SpiInitDone
  PROVE  Stage'
<1>1. /\ pc \in {"boot", "spi_init"} /\ pc' \in {"task", "sleep"}
      /\ UNCHANGED <<rxFifo, txFifo, rxDma, txDma, txPos, mode, idx, queue, txBuffer, host, request,
                     toSend, received, answer, executed>>
  BY DEF SpiInitDone, firmware, console
<1>2. Switching \/ Resting
  BY <1>1 DEF Stage, Requested, Answering
<1>3. (Filler(rxFifo) => Filler(rxFifo)') /\ (Filler(txFifo) => Filler(txFifo)')
  BY <1>1 DEF Filler
<1>4. CASE Switching
  BY <1>1, <1>3, <1>4 DEF Switching, Served, Stage
<1>5. CASE Resting
  BY <1>1, <1>3, <1>5 DEF Resting, NothingElse, Stage
<1> QED
  BY <1>2, <1>4, <1>5

\* What the console takes, and when it has the whole response.
Got == IF received = << >> /\ Head(txFifo) = FF THEN received
          ELSE Append(received, Head(txFifo))
Whole(got) == Len(got) >= 2 /\ Len(got) = 2 + HeaderValue(got) \div 2

\* A byte back from the MCU: padding, or the next byte of the response.
LEMMA PollStep ==
  ASSUME TypeInv, OwnerInv, EndInv, Stage, HostReceive
  PROVE  /\ Stage'
         /\ \/ UNCHANGED <<request, answer, executed>>
            \/ Answering /\ answer' = Answer(request) /\ request' = NoRequest /\ UNCHANGED executed
<1>1. /\ host = "polling" /\ txFifo # << >> /\ txFifo' = Tail(txFifo)
      /\ rxFifo' \in {rxFifo, Append(rxFifo, FF)}
      /\ UNCHANGED <<rxne, rxDma, rxLeft, txDma, txPos, mode, idx, queue, cmd, rxBuffer, txBuffer,
                     pc, toSend, executed>>
  BY DEF HostReceive, Exchange, dma, firmware
<1>2. /\ received' = Got
      /\ host' = IF Whole(Got) THEN "idle" ELSE host
      /\ answer' = IF Whole(Got) THEN Got ELSE answer
      /\ request' = IF Whole(Got) THEN NoRequest ELSE request
  BY DEF HostReceive, Got, Whole
<1>3. Filler(rxFifo) => Filler(rxFifo)'
  <2>1. Filler(rxFifo) => Filler(Append(rxFifo, FF))
    BY StateFacts, FillerPut
  <2> QED
    BY <1>1, <2>1 DEF Filler
<1>4. Filler(txFifo) => Head(txFifo) = FF /\ Filler(txFifo)'
  <2>1. Filler(txFifo) => Head(txFifo) = FF /\ Filler(Tail(txFifo))
    BY <1>1, StateFacts, FillerTaken
  <2> QED
    BY <1>1, <2>1 DEF Filler
<1>5. Len(received) = 0 => received = << >>
  BY StateFacts
<1>6. ASSUME received = << >>, Head(txFifo) = FF
      PROVE  UNCHANGED <<received, host, answer, request>>
  <2>1. Got = << >> /\ ~Whole(Got)
    BY <1>6 DEF Got, Whole
  <2> QED
    BY <1>2, <1>6, <2>1
<1>7. CASE Requested
  <2>1. UNCHANGED <<received, host, answer, request>>
    BY <1>4, <1>6, <1>7 DEF Requested
  <2>2. request \in Request /\ Len(toSend) = 0
    BY <1>1, <1>7, StateFacts DEF Requested, Served
  <2>3. \A p \in Int : Arriving(p) => Arriving(p)'
    BY <1>1, <2>1, <2>2, StateFacts, ArrivingPadded
  <2>4. Taking'
    BY <1>1, <1>7, <2>1, <2>3, TakingKept DEF Requested
  <2>5. Requested'
    BY <1>1, <1>4, <1>7, <2>1, <2>4 DEF Requested, Served
  <2> QED
    BY <1>1, <2>1, <2>5 DEF Stage
<1>8. CASE Answering /\ pc = "switch"
  <2>1. Filler(txFifo) /\ Len(received) = 0 /\ Answering
    BY <1>8 DEF Answering
  <2>2. UNCHANGED <<received, host, answer, request>>
    BY <1>4, <1>5, <1>6, <2>1
  <2>3. Served' /\ executed' = <<request>>' /\ NothingElse' /\ (txBuffer = Answer(request))'
    BY <1>1, <1>3, <2>1, <2>2 DEF Answering, Served, NothingElse, Answer
  <2>4. Answering'
    BY <1>1, <1>4, <1>8, <2>1, <2>2, <2>3 DEF Answering
  <2> QED
    BY <1>1, <2>2, <2>4 DEF Stage
<1>9. CASE Answering /\ pc # "switch"
  <2>1. PICK q \in Int : Returning(q)
    BY <1>9 DEF Answering
  <2> PICK n : n = Len(received)
    OBVIOUS
  <2> PICK m : m = Len(txBuffer)
    OBVIOUS
  <2>2. /\ request \in Request /\ request.cmd \notin Silent /\ txBuffer = Answer(request)
        /\ n \in Nat /\ m \in Nat /\ n < m /\ \A i \in 1..n : received[i] = txBuffer[i]
        /\ pc \in {"task", "sleep"} /\ (txDma \/ rxne) /\ Len(toSend) = 0
    BY <1>9, StateFacts DEF Answering, Served
  <2>3. m >= 2 /\ txBuffer[1] # FF /\ m = 2 + HeaderValue(txBuffer) \div 2
    BY <2>2, AnswerFacts
  <2>4. \/ q < 0 /\ received' = << >> /\ Len(received') = 0
        \/ /\ q = n /\ received' = Append(received, txBuffer[n + 1]) /\ Len(received') = n + 1
           /\ \A i \in 1..n : received'[i] = received[i]
           /\ received'[n + 1] = txBuffer[n + 1]
    <3>0. Head(txFifo) = AnswerAt(q + 1)
      <4>1. Head(txFifo) = txFifo[1] /\ Len(txFifo) > 0
        BY <1>1, StateFacts, Taken
      <4> QED
        BY <2>1, <4>1, StateFacts DEF Returning
    <3>1. IF n = 0 THEN q <= 0 ELSE q = n
      BY <2>1 DEF Returning
    <3>2. CASE q < 0
      <4>1. n = 0 /\ q + 1 \notin 1..m
        BY <3>1, <3>2, <2>2
      <4>2. Head(txFifo) = FF
        BY <3>0, <4>1 DEF AnswerAt
      <4>3. received' = << >>
        BY <4>1, <4>2, <1>5, <1>6
      <4> QED
        BY <3>2, <4>3
    <3>3. CASE q >= 0
      <4>1. q = n /\ n + 1 \in 1..m
        BY <3>1, <3>3, <2>2
      <4>2. Head(txFifo) = txBuffer[n + 1]
        BY <3>0, <4>1 DEF AnswerAt
      <4>3. n = 0 => Head(txFifo) # FF
        BY <4>2, <2>3
      <4>4. received' = Append(received, txBuffer[n + 1])
        BY <1>2, <4>2, <4>3, StateFacts DEF Got
      <4> QED
        BY <3>3, <4>1, <4>4, StateFacts, Put
    <3> QED
      BY <3>2, <3>3
  <2>5. Returning(q + 1)'
    <3>1. IF Len(received') = 0 THEN q + 1 <= 0 ELSE q + 1 = Len(received')
      BY <2>2, <2>4
    <3> QED
      BY <1>1, <2>1, <3>1, StateFacts, ReturningTaken
  <2>6. /\ Len(received') <= m /\ Len(received') \in Nat
        /\ \A i \in 1..Len(received') : received'[i] = txBuffer[i]
    BY <2>2, <2>4
  <2>7. Whole(received') <=> Len(received') = m
    <3>1. Len(received') >= 2 => HeaderValue(received') = HeaderValue(txBuffer)
      <4>1. Len(received') >= 2 => received'[1] = txBuffer[1] /\ received'[2] = txBuffer[2]
        BY <2>6
      <4> QED
        BY <4>1 DEF HeaderValue
    <3> QED
      BY <2>3, <2>6, <3>1 DEF Whole
  <2>8. CASE Len(received') # m
    <3>1. UNCHANGED <<host, answer, request>>
      BY <1>2, <2>7, <2>8
    <3>2. Len(received') < m
      BY <2>6, <2>8
    <3>3. Served' /\ executed' = <<request>>' /\ NothingElse' /\ (txBuffer = Answer(request))'
      BY <1>1, <1>3, <1>9, <3>1 DEF Answering, Served, NothingElse, Answer
    <3>4. Answering'
      BY <1>1, <1>9, <2>2, <2>5, <2>6, <3>1, <3>2, <3>3 DEF Answering
    <3> QED
      BY <1>1, <3>1, <3>4 DEF Stage
  <2>9. CASE Len(received') = m
    <3>1. host' = "idle" /\ answer' = received' /\ request' = NoRequest
      BY <1>2, <2>7, <2>9
    <3>2. received' = txBuffer
      <4>1. received' \in Seq(Byte)
        BY <1>2, <1>1, StateFacts, HeadTail, Appended DEF Got
      <4> QED
        BY <4>1, <2>6, <2>9, StateFacts, SeqEqual
    <3>3. q + 1 = m
      BY <2>2, <2>3, <2>4, <2>9
    <3>4. Filler(txFifo)' /\ (txDma' => txPos' = Len(txBuffer'))
      <4>1. /\ \A i \in 1..Len(txFifo') : txFifo'[i] = AnswerAt(q + 1 + i)'
            /\ txDma' => q + 1 + Len(txFifo') = txPos'
        BY <2>5 DEF Returning
      <4>2. Len(txFifo') \in Nat /\ txPos' \in Nat /\ txPos' <= m
        BY <1>1, StateFacts, HeadTail
      <4>3. \A i \in 1..Len(txFifo') : AnswerAt(q + 1 + i)' = FF
        BY <1>1, <2>2, <3>3, <4>2 DEF AnswerAt
      <4>4. Filler(txFifo)'
        BY <4>1, <4>3 DEF Filler
      <4> QED
        BY <1>1, <3>3, <4>1, <4>2, <4>4
    <3>5. Resting'
      BY <1>1, <1>3, <1>9, <2>2, <3>1, <3>4 DEF Answering, Resting, NothingElse
    <3> QED
      BY <1>1, <1>9, <2>2, <3>1, <3>2, <3>5 DEF Stage
  <2> QED
    BY <2>8, <2>9
<1> QED
  BY <1>1, <1>7, <1>8, <1>9 DEF Stage, Switching, Resting

-----------------------------------------------------------------------------
(* The two theorems about the service.                                     *)

\* At power-on nothing is asked of the MCU.
LEMMA ServiceInit == Init => ServiceInv
<1> SUFFICES ASSUME Init PROVE ServiceInv
  OBVIOUS
<1>1. EndInv
  BY DEF Init, EndInv
<1>2. Resting
  BY NothingIsFiller DEF Init, Resting, NothingElse
<1> QED
  BY <1>1, <1>2 DEF ServiceInv, Stage

\* The step of each actor leads to a stage of the same or the next request.
LEMMA StageStep ==
  ASSUME TypeInv, OwnerInv, ServiceInv, [Next]_vars
  PROVE  Stage'
<1>1. EndInv /\ Stage
  BY DEF ServiceInv
<1>2. CASE HostStart \/ HostSend \/ HostReceive \/ HostModeDone \/ HostReset
  BY <1>1, <1>2, StartStep, SendStep, PollStep, ModeDoneStep, ResetStep DEF Stage
<1>3. CASE DmaPad \/ DmaTransmit \/ DmaReceive
  BY <1>1, <1>3, PadStep, TransmitStep, ReceiveStep DEF Stage
<1>4. CASE SpiIrqByte \/ SpiIrqCommand \/ DmaIrqTransmitted \/ DmaIrqReceived
  BY <1>1, <1>4, ByteStep, CommandStep, TransmittedStep, ReceivedStep DEF Stage
<1>5. CASE UsbIrq \/ TaskIdle \/ Sleep \/ UNCHANGED vars
  BY <1>1, <1>5, QuietStep
<1>6. CASE TaskClaim \/ ExecuteAndRespond \/ SwitchToResponse \/ ExecuteMode \/ SpiInitDone
  BY <1>1, <1>6, ClaimStep, RespondStep, SwitchStep, ModeStep, InitDoneStep DEF Stage
<1> QED
  BY <1>2, <1>3, <1>4, <1>5, <1>6 DEF Next

\* The invariant is inductive.
LEMMA ServiceStep == TypeInv /\ OwnerInv /\ ServiceInv /\ [Next]_vars => ServiceInv'
  BY EndStep, StageStep DEF ServiceInv

\* Byte pairing never slips: half a command word is held only while the console
\* waits for that very command, and at rest nothing but padding is on the way.
THEOREM PairingNeverSlips == Spec => []InSync
<1>1. TypeInv /\ ServiceInv => InSync
  <2> SUFFICES ASSUME TypeInv, ServiceInv PROVE InSync
    OBVIOUS
  <2>1. Stage
    BY DEF ServiceInv
  <2>2. ASSUME queue # FF
        PROVE  request # NoRequest /\ executed = << >> /\ queue = Low(request.cmd)
    <3>1. Requested
      BY <2>1, <2>2 DEF Stage, Answering, Switching, Resting, NothingElse
    <3>2. Paired
      BY <2>2, <3>1 DEF Requested, Taking, Awaited, Arguments, Complete
    <3> QED
      BY <3>1, <3>2, RequestShape DEF Requested, Served, Paired
  <2>3. ASSUME host = "idle"
        PROVE  \A i \in 1..Len(rxFifo) : rxFifo[i] = FF
    BY <2>1, <2>3 DEF Stage, Requested, Answering, Switching, Served, Resting, NothingElse, Filler
  <2> QED
    BY <2>2, <2>3 DEF InSync
<1>2. QED
  BY TypeInit, TypeStep, OwnerInit, OwnerStep, ServiceInit, ServiceStep, <1>1, PTL DEF Spec

\* Every step of the engine is a step of the abstract service, or none of it.
LEMMA ServiceImplemented ==
  ASSUME TypeInv, OwnerInv, ServiceInv, [Next]_vars
  PROVE  [Service!Next]_(Service!service)
<1>1. EndInv /\ Stage
  BY DEF ServiceInv
<1> USE DEF Service!service
<1>2. CASE HostStart
  <2>1. PICK r \in Request : request' = r
    BY <1>2 DEF HostStart
  <2>2. request = NoRequest
    BY <1>1, <1>2 DEF HostStart, Stage, Requested, Answering, Switching, Resting, Served
  <2>3. executed' = << >> /\ answer' = << >>
    BY <1>2 DEF HostStart
  <2>4. Service!Send(r)
    BY <2>1, <2>2, <2>3 DEF Service!Send
  <2> QED
    BY <2>4 DEF Service!Next
<1>3. CASE ExecuteAndRespond \/ ExecuteMode
  <2>1. Requested /\ executed' = <<request>>
    BY <1>1, <1>3, RespondStep, ModeStep
  <2>2. request # NoRequest /\ executed = << >>
    BY <2>1, RequestShape DEF Requested, Served
  <2>3. UNCHANGED <<request, answer>>
    BY <1>3 DEF ExecuteAndRespond, ExecuteMode, console
  <2>4. Service!Execute
    BY <2>1, <2>2, <2>3 DEF Service!Execute
  <2> QED
    BY <2>4 DEF Service!Next
<1>4. CASE HostReceive
  <2>1. CASE UNCHANGED <<request, answer, executed>>
    BY <2>1
  <2>2. CASE Answering /\ answer' = Answer(request) /\ request' = NoRequest /\ UNCHANGED executed
    <3>1. request \in Request /\ executed = <<request>> /\ request.cmd \notin Silent
      BY <2>2 DEF Answering, Served
    <3>2. request # NoRequest
      BY <3>1, RequestShape
    <3>3. Service!Complete
      BY <2>2, <3>1, <3>2 DEF Service!Complete
    <3> QED
      BY <3>3 DEF Service!Next
  <2> QED
    BY <1>1, <1>4, <2>1, <2>2, PollStep
<1>5. CASE HostModeDone
  <2>1. Switching
    BY <1>1, <1>5, ModeDoneStep
  <2>2. /\ request \in Request /\ executed = <<request>> /\ request.cmd \in Silent
        /\ answer = << >>
    BY <2>1 DEF Switching, Served
  <2>3. request # NoRequest
    BY <2>2, RequestShape
  <2>4. request' = NoRequest /\ UNCHANGED <<executed, answer>>
    BY <1>5 DEF HostModeDone
  <2>5. Service!Complete
    BY <2>2, <2>3, <2>4 DEF Service!Complete
  <2> QED
    BY <2>5 DEF Service!Next
<1>6. CASE HostReset
  <2>1. Service!Reset
    BY <1>6 DEF HostReset, Service!Reset
  <2> QED
    BY <2>1 DEF Service!Next
<1>7. CASE HostSend \/ DmaPad \/ DmaTransmit \/ DmaReceive
  BY <1>7 DEF HostSend, DmaPad, DmaTransmit, DmaReceive, console
<1>8. CASE SpiIrqByte \/ SpiIrqCommand \/ DmaIrqTransmitted \/ DmaIrqReceived \/ UsbIrq
  BY <1>8 DEF SpiIrqByte, SpiIrqCommand, DmaIrqTransmitted, DmaIrqReceived, UsbIrq, console
<1>9. CASE TaskIdle \/ TaskClaim \/ SwitchToResponse \/ SpiInitDone \/ Sleep
  BY <1>9 DEF TaskIdle, TaskClaim, SwitchToResponse, SpiInitDone, Sleep, console
<1>10. CASE UNCHANGED vars
  BY <1>10 DEF vars, console
<1> QED
  BY <1>2, <1>3, <1>4, <1>5, <1>6, <1>7, <1>8, <1>9, <1>10 DEF Next

\* The engine implements the abstract service: however console, DMA, handlers
\* and main loop interleave, every command the console sends is executed exactly
\* once, with its own arguments, and the answer the console decodes from the
\* padded stream is that command's.
THEOREM ServesExactlyOnce == Spec => ExactlyOnce
<1>1. Init => Service!Init
  BY DEF Init, Service!Init
<1>2. TypeInv /\ OwnerInv /\ ServiceInv /\ [Next]_vars => [Service!Next]_(Service!service)
  BY ServiceImplemented
<1>3. QED
  BY TypeInit, TypeStep, OwnerInit, OwnerStep, ServiceInit, ServiceStep, <1>1, <1>2, PTL
     DEF Spec, ExactlyOnce, Service!Spec
=============================================================================
