--------------------------- MODULE EepromLinkProofs --------------------------
(***************************************************************************)
(* Proofs about the EEPROM that FPGA and MCU emulate together, for every   *)
(* size of it and any words.                                               *)
(***************************************************************************)
EXTENDS EepromLink, SequenceTheorems, TLAPS

-----------------------------------------------------------------------------
(* The invariant.                                                          *)

Writes == cmd \in {"Write", "WriteAll"}
Everywhere == cmd \in {"WriteAll", "EraseAll"}
LastCycle == IF cmd = "Write" THEN 33 ELSE IF cmd = "EraseAll" THEN 17 ELSE Mask
OpOf(c) == CASE c = "Write" -> "WRITE" [] c = "Erase" -> "ERASE" [] c = "WriteAll" -> "WRAL"
             [] c = "EraseAll" -> "ERAL"

\* The counter and the command in progress.
CountInv ==
  /\ cmd \in Cmds /\ command \in Command \cup {NoWord}
  /\ write_counter \in 0..1023
  /\ busy => write_counter <= LastCycle
  /\ ~busy => write_counter \in {0, LastCycle + 1}
  /\ busy /\ external_busy => write_counter > 0
  /\ ~Ready => command \in Command /\ command.op = OpOf(cmd)

\* The MCU has, or will have in its FIFO, both words of the command.
DataSent == Writes /\ (~busy \/ write_counter > 33)

NoEdge == ~edge[1] /\ ~edge[2] /\ ~edge[3]
Rising == (edge[3] => edge[2]) /\ (edge[2] => edge[1])

\* The link and the MCU are at rest, ...
Calm == words = << >> /\ write_command = NoWord /\ ~pin /\ ~finishing /\ NoEdge

\* ... the command has arrived, ...
Arrived ==
  /\ words = IF DataSent THEN <<command, serial_data_out>> ELSE <<command>>
  /\ write_command = NoWord /\ ~pin /\ ~finishing /\ NoEdge

\* ... was taken, and its data is awaited, ...
Half ==
  /\ Writes
  /\ words = IF DataSent THEN <<serial_data_out>> ELSE << >>
  /\ write_command = command /\ pin /\ ~finishing /\ Rising

\* ... was obeyed, ...
Stored == words = << >> /\ write_command = NoWord /\ pin /\ finishing /\ Rising

\* ... and the busy pulse is over, with its end on the way.
Acknowledged ==
  /\ words = << >> /\ write_command = NoWord /\ ~pin /\ ~finishing
  /\ IF edge[1] THEN Rising ELSE edge[2] \/ edge[3]

Obeyed == Stored \/ Acknowledged

LinkInv ==
  /\ ~external_busy => Calm
  /\ external_busy /\ busy /\ write_counter <= 17 => Calm
  /\ external_busy /\ (~busy \/ write_counter > 17) =>
       \/ Arrived \/ Half
       \/ Obeyed /\ (Writes => DataSent)
  /\ busy /\ ~external_busy /\ write_counter > 0 => write_counter > 17 /\ (Writes => DataSent)

\* The two copies agree at an address, or only the MCU's was erased there.
Agree(a) == memory[a] = eeprom_data[a] \/ (a \notin Erasable /\ eeprom_data[a] = Erased)

\* The addresses of the command in progress, those of them that the FPGA has
\* come to, and whether the MCU is done.
Affected(a) == Everywhere \/ a = command.addr
Swept(a) == IF busy THEN write_counter > 0 /\ (Everywhere => a < write_counter)
            ELSE cmd = "EraseAll" => a < 18
Told == IF external_busy THEN Obeyed ELSE write_counter > 0

CopyInv ==
  \A a \in Watched :
    IF Ready \/ ~Affected(a) THEN Agree(a)
    ELSE /\ Swept(a) => memory[a] = WriteData
         /\ Told => eeprom_data[a] = WriteData
         /\ ~Swept(a) /\ ~Told => Agree(a)

LinkedInv == CountInv /\ LinkInv /\ CopyInv

-----------------------------------------------------------------------------
(* What the clock does to counter, flags and pin.                          *)

LEMMA Sizes == Mask \in {63, 511, 1023} /\ Watched \subseteq 0..Mask /\ Erasable \subseteq Watched
BY MaskAssumption, WatchedAssumption, ErasableAssumption DEF OfSize, Layout

LEMMA LastCycles == cmd \in Cmds => LastCycle \in 17..Mask
BY Sizes DEF LastCycle, Cmds

LEMMA NoWrap == ASSUME NEW w \in 0..Mask PROVE w % (Mask + 1) = w
<1>1. CASE Mask = 63
  BY <1>1
<1>2. CASE Mask = 511
  BY <1>2
<1>3. CASE Mask = 1023
  BY <1>3
<1> QED
  BY <1>1, <1>2, <1>3, Sizes

LEMMA LastIsLast ==
  ASSUME CountInv, busy
  PROVE  WriteCounterLastValue <=> write_counter = LastCycle
<1>1. write_counter \in 0..Mask
  BY LastCycles, Sizes DEF CountInv
<1>2. write_counter % (Mask + 1) = write_counter
  BY <1>1, NoWrap
<1> QED
  BY <1>2 DEF CountInv, Cmds, WriteCounterLastValue, LastCycle

LEMMA CommandIsNoNoWord == NoWord \notin Command
BY OperationsAssumption DEF NoWord, Command

\* The counter goes on while a command does; with the last cycle of the largest
\* size it is back at zero.
Counts ==
  /\ busy' => write_counter' = write_counter + 1
  /\ ~busy => write_counter' = 0
  /\ write_counter' \in {0, write_counter + 1} /\ write_counter' < 1024

\* The registers after a cycle.
LEMMA Cycle ==
  ASSUME CountInv, SClk
  PROVE  /\ busy' <=> (busy /\ write_counter # LastCycle)
         /\ Counts
         /\ external_busy' <=> /\ ~MCUReadyFallingEdge
                               /\ external_busy \/ (busy /\ write_counter = 0)
         /\ UNCHANGED <<command, serial_data_out, cmd, pin, eeprom_data, write_command, finishing>>
<1>1. busy' <=> (busy /\ ~WriteCounterLastValue)
  BY Zenon DEF SClk
<1>2. external_busy' <=> Awaiting
  BY Zenon DEF SClk
<1>3. UNCHANGED <<command, serial_data_out, cmd, pin, eeprom_data, write_command, finishing>>
  BY DEF SClk, mcuVars
<1>5. busy' <=> (busy /\ write_counter # LastCycle)
  BY <1>1, LastIsLast
<1>4. Counts
  <2>1. write_counter' = IF busy THEN (write_counter + 1) % 1024 ELSE 0
    BY DEF SClk
  <2>2. busy => write_counter \in 0..1023 /\ write_counter <= LastCycle /\ LastCycle \in 0..1023
    BY LastCycles, Sizes DEF CountInv
  <2>3. ASSUME NEW k \in 0..1023 PROVE (k + 1) % 1024 = IF k = 1023 THEN 0 ELSE k + 1
    OBVIOUS
  <2>4. busy /\ busy' => write_counter # 1023
    BY <2>2, <1>5
  <2>5. CASE busy
    <3>1. write_counter' = IF write_counter = 1023 THEN 0 ELSE write_counter + 1
      BY <2>1, <2>2, <2>3, <2>5
    <3> QED
      BY <2>2, <2>4, <2>5, <3>1 DEF Counts
  <2>6. CASE ~busy
    BY <1>5, <2>1, <2>6 DEF Counts
  <2> QED
    BY <2>5, <2>6
<1> QED
  BY <1>2, <1>3, <1>4, <1>5, Zenon DEF Awaiting

LEMMA Samples ==
  ASSUME SClk
  PROVE  (edge'[1] <=> pin) /\ (edge'[2] <=> edge[1]) /\ (edge'[3] <=> edge[2])
<1>1. edge' = <<pin, edge[1], edge[2]>>
  BY DEF SClk
<1> QED
  BY <1>1

LEMMA Shifted ==
  ASSUME CountInv, SClk
  PROVE  words' = words \o (IF busy /\ write_counter = 17 THEN <<command>>
                            ELSE IF busy /\ write_counter = 33 /\ Writes THEN <<serial_data_out>>
                            ELSE << >>)
<1>1. words' = words \o Sent
  BY DEF SClk
<1>2. ~busy => write_counter # 17 /\ write_counter # 33
  <2>1. LastCycle \in {17, 33, 63, 511, 1023}
    BY Sizes DEF LastCycle
  <2> QED
    BY <2>1 DEF CountInv
<1>3. Writes <=> cmd \notin {"Erase", "EraseAll"}
  BY DEF CountInv, Cmds, Writes
<1>4. Sent = IF busy /\ write_counter = 17 THEN <<command>>
             ELSE IF busy /\ write_counter = 33 /\ Writes THEN <<serial_data_out>>
             ELSE << >>
  <2>1. CASE write_counter = 17
    <3>1. busy
      BY <2>1, <1>2
    <3> QED
      BY <2>1, <3>1 DEF Sent
  <2>2. CASE write_counter = 33 /\ Writes
    <3>1. busy
      BY <2>2, <1>2
    <3> QED
      BY <2>2, <3>1, <1>3 DEF Sent
  <2>3. CASE write_counter # 17 /\ ~(write_counter = 33 /\ Writes)
    BY <2>3, <1>3 DEF Sent
  <2> QED
    BY <2>1, <2>2, <2>3
<1> QED
  BY <1>1, <1>4

-----------------------------------------------------------------------------
(* The words of the link.                                                  *)

LEMMA OneWord ==
  ASSUME NEW a
  PROVE  <<a>> # << >> /\ Head(<<a>>) = a /\ Tail(<<a>>) = << >>
OBVIOUS

LEMMA TwoWords ==
  ASSUME NEW a, NEW b
  PROVE  <<a, b>> # << >> /\ Head(<<a, b>>) = a /\ Tail(<<a, b>>) = <<b>>
OBVIOUS

LEMMA WordAfterWord ==
  ASSUME NEW a, NEW b
  PROVE  <<a>> \o <<b>> = <<a, b>>
<1>1. <<a>> \in Seq({a, b}) /\ <<b>> \in Seq({a, b}) /\ <<a, b>> \in Seq({a, b})
  OBVIOUS
<1>2. <<a>> \o <<b>> \in Seq({a, b}) /\ Len(<<a>> \o <<b>>) = 2
  BY <1>1
<1>3. (<<a>> \o <<b>>)[1] = a /\ (<<a>> \o <<b>>)[2] = b
  BY <1>1
<1>4. Len(<<a, b>>) = 2 /\ <<a, b>>[1] = a /\ <<a, b>>[2] = b
  OBVIOUS
<1>5. \A i \in 1..2 : (<<a>> \o <<b>>)[i] = <<a, b>>[i]
  BY <1>3, <1>4
<1> QED
  BY <1>1, <1>2, <1>4, <1>5, SeqEqual

LEMMA NoMoreWords ==
  ASSUME NEW a, NEW b
  PROVE  /\ << >> \o << >> = << >> /\ << >> \o <<a>> = <<a>> /\ <<a>> \o << >> = <<a>>
         /\ <<a, b>> \o << >> = <<a, b>>
OBVIOUS

-----------------------------------------------------------------------------
(* CountInv.                                                               *)

LEMMA GameCounts == ASSUME CountInv, Game PROVE CountInv'
<1>1. CASE \E c \in Command : WriteCom(c)
  BY <1>1 DEF CountInv, WriteCom, GameMayWrite, Ready, LastCycle, OpOf
<1>2. CASE \E d \in Word : WriteSerialData(d)
  BY <1>2 DEF CountInv, WriteSerialData, GameMayWrite, Ready, LastCycle, OpOf
<1>3. CASE ControlRead
  BY <1>3 DEF CountInv, ControlRead, Ready, LastCycle, OpOf
<1>4. ASSUME NEW c \in Cmds, Start(c), command.op = OpOf(c), c \in Cmds
      PROVE  CountInv'
  <2>1. command \in Command
    <3>1. CASE command = NoWord
      BY <3>1, <1>4 DEF NoWord, OpOf, Cmds
    <3> QED
      BY <3>1 DEF CountInv
  <2>2. cmd' = c /\ command' = command /\ write_counter' = 0 /\ ~external_busy'
    BY <1>4 DEF Start, GameMayWrite, Ready
  <2>3. LastCycle' \in Nat
    BY <2>2, Sizes DEF LastCycle
  <2>4. OpOf(cmd') = OpOf(c)
    BY <2>2
  <2> QED
    BY <1>4, <2>1, <2>2, <2>3, <2>4 DEF CountInv
<1>5. CASE ControlWrite
  <2>1. CASE command.op = "WRITE" /\ Start("Write")
    BY <2>1, <1>4 DEF OpOf, Cmds
  <2>2. CASE command.op = "WRAL" /\ Start("WriteAll")
    BY <2>2, <1>4 DEF OpOf, Cmds
  <2> QED
    BY <1>5, <2>1, <2>2 DEF ControlWrite
<1>6. CASE ControlErase
  <2>1. CASE command.op = "ERASE" /\ Start("Erase")
    BY <2>1, <1>4 DEF OpOf, Cmds
  <2>2. CASE command.op = "ERAL" /\ Start("EraseAll")
    BY <2>2, <1>4 DEF OpOf, Cmds
  <2> QED
    BY <1>6, <2>1, <2>2 DEF ControlErase
<1>7. CASE ControlProtect
  BY <1>7 DEF CountInv, ControlProtect, GameMayWrite, Ready, LastCycle, OpOf
<1> QED
  BY <1>1, <1>2, <1>3, <1>5, <1>6, <1>7 DEF Game

LEMMA ClockCounts == ASSUME CountInv, SClk PROVE CountInv'
<1>1. /\ busy' <=> (busy /\ write_counter # LastCycle)
      /\ Counts
      /\ external_busy' <=> /\ ~MCUReadyFallingEdge
                            /\ external_busy \/ (busy /\ write_counter = 0)
      /\ UNCHANGED <<command, serial_data_out, cmd, pin, eeprom_data, write_command, finishing>>
  BY Cycle
<1>2. LastCycle' = LastCycle /\ OpOf(cmd') = OpOf(cmd) /\ LastCycle \in Nat
  BY <1>1, LastCycles, Sizes DEF LastCycle, CountInv
<1>3. ~Ready' => ~Ready
  BY <1>1 DEF Ready
<1> QED
  BY <1>1, <1>2, <1>3 DEF CountInv, Counts

-----------------------------------------------------------------------------
(* LinkInv.  The game finds the link at rest and leaves it so.             *)

LEMMA GameLinks == ASSUME CountInv, LinkInv, Game PROVE LinkInv'
<1>1. CASE \E c \in Command : WriteCom(c)
  <2>1. ~external_busy /\ ~external_busy' /\ write_counter' = 0
    BY <1>1 DEF WriteCom, GameMayWrite, Ready
  <2>2. Calm'
    BY <1>1, <2>1 DEF WriteCom, mcuVars, LinkInv, Calm, NoEdge
  <2> QED
    BY <2>1, <2>2 DEF LinkInv
<1>2. CASE \E d \in Word : WriteSerialData(d)
  <2>1. ~external_busy /\ ~external_busy' /\ write_counter' = 0
    BY <1>2 DEF WriteSerialData, GameMayWrite, Ready
  <2>2. Calm'
    BY <1>2, <2>1 DEF WriteSerialData, mcuVars, LinkInv, Calm, NoEdge
  <2> QED
    BY <2>1, <2>2 DEF LinkInv
<1>3. CASE ControlRead
  BY <1>3 DEF ControlRead, mcuVars, LinkInv, Calm, NoEdge, Arrived, Half, Obeyed, Stored,
              Acknowledged, DataSent, Writes, Rising
<1>4. ASSUME NEW c, Start(c) PROVE LinkInv'
  <2>1. ~external_busy /\ ~external_busy' /\ write_counter' = 0
    BY <1>4 DEF Start, GameMayWrite, Ready
  <2>2. Calm'
    BY <1>4, <2>1 DEF Start, mcuVars, LinkInv, Calm, NoEdge
  <2> QED
    BY <2>1, <2>2 DEF LinkInv
<1>5. CASE ControlWrite \/ ControlErase
  BY <1>5, <1>4 DEF ControlWrite, ControlErase
<1>6. CASE ControlProtect
  <2>1. ~external_busy /\ ~external_busy' /\ write_counter' = 0
    BY <1>6 DEF ControlProtect, GameMayWrite, Ready
  <2>2. Calm'
    BY <1>6, <2>1 DEF ControlProtect, mcuVars, LinkInv, Calm, NoEdge
  <2> QED
    BY <2>1, <2>2 DEF LinkInv
<1> QED
  BY <1>1, <1>2, <1>3, <1>5, <1>6 DEF Game

\* The data has been sent once the cycle 0x21 is past.
LEMMA Sending ==
  ASSUME CountInv, SClk
  PROVE  /\ Writes' <=> Writes
         /\ DataSent' <=> DataSent \/ (busy /\ write_counter = 33 /\ Writes)
<1>1. /\ busy' <=> (busy /\ write_counter # LastCycle)
      /\ Counts
      /\ cmd' = cmd
  BY Cycle
<1>2. Writes => LastCycle \in 33..Mask
  BY Sizes DEF Writes, LastCycle
<1>3. Writes' <=> Writes
  BY <1>1 DEF Writes
<1>4. busy => write_counter <= LastCycle /\ write_counter \in Nat
  BY DEF CountInv
<1> QED
  BY <1>1, <1>2, <1>3, <1>4, Sizes DEF DataSent, Counts

\* No word leaves in the other cycles.
LEMMA NothingShifted ==
  ASSUME CountInv, SClk, ~(busy /\ write_counter = 17), ~(busy /\ write_counter = 33 /\ Writes)
  PROVE  words' = words \o << >>
BY Shifted

LEMMA ClockLinks == ASSUME CountInv, LinkInv, SClk PROVE LinkInv'
<1>1. /\ busy' <=> (busy /\ write_counter # LastCycle)
      /\ Counts
      /\ external_busy' <=> /\ ~MCUReadyFallingEdge
                            /\ external_busy \/ (busy /\ write_counter = 0)
      /\ UNCHANGED <<command, serial_data_out, cmd, pin, eeprom_data, write_command, finishing>>
  BY Cycle
<1>2. (edge'[1] <=> pin) /\ (edge'[2] <=> edge[1]) /\ (edge'[3] <=> edge[2])
  BY Samples
<1>3. /\ Writes' <=> Writes
      /\ DataSent' <=> DataSent \/ (busy /\ write_counter = 33 /\ Writes)
  BY Sending
<1>4. write_counter \in Nat /\ LastCycle \in 17..Mask /\ Mask \in Nat
  BY LastCycles, Sizes DEF CountInv
<1>5. ASSUME Calm, ~(busy /\ write_counter = 17), ~(busy /\ write_counter = 33 /\ Writes)
      PROVE  Calm' /\ ~MCUReadyFallingEdge
  <2>1. words' = << >>
    BY <1>5, NothingShifted, NoMoreWords DEF Calm
  <2> QED
    BY <1>1, <1>2, <1>5, <2>1 DEF Calm, NoEdge, MCUReadyFallingEdge
<1>6. CASE ~external_busy
  <2>1. Calm /\ (busy /\ write_counter > 0 => write_counter > 17 /\ (Writes => DataSent))
    BY <1>6 DEF LinkInv
  <2>2. ~(busy /\ write_counter = 17) /\ ~(busy /\ write_counter = 33 /\ Writes)
    BY <2>1, <1>4 DEF DataSent
  <2>3. Calm' /\ ~MCUReadyFallingEdge
    BY <1>5, <2>1, <2>2
  <2>4. busy /\ write_counter = 0 => external_busy' /\ busy' /\ write_counter' = 1
    BY <1>1, <1>4, <2>3 DEF Counts
  <2>5. ~busy => ~external_busy' /\ ~busy' /\ write_counter' = 0
    BY <1>1, <1>6 DEF Counts
  <2>7. busy /\ ~busy' /\ write_counter > 0 => ~external_busy'
    BY <1>1, <1>6
  <2>6. busy /\ busy' /\ write_counter > 0 =>
          ~external_busy' /\ write_counter' > 17 /\ (Writes' => DataSent')
    BY <1>1, <1>3, <1>4, <1>6, <2>1 DEF Counts
  <2> QED
    BY <1>4, <2>3, <2>4, <2>5, <2>6, <2>7 DEF LinkInv
<1>7. CASE external_busy /\ busy /\ write_counter <= 17
  <2>1. Calm /\ ~MCUReadyFallingEdge /\ external_busy'
    BY <1>1, <1>7 DEF LinkInv, Calm, NoEdge, MCUReadyFallingEdge
  <2>2. CASE write_counter # 17
    <3>1. Calm' /\ write_counter' <= 17 /\ busy'
      BY <1>1, <1>4, <1>5, <1>7, <2>1, <2>2 DEF Counts
    <3> QED
      BY <1>1, <1>4, <1>7, <2>1, <3>1 DEF LinkInv, Counts
  <2>3. CASE write_counter = 17
    <3>1. words' = <<command>>
      BY <1>7, <2>1, <2>3, Shifted, NoMoreWords DEF Calm
    <3>2. ~DataSent
      BY <1>7, <2>3 DEF DataSent
    <3>3. ~DataSent'
      BY <1>3, <2>3, <3>2
    <3>4. Arrived'
      BY <1>1, <1>2, <2>1, <3>1, <3>3 DEF Arrived, Calm, NoEdge
    <3>5. busy' => write_counter' = 18
      BY <1>1, <1>7, <2>3 DEF Counts
    <3> QED
      BY <2>1, <3>4, <3>5 DEF LinkInv
  <2> QED
    BY <2>2, <2>3
<1>8. CASE external_busy /\ (~busy \/ write_counter > 17)
  <2>1. ~(busy /\ write_counter = 17)
    BY <1>8
  <2>2. write_counter' \in Nat /\ (~busy' \/ write_counter' > 17)
    BY <1>1, <1>4, <1>8 DEF Counts
  <2>3. busy /\ write_counter = 33 /\ Writes => words' = words \o <<serial_data_out>>
    BY <2>1, Shifted
  <2>4. ~(busy /\ write_counter = 33 /\ Writes) => words' = words \o << >>
    BY <2>1, NothingShifted
  <2>5. busy /\ write_counter = 33 /\ Writes => ~DataSent
    BY DEF DataSent
  <2>6. CASE Arrived
    <3>1. words' = IF DataSent' THEN <<command, serial_data_out>> ELSE <<command>>
      BY <1>3, <2>3, <2>4, <2>5, <2>6, WordAfterWord, NoMoreWords DEF Arrived
    <3>2. Arrived' /\ external_busy'
      BY <1>1, <1>2, <1>8, <2>6, <3>1 DEF Arrived, NoEdge, MCUReadyFallingEdge
    <3> QED
      BY <2>2, <3>2 DEF LinkInv
  <2>7. CASE Half
    <3>1. words' = IF DataSent' THEN <<serial_data_out>> ELSE << >>
      BY <1>3, <2>3, <2>4, <2>5, <2>7, NoMoreWords DEF Half
    <3>2. Half' /\ external_busy'
      BY <1>1, <1>2, <1>3, <1>8, <2>7, <3>1 DEF Half, Rising, MCUReadyFallingEdge
    <3> QED
      BY <2>2, <3>2 DEF LinkInv
  <2>8. CASE Obeyed /\ (Writes => DataSent)
    <3>1. Writes' => DataSent'
      BY <1>3, <2>8
    <3>2. words' = << >>
      BY <2>4, <2>5, <2>8, NoMoreWords DEF Obeyed, Stored, Acknowledged
    <3>3. CASE Stored
      <4>1. Stored' /\ external_busy'
        BY <1>1, <1>2, <1>8, <3>2, <3>3 DEF Stored, Rising, MCUReadyFallingEdge
      <4> QED
        BY <2>2, <3>1, <4>1 DEF LinkInv, Obeyed
    <3>4. CASE Acknowledged /\ MCUReadyFallingEdge
      <4>1. Calm' /\ ~external_busy'
        BY <1>1, <1>2, <3>2, <3>4 DEF Acknowledged, Calm, NoEdge, Rising, MCUReadyFallingEdge
      <4> QED
        BY <2>2, <3>1, <4>1 DEF LinkInv
    <3>5. CASE Acknowledged /\ ~MCUReadyFallingEdge
      <4>1. Acknowledged' /\ external_busy'
        BY <1>1, <1>2, <1>8, <3>2, <3>5 DEF Acknowledged, Rising, MCUReadyFallingEdge
      <4> QED
        BY <2>2, <3>1, <4>1 DEF LinkInv, Obeyed
    <3> QED
      BY <2>8, <3>3, <3>4, <3>5 DEF Obeyed
  <2> QED
    BY <1>8, <2>6, <2>7, <2>8 DEF LinkInv
<1> QED
  BY <1>4, <1>6, <1>7, <1>8

-----------------------------------------------------------------------------
(* The words the MCU takes are those of the command in progress.           *)

LEMMA WordsInProgress ==
  ASSUME CountInv, LinkInv, ExchangeWord
  PROVE  /\ external_busy /\ (~busy \/ write_counter > 17)
         /\ command \in Command /\ command.op = OpOf(cmd) /\ command # NoWord
         /\ ~Obeyed
         /\ Arrived \/ Half
<1>1. words # << >> /\ ~finishing
  BY DEF ExchangeWord
<1>2. ~Calm /\ ~Obeyed
  BY <1>1 DEF Calm, Obeyed, Stored, Acknowledged
<1>3. external_busy /\ (~busy \/ write_counter > 17) /\ (Arrived \/ Half)
  BY <1>2 DEF LinkInv, CountInv
<1>4. command \in Command /\ command.op = OpOf(cmd)
  BY <1>3 DEF CountInv, Ready
<1> QED
  BY <1>2, <1>3, <1>4, CommandIsNoNoWord

\* The word that is a command leaves the data of a write to be waited for; the
\* other commands are obeyed at once.
LEMMA TakesCommand ==
  ASSUME CountInv, LinkInv, ExchangeWord, Arrived
  PROVE  \/ Half' /\ \A a \in Watched : eeprom_data'[a] = eeprom_data[a]
         \/ /\ Stored' /\ ~Writes
            /\ \A a \in Watched : eeprom_data'[a] = IF Affected(a) THEN WriteData ELSE eeprom_data[a]
<1>1. command \in Command /\ command.op = OpOf(cmd) /\ command # NoWord /\ cmd \in Cmds
  BY WordsInProgress DEF CountInv
<1>2. Head(words) = command /\ Tail(words) = IF DataSent THEN <<serial_data_out>> ELSE << >>
  BY OneWord, TwoWords DEF Arrived
<1>3. UNCHANGED <<cmd, busy, write_counter, command, serial_data_out, edge>>
  BY DEF ExchangeWord, fpgaVars
<1>4. pin' = TRUE /\ words' = Tail(words) /\ DecodeWord(command)
  BY <1>2 DEF ExchangeWord, Arrived
<1>5. /\ eeprom_data' = [a \in Watched |->
            IF command.op = "ERAL" \/ (command.op = "ERASE" /\ a = command.addr)
            THEN Erased ELSE eeprom_data[a]]
      /\ write_command' = IF command.op \in {"WRITE", "WRAL"} THEN command ELSE NoWord
      /\ finishing' = (command.op \notin {"WRITE", "WRAL"})
  BY <1>1, <1>4 DEF DecodeWord
<1>6. finishing' <=> command.op \notin {"WRITE", "WRAL"}
  BY <1>5, Zenon
<1>7. (DataSent' <=> DataSent) /\ (Writes' <=> Writes) /\ Rising' /\ words' = Tail(words)
  BY <1>3, <1>4 DEF DataSent, Writes, Rising, Arrived, NoEdge
<1>8. CASE Writes
  <2>1. command.op \in {"WRITE", "WRAL"}
    BY <1>1, <1>8 DEF Writes, OpOf
  <2>2. \A a \in Watched : eeprom_data'[a] = eeprom_data[a]
    BY <1>5, <2>1
  <2>3. write_command' = command' /\ ~finishing' /\ pin'
    BY <1>3, <1>4, <1>5, <1>6, <2>1
  <2>4. words' = IF DataSent' THEN <<serial_data_out'>> ELSE << >>
    BY <1>2, <1>3, <1>7
  <2> QED
    BY <1>7, <1>8, <2>2, <2>3, <2>4 DEF Half
<1>9. CASE ~Writes
  <2>1. \/ cmd = "Erase" /\ command.op = "ERASE"
        \/ cmd = "EraseAll" /\ command.op = "ERAL"
    BY <1>1, <1>9 DEF Writes, OpOf, Cmds
  <2>2. \A a \in Watched : eeprom_data'[a] = IF Affected(a) THEN WriteData ELSE eeprom_data[a]
    BY <1>5, <2>1 DEF Affected, Everywhere, WriteData
  <2>3. write_command' = NoWord /\ finishing' /\ pin'
    BY <1>4, <1>5, <1>6, <2>1
  <2>4. words' = << >>
    BY <1>2, <1>7, <1>9 DEF DataSent
  <2> QED
    BY <1>7, <1>9, <2>2, <2>3, <2>4 DEF Stored
<1> QED
  BY <1>8, <1>9

\* The word that follows is the data.
LEMMA TakesData ==
  ASSUME CountInv, LinkInv, ExchangeWord, Half
  PROVE  /\ Stored' /\ DataSent
         /\ \A a \in Watched : eeprom_data'[a] = IF Affected(a) THEN WriteData ELSE eeprom_data[a]
<1>1. command.op = OpOf(cmd) /\ command # NoWord /\ cmd \in Cmds
  BY WordsInProgress DEF CountInv
<1>2. DataSent /\ words = <<serial_data_out>>
  BY DEF ExchangeWord, Half
<1>3. Head(words) = serial_data_out /\ Tail(words) = << >>
  BY <1>2, OneWord
<1>4. pin' = TRUE /\ words' = << >> /\ StoreWord(serial_data_out)
  BY <1>1, <1>3 DEF ExchangeWord, Half
<1>5. /\ eeprom_data' = [a \in Watched |->
            IF command.op = "WRAL" \/ a = command.addr THEN serial_data_out ELSE eeprom_data[a]]
      /\ write_command' = NoWord /\ finishing'
  BY <1>4 DEF StoreWord, Half
<1>6. (command.op = "WRAL" <=> Everywhere) /\ WriteData = serial_data_out
  BY <1>1 DEF Half, Writes, OpOf, Cmds, Everywhere, WriteData
<1>7. \A a \in Watched : eeprom_data'[a] = IF Affected(a) THEN WriteData ELSE eeprom_data[a]
  BY <1>5, <1>6 DEF Affected
<1>8. Rising'
  BY DEF ExchangeWord, fpgaVars, Half, Rising
<1> QED
  BY <1>2, <1>4, <1>5, <1>7, <1>8 DEF Stored

LEMMA AcknowledgesObeyed ==
  ASSUME CountInv, LinkInv, FinishBusy
  PROVE  /\ external_busy /\ (~busy \/ write_counter > 17)
         /\ Stored /\ (Writes => DataSent)
         /\ Acknowledged'
         /\ UNCHANGED <<fpgaVars, eeprom_data>>
<1>1. finishing /\ edge[1] /\ ~pin' /\ ~finishing' /\ UNCHANGED <<fpgaVars, words, eeprom_data, write_command>>
  BY DEF FinishBusy
<1>2. external_busy /\ (~busy \/ write_counter > 17) /\ Stored /\ (Writes => DataSent)
  BY <1>1 DEF LinkInv, CountInv, Calm, Arrived, Half, Obeyed, Acknowledged
<1>3. Acknowledged'
  BY <1>1, <1>2 DEF Stored, Acknowledged, Rising, fpgaVars
<1> QED
  BY <1>1, <1>2, <1>3

-----------------------------------------------------------------------------
(* LinkInv, for the steps of the MCU.                                      *)

LEMMA ExchangeLinks == ASSUME CountInv, LinkInv, ExchangeWord PROVE CountInv' /\ LinkInv'
<1>1. UNCHANGED <<cmd, busy, write_counter, command, serial_data_out, external_busy>>
  BY DEF ExchangeWord, fpgaVars
<1>2. CountInv'
  BY <1>1 DEF CountInv, LastCycle, OpOf, Ready
<1>3. external_busy /\ (~busy \/ write_counter > 17)
  BY WordsInProgress
<1>4. (Writes' <=> Writes) /\ (DataSent' <=> DataSent)
  BY <1>1 DEF Writes, DataSent
<1>5. Half' \/ (Stored' /\ (Writes => DataSent))
  BY WordsInProgress, TakesCommand, TakesData
<1>6. LinkInv'
  BY <1>1, <1>3, <1>4, <1>5 DEF LinkInv, Obeyed, CountInv
<1> QED
  BY <1>2, <1>6

LEMMA FinishLinks == ASSUME CountInv, LinkInv, FinishBusy PROVE CountInv' /\ LinkInv'
<1>1. /\ external_busy /\ (~busy \/ write_counter > 17) /\ (Writes => DataSent)
      /\ Acknowledged'
      /\ UNCHANGED fpgaVars
  BY AcknowledgesObeyed
<1>2. UNCHANGED <<cmd, busy, write_counter, command, serial_data_out, external_busy>>
  BY <1>1 DEF fpgaVars
<1>3. CountInv'
  BY <1>2 DEF CountInv, LastCycle, OpOf, Ready
<1>4. (Writes' <=> Writes) /\ (DataSent' <=> DataSent)
  BY <1>2 DEF Writes, DataSent
<1>5. LinkInv'
  BY <1>1, <1>2, <1>4 DEF LinkInv, Obeyed, CountInv
<1> QED
  BY <1>3, <1>5

-----------------------------------------------------------------------------
(* CopyInv.                                                                *)

LEMMA GameCopies == ASSUME CountInv, LinkInv, CopyInv, Game PROVE CopyInv'
<1>1. ASSUME Ready, UNCHANGED <<memory, eeprom_data, busy, external_busy>> PROVE CopyInv'
  BY <1>1 DEF CopyInv, Ready, Agree
<1>2. CASE \E c \in Command : WriteCom(c)
  BY <1>1, <1>2 DEF WriteCom, GameMayWrite, mcuVars
<1>3. CASE \E d \in Word : WriteSerialData(d)
  BY <1>1, <1>3 DEF WriteSerialData, GameMayWrite, mcuVars
<1>4. CASE ControlRead
  BY <1>4 DEF ControlRead, mcuVars, CopyInv, Ready, Agree, Affected, Everywhere, Swept, WriteData,
              Told, Obeyed, Stored, Acknowledged, Rising
<1>5. ASSUME NEW c, Start(c) PROVE CopyInv'
  <2>1. Ready /\ write_counter' = 0 /\ ~external_busy'
        /\ UNCHANGED <<memory, eeprom_data>>
    BY <1>5 DEF Start, GameMayWrite, Ready, mcuVars
  <2>2. \A a \in Watched : Agree(a)'
    BY <2>1 DEF CopyInv, Agree
  <2>3. \A a : busy' => ~Swept(a)' /\ ~Told'
    BY <2>1 DEF Swept, Told
  <2>4. ~busy' => Ready'
    BY <2>1 DEF Ready
  <2> QED
    BY <2>2, <2>3, <2>4 DEF CopyInv
<1>6. CASE ControlWrite \/ ControlErase
  BY <1>5, <1>6 DEF ControlWrite, ControlErase
<1>7. CASE ControlProtect
  BY <1>1, <1>7 DEF ControlProtect, GameMayWrite, mcuVars
<1> QED
  BY <1>2, <1>3, <1>4, <1>6, <1>7 DEF Game

LEMMA ExchangeCopies == ASSUME CountInv, LinkInv, CopyInv, ExchangeWord PROVE CopyInv'
<1>1. /\ UNCHANGED <<memory, cmd, busy, write_counter, command, serial_data_out, external_busy>>
  BY DEF ExchangeWord, fpgaVars
<1>2. external_busy /\ ~Obeyed
  BY WordsInProgress
<1>3. ~Ready /\ ~Ready' /\ WriteData' = WriteData
  BY <1>1, <1>2 DEF Ready, WriteData
<1>4. ~Told /\ (Told' <=> Obeyed')
  BY <1>1, <1>2 DEF Told
<1>5. \A a : (Affected(a)' <=> Affected(a)) /\ (Swept(a)' <=> Swept(a))
  BY <1>1 DEF Affected, Swept, Everywhere
<1>6. CASE Half' /\ \A a \in Watched : eeprom_data'[a] = eeprom_data[a]
  <2>1. ~Told'
    BY <1>4, <1>6 DEF Half, Obeyed, Stored, Acknowledged
  <2>2. \A a \in Watched : Agree(a)' <=> Agree(a)
    BY <1>1, <1>6 DEF Agree
  <2> QED
    BY <1>1, <1>3, <1>4, <1>5, <2>1, <2>2 DEF CopyInv
<1>7. CASE /\ Stored'
           /\ \A a \in Watched : eeprom_data'[a] = IF Affected(a) THEN WriteData ELSE eeprom_data[a]
  <2>1. Told'
    BY <1>4, <1>7 DEF Obeyed
  <2>2. \A a \in Watched : ~Affected(a) => (Agree(a)' <=> Agree(a))
    BY <1>1, <1>7 DEF Agree
  <2> QED
    BY <1>1, <1>3, <1>5, <1>7, <2>1, <2>2 DEF CopyInv
<1> QED
  BY <1>6, <1>7, WordsInProgress, TakesCommand, TakesData

LEMMA FinishCopies == ASSUME CountInv, LinkInv, CopyInv, FinishBusy PROVE CopyInv'
<1>1. external_busy /\ Stored /\ Acknowledged' /\ UNCHANGED <<fpgaVars, eeprom_data>>
  BY AcknowledgesObeyed
<1>2. UNCHANGED <<memory, cmd, busy, write_counter, command, serial_data_out, external_busy, eeprom_data>>
  BY <1>1 DEF fpgaVars
<1>3. ~Ready /\ ~Ready' /\ WriteData' = WriteData /\ Told /\ Told'
  BY <1>1, <1>2 DEF Ready, WriteData, Told, Obeyed
<1>4. \A a : (Affected(a)' <=> Affected(a)) /\ (Swept(a)' <=> Swept(a)) /\ (Agree(a)' <=> Agree(a))
  BY <1>2 DEF Affected, Swept, Everywhere, Agree
<1> QED
  BY <1>2, <1>3, <1>4 DEF CopyInv

-----------------------------------------------------------------------------
(* CopyInv, for the clock: the sweep takes one address a cycle, and no      *)
(* cycle changes what the MCU has done.                                     *)

LEMMA Programs ==
  ASSUME CountInv, SClk, NEW a \in Watched
  PROVE  memory'[a] = IF busy /\ (IF Everywhere THEN a = write_counter ELSE a = command.addr)
                      THEN WriteData ELSE memory[a]
<1>1. memory'[a] = IF busy /\ a = WriteAddress THEN WriteData ELSE memory[a]
  BY DEF SClk
<1>2. ASSUME busy PROVE WriteAddress = IF Everywhere THEN write_counter ELSE command.addr
  <2>1. write_counter \in 0..Mask
    BY <1>2, LastCycles, Sizes DEF CountInv
  <2>2. write_counter % (Mask + 1) = write_counter
    BY <2>1, NoWrap
  <2> QED
    BY <2>2 DEF WriteAddress, Everywhere
<1> QED
  BY <1>1, <1>2

LEMMA Sweeps ==
  ASSUME CountInv, SClk, NEW a \in Watched, Affected(a), Swept(a) => memory[a] = WriteData,
         ~Ready
  PROVE  /\ Swept(a)' => memory'[a] = WriteData
         /\ ~Swept(a)' => ~Swept(a) /\ memory'[a] = memory[a]
         /\ ~busy' /\ ~Swept(a)' => cmd = "EraseAll" /\ a \notin 0..17
<1>1. /\ busy' <=> (busy /\ write_counter # LastCycle)
      /\ Counts
      /\ UNCHANGED <<command, cmd>>
  BY Cycle
<1>2. memory'[a] = IF busy /\ (IF Everywhere THEN a = write_counter ELSE a = command.addr)
                   THEN WriteData ELSE memory[a]
  BY Programs
<1>3. a \in 0..Mask /\ Mask \in Nat /\ write_counter \in Nat /\ cmd \in Cmds
  BY Sizes DEF CountInv
<1>4. Everywhere' <=> Everywhere
  BY <1>1 DEF Everywhere
<1>5. CASE ~busy
  BY <1>1, <1>2, <1>3, <1>4, <1>5 DEF Swept
<1>6. CASE busy /\ ~Everywhere
  BY <1>1, <1>2, <1>3, <1>4, <1>6 DEF Swept, Affected, Everywhere, Counts
<1>7. CASE busy /\ Everywhere /\ busy'
  BY <1>1, <1>2, <1>3, <1>4, <1>7 DEF Swept, Counts
<1>8. CASE busy /\ Everywhere /\ ~busy'
  <2>1. write_counter = LastCycle
    BY <1>1, <1>8
  <2>2. CASE cmd = "EraseAll"
    BY <1>1, <1>2, <1>3, <1>8, <2>1, <2>2 DEF Swept, LastCycle
  <2>3. CASE cmd = "WriteAll"
    BY <1>1, <1>2, <1>3, <1>8, <2>1, <2>3 DEF Swept, LastCycle
  <2> QED
    BY <1>8, <2>2, <2>3 DEF Everywhere
<1> QED
  BY <1>5, <1>6, <1>7, <1>8

LEMMA ClockObeys ==
  ASSUME CountInv, LinkInv, SClk, external_busy, ~MCUReadyFallingEdge
  PROVE  Obeyed' <=> Obeyed
<1>1. UNCHANGED <<pin, write_command, finishing>>
  BY Cycle
<1>2. (edge'[1] <=> pin) /\ (edge'[2] <=> edge[1]) /\ (edge'[3] <=> edge[2])
  BY Samples
<1>3. CASE Calm \/ Arrived
  BY <1>1, <1>2, <1>3 DEF Calm, Arrived, NoEdge, Obeyed, Stored, Acknowledged
<1>4. CASE Half
  BY <1>1, <1>4 DEF Half, Obeyed, Stored, Acknowledged
<1>5. CASE /\ Obeyed /\ (Writes => DataSent)
           /\ ~busy \/ write_counter > 17
  <2>1. ~(busy /\ write_counter = 17) /\ ~(busy /\ write_counter = 33 /\ Writes)
    BY <1>5 DEF DataSent
  <2>2. words' = << >>
    BY <1>5, <2>1, NothingShifted, NoMoreWords DEF Obeyed, Stored, Acknowledged
  <2>3. Stored => Stored'
    BY <1>1, <1>2, <2>2 DEF Stored, Rising
  <2>4. Acknowledged => Acknowledged'
    BY <1>1, <1>2, <2>2 DEF Acknowledged, Rising, MCUReadyFallingEdge
  <2> QED
    BY <1>5, <2>3, <2>4 DEF Obeyed
<1>6. write_counter \in Nat
  BY DEF CountInv
<1> QED
  BY <1>3, <1>4, <1>5, <1>6 DEF LinkInv

LEMMA ClockTells ==
  ASSUME CountInv, LinkInv, SClk, ~Ready
  PROVE  /\ ~Ready' => (Told' <=> Told)
         /\ Ready' => Told /\ ~busy'
<1>1. /\ busy' <=> (busy /\ write_counter # LastCycle)
      /\ Counts
      /\ external_busy' <=> /\ ~MCUReadyFallingEdge
                            /\ external_busy \/ (busy /\ write_counter = 0)
  BY Cycle
<1>2. write_counter \in Nat /\ (busy /\ external_busy => write_counter > 0)
  BY DEF CountInv
<1>3. CASE external_busy /\ MCUReadyFallingEdge
  <2>1. Obeyed
    BY <1>2, <1>3 DEF LinkInv, Calm, Arrived, Half, NoEdge, Rising, MCUReadyFallingEdge
  <2> QED
    BY <1>1, <1>2, <1>3, <2>1 DEF Told, Ready, Counts
<1>4. CASE external_busy /\ ~MCUReadyFallingEdge
  <2>1. Obeyed' <=> Obeyed
    BY <1>4, ClockObeys
  <2> QED
    BY <1>1, <1>4, <2>1 DEF Told, Ready
<1>5. CASE ~external_busy
  <2>1. Calm /\ ~MCUReadyFallingEdge
    BY <1>5 DEF LinkInv, Calm, NoEdge, MCUReadyFallingEdge
  <2>2. ~Obeyed'
    BY <2>1, Samples, Cycle DEF Calm, NoEdge, Obeyed, Stored, Acknowledged
  <2> QED
    BY <1>1, <1>2, <1>5, <2>1, <2>2 DEF Told, Ready, Counts
<1> QED
  BY <1>3, <1>4, <1>5

LEMMA ClockCopies ==
  ASSUME Erasable \subseteq 0..17, CountInv, LinkInv, CopyInv, SClk
  PROVE  CopyInv'
<1>1. /\ busy' <=> (busy /\ write_counter # LastCycle)
      /\ external_busy' <=> /\ ~MCUReadyFallingEdge
                            /\ external_busy \/ (busy /\ write_counter = 0)
      /\ UNCHANGED <<command, serial_data_out, cmd, eeprom_data>>
  BY Cycle
<1>2. WriteData' = WriteData /\ \A a : (Affected(a)' <=> Affected(a))
  BY <1>1 DEF WriteData, Affected, Everywhere
<1> SUFFICES ASSUME NEW a \in Watched
             PROVE  IF Ready' \/ ~Affected(a)' THEN Agree(a)'
                    ELSE /\ Swept(a)' => memory'[a] = WriteData'
                         /\ Told' => eeprom_data'[a] = WriteData'
                         /\ ~Swept(a)' /\ ~Told' => Agree(a)'
  BY DEF CopyInv
<1>3. memory'[a] = memory[a] => (Agree(a)' <=> Agree(a))
  BY <1>1 DEF Agree
<1>4. CASE Ready
  <2>1. Ready' /\ memory'[a] = memory[a]
    BY <1>1, <1>4, Programs DEF Ready
  <2> QED
    BY <1>3, <1>4, <2>1 DEF CopyInv
<1>5. CASE ~Affected(a)
  <2>1. memory'[a] = memory[a]
    BY <1>5, Programs DEF Affected
  <2> QED
    BY <1>2, <1>3, <1>5, <2>1 DEF CopyInv
<1>6. CASE ~Ready /\ Affected(a)
  <2>1. /\ Swept(a) => memory[a] = WriteData
        /\ Told => eeprom_data[a] = WriteData
        /\ ~Swept(a) /\ ~Told => Agree(a)
    BY <1>6 DEF CopyInv
  <2>2. /\ Swept(a)' => memory'[a] = WriteData
        /\ ~Swept(a)' => ~Swept(a) /\ memory'[a] = memory[a]
        /\ ~busy' /\ ~Swept(a)' => cmd = "EraseAll" /\ a \notin 0..17
    BY <1>6, <2>1, Sweeps
  <2>3. /\ ~Ready' => (Told' <=> Told)
        /\ Ready' => Told /\ ~busy'
    BY <1>6, ClockTells
  <2>4. CASE Ready'
    <3>1. eeprom_data'[a] = WriteData
      BY <1>1, <2>1, <2>3, <2>4
    <3>2. CASE Swept(a)'
      BY <2>2, <2>4, <3>1, <3>2 DEF Agree
    <3>3. CASE ~Swept(a)'
      <4>1. cmd = "EraseAll" /\ a \notin Erasable
        BY <2>2, <2>3, <2>4, <3>3
      <4>2. WriteData = Erased
        BY <4>1 DEF WriteData
      <4> QED
        BY <2>4, <3>1, <4>1, <4>2 DEF Agree
    <3> QED
      BY <2>4, <3>2, <3>3
  <2>5. CASE ~Ready'
    BY <1>1, <1>2, <1>3, <1>6, <2>1, <2>2, <2>3, <2>5
  <2> QED
    BY <2>4, <2>5
<1> QED
  BY <1>4, <1>5, <1>6

-----------------------------------------------------------------------------
(* The theorems.                                                           *)

LEMMA GameStartsLinked == Init => LinkedInv
<1> SUFFICES ASSUME Init PROVE LinkedInv
  OBVIOUS
<1>1. Ready /\ write_counter = 0
  BY DEF Init, Ready
<1>2. CountInv
  BY <1>1 DEF Init, CountInv, Cmds, Ready
<1>3. Calm
  BY DEF Init, Calm, NoEdge
<1>4. LinkInv
  BY <1>1, <1>3 DEF LinkInv, Ready
<1>5. CopyInv
  BY <1>1 DEF Init, CopyInv, Agree
<1> QED
  BY <1>2, <1>4, <1>5 DEF LinkedInv

LEMMA StutterKeepsLink ==
  ASSUME UNCHANGED vars
  PROVE  (CountInv => CountInv') /\ (LinkInv => LinkInv') /\ (CopyInv => CopyInv')
<1>1. UNCHANGED <<memory, command, serial_data_out, cmd, busy, write_counter, external_busy,
                  edge, words, pin, eeprom_data, write_command, finishing>>
  BY DEF vars, fpgaVars, mcuVars
<1>2. CountInv => CountInv'
  BY <1>1 DEF CountInv, LastCycle, OpOf, Ready
<1>3. LinkInv => LinkInv'
  BY <1>1 DEF LinkInv, Calm, Arrived, Half, Obeyed, Stored, Acknowledged, NoEdge, Rising,
              DataSent, Writes
<1>4. CopyInv => CopyInv'
  BY <1>1 DEF CopyInv, Ready, Agree, Affected, Everywhere, Swept, WriteData, Told, Obeyed,
              Stored, Acknowledged, Rising
<1> QED
  BY <1>2, <1>3, <1>4

LEMMA LinkStep == CountInv /\ LinkInv /\ [Next]_vars => CountInv' /\ LinkInv'
<1> SUFFICES ASSUME CountInv, LinkInv, [Next]_vars PROVE CountInv' /\ LinkInv'
  OBVIOUS
<1>1. CASE Game
  BY <1>1, GameCounts, GameLinks
<1>2. CASE SClk
  BY <1>2, ClockCounts, ClockLinks
<1>3. CASE ExchangeWord
  BY <1>3, ExchangeLinks
<1>4. CASE FinishBusy
  BY <1>4, FinishLinks
<1>5. CASE UNCHANGED vars
  BY <1>5, StutterKeepsLink
<1> QED
  BY <1>1, <1>2, <1>3, <1>4, <1>5 DEF Next

LEMMA CopyStep ==
  ASSUME Erasable \subseteq 0..17, LinkedInv, [Next]_vars
  PROVE  LinkedInv'
<1> USE DEF LinkedInv
<1>1. CountInv' /\ LinkInv'
  BY LinkStep
<1>2. CASE Game
  BY <1>1, <1>2, GameCopies
<1>3. CASE SClk
  BY <1>1, <1>3, ClockCopies
<1>4. CASE ExchangeWord
  BY <1>1, <1>4, ExchangeCopies
<1>5. CASE FinishBusy
  BY <1>1, <1>5, FinishCopies
<1>6. CASE UNCHANGED vars
  BY <1>1, <1>6, StutterKeepsLink
<1> QED
  BY <1>2, <1>3, <1>4, <1>5, <1>6 DEF Next

\* When the game may issue a command, no word of the last one is left between
\* FPGA and MCU and the pulse that ended it is consumed, whatever the size of
\* the EEPROM and however long the MCU takes (eeprom.sv:76-190, eeprom.c:89-150).
THEOREM LinkComesToRest == Spec => []Quiescent
<1>1. Init => CountInv /\ LinkInv
  BY GameStartsLinked DEF LinkedInv
<1>2. CountInv /\ LinkInv => Quiescent
  BY DEF LinkInv, Ready, Quiescent, Calm, NoEdge, MCUReadyFallingEdge
<1> QED
  BY <1>1, <1>2, LinkStep, PTL DEF Spec

\* The copy that is saved is the one the game has been reading and writing,
\* for every size of EEPROM; of an erase-all that is so for the eighteen words
\* its sweep reaches (eeprom.sv:76-190, eeprom.c:89-150).
THEOREM CopiesAgree ==
  ASSUME Erasable \subseteq 0..17
  PROVE  Spec => []Mirror
<1>1. Init => LinkedInv
  BY GameStartsLinked
<1>2. LinkedInv /\ [Next]_vars => LinkedInv'
  BY CopyStep
<1>3. LinkedInv => Mirror
  BY DEF LinkedInv, CopyInv, Agree, Mirror
<1> QED
  BY <1>1, <1>2, <1>3, PTL DEF Spec

-----------------------------------------------------------------------------
(* The types.                                                              *)

DataInv ==
  /\ memory \in [Watched -> Word] /\ eeprom_data \in [Watched -> Word]
  /\ serial_data_out \in Word /\ serial_data_in \in Word
  /\ write_command \in Command \cup {NoWord}

FlagInv ==
  /\ busy \in BOOLEAN /\ write_protect \in BOOLEAN /\ external_busy \in BOOLEAN /\ bugged_done_bit \in BOOLEAN
  /\ pin \in BOOLEAN /\ finishing \in BOOLEAN
  /\ edge \in [1..3 -> BOOLEAN]

LEMMA ThreeSamples ==
  ASSUME NEW a \in BOOLEAN, NEW b \in BOOLEAN, NEW c \in BOOLEAN
  PROVE  <<a, b, c>> \in [1..3 -> BOOLEAN]
<1>1. <<a, b, c>> \in Seq(BOOLEAN) /\ Len(<<a, b, c>>) = 3
  OBVIOUS
<1> QED
  BY <1>1

LEMMA FlagStep == FlagInv /\ [Next]_vars => FlagInv'
<1> SUFFICES ASSUME FlagInv, [Next]_vars PROVE FlagInv'
  OBVIOUS
<1> USE DEF FlagInv
<1>1. CASE \E c \in Command : WriteCom(c)
  BY <1>1 DEF WriteCom, mcuVars
<1>2. CASE \E d \in Word : WriteSerialData(d)
  BY <1>2 DEF WriteSerialData, mcuVars
<1>3. CASE ControlRead
  <2>1. bugged_done_bit' \in BOOLEAN
    BY <1>3, Zenon DEF ControlRead
  <2> QED
    BY <1>3, <2>1 DEF ControlRead, mcuVars
<1>4. CASE ControlWrite \/ ControlErase
  <2>1. PICK c : Start(c)
    BY <1>4 DEF ControlWrite, ControlErase
  <2>2. busy' \in BOOLEAN
    BY <2>1, Zenon DEF Start
  <2> QED
    BY <2>1, <2>2 DEF Start, mcuVars
<1>5. CASE ControlProtect
  BY <1>5 DEF ControlProtect, mcuVars
<1>6. CASE SClk
  <2>1. busy' \in BOOLEAN /\ external_busy' \in BOOLEAN
    BY <1>6, Zenon DEF SClk, Awaiting
  <2>2. edge' = <<pin, edge[1], edge[2]>> /\ edge[1] \in BOOLEAN /\ edge[2] \in BOOLEAN
    BY <1>6 DEF SClk
  <2>3. edge' \in [1..3 -> BOOLEAN]
    BY <2>2, ThreeSamples
  <2> QED
    BY <1>6, <2>1, <2>3 DEF SClk, mcuVars
<1>7. CASE ExchangeWord
  <2>1. finishing' \in BOOLEAN
    BY <1>7, Zenon DEF ExchangeWord, StoreWord, DecodeWord
  <2> QED
    BY <1>7, <2>1 DEF ExchangeWord, fpgaVars
<1>8. CASE FinishBusy
  BY <1>8 DEF FinishBusy, fpgaVars
<1>9. CASE UNCHANGED vars
  BY <1>9 DEF vars, fpgaVars, mcuVars
<1> QED
  BY <1>1, <1>2, <1>3, <1>4, <1>5, <1>6, <1>7, <1>8, <1>9 DEF Next, Game

LEMMA DataStep == CountInv /\ LinkInv /\ DataInv /\ [Next]_vars => DataInv'
<1> SUFFICES ASSUME CountInv, LinkInv, DataInv, [Next]_vars PROVE DataInv'
  OBVIOUS
<1> USE DEF DataInv
<1>1. CASE \E c \in Command : WriteCom(c)
  BY <1>1 DEF WriteCom, mcuVars
<1>2. CASE \E d \in Word : WriteSerialData(d)
  BY <1>2 DEF WriteSerialData, mcuVars
<1>3. CASE ControlRead
  <2>1. command \in Command
    BY <1>3 DEF ControlRead, CountInv, NoWord
  <2>2. command.addr \in Watched
    BY <2>1 DEF Command
  <2> QED
    BY <1>3, <2>2 DEF ControlRead, mcuVars
<1>4. CASE ControlWrite \/ ControlErase
  BY <1>4 DEF ControlWrite, ControlErase, Start, mcuVars
<1>5. CASE ControlProtect
  BY <1>5 DEF ControlProtect, mcuVars
<1>6. CASE SClk
  <2>1. WriteData \in Word
    BY ErasedAssumption DEF WriteData
  <2>2. memory' \in [Watched -> Word]
    BY <1>6, <2>1 DEF SClk
  <2> QED
    BY <1>6, <2>2 DEF SClk, mcuVars
<1>7. CASE ExchangeWord /\ write_command # NoWord
  <2>1. Half /\ words # << >>
    BY <1>7 DEF ExchangeWord, LinkInv, Calm, Arrived, Obeyed, Stored, Acknowledged, CountInv
  <2>2. Head(words) \in Word
    BY <2>1, OneWord DEF Half
  <2> QED
    BY <1>7, <2>2 DEF ExchangeWord, StoreWord, fpgaVars
<1>8. CASE ExchangeWord /\ write_command = NoWord
  <2>1. eeprom_data' \in [Watched -> Word]
    BY <1>8, ErasedAssumption DEF ExchangeWord, DecodeWord
  <2>2. write_command' \in Command \cup {NoWord}
    BY <1>8 DEF ExchangeWord, DecodeWord
  <2> QED
    BY <1>8, <2>1, <2>2 DEF ExchangeWord, fpgaVars
<1>9. CASE FinishBusy
  BY <1>9 DEF FinishBusy, fpgaVars
<1>10. CASE UNCHANGED vars
  BY <1>10 DEF vars, fpgaVars, mcuVars
<1> QED
  BY <1>1, <1>2, <1>3, <1>4, <1>5, <1>6, <1>7, <1>8, <1>9, <1>10 DEF Next, Game

\* What is on the link follows from what it is about.
LEMMA WordsAre ==
  ASSUME CountInv, LinkInv, DataInv
  PROVE  words \in Seq(Command \cup Word) /\ Len(words) <= 2
<1>1. CASE words = << >>
  BY <1>1
<1>2. CASE words # << >>
  <2>1. ~Ready /\ (Arrived \/ Half)
    BY <1>2 DEF LinkInv, Calm, Obeyed, Stored, Acknowledged, CountInv, Ready
  <2>2. command \in Command /\ serial_data_out \in Word
    BY <2>1 DEF CountInv, DataInv
  <2>3. words = <<command>> \/ words = <<serial_data_out>> \/ words = <<command, serial_data_out>>
    BY <1>2, <2>1 DEF Arrived, Half
  <2>4. PICK c, d : c = command /\ d = serial_data_out /\ c \in Command \cup Word /\ d \in Command \cup Word
    BY <2>2
  <2>5. <<c>> \in Seq(Command \cup Word) /\ Len(<<c>>) <= 2
    BY <2>4
  <2>6. <<d>> \in Seq(Command \cup Word) /\ Len(<<d>>) <= 2
    BY <2>4
  <2>7. <<c, d>> \in Seq(Command \cup Word) /\ Len(<<c, d>>) <= 2
    BY <2>4
  <2> QED
    BY <2>3, <2>4, <2>5, <2>6, <2>7
<1> QED
  BY <1>1, <1>2

\* Every variable has its type: at most one command and its data are on the
\* link, and the counter of the sweep goes no further than the last address.
THEOREM EepromTypes == Spec => []TypeOK
<1>1. Init => CountInv /\ LinkInv /\ DataInv /\ FlagInv
  <2> SUFFICES ASSUME Init PROVE CountInv /\ LinkInv /\ DataInv /\ FlagInv
    OBVIOUS
  <2>1. CountInv /\ LinkInv
    BY GameStartsLinked DEF LinkedInv
  <2>2. edge \in [1..3 -> BOOLEAN]
    BY ThreeSamples DEF Init
  <2> QED
    BY <2>1, <2>2, ErasedAssumption DEF Init, DataInv, FlagInv
<1>2. CountInv /\ LinkInv /\ DataInv /\ FlagInv => TypeOK
  <2> SUFFICES ASSUME CountInv, LinkInv, DataInv, FlagInv PROVE TypeOK
    OBVIOUS
  <2>1. words \in Seq(Command \cup Word) /\ Len(words) <= 2
    BY WordsAre
  <2>2. write_counter \in 0..Mask + 1 /\ write_counter < 1024
    <3>1. LastCycle \in 17..Mask /\ Mask \in Nat
      BY LastCycles, Sizes DEF CountInv
    <3> QED
      BY <3>1 DEF CountInv
  <2> QED
    BY <2>1, <2>2 DEF TypeOK, CountInv, DataInv, FlagInv
<1> QED
  BY <1>1, <1>2, LinkStep, DataStep, FlagStep, PTL DEF Spec

-----------------------------------------------------------------------------
(* The chip that a game sees.                                              *)

\* What is not programmed is what is there.
LEMMA NothingInProgress ==
  ~busy => Programmed = memory
BY DEF Programmed

\* A step that leaves what the game may see is none of the chip's.
LEMMA Unseen ==
  ASSUME Programmed' = Programmed, UNCHANGED <<write_protect, serial_data_in>>, Ready' <=> Ready
  PROVE  [Chip!Next]_(Chip!vars)
<1>1. Ready' = Ready
  OBVIOUS
<1> QED
  BY <1>1 DEF Chip!vars

LEMMA GameUnseen ==
  ASSUME GameMayWrite, UNCHANGED <<memory, busy, external_busy, write_protect, serial_data_in>>
  PROVE  [Chip!Next]_(Chip!vars)
<1>1. ~busy /\ ~busy' /\ (Ready' <=> Ready)
  BY DEF GameMayWrite, Ready
<1>2. Programmed' = Programmed
  BY <1>1 DEF Programmed
<1> QED
  BY <1>1, <1>2, Unseen

LEMMA GameReads ==
  ASSUME CountInv, ControlRead
  PROVE  Chip!Next
<1>1. command.addr \in Watched
  <2>1. command \in Command
    BY DEF ControlRead, CountInv, NoWord
  <2> QED
    BY <2>1 DEF Command
<1>2. Programmed = memory /\ Programmed' = memory
  BY DEF ControlRead, Programmed
<1>3. (~write_protect)' = ~write_protect /\ (~Ready)' = ~Ready
  BY DEF ControlRead, Ready
<1>4. Chip!Read(command.addr)
  BY <1>2, <1>3 DEF ControlRead, Chip!Read
<1> QED
  BY <1>1, <1>4 DEF Chip!Next

LEMMA GameStarts ==
  ASSUME CountInv, DataInv, NEW c \in Cmds, Start(c), command.op = OpOf(c)
  PROVE  [Chip!Next]_(Chip!vars)
<1>1. /\ ~busy /\ ~external_busy /\ ~external_busy' /\ cmd' = c /\ (busy' <=> ~write_protect)
      /\ UNCHANGED <<memory, command, serial_data_out, serial_data_in, write_protect>>
  <2>1. busy' <=> ~write_protect
    BY Zenon DEF Start
  <2> QED
    BY <2>1 DEF Start, GameMayWrite, Ready
<1>2. CASE write_protect
  <2>1. ~busy' /\ Programmed = memory /\ Programmed' = memory
    BY <1>1, <1>2 DEF Programmed
  <2> QED
    BY <1>1, <2>1, Unseen DEF Ready
<1>3. CASE ~write_protect
  <2>1. command \in Command /\ command.addr \in Watched
    <3>1. command # NoWord
      BY DEF OpOf, Cmds, NoWord
    <3> QED
      BY <3>1 DEF CountInv, Command
  <2>2. Programmed = memory /\ busy' /\ ~Ready' /\ Ready
    BY <1>1, <1>3 DEF Programmed, Ready
  <2>3. serial_data_out \in Word /\ memory \in [Watched -> Word]
    BY DEF DataInv
  <2>4. Programmed' = Chip!Programmed(OpOf(c), command.addr, serial_data_out)
    <3>1. CASE c = "Write"
      BY <1>1, <2>2, <2>3, <3>1 DEF Programmed, OpOf, Chip!Programmed
    <3>2. CASE c = "Erase"
      BY <1>1, <2>2, <2>3, <3>2 DEF Programmed, OpOf, Chip!Programmed
    <3>3. CASE c = "WriteAll"
      BY <1>1, <2>2, <2>3, <3>3 DEF Programmed, OpOf, Chip!Programmed
    <3>4. CASE c = "EraseAll"
      BY <1>1, <2>2, <2>3, <3>4 DEF Programmed, OpOf, Chip!Programmed
    <3> QED
      BY <3>1, <3>2, <3>3, <3>4 DEF Cmds
  <2>5. (~Ready)' = TRUE /\ ~~Ready /\ (~write_protect)' = ~write_protect
    BY <1>1, <2>2
  <2>6. Chip!Program(OpOf(c), command.addr, serial_data_out)
    BY <1>1, <1>3, <2>4, <2>5 DEF Chip!Program
  <2>7. OpOf(c) \in {"WRITE", "ERASE", "WRAL", "ERAL"}
    BY DEF OpOf, Cmds
  <2> QED
    BY <2>1, <2>3, <2>6, <2>7 DEF Chip!Next
<1> QED
  BY <1>2, <1>3

LEMMA GameProtects ==
  ASSUME ControlProtect
  PROVE  Chip!Next
<1>1. ~busy /\ ~busy' /\ Programmed = memory /\ Programmed' = memory /\ Ready /\ (~Ready)' = ~Ready
      /\ serial_data_in' = serial_data_in
  BY DEF ControlProtect, GameMayWrite, Ready, Programmed
<1>2. (~write_protect)' = TRUE \/ (~write_protect)' = FALSE
  BY DEF ControlProtect
<1>3. Chip!Enable \/ Chip!Disable
  BY <1>1, <1>2 DEF Chip!Enable, Chip!Disable
<1> QED
  BY <1>3 DEF Chip!Next

\* A cycle of the sweep brings the array nearer to what the game already sees.
LEMMA ClockSeen ==
  ASSUME Erasable = Watched \cap 0..17, CountInv, CopyInv, DataInv, SClk
  PROVE  Programmed' = Programmed
<1>1. /\ busy' <=> (busy /\ write_counter # LastCycle)
      /\ Counts
      /\ UNCHANGED <<command, cmd, serial_data_out>>
  BY Cycle
<1>2. memory \in [Watched -> Word] /\ memory' \in [Watched -> Word]
  <2>1. WriteData \in Word
    BY ErasedAssumption DEF WriteData, DataInv
  <2> QED
    BY <2>1 DEF SClk, DataInv
<1>3. \A a \in Watched :
        memory'[a] = IF busy /\ (IF Everywhere THEN a = write_counter ELSE a = command.addr)
                     THEN WriteData ELSE memory[a]
  BY Programs
<1>4. CASE ~busy
  <2>1. ~busy' /\ \A a \in Watched : memory'[a] = memory[a]
    BY <1>1, <1>3, <1>4
  <2>2. memory' = memory
    BY <1>2, <2>1
  <2> QED
    BY <1>4, <2>1, <2>2 DEF Programmed
<1>5. CASE busy
  <2>1. command \in Command /\ command.addr \in Watched /\ cmd \in Cmds
    BY <1>5 DEF CountInv, Ready, Command
  <2>2. write_counter \in Nat /\ Mask \in Nat
    BY Sizes DEF CountInv
  <2>3. ASSUME NEW a \in Watched, Affected(a), Swept(a) PROVE memory[a] = WriteData
    BY <1>5, <2>3 DEF CopyInv, Ready
  <2>4. CASE cmd = "Write" \/ cmd = "Erase"
    <3>1. Programmed = [memory EXCEPT ![command.addr] = WriteData]
      BY <1>5, <2>4 DEF Programmed, WriteData
    <3>2. \A a \in Watched : memory'[a] = [memory EXCEPT ![command.addr] = WriteData][a]
      BY <1>2, <1>3, <1>5, <2>1, <2>4 DEF Everywhere
    <3>3. memory' = [memory EXCEPT ![command.addr] = WriteData]
      BY <1>2, <2>1, <3>2
    <3>4. WriteData' = WriteData
      BY <1>1 DEF WriteData
    <3>5. [memory' EXCEPT ![command.addr] = WriteData] = memory'
      BY <1>2, <2>1, <3>3
    <3>6. Programmed' = memory'
      <4>1. CASE busy'
        BY <1>1, <2>4, <3>5, <4>1 DEF Programmed, WriteData
      <4>2. CASE ~busy'
        BY <4>2 DEF Programmed
      <4> QED
        BY <4>1, <4>2
    <3> QED
      BY <3>1, <3>3, <3>6
  <2>5. CASE cmd = "WriteAll"
    <3>1. Programmed = [a \in Watched |-> serial_data_out]
      BY <1>5, <2>5 DEF Programmed
    <3>2. CASE busy'
      BY <1>1, <2>5, <3>1, <3>2 DEF Programmed
    <3>3. CASE ~busy'
      <4>1. write_counter = Mask
        BY <1>1, <1>5, <2>5, <3>3 DEF LastCycle
      <4>2. ASSUME NEW a \in Watched PROVE memory'[a] = serial_data_out
        <5>1. a \in 0..Mask /\ Affected(a) /\ WriteData = serial_data_out
          BY <2>5, Sizes DEF Affected, Everywhere, WriteData
        <5>2. CASE a = write_counter
          BY <1>3, <1>5, <2>5, <5>1, <5>2 DEF Everywhere
        <5>3. CASE a # write_counter
          <6>1. Swept(a)
            BY <1>5, <2>2, <4>1, <5>1, <5>3 DEF Swept
          <6> QED
            BY <1>3, <2>3, <2>5, <5>1, <5>3, <6>1 DEF Everywhere
        <5> QED
          BY <5>2, <5>3
      <4>3. memory' = [a \in Watched |-> serial_data_out]
        BY <1>2, <4>2
      <4> QED
        BY <3>1, <3>3, <4>3 DEF Programmed
    <3> QED
      BY <3>2, <3>3
  <2>6. CASE cmd = "EraseAll"
    <3>1. Programmed = [a \in Watched |-> IF a \in Erasable THEN Erased ELSE memory[a]]
      BY <1>5, <2>6 DEF Programmed
    <3>2. WriteData = Erased /\ Everywhere /\ LastCycle = 17
      BY <2>6 DEF WriteData, Everywhere, LastCycle
    <3>3. write_counter <= 17
      BY <1>5, <3>2 DEF CountInv
    <3>4. ASSUME NEW a \in Watched, a \notin Erasable PROVE memory'[a] = memory[a]
      <4>1. a \in 0..Mask /\ a \notin 0..17
        BY <3>4, Sizes
      <4> QED
        BY <1>3, <2>2, <3>2, <3>3, <4>1
    <3>5. CASE busy'
      <4>1. Programmed' = [a \in Watched |-> IF a \in Erasable THEN Erased ELSE memory'[a]]
        BY <1>1, <2>6, <3>5 DEF Programmed
      <4> QED
        BY <3>1, <3>4, <4>1
    <3>6. CASE ~busy'
      <4>1. write_counter = 17
        BY <1>1, <1>5, <3>2, <3>6
      <4>2. ASSUME NEW a \in Erasable PROVE memory'[a] = Erased
        <5>1. a \in Watched /\ a \in 0..17 /\ Affected(a)
          BY <3>2 DEF Affected
        <5>2. CASE a = write_counter
          BY <1>3, <1>5, <3>2, <5>1, <5>2
        <5>3. CASE a # write_counter
          <6>1. Swept(a)
            BY <1>5, <4>1, <5>1, <5>3 DEF Swept
          <6> QED
            BY <1>3, <2>3, <3>2, <5>1, <5>3, <6>1
        <5> QED
          BY <5>2, <5>3
      <4>3. memory' = [a \in Watched |-> IF a \in Erasable THEN Erased ELSE memory[a]]
        BY <1>2, <3>4, <4>2
      <4> QED
        BY <3>1, <3>6, <4>3 DEF Programmed
    <3> QED
      BY <3>5, <3>6
  <2> QED
    BY <2>1, <2>4, <2>5, <2>6 DEF Cmds
<1> QED
  BY <1>4, <1>5

LEMMA ClockCompletes ==
  ASSUME Erasable = Watched \cap 0..17, CountInv, CopyInv, DataInv, SClk
  PROVE  [Chip!Next]_(Chip!vars)
<1>1. Programmed' = Programmed /\ UNCHANGED <<write_protect, serial_data_in>>
  BY ClockSeen DEF SClk
<1>2. Ready => Ready'
  BY Cycle DEF Ready
<1>3. CASE Ready' <=> Ready
  BY <1>1, <1>3, Unseen
<1>4. CASE Ready' /\ ~Ready
  <2>1. ~Ready /\ (~Ready)' = FALSE /\ (~write_protect)' = ~write_protect
    BY <1>1, <1>4
  <2>2. Chip!Complete
    BY <1>1, <2>1 DEF Chip!Complete
  <2> QED
    BY <2>2 DEF Chip!Next
<1> QED
  BY <1>2, <1>3, <1>4

LEMMA ChipStep ==
  ASSUME Erasable = Watched \cap 0..17, LinkedInv, DataInv, [Next]_vars
  PROVE  [Chip!Next]_(Chip!vars)
<1> USE DEF LinkedInv
<1>1. CASE \E c \in Command : WriteCom(c)
  BY <1>1, GameUnseen DEF WriteCom
<1>2. CASE \E d \in Word : WriteSerialData(d)
  BY <1>2, GameUnseen DEF WriteSerialData
<1>3. CASE ControlRead
  BY <1>3, GameReads
<1>4. CASE ControlWrite
  BY <1>4, GameStarts DEF ControlWrite, OpOf, Cmds
<1>5. CASE ControlErase
  BY <1>5, GameStarts DEF ControlErase, OpOf, Cmds
<1>6. CASE ControlProtect
  BY <1>6, GameProtects
<1>7. CASE SClk
  BY <1>7, ClockCompletes
<1>8. CASE ExchangeWord \/ FinishBusy \/ UNCHANGED vars
  <2>1. UNCHANGED <<memory, command, serial_data_out, serial_data_in, cmd, busy, write_protect, external_busy>>
    BY <1>8 DEF ExchangeWord, FinishBusy, vars, fpgaVars
  <2> QED
    BY <2>1, Unseen DEF Programmed, Ready
<1> QED
  BY <1>1, <1>2, <1>3, <1>4, <1>5, <1>6, <1>7, <1>8 DEF Next, Game

\* FPGA and MCU together do only what an EEPROM does that erases with erase-all
\* the words the sweep reaches: a protected array does not change, a command
\* takes effect at once and as a whole, every read returns the last word
\* programmed.  (That the command ends is left to the model checker.)
THEOREM StepsOfAChip ==
  ASSUME Erasable = Watched \cap 0..17
  PROVE  Spec => Chip!Init /\ [][Chip!Next]_(Chip!vars)
<1>1. Init => LinkedInv /\ DataInv
  BY GameStartsLinked, ErasedAssumption DEF Init, DataInv
<1>2. LinkedInv /\ DataInv /\ [Next]_vars => LinkedInv' /\ DataInv'
  BY CopyStep, DataStep DEF LinkedInv
<1>3. LinkedInv /\ DataInv /\ [Next]_vars => [Chip!Next]_(Chip!vars)
  BY ChipStep
<1>4. Init => Chip!Init
  <2> SUFFICES ASSUME Init PROVE Chip!Init
    OBVIOUS
  <2>1. Programmed = memory /\ (~write_protect) = FALSE /\ (~Ready) = FALSE
    BY DEF Init, Programmed, Ready
  <2> QED
    BY <2>1, ErasedAssumption DEF Init, Chip!Init
<1> QED
  BY <1>1, <1>2, <1>3, <1>4, PTL DEF Spec
=============================================================================
