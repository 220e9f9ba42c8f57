------------------------------- MODULE RtcLink -------------------------------
(***************************************************************************)
(* A game, the FPGA's real-time clock registers (rtc.sv) and the MCU in    *)
(* its RTC mode (spi.c:155-202, 243-260).  The FPGA sends the command to   *)
(* the MCU and exchanges the bytes that follow, one by one, as the game    *)
(* writes or reads them; a pulse of the MCU's busy signal tells it that    *)
(* the MCU has taken the command, or has done what it says.                *)
(*                                                                         *)
(* While the MCU answers it receives, too: bytes that the FPGA pads with.  *)
(* It takes each for a command, of which there is none, and acknowledges.  *)
(***************************************************************************)
EXTENDS Rtc

CONSTANTS
  Prompt,    \* the MCU has finished all it received before the game goes on
  Payloads,  \* Payloads[cmd]: what the game may write with the command
  Times,     \* the time when the run begins, as <<fmt, TR>>
  Dates      \* ... and the date

Commands == 0..11
Pad == \hFF       \* sent by the FPGA while it reads; "command" 15
Fifo == 4         \* bytes in either FIFO of the MCU's SPI

ASSUME LinkAssumption ==
  /\ Prompt \in BOOLEAN
  /\ \A c \in Commands : \A p \in Payloads[c] : p \in Seq(0..255) /\ Len(p) = CommandLength(c)

ASSUME ClockAssumption ==
  /\ \A t \in Times : t[1] \in BOOLEAN /\ IsTime(t[2])
  /\ \A d \in Dates : IsDate(d)

VARIABLES
  \* the FPGA's registers
  state, n,    \* the state of the FSM: its name, and the number of the byte
  cmd, start, busy, ready,
  data,        \* RTCData: written by the game or received, whichever is later
  shiftreg, falling_edge_registered,
  \* the MCU
  mcu,         \* what it does
  rx_fifo, rx_buffer, rx_left,   \* bytes not read; those read by DMA; those it waits for
  rxne,        \* interrupt on received bytes
  tx, tx_dma,  \* bytes not sent yet; DMA is (or has been) feeding them
  pulses,      \* ends of its busy signal that the FPGA has not sampled
  rtc_curr_cmd,
  read,        \* rtc_read_datetime: TR, and the pair before
  \* the game
  game, given, got,
  moments      \* the answers that would be right

link == <<state, n, cmd, start, busy, ready, data, shiftreg, falling_edge_registered>>
spi_rx == <<rx_fifo, rx_buffer, rx_left, rxne>>
spi_tx == <<tx, tx_dma>>
mcu_vars == <<mcu, spi_rx, spi_tx, pulses, rtc_curr_cmd, read>>
player == <<game, given, got>>
vars == <<calendar, link, mcu_vars, player, moments>>

Read(c) == c % 2 = 1
Busy == start \/ busy
None == <<UnsetTime, << >>>>

LinkInit ==
  /\ configured \in BOOLEAN
  /\ IF configured
     THEN \E t \in Times, d \in Dates : fmt = t[1] /\ tr = t[2] /\ dr = d
     ELSE fmt = FALSE /\ tr = UnsetTime /\ dr = UnsetDate
  /\ alarm_mode = 0 /\ alarm = <<0, 0>>
  /\ state = "Idle" /\ n = 0 /\ cmd = 0 /\ start = FALSE /\ busy = FALSE /\ ready = FALSE
  /\ data = 0 /\ shiftreg = 0 /\ falling_edge_registered = FALSE
  /\ mcu = "idle" /\ rx_fifo = << >> /\ rx_buffer = << >> /\ rx_left = 0 /\ rxne = TRUE
  /\ tx = << >> /\ tx_dma = FALSE /\ pulses = 0 /\ rtc_curr_cmd = 0 /\ read = None
  /\ game = "idle" /\ given = << >> /\ got = << >> /\ moments = {}

-----------------------------------------------------------------------------
(* The game.                                                               *)

\* Nothing that the MCU has received or signalled is still under way.
Quiet ==
  mcu = "idle" /\ rx_fifo = << >> /\ rx_left = 0 /\ ~tx_dma /\ pulses = 0

DateTimeNow(c) == IF c \in {5, 7} THEN {DateTimeBytes(tr', dr', c = 5)} ELSE {}

\* The first byte is written before the command.
Begin ==
  /\ game = "idle" /\ ~Busy
  /\ Prompt => Quiet
  /\ \E c \in Commands : \E payload \in Payloads[c] :
       /\ cmd' = c /\ start' = TRUE /\ ready' = FALSE
       /\ data' = IF payload = << >> THEN data ELSE Head(payload)
       /\ given' = payload /\ got' = << >>
       /\ moments' = IF c \in {5, 7} THEN {DateTimeBytes(tr, dr, c = 5)} ELSE {}
  /\ game' = "command"
  /\ n' = 1
  /\ UNCHANGED <<calendar, state, busy, shiftreg, falling_edge_registered, mcu_vars>>

\* It goes on when the ready bit tells so.  Reading or writing the byte clears it.
TakeByte ==
  /\ game = "command" /\ ready /\ Read(cmd)
  /\ got' = Append(got, data)
  /\ ready' = FALSE
  /\ UNCHANGED <<calendar, state, n, cmd, start, busy, data, shiftreg, falling_edge_registered,
                 mcu_vars, game, given, moments>>

GiveByte ==
  /\ game = "command" /\ ready /\ busy /\ ~Read(cmd)
  /\ data' = given[n]
  /\ ready' = FALSE
  /\ UNCHANGED <<calendar, state, n, cmd, start, busy, shiftreg, falling_edge_registered,
                 mcu_vars, player, moments>>

End ==
  /\ game = "command" /\ ~Busy /\ ~(ready /\ Read(cmd))
  /\ game' = "idle" /\ given' = << >> /\ got' = << >> /\ moments' = {}
  /\ UNCHANGED <<calendar, link, mcu_vars>>

-----------------------------------------------------------------------------
(* The FPGA, a state of its FSM at a time.  A byte takes longer than the   *)
(* sampling of a signal that has ended before.                             *)

fpga_rest == <<calendar, cmd, player, moments>>

StartCommand ==
  /\ state = "Idle" /\ start
  /\ start' = FALSE /\ busy' = TRUE
  /\ state' = "LowerCS"
  /\ UNCHANGED <<fpga_rest, n, ready, data, shiftreg, falling_edge_registered, mcu_vars>>

LowerCS ==
  /\ state = "LowerCS"
  /\ shiftreg' = cmd /\ falling_edge_registered' = FALSE
  /\ state' = "SendCmd"
  /\ UNCHANGED <<fpga_rest, n, start, busy, ready, data, mcu_vars>>

\* A byte goes to the MCU: to the DMA if that is waiting for one, else to the
\* FIFO, or nowhere.
Receive(byte) ==
  IF rx_left > 0
  THEN /\ rx_buffer' = Append(rx_buffer, byte) /\ rx_left' = rx_left - 1
       /\ UNCHANGED <<rx_fifo, rxne>>
  ELSE /\ rx_fifo' = IF Len(rx_fifo) < Fifo THEN Append(rx_fifo, byte) ELSE rx_fifo
       /\ UNCHANGED <<rx_buffer, rx_left, rxne>>

\* What the FPGA receives: of an MCU that has nothing to send, anything.
Received == IF tx = << >> THEN {0, \hFF} ELSE {Head(tx)}

SendCmd ==
  /\ state = "SendCmd" /\ pulses = 0
  /\ Receive(shiftreg)
  /\ data' \in (IF Read(cmd) THEN Received ELSE {data})
  /\ tx' = IF tx = << >> THEN tx ELSE Tail(tx)
  /\ state' = IF cmd \in {0, 1} THEN "RaiseCS" ELSE "WaitCmdAck"
  /\ UNCHANGED <<fpga_rest, n, start, busy, ready, shiftreg, falling_edge_registered,
                 mcu, tx_dma, pulses, rtc_curr_cmd, read>>

Load == shiftreg' = IF Read(cmd) THEN Pad ELSE data

WaitCmdAck ==
  /\ state = "WaitCmdAck" /\ falling_edge_registered
  /\ Load
  /\ falling_edge_registered' = FALSE
  /\ state' = "SendData" /\ n' = 1
  /\ UNCHANGED <<fpga_rest, start, busy, ready, data, mcu_vars>>

\* is_final_state
LastByte == n = CommandLength(cmd) + AnswerLength(cmd)

SendData ==
  /\ state = "SendData" /\ pulses = 0
  /\ Receive(shiftreg)
  /\ tx' = IF tx = << >> THEN tx ELSE Tail(tx)
  /\ data' \in (IF Read(cmd) THEN Received ELSE {data})
  /\ IF LastByte
     THEN state' = "RaiseCS" /\ UNCHANGED <<n, ready>>
     ELSE state' = "WaitNextData" /\ n' = n + 1 /\ ready' = TRUE
  /\ UNCHANGED <<fpga_rest, start, busy, shiftreg, falling_edge_registered,
                 mcu, tx_dma, pulses, rtc_curr_cmd, read>>

\* Mutant: it does not wait for the game.
WaitNextDataNever ==
  /\ state = "WaitNextData"
  /\ Load
  /\ state' = "SendData"
  /\ UNCHANGED <<fpga_rest, n, start, busy, ready, data, falling_edge_registered, mcu_vars>>

WaitNextData ==
  /\ state = "WaitNextData" /\ ~ready
  /\ Load
  /\ state' = "SendData"
  /\ UNCHANGED <<fpga_rest, n, start, busy, ready, data, falling_edge_registered, mcu_vars>>

RaiseCS ==
  /\ state = "RaiseCS" /\ falling_edge_registered
  /\ state' = "Idle" /\ busy' = FALSE /\ ready' = TRUE
  /\ n' = 0
  /\ UNCHANGED <<fpga_rest, start, data, shiftreg, falling_edge_registered, mcu_vars>>

\* The end of a busy signal is sampled; before and during the first byte it is
\* cleared at once.
Edge ==
  /\ pulses > 0
  /\ pulses' = pulses - 1
  /\ falling_edge_registered' = ~(state = "LowerCS" \/ (state = "SendData" /\ n = 1))
  /\ UNCHANGED <<fpga_rest, state, n, start, busy, ready, data, shiftreg,
                 mcu, spi_rx, spi_tx, rtc_curr_cmd, read>>

Fpga ==
  \/ StartCommand \/ LowerCS \/ SendCmd \/ WaitCmdAck \/ SendData \/ WaitNextData \/ RaiseCS

-----------------------------------------------------------------------------
(* The MCU: its two interrupt handlers, which exclude each other.          *)

\* mcu_spi_dma_finish, for a command that is done in a step: the answer is
\* queued, or the next byte awaited, and the busy signal ends.
Finish(c, rx) ==
  /\ Execute(c, rx)
  /\ LET answer == Answer(c) IN
     /\ tx' = tx \o answer
     /\ tx_dma' = (tx_dma \/ answer # << >>)
     /\ rxne' = (answer = << >>)
     /\ moments' = IF answer = << >> THEN moments ELSE {answer}
  /\ pulses' = pulses + 1
  /\ mcu' = "idle" /\ rtc_curr_cmd' = 0
  /\ UNCHANGED read

\* ... or that is not: it begins to read the clock, or waits for it for ever.
FinishCommand(c, rx) ==
  CASE NeedsClock(c, rx) /\ ~configured ->
         /\ mcu' = "hung" /\ rtc_curr_cmd' = c /\ rxne' = FALSE
         /\ UNCHANGED <<calendar, spi_tx, pulses, read, moments>>
    [] c \in {5, 7} ->
         /\ mcu' = "TR" /\ rtc_curr_cmd' = c /\ rxne' = FALSE
         /\ UNCHANGED <<calendar, spi_tx, pulses, read, moments>>
    [] OTHER -> Finish(c, rx)

Least(a, b) == IF a < b THEN a ELSE b

\* Mutant: bit 3 is masked, too.
CommandOfThreeBits(byte) == byte % 8

\* rtc_start_command_rx looks at the lower four bits.
CommandOf(byte) == byte % 16

\* SPI1_IRQHandler.
SpiIrq ==
  /\ mcu = "idle" /\ rxne /\ rx_fifo # << >>
  /\ LET c == CommandOf(Head(rx_fifo))
         len == CommandLength(c)
         waiting == Least(len, Len(rx_fifo) - 1)
     IN
     /\ rx_fifo' = SubSeq(rx_fifo, 2 + waiting, Len(rx_fifo))
     /\ rx_buffer' = SubSeq(rx_fifo, 2, 1 + waiting)
     /\ rx_left' = len - waiting
     /\ IF len > 0
        THEN /\ rtc_curr_cmd' = c /\ mcu' = "receive" /\ rxne' = FALSE /\ pulses' = pulses + 1
             /\ UNCHANGED <<calendar, spi_tx, read, moments>>
        ELSE FinishCommand(c, << >>)
  /\ UNCHANGED <<link, player>>

\* DMA1_Channel2_3_IRQHandler: all that the command needs is there.
RxComplete ==
  /\ mcu = "receive" /\ rx_left = 0
  /\ FinishCommand(rtc_curr_cmd, rx_buffer)
  /\ rx_buffer' = << >>
  /\ UNCHANGED <<link, rx_fifo, rx_left, player>>

\* Mutant: the interrupt is not enabled again.
TxCompleteNoRxne ==
  /\ mcu \in {"idle", "receive"} /\ tx_dma /\ Len(tx) <= Fifo
  /\ tx_dma' = FALSE
  /\ UNCHANGED <<calendar, link, mcu, spi_rx, tx, pulses, rtc_curr_cmd, read, player, moments>>

\* ... or the last byte of the answer has gone to the FIFO, which is before it is sent.
TxComplete ==
  /\ mcu \in {"idle", "receive"} /\ tx_dma /\ Len(tx) <= Fifo
  /\ tx_dma' = FALSE /\ rxne' = TRUE
  /\ UNCHANGED <<calendar, link, mcu, rx_fifo, rx_buffer, rx_left, tx, pulses, rtc_curr_cmd, read,
                 player, moments>>

\* rtc_read_datetime: TR, then DR, until both are as before.
ReadTR ==
  /\ mcu = "TR"
  /\ read' = [read EXCEPT ![1] = tr]
  /\ mcu' = "DR"
  /\ UNCHANGED <<calendar, link, spi_rx, spi_tx, pulses, rtc_curr_cmd, player, moments>>

\* Mutant: the first pair is taken.
ReadDROnce ==
  /\ mcu = "DR"
  /\ tx' = tx \o DateTimeBytes(read[1], dr, rtc_curr_cmd = 5) /\ tx_dma' = TRUE
  /\ pulses' = pulses + 1
  /\ mcu' = "idle" /\ rtc_curr_cmd' = 0 /\ read' = None
  /\ UNCHANGED <<calendar, link, spi_rx, player, moments>>

ReadDR ==
  /\ mcu = "DR"
  /\ IF read[2] = <<read[1], dr>>
     THEN /\ tx' = tx \o DateTimeBytes(read[1], dr, rtc_curr_cmd = 5) /\ tx_dma' = TRUE
          /\ pulses' = pulses + 1
          /\ mcu' = "idle" /\ rtc_curr_cmd' = 0 /\ read' = None
     ELSE /\ read' = [read EXCEPT ![2] = <<read[1], dr>>]
          /\ mcu' = "TR"
          /\ UNCHANGED <<tx, tx_dma, pulses, rtc_curr_cmd>>
  /\ UNCHANGED <<calendar, link, spi_rx, player, moments>>

Mcu == SpiIrq \/ RxComplete \/ TxComplete \/ ReadTR \/ ReadDR

\* Time passes.
Clock ==
  /\ Tick
  /\ moments' = IF game = "command" THEN moments \cup DateTimeNow(cmd) ELSE moments
  /\ UNCHANGED <<link, mcu_vars, player>>

Next == Begin \/ TakeByte \/ GiveByte \/ End \/ Fpga \/ Edge \/ Mcu \/ Clock

\* The bus clock runs, the MCU's handlers do, and a game that began goes on.
Fairness ==
  /\ WF_vars(Fpga) /\ WF_vars(Edge) /\ WF_vars(Mcu)
  /\ WF_vars(TakeByte) /\ WF_vars(GiveByte) /\ WF_vars(End)

Spec == LinkInit /\ [][Next]_vars /\ Fairness

-----------------------------------------------------------------------------
(* Properties.                                                             *)

\* Every variable has its type: what the game wrote to the calendar was cut to
\* its fields, minutes, seconds, months and years to numbers of two digits
\* (rtc.c:317-365), and no FIFO or buffer of the link overflows.
TypeOK ==
  /\ IsTime(tr) /\ IsDate(dr)
  /\ {configured, fmt, start, busy, ready, falling_edge_registered, rxne, tx_dma} \subseteq BOOLEAN
  /\ state \in {"Idle", "LowerCS", "SendCmd", "WaitCmdAck", "SendData", "WaitNextData", "RaiseCS"}
  /\ n \in 0..7 /\ cmd \in Commands /\ rx_left \in 0..7 /\ rtc_curr_cmd \in 0..15
  /\ mcu \in {"idle", "receive", "TR", "DR", "hung"} /\ game \in {"idle", "command"}
  /\ Len(rx_fifo) <= Fifo /\ Len(tx) <= 7 /\ Len(rx_buffer) <= 7

\* What a game has read at the end of a command is, byte for byte, what the
\* clock had to say at a moment of that command: a time before a full hour, or
\* after it, and never the date of one with the time of the other.  The
\* stability test expects as much: "next_time < first_time" is a mismatch
\* (recovery/tests/rtc.c:62; rtc.c:372-394, rtc.sv:107-252).
ReadsBack ==
  game = "command" /\ Read(cmd) /\ ~Busy /\ ~ready => cmd = 1 \/ got \in moments

\* The hours that an S-3511A knows in its 12-hour format, AM or PM.
HoursOfTwelve == 0..9 \cup {\h10, \h11}
GivenHour == given[IF cmd = 4 THEN 5 ELSE 1] % \h40

\* The MCU changes the registers - also by a command without a payload, such as
\* a reset - only as the command does that the game has given and waits for,
\* with all that the game gave: never for a byte of padding or one left over
\* (spi.c:155-202, 243-260).  A clock that shows an hour and a day goes on to
\* show them, and a new format changes no hour of the day (rtc.c:228-370), with
\* two exceptions: an hour that the 12-hour format does not have (it is
\* corrected to 0 or keeps bit 5, rtc.c:340-346) and the days 29 to 31 (the
\* FIXME at rtc.c:327).
WritesWhole ==
  [][/\ calendar' # calendar /\ mcu_vars' # mcu_vars =>
          game = "command" /\ busy /\ Execute(cmd, given)
     /\ HourShown /\ ~HourShown' =>
          game = "command" /\ fmt /\ cmd \in {4, 6} /\ GivenHour \notin HoursOfTwelve
     /\ DayShown /\ ~DayShown' =>
          game = "command" /\ cmd = 4 /\ given[3] % \h40 \in {\h29, \h30, \h31}
     /\ fmt' # fmt /\ cmd = 2 /\ HourShown => HourOfDay' = HourOfDay]_vars

\* A command ends, with a game that goes on when it is told to, unless it was
\* to set a clock that has no source (rtc.c:59-62, rtc.sv:107-164).
CommandEnds == <>[](game = "command") => <>[](mcu = "hung")
=============================================================================
