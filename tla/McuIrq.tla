------------------------------- MODULE McuIrq -------------------------------
(***************************************************************************)
(* The interrupt status the MCU shows to the console (spi.c:40-85): three  *)
(* bits, an enable mask and one line to the FPGA.  Two bits record edges   *)
(* of the card-detect pin and are acknowledged by the console; the third   *)
(* is the level of the emulated S-3511A's INT pin, which the RTC code      *)
(* recomputes from the calendar and nobody acknowledges.                   *)
(*                                                                         *)
(* Three actors share them: EXTI2_3_IRQHandler (lowest priority),          *)
(* RTC_TAMP_IRQHandler (which preempts it) and the commands of the main    *)
(* loop, one of which calls RTC_TAMP_IRQHandler as an ordinary function.   *)
(***************************************************************************)
EXTENDS Naturals, FiniteSets

CONSTANTS
  Minutes,      \* minutes of the bounded calendar, which wraps around
  Alarms,       \* the values written to the alarm register
  Modes,        \* the alarm modes written: sets of the bits AE, FE, ME
  Masks         \* the values the console writes to the registers

Insert == "TF_INSERT"
Remove == "TF_REMOVE"
Alarm == "RTC_ALARM"
Irq == {Insert, Remove, Alarm}
NonAckMask == {Alarm}

ASSUME ModeAssumption == Modes \subseteq SUBSET {"AE", "FE", "ME"} /\ {} \in Modes
ASSUME MaskAssumption == Masks \subseteq SUBSET Irq
ASSUME AlarmAssumption == Alarms \subseteq Nat /\ 0 \in Alarms /\ Minutes \in Nat \ {0}

-----------------------------------------------------------------------------
(* The calendar.  A minute has three phases: its first ten milliseconds,   *)
(* the rest of its first half and its second half.                         *)

Time == 0..(3 * Minutes - 1)
Minute(t) == t \div 3
Phase(t) == t % 3

\* What RTC_TAMP_IRQHandler computes: alarm time reached, a selected
\* fraction bit set, first 10 ms of a minute, first half of a minute.
Level(mode, alarm, t) ==
  CASE mode = {"AE"}               -> Minute(t) = alarm
    [] mode \ {"AE"} = {"FE"}       -> alarm # 0 /\ Phase(t) = 1
    [] mode \ {"AE"} = {"ME"}       -> Phase(t) = 0
    [] mode \ {"AE"} = {"ME", "FE"} -> Phase(t) # 2
    [] OTHER                        -> FALSE

\* Which ticks raise the MCU's alarm (RTC->ALRMAR and ALRMASSR).
Raises(mode, t) == IF mode = {"AE"} THEN Phase(t) = 0 ELSE mode # {}

-----------------------------------------------------------------------------
VARIABLES
  card,         \* a card is in the slot (the detect pin is low)
  rpif, fpif,   \* EXTI->RPR1, FPR1: rising (removed), falling (inserted)
  exti,         \* EXTI2_3_IRQHandler: "idle" or the step it is at
  spiIrq,       \* spi_irq
  irqEnable,    \* spi_irq_enable
  line,         \* mcu_fpga_irq_set / clear
  now,          \* the calendar
  stopped,      \* in init mode: the calendar does not count
  almMode,      \* TAMP->BKP0R
  almValue,     \* TAMP->BKP1R
  almMask,      \* the mode RTC->ALRMAR is set up for; {} while ALRAE is off
  alra,         \* the MCU alarm flag, which requests RTC_TAMP
  nvicRtc,      \* RTC_TAMP is enabled in the NVIC
  rtcIsr,       \* RTC_TAMP_IRQHandler as interrupt: "idle", "set"
  rtcIsrTime,   \* the time it has read
  main,         \* what the main loop is doing
  mainTime,     \* the time read by the handler called as a function
  value,        \* the status read by REG_READ
  untold        \* history: edges the console has not been told of

card_vars == <<card, rpif, fpif>>
irq_vars == <<spiIrq, irqEnable, line>>
rtc_vars == <<now, stopped, almMode, almValue, almMask, alra, nvicRtc>>
main_vars == <<main, mainTime, value>>
isr_vars == <<exti, rtcIsr, rtcIsrTime>>
vars == <<card_vars, irq_vars, rtc_vars, main_vars, isr_vars, untold>>

Init ==
  /\ card \in BOOLEAN /\ rpif = FALSE /\ fpif = FALSE
  /\ exti = "idle" /\ rtcIsr = "idle" /\ rtcIsrTime = 0
  /\ spiIrq = {} /\ irqEnable = {Alarm} /\ line = FALSE
  /\ now = 0 /\ stopped = FALSE /\ almMode = {} /\ almValue = 0 /\ almMask = {}
  /\ alra = FALSE /\ nvicRtc = TRUE
  /\ main = "loop" /\ mainTime = 0 /\ value = {} /\ untold = {}

\* mcu_spi_update_irq: the line shows whether an enabled bit is set.
UpdateIrq == line' = (spiIrq' \cap irqEnable' # {})

\* The four critical sections of spi.c.
IrqSet(irq) == spiIrq' = spiIrq \cup irq /\ UNCHANGED irqEnable /\ UpdateIrq
IrqClear(irq) == spiIrq' = spiIrq \ irq /\ UNCHANGED irqEnable /\ UpdateIrq

\* Mutant: the line is not updated.
IrqSetEnableOnly(v) == irqEnable' = v /\ UNCHANGED <<spiIrq, line>>

IrqAck(v) == spiIrq' = spiIrq \cap ((Irq \ v) \cup NonAckMask) /\ UNCHANGED irqEnable /\ UpdateIrq
IrqSetEnable(v) == irqEnable' = v /\ UNCHANGED spiIrq /\ UpdateIrq

\* rtc_irq_set
RtcIrqSet(t) == IF Level(almMode, almValue, t) THEN IrqSet({Alarm}) ELSE IrqClear({Alarm})

\* No handler is running: the main loop's turn.
Thread == exti = "idle" /\ rtcIsr = "idle"

-----------------------------------------------------------------------------
(* The world: the card and the clock.                                      *)

CardMoves ==
  /\ card' = ~card
  /\ IF card THEN rpif' = TRUE /\ UNCHANGED fpif ELSE fpif' = TRUE /\ UNCHANGED rpif
  /\ untold' = untold \cup {IF card THEN Remove ELSE Insert}
  /\ UNCHANGED <<irq_vars, rtc_vars, main_vars, isr_vars>>

Tick ==
  /\ ~stopped
  /\ now' = (now + 1) % (3 * Minutes)
  /\ alra' = (alra \/ Raises(almMask, now'))
  /\ UNCHANGED <<card_vars, irq_vars, stopped, almMode, almValue, almMask, nvicRtc, main_vars,
                 isr_vars, untold>>

-----------------------------------------------------------------------------
(* EXTI2_3_IRQHandler: each flag is cleared before its event is recorded,  *)
(* so that an edge between the two raises it again.                        *)

ExtiEnter ==
  /\ rpif \/ fpif
  /\ Thread
  /\ exti' = "rising"
  /\ UNCHANGED <<card_vars, irq_vars, rtc_vars, main_vars, rtcIsr, rtcIsrTime, untold>>

ExtiRising ==
  /\ exti = "rising" /\ rtcIsr = "idle"
  /\ rpif' = FALSE
  /\ exti' = IF rpif THEN "remove" ELSE "falling"
  /\ UNCHANGED <<card, fpif, irq_vars, rtc_vars, main_vars, rtcIsr, rtcIsrTime, untold>>

ExtiRemove ==
  /\ exti = "remove" /\ rtcIsr = "idle"
  /\ IrqSet({Remove})
  /\ exti' = "falling"
  /\ UNCHANGED <<card_vars, rtc_vars, main_vars, rtcIsr, rtcIsrTime, untold>>

ExtiFalling ==
  /\ exti = "falling" /\ rtcIsr = "idle"
  /\ fpif' = FALSE
  /\ exti' = IF fpif THEN "insert" ELSE "idle"
  /\ UNCHANGED <<card, rpif, irq_vars, rtc_vars, main_vars, rtcIsr, rtcIsrTime, untold>>

ExtiInsert ==
  /\ exti = "insert" /\ rtcIsr = "idle"
  /\ IrqSet({Insert})
  /\ exti' = "idle"
  /\ UNCHANGED <<card_vars, rtc_vars, main_vars, rtcIsr, rtcIsrTime, untold>>

-----------------------------------------------------------------------------
(* RTC_TAMP_IRQHandler as an interrupt.  It preempts the other two.        *)

RtcIsrRead ==
  /\ alra /\ nvicRtc /\ rtcIsr = "idle"
  /\ alra' = FALSE
  /\ rtcIsrTime' = now
  /\ rtcIsr' = "set"
  /\ UNCHANGED <<card_vars, irq_vars, now, stopped, almMode, almValue, almMask, nvicRtc,
                 main_vars, exti, untold>>

RtcIsrSet ==
  /\ rtcIsr = "set"
  /\ RtcIrqSet(rtcIsrTime)
  /\ rtcIsr' = "idle" /\ rtcIsrTime' = 0
  /\ UNCHANGED <<card_vars, rtc_vars, main_vars, exti, untold>>

-----------------------------------------------------------------------------
(* The main loop: REG_READ and REG_WRITE.                                  *)

\* REG_READ of the status, automatic acknowledgement: read the status ...
ReadStatus ==
  /\ main = "loop" /\ Thread
  /\ value' = spiIrq
  /\ main' = "ack"
  /\ UNCHANGED <<card_vars, irq_vars, rtc_vars, mainTime, isr_vars, untold>>

\* Mutant: acknowledge whatever is pending by now, not what was read.
AckAllPending ==
  /\ main = "ack" /\ Thread
  /\ IrqAck(Irq)
  /\ untold' = untold \ value
  /\ main' = "loop" /\ value' = {}
  /\ UNCHANGED <<card_vars, rtc_vars, mainTime, isr_vars>>

\* ... then acknowledge what was read, in a critical section of its own.
AckStatus ==
  /\ main = "ack" /\ Thread
  /\ IrqAck(value)
  /\ untold' = untold \ value
  /\ main' = "loop" /\ value' = {}
  /\ UNCHANGED <<card_vars, rtc_vars, mainTime, isr_vars>>

\* REG_WRITE of the status: the console acknowledges bits of its choice.
WriteStatusReg ==
  /\ main = "loop" /\ Thread
  /\ \E v \in Masks : IrqAck(v) /\ untold' = untold \ v
  /\ UNCHANGED <<card_vars, rtc_vars, main_vars, isr_vars>>

WriteEnableReg ==
  /\ main = "loop" /\ Thread
  /\ \E v \in Masks : IrqSetEnable(v)
  /\ UNCHANGED <<card_vars, rtc_vars, main_vars, isr_vars, untold>>

-----------------------------------------------------------------------------
(* The main loop: RTC commands and mcu_rtc_init.                           *)

\* rtc_write_alarm, then the handler called as a function.
WriteAlarm ==
  /\ main = "loop" /\ Thread
  /\ almValue' \in Alarms
  /\ main' = "evaluate"
  /\ UNCHANGED <<card_vars, irq_vars, now, stopped, almMode, almMask, alra, nvicRtc, mainTime,
                 value, isr_vars, untold>>

\* rtc_write_datetime, which stops the calendar while it writes it.
WriteDateTime ==
  /\ main = "loop" /\ Thread
  /\ now' \in Time /\ stopped' = TRUE
  /\ main' = "evaluate"
  /\ UNCHANGED <<card_vars, irq_vars, almMode, almValue, almMask, alra, nvicRtc, mainTime, value,
                 isr_vars, untold>>

\* rtc_write_status with another alarm mode.  The calendar is stopped when
\* the 12/24-hour format changes too.
WriteStatus ==
  /\ main = "loop" /\ Thread
  /\ almMode' \in Modes \ {almMode}
  /\ stopped' \in BOOLEAN
  /\ main' = "apply"
  /\ UNCHANGED <<card_vars, irq_vars, now, almValue, almMask, alra, nvicRtc, mainTime, value,
                 isr_vars, untold>>

\* Mutant: the calendar is set to a time that does not exist.
RtcResetBadTime ==
  /\ main = "loop" /\ Thread
  /\ now' = 3 * Minutes /\ stopped' = TRUE
  /\ almMode' = {} /\ almValue' = 0 /\ almMask' = {} /\ alra' = FALSE
  /\ main' = "apply"
  /\ UNCHANGED <<card_vars, irq_vars, nvicRtc, mainTime, value, isr_vars, untold>>

\* rtc_reset: the backup domain is cleared and the calendar set afresh.
RtcReset ==
  /\ main = "loop" /\ Thread
  /\ now' = 0 /\ stopped' = TRUE
  /\ almMode' = {} /\ almValue' = 0 /\ almMask' = {} /\ alra' = FALSE
  /\ main' = "apply"
  /\ UNCHANGED <<card_vars, irq_vars, nvicRtc, mainTime, value, isr_vars, untold>>

\* rtc_apply_alarm_mode: the MCU alarm is off while it is set up.
ApplyOff ==
  /\ main = "apply" /\ Thread
  /\ almMask' = {}
  /\ main' = IF almMode = {} THEN "clear" ELSE "applyOn"
  /\ UNCHANGED <<card_vars, irq_vars, now, stopped, almMode, almValue, alra, nvicRtc, mainTime,
                 value, isr_vars, untold>>

ApplyOn ==
  /\ main = "applyOn" /\ Thread
  /\ almMask' = almMode
  /\ main' = "evaluate"
  /\ UNCHANGED <<card_vars, irq_vars, now, stopped, almMode, almValue, alra, nvicRtc, mainTime,
                 value, isr_vars, untold>>

ApplyClear ==
  /\ main = "clear" /\ Thread
  /\ IrqClear({Alarm})
  /\ main' = "done"
  /\ UNCHANGED <<card_vars, rtc_vars, mainTime, value, isr_vars, untold>>

\* The handler's three steps, in thread mode: clear the flag, ...
EvaluateClear ==
  /\ main = "evaluate" /\ Thread
  /\ alra' = FALSE
  /\ main' = "read"
  /\ UNCHANGED <<card_vars, irq_vars, now, stopped, almMode, almValue, almMask, nvicRtc, mainTime,
                 value, isr_vars, untold>>

\* ... read the calendar, ...
EvaluateRead ==
  /\ main = "read" /\ Thread
  /\ mainTime' = now
  /\ main' = "set"
  /\ UNCHANGED <<card_vars, irq_vars, rtc_vars, value, isr_vars, untold>>

\* ... and set the bit.
EvaluateSet ==
  /\ main = "set" /\ Thread
  /\ RtcIrqSet(mainTime)
  /\ main' = "done" /\ mainTime' = 0
  /\ UNCHANGED <<card_vars, rtc_vars, value, isr_vars, untold>>

\* rtc_init_end.  mcu_rtc_init does not end init mode; it enables RTC_TAMP.
RtcDone ==
  /\ main = "done" /\ Thread
  /\ stopped' = (stopped /\ ~nvicRtc) /\ nvicRtc' = TRUE
  /\ main' = "loop"
  /\ UNCHANGED <<card_vars, irq_vars, now, almMode, almValue, almMask, alra, mainTime, value,
                 isr_vars, untold>>

\* Mutant: mcu_rtc_init does not apply the alarm mode it finds.
ResetKeepsAlarmOff ==
  /\ rpif' = FALSE /\ fpif' = FALSE /\ exti' = "idle" /\ rtcIsr' = "idle"
  /\ spiIrq' = {} /\ irqEnable' = {Alarm} /\ line' = FALSE
  /\ nvicRtc' = FALSE
  /\ main' = "done" /\ value' = {} /\ untold' = {} /\ mainTime' = 0 /\ rtcIsrTime' = 0
  /\ UNCHANGED <<card, now, stopped, almMode, almValue, almMask, alra>>

\* The console resets the MCU: RAM and peripherals start afresh, the backup
\* domain keeps the calendar and the alarm, and mcu_rtc_init applies them.
Reset ==
  /\ rpif' = FALSE /\ fpif' = FALSE /\ exti' = "idle" /\ rtcIsr' = "idle"
  /\ spiIrq' = {} /\ irqEnable' = {Alarm} /\ line' = FALSE
  /\ nvicRtc' = FALSE
  /\ main' = "apply" /\ value' = {} /\ untold' = {} /\ mainTime' = 0 /\ rtcIsrTime' = 0
  /\ UNCHANGED <<card, now, stopped, almMode, almValue, almMask, alra>>

CardHandler == ExtiEnter \/ ExtiRising \/ ExtiRemove \/ ExtiFalling \/ ExtiInsert
RtcHandler == RtcIsrRead \/ RtcIsrSet

Next ==
  \/ CardMoves \/ Tick \/ CardHandler \/ RtcHandler
  \/ ReadStatus \/ AckStatus \/ WriteStatusReg \/ WriteEnableReg
  \/ WriteAlarm \/ WriteDateTime \/ WriteStatus \/ RtcReset \/ ApplyOff \/ ApplyOn \/ ApplyClear
  \/ EvaluateClear \/ EvaluateRead \/ EvaluateSet \/ RtcDone \/ Reset

\* Ticks are a thousand times slower than the code: the RTC interrupt, however
\* often it comes, keeps neither the other handler nor the main loop from
\* taking its next step.
Fairness == WF_vars(RtcHandler) /\ SF_vars(CardHandler)

Spec == Init /\ [][Next]_vars /\ Fairness

-----------------------------------------------------------------------------
(* Properties.                                                             *)

\* Every variable has its type.
TypeOK ==
  /\ {card, rpif, fpif, line, stopped, alra, nvicRtc} \subseteq BOOLEAN
  /\ exti \in {"idle", "rising", "remove", "falling", "insert"} /\ rtcIsr \in {"idle", "set"}
  /\ spiIrq \subseteq Irq /\ irqEnable \subseteq Irq /\ value \subseteq Irq
  /\ untold \subseteq {Insert, Remove}
  /\ {now, mainTime, rtcIsrTime} \subseteq Time
  /\ almMode \in Modes /\ almMask \in Modes /\ almValue \in Alarms
  /\ main \in {"loop", "ack", "apply", "applyOn", "clear", "evaluate", "read", "set", "done"}

\* Between commands the MCU's alarm is set up for the mode in the backup
\* register, also when a reset cut a change of mode short (rtc.c:127-170).
AlarmSetUp == main \in {"loop", "ack"} => almMask = almMode

\* An edge is somewhere until the console is told of it: in the pin's flag, in
\* the handler, in the status or in the answer being given.  Reading and
\* acknowledging are two critical sections, and an edge may fall between them
\* or between the handler's clearing of a flag and its recording of the event
\* (spi.c:66-78, mcu.c:127-137, spi_cmd.c:127-130).
NoLostEdge ==
  untold \subseteq spiIrq \cup (IF rpif \/ exti = "remove" THEN {Remove} ELSE {})
                        \cup (IF fpif \/ exti = "insert" THEN {Insert} ELSE {})
                        \cup (IF main = "ack" THEN value ELSE {})

\* An edge the console asked to hear of reaches the interrupt line, whichever
\* came first, the edge or the enable bit, or the console takes back its
\* question (spi.c:43-49, 80-85).
EdgeSignalled ==
  \A e \in {Insert, Remove} : []<>(e \in untold /\ e \in irqEnable => line)

\* "bit 2: RTC alarm (level)" (mcu_protocol.md:80): with no handler running and
\* none requested, the bit is the level of the emulated INT pin.
AlarmLevel ==
  Thread /\ main = "loop" /\ ~alra => (Alarm \in spiIrq <=> Level(almMode, almValue, now))
=============================================================================
