---------------------------- MODULE McuIrqProofs ----------------------------
(***************************************************************************)
(* Proofs about the interrupt status, for a calendar of any length and     *)
(* every set of alarms, alarm modes and masks.                             *)
(***************************************************************************)
EXTENDS McuIrq, TLAPS

-----------------------------------------------------------------------------
(* Types.                                                                  *)

\* The two ways a time is made: counting, and the start of the calendar.
LEMMA TimeWraps ==
  ASSUME NEW t \in Time
  PROVE  (t + 1) % (3 * Minutes) \in Time /\ 0 \in Time
  BY AlarmAssumption DEF Time

LEMMA TypeInit == Init => TypeOK
<1> SUFFICES ASSUME Init PROVE TypeOK
  OBVIOUS
<1>1. {now, mainTime, rtcIsrTime} \subseteq Time
  BY AlarmAssumption DEF Init, Time
<1>2. {card, rpif, fpif, line, stopped, alra, nvicRtc} \subseteq BOOLEAN
  BY DEF Init
<1>3. QED
  BY <1>1, <1>2, AlarmAssumption, ModeAssumption DEF Init, TypeOK, Irq

\* What the critical sections do to the status keeps it a set of the three bits.
LEMMA TypeStep == TypeOK /\ [Next]_vars => TypeOK'
<1> SUFFICES ASSUME TypeOK, [Next]_vars PROVE TypeOK'
  OBVIOUS
<1> USE MaskAssumption, ModeAssumption, AlarmAssumption
    DEF TypeOK, card_vars, irq_vars, rtc_vars, main_vars, isr_vars
<1>0. 0 \in Time
  BY DEF Time
<1>1. CASE CardMoves
  BY <1>1 DEF CardMoves
<1>2. CASE Tick
  <2>1. now' \in Time
    BY <1>2, TimeWraps DEF Tick
  <2>2. alra' \in BOOLEAN
    BY <1>2 DEF Tick, Raises
  <2>3. QED
    BY <1>2, <2>1, <2>2 DEF Tick
<1>3. CASE CardHandler
  BY <1>3 DEF CardHandler, ExtiEnter, ExtiRising, ExtiRemove, ExtiFalling, ExtiInsert, IrqSet,
     UpdateIrq, Irq
<1>4. CASE RtcHandler
  BY <1>0, <1>4 DEF RtcHandler, RtcIsrRead, RtcIsrSet, RtcIrqSet, IrqSet, IrqClear, UpdateIrq, Irq
<1>5. CASE ReadStatus
  BY <1>5 DEF ReadStatus
<1>6. CASE AckStatus
  BY <1>6 DEF AckStatus, IrqAck, UpdateIrq, Irq
<1>7. CASE WriteStatusReg
  BY <1>7 DEF WriteStatusReg, IrqAck, UpdateIrq, Irq
<1>8. CASE WriteEnableReg
  BY <1>8 DEF WriteEnableReg, IrqSetEnable, UpdateIrq, Irq
<1>9. CASE WriteAlarm
  BY <1>9 DEF WriteAlarm
<1>10. CASE WriteDateTime
  BY <1>10 DEF WriteDateTime
<1>11. CASE WriteStatus
  BY <1>11 DEF WriteStatus
<1>12. CASE RtcReset
  BY <1>0, <1>12 DEF RtcReset
<1>13. CASE ApplyOff \/ ApplyOn \/ ApplyClear
  BY <1>13 DEF ApplyOff, ApplyOn, ApplyClear, IrqClear, UpdateIrq, Irq
<1>14. CASE EvaluateClear \/ EvaluateRead \/ EvaluateSet
  BY <1>0, <1>14 DEF EvaluateClear, EvaluateRead, EvaluateSet, RtcIrqSet, IrqSet, IrqClear,
     UpdateIrq, Irq
<1>15. CASE RtcDone
  BY <1>15 DEF RtcDone
<1>16. CASE Reset
  BY <1>0, <1>16 DEF Reset, Irq
<1>17. CASE UNCHANGED vars
  BY <1>17 DEF vars
<1>18. QED
  BY <1>1, <1>2, <1>3, <1>4, <1>5, <1>6, <1>7, <1>8, <1>9, <1>10, <1>11, <1>12, <1>13, <1>14,
     <1>15, <1>16, <1>17 DEF Next

\* Every variable has its type: the three bits stay three bits, and the calendar
\* wraps (spi.c:40-85, rtc.c:175-212).
THEOREM TypeCorrect == Spec => []TypeOK
  BY TypeInit, TypeStep, PTL DEF Spec

-----------------------------------------------------------------------------
(* Edges.                                                                  *)

LEMMA EdgeInit == Init => NoLostEdge
  BY DEF Init, NoLostEdge

\* The alarm's bit may be cleared, the edges' bits are not.
Kept == \A e \in {Insert, Remove} : e \in spiIrq => e \in spiIrq'

LEMMA AlarmBitOnly ==
  /\ IrqClear({Alarm}) => Kept
  /\ \A t : RtcIrqSet(t) => Kept
  BY DEF Kept, RtcIrqSet, IrqSet, IrqClear, Insert, Remove, Alarm

\* An edge moves from the flag to the handler, to the status, to the answer; no
\* step takes it from one place without putting it in the next, and clearing the
\* alarm's bit leaves the edges' bits alone.
LEMMA EdgeStep == TypeOK /\ NoLostEdge /\ [Next]_vars => NoLostEdge'
<1> SUFFICES ASSUME TypeOK, NoLostEdge, [Next]_vars PROVE NoLostEdge'
  OBVIOUS
<1> untold \subseteq {Insert, Remove}
  BY DEF TypeOK
<1> USE DEF NoLostEdge, Insert, Remove, Alarm, card_vars, irq_vars, main_vars, isr_vars
<1>1. CASE CardMoves
  BY <1>1 DEF CardMoves
<1>2. CASE Tick
  BY <1>2 DEF Tick
<1>3. CASE CardHandler
  <2>1. CASE ExtiEnter
    BY <2>1 DEF ExtiEnter, Thread
  <2>2. CASE ExtiRising
    BY <2>2 DEF ExtiRising
  <2>3. CASE ExtiRemove
    BY <2>3 DEF ExtiRemove, IrqSet
  <2>4. CASE ExtiFalling
    BY <2>4 DEF ExtiFalling
  <2>5. CASE ExtiInsert
    BY <2>5 DEF ExtiInsert, IrqSet
  <2>6. QED
    BY <1>3, <2>1, <2>2, <2>3, <2>4, <2>5 DEF CardHandler
<1>4. CASE RtcHandler
  <2>1. CASE RtcIsrRead
    BY <2>1 DEF RtcIsrRead
  <2>2. CASE RtcIsrSet
    BY <2>2, AlarmBitOnly DEF RtcIsrSet, Kept
  <2>3. QED
    BY <1>4, <2>1, <2>2 DEF RtcHandler
<1>5. CASE ReadStatus
  BY <1>5 DEF ReadStatus
<1>6. CASE AckStatus
  BY <1>6 DEF AckStatus, IrqAck, Irq
<1>7. CASE WriteStatusReg
  BY <1>7 DEF WriteStatusReg, IrqAck, Irq
<1>8. CASE WriteEnableReg
  BY <1>8 DEF WriteEnableReg, IrqSetEnable
<1>9. CASE WriteAlarm
  BY <1>9 DEF WriteAlarm
<1>10. CASE WriteDateTime
  BY <1>10 DEF WriteDateTime
<1>11. CASE WriteStatus
  BY <1>11 DEF WriteStatus
<1>12. CASE RtcReset
  BY <1>12 DEF RtcReset
<1>13. CASE ApplyOff
  BY <1>13 DEF ApplyOff
<1>14. CASE ApplyOn
  BY <1>14 DEF ApplyOn
<1>15. CASE ApplyClear
  BY <1>15, AlarmBitOnly DEF ApplyClear, Kept
<1>16. CASE EvaluateClear
  BY <1>16 DEF EvaluateClear
<1>17. CASE EvaluateRead
  BY <1>17 DEF EvaluateRead
<1>18. CASE EvaluateSet
  BY <1>18, AlarmBitOnly DEF EvaluateSet, Kept
<1>19. CASE RtcDone
  BY <1>19 DEF RtcDone
<1>20. CASE Reset
  BY <1>20 DEF Reset
<1>21. CASE UNCHANGED vars
  BY <1>21 DEF vars
<1>22. QED
  BY <1>1, <1>2, <1>3, <1>4, <1>5, <1>6, <1>7, <1>8, <1>9, <1>10, <1>11, <1>12, <1>13, <1>14,
     <1>15, <1>16, <1>17, <1>18, <1>19, <1>20, <1>21 DEF Next

\* No edge of the card-detect pin is lost between the flag, the handler, the
\* status and the answer, wherever the next edge, the RTC's handler or the
\* console's own acknowledgement of other bits falls between their steps
\* (spi.c:66-78, mcu.c:127-137, spi_cmd.c:127-130).
THEOREM EdgeNeverLost == Spec => []NoLostEdge
  BY TypeInit, TypeStep, EdgeInit, EdgeStep, PTL DEF Spec

-----------------------------------------------------------------------------
(* The MCU's alarm.                                                        *)

\* Only the two steps of rtc_apply_alarm_mode, and what leads to them, find an
\* alarm that is not set up for the mode.
AlarmInv ==
  /\ main \in {"clear", "applyOn"} => almMask = {}
  /\ main = "clear" => almMode = {}
  /\ main \notin {"apply", "applyOn"} => almMask = almMode

LEMMA AlarmInit == Init => AlarmInv
  BY DEF Init, AlarmInv

LEMMA AlarmStep == AlarmInv /\ [Next]_vars => AlarmInv'
<1> SUFFICES ASSUME AlarmInv, [Next]_vars PROVE AlarmInv'
  OBVIOUS
<1> USE DEF AlarmInv, rtc_vars, main_vars
<1>1. CASE CardMoves \/ Tick \/ CardHandler \/ RtcHandler
  BY <1>1 DEF CardMoves, Tick, CardHandler, ExtiEnter, ExtiRising, ExtiRemove, ExtiFalling,
     ExtiInsert, RtcHandler, RtcIsrRead, RtcIsrSet
<1>2. CASE ReadStatus \/ AckStatus \/ WriteStatusReg \/ WriteEnableReg
  BY <1>2 DEF ReadStatus, AckStatus, WriteStatusReg, WriteEnableReg
<1>3. CASE WriteAlarm \/ WriteDateTime \/ WriteStatus \/ RtcReset
  BY <1>3 DEF WriteAlarm, WriteDateTime, WriteStatus, RtcReset
<1>4. CASE ApplyOff \/ ApplyOn \/ ApplyClear
  BY <1>4 DEF ApplyOff, ApplyOn, ApplyClear
<1>5. CASE EvaluateClear \/ EvaluateRead \/ EvaluateSet \/ RtcDone
  BY <1>5 DEF EvaluateClear, EvaluateRead, EvaluateSet, RtcDone
<1>6. CASE Reset
  BY <1>6 DEF Reset
<1>7. CASE UNCHANGED vars
  BY <1>7 DEF vars
<1>8. QED
  BY <1>1, <1>2, <1>3, <1>4, <1>5, <1>6, <1>7 DEF Next

\* Whatever resets and commands interrupt a change of the alarm mode, the MCU's
\* alarm is set up for the mode in the backup register before the next command
\* (rtc.c:127-170, 268-276).
THEOREM AlarmAlwaysSetUp == Spec => []AlarmSetUp
<1>1. AlarmInv => AlarmSetUp
  BY DEF AlarmInv, AlarmSetUp
<1>2. QED
  BY AlarmInit, AlarmStep, <1>1, PTL DEF Spec
=============================================================================
