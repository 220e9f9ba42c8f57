----------------------------- MODULE AccelProofs -----------------------------
(***************************************************************************)
(* Proofs about the accelerometer poller, for samples of any size.         *)
(***************************************************************************)
EXTENDS Accel, SequenceTheorems, TLAPS

-----------------------------------------------------------------------------
(* The bus.                                                                *)

NoTimer == ~timerOn /\ ~timerFlag
Quiet == state = "Idle" /\ bus = "idle" /\ NoTimer

\* Where the polling is paused no transfer can start, and where it is off none
\* runs, but for the main loop's own.
QuietInv ==
  /\ pc = "pause" => ~timerOn
  /\ pc \in {"control", "adjust"} => Quiet
  /\ pc = "wait" => state = "Idle" /\ bus \in {"control", "idle"} /\ NoTimer
  /\ ~polling => pc \in {"wait", "halted"} \/ Quiet

LEMMA QuietStep == QuietInv /\ [Next]_vars => QuietInv'
<1> SUFFICES ASSUME QuietInv, [Next]_vars PROVE QuietInv'
  OBVIOUS
<1> USE DEF QuietInv, Quiet, NoTimer, hardware, firmware, enables, main, copy
<1>1. CASE PauseDone
  BY <1>1 DEF PauseDone, At, Busy, Interrupted
<1>2. CASE ControlStart
  BY <1>2 DEF ControlStart, At, Interrupted
<1>3. CASE ControlDone
  BY <1>3 DEF ControlDone, At, Busy, Interrupted
<1>4. CASE Off
  BY <1>4 DEF Off, At, Interrupted
<1>5. CASE Adjust
  BY <1>5 DEF Adjust, PollResume, At, Interrupted
<1>6. CASE CopyPart
  BY <1>6 DEF CopyPart, At, Interrupted
<1>7. CASE CopyDone
  BY <1>7 DEF CopyDone, At, Interrupted
<1>8. CASE EnablePoll
  BY <1>8 DEF EnablePoll, At, Interrupted, PauseFor
<1>9. CASE DisablePoll
  BY <1>9 DEF DisablePoll, At, Interrupted, PauseFor
<1>10. CASE Deinit
  BY <1>10 DEF Deinit, At, Interrupted, PauseFor
<1>11. CASE ClockChanges
  BY <1>11 DEF ClockChanges, At, Interrupted, PauseFor
<1>12. CASE Standby
  BY <1>12 DEF Standby, At, Interrupted, PauseFor
<1>13. CASE CopyStart
  BY <1>13 DEF CopyStart, At, Interrupted
<1>14. CASE TimerIrq
  BY <1>14 DEF TimerIrq
<1>15. CASE I2cErrorIrq
  BY <1>15 DEF I2cErrorIrq
<1>16. CASE I2cRegisterIrq
  BY <1>16 DEF I2cRegisterIrq
<1>17. CASE I2cReadIrq
  BY <1>17 DEF I2cReadIrq
<1>18. CASE DmaIrq
  BY <1>18 DEF DmaIrq, DmaPending
<1>19. CASE Address
  BY <1>19 DEF Address
<1>20. CASE RegisterSent
  BY <1>20 DEF RegisterSent
<1>21. CASE Receive
  BY <1>21 DEF Receive
<1>22. CASE Stop
  BY <1>22 DEF Stop
<1>23. CASE ControlSent
  BY <1>23 DEF ControlSent
<1>24. CASE TimerFires
  BY <1>24 DEF TimerFires
<1>25. ASSUME NEW p, Shutdown(p) PROVE QuietInv'
  BY <1>25 DEF Shutdown
<1>26. CASE ShutdownDone
  BY <1>26 DEF ShutdownDone, Busy
<1>27. CASE UNCHANGED vars
  BY <1>27 DEF vars
<1> QED
  BY <1>1, <1>2, <1>3, <1>4, <1>5, <1>6, <1>7, <1>8, <1>9, <1>10, <1>11, <1>12, <1>13, <1>14, <1>15, <1>16, <1>17, <1>18, <1>19, <1>20, <1>21, <1>22, <1>23, <1>24, <1>25, <1>26, <1>27 DEF Next, LowVoltage, OnBattery, MainStep, Command, Handler, Hardware

\* The control register and the clock change under a quiet bus (QuietBus;
\* accel.c:258-269, 236-256).
THEOREM BusIsQuiet == Spec => []QuietBus
<1>1. Init => QuietInv
  BY DEF Init, QuietInv, Quiet, NoTimer
<1>2. QuietInv => QuietBus
  BY DEF QuietInv, Quiet, NoTimer, QuietBus, Busy
<1> QED
  BY <1>1, <1>2, QuietStep, PTL DEF Spec

-----------------------------------------------------------------------------
(* The samples.                                                            *)

\* A transfer and the poller's state belong together, and an error is seen
\* before the next transfer.
TransferInv ==
  /\ bus \in {"start", "txis", "tx", "tc"} => state = "SendAddr" /\ ~err
  /\ bus \in {"restart", "read"} => state = "ReadAccelState" /\ dmaOn /\ ~err
  /\ bus = "restart" => left = Parts
  /\ bus = "control" => state = "Idle" /\ NoTimer /\ ~err /\ pc \in {"wait", "halted"}
  /\ err => state # "Idle" \/ (NoTimer /\ pc \in {"wait", "halted"})

\* DMA fills the hidden buffer, in one piece with the sample that is sent.
DmaInv ==
  /\ target \in 0..1 /\ visible \in 0..1 /\ left \in 0..Parts
  /\ sample \in Samples /\ accel_data \in [0..1 -> [1..Parts -> Part]]
  /\ dmaOn => target = 1 - visible
  /\ tc4 <=> dmaOn /\ left = 0
  /\ dmaOn /\ left < Parts => state = "ReadAccelState" /\ ~err /\ bus \in {"read", "stop", "idle"}
  /\ dmaOn /\ left \in 1..Parts - 1 => bus = "read"
  /\ bus = "read" => left > 0
  /\ dmaOn => \A i \in 1..Parts - left : accel_data[target][i] = [id |-> sample, converted |-> FALSE]
  /\ Whole(accel_data[visible])

\* What is copied is the beginning of the visible buffer.
CopyInv ==
  /\ copied \in Seq(Part) /\ Whole(copied)
  /\ pc = "copy" =>
       /\ ~dmaIrqOn /\ source = visible /\ Len(copied) <= Parts
       /\ \A i \in DOMAIN copied : copied[i] = accel_data[visible][i]

SampleInv == TransferInv /\ DmaInv /\ CopyInv
LEMMA TransferStep == QuietInv /\ SampleInv /\ [Next]_vars => TransferInv'
<1> SUFFICES ASSUME QuietInv, SampleInv, [Next]_vars PROVE TransferInv'
  OBVIOUS
<1> USE PartsAssumption DEF SampleInv, QuietInv, Quiet, NoTimer, TransferInv, DmaInv, hardware, firmware, enables, main, copy
<1>1. CASE PauseDone
  BY <1>1 DEF PauseDone, At, Busy
<1>2. CASE ControlStart
  BY <1>2 DEF ControlStart, At
<1>3. CASE ControlDone
  BY <1>3 DEF ControlDone, At, Busy
<1>4. CASE Off
  BY <1>4 DEF Off, At
<1>5. CASE Adjust
  BY <1>5 DEF Adjust, PollResume, At
<1>6. CASE CopyPart
  BY <1>6 DEF CopyPart, At
<1>7. CASE CopyDone
  BY <1>7 DEF CopyDone, At
<1>8. CASE EnablePoll
  BY <1>8 DEF EnablePoll, At, PauseFor
<1>9. CASE DisablePoll
  BY <1>9 DEF DisablePoll, At, PauseFor
<1>10. CASE Deinit
  BY <1>10 DEF Deinit, At, PauseFor
<1>11. CASE ClockChanges
  BY <1>11 DEF ClockChanges, At, PauseFor
<1>12. CASE Standby
  BY <1>12 DEF Standby, At, PauseFor
<1>13. CASE CopyStart
  BY <1>13 DEF CopyStart, At
<1>14. CASE TimerIrq
  BY <1>14 DEF TimerIrq
<1>15. CASE I2cErrorIrq
  BY <1>15 DEF I2cErrorIrq
<1>16. CASE I2cRegisterIrq
  BY <1>16 DEF I2cRegisterIrq
<1>17. CASE I2cReadIrq
  BY <1>17 DEF I2cReadIrq, DmaConfigure
<1>18. CASE DmaIrq
  BY <1>18 DEF DmaIrq, DmaPending
<1>19. CASE Address
  BY <1>19 DEF Address
<1>20. CASE RegisterSent
  BY <1>20 DEF RegisterSent
<1>21. CASE Receive
  BY <1>21 DEF Receive
<1>22. CASE Stop
  BY <1>22 DEF Stop
<1>23. CASE ControlSent
  BY <1>23 DEF ControlSent
<1>24. CASE TimerFires
  BY <1>24 DEF TimerFires
<1>25. ASSUME NEW p, Shutdown(p) PROVE TransferInv'
  BY <1>25 DEF Shutdown
<1>26. CASE ShutdownDone
  BY <1>26 DEF ShutdownDone
<1>27. CASE UNCHANGED vars
  BY <1>27 DEF vars
<1> QED
  BY <1>1, <1>2, <1>3, <1>4, <1>5, <1>6, <1>7, <1>8, <1>9, <1>10, <1>11, <1>12, <1>13, <1>14, <1>15, <1>16, <1>17, <1>18, <1>19, <1>20, <1>21, <1>22, <1>23, <1>24, <1>25, <1>26, <1>27 DEF Next, LowVoltage, OnBattery, MainStep, Command, Handler, Hardware

\* Replacing one of the two buffers leaves the other.
LEMMA OneBuffer ==
  ASSUME NEW S, NEW f \in [0..1 -> S], NEW b \in 0..1, NEW new \in S
  PROVE  /\ [f EXCEPT ![b] = new] \in [0..1 -> S]
         /\ [f EXCEPT ![b] = new][b] = new
         /\ [f EXCEPT ![b] = new][1 - b] = f[1 - b]
  OBVIOUS

LEMMA DmaStep == QuietInv /\ SampleInv /\ [Next]_vars => DmaInv'
<1> SUFFICES ASSUME QuietInv, SampleInv, [Next]_vars PROVE DmaInv'
  OBVIOUS
<1> USE PartsAssumption DEF SampleInv, QuietInv, Quiet, NoTimer, TransferInv, DmaInv, Samples, hardware, firmware, enables, main, copy
<1>1. CASE PauseDone
  BY <1>1 DEF PauseDone, At, Busy
<1>2. CASE ControlStart
  BY <1>2 DEF ControlStart, At
<1>3. CASE ControlDone
  BY <1>3 DEF ControlDone, At, Busy
<1>4. CASE Off
  BY <1>4 DEF Off, At
<1>5. CASE Adjust
  BY <1>5 DEF Adjust, PollResume, At
<1>6. CASE CopyPart
  BY <1>6 DEF CopyPart, At
<1>7. CASE CopyDone
  BY <1>7 DEF CopyDone, At
<1>8. CASE EnablePoll
  BY <1>8 DEF EnablePoll, At, PauseFor
<1>9. CASE DisablePoll
  BY <1>9 DEF DisablePoll, At, PauseFor
<1>10. CASE Deinit
  BY <1>10 DEF Deinit, At, PauseFor
<1>11. CASE ClockChanges
  BY <1>11 DEF ClockChanges, At, PauseFor
<1>12. CASE Standby
  BY <1>12 DEF Standby, At, PauseFor
<1>13. CASE CopyStart
  BY <1>13 DEF CopyStart, At
<1>14. CASE TimerIrq
  BY <1>14 DEF TimerIrq
<1>15. CASE I2cErrorIrq
  BY <1>15 DEF I2cErrorIrq
<1>16. CASE I2cRegisterIrq
  BY <1>16 DEF I2cRegisterIrq
<1>17. CASE I2cReadIrq
  BY <1>17 DEF I2cReadIrq, DmaConfigure
<1>18. CASE DmaIrq
  <2>1. dmaOn /\ left = 0 /\ target = 1 - visible /\ bus \in {"stop", "idle"}
    BY <1>18 DEF DmaIrq, DmaPending
  <2>2. \A i \in 1..Parts : accel_data[1 - visible][i] = [id |-> sample, converted |-> FALSE]
    <3>1. Parts - left = Parts
      BY <2>1
    <3> QED
      BY <2>1, <3>1
  <2> DEFINE new == [i \in 1..Parts |-> [id |-> accel_data[1 - visible][i].id,
                                         converted |-> ~accel_data[1 - visible][i].converted]]
  <2>3. new = [i \in 1..Parts |-> [id |-> sample, converted |-> TRUE]]
    <3>1. \A i \in 1..Parts : accel_data[1 - visible][i].id = sample
                             /\ accel_data[1 - visible][i].converted = FALSE
      BY <2>2
    <3> QED
      BY <3>1, Zenon
  <2>4. new \in [1..Parts -> Part] /\ Whole(new)
    BY <2>3 DEF Part, Whole
  <2>5. accel_data' = [accel_data EXCEPT ![1 - visible] = new] /\ visible' = 1 - visible
    BY <1>18 DEF DmaIrq
  <2> HIDE DEF new
  <2>6. accel_data' \in [0..1 -> [1..Parts -> Part]] /\ accel_data'[visible'] = new
    <3>1. accel_data \in [0..1 -> [1..Parts -> Part]] /\ 1 - visible \in 0..1
      OBVIOUS
    <3> QED
      BY <2>4, <2>5, <3>1, OneBuffer, Zenon
  <2> QED
    BY <1>18, <2>1, <2>4, <2>6 DEF DmaIrq
<1>19. CASE Address
  BY <1>19 DEF Address
<1>20. CASE RegisterSent
  BY <1>20 DEF RegisterSent
<1>21. CASE Receive
  <2> DEFINE part == [id |-> sample, converted |-> FALSE]
             next == Parts - left + 1
  <2>1. target = 1 - visible /\ next \in 1..Parts /\ part \in Part
    BY <1>21 DEF Receive, Part
  <2> DEFINE new == [accel_data[target] EXCEPT ![next] = part]
  <2>2. /\ accel_data' = [accel_data EXCEPT ![target] = new]
        /\ visible' = visible /\ target' = target /\ sample' = sample
    BY <1>21 DEF Receive
  <2> HIDE DEF part, next
  <2>3. new \in [1..Parts -> Part] /\ new[next] = part
        /\ \A i \in 1..Parts : i # next => new[i] = accel_data[target][i]
    <3>1. accel_data[target] \in [1..Parts -> Part]
      OBVIOUS
    <3> QED
      BY <2>1, <3>1, Zenon
  <2> HIDE DEF new
  <2>4. /\ accel_data' \in [0..1 -> [1..Parts -> Part]]
        /\ accel_data'[target] = new /\ accel_data'[1 - target] = accel_data[1 - target]
    <3>1. accel_data \in [0..1 -> [1..Parts -> Part]] /\ target \in 0..1
      OBVIOUS
    <3>2. accel_data' = [accel_data EXCEPT ![target] = new] /\ new \in [1..Parts -> Part]
      BY <2>2, <2>3
    <3> QED
      BY <3>1, <3>2, OneBuffer
  <2>5. \A i \in 1..next : new[i] = [id |-> sample, converted |-> FALSE]
    <3>1. \A i \in 1..next : i = next \/ (i # next /\ i \in 1..Parts /\ i \in 1..Parts - left)
      BY <1>21, <2>1 DEF Receive, next
    <3>2. \A i \in 1..Parts - left : accel_data[target][i] = part
      BY <1>21 DEF Receive, part
    <3> QED
      BY <2>3, <3>1, <3>2, Zenon DEF part
  <2>6. Parts - left' = next /\ 1 - target = visible
    BY <1>21, <2>1 DEF Receive, next
  <2>7. \A i \in 1..Parts - left' : accel_data'[target'][i] = [id |-> sample', converted |-> FALSE]
    BY <2>2, <2>4, <2>5, <2>6, Zenon
  <2>8. Whole(accel_data'[visible'])
    BY <2>2, <2>4, <2>6
  <2> QED
    <3>1. left \in 1..Parts /\ left' = left - 1 /\ dmaOn' = dmaOn /\ dmaOn
      BY <1>21 DEF Receive
    <3>2. bus' = (IF left = 1 THEN "stop" ELSE "read") /\ state' = "ReadAccelState" /\ ~err'
      BY <1>21 DEF Receive
    <3>3. tc4' <=> left = 1
      BY <1>21, Zenon DEF Receive
    <3>4. left' \in 0..Parts /\ left' < Parts /\ (left' = 0 <=> left = 1)
      BY <3>1
    <3>5. (bus' = "read" <=> left' > 0) /\ bus' \in {"read", "stop"}
      BY <3>1, <3>2
    <3>6. dmaOn'
      BY <3>1, Zenon
    <3>7. /\ dmaOn' => target' = 1 - visible'
          /\ dmaOn' /\ left' \in 1..Parts - 1 => bus' = "read"
      BY <2>1, <2>2, <3>4, <3>5
    <3>8. tc4' <=> dmaOn' /\ left' = 0
      BY <3>3, <3>4, <3>6, Zenon
    <3>9. bus' \in {"read", "stop", "idle"}
      BY <3>5
    <3>10. target' \in 0..1 /\ visible' \in 0..1 /\ sample' \in Samples
      BY <2>2
    <3> QED
      BY <2>4, <2>7, <2>8, <3>2, <3>4, <3>5, <3>7, <3>8, <3>9, <3>10, Zenon DEF Samples
<1>22. CASE Stop
  BY <1>22 DEF Stop
<1>23. CASE ControlSent
  BY <1>23 DEF ControlSent
<1>24. CASE TimerFires
  BY <1>24 DEF TimerFires
<1>25. ASSUME NEW p, Shutdown(p) PROVE DmaInv'
  BY <1>25 DEF Shutdown
<1>26. CASE ShutdownDone
  BY <1>26 DEF ShutdownDone
<1>27. CASE UNCHANGED vars
  BY <1>27 DEF vars
<1> QED
  BY <1>1, <1>2, <1>3, <1>4, <1>5, <1>6, <1>7, <1>8, <1>9, <1>10, <1>11, <1>12, <1>13, <1>14, <1>15, <1>16, <1>17, <1>18, <1>19, <1>20, <1>21, <1>22, <1>23, <1>24, <1>25, <1>26, <1>27 DEF Next, LowVoltage, OnBattery, MainStep, Command, Handler, Hardware

LEMMA CopyStep == QuietInv /\ SampleInv /\ [Next]_vars => CopyInv'
<1> SUFFICES ASSUME QuietInv, SampleInv, [Next]_vars PROVE CopyInv'
  OBVIOUS
<1> USE PartsAssumption DEF SampleInv, DmaInv, CopyInv, Whole, Samples, Part, hardware, firmware, enables, main, copy
<1>1. CASE PauseDone
  BY <1>1 DEF PauseDone, At, Busy
<1>2. CASE ControlStart
  BY <1>2 DEF ControlStart, At
<1>3. CASE ControlDone
  BY <1>3 DEF ControlDone, At, Busy
<1>4. CASE Off
  BY <1>4 DEF Off, At
<1>5. CASE Adjust
  BY <1>5 DEF Adjust, PollResume, At
<1>6. CASE CopyPart
  <2> DEFINE part == accel_data[visible][Len(copied) + 1]
  <2>1. copied' = Append(copied, part) /\ part \in Part /\ Len(copied) < Parts
    <3>1. Len(copied) + 1 \in 1..Parts
      BY <1>6 DEF CopyPart, At
    <3> QED
      BY <1>6, <3>1 DEF CopyPart, At
  <2>2. \A i \in 1..Len(copied) : copied[i] = accel_data[visible][i]
    BY <1>6 DEF CopyPart, At
  <2> HIDE DEF part
  <2>3. /\ copied' \in Seq(Part) /\ Len(copied') = Len(copied) + 1
        /\ \A i \in 1..Len(copied) : copied'[i] = copied[i]
        /\ copied'[Len(copied) + 1] = part
    BY <2>1, AppendProperties
  <2>4. \A i \in 1..Len(copied) + 1 : copied'[i] = accel_data[visible][i]
    BY <2>2, <2>3 DEF part
  <2>5. DOMAIN copied' = 1..Len(copied) + 1 /\ Len(copied) + 1 <= Parts
    BY <2>1, <2>3
  <2>6. Whole(copied')
    BY <2>4, <2>5
  <2> QED
    BY <1>6, <2>3, <2>4, <2>5, <2>6 DEF CopyPart
<1>7. CASE CopyDone
  BY <1>7 DEF CopyDone, At
<1>8. CASE EnablePoll
  BY <1>8 DEF EnablePoll, At, PauseFor
<1>9. CASE DisablePoll
  BY <1>9 DEF DisablePoll, At, PauseFor
<1>10. CASE Deinit
  BY <1>10 DEF Deinit, At, PauseFor
<1>11. CASE ClockChanges
  BY <1>11 DEF ClockChanges, At, PauseFor
<1>12. CASE Standby
  BY <1>12 DEF Standby, At, PauseFor
<1>13. CASE CopyStart
  BY <1>13 DEF CopyStart, At
<1>14. CASE TimerIrq
  BY <1>14 DEF TimerIrq
<1>15. CASE I2cErrorIrq
  BY <1>15 DEF I2cErrorIrq
<1>16. CASE I2cRegisterIrq
  BY <1>16 DEF I2cRegisterIrq
<1>17. CASE I2cReadIrq
  BY <1>17 DEF I2cReadIrq, DmaConfigure
<1>18. CASE DmaIrq
  BY <1>18 DEF DmaIrq, DmaPending
<1>19. CASE Address
  BY <1>19 DEF Address
<1>20. CASE RegisterSent
  BY <1>20 DEF RegisterSent
<1>21. CASE Receive
  BY <1>21 DEF Receive
<1>22. CASE Stop
  BY <1>22 DEF Stop
<1>23. CASE ControlSent
  BY <1>23 DEF ControlSent
<1>24. CASE TimerFires
  BY <1>24 DEF TimerFires
<1>25. ASSUME NEW p, Shutdown(p) PROVE CopyInv'
  BY <1>25 DEF Shutdown
<1>26. CASE ShutdownDone
  BY <1>26 DEF ShutdownDone
<1>27. CASE UNCHANGED vars
  BY <1>27 DEF vars
<1> QED
  BY <1>1, <1>2, <1>3, <1>4, <1>5, <1>6, <1>7, <1>8, <1>9, <1>10, <1>11, <1>12, <1>13, <1>14, <1>15, <1>16, <1>17, <1>18, <1>19, <1>20, <1>21, <1>22, <1>23, <1>24, <1>25, <1>26, <1>27 DEF Next, LowVoltage, OnBattery, MainStep, Command, Handler, Hardware

\* Whoever reads a sample reads one whole sample (SamplesWhole;
\* accel.c:60-76, 108-116, 334-339).
THEOREM SamplesAlwaysWhole == Spec => []SamplesWhole
<1>1. Init => QuietInv /\ SampleInv
  BY PartsAssumption DEF Init, QuietInv, Quiet, NoTimer, SampleInv, TransferInv, DmaInv, CopyInv,
     Whole, Samples, Part
<1>2. QuietInv /\ SampleInv /\ [Next]_vars => (QuietInv /\ SampleInv)'
  BY QuietStep, TransferStep, DmaStep, CopyStep DEF SampleInv
<1>3. SampleInv => SamplesWhole
  BY DEF SampleInv, DmaInv, CopyInv, SamplesWhole
<1> QED
  BY <1>1, <1>2, <1>3, PTL DEF Spec

-----------------------------------------------------------------------------
(* The types.                                                              *)

FlagInv ==
  /\ err \in BOOLEAN /\ dmaOn \in BOOLEAN /\ tc4 \in BOOLEAN
  /\ timerOn \in BOOLEAN /\ timerFlag \in BOOLEAN /\ i2cIrqOn \in BOOLEAN /\ dmaIrqOn \in BOOLEAN
  /\ polling \in BOOLEAN /\ chip_detected \in BOOLEAN /\ i2cOn \in BOOLEAN

PlaceInv ==
  /\ bus \in {"idle", "start", "txis", "tx", "tc", "restart", "read", "stop", "control"}
  /\ state \in {"Idle", "SendAddr", "ReadAccelState"}
  /\ level \in {PVD, Default, Thread}
  /\ pc \in {"loop", "pause", "control", "wait", "adjust", "copy", "off", "halted"}
  /\ goal \in {"none", "poll", "park", "deinit", "clock", "standby"}
  /\ Len(copied) <= Parts /\ source \in 0..1

LEMMA FlagStep == FlagInv /\ [Next]_vars => FlagInv'
<1> SUFFICES ASSUME FlagInv, [Next]_vars PROVE FlagInv'
  OBVIOUS
<1> USE DEF FlagInv, hardware, firmware, enables, main, copy
<1>1. CASE PauseDone
  BY <1>1 DEF PauseDone, At
<1>2. CASE ControlStart
  BY <1>2 DEF ControlStart, At
<1>3. CASE ControlDone
  <2>1. timerOn' \in BOOLEAN /\ polling' \in BOOLEAN
    BY <1>3, Zenon DEF ControlDone
  <2>2. chip_detected' \in BOOLEAN /\ i2cIrqOn' \in BOOLEAN
    BY <1>3 DEF ControlDone
  <2> QED
    BY <1>3, <2>1, <2>2 DEF ControlDone
<1>4. CASE Off
  BY <1>4 DEF Off, At
<1>5. CASE Adjust
  <2>1. timerOn' \in BOOLEAN
    BY <1>5, Zenon DEF Adjust, PollResume
  <2> QED
    BY <1>5, <2>1 DEF Adjust, PollResume
<1>6. CASE CopyPart
  BY <1>6 DEF CopyPart, At
<1>7. CASE CopyDone
  BY <1>7 DEF CopyDone, At
<1>8. CASE EnablePoll
  BY <1>8 DEF EnablePoll, At, PauseFor
<1>9. CASE DisablePoll
  BY <1>9 DEF DisablePoll, At, PauseFor
<1>10. CASE Deinit
  BY <1>10 DEF Deinit, At, PauseFor
<1>11. CASE ClockChanges
  BY <1>11 DEF ClockChanges, At, PauseFor
<1>12. CASE Standby
  BY <1>12 DEF Standby, At, PauseFor
<1>13. CASE CopyStart
  BY <1>13 DEF CopyStart, At
<1>14. CASE TimerIrq
  BY <1>14 DEF TimerIrq
<1>15. CASE I2cErrorIrq
  BY <1>15 DEF I2cErrorIrq
<1>16. CASE I2cRegisterIrq
  BY <1>16 DEF I2cRegisterIrq
<1>17. CASE I2cReadIrq
  BY <1>17 DEF I2cReadIrq, DmaConfigure
<1>18. CASE DmaIrq
  BY <1>18 DEF DmaIrq
<1>19. CASE Address
  BY <1>19 DEF Address
<1>20. CASE RegisterSent
  BY <1>20 DEF RegisterSent
<1>21. CASE Receive
  <2>1. tc4' \in BOOLEAN
    BY <1>21, Zenon DEF Receive
  <2> QED
    BY <1>21, <2>1 DEF Receive
<1>22. CASE Stop
  BY <1>22 DEF Stop
<1>23. CASE ControlSent
  BY <1>23 DEF ControlSent
<1>24. CASE TimerFires
  BY <1>24 DEF TimerFires
<1>25. ASSUME NEW p \in {PVD, Default}, Shutdown(p) PROVE FlagInv'
  BY <1>25 DEF Shutdown
<1>26. CASE ShutdownDone
  BY <1>26 DEF ShutdownDone
<1>27. CASE UNCHANGED vars
  BY <1>27 DEF vars
<1> QED
  BY <1>1, <1>2, <1>3, <1>4, <1>5, <1>6, <1>7, <1>8, <1>9, <1>10, <1>11, <1>12, <1>13,
     <1>14, <1>15, <1>16, <1>17, <1>18, <1>19, <1>20, <1>21, <1>22, <1>23, <1>24, <1>25, <1>26, <1>27
     DEF Next, LowVoltage, OnBattery, MainStep, Command, Handler, Hardware

LEMMA PlaceStep == SampleInv /\ PlaceInv /\ [Next]_vars => PlaceInv'
<1> SUFFICES ASSUME SampleInv, PlaceInv, [Next]_vars PROVE PlaceInv'
  OBVIOUS
<1> USE PartsAssumption DEF PlaceInv, SampleInv, DmaInv, CopyInv, hardware, firmware, enables, main, copy
<1>1. CASE PauseDone
  BY <1>1 DEF PauseDone, At
<1>2. CASE ControlStart
  BY <1>2 DEF ControlStart, At
<1>3. CASE ControlDone
  BY <1>3 DEF ControlDone, At
<1>4. CASE Off
  BY <1>4 DEF Off, At
<1>5. CASE Adjust
  BY <1>5 DEF Adjust, PollResume, At
<1>6. CASE CopyPart
  <2>1. Len(copied) + 1 \in 1..Parts
    BY <1>6 DEF CopyPart
  <2>2. accel_data[source][Len(copied) + 1] \in Part
    BY <2>1
  <2>3. Len(copied') = Len(copied) + 1
    BY <1>6, <2>2, AppendProperties DEF CopyPart
  <2> QED
    BY <1>6, <2>1, <2>3 DEF CopyPart
<1>7. CASE CopyDone
  BY <1>7 DEF CopyDone, At
<1>8. CASE EnablePoll
  BY <1>8 DEF EnablePoll, At, PauseFor
<1>9. CASE DisablePoll
  BY <1>9 DEF DisablePoll, At, PauseFor
<1>10. CASE Deinit
  BY <1>10 DEF Deinit, At, PauseFor
<1>11. CASE ClockChanges
  BY <1>11 DEF ClockChanges, At, PauseFor
<1>12. CASE Standby
  BY <1>12 DEF Standby, At, PauseFor
<1>13. CASE CopyStart
  BY <1>13 DEF CopyStart, At
<1>14. CASE TimerIrq
  BY <1>14 DEF TimerIrq
<1>15. CASE I2cErrorIrq
  BY <1>15 DEF I2cErrorIrq
<1>16. CASE I2cRegisterIrq
  BY <1>16 DEF I2cRegisterIrq
<1>17. CASE I2cReadIrq
  BY <1>17 DEF I2cReadIrq, DmaConfigure
<1>18. CASE DmaIrq
  BY <1>18 DEF DmaIrq
<1>19. CASE Address
  BY <1>19 DEF Address
<1>20. CASE RegisterSent
  BY <1>20 DEF RegisterSent
<1>21. CASE Receive
  BY <1>21 DEF Receive
<1>22. CASE Stop
  BY <1>22 DEF Stop
<1>23. CASE ControlSent
  BY <1>23 DEF ControlSent
<1>24. CASE TimerFires
  BY <1>24 DEF TimerFires
<1>25. ASSUME NEW p \in {PVD, Default}, Shutdown(p) PROVE PlaceInv'
  BY <1>25 DEF Shutdown
<1>26. CASE ShutdownDone
  BY <1>26 DEF ShutdownDone
<1>27. CASE UNCHANGED vars
  BY <1>27 DEF vars
<1> QED
  BY <1>1, <1>2, <1>3, <1>4, <1>5, <1>6, <1>7, <1>8, <1>9, <1>10, <1>11, <1>12, <1>13,
     <1>14, <1>15, <1>16, <1>17, <1>18, <1>19, <1>20, <1>21, <1>22, <1>23, <1>24, <1>25, <1>26, <1>27
     DEF Next, LowVoltage, OnBattery, MainStep, Command, Handler, Hardware

\* Every variable has its type, and DMA has at most one sample to move, for
\* samples of any size (accel.c:60-116).
THEOREM AccelTypes == Spec => []TypeOK
<1>1. Init => QuietInv /\ SampleInv /\ FlagInv /\ PlaceInv
  <2> SUFFICES ASSUME Init PROVE QuietInv /\ SampleInv /\ FlagInv /\ PlaceInv
    OBVIOUS
  <2>1. QuietInv /\ SampleInv
    BY PartsAssumption DEF Init, QuietInv, Quiet, NoTimer, SampleInv, TransferInv, DmaInv, CopyInv,
       Whole, Samples, Part
  <2>2. FlagInv
    BY DEF Init, FlagInv
  <2>3. PlaceInv
    BY PartsAssumption DEF Init, PlaceInv
  <2> QED
    BY <2>1, <2>2, <2>3
<1>2. QuietInv /\ SampleInv /\ [Next]_vars => (QuietInv /\ SampleInv)'
  BY QuietStep, TransferStep, DmaStep, CopyStep DEF SampleInv
<1>3. SampleInv /\ FlagInv /\ PlaceInv => TypeOK
  <2> SUFFICES ASSUME SampleInv, FlagInv, PlaceInv PROVE TypeOK
    OBVIOUS
  <2>1. {err, dmaOn, tc4, timerOn, timerFlag, i2cIrqOn, dmaIrqOn, polling, chip_detected, i2cOn}
          \subseteq BOOLEAN
    BY Zenon DEF FlagInv
  <2> QED
    BY <2>1 DEF TypeOK, SampleInv, DmaInv, CopyInv, PlaceInv
<1> QED
  BY <1>1, <1>2, <1>3, FlagStep, PlaceStep, PTL DEF Spec
=============================================================================
