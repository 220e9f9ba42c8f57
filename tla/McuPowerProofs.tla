--------------------------- MODULE McuPowerProofs ---------------------------
(***************************************************************************)
(* Proofs about the MCU's port and clock, for any number of commands and   *)
(* resets, and every set of identities and EEPROM types.                   *)
(***************************************************************************)
EXTENDS McuPower, TLAPS

-----------------------------------------------------------------------------
(* The port.                                                               *)

\* What the status promises of the port at each step that switches it: the
\* handlers move it between the steps, but never to or from a state whose
\* promise the step has not yet made true.
PortInv ==
  /\ status \in {"OFF", "REQUEST_ON", "ON", "REQUEST_OFF"}
  /\ status = "OFF" => ~power /\ ~stack /\ ~pullup
  /\ status = "ON" => stack \/ pc = "init"
  /\ stack => power /\ status \in {"ON", "REQUEST_OFF"}
  /\ pc = "on" => power /\ status = "REQUEST_ON"
  /\ pc = "init" => power /\ status \in {"ON", "REQUEST_OFF"}
  /\ pc \in {"powerOff", "off"} => status = "REQUEST_OFF" /\ ~stack /\ ~pullup
  /\ pc = "off" => ~power
  /\ pc = "change" /\ seenStatus = "ON" => status \in {"ON", "REQUEST_OFF"}
  /\ pc = "change" /\ seenStatus = "OFF" => status \in {"OFF", "REQUEST_ON"}
  /\ pc = "tud" => stack
  /\ pc = "halted" => status = "OFF"
  /\ pc = "clock" => ret \in {"halted", "mode", "task", "pin", "loop", "spi", "sleep"}
  /\ pc = "clock" /\ ret = "halted" => status = "OFF"

LEMMA PortInit == Init => PortInv
  BY DEF Init, PortInv, ClockInit

\* A call of mcu_update_clock_speed goes to a clock step that remembers the
\* caller's next step, or to that step.
LEMMA UpdateClockReturns ==
  ASSUME NEW caller, UpdateClock(caller)
  PROVE  pc' = caller \/ (pc' = "clock" /\ ret' = caller)
  BY DEF UpdateClock

LEMMA PortStep == PortInv /\ [Next]_vars => PortInv'
<1> SUFFICES ASSUME PortInv, [Next]_vars PROVE PortInv'
  OBVIOUS
<1> USE DEF PortInv
<1>1. CASE Cable
  BY <1>1 DEF Cable, usb, main
<1>2. CASE ExtiIrq
  BY <1>2 DEF ExtiIrq, PowerChange, Running, Stopping, main
<1>3. CASE UsbIrq
  BY <1>3 DEF UsbIrq, main
<1>4. CASE Shutdown
  BY <1>4, UpdateClockReturns DEF Shutdown, PortOff
<1>5. CASE Reset
  BY <1>5 DEF Reset, Restart, PortOff
<1>6. CASE PowerLoss
  BY <1>6 DEF PowerLoss, Restart, PortOff
<1>7. CASE SetEnabled
  BY <1>7 DEF SetEnabled, At, Goto, usb
<1>8. CASE ReadPin
  BY <1>8 DEF ReadPin, At, Goto, usb
<1>9. CASE ReadStatus
  BY <1>9 DEF ReadStatus, At, Goto, usb
<1>10. CASE Change
  BY <1>10 DEF Change, At, Goto
<1>11. CASE StartMemory
  BY <1>11 DEF StartMemory, At, Goto, usb
<1>12. CASE StartBus
  BY <1>12, UpdateClockReturns DEF StartBus, usb
<1>13. CASE ClockStep
  BY <1>13 DEF ClockStep, usb
<1>14. CASE TaskPowerOn
  BY <1>14 DEF TaskPowerOn, At, Goto
<1>15. CASE TaskOn
  BY <1>15 DEF TaskOn, At, Goto
<1>16. CASE TaskInit
  BY <1>16, UpdateClockReturns DEF TaskInit, At
<1>17. CASE TaskDeinit
  BY <1>17 DEF TaskDeinit, At, Goto
<1>18. CASE TaskPowerOff
  BY <1>18 DEF TaskPowerOff, At, Goto
<1>19. CASE TaskOff
  BY <1>19, UpdateClockReturns DEF TaskOff, At
<1>20. CASE TaskIdle
  BY <1>20 DEF TaskIdle, At, Goto, usb
<1>21. CASE Loop
  BY <1>21 DEF Loop, At, Goto, usb
<1>22. CASE TudTask
  BY <1>22, UpdateClockReturns DEF TudTask, At, Goto
<1>23. CASE NoCommand
  BY <1>23 DEF NoCommand, At, Goto, usb
<1>24. CASE BusCommand
  BY <1>24, UpdateClockReturns DEF BusCommand, Command, At, usb
<1>25. CASE MemoryCommand
  BY <1>25 DEF MemoryCommand, Command, At, Goto, usb
<1>26. CASE ResetRtc
  BY <1>26 DEF ResetRtc, Command, At, Goto, usb
<1>27. CASE RestoreId
  BY <1>27 DEF RestoreId, Cut, Goto, usb
<1>28. CASE ChooseSource
  BY <1>28 DEF ChooseSource, At, Goto, usb
<1>29. CASE Sleep
  BY <1>29 DEF Sleep, At, Goto, usb
<1>30. CASE UNCHANGED vars
  BY <1>30 DEF vars, usb, main
<1>31. QED
  BY <1>1, <1>2, <1>3, <1>4, <1>5, <1>6, <1>7, <1>8, <1>9, <1>10, <1>11, <1>12, <1>13,
     <1>14, <1>15, <1>16, <1>17, <1>18, <1>19, <1>20, <1>21, <1>22, <1>23, <1>24, <1>25,
     <1>26, <1>27, <1>28, <1>29, <1>30 DEF Next, MainStep

\* TinyUSB and its interrupt never touch a peripheral without power, and a
\* shutdown leaves none of it on, however often the cable is moved and the MCU
\* reset, and at whatever step (mcu.c:553-655).
THEOREM PortNeedsPower == Spec => []UsedOnlyWithPower
<1>1. PortInv => UsedOnlyWithPower
  BY DEF PortInv, UsedOnlyWithPower
<1>2. QED
  BY PortInit, PortStep, <1>1, PTL DEF Spec

-----------------------------------------------------------------------------
(* The clock.                                                              *)

Targets == {<<48, 1>>, <<24, 1>>, <<24, 2>>, <<16, 1>>, <<8, 2>>, <<1, 1>>}

\* Of the registers, wherever a change of clock is and whatever it was that cut
\* short the one before it: each limit that a faster clock needs to have raised
\* is raised by its step, and none is lowered before the oscillator is slower.
RegisterInv ==
  /\ msi \in {1, 8, 16, 24, 48} /\ latency \in {0, 1} /\ vos \in {1, 2} /\ lpr \in {0, 1}
  /\ target \in Targets /\ k \in 0..9
  /\ msi <= Allowed
  /\ k >= 3 /\ HighPower => lpr = 0
  /\ k >= 4 /\ HighVoltage => vos = 1
  /\ k >= 5 /\ HighLatency => latency = 1
  /\ k >= 6 => msi = target[1]
  /\ k = 9 => apb = target[2]
  /\ k > 0 => timing = target[1] \div target[2]

\* What else knows the clock, knows it.
Settled == last_clock_speed = msi /\ busy_pin_delay = Delay(msi) /\ timing = msi \div apb

ClockInv ==
  /\ RegisterInv
  /\ spi_freq \in Freqs /\ spi_mode \in SpiModes
  /\ pc = "clock" => k > 0
  /\ k = 0 \/ pc \in {"clock", "halted"}
  /\ k = 0 /\ pc # "halted" => Settled

LEMMA WantedIsTarget ==
  ASSUME NEW connected, NEW mount, NEW freq \in Freqs, NEW mode \in SpiModes
  PROVE  Wanted(connected, mount, freq, mode) \in Targets
<1>1. CASE freq = "24MHZ"
  BY <1>1 DEF Wanted, Targets
<1>2. CASE freq = "6MHZ"
  BY <1>2 DEF Wanted, Targets
<1>3. CASE freq = "384KHZ" /\ connected
  BY <1>3 DEF Wanted, Targets
<1>4. CASE freq = "384KHZ" /\ ~connected
  BY <1>4 DEF Wanted, Targets, SpiModes
<1>5. QED
  BY <1>1, <1>2, <1>3, <1>4 DEF Freqs

\* A call leaves the registers consistent, and what was settled if it has
\* nothing to change.
LEMMA UpdateRegisters ==
  ASSUME NEW wanted \in Targets, RegisterInv, Update(wanted)
  PROVE  /\ RegisterInv'
         /\ k' = 0 /\ Settled => Settled'
  BY DEF Update, RegisterInv, Settled, Targets, Allowed, HighPower, HighVoltage, HighLatency, Delay

\* So does each write of a change, which is settled at its end.
LEMMA StepRegisters ==
  ASSUME RegisterInv, UpdateStep
  PROVE  /\ RegisterInv'
         /\ k' = 0 => Settled'
<1> USE DEF UpdateStep, RegisterInv, Settled, Targets, Allowed, HighPower, HighVoltage, HighLatency,
            Delay
<1>1. CASE k = 1
  BY <1>1
<1>2. CASE k = 2
  BY <1>2
<1>3. CASE k = 3
  BY <1>3
<1>4. CASE k = 4
  BY <1>4
<1>5. CASE k = 5
  BY <1>5
<1>6. CASE k = 6
  BY <1>6
<1>7. CASE k = 7
  BY <1>7
<1>8. CASE k = 8
  BY <1>8
<1>9. CASE k = 9
  <2>1. /\ lpr' = lpr /\ vos' = vos /\ latency' = latency /\ msi' = msi /\ apb' = apb
        /\ target' = target /\ timing' = timing /\ k' = 0
    BY <1>9
  <2>2. last_clock_speed' = msi' /\ busy_pin_delay' = Delay(msi')
    BY <1>9, <2>1
  <2>3. timing' = msi' \div apb'
    BY <1>9, <2>1
  <2>4. RegisterInv'
    BY <2>1
  <2>5. QED
    BY <2>2, <2>3, <2>4
<1>10. QED
  BY <1>1, <1>2, <1>3, <1>4, <1>5, <1>6, <1>7, <1>8, <1>9

LEMMA ClockStart == Init => ClockInv
  BY DEF Init, ClockInit, ClockInv, RegisterInv, Settled, Targets, Allowed, HighPower, HighVoltage,
         HighLatency, Delay, Freqs, SpiModes

LEMMA UpdateClockInv ==
  ASSUME ClockInv, NEW caller, caller # "clock", UpdateClock(caller),
         caller = "halted" \/ (k = 0 /\ pc # "halted"),
         spi_freq' \in Freqs, spi_mode' \in SpiModes
  PROVE  ClockInv'
<1> DEFINE wanted == Wanted(plugged /\ enabled', mounted', spi_freq', spi_mode')
<1>1. wanted \in Targets
  BY WantedIsTarget
<1>2. Update(wanted)
  BY DEF UpdateClock
<1> HIDE DEF wanted
<1>3. RegisterInv' /\ (k' = 0 /\ Settled => Settled')
  BY <1>1, <1>2, UpdateRegisters DEF ClockInv
<1>4. k' \in {0, 1}
  BY <1>2 DEF Update
<1>5. IF k' = 0 THEN pc' = caller ELSE pc' = "clock"
  BY DEF UpdateClock
<1>6. QED
  BY <1>3, <1>4, <1>5 DEF ClockInv

\* Whoever changes neither clock nor configuration leaves the invariant, if the
\* main loop goes from a step with a settled clock to another.
LEMMA ElsewhereInv ==
  ASSUME ClockInv, UNCHANGED <<clock, spi_config>>,
         pc' = pc \/ (pc # "clock" /\ pc # "halted" /\ pc' # "clock") \/ pc' = "halted"
  PROVE  ClockInv'
  BY DEF ClockInv, RegisterInv, Settled, clock, spi_config, Allowed, HighPower, HighVoltage,
         HighLatency, Delay

LEMMA ClockStepInv == PortInv /\ ClockInv /\ [Next]_vars => ClockInv'
<1> SUFFICES ASSUME PortInv, ClockInv, [Next]_vars PROVE ClockInv'
  OBVIOUS
<1>1. CASE Cable
  BY <1>1, ElsewhereInv DEF Cable, main
<1>2. CASE ExtiIrq
  BY <1>2, ElsewhereInv DEF ExtiIrq, main
<1>3. CASE UsbIrq
  BY <1>3, ElsewhereInv DEF UsbIrq, main
<1>4. CASE Shutdown
  <2>1. UNCHANGED spi_config /\ pc # "halted"
    BY <1>4 DEF Shutdown, Running
  <2>2. CASE UpdateClock("halted")
    BY <2>1, <2>2, UpdateClockInv DEF ClockInv, spi_config
  <2>3. CASE UNCHANGED clock /\ pc' = "halted"
    BY <2>1, <2>3, ElsewhereInv
  <2>4. QED
    BY <1>4, <2>2, <2>3 DEF Shutdown
<1>5. CASE Reset
  BY <1>5 DEF Reset, Restart, ClockReset, ClockInv, RegisterInv, Settled, Targets, Allowed,
     HighPower, HighVoltage, HighLatency, Delay, Freqs, SpiModes
<1>6. CASE PowerLoss
  BY <1>6 DEF PowerLoss, Restart, ClockReset, ClockInv, RegisterInv, Settled, Targets, Allowed,
     HighPower, HighVoltage, HighLatency, Delay, Freqs, SpiModes
<1>7. CASE SetEnabled
  BY <1>7, ElsewhereInv DEF SetEnabled, At, Goto
<1>8. CASE ReadPin
  BY <1>8, ElsewhereInv DEF ReadPin, At, Goto
<1>9. CASE ReadStatus
  BY <1>9, ElsewhereInv DEF ReadStatus, At, Goto
<1>10. CASE Change
  BY <1>10, ElsewhereInv DEF Change, At, Goto
<1>11. CASE StartMemory
  BY <1>11, ElsewhereInv DEF StartMemory, At, Goto
<1>12. CASE StartBus
  BY <1>12, UpdateClockInv DEF StartBus, spi_config, ClockInv
<1>13. CASE ClockStep
  <2>1. /\ pc = "clock" /\ UpdateStep /\ UNCHANGED spi_config
        /\ IF k' = 0 THEN pc' = ret ELSE pc' = "clock"
    BY <1>13 DEF ClockStep
  <2>2. RegisterInv' /\ (k' = 0 => Settled')
    BY <2>1, StepRegisters DEF ClockInv
  <2>3. k' \in 0..9 /\ ret # "clock"
    BY <2>1, <2>2 DEF PortInv, RegisterInv
  <2>4. QED
    BY <2>1, <2>2, <2>3 DEF ClockInv, spi_config
<1>14. CASE TaskPowerOn
  BY <1>14, ElsewhereInv DEF TaskPowerOn, At, Goto
<1>15. CASE TaskOn
  BY <1>15, ElsewhereInv DEF TaskOn, At, Goto
<1>16. CASE TaskInit
  BY <1>16, UpdateClockInv DEF TaskInit, At, spi_config, ClockInv
<1>17. CASE TaskDeinit
  BY <1>17, ElsewhereInv DEF TaskDeinit, At, Goto
<1>18. CASE TaskPowerOff
  BY <1>18, ElsewhereInv DEF TaskPowerOff, At, Goto
<1>19. CASE TaskOff
  BY <1>19, UpdateClockInv DEF TaskOff, At, spi_config, ClockInv
<1>20. CASE TaskIdle
  BY <1>20, ElsewhereInv DEF TaskIdle, At, Goto
<1>21. CASE Loop
  BY <1>21, ElsewhereInv DEF Loop, At, Goto
<1>22. CASE TudTask
  <2>1. UNCHANGED spi_config /\ pc = "tud"
    BY <1>22 DEF TudTask, At
  <2>2. CASE UpdateClock("spi")
    BY <2>1, <2>2, UpdateClockInv DEF ClockInv, spi_config
  <2>3. CASE UNCHANGED clock /\ pc' = "spi"
    BY <2>1, <2>3, ElsewhereInv
  <2>4. QED
    BY <1>22, <2>2, <2>3 DEF TudTask, Goto
<1>23. CASE NoCommand
  BY <1>23, ElsewhereInv DEF NoCommand, At, Goto
<1>24. CASE BusCommand
  BY <1>24, UpdateClockInv DEF BusCommand, Command, At, ClockInv
<1>25. CASE MemoryCommand
  BY <1>25, ElsewhereInv DEF MemoryCommand, Command, At, Goto
<1>26. CASE ResetRtc
  BY <1>26, ElsewhereInv DEF ResetRtc, Command, At, Goto
<1>27. CASE RestoreId
  BY <1>27, ElsewhereInv DEF RestoreId, Cut, Goto
<1>28. CASE ChooseSource
  BY <1>28, ElsewhereInv DEF ChooseSource, At, Goto
<1>29. CASE Sleep
  BY <1>29, ElsewhereInv DEF Sleep, At, Goto
<1>30. CASE UNCHANGED vars
  BY <1>30, ElsewhereInv DEF vars, main
<1>31. QED
  BY <1>1, <1>2, <1>3, <1>4, <1>5, <1>6, <1>7, <1>8, <1>9, <1>10, <1>11, <1>12, <1>13,
     <1>14, <1>15, <1>16, <1>17, <1>18, <1>19, <1>20, <1>21, <1>22, <1>23, <1>24, <1>25,
     <1>26, <1>27, <1>28, <1>29, <1>30 DEF Next, MainStep

\* However many commands, cables and resets ask for another clock, and at
\* whatever write a shutdown cuts a change short, the oscillator is never faster
\* than regulator and flash allow, and between two changes the busy pulse and
\* the I2C bus are timed for it (mcu.c:161-340).
THEOREM ClockAlwaysFits == Spec => []ClockFits
<1>1. ClockInv => ClockFits
  BY DEF ClockInv, RegisterInv, Settled, ClockFits, PulseLongEnough, Delay
<1>2. QED
  BY PortInit, PortStep, ClockStart, ClockStepInv, <1>1, PTL DEF Spec

-----------------------------------------------------------------------------
(* The memory.                                                             *)

Sections == [magic : {TRUE}, save_id : Ids \cup {NONE}, eeprom_type : Types \cup {NONE},
             data : {"junk", "data"}]

\* The shutdown has chosen its power mode.
Ended == pc = "halted" \/ (pc = "clock" /\ ret = "halted")
Starting == pc \in {"boot", "pin", "status", "change", "nvram"}

\* What is found in the memory is what was stored, except from a start whose
\* memory had lost its power to nvram_init; what was stored is only lost if it
\* need not be kept; and the identity beside the clock is either there or in
\* the hands of the reset of its domain.
MemoryInv ==
  /\ told \in Sections
  /\ nvram = told \/ (nvram = Lost /\ told = Fresh)
  /\ nvram = told \/ ((Starting \/ Ended) /\ ~stack)
  /\ Ended /\ RetentionRequired(nvram) => retained
  /\ IF Cut THEN saved_id = toldId ELSE bkp8 = toldId

LEMMA MemoryStart == Init => MemoryInv
  BY DEF Init, MemoryInit, MemoryInv, Sections, Lost, Fresh, NONE, Starting, Cut, Ended

\* A step that is not about the memory leaves it, wherever the main loop goes
\* from a step after the start to another.
LEMMA MemoryElsewhere ==
  ASSUME MemoryInv, UNCHANGED memory, Cut' = Cut,
         nvram = told \/ (Starting' /\ ~stack'),
         ~Ended'
  PROVE  MemoryInv'
  BY DEF MemoryInv, memory, RetentionRequired

\* The same of the handlers, which leave the main loop where it is.
LEMMA MemoryHandlers ==
  ASSUME MemoryInv, UNCHANGED <<memory, pc, ret, stack>>
  PROVE  MemoryInv'
  BY DEF MemoryInv, memory, RetentionRequired, Starting, Ended, Cut

\* A restart finds the memory as it was, or has lost what need not be kept.
LEMMA MemoryRestart ==
  ASSUME MemoryInv, Restart, RestartMemory(pc = "halted", Cut)
  PROVE  MemoryInv'
<1> USE DEF Restart, PortOff, RestartMemory, Survives, Forget, MemoryInv
<1>1. Starting' /\ ~stack' /\ ~Ended' /\ ~Cut'
  BY DEF Starting, Ended, Cut
<1>2. IF Cut' THEN saved_id' = toldId' ELSE bkp8' = toldId'
  BY <1>1
<1>3. CASE pc = "halted" /\ ~retained
  <2>1. ~RetentionRequired(told)
    BY <1>3 DEF Ended, RetentionRequired, Fresh
  <2>2. nvram' = Lost /\ told' = Fresh
    BY <1>3, <2>1
  <2>3. Fresh \in Sections
    BY DEF Fresh, Sections, NONE
  <2>4. QED
    BY <1>1, <1>2, <2>2, <2>3
<1>4. CASE ~(pc = "halted" /\ ~retained)
  <2>1. nvram' = nvram /\ told' = told
    BY <1>4
  <2>2. QED
    BY <1>1, <1>2, <2>1
<1>5. QED
  BY <1>3, <1>4

\* A shutdown keeps what must be kept, and gives up an identity on its way.
LEMMA MemoryShutdown ==
  ASSUME PortInv, MemoryInv, Shutdown
  PROVE  MemoryInv'
<1> USE DEF MemoryInv
<1>1. Ended' /\ ~Cut' /\ ~stack'
  <2>1. CASE UpdateClock("halted") /\ PortOff
    BY <2>1, UpdateClockReturns DEF Ended, Cut, PortOff
  <2>2. CASE status = "OFF" /\ pc' = "halted" /\ UNCHANGED stack
    BY <2>2 DEF Ended, Cut, PortInv
  <2>3. QED
    BY <2>1, <2>2 DEF Shutdown
<1>2. /\ nvram' = nvram /\ told' = told /\ bkp8' = bkp8
      /\ retained' = (RetentionRequired(nvram) \/ clock_source = "LSI")
      /\ toldId' = IF Cut THEN bkp8 ELSE toldId
  BY DEF Shutdown, ShutdownMemory, Forget
<1>3. RetentionRequired(nvram') => retained'
  BY <1>2
<1>4. QED
  BY <1>1, <1>2, <1>3

\* A command that stores something, stores it in the place and in the history.
LEMMA MemoryCommandInv ==
  ASSUME MemoryInv, MemoryCommand
  PROVE  MemoryInv'
<1> USE DEF MemoryInv
<1>1. /\ pc = "spi" /\ pc' = "sleep" /\ UNCHANGED stack
      /\ ~Starting /\ ~Ended /\ ~Cut /\ ~Starting' /\ ~Ended' /\ ~Cut'
  BY DEF MemoryCommand, Command, At, Goto, Starting, Ended, Cut, usb
<1>2. nvram = told
  BY <1>1
<1>3. CASE \E type \in Types \cup {NONE} : SetEepromMode(type)
  BY <1>1, <1>2, <1>3 DEF SetEepromMode, Sections
<1>4. CASE WriteEeprom
  BY <1>1, <1>2, <1>4 DEF WriteEeprom, Sections
<1>5. CASE \E id \in Ids, sram, rtc \in BOOLEAN : SetSaveId(id, sram, rtc)
  BY <1>1, <1>2, <1>5 DEF SetSaveId, Sections
<1>6. QED
  BY <1>3, <1>4, <1>5 DEF MemoryCommand

LEMMA MemoryStep == PortInv /\ MemoryInv /\ [Next]_vars => MemoryInv'
<1> SUFFICES ASSUME PortInv, MemoryInv, [Next]_vars PROVE MemoryInv'
  OBVIOUS
<1>1. CASE Cable
  BY <1>1, MemoryHandlers DEF Cable, usb, main
<1>2. CASE ExtiIrq
  BY <1>2, MemoryHandlers DEF ExtiIrq, main
<1>3. CASE UsbIrq
  BY <1>3, MemoryHandlers DEF UsbIrq, main
<1>4. CASE Shutdown
  BY <1>4, MemoryShutdown
<1>5. CASE Reset
  BY <1>5, MemoryRestart DEF Reset
<1>6. CASE PowerLoss
  BY <1>6 DEF PowerLoss, Restart, LoseMemory, PortOff, MemoryInv, Sections, Lost, Fresh, NONE,
     Starting, Ended, Cut
<1>7. CASE SetEnabled
  BY <1>7, MemoryElsewhere DEF SetEnabled, MemoryInv, Starting, Ended, Cut, At, Goto, usb
<1>8. CASE ReadPin
  BY <1>8, MemoryElsewhere DEF ReadPin, MemoryInv, Starting, Ended, Cut, At, Goto, usb
<1>9. CASE ReadStatus
  BY <1>9, MemoryElsewhere DEF ReadStatus, MemoryInv, Starting, Ended, Cut, At, Goto, usb
<1>10. CASE Change
  BY <1>10, MemoryElsewhere DEF Change, MemoryInv, Starting, Ended, Cut, At, Goto
<1>11. CASE StartMemory
  <2>1. nvram' = told' /\ told' = told
    <3>1. told.magic = TRUE /\ Lost.magic = FALSE
      BY DEF MemoryInv, Sections, Lost
    <3>2. nvram' = (IF nvram.magic THEN nvram ELSE Fresh) /\ told' = told
      BY <1>11 DEF StartMemory, NvramInit
    <3>3. QED
      BY <3>1, <3>2 DEF MemoryInv
  <2>2. pc' = "freq" /\ ~Starting' /\ ~Ended' /\ ~Cut' /\ ~Cut
    BY <1>11 DEF StartMemory, At, Goto, Starting, Ended, Cut
  <2>3. QED
    BY <1>11, <2>1, <2>2 DEF StartMemory, NvramInit, MemoryInv
<1>12. CASE StartBus
  BY <1>12, MemoryElsewhere, UpdateClockReturns DEF StartBus, MemoryInv, Starting, Ended, Cut, usb
<1>13. CASE ClockStep
  <2>1. /\ pc = "clock" /\ UNCHANGED memory /\ UNCHANGED stack
        /\ (pc' = ret \/ (pc' = "clock" /\ ret' = ret))
    <3>1. CASE k' = 0
      BY <1>13, <3>1 DEF ClockStep, usb
    <3>2. CASE k' # 0
      BY <1>13, <3>2 DEF ClockStep, usb
    <3>3. QED
      BY <3>1, <3>2
  <2>2. CASE ret = "halted"
    BY <2>1, <2>2 DEF MemoryInv, memory, Ended, Cut, Starting, RetentionRequired
  <2>3. CASE ret # "halted"
    <3>1. ret \in {"mode", "task", "pin", "loop", "spi", "sleep"}
      BY <2>1, <2>3 DEF PortInv
    <3>2. QED
      BY <2>1, <2>3, <3>1, MemoryElsewhere DEF MemoryInv, Ended, Cut, Starting
  <2>4. QED
    BY <2>2, <2>3
<1>14. CASE TaskPowerOn
  BY <1>14, MemoryElsewhere DEF TaskPowerOn, MemoryInv, Starting, Ended, Cut, At, Goto
<1>15. CASE TaskOn
  BY <1>15, MemoryElsewhere DEF TaskOn, MemoryInv, Starting, Ended, Cut, At, Goto
<1>16. CASE TaskInit
  BY <1>16, MemoryElsewhere, UpdateClockReturns DEF TaskInit, MemoryInv, Starting, Ended, Cut, At
<1>17. CASE TaskDeinit
  BY <1>17, MemoryElsewhere DEF TaskDeinit, MemoryInv, Starting, Ended, Cut, At, Goto
<1>18. CASE TaskPowerOff
  BY <1>18, MemoryElsewhere DEF TaskPowerOff, MemoryInv, Starting, Ended, Cut, At, Goto
<1>19. CASE TaskOff
  BY <1>19, MemoryElsewhere, UpdateClockReturns DEF TaskOff, MemoryInv, Starting, Ended, Cut, At
<1>20. CASE TaskIdle
  BY <1>20, MemoryElsewhere DEF TaskIdle, MemoryInv, Starting, Ended, Cut, At, Goto, usb
<1>21. CASE Loop
  BY <1>21, MemoryElsewhere DEF Loop, MemoryInv, Starting, Ended, Cut, At, Goto, usb
<1>22. CASE TudTask
  BY <1>22, MemoryElsewhere, UpdateClockReturns DEF TudTask, MemoryInv, Starting, Ended, Cut, At, Goto
<1>23. CASE NoCommand
  BY <1>23, MemoryElsewhere DEF NoCommand, MemoryInv, Starting, Ended, Cut, At, Goto, usb
<1>24. CASE BusCommand
  BY <1>24, MemoryElsewhere, UpdateClockReturns DEF BusCommand, MemoryInv, Starting, Ended, Cut, Command, At, usb
<1>25. CASE MemoryCommand
  BY <1>25, MemoryCommandInv
<1>26. CASE ResetRtc
  BY <1>26 DEF ResetRtc, Command, At, Goto, ResetBackupDomain, MemoryInv, Starting, Ended, Cut, usb
<1>27. CASE RestoreId
  BY <1>27 DEF RestoreId, Goto, RestoreSaveId, MemoryInv, Starting, Ended, Cut, usb
<1>28. CASE ChooseSource
  BY <1>28 DEF ChooseSource, At, Goto, ResetBackupDomain, SetClockSource, MemoryInv, Starting,
     Ended, Cut, usb
<1>29. CASE Sleep
  BY <1>29, MemoryElsewhere DEF Sleep, MemoryInv, Starting, Ended, Cut, At, Goto, usb
<1>30. CASE UNCHANGED vars
  BY <1>30, MemoryHandlers DEF vars, usb, main
<1>31. QED
  BY <1>1, <1>2, <1>3, <1>4, <1>5, <1>6, <1>7, <1>8, <1>9, <1>10, <1>11, <1>12, <1>13,
     <1>14, <1>15, <1>16, <1>17, <1>18, <1>19, <1>20, <1>21, <1>22, <1>23, <1>24, <1>25,
     <1>26, <1>27, <1>28, <1>29, <1>30 DEF Next, MainStep

\* What the console stored is there after every shutdown, reset and start, at
\* whatever step they come and however many there are, also between the reset
\* of the clock's domain and the return of its identity (nvram.c:30-42;
\* mcu.c:635-643, 657-664).
THEOREM SaveAlwaysKept == Spec => []SaveKept
<1>1. MemoryInv => SaveKept
  BY DEF MemoryInv, SaveKept, SramKept, Starting, Ended
<1>2. QED
  BY PortInit, PortStep, MemoryStart, MemoryStep, <1>1, PTL DEF Spec

-----------------------------------------------------------------------------
(* The types.                                                              *)

FlagInv ==
  /\ plugged \in BOOLEAN /\ edge \in BOOLEAN /\ enabled \in BOOLEAN
  /\ power \in BOOLEAN /\ stack \in BOOLEAN /\ pullup \in BOOLEAN
  /\ active \in BOOLEAN /\ mounted \in BOOLEAN /\ seen \in BOOLEAN /\ event \in BOOLEAN

PlaceInv ==
  /\ seenStatus \in {"OFF", "REQUEST_ON", "ON", "REQUEST_OFF"}
  /\ pc \in {"boot", "pin", "status", "change", "nvram", "freq", "mode", "clock", "task", "on",
             "init", "powerOff", "off", "loop", "tud", "spi", "restore", "restoreAgain",
             "crystal", "internal", "sleep", "halted"}

\* Of the clock's registers and the memory's, what their invariants leave open.
RestInv ==
  /\ apb \in {1, 2} /\ timing \in {1, 4, 12, 16, 24, 48} /\ last_clock_speed \in {1, 8, 16, 24, 48}
  /\ {bkp8, toldId, saved_id} \subseteq Ids \cup {NONE, Cleared}
  /\ clock_source \in {NONE, "LSE", "LSI"} /\ retained \in BOOLEAN

LEMMA FlagStep == FlagInv /\ [Next]_vars => FlagInv'
<1> SUFFICES ASSUME FlagInv, [Next]_vars PROVE FlagInv'
  OBVIOUS
<1> USE DEF FlagInv
<1>1. CASE Cable
  BY <1>1 DEF Cable, usb, main
<1>2. CASE ExtiIrq
  BY <1>2 DEF ExtiIrq, PowerChange, main
<1>3. CASE UsbIrq
  <2>1. active' \in BOOLEAN
    BY <1>3, Zenon DEF UsbIrq
  <2>2. event' = TRUE /\ UNCHANGED <<plugged, edge, enabled, power, stack, pullup, mounted, seen>>
    BY <1>3 DEF UsbIrq, main, env
  <2> QED
    BY <2>1, <2>2
<1>4. CASE Shutdown
  <2>1. mounted' \in BOOLEAN
    BY <1>4, Zenon DEF Shutdown
  <2>2. UNCHANGED <<plugged, edge, enabled, seen, event>>
    BY <1>4 DEF Shutdown, env
  <2>3. PortOff \/ UNCHANGED <<power, stack, pullup, active>>
    BY <1>4, Zenon DEF Shutdown
  <2> QED
    BY <2>1, <2>2, <2>3 DEF PortOff
<1>5. CASE Reset
  BY <1>5 DEF Reset, Restart, PortOff
<1>6. CASE PowerLoss
  BY <1>6 DEF PowerLoss, Restart, PortOff
<1>7. CASE SetEnabled
  BY <1>7 DEF SetEnabled, At, Goto, usb
<1>8. CASE ReadPin
  BY <1>8 DEF ReadPin, At, Goto, env, usb
<1>9. CASE ReadStatus
  BY <1>9 DEF ReadStatus, At, Goto, env, usb
<1>10. CASE Change
  BY <1>10 DEF Change, At, Goto, env
<1>11. CASE StartMemory
  BY <1>11 DEF StartMemory, At, Goto, env, usb
<1>12. CASE StartBus
  BY <1>12 DEF StartBus, env, usb
<1>13. CASE ClockStep
  BY <1>13 DEF ClockStep, env, usb
<1>14. CASE TaskPowerOn
  BY <1>14 DEF TaskPowerOn, At, Goto, env
<1>15. CASE TaskOn
  BY <1>15 DEF TaskOn, At, Goto, env
<1>16. CASE TaskInit
  BY <1>16 DEF TaskInit, At, env
<1>17. CASE TaskDeinit
  BY <1>17 DEF TaskDeinit, At, Goto, env
<1>18. CASE TaskPowerOff
  BY <1>18 DEF TaskPowerOff, At, Goto, env
<1>19. CASE TaskOff
  BY <1>19 DEF TaskOff, At, env
<1>20. CASE TaskIdle
  BY <1>20 DEF TaskIdle, At, Goto, env, usb
<1>21. CASE Loop
  BY <1>21 DEF Loop, At, Goto, env, usb
<1>22. CASE TudTask
  BY <1>22 DEF TudTask, At, Goto, env
<1>23. CASE NoCommand
  BY <1>23 DEF NoCommand, At, Goto, env, usb
<1>24. CASE BusCommand
  BY <1>24 DEF BusCommand, Command, At, usb
<1>25. CASE MemoryCommand
  BY <1>25 DEF MemoryCommand, Command, At, Goto, usb
<1>26. CASE ResetRtc
  BY <1>26 DEF ResetRtc, Command, At, Goto, usb
<1>27. CASE RestoreId
  BY <1>27 DEF RestoreId, Cut, Goto, env, usb
<1>28. CASE ChooseSource
  BY <1>28 DEF ChooseSource, At, Goto, env, usb
<1>29. CASE Sleep
  BY <1>29 DEF Sleep, At, Goto, env, usb
<1>30. CASE UNCHANGED vars
  BY <1>30 DEF vars, env, usb, main
<1> QED
  BY <1>1, <1>2, <1>3, <1>4, <1>5, <1>6, <1>7, <1>8, <1>9, <1>10, <1>11, <1>12, <1>13,
     <1>14, <1>15, <1>16, <1>17, <1>18, <1>19, <1>20, <1>21, <1>22, <1>23, <1>24, <1>25, <1>26,
     <1>27, <1>28, <1>29, <1>30 DEF Next, MainStep

LEMMA PlaceStep == PortInv /\ PlaceInv /\ [Next]_vars => PlaceInv'
<1> SUFFICES ASSUME PortInv, PlaceInv, [Next]_vars PROVE PlaceInv'
  OBVIOUS
<1> USE DEF PlaceInv
<1>1. CASE Cable
  BY <1>1 DEF Cable, usb, main
<1>2. CASE ExtiIrq
  BY <1>2 DEF ExtiIrq, PowerChange, main
<1>3. CASE UsbIrq
  BY <1>3 DEF UsbIrq, main
<1>4. CASE Shutdown
  BY <1>4, UpdateClockReturns DEF Shutdown, PortOff
<1>5. CASE Reset
  BY <1>5 DEF Reset, Restart, PortOff
<1>6. CASE PowerLoss
  BY <1>6 DEF PowerLoss, Restart, PortOff
<1>7. CASE SetEnabled
  BY <1>7 DEF SetEnabled, At, Goto, usb
<1>8. CASE ReadPin
  BY <1>8 DEF ReadPin, At, Goto, env, usb
<1>9. CASE ReadStatus
  BY <1>9 DEF PortInv, ReadStatus, At, Goto, env, usb
<1>10. CASE Change
  BY <1>10 DEF Change, At, Goto, env
<1>11. CASE StartMemory
  BY <1>11 DEF StartMemory, At, Goto, env, usb
<1>12. CASE StartBus
  BY <1>12, UpdateClockReturns DEF StartBus, env, usb
<1>13. CASE ClockStep
  BY <1>13 DEF ClockStep, PortInv
<1>14. CASE TaskPowerOn
  BY <1>14 DEF TaskPowerOn, At, Goto, env
<1>15. CASE TaskOn
  BY <1>15 DEF TaskOn, At, Goto, env
<1>16. CASE TaskInit
  BY <1>16, UpdateClockReturns DEF TaskInit, At, env
<1>17. CASE TaskDeinit
  BY <1>17 DEF TaskDeinit, At, Goto, env
<1>18. CASE TaskPowerOff
  BY <1>18 DEF TaskPowerOff, At, Goto, env
<1>19. CASE TaskOff
  BY <1>19, UpdateClockReturns DEF TaskOff, At, env
<1>20. CASE TaskIdle
  BY <1>20 DEF TaskIdle, At, Goto, env, usb
<1>21. CASE Loop
  BY <1>21 DEF Loop, At, Goto, env, usb
<1>22. CASE TudTask
  BY <1>22, UpdateClockReturns DEF TudTask, At, Goto, env
<1>23. CASE NoCommand
  BY <1>23 DEF NoCommand, At, Goto, env, usb
<1>24. CASE BusCommand
  BY <1>24, UpdateClockReturns DEF BusCommand, Command, At, usb
<1>25. CASE MemoryCommand
  BY <1>25 DEF MemoryCommand, Command, At, Goto, usb
<1>26. CASE ResetRtc
  BY <1>26 DEF ResetRtc, Command, At, Goto, usb
<1>27. CASE RestoreId
  BY <1>27 DEF RestoreId, Cut, Goto, env, usb
<1>28. CASE ChooseSource
  BY <1>28 DEF ChooseSource, At, Goto, env, usb
<1>29. CASE Sleep
  BY <1>29 DEF Sleep, At, Goto, env, usb
<1>30. CASE UNCHANGED vars
  BY <1>30 DEF vars, env, usb, main
<1> QED
  BY <1>1, <1>2, <1>3, <1>4, <1>5, <1>6, <1>7, <1>8, <1>9, <1>10, <1>11, <1>12, <1>13,
     <1>14, <1>15, <1>16, <1>17, <1>18, <1>19, <1>20, <1>21, <1>22, <1>23, <1>24, <1>25, <1>26,
     <1>27, <1>28, <1>29, <1>30 DEF Next, MainStep

LEMMA RestElsewhere ==
  ASSUME RestInv, UNCHANGED <<memory, clock>>
  PROVE  RestInv'
BY DEF RestInv, memory, clock

\* The divisor and the I2C bus's timing are those of a target.
LEMMA UpdateClockTypes ==
  ASSUME RegisterInv, RestInv, NEW caller, UpdateClock(caller),
         spi_freq' \in Freqs, spi_mode' \in SpiModes
  PROVE  apb' \in {1, 2} /\ timing' \in {1, 4, 12, 16, 24, 48}
         /\ last_clock_speed' \in {1, 8, 16, 24, 48}
<1> DEFINE wanted == Wanted(plugged /\ enabled', mounted', spi_freq', spi_mode')
<1>1. wanted \in Targets
  BY WantedIsTarget
<1>2. Update(wanted)
  BY DEF UpdateClock
<1> HIDE DEF wanted
<1> QED
  BY <1>1, <1>2 DEF Update, Targets, RestInv

LEMMA UpdateStepTypes ==
  ASSUME RegisterInv, RestInv, UpdateStep
  PROVE  apb' \in {1, 2} /\ timing' \in {1, 4, 12, 16, 24, 48}
         /\ last_clock_speed' \in {1, 8, 16, 24, 48}
<1>1. target[2] \in {1, 2}
  BY DEF RegisterInv, Targets
<1> QED
  BY <1>1 DEF UpdateStep, RestInv, RegisterInv

LEMMA ShutdownTypes ==
  ASSUME RestInv, Shutdown
  PROVE  /\ {bkp8', toldId', saved_id'} \subseteq Ids \cup {NONE, Cleared}
         /\ clock_source' \in {NONE, "LSE", "LSI"} /\ retained' \in BOOLEAN
<1>1. retained' \in BOOLEAN
  BY Zenon DEF Shutdown, ShutdownMemory
<1> QED
  BY <1>1 DEF RestInv, Shutdown, ShutdownMemory, Forget

LEMMA RestStep == ClockInv /\ MemoryInv /\ RestInv /\ [Next]_vars => RestInv'
<1> SUFFICES ASSUME ClockInv, MemoryInv, RestInv, [Next]_vars PROVE RestInv'
  OBVIOUS
<1>1. CASE Cable
  BY <1>1, RestElsewhere DEF Cable
<1>2. CASE ExtiIrq
  BY <1>2, RestElsewhere DEF ExtiIrq
<1>3. CASE UsbIrq
  BY <1>3, RestElsewhere DEF UsbIrq
<1>4. CASE Shutdown
  <2>1. CASE UpdateClock("halted")
    BY <1>4, <2>1, UpdateClockTypes, ShutdownTypes DEF Shutdown, RestInv, spi_config, ClockInv
  <2>2. CASE UNCHANGED clock
    BY <1>4, <2>2, ShutdownTypes DEF Shutdown, RestInv, clock
  <2> QED
    BY <1>4, <2>1, <2>2 DEF Shutdown
<1>5. CASE Reset
  BY <1>5 DEF Reset, Restart, ClockReset, RestartMemory, Forget, RestInv
<1>6. CASE PowerLoss
  BY <1>6 DEF PowerLoss, Restart, ClockReset, LoseMemory, RestInv
<1>7. CASE SetEnabled
  BY <1>7, RestElsewhere DEF SetEnabled
<1>8. CASE ReadPin
  BY <1>8, RestElsewhere DEF ReadPin
<1>9. CASE ReadStatus
  BY <1>9, RestElsewhere DEF ReadStatus
<1>10. CASE Change
  BY <1>10, RestElsewhere DEF Change
<1>11. CASE StartMemory
  BY <1>11 DEF StartMemory, NvramInit, RestInv, clock
<1>12. CASE StartBus
  BY <1>12, UpdateClockTypes DEF StartBus, RestInv, memory, ClockInv, spi_config
<1>13. CASE ClockStep
  BY <1>13, UpdateStepTypes DEF ClockStep, RestInv, memory, ClockInv
<1>14. CASE TaskPowerOn
  BY <1>14, RestElsewhere DEF TaskPowerOn
<1>15. CASE TaskOn
  BY <1>15, RestElsewhere DEF TaskOn
<1>16. CASE TaskInit
  BY <1>16, UpdateClockTypes DEF TaskInit, RestInv, memory, ClockInv, spi_config
<1>17. CASE TaskDeinit
  BY <1>17, RestElsewhere DEF TaskDeinit
<1>18. CASE TaskPowerOff
  BY <1>18, RestElsewhere DEF TaskPowerOff
<1>19. CASE TaskOff
  BY <1>19, UpdateClockTypes DEF TaskOff, RestInv, memory, ClockInv, spi_config
<1>20. CASE TaskIdle
  BY <1>20, RestElsewhere DEF TaskIdle
<1>21. CASE Loop
  BY <1>21, RestElsewhere DEF Loop
<1>22. CASE TudTask
  <2>1. CASE UpdateClock("spi")
    BY <1>22, <2>1, UpdateClockTypes DEF TudTask, RestInv, memory, ClockInv, spi_config
  <2>2. CASE UNCHANGED clock
    BY <1>22, <2>2 DEF TudTask, RestInv, memory, clock
  <2> QED
    BY <1>22, <2>1, <2>2 DEF TudTask
<1>23. CASE NoCommand
  BY <1>23, RestElsewhere DEF NoCommand
<1>24. CASE BusCommand
  BY <1>24, UpdateClockTypes DEF BusCommand, RestInv, memory, ClockInv
<1>25. CASE MemoryCommand
  <2>1. CASE \E type \in Types \cup {NONE} : SetEepromMode(type)
    BY <1>25, <2>1 DEF MemoryCommand, SetEepromMode, RestInv, clock
  <2>2. CASE WriteEeprom
    BY <1>25, <2>2 DEF MemoryCommand, WriteEeprom, RestInv, clock
  <2>3. CASE \E id \in Ids, sram, rtc \in BOOLEAN : SetSaveId(id, sram, rtc)
    BY <1>25, <2>3 DEF MemoryCommand, SetSaveId, RestInv, clock
  <2> QED
    BY <1>25, <2>1, <2>2, <2>3 DEF MemoryCommand
<1>26. CASE ResetRtc
  BY <1>26 DEF ResetRtc, ResetBackupDomain, RestInv, clock
<1>27. CASE RestoreId
  BY <1>27 DEF RestoreId, RestoreSaveId, RestInv, clock
<1>28. CASE ChooseSource
  BY <1>28 DEF ChooseSource, ResetBackupDomain, SetClockSource, RestInv, clock
<1>29. CASE Sleep
  BY <1>29, RestElsewhere DEF Sleep
<1>30. CASE UNCHANGED vars
  BY <1>30, RestElsewhere DEF vars
<1> QED
  BY <1>1, <1>2, <1>3, <1>4, <1>5, <1>6, <1>7, <1>8, <1>9, <1>10, <1>11, <1>12, <1>13,
     <1>14, <1>15, <1>16, <1>17, <1>18, <1>19, <1>20, <1>21, <1>22, <1>23, <1>24, <1>25, <1>26,
     <1>27, <1>28, <1>29, <1>30 DEF Next, MainStep

\* Every variable has its type, no handler changes the status under the task
\* that is carrying out its request, and a change of clock is in progress just
\* where the main loop says so, for any number of commands and resets and any
\* identities and types (mcu.c:46-58, 269-340, 606-628).
THEOREM McuTypes == Spec => []TypeOK
<1>1. Init => FlagInv /\ PlaceInv /\ RestInv
  BY DEF Init, ClockInit, MemoryInit, FlagInv, PlaceInv, RestInv
<1>2. PortInv /\ ClockInv /\ MemoryInv /\ FlagInv /\ PlaceInv /\ RestInv => TypeOK
  <2> SUFFICES ASSUME PortInv, ClockInv, MemoryInv, FlagInv, PlaceInv, RestInv PROVE TypeOK
    OBVIOUS
  <2>1. ClockTypeOK
    BY DEF ClockTypeOK, ClockInv, RegisterInv, RestInv
  <2>2. MemoryTypeOK
    BY DEF MemoryTypeOK, MemoryInv, Sections, RestInv
  <2>3. {plugged, edge, enabled, power, stack, pullup, active, mounted, seen, event} \subseteq BOOLEAN
    BY Zenon DEF FlagInv
  <2> QED
    BY <2>1, <2>2, <2>3 DEF TypeOK, PortInv, ClockInv, PlaceInv, RegisterInv
<1> QED
  BY PortInit, PortStep, ClockStart, ClockStepInv, MemoryStart, MemoryStep, FlagStep, PlaceStep,
     RestStep, <1>1, <1>2, PTL DEF Spec
=============================================================================
