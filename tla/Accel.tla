------------------------------- MODULE Accel --------------------------------
(***************************************************************************)
(* The accelerometer poller of the MCU firmware (accel.c).  A timer starts *)
(* a two-part I2C transfer, the I2C interrupt drives it, DMA receives the  *)
(* sample into the hidden one of two buffers, and the DMA interrupt        *)
(* converts it and makes that buffer the visible one.  Meanwhile the main  *)
(* loop starts and stops the polling, changes the clock under it, reads    *)
(* the visible sample, or leaves native mode; and a shutdown may come from *)
(* an interrupt of any priority.                                           *)
(*                                                                         *)
(* Handlers run to completion here: the three of this module touch nothing *)
(* the others use between the steps of one.                                *)
(***************************************************************************)
EXTENDS Integers, Sequences

CONSTANT Parts        \* units of a sample that DMA moves

ASSUME PartsAssumption == Parts \in Nat \ {0}

\* Interrupt priorities (config.h): a handler runs when its priority number
\* is below that of what is running.
PVD == 0
I2C == 2
Default == 3          \* DMA, timer and EXTI
Thread == 4

Samples == 0..2       \* successive samples, told apart modulo 3

VARIABLES
  (* hardware *)
  bus,          \* the I2C master: where the transfer is
  err,          \* an error flag (NACK) is set
  sample,       \* the sample the chip sends
  dmaOn, target, left, tc4,    \* DMA channel 4
  timerOn, timerFlag,          \* TIM6
  (* interrupt enables *)
  i2cIrqOn,     \* TXIE, ERRIE, NACKIE
  dmaIrqOn,     \* DMA channel 4 in the NVIC
  (* firmware *)
  state,        \* the poller's state
  polling, chip_detected,
  i2cOn,        \* LL_I2C_IsEnabled
  visible,      \* visible_accel_state
  accel_data,   \* two buffers of parts: [id, converted]
  level,        \* priority of what is running: Thread, or that of a shutdown
  pc,           \* main loop
  goal,         \* what it is doing
  copied,       \* the parts accel_copy_state has copied
  source        \* ... and the buffer it copies from

hardware == <<bus, err, sample, dmaOn, target, left, tc4, timerFlag>>
firmware == <<state, visible, accel_data>>
enables == <<i2cIrqOn, i2cOn, polling, chip_detected>>
main == <<level, pc, goal>>
copy == <<dmaIrqOn, copied, source>>
vars == <<hardware, firmware, timerOn, enables, main, copy>>

\* After accel_init, which parks the chip if it answers.
Init ==
  /\ bus = "idle" /\ err = FALSE /\ sample = 0
  /\ dmaOn = FALSE /\ target = 1 /\ left = 0 /\ tc4 = FALSE
  /\ timerOn = FALSE /\ timerFlag = FALSE
  /\ chip_detected \in BOOLEAN /\ i2cIrqOn = chip_detected /\ dmaIrqOn = TRUE
  /\ state = "Idle" /\ polling = FALSE /\ i2cOn = TRUE /\ visible = 0
  /\ accel_data = [b \in 0..1 |-> [i \in 1..Parts |-> [id |-> 0, converted |-> TRUE]]]
  /\ level = Thread /\ pc = "loop" /\ goal = "none"
  /\ copied = <<>> /\ source = 0

Busy == bus # "idle"

-----------------------------------------------------------------------------
(* Hardware.                                                               *)

\* The timer.  Its period (1/510 s and more) is longer than a STOP.
TimerFires ==
  /\ timerOn /\ bus # "stop"
  /\ timerFlag' = TRUE
  /\ UNCHANGED <<bus, err, sample, dmaOn, target, left, tc4, firmware, timerOn, enables, main,
                 copy>>

\* The chip acknowledges its address, or does not and the master sends STOP.
Address ==
  /\ bus \in {"start", "restart"}
  /\ \/ /\ bus' = IF bus = "start" THEN "txis" ELSE "read"
        /\ sample' = IF bus = "start" THEN sample ELSE (sample + 1) % 3
        /\ UNCHANGED err
     \/ /\ bus' = "stop" /\ err' = TRUE
        /\ UNCHANGED sample
  /\ UNCHANGED <<dmaOn, target, left, tc4, timerFlag, firmware, timerOn, enables, main, copy>>

\* The register number is out: transfer complete, the bus is held.
RegisterSent ==
  /\ bus = "tx"
  /\ bus' = "tc"
  /\ UNCHANGED <<err, sample, dmaOn, target, left, tc4, timerFlag, firmware, timerOn, enables,
                 main, copy>>

\* DMA stores a part of the sample; with the last one the master sends STOP.
Receive ==
  /\ bus = "read" /\ dmaOn /\ left > 0
  /\ accel_data' = [accel_data EXCEPT ![target][Parts - left + 1] =
                      [id |-> sample, converted |-> FALSE]]
  /\ left' = left - 1
  /\ tc4' = (left = 1)
  /\ bus' = IF left = 1 THEN "stop" ELSE "read"
  /\ UNCHANGED <<err, sample, dmaOn, target, timerFlag, state, visible, timerOn, enables, main,
                 copy>>

Stop ==
  /\ bus = "stop"
  /\ bus' = "idle"
  /\ UNCHANGED <<err, sample, dmaOn, target, left, tc4, timerFlag, firmware, timerOn, enables,
                 main, copy>>

\* The transfer of a control register write ends, with or without an error;
\* its STOP is over before the console can send another command.
ControlSent ==
  /\ bus = "control"
  /\ bus' = "idle" /\ err' \in BOOLEAN
  /\ UNCHANGED <<sample, dmaOn, target, left, tc4, timerFlag, firmware, timerOn, enables, main,
                 copy>>

-----------------------------------------------------------------------------
(* Interrupt handlers.                                                     *)

I2cPending == bus = "tc" \/ (i2cIrqOn /\ (err \/ bus = "txis"))
DmaPending == tc4 /\ dmaIrqOn
Interrupted == I2cPending \/ DmaPending \/ timerFlag

\* TIM6_DAC_LPTIM1_IRQHandler: a tick that finds a transfer running is lost.
TimerIrq ==
  /\ timerFlag /\ Default < level
  /\ timerFlag' = FALSE
  /\ IF state = "Idle"
     THEN state' = "SendAddr" /\ bus' = "start"
     ELSE UNCHANGED <<state, bus>>
  /\ UNCHANGED <<err, sample, dmaOn, target, left, tc4, visible, accel_data, timerOn, enables,
                 main, copy>>

\* Mutant: the error leaves the poller in its state (line 101 missing).
I2cErrorIrqStuck ==
  /\ i2cIrqOn /\ err /\ I2C < level
  /\ err' = FALSE
  /\ UNCHANGED <<bus, sample, dmaOn, target, left, tc4, timerFlag, firmware, timerOn, enables,
                 main, copy>>

\* I2C1_IRQHandler, an error: the transfer is given up.
I2cErrorIrq ==
  /\ i2cIrqOn /\ err /\ I2C < level
  /\ err' = FALSE
  /\ state' = "Idle"
  /\ UNCHANGED <<bus, sample, dmaOn, target, left, tc4, timerFlag, visible, accel_data, timerOn,
                 enables, main, copy>>

\* ... the chip expects the register number, ...
I2cRegisterIrq ==
  /\ i2cIrqOn /\ ~err /\ bus = "txis" /\ state = "SendAddr" /\ I2C < level
  /\ bus' = "tx"
  /\ UNCHANGED <<err, sample, dmaOn, target, left, tc4, timerFlag, firmware, timerOn, enables,
                 main, copy>>

\* Mutant: DMA is set up for both buffers.
DmaConfigureBoth == target' = 1 - visible /\ left' = 2 * Parts

\* DMA is set up for the hidden buffer.  A channel left on by a transfer that
\* ended in an error ignores this, and is still set up for it.
DmaConfigure ==
  IF dmaOn THEN UNCHANGED <<target, left>>
           ELSE target' = 1 - visible /\ left' = Parts

\* ... it has it, and the sample is read.
I2cReadIrq ==
  /\ ~(i2cIrqOn /\ err) /\ bus = "tc" /\ state = "SendAddr" /\ I2C < level
  /\ DmaConfigure
  /\ dmaOn' = TRUE
  /\ bus' = "restart"
  /\ state' = "ReadAccelState"
  /\ UNCHANGED <<err, sample, tc4, timerFlag, visible, accel_data, timerOn, enables, main, copy>>

\* DMA1_Ch4_7_DMA2_Ch1_5_DMAMUX_OVR_IRQHandler: convert and publish.
DmaIrq ==
  /\ DmaPending /\ Default < level
  /\ accel_data' = [accel_data EXCEPT ![1 - visible] =
                      [i \in 1..Parts |-> [id |-> @[i].id, converted |-> ~@[i].converted]]]
  /\ tc4' = FALSE /\ dmaOn' = FALSE
  /\ state' = "Idle"
  /\ visible' = 1 - visible
  /\ UNCHANGED <<bus, err, sample, target, left, timerFlag, timerOn, enables, main, copy>>

-----------------------------------------------------------------------------
(* The main loop.  A pending interrupt comes before its next step.         *)

At(step) == pc = step /\ level = Thread /\ ~Interrupted

\* Start doing something that first pauses the polling, if there is any.
PauseFor(g, next) ==
  /\ goal' = g
  /\ IF polling THEN pc' = "pause" /\ timerOn' = FALSE
                ELSE pc' = next /\ UNCHANGED timerOn
  /\ UNCHANGED <<hardware, firmware, enables, level, copy>>

\* ACCEL_POLL: accel_enable_poll does nothing if it is on (or off) already.
EnablePoll  == At("loop") /\ ~polling /\ PauseFor("poll", "control")
DisablePoll == At("loop") /\ polling /\ PauseFor("park", "control")

\* MODE: accel_deinit.
Deinit == At("loop") /\ PauseFor("deinit", "off")

\* mcu_update_clock_speed, with another prescaler.
ClockChanges == At("loop") /\ PauseFor("clock", "adjust")

\* MODE 0xFF: mcu_shutdown in the main loop.
Standby == At("loop") /\ PauseFor("standby", "halted")

\* Mutant: only the state is waited for.
PauseDoneEarly ==
  /\ At("pause") /\ state = "Idle"
  /\ pc' = CASE goal = "clock" -> "adjust" [] goal = "standby" -> "halted" [] OTHER -> "control"
  /\ UNCHANGED <<hardware, firmware, timerOn, enables, level, goal, copy>>

\* The end of __poll_pause: no transfer is running.
PauseDone ==
  /\ At("pause") /\ state = "Idle" /\ ~Busy
  /\ pc' = CASE goal = "clock" -> "adjust" [] goal = "standby" -> "halted" [] OTHER -> "control"
  /\ UNCHANGED <<hardware, firmware, timerOn, enables, level, goal, copy>>

\* __write_control_reg, with its interrupts off.
ControlStart ==
  /\ At("control")
  /\ chip_detected' = FALSE /\ i2cIrqOn' = FALSE
  /\ bus' = "control"
  /\ pc' = "wait"
  /\ UNCHANGED <<err, sample, dmaOn, target, left, tc4, timerFlag, firmware, timerOn, i2cOn,
                 polling, level, goal, copy>>

\* Its end, and the rest of accel_enable_poll: __poll_resume.
ControlDone ==
  /\ At("wait") /\ ~Busy
  /\ chip_detected' = ~err /\ i2cIrqOn' = ~err
  /\ err' = FALSE
  /\ polling' = (goal = "poll")
  /\ timerOn' = (goal = "poll" /\ ~err)
  /\ pc' = IF goal = "deinit" THEN "off" ELSE "loop"
  /\ UNCHANGED <<bus, sample, dmaOn, target, left, tc4, timerFlag, firmware, i2cOn, level, goal,
                 copy>>

\* The end of accel_deinit: the peripheral and its interrupts are off.
Off ==
  /\ At("off") /\ i2cOn
  /\ i2cOn' = FALSE
  /\ UNCHANGED <<hardware, firmware, timerOn, i2cIrqOn, polling, chip_detected, main, copy>>

\* __poll_resume: the timer runs again if there is something to poll.
PollResume == timerOn' = (polling /\ i2cOn /\ chip_detected)

\* accel_adjust_i2c_timing: the peripheral is switched off, set and switched
\* on again.
Adjust ==
  /\ At("adjust")
  /\ PollResume
  /\ pc' = "loop"
  /\ UNCHANGED <<hardware, firmware, enables, level, goal, copy>>

\* Mutant: the DMA interrupt is not held off.
CopyStartUnlocked ==
  /\ At("loop")
  /\ source' = visible /\ copied' = <<>>
  /\ pc' = "copy"
  /\ UNCHANGED <<hardware, firmware, timerOn, enables, level, goal, dmaIrqOn>>

\* ACCEL_READ: accel_copy_state holds off the DMA interrupt while it copies.
CopyStart ==
  /\ At("loop")
  /\ dmaIrqOn' = FALSE
  /\ source' = visible /\ copied' = <<>>
  /\ pc' = "copy"
  /\ UNCHANGED <<hardware, firmware, timerOn, enables, level, goal>>

CopyPart ==
  /\ At("copy") /\ Len(copied) < Parts
  /\ copied' = Append(copied, accel_data[source][Len(copied) + 1])
  /\ UNCHANGED <<hardware, firmware, timerOn, enables, main, dmaIrqOn, source>>

CopyDone ==
  /\ At("copy") /\ Len(copied) = Parts
  /\ dmaIrqOn' = TRUE
  /\ pc' = "loop"
  /\ UNCHANGED <<hardware, firmware, timerOn, enables, level, goal, copied, source>>

-----------------------------------------------------------------------------
(* A shutdown from an interrupt: low voltage (PVD) or the console switched *)
(* off (EXTI).  If the USB port was on, switching it off changes the clock,*)
(* and that pauses the polling, inside the handler.                        *)

Shutdown(priority) ==
  /\ level = Thread /\ pc # "halted"
  /\ \/ /\ polling
        /\ level' = priority /\ timerOn' = FALSE
        /\ UNCHANGED pc
     \/ /\ pc' = "halted"
        /\ UNCHANGED <<level, timerOn>>
  /\ UNCHANGED <<hardware, firmware, enables, goal, copy>>

\* PVD_PVM_IRQHandler, and EXTI4_15_IRQHandler on an edge of the battery's pin.
LowVoltage == Shutdown(PVD)
OnBattery == Shutdown(Default)

\* The pause inside the handler ends as any other; then the MCU halts.
ShutdownDone ==
  /\ level # Thread
  /\ state = "Idle" /\ ~Busy
  /\ pc' = "halted" /\ level' = Thread
  /\ UNCHANGED <<hardware, firmware, timerOn, enables, goal, copy>>

MainStep ==
  \/ PauseDone \/ ControlStart \/ ControlDone \/ Off \/ Adjust \/ CopyPart \/ CopyDone

Command == EnablePoll \/ DisablePoll \/ Deinit \/ ClockChanges \/ Standby \/ CopyStart

Handler == TimerIrq \/ I2cErrorIrq \/ I2cRegisterIrq \/ I2cReadIrq \/ DmaIrq

Hardware == Address \/ RegisterSent \/ Receive \/ Stop \/ ControlSent

Next ==
  \/ MainStep \/ Command \/ Handler \/ Hardware \/ TimerFires
  \/ LowVoltage \/ OnBattery \/ ShutdownDone

\* A transfer goes on, a handler that may run runs, the main loop goes on.
Fairness == WF_vars(Hardware) /\ WF_vars(Handler) /\ WF_vars(MainStep) /\ WF_vars(ShutdownDone)

Spec == Init /\ [][Next]_vars /\ Fairness

-----------------------------------------------------------------------------
(* Properties.                                                             *)

Part == [id : Samples, converted : BOOLEAN]

\* Every variable has its type, and DMA has at most one sample to move.
TypeOK ==
  /\ bus \in {"idle", "start", "txis", "tx", "tc", "restart", "read", "stop", "control"}
  /\ {err, dmaOn, tc4, timerOn, timerFlag, i2cIrqOn, dmaIrqOn, polling, chip_detected, i2cOn}
       \subseteq BOOLEAN
  /\ sample \in Samples /\ target \in 0..1 /\ left \in 0..Parts
  /\ state \in {"Idle", "SendAddr", "ReadAccelState"}
  /\ visible \in 0..1 /\ accel_data \in [0..1 -> [1..Parts -> Part]]
  /\ level \in {PVD, Default, Thread}
  /\ pc \in {"loop", "pause", "control", "wait", "adjust", "copy", "off", "halted"}
  /\ goal \in {"none", "poll", "park", "deinit", "clock", "standby"}
  /\ copied \in Seq(Part) /\ Len(copied) <= Parts /\ source \in 0..1

\* A sample that may be read is whole - its parts were measured together and
\* each has been converted once, whatever the DMA does next - and so is the one
\* that accel_copy_state hands out, whichever interrupts come between two bytes
\* of it (accel.c:60-76, 108-116, 334-339).
Whole(parts) == \A i, j \in DOMAIN parts : parts[i].id = parts[j].id /\ parts[i].converted
SamplesWhole == Whole(accel_data[visible]) /\ Whole(copied)

\* The main loop writes the control register or sets the clock only while no
\* transfer is running and none can start (accel.c:258-269).
QuietBus == pc \in {"control", "adjust"} => state = "Idle" /\ ~Busy /\ ~timerOn

\* A pause ends, also when the chip does not answer (accel.c:264).
PauseEnds == pc = "pause" ~> (pc # "pause" \/ level # Thread)

\* "go to Standby" (mcu.c:117), "powering down" (mcu.c:399-400): a shutdown
\* that has begun ends with the MCU halted.
ShutdownEnds == level # Thread ~> pc = "halted"
=============================================================================
