------------------------------ MODULE McuPower ------------------------------
(***************************************************************************)
(* The life of the MCU from a reset to its shutdown (mcu.c:36-58, 127-159, *)
(* 341-354, 494-513, 537-664, 674-680; main.c): the USB port, the clock    *)
(* that the port and the console's commands ask for, and the memory that   *)
(* must survive.  The actors are the main loop, the interrupt handlers     *)
(* that preempt it, the cable, and the console, which gives commands and   *)
(* may reset the MCU or take its power away at any moment.                 *)
(*                                                                         *)
(* The handler and the task agree on the port through usb_init_status:     *)
(*                                                                         *)
(*   OFF -> REQUEST_ON   the handler      REQUEST_ON -> ON    the task     *)
(*   ON -> REQUEST_OFF   the handler      REQUEST_OFF -> OFF  the task     *)
(***************************************************************************)
EXTENDS Clock, SaveMemory

CONSTANTS
  MaxCommands,  \* bound: commands of the console
  MaxResets     \* bound: resets, and losses of all power

VARIABLES
  plugged,      \* the pin: a cable supplies power
  edge,         \* EXTI RPR1 or FPR1 bit 5: the pin has changed
  enabled,      \* usb_enabled
  status,       \* usb_init_status
  power,        \* regulator and clock of the USB peripheral are on
  stack,        \* TinyUSB is initialised (and its interrupt enabled)
  pullup,       \* DPPU: the host sees a device
  active,       \* tud_connected() && !tud_suspended()
  mounted,      \* tud_mounted()
  pc,           \* the main loop
  ret,          \* where mcu_update_clock_speed returns to
  seen,         \* main loop, in __mcu_usb_on_power_change: the pin read
  seenStatus,   \* ... and the status read
  event,        \* the core's event register
  commands,     \* how many commands so far
  resets        \* how many resets so far

usb == <<status, power, stack, pullup, active, mounted>>
main == <<pc, ret, seen, seenStatus>>
env == <<plugged, edge, enabled, commands, resets>>
vars == <<env, usb, main, event, clock, spi_config, memory>>

\* mcu_init up to mcu_usb_set_enabled: the first mcu_update_clock_speed is done, pins,
\* ADC and interrupts are set up (a shutdown may come from here on).
Init ==
  /\ plugged \in BOOLEAN /\ edge = FALSE /\ enabled = FALSE
  /\ status = "OFF" /\ power = FALSE /\ stack = FALSE /\ pullup = FALSE
  /\ active = FALSE /\ mounted = FALSE
  /\ pc = "boot" /\ ret = "boot" /\ seen = FALSE /\ seenStatus = "OFF"
  /\ event = FALSE /\ commands = 0 /\ resets = 0
  /\ ClockInit /\ MemoryInit

\* Shutdown's last steps run with nothing to preempt them.
Stopping == pc = "clock" /\ ret = "halted"
Running == pc # "halted" /\ ~Stopping

-----------------------------------------------------------------------------
(* Interrupts.  Each may come between any two steps of the main loop; its  *)
(* return sets the event register.                                         *)

Cable ==
  /\ plugged' = ~plugged
  /\ edge' = (edge \/ Running)
  /\ UNCHANGED <<enabled, commands, resets, usb, main, event, clock, spi_config, memory>>

\* Mutant: a cable plugged in again cancels the request to switch off.
PowerChangeCancelsOff ==
  IF plugged /\ enabled
  THEN /\ status' = CASE status = "OFF"         -> "REQUEST_ON"
                      [] status = "REQUEST_OFF" -> "ON"
                      [] OTHER                  -> status
       /\ pullup' = (pullup \/ status = "ON")
  ELSE /\ status' = IF status = "ON" THEN "REQUEST_OFF" ELSE status
       /\ UNCHANGED pullup

\* __mcu_usb_on_power_change in the handler.
PowerChange ==
  IF plugged /\ enabled
  THEN /\ status' = IF status = "OFF" THEN "REQUEST_ON" ELSE status
       /\ pullup' = (pullup \/ status = "ON")
  ELSE /\ status' = IF status = "ON" THEN "REQUEST_OFF" ELSE status
       /\ UNCHANGED pullup

\* EXTI4_15_IRQHandler: the flag is cleared before the pin is read.
ExtiIrq ==
  /\ edge /\ Running
  /\ edge' = FALSE
  /\ PowerChange
  /\ event' = TRUE
  /\ UNCHANGED <<plugged, enabled, commands, resets, power, stack, active, mounted, main,
                 clock, spi_config, memory>>

\* USB_DRD_FS_IRQHandler: to TinyUSB while the port is on, else dropped.
UsbIrq ==
  /\ stack /\ Running
  /\ active' \in IF status = "ON" THEN BOOLEAN ELSE {active}
  /\ event' = TRUE
  /\ UNCHANGED <<env, status, power, stack, pullup, mounted, main, clock, spi_config, memory>>

PortOff ==
  /\ status' = "OFF" /\ power' = FALSE /\ stack' = FALSE /\ pullup' = FALSE
  /\ active' = FALSE

\* mcu_update_clock_speed is called, and returns to a step of its caller.
UpdateClock(caller) ==
  /\ Update(Wanted(plugged /\ enabled', mounted', spi_freq', spi_mode'))
  /\ ret' = IF k' = 0 THEN ret ELSE caller
  /\ pc' = IF k' = 0 THEN caller ELSE "clock"

Cut == pc \in {"restore", "restoreAgain"}

\* mcu_shutdown, on low voltage (PVD), on battery, or by command: it chooses the
\* power mode, requests OFF and runs the task for it, and never returns.
Shutdown ==
  /\ Running
  /\ ShutdownMemory(Cut)
  /\ mounted' \in {mounted, FALSE}
  /\ UNCHANGED <<env, seen, seenStatus, event, spi_config>>
  /\ \/ /\ status # "OFF"
        /\ PortOff /\ UpdateClock("halted")
     \/ /\ status = "OFF"
        /\ pc' = "halted"
        /\ UNCHANGED <<status, power, stack, pullup, active, ret, clock>>

Restart ==
  /\ resets < MaxResets /\ resets' = resets + 1
  /\ edge' = FALSE /\ enabled' = FALSE
  /\ PortOff /\ mounted' = FALSE
  /\ pc' = "boot" /\ ret' = "boot" /\ seen' = FALSE /\ seenStatus' = "OFF"
  /\ event' = FALSE
  /\ ClockReset
  /\ UNCHANGED <<plugged, commands>>

\* The console pulls the MCU's reset pin, at whatever it is doing.
Reset == Restart /\ RestartMemory(pc = "halted", Cut)

PowerLoss == Restart /\ LoseMemory

-----------------------------------------------------------------------------
(* The main loop.                                                          *)

\* At a step; a requested handler preempts the main loop before it.
At(step) == pc = step /\ ~edge
Goto(step) == pc' = step /\ UNCHANGED ret
NoMemory == UNCHANGED <<memory, commands, resets>>

\* mcu_usb_set_enabled(true)
SetEnabled ==
  /\ At("boot")
  /\ enabled' = TRUE
  /\ Goto("pin")
  /\ UNCHANGED <<plugged, edge, commands, resets, usb, seen, seenStatus, event, clock,
                 spi_config, memory>>

\* __mcu_usb_on_power_change in the main loop takes three steps: the pin, ...
ReadPin ==
  /\ At("pin")
  /\ seen' = (plugged /\ enabled)
  /\ Goto("status")
  /\ UNCHANGED <<env, usb, seenStatus, event, clock, spi_config, memory>>

\* ... the status, ...
ReadStatus ==
  /\ At("status")
  /\ seenStatus' = status
  /\ Goto("change")
  /\ UNCHANGED <<env, usb, seen, event, clock, spi_config, memory>>

\* ... and what they ask for.
Change ==
  /\ At("change")
  /\ status' = CASE seen /\ seenStatus = "OFF" -> "REQUEST_ON"
                 [] ~seen /\ seenStatus = "ON" -> "REQUEST_OFF"
                 [] OTHER                      -> status
  /\ pullup' = (pullup \/ (seen /\ seenStatus = "ON"))
  /\ Goto(IF stack THEN "loop" ELSE "nvram")
  /\ seen' = FALSE /\ seenStatus' = "OFF"
  /\ UNCHANGED <<env, power, stack, active, mounted, event, clock, spi_config, memory>>

\* The rest of the start-up: the memory, and the bus at its lowest frequency ...
StartMemory ==
  /\ At("nvram")
  /\ NvramInit
  /\ Goto("freq")
  /\ UNCHANGED <<env, usb, seen, seenStatus, event, clock, spi_config>>

\* ... and in native mode.
StartBus ==
  /\ pc \in {"freq", "mode"} /\ ~edge
  /\ UNCHANGED <<env, usb, seen, seenStatus, event, spi_config, memory>>
  /\ UpdateClock(IF pc = "freq" THEN "mode" ELSE "task")

\* mcu_update_clock_speed, a write at a time.
ClockStep ==
  /\ pc = "clock" /\ (edge => Stopping)
  /\ UpdateStep
  /\ pc'  = IF k' = 0 THEN ret ELSE "clock"
  /\ ret' = IF k' = 0 THEN "boot" ELSE ret
  /\ UNCHANGED <<env, usb, seen, seenStatus, event, spi_config, memory>>

\* mcu_usb_power_task, on request ON: power first, ...
TaskPowerOn ==
  /\ At("task") /\ status = "REQUEST_ON"
  /\ power' = TRUE
  /\ Goto("on")
  /\ UNCHANGED <<env, status, stack, pullup, active, mounted, seen, seenStatus, event, clock,
                 spi_config, memory>>

\* ... then the status ("set before tusb_init so USB peripheral interrupts are
\* serviced correctly"), ...
TaskOn ==
  /\ At("on")
  /\ status' = "ON"
  /\ Goto("init")
  /\ UNCHANGED <<env, power, stack, pullup, active, mounted, seen, seenStatus, event, clock,
                 spi_config, memory>>

\* Mutant: the pin is not looked at again (line 619 missing).
TaskInitNoRecheck ==
  /\ At("init")
  /\ stack' = TRUE /\ pullup' = TRUE /\ mounted' = FALSE
  /\ UNCHANGED <<env, status, power, active, seen, seenStatus, event, spi_config, memory>>
  /\ UpdateClock("loop")

\* ... then TinyUSB, which connects, and the clock; then the pin is looked at
\* again.
TaskInit ==
  /\ At("init")
  /\ stack' = TRUE /\ pullup' = TRUE /\ mounted' = FALSE
  /\ UNCHANGED <<env, status, power, active, seen, seenStatus, event, spi_config, memory>>
  /\ UpdateClock("pin")

\* On request OFF: the pull-up and TinyUSB (which may go on to say that it is
\* configured), ...
TaskDeinit ==
  /\ At("task") /\ status = "REQUEST_OFF"
  /\ pullup' = FALSE /\ stack' = FALSE /\ active' = FALSE
  /\ mounted' \in {mounted, FALSE}
  /\ Goto("powerOff")
  /\ UNCHANGED <<env, status, power, seen, seenStatus, event, clock, spi_config, memory>>

\* ... then the power, ...
TaskPowerOff ==
  /\ At("powerOff")
  /\ power' = FALSE
  /\ Goto("off")
  /\ UNCHANGED <<env, status, stack, pullup, active, mounted, seen, seenStatus, event, clock,
                 spi_config, memory>>

\* ... then the status, and the clock.
TaskOff ==
  /\ At("off")
  /\ status' = "OFF"
  /\ UNCHANGED <<env, power, stack, pullup, active, mounted, seen, seenStatus, event,
                 spi_config, memory>>
  /\ UpdateClock("loop")

TaskIdle ==
  /\ At("task") /\ status \in {"OFF", "ON"}
  /\ Goto("loop")
  /\ UNCHANGED <<env, usb, seen, seenStatus, event, clock, spi_config, memory>>

\* Mutant: tud_task runs as soon as the port was ever requested.
LoopAnyStatus ==
  /\ At("loop")
  /\ Goto(IF status # "OFF" THEN "tud" ELSE "spi")
  /\ UNCHANGED <<env, usb, seen, seenStatus, event, clock, spi_config, memory>>

\* The rest of the loop: tud_task if the port is on, ...
Loop ==
  /\ At("loop")
  /\ Goto(IF status = "ON" THEN "tud" ELSE "spi")
  /\ UNCHANGED <<env, usb, seen, seenStatus, event, clock, spi_config, memory>>

\* ... which tells tud_mount_cb and tud_umount_cb what the host does, ...
TudTask ==
  /\ At("tud")
  /\ active' \in BOOLEAN /\ mounted' \in BOOLEAN
  /\ UNCHANGED <<env, status, power, stack, pullup, seen, seenStatus, event, spi_config, memory>>
  /\ IF mounted' # mounted THEN UpdateClock("spi") ELSE Goto("spi") /\ UNCHANGED clock

\* ... mcu_spi_task, with a command or without, ...
NoCommand ==
  /\ At("spi")
  /\ Goto("sleep")
  /\ UNCHANGED <<env, usb, seen, seenStatus, event, clock, spi_config, memory>>

Command ==
  /\ At("spi") /\ spi_mode = "NATIVE"
  /\ commands < MaxCommands /\ commands' = commands + 1
  /\ UNCHANGED <<plugged, edge, enabled, resets, usb, seen, seenStatus, event>>

\* mcu_spi_set_freq and mcu_spi_init
BusCommand ==
  /\ Command
  /\ \/ spi_freq' \in Freqs /\ UNCHANGED spi_mode
     \/ spi_mode' \in SpiModes /\ UNCHANGED spi_freq
  /\ UNCHANGED memory
  /\ UpdateClock("sleep")

MemoryCommand ==
  /\ Command
  /\ \/ \E type \in Types \cup {NONE} : SetEepromMode(type)
     \/ WriteEeprom
     \/ \E id \in Ids, sram, rtc \in BOOLEAN : SetSaveId(id, sram, rtc)
  /\ Goto("sleep")
  /\ UNCHANGED <<clock, spi_config>>

\* rtc_reset: the backup domain is reset, and again if the crystal does not start.
ResetRtc ==
  /\ Command
  /\ ResetBackupDomain
  /\ Goto("restore")
  /\ UNCHANGED <<clock, spi_config>>

RestoreId ==
  /\ Cut /\ ~edge
  /\ RestoreSaveId
  /\ Goto(IF pc = "restore" THEN "crystal" ELSE "internal")
  /\ UNCHANGED <<env, usb, seen, seenStatus, event, clock, spi_config>>

ChooseSource ==
  /\ \/ At("crystal") /\ SetClockSource("LSE") /\ Goto("sleep")
     \/ At("crystal") /\ ResetBackupDomain /\ Goto("restoreAgain")
     \/ At("internal") /\ SetClockSource("LSI") /\ Goto("sleep")
  /\ UNCHANGED <<env, usb, seen, seenStatus, event, clock, spi_config>>

\* ... and WFE, unless a host is active.
Sleep ==
  /\ At("sleep")
  /\ \/ status = "ON" /\ active /\ UNCHANGED event
     \/ ~(status = "ON" /\ active) /\ event /\ event' = FALSE
  /\ Goto("task")
  /\ UNCHANGED <<env, usb, seen, seenStatus, clock, spi_config, memory>>

MainStep ==
  \/ SetEnabled \/ ReadPin \/ ReadStatus \/ Change
  \/ StartMemory \/ StartBus \/ ClockStep
  \/ TaskPowerOn \/ TaskOn \/ TaskInit \/ TaskDeinit \/ TaskPowerOff \/ TaskOff \/ TaskIdle
  \/ Loop \/ TudTask
  \/ NoCommand \/ BusCommand \/ MemoryCommand \/ ResetRtc \/ RestoreId \/ ChooseSource
  \/ Sleep

Next == Cable \/ ExtiIrq \/ UsbIrq \/ Shutdown \/ Reset \/ PowerLoss \/ MainStep

\* Handlers run when requested and do not starve the main loop.  A powered USB
\* peripheral interrupts sooner or later: on an idle bus it signals suspend.
Fairness == WF_vars(MainStep) /\ WF_vars(ExtiIrq) /\ WF_vars(UsbIrq)

Spec == Init /\ [][Next]_vars /\ Fairness

-----------------------------------------------------------------------------
(* Properties.                                                             *)

\* Every variable has its type, and no handler changes the status under the
\* task that is carrying out its request (mcu.c:46-58, 606-628).
TypeOK ==
  /\ ClockTypeOK /\ MemoryTypeOK
  /\ pc = "on" => status = "REQUEST_ON"
  /\ pc \in {"powerOff", "off"} => status = "REQUEST_OFF"
  /\ pc = "clock" => k > 0
  /\ pc \notin {"clock", "halted"} => k = 0
  /\ {plugged, edge, enabled, power, stack, pullup, active, mounted, seen, event} \subseteq BOOLEAN
  /\ {status, seenStatus} \subseteq {"OFF", "REQUEST_ON", "ON", "REQUEST_OFF"}
  /\ pc \in {"boot", "pin", "status", "change", "nvram", "freq", "mode", "clock", "task", "on",
             "init", "powerOff", "off", "loop", "tud", "spi", "restore", "restoreAgain",
             "crystal", "internal", "sleep", "halted"}

\* TinyUSB is only entered - by tud_task, or by its interrupt, which goes by the
\* status alone - while its peripheral has power, in whatever state the handler
\* puts the status meanwhile; and a shutdown leaves nothing of the port on, at
\* whatever point of switching it on or off it comes (mcu.c:553-560, 606-655;
\* main.c:42-46).
UsedOnlyWithPower ==
  /\ stack \/ status = "ON" => power
  /\ pc = "tud" => stack
  /\ pc = "halted" => ~power /\ ~stack /\ ~pullup

\* The oscillator is never faster than the regulator and the flash allow, a
\* change of clock cut short by the shutdown's own included; and between two
\* changes the busy signal is long enough for the FPGA, and the I2C bus is timed
\* for the clock it has (mcu.c:161-172, 269-340, 618-627).
ClockFits ==
  /\ msi <= Allowed
  /\ k = 0 /\ pc # "halted" => PulseLongEnough /\ timing = msi \div apb

\* What the console stored is there after every shutdown, reset and start: the
\* EEPROM with its identity if it has both type and identity, the clock's
\* identity through a reset of its domain; and what was not kept does not pass
\* for it (nvram.c:30-42; mcu.c:635-643, 657-664).
SaveKept ==
  /\ pc \notin {"boot", "pin", "status", "change", "nvram", "halted", "clock"} => SramKept
  /\ Cut \/ bkp8 = toldId

\* A port whose cable is pulled for good ends switched off, whichever step of
\* switching on the cable was pulled at (mcu.c:46-58, 606-628).
UnplugTurnsOff == <>[]~plugged => <>[](status = "OFF" /\ ~power /\ ~pullup)

\* mcu_usb_enable: "The USB hardware will only be activated if the USB port is
\* enabled and an USB cable is physically connected to a host." (mcu.h:105-106):
\* an enabled port with a cable that stays plugged in turns on, unless the MCU
\* shuts down.
PlugTurnsOn == <>[]plugged => <>[](status = "ON" \/ pc = "halted")
=============================================================================
