# nileswan, modelled and verified

nileswan is a flash cartridge for the WonderSwan: an FPGA that presents
cartridge hardware to the console, a microcontroller (MCU, an STM32U073) that
keeps time, saves and USB, an SPI flash with boot loaders and FPGA cores, and
console software that boots, updates and recovers it all. This directory holds
TLA+ models of the parts of it where order and timing matter, the TLC
configurations that check them, and proofs checked by the TLA+ proof system.

Paths below are relative to the repository; `mcu.c` and the like without a
directory are in `firmware/src/`.

Contents: [1 the system](#1-the-system), [2 the modules](#2-the-modules),
[3 the runs](#3-the-runs), [4 the proofs](#4-the-proofs),
[5 disagreements](#5-where-the-code-disagrees-with-what-is-said-of-it),
[6 what is not here](#6-what-is-not-modelled), [7 the plan](#7-the-plan).

## 1 The system

```
 console (V30MZ)           FPGA                          MCU
 ---------------    bus    ------------------    SPI     ---------------------
 IPL0, IPL1, menu  <---->  mapper, registers             spi.c     RX/TX, DMA
 updater                   SPI controller    <-------->  spi_cmd.c commands
 recovery                  EEPROM emulation  --------->  eeprom.c  copy
 games                     RTC link          <-------->  rtc.c     calendar
                                |            <---------  busy pin, IRQ pin
                                |                        accel.c   I2C sensor
                              SPI flash                  mcu.c     USB, power, card
                              SD card                    nvram.c   save identity
```

| Component | State it keeps | Operations | What is hard | What makes it correct |
|---|---|---|---|---|
| Native SPI protocol (`spi.c`, `spi_cmd.c`, `main.c`) | mode, half word, command, two buffers, three DMA channels, one flag | SPI and DMA interrupts, `mcu_spi_task`, MODE, reset | two handlers, two DMA channels and the main loop share everything without a lock; byte pairing; WFE | one owner of the buffers, no slip of the pairing, each command executed once and answered |
| Interrupt register, RTC alarm (`spi.c`, `mcu.c`, `rtc.c`) | status, enable, line; alarm mode, value, hardware | card handler, RTC handler, commands | handlers preempt each other and the main loop; an ISR called as a function | no edge lost, the alarm is a level |
| USB power (`mcu.c`) | status OFF/REQUEST_ON/ON/REQUEST_OFF, regulator, stack, pull-up | cable handler, enable, power task, shutdown | the handler changes what the task is doing | stack used only with power, unplugged port off, shutdown complete |
| Clock (`mcu.c`) | oscillator, voltage, flash wait states, busy delay | update for a speed, a mode and a port | a dozen register writes in an order that depends on the direction; a shutdown that calls it too | never faster than voltage and flash allow, busy pulse long enough |
| EEPROM emulation (`eeprom.sv`, `eeprom.c`) | the array twice, a bit counter, the busy pin | READ, WRITE, ERASE, WRAL, ERAL, WEN, WDS | two copies kept equal by a one-way stream and one pin | the copies agree, the game sees a serial EEPROM |
| Accelerometer (`accel.c`) | poll state, two buffers, timer, DMA | poll, pause, clock change, copy, stop | three handlers and DMA against the main loop and shutdown | no torn sample, quiet bus while configured |
| Save identity (`nvram.c`, `mcu.c`) | SRAM with a magic, backup registers | set and get save ID, retention, reset of the backup domain | Standby, Shutdown, battery | what must be kept is, and a save is never paired with another game's |
| RTC calendar (`rtc.c`) | hardware calendar, format and alarm in backup registers | read/write status, time, alarm | 12/24-hour forms, invalid values, snapshot reads, reset in between | what is written reads back, an hour and a day that a clock shows stay such |
| FPGA SPI controller (`spi.sv`, `spimux.sv`, `clockmux.sv`) | two buffers, start/busy over two clocks | start, flip, wait-and-read, clock and device select | clock-domain crossing, polling | no transfer on top of another, no flip under one |
| FPGA RTC link (`rtc.sv`) | command state, byte counters, busy | commands of the emulated S-3511A | the MCU is slow, the game polls | bytes in order, busy truthful |
| Mapper, registers, flash emulation (`nileswan.sv`, `dance.sv`) | banks, masks, unlock sequence, flash command state | register writes, cartridge reads and writes | many enables | no write where it is masked |
| IPL0 (`software/ipl0`) | boot choice, registers | pipelined read of IPL1, jump | double-buffered reads | loads all of the image it chose |
| IPL1 (`software/ipl1/src/boot`) | position in the file, buffer's backup | restart of the FPGA, load of the menu, error report | the restart loses all registers; a file of any length goes to the end of PSRAM | the menu is whole and mapped where it is entered |
| IPL1 safe (`software/ipl1/src/safe`) | amount of PSRAM | tests, load and verification of a recovery program, manufacturing test | PSRAM may be damaged or hold leftovers | the program that is entered is what the flash holds |
| Updater (`software/userland/src/updater`) | manifest position, version block | verify, install, retry | power loss between any two pages | complete means complete, retry works |
| Recovery program (`software/userland/src/recovery`) | none of its own | menus, tests, manual tools | the test of the flash emulation drives a state machine it cannot reset | a working emulation passes |
| Console library, USB classes | | text, keys; glue to TinyUSB | | |

The components meet in four ways: the SPI link with the FPGA between console
and MCU (commands, EEPROM words, RTC bytes; the FPGA routes the one in use);
two MCU pins (busy or interrupt); memory shared by handlers, DMA and main loop
inside the MCU; and the flash, which one program leaves for the next.

`PROJECT.json` lists the components with their status, and under `hazards`
every place found hard to test, with the property that covers it or the reason
why none does.

## 2 The modules

| Module | Models | Abstract state ↔ code |
|---|---|---|
| `NativeSpi` | native command engine | see below |
| `CommandService` | what it promises the console: one outstanding request, executed once, answered with its own answer | refined by `NativeSpi` |
| `NativeSpiProofs` | theorems about `NativeSpi`, with the refinement of `CommandService` | |
| `McuIrq` | `spi.c:40-85`, `mcu.c:127-137`, alarm part of `rtc.c` | `spiIrq`/`irqEnable` the two registers, `line` the pin, `almMode`/`almValue` the backup registers BKP0R/BKP1R, `almMask`/`nvicRtc` the alarm hardware, `exti`/`rtcIsr`/`main` program counters |
| `McuIrqProofs` | theorems about `McuIrq` | |
| `McuPower` | `mcu.c:36-58, 127-159, 341-513, 537-680`, loop of `main.c` | `status` = `usb_init_status`; `power`, `stack`, `pullup` the hardware it commands; `pc` the main loop; extends `Clock`, `SaveMemory` |
| `Clock` | `mcu.c:161-340` | `msi`, `vos`, `latency`, `lpr`, `apb` the registers; `k` the write that is next in `mcu_update_clock_speed` |
| `SaveMemory` | `nvram.c`, `mcu.c:631-664`, `spi_cmd.c:148-187` | `nvram` the retained SRAM, `bkp8` BKP8R; `told`, `toldId` are history |
| `McuPowerProofs` | theorems about `McuPower` | |
| `Rtc` | `rtc.c:31-83, 177-445` | `tr`, `dr` the calendar registers digit by digit in BCD, `fmt` their format; one operator per command |
| `RtcLink` | `rtc.sv`, `spi.c:155-202, 243-260`, over `Rtc` | `rtc.sv`'s registers by name; FIFOs and DMA of the MCU's SPI; the game |
| `RtcLinkProofs` | theorems about `RtcLink` and the calendar of `Rtc` | |
| `EepromLink` | `eeprom.sv` and `eeprom.c` | `eeprom.sv`'s registers by name; the MCU's word counter and array |
| `EepromLinkProofs` | theorems about `EepromLink`, with the steps of the refinement of `SerialEeprom` | |
| `SerialEeprom` | the chip a game expects | refined by `EepromLink` |
| `Accel` | `accel.c` with timer, I2C and DMA | `state`, `visible`, `accel_data` by name; `bus` the I2C peripheral's phase |
| `AccelProofs` | theorems about `Accel` | |
| `FpgaSpi` | `spi.sv` | its registers by name; `count` is history |
| `Ipl0` | `ipl0.s:113-268` and whatever program follows, over `FpgaSpi` | `pc`; `bx`, `cx`, `si` the CPU's registers; `ram` what has been copied |
| `Mapper` | `nileswan.sv:62-87, 440-641` | `reg` the registers by name; `flash_emu_state` |
| `Cart` | `ipl1/src/boot/main.c` and a game, over `Ipl0` and `Mapper` | `step` the place in the program; `psram` the banks it reaches; `ipc`, `win` the shared buffer and its backup |
| `Safe` | `ipl1/src/safe/main.c`, `mem_test.c`, `recovery/main.c`, `recovery/tests/flash_fsm.c`, over `Cart` | `psram_max_bank` by name; `wanted` the program asked for; `line` the next access of the flash test |
| `SafeProofs` | theorems about the cartridge, as `Safe` completes it: the SPI controller under every program that uses it, the loaders, the flash emulation and its test | |
| `Updater` | `updater/main.c` with the flash chip and MCU boot loader under it | `flash`, `mcuFlash` by page; `update_verify`, `partial_install`, `mcu_restarted`, `flash_version_address` by name |
| `UpdaterProofs` | theorems about `Updater` | |

`MC*` modules give the constants their values for TLC. Operators whose name
ends in what goes wrong (`TaskClaimKeepsFlag`, `ConfirmLocked`) and whose
comment says "Mutant" are plausible bugs; no specification uses them. Each is
named in `PROJECT.json` with the property that finds it, which shows that the
property depends on the code.

### NativeSpi

The console clocks bytes; each clocks one byte in the other direction, between
two FIFOs of `FifoDepth`. `SpiIrqByte` and `SpiIrqCommand` are
`SPI1_IRQHandler` on the first and second byte of a word; `DmaIrqReceived` and
`DmaIrqTransmitted` the DMA handler's two flags; `DmaPad`, `DmaTransmit`,
`DmaReceive` single transfers of the three channels. The main loop is
`TaskIdle`/`TaskClaim` (test and clear of `spi_native_idx`),
`ExecuteAndRespond`, `SwitchToResponse`, `ExecuteMode`, `SpiInitDone`, `Sleep`.
Handlers of one priority do not preempt each other and are atomic; the main
loop is cut wherever it touches something a handler or DMA touches. A command
is a class: a number of argument bytes, a response (data, empty, error) or none.

Assumed of hardware and console: the MCU keeps up with the incoming bytes and
the transmit FIFO does not run dry (the bus is slower than DMA); the console
waits after MODE and after a reset, as the protocol's users must
(`HostModeDone`, `HostReset`); it decodes a response as the first bytes after
0xFF padding.

### McuIrq

`EXTI2_3_IRQHandler` is five actions, since `RTC_TAMP_IRQHandler` preempts it;
each critical section (`mcu_spi_irq_set` and so on) is one. Commands that call
`RTC_TAMP_IRQHandler` as a function step through it with the real interrupt
enabled, as in the code. The calendar is `Minutes` minutes of three phases,
wrapping around. A write of the status register that only changes the hour
format is left out: it changes no alarm mode. Reading and acknowledging the
status are two critical sections: a second edge of the same kind between them
is acknowledged with the first, so the property is about being told of an
event, not of their number.

### McuPower, Clock, SaveMemory

One composition, because they meet in the shutdown: it changes the clock when
the port was on, and decides by the save memory which mode to stop in. The
cable is free to move; `ExtiIrq` runs before the main loop's next step once
requested (`At`). `__mcu_usb_on_power_change` in the main loop is three steps
(pin, status, write). `mcu_update_clock_speed` is nine writes (`UpdateStep`),
with handlers between any two, a shutdown among them. `Shutdown` may come at
any step, and so may `Reset` and, with the battery gone as well, `PowerLoss`;
after each the MCU starts again. TinyUSB is what the firmware needs of it: it
raises interrupts while powered, and turns the pull-up on and off with init and
deinit. What the oscillator may do at each voltage is the STM32U0's data sheet
(`Allowed`). The save memory's contents are values that belong together or do
not; `told` is what the console may expect of it, which forgets what the
firmware says it need not keep (no type or no identity), and an identity that
is lost because the MCU stops while the backup domain is being reset
(section 5).

### Rtc, RtcLink

`Rtc` is the S-3511A's commands on the STM32's registers, digit by digit: the
12- and 24-hour conversions and the range corrections are the code's own BCD
arithmetic, and the calendar counts by itself (`Tick`, a second). A game may leave
what no clock shows in the registers: hour 0, 0x23 or 0x32 in the 12-hour format
(`rtc.c:340-346`), a 31 February (the FIXME at `rtc.c:327`). What the STM32 counts
to from there its manual does not say, so `Tick` goes from an hour that is not
`HourShown` to any of `OddHours`, with or without a next day, and from a day that is
not `DayShown` to the next or any of `OddDays`. `RtcLink`
carries the commands: each state of `rtc.sv`'s FSM is a step, the MCU's two
interrupt handlers another few, the read of the clock (`ReadTR`, `ReadDR`) is
cut between its two registers. The MCU receives padding while it answers and
takes it for commands, as the code does. Assumed (`Prompt`): when the game
begins a command the MCU is done with what the last one left in its FIFO. At
384 kHz it is, by the time the game has decoded an answer; without it a byte of
padding is answered in the middle of the next command and `ReadsBack` fails
(section 5). The game follows the chip's protocol: it begins when not busy and
goes on when ready.

### EepromLink

One `SClk` step is one cycle of the FPGA's slow clock in `eeprom.sv`, with the
counter, the sampled busy pin and the words sent; `ExchangeWord` is the MCU's
interrupt for a word; `FinishBusy` its busy pulse. `FinishBusy` waits until
the FPGA has sampled the pin high: the firmware makes the pulse long enough
with a delay computed from the clock (`mcu.c:161-173, 334-336`). The two arrays
are kept at the addresses in `Watched`; the counter sweeps over all of them.
Assumed: the game writes registers only while the chip shows ready, and is
slower than the slow clock between commands; FPGA and MCU are set to the same
chip (`OfSize` and `OfType` are their tables: of the six chips the MCU knows the
FPGA has the size of three, and for those both find opcode and address in the same
bits); both copies agree at first (the MCU's is loaded into the FPGA before a
game starts); no malformed start bit.

### Accel

Handlers run to completion; the main loop's `__poll_pause` is a step that waits
(`PauseDone`). A NACK may end either half of a transfer; bus errors in the
middle of a read are not modelled (listed as a hazard). The timer's period is
longer than a STOP condition, and the STOP after a control write is over before
the next command. A halted MCU stays halted, hence `CHECK_DEADLOCK FALSE`.
Whether a shutdown finds USB on and a clock to change is a free choice.

### FpgaSpi and Ipl0

A start, an end and an abort cross between the console's bus and the transfer
clock as levels or toggles through two or three flip-flops: `TransferClk` is
one period of the one, `CartRead` and `WriteCnt` accesses of the other, and any
read of the cartridge samples the feedback. A byte on the line is one value,
loaded when its first bit is; the device answers byte by byte. `WriteCnt` is
both bytes of the register: nothing the FPGA does for the console changes
between the two, unless a program that has not waited for the end fetches an
instruction from the cartridge just there. The `in` before each `out` of IPL0 reads what IPL0 wrote itself
and is part of the step. Chip selects, the clock's choice and the card's pads
are left out.

`Ipl0` composes the controller with IPL0 and the flash, whose command is two
bytes here, an opcode and an address, instead of four. Once the boot loader
has jumped into something that is not an IPL1, the same controller serves a
program that polls, writes the buffer, starts and aborts in any order, and a
device that sends anything.

### Mapper, Cart, Safe

`Cart` goes on where `Ipl0` jumps into the main or the factory version of IPL1:
every access to memory goes where `Mapper`'s registers send it at that moment
(`Device`, `RomBank`), so a bank selected too late, or a register that the
FPGA's restart has put back, shows as a byte in the wrong place. Of the 256
banks of PSRAM the last four of each chip are there, the only ones a load
reaches. The file is its length: byte `k` of it is the number `k`. After the
jump a game writes registers and bytes of flash commands in any order.

`Safe` adds the third version of IPL1. A piece that is loaded may not be kept
(`Luck` times), the setting may change between two loads, a load may fail
anywhere, and the IPC buffer's last bytes carry the manufacturing test's order.
`StartRecovery` is the recovery program that is entered; it starts the test of
the flash emulation from the state the load has left, which is any, since all
bytes that were written passed by the emulation. The drawing, the keys and the
lines that the board check looks for are left out; what those tests write to
memory is not. libnile's reads of card and flash either deliver what is there or
report an error.

### Updater

The manifest is a sequence of commands and is run twice, as `run_update_manifest`
is. Flash is counted in the pages that are written at once; a page holds data
of one version, a version block, junk or nothing. An erase or write may leave
junk and stop the updater, or power may go: `Fail`, at every step, or a bad
result that reading back detects, at every write. Locked pages ignore erases
and writes. Junk never reads as a complete version block, and programming only
the last field of a block may clear it or not, but nothing else. Any image may
be started next, with or without the boot loader's lock. Versions are compared
as one number. Parts of one image share no sector with its version blocks, as
in `manifest/*.txt`; the tool that packs images does not check it
(`manifest_to_rom.py`, "TODO: Pad to flash sector size (or detect issue)").
One MCU part per board: see the hazard at `main.c:250`.

## 3 The runs

| Run | Config | States | Shows |
|---|---|---|---|
| `native_spi` | `MCNativeSpi.cfg` | 275 k | ownership, alignment, exactly-once refinement of `CommandService`, completion |
| `mcu_irq` | `MCMcuIrq.cfg` | 488 k | no edge lost, alarm set up over resets, line raised |
| `mcu_irq_level` | `MCMcuIrqLevel.cfg` | violation | the alarm bit is not always the level (section 5) |
| `power` | `MCMcuPower.cfg` | 1068 k | stack only with power, clock within voltage and flash, saves kept, off after unplugging |
| `usb_replug` | `MCMcuPowerReplug.cfg` | violation | a replug at the wrong moment is ignored (section 5) |
| `eeprom_link` | `MCEepromLink.cfg` | 390 k | the copies agree, refinement of `SerialEeprom` including that busy ends |
| `eeprom_erase_all` | `MCEepromLinkEraseAll.cfg` | violation | ERAL erases two different ranges (section 5) |
| `accel` | `MCAccel.cfg` | 51 k | samples whole, bus quiet, pausing ends |
| `accel_shutdown` | `MCAccelShutdown.cfg` | violation | shutdown in a handler can wait for ever (section 5) |
| `updater` | `MCUpdater.cfg` | 618 k | complete means whole, nothing written for a bad image, a retry completes |
| `cart` | `MCCart.cfg` | 863 k | the SPI controller's handshake, order and aborts; IPL0 loads the image it chose; what IPL1 enters is whole and mapped; flash writes only by command, and the test of that passes |
| `rtc` | `MCRtcLink.cfg` | 2164 k | reads are of one moment, the registers change only by the game's own command and with all its bytes, and go on to show an hour and a day but for two corrections the code does not make; commands end |

Bounds, and why they are enough:

- `MCNativeSpi`: seven commands, one of each shape (arguments and data,
  arguments and an empty response, a second byte of 0xFF, unknown, MODE native,
  MODE other, Standby). Requests follow one another without limit, so all
  pairs of shapes in sequence are covered. Argument bytes are 0xFF or not,
  which is all that pairing and padding can tell apart. FIFO depth 4 is the
  hardware's. Two bytes of data make the response longer than one transfer.
- `MCMcuIrq`: one minute for the edges, since they do not look at the time; two
  minutes and alarms at either for the level. Edges and resets are unlimited.
- `MCEepromLink`: the smallest of the three sizes, 64 words (`Mask`, real
  value); watched are the first word, the last, and those on both sides of
  0x11. The order of the commands is unlimited.
- `MCAccel`: a sample of two parts is the smallest that can be torn.
- `MCMcuPower`: one identity and one type beside NONE, since only equality
  counts; two commands of the console between resets, one to store and one to
  change, and one reset or loss of power; cable, handlers and shutdowns are
  unlimited. Speeds, modes and ports: all.
- `MCRtcLink`: every hour of both formats at its last second, on a day whose digits
  carry (9 to 10), on the last day of a February and on the last of a year; a clock
  that was never set; for each command that takes bytes at least one payload in range and one with
  every field out of range; a 30 February, an hour that a 12-hour clock corrects to 0 and one
  that keeps bit 5 there. From those the clock may go on to two odd hours and an odd day. One
  second can pass at any step.
- `MCCart`: bytes of two periods, the fewest that have a first and a last;
  banks of two bytes in the controller, so that the position wraps; a header
  shorter than a bank, and two sectors, so that both banks are copied. After
  booting something else, two transfers of any mode, length and bank: one to be
  aborted or to end, one to follow it. Polls, writes of the buffer and aborts
  are unlimited. PSRAM banks of four places, two to a half; menus of 2 to 9
  places, so one to three banks with every partial first piece; `Luck = 2`
  loads or pieces that are not kept: one that leaves something behind, one after it.
- `MCUpdater`: sectors of two pages and a part that starts in the middle of one
  and ends in the middle of another; both sides of the protected area; images of two
  versions, good, bad in a late part, full, and for another board. `Trouble = 2`
  failures: one interrupts an installation, one the retry.

Fairness:

- `NativeSpi`: weak, for every handler, DMA channel and main-loop step: the
  handlers are short and the hardware works by itself. The console is fair only
  in going on with a command it has begun. It need never begin one.
- `McuIrq`: strong for the card handler, which the RTC interrupt preempts and
  the main loop alternates with; the RTC ticks a thousand times slower than the
  code runs, so it cannot keep the handler from its next step for ever.
- `McuPower`: weak for the main loop, the cable handler and the USB interrupt.
  The last one matters: a request to switch off made by the main loop itself
  (`mcu.c:619` after `tusb_init`) is carried out after the next WFE, and what
  ends that WFE is an interrupt; a powered USB peripheral raises one sooner or
  later (suspend on an idle bus). Cable, shutdown, reset and console are not fair.
- `RtcLink`: weak for the bus clock, the sampling of the busy pin and the MCU's
  handlers, and for a game going on when it is told to. It need not begin.
- `EepromLink`: weak for the clock and for the MCU's two steps, not for the game.
- `Accel`: weak for hardware, handlers and main loop, not for commands or
  shutdown.
- `Ipl0`, `Cart`, `Safe`: weak for the transfer clock, which runs always, for IPL0, which only
  runs or polls, and for a program's reads of the cartridge: it is fetched from
  there, or polls. Nothing else a program may do is fair, and the device need
  not answer.
- `Updater`: weak for the program's steps. The user need not start it.
  `RetrySucceeds` speaks of installations after the last failure.

## 4 The proofs

`NativeSpiProofs` proves, for every set of commands, every FIFO depth and every
argument length the assumptions of `NativeSpi` allow:

- `TypeCorrect`: `Spec => []TypeOK`. The inductive invariant is `TypeInv ==
  TypeOK /\ Sending`: that a console which is sending still has bytes to send
  is needed for `Head` and `Tail` to be bytes. The step is proved in parts, one
  lemma per part of the state (`FlagTypeStep`, `FifoTypeStep`, `BufferTypeStep`,
  `FirmwareTypeStep`, `ConsoleTypeStep`), over the lemmas that a decoded word is
  a command, that a response is a byte string and what queueing does.
- `OwnershipIsExclusive`: `Spec => []OneOwner`, and `TransmitterIsExclusive`:
  `Spec => []OneTransmitter`. Neither is inductive: a DMA flag that is set while
  its channel is off would let the handler hand out a second ownership.
  `OwnerInv == FlagsOwned /\ OneOwner /\ OneTransmitter` adds that a transfer
  complete flag implies its channel is still on.
- `BuffersAreStable`: `Spec => BuffersStable`, an action property, from
  `OwnerInv`: whoever writes a buffer owns it, so nobody else is using it.

- `PairingNeverSlips`: `Spec => []InSync`, and `ServesExactlyOnce`: `Spec =>
  ExactlyOnce`, the whole refinement of `CommandService`, which states no
  fairness. Both need to know where every byte of a request is. `ServiceInv` says
  it in four stages. `Requested`: the bytes in the receive FIFO and those still to
  be sent continue the word at the place (`Arriving`) that the half word, the
  argument channel or the finished command leave off at. `Answering`: what the
  transmit FIFO holds continues the response where the console's bytes leave off
  (`Returning`), and nothing of a next request is on its way. `Switching` and
  `Resting`: only padding is. A byte that is clocked in while another is clocked out
  moves both places by one, which is most of the proof. The refinement then
  follows action by action: only `HostStart`, `ExecuteAndRespond` or `ExecuteMode`,
  and the byte that completes an answer are steps of the service.

Assumptions used: `CommandAssumption`, `FifoAssumption` and the others that
`NativeSpi` declares; TLC evaluates them on `MCNativeSpi`.

`McuPowerProofs` proves, for any number of commands and resets and every set
of identities and types:

- `PortNeedsPower`: `Spec => []UsedOnlyWithPower`. The status alone promises
  too little, since handlers move it between the task's steps: `PortInv` says
  for each step of switching what of the port is already there (`pc = "init"`:
  power, but no stack yet), and what a handler may have made of the status since
  the main loop read it. One step per action.
- `ClockAlwaysFits`: `Spec => []ClockFits`. `RegisterInv` relates each register
  to the write that is next and to the frequency it goes from and to;
  `Settled` says what a finished change leaves. That a change begins settled
  needs that the main loop is not in another one, hence `ClockInv` over `pc` and
  `PortInv` (for what a shutdown interrupts).

- `SaveAlwaysKept`: `Spec => []SaveKept`. `SaveKept` says nothing of the steps in
  which the firmware is still restoring the memory, so it is not inductive.
  `MemoryInv` says what holds in them: memory that differs from what was
  promised has lost its power or need not be kept, and only before the main loop
  is running or after it ended; the identity is beside the clock or, while the
  backup domain is being reset, in the local variable.

- `McuTypes`: `Spec => []TypeOK`. The clock's and the memory's parts follow from
  `RegisterInv` and `MemoryInv`; `FlagInv`, `PlaceInv` and `RestInv` are the others,
  each inductive with what came before.

`McuIrqProofs` proves, for every set of modes, masks and alarm times:

- `TypeCorrect`: `Spec => []TypeOK`, and from it `EdgeNeverLost`: `Spec =>
  []NoLostEdge`. This one is inductive with the types, which it needs where an
  acknowledged value is taken off the status register. The handler's five steps
  are five cases: in each the edge moves from one place that `NoLostEdge` names
  to the next.
- `AlarmAlwaysSetUp`: `Spec => []AlarmSetUp`. `AlarmInv` adds what the hardware
  and the backup register hold at each step of a change of mode, among them those
  of the start after a reset.

`AccelProofs` proves, for samples of any size (`PartsAssumption`):

- `BusIsQuiet`: `Spec => []QuietBus`. `QuietInv` adds that a paused poller has no
  timer, that a control write has the bus to itself, and that with the polling off
  nothing is left to start a transfer: neither the timer nor a tick that is
  pending.
- `SamplesAlwaysWhole`: `Spec => []SamplesWhole`. `DmaInv` is the reason: an
  enabled channel always points to the hidden buffer, also one that a failed
  transfer left on, and what it has stored of this buffer is of the sample being
  sent. That needs `TransferInv` (the bus, the poller's state and the error flag
  belong together) and that no error comes once part of a sample was
  stored; this is where the model's limit lies (bus errors in the data phase,
  section 2). `CopyInv` says that what is copied is the beginning of the
  visible buffer, which stays visible while the interrupt is held off.
- `AccelTypes`: `Spec => []TypeOK`, from `SampleInv`, `FlagInv` and `PlaceInv`.

`SafeProofs` proves, for bytes of any number of clocks, banks of any even size, menus
of every size that the last four banks hold, and every program that `Safe` lets run:

- `NotBusyIsOver`: `SafeSpec => []OverWhenNotBusy`, and `TransfersAlwaysInOrder`:
  `SafeSpec => TransfersInOrder`. Start and end of a transfer are known to the bus
  clock and to the transfer clock at different times, through flip-flops between
  them. `TransferInv` names the four phases there are (`Requested`, `Running`,
  `Ending`, `Ended`) and says for each which of the flip-flops may still differ, so
  that an abort is one of the transfer it was meant for and a byte that ends is
  the next one. `RestInv` adds that IPL1 restarts the FPGA only with the controller
  at rest, so that losing the registers loses no transfer.
- `BootsWhatWasChosen`: `SafeSpec => []LoadsImage`, on top of `TransferInv`. `LoadInv`
  has a stage for each of IPL0's waits: the command that was stored and sent
  (`Choosing`, `Commanding`), the header that comes into the hidden bank (`Heading`,
  `Counting`), then for each buffer the bank that is being filled from the image
  at the flash's position and the one before it, which is complete (`Waiting`,
  `Copying`). That the two banks never are the same is what the flip in
  `ReadNext` and the wait before it are for.
- `FlashWritesByCommand`: `SafeSpec => FlashOnlyByCommand`, an action property.
  `FlashInv` ties the state of the emulation to the last three bytes written
  (`Follows`): after AA 55 A0 and only then the state is `SingleWrite`, and so on
  for each state. That a step leads both on alike is `ByteFollows`, over lemmas
  about sequences of at most three elements. The invariant also says that outside
  of the game and the recovery program's test nothing counts as `clean`.
- `WhatIsEnteredIsWhole`: `SafeSpec => []ProgramInPlace`. `LoaderInv` follows each
  version of IPL1 from the registers' power-on values (nothing writes them
  before; that is why the FPGA's restart is part of it) to its jump. `FileInv`:
  the pieces of the menu that have come lie where `FileStart` says, and those
  left are as many as the counter still has to go, so that the last piece ends at
  the last place of PSRAM. `Verified`: the banks that the safe version has compared,
  which nothing writes until it jumps.
- `FlashTestIsFair`: `SafeSpec => []FlashTestPasses`. `TestInv` ties each line of
  `flash_fsm.c`'s script to the state of the emulation and to the byte of PSRAM that
  the next comparison expects: `OnScript` is that table, `StateAt` and `ByteAt` its
  columns, and `LineByLine` shows that every access leads from one line to the next.
  It needs that the emulation was idle when the test switched it on (`clean`); with
  what a game may leave behind the test of a cartridge in order does fail.
- `CartridgeTypes`: `SafeSpec => []SafeTypeOK`. The types are inductive only beside
  the invariants above: `TransferInv` keeps the position of a transfer inside the
  bank, `LoadInv` makes every byte that comes one of the image and keeps the
  flash's position inside it, and `FileInv`, `FlashInv` and what the recovery program has
  verified keep every position at which PSRAM is written inside the chip.

Assumptions used: `SizeAssumption`, `Ipl0Assumption`, `ImageAssumption`.

`UpdaterProofs` proves, for every set of images and every number of power losses
and failing operations:

- `BadImageInstallsNothing`: `Spec => NothingFromBadImage`, an action property.
  `VerifyInv`: during the first run of the manifest every command before the
  current one was found good, in the second all are; and erasing and writing are
  steps of the second only.
- `UpdaterTypes`: `Spec => []TypeOK`. That an address is a page of the flash needs
  that the current command exists and its span is one of the image (`PlaceInv`).
- `CompleteMeansWhole`: `Spec => []InstalledIsWhole`. `InstallInv` says what holds
  during an installation: the parts before the current command are in their
  flash (`PartsDone`), the current one is as far as the address (`SoFar`), and
  a side whose START_MANIFEST was executed and whose FINISH_MANIFEST was not has
  no complete version block (`BlocksGone`). FINISH writes one, so it needs the
  first; a power loss at any step leaves the flash as it is, so it needs the
  last; a START erases the block of whatever image was there before, since all
  images have it at the same place.

`ManifestAssumption` is what these three need of images: parts between START and
FINISH, sectors of their own, one place for the version block of each side. The
manifests in `src/manifest/*.txt` satisfy it (blocks at 61440 and 323584, the
protected area ending at 262144, splits of 49152 bytes which is twelve sectors);
neither the updater nor the packing tool checks it. TLC evaluates it on the
images of `MCUpdater`.

`EepromLinkProofs` proves, for each of the three sizes of EEPROM, every set of
words and of commands, whichever addresses are watched:

- `LinkComesToRest`: `Spec => []Quiescent`. `LinkInv` follows a command from one
  side to the other: it has arrived (`Arrived`), is half taken (`Half`), is obeyed
  (`Stored`), and its pulse is on the way to the FPGA (`Acknowledged`). The
  shift register of samples and the counter say which of them is possible, so
  that a falling edge is seen only in the last one.
- `CopiesAgree`: `Spec => []Mirror`, assuming that erase-all is expected to erase
  only what its sweep reaches (`Erasable \subseteq 0..17`, finding 3). The sides are
  done at different times: the MCU can be ready before the FPGA's sweep is, or
  after. `CopyInv` says for every address what it holds depending on whether
  the sweep has passed it (`Swept`) and on whether the MCU was told (`Told`).
- `EepromTypes`: `Spec => []TypeOK`, the counter's ten bits included; that it ends at its last value is
  `CountInv`'s.
- `StepsOfAChip`: `Spec => Chip!Init /\ [][Chip!Next]_(Chip!vars)`, the safety part of
  `IsSerialEeprom`, if the watched addresses that erase-all erases are the first 18
  (finding 3). The chip's array is taken to change when the game starts the command
  (`Programmed`), so each cycle of the sweep must be a stutter of it: `CopyInv` is
  what makes the last one so.

Assumptions used: `MaskAssumption`, `WatchedAssumption`, `ErasableAssumption`,
`OperationsAssumption`.

`RtcLinkProofs` proves, for every time and date that the calendar can hold, every
payload of bytes, and a clock that may tick at any step, provided that the MCU has
finished with one command before the game begins the next (`Prompt`; without it
`ReadsBack` is false, section 5):

- `RegistersHoldTimes`: `Spec => []TypeOK`: TR and DR hold what their fields can,
  whatever is written: minutes, seconds, months and years in BCD and in range, hours
  and days cut to six bits. That these are a clock's is not an invariant of the
  code; `PayloadsAreWritten` says when they are.
- `AnswersAreRight`: `Spec => []ReadsBack`. `Stage` follows a command from the
  game's write to the MCU and back. While the MCU reads its two registers
  (`Looking`), each pair it has read is either what the clock had to say at some
  moment of this command, or a time before a full hour with a date after it; and
  then the time can not be read again, because its minute is over (`Missed`). So two
  equal pairs are right. While the answer is sent (`Answering`) what the
  game has, the byte that waits and those in the FIFO are one such answer.
- `PayloadsAreWritten`: `Spec => WritesWhole`. Two things are shown. First, that the
  MCU executes nothing but the game's command with the game's bytes (`CommandDone`):
  by the stage, what it finds in its FIFO between commands (`Resting`) and while it
  answers (`Answering`) is padding, which changes no register; before that (`Called`)
  it is the command itself; and `Taking` says which bytes of the payload are where, so
  that at the end all are in the buffer (`WholePayload`). So no reset and no clearing of
  an alarm, commands without a payload, is one that was not asked for. Second, that
  a tick (`TickValid`) and each command (`ExecuteValid`) keep the hour and the day
  shown, over one lemma for each field that `rtc_write_datetime` corrects
  (`FieldsCorrect`, `HourCorrect`, `DateCorrect`) and one for each direction in which `rtc_write_status`
  converts hours (`To24`, `To12`), except after a payload with an hour that the
  12-hour format does not have, or a day 29 to 31 (section 5).

Assumptions used: `LinkAssumption`, `ClockAssumption` and `OddAssumption`: payloads are
bytes, as many as their command takes, the calendar starts with a time and a date in
its fields, and odd hours and days are six bits.

Only model-checked: liveness everywhere (`EveryCommandCompletes`,
`EdgeSignalled`, `UnplugTurnsOff`, `PauseEnds`, `TransferEnds`, `CommandEnds`,
`RetrySucceeds`, and that the chip of `IsSerialEeprom` becomes ready again), since
temporal reasoning with fairness is out of the prover's reach. Every invariant of
the passing runs is the statement of a theorem.

## 5 Where the code disagrees with what is said of it

Each is a run that TLC finds violated; the counterexample is the scenario.

1. `usb_replug` (`mcu.c:46-58, 606-628`; said at `mcu.h:105-106`). A cable is pulled
   and plugged in again while REQUEST_OFF waits for the power task. The handler
   does nothing in that state, the task switches off and does not look at the
   pin again: the port stays off until the cable moves once more.
2. `mcu_irq_level` (`rtc.c:97`; said at `docs/content/developer/mcu_protocol.md:80`).
   `RTC_TAMP_IRQHandler` called from the main loop reads the time; the real
   interrupt comes and sets the bit; the main loop then writes what it had read.
3. `eeprom_erase_all` (`eeprom.sv:80`; said at
   `docs/content/developer/mapper_emulation.md:8`). The last values of the counter for
   ERASE and ERAL are exchanged: ERAL erases addresses 0 to 0x11 in the FPGA
   and everything in the MCU. `eeprom_link` therefore expects ERAL to erase only
   the addresses it reaches (`Erasable`); that range is all that is wrong with it.
4. `accel_shutdown` (`accel.c:264`; said at `mcu.c:399-400`). A shutdown in a
   handler waits for interrupts of the same or a lower priority.

Observed while modelling, without a run:

- `updater/main.c:250-258` restarts the MCU in its boot loader while verifying
  already; an update that is refused or not confirmed leaves it there, which the
  comment at `main.c:325` wants to avoid.
- The comment at `ipl0.s:147` says that the header's read flips the buffers;
  line 150 does not flip them. Either works: what the command's transfer left in
  the other bank is not used.
- `updater/main.c:416` tests the global `flash_version.partial_install`, not the
  version being printed.
- Power lost between START's erase and its write makes the installed version
  unknown, and the refusal to downgrade from a partial installation
  (`strings.h:54`) no longer applies.
- With `Prompt = FALSE` in `MCRtcLink.cfg` TLC refutes `ReadsBack`: padding that
  the MCU has not yet dealt with is acknowledged during the next command, and
  the FPGA takes that for the command's own acknowledgement.
- In RTC mode with a cable connected and no host the clock is 16 MHz
  (`mcu.c:221-222`), not what the comment at `mcu.c:235-236` asks for.
- A handler of the SPI bus that ends its busy pulse between the oscillator's
  change and that of `busy_pin_delay` makes a pulse for the old frequency
  (`mcu.c:284-336`). `ClockFits` speaks of the time between two changes.
- An identity is lost if the MCU stops while `mcu_reset_backup_domain` has it in a
  local variable (`mcu.c:657-664`); and after a loss of all power GET_SAVE_ID
  answers 0 for the RTC's domain and not the 0xFFFFFFFF of "none".
- A battery pin that falls between `mcu_init`'s check (`mcu.c:453`) and the
  enabling of its interrupt (`mcu.c:494-505`) is not seen until it moves again.
- A reset while the calendar is in its initialisation mode leaves it stopped:
  `mcu_rtc_init` sets up the alarm again but never leaves that mode.
- In the 12-hour format bit 5 of an hour is not masked (`rtc.c:340-346`: 0x20 is
  written as 0x32, and 0x23 stays), and an hour above 0x11 or not in BCD is corrected to 0, which
  the STM32's 12-hour clock does not have. A day up to 0x31 is written in any month
  (the FIXME at `rtc.c:327`). `WritesWhole` excepts exactly these payloads.
- The flash emulation's state is not reset when it is switched on: after AA 55 A0
  the first write passes, and if the fast mode was left on, the recovery
  program's test fails on a cartridge that is in order. `FlashOnlyByCommand`
  and `FlashTestPasses` except exactly these (`clean`). Writes to PSRAM
  through ROM areas bypass the emulation.
- A manufacturing test whose load fails leaves its order in the IPC buffer
  (`safe/main.c:133`): a "launch factory recovery" later runs the tests.
- IPL1 safe does not restart the FPGA with the updated core; the recovery
  program's remedy is inside `#if 0` (`recovery/main.c:568-590`).
- `recovery/ops/tf_card.c`'s `tf_card_test_buffer` tests the constant
  `TEST_BUFFER_WRITE` and not its argument (line 120): it always fills the buffer
  and returns true, so no benchmark ever reports a "data read mismatch".
- A menu larger than 16 MiB would wrap its bank number (`ipl1/src/boot/main.c:161-162`).
- The FPGA's clock multiplexer is stuck if the fast clock is disabled while it is
  selected (`clockmux.sv`).

## 6 What is not modelled

See `components` in `PROJECT.json`. In short:

- Menus, text output, keys and USB descriptors have no state worth a model.
  TinyUSB, FatFs and libnile are submodules that are not in the repository, and
  appear only as external definitions (what the code needs of them).
- Decompression, checksums and the contents of data are abstracted to good or bad.
- The emulated EEPROM's native-mode commands (`eeprom.c:31-83`), the CDC mode of
  the SPI handlers, the ROM bank masks and the choice and switching of the FPGA's
  clocks (`clockmux.sv`) are not in.
- Manual tools of the recovery program (`recovery/ops`): one step at a time by a
  person. Its flashing of the MCU (`mcu_setup.c`) writes no version block by
  design, so `Updater`'s promise does not speak of it, and the MCU boot loader it
  talks to is in ROM.

## 7 The plan

Done: the native protocol and its refinement, the interrupt register, power with
clock and save memory, the EEPROM link and its refinement, the accelerometer, the
clock's commands and link, the updater, and the cartridge from power-on through
all three second boot loaders to a game. Left, in this order:

1. Bus errors in the accelerometer's data phase.
2. The EEPROM's `write_counter` against a console faster than the slow clock.
3. The native EEPROM commands.
4. An abstract specification of a blocking SPI transfer, and the proof that the
   controller implements it.
