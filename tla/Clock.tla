-------------------------------- MODULE Clock --------------------------------
(***************************************************************************)
(* The MCU's clock (mcu.c:161-340): the speed that the SPI bus and the USB *)
(* port ask for, and the way there, in which regulator and flash must keep *)
(* up with the oscillator at every step.  Frequencies are in MHz.  (The    *)
(* I2C bus has no timing for 1 MHz: the accelerometer is off there.)       *)
(***************************************************************************)
EXTENDS Integers

VARIABLES
  msi, latency, vos, lpr, apb,  \* oscillator, flash wait states, voltage scale, low-power run (LPR),
                                \* APB divisor
  timing,                       \* the APB's clock that the I2C bus is timed for
  last_clock_speed, busy_pin_delay,
  k, target,                    \* mcu_update_clock_speed: the step, and what it goes to
  spi_freq, spi_mode            \* what the console asked for

clock == <<msi, latency, vos, lpr, apb, timing, last_clock_speed, busy_pin_delay, k, target>>
spi_config == <<spi_freq, spi_mode>>

Freqs == {"384KHZ", "6MHZ", "24MHZ"}
SpiModes == {"NATIVE", "EEPROM", "RTC", "CDC_OUTPUT"}

\* The registers after a reset and the first update, before the bus is set up.
ClockInit ==
  /\ msi = 8 /\ latency = 0 /\ vos = 2 /\ lpr = 0 /\ apb = 2 /\ timing = 4
  /\ last_clock_speed = 8 /\ busy_pin_delay = 4
  /\ k = 0 /\ target = <<8, 2>>
  /\ spi_freq = "384KHZ" /\ spi_mode = "NATIVE"

ClockReset ==
  /\ msi' = 8 /\ latency' = 0 /\ vos' = 2 /\ lpr' = 0 /\ apb' = 2 /\ timing' = 4
  /\ last_clock_speed' = 8 /\ busy_pin_delay' = 4
  /\ k' = 0 /\ target' = <<8, 2>>
  /\ spi_freq' = "384KHZ" /\ spi_mode' = "NATIVE"

\* The oscillator and the APB's divisor that are asked for, with a USB port that
\* has power or not, and that a host has configured or not.
Wanted(connected, mounted, freq, mode) ==
  CASE freq = "24MHZ"                                               -> <<48, 1>>
    [] freq = "6MHZ" /\ connected                                   -> IF mounted THEN <<48, 1>> ELSE <<24, 1>>
    [] freq = "6MHZ" /\ ~connected                                  -> <<24, 2>>
    [] freq = "384KHZ" /\ connected                                 -> IF mounted THEN <<24, 1>> ELSE <<16, 1>>
    [] freq = "384KHZ" /\ ~connected /\ mode \in {"EEPROM", "CDC_OUTPUT"} -> <<1, 1>>
    [] freq = "384KHZ" /\ ~connected /\ mode = "RTC"                -> <<24, 1>>
    [] freq = "384KHZ" /\ ~connected /\ mode = "NATIVE"             -> <<8, 2>>

\* The call: nothing but the divisor is written if the oscillator stays.
Update(wanted) ==
  /\ target' = wanted
  /\ timing' = wanted[1] \div wanted[2]
  /\ IF wanted[1] = last_clock_speed
     THEN k' = 0 /\ apb' = wanted[2]
     ELSE k' = 1 /\ apb' = apb
  /\ UNCHANGED <<msi, latency, vos, lpr, last_clock_speed, busy_pin_delay>>

HighLatency == target[1] > 24
HighVoltage == target[1] >= 16
HighPower   == target[1] >= 2

\* The iterations, of three cycles, of a busy signal that has ten without them.
Delay(ahb) ==
  LET clocks == (ahb * 1000) \div 384 - 10 IN IF clocks > 0 THEN (clocks + 2) \div 3 ELSE 0

\* Mutant: the regulator is set after the oscillator in both directions.
UpdateStepLate ==
  /\ k > 0
  /\ k' = (k + 1) % 10
  /\ apb'     = IF k = 1 THEN 1 ELSE IF k = 8 THEN target[2] ELSE apb
  /\ lpr'     = IF k = 2 /\ HighPower THEN 0 ELSE IF k = 7 /\ ~HighPower THEN 1 ELSE lpr
  /\ vos'     = IF k = 6 THEN (IF HighVoltage THEN 1 ELSE 2) ELSE vos
  /\ latency' = IF k = 4 /\ HighLatency THEN 1 ELSE IF k = 6 /\ ~HighLatency THEN 0 ELSE latency
  /\ msi'     = IF k = 5 THEN target[1] ELSE msi
  /\ busy_pin_delay'   = IF k = 9 THEN Delay(msi) ELSE busy_pin_delay
  /\ last_clock_speed' = IF k = 9 THEN msi ELSE last_clock_speed
  /\ UNCHANGED <<target, timing>>

\* The writes of mcu_update_clock_speed, one by one.  What a faster clock needs
\* comes before the oscillator (5), what a slower one allows after it.
UpdateStep ==
  /\ k > 0
  /\ k' = (k + 1) % 10
  /\ apb'     = IF k = 1 THEN 1 ELSE IF k = 8 THEN target[2] ELSE apb
  /\ lpr'     = IF k = 2 /\ HighPower THEN 0 ELSE IF k = 8 /\ ~HighPower THEN 1 ELSE lpr
  /\ vos'     = IF k = 3 /\ HighVoltage THEN 1 ELSE IF k = 7 /\ ~HighVoltage THEN 2 ELSE vos
  /\ latency' = IF k = 4 /\ HighLatency THEN 1 ELSE IF k = 6 /\ ~HighLatency THEN 0 ELSE latency
  /\ msi'     = IF k = 5 THEN target[1] ELSE msi
  /\ busy_pin_delay'   = IF k = 9 THEN Delay(msi) ELSE busy_pin_delay
  /\ last_clock_speed' = IF k = 9 THEN msi ELSE last_clock_speed
  /\ UNCHANGED <<target, timing>>

-----------------------------------------------------------------------------
(* What the hardware allows (the STM32U0's data sheet).                    *)

Allowed ==
  IF lpr = 1 THEN 2
  ELSE IF vos = 2 THEN 8
  ELSE IF latency = 0 THEN 24 ELSE 48

\* The busy signal lasts a period of the FPGA's 384 kHz, which samples it.
PulseLongEnough == (10 + 3 * busy_pin_delay) * 384 >= msi * 1000

ClockTypeOK ==
  /\ msi \in {1, 8, 16, 24, 48} /\ latency \in {0, 1} /\ vos \in {1, 2} /\ lpr \in {0, 1}
  /\ apb \in {1, 2} /\ timing \in {1, 4, 12, 16, 24, 48} /\ k \in 0..9 /\ last_clock_speed \in {1, 8, 16, 24, 48}
  /\ spi_freq \in Freqs /\ spi_mode \in SpiModes
=============================================================================
