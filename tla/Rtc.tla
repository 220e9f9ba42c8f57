--------------------------------- MODULE Rtc ---------------------------------
(***************************************************************************)
(* The MCU's real-time clock as an S-3511A (rtc.c:31-83, 177-445): the     *)
(* calendar registers of the STM32, which count by themselves, and what    *)
(* each command of the S-3511A does to them.  Bytes are numbers, in BCD    *)
(* where the chip's are; the alarm's output is in McuIrq.                  *)
(*                                                                         *)
(* Not every hour or day that a game may leave in the registers is one of  *)
(* a clock's, and what the STM32 counts to from there its manual does not  *)
(* say: it is one of OddHours, or of OddDays.                              *)
(***************************************************************************)
EXTENDS Integers, Sequences

CONSTANTS OddHours, OddDays

ASSUME OddAssumption == OddHours \subseteq 0..\h3F /\ OddDays \subseteq 0..\h3F

VARIABLES
  configured,  \* a clock source is selected: rtc_is_configured
  fmt,         \* RTC_CR_FMT: the hours are those of a 12-hour clock
  tr,          \* RTC->TR
  dr,          \* RTC->DR
  alarm_mode,  \* TAMP->BKP0R
  alarm        \* TAMP->BKP1R

calendar == <<configured, fmt, tr, dr, alarm_mode, alarm>>

S3511A_AMPM       == \h80
S3511A_POWER_LOST == \h80
S3511A_1224       == \h40
Bit(b, bit) == IF b THEN bit ELSE 0
Has(v, bit) == (v \div bit) % 2 = 1
AlarmBits(v) == Bit(Has(v, \h20), \h20) + Bit(Has(v, \h08), \h08) + Bit(Has(v, \h02), \h02)

\* The registers of the backup domain after its reset ...
UnsetTime == [pm |-> FALSE, hour |-> 0, min |-> 0, sec |-> 0]
UnsetDate == [year |-> 0, month |-> 1, day |-> 1, dow |-> 1]
\* ... and after rtc_reset.
ResetTime == [UnsetTime EXCEPT !.hour = \h12]
ResetDate == [UnsetDate EXCEPT !.dow = 7]

rtc_reset ==
  /\ configured' = TRUE /\ fmt' = TRUE
  /\ tr' = ResetTime /\ dr' = ResetDate
  /\ alarm_mode' = 0 /\ alarm' = <<0, 0>>

-----------------------------------------------------------------------------
(* What the registers are: fields of so many bits, each two digits.  A     *)
(* clock shows less: no 00:30 in the 12-hour format, and no 31 February.   *)

Bcd(v) == v % 16 <= 9 /\ v \div 16 <= 9

IsTime(t) ==
  /\ t \in [pm : BOOLEAN, hour : 0..\h3F, min : 0..\h59, sec : 0..\h59 \cup {\h7F}]
  /\ \A v \in {t.min, t.sec} \ {\h7F} : Bcd(v)

IsDate(d) ==
  /\ d \in [year : 0..\h99, month : 1..\h12, day : 0..\h3F, dow : 1..7]
  /\ Bcd(d.year) /\ Bcd(d.month)

\* The calendar knows the months.
LastDay(d) ==
  CASE d.month \in {4, 6, 9, \h11} -> \h30
    [] d.month = 2               -> IF (10 * (d.year \div 16) + (d.year % 16)) % 4 = 0 THEN \h29 ELSE \h28
    [] OTHER                     -> \h31

ShowsHour(format, h) == Bcd(h) /\ h \in (IF format THEN 1..\h12 ELSE 0..\h23)
ShowsDay(d) == Bcd(d.day) /\ d.day \in 1..LastDay(d)

HourShown == ShowsHour(fmt, tr.hour)
DayShown == ShowsDay(dr)

\* The hour of the day, whatever the format.
HourOfDay ==
  LET h == 10 * (tr.hour \div 16) + (tr.hour % 16) IN
  IF fmt THEN (h % 12) + Bit(tr.pm, 12) ELSE h

-----------------------------------------------------------------------------
(* Time passes.  Of the seconds, only the last one of an hour counts here: *)
(* after it comes the next hour, and after the last hour the next day.     *)

BcdNext(v) == IF v % 16 = 9 THEN v + 7 ELSE v + 1

NextHour ==
  IF fmt
  THEN [pm   |-> (tr.pm # (tr.hour = \h11)),
        hour |-> IF tr.hour = \h12 THEN 1 ELSE BcdNext(tr.hour), min |-> 0, sec |-> 0]
  ELSE [tr EXCEPT !.hour = IF @ = \h23 THEN 0 ELSE BcdNext(@), !.min = 0, !.sec = 0]

LastHour == IF fmt THEN tr.pm /\ tr.hour = \h11 ELSE tr.hour = \h23

NextDay ==
  LET dow == 1 + (dr.dow % 7) IN
  CASE dr.day < LastDay(dr)                    -> [dr EXCEPT !.day = BcdNext(@), !.dow = dow]
    [] dr.day >= LastDay(dr) /\ dr.month < \h12 -> [dr EXCEPT !.day = 1, !.month = BcdNext(@), !.dow = dow]
    [] OTHER -> [year |-> IF dr.year = \h99 THEN 0 ELSE BcdNext(dr.year), month |-> 1, day |-> 1, dow |-> dow]

\* What may follow: after an odd hour, whether the day ends is open, too.
NextTimes ==
  IF HourShown THEN {NextHour} ELSE [pm : BOOLEAN, hour : OddHours, min : {0}, sec : {0}]

NextDates ==
  {NextDay} \cup (IF DayShown THEN {} ELSE {[dr EXCEPT !.day = d] : d \in OddDays})

Tick ==
  /\ configured /\ tr.min = \h59 /\ tr.sec = \h59
  /\ tr' \in NextTimes
  /\ \/ HourShown /\ ~LastHour /\ dr' = dr
     \/ HourShown /\ LastHour /\ dr' \in NextDates
     \/ ~HourShown /\ dr' \in {dr} \cup NextDates
  /\ UNCHANGED <<configured, fmt, alarm_mode, alarm>>

-----------------------------------------------------------------------------
(* The commands.                                                           *)

\* rtc_start_command_rx: how many bytes follow a command ...
CommandLength(cmd) ==
  CASE cmd = 2 -> 1 [] cmd = 4 -> 7 [] cmd = 6 -> 3 [] cmd \in {8, 10} -> 2 [] OTHER -> 0

\* ... and rtc_finish_command_rx: how many answer it.
AnswerLength(cmd) ==
  CASE cmd = 3 -> 1 [] cmd = 5 -> 7 [] cmd = 7 -> 3 [] cmd \in {9, 11} -> 2 [] OTHER -> 0

\* Only a change of these registers waits for the clock's initialisation mode.
NeedsClock(cmd, rx) == cmd \in {4, 6} \/ (cmd = 2 /\ fmt = Has(rx[1], S3511A_1224))

\* The two conversions of rtc_write_status, in BCD.
Hour24(t) ==
  CASE t.hour = \h12           -> IF t.pm THEN \h12 ELSE 0
    [] t.hour # \h12 /\ t.pm   -> (t.hour + IF t.hour \in {\h08, \h09} THEN \h18 ELSE \h12) % \h40
    [] OTHER                   -> t.hour

Hour12(t) ==
  CASE t.hour = 0    -> \h12
    [] t.hour > \h12 -> t.hour - IF t.hour \in {\h20, \h21} THEN \h18 ELSE \h12
    [] OTHER         -> t.hour

rtc_write_status(value) ==
  LET to12 == ~Has(value, S3511A_1224) IN
  /\ fmt' = to12
  /\ tr' = CASE fmt /\ ~to12 -> [tr EXCEPT !.hour = Hour24(tr), !.pm = FALSE]
             [] ~fmt /\ to12 -> [tr EXCEPT !.hour = Hour12(tr), !.pm = tr.hour >= \h12]
             [] OTHER        -> tr
  /\ alarm_mode' = AlarmBits(value)
  /\ UNCHANGED <<configured, dr, alarm>>

\* A status read after the backup power was lost resets the clock first.
ReadStatus ==
  IF configured
  THEN Bit(~fmt, S3511A_1224) + alarm_mode
  ELSE S3511A_POWER_LOST

rtc_read_status == IF configured THEN UNCHANGED calendar ELSE rtc_reset

\* rtc_range_correct, with a mask of all the bits below "mask".
RangeCorrect(v, min, max, mask) ==
  LET low == v % mask IN
  IF low > max \/ low < min \/ (mask > 15 /\ v % 16 > 9) THEN v - low + min ELSE v

\* Mutant: every hour is corrected as one of a 24-hour clock.
WriteHour24(v) == RangeCorrect(v, 0, \h23, \h40)

WriteHour(v) ==
  CASE fmt /\ v % 32 = 0 -> v + \h12
    [] fmt /\ v % 32 # 0 -> RangeCorrect(v, 0, \h11, \h20)
    [] OTHER             -> RangeCorrect(v, 0, \h23, \h40)

\* Mutant: seconds are not corrected.
WriteSecondAsIs(v) == v % 128

WriteSecond(v) ==
  IF v % 128 # \h7F /\ (v % 128 >= \h60 \/ v % 16 > 9) THEN \h59 ELSE v % 128

WriteTime(b) ==
  [pm |-> Has(b[1], S3511A_AMPM), hour |-> WriteHour(b[1]) % \h40,
   min |-> RangeCorrect(b[2], 0, \h59, \h80) % \h80, sec |-> WriteSecond(b[3])]

WriteDate(b) ==
  LET dow == RangeCorrect(b[4], 0, 6, 8) % 8 IN
  [year  |-> RangeCorrect(b[1], 0, \h99, \h100), month |-> RangeCorrect(b[2], 1, \h12, \h20) % \h20,
   day   |-> RangeCorrect(b[3], 1, \h31, \h40) % \h40, dow |-> IF dow = 0 THEN 7 ELSE dow]

rtc_write_datetime(buffer, date) ==
  /\ tr' = WriteTime(IF date THEN SubSeq(buffer, 5, 7) ELSE buffer)
  /\ dr' = IF date THEN WriteDate(buffer) ELSE dr
  /\ UNCHANGED <<configured, fmt, alarm_mode, alarm>>

\* rtc_hour_mcu_to_rtc: noon and midnight are hour 0, and AM/PM is always told.
ReadHour(t) ==
  IF fmt
  THEN (IF t.hour = \h12 THEN 0 ELSE t.hour) + Bit(t.pm, S3511A_AMPM)
  ELSE t.hour + Bit(t.hour >= \h12, S3511A_AMPM)

\* What rtc_read_datetime makes of the two registers.
DateTimeBytes(t, d, date) ==
  (IF date THEN <<d.year, d.month, d.day, d.dow % 7>> ELSE << >>) \o <<ReadHour(t), t.min, t.sec>>

rtc_write_alarm(value) ==
  /\ alarm' = value
  /\ UNCHANGED <<configured, fmt, tr, dr, alarm_mode>>

\* The commands that are done in a step; those that read the time are not.
Execute(cmd, rx) ==
  CASE cmd \in {0, 1}  -> rtc_reset
    [] cmd = 2         -> rtc_write_status(rx[1])
    [] cmd = 3         -> rtc_read_status
    [] cmd \in {4, 6}  -> rtc_write_datetime(rx, cmd = 4)
    [] cmd = 8         -> rtc_write_alarm(rx)
    [] cmd = 9         -> rtc_write_alarm(<<\hFF, \hFF>>)
    [] OTHER           -> UNCHANGED calendar

Answer(cmd) ==
  CASE cmd = 3         -> <<ReadStatus>>
    [] cmd \in {9, 11} -> <<\hFF, \hFF>>
    [] OTHER           -> << >>
=============================================================================
