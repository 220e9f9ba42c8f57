---------------------------- MODULE RtcLinkProofs ----------------------------
(***************************************************************************)
(* Proofs about the clock of a game: for every time, date and payload, if  *)
(* the MCU is given the time to finish before the next command.            *)
(***************************************************************************)
EXTENDS RtcLink, SequenceTheorems, TLAPS

-----------------------------------------------------------------------------
(* The commands.                                                           *)

WriteCommands == {2, 4, 6, 8, 10}
ReadCommands == {3, 5, 7, 9, 11}
Length(c) == CommandLength(c) + AnswerLength(c)

LEMMA WriteLengths ==
  ASSUME NEW c \in WriteCommands
  PROVE  CommandLength(c) \in 1..7 /\ AnswerLength(c) = 0 /\ ~Read(c) /\ Answer(c) = << >>
  BY DEF WriteCommands, CommandLength, AnswerLength, Read, Answer

LEMMA ReadLengths ==
  ASSUME NEW c \in ReadCommands
  PROVE  CommandLength(c) = 0 /\ AnswerLength(c) \in 1..7 /\ Read(c)
  BY DEF ReadCommands, CommandLength, AnswerLength, Read

LEMMA OtherLengths ==
  ASSUME NEW c \in {0, 1, Pad % 16}
  PROVE  CommandLength(c) = 0 /\ AnswerLength(c) = 0 /\ Answer(c) = << >>
  BY DEF CommandLength, AnswerLength, Answer, Pad

LEMMA AllCommands ==
  /\ Commands = {0, 1} \cup WriteCommands \cup ReadCommands
  /\ \A c \in Commands : Length(c) \in 0..7 /\ c % 16 = c
<1>1. Commands = {0, 1} \cup WriteCommands \cup ReadCommands
  BY DEF Commands, WriteCommands, ReadCommands
<1>2. ASSUME NEW c \in Commands PROVE Length(c) \in 0..7 /\ c % 16 = c
  <2>1. c \in 0..11 /\ c % 16 = c
    BY DEF Commands
  <2> QED
    BY <1>1, <2>1, WriteLengths, ReadLengths, OtherLengths DEF Length
<1> QED
  BY <1>1, <1>2

-----------------------------------------------------------------------------
(* The invariant.                                                          *)

\* The MCU waits for a command.
McuIdle ==
  /\ mcu = "idle" /\ rx_left = 0 /\ rx_buffer = << >> /\ rtc_curr_cmd = 0 /\ read = None
  /\ rxne <=> ~tx_dma

Nothing == rx_fifo = << >> /\ tx = << >> /\ ~tx_dma

\* Between two commands: padding may not be dealt with yet.
Resting ==
  /\ game = "idle" /\ state = "Idle" /\ ~start /\ ~busy
  /\ McuIdle /\ tx = << >> /\ rx_fifo \in Seq({Pad}) /\ Len(rx_fifo) <= Fifo

\* For a command that reads the time, now is one of the right moments.
NowRight == cmd \in {5, 7} => DateTimeBytes(tr, dr, cmd = 5) \in moments

FirstByte == cmd \in WriteCommands => data = given[1]

Beginning ==
  /\ game = "command" /\ ~ready /\ n = 1 /\ got = << >>
  /\ pulses = 0 /\ FirstByte /\ NowRight

\* The game has begun a command, ...
Calling ==
  /\ Beginning
  /\ \/ state = "Idle" /\ start /\ ~busy
     \/ state \in {"LowerCS", "SendCmd"} /\ ~start /\ busy
  /\ state = "SendCmd" => shiftreg = cmd /\ ~falling_edge_registered
  /\ McuIdle /\ Nothing

\* ... it is in the MCU, ...
AfterCommand == IF cmd \in {0, 1} THEN "RaiseCS" ELSE "WaitCmdAck"

Called ==
  /\ Beginning /\ ~start /\ busy /\ state = AfterCommand /\ ~falling_edge_registered
  /\ McuIdle /\ rx_fifo = <<cmd>> /\ tx = << >> /\ ~tx_dma

\* ... which looks at the clock.  A pair that was of no moment is never read
\* again: the minute is over.
Missed(t) == t.min = \h59 /\ tr.min # \h59

Looking ==
  /\ Beginning /\ ~start /\ busy /\ state = AfterCommand /\ ~falling_edge_registered
  /\ cmd \in {5, 7} /\ rtc_curr_cmd = cmd
  /\ Nothing /\ rx_left = 0 /\ rx_buffer = << >> /\ ~rxne
  /\ mcu \in {"TR", "DR"} /\ read = <<read[1], read[2]>>
  /\ mcu = "DR" => read[1] = tr \/ Missed(read[1])
  /\ read[2] # << >> => /\ read[2] = <<read[2][1], read[2][2]>>
                        /\ \/ DateTimeBytes(read[2][1], read[2][2], cmd = 5) \in moments
                           \/ Missed(read[2][1]) /\ (mcu = "DR" => read[1] # read[2][1])

\* The answer: what the game has read, the byte that waits for it, and those
\* still to be sent.
ByteWaits == (state \in {"WaitNextData", "Idle"} /\ ready) \/ state = "RaiseCS"

AnswerIs(a) ==
  /\ Len(a) = Length(cmd) /\ Len(tx) <= Len(a) /\ Len(got) <= Len(a)
  /\ \A k \in 1..Len(got) : got[k] = a[k]
  /\ ByteWaits => Len(got) < Len(a) /\ data = a[Len(got) + 1]
  /\ \A k \in 1..Len(tx) : tx[k] = a[Len(a) - Len(tx) + k]

Places ==
  CASE state = "WaitCmdAck"   -> busy /\ ~ready /\ n = 1 /\ Len(got) = 0 /\ Len(tx) = Length(cmd)
    [] state = "SendData"     -> busy /\ ~ready /\ n \in 1..Length(cmd) /\ Len(got) = n - 1 /\ Len(tx) = Length(cmd) - n + 1
    [] state = "WaitNextData" -> busy /\ n \in 2..Length(cmd) /\ Len(got) = n - (IF ready THEN 2 ELSE 1)
                                 /\ Len(tx) = Length(cmd) - n + 1
    [] state = "RaiseCS"      -> busy /\ ~ready /\ n \in 1..Length(cmd) /\ Len(got) = Length(cmd) - 1 /\ Len(tx) = 0
    [] state = "Idle"         -> ~busy /\ n = 0 /\ Len(got) = Length(cmd) - (IF ready THEN 1 ELSE 0) /\ Len(tx) = 0
    [] OTHER                  -> FALSE

Answering ==
  /\ game = "command" /\ ~start /\ cmd \in ReadCommands
  /\ McuIdle /\ rx_fifo \in Seq({Pad}) /\ Len(rx_fifo) <= Fifo
  /\ Places /\ (state = "SendData" => shiftreg = Pad)
  /\ \E a \in moments : AnswerIs(a)

\* The payload: what the MCU has, and what it waits for.
Taken(sent) == Len(rx_buffer) = sent /\ rx_left = Length(cmd) - sent

Taking ==
  /\ game = "command" /\ ~start /\ busy /\ cmd \in WriteCommands
  /\ mcu = "receive" /\ rtc_curr_cmd = cmd /\ read = None /\ ~rxne
  /\ Nothing
  /\ \A k \in 1..Len(rx_buffer) : rx_buffer[k] = given[k]
  /\ \/ /\ state = "WaitCmdAck" /\ ~ready /\ n = 1 /\ data = given[1] /\ Taken(0)
        /\ pulses = 1 - (IF falling_edge_registered THEN 1 ELSE 0)
     \/ /\ pulses = 0 /\ ~falling_edge_registered
        /\ \/ state = "SendData" /\ ~ready /\ n \in 1..Length(cmd) /\ shiftreg = given[n] /\ Taken(n - 1)
           \/ state = "WaitNextData" /\ n \in 2..Length(cmd) /\ (~ready => data = given[n]) /\ Taken(n - 1)
           \/ state = "RaiseCS" /\ ~ready /\ n \in 1..Length(cmd) /\ Taken(Length(cmd))

\* It was done, ...
Obeyed ==
  /\ game = "command" /\ ~start /\ cmd \in {0, 1} \cup WriteCommands
  /\ McuIdle /\ Nothing
  /\ (state = "RaiseCS" /\ busy /\ ~ready /\ n \in 1..7) \/ (state = "Idle" /\ ~busy /\ n = 0)

\* ... or never will be.
Stuck ==
  /\ game = "command" /\ ~start /\ busy /\ state = "RaiseCS" /\ ~ready /\ n \in 1..7
  /\ mcu = "hung" /\ rx_left = 0 /\ rx_buffer = << >> /\ Nothing
  /\ pulses = 0 /\ ~falling_edge_registered

Stage == Resting \/ Calling \/ Called \/ Looking \/ Answering \/ Taking \/ Obeyed \/ Stuck

CalendarInv ==
  configured \in BOOLEAN /\ fmt \in BOOLEAN /\ IsTime(tr) /\ IsDate(dr) /\ alarm_mode \in 0..63

Flags ==
  /\ start \in BOOLEAN /\ busy \in BOOLEAN /\ ready \in BOOLEAN
  /\ falling_edge_registered \in BOOLEAN /\ rxne \in BOOLEAN /\ tx_dma \in BOOLEAN

Numbers ==
  /\ n \in 0..7 /\ cmd \in Commands /\ rtc_curr_cmd \in 0..15 /\ pulses \in Nat
  /\ data \in 0..255 /\ shiftreg \in 0..255 /\ rx_left \in 0..7

Sequences ==
  rx_fifo \in Seq(0..255) /\ rx_buffer \in Seq(0..255) /\ tx \in Seq(0..255) /\ got \in Seq(0..255)

Answers == \A a \in moments : a \in Seq(0..255) /\ Len(a) = Length(cmd)

Gift ==
  /\ given \in Seq(0..255)
  /\ game = "command" => Len(given) = CommandLength(cmd)

RegisterInv == Flags /\ Numbers /\ Sequences /\ Answers /\ Gift

LinkInv == CalendarInv /\ RegisterInv /\ Stage

-----------------------------------------------------------------------------
(* Time passes.                                                            *)

\* A number of two digits, and the next.
LEMMA NextNumber ==
  ASSUME NEW v \in 0..\h98, Bcd(v)
  PROVE  BcdNext(v) \in 1..\h99 /\ Bcd(BcdNext(v)) /\ BcdNext(v) > v /\ (v < 9 => BcdNext(v) <= 9)
  BY DEF Bcd, BcdNext

LEMMA NextBelow ==
  ASSUME NEW v \in 0..\h98, Bcd(v)
  PROVE  /\ v < \h12 => BcdNext(v) <= \h12
         /\ v < \h23 => BcdNext(v) <= \h23
         /\ v < \h28 => BcdNext(v) <= \h28
         /\ v < \h29 => BcdNext(v) <= \h29
         /\ v < \h30 => BcdNext(v) <= \h30
         /\ v < \h31 => BcdNext(v) <= \h31
  BY DEF Bcd, BcdNext

\* An hour that a clock shows is followed by another.
LEMMA NextHourShown ==
  ASSUME CalendarInv, HourShown
  PROVE  IsTime(NextHour) /\ NextHour.min = 0 /\ ShowsHour(fmt, NextHour.hour)
<1>1. /\ tr \in [pm : BOOLEAN, hour : 0..\h3F, min : 0..\h59, sec : 0..\h7F]
      /\ fmt \in BOOLEAN /\ Bcd(tr.hour) /\ tr.hour \in (IF fmt THEN 1..\h12 ELSE 0..\h23)
  BY DEF CalendarInv, IsTime, HourShown, ShowsHour
<1>2. Bcd(0) /\ Bcd(1)
  BY DEF Bcd
<1>3. CASE fmt
  <2>1. PICK h : h = IF tr.hour = \h12 THEN 1 ELSE BcdNext(tr.hour)
    OBVIOUS
  <2>2. h \in 1..\h12 /\ Bcd(h)
    <3>1. PICK v : v = tr.hour
      OBVIOUS
    <3>2. v \in 0..\h98 /\ Bcd(v) /\ v <= \h12
      BY <1>1, <1>3, <3>1
    <3>3. v < \h12 => BcdNext(v) \in 1..\h99 /\ Bcd(BcdNext(v)) /\ BcdNext(v) <= \h12
      BY <3>2, NextNumber, NextBelow
    <3>4. h = IF v = \h12 THEN 1 ELSE BcdNext(v)
      BY <2>1, <3>1
    <3> QED
      BY <1>2, <3>2, <3>3, <3>4
  <2>3. (tr.pm # (tr.hour = \h11)) \in BOOLEAN
    OBVIOUS
  <2>4. NextHour = [pm |-> (tr.pm # (tr.hour = \h11)), hour |-> h, min |-> 0, sec |-> 0]
    BY <1>3, <2>1 DEF NextHour
  <2> QED
    BY <1>2, <1>3, <2>2, <2>3, <2>4 DEF IsTime, ShowsHour
<1>4. CASE ~fmt
  <2>1. PICK h : h = IF tr.hour = \h23 THEN 0 ELSE BcdNext(tr.hour)
    OBVIOUS
  <2>2. h \in 0..\h23 /\ Bcd(h)
    <3>1. PICK v : v = tr.hour
      OBVIOUS
    <3>2. v \in 0..\h98 /\ Bcd(v) /\ v <= \h23
      BY <1>1, <1>4, <3>1
    <3>3. v < \h23 => BcdNext(v) \in 1..\h99 /\ Bcd(BcdNext(v)) /\ BcdNext(v) <= \h23
      BY <3>2, NextNumber, NextBelow
    <3>4. h = IF v = \h23 THEN 0 ELSE BcdNext(v)
      BY <2>1, <3>1
    <3> QED
      BY <1>2, <3>2, <3>3, <3>4
  <2>3. NextHour = [pm |-> tr.pm, hour |-> h, min |-> 0, sec |-> 0]
    BY <1>1, <1>4, <2>1 DEF NextHour
  <2> QED
    BY <1>1, <1>2, <1>4, <2>2, <2>3 DEF IsTime, ShowsHour
<1> QED
  BY <1>1, <1>3, <1>4

\* A day is followed by one in the fields of the register; a day of the month
\* by such a day.
LEMMA NextDayShown ==
  ASSUME CalendarInv
  PROVE  IsDate(NextDay) /\ (DayShown => ShowsDay(NextDay))
<1>1. /\ dr \in [year : 0..\h99, month : 1..\h12, day : 0..\h3F, dow : 1..7]
      /\ Bcd(dr.year) /\ Bcd(dr.month)
  BY DEF CalendarInv, IsDate
<1>2. PICK w : w = 1 + (dr.dow % 7)
  OBVIOUS
<1>3. w \in 1..7
  BY <1>1, <1>2
<1>4. \A d : LastDay(d) \in {\h28, \h29, \h30, \h31}
  BY DEF LastDay
<1>5. Bcd(1) /\ Bcd(0)
  BY DEF Bcd
<1>6. CASE dr.day < LastDay(dr)
  <2>1. PICK v : v = dr.day
    OBVIOUS
  <2>2. v \in 0..\h30 /\ v < LastDay(dr)
    BY <1>1, <1>4, <1>6, <2>1
  <2>3. PICK u : u = BcdNext(v)
    OBVIOUS
  <2>4. u \in 0..\h3F
    BY <2>2, <2>3 DEF BcdNext
  <2>5. NextDay = [dr EXCEPT !.day = u, !.dow = w]
    BY <1>1, <1>2, <1>4, <1>6, <2>1, <2>3 DEF NextDay
  <2>6. NextDay = [year |-> dr.year, month |-> dr.month, day |-> u, dow |-> w]
    BY <1>1, <2>5
  <2>7. IsDate(NextDay)
    BY <1>1, <1>3, <2>4, <2>6 DEF IsDate
  <2>8. ASSUME DayShown PROVE ShowsDay(NextDay)
    <3>1. Bcd(v)
      BY <2>1, <2>8 DEF DayShown, ShowsDay
    <3>2. PICK l : l = LastDay(dr)
      OBVIOUS
    <3>3. u \in 1..\h99 /\ Bcd(u)
      BY <2>2, <2>3, <3>1, NextNumber
    <3>4. v < l => u <= l
      BY <1>4, <2>2, <2>3, <3>1, <3>2, NextBelow
    <3>5. LastDay(NextDay) = l
      BY <2>6, <3>2 DEF LastDay
    <3> QED
      BY <1>4, <2>2, <2>6, <3>2, <3>3, <3>4, <3>5 DEF ShowsDay
  <2> QED
    BY <2>7, <2>8
<1>7. CASE dr.day >= LastDay(dr) /\ dr.month < \h12
  <2>1. PICK v : v = dr.month
    OBVIOUS
  <2>2. v \in 0..\h98 /\ Bcd(v) /\ v < \h12
    BY <1>1, <1>7, <2>1
  <2>3. PICK m : m = BcdNext(v)
    OBVIOUS
  <2>4. m \in 1..\h12 /\ Bcd(m)
    <3>1. m \in 1..\h99 /\ Bcd(m)
      BY <2>2, <2>3, NextNumber
    <3>2. m <= \h12
      BY <2>2, <2>3, NextBelow, ZenonT(30)
    <3> QED
      BY <3>1, <3>2
  <2>5. ~(dr.day < LastDay(dr))
    BY <1>1, <1>4, <1>7
  <2>6. NextDay = [dr EXCEPT !.day = 1, !.month = m, !.dow = w]
    BY <1>2, <1>7, <2>1, <2>3, <2>5 DEF NextDay
  <2>7. NextDay = [year |-> dr.year, month |-> m, day |-> 1, dow |-> w]
    BY <1>1, <2>6
  <2>8. LastDay(NextDay) \in {\h28, \h29, \h30, \h31}
    BY <1>4
  <2> QED
    BY <1>1, <1>3, <1>5, <2>4, <2>7, <2>8 DEF IsDate, ShowsDay
<1>8. CASE ~(dr.day < LastDay(dr)) /\ ~(dr.day >= LastDay(dr) /\ dr.month < \h12)
  <2>1. PICK y : y = IF dr.year = \h99 THEN 0 ELSE BcdNext(dr.year)
    OBVIOUS
  <2>2. y \in 0..\h99 /\ Bcd(y)
    BY <1>1, <1>5, <2>1, NextNumber, SMTT(30)
  <2>3. NextDay = [year |-> y, month |-> 1, day |-> 1, dow |-> w]
    BY <1>2, <1>8, <2>1 DEF NextDay
  <2>4. LastDay(NextDay) \in {\h28, \h29, \h30, \h31}
    BY <1>4
  <2> QED
    BY <1>3, <1>5, <2>2, <2>3, <2>4 DEF IsDate, ShowsDay
<1> QED
  BY <1>6, <1>7, <1>8

LEMMA TickValid ==
  ASSUME CalendarInv, Tick
  PROVE  /\ CalendarInv' /\ tr.min = \h59 /\ tr'.min = 0
         /\ (HourShown => HourShown') /\ (DayShown => DayShown')
<1>1. /\ fmt \in BOOLEAN /\ fmt' = fmt /\ configured' = configured /\ alarm_mode' = alarm_mode
      /\ tr' \in NextTimes /\ tr.min = \h59
      /\ dr' \in {dr} \cup NextDates
  BY DEF Tick, CalendarInv
<1>2. IsTime(tr') /\ tr'.min = 0
  <2>1. CASE HourShown
    <3>1. tr' = NextHour
      BY <1>1, <2>1 DEF NextTimes
    <3> QED
      BY <2>1, <3>1, NextHourShown
  <2>2. CASE ~HourShown
    <3>1. tr' \in [pm : BOOLEAN, hour : OddHours, min : {0}, sec : {0}]
      BY <1>1, <2>2 DEF NextTimes
    <3>2. tr' \in [pm : BOOLEAN, hour : 0..\h3F, min : {0}, sec : {0}]
      BY <3>1, OddAssumption
    <3>3. Bcd(0)
      BY DEF Bcd
    <3> QED
      BY <3>2, <3>3 DEF IsTime
  <2> QED
    BY <2>1, <2>2
<1>3. HourShown => HourShown'
  <2> SUFFICES ASSUME HourShown PROVE ShowsHour(fmt', tr'.hour)
    BY DEF HourShown
  <2>1. tr' = NextHour
    BY <1>1 DEF NextTimes
  <2> QED
    BY <1>1, <2>1, NextHourShown
<1>4. IsDate(dr') /\ (DayShown => DayShown')
  <2>1. CASE dr' = dr
    BY <2>1 DEF CalendarInv, DayShown
  <2>2. CASE dr' = NextDay
    BY <2>2, NextDayShown DEF DayShown
  <2>3. CASE ~DayShown /\ \E d \in OddDays : dr' = [dr EXCEPT !.day = d]
    <3>1. PICK d \in OddDays : dr' = [dr EXCEPT !.day = d]
      BY <2>3
    <3>2. d \in 0..\h3F
      BY OddAssumption
    <3>3. /\ dr \in [year : 0..\h99, month : 1..\h12, day : 0..\h3F, dow : 1..7]
          /\ Bcd(dr.year) /\ Bcd(dr.month)
      BY DEF CalendarInv, IsDate
    <3>4. dr' = [year |-> dr.year, month |-> dr.month, day |-> d, dow |-> dr.dow]
      BY <3>1, <3>3
    <3> QED
      BY <2>3, <3>2, <3>3, <3>4 DEF IsDate
  <2> QED
    BY <1>1, <2>1, <2>2, <2>3 DEF NextDates
<1> QED
  BY <1>1, <1>2, <1>3, <1>4 DEF CalendarInv

-----------------------------------------------------------------------------
(* What the commands write.                                                *)

LEMMA FieldsCorrect ==
  ASSUME NEW v \in 0..255
  PROVE  /\ RangeCorrect(v, 0, \h99, \h100) \in 0..\h99 /\ Bcd(RangeCorrect(v, 0, \h99, \h100))
         /\ RangeCorrect(v, 1, \h12, \h20) % \h20 \in 1..\h12 /\ Bcd(RangeCorrect(v, 1, \h12, \h20) % \h20)
         /\ RangeCorrect(v, 1, \h31, \h40) % \h40 \in 1..\h31 /\ Bcd(RangeCorrect(v, 1, \h31, \h40) % \h40)
         /\ RangeCorrect(v, 1, \h31, \h40) % \h40 \in {1, v % \h40}
         /\ RangeCorrect(v, 0, 6, 8) % 8 \in 0..6
         /\ RangeCorrect(v, 0, \h23, \h40) % \h40 \in 0..\h23 /\ Bcd(RangeCorrect(v, 0, \h23, \h40) % \h40)
         /\ RangeCorrect(v, 0, \h59, \h80) % \h80 \in 0..\h59 /\ Bcd(RangeCorrect(v, 0, \h59, \h80) % \h80)
<1>1. RangeCorrect(v, 0, \h99, \h100) \in 0..\h99 /\ Bcd(RangeCorrect(v, 0, \h99, \h100))
  BY DEF RangeCorrect, Bcd
<1>2. RangeCorrect(v, 1, \h12, \h20) % \h20 \in 1..\h12 /\ Bcd(RangeCorrect(v, 1, \h12, \h20) % \h20)
  BY DEF RangeCorrect, Bcd
<1>3. RangeCorrect(v, 1, \h31, \h40) % \h40 \in 1..\h31 /\ Bcd(RangeCorrect(v, 1, \h31, \h40) % \h40)
  BY DEF RangeCorrect, Bcd
<1>7. RangeCorrect(v, 1, \h31, \h40) % \h40 \in {1, v % \h40}
  BY DEF RangeCorrect
<1>4. RangeCorrect(v, 0, 6, 8) % 8 \in 0..6
  BY DEF RangeCorrect
<1>5. RangeCorrect(v, 0, \h23, \h40) % \h40 \in 0..\h23 /\ Bcd(RangeCorrect(v, 0, \h23, \h40) % \h40)
  BY DEF RangeCorrect, Bcd
<1>6. RangeCorrect(v, 0, \h59, \h80) % \h80 \in 0..\h59 /\ Bcd(RangeCorrect(v, 0, \h59, \h80) % \h80)
  BY DEF RangeCorrect, Bcd
<1> QED
  BY <1>1, <1>2, <1>3, <1>4, <1>5, <1>6, <1>7

\* An hour that is written: one that the clock shows, if the format has it.
LEMMA HourCorrect ==
  ASSUME NEW v \in 0..255, fmt \in BOOLEAN
  PROVE  /\ WriteHour(v) % \h40 \in 0..\h3F
         /\ ~fmt \/ v % \h40 \in HoursOfTwelve => ShowsHour(fmt, WriteHour(v) % \h40)
<1>1. WriteHour(v) \in 0..273
  BY DEF WriteHour, RangeCorrect
<1>2. ASSUME fmt, v % \h40 \in HoursOfTwelve PROVE ShowsHour(fmt, WriteHour(v) % \h40)
  <2>1. v % 64 = v % 32 /\ v % 64 \in 0..9 \cup {\h10, \h11}
    BY <1>2 DEF HoursOfTwelve
  <2>2. CASE v % 32 = 0
    <3>1. WriteHour(v) = v + \h12
      BY <1>2, <2>2 DEF WriteHour
    <3>2. WriteHour(v) % \h40 = \h12
      BY <2>1, <2>2, <3>1
    <3> QED
      BY <1>2, <3>2 DEF ShowsHour, Bcd
  <2>3. CASE v % 32 # 0
    <3>1. WriteHour(v) = RangeCorrect(v, 0, \h11, \h20)
      BY <1>2, <2>3 DEF WriteHour
    <3>2. RangeCorrect(v, 0, \h11, \h20) = v
      BY <2>1 DEF RangeCorrect
    <3>3. v % 64 \in 1..\h12 /\ Bcd(v % 64)
      BY <2>1, <2>3 DEF Bcd
    <3> QED
      BY <1>2, <3>1, <3>2, <3>3 DEF ShowsHour
  <2> QED
    BY <2>2, <2>3
<1>3. ASSUME ~fmt PROVE ShowsHour(fmt, WriteHour(v) % \h40)
  <2>1. WriteHour(v) = RangeCorrect(v, 0, \h23, \h40)
    BY <1>3 DEF WriteHour
  <2> QED
    BY <1>3, <2>1, FieldsCorrect, ZenonT(30) DEF ShowsHour
<1> QED
  BY <1>1, <1>2, <1>3

LEMMA SecondCorrect ==
  ASSUME NEW v \in 0..255
  PROVE  WriteSecond(v) \in 0..\h59 \cup {\h7F} /\ (WriteSecond(v) # \h7F => Bcd(WriteSecond(v)))
  BY DEF WriteSecond, Bcd

\* The bytes of a sequence.
LEMMA Bytes ==
  ASSUME NEW b \in Seq(0..255), NEW k \in 1..Len(b)
  PROVE  b[k] \in 0..255
  BY ElementOfSeq

LEMMA TimeCorrect ==
  ASSUME NEW b \in Seq(0..255), Len(b) = 3, fmt \in BOOLEAN
  PROVE  /\ IsTime(WriteTime(b))
         /\ ~fmt \/ b[1] % \h40 \in HoursOfTwelve => ShowsHour(fmt, WriteTime(b).hour)
<1>1. PICK u, v, w : u = b[1] /\ v = b[2] /\ w = b[3]
  OBVIOUS
<1>2. u \in 0..255 /\ v \in 0..255 /\ w \in 0..255
  <2>1. 1 \in 1..Len(b) /\ 2 \in 1..Len(b) /\ 3 \in 1..Len(b)
    OBVIOUS
  <2> QED
    BY <1>1, <2>1, Bytes, ZenonT(30)
<1>3. PICK h, m, s : /\ h = WriteHour(u) % \h40 /\ m = RangeCorrect(v, 0, \h59, \h80) % \h80
                     /\ s = WriteSecond(w)
  OBVIOUS
<1>4. /\ h \in 0..\h3F /\ (~fmt \/ u % \h40 \in HoursOfTwelve => ShowsHour(fmt, h))
      /\ m \in 0..\h59 /\ Bcd(m)
      /\ s \in 0..\h59 \cup {\h7F} /\ (s # \h7F => Bcd(s))
  <2>1. h \in 0..\h3F /\ (~fmt \/ u % \h40 \in HoursOfTwelve => ShowsHour(fmt, h))
    BY <1>2, <1>3, HourCorrect, Zenon
  <2>2. m \in 0..\h59 /\ Bcd(m)
    BY <1>2, <1>3, FieldsCorrect, ZenonT(30)
  <2>3. s \in 0..\h59 \cup {\h7F} /\ (s # \h7F => Bcd(s))
    BY <1>2, <1>3, SecondCorrect
  <2> QED
    BY <2>1, <2>2, <2>3
<1>5. PICK pm \in BOOLEAN : pm = Has(u, S3511A_AMPM)
  BY DEF Has
<1>6. WriteTime(b) = [pm |-> pm, hour |-> h, min |-> m, sec |-> s]
  BY <1>1, <1>3, <1>5 DEF WriteTime
<1>7. IsTime(WriteTime(b))
  BY <1>4, <1>6 DEF IsTime
<1>8. WriteTime(b).hour = h
  BY <1>6
<1> QED
  BY <1>1, <1>4, <1>7, <1>8

LEMMA DateCorrect ==
  ASSUME NEW b \in Seq(0..255), Len(b) = 7
  PROVE  /\ IsDate(WriteDate(b))
         /\ b[3] % \h40 \notin {\h29, \h30, \h31} => ShowsDay(WriteDate(b))
<1>1. PICK p, q, r, u : p = b[1] /\ q = b[2] /\ r = b[3] /\ u = b[4]
  OBVIOUS
<1>2. p \in 0..255 /\ q \in 0..255 /\ r \in 0..255 /\ u \in 0..255
  <2>1. 1 \in 1..Len(b) /\ 2 \in 1..Len(b) /\ 3 \in 1..Len(b) /\ 4 \in 1..Len(b)
    OBVIOUS
  <2> QED
    BY <1>1, <2>1, Bytes, ZenonT(30)
<1>3. PICK y, m, d, w : /\ y = RangeCorrect(p, 0, \h99, \h100) /\ m = RangeCorrect(q, 1, \h12, \h20) % \h20
                        /\ d = RangeCorrect(r, 1, \h31, \h40) % \h40 /\ w = RangeCorrect(u, 0, 6, 8) % 8
  OBVIOUS
<1>4. /\ y \in 0..\h99 /\ Bcd(y) /\ m \in 1..\h12 /\ Bcd(m) /\ d \in 1..\h31 /\ Bcd(d) /\ w \in 0..6
      /\ d \in {1, r % \h40}
  <2>1. y \in 0..\h99 /\ Bcd(y)
    BY <1>2, <1>3, FieldsCorrect
  <2>2. m \in 1..\h12 /\ Bcd(m)
    BY <1>2, <1>3, FieldsCorrect, ZenonT(30)
  <2>3. d \in 1..\h31 /\ Bcd(d) /\ d \in {1, r % \h40}
    BY <1>2, <1>3, FieldsCorrect, ZenonT(30)
  <2>4. w \in 0..6
    BY <1>2, <1>3, FieldsCorrect
  <2> QED
    BY <2>1, <2>2, <2>3, <2>4
<1>5. PICK dow : dow = IF w = 0 THEN 7 ELSE w
  OBVIOUS
<1>6. dow \in 1..7
  BY <1>4, <1>5
<1>7. WriteDate(b) = [year |-> y, month |-> m, day |-> d, dow |-> dow]
  BY <1>1, <1>3, <1>5 DEF WriteDate
<1>8. IsDate(WriteDate(b))
  BY <1>4, <1>6, <1>7 DEF IsDate
<1>9. ASSUME b[3] % \h40 \notin {\h29, \h30, \h31} PROVE ShowsDay(WriteDate(b))
  <2>1. d \in 1..\h31 /\ Bcd(d) /\ d \notin {\h29, \h30, \h31}
    BY <1>1, <1>4, <1>9
  <2>2. d <= \h28
    BY <2>1 DEF Bcd
  <2>3. LastDay(WriteDate(b)) \in {\h28, \h29, \h30, \h31}
    BY DEF LastDay
  <2> QED
    BY <1>7, <2>1, <2>2, <2>3 DEF ShowsDay
<1> QED
  BY <1>8, <1>9

\* The hour in the other format is one of its hours, and the same.
HourIn(f, t) ==
  LET h == 10 * (t.hour \div 16) + (t.hour % 16) IN IF f THEN (h % 12) + Bit(t.pm, 12) ELSE h

\* In numbers: an hour of the afternoon, one of the morning, and back.
HourNumber(h) == 10 * (h \div 16) + (h % 16)

LEMMA Afternoon ==
  ASSUME NEW h \in 0..9 \cup \h10..\h12, NEW g,
         g = IF h = \h12 THEN \h12 ELSE h + IF h \in {\h08, \h09} THEN \h18 ELSE \h12
  PROVE  g \in 0..\h23 /\ Bcd(g) /\ HourNumber(g) = (HourNumber(h) % 12) + 12
<1> USE DEF Bcd, HourNumber
<1>1. CASE h = \h12
  BY <1>1
<1>2. CASE h \in {\h08, \h09}
  BY <1>2
<1>3. CASE h \in {0, 1, 2, 3, 4, 5, 6, 7, \h10, \h11}
  BY <1>3
<1>4. h = \h12 \/ h \in {\h08, \h09} \/ h \in {0, 1, 2, 3, 4, 5, 6, 7, \h10, \h11}
  OBVIOUS
<1> QED
  BY <1>1, <1>2, <1>3, <1>4

LEMMA Morning ==
  ASSUME NEW h \in 0..9 \cup \h10..\h12, NEW g, g = IF h = \h12 THEN 0 ELSE h
  PROVE  g \in 0..\h23 /\ Bcd(g) /\ HourNumber(g) = HourNumber(h) % 12
<1> USE DEF Bcd, HourNumber
<1>1. CASE h = \h12
  BY <1>1
<1>2. CASE h \in {0, 1, 2, 3, 4, 5, 6, 7, 8, 9, \h10, \h11}
  BY <1>2
<1>3. h = \h12 \/ h \in {0, 1, 2, 3, 4, 5, 6, 7, 8, 9, \h10, \h11}
  OBVIOUS
<1> QED
  BY <1>1, <1>2, <1>3

LEMMA OfTwelve ==
  ASSUME NEW h \in 0..9 \cup \h10..\h19 \cup \h20..\h23, NEW g,
         g = CASE h = 0    -> \h12
               [] h > \h12 -> h - IF h \in {\h20, \h21} THEN \h18 ELSE \h12
               [] OTHER    -> h
  PROVE  /\ g \in 1..\h12 /\ Bcd(g)
         /\ (HourNumber(g) % 12) + (IF h >= \h12 THEN 12 ELSE 0) = HourNumber(h)
<1> USE DEF Bcd, HourNumber
<1>1. CASE h = 0
  BY <1>1
<1>2. CASE h \in {\h20, \h21}
  BY <1>2
<1>3. CASE h \in {\h13, \h14, \h15, \h16, \h17, \h18, \h19, \h22, \h23}
  BY <1>3
<1>4. CASE h \in {1, 2, 3, 4, 5, 6, 7, 8, 9, \h10, \h11, \h12}
  BY <1>4
<1>5. \/ h = 0 \/ h \in {\h20, \h21}
      \/ h \in {\h13, \h14, \h15, \h16, \h17, \h18, \h19, \h22, \h23}
      \/ h \in {1, 2, 3, 4, 5, 6, 7, 8, 9, \h10, \h11, \h12}
  OBVIOUS
<1> QED
  BY <1>1, <1>2, <1>3, <1>4, <1>5

LEMMA To24 ==
  ASSUME NEW t \in [pm : BOOLEAN, hour : 0..\h12, min : 0..\h59, sec : 0..\h7F], Bcd(t.hour)
  PROVE  /\ Hour24(t) \in 0..\h23 /\ Bcd(Hour24(t))
         /\ HourNumber(Hour24(t)) = HourIn(TRUE, t)
<1>1. PICK h, g : h = t.hour /\ g = Hour24(t)
  OBVIOUS
<1>2. t.pm \in BOOLEAN /\ h \in 0..9 \cup \h10..\h12
  BY <1>1 DEF Bcd
<1>3. HourIn(TRUE, t) = (HourNumber(h) % 12) + (IF t.pm THEN 12 ELSE 0)
  BY <1>1 DEF HourIn, Bit, HourNumber
<1>4. CASE t.pm
  <2>1. PICK f : f = h + IF h \in {\h08, \h09} THEN \h18 ELSE \h12
    OBVIOUS
  <2>2. f \in 0..\h3F /\ f % \h40 = f
    BY <1>2, <2>1
  <2>3. g = IF h = \h12 THEN \h12 ELSE f % \h40
    BY <1>1, <1>4, <2>1 DEF Hour24
  <2>4. g = IF h = \h12 THEN \h12 ELSE h + IF h \in {\h08, \h09} THEN \h18 ELSE \h12
    BY <2>1, <2>2, <2>3
  <2>5. g \in 0..\h23 /\ Bcd(g) /\ HourNumber(g) = (HourNumber(h) % 12) + 12
    BY <1>2, <2>4, Afternoon
  <2> QED
    BY <1>1, <1>3, <1>4, <2>5
<1>5. CASE ~t.pm
  <2>1. g = IF h = \h12 THEN 0 ELSE h
    BY <1>1, <1>5 DEF Hour24
  <2>2. g \in 0..\h23 /\ Bcd(g) /\ HourNumber(g) = HourNumber(h) % 12
    BY <1>2, <2>1, Morning
  <2>3. (HourNumber(h) % 12) + 0 = HourNumber(h) % 12
    BY <1>2 DEF HourNumber
  <2> QED
    BY <1>1, <1>3, <1>5, <2>2, <2>3
<1> QED
  BY <1>2, <1>4, <1>5

LEMMA To12 ==
  ASSUME NEW t \in [pm : BOOLEAN, hour : 0..\h23, min : 0..\h59, sec : 0..\h7F], Bcd(t.hour)
  PROVE  /\ Hour12(t) \in 1..\h12 /\ Bcd(Hour12(t))
         /\ (HourNumber(Hour12(t)) % 12) + Bit(t.hour >= \h12, 12) = HourIn(FALSE, t)
<1>1. PICK h, g : h = t.hour /\ g = Hour12(t)
  OBVIOUS
<1>2. h \in 0..9 \cup \h10..\h19 \cup \h20..\h23
  BY <1>1 DEF Bcd
<1>3. HourIn(FALSE, t) = HourNumber(h)
  BY <1>1 DEF HourIn, HourNumber
<1>4. Bit(t.hour >= \h12, 12) = IF h >= \h12 THEN 12 ELSE 0
  BY <1>1 DEF Bit
<1>5. g = CASE h = 0    -> \h12
            [] h > \h12 -> h - IF h \in {\h20, \h21} THEN \h18 ELSE \h12
            [] OTHER    -> h
  BY <1>1 DEF Hour12
<1>6. /\ g \in 1..\h12 /\ Bcd(g)
      /\ (HourNumber(g) % 12) + (IF h >= \h12 THEN 12 ELSE 0) = HourNumber(h)
  BY <1>2, <1>5, OfTwelve
<1> QED
  BY <1>1, <1>3, <1>4, <1>6

\* Of an odd hour, either makes six bits again.
LEMMA HourFields ==
  ASSUME NEW t, t.hour \in 0..\h3F
  PROVE  Hour24(t) \in 0..\h3F /\ Hour12(t) \in 0..\h3F
<1>1. PICK h : h = t.hour /\ h \in 0..\h3F
  OBVIOUS
<1>2. (h + IF h \in {\h08, \h09} THEN \h18 ELSE \h12) % \h40 \in 0..\h3F
  BY <1>1
<1>3. h > \h12 => h - (IF h \in {\h20, \h21} THEN \h18 ELSE \h12) \in 0..\h3F
  BY <1>1
<1> QED
  BY <1>1, <1>2, <1>3 DEF Hour24, Hour12

\* A change of the status leaves a clock that shows an hour showing that hour.
LEMMA StatusValid ==
  ASSUME CalendarInv, NEW value \in 0..255, rtc_write_status(value)
  PROVE  CalendarInv' /\ dr' = dr /\ (HourShown => HourShown' /\ HourOfDay' = HourOfDay)
<1>1. PICK to12 \in BOOLEAN : to12 = ~Has(value, S3511A_1224)
  BY DEF Has
<1>2. fmt \in BOOLEAN /\ fmt' = to12 /\ configured' = configured /\ dr' = dr /\ alarm_mode' = AlarmBits(value)
  BY <1>1 DEF rtc_write_status, CalendarInv
<1>3. AlarmBits(value) \in 0..63
  <2>1. Bit(Has(value, \h20), \h20) \in {0, \h20} /\ Bit(Has(value, \h08), \h08) \in {0, \h08}
        /\ Bit(Has(value, \h02), \h02) \in {0, \h02}
    BY DEF Bit
  <2> QED
    BY <2>1 DEF AlarmBits
<1>4. /\ tr \in [pm : BOOLEAN, hour : 0..\h3F, min : 0..\h59, sec : 0..\h59 \cup {\h7F}]
      /\ tr.sec \in 0..\h7F
      /\ Bcd(tr.min) /\ (tr.sec # \h7F => Bcd(tr.sec))
  BY DEF CalendarInv, IsTime
<1>9. HourShown => Bcd(tr.hour) /\ tr.hour \in (IF fmt THEN 1..\h12 ELSE 0..\h23)
  BY DEF HourShown, ShowsHour
<1>10. HourShown' <=> ShowsHour(fmt', tr'.hour)
  BY DEF HourShown
<1>5. HourOfDay = HourIn(fmt, tr) /\ HourOfDay' = HourIn(fmt', tr')
  BY DEF HourOfDay, HourIn
<1>6. CASE fmt /\ ~to12
  <2>1. PICK h : h = Hour24(tr)
    OBVIOUS
  <2>2. h \in 0..\h3F
    BY <1>4, <2>1, HourFields
  <2>3. tr' = [tr EXCEPT !.hour = h, !.pm = FALSE]
    BY <1>1, <1>6, <2>1 DEF rtc_write_status
  <2>4. tr' = [pm |-> FALSE, hour |-> h, min |-> tr.min, sec |-> tr.sec]
    BY <1>4, <2>3
  <2>5. IsTime(tr')
    BY <1>4, <2>2, <2>4 DEF IsTime
  <2>6. ASSUME HourShown PROVE HourShown' /\ HourOfDay' = HourOfDay
    <3>1. tr \in [pm : BOOLEAN, hour : 0..\h12, min : 0..\h59, sec : 0..\h7F] /\ Bcd(tr.hour)
      BY <1>4, <1>6, <1>9, <2>6
    <3>2. h \in 0..\h23 /\ Bcd(h) /\ HourNumber(h) = HourIn(TRUE, tr)
      BY <2>1, <3>1, To24
    <3>3. HourIn(FALSE, tr') = HourNumber(h)
      BY <2>4 DEF HourIn, HourNumber
    <3>4. ShowsHour(FALSE, tr'.hour)
      BY <2>4, <3>2 DEF ShowsHour
    <3> QED
      BY <1>2, <1>5, <1>6, <1>10, <3>2, <3>3, <3>4
  <2> QED
    BY <1>2, <1>3, <2>5, <2>6 DEF CalendarInv
<1>7. CASE ~fmt /\ to12
  <2>1. PICK h : h = Hour12(tr)
    OBVIOUS
  <2>2. PICK pm \in BOOLEAN : pm = (tr.hour >= \h12)
    <3>1. CASE tr.hour >= \h12
      BY <3>1, Zenon
    <3>2. CASE ~(tr.hour >= \h12)
      <4>1. FALSE = (tr.hour >= \h12)
        BY <3>2
      <4> QED
        BY <4>1, Zenon
    <3> QED
      BY <3>1, <3>2
  <2>3. h \in 0..\h3F
    BY <1>4, <2>1, HourFields
  <2>4. tr' = [tr EXCEPT !.hour = h, !.pm = pm]
    BY <1>1, <1>7, <2>1, <2>2 DEF rtc_write_status
  <2>5. tr' = [pm |-> pm, hour |-> h, min |-> tr.min, sec |-> tr.sec]
    BY <1>4, <2>4
  <2>6. IsTime(tr')
    BY <1>4, <2>3, <2>5 DEF IsTime
  <2>7. ASSUME HourShown PROVE HourShown' /\ HourOfDay' = HourOfDay
    <3>1. tr \in [pm : BOOLEAN, hour : 0..\h23, min : 0..\h59, sec : 0..\h7F] /\ Bcd(tr.hour)
      BY <1>4, <1>7, <1>9, <2>7
    <3>2. /\ h \in 1..\h12 /\ Bcd(h)
          /\ (HourNumber(h) % 12) + Bit(tr.hour >= \h12, 12) = HourIn(FALSE, tr)
      BY <2>1, <3>1, To12
    <3>3. HourIn(TRUE, tr') = (HourNumber(h) % 12) + Bit(pm, 12)
      BY <2>5 DEF HourIn, HourNumber
    <3>4. Bit(pm, 12) = Bit(tr.hour >= \h12, 12)
      BY <2>2 DEF Bit
    <3>5. ShowsHour(TRUE, tr'.hour)
      BY <2>5, <3>2 DEF ShowsHour
    <3> QED
      BY <1>2, <1>5, <1>7, <1>10, <3>2, <3>3, <3>4, <3>5
  <2> QED
    BY <1>2, <1>3, <2>6, <2>7 DEF CalendarInv
<1>8. CASE fmt = to12
  <2>1. tr' = tr
    BY <1>1, <1>2, <1>8 DEF rtc_write_status
  <2>2. HourShown => HourShown' /\ HourOfDay' = HourOfDay
    BY <1>2, <1>5, <1>8, <2>1 DEF HourShown
  <2> QED
    BY <1>2, <1>3, <2>1, <2>2 DEF CalendarInv
<1> QED
  BY <1>2, <1>6, <1>7, <1>8

LEMMA ResetValid ==
  ASSUME rtc_reset
  PROVE  CalendarInv' /\ HourShown' /\ DayShown'
<1>1. ResetTime \in [pm : BOOLEAN, hour : {\h12}, min : {0}, sec : {0}]
  <2>1. UnsetTime \in [pm : BOOLEAN, hour : {0}, min : {0}, sec : {0}]
    BY DEF UnsetTime
  <2> QED
    BY <2>1 DEF ResetTime
<1>2. ResetDate = [year |-> 0, month |-> 1, day |-> 1, dow |-> 7]
  <2>1. UnsetDate \in [year : {0}, month : {1}, day : {1}, dow : {1}]
    BY DEF UnsetDate
  <2> QED
    BY <2>1 DEF ResetDate
<1>3. Bcd(0) /\ Bcd(1) /\ Bcd(\h12)
  BY DEF Bcd
<1>4. IsTime(ResetTime) /\ ShowsHour(TRUE, ResetTime.hour)
  BY <1>1, <1>3 DEF IsTime, ShowsHour
<1>5. IsDate(ResetDate) /\ ShowsDay(ResetDate)
  <2>1. LastDay(ResetDate) = \h31
    BY <1>2 DEF LastDay
  <2> QED
    BY <1>2, <1>3, <2>1 DEF IsDate, ShowsDay
<1>6. configured' = TRUE /\ fmt' = TRUE /\ tr' = ResetTime /\ dr' = ResetDate /\ alarm_mode' = 0
  BY DEF rtc_reset
<1>7. IsTime(tr') /\ IsDate(dr') /\ ShowsDay(dr')
  BY <1>4, <1>5, <1>6, Zenon
<1>8. ShowsHour(fmt', tr'.hour)
  BY <1>4, <1>6, Zenon
<1>9. CalendarInv'
  BY <1>6, <1>7 DEF CalendarInv
<1>10. HourShown' /\ DayShown'
  BY <1>7, <1>8, Zenon DEF HourShown, DayShown
<1> QED
  BY <1>9, <1>10

\* The hours and days that a clock does not show, and how a game writes them.
HourLost(c, rx) == fmt /\ c \in {4, 6} /\ rx[IF c = 4 THEN 5 ELSE 1] % \h40 \notin HoursOfTwelve
DayLost(c, rx) == c = 4 /\ rx[3] % \h40 \in {\h29, \h30, \h31}

LEMMA DateTimeValid ==
  ASSUME CalendarInv, NEW c \in {4, 6}, NEW rx \in Seq(0..255), Len(rx) = CommandLength(c),
         rtc_write_datetime(rx, c = 4)
  PROVE  /\ CalendarInv'
         /\ HourShown' \/ HourLost(c, rx)
         /\ DayShown => DayShown' \/ DayLost(c, rx)
<1>1. fmt \in BOOLEAN /\ fmt' = fmt /\ configured' = configured /\ alarm_mode' = alarm_mode
  BY DEF rtc_write_datetime, CalendarInv
<1>4. (HourShown' <=> ShowsHour(fmt', tr'.hour)) /\ (DayShown' <=> ShowsDay(dr'))
  BY DEF HourShown, DayShown
<1>2. CASE c = 4
  <2>1. Len(rx) = 7
    BY <1>2 DEF CommandLength
  <2>2. PICK b : b = SubSeq(rx, 5, 7)
    OBVIOUS
  <2>8. ASSUME NEW i \in 5..7 PROVE rx[i] \in 0..255
    <3>1. i \in 1..Len(rx)
      BY <2>1
    <3> QED
      BY <3>1, Bytes
  <2>3. b \in Seq(0..255) /\ Len(b) = 3
    <3>1. /\ SubSeq(rx, 5, 7) \in Seq(0..255)
          /\ Len(SubSeq(rx, 5, 7)) = IF 5 <= 7 THEN 7 - 5 + 1 ELSE 0
      BY <2>8, SubSeqProperties
    <3> QED
      BY <2>2, <3>1
  <2>4. b[1] = rx[5]
    <3>1. \A i \in 1..(7 - 5 + 1) : SubSeq(rx, 5, 7)[i] = rx[5 + i - 1]
      BY <2>8, SubSeqProperties
    <3> QED
      BY <2>2, <3>1
  <2>5. tr' = WriteTime(b) /\ dr' = WriteDate(rx)
    BY <1>2, <2>2 DEF rtc_write_datetime
  <2>6. IsTime(tr') /\ (~fmt \/ rx[5] % \h40 \in HoursOfTwelve => ShowsHour(fmt, tr'.hour))
    BY <1>1, <2>3, <2>4, <2>5, TimeCorrect
  <2>7. IsDate(dr') /\ (rx[3] % \h40 \notin {\h29, \h30, \h31} => ShowsDay(dr'))
    BY <2>1, <2>5, DateCorrect
  <2> QED
    BY <1>1, <1>2, <1>4, <2>6, <2>7 DEF CalendarInv, HourLost, DayLost
<1>3. CASE c = 6
  <2>1. Len(rx) = 3
    BY <1>3 DEF CommandLength
  <2>2. tr' = WriteTime(rx) /\ dr' = dr
    BY <1>3 DEF rtc_write_datetime
  <2>3. IsTime(tr') /\ (~fmt \/ rx[1] % \h40 \in HoursOfTwelve => ShowsHour(fmt, tr'.hour))
    BY <1>1, <2>1, <2>2, TimeCorrect
  <2>4. DayShown => DayShown'
    BY <2>2 DEF DayShown
  <2> QED
    BY <1>1, <1>3, <1>4, <2>2, <2>3, <2>4 DEF CalendarInv, HourLost
<1> QED
  BY <1>2, <1>3

\* Most steps leave the calendar as it was.
LEMMA CalendarKept ==
  ASSUME CalendarInv, UNCHANGED calendar
  PROVE  CalendarInv' /\ (HourShown => HourShown') /\ (DayShown => DayShown') /\ fmt' = fmt
  BY DEF CalendarInv, calendar, HourShown, DayShown

LEMMA ExecuteValid ==
  ASSUME CalendarInv, NEW c \in 0..15, NEW rx \in Seq(0..255), Len(rx) = CommandLength(c),
         Execute(c, rx)
  PROVE  /\ CalendarInv'
         /\ HourShown => HourShown' \/ HourLost(c, rx)
         /\ DayShown => DayShown' \/ DayLost(c, rx)
         /\ c = 2 /\ HourShown => HourOfDay' = HourOfDay
<1>1. CASE c \in {0, 1}
  <2>1. rtc_reset
    BY <1>1 DEF Execute
  <2> QED
    BY <1>1, <2>1, ResetValid
<1>2. CASE c = 2
  <2>1. Len(rx) = 1 /\ rtc_write_status(rx[1])
    BY <1>2 DEF Execute, CommandLength
  <2>3. 1 \in 1..Len(rx)
    BY <2>1
  <2>2. rx[1] \in 0..255
    BY <2>3, Bytes
  <2>4. CalendarInv' /\ dr' = dr /\ (HourShown => HourShown' /\ HourOfDay' = HourOfDay)
    BY <2>1, <2>2, StatusValid
  <2>5. DayShown => DayShown'
    BY <2>4 DEF DayShown
  <2> QED
    BY <2>4, <2>5
<1>3. CASE c = 3
  <2>1. rtc_reset \/ UNCHANGED calendar
    BY <1>3 DEF Execute, rtc_read_status
  <2> QED
    BY <1>3, <2>1, CalendarKept, ResetValid
<1>4. CASE c \in {4, 6}
  <2>1. rtc_write_datetime(rx, c = 4)
    BY <1>4 DEF Execute
  <2> QED
    BY <1>4, <2>1, DateTimeValid
<1>5. CASE c \in {8, 9}
  <2>1. \E v : rtc_write_alarm(v)
    BY <1>5 DEF Execute
  <2>2. UNCHANGED <<configured, fmt, tr, dr, alarm_mode>>
    BY <2>1 DEF rtc_write_alarm
  <2> QED
    BY <1>5, <2>2 DEF CalendarInv, HourShown, DayShown
<1>6. CASE c \in {5, 7} \cup 10..15
  <2>1. UNCHANGED calendar
    BY <1>6 DEF Execute
  <2> QED
    BY <1>6, <2>1, CalendarKept
<1> QED
  BY <1>1, <1>2, <1>3, <1>4, <1>5, <1>6

-----------------------------------------------------------------------------
(* A step of each actor keeps the invariant.                               *)

LEMMA NowKept ==
  ASSUME NowRight, UNCHANGED <<calendar, cmd, moments>>
  PROVE  NowRight'
  BY DEF NowRight, calendar, DateTimeBytes, ReadHour

\* Which stage it is, by what an action asks for.
LEMMA StageCases ==
  ASSUME Stage
  PROVE  /\ game = "idle" => Resting
         /\ state = "LowerCS" \/ state = "SendCmd" \/ start => Calling
         /\ state = "WaitCmdAck" => Called \/ Looking \/ Answering \/ Taking
         /\ state = "SendData" \/ state = "WaitNextData" => Answering \/ Taking
         /\ state = "RaiseCS" /\ falling_edge_registered => Answering \/ Obeyed
         /\ game = "command" /\ state = "Idle" /\ ~start => Answering \/ Obeyed
         /\ game = "command" /\ ready => Answering \/ Taking \/ Obeyed
         /\ mcu = "receive" => Taking
         /\ mcu \in {"TR", "DR"} => Looking
         /\ tx_dma => Resting \/ Answering
         /\ mcu = "idle" /\ rx_fifo # << >> => Resting \/ Called \/ Answering
         /\ pulses > 0 => Resting \/ Answering \/ Taking \/ Obeyed
<1> USE DEF Stage
<1>1. Resting => game = "idle" /\ mcu = "idle" /\ state = "Idle" /\ ~start
  BY DEF Resting, McuIdle
<1>2. Calling => /\ game = "command" /\ ~ready /\ mcu = "idle" /\ rx_fifo = << >> /\ ~tx_dma /\ pulses = 0
                 /\ state \in {"Idle", "LowerCS", "SendCmd"} /\ (state = "Idle" => start)
  BY DEF Calling, Beginning, McuIdle, Nothing
<1>3. Called => /\ game = "command" /\ ~ready /\ mcu = "idle" /\ ~tx_dma /\ pulses = 0 /\ ~start
                /\ state \in {"WaitCmdAck", "RaiseCS"} /\ ~falling_edge_registered
  BY DEF Called, Beginning, McuIdle, AfterCommand
<1>4. Looking => /\ game = "command" /\ ~ready /\ mcu \in {"TR", "DR"} /\ ~tx_dma /\ pulses = 0 /\ ~start
                 /\ state \in {"WaitCmdAck", "RaiseCS"} /\ ~falling_edge_registered
  BY DEF Looking, Beginning, Nothing, AfterCommand
<1>5. Answering => /\ game = "command" /\ mcu = "idle" /\ ~start
                   /\ state \in {"WaitCmdAck", "SendData", "WaitNextData", "RaiseCS", "Idle"}
  BY DEF Answering, McuIdle, Places
<1>6. Taking => /\ game = "command" /\ mcu = "receive" /\ ~tx_dma /\ ~start
                /\ state \in {"WaitCmdAck", "SendData", "WaitNextData", "RaiseCS"}
                /\ (state = "RaiseCS" => ~falling_edge_registered)
  BY DEF Taking, Nothing
<1>7. Obeyed => /\ game = "command" /\ mcu = "idle" /\ ~tx_dma /\ rx_fifo = << >> /\ ~start
                /\ state \in {"RaiseCS", "Idle"}
  BY DEF Obeyed, McuIdle, Nothing
<1>8. Stuck => /\ game = "command" /\ mcu = "hung" /\ ~tx_dma /\ ~start /\ ~ready /\ pulses = 0
               /\ state = "RaiseCS" /\ ~falling_edge_registered
  BY DEF Stuck, Nothing
<1> QED
  BY <1>1, <1>2, <1>3, <1>4, <1>5, <1>6, <1>7, <1>8

\* What a game reads of the clock are bytes.
LEMMA NowBytes ==
  ASSUME NEW t, NEW d, IsTime(t), IsDate(d), NEW c \in {5, 7}
  PROVE  DateTimeBytes(t, d, c = 5) \in Seq(0..255) /\ Len(DateTimeBytes(t, d, c = 5)) = Length(c)
<1>1. /\ t.hour \in 0..\h3F /\ t.min \in 0..255 /\ t.sec \in 0..255
      /\ d.year \in 0..255 /\ d.month \in 0..255 /\ d.day \in 0..255 /\ d.dow \in 1..7
  BY DEF IsTime, IsDate
<1>2. PICK h, w : h = ReadHour(t) /\ w = d.dow % 7
  OBVIOUS
<1>3. h \in 0..255 /\ w \in 0..255
  <2>1. Bit(t.pm, S3511A_AMPM) \in {0, \h80} /\ Bit(t.hour >= \h12, S3511A_AMPM) \in {0, \h80}
    BY DEF Bit, S3511A_AMPM
  <2> QED
    BY <1>1, <1>2, <2>1 DEF ReadHour
<1>4. CASE c = 5
  <2>1. DateTimeBytes(t, d, c = 5) = <<d.year, d.month, d.day, w>> \o <<h, t.min, t.sec>>
    BY <1>2, <1>4 DEF DateTimeBytes
  <2>2. Length(c) = 7
    BY <1>4 DEF Length, CommandLength, AnswerLength
  <2>3. PICK y, m, k, i, j : y = d.year /\ m = d.month /\ k = d.day /\ i = t.min /\ j = t.sec
    OBVIOUS
  <2>4. y \in 0..255 /\ m \in 0..255 /\ k \in 0..255 /\ i \in 0..255 /\ j \in 0..255
    BY <1>1, <2>3
  <2>5. PICK u, v : u = <<y, m, k, w>> /\ v = <<h, i, j>>
    OBVIOUS
  <2>6. u \in Seq(0..255) /\ Len(u) = 4 /\ v \in Seq(0..255) /\ Len(v) = 3
    BY <1>3, <2>4, <2>5
  <2>7. u \o v \in Seq(0..255) /\ Len(u \o v) = 7
    <3>1. Len(u \o v) = Len(u) + Len(v)
      BY <2>6, ConcatProperties
    <3>2. u \o v \in Seq(0..255)
      BY <2>6, ConcatProperties
    <3> QED
      BY <2>6, <3>1, <3>2
  <2> QED
    BY <2>1, <2>2, <2>3, <2>5, <2>7
<1>5. CASE c = 7
  <2>1. DateTimeBytes(t, d, c = 5) = << >> \o <<h, t.min, t.sec>>
    BY <1>2, <1>5 DEF DateTimeBytes
  <2>2. Length(c) = 3
    BY <1>5 DEF Length, CommandLength, AnswerLength
  <2>3. PICK i, j : i = t.min /\ j = t.sec
    OBVIOUS
  <2>4. i \in 0..255 /\ j \in 0..255
    BY <1>1, <2>3
  <2>5. << >> \o <<h, i, j>> = <<h, i, j>>
    OBVIOUS
  <2>6. <<h, i, j>> \in Seq(0..255) /\ Len(<<h, i, j>>) = 3
    BY <1>3, <2>4
  <2> QED
    BY <2>1, <2>2, <2>3, <2>5, <2>6
<1> QED
  BY <1>4, <1>5

-----------------------------------------------------------------------------
\* What the game begins with.
BeginWith(c, payload) ==
  /\ cmd' = c /\ start' = TRUE /\ ready' = FALSE
  /\ data' = IF payload = << >> THEN data ELSE Head(payload)
  /\ given' = payload /\ got' = << >>
  /\ moments' = IF c \in {5, 7} THEN {DateTimeBytes(tr, dr, c = 5)} ELSE {}

LEMMA BeginStep ==
  ASSUME LinkInv, Begin, Prompt, LinkAssumption
  PROVE  LinkInv'
<1>1. Resting /\ Quiet
  BY StageCases DEF LinkInv, Begin
<1>2. PICK c \in Commands : \E payload \in Payloads[c] : BeginWith(c, payload)
  BY DEF Begin, BeginWith
<1>13. PICK payload \in Payloads[c] : BeginWith(c, payload)
  BY <1>2
<1>14. /\ cmd' = c /\ start' = TRUE /\ ready' = FALSE
       /\ data' = IF payload = << >> THEN data ELSE Head(payload)
       /\ given' = payload /\ got' = << >>
       /\ moments' = IF c \in {5, 7} THEN {DateTimeBytes(tr, dr, c = 5)} ELSE {}
  BY <1>13 DEF BeginWith
<1>3. payload \in Seq(0..255) /\ Len(payload) = CommandLength(c)
  BY <1>2, <1>13 DEF LinkAssumption
<1>4. /\ game' = "command" /\ n' = 1
      /\ UNCHANGED <<calendar, state, busy, shiftreg, falling_edge_registered, mcu_vars>>
  BY DEF Begin
<1>5. CalendarInv'
  BY <1>4, CalendarKept DEF LinkInv
<1>6. c \in WriteCommands => data' = payload[1]
  <2>1. c \in WriteCommands => Len(payload) >= 1
    BY <1>3, WriteLengths
  <2>2. Len(payload) >= 1 => Head(payload) = payload[1] /\ payload # << >>
    BY <1>3
  <2> QED
    BY <1>14, <2>1, <2>2
<1>7. data' \in 0..255
  <2>1. payload # << >> => Head(payload) \in 0..255
    BY <1>3
  <2> QED
    BY <1>14, <2>1 DEF LinkInv, RegisterInv, Numbers
<1>8. \A a \in moments' : a \in Seq(0..255) /\ Len(a) = Length(c)
  <2>1. CASE c \in {5, 7}
    <3>1. DateTimeBytes(tr, dr, c = 5) \in Seq(0..255) /\ Len(DateTimeBytes(tr, dr, c = 5)) = Length(c)
      BY <2>1, NowBytes DEF LinkInv, CalendarInv
    <3> QED
      BY <1>14, <2>1, <3>1
  <2> QED
    BY <1>14, <2>1
<1>15. cmd' = c /\ given' = payload /\ got' = << >> /\ start' = TRUE /\ ready' = FALSE
  BY <1>14
<1>16. UNCHANGED <<calendar, busy, shiftreg, falling_edge_registered, mcu, rx_fifo, rx_buffer, rx_left, rxne,
                   tx, tx_dma, pulses, rtc_curr_cmd, read>>
  BY <1>4 DEF mcu_vars, spi_rx, spi_tx
<1>17. Flags'
  BY <1>15, <1>16 DEF LinkInv, RegisterInv, Flags
<1>18. Numbers'
  BY <1>2, <1>4, <1>7, <1>15, <1>16 DEF LinkInv, RegisterInv, Numbers
<1>19. Sequences'
  BY <1>15, <1>16 DEF LinkInv, RegisterInv, Sequences
<1>20. Answers'
  BY <1>8, <1>15 DEF Answers
<1>21. Gift'
  BY <1>3, <1>15 DEF Gift
<1>10. RegisterInv'
  BY <1>17, <1>18, <1>19, <1>20, <1>21 DEF RegisterInv
<1>11. NowRight'
  BY <1>14, <1>4 DEF NowRight, calendar, DateTimeBytes, ReadHour
<1>12. Calling'
  BY <1>1, <1>14, <1>4, <1>6, <1>11
     DEF Calling, Beginning, FirstByte, Resting, McuIdle, Nothing, Quiet, mcu_vars, spi_rx, spi_tx
<1> QED
  BY <1>5, <1>10, <1>12 DEF LinkInv, Stage

LEMMA TakeByteStep ==
  ASSUME LinkInv, TakeByte
  PROVE  LinkInv'
<1>1. /\ game = "command" /\ ready /\ Read(cmd)
      /\ got' = Append(got, data) /\ ready' = FALSE
      /\ UNCHANGED <<calendar, state, n, cmd, start, busy, data, shiftreg, falling_edge_registered,
                     mcu, rx_fifo, rx_buffer, rx_left, rxne, tx, tx_dma, pulses, rtc_curr_cmd, read,
                     game, given, moments>>
  BY DEF TakeByte, mcu_vars, spi_rx, spi_tx
<1>2. CalendarInv'
  BY <1>1, CalendarKept DEF LinkInv
<1>3. Flags'
  BY <1>1 DEF LinkInv, RegisterInv, Flags
<1>4. Numbers'
  BY <1>1 DEF LinkInv, RegisterInv, Numbers
<1>5. got' \in Seq(0..255) /\ Len(got') = Len(got) + 1 /\ got \in Seq(0..255)
  BY <1>1 DEF LinkInv, RegisterInv, Sequences, Numbers
<1>6. Sequences'
  BY <1>1, <1>5 DEF LinkInv, RegisterInv, Sequences
<1>7. Answers'
  BY <1>1 DEF LinkInv, RegisterInv, Answers
<1>8. Gift'
  BY <1>1 DEF LinkInv, RegisterInv, Gift
<1>9. Stage'
  <2>1. Answering \/ Obeyed
    <3>1. Taking => ~Read(cmd)
      BY WriteLengths DEF Taking
    <3> QED
      BY <1>1, <3>1, StageCases DEF LinkInv
  <2>2. CASE Obeyed
    <3>1. Obeyed'
      BY <1>1, <2>2 DEF Obeyed, McuIdle, Nothing
    <3> QED
      BY <3>1 DEF Stage
  <2>3. CASE Answering
    <3>1. state \in {"WaitNextData", "Idle"}
      BY <1>1, <2>3 DEF Answering, Places
    <3>2. PICK a \in moments : AnswerIs(a)
      BY <2>3 DEF Answering
    <3>3. Len(a) \in Nat /\ Len(got) \in Nat
      BY <1>5 DEF LinkInv, RegisterInv, Answers
    <3>4. Len(got) < Len(a) /\ data = a[Len(got) + 1]
      BY <1>1, <3>1, <3>2 DEF AnswerIs, ByteWaits
    <3>5. \A k \in 1..Len(got') : got'[k] = a[k]
      <4> SUFFICES ASSUME NEW k \in 1..Len(got') PROVE got'[k] = a[k]
        OBVIOUS
      <4>1. CASE k \in 1..Len(got)
        <5>1. got'[k] = got[k]
          BY <1>1, <1>5, <4>1
        <5> QED
          BY <3>2, <4>1, <5>1 DEF AnswerIs
      <4>2. CASE k = Len(got) + 1
        <5>1. got'[k] = data
          BY <1>1, <1>5, <4>2
        <5> QED
          BY <3>4, <4>2, <5>1
      <4> QED
        BY <1>5, <3>3, <4>1, <4>2
    <3>6. AnswerIs(a)'
      BY <1>1, <1>5, <3>1, <3>2, <3>3, <3>4, <3>5 DEF AnswerIs, ByteWaits
    <3>9. Length(cmd) \in 0..7
      BY AllCommands DEF LinkInv, RegisterInv, Numbers
    <3>7. Places'
      <4>1. CASE state = "WaitNextData"
        BY <1>1, <1>5, <2>3, <3>3, <4>1 DEF Answering, Places
      <4>2. CASE state = "Idle"
        <5>1. ~busy /\ n = 0 /\ Len(got) = Length(cmd) - 1 /\ Len(tx) = 0
          BY <1>1, <2>3, <4>2 DEF Answering, Places
        <5>2. Len(got') = Length(cmd) - 0
          BY <1>5, <3>3, <3>9, <5>1
        <5> QED
          BY <1>1, <4>2, <5>1, <5>2 DEF Places
      <4> QED
        BY <3>1, <4>1, <4>2
    <3>8. Answering'
      BY <1>1, <2>3, <3>2, <3>6, <3>7 DEF Answering, McuIdle
    <3> QED
      BY <3>8 DEF Stage
  <2> QED
    BY <2>1, <2>2, <2>3
<1> QED
  BY <1>2, <1>3, <1>4, <1>6, <1>7, <1>8, <1>9 DEF LinkInv, RegisterInv

LEMMA GiveByteStep ==
  ASSUME LinkInv, GiveByte
  PROVE  LinkInv'
<1>1. /\ game = "command" /\ ready /\ busy /\ ~Read(cmd)
      /\ data' = given[n] /\ ready' = FALSE
      /\ UNCHANGED <<calendar, state, n, cmd, start, busy, shiftreg, falling_edge_registered,
                     mcu, rx_fifo, rx_buffer, rx_left, rxne, tx, tx_dma, pulses, rtc_curr_cmd, read,
                     game, given, got, moments>>
  BY DEF GiveByte, mcu_vars, spi_rx, spi_tx, player
<1>2. CalendarInv'
  BY <1>1, CalendarKept DEF LinkInv
<1>3. Taking /\ state = "WaitNextData" /\ n \in 2..Length(cmd)
  <2>1. Answering => Read(cmd)
    BY ReadLengths DEF Answering
  <2>2. ~Obeyed
    BY <1>1 DEF Obeyed
  <2>3. Taking
    BY <1>1, <2>1, <2>2, StageCases DEF LinkInv
  <2> QED
    BY <1>1, <2>3 DEF Taking
<1>4. data' \in 0..255
  <2>1. cmd \in WriteCommands /\ Length(cmd) = CommandLength(cmd) /\ CommandLength(cmd) \in 1..7
    BY <1>3, WriteLengths DEF Taking, Length
  <2>2. given \in Seq(0..255) /\ Len(given) = CommandLength(cmd)
    BY <1>1 DEF LinkInv, RegisterInv, Gift
  <2>3. n \in 1..Len(given)
    BY <1>3, <2>1, <2>2
  <2> QED
    BY <1>1, <2>2, <2>3, Bytes
<1>5. Flags'
  BY <1>1 DEF LinkInv, RegisterInv, Flags
<1>6. Numbers'
  BY <1>1, <1>4 DEF LinkInv, RegisterInv, Numbers
<1>7. Sequences' /\ Answers'
  BY <1>1 DEF LinkInv, RegisterInv, Sequences, Answers
<1>8. Gift'
  BY <1>1 DEF LinkInv, RegisterInv, Gift
<1>9. Taking'
  BY <1>1, <1>3 DEF Taking, Taken, Nothing
<1> QED
  BY <1>2, <1>5, <1>6, <1>7, <1>8, <1>9 DEF LinkInv, RegisterInv, Stage

LEMMA EndStep ==
  ASSUME LinkInv, End
  PROVE  LinkInv'
<1>1. /\ game = "command" /\ ~start /\ ~busy /\ ~(ready /\ Read(cmd))
      /\ game' = "idle" /\ given' = << >> /\ got' = << >> /\ moments' = {}
      /\ UNCHANGED <<calendar, state, n, cmd, start, busy, ready, data, shiftreg, falling_edge_registered,
                     mcu, rx_fifo, rx_buffer, rx_left, rxne, tx, tx_dma, pulses, rtc_curr_cmd, read>>
  BY DEF End, Busy, link, mcu_vars, spi_rx, spi_tx
<1>2. CalendarInv'
  BY <1>1, CalendarKept DEF LinkInv
<1>3. Flags'
  BY <1>1 DEF LinkInv, RegisterInv, Flags
<1>4. Numbers'
  BY <1>1 DEF LinkInv, RegisterInv, Numbers
<1>5. Sequences' /\ Answers'
  BY <1>1 DEF LinkInv, RegisterInv, Sequences, Answers
<1>6. Gift'
  BY <1>1 DEF Gift
<1>7. Resting'
  <2>1. Answering \/ Obeyed
    <3>1. ~Calling /\ ~Called /\ ~Looking /\ ~Taking /\ ~Stuck /\ ~Resting
      BY <1>1 DEF Calling, Called, Looking, Taking, Stuck, Resting
    <3> QED
      BY <3>1 DEF LinkInv, Stage
  <2>2. state = "Idle"
    BY <1>1, <2>1 DEF Answering, Places, Obeyed
  <2>3. tx = << >> /\ McuIdle /\ rx_fifo \in Seq({Pad}) /\ Len(rx_fifo) <= Fifo
    <3>1. CASE Answering
      <4>1. Len(tx) = 0 /\ tx \in Seq(0..255)
        BY <3>1, <2>2 DEF Answering, Places, LinkInv, RegisterInv, Sequences
      <4> QED
        BY <3>1, <4>1, EmptySeq DEF Answering
    <3>2. CASE Obeyed
      BY <3>2 DEF Obeyed, Nothing, Fifo
    <3> QED
      BY <2>1, <3>1, <3>2
  <2> QED
    BY <1>1, <2>2, <2>3 DEF Resting, McuIdle
<1> QED
  BY <1>2, <1>3, <1>4, <1>5, <1>6, <1>7 DEF LinkInv, RegisterInv, Stage

LEMMA StartCommandStep ==
  ASSUME LinkInv, StartCommand
  PROVE  LinkInv'
<1>1. /\ state = "Idle" /\ start /\ start' = FALSE /\ busy' = TRUE /\ state' = "LowerCS"
      /\ UNCHANGED <<calendar, n, cmd, ready, data, shiftreg, falling_edge_registered,
                     mcu, rx_fifo, rx_buffer, rx_left, rxne, tx, tx_dma, pulses, rtc_curr_cmd, read,
                     game, given, got, moments>>
  BY DEF StartCommand, fpga_rest, mcu_vars, spi_rx, spi_tx, player
<1>2. CalendarInv'
  BY <1>1, CalendarKept DEF LinkInv
<1>3. Flags'
  BY <1>1 DEF LinkInv, RegisterInv, Flags
<1>4. Numbers'
  BY <1>1 DEF LinkInv, RegisterInv, Numbers
<1>5. Sequences' /\ Answers'
  BY <1>1 DEF LinkInv, RegisterInv, Sequences, Answers
<1>6. Gift'
  BY <1>1 DEF LinkInv, RegisterInv, Gift
<1>7. Calling
  BY <1>1, StageCases DEF LinkInv
<1>8. NowRight'
  BY <1>1, <1>7, NowKept DEF Calling, Beginning
<1>9. Calling'
  BY <1>1, <1>7, <1>8 DEF Calling, Beginning, FirstByte, McuIdle, Nothing
<1> QED
  BY <1>2, <1>3, <1>4, <1>5, <1>6, <1>9 DEF LinkInv, RegisterInv, Stage

LEMMA LowerCSStep ==
  ASSUME LinkInv, LowerCS
  PROVE  LinkInv'
<1>1. /\ state = "LowerCS" /\ shiftreg' = cmd /\ falling_edge_registered' = FALSE /\ state' = "SendCmd"
      /\ UNCHANGED <<calendar, n, cmd, start, busy, ready, data,
                     mcu, rx_fifo, rx_buffer, rx_left, rxne, tx, tx_dma, pulses, rtc_curr_cmd, read,
                     game, given, got, moments>>
  BY DEF LowerCS, fpga_rest, mcu_vars, spi_rx, spi_tx, player
<1>2. CalendarInv'
  BY <1>1, CalendarKept DEF LinkInv
<1>3. Flags'
  BY <1>1 DEF LinkInv, RegisterInv, Flags
<1>4. Numbers'
  BY <1>1 DEF LinkInv, RegisterInv, Numbers, Commands
<1>5. Sequences' /\ Answers'
  BY <1>1 DEF LinkInv, RegisterInv, Sequences, Answers
<1>6. Gift'
  BY <1>1 DEF LinkInv, RegisterInv, Gift
<1>7. Calling
  BY <1>1, StageCases DEF LinkInv
<1>8. NowRight'
  BY <1>1, <1>7, NowKept DEF Calling, Beginning
<1>9. Calling'
  BY <1>1, <1>7, <1>8 DEF Calling, Beginning, FirstByte, McuIdle, Nothing
<1> QED
  BY <1>2, <1>3, <1>4, <1>5, <1>6, <1>9 DEF LinkInv, RegisterInv, Stage

LEMMA SendCmdStep ==
  ASSUME LinkInv, SendCmd
  PROVE  LinkInv'
<1>1. /\ state = "SendCmd" /\ Receive(shiftreg)
      /\ data' \in (IF Read(cmd) THEN Received ELSE {data})
      /\ tx' = IF tx = << >> THEN tx ELSE Tail(tx)
      /\ state' = IF cmd \in {0, 1} THEN "RaiseCS" ELSE "WaitCmdAck"
      /\ UNCHANGED <<calendar, n, cmd, start, busy, ready, shiftreg, falling_edge_registered,
                     mcu, tx_dma, pulses, rtc_curr_cmd, read, game, given, got, moments>>
  BY DEF SendCmd, fpga_rest, player
<1>2. CalendarInv'
  BY <1>1, CalendarKept DEF LinkInv
<1>7. Calling
  BY <1>1, StageCases DEF LinkInv
<1>8. rx_fifo = << >> /\ tx = << >> /\ rx_left = 0 /\ shiftreg = cmd /\ rx_buffer = << >>
  BY <1>1, <1>7 DEF Calling, Nothing, McuIdle
<1>9. rx_fifo' = <<cmd>> /\ UNCHANGED <<rx_buffer, rx_left, rxne>> /\ tx' = << >>
  <2>1. Len(rx_fifo) < Fifo
    BY <1>8 DEF Fifo
  <2>2. Append(rx_fifo, shiftreg) = <<cmd>>
    BY <1>8
  <2>3. ~(rx_left > 0)
    BY <1>8
  <2> QED
    BY <1>1, <1>8, <2>1, <2>2, <2>3 DEF Receive
<1>3. Flags'
  BY <1>1, <1>9 DEF LinkInv, RegisterInv, Flags
<1>12. data' \in {0, \hFF, data} /\ (cmd \in WriteCommands => data' = data)
  <2>1. Received = {0, \hFF}
    BY <1>8 DEF Received
  <2> QED
    BY <1>1, <2>1, WriteLengths
<1>4. Numbers'
  BY <1>1, <1>9, <1>12 DEF LinkInv, RegisterInv, Numbers
<1>5. Sequences' /\ Answers'
  <2>1. cmd \in 0..255
    BY DEF LinkInv, RegisterInv, Numbers, Commands
  <2>2. <<cmd>> \in Seq(0..255) /\ << >> \in Seq(0..255)
    BY <2>1
  <2> QED
    BY <1>1, <1>9, <2>2 DEF LinkInv, RegisterInv, Sequences, Answers
<1>6. Gift'
  BY <1>1 DEF LinkInv, RegisterInv, Gift
<1>10. NowRight'
  BY <1>1, <1>7, NowKept DEF Calling, Beginning
<1>11. Called'
  BY <1>1, <1>7, <1>8, <1>9, <1>10, <1>12
     DEF Calling, Called, AfterCommand, Beginning, FirstByte, McuIdle, Nothing
<1> QED
  BY <1>2, <1>3, <1>4, <1>5, <1>6, <1>11 DEF LinkInv, RegisterInv, Stage

LEMMA WaitCmdAckStep ==
  ASSUME LinkInv, WaitCmdAck
  PROVE  LinkInv'
<1>1. /\ state = "WaitCmdAck" /\ falling_edge_registered
      /\ shiftreg' = IF Read(cmd) THEN Pad ELSE data
      /\ falling_edge_registered' = FALSE
      /\ state' = "SendData" /\ n' = 1
      /\ UNCHANGED <<calendar, cmd, start, busy, ready, data,
                     mcu, rx_fifo, rx_buffer, rx_left, rxne, tx, tx_dma, pulses, rtc_curr_cmd, read,
                     game, given, got, moments>>
  BY DEF WaitCmdAck, Load, fpga_rest, mcu_vars, spi_rx, spi_tx, player
<1>2. CalendarInv'
  BY <1>1, CalendarKept DEF LinkInv
<1>3. Flags'
  BY <1>1 DEF LinkInv, RegisterInv, Flags
<1>4. Numbers'
  BY <1>1 DEF LinkInv, RegisterInv, Numbers, Pad
<1>5. Sequences' /\ Answers'
  BY <1>1 DEF LinkInv, RegisterInv, Sequences, Answers
<1>6. Gift'
  BY <1>1 DEF LinkInv, RegisterInv, Gift
<1>7. Answering \/ Taking
  BY <1>1, StageCases DEF LinkInv, Called, Looking
<1>8. CASE Answering
  <2>1. Length(cmd) \in 1..7 /\ Read(cmd)
    BY <1>8, ReadLengths DEF Answering, Length
  <2>2. busy /\ ~ready /\ n = 1 /\ Len(got) = 0 /\ Len(tx) = Length(cmd)
    BY <1>1, <1>8 DEF Answering, Places
  <2>3. Places'
    BY <1>1, <2>1, <2>2 DEF Places
  <2>4. PICK a \in moments : AnswerIs(a)
    BY <1>8 DEF Answering
  <2>5. AnswerIs(a)'
    BY <1>1, <2>4 DEF AnswerIs, ByteWaits
  <2>6. Answering'
    BY <1>1, <1>8, <2>1, <2>3, <2>4, <2>5 DEF Answering, McuIdle
  <2> QED
    BY <1>2, <1>3, <1>4, <1>5, <1>6, <2>6 DEF LinkInv, RegisterInv, Stage
<1>9. CASE Taking
  <2>1. Length(cmd) \in 1..7 /\ ~Read(cmd)
    BY <1>9, WriteLengths DEF Taking, Length
  <2>2. busy /\ ~ready /\ data = given[1] /\ Taken(0) /\ pulses = 0
    BY <1>1, <1>9 DEF Taking
  <2>3. shiftreg' = given[1]
    BY <1>1, <2>1, <2>2
  <2>4. Taken(n - 1)'
    BY <1>1, <2>2 DEF Taken
  <2>5. Taking'
    BY <1>1, <1>9, <2>1, <2>2, <2>3, <2>4 DEF Taking, Nothing
  <2> QED
    BY <1>2, <1>3, <1>4, <1>5, <1>6, <2>5 DEF LinkInv, RegisterInv, Stage
<1> QED
  BY <1>7, <1>8, <1>9

LEMMA WaitNextDataStep ==
  ASSUME LinkInv, WaitNextData
  PROVE  LinkInv'
<1>1. /\ state = "WaitNextData" /\ ~ready
      /\ shiftreg' = IF Read(cmd) THEN Pad ELSE data
      /\ state' = "SendData"
      /\ UNCHANGED <<calendar, n, cmd, start, busy, ready, data, falling_edge_registered,
                     mcu, rx_fifo, rx_buffer, rx_left, rxne, tx, tx_dma, pulses, rtc_curr_cmd, read,
                     game, given, got, moments>>
  BY DEF WaitNextData, Load, fpga_rest, mcu_vars, spi_rx, spi_tx, player
<1>2. CalendarInv'
  BY <1>1, CalendarKept DEF LinkInv
<1>3. Flags'
  BY <1>1 DEF LinkInv, RegisterInv, Flags
<1>4. Numbers'
  BY <1>1 DEF LinkInv, RegisterInv, Numbers, Pad
<1>5. Sequences' /\ Answers'
  BY <1>1 DEF LinkInv, RegisterInv, Sequences, Answers
<1>6. Gift'
  BY <1>1 DEF LinkInv, RegisterInv, Gift
<1>7. Answering \/ Taking
  BY <1>1, StageCases DEF LinkInv
<1>8. CASE Answering
  <2>1. Length(cmd) \in 1..7 /\ Read(cmd)
    BY <1>8, ReadLengths DEF Answering, Length
  <2>2. busy /\ n \in 2..Length(cmd) /\ Len(got) = n - 1 /\ Len(tx) = Length(cmd) - n + 1
    BY <1>1, <1>8 DEF Answering, Places
  <2>3. Places'
    BY <1>1, <2>1, <2>2 DEF Places
  <2>4. PICK a \in moments : AnswerIs(a)
    BY <1>8 DEF Answering
  <2>5. AnswerIs(a)'
    BY <1>1, <2>4 DEF AnswerIs, ByteWaits
  <2>6. Answering'
    BY <1>1, <1>8, <2>1, <2>3, <2>4, <2>5 DEF Answering, McuIdle
  <2> QED
    BY <1>2, <1>3, <1>4, <1>5, <1>6, <2>6 DEF LinkInv, RegisterInv, Stage
<1>9. CASE Taking
  <2>1. Length(cmd) \in 1..7 /\ ~Read(cmd)
    BY <1>9, WriteLengths DEF Taking, Length
  <2>2. /\ busy /\ n \in 2..Length(cmd) /\ data = given[n] /\ Taken(n - 1)
        /\ pulses = 0 /\ ~falling_edge_registered
    BY <1>1, <1>9 DEF Taking
  <2>3. shiftreg' = given[n]
    BY <1>1, <2>1, <2>2
  <2>4. Taken(n - 1)'
    BY <1>1, <2>2 DEF Taken
  <2>5. Taking'
    BY <1>1, <1>9, <2>1, <2>2, <2>3, <2>4 DEF Taking, Nothing
  <2> QED
    BY <1>2, <1>3, <1>4, <1>5, <1>6, <2>5 DEF LinkInv, RegisterInv, Stage
<1> QED
  BY <1>7, <1>8, <1>9

LEMMA RaiseCSStep ==
  ASSUME LinkInv, RaiseCS
  PROVE  LinkInv'
<1>1. /\ state = "RaiseCS" /\ falling_edge_registered
      /\ state' = "Idle" /\ busy' = FALSE /\ ready' = TRUE /\ n' = 0
      /\ UNCHANGED <<calendar, cmd, start, data, shiftreg, falling_edge_registered,
                     mcu, rx_fifo, rx_buffer, rx_left, rxne, tx, tx_dma, pulses, rtc_curr_cmd, read,
                     game, given, got, moments>>
  BY DEF RaiseCS, fpga_rest, mcu_vars, spi_rx, spi_tx, player
<1>2. CalendarInv'
  BY <1>1, CalendarKept DEF LinkInv
<1>3. Flags'
  BY <1>1 DEF LinkInv, RegisterInv, Flags
<1>4. Numbers'
  BY <1>1 DEF LinkInv, RegisterInv, Numbers
<1>5. Sequences' /\ Answers'
  BY <1>1 DEF LinkInv, RegisterInv, Sequences, Answers
<1>6. Gift'
  BY <1>1 DEF LinkInv, RegisterInv, Gift
<1>7. Answering \/ Obeyed
  BY <1>1, StageCases DEF LinkInv
<1>8. CASE Answering
  <2>1. Len(got) = Length(cmd) - 1 /\ Len(tx) = 0
    BY <1>1, <1>8 DEF Answering, Places
  <2>3. Places'
    BY <1>1, <2>1 DEF Places
  <2>4. PICK a \in moments : AnswerIs(a)
    BY <1>8 DEF Answering
  <2>5. AnswerIs(a)'
    BY <1>1, <2>4 DEF AnswerIs, ByteWaits
  <2>6. Answering'
    BY <1>1, <1>8, <2>3, <2>4, <2>5 DEF Answering, McuIdle
  <2> QED
    BY <1>2, <1>3, <1>4, <1>5, <1>6, <2>6 DEF LinkInv, RegisterInv, Stage
<1>9. CASE Obeyed
  <2>1. Obeyed'
    BY <1>1, <1>9 DEF Obeyed, McuIdle, Nothing
  <2> QED
    BY <1>2, <1>3, <1>4, <1>5, <1>6, <2>1 DEF LinkInv, RegisterInv, Stage
<1> QED
  BY <1>7, <1>8, <1>9

LEMMA AppendPad ==
  ASSUME NEW s \in Seq({Pad}), Len(s) <= Fifo
  PROVE  /\ Len(s) < Fifo => Append(s, Pad) \in Seq({Pad}) /\ Len(Append(s, Pad)) <= Fifo
         /\ s \in Seq(0..255) /\ Append(s, Pad) \in Seq(0..255)
  BY DEF Pad, Fifo

LEMMA SendDataStep ==
  ASSUME LinkInv, SendData
  PROVE  LinkInv'
<1>1. /\ state = "SendData" /\ pulses = 0 /\ Receive(shiftreg)
      /\ tx' = IF tx = << >> THEN tx ELSE Tail(tx)
      /\ IF Read(cmd) THEN data' \in (IF tx = << >> THEN {0, \hFF} ELSE {Head(tx)}) ELSE data' = data
      /\ IF LastByte
         THEN state' = "RaiseCS" /\ UNCHANGED <<n, ready>>
         ELSE state' = "WaitNextData" /\ n' = n + 1 /\ ready' = TRUE
      /\ UNCHANGED <<calendar, cmd, start, busy, shiftreg, falling_edge_registered,
                     mcu, tx_dma, pulses, rtc_curr_cmd, read, game, given, got, moments>>
  BY DEF SendData, Received, fpga_rest, player
<1>2. CalendarInv'
  BY <1>1, CalendarKept DEF LinkInv
<1>3. Gift'
  BY <1>1 DEF LinkInv, RegisterInv, Gift
<1>4. Answers'
  BY <1>1 DEF LinkInv, RegisterInv, Answers
<1>5. Answering \/ Taking
  BY <1>1, StageCases DEF LinkInv
<1>6. Length(cmd) \in 1..7 /\ n \in 1..Length(cmd) /\ (LastByte <=> n = Length(cmd)) /\ ~ready /\ busy
  <2>1. Length(cmd) \in 1..7
    <3>1. Answering => Length(cmd) \in 1..7
      BY ReadLengths DEF Answering, Length
    <3>2. Taking => Length(cmd) \in 1..7
      BY WriteLengths DEF Taking, Length
    <3> QED
      BY <1>5, <3>1, <3>2
  <2>2. n \in 1..Length(cmd) /\ ~ready /\ busy
    BY <1>1, <1>5 DEF Answering, Places, Taking
  <2> QED
    BY <2>1, <2>2 DEF LastByte, Length
<1>7. IF n = Length(cmd)
      THEN state' = "RaiseCS" /\ n' = n /\ ready' = ready
      ELSE state' = "WaitNextData" /\ n' = n + 1 /\ ready' = TRUE
  BY <1>1, <1>6
<1>8. CASE Answering
  <2>1. Read(cmd)
    BY <1>8, ReadLengths DEF Answering
  <2>2. Len(got) = n - 1 /\ Len(tx) = Length(cmd) - n + 1 /\ shiftreg = Pad
    BY <1>1, <1>8 DEF Answering, Places
  <2>3. PICK a \in moments : AnswerIs(a)
    BY <1>8 DEF Answering
  <2>4. Len(a) = Length(cmd) /\ \A k \in 1..Len(tx) : tx[k] = a[Len(a) - Len(tx) + k]
    BY <2>3 DEF AnswerIs
  <2>5. tx \in Seq(0..255) /\ tx # << >> /\ Len(tx) \in 1..7
    <3>1. tx \in Seq(0..255)
      BY DEF LinkInv, RegisterInv, Sequences
    <3>2. Len(tx) \in 1..7
      BY <1>6, <2>2
    <3>3. tx # << >>
      BY <3>2, EmptySeq
    <3> QED
      BY <3>1, <3>2, <3>3
  <2>6. tx' = Tail(tx) /\ data' = Head(tx)
    BY <1>1, <2>1, <2>5
  <2>7. Head(tx) = tx[1] /\ Head(tx) \in 0..255
    BY <2>5, HeadTailProperties
  <2>8. /\ Tail(tx) \in Seq(0..255) /\ Len(Tail(tx)) = Len(tx) - 1
        /\ \A k \in 1..(Len(tx) - 1) : Tail(tx)[k] = tx[k + 1]
    BY <2>5
  <2>9. data' = a[n]
    <3>1. 1 \in 1..Len(tx) /\ Len(a) - Len(tx) + 1 = n
      BY <1>6, <2>2, <2>4, <2>5
    <3>2. tx[1] = a[Len(a) - Len(tx) + 1]
      BY <2>4, <3>1
    <3> QED
      BY <2>6, <2>7, <3>1, <3>2
  <2>10. McuIdle /\ rx_fifo \in Seq({Pad}) /\ Len(rx_fifo) <= Fifo
    BY <1>8 DEF Answering
  <2>11. /\ rx_fifo' = IF Len(rx_fifo) < Fifo THEN Append(rx_fifo, Pad) ELSE rx_fifo
         /\ UNCHANGED <<rx_buffer, rx_left, rxne>>
    <3>1. ~(rx_left > 0)
      BY <2>10 DEF McuIdle
    <3> QED
      BY <1>1, <2>2, <3>1 DEF Receive
  <2>12. rx_fifo' \in Seq({Pad}) /\ Len(rx_fifo') <= Fifo /\ rx_fifo' \in Seq(0..255)
    BY <2>10, <2>11, AppendPad
  <2>13. AnswerIs(a)'
    <3>1. Len(got') < Len(a) /\ data' = a[Len(got') + 1]
      BY <1>1, <1>6, <2>2, <2>4, <2>9
    <3>2. \A k \in 1..Len(tx') : tx'[k] = a[Len(a) - Len(tx') + k]
      <4> SUFFICES ASSUME NEW k \in 1..Len(tx') PROVE tx'[k] = a[Len(a) - Len(tx') + k]
        OBVIOUS
      <4>1. k \in 1..(Len(tx) - 1) /\ k + 1 \in 1..Len(tx) /\ Len(tx') = Len(tx) - 1
        BY <2>5, <2>6, <2>8
      <4>2. tx'[k] = tx[k + 1]
        BY <2>6, <2>8, <4>1
      <4>3. tx[k + 1] = a[Len(a) - Len(tx) + (k + 1)]
        BY <2>4, <4>1
      <4>4. Len(a) - Len(tx) + (k + 1) = Len(a) - Len(tx') + k
        BY <1>6, <2>4, <2>5, <4>1
      <4> QED
        BY <4>2, <4>3, <4>4
    <3>3. Len(tx') <= Len(a)
      BY <1>6, <2>2, <2>4, <2>6, <2>8
    <3> QED
      BY <1>1, <2>3, <2>4, <3>1, <3>2, <3>3 DEF AnswerIs, ByteWaits
  <2>14. Places'
    <3>1. Len(tx') = Length(cmd) - n
      BY <1>6, <2>2, <2>6, <2>8
    <3>2. CASE n = Length(cmd)
      BY <1>1, <1>6, <1>7, <2>2, <3>1, <3>2 DEF Places
    <3>3. CASE n # Length(cmd)
      <4>1. state' = "WaitNextData" /\ n' = n + 1 /\ ready' = TRUE
        BY <1>7, <3>3
      <4>2. n' \in 2..Length(cmd) /\ Len(got') = n' - 2 /\ Len(tx') = Length(cmd) - n' + 1
        BY <1>1, <1>6, <2>2, <3>1, <3>3, <4>1
      <4> QED
        BY <1>1, <1>6, <4>1, <4>2 DEF Places
    <3> QED
      BY <3>2, <3>3
  <2>15. Answering'
    BY <1>1, <1>7, <1>8, <2>3, <2>10, <2>11, <2>12, <2>13, <2>14 DEF Answering, McuIdle
  <2>16. Flags'
    BY <1>1, <1>7, <2>11 DEF LinkInv, RegisterInv, Flags
  <2>17. Numbers'
    <3>1. n' \in 0..7
      BY <1>6, <1>7
    <3> QED
      BY <1>1, <2>6, <2>7, <2>11, <3>1 DEF LinkInv, RegisterInv, Numbers
  <2>18. Sequences'
    BY <1>1, <2>6, <2>8, <2>11, <2>12 DEF LinkInv, RegisterInv, Sequences
  <2> QED
    BY <1>2, <1>3, <1>4, <2>15, <2>16, <2>17, <2>18 DEF LinkInv, RegisterInv, Stage
<1>9. CASE Taking
  <2>1. ~Read(cmd) /\ Length(cmd) = CommandLength(cmd)
    BY <1>6, <1>9, WriteLengths DEF Taking, Length
  <2>2. /\ shiftreg = given[n] /\ Len(rx_buffer) = n - 1 /\ rx_left = Length(cmd) - (n - 1)
        /\ ~falling_edge_registered
    BY <1>1, <1>9 DEF Taking, Taken
  <2>3. tx = << >> /\ rx_buffer \in Seq(0..255) /\ shiftreg \in 0..255
    BY <1>9 DEF Taking, Nothing, LinkInv, RegisterInv, Sequences, Numbers
  <2>4. /\ rx_buffer' = Append(rx_buffer, shiftreg) /\ rx_left' = rx_left - 1
        /\ UNCHANGED <<rx_fifo, rxne, tx, data>>
    <3>1. rx_left > 0
      BY <1>6, <2>2
    <3>2. rx_buffer' = Append(rx_buffer, shiftreg) /\ rx_left' = rx_left - 1 /\ UNCHANGED <<rx_fifo, rxne>>
      BY <1>1, <3>1 DEF Receive
    <3> QED
      BY <1>1, <2>1, <2>3, <3>2
  <2>5. rx_buffer' \in Seq(0..255) /\ Len(rx_buffer') = n
    BY <1>6, <2>2, <2>3, <2>4
  <2>6. \A k \in 1..Len(rx_buffer') : rx_buffer'[k] = given[k]
    <3> SUFFICES ASSUME NEW k \in 1..n PROVE rx_buffer'[k] = given[k]
      BY <2>5
    <3>1. CASE k \in 1..Len(rx_buffer)
      <4>1. rx_buffer'[k] = rx_buffer[k]
        BY <2>3, <2>4, <3>1
      <4> QED
        BY <1>9, <3>1, <4>1 DEF Taking
    <3>2. CASE k = n
      <4>1. rx_buffer'[Len(rx_buffer) + 1] = shiftreg
        BY <2>3, <2>4
      <4>2. Len(rx_buffer) + 1 = n
        BY <1>6, <2>2
      <4> QED
        BY <2>2, <3>2, <4>1, <4>2
    <3> QED
      BY <1>6, <2>2, <3>1, <3>2
  <2>7. Taking'
    <3>1. /\ cmd \in WriteCommands /\ mcu = "receive" /\ rtc_curr_cmd = cmd /\ read = None /\ ~rxne /\ Nothing
          /\ game = "command" /\ ~start
      BY <1>9 DEF Taking
    <3>2. rx_left' = Length(cmd) - n
      BY <1>6, <2>2, <2>4
    <3>3. CASE n = Length(cmd)
      <4>1. Taken(Length(cmd))'
        BY <1>1, <2>5, <3>2, <3>3 DEF Taken
      <4> QED
        BY <1>1, <1>6, <1>7, <2>2, <2>4, <2>6, <3>1, <3>3, <4>1 DEF Taking, Nothing
    <3>4. CASE n # Length(cmd)
      <4>1. n' = n + 1 /\ n' \in 2..Length(cmd) /\ state' = "WaitNextData" /\ ready' = TRUE
        BY <1>6, <1>7, <3>4
      <4>2. Taken(n - 1)'
        BY <1>1, <1>6, <2>5, <3>2, <4>1 DEF Taken
      <4> QED
        BY <1>1, <1>6, <2>2, <2>4, <2>6, <3>1, <4>1, <4>2 DEF Taking, Nothing
    <3> QED
      BY <3>3, <3>4
  <2>16. Flags'
    BY <1>1, <1>7, <2>4 DEF LinkInv, RegisterInv, Flags
  <2>17. Numbers'
    <3>1. n' \in 0..7
      BY <1>6, <1>7
    <3>2. rx_left' \in 0..7
      BY <1>6, <2>2, <2>4
    <3> QED
      BY <1>1, <2>4, <3>1, <3>2 DEF LinkInv, RegisterInv, Numbers
  <2>18. Sequences'
    BY <1>1, <2>4, <2>5 DEF LinkInv, RegisterInv, Sequences
  <2> QED
    BY <1>2, <1>3, <1>4, <2>7, <2>16, <2>17, <2>18 DEF LinkInv, RegisterInv, Stage
<1> QED
  BY <1>5, <1>8, <1>9

LEMMA EdgeStep ==
  ASSUME LinkInv, Edge
  PROVE  LinkInv'
<1>1. /\ pulses > 0 /\ pulses' = pulses - 1
      /\ falling_edge_registered' = ~(state = "LowerCS" \/ (state = "SendData" /\ n = 1))
      /\ UNCHANGED <<calendar, cmd, state, n, start, busy, ready, data, shiftreg,
                     mcu, rx_fifo, rx_buffer, rx_left, rxne, tx, tx_dma, rtc_curr_cmd, read,
                     game, given, got, moments>>
  BY DEF Edge, fpga_rest, spi_rx, spi_tx, player
<1>2. CalendarInv'
  BY <1>1, CalendarKept DEF LinkInv
<1>3. Flags'
  BY <1>1 DEF LinkInv, RegisterInv, Flags
<1>4. Numbers'
  BY <1>1 DEF LinkInv, RegisterInv, Numbers
<1>5. Sequences' /\ Answers'
  BY <1>1 DEF LinkInv, RegisterInv, Sequences, Answers
<1>6. Gift'
  BY <1>1 DEF LinkInv, RegisterInv, Gift
<1>7. Resting \/ Answering \/ Taking \/ Obeyed
  BY <1>1, StageCases DEF LinkInv
<1>8. Resting => Resting'
  BY <1>1 DEF Resting, McuIdle
<1>9. ASSUME Answering PROVE Answering'
  <2>1. PICK a \in moments : AnswerIs(a)
    BY <1>9 DEF Answering
  <2>2. AnswerIs(a)'
    BY <1>1, <2>1 DEF AnswerIs, ByteWaits
  <2>3. Places'
    BY <1>1, <1>9 DEF Answering, Places
  <2> QED
    BY <1>1, <1>9, <2>1, <2>2, <2>3 DEF Answering, McuIdle
<1>10. ASSUME Taking PROVE Taking'
  <2>1. /\ state = "WaitCmdAck" /\ ~ready /\ n = 1 /\ data = given[1] /\ Taken(0)
        /\ pulses = 1 /\ ~falling_edge_registered
    <3>1. state = "WaitCmdAck" /\ ~ready /\ n = 1 /\ data = given[1] /\ Taken(0)
          /\ pulses = 1 - (IF falling_edge_registered THEN 1 ELSE 0)
      BY <1>1, <1>10 DEF Taking
    <3>2. falling_edge_registered => pulses = 0
      BY <3>1
    <3> QED
      BY <1>1, <3>1, <3>2
  <2>2. pulses' = 0 /\ falling_edge_registered'
    <3>1. ~(state = "LowerCS" \/ (state = "SendData" /\ n = 1))
      BY <2>1
    <3>2. falling_edge_registered'
      BY <1>1, <3>1, Zenon
    <3> QED
      BY <1>1, <2>1, <3>2
  <2>3. Taken(0)'
    BY <1>1, <2>1 DEF Taken
  <2>4. pulses' = 1 - (IF falling_edge_registered' THEN 1 ELSE 0)
    BY <2>2
  <2> QED
    BY <1>1, <1>10, <2>1, <2>3, <2>4 DEF Taking, Nothing
<1>11. Obeyed => Obeyed'
  BY <1>1 DEF Obeyed, McuIdle, Nothing
<1> QED
  BY <1>2, <1>3, <1>4, <1>5, <1>6, <1>7, <1>8, <1>9, <1>10, <1>11 DEF LinkInv, RegisterInv, Stage

\* The padding is taken for a command that does nothing, ...
LEMMA PadTaken ==
  ASSUME LinkInv, SpiIrq, rx_fifo \in Seq({Pad}), rx_left = 0, rx_buffer = << >>
  PROVE  /\ rx_fifo' = Tail(rx_fifo) /\ rx_fifo # << >> /\ rxne
         /\ rx_buffer' = << >> /\ rx_left' = 0 /\ tx' = tx /\ (tx_dma' <=> tx_dma) /\ tx_dma' \in BOOLEAN /\ rxne' = TRUE
         /\ pulses' = pulses + 1 /\ mcu' = "idle" /\ rtc_curr_cmd' = 0
         /\ UNCHANGED <<calendar, read, moments, link, player>>
<1>1. PICK c, len, waiting :
        /\ c = Head(rx_fifo) % 16 /\ len = CommandLength(c) /\ waiting = Least(len, Len(rx_fifo) - 1)
        /\ rx_fifo' = SubSeq(rx_fifo, 2 + waiting, Len(rx_fifo))
        /\ rx_buffer' = SubSeq(rx_fifo, 2, 1 + waiting)
        /\ rx_left' = len - waiting
        /\ IF len > 0
           THEN /\ rtc_curr_cmd' = c /\ mcu' = "receive" /\ rxne' = FALSE /\ pulses' = pulses + 1
                /\ UNCHANGED <<calendar, spi_tx, read, moments>>
           ELSE FinishCommand(c, << >>)
  BY DEF SpiIrq, CommandOf
<1>2. rx_fifo # << >> /\ mcu = "idle" /\ rxne /\ UNCHANGED <<link, player>>
  BY DEF SpiIrq
<1>3. Head(rx_fifo) = Pad /\ Len(rx_fifo) \in Nat \ {0}
  <2>1. Head(rx_fifo) \in {Pad}
    BY <1>2, HeadTailProperties
  <2>2. Len(rx_fifo) \in Nat \ {0}
    BY <1>2, EmptySeq
  <2> QED
    BY <2>1, <2>2
<1>4. c = 15
  BY <1>1, <1>3 DEF Pad
<1>5. len = 0 /\ waiting = 0
  <2>1. len = 0
    BY <1>1, <1>4, SMTT(30) DEF CommandLength
  <2>2. PICK x : x = Len(rx_fifo) - 1
    OBVIOUS
  <2>3. x \in Nat
    BY <1>3, <2>2
  <2>4. waiting = IF len < x THEN len ELSE x
    BY <1>1, <2>2 DEF Least
  <2> QED
    BY <2>1, <2>3, <2>4
<1>6. rx_fifo' = Tail(rx_fifo) /\ rx_buffer' = << >> /\ rx_left' = 0
  <2>1. rx_fifo' = SubSeq(rx_fifo, 2, Len(rx_fifo)) /\ rx_buffer' = SubSeq(rx_fifo, 2, 1) /\ rx_left' = 0
    <3>1. 2 + waiting = 2 /\ 1 + waiting = 1 /\ len - waiting = 0
      BY <1>5
    <3> QED
      BY <1>1, <3>1
  <2>2. Tail(rx_fifo) = SubSeq(rx_fifo, 2, Len(rx_fifo))
    BY <1>2, TailIsSubSeq
  <2>3. SubSeq(rx_fifo, 2, 1) = << >>
    BY SubSeqEmpty
  <2> QED
    BY <2>1, <2>2, <2>3
<1>7. Finish(15, << >>)
  <2>1. FinishCommand(15, << >>)
    BY <1>1, <1>4, <1>5
  <2>2. ~NeedsClock(15, << >>)
    BY DEF NeedsClock
  <2> QED
    BY <2>1, <2>2 DEF FinishCommand
<1>8. Execute(15, << >>) /\ Answer(15) = << >>
  BY <1>7 DEF Finish, Answer
<1>9. UNCHANGED calendar
  BY <1>8 DEF Execute
<1>10. /\ tx' = tx \o << >> /\ tx_dma' = (tx_dma \/ << >> # << >>) /\ rxne' = (<< >> = << >>)
       /\ moments' = (IF << >> = << >> THEN moments ELSE {<< >>})
       /\ pulses' = pulses + 1 /\ mcu' = "idle" /\ rtc_curr_cmd' = 0 /\ UNCHANGED read
  BY <1>7, <1>8 DEF Finish
<1>11. tx' = tx
  <2>1. tx \in Seq(0..255)
    BY DEF LinkInv, RegisterInv, Sequences
  <2> QED
    BY <1>10, <2>1, ConcatEmptySeq
<1>13. tx_dma' \in BOOLEAN
  BY <1>10
<1>12. (tx_dma' <=> tx_dma) /\ rxne' = TRUE /\ moments' = moments
  BY <1>10, Zenon
<1> QED
  BY <1>2, <1>6, <1>9, <1>10, <1>11, <1>12, <1>13

\* ... between two commands and while the answer is sent.
LEMMA PadStep ==
  ASSUME LinkInv, SpiIrq, Resting \/ Answering
  PROVE  LinkInv'
<1>1. McuIdle /\ rx_fifo \in Seq({Pad}) /\ Len(rx_fifo) <= Fifo
  BY DEF Resting, Answering
<1>2. rx_left = 0 /\ rx_buffer = << >> /\ read = None /\ (rxne <=> ~tx_dma)
  BY <1>1 DEF McuIdle
<1>3. /\ rx_fifo' = Tail(rx_fifo) /\ rx_fifo # << >> /\ rxne
      /\ rx_buffer' = << >> /\ rx_left' = 0 /\ tx' = tx /\ (tx_dma' <=> tx_dma) /\ tx_dma' \in BOOLEAN /\ rxne' = TRUE
      /\ pulses' = pulses + 1 /\ mcu' = "idle" /\ rtc_curr_cmd' = 0
      /\ UNCHANGED <<calendar, read, moments, link, player>>
  BY <1>1, <1>2, PadTaken
<1>4. UNCHANGED <<state, n, cmd, start, busy, ready, data, shiftreg, falling_edge_registered, game, given, got>>
  BY <1>3 DEF link, player
<1>5. rx_fifo' \in Seq({Pad}) /\ Len(rx_fifo') <= Fifo /\ rx_fifo' \in Seq(0..255)
  <2>1. rx_fifo' \in Seq({Pad}) /\ Len(rx_fifo') = Len(rx_fifo) - 1
    BY <1>1, <1>3, HeadTailProperties
  <2>2. Len(rx_fifo') <= Fifo
    BY <1>1, <2>1 DEF Fifo
  <2> QED
    BY <2>1, <2>2, AppendPad
<1>6. ~tx_dma /\ ~tx_dma'
  BY <1>2, <1>3, Zenon
<1>7. McuIdle'
  BY <1>2, <1>3, <1>6 DEF McuIdle
<1>8. CalendarInv'
  BY <1>3, CalendarKept DEF LinkInv
<1>9. Flags'
  <2>1. tx_dma' \in BOOLEAN
    BY <1>3
  <2> QED
    BY <1>3, <1>4, <2>1 DEF LinkInv, RegisterInv, Flags
<1>11. Numbers'
  BY <1>3, <1>4 DEF LinkInv, RegisterInv, Numbers
<1>12. Sequences'
  <2>1. << >> \in Seq(0..255)
    BY EmptySeq
  <2> QED
    BY <1>3, <1>4, <1>5, <2>1 DEF LinkInv, RegisterInv, Sequences
<1>13. Answers' /\ Gift'
  BY <1>3, <1>4 DEF LinkInv, RegisterInv, Answers, Gift
<1>14. CASE Resting
  <2>1. Resting'
    BY <1>3, <1>4, <1>5, <1>7, <1>14 DEF Resting
  <2> QED
    BY <1>8, <1>9, <1>11, <1>12, <1>13, <2>1 DEF LinkInv, RegisterInv, Stage
<1>15. CASE Answering
  <2>1. PICK a \in moments : AnswerIs(a)
    BY <1>15 DEF Answering
  <2>2. AnswerIs(a)'
    BY <1>3, <1>4, <2>1 DEF AnswerIs, ByteWaits
  <2>3. Places'
    BY <1>3, <1>4, <1>15 DEF Answering, Places
  <2>4. Answering'
    BY <1>3, <1>4, <1>5, <1>7, <1>15, <2>1, <2>2, <2>3 DEF Answering
  <2> QED
    BY <1>8, <1>9, <1>11, <1>12, <1>13, <2>4 DEF LinkInv, RegisterInv, Stage
<1> QED
  BY <1>14, <1>15

LEMMA AnswerBytes ==
  ASSUME CalendarInv, NEW c \in {0, 1, 3, 9, 11}
  PROVE  Answer(c) \in Seq(0..255) /\ Len(Answer(c)) = Length(c) /\ (Answer(c) = << >> <=> c \in {0, 1})
<1>1. CASE c \in {0, 1}
  BY <1>1 DEF Answer, Length, CommandLength, AnswerLength
<1>2. CASE c = 3
  <2>1. PICK s : s = ReadStatus
    OBVIOUS
  <2>2. s \in 0..255
    <3>1. Bit(~fmt, S3511A_1224) \in {0, \h40}
      BY DEF Bit, S3511A_1224
    <3> QED
      BY <2>1, <3>1 DEF ReadStatus, CalendarInv, S3511A_POWER_LOST
  <2>3. Answer(c) = <<s>> /\ Length(c) = 1
    BY <1>2, <2>1 DEF Answer, Length, CommandLength, AnswerLength
  <2>4. <<s>> \in Seq(0..255) /\ Len(<<s>>) = 1 /\ <<s>> # << >>
    BY <2>2
  <2>5. c \notin {0, 1}
    BY <1>2
  <2>6. Answer(c) # << >>
    BY <2>3, <2>4
  <2>7. Answer(c) = << >> <=> c \in {0, 1}
    BY <2>5, <2>6, Zenon
  <2> QED
    BY <2>3, <2>4, <2>7
<1>3. CASE c \in {9, 11}
  <2>1. Answer(c) = <<\hFF, \hFF>> /\ Length(c) = 2
    BY <1>3 DEF Answer, Length, CommandLength, AnswerLength
  <2> QED
    BY <1>3, <2>1
<1> QED
  BY <1>1, <1>2, <1>3

\* The command of the game.
LEMMA CommandStep ==
  ASSUME LinkInv, SpiIrq, Called
  PROVE  LinkInv'
<1>1. /\ rx_fifo' = << >> /\ rx_buffer' = << >> /\ rx_left' = CommandLength(cmd)
      /\ IF CommandLength(cmd) > 0
         THEN /\ rtc_curr_cmd' = cmd /\ mcu' = "receive" /\ rxne' = FALSE /\ pulses' = pulses + 1
              /\ UNCHANGED <<calendar, tx, tx_dma, read, moments>>
         ELSE FinishCommand(cmd, << >>)
  <2>1. PICK c, len, waiting :
          /\ c = Head(rx_fifo) % 16 /\ len = CommandLength(c) /\ waiting = Least(len, Len(rx_fifo) - 1)
          /\ rx_fifo' = SubSeq(rx_fifo, 2 + waiting, Len(rx_fifo))
          /\ rx_buffer' = SubSeq(rx_fifo, 2, 1 + waiting)
          /\ rx_left' = len - waiting
          /\ IF len > 0
             THEN /\ rtc_curr_cmd' = c /\ mcu' = "receive" /\ rxne' = FALSE /\ pulses' = pulses + 1
                  /\ UNCHANGED <<calendar, spi_tx, read, moments>>
             ELSE FinishCommand(c, << >>)
    BY DEF SpiIrq, CommandOf
  <2>2. rx_fifo = <<cmd>> /\ Head(rx_fifo) = cmd /\ Len(rx_fifo) = 1
    BY DEF Called
  <2>3. c = cmd
    BY <2>1, <2>2, AllCommands DEF LinkInv, RegisterInv, Numbers
  <2>4. len \in 0..7
    BY <2>1, SMTT(30) DEF CommandLength
  <2>5. waiting = 0
    BY <2>1, <2>2, <2>4 DEF Least
  <2>6. SubSeq(rx_fifo, 2, 1) = << >>
    BY SubSeqEmpty
  <2>7. rx_fifo' = << >> /\ rx_buffer' = << >>
    BY <2>1, <2>2, <2>5, <2>6
  <2>8. rx_left' = len /\ len = CommandLength(cmd)
    BY <2>1, <2>3, <2>4, <2>5
  <2> QED
    BY <2>1, <2>3, <2>7, <2>8 DEF spi_tx
<1>2. UNCHANGED <<state, n, cmd, start, busy, ready, data, shiftreg, falling_edge_registered, game, given, got>>
  BY DEF SpiIrq, link, player
<1>3. /\ Beginning /\ ~start /\ busy /\ state = AfterCommand /\ ~falling_edge_registered /\ McuIdle
      /\ tx = << >> /\ ~tx_dma /\ pulses = 0 /\ read = None /\ rxne
  BY DEF Called, Beginning, McuIdle
<1>4. game = "command" /\ ~ready /\ n = 1 /\ got = << >> /\ FirstByte /\ NowRight
  BY <1>3 DEF Beginning
<1>5. << >> \in Seq(0..255) /\ Len(<< >>) = 0
  BY EmptySeq
<1>6. cmd \in {0, 1} \/ cmd \in {5, 7} \/ cmd \in {3, 9, 11} \/ cmd \in WriteCommands
  BY DEF LinkInv, RegisterInv, Numbers, Commands, WriteCommands
<1>7. CASE cmd \in WriteCommands
  <2>1. CommandLength(cmd) \in 1..7 /\ Length(cmd) = CommandLength(cmd)
    BY <1>7, WriteLengths DEF Length
  <2>2. /\ rtc_curr_cmd' = cmd /\ mcu' = "receive" /\ rxne' = FALSE /\ pulses' = pulses + 1
        /\ UNCHANGED <<calendar, tx, tx_dma, read, moments>>
    BY <1>1, <2>1
  <2>3. CalendarInv'
    BY <2>2, CalendarKept DEF LinkInv
  <2>4. Flags'
    BY <1>2, <2>2 DEF LinkInv, RegisterInv, Flags
  <2>5. Numbers'
    BY <1>1, <1>2, <2>1, <2>2 DEF LinkInv, RegisterInv, Numbers, Commands
  <2>6. Sequences'
    BY <1>1, <1>2, <1>5, <2>2 DEF LinkInv, RegisterInv, Sequences
  <2>7. Answers' /\ Gift'
    BY <1>2, <2>2 DEF LinkInv, RegisterInv, Answers, Gift
  <2>8. state = "WaitCmdAck" /\ data = given[1]
    BY <1>3, <1>4, <1>7 DEF AfterCommand, FirstByte, WriteCommands
  <2>9. Taken(0)'
    BY <1>1, <1>2, <1>5, <2>1 DEF Taken
  <2>10. pulses' = 1 - (IF falling_edge_registered' THEN 1 ELSE 0)
    BY <1>2, <1>3, <2>2
  <2>11. \A k \in 1..Len(rx_buffer') : rx_buffer'[k] = given'[k]
    BY <1>1, <1>5
  <2>12. Taking'
    BY <1>1, <1>2, <1>3, <1>4, <1>7, <2>2, <2>8, <2>9, <2>10, <2>11 DEF Taking, Nothing
  <2> QED
    BY <2>3, <2>4, <2>5, <2>6, <2>7, <2>12 DEF LinkInv, RegisterInv, Stage
<1>8. CASE cmd \in {5, 7}
  <2>1. CommandLength(cmd) = 0 /\ ~NeedsClock(cmd, << >>)
    BY <1>8 DEF CommandLength, NeedsClock
  <2>2. FinishCommand(cmd, << >>)
    BY <1>1, <2>1
  <2>3. /\ mcu' = "TR" /\ rtc_curr_cmd' = cmd /\ rxne' = FALSE
        /\ UNCHANGED <<calendar, tx, tx_dma, pulses, read, moments>>
    BY <1>8, <2>1, <2>2 DEF FinishCommand, spi_tx
  <2>4. CalendarInv'
    BY <2>3, CalendarKept DEF LinkInv
  <2>5. Flags'
    BY <1>2, <2>3 DEF LinkInv, RegisterInv, Flags
  <2>6. Numbers'
    BY <1>1, <1>2, <2>1, <2>3 DEF LinkInv, RegisterInv, Numbers, Commands
  <2>7. Sequences'
    BY <1>1, <1>2, <1>5, <2>3 DEF LinkInv, RegisterInv, Sequences
  <2>8. Answers' /\ Gift'
    BY <1>2, <2>3 DEF LinkInv, RegisterInv, Answers, Gift
  <2>9. read' = <<read'[1], read'[2]>> /\ read'[2] = << >>
    BY <1>3, <2>3 DEF None
  <2>10. NowRight'
    BY <1>2, <1>4, <2>3, NowKept
  <2>11. Beginning'
    BY <1>2, <1>3, <1>4, <2>3, <2>10 DEF Beginning, FirstByte
  <2>12. Looking'
    BY <1>1, <1>2, <1>3, <1>8, <2>1, <2>3, <2>9, <2>11 DEF Looking, AfterCommand, Nothing
  <2> QED
    BY <2>4, <2>5, <2>6, <2>7, <2>8, <2>12 DEF LinkInv, RegisterInv, Stage
<1>9. CASE cmd \in {0, 1, 3, 9, 11}
  <2>1. CommandLength(cmd) = 0 /\ ~NeedsClock(cmd, << >>)
    BY <1>9 DEF CommandLength, NeedsClock
  <2>2. FinishCommand(cmd, << >>)
    BY <1>1, <2>1
  <2>3. Finish(cmd, << >>)
    BY <1>9, <2>1, <2>2 DEF FinishCommand
  <2>4. PICK answer : answer = Answer(cmd)
    OBVIOUS
  <2>5. /\ Execute(cmd, << >>)
        /\ tx' = tx \o answer /\ tx_dma' = (tx_dma \/ answer # << >>) /\ rxne' = (answer = << >>)
        /\ moments' = IF answer = << >> THEN moments ELSE {answer}
        /\ pulses' = pulses + 1 /\ mcu' = "idle" /\ rtc_curr_cmd' = 0 /\ UNCHANGED read
    BY <2>3, <2>4 DEF Finish
  <2>6. CalendarInv'
    <3>1. cmd \in 0..15
      BY <1>9
    <3> QED
      BY <1>5, <2>1, <2>5, <3>1, ExecuteValid DEF LinkInv
  <2>7. answer \in Seq(0..255) /\ Len(answer) = Length(cmd) /\ (answer = << >> <=> cmd \in {0, 1})
    BY <1>5, <1>9, <2>4, AnswerBytes DEF LinkInv
  <2>8. tx' = answer
    BY <1>3, <2>5, <2>7, ConcatEmptySeq
  <2>9. Gift'
    BY <1>2 DEF LinkInv, RegisterInv, Gift
  <2>10. Numbers'
    BY <1>1, <1>2, <2>1, <2>5 DEF LinkInv, RegisterInv, Numbers
  <2>11. Sequences'
    BY <1>1, <1>2, <1>5, <2>7, <2>8 DEF LinkInv, RegisterInv, Sequences
  <2>12. CASE cmd \in {0, 1}
    <3>1. answer = << >>
      BY <2>7, <2>12
    <3>2. ~tx_dma' /\ tx_dma' \in BOOLEAN /\ rxne' = TRUE /\ moments' = moments
      BY <1>3, <2>5, <3>1
    <3>3. Flags'
      BY <1>2, <3>2 DEF LinkInv, RegisterInv, Flags
    <3>4. Answers'
      BY <1>2, <3>2 DEF LinkInv, RegisterInv, Answers
    <3>5. McuIdle'
      BY <1>1, <1>3, <2>1, <2>5, <3>2 DEF McuIdle
    <3>6. state = "RaiseCS"
      BY <1>3, <2>12 DEF AfterCommand
    <3>7. Obeyed'
      BY <1>1, <1>2, <1>3, <1>4, <2>8, <2>12, <3>1, <3>2, <3>5, <3>6 DEF Obeyed, Nothing
    <3> QED
      BY <2>6, <2>9, <2>10, <2>11, <3>3, <3>4, <3>7 DEF LinkInv, RegisterInv, Stage
  <2>13. CASE cmd \in {3, 9, 11}
    <3>1. answer # << >>
      BY <2>7, <2>13
    <3>2. tx_dma' = TRUE /\ rxne' = FALSE /\ moments' = {answer}
      BY <1>3, <2>5, <3>1
    <3>3. Flags'
      BY <1>2, <3>2 DEF LinkInv, RegisterInv, Flags
    <3>4. Answers'
      BY <1>2, <2>7, <3>2 DEF Answers
    <3>5. McuIdle'
      BY <1>1, <1>3, <2>1, <2>5, <3>2 DEF McuIdle
    <3>6. state = "WaitCmdAck"
      BY <1>3, <2>13 DEF AfterCommand
    <3>7. Len(got) = 0
      BY <1>4, <1>5
    <3>8. Places'
      BY <1>2, <1>3, <1>4, <2>7, <2>8, <3>6, <3>7 DEF Places
    <3>9. AnswerIs(answer)'
      <4>1. Len(answer) \in Nat
        BY <2>7
      <4>2. \A k \in 1..Len(answer) : Len(answer) - Len(answer) + k = k
        BY <4>1
      <4>3. \A k \in 1..Len(got') : got'[k] = answer[k]
        BY <1>2, <3>7
      <4>4. ~ByteWaits'
        BY <1>2, <3>6 DEF ByteWaits
      <4> QED
        BY <1>2, <2>7, <2>8, <3>7, <4>1, <4>2, <4>3, <4>4 DEF AnswerIs
    <3>10. rx_fifo' \in Seq({Pad}) /\ Len(rx_fifo') <= Fifo
      BY <1>1, <1>5, EmptySeq DEF Fifo
    <3>11. cmd \in ReadCommands
      BY <2>13 DEF ReadCommands
    <3>12. Answering'
      BY <1>2, <1>3, <1>4, <3>2, <3>5, <3>6, <3>8, <3>9, <3>10, <3>11 DEF Answering
    <3> QED
      BY <2>6, <2>9, <2>10, <2>11, <3>3, <3>4, <3>12 DEF LinkInv, RegisterInv, Stage
  <2> QED
    BY <1>9, <2>12, <2>13
<1> QED
  BY <1>6, <1>7, <1>8, <1>9

\* All of the payload is there when the command is done.
LEMMA WholePayload ==
  ASSUME LinkInv, RxComplete
  PROVE  /\ Taking /\ rx_buffer = given /\ Len(given) = CommandLength(cmd) /\ rtc_curr_cmd = cmd
         /\ game = "command" /\ cmd \in WriteCommands /\ given \in Seq(0..255)
         /\ state = "RaiseCS" /\ ~ready /\ n \in 1..7 /\ pulses = 0 /\ ~falling_edge_registered
<1>1. Taking /\ rx_left = 0
  BY StageCases DEF LinkInv, RxComplete
<1>2. cmd \in WriteCommands /\ Length(cmd) = CommandLength(cmd) /\ CommandLength(cmd) \in 1..7
  BY <1>1, WriteLengths DEF Taking, Length
<1>3. game = "command" /\ rtc_curr_cmd = cmd /\ \A k \in 1..Len(rx_buffer) : rx_buffer[k] = given[k]
  BY <1>1 DEF Taking
<1>4. given \in Seq(0..255) /\ Len(given) = CommandLength(cmd)
  BY <1>3 DEF LinkInv, RegisterInv, Gift
<1>5. rx_buffer \in Seq(0..255)
  BY DEF LinkInv, RegisterInv, Sequences
<1>6. /\ state = "RaiseCS" /\ ~ready /\ n \in 1..Length(cmd) /\ Taken(Length(cmd))
      /\ pulses = 0 /\ ~falling_edge_registered
  BY <1>1, <1>2 DEF Taking, Taken
<1>7. Len(rx_buffer) = Len(given)
  BY <1>2, <1>4, <1>6 DEF Taken
<1>8. rx_buffer = given
  BY <1>3, <1>4, <1>5, <1>7, SeqEqual
<1>9. n \in 1..7
  BY <1>2, <1>6
<1> QED
  BY <1>1, <1>2, <1>3, <1>4, <1>6, <1>8, <1>9

LEMMA RxCompleteStep ==
  ASSUME LinkInv, RxComplete
  PROVE  LinkInv'
<1>1. /\ Taking /\ rx_buffer = given /\ Len(given) = CommandLength(cmd) /\ rtc_curr_cmd = cmd
      /\ game = "command" /\ cmd \in WriteCommands /\ given \in Seq(0..255)
      /\ state = "RaiseCS" /\ ~ready /\ n \in 1..7 /\ pulses = 0 /\ ~falling_edge_registered
  BY WholePayload
<1>2. FinishCommand(cmd, given) /\ rx_buffer' = << >>
  BY <1>1 DEF RxComplete
<1>3. UNCHANGED <<state, n, cmd, start, busy, ready, data, shiftreg, falling_edge_registered, rx_fifo, rx_left,
                  game, given, got>>
  BY DEF RxComplete, link, player
<1>4. busy /\ ~start /\ rx_fifo = << >> /\ tx = << >> /\ ~tx_dma /\ rx_left = 0 /\ read = None
  BY <1>1 DEF Taking, Nothing, RxComplete
<1>5. << >> \in Seq(0..255)
  BY EmptySeq
<1>6. cmd \notin {5, 7} /\ cmd \in 0..15 /\ Answer(cmd) = << >>
  BY <1>1, WriteLengths DEF WriteCommands
<1>7. CASE NeedsClock(cmd, given) /\ ~configured
  <2>1. /\ mcu' = "hung" /\ rtc_curr_cmd' = cmd /\ rxne' = FALSE
        /\ UNCHANGED <<calendar, tx, tx_dma, pulses, read, moments>>
    BY <1>2, <1>6, <1>7 DEF FinishCommand, spi_tx
  <2>2. CalendarInv'
    BY <2>1, CalendarKept DEF LinkInv
  <2>3. Flags'
    BY <1>3, <2>1 DEF LinkInv, RegisterInv, Flags
  <2>4. Numbers'
    BY <1>3, <2>1, <1>6 DEF LinkInv, RegisterInv, Numbers
  <2>5. Sequences'
    BY <1>2, <1>3, <1>5, <2>1 DEF LinkInv, RegisterInv, Sequences
  <2>6. Answers' /\ Gift'
    BY <1>3, <2>1 DEF LinkInv, RegisterInv, Answers, Gift
  <2>7. Stuck'
    BY <1>1, <1>2, <1>3, <1>4, <2>1 DEF Stuck, Nothing
  <2> QED
    BY <2>2, <2>3, <2>4, <2>5, <2>6, <2>7 DEF LinkInv, RegisterInv, Stage
<1>8. CASE ~(NeedsClock(cmd, given) /\ ~configured)
  <2>1. Finish(cmd, given)
    BY <1>2, <1>6, <1>8 DEF FinishCommand
  <2>2. /\ Execute(cmd, given)
        /\ tx' = tx \o << >> /\ tx_dma' = (tx_dma \/ << >> # << >>) /\ rxne' = (<< >> = << >>)
        /\ moments' = (IF << >> = << >> THEN moments ELSE {<< >>})
        /\ pulses' = pulses + 1 /\ mcu' = "idle" /\ rtc_curr_cmd' = 0 /\ UNCHANGED read
    BY <1>6, <2>1 DEF Finish
  <2>3. CalendarInv'
    BY <1>1, <1>6, <2>2, ExecuteValid DEF LinkInv
  <2>4. tx' = << >>
    BY <1>4, <1>5, <2>2, ConcatEmptySeq
  <2>5. tx_dma' \in BOOLEAN /\ rxne' \in BOOLEAN
    BY <2>2
  <2>6. ~tx_dma' /\ rxne' /\ moments' = moments
    BY <1>4, <2>2, Zenon
  <2>7. Flags'
    BY <1>3, <2>5 DEF LinkInv, RegisterInv, Flags
  <2>8. Numbers'
    BY <1>3, <2>2 DEF LinkInv, RegisterInv, Numbers
  <2>9. Sequences'
    BY <1>2, <1>3, <1>5, <2>4 DEF LinkInv, RegisterInv, Sequences
  <2>10. Answers'
    BY <1>3, <2>6 DEF LinkInv, RegisterInv, Answers
  <2>11. Gift'
    BY <1>1, <1>3 DEF Gift
  <2>12. McuIdle'
    BY <1>2, <1>3, <1>4, <2>2, <2>6 DEF McuIdle
  <2>13. Obeyed'
    BY <1>1, <1>3, <1>4, <2>4, <2>6, <2>12 DEF Obeyed, Nothing
  <2> QED
    BY <2>3, <2>7, <2>8, <2>9, <2>10, <2>11, <2>13 DEF LinkInv, RegisterInv, Stage
<1> QED
  BY <1>7, <1>8

\* The MCU changes the calendar for no other byte than the game's.
LEMMA CommandDone ==
  ASSUME LinkInv, SpiIrq \/ RxComplete, ~UNCHANGED calendar
  PROVE  game = "command" /\ busy /\ Execute(cmd, given)
<1>1. CASE RxComplete
  <2>1. Taking /\ rx_buffer = given /\ rtc_curr_cmd = cmd /\ game = "command"
    BY <1>1, WholePayload
  <2>2. FinishCommand(cmd, given)
    BY <1>1, <2>1 DEF RxComplete
  <2>3. Finish(cmd, given)
    BY <2>2 DEF FinishCommand
  <2> QED
    BY <2>1, <2>3 DEF Finish, Taking
<1>2. CASE SpiIrq
  <2>1. Resting \/ Called \/ Answering
    BY <1>2, StageCases DEF LinkInv, SpiIrq
  <2>2. ~Resting /\ ~Answering
    <3> SUFFICES ASSUME Resting \/ Answering PROVE FALSE
      OBVIOUS
    <3>1. rx_fifo \in Seq({Pad}) /\ rx_left = 0 /\ rx_buffer = << >>
      BY DEF Resting, Answering, McuIdle
    <3> QED
      BY <1>2, <3>1, PadTaken
  <2>3. Called
    BY <2>1, <2>2
  <2>4. rx_fifo = <<cmd>> /\ game = "command" /\ busy
    BY <2>3 DEF Called, Beginning
  <2>5. CommandOf(Head(rx_fifo)) = cmd
    BY <2>4, AllCommands DEF CommandOf, LinkInv, RegisterInv, Numbers
  <2>6. CommandLength(cmd) \in 0..7
    BY SMTT(30) DEF CommandLength
  <2>7. CommandLength(cmd) = 0 /\ FinishCommand(cmd, << >>)
    <3>1. IF CommandLength(cmd) > 0 THEN UNCHANGED calendar ELSE FinishCommand(cmd, << >>)
      BY <1>2, <2>5 DEF SpiIrq
    <3> QED
      BY <2>6, <3>1
  <2>8. given = << >>
    <3>1. given \in Seq(0..255) /\ Len(given) = 0
      BY <2>4, <2>7 DEF LinkInv, RegisterInv, Gift
    <3> QED
      BY <3>1, EmptySeq
  <2>9. Finish(cmd, given)
    BY <2>7, <2>8 DEF FinishCommand
  <2> QED
    BY <2>4, <2>9 DEF Finish
<1> QED
  BY <1>1, <1>2

LEMMA TxCompleteStep ==
  ASSUME LinkInv, TxComplete
  PROVE  LinkInv'
<1>1. /\ tx_dma /\ tx_dma' = FALSE /\ rxne' = TRUE
      /\ UNCHANGED <<calendar, state, n, cmd, start, busy, ready, data, shiftreg, falling_edge_registered,
                     mcu, rx_fifo, rx_buffer, rx_left, tx, pulses, rtc_curr_cmd, read,
                     game, given, got, moments>>
  BY DEF TxComplete, link, player
<1>2. CalendarInv'
  BY <1>1, CalendarKept DEF LinkInv
<1>3. Flags'
  BY <1>1 DEF LinkInv, RegisterInv, Flags
<1>4. Numbers'
  BY <1>1 DEF LinkInv, RegisterInv, Numbers
<1>5. Sequences' /\ Answers'
  BY <1>1 DEF LinkInv, RegisterInv, Sequences, Answers
<1>6. Gift'
  BY <1>1 DEF LinkInv, RegisterInv, Gift
<1>7. Resting \/ Answering
  BY <1>1, StageCases DEF LinkInv
<1>8. McuIdle'
  BY <1>1, <1>7 DEF Resting, Answering, McuIdle
<1>9. Resting => Resting'
  BY <1>1, <1>8 DEF Resting
<1>10. ASSUME Answering PROVE Answering'
  <2>1. PICK a \in moments : AnswerIs(a)
    BY <1>10 DEF Answering
  <2>2. AnswerIs(a)'
    BY <1>1, <2>1 DEF AnswerIs, ByteWaits
  <2>3. Places'
    BY <1>1, <1>10 DEF Answering, Places
  <2> QED
    BY <1>1, <1>8, <1>10, <2>1, <2>2, <2>3 DEF Answering
<1> QED
  BY <1>2, <1>3, <1>4, <1>5, <1>6, <1>7, <1>9, <1>10 DEF LinkInv, RegisterInv, Stage

LEMMA ReadTRStep ==
  ASSUME LinkInv, ReadTR
  PROVE  LinkInv'
<1>1. /\ mcu = "TR" /\ read' = [read EXCEPT ![1] = tr] /\ mcu' = "DR"
      /\ UNCHANGED <<calendar, state, n, cmd, start, busy, ready, data, shiftreg, falling_edge_registered,
                     rx_fifo, rx_buffer, rx_left, rxne, tx, tx_dma, pulses, rtc_curr_cmd,
                     game, given, got, moments>>
  BY DEF ReadTR, link, spi_rx, spi_tx, player
<1>2. CalendarInv'
  BY <1>1, CalendarKept DEF LinkInv
<1>3. Flags'
  BY <1>1 DEF LinkInv, RegisterInv, Flags
<1>4. Numbers'
  BY <1>1 DEF LinkInv, RegisterInv, Numbers
<1>5. Sequences' /\ Answers'
  BY <1>1 DEF LinkInv, RegisterInv, Sequences, Answers
<1>6. Gift'
  BY <1>1 DEF LinkInv, RegisterInv, Gift
<1>7. Looking
  BY <1>1, StageCases DEF LinkInv
<1>8. PICK s : read = <<read[1], s>> /\ s = read[2]
  BY <1>7 DEF Looking
<1>9. read' = <<tr, s>> /\ read'[1] = tr /\ read'[2] = s
  BY <1>1, <1>8
<1>10. Beginning'
  <2>1. NowRight'
    BY <1>1, <1>7, NowKept DEF Looking, Beginning
  <2> QED
    BY <1>1, <1>7, <2>1 DEF Looking, Beginning, FirstByte
<1>11. tr' = tr /\ dr' = dr /\ fmt' = fmt
  BY <1>1 DEF calendar
<1>12. s # << >> => /\ s = <<s[1], s[2]>>
                    /\ DateTimeBytes(s[1], s[2], cmd = 5) \in moments \/ Missed(s[1])
  BY <1>7, <1>8 DEF Looking
<1>13. s # << >> => DateTimeBytes(s[1], s[2], cmd = 5)' \in moments' \/ (Missed(s[1])' /\ tr # s[1])
  <2>1. DateTimeBytes(s[1], s[2], cmd = 5)' = DateTimeBytes(s[1], s[2], cmd = 5)
    BY <1>1, <1>11 DEF DateTimeBytes, ReadHour
  <2>2. Missed(s[1]) => Missed(s[1])' /\ tr # s[1]
    BY <1>11 DEF Missed
  <2> QED
    BY <1>1, <1>12, <2>1, <2>2
<1>14. Looking'
  BY <1>1, <1>7, <1>9, <1>10, <1>11, <1>12, <1>13 DEF Looking, AfterCommand, Nothing
<1> QED
  BY <1>2, <1>3, <1>4, <1>5, <1>6, <1>14 DEF LinkInv, RegisterInv, Stage

LEMMA ReadDRStep ==
  ASSUME LinkInv, ReadDR
  PROVE  LinkInv'
<1>1. /\ mcu = "DR"
      /\ UNCHANGED <<calendar, state, n, cmd, start, busy, ready, data, shiftreg, falling_edge_registered,
                     rx_fifo, rx_buffer, rx_left, rxne, game, given, got, moments>>
  BY DEF ReadDR, link, spi_rx, player
<1>2. CalendarInv'
  BY <1>1, CalendarKept DEF LinkInv
<1>3. Gift'
  BY <1>1 DEF LinkInv, RegisterInv, Gift
<1>4. Answers'
  BY <1>1 DEF LinkInv, RegisterInv, Answers
<1>5. Looking
  BY <1>1, StageCases DEF LinkInv
<1>6. PICK f, s : read = <<f, s>> /\ f = read[1] /\ s = read[2]
  BY <1>5 DEF Looking
<1>7. /\ cmd \in {5, 7} /\ rtc_curr_cmd = cmd /\ Nothing /\ rx_left = 0 /\ rx_buffer = << >> /\ ~rxne
      /\ Beginning /\ ~start /\ busy /\ state = "WaitCmdAck" /\ ~falling_edge_registered
  BY <1>5 DEF Looking, AfterCommand
<1>8. game = "command" /\ ~ready /\ n = 1 /\ got = << >> /\ pulses = 0 /\ NowRight /\ FirstByte
  BY <1>7 DEF Beginning
<1>9. f = tr \/ Missed(f)
  BY <1>1, <1>5, <1>6 DEF Looking
<1>10. s # << >> => /\ s = <<s[1], s[2]>>
                    /\ DateTimeBytes(s[1], s[2], cmd = 5) \in moments \/ f # s[1]
  BY <1>1, <1>5, <1>6 DEF Looking
<1>11. PICK a : a = DateTimeBytes(f, dr, cmd = 5)
  OBVIOUS
<1>12. tx = << >> /\ ~tx_dma /\ rx_fifo = << >>
  BY <1>7 DEF Nothing
<1>13. CASE s = <<f, dr>>
  <2>1. /\ tx' = tx \o a /\ tx_dma' = TRUE /\ pulses' = pulses + 1
        /\ mcu' = "idle" /\ rtc_curr_cmd' = 0 /\ read' = None
    <3>1. read[2] = <<read[1], dr>> /\ (rtc_curr_cmd = 5) = (cmd = 5)
      BY <1>6, <1>7, <1>13
    <3>2. DateTimeBytes(read[1], dr, rtc_curr_cmd = 5) = a
      BY <1>6, <1>7, <1>11
    <3> QED
      BY <3>1, <3>2 DEF ReadDR
  <2>2. a \in moments
    <3>1. s # << >> /\ s[1] = f /\ s[2] = dr
      BY <1>13
    <3> QED
      BY <1>10, <1>11, <3>1
  <2>3. a \in Seq(0..255) /\ Len(a) = Length(cmd) /\ Length(cmd) \in 1..7
    <3>1. cmd \in ReadCommands
      BY <1>7 DEF ReadCommands
    <3>2. Length(cmd) \in 1..7
      BY <3>1, ReadLengths DEF Length
    <3> QED
      BY <2>2, <3>2 DEF LinkInv, RegisterInv, Answers
  <2>4. tx' = a
    BY <1>12, <2>1, <2>3, ConcatEmptySeq
  <2>6. Flags'
    BY <1>1, <2>1 DEF LinkInv, RegisterInv, Flags
  <2>7. Numbers'
    BY <1>1, <2>1 DEF LinkInv, RegisterInv, Numbers
  <2>8. Sequences'
    BY <1>1, <2>3, <2>4 DEF LinkInv, RegisterInv, Sequences
  <2>9. McuIdle'
    BY <1>1, <1>5, <1>7, <2>1 DEF McuIdle
  <2>10. Len(got') = 0
    BY <1>1, <1>8, EmptySeq
  <2>11. Places'
    BY <1>1, <1>7, <1>8, <2>3, <2>4, <2>10 DEF Places
  <2>12. AnswerIs(a)'
    <3>1. \A k \in 1..Len(a) : Len(a) - Len(a) + k = k
      BY <2>3
    <3>2. \A k \in 1..Len(got') : got'[k] = a[k]
      BY <2>10
    <3>3. ~ByteWaits'
      BY <1>1, <1>7 DEF ByteWaits
    <3> QED
      BY <1>1, <2>3, <2>4, <2>10, <3>1, <3>2, <3>3 DEF AnswerIs
  <2>13. rx_fifo' \in Seq({Pad}) /\ Len(rx_fifo') <= Fifo
    BY <1>1, <1>12, EmptySeq DEF Fifo
  <2>14. Answering'
    BY <1>1, <1>7, <1>8, <2>2, <2>9, <2>11, <2>12, <2>13 DEF Answering, ReadCommands
  <2> QED
    BY <1>2, <1>3, <1>4, <2>6, <2>7, <2>8, <2>14 DEF LinkInv, RegisterInv, Stage
<1>14. CASE s # <<f, dr>>
  <2>1. /\ read' = [read EXCEPT ![2] = <<f, dr>>] /\ mcu' = "TR"
        /\ UNCHANGED <<tx, tx_dma, pulses, rtc_curr_cmd>>
    BY <1>6, <1>14 DEF ReadDR
  <2>2. read' = <<f, <<f, dr>>>>
    BY <1>6, <2>1
  <2>3. tr' = tr /\ dr' = dr /\ fmt' = fmt
    BY <1>1 DEF calendar
  <2>4. Flags'
    BY <1>1, <2>1 DEF LinkInv, RegisterInv, Flags
  <2>5. Numbers'
    BY <1>1, <2>1 DEF LinkInv, RegisterInv, Numbers
  <2>6. Sequences'
    BY <1>1, <2>1 DEF LinkInv, RegisterInv, Sequences
  <2>7. Beginning'
    <3>1. NowRight'
      BY <1>1, <1>8, NowKept
    <3> QED
      BY <1>1, <1>7, <2>1, <3>1 DEF Beginning, FirstByte
  <2>8. DateTimeBytes(f, dr, cmd = 5)' \in moments' \/ Missed(f)'
    <3>1. DateTimeBytes(tr, dr, cmd = 5) \in moments
      BY <1>7, <1>8 DEF NowRight
    <3>2. DateTimeBytes(f, dr, cmd = 5)' = DateTimeBytes(f, dr, cmd = 5)
      BY <1>1, <2>3 DEF DateTimeBytes, ReadHour
    <3>3. Missed(f) => Missed(f)'
      BY <2>3 DEF Missed
    <3> QED
      BY <1>1, <1>9, <3>1, <3>2, <3>3
  <2>9. PICK p : p = <<f, dr>>
    OBVIOUS
  <2>10. p = <<p[1], p[2]>> /\ p[1] = f /\ p[2] = dr
    BY <2>9
  <2>11. read'[1] = f /\ read'[2] = p /\ read' = <<read'[1], read'[2]>>
    BY <2>2, <2>9
  <2>12. DateTimeBytes(p[1], p[2], cmd = 5)' \in moments' \/ Missed(p[1])'
    BY <2>3, <2>8, <2>10
  <2>13. Looking'
    BY <1>1, <1>7, <2>1, <2>7, <2>10, <2>11, <2>12 DEF Looking, AfterCommand, Nothing
  <2> QED
    BY <1>2, <1>3, <1>4, <2>4, <2>5, <2>6, <2>13 DEF LinkInv, RegisterInv, Stage
<1> QED
  BY <1>13, <1>14

LEMMA ClockStep ==
  ASSUME LinkInv, Clock
  PROVE  LinkInv'
<1>1. /\ Tick
      /\ moments' = IF game = "command" THEN moments \cup DateTimeNow(cmd) ELSE moments
      /\ UNCHANGED <<state, n, cmd, start, busy, ready, data, shiftreg, falling_edge_registered,
                     mcu, rx_fifo, rx_buffer, rx_left, rxne, tx, tx_dma, pulses, rtc_curr_cmd, read,
                     game, given, got>>
  BY DEF Clock, link, mcu_vars, spi_rx, spi_tx, player
<1>2. CalendarInv' /\ tr.min = \h59 /\ tr'.min = 0
  BY <1>1, TickValid DEF LinkInv
<1>3. fmt' = fmt
  BY <1>1 DEF Tick
<1>4. IsTime(tr') /\ IsDate(dr')
  BY <1>2 DEF CalendarInv
<1>5. Flags'
  BY <1>1 DEF LinkInv, RegisterInv, Flags
<1>6. Numbers'
  BY <1>1 DEF LinkInv, RegisterInv, Numbers
<1>7. Sequences'
  BY <1>1 DEF LinkInv, RegisterInv, Sequences
<1>8. Gift'
  BY <1>1, <1>3 DEF LinkInv, RegisterInv, Gift
<1>9. Answers'
  <2>1. cmd \in {5, 7} => \A a \in DateTimeNow(cmd) : a \in Seq(0..255) /\ Len(a) = Length(cmd)
    BY <1>4, NowBytes DEF DateTimeNow
  <2>2. cmd \notin {5, 7} => DateTimeNow(cmd) = {}
    BY DEF DateTimeNow
  <2>3. \A a \in moments' : a \in moments \/ a \in DateTimeNow(cmd)
    BY <1>1
  <2> QED
    BY <1>1, <2>1, <2>2, <2>3 DEF LinkInv, RegisterInv, Answers
<1>10. moments \subseteq moments'
  BY <1>1
<1>11. ASSUME Beginning PROVE Beginning'
  <2>1. ASSUME cmd \in {5, 7} PROVE DateTimeBytes(tr, dr, cmd = 5)' \in moments'
    <3>1. DateTimeNow(cmd) = {DateTimeBytes(tr', dr', cmd = 5)}
      BY <2>1 DEF DateTimeNow
    <3>2. DateTimeBytes(tr, dr, cmd = 5)' = DateTimeBytes(tr', dr', cmd = 5)
      BY <1>1, <1>3 DEF DateTimeBytes, ReadHour
    <3>3. game = "command"
      BY <1>11 DEF Beginning
    <3> QED
      BY <1>1, <3>1, <3>2, <3>3
  <2>2. NowRight'
    BY <1>1, <2>1 DEF NowRight
  <2> QED
    BY <1>1, <1>11, <2>2 DEF Beginning, FirstByte
<1>12. McuIdle => McuIdle'
  BY <1>1 DEF McuIdle
<1>13. Resting => Resting'
  BY <1>1, <1>12 DEF Resting
<1>14. Calling => Calling'
  BY <1>1, <1>11, <1>12 DEF Calling, Nothing
<1>15. Called => Called'
  BY <1>1, <1>11, <1>12 DEF Called, AfterCommand
<1>16. ASSUME Looking PROVE Looking'
  <2>1. mcu = "DR" => Missed(read[1])'
    <3>1. read[1] = tr => Missed(read[1])'
      BY <1>1, <1>2 DEF Missed
    <3>2. Missed(read[1]) => Missed(read[1])'
      BY <1>1, <1>2 DEF Missed
    <3> QED
      BY <1>16, <3>1, <3>2 DEF Looking
  <2>2. PICK s : s = read[2]
    OBVIOUS
  <2>3. s # << >> => /\ s = <<s[1], s[2]>>
                     /\ \/ DateTimeBytes(s[1], s[2], cmd = 5) \in moments
                        \/ Missed(s[1]) /\ (mcu = "DR" => read[1] # s[1])
    BY <1>16, <2>2 DEF Looking
  <2>4. DateTimeBytes(s[1], s[2], cmd = 5)' = DateTimeBytes(s[1], s[2], cmd = 5)
    BY <1>1, <1>3 DEF DateTimeBytes, ReadHour
  <2>5. Missed(s[1]) => Missed(s[1])'
    BY <1>2 DEF Missed
  <2>6. s # << >> => \/ DateTimeBytes(s[1], s[2], cmd = 5)' \in moments'
                     \/ Missed(s[1])' /\ (mcu = "DR" => read[1] # s[1])
    BY <1>10, <2>3, <2>4, <2>5
  <2> QED
    BY <1>1, <1>11, <1>16, <2>1, <2>2, <2>3, <2>6 DEF Looking, AfterCommand, Nothing
<1>17. ASSUME Answering PROVE Answering'
  <2>1. PICK a \in moments : AnswerIs(a)
    BY <1>17 DEF Answering
  <2>2. AnswerIs(a)'
    BY <1>1, <2>1 DEF AnswerIs, ByteWaits
  <2>3. Places'
    BY <1>1, <1>17 DEF Answering, Places
  <2> QED
    BY <1>1, <1>10, <1>12, <1>17, <2>1, <2>2, <2>3 DEF Answering
<1>18. Taking => Taking'
  BY <1>1 DEF Taking, Taken, Nothing
<1>19. Obeyed => Obeyed'
  BY <1>1, <1>12 DEF Obeyed, Nothing
<1>20. Stuck => Stuck'
  BY <1>1 DEF Stuck, Nothing
<1>21. Stage'
  BY <1>13, <1>14, <1>15, <1>16, <1>17, <1>18, <1>19, <1>20 DEF LinkInv, Stage
<1> QED
  BY <1>2, <1>5, <1>6, <1>7, <1>8, <1>9, <1>21 DEF LinkInv, RegisterInv

-----------------------------------------------------------------------------
(* The theorems.                                                           *)

LEMMA LinkStart ==
  ASSUME LinkInit, LinkAssumption, ClockAssumption
  PROVE  LinkInv
<1>1. CalendarInv
  <2>3. configured \in BOOLEAN /\ alarm_mode \in 0..63
    BY DEF LinkInit
  <2>1. CASE configured
    <3>1. \E t \in Times, d \in Dates : fmt = t[1] /\ tr = t[2] /\ dr = d
      BY <2>1 DEF LinkInit
    <3>2. PICK t \in Times : \E d \in Dates : fmt = t[1] /\ tr = t[2] /\ dr = d
      BY <3>1
    <3>3. PICK d \in Dates : fmt = t[1] /\ tr = t[2] /\ dr = d
      BY <3>2
    <3>4. fmt \in BOOLEAN /\ IsTime(tr) /\ IsDate(dr)
      BY <3>3 DEF ClockAssumption
    <3> QED
      BY <2>3, <3>4 DEF CalendarInv
  <2>2. CASE ~configured
    <3>1. fmt = FALSE /\ tr = UnsetTime /\ dr = UnsetDate
      BY <2>2 DEF LinkInit
    <3>2. Bcd(0) /\ Bcd(1)
      BY DEF Bcd
    <3>3. IsTime(UnsetTime)
      BY <3>2 DEF IsTime, UnsetTime
    <3>4. IsDate(UnsetDate)
      BY <3>2 DEF IsDate, UnsetDate
    <3>5. IsTime(tr) /\ IsDate(dr)
      BY <3>1, <3>3, <3>4, Zenon
    <3> QED
      BY <2>3, <3>1, <3>5 DEF CalendarInv
  <2> QED
    BY <2>1, <2>2
<1>2. Flags
  BY DEF LinkInit, Flags
<1>3. Numbers
  BY DEF LinkInit, Numbers, Commands
<1>4. Sequences /\ Answers /\ Gift
  BY EmptySeq DEF LinkInit, Sequences, Answers, Gift
<1>5. Resting
  BY EmptySeq DEF LinkInit, Resting, McuIdle, Fifo
<1> QED
  BY <1>1, <1>2, <1>3, <1>4, <1>5 DEF LinkInv, RegisterInv, Stage

LEMMA LinkStep ==
  ASSUME LinkInv, Prompt, [Next]_vars
  PROVE  LinkInv'
<1>1. CASE Begin
  BY <1>1, BeginStep, LinkAssumption
<1>2. CASE TakeByte
  BY <1>2, TakeByteStep
<1>3. CASE GiveByte
  BY <1>3, GiveByteStep
<1>4. CASE End
  BY <1>4, EndStep
<1>5. CASE Fpga
  BY <1>5, StartCommandStep, LowerCSStep, SendCmdStep, WaitCmdAckStep, SendDataStep, WaitNextDataStep,
     RaiseCSStep DEF Fpga
<1>6. CASE Edge
  BY <1>6, EdgeStep
<1>7. CASE Mcu
  <2>1. CASE SpiIrq
    <3>1. Resting \/ Called \/ Answering
      BY <2>1, StageCases DEF LinkInv, SpiIrq
    <3> QED
      BY <2>1, <3>1, PadStep, CommandStep
  <2> QED
    BY <1>7, <2>1, RxCompleteStep, TxCompleteStep, ReadTRStep, ReadDRStep DEF Mcu
<1>8. CASE Clock
  BY <1>8, ClockStep
<1>9. CASE UNCHANGED vars
  <2>1. UNCHANGED <<calendar, state, n, cmd, start, busy, ready, data, shiftreg, falling_edge_registered,
                    mcu, rx_fifo, rx_buffer, rx_left, rxne, tx, tx_dma, pulses, rtc_curr_cmd, read,
                    game, given, got, moments>>
    BY <1>9 DEF vars, link, mcu_vars, spi_rx, spi_tx, player
  <2>2. CalendarInv' /\ (NowRight => NowRight')
    BY <2>1, CalendarKept, NowKept DEF LinkInv
  <2>3. RegisterInv'
    BY <2>1 DEF LinkInv, RegisterInv, Flags, Numbers, Sequences, Answers, Gift
  <2>4. tr' = tr /\ dr' = dr /\ fmt' = fmt
    BY <2>1 DEF calendar
  <2>5. (Beginning => Beginning') /\ (McuIdle => McuIdle')
    BY <2>1, <2>2 DEF Beginning, FirstByte, McuIdle
  <2>6. Looking => Looking'
    BY <2>1, <2>4, <2>5 DEF Looking, AfterCommand, Nothing, Missed, DateTimeBytes, ReadHour
  <2>7. ASSUME Answering PROVE Answering'
    <3>1. PICK a \in moments : AnswerIs(a)
      BY <2>7 DEF Answering
    <3>2. AnswerIs(a)'
      BY <2>1, <3>1 DEF AnswerIs, ByteWaits
    <3>3. Places'
      BY <2>1, <2>7 DEF Answering, Places
    <3> QED
      BY <2>1, <2>5, <2>7, <3>1, <3>2, <3>3 DEF Answering
  <2>8. Taking => Taking'
    BY <2>1 DEF Taking, Taken, Nothing
  <2>9. (Resting => Resting') /\ (Calling => Calling') /\ (Called => Called')
    BY <2>1, <2>5 DEF Resting, Calling, Called, AfterCommand, Nothing
  <2>10. (Obeyed => Obeyed') /\ (Stuck => Stuck')
    BY <2>1, <2>5 DEF Obeyed, Stuck, Nothing
  <2>11. Stage'
    BY <2>6, <2>7, <2>8, <2>9, <2>10 DEF LinkInv, Stage
  <2> QED
    BY <2>2, <2>3, <2>11 DEF LinkInv
<1> QED
  BY <1>1, <1>2, <1>3, <1>4, <1>5, <1>6, <1>7, <1>8, <1>9 DEF Next

LEMMA LinkAlways ==
  ASSUME Prompt
  PROVE  Spec => []LinkInv
<1>1. LinkInit => LinkInv
  BY LinkStart, LinkAssumption, ClockAssumption
<1>2. LinkInv /\ [Next]_vars => LinkInv'
  BY LinkStep
<1> QED
  BY <1>1, <1>2, PTL DEF Spec

\* Every byte that a game writes is cut to the fields of the calendar, minutes,
\* seconds, months and years to numbers of two digits, and no FIFO or buffer of
\* the link overflows (rtc.c:317-365, spi.c:155-260).
THEOREM RegistersHoldTimes ==
  ASSUME Prompt
  PROVE  Spec => []TypeOK
<1>1. LinkInv => TypeOK
  <2> SUFFICES ASSUME LinkInv PROVE TypeOK
    OBVIOUS
  <2>1. IsTime(tr) /\ IsDate(dr) /\ configured \in BOOLEAN /\ fmt \in BOOLEAN
    BY DEF LinkInv, CalendarInv
  <2>2. Flags /\ Numbers /\ Sequences /\ Answers
    BY DEF LinkInv, RegisterInv
  <2>3. {configured, fmt, start, busy, ready, falling_edge_registered, rxne, tx_dma} \subseteq BOOLEAN
    BY <2>1, <2>2 DEF Flags
  <2>4. Length(cmd) \in 0..7
    BY <2>2, AllCommands DEF Numbers
  <2>5. /\ state \in {"Idle", "LowerCS", "SendCmd", "WaitCmdAck", "SendData", "WaitNextData", "RaiseCS"}
        /\ mcu \in {"idle", "receive", "TR", "DR", "hung"} /\ game \in {"idle", "command"}
    BY DEF LinkInv, Stage, Resting, Calling, Called, Looking, Answering, Taking, Obeyed, Stuck, McuIdle,
           Beginning, AfterCommand, Places
  <2>6. Len(rx_fifo) <= Fifo /\ Len(tx) <= 7 /\ Len(rx_buffer) <= 7
    <3>1. rx_fifo = << >> => Len(rx_fifo) <= Fifo
      BY DEF Fifo
    <3>2. tx = << >> => Len(tx) <= 7
      OBVIOUS
    <3>3. rx_buffer = << >> => Len(rx_buffer) <= 7
      OBVIOUS
    <3>4. rx_fifo = <<cmd>> => Len(rx_fifo) <= Fifo
      BY DEF Fifo
    <3>5. CASE Answering
      <4>1. PICK a \in moments : AnswerIs(a)
        BY <3>5 DEF Answering
      <4>2. Len(tx) \in Nat /\ Len(tx) <= Len(a) /\ Len(a) = Length(cmd)
        BY <2>2, <4>1 DEF AnswerIs, Sequences
      <4>3. Len(tx) <= 7
        BY <2>4, <4>2
      <4>4. Len(rx_fifo) <= Fifo /\ rx_buffer = << >>
        BY <3>5 DEF Answering, McuIdle
      <4> QED
        BY <3>3, <4>3, <4>4
    <3>6. CASE Taking
      <4>1. rx_fifo = << >> /\ tx = << >>
        BY <3>6 DEF Taking, Nothing
      <4>2. n \in 0..7 /\ Length(cmd) \in 1..7
        <5>1. cmd \in WriteCommands
          BY <3>6 DEF Taking
        <5> QED
          BY <2>2, <5>1, WriteLengths DEF Length, Numbers
      <4>3. Len(rx_buffer) = 0 \/ Len(rx_buffer) = n - 1 \/ Len(rx_buffer) = Length(cmd)
        BY <3>6 DEF Taking, Taken
      <4>4. Len(rx_buffer) <= 7
        BY <4>2, <4>3
      <4> QED
        BY <3>1, <3>2, <4>1, <4>4
    <3>7. CASE ~Answering /\ ~Taking
      <4>1. tx = << >> /\ rx_buffer = << >> /\ (rx_fifo = << >> \/ rx_fifo = <<cmd>> \/ Len(rx_fifo) <= Fifo)
        BY <3>7 DEF LinkInv, Stage, Resting, Calling, Called, Looking, Obeyed, Stuck, McuIdle, Nothing
      <4> QED
        BY <3>1, <3>2, <3>3, <3>4, <4>1
    <3> QED
      BY <3>5, <3>6, <3>7
  <2> QED
    BY <2>1, <2>2, <2>3, <2>5, <2>6 DEF TypeOK, Numbers
<1> QED
  BY <1>1, LinkAlways, PTL

\* What a game reads is what the clock had to say at one moment of the command,
\* for every time and date, and whenever the clock ticks (rtc.c:372-394,
\* rtc.sv:107-252).
THEOREM AnswersAreRight ==
  ASSUME Prompt
  PROVE  Spec => []ReadsBack
<1>1. LinkInv => ReadsBack
  <2> SUFFICES ASSUME LinkInv, game = "command", Read(cmd), ~start, ~busy, ~ready, cmd # 1
               PROVE  got \in moments
    BY DEF ReadsBack, Busy
  <2>1. state = "Idle"
    BY DEF LinkInv, Stage, Resting, Calling, Called, Looking, Answering, Taking, Obeyed, Stuck, Places
  <2>2. Answering \/ Obeyed
    BY <2>1, StageCases DEF LinkInv
  <2>3. cmd \notin {0, 1} \cup WriteCommands
    BY DEF Read, WriteCommands
  <2>4. Answering
    BY <2>2, <2>3 DEF Obeyed
  <2>5. PICK a \in moments : AnswerIs(a)
    BY <2>4 DEF Answering
  <2>6. Len(got) = Length(cmd) - 0
    BY <2>1, <2>4 DEF Answering, Places
  <2>7. Length(cmd) \in 0..7
    BY AllCommands DEF LinkInv, RegisterInv, Numbers
  <2>8. Len(got) = Len(a) /\ \A k \in 1..Len(got) : got[k] = a[k]
    BY <2>5, <2>6, <2>7 DEF AnswerIs
  <2>9. got \in Seq(0..255) /\ a \in Seq(0..255)
    BY DEF LinkInv, RegisterInv, Sequences, Answers
  <2>10. got = a
    BY <2>8, <2>9, SeqEqual
  <2> QED
    BY <2>10
<1> QED
  BY <1>1, LinkAlways, PTL

\* The registers change only as the command does that the game has given, with
\* all that the game gave, or with time; and what the clock shows it goes on to
\* show, but for the hours and days that rtc.c:317-365 lets pass (rtc.c:228-370,
\* spi.c:155-260).
THEOREM PayloadsAreWritten ==
  ASSUME Prompt
  PROVE  Spec => WritesWhole
<1> DEFINE Whole ==
      /\ calendar' # calendar /\ mcu_vars' # mcu_vars =>
           game = "command" /\ busy /\ Execute(cmd, given)
      /\ HourShown /\ ~HourShown' =>
           game = "command" /\ fmt /\ cmd \in {4, 6} /\ GivenHour \notin HoursOfTwelve
      /\ DayShown /\ ~DayShown' =>
           game = "command" /\ cmd = 4 /\ given[3] % \h40 \in {\h29, \h30, \h31}
      /\ fmt' # fmt /\ cmd = 2 /\ HourShown => HourOfDay' = HourOfDay
<1>1. ASSUME LinkInv, Next PROVE Whole
  <2>1. CASE UNCHANGED calendar
    <3>1. (HourShown => HourShown') /\ (DayShown => DayShown') /\ fmt' = fmt
      BY <1>1, <2>1, CalendarKept DEF LinkInv
    <3> QED
      BY <2>1, <3>1
  <2>2. CASE Clock
    <3>1. (HourShown => HourShown') /\ (DayShown => DayShown') /\ fmt' = fmt
      BY <1>1, <2>2, TickValid DEF LinkInv, Clock, Tick
    <3>2. mcu_vars' = mcu_vars
      BY <2>2 DEF Clock
    <3> QED
      BY <3>1, <3>2
  <2>3. CASE (SpiIrq \/ RxComplete) /\ ~UNCHANGED calendar
    <3>1. game = "command" /\ busy /\ Execute(cmd, given)
      BY <1>1, <2>3, CommandDone
    <3>2. given \in Seq(0..255) /\ Len(given) = CommandLength(cmd) /\ cmd \in 0..15
      BY <1>1, <3>1 DEF LinkInv, RegisterInv, Gift, Numbers, Commands
    <3>3. /\ HourShown => HourShown' \/ HourLost(cmd, given)
          /\ DayShown => DayShown' \/ DayLost(cmd, given)
          /\ cmd = 2 /\ HourShown => HourOfDay' = HourOfDay
      BY <1>1, <3>1, <3>2, ExecuteValid DEF LinkInv
    <3> QED
      BY <3>1, <3>3 DEF HourLost, DayLost, GivenHour
  <2>4. UNCHANGED calendar \/ Clock \/ SpiIrq \/ RxComplete
    BY <1>1 DEF Next, Begin, TakeByte, GiveByte, End, Fpga, StartCommand, LowerCS, SendCmd, WaitCmdAck, SendData,
                WaitNextData, RaiseCS, Edge, Mcu, TxComplete, ReadTR, ReadDR, fpga_rest
  <2> QED
    BY <2>1, <2>2, <2>3, <2>4
<1>2. LinkInv /\ [Next]_vars => [Whole]_vars
  BY <1>1
<1> QED
  BY <1>2, LinkAlways, PTL DEF Spec, WritesWhole
=============================================================================
