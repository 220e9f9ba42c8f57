------------------------------ MODULE MCRtcLink ------------------------------
(* All hours of both formats, at the last second; a second of a night that *)
(* ends a day; and times out of range, also those that stay so.            *)
EXTENDS RtcLink

Hours24 == 0..9 \cup \h10..\h19 \cup \h20..\h23
Hours12 == 1..9 \cup \h10..\h12
Last(hour, pm) == [hour |-> hour, pm |-> pm, min |-> \h59, sec |-> \h59]

MCTimes ==
  {<<FALSE, Last(h, FALSE)>> : h \in Hours24} \cup
  {<<TRUE, Last(h, pm)>> : h \in Hours12, pm \in BOOLEAN}
MCDates == {[year |-> \h23, month |-> 8, day |-> 9, dow |-> 7], [year |-> \h99, month |-> \h12, day |-> \h31, dow |-> 6],
  [year |-> \h23, month |-> 2, day |-> \h28, dow |-> 2]}

MCPayloads == [c \in 0..11 |->
  CASE c = 2  -> {<<0>>, <<\h40>>, <<\h60>>}
    [] c = 4  -> {<<\h99, \h12, \h09, 0, \h0B, \h59, \h59>>, <<\hA0, \h13, \h32, 7, \h80, \h60, \h7A>>,
                  <<\h23, 2, \h30, 4, \h23, \h59, \h59>>}
    [] c = 6  -> {<<\h91, \h45, \h52>>, <<\hA0, \h00, \h00>>}
    [] c = 8  -> {<<\h07, \h30>>}
    [] c = 10 -> {<<0, 0>>}
    [] OTHER  -> {<< >>}]

MCOddHours == {0, \h24}
MCOddDays == {\h32}
=============================================================================
