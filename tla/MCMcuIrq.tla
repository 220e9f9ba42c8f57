------------------------------ MODULE MCMcuIrq ------------------------------
(***************************************************************************)
(* For the edges: one minute, the alarm off or at the start of a minute.   *)
(* For the level: two minutes, the alarm off or at a time of either.       *)
(***************************************************************************)
EXTENDS McuIrq

MCMasks == {{"TF_INSERT", "RTC_ALARM"}, {"TF_INSERT", "TF_REMOVE"}}
EdgeModes == {{}, {"ME"}}
LevelModes == {{}, {"AE"}}
EdgeAlarms == {0}
LevelAlarms == {0, 1}
=============================================================================
