---------------------------- MODULE MCNativeSpi -----------------------------
(* A small command set with every shape of command the engine knows:       *)
(* arguments or none, data, an empty response, an error, no response, a    *)
(* second byte of 0xFF.                                                    *)
EXTENDS NativeSpi

MCCmd == {"ECHO_2", "REG_WRITE", "CDC_READ_511", "UNKNOWN",
          "MODE_NATIVE", "MODE_RTC", "STANDBY"}
MCRxLen == [c \in MCCmd |-> IF c \in {"ECHO_2", "REG_WRITE"} THEN 2 ELSE 0]
MCTxLen == [c \in MCCmd |-> CASE c = "ECHO_2" -> 2
                              [] c = "REG_WRITE" -> 0
                              [] c = "CDC_READ_511" -> 1
                              [] c = "UNKNOWN" -> -1
                              [] OTHER -> -2]
MCEcho == {"ECHO_2"}
MCHighIsFF == {"CDC_READ_511"}
MCModeOf == [c \in {"MODE_NATIVE", "MODE_RTC", "STANDBY"} |->
               CASE c = "MODE_NATIVE" -> "native"
                 [] c = "MODE_RTC" -> "other"
                 [] c = "STANDBY" -> "halted"]
MCArgByte == {<<"FF">>, <<"arg">>}
=============================================================================
