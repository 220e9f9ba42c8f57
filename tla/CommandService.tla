--------------------------- MODULE CommandService ---------------------------
(***************************************************************************)
(* What the MCU's native mode promises the console, with no SPI, DMA,      *)
(* interrupt or buffer in sight: one request is outstanding at a time, it  *)
(* is executed exactly once, with its own arguments, and the answer the    *)
(* console then receives is the answer to that request.  A reset of the    *)
(* MCU abandons the outstanding request.                                   *)
(***************************************************************************)
EXTENDS Sequences

CONSTANTS
  Request,      \* the requests a console may send
  Answer(_),    \* the answer the protocol defines for a request
  Silent,       \* the requests that get no answer ("switch to mode")
  NoRequest,    \* nothing is outstanding
  NoAnswer      \* nothing was answered yet

VARIABLES
  outstanding,  \* the request being served, or NoRequest
  executed,     \* the requests executed since the last one was sent
  answer        \* the last answer the console received, or NoAnswer

service == <<outstanding, executed, answer>>

Init ==
  /\ outstanding = NoRequest
  /\ executed = << >>
  /\ answer = NoAnswer

Send(r) ==
  /\ outstanding = NoRequest
  /\ outstanding' = r
  /\ executed' = << >>
  /\ answer' = NoAnswer

Execute ==
  /\ outstanding # NoRequest
  /\ executed = << >>
  /\ executed' = <<outstanding>>
  /\ UNCHANGED <<outstanding, answer>>

\* The console has the whole answer, or knows that none will come.
Complete ==
  /\ outstanding # NoRequest
  /\ executed = <<outstanding>>
  /\ answer' = IF outstanding \in Silent THEN NoAnswer ELSE Answer(outstanding)
  /\ outstanding' = NoRequest
  /\ UNCHANGED executed

Reset ==
  /\ outstanding' = NoRequest
  /\ executed' = << >>
  /\ answer' = NoAnswer

Next == (\E r \in Request : Send(r)) \/ Execute \/ Complete \/ Reset

Spec == Init /\ [][Next]_service
=============================================================================
