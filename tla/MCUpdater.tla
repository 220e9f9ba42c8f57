----------------------------- MODULE MCUpdater ------------------------------
(* A flash of five sectors of two pages, the first two of them protected:  *)
(* a version block and a part, then the same for the user's side, whose    *)
(* part is not aligned to a sector.                                        *)
EXTENDS Updater

Start(p)  == [op |-> "start", at |-> p]
End_(p)   == [op |-> "finish", at |-> p]
Flash(p, n, good) == [op |-> "flash", at |-> p, good |-> good, len |-> n, board |-> AnyBoard]
Mcu(board) == [op |-> "mcu", at |-> 0, good |-> TRUE, len |-> 2, board |-> board]
Check == [op |-> "check", boards |-> {0, 1}]

User(v, good) ==
  [version |-> v,
   manifest |-> <<Check, Start(4), Mcu(1), Flash(7, 2, good), Mcu(0), End_(4)>>]
Full(v) ==
  [version |-> v,
   manifest |-> <<Start(4), Start(0), Flash(7, 2, TRUE), Mcu(1), Flash(2, 2, TRUE), End_(4),
                  End_(0)>>]

MCImages == {User(1, TRUE), User(2, TRUE), User(2, FALSE), Full(1), Full(2),
             [version |-> 2, manifest |-> <<[op |-> "check", boards |-> {2}], Start(4), End_(4)>>]}
=============================================================================
