---------------------------- MODULE UpdaterProofs ----------------------------
(***************************************************************************)
(* Proofs about the updater, for flashes of any size, every set of images  *)
(* and any number of power losses and failing operations.                  *)
(***************************************************************************)
EXTENDS Updater, TLAPS

-----------------------------------------------------------------------------
(* The two runs of the manifest.                                           *)

\* A part that this board needs has the right checksum.
Good(c) == ForBoard(c) => c.good

Resting == {"off", "command", "halted", "done"}

\* What is verified: in the first run the commands that are done, in the second
\* all of them; and only the second has operations.
VerifyInv ==
  /\ image \in Images \cup {NoImage} /\ index \in Nat \ {0}
  /\ pc = "off" => index = 1 /\ update_verify
  /\ pc \notin Resting => ~update_verify
  /\ \A k \in DOMAIN image.manifest : k < index \/ ~update_verify => Good(image.manifest[k])

LEMMA VerifyInit == Init => VerifyInv
  BY DEF Init, VerifyInv, NoImage, Resting

\* The manifest's commands are numbered from one.
LEMMA Numbered ==
  ASSUME image \in Images \cup {NoImage}
  PROVE  /\ \A k \in DOMAIN image.manifest : k \in Nat \ {0}
         /\ \A n \in Nat : n > Len(image.manifest) => \A k \in DOMAIN image.manifest : k < n
<1>1. CASE image \in Images
  BY <1>1, ImageAssumption
<1>2. CASE image = NoImage
  BY <1>2 DEF NoImage
<1>3. QED
  BY <1>1, <1>2

\* A step within a run: it stays at the command, or has found it good.
LEMMA SameRun ==
  ASSUME VerifyInv, UNCHANGED run, pc # "off", pc' # "off",
         pc' \in Resting \/ ~update_verify,
         index' = index \/ (index' = index + 1 /\ (Good(Current) \/ ~update_verify))
  PROVE  VerifyInv'
<1>1. CASE index' = index
  BY <1>1 DEF VerifyInv, run, Resting
<1>2. CASE index' = index + 1 /\ ~update_verify
  BY <1>2 DEF VerifyInv, run, Resting
<1>3. CASE index' = index + 1 /\ Good(Current)
  <2>1. \A k \in DOMAIN image.manifest : k < index' => k < index \/ k = index
    BY <1>3, Numbered DEF VerifyInv
  <2>2. QED
    BY <1>3, <2>1 DEF VerifyInv, run, Resting, Current
<1>4. QED
  BY <1>1, <1>2, <1>3

\* Without power everything begins again.
LEMMA OffInv ==
  ASSUME PowerOff
  PROVE  VerifyInv'
  BY DEF PowerOff, VerifyInv, NoImage, Resting

LEMMA VerifyStep == VerifyInv /\ [Next]_vars => VerifyInv'
<1> SUFFICES ASSUME VerifyInv, [Next]_vars PROVE VerifyInv'
  OBVIOUS
<1> USE DEF Resting
<1>1. CASE \E i \in Images : Launch(i)
  <2>1. /\ pc = "off" /\ pc' = "command" /\ image' \in Images
        /\ UNCHANGED <<update_verify, index>>
    BY <1>1 DEF Launch
  <2>2. \A k \in DOMAIN image'.manifest : ~(k < 1)
    BY <2>1, ImageAssumption
  <2>3. QED
    BY <2>1, <2>2 DEF VerifyInv
<1>2. CASE Confirm
  <2>1. \A k \in DOMAIN image.manifest : k < index
    BY <1>2, Numbered DEF Confirm, Fetched, VerifyInv
  <2>2. QED
    BY <1>2, <2>1 DEF Confirm, Fetched, VerifyInv
<1>3. CASE Refuse \/ Finish \/ StopEarly
  BY <1>3, SameRun DEF Refuse, Finish, StopEarly, Fetched, Halt, run
<1>4. CASE CheckBoard \/ Skip \/ BadPart
  BY <1>4, SameRun DEF CheckBoard, Skip, BadPart, Fetching, NextCommand, Halt, Good, ForBoard
<1>5. CASE FlashPart \/ McuPart
  BY <1>5, SameRun DEF FlashPart, McuPart, Fetching, NextCommand, Begin, Good
<1>6. CASE StartManifest \/ FinishManifest
  BY <1>6, SameRun DEF StartManifest, FinishManifest, Fetching, NextCommand, Begin, Good, ForBoard
<1>7. CASE StartErase \/ EraseSector \/ EraseDone \/ WriteDone \/ McuErase \/ McuWrite \/ McuDone
  <2>1. ~update_verify /\ pc # "off" /\ UNCHANGED run
    BY <1>7 DEF StartErase, EraseSector, EraseDone, WriteDone, McuErase, McuWrite, McuDone, VerifyInv
  <2>2. pc' # "off" /\ (index' = index \/ index' = index + 1)
    BY <1>7 DEF StartErase, EraseSector, EraseDone, WriteDone, McuErase, McuWrite, McuDone, Begin,
       Halt, NextCommand
  <2>3. QED
    BY <2>1, <2>2, SameRun
<1>8. CASE StartWrite \/ FinishWrite \/ WriteData
  <2>1. ~update_verify /\ pc # "off" /\ UNCHANGED run
    BY <1>8 DEF StartWrite, FinishWrite, WriteData, WritePage, VerifyInv
  <2>2. pc' # "off" /\ (index' = index \/ index' = index + 1)
    BY <1>8 DEF StartWrite, FinishWrite, WriteData, WritePage, Begin, Halt, NextCommand
  <2>3. QED
    BY <2>1, <2>2, SameRun
<1>9. CASE Fail
  BY <1>9, OffInv, SameRun DEF Fail, Halt
<1>10. CASE SwitchOff
  BY <1>10, OffInv DEF SwitchOff
<1>11. CASE UNCHANGED vars
  BY <1>11 DEF vars, run, VerifyInv
<1>12. QED
  BY <1>1, <1>2, <1>3, <1>4, <1>5, <1>6, <1>7, <1>8, <1>9, <1>10, <1>11 DEF Next, Step

-----------------------------------------------------------------------------
(* What reaches the flashes.                                               *)

\* An operation, or what is left of one when it fails, belongs to the second
\* run.
LEMMA OnlyInstalls ==
  ASSUME VerifyInv, [Next]_vars, ~UNCHANGED <<flash, mcuFlash>>
  PROVE  ~update_verify
<1>1. pc \notin Resting
  <2>1. CASE Fail
    BY <2>1 DEF Fail, Torn, McuTorn, Resting
  <2>2. CASE ~Fail
    BY <2>2 DEF Next, Step, Refuse, Confirm, Finish, CheckBoard, Skip, BadPart, FlashPart, McuPart,
       StartManifest, FinishManifest, StartErase, StartWrite, FinishWrite, EraseSector, EraseDone,
       WriteData, WriteDone, McuErase, McuWrite, McuDone, Launch, StopEarly, SwitchOff, flashes,
       vars, Resting
  <2>3. QED
    BY <2>1, <2>2
<1>2. QED
  BY <1>1 DEF VerifyInv

\* Of an image of which any part this board needs is bad nothing reaches either
\* flash, wherever in the manifest the part comes, whatever fails on the way and
\* whichever images came before (main.c:97-106, 478, 531).
THEOREM BadImageInstallsNothing == Spec => NothingFromBadImage
<1>1. VerifyInv /\ [Next]_vars =>
        [(\E c \in Commands(image) : ForBoard(c) /\ ~c.good) => UNCHANGED <<flash, mcuFlash>>]_vars
  <2> SUFFICES ASSUME VerifyInv, [Next]_vars, NEW c \in Commands(image), ForBoard(c), ~c.good,
                      ~UNCHANGED <<flash, mcuFlash>>
               PROVE  FALSE
    OBVIOUS
  <2>1. ~update_verify
    BY OnlyInstalls
  <2>2. PICK k \in DOMAIN image.manifest : c = image.manifest[k]
    BY DEF Commands
  <2>3. QED
    BY <2>1, <2>2 DEF VerifyInv, Good
<1>2. QED
  BY VerifyInit, VerifyStep, <1>1, PTL DEF Spec, NothingFromBadImage

-----------------------------------------------------------------------------
(* The command and the pages an operation is for.                          *)

\* Which command each operation belongs to, and how far it has come.
PlaceInv ==
  /\ pc # "off" => image \in Images
  /\ pc \notin Resting => index \in DOMAIN image.manifest
  /\ pc \in {"start erase", "start write"} =>
       Current.op = "start" /\ address = Current.at /\ partial_install
  /\ pc = "finish write" => Current.op = "finish" /\ address = Current.at /\ ~partial_install
  /\ pc \in {"erase", "write"} => Current.op = "flash" /\ ForBoard(Current)
  /\ pc \in {"mcu erase", "mcu write"} => Current.op = "mcu" /\ ForBoard(Current)
  /\ pc = "erase" => address = Current.at - (Current.at % SectorPages) \/ address >= Current.at
  /\ pc = "mcu erase" => address = Current.at
  /\ pc \in {"write", "mcu write"} => Current.at <= address /\ address <= End

\* The commands of a manifest are of the four kinds.
LEMMA CommandFacts ==
  ASSUME NEW i \in Images, NEW k \in DOMAIN i.manifest
  PROVE  LET c == i.manifest[k]
         IN /\ c \in Commands(i) /\ c \in Command
            /\ c.op \in {"start", "finish", "flash", "mcu", "check"}
            /\ c.op \in {"start", "finish", "flash"} => c.at \in Page
            /\ c.op = "flash" => c.len \in 1..Pages
            /\ c.op = "mcu" => c.at \in McuPage /\ c.len \in 1..McuPages
<1> DEFINE c == i.manifest[k]
<1>1. c \in Commands(i)
  BY DEF Commands
<1>2. c \in Command
  BY <1>1, ImageAssumption
<1> HIDE DEF c
<1>3. CASE c \in [op : {"start", "finish"}, at : Page]
  BY <1>3, <1>2, <1>1 DEF c
<1>4. CASE c \in [op : {"flash"}, at : Page, len : 1..Pages, board : Int, good : BOOLEAN]
  BY <1>4, <1>2, <1>1 DEF c
<1>5. CASE c \in [op : {"mcu"}, at : McuPage, len : 1..McuPages, board : Int, good : BOOLEAN]
  BY <1>5, <1>2, <1>1 DEF c
<1>6. CASE c \in [op : {"check"}, boards : SUBSET Int]
  BY <1>6, <1>2, <1>1 DEF c
<1> QED
  BY <1>2, <1>3, <1>4, <1>5, <1>6 DEF Command

\* The numbers.
LEMMA SizeFacts ==
  /\ Pages \in Nat /\ McuPages \in Nat /\ Trouble \in Nat /\ Unprotected \in Nat
  /\ SectorPages \in Nat /\ SectorPages > 0 /\ 0 \in Page
  /\ \A p \in Page : p \in Nat /\ p - (p % SectorPages) \in Nat /\ p % SectorPages \in 0..SectorPages - 1
  /\ \A p \in McuPage : p \in Nat
<1>1. /\ Pages \in Nat /\ McuPages \in Nat /\ Trouble \in Nat /\ Unprotected \in 0..Pages - 1
      /\ SectorPages \in Nat /\ SectorPages > 0
  BY SizeAssumption DEF SizeAssumption, Page
<1>2. ASSUME NEW p \in Nat
      PROVE  p % SectorPages \in 0..SectorPages - 1 /\ p - (p % SectorPages) \in Nat
  BY <1>1
<1> QED
  BY <1>1, <1>2 DEF Page, McuPage

\* Where there is a command to fetch, the manifest has it.
LEMMA FetchedCommand ==
  ASSUME VerifyInv, PlaceInv, Fetching
  PROVE  image \in Images /\ index \in DOMAIN image.manifest
<1>1. image \in Images /\ index \in Nat \ {0} /\ index <= Len(image.manifest)
  BY DEF Fetching, PlaceInv, VerifyInv
<1> QED
  BY <1>1, ImageAssumption

\* The pages of a part.
LEMMA PartFacts ==
  ASSUME image \in Images, index \in DOMAIN image.manifest, Current.op \in {"flash", "mcu"}
  PROVE  /\ Current.at \in Nat /\ Current.len \in Nat /\ Current.len > 0
         /\ End \in Nat /\ Current.at < End
         /\ Span(Current) = Current.at..End - 1
         /\ Current.op = "flash" => Current.at \in Page
<1> PICK c : c = image.manifest[index]
  OBVIOUS
<1>1. /\ c.op = "flash" => c.at \in Page /\ c.len \in 1..Pages
      /\ c.op = "mcu" => c.at \in McuPage /\ c.len \in 1..McuPages
  BY CommandFacts
<1>2. c.op \in {"flash", "mcu"}
  BY DEF Current
<1>3. c.at \in Nat /\ c.len \in Nat /\ c.len > 0
  <2>1. CASE c.op = "flash"
    <3>1. c.at \in Page /\ c.len \in 1..Pages
      BY <1>1, <2>1
    <3>2. Pages \in Nat
      BY SizeAssumption
    <3> QED
      BY <3>1, <3>2 DEF Page
  <2>2. CASE c.op = "mcu"
    <3>1. c.at \in McuPage /\ c.len \in 1..McuPages
      BY <1>1, <2>2
    <3>2. McuPages \in Nat
      BY SizeAssumption
    <3> QED
      BY <3>1, <3>2 DEF McuPage
  <2> QED
    BY <1>2, <2>1, <2>2
<1> QED
  BY <1>1, <1>3 DEF Current, End, Span

\* At power-off there is no operation.
LEMMA PlaceInit == Init => PlaceInv
  BY DEF Init, PlaceInv, Resting

\* Nothing is asked of a state in which no operation is under way.
LEMMA AtRest ==
  ASSUME pc' \in Resting, pc' # "off" => image' \in Images
  PROVE  PlaceInv'
  BY DEF PlaceInv, Resting

\* Every step leads to the beginning, the next page or the end of an operation.
LEMMA PlaceStep == VerifyInv /\ PlaceInv /\ address \in Nat /\ [Next]_vars => PlaceInv'
<1> SUFFICES ASSUME VerifyInv, PlaceInv, address \in Nat, [Next]_vars PROVE PlaceInv'
  OBVIOUS
<1>1. CASE \E i \in Images : Launch(i)
  BY <1>1, AtRest DEF Launch, Resting
<1>2. CASE Refuse \/ Confirm \/ Finish \/ StopEarly \/ CheckBoard \/ Skip \/ BadPart
  <2>1. pc \in {"command", "off"} /\ pc # "off" /\ pc' \in Resting /\ image' = image
    BY <1>2 DEF Refuse, Confirm, Finish, StopEarly, CheckBoard, Skip, BadPart, Fetched, Fetching,
      Halt, NextCommand, run, Resting
  <2> QED
    BY <2>1, AtRest DEF PlaceInv
<1>3. CASE FlashPart \/ McuPart \/ StartManifest \/ FinishManifest
  <2>1. Fetching /\ pc = "command" /\ image' = image /\ image \in Images
        /\ index \in DOMAIN image.manifest
    BY <1>3, FetchedCommand DEF FlashPart, McuPart, StartManifest, FinishManifest, Fetching, run
  <2>2. CASE pc' = "command"
    BY <2>1, <2>2, AtRest DEF Resting
  <2>3. CASE pc' # "command"
    <3>1. index' = index /\ Current' = Current
      BY <1>3, <2>1, <2>3 DEF FlashPart, McuPart, StartManifest, FinishManifest, Begin, NextCommand,
        Current
    <3>2. CASE FlashPart
      BY <2>1, <2>3, <3>1, <3>2 DEF FlashPart, Begin, NextCommand, PlaceInv, Resting
    <3>3. CASE McuPart
      BY <2>1, <2>3, <3>1, <3>3 DEF McuPart, Begin, NextCommand, PlaceInv, Resting
    <3>4. CASE StartManifest
      BY <2>1, <2>3, <3>1, <3>4 DEF StartManifest, Begin, NextCommand, PlaceInv, Resting
    <3>5. CASE FinishManifest
      BY <2>1, <2>3, <3>1, <3>5 DEF FinishManifest, Begin, NextCommand, PlaceInv, Resting
    <3> QED
      BY <1>3, <3>2, <3>3, <3>4, <3>5
  <2> QED
    BY <2>2, <2>3
<1>4. CASE StartErase
  BY <1>4 DEF StartErase, Begin, run, memory, Current, PlaceInv, Resting
<1>5. CASE StartWrite \/ FinishWrite
  <2>1. pc # "off" /\ image' = image /\ pc' \in Resting
    BY <1>5 DEF StartWrite, FinishWrite, WritePage, NextCommand, Halt, run, Resting
  <2> QED
    BY <2>1, AtRest DEF PlaceInv
<1>6. CASE EraseSector
  <2>1. image \in Images /\ index \in DOMAIN image.manifest /\ Current.op = "flash"
    BY <1>6 DEF EraseSector, PlaceInv, Resting
  <2>2. PICK a : a = Current.at /\ a \in Page /\ a \in Nat
    BY <2>1, PartFacts
  <2>3. address + SectorPages >= Current.at
    <3>1. address = a - (a % SectorPages) \/ address >= a
      BY <1>6, <2>2 DEF EraseSector, PlaceInv
    <3>2. PICK r : r = a % SectorPages
      OBVIOUS
    <3>3. r \in 0..SectorPages - 1 /\ SectorPages \in Nat
      BY <2>2, <3>2, SizeFacts
    <3> QED
      BY <2>2, <3>1, <3>2, <3>3
  <2> QED
    BY <1>6, <2>3 DEF EraseSector, Begin, run, Current, PlaceInv, Resting
<1>7. CASE EraseDone
  <2>1. image \in Images /\ index \in DOMAIN image.manifest /\ Current.op = "flash"
    BY <1>7 DEF EraseDone, PlaceInv, Resting
  <2>2. Current.at \in Nat /\ Current.len \in Nat
    BY <2>1, PartFacts
  <2> QED
    BY <1>7, <2>2 DEF EraseDone, Begin, run, Current, End, PlaceInv, Resting
<1>8. CASE WriteData
  <2>1. image \in Images /\ index \in DOMAIN image.manifest /\ Current.op = "flash"
        /\ Current.at <= address /\ address < End
    BY <1>8 DEF WriteData, PlaceInv, Resting
  <2>2. Current.at \in Nat /\ Current.len \in Nat /\ End \in Nat
    BY <2>1, PartFacts
  <2>3. image' = image /\ pc = "write"
    BY <1>8 DEF WriteData, WritePage, run
  <2>4. CASE pc' = "halted"
    BY <2>1, <2>4, <2>3, AtRest DEF Resting
  <2>5. CASE Begin("write", address + 1)
    BY <2>1, <2>2, <2>3, <2>5 DEF Begin, Current, End, PlaceInv, Resting
  <2> QED
    BY <1>8, <2>4, <2>5 DEF WriteData, WritePage, Halt
<1>9. CASE McuErase
  <2>1. image \in Images /\ index \in DOMAIN image.manifest /\ Current.op = "mcu"
    BY <1>9 DEF McuErase, PlaceInv, Resting
  <2>2. Current.at \in Nat /\ End \in Nat /\ Current.at < End
    BY <2>1, PartFacts
  <2>3. image' = image /\ pc = "mcu erase"
    BY <1>9 DEF McuErase, run
  <2>4. CASE pc' = "halted"
    BY <2>1, <2>4, <2>3, AtRest DEF Resting
  <2>5. CASE Begin("mcu write", address)
    <3>1. pc' = "mcu write" /\ index' = index /\ address' = address /\ Current' = Current /\ End' = End
      BY <2>3, <2>5 DEF Begin, Current, End
    <3>2. ForBoard(Current) /\ address = Current.at
      BY <2>3 DEF PlaceInv
    <3>3. ForBoard(Current)'
      BY <3>1, <3>2 DEF ForBoard
    <3>4. (Current.op = "mcu" /\ ForBoard(Current))'
      BY <2>1, <3>1, <3>3
    <3>5. (index \in DOMAIN image.manifest /\ image \in Images)'
      BY <2>1, <2>3, <3>1
    <3>6. (Current.at <= address)' /\ (address <= End)'
      <4>1. address' = Current.at /\ Current' = Current /\ End' = End
        BY <3>1, <3>2
      <4> QED
        BY <2>2, <4>1
    <3> QED
      BY <3>1, <3>4, <3>5, <3>6 DEF PlaceInv
  <2> QED
    BY <1>9, <2>4, <2>5 DEF McuErase, Halt
<1>10. CASE McuWrite
  <2>1. image \in Images /\ index \in DOMAIN image.manifest /\ Current.op = "mcu"
        /\ Current.at <= address /\ address < End
    BY <1>10 DEF McuWrite, PlaceInv, Resting
  <2>2. Current.at \in Nat /\ Current.len \in Nat /\ End \in Nat
    BY <2>1, PartFacts
  <2>3. image' = image /\ pc = "mcu write"
    BY <1>10 DEF McuWrite, run
  <2>4. CASE pc' = "halted"
    BY <2>1, <2>4, <2>3, AtRest DEF Resting
  <2>5. CASE Begin("mcu write", address + 1)
    <3>1. pc' = "mcu write" /\ index' = index /\ address' = address + 1 /\ Current' = Current
          /\ End' = End
      BY <2>3, <2>5 DEF Begin, Current, End
    <3>2. ForBoard(Current)
      BY <2>3 DEF PlaceInv
    <3>3. ForBoard(Current)'
      BY <3>1, <3>2 DEF ForBoard
    <3>4. (Current.op = "mcu" /\ ForBoard(Current))'
      BY <2>1, <3>1, <3>3
    <3>5. (index \in DOMAIN image.manifest /\ image \in Images)'
      BY <2>1, <2>3, <3>1
    <3>6. (Current.at <= address)' /\ (address <= End)'
      <4>1. Current.at <= address /\ address < End
        BY <2>1
      <4>2. address' = address + 1 /\ Current' = Current /\ End' = End
        BY <3>1
      <4> QED
        BY <2>2, <4>1, <4>2
    <3> QED
      BY <3>1, <3>4, <3>5, <3>6 DEF PlaceInv
  <2> QED
    BY <1>10, <2>4, <2>5 DEF McuWrite, Halt
<1>11. CASE WriteDone \/ McuDone
  <2>1. pc # "off" /\ image' = image /\ pc' \in Resting
    BY <1>11 DEF WriteDone, McuDone, NextCommand, run, Resting
  <2> QED
    BY <2>1, AtRest DEF PlaceInv
<1>12. CASE Fail
  <2>1. pc # "off" /\ (pc' = "off" \/ (pc' = "halted" /\ image' = image))
    BY <1>12 DEF Fail, Halt, PowerOff, run
  <2> QED
    BY <2>1, AtRest DEF PlaceInv, Resting
<1>13. CASE SwitchOff
  BY <1>13, AtRest DEF SwitchOff, PowerOff, Resting
<1>14. CASE UNCHANGED vars
  BY <1>14 DEF vars, run, memory, PlaceInv, Current, End
<1> QED
  BY <1>1, <1>2, <1>3, <1>4, <1>5, <1>6, <1>7, <1>8, <1>9, <1>10, <1>11, <1>12, <1>13, <1>14
     DEF Next, Step

-----------------------------------------------------------------------------
(* Type correctness.                                                       *)

\* What an image's operations put in a page.
LEMMA ContentFacts ==
  /\ Erased \in Content /\ Junk \in Content
  /\ \A i \in Images : Data(i.version) \in Content
  /\ \A i \in Images, partial \in BOOLEAN : Block(i.version, partial) \in Content
  BY DEF Content, Erased, Junk, Data, Block

\* An operation on pages leaves every page what it was, or the new content.
LEMMA FilledFacts ==
  ASSUME NEW pages, NEW content
  PROVE  /\ DOMAIN Filled(pages, content) = Page
         /\ \A p \in Page : Filled(pages, content)[p] =
              IF p \in pages /\ Writable(p) THEN content ELSE flash[p]
  BY DEF Filled

\* It stays a flash.
LEMMA FilledType ==
  ASSUME flash \in [Page -> Content], NEW pages, NEW content \in Content
  PROVE  Filled(pages, content) \in [Page -> Content]
  BY DEF Filled

\* What the page that is being written shall hold.
Intended == IF pc = "write" THEN Data(image.version) ELSE Block(image.version, partial_install)

\* A page that is written holds what it did, the new content or junk; the
\* updater goes on only if it is the new content.
LEMMA WriteFacts ==
  ASSUME StartWrite \/ FinishWrite \/ WriteData
  PROVE  /\ \E content \in {flash[address], Intended, Junk} : flash' = Filled({address}, content)
         /\ flash'[address] = Intended \/ Halt
         /\ UNCHANGED <<mcuFlash, locked, mcu, run, memory>> /\ trouble' <= Trouble
         /\ trouble' \in {trouble, trouble + 1}
<1>1. ASSUME NEW new
      PROVE  (IF Writable(address) THEN Programmed(flash[address], new) ELSE flash[address])
                \in {flash[address], new, Junk}
  BY DEF Programmed
<1>2. CASE StartWrite \/ FinishWrite
  <2>1. PICK result :
          /\ \/ result = Junk
             \/ result = IF Writable(address)
                         THEN Programmed(flash[address], Block(image.version, partial_install))
                         ELSE flash[address]
          /\ trouble' <= Trouble /\ trouble' \in {trouble, trouble + 1}
          /\ flash' = Filled({address}, result)
          /\ flash'[address] = Block(image.version, partial_install) \/ Halt
          /\ UNCHANGED <<mcuFlash, locked, mcu, run, memory>>
    BY <1>2 DEF StartWrite, FinishWrite, WritePage, Judge
  <2>2. Intended = Block(image.version, partial_install)
    BY <1>2 DEF StartWrite, FinishWrite, Intended
  <2>3. result \in {flash[address], Intended, Junk}
    BY <1>1, <2>1, <2>2
  <2> QED
    BY <2>1, <2>2, <2>3
<1>3. CASE WriteData
  <2>1. PICK result :
          /\ \/ result = Junk
             \/ result = IF Writable(address) THEN Programmed(flash[address], Data(image.version))
                         ELSE flash[address]
          /\ trouble' <= Trouble /\ trouble' \in {trouble, trouble + 1}
          /\ flash' = Filled({address}, result)
          /\ flash'[address] = Data(image.version) \/ Halt
          /\ UNCHANGED <<mcuFlash, locked, mcu, run, memory>>
    BY <1>3 DEF WriteData, WritePage, Judge
  <2>2. Intended = Data(image.version)
    BY <1>3 DEF WriteData, Intended
  <2>3. result \in {flash[address], Intended, Junk}
    BY <1>1, <2>1, <2>2
  <2> QED
    BY <2>1, <2>2, <2>3
<1> QED
  BY <1>2, <1>3

\* It is content that an image may have.
LEMMA IntendedType ==
  ASSUME StartWrite \/ FinishWrite \/ WriteData, PlaceInv, partial_install \in BOOLEAN
  PROVE  Intended \in Content
<1>1. image \in Images
  BY DEF StartWrite, FinishWrite, WriteData, PlaceInv
<1> QED
  BY <1>1, ContentFacts DEF Intended

\* What a flash may become.
LEMMA FlashTypeStep ==
  ASSUME VerifyInv, PlaceInv, TypeOK, [Next]_vars
  PROVE  flash' \in [Page -> Content] /\ mcuFlash' \in [McuPage -> Content]
<1>0. flash \in [Page -> Content] /\ mcuFlash \in [McuPage -> Content]
  BY DEF TypeOK
<1>1. CASE UNCHANGED <<flash, mcuFlash>>
  BY <1>0, <1>1
<1>2. CASE StartErase \/ EraseSector
  <2>1. flash' = Filled(Sector(address), Erased) /\ mcuFlash' = mcuFlash
    BY <1>2 DEF StartErase, EraseSector
  <2> QED
    BY <1>0, <2>1, FilledType, ContentFacts
<1>3. CASE StartWrite \/ FinishWrite \/ WriteData
  <2>1. PICK content \in {flash[address], Intended, Junk} : flash' = Filled({address}, content)
    BY <1>3, WriteFacts
  <2>2. Intended \in Content /\ mcuFlash' = mcuFlash
    BY <1>3, IntendedType, WriteFacts DEF TypeOK
  <2>3. \A p \in Page : Filled({address}, content)[p] \in Content
    BY <1>0, <2>1, <2>2, FilledFacts, ContentFacts
  <2> QED
    BY <1>0, <2>1, <2>2, <2>3 DEF Filled
<1>4. CASE McuErase
  BY <1>0, <1>4, ContentFacts DEF McuErase
<1>5. CASE McuWrite
  <2>1. image \in Images
    BY <1>5 DEF McuWrite, PlaceInv
  <2>2. PICK result \in {Data(image.version), Junk} : mcuFlash' = [mcuFlash EXCEPT ![address] = result]
    BY <1>5 DEF McuWrite
  <2>3. result \in Content /\ flash' = flash
    BY <1>5, <2>1, <2>2, ContentFacts DEF McuWrite
  <2> QED
    BY <1>0, <2>2, <2>3
<1>6. CASE Fail
  <2>1. flash' \in Torn /\ mcuFlash' \in McuTorn
    BY <1>6 DEF Fail
  <2>2. flash' \in [Page -> Content]
    <3>1. \/ flash' = flash \/ flash' = Filled(Sector(address), Junk)
          \/ flash' = Filled({address}, Junk)
      BY <2>1 DEF Torn
    <3> QED
      BY <1>0, <3>1, FilledType, ContentFacts
  <2>3. mcuFlash' \in [McuPage -> Content]
    BY <1>0, <2>1, ContentFacts DEF McuTorn
  <2> QED
    BY <2>2, <2>3
<1>7. CASE Refuse \/ Confirm \/ Finish \/ StopEarly \/ CheckBoard \/ Skip \/ BadPart
  BY <1>1, <1>7 DEF Refuse, Confirm, Finish, StopEarly, CheckBoard, Skip, BadPart, flashes
<1>8. CASE FlashPart \/ McuPart \/ StartManifest \/ FinishManifest
  BY <1>1, <1>8 DEF FlashPart, McuPart, StartManifest, FinishManifest, flashes
<1>9. CASE EraseDone \/ WriteDone \/ McuDone \/ SwitchOff \/ (\E i \in Images : Launch(i))
  BY <1>1, <1>9 DEF EraseDone, WriteDone, McuDone, SwitchOff, Launch, flashes
<1>10. CASE UNCHANGED vars
  BY <1>1, <1>10 DEF vars, flashes
<1> QED
  BY <1>2, <1>3, <1>4, <1>5, <1>6, <1>7, <1>8, <1>9, <1>10 DEF Next, Step

\* The bound on what goes wrong.
LEMMA Counted ==
  ASSUME trouble \in 0..Trouble
  PROVE  /\ trouble' <= Trouble /\ trouble' \in {trouble, trouble + 1} => trouble' \in 0..Trouble
         /\ trouble < Trouble /\ trouble' = trouble + 1 => trouble' \in 0..Trouble
<1>1. Trouble \in Nat
  BY SizeFacts
<1> QED
  BY <1>1

\* The flags, what the MCU runs, the program counter and the bound.
LEMMA PlainTypeStep ==
  ASSUME TypeOK, [Next]_vars
  PROVE  /\ {locked', update_verify', partial_install', mcu_restarted'} \subseteq BOOLEAN
         /\ mcu' \in {"application", "boot loader"}
         /\ pc' \in {"off", "command", "start erase", "start write", "erase", "write", "mcu erase",
                     "mcu write", "finish write", "halted", "done"}
         /\ trouble' \in 0..Trouble
<1>0. trouble \in 0..Trouble
  BY DEF TypeOK
<1> USE DEF TypeOK
<1>1. CASE \E i \in Images : Launch(i)
  BY <1>1 DEF Launch, memory
<1>2. CASE Refuse \/ Confirm \/ Finish \/ StopEarly \/ CheckBoard \/ Skip \/ BadPart
  BY <1>2 DEF Refuse, Confirm, Finish, StopEarly, CheckBoard, Skip, BadPart, Fetched, Fetching,
     Halt, NextCommand, run, flashes, memory
<1>3. CASE FlashPart \/ McuPart \/ StartManifest \/ FinishManifest
  BY <1>3 DEF FlashPart, McuPart, StartManifest, FinishManifest, Begin, NextCommand, Fetching, run,
     flashes, memory
<1>4. CASE StartErase \/ EraseSector \/ EraseDone \/ WriteDone \/ McuErase \/ McuDone
  BY <1>4 DEF StartErase, EraseSector, EraseDone, WriteDone, McuErase, McuDone, Begin, NextCommand,
     Halt, run, flashes, memory
<1>5. CASE StartWrite \/ FinishWrite \/ WriteData
  <2>1. trouble' \in 0..Trouble
    <3>1. trouble' <= Trouble /\ trouble' \in {trouble, trouble + 1}
      BY <1>5, WriteFacts
    <3> QED
      BY <1>0, <3>1, Counted
  <2>2. UNCHANGED <<locked, mcu, run, memory>>
    BY <1>5, WriteFacts
  <2>3. pc' \in {"command", "write", "halted"}
    BY <1>5 DEF StartWrite, FinishWrite, WriteData, WritePage, NextCommand, Begin, Halt
  <2> QED
    BY <2>1, <2>2, <2>3 DEF run, memory
<1>6. CASE McuWrite
  <2>1. trouble' \in 0..Trouble
    <3>1. trouble' <= Trouble /\ trouble' \in {trouble, trouble + 1}
      BY <1>6 DEF McuWrite, Judge
    <3> QED
      BY <1>0, <3>1, Counted
  <2> QED
    BY <1>6, <2>1 DEF McuWrite, Begin, Halt, run, memory
<1>7. CASE Fail
  <2>1. trouble' \in 0..Trouble
    <3>1. trouble < Trouble /\ trouble' = trouble + 1
      BY <1>7 DEF Fail
    <3> QED
      BY <1>0, <3>1, Counted
  <2> QED
    BY <1>7, <2>1 DEF Fail, Halt, PowerOff, run, memory
<1>8. CASE SwitchOff
  BY <1>8 DEF SwitchOff, PowerOff, flashes
<1>9. CASE UNCHANGED vars
  BY <1>9 DEF vars, flashes, run, memory
<1> QED
  BY <1>1, <1>2, <1>3, <1>4, <1>5, <1>6, <1>7, <1>8, <1>9 DEF Next, Step

\* The number of a manifest's commands.
LEMMA LengthFacts ==
  /\ Len(NoImage.manifest) = 0 /\ DOMAIN NoImage.manifest = {}
  /\ \A i \in Images : Len(i.manifest) \in Nat /\ DOMAIN i.manifest = 1..Len(i.manifest)
<1>1. \A i \in Images : i.manifest \in Seq(Commands(i))
  BY ImageAssumption
<1>2. \A i \in Images : Len(i.manifest) \in Nat /\ DOMAIN i.manifest = 1..Len(i.manifest)
  BY <1>1
<1> QED
  BY <1>2 DEF NoImage

\* The command counter stays in the manifest or one past its end.
LEMMA IndexTypeStep ==
  ASSUME VerifyInv, PlaceInv, TypeOK, [Next]_vars
  PROVE  image' \in Images \cup {NoImage} /\ index' \in 1..Len(image'.manifest) + 1
<1>0. VerifyInv'
  BY VerifyStep
<1>1. image' \in Images \cup {NoImage} /\ index' \in Nat \ {0} /\ Len(image'.manifest) \in Nat
  BY <1>0, LengthFacts DEF VerifyInv
<1>2. CASE index' = 1
  BY <1>1, <1>2
<1>3. CASE image' = image /\ index' = index
  BY <1>1, <1>3 DEF TypeOK
<1>4. CASE image' = image /\ index' = index + 1 /\ index \in DOMAIN image.manifest
  <2>1. image \in Images
    BY <1>0, <1>1, <1>4, LengthFacts DEF TypeOK
  <2> QED
    BY <1>1, <1>4, <2>1, LengthFacts
<1>5. CASE \E i \in Images : Launch(i)
  BY <1>5, <1>2 DEF Launch, VerifyInv
<1>6. CASE Refuse \/ Finish \/ StopEarly \/ EraseDone \/ StartErase \/ EraseSector \/ McuErase \/ McuWrite
  BY <1>6, <1>3 DEF Refuse, Finish, StopEarly, EraseDone, StartErase, EraseSector, McuErase, McuWrite,
     Halt, Begin, run
<1>7. CASE Confirm \/ PowerOff
  BY <1>7, <1>2 DEF Confirm, PowerOff
<1>8. CASE CheckBoard \/ Skip \/ BadPart \/ FlashPart \/ McuPart \/ StartManifest \/ FinishManifest
  <2>1. index \in DOMAIN image.manifest
    BY <1>8, FetchedCommand DEF CheckBoard, Skip, BadPart, FlashPart, McuPart, StartManifest,
       FinishManifest
  <2>2. image' = image /\ index' \in {index, index + 1}
    BY <1>8 DEF CheckBoard, Skip, BadPart, FlashPart, McuPart, StartManifest, FinishManifest, Begin,
       NextCommand, Halt, run
  <2> QED
    BY <1>3, <1>4, <2>1, <2>2
<1>9. CASE StartWrite \/ FinishWrite \/ WriteData \/ WriteDone \/ McuDone
  <2>1. index \in DOMAIN image.manifest
    BY <1>9 DEF StartWrite, FinishWrite, WriteData, WriteDone, McuDone, PlaceInv, Resting
  <2>2. image' = image /\ index' \in {index, index + 1}
    BY <1>9 DEF StartWrite, FinishWrite, WriteData, WriteDone, McuDone, WritePage, Begin,
       NextCommand, Halt, run
  <2> QED
    BY <1>3, <1>4, <2>1, <2>2
<1>10. CASE Fail \/ SwitchOff
  BY <1>10, <1>3, <1>7 DEF Fail, SwitchOff, Halt, run
<1>11. CASE UNCHANGED vars
  BY <1>11, <1>3 DEF vars, run
<1> QED
  BY <1>5, <1>6, <1>7, <1>8, <1>9, <1>10, <1>11 DEF Next, Step

\* Where the operation is, and where the version block.
LEMMA PageTypeStep ==
  ASSUME VerifyInv, PlaceInv, TypeOK, [Next]_vars
  PROVE  address' \in Nat /\ flash_version_address' \in Page
<1>0. address \in Nat /\ flash_version_address \in Page
  BY DEF TypeOK
<1>1. CASE UNCHANGED <<address, flash_version_address>>
  BY <1>0, <1>1
<1>2. CASE Refuse \/ Confirm \/ Finish \/ StopEarly \/ CheckBoard \/ Skip \/ BadPart
  BY <1>1, <1>2 DEF Refuse, Confirm, Finish, StopEarly, CheckBoard, Skip, BadPart, Halt, NextCommand,
     memory
<1>3. CASE FlashPart \/ McuPart \/ StartManifest \/ FinishManifest
  <2>1. image \in Images /\ index \in DOMAIN image.manifest
    BY <1>3, FetchedCommand DEF FlashPart, McuPart, StartManifest, FinishManifest
  <2>2. /\ Current.op \in {"start", "finish", "flash"} => Current.at \in Page
        /\ Current.op = "mcu" => Current.at \in McuPage
    BY <2>1, CommandFacts DEF Current
  <2>3. \/ flash_version_address' = flash_version_address
        \/ flash_version_address' = Current.at /\ Current.op = "start"
    BY <1>3 DEF FlashPart, McuPart, StartManifest, FinishManifest, memory
  <2>4. \/ address' = address
        \/ address' = Current.at /\ Current.op \in {"start", "finish", "mcu"}
        \/ address' = Current.at - (Current.at % SectorPages) /\ Current.op = "flash"
    BY <1>3 DEF FlashPart, McuPart, StartManifest, FinishManifest, Begin, NextCommand
  <2>5. PICK a : a = Current.at
    OBVIOUS
  <2>6. a \in Page => a \in Nat /\ a - (a % SectorPages) \in Nat
    BY SizeFacts
  <2>7. a \in McuPage => a \in Nat
    BY SizeFacts
  <2> QED
    BY <1>0, <2>2, <2>3, <2>4, <2>5, <2>6, <2>7
<1>4. CASE EraseDone
  <2>1. image \in Images /\ index \in DOMAIN image.manifest /\ Current.op = "flash"
    BY <1>4 DEF EraseDone, PlaceInv, Resting
  <2> QED
    BY <1>0, <1>4, <2>1, PartFacts DEF EraseDone, Begin, memory
<1>5. CASE StartErase \/ EraseSector \/ WriteDone \/ McuErase \/ McuDone \/ McuWrite
  <2>1. address' \in {address, address + 1, address + SectorPages} /\ UNCHANGED memory
    BY <1>5 DEF StartErase, EraseSector, WriteDone, McuErase, McuDone, McuWrite, Begin, NextCommand,
       Halt
  <2>2. SectorPages \in Nat
    BY SizeFacts
  <2> QED
    BY <1>0, <2>1, <2>2 DEF memory
<1>6. CASE StartWrite \/ FinishWrite \/ WriteData
  <2>1. address' \in {address, address + 1} /\ UNCHANGED memory
    BY <1>6 DEF StartWrite, FinishWrite, WriteData, WritePage, Begin, NextCommand, Halt
  <2> QED
    BY <1>0, <2>1 DEF memory
<1>7. CASE Fail \/ SwitchOff
  BY <1>0, <1>7, SizeFacts DEF Fail, SwitchOff, PowerOff, Halt, memory
<1>8. CASE \E i \in Images : Launch(i)
  BY <1>1, <1>8 DEF Launch, memory
<1>9. CASE UNCHANGED vars
  BY <1>1, <1>9 DEF vars, memory
<1> QED
  BY <1>2, <1>3, <1>4, <1>5, <1>6, <1>7, <1>8, <1>9 DEF Next, Step

\* At first the flash is the factory's.
LEMMA TypeInit == Init => TypeOK
<1> SUFFICES ASSUME Init PROVE TypeOK
  OBVIOUS
<1>1. PICK i \in Images : /\ flash = [p \in Page |-> Factory(i, p)]
                          /\ mcuFlash = [p \in McuPage |-> Data(i.version)]
  BY DEF Init
<1>2. \A p \in Page : Factory(i, p) \in Content
  BY ContentFacts DEF Factory
<1>3. flash \in [Page -> Content] /\ mcuFlash \in [McuPage -> Content]
  BY <1>1, <1>2, ContentFacts
<1>4. index \in 1..Len(image.manifest) + 1
  BY LengthFacts DEF Init
<1>5. trouble \in 0..Trouble
  BY SizeFacts DEF Init
<1>6. flash_version_address \in Page /\ address \in Nat
  BY SizeFacts DEF Init
<1>7. {locked, update_verify, partial_install, mcu_restarted} \subseteq BOOLEAN
  BY DEF Init
<1> QED
  BY <1>3, <1>4, <1>5, <1>6, <1>7 DEF Init, TypeOK

\* The invariant that the properties rest on.
OperationInv == VerifyInv /\ PlaceInv /\ TypeOK

LEMMA OperationInit == Init => OperationInv
  BY VerifyInit, PlaceInit, TypeInit DEF OperationInv

LEMMA OperationStep == OperationInv /\ [Next]_vars => OperationInv'
<1> SUFFICES ASSUME VerifyInv, PlaceInv, TypeOK, [Next]_vars PROVE OperationInv'
  BY DEF OperationInv
<1>1. VerifyInv' /\ PlaceInv'
  BY VerifyStep, PlaceStep DEF TypeOK
<1>2. TypeOK'
  BY FlashTypeStep, PlainTypeStep, IndexTypeStep, PageTypeStep DEF TypeOK
<1> QED
  BY <1>1, <1>2 DEF OperationInv

\* Every variable keeps its type, whatever fails: no operation runs past the
\* manifest, and no page ever holds what no image has.
THEOREM UpdaterTypes == Spec => []TypeOK
<1>1. OperationInv => TypeOK
  BY DEF OperationInv
<1> QED
  BY OperationInit, OperationStep, <1>1, PTL DEF Spec

-----------------------------------------------------------------------------
(* The two sides of the flash, and what the manifests say of them.         *)

UserFlash == {p \in Page : p >= Unprotected}
ProtectedFlash == {p \in Page : p < Unprotected}

\* The side a command is for; the MCU belongs to the user's.
SideOf(c) == IF UserSide(c) THEN UserFlash ELSE ProtectedFlash

\* The pages are numbers.
LEMMA PageNumbers == Unprotected \in Int /\ \A p \in Page : p \in Int
  BY SizeFacts

\* They are apart, and commands are for the same side when their sides are one.
LEMMA Sides ==
  /\ UserFlash \cap ProtectedFlash = {} /\ UserFlash \cup ProtectedFlash = Page /\ UserFlash # ProtectedFlash
  /\ \A c, d : SideOf(c) = SideOf(d) <=> (UserSide(c) <=> UserSide(d))
<1>1. Unprotected \in Page
  BY SizeAssumption
<1>2. \A p \in Page : p \in Int /\ Unprotected \in Int
  BY PageNumbers
<1>3. Unprotected \in UserFlash /\ Unprotected \notin ProtectedFlash
  BY <1>1, <1>2 DEF UserFlash, ProtectedFlash
<1>4. UserFlash \cap ProtectedFlash = {} /\ UserFlash \cup ProtectedFlash = Page
  BY <1>2 DEF UserFlash, ProtectedFlash
<1>5. UserFlash # ProtectedFlash
  BY <1>3
<1> QED
  BY <1>4, <1>5 DEF SideOf

\* The pages of a sector are on one side.
LEMMA SectorSide ==
  ASSUME NEW p \in Page, NEW side \in {UserFlash, ProtectedFlash}, p \in side
  PROVE  Sector(p) \subseteq side /\ p \in Sector(p)
<1>1. Unprotected % SectorPages = 0
  BY ManifestAssumption
<1>2. ASSUME NEW S \in Nat, S > 0, NEW U \in Nat, U % S = 0, NEW q \in Nat, NEW r \in Nat,
             q \div S = r \div S
      PROVE  q >= U <=> r >= U
  <2>1. ASSUME NEW x \in Nat, NEW y \in Nat, x \div S = y \div S, x >= U PROVE y >= U
    BY <1>2, <2>1
  <2> QED
    BY <1>2, <2>1
<1>3. \A q \in Sector(p) : q \in Page /\ q \div SectorPages = p \div SectorPages
  BY DEF Sector
<1>4. \A q \in Sector(p) : q >= Unprotected <=> p >= Unprotected
  BY <1>1, <1>2, <1>3, SizeFacts
<1>5. \A q \in Page : q \in Int /\ Unprotected \in Int
  BY PageNumbers
<1>6. CASE side = UserFlash
  BY <1>3, <1>4, <1>6 DEF UserFlash, Sector
<1>7. CASE side = ProtectedFlash
  BY <1>3, <1>4, <1>5, <1>7 DEF ProtectedFlash, Sector
<1> QED
  BY <1>6, <1>7

\* What the manifests guarantee of a part that this board needs.
LEMMA ManifestFacts ==
  ASSUME NEW i \in Images, NEW k \in DOMAIN i.manifest, ForBoard(i.manifest[k])
  PROVE  LET c == i.manifest[k]
         IN /\ c.op = "flash" => Span(c) \subseteq SideOf(c)
            /\ c.op = "mcu" => Span(c) \subseteq McuPage /\ SideOf(c) = UserFlash
            /\ \E j \in DOMAIN i.manifest :
                 j < k /\ i.manifest[j].op = "start" /\ SideOf(i.manifest[j]) = SideOf(c)
            /\ \A j \in DOMAIN i.manifest :
                 LET d == i.manifest[j]
                 IN /\ d.op = "start" /\ c.op = "flash" => d.at \notin Span(c)
                    /\ d.op = "start" /\ SideOf(d) = SideOf(c) => j < k
                    /\ d.op = "finish" /\ SideOf(d) = SideOf(c) => k < j
                    /\ ForBoard(d) /\ d.op = c.op /\ j # k => Touched(c) \cap Span(d) = {}
<1> DEFINE c == i.manifest[k]
<1>1. WellFormed(i)
  BY ManifestAssumption
<1>2. /\ Span(c) \subseteq IF c.op = "mcu" THEN McuPage
                          ELSE {p \in Page : p >= Unprotected <=> c.at >= Unprotected}
      /\ \E j \in 1..k - 1 : i.manifest[j].op = "start" /\ (UserSide(i.manifest[j]) <=> UserSide(c))
      /\ \A j \in DOMAIN i.manifest :
           LET d == i.manifest[j]
           IN /\ d.op = "start" =>
                   /\ c.op = "flash" => d.at \notin Span(c)
                   /\ (UserSide(d) <=> UserSide(c)) => j < k
              /\ d.op = "finish" /\ (UserSide(d) <=> UserSide(c)) => k < j
              /\ ForBoard(d) /\ d.op = c.op /\ j # k => Touched(c) \cap Span(d) = {}
  BY <1>1 DEF WellFormed
<1>3. c.op = "flash" => Span(c) \subseteq SideOf(c)
  <2> SUFFICES ASSUME c.op = "flash", NEW p \in Span(c) PROVE p \in SideOf(c)
    OBVIOUS
  <2>1. p \in Page /\ (p >= Unprotected <=> c.at >= Unprotected)
    BY <1>2
  <2>2. p \in Int /\ Unprotected \in Int
    BY <2>1, PageNumbers
  <2> QED
    BY <2>1, <2>2 DEF SideOf, UserSide, UserFlash, ProtectedFlash
<1>4. c.op = "mcu" => Span(c) \subseteq McuPage /\ SideOf(c) = UserFlash
  BY <1>2 DEF SideOf, UserSide
<1>5. \E j \in DOMAIN i.manifest :
        j < k /\ i.manifest[j].op = "start" /\ SideOf(i.manifest[j]) = SideOf(c)
  <2>1. PICK j \in 1..k - 1 : i.manifest[j].op = "start" /\ (UserSide(i.manifest[j]) <=> UserSide(c))
    BY <1>2
  <2>2. j \in DOMAIN i.manifest /\ j < k
    BY <2>1, LengthFacts
  <2> QED
    BY <2>1, <2>2, Sides
<1>6. \A j \in DOMAIN i.manifest :
        (UserSide(i.manifest[j]) <=> UserSide(c)) <=> SideOf(i.manifest[j]) = SideOf(c)
  BY Sides
<1> QED
  BY <1>2, <1>3, <1>4, <1>5, <1>6

\* A version block's commands: both are for the page that a START_MANIFEST names.
LEMMA BlockFacts ==
  ASSUME NEW i \in Images, NEW k \in DOMAIN i.manifest, i.manifest[k].op \in {"start", "finish"}
  PROVE  /\ i.manifest[k].at \in Starts(i) /\ i.manifest[k].at \in SideOf(i.manifest[k])
         /\ i.manifest[k].at \in Page
<1> PICK c : c = i.manifest[k]
  OBVIOUS
<1>1. c \in Commands(i) /\ c.at \in Page /\ c.op \in {"start", "finish"}
  BY CommandFacts
<1>2. c.op = "finish" => c.at \in Starts(i)
  BY ManifestAssumption DEF WellFormed
<1>3. c.op = "start" => c.at \in Starts(i)
  BY <1>1 DEF Starts
<1>4. c.at \in Int /\ Unprotected \in Int
  BY <1>1, PageNumbers
<1>5. c.at \in SideOf(c)
  BY <1>1, <1>4 DEF SideOf, UserSide, UserFlash, ProtectedFlash
<1> QED
  BY <1>1, <1>2, <1>3, <1>5

\* There is one version block on a side, whatever the image.
LEMMA OneBlock ==
  ASSUME NEW i \in Images, NEW j \in Images, NEW p \in Starts(i), NEW q \in Starts(j),
         NEW side \in {UserFlash, ProtectedFlash}, p \in side, q \in side
  PROVE  p = q
<1>1. p \in Page /\ q \in Page /\ p \in Int /\ q \in Int /\ Unprotected \in Int
  BY PageNumbers DEF UserFlash, ProtectedFlash
<1>2. p >= Unprotected <=> q >= Unprotected
  <2>1. CASE side = UserFlash
    BY <2>1 DEF UserFlash
  <2>2. CASE side = ProtectedFlash
    BY <1>1, <2>2 DEF ProtectedFlash
  <2> QED
    BY <2>1, <2>2
<1> QED
  BY <1>2, ManifestAssumption

-----------------------------------------------------------------------------
(* The state of an installation.                                           *)

\* The second run is under way.
Installing == ~update_verify /\ pc \notin {"off", "halted", "done"}

\* A part is in its flash.
Written(c) ==
  \A q \in Span(c) : (IF c.op = "mcu" THEN mcuFlash[q] ELSE flash[q]) = Data(image.version)

\* The parts before the n-th command are.
PartsDone(n) ==
  \A k \in DOMAIN image.manifest :
    k < n /\ ForBoard(image.manifest[k]) => Written(image.manifest[k])

\* Nothing says that a side of the flash is complete.
Clean(side) == \A p \in side : flash[p].holds # "complete"

\* Before the n-th command the j-th has begun a side that none has finished.
Open(j, n) ==
  /\ image.manifest[j].op = "start" /\ j < n
  /\ \A k \in DOMAIN image.manifest :
       image.manifest[k].op = "finish" /\ SideOf(image.manifest[k]) = SideOf(image.manifest[j])
         => n <= k

\* Between a side's START_MANIFEST and its FINISH_MANIFEST nothing does.
BlocksGone(n) ==
  \A j \in DOMAIN image.manifest : Open(j, n) => Clean(SideOf(image.manifest[j]))

\* The part that is being written is written so far.
SoFar ==
  /\ pc = "write" => \A q \in Current.at..address - 1 : flash[q] = Data(image.version)
  /\ pc = "mcu write" => \A q \in Current.at..address - 1 : mcuFlash[q] = Data(image.version)

\* Why a version block may say complete in the end.
InstallInv ==
  /\ InstalledIsWhole
  /\ Installing => PartsDone(index) /\ BlocksGone(index) /\ SoFar

\* The pages that the operation under way may change.
Reach == IF pc \in {"start erase", "erase"} THEN Sector(address) ELSE {address}

\* The operations on the flash.
Operating == pc \in {"start erase", "start write", "finish write"}
               \/ (pc \in {"erase", "write"} /\ address < End)

\* A version block of one side stands for what it did when pages of the other
\* change.
LEMMA OtherSideAt ==
  ASSUME NEW side \in {UserFlash, ProtectedFlash}, NEW p \in Page, p \notin side,
         NEW i \in Images, WholeAt(i, p),
         \A q \in Page : q \in side \/ flash'[q] = flash[q],
         side = UserFlash \/ mcuFlash' = mcuFlash
  PROVE  WholeAt(i, p)'
<1>1. ASSUME NEW c \in Commands(i), ForBoard(c), c.op = "flash",
             c.at < Unprotected <=> p < Unprotected, NEW q \in Span(c)
      PROVE  flash'[q] = Data(i.version)
  <2>1. PICK k \in DOMAIN i.manifest : c = i.manifest[k]
    BY <1>1 DEF Commands
  <2>2. q \in SideOf(c) /\ q \in Page /\ c.at \in Page
    BY <1>1, <2>1, ManifestFacts, CommandFacts, Sides DEF SideOf
  <2>3. p \in SideOf(c)
    BY <1>1, <2>2, PageNumbers DEF SideOf, UserSide, UserFlash, ProtectedFlash
  <2>4. q \notin side
    BY <2>2, <2>3, Sides DEF SideOf
  <2>5. flash[q] = Data(i.version)
    BY <1>1 DEF WholeAt
  <2> QED
    BY <2>2, <2>4, <2>5
<1>2. ASSUME NEW c \in Commands(i), ForBoard(c), c.op = "mcu", p >= Unprotected, NEW q \in Span(c)
      PROVE  mcuFlash'[q] = Data(i.version)
  <2>1. p \in UserFlash
    BY <1>2 DEF UserFlash
  <2>2. mcuFlash' = mcuFlash
    BY <2>1
  <2>3. mcuFlash[q] = Data(i.version)
    BY <1>2 DEF WholeAt
  <2> QED
    BY <2>2, <2>3
<1> QED
  BY <1>1, <1>2 DEF WholeAt

\* As long as nothing says that the side is complete on which pages change, all
\* is well.
LEMMA OtherSide ==
  ASSUME InstalledIsWhole, NEW side \in {UserFlash, ProtectedFlash},
         \A p \in Page : p \in side \/ flash'[p] = flash[p],
         side = UserFlash \/ mcuFlash' = mcuFlash,
         \A p \in side : flash'[p].holds # "complete"
  PROVE  InstalledIsWhole'
<1> SUFFICES ASSUME NEW p \in Page, flash'[p].holds = "complete"
             PROVE  \E i \in Images : i.version = flash'[p].version /\ WholeAt(i, p)'
  BY DEF InstalledIsWhole
<1>1. p \notin side /\ flash'[p] = flash[p]
  OBVIOUS
<1>2. PICK i \in Images : i.version = flash[p].version /\ WholeAt(i, p)
  BY <1>1 DEF InstalledIsWhole
<1> QED
  BY <1>1, <1>2, OtherSideAt

\* The pages in reach are on the side of the command.
LEMMA ReachFacts ==
  ASSUME OperationInv, Operating
  PROVE  /\ address \in Page /\ address \in SideOf(Current) /\ address \in Reach
         /\ Reach \subseteq SideOf(Current)
         /\ image \in Images /\ index \in DOMAIN image.manifest
<1>1. image \in Images /\ index \in DOMAIN image.manifest
  BY DEF OperationInv, PlaceInv, Operating, Resting
<1>2. SideOf(Current) \in {UserFlash, ProtectedFlash}
  BY DEF SideOf
<1>3. address \in Page /\ address \in SideOf(Current)
  <2>1. CASE pc \in {"start erase", "start write", "finish write"}
    <3>1. Current.op \in {"start", "finish"} /\ address = Current.at
      BY <2>1 DEF OperationInv, PlaceInv
    <3> QED
      BY <1>1, <3>1, BlockFacts DEF Current
  <2>2. CASE pc \in {"erase", "write"} /\ address < End
    <3>1. Current.op = "flash" /\ ForBoard(Current)
      BY <2>2 DEF OperationInv, PlaceInv
    <3>2. Span(Current) \subseteq SideOf(Current) /\ SideOf(Current) \subseteq Page
      BY <1>1, <1>2, <3>1, ManifestFacts, Sides DEF Current
    <3>3. PICK a, e : a = Current.at /\ e = End
      OBVIOUS
    <3>4. a \in Page /\ a \in Nat /\ e \in Nat /\ a < e /\ Span(Current) = a..e - 1
      BY <1>1, <3>1, <3>3, PartFacts
    <3>5. address \in Nat
      BY DEF OperationInv, TypeOK
    <3>6. CASE address >= a
      BY <2>2, <3>2, <3>3, <3>4, <3>5, <3>6
    <3>7. CASE ~(address >= a)
      <4>1. address = a - (a % SectorPages)
        BY <2>2, <3>3, <3>4, <3>5, <3>7 DEF OperationInv, PlaceInv
      <4>2. SectorPages \in Nat /\ SectorPages > 0 /\ Pages \in Nat
        BY SizeFacts
      <4>3. ASSUME NEW S \in Nat, S > 0, NEW x \in Nat PROVE (x - (x % S)) \div S = x \div S
        BY <4>3
      <4>4. address \div SectorPages = a \div SectorPages
        BY <4>1, <4>2, <4>3, <3>4
      <4>5. address \in Page
        BY <3>4, <3>5, <3>7, <4>2 DEF Page
      <4>6. address \in Sector(a)
        BY <4>4, <4>5 DEF Sector
      <4>7. a \in SideOf(Current)
        BY <3>2, <3>4
      <4> QED
        BY <1>2, <3>4, <4>5, <4>6, <4>7, SectorSide
    <3> QED
      BY <3>6, <3>7
  <2> QED
    BY <2>1, <2>2 DEF Operating
<1>4. Sector(address) \subseteq SideOf(Current) /\ address \in Sector(address)
  BY <1>2, <1>3, SectorSide
<1> QED
  BY <1>1, <1>3, <1>4 DEF Reach

\* A step that leaves the flashes alone.
LEMMA Untouched ==
  ASSUME InstalledIsWhole, UNCHANGED <<flash, mcuFlash>>
  PROVE  InstalledIsWhole'
  BY DEF InstalledIsWhole, WholeAt

\* No part that is done is in reach of the operation.
LEMMA PartsSafe ==
  ASSUME OperationInv, Operating, NEW k \in DOMAIN image.manifest, k < index,
         ForBoard(image.manifest[k]), image.manifest[k].op = "flash"
  PROVE  Span(image.manifest[k]) \cap Reach = {} /\ Span(image.manifest[k]) \subseteq Page
<1> PICK c : c = image.manifest[k]
  OBVIOUS
<1>1. image \in Images /\ index \in DOMAIN image.manifest /\ address \in Page
      /\ Reach \subseteq SideOf(Current) /\ k \in Nat /\ index \in Nat
  BY ReachFacts, LengthFacts
<1>2. Span(c) \subseteq SideOf(c) /\ SideOf(c) \subseteq Page
  BY <1>1, ManifestFacts, Sides DEF SideOf
<1>3. CASE pc \in {"start erase", "start write"}
  <2>1. Current.op = "start"
    BY <1>3 DEF OperationInv, PlaceInv
  <2>2. SideOf(Current) # SideOf(c)
    <3>1. SideOf(Current) = SideOf(c) => index < k
      BY <1>1, <2>1, ManifestFacts DEF Current
    <3> QED
      BY <1>1, <3>1
  <2> QED
    BY <1>1, <1>2, <2>2, Sides DEF SideOf
<1>4. CASE pc = "finish write"
  <2>1. Current.op = "finish" /\ Reach = {Current.at}
    BY <1>4 DEF OperationInv, PlaceInv, Reach
  <2>2. PICK j \in DOMAIN image.manifest : image.manifest[j].op = "start"
                                           /\ image.manifest[j].at = Current.at
    BY <1>1, <2>1, BlockFacts DEF Current, Starts, Commands
  <2>3. Current.at \notin Span(c)
    BY <1>1, <2>2, ManifestFacts
  <2> QED
    BY <1>2, <2>1, <2>3
<1>5. CASE pc \in {"erase", "write"} /\ address < End
  <2>1. Current.op = "flash" /\ ForBoard(Current)
    BY <1>5 DEF OperationInv, PlaceInv
  <2>2. Touched(Current) \cap Span(c) = {}
    BY <1>1, <2>1, ManifestFacts DEF Current
  <2>3. Reach \subseteq Touched(Current)
    <3>1. PICK a, e : a = Current.at /\ e = End
      OBVIOUS
    <3>2. a \in Nat /\ e \in Nat /\ a < e /\ Span(Current) = a..e - 1
      BY <1>1, <2>1, <3>1, PartFacts
    <3>3. address \in Nat /\ address < e
      BY <1>5, <3>1 DEF OperationInv, TypeOK
    <3>4. \E q \in Span(Current) : address \div SectorPages = q \div SectorPages
      <4>1. CASE address >= a
        BY <3>2, <3>3, <4>1
      <4>2. CASE ~(address >= a)
        <5>1. address = a - (a % SectorPages)
          BY <1>5, <3>1, <3>2, <3>3, <4>2 DEF OperationInv, PlaceInv
        <5>2. SectorPages \in Nat /\ SectorPages > 0
          BY SizeFacts
        <5>3. ASSUME NEW S \in Nat, S > 0, NEW x \in Nat PROVE (x - (x % S)) \div S = x \div S
          BY <5>3
        <5>4. address \div SectorPages = a \div SectorPages
          BY <3>2, <5>1, <5>2, <5>3
        <5>5. a \in Span(Current)
          BY <3>2
        <5> QED
          BY <5>4, <5>5
      <4> QED
        BY <4>1, <4>2
    <3>5. Sector(address) \subseteq Touched(Current)
      BY <2>1, <3>4 DEF Sector, Touched
    <3>6. address \in Sector(address)
      BY <1>1 DEF Sector
    <3> QED
      BY <3>5, <3>6 DEF Reach
  <2> QED
    BY <1>2, <2>2, <2>3
<1> QED
  BY <1>3, <1>4, <1>5 DEF Operating

\* The manifest's commands come one after another.
LEMMA CommandOrder ==
  ASSUME NEW i \in Images, NEW m \in DOMAIN i.manifest, NEW n \in DOMAIN i.manifest
  PROVE  m \in Nat /\ n \in Nat /\ (m < n => m <= n /\ m # n) /\ (m < n + 1 => m < n \/ m = n)
         /\ (m + 1 <= n => m <= n /\ m # n)
<1>1. m \in Nat /\ n \in Nat
  BY LengthFacts
<1> QED
  BY <1>1

\* While a part is installed nothing says that its side is complete.
LEMMA PartClean ==
  ASSUME OperationInv, InstallInv, pc \in {"erase", "write", "mcu erase", "mcu write"}
  PROVE  Clean(SideOf(Current))
<1>1. image \in Images /\ index \in DOMAIN image.manifest /\ ForBoard(image.manifest[index])
  BY DEF OperationInv, PlaceInv, Resting, Current
<1>2. Installing
  BY DEF OperationInv, VerifyInv, Resting, Installing
<1>3. PICK j \in DOMAIN image.manifest :
        j < index /\ image.manifest[j].op = "start" /\ SideOf(image.manifest[j]) = SideOf(Current)
  BY <1>1, ManifestFacts DEF Current
<1>4. ASSUME NEW k \in DOMAIN image.manifest, image.manifest[k].op = "finish",
             SideOf(image.manifest[k]) = SideOf(Current)
      PROVE  index <= k
  <2>1. index < k
    BY <1>1, <1>4, ManifestFacts DEF Current
  <2> QED
    BY <1>1, <2>1, CommandOrder
<1>5. Open(j, index)
  BY <1>3, <1>4 DEF Open
<1> QED
  BY <1>2, <1>3, <1>5 DEF InstallInv, BlocksGone

\* The page of the version block is the only one that can say so.
LEMMA OnlyBlock ==
  ASSUME InstalledIsWhole, image \in Images, index \in DOMAIN image.manifest,
         Current.op \in {"start", "finish"}, NEW p \in SideOf(Current), flash[p].holds = "complete"
  PROVE  p = Current.at
<1>1. p \in Page /\ SideOf(Current) \in {UserFlash, ProtectedFlash}
  BY Sides DEF SideOf
<1>2. PICK i \in Images : WholeAt(i, p)
  BY <1>1 DEF InstalledIsWhole
<1>3. p \in Starts(i)
  BY <1>2 DEF WholeAt
<1>4. Current.at \in Starts(image) /\ Current.at \in SideOf(Current)
  BY BlockFacts DEF Current
<1> QED
  BY <1>1, <1>3, <1>4, OneBlock

\* The user's side is never locked.
LEMMA UserWritable == \A p \in UserFlash : Writable(p)
  BY PageNumbers DEF Writable, UserFlash

\* An operation on the flash that leaves no complete version block: it may have
\* ended well or badly, and at pages that are locked it does nothing.
LEMMA FlashOperation ==
  ASSUME OperationInv, InstallInv, Operating, pc # "finish write",
         NEW content, content.holds # "complete", NEW pages, pages \subseteq Reach, address \in pages,
         flash' = Filled(pages, content), mcuFlash' = mcuFlash
  PROVE  InstalledIsWhole'
<1>1. address \in SideOf(Current) /\ Reach \subseteq SideOf(Current) /\ image \in Images
      /\ index \in DOMAIN image.manifest
  BY ReachFacts
<1>2. SideOf(Current) \in {UserFlash, ProtectedFlash} /\ SideOf(Current) \subseteq Page
  BY Sides DEF SideOf
<1>3. \A p \in Page : flash'[p] = IF p \in pages /\ Writable(p) THEN content ELSE flash[p]
  BY FilledFacts
<1>4. CASE locked /\ SideOf(Current) = ProtectedFlash
  <2>1. \A p \in pages : ~Writable(p)
    BY <1>1, <1>4 DEF Writable, ProtectedFlash
  <2>2. flash' = flash
    BY <1>3, <2>1 DEF OperationInv, TypeOK, Filled
  <2> QED
    BY <2>2, Untouched DEF InstallInv
<1>5. CASE ~(locked /\ SideOf(Current) = ProtectedFlash)
  <2>1. \A p \in SideOf(Current) : Writable(p)
    <3>1. CASE ~locked
      BY <3>1 DEF Writable
    <3>2. CASE SideOf(Current) = UserFlash
      BY <3>2, UserWritable
    <3> QED
      BY <1>2, <1>5, <3>1, <3>2
  <2>2. ASSUME NEW p \in SideOf(Current) PROVE flash'[p].holds # "complete"
    <3>1. CASE p \in pages
      BY <1>2, <1>3, <2>1, <3>1
    <3>2. CASE p \notin pages
      <4>1. flash'[p] = flash[p]
        BY <1>2, <1>3, <3>2
      <4>2. CASE pc \in {"erase", "write"}
        BY <4>1, <4>2, PartClean DEF Clean
      <4>3. CASE pc \in {"start erase", "start write"}
        <5>1. Current.op = "start" /\ address = Current.at
          BY <4>3 DEF OperationInv, PlaceInv
        <5> QED
          BY <1>1, <3>2, <4>1, <5>1, OnlyBlock DEF InstallInv
      <4> QED
        BY <4>2, <4>3 DEF Operating
    <3> QED
      BY <3>1, <3>2
  <2>3. \A p \in Page : p \in SideOf(Current) \/ flash'[p] = flash[p]
    BY <1>1, <1>3
  <2> QED
    BY <1>2, <2>2, <2>3, OtherSide DEF InstallInv
<1> QED
  BY <1>4, <1>5

\* Where an installation stops only the version blocks matter.
LEMMA Stopped ==
  ASSUME InstalledIsWhole', pc' \in {"off", "halted", "done"} \/ update_verify'
  PROVE  InstallInv'
  BY DEF InstallInv, Installing

\* What a step leaves of the parts that are done.
PartsKept ==
  \A k \in DOMAIN image.manifest :
    k < index /\ ForBoard(image.manifest[k]) =>
      \A q \in Span(image.manifest[k]) :
        IF image.manifest[k].op = "mcu" THEN mcuFlash'[q] = mcuFlash[q] ELSE flash'[q] = flash[q]

\* They are still done.
LEMMA PartsStay ==
  ASSUME PartsDone(index), PartsKept, image' = image, NEW k \in DOMAIN image.manifest, k < index,
         ForBoard(image.manifest[k])
  PROVE  Written(image.manifest[k])'
<1>1. Written(image.manifest[k])
  BY DEF PartsDone
<1>2. \A q \in Span(image.manifest[k]) :
        IF image.manifest[k].op = "mcu" THEN mcuFlash'[q] = mcuFlash[q] ELSE flash'[q] = flash[q]
  BY DEF PartsKept
<1> QED
  BY <1>1, <1>2 DEF Written

\* A step of the command under way.
LEMMA SameCommand ==
  ASSUME OperationInv, InstallInv, Installing, InstalledIsWhole', PartsKept,
         image' = image, index' = index, SoFar',
         \A p \in Page : flash'[p] = flash[p] \/ flash'[p].holds # "complete"
  PROVE  InstallInv'
<1>1. PartsDone(index) /\ BlocksGone(index)
  BY DEF InstallInv
<1>2. PartsDone(index)'
  BY <1>1, PartsStay DEF PartsDone
<1>3. ASSUME NEW j \in DOMAIN image'.manifest, Open(j, index)'
      PROVE  Clean(SideOf(image.manifest[j]))'
  <2>1. Open(j, index)
    BY <1>3 DEF Open
  <2>2. Clean(SideOf(image.manifest[j]))
    BY <1>1, <1>3, <2>1 DEF BlocksGone
  <2>3. SideOf(image.manifest[j]) \subseteq Page
    BY Sides DEF SideOf
  <2> QED
    BY <2>2, <2>3 DEF Clean
<1>4. BlocksGone(index)'
  BY <1>3 DEF BlocksGone
<1> QED
  BY <1>2, <1>4 DEF InstallInv

\* A step to the next command.
LEMMA CommandDone ==
  ASSUME OperationInv, InstallInv, Installing, InstalledIsWhole', PartsKept, image \in Images,
         index \in DOMAIN image.manifest, image' = image, index' = index + 1, pc' = "command",
         ForBoard(Current) => \A q \in Span(Current) :
           (IF Current.op = "mcu" THEN mcuFlash'[q] ELSE flash'[q]) = Data(image.version),
         \A p \in Page : \/ flash'[p] = flash[p] \/ flash'[p].holds # "complete"
                         \/ Current.op = "finish" /\ p \in SideOf(Current),
         Current.op = "start" => \A p \in SideOf(Current) : flash'[p].holds # "complete"
  PROVE  InstallInv'
<1>1. PartsDone(index) /\ BlocksGone(index)
  BY DEF InstallInv
<1>2. PartsDone(index)'
  <2>1. ASSUME NEW k \in DOMAIN image.manifest, k < index + 1, ForBoard(image.manifest[k])
        PROVE  Written(image.manifest[k])'
    <3>1. CASE k < index
      BY <1>1, <2>1, <3>1, PartsStay
    <3>2. CASE k = index
      <4>1. Current = image.manifest[k]
        BY <3>2 DEF Current
      <4> QED
        BY <2>1, <4>1 DEF Written
    <3> QED
      BY <2>1, <3>1, <3>2, CommandOrder
  <2> QED
    BY <2>1 DEF PartsDone
<1>3. ASSUME NEW j \in DOMAIN image.manifest, Open(j, index)'
      PROVE  Clean(SideOf(image.manifest[j]))'
  <2>1. /\ image.manifest[j].op = "start" /\ j < index + 1
        /\ \A k \in DOMAIN image.manifest :
             image.manifest[k].op = "finish" /\ SideOf(image.manifest[k]) = SideOf(image.manifest[j])
               => index + 1 <= k
    BY <1>3 DEF Open
  <2>2. SideOf(image.manifest[j]) \subseteq Page
    BY Sides DEF SideOf
  <2>3. CASE j = index
    BY <2>1, <2>3 DEF Clean, Current
  <2>4. CASE j < index
    <3>1. ASSUME NEW k \in DOMAIN image.manifest, index + 1 <= k PROVE index <= k /\ k # index
      BY <3>1, CommandOrder
    <3>2. Open(j, index)
      BY <2>1, <2>4, <3>1 DEF Open
    <3>3. Clean(SideOf(image.manifest[j]))
      BY <1>1, <3>2 DEF BlocksGone
    <3>4. Current.op = "finish" => SideOf(Current) # SideOf(image.manifest[j])
      BY <2>1, <3>1 DEF Current
    <3>5. ASSUME Current.op = "finish", NEW p \in SideOf(image.manifest[j]) PROVE p \notin SideOf(Current)
      BY <3>4, <3>5, Sides DEF SideOf
    <3> QED
      BY <2>2, <3>3, <3>5 DEF Clean
  <2> QED
    BY <2>1, <2>3, <2>4, CommandOrder
<1>4. BlocksGone(index)'
  BY <1>3 DEF BlocksGone
<1>5. SoFar'
  BY DEF SoFar
<1> QED
  BY <1>2, <1>4, <1>5 DEF InstallInv

-----------------------------------------------------------------------------
(* The steps of an installation.                                           *)

\* An operation on the flash keeps the parts that are done.
LEMMA FlashKept ==
  ASSUME OperationInv, Operating, NEW content, NEW pages, pages \subseteq Reach,
         flash' = Filled(pages, content), mcuFlash' = mcuFlash
  PROVE  PartsKept
<1> SUFFICES ASSUME NEW k \in DOMAIN image.manifest, k < index, ForBoard(image.manifest[k]),
                    NEW q \in Span(image.manifest[k]), image.manifest[k].op # "mcu"
             PROVE  flash'[q] = flash[q]
  BY DEF PartsKept
<1>1. image.manifest[k].op = "flash"
  BY DEF ForBoard
<1>2. q \in Page /\ q \notin pages
  BY <1>1, PartsSafe
<1> QED
  BY <1>2, FilledFacts

\* An operation on the MCU's flash, ended or not, belongs to a side of which
\* nothing says that it is complete.
LEMMA McuOperation ==
  ASSUME OperationInv, InstallInv, pc \in {"mcu erase", "mcu write"}, flash' = flash
  PROVE  InstalledIsWhole'
<1>1. image \in Images /\ index \in DOMAIN image.manifest /\ ForBoard(image.manifest[index])
      /\ image.manifest[index].op = "mcu"
  BY DEF OperationInv, PlaceInv, Resting, Current
<1>2. SideOf(Current) = UserFlash
  BY <1>1, ManifestFacts DEF Current
<1>3. Clean(UserFlash)
  BY <1>2, PartClean
<1> QED
  BY <1>3, OtherSide DEF Clean, InstallInv

\* It keeps the parts that are done.
LEMMA McuKept ==
  ASSUME OperationInv, pc \in {"mcu erase", "mcu write"}, flash' = flash,
         \A q \in McuPage : q \in Span(Current) \/ mcuFlash'[q] = mcuFlash[q]
  PROVE  PartsKept
<1> SUFFICES ASSUME NEW k \in DOMAIN image.manifest, k < index, ForBoard(image.manifest[k]),
                    NEW q \in Span(image.manifest[k]), image.manifest[k].op = "mcu"
             PROVE  mcuFlash'[q] = mcuFlash[q]
  BY DEF PartsKept
<1>1. image \in Images /\ index \in DOMAIN image.manifest /\ ForBoard(image.manifest[index])
      /\ image.manifest[index].op = "mcu"
  BY DEF OperationInv, PlaceInv, Resting, Current
<1>2. k # index
  BY <1>1, CommandOrder
<1>3. Touched(Current) \cap Span(image.manifest[k]) = {} /\ Span(image.manifest[k]) \subseteq McuPage
  BY <1>1, <1>2, ManifestFacts DEF Current
<1>4. Touched(Current) = Span(Current)
  BY <1>1 DEF Touched, Current
<1> QED
  BY <1>3, <1>4

\* An operation that is under way belongs to an installation.
LEMMA UnderWay ==
  ASSUME OperationInv, pc \notin Resting
  PROVE  Installing /\ image \in Images /\ index \in DOMAIN image.manifest
  BY DEF OperationInv, VerifyInv, PlaceInv, Installing, Resting

\* A sector is erased.
LEMMA EraseStep ==
  ASSUME OperationInv, InstallInv, StartErase \/ EraseSector
  PROVE  InstallInv'
<1>1. Operating /\ Reach = Sector(address) /\ pc # "finish write" /\ pc \notin Resting
  BY DEF StartErase, EraseSector, Operating, Reach, Resting
<1>2. flash' = Filled(Sector(address), Erased) /\ mcuFlash' = mcuFlash /\ image' = image /\ index' = index
      /\ pc' \notin {"write", "mcu write"}
  BY DEF StartErase, EraseSector, Begin, run
<1>3. Erased.holds # "complete"
  BY DEF Erased
<1>4. address \in Reach
  BY <1>1, ReachFacts
<1>5. InstalledIsWhole' /\ PartsKept
  BY <1>1, <1>2, <1>3, <1>4, FlashOperation, FlashKept
<1>6. ASSUME NEW p \in Page PROVE flash'[p] = flash[p] \/ flash'[p].holds # "complete"
  <2>1. flash'[p] = Erased \/ flash'[p] = flash[p]
    BY <1>2, FilledFacts
  <2> QED
    BY <1>3, <2>1
<1>7. SoFar'
  BY <1>2 DEF SoFar
<1> QED
  BY <1>1, <1>2, <1>5, <1>6, <1>7, SameCommand, UnderWay

\* A page is written that is not to say that a side is complete.
LEMMA PlainWrite ==
  ASSUME OperationInv, InstallInv, StartWrite \/ WriteData
  PROVE  /\ InstalledIsWhole' /\ PartsKept
         /\ \A p \in Page : flash'[p] = flash[p] \/ flash'[p].holds # "complete"
         /\ Intended.holds # "complete"
         /\ \A p \in Page : p # address => flash'[p] = flash[p]
<1>1. Operating /\ pc # "finish write" /\ pc \notin Resting /\ Reach = {address}
  BY DEF StartWrite, WriteData, Operating, Reach, Resting
<1>2. Intended.holds # "complete"
  <2>1. CASE StartWrite
    BY <2>1 DEF StartWrite, OperationInv, PlaceInv, Intended, Block
  <2>2. CASE WriteData
    BY <2>2 DEF WriteData, Intended, Data
  <2> QED
    BY <2>1, <2>2
<1>3. PICK content \in {flash[address], Intended, Junk} : flash' = Filled({address}, content)
  BY WriteFacts
<1>4. mcuFlash' = mcuFlash
  BY WriteFacts
<1>5. PartsKept
  BY <1>1, <1>3, <1>4, FlashKept
<1>6. \A p \in Page : p # address => flash'[p] = flash[p]
  BY <1>3, FilledFacts
<1>7. CASE content = flash[address]
  <2>1. flash' = flash
    BY <1>3, <1>7 DEF Filled, OperationInv, TypeOK
  <2> QED
    BY <1>2, <1>4, <1>5, <2>1, Untouched DEF InstallInv
<1>8. CASE content.holds # "complete"
  <2>1. InstalledIsWhole'
    BY <1>1, <1>3, <1>4, <1>8, FlashOperation
  <2>2. \A p \in Page : flash'[p] = flash[p] \/ flash'[p].holds # "complete"
    BY <1>3, <1>8, FilledFacts
  <2> QED
    BY <1>2, <1>5, <1>6, <2>1, <2>2
<1>9. content = flash[address] \/ content.holds # "complete"
  BY <1>2, <1>3 DEF Junk
<1> QED
  BY <1>7, <1>8, <1>9

\* The version block is written, partial.
LEMMA StartWriteStep ==
  ASSUME OperationInv, InstallInv, StartWrite
  PROVE  InstallInv'
<1>1. pc \notin Resting /\ Operating /\ address \in Page
  BY ReachFacts DEF StartWrite, Resting, Operating
<1>2. Installing /\ image \in Images /\ index \in DOMAIN image.manifest
  BY <1>1, UnderWay
<1>3. image' = image /\ Current.op = "start" /\ address = Current.at
  BY WriteFacts DEF StartWrite, OperationInv, PlaceInv, run
<1>4. CASE Halt
  BY <1>4, PlainWrite, Stopped DEF Halt
<1>5. CASE flash'[address] = Intended /\ ~Halt
  <2>1. pc' = "command" /\ index' = index + 1
    BY <1>5 DEF StartWrite, WritePage, NextCommand
  <2>2. ~ForBoard(Current)
    BY <1>3 DEF ForBoard
  <2>3. ASSUME NEW p \in SideOf(Current) PROVE flash'[p].holds # "complete"
    <3>1. CASE p = address
      BY <1>5, <3>1, PlainWrite
    <3>2. CASE p # address
      <4>1. p \in Page
        BY Sides DEF SideOf
      <4>2. flash'[p] = flash[p]
        BY <3>2, <4>1, PlainWrite
      <4> QED
        BY <1>2, <1>3, <3>2, <4>2, OnlyBlock DEF InstallInv
    <3> QED
      BY <3>1, <3>2
  <2> QED
    BY <1>2, <1>3, <2>1, <2>2, <2>3, PlainWrite, CommandDone
<1> QED
  BY <1>4, <1>5, WriteFacts

\* A page of a part is written.
LEMMA WriteDataStep ==
  ASSUME OperationInv, InstallInv, WriteData
  PROVE  InstallInv'
<1>1. pc \notin Resting /\ pc = "write" /\ Operating /\ address \in Page
  BY ReachFacts DEF WriteData, Resting, Operating
<1>2. Installing /\ image \in Images /\ index \in DOMAIN image.manifest
  BY <1>1, UnderWay
<1>3. image' = image /\ Intended = Data(image.version) /\ Current.op = "flash"
  BY WriteFacts DEF WriteData, OperationInv, PlaceInv, run, Intended
<1>4. CASE Halt
  BY <1>4, PlainWrite, Stopped DEF Halt
<1>5. CASE flash'[address] = Intended /\ ~Halt
  <2>1. pc' = "write" /\ index' = index /\ address' = address + 1 /\ Current' = Current
    BY <1>3, <1>5 DEF WriteData, WritePage, Begin, Current
  <2>2. ASSUME NEW q \in Current.at..address PROVE flash'[q] = Data(image.version)
    <3>1. PICK a, e : a = Current.at /\ e = End
      OBVIOUS
    <3>2. a \in Nat /\ e \in Nat /\ address \in Nat /\ address < e /\ Span(Current) = a..e - 1
      BY <1>2, <1>3, <3>1, PartFacts DEF WriteData, OperationInv, TypeOK
    <3>3. CASE q = address
      BY <1>3, <1>5, <3>3
    <3>4. CASE q # address
      <4>1. q \in a..address - 1 /\ q \in Span(Current)
        BY <3>1, <3>2, <3>4
      <4>2. flash[q] = Data(image.version)
        BY <1>1, <1>2, <3>1, <4>1 DEF InstallInv, SoFar
      <4>3. q \in Page
        <5>1. ForBoard(Current)
          BY <1>1 DEF OperationInv, PlaceInv
        <5> QED
          BY <1>2, <1>3, <4>1, <5>1, ManifestFacts, Sides DEF Current, SideOf
      <4> QED
        BY <3>4, <4>2, <4>3, PlainWrite
    <3> QED
      BY <3>3, <3>4
  <2>3. address' - 1 = address
    <3>1. address \in Nat
      BY DEF OperationInv, TypeOK
    <3> QED
      BY <2>1, <3>1
  <2>4. SoFar'
    BY <1>3, <2>1, <2>2, <2>3 DEF SoFar
  <2> QED
    BY <1>2, <1>3, <2>1, <2>4, PlainWrite, SameCommand
<1> QED
  BY <1>4, <1>5, WriteFacts

\* When the version block is to be completed, what it stands for is installed.
LEMMA BeforeFinish ==
  ASSUME OperationInv, InstallInv, FinishWrite, PartsKept
  PROVE  WholeAt(image, address)'
<1>1. pc \notin Resting /\ Current.op = "finish" /\ address = Current.at /\ image' = image
  BY WriteFacts DEF FinishWrite, OperationInv, PlaceInv, Resting, run
<1>2. Installing /\ image \in Images /\ index \in DOMAIN image.manifest
  BY <1>1, UnderWay
<1>3. address \in Starts(image) /\ address \in SideOf(Current) /\ address \in Page
  BY <1>1, <1>2, BlockFacts DEF Current
<1>4. PartsDone(index)
  BY <1>2 DEF InstallInv
<1>5. ASSUME NEW k \in DOMAIN image.manifest, ForBoard(image.manifest[k]),
             SideOf(image.manifest[k]) = SideOf(Current), NEW q \in Span(image.manifest[k])
      PROVE  IF image.manifest[k].op = "mcu" THEN mcuFlash'[q] = Data(image.version)
             ELSE flash'[q] = Data(image.version)
  <2>1. k < index
    BY <1>1, <1>2, <1>5, ManifestFacts DEF Current
  <2>2. Written(image.manifest[k])
    BY <1>4, <1>5, <2>1 DEF PartsDone
  <2> QED
    BY <1>5, <2>1, <2>2 DEF PartsKept, Written
<1>6. ASSUME NEW c \in Commands(image), ForBoard(c), c.op = "flash",
             c.at < Unprotected <=> Current.at < Unprotected, NEW q \in Span(c)
      PROVE  flash'[q] = Data(image.version)
  <2>1. PICK k \in DOMAIN image.manifest : c = image.manifest[k]
    BY <1>6 DEF Commands
  <2>2. c.at \in Page
    BY <1>2, <1>6, <2>1, CommandFacts
  <2>3. SideOf(c) = SideOf(Current)
    BY <1>1, <1>3, <1>6, <2>2, PageNumbers DEF SideOf, UserSide
  <2> QED
    BY <1>5, <1>6, <2>1, <2>3
<1>7. ASSUME NEW c \in Commands(image), ForBoard(c), c.op = "mcu", Current.at >= Unprotected,
             NEW q \in Span(c)
      PROVE  mcuFlash'[q] = Data(image.version)
  <2>1. PICK k \in DOMAIN image.manifest : c = image.manifest[k]
    BY <1>7 DEF Commands
  <2>2. SideOf(c) = SideOf(Current)
    BY <1>7 DEF SideOf, UserSide
  <2> QED
    BY <1>5, <1>7, <2>1, <2>2
<1>8. address' = address
  BY DEF FinishWrite, WritePage, NextCommand, Halt
<1> QED
  BY <1>1, <1>3, <1>6, <1>7, <1>8 DEF WholeAt

\* The version block is completed.
LEMMA FinishWriteStep ==
  ASSUME OperationInv, InstallInv, FinishWrite
  PROVE  InstallInv'
<1>1. /\ pc \notin Resting /\ Operating /\ Reach = {address} /\ address \in Page
      /\ Reach \subseteq SideOf(Current)
  BY ReachFacts DEF FinishWrite, Resting, Operating, Reach
<1>2. Installing /\ image \in Images /\ index \in DOMAIN image.manifest
  BY <1>1, UnderWay
<1>3. /\ image' = image /\ Current.op = "finish" /\ address = Current.at /\ mcuFlash' = mcuFlash
      /\ address' = address /\ Intended = Block(image.version, FALSE)
  <2>1. image' = image /\ mcuFlash' = mcuFlash
    BY WriteFacts DEF run
  <2>2. Current.op = "finish" /\ address = Current.at /\ ~partial_install
    BY DEF FinishWrite, OperationInv, PlaceInv
  <2>3. address' = address
    BY DEF FinishWrite, WritePage, NextCommand, Halt
  <2>4. Intended = Block(image.version, FALSE)
    BY <2>2 DEF FinishWrite, Intended, Block
  <2> QED
    BY <2>1, <2>2, <2>3, <2>4
<1>4. PICK content \in {flash[address], Intended, Junk} : flash' = Filled({address}, content)
  BY WriteFacts
<1>5. PartsKept
  BY <1>1, <1>3, <1>4, FlashKept
<1>6. \A p \in Page : p # address => flash'[p] = flash[p]
  BY <1>4, FilledFacts
<1>7. InstalledIsWhole'
  <2>1. CASE flash'[address] = flash[address]
    <3>1. flash' = flash
      BY <1>4, <1>6, <2>1 DEF Filled, OperationInv, TypeOK
    <3> QED
      BY <1>3, <3>1, Untouched DEF InstallInv
  <2>2. CASE flash'[address] # flash[address]
    <3> SUFFICES ASSUME NEW p \in Page, flash'[p].holds = "complete"
                 PROVE  \E i \in Images : i.version = flash'[p].version /\ WholeAt(i, p)'
      BY DEF InstalledIsWhole
    <3>1. CASE p = address
      <4>1. flash'[address] \in {Intended, Junk}
        BY <1>1, <1>4, <2>2, FilledFacts
      <4>2. flash'[p].version = image.version
        BY <1>3, <3>1, <4>1 DEF Junk, Block
      <4>3. WholeAt(image, address)'
        BY <1>5, BeforeFinish
      <4>4. WholeAt(image, p)'
        BY <1>3, <3>1, <4>3 DEF WholeAt
      <4>5. PICK i : i = image
        OBVIOUS
      <4>6. WholeAt(i, p)'
        BY <1>3, <4>4, <4>5 DEF WholeAt
      <4> QED
        BY <1>2, <4>2, <4>5, <4>6
    <3>2. CASE p # address
      <4>1. flash'[p] = flash[p]
        BY <1>6, <3>2
      <4>2. p \notin SideOf(Current)
        BY <1>2, <1>3, <3>2, <4>1, OnlyBlock DEF InstallInv
      <4>3. PICK i \in Images : i.version = flash[p].version /\ WholeAt(i, p)
        BY <4>1 DEF InstallInv, InstalledIsWhole
      <4>4. SideOf(Current) \in {UserFlash, ProtectedFlash}
        BY DEF SideOf
      <4>5. \A q \in Page : q \in SideOf(Current) \/ flash'[q] = flash[q]
        BY <1>1, <1>6
      <4>6. WholeAt(i, p)'
        BY <1>3, <4>2, <4>3, <4>4, <4>5, OtherSideAt
      <4> QED
        BY <4>1, <4>3, <4>6
    <3> QED
      BY <3>1, <3>2
  <2> QED
    BY <2>1, <2>2
<1>8. CASE Halt
  BY <1>7, <1>8, Stopped DEF Halt
<1>9. CASE ~Halt
  <2>1. pc' = "command" /\ index' = index + 1
    BY <1>9 DEF FinishWrite, WritePage, NextCommand
  <2>2. ~ForBoard(Current) /\ Current.op # "start"
    BY <1>3 DEF ForBoard
  <2>3. \A p \in Page : flash'[p] = flash[p] \/ p \in SideOf(Current)
    BY <1>1, <1>6
  <2> QED
    BY <1>2, <1>3, <1>5, <1>7, <2>1, <2>2, <2>3, CommandDone
<1> QED
  BY <1>8, <1>9

\* The MCU's flash is erased.
LEMMA McuEraseStep ==
  ASSUME OperationInv, InstallInv, McuErase
  PROVE  InstallInv'
<1>1. pc = "mcu erase" /\ pc \notin Resting /\ flash' = flash /\ image' = image
  BY DEF McuErase, Resting, run
<1>2. Installing /\ InstalledIsWhole'
  BY <1>1, UnderWay, McuOperation
<1>3. CASE Halt
  BY <1>2, <1>3, Stopped DEF Halt
<1>4. CASE ~Halt
  <2>1. /\ mcuFlash' = [p \in McuPage |-> IF p \in Span(Current) THEN Erased ELSE mcuFlash[p]]
        /\ pc' = "mcu write" /\ address' = address /\ index' = index
    BY <1>4 DEF McuErase, Begin
  <2>2. PartsKept
    BY <1>1, <2>1, McuKept
  <2>3. Current' = Current /\ address = Current.at /\ Current.op = "mcu"
    BY <1>1, <2>1 DEF Current, OperationInv, PlaceInv
  <2>4. Current.at..address' - 1 = {}
    <3>1. address' = address /\ address \in Nat
      BY <2>1 DEF OperationInv, TypeOK
    <3> QED
      BY <2>3, <3>1
  <2>5. SoFar'
    BY <2>1, <2>3, <2>4 DEF SoFar
  <2> QED
    BY <1>1, <1>2, <2>1, <2>2, <2>5, SameCommand
<1> QED
  BY <1>3, <1>4

\* A page of the MCU's flash is written.
LEMMA McuWriteStep ==
  ASSUME OperationInv, InstallInv, McuWrite
  PROVE  InstallInv'
<1>1. pc = "mcu write" /\ pc \notin Resting /\ flash' = flash /\ image' = image
  BY DEF McuWrite, Resting, run
<1>2. Installing /\ InstalledIsWhole' /\ image \in Images /\ index \in DOMAIN image.manifest
  BY <1>1, UnderWay, McuOperation
<1>3. CASE Halt
  BY <1>2, <1>3, Stopped DEF Halt
<1>4. CASE ~Halt
  <2>1. /\ mcuFlash' = [mcuFlash EXCEPT ![address] = Data(image.version)]
        /\ pc' = "mcu write" /\ address' = address + 1 /\ index' = index
    BY <1>4 DEF McuWrite, Begin
  <2>2. Current' = Current /\ Current.op = "mcu" /\ ForBoard(Current) /\ Current.at <= address
        /\ address < End /\ address \in Nat /\ DOMAIN mcuFlash = McuPage
    BY <1>1, <2>1 DEF Current, McuWrite, OperationInv, PlaceInv, TypeOK
  <2>3. PICK a, e : a = Current.at /\ e = End
    OBVIOUS
  <2>4. a \in Nat /\ e \in Nat /\ Span(Current) = a..e - 1
    BY <1>2, <2>2, <2>3, PartFacts
  <2>5. address \in Span(Current) /\ Span(Current) \subseteq McuPage
    <3>1. address \in Span(Current)
      BY <2>2, <2>3, <2>4
    <3>2. Span(Current) \subseteq McuPage
      BY <1>2, <2>2, ManifestFacts DEF Current
    <3> QED
      BY <3>1, <3>2
  <2>6. PartsKept
    <3>1. \A q \in McuPage : q \in Span(Current) \/ mcuFlash'[q] = mcuFlash[q]
      BY <2>1, <2>2, <2>5
    <3> QED
      BY <1>1, <3>1, McuKept
  <2>7. ASSUME NEW q \in Current.at..address PROVE mcuFlash'[q] = Data(image.version)
    <3>1. CASE q = address
      BY <2>1, <2>2, <2>5, <3>1
    <3>2. CASE q # address
      <4>1. q \in a..address - 1 /\ q \in Span(Current)
        BY <2>2, <2>3, <2>4, <3>2
      <4>2. mcuFlash[q] = Data(image.version)
        BY <1>1, <1>2, <2>3, <4>1 DEF InstallInv, SoFar
      <4> QED
        BY <2>1, <2>2, <2>5, <3>2, <4>1, <4>2
    <3> QED
      BY <3>1, <3>2
  <2>8. address' - 1 = address
    <3>1. address \in Nat /\ address' = address + 1
      BY <2>1, <2>2
    <3> QED
      BY <3>1
  <2>9. SoFar'
    BY <1>1, <2>1, <2>2, <2>7, <2>8 DEF SoFar
  <2> QED
    BY <1>1, <1>2, <2>1, <2>6, <2>9, SameCommand
<1> QED
  BY <1>3, <1>4

\* A step that goes on to the next command without touching the flashes.
LEMMA GoOn ==
  ASSUME OperationInv, InstallInv, UNCHANGED <<flash, mcuFlash>>, image' = image, pc' = "command",
         index' = index + 1, image \in Images, index \in DOMAIN image.manifest, Installing,
         Current.op # "start", ForBoard(Current) => Written(Current)
  PROVE  InstallInv'
<1>1. InstalledIsWhole'
  BY Untouched DEF InstallInv
<1>2. PartsKept
  BY DEF PartsKept
<1> QED
  BY <1>1, <1>2, CommandDone DEF Written

\* A step that begins an operation.
LEMMA Beginning ==
  ASSUME OperationInv, InstallInv, Installing, UNCHANGED <<flash, mcuFlash>>, image' = image,
         index' = index, SoFar'
  PROVE  InstallInv'
<1>1. InstalledIsWhole'
  BY Untouched DEF InstallInv
<1>2. PartsKept
  BY DEF PartsKept
<1> QED
  BY <1>1, <1>2, SameCommand

\* A command is fetched.
LEMMA FetchStep ==
  ASSUME OperationInv, InstallInv,
         CheckBoard \/ Skip \/ BadPart \/ FlashPart \/ McuPart \/ StartManifest \/ FinishManifest
  PROVE  InstallInv'
<1>1. /\ Fetching /\ pc = "command" /\ UNCHANGED <<flash, mcuFlash>>
      /\ image' = image /\ update_verify' = update_verify
  BY DEF CheckBoard, Skip, BadPart, FlashPart, McuPart, StartManifest, FinishManifest, Fetching,
     flashes, run
<1>2. image \in Images /\ index \in DOMAIN image.manifest
  BY <1>1, FetchedCommand DEF OperationInv
<1>3. CASE update_verify
  BY <1>1, <1>3, Untouched, Stopped DEF InstallInv
<1>4. CASE ~update_verify
  <2>1. Installing
    BY <1>1, <1>4 DEF Installing
  <2>2. CASE Halt
    BY <1>1, <2>2, Untouched, Stopped DEF InstallInv, Halt
  <2>3. CASE NextCommand
    <3>1. Current.op # "start" /\ ~ForBoard(Current)
      BY <1>1, <1>4, <2>3 DEF CheckBoard, Skip, BadPart, FlashPart, McuPart, StartManifest,
         FinishManifest, ForBoard, Begin, NextCommand, Halt
    <3> QED
      BY <1>1, <1>2, <2>1, <2>3, <3>1, GoOn DEF NextCommand
  <2>4. CASE ~Halt /\ ~NextCommand
    <3>1. index' = index /\ pc' \notin {"write", "mcu write"}
      BY <1>4, <2>4 DEF CheckBoard, Skip, BadPart, FlashPart, McuPart, StartManifest, FinishManifest,
         Begin
    <3>2. SoFar'
      BY <3>1 DEF SoFar
    <3> QED
      BY <1>1, <2>1, <3>1, <3>2, Beginning
  <2> QED
    BY <2>2, <2>3, <2>4
<1> QED
  BY <1>3, <1>4

\* A sector-wise erasure is followed by the writing, and that by the next command.
LEMMA PartDoneStep ==
  ASSUME OperationInv, InstallInv, EraseDone \/ WriteDone \/ McuDone
  PROVE  InstallInv'
<1>1. pc \notin Resting /\ UNCHANGED <<flash, mcuFlash>> /\ image' = image
  BY DEF EraseDone, WriteDone, McuDone, Resting, flashes, run
<1>2. Installing /\ image \in Images /\ index \in DOMAIN image.manifest
  BY <1>1, UnderWay
<1>3. Current.op \in {"flash", "mcu"}
  BY DEF EraseDone, WriteDone, McuDone, OperationInv, PlaceInv
<1>4. PICK a, e : a = Current.at /\ e = End
  OBVIOUS
<1>5. a \in Nat /\ e \in Nat /\ Span(Current) = a..e - 1
  BY <1>2, <1>3, <1>4, PartFacts
<1>6. CASE EraseDone
  <2>1. pc' = "write" /\ index' = index /\ address' = a /\ Current' = Current
    BY <1>1, <1>4, <1>6 DEF EraseDone, Begin, Current
  <2>2. Current.at..address' - 1 = {}
    <3>1. address' = a /\ Current.at = a
      BY <1>4, <2>1
    <3> QED
      BY <1>5, <3>1
  <2>3. SoFar'
    BY <2>1, <2>2 DEF SoFar
  <2> QED
    BY <1>1, <1>2, <2>1, <2>3, Beginning
<1>7. CASE WriteDone \/ McuDone
  <2>1. pc' = "command" /\ index' = index + 1
    BY <1>7 DEF WriteDone, McuDone, NextCommand
  <2>2. address = e
    <3>1. address \in Nat /\ address <= e /\ address >= e
      BY <1>4, <1>7 DEF WriteDone, McuDone, OperationInv, PlaceInv, TypeOK
    <3> QED
      BY <1>5, <3>1
  <2>3. Written(Current)
    <3>1. CASE WriteDone
      BY <1>2, <1>4, <1>5, <2>2, <3>1 DEF WriteDone, InstallInv, SoFar, Written, OperationInv, PlaceInv
    <3>2. CASE McuDone
      BY <1>2, <1>4, <1>5, <2>2, <3>2 DEF McuDone, InstallInv, SoFar, Written, OperationInv, PlaceInv
    <3> QED
      BY <1>7, <3>1, <3>2
  <2> QED
    BY <1>1, <1>2, <1>3, <2>1, <2>3, GoOn
<1> QED
  BY <1>6, <1>7

\* Whatever fails, or when power goes, in the middle of an operation.
LEMMA FailStep ==
  ASSUME OperationInv, InstallInv, Fail
  PROVE  InstallInv'
<1>1. flash' \in Torn /\ mcuFlash' \in McuTorn /\ pc' \in {"halted", "off"}
  BY DEF Fail, Halt, PowerOff
<1>2. CASE UNCHANGED <<flash, mcuFlash>>
  BY <1>1, <1>2, Untouched, Stopped DEF InstallInv
<1>3. CASE pc \in {"mcu erase", "mcu write"}
  <2>1. flash' = flash
    BY <1>1, <1>3 DEF Torn
  <2> QED
    BY <1>1, <1>3, <2>1, McuOperation, Stopped
<1>4. CASE pc \notin {"mcu erase", "mcu write"} /\ flash' # flash
  <2>1. mcuFlash' = mcuFlash
    BY <1>1, <1>4 DEF McuTorn
  <2>2. Operating /\ pc # "finish write"
    BY <1>1, <1>4 DEF Torn, Operating
  <2>3. flash' = Filled(Reach, Junk)
    BY <1>1, <1>4 DEF Torn, Reach
  <2>4. Junk.holds # "complete" /\ address \in Reach
    BY <2>2, ReachFacts DEF Junk
  <2> QED
    BY <1>1, <2>1, <2>2, <2>3, <2>4, FlashOperation, Stopped
<1>5. CASE pc \notin {"mcu erase", "mcu write"} /\ flash' = flash
  BY <1>1, <1>2, <1>5 DEF McuTorn
<1> QED
  BY <1>3, <1>4, <1>5

\* At first the flash is the factory's: every block it has is complete, and so
\* are the parts.
LEMMA InstallInit == Init => InstallInv
<1> SUFFICES ASSUME Init PROVE InstallInv
  OBVIOUS
<1>1. PICK i \in Images : /\ flash = [p \in Page |-> Factory(i, p)]
                          /\ mcuFlash = [p \in McuPage |-> Data(i.version)]
  BY DEF Init
<1>2. ~Installing
  BY DEF Init, Installing
<1>3. ASSUME NEW c \in Commands(i), ForBoard(c), NEW q \in Span(c)
      PROVE  /\ c.op = "flash" => flash[q] = Data(i.version)
             /\ c.op = "mcu" => mcuFlash[q] = Data(i.version)
  <2>1. PICK k \in DOMAIN i.manifest : c = i.manifest[k]
    BY <1>3 DEF Commands
  <2>2. /\ c.op = "flash" => q \in Page
        /\ c.op = "mcu" => q \in McuPage
    BY <1>3, <2>1, ManifestFacts, Sides DEF SideOf
  <2>3. c.op = "flash" => q \notin Starts(i)
    BY <1>3, <2>1, ManifestFacts DEF Starts, Commands
  <2> QED
    BY <1>1, <1>3, <2>2, <2>3 DEF Factory
<1>4. InstalledIsWhole
  <2> SUFFICES ASSUME NEW p \in Page, flash[p].holds = "complete"
               PROVE  i.version = flash[p].version /\ WholeAt(i, p)
    BY DEF InstalledIsWhole
  <2>1. p \in Starts(i) /\ flash[p] = Block(i.version, FALSE)
    BY <1>1 DEF Factory, Data, Erased
  <2>2. i.version = flash[p].version
    BY <2>1 DEF Block
  <2> QED
    BY <1>3, <2>1, <2>2 DEF WholeAt
<1> QED
  BY <1>2, <1>4 DEF InstallInv

LEMMA InstallStep == OperationInv /\ InstallInv /\ [Next]_vars => InstallInv'
<1> SUFFICES ASSUME OperationInv, InstallInv, [Next]_vars PROVE InstallInv'
  OBVIOUS
<1>1. CASE \E i \in Images : Launch(i)
  <2>1. UNCHANGED <<flash, mcuFlash>> /\ update_verify'
    BY <1>1 DEF Launch, OperationInv, VerifyInv
  <2> QED
    BY <2>1, Untouched, Stopped DEF InstallInv
<1>2. CASE Refuse \/ Finish \/ StopEarly \/ SwitchOff
  <2>1. UNCHANGED <<flash, mcuFlash>> /\ pc' \in {"off", "halted", "done"}
    BY <1>2 DEF Refuse, Finish, StopEarly, SwitchOff, Halt, PowerOff, flashes
  <2> QED
    BY <2>1, Untouched, Stopped DEF InstallInv
<1>3. CASE Confirm
  <2>1. UNCHANGED <<flash, mcuFlash>> /\ image' = image /\ index' = 1 /\ pc' = "command"
    BY <1>3 DEF Confirm, Fetched
  <2>2. \A k \in DOMAIN image'.manifest : ~(k < index')
    <3>1. \A k \in DOMAIN image.manifest : k \in Nat \ {0}
      BY Numbered DEF OperationInv, VerifyInv
    <3> QED
      BY <2>1, <3>1
  <2>3. PartsDone(index)' /\ BlocksGone(index)' /\ SoFar'
    BY <2>1, <2>2 DEF PartsDone, BlocksGone, Open, SoFar
  <2> QED
    BY <2>1, <2>3, Untouched DEF InstallInv
<1>4. CASE UNCHANGED vars
  <2>1. UNCHANGED <<flash, mcuFlash, image, index, address, pc, update_verify>>
    BY <1>4 DEF vars, flashes, run
  <2>2. CASE Installing
    <3>1. SoFar'
      BY <2>1, <2>2 DEF InstallInv, SoFar, Current
    <3> QED
      BY <2>1, <2>2, <3>1, Beginning
  <2>3. CASE ~Installing
    BY <2>1, <2>3, Untouched DEF InstallInv, Installing
  <2> QED
    BY <2>2, <2>3
<1> QED
  BY <1>1, <1>2, <1>3, <1>4, FetchStep, EraseStep, StartWriteStep, WriteDataStep, FinishWriteStep,
     McuEraseStep, McuWriteStep, PartDoneStep, FailStep DEF Next, Step

\* Whichever images are installed one after another, whatever fails and whenever
\* power goes: a version block that says complete stands for parts that are all
\* of its version (manifest.h:41).
THEOREM CompleteMeansWhole == Spec => []InstalledIsWhole
<1>1. InstallInv => InstalledIsWhole
  BY DEF InstallInv
<1> QED
  BY OperationInit, OperationStep, InstallInit, InstallStep, <1>1, PTL DEF Spec
=============================================================================
