------------------------------ MODULE Updater -------------------------------
(***************************************************************************)
(* The firmware updater (software/userland/src/updater/main.c), run from a *)
(* ROM image that holds a manifest of commands and the parts to install in *)
(* the cartridge's SPI flash and in the MCU's.  The manifest is run twice, *)
(* first to verify the image, then to install it.  The console may lose    *)
(* power at any step, flash operations may fail, and the user may start    *)
(* again with the same image or with another.                              *)
(*                                                                         *)
(* Flash is counted in the pages that are written at once (256 bytes, 128  *)
(* in the MCU); a page holds data of the version it belongs to.            *)
(***************************************************************************)
EXTENDS Integers, Sequences

CONSTANTS Pages, McuPages,   \* the sizes of the two flashes
          SectorPages,       \* pages that are erased together
          Unprotected,       \* the first page that the flash cannot protect
          Board,             \* this cartridge's revision
          Images,            \* the update images there are
          Trouble            \* bound: power losses and failing operations

Page == 0..Pages - 1
McuPage == 0..McuPages - 1
AnyBoard == -1

\* A manifest command.
Command ==
  [op : {"start", "finish"}, at : Page]
    \cup [op : {"flash"}, at : Page, len : 1..Pages, board : Int, good : BOOLEAN]
    \cup [op : {"mcu"}, at : McuPage, len : 1..McuPages, board : Int, good : BOOLEAN]
    \cup [op : {"check"}, boards : SUBSET Int]

Commands(i) == {i.manifest[k] : k \in DOMAIN i.manifest}

ASSUME SizeAssumption ==
  /\ Pages \in Nat /\ McuPages \in Nat /\ Trouble \in Nat
  /\ SectorPages \in Nat \ {0} /\ Unprotected \in Page
ASSUME ImageAssumption ==
  \A i \in Images :
    i.version \in Nat /\ Commands(i) \subseteq Command /\ i.manifest \in Seq(Commands(i))

\* What a page may hold: data of a version, or its version block.
Erased == [version |-> -1, holds |-> "nothing"]
Junk == [version |-> -1, holds |-> "junk"]
Data(v) == [version |-> v, holds |-> "data"]
Block(v, partial) == [version |-> v, holds |-> IF partial THEN "partial" ELSE "complete"]
IsBlock(content) == content.holds \in {"partial", "complete"}

Sector(p) == {q \in Page : q \div SectorPages = p \div SectorPages}

ForBoard(c) == c.op \in {"flash", "mcu"} /\ c.board \in {AnyBoard, Board}
Span(c) == c.at..c.at + c.len - 1
Starts(i) == {c.at : c \in {c \in Commands(i) : c.op = "start"}}
IsFactory(i) == \E p \in Starts(i) : p < Unprotected

\* The user's part of the cartridge: the unprotected flash, and the MCU.
UserSide(c) == c.op = "mcu" \/ c.at >= Unprotected

\* The pages that installing a part may change.
Touched(c) ==
  IF c.op = "mcu" THEN Span(c)
  ELSE {p \in Page : \E q \in Span(c) : p \div SectorPages = q \div SectorPages}

\* A manifest as the repository's are written: on each side of the boundary a
\* START_MANIFEST comes before the parts and the FINISH_MANIFESTs, if any, after
\* them; a part lies on one side, off the version blocks and the other parts.
WellFormed(i) ==
  \A k \in DOMAIN i.manifest :
    LET c == i.manifest[k]
    IN /\ c.op = "finish" => c.at \in Starts(i)
       /\ ForBoard(c) =>
            /\ Span(c) \subseteq IF c.op = "mcu" THEN McuPage
                                ELSE {p \in Page : p >= Unprotected <=> c.at >= Unprotected}
            /\ \E j \in 1..k - 1 : i.manifest[j].op = "start"
                                  /\ (UserSide(i.manifest[j]) <=> UserSide(c))
            /\ \A j \in DOMAIN i.manifest :
                 LET d == i.manifest[j]
                 IN /\ d.op = "start" =>
                         /\ c.op = "flash" => d.at \notin Span(c)
                         /\ (UserSide(d) <=> UserSide(c)) => j < k
                    /\ d.op = "finish" /\ (UserSide(d) <=> UserSide(c)) => k < j
                    /\ ForBoard(d) /\ d.op = c.op /\ j # k => Touched(c) \cap Span(d) = {}

\* The images agree on where each side has its version block, and the boundary
\* is one between sectors.
ASSUME ManifestAssumption ==
  /\ Unprotected % SectorPages = 0
  /\ \A i \in Images : WellFormed(i)
  /\ \A i, j \in Images : \A p \in Starts(i), q \in Starts(j) :
       (p >= Unprotected <=> q >= Unprotected) => p = q

VARIABLES
  flash, mcuFlash,   \* what the pages hold
  locked,            \* the flash's status register protects pages below Unprotected
  mcu,               \* what the MCU runs
  pc,
  image,             \* the image that is running
  update_verify,     \* the manifest is run for the first time
  index,             \* the command
  address,           \* the page to erase or write next
  partial_install,   \* the field of the manifest's version block
  mcu_restarted,
  flash_version_address,
  trouble

flashes == <<flash, mcuFlash, locked>>
run == <<image, update_verify>>
memory == <<partial_install, mcu_restarted, flash_version_address>>
vars == <<flashes, mcu, pc, run, index, address, memory, trouble>>

NoImage == [version |-> -1, manifest |-> << >>]

\* The flash as the factory writes it (manifest_to_bin.py).
Factory(i, p) ==
  IF p \in Starts(i) THEN Block(i.version, FALSE)
  ELSE IF \E c \in Commands(i) : c.op = "flash" /\ ForBoard(c) /\ p \in Span(c)
       THEN Data(i.version) ELSE Erased

\* A new cartridge.
Init ==
  /\ \E i \in {i \in Images : IsFactory(i)} :
       /\ flash = [p \in Page |-> Factory(i, p)]
       /\ mcuFlash = [p \in McuPage |-> Data(i.version)]
  /\ locked \in BOOLEAN /\ mcu = "application"
  /\ pc = "off" /\ image = NoImage /\ update_verify = TRUE /\ index = 1 /\ address = 0
  /\ partial_install = FALSE /\ mcu_restarted = FALSE /\ flash_version_address = 0
  /\ trouble = 0

Current == image.manifest[index]
Fetching == pc = "command" /\ index <= Len(image.manifest)
Fetched == pc = "command" /\ index > Len(image.manifest)

NextCommand == pc' = "command" /\ index' = index + 1 /\ UNCHANGED address
Begin(operation, p) == pc' = operation /\ address' = p /\ UNCHANGED index
Halt == pc' = "halted" /\ UNCHANGED <<index, address>>

-----------------------------------------------------------------------------
(* main.                                                                   *)

\* The user starts an updater, from the regular boot loader, which locks the
\* flash, or from the factory one, which does not.
Launch(i) ==
  /\ pc = "off"
  /\ image' = i
  /\ locked' \in {TRUE, locked}
  /\ pc' = "command"
  /\ UNCHANGED <<flash, mcuFlash, mcu, update_verify, index, address, memory, trouble>>

\* A lower version than the installed one, unless that is the factory's.
Downgrade ==
  LET installed == flash[flash_version_address]
  IN /\ IsBlock(installed) /\ image.version < installed.version
     /\ flash_version_address >= Unprotected

\* The image is verified, and refused.
Refuse ==
  /\ Fetched /\ update_verify /\ Downgrade
  /\ Halt
  /\ UNCHANGED <<flashes, mcu, run, memory, trouble>>

\* Mutants: the flash stays locked; the image is not verified first.
ConfirmLocked ==
  /\ Fetched /\ update_verify /\ ~Downgrade
  /\ update_verify' = FALSE /\ index' = 1
  /\ UNCHANGED <<flashes, mcu, pc, image, address, memory, trouble>>
ConfirmUnverified ==
  /\ pc = "command" /\ index = 1 /\ update_verify
  /\ update_verify' = FALSE
  /\ UNCHANGED <<flashes, mcu, pc, image, index, address, memory, trouble>>

\* The image is verified and the user presses A: a factory image unlocks the
\* flash, and the manifest is run again.
Confirm ==
  /\ Fetched /\ update_verify /\ ~Downgrade
  /\ update_verify' = FALSE /\ index' = 1
  /\ locked' = (locked /\ flash_version_address >= Unprotected)
  /\ UNCHANGED <<flash, mcuFlash, mcu, pc, image, address, memory, trouble>>

Finish ==
  /\ Fetched /\ ~update_verify
  /\ pc' = "done"
  /\ UNCHANGED <<flashes, mcu, run, index, address, memory, trouble>>

\* The updater may stop until the user confirms: it does not know the flash chip,
\* the manifest is damaged, or, at any time, the low battery NMI comes.
StopEarly ==
  /\ update_verify /\ pc = "command"
  /\ Halt
  /\ UNCHANGED <<flashes, mcu, run, memory, trouble>>

-----------------------------------------------------------------------------
(* The commands of the manifest.                                           *)

CheckBoard ==
  /\ Fetching /\ Current.op = "check"
  /\ IF Board \in Current.boards THEN NextCommand ELSE Halt
  /\ UNCHANGED <<flashes, mcu, run, memory, trouble>>

\* A part for another board.
Skip ==
  /\ Fetching /\ Current.op \in {"flash", "mcu"} /\ ~ForBoard(Current)
  /\ NextCommand
  /\ UNCHANGED <<flashes, mcu, run, memory, trouble>>

\* The part's checksum is wrong.
BadPart ==
  /\ Fetching /\ ForBoard(Current) /\ ~Current.good
  /\ Halt
  /\ UNCHANGED <<flashes, mcu, run, memory, trouble>>

FlashPart ==
  /\ Fetching /\ Current.op = "flash" /\ ForBoard(Current) /\ Current.good
  /\ IF update_verify THEN NextCommand
     ELSE Begin("erase", Current.at - (Current.at % SectorPages))
  /\ UNCHANGED <<flashes, mcu, run, memory, trouble>>

\* The first part for the MCU restarts it in its boot loader, when verifying
\* as well.
McuPart ==
  /\ Fetching /\ Current.op = "mcu" /\ ForBoard(Current) /\ Current.good
  /\ mcu' = IF mcu_restarted THEN mcu ELSE "boot loader"
  /\ mcu_restarted' = TRUE
  /\ IF update_verify THEN NextCommand ELSE Begin("mcu erase", Current.at)
  /\ UNCHANGED <<flashes, run, partial_install, flash_version_address, trouble>>

\* Mutant: the field keeps the value the verification left in it.
StartManifestAsIs ==
  /\ Fetching /\ Current.op = "start"
  /\ flash_version_address' = Current.at
  /\ IF update_verify THEN NextCommand ELSE Begin("start erase", Current.at)
  /\ UNCHANGED <<flashes, mcu, run, partial_install, mcu_restarted, trouble>>

StartManifest ==
  /\ Fetching /\ Current.op = "start"
  /\ partial_install' = TRUE
  /\ flash_version_address' = Current.at
  /\ IF update_verify THEN NextCommand ELSE Begin("start erase", Current.at)
  /\ UNCHANGED <<flashes, mcu, run, mcu_restarted, trouble>>

\* Mutant: without its break the case goes on into the next one.
FinishManifestFallsThrough ==
  /\ Fetching /\ Current.op = "finish"
  /\ partial_install' = FALSE
  /\ IF update_verify THEN pc' = "command" /\ index' = index + 2 /\ UNCHANGED address
     ELSE Begin("finish write", Current.at)
  /\ UNCHANGED <<flashes, mcu, run, mcu_restarted, flash_version_address, trouble>>

FinishManifest ==
  /\ Fetching /\ Current.op = "finish"
  /\ partial_install' = FALSE
  /\ IF update_verify THEN NextCommand ELSE Begin("finish write", Current.at)
  /\ UNCHANGED <<flashes, mcu, run, mcu_restarted, flash_version_address, trouble>>

-----------------------------------------------------------------------------
(* Flash operations.  A locked page ignores them, and they seem to succeed.*)

Writable(p) == ~(locked /\ p < Unprotected)
Filled(pages, content) == [p \in Page |-> IF p \in pages /\ Writable(p) THEN content ELSE flash[p]]

\* Programming clears bits: over anything but an erased page, or a block of
\* which just the last field is to be cleared, it makes junk.
Programmed(old, new) ==
  CASE old \in {Erased, new} -> new
    [] old = Block(new.version, TRUE) /\ new = Block(new.version, FALSE) -> new
    [] OTHER -> Junk

Judge(expected, result) ==
  /\ trouble' = IF result = expected THEN trouble ELSE trouble + 1
  /\ trouble' <= Trouble

\* A page is written, well or badly, and read back: the update goes on only
\* with what was intended.
WritePage(new, next) ==
  LET expected == IF Writable(address) THEN Programmed(flash[address], new) ELSE flash[address]
  IN \E result \in {expected, Junk} :
       /\ Judge(expected, result)
       /\ flash' = Filled({address}, result)
       /\ IF flash'[address] = new THEN next ELSE Halt
       /\ UNCHANGED <<mcuFlash, locked, mcu, run, memory>>

StartErase ==
  /\ pc = "start erase"
  /\ flash' = Filled(Sector(address), Erased)
  /\ Begin("start write", address)
  /\ UNCHANGED <<mcuFlash, locked, mcu, run, memory, trouble>>

StartWrite  == pc = "start write" /\ WritePage(Block(image.version, partial_install), NextCommand)
FinishWrite == pc = "finish write" /\ WritePage(Block(image.version, partial_install), NextCommand)

\* The end of a part's pages.
End == Current.at + Current.len

EraseSector ==
  /\ pc = "erase" /\ address < End
  /\ flash' = Filled(Sector(address), Erased)
  /\ Begin("erase", address + SectorPages)
  /\ UNCHANGED <<mcuFlash, locked, mcu, run, memory, trouble>>

EraseDone ==
  /\ pc = "erase" /\ address >= End
  /\ Begin("write", Current.at)
  /\ UNCHANGED <<flashes, mcu, run, memory, trouble>>

WriteData ==
  /\ pc = "write" /\ address < End
  /\ WritePage(Data(image.version), Begin("write", address + 1))

WriteDone ==
  /\ pc = "write" /\ address >= End
  /\ NextCommand
  /\ UNCHANGED <<flashes, mcu, run, memory, trouble>>

\* The MCU's boot loader erases and writes; the application does not answer.
McuErase ==
  /\ pc = "mcu erase"
  /\ IF mcu = "boot loader"
     THEN /\ mcuFlash' = [p \in McuPage |-> IF p \in Span(Current) THEN Erased ELSE mcuFlash[p]]
          /\ Begin("mcu write", address)
     ELSE Halt /\ UNCHANGED mcuFlash
  /\ UNCHANGED <<flash, locked, mcu, run, memory, trouble>>

McuWrite ==
  /\ pc = "mcu write" /\ address < End
  /\ \E result \in {Data(image.version), Junk} :
       /\ Judge(Data(image.version), result)
       /\ mcuFlash' = [mcuFlash EXCEPT ![address] = result]
       /\ IF result = Data(image.version) THEN Begin("mcu write", address + 1) ELSE Halt
  /\ UNCHANGED <<flash, locked, mcu, run, memory>>

\* The option bytes are set and the MCU restarted.
McuDone ==
  /\ pc = "mcu write" /\ address >= End
  /\ mcu' = "application"
  /\ NextCommand
  /\ UNCHANGED <<flashes, run, memory, trouble>>

-----------------------------------------------------------------------------
(* What goes wrong.                                                        *)

\* What an operation leaves that does not end.
Torn ==
  CASE pc = "start erase" \/ (pc = "erase" /\ address < End) -> {flash, Filled(Sector(address), Junk)}
    [] pc = "start write" \/ (pc = "write" /\ address < End) -> {flash, Filled({address}, Junk)}
    [] OTHER -> {flash}
McuTorn ==
  CASE pc = "mcu erase" ->
         {mcuFlash, [p \in McuPage |-> IF p \in Span(Current) THEN Junk ELSE mcuFlash[p]]}
    [] pc = "mcu write" /\ address < End ->
         {mcuFlash, [p \in McuPage |-> IF p = address THEN Junk ELSE mcuFlash[p]]}
    [] OTHER -> {mcuFlash}

\* Without power the updater forgets everything, and the MCU that it is in its
\* boot loader, unless it runs on its battery.
PowerOff ==
  /\ pc' = "off" /\ image' = NoImage /\ update_verify' = TRUE /\ index' = 1 /\ address' = 0
  /\ partial_install' = FALSE /\ mcu_restarted' = FALSE /\ flash_version_address' = 0
  /\ mcu' \in {mcu, "application"}

Fail ==
  /\ pc \notin {"off", "halted", "done"} /\ trouble < Trouble
  /\ trouble' = trouble + 1
  /\ flash' \in Torn /\ mcuFlash' \in McuTorn
  /\ (Halt /\ UNCHANGED <<mcu, run, memory>>) \/ PowerOff
  /\ UNCHANGED locked

SwitchOff ==
  /\ pc \in {"halted", "done"}
  /\ PowerOff
  /\ UNCHANGED <<flashes, trouble>>

Step ==
  \/ Refuse \/ Confirm \/ Finish
  \/ CheckBoard \/ Skip \/ BadPart \/ FlashPart \/ McuPart \/ StartManifest \/ FinishManifest
  \/ StartErase \/ StartWrite \/ FinishWrite \/ EraseSector \/ EraseDone \/ WriteData \/ WriteDone
  \/ McuErase \/ McuWrite \/ McuDone

Next == Step \/ (\E i \in Images : Launch(i)) \/ StopEarly \/ Fail \/ SwitchOff

Spec == Init /\ [][Next]_vars /\ WF_vars(Step)

-----------------------------------------------------------------------------
(* Properties.                                                             *)

Content == [version : {-1} \cup {i.version : i \in Images},
            holds : {"nothing", "junk", "data", "partial", "complete"}]

\* Every variable has its type; the command counter stays in the manifest.
TypeOK ==
  /\ flash \in [Page -> Content] /\ mcuFlash \in [McuPage -> Content]
  /\ {locked, update_verify, partial_install, mcu_restarted} \subseteq BOOLEAN
  /\ mcu \in {"application", "boot loader"}
  /\ pc \in {"off", "command", "start erase", "start write", "erase", "write", "mcu erase",
             "mcu write", "finish write", "halted", "done"}
  /\ image \in Images \cup {NoImage} /\ index \in 1..Len(image.manifest) + 1
  /\ address \in Nat /\ flash_version_address \in Page
  /\ trouble \in 0..Trouble

\* The parts of image i that the version block at page p answers for: those on
\* its side of the protected area, and for the user's side the MCU's.
WholeAt(i, p) ==
  /\ p \in Starts(i)
  /\ \A c \in Commands(i) :
       /\ ForBoard(c) /\ c.op = "flash" /\ (c.at < Unprotected <=> p < Unprotected)
            => \A q \in Span(c) : flash[q] = Data(i.version)
       /\ ForBoard(c) /\ c.op = "mcu" /\ p >= Unprotected
            => \A q \in Span(c) : mcuFlash[q] = Data(i.version)

\* partial_install: "0x00 if install successful, non-0x00 if partial"
\* (manifest.h:41): whenever power goes, whatever failed and whichever images
\* were tried one after another, a version block that says complete stands for
\* parts that are all of that version.
InstalledIsWhole ==
  \A p \in Page :
    flash[p].holds = "complete"
      => \E i \in Images : i.version = flash[p].version /\ WholeAt(i, p)

\* Nothing is erased or written for an image of which any part this board
\* needs is bad, wherever in the manifest it comes (main.c:97-106, 478, 531).
NothingFromBadImage ==
  [][(\E c \in Commands(image) : ForBoard(c) /\ ~c.good) => UNCHANGED <<flash, mcuFlash>>]_vars

\* Whatever earlier attempts have left in the flashes, an installation during
\* which nothing fails is completed (main.c:108-330, 525-531).
RetrySucceeds == (pc = "command" /\ ~update_verify /\ trouble = Trouble) ~> pc = "done"
=============================================================================
