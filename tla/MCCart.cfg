SPECIFICATION SafeSpec
CONSTANTS
  Bits = 2
  BufSize = 2
  HeaderSize = 1
  Sectors = 2
  Transfers = 2
  Filler = Filler
  Other = Other
  Byte <- MCByte
  Images <- MCImages
  BankSize = 4
  MinSize = 2
  MaxSize = 9
  Luck = 2
INVARIANTS SafeTypeOK OverWhenNotBusy LoadsImage ProgramInPlace FlashTestPasses
PROPERTIES TransfersInOrder TransferEnds FlashOnlyByCommand
