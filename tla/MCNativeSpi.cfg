\* The native-mode command engine: every interleaving of console, DMA,
\* interrupt handlers and main loop, with resets at any time.
SPECIFICATION Spec
CONSTANTS
  Cmd <- MCCmd
  RxLen <- MCRxLen
  TxLen <- MCTxLen
  Echo <- MCEcho
  HighIsFF <- MCHighIsFF
  ModeOf <- MCModeOf
  Unknown = "UNKNOWN"
  ArgByte <- MCArgByte
  FifoDepth = 4
INVARIANTS
  TypeOK
  OneOwner
  OneTransmitter
  InSync
PROPERTIES
  BuffersStable
  ExactlyOnce
  EveryCommandCompletes
