SPECIFICATION Spec
CONSTANTS
  Mask = 63
  Watched <- MCWatched
  Erased = Erased
  Other = Other
  Word <- MCWord
  Operations <- AllOperations
  Erasable <- MCWatched
INVARIANT Mirror
