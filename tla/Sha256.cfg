\* Blocks of four bytes, lengths of two, messages of up to eleven bytes.
SPECIFICATION HashSpec
CONSTANTS
  Byte <- MCByte
  Block = 4
  LengthBytes = 2
  Encoded <- MCEncoded
  Inputs <- MCInputs
  MaxTotal = 11
INVARIANTS HashTypeOK NothingLost OneShotsExact
PROPERTIES ImplementsDigest
CHECK_DEADLOCK FALSE
