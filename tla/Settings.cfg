SPECIFICATION Spec
CONSTANTS
  Inputs <- MCInputs
  OutOfRange <- MCOutOfRange
  Bits <- MCBits
  BitsOf <- MCBitsOf
  LineBit <- MCLineBit
INVARIANT TypeOK
INVARIANT SwitchesWin
INVARIANT FullAddressWins
INVARIANT FlagsAsSpelled
INVARIANT PasswordOrigin
INVARIANT WrittenOrWarned
INVARIANT OverridesWin
