SPECIFICATION PhoneSpec
CONSTANTS
  Numbers = {n1, n2}
  NoNumber = none
  MaxAttempts = 1
INVARIANT VerifiedNumberWasProved
CHECK_DEADLOCK FALSE
