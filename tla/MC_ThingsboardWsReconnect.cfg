SPECIFICATION WsFairSpec
CONSTANTS
  k1 = k1
  k2 = k2
  a1 = a1
  a2 = a2
  b1 = b1
  b2 = b2
  Keys <- MCKeys
  Calls <- MCCalls
  KeyOf <- MCKeyOf
  MaxFrames = 0
PROPERTY
  DropIsRecovered
CHECK_DEADLOCK FALSE
