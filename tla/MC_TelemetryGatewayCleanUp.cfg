SPECIFICATION Spec
CONSTANTS
  k1 = k1
  c1 = c1
  s1 = s1
  s2 = s2
  Keys <- MCKeys
  Calls <- MCCalls
  KeyOf <- MCKeyOf
  Clients <- MCClients
  ClientOf <- MCClientOf
  MaxFrames = 0
INVARIANT
  UnsubscribeAndDisconnectCleanUp
CHECK_DEADLOCK FALSE
