SPECIFICATION Spec
CONSTANTS
  k1 = k1
  c1 = c1
  c2 = c2
  s1 = s1
  s2 = s2
  s3 = s3
  Keys <- MCKeys
  Calls <- MCCalls
  KeyOf <- MCKeyOf
  Clients <- MCClients
  ClientOf <- MCClientOf
  MaxFrames = 0
INVARIANTS
  ReservationsExclude
  StoredSubscriptionsStream
  LeakOnlyIfOvertaken
CHECK_DEADLOCK FALSE
