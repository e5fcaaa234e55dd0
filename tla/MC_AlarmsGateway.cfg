SPECIFICATION Spec
CONSTANTS
  k1 = k1
  c1 = c1
  s1 = s1
  s2 = s2
  Keys <- MCKeys
  Calls <- MCCalls
  KeyOf <- MCKeyOf
  Clients <- MCClients
  ClientOf <- MCClientOf
  MaxChanges = 2
  MaxPolls = 2
INVARIANTS
  TypeOK
  NoFrameTwice
  SeenWasSent
PROPERTIES
  OrphansOnlyByLateStart
  AlarmReachesSubscriber
CHECK_DEADLOCK FALSE
