SPECIFICATION Spec
CONSTANTS
  k1 = k1
  c1 = c1
  s1 = s1
  s2 = s2
  Keys <- MCKeys
  Calls <- MCCalls
  KeyOf <- MCKeyOf
  Clients <- MCClients
  ClientOf <- MCClientOf
  MaxFrames = 1
PROPERTIES
  ReservationsSettle
  SessionEndClosesSocket
CHECK_DEADLOCK FALSE
