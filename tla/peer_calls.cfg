SPECIFICATION MCSpec
CONSTANTS
  t1 = t1
  t2 = t2
  sam = sam
  kim = kim
  Turns <- TwoTurns
  Peers <- SamAndKim
  OwnerKnown <- OnlySam
  SameBridge <- OnlySam
  Cap = 1
  MaxInFlight = 2
  MaxDays = 2
  MaxEvents = 2
CHECK_DEADLOCK FALSE
INVARIANTS CapIsKept AskedAtMostThrice
PROPERTIES EveryTurnEnds
