SPECIFICATION MCSpec
CONSTANTS
  m1 = m1
  m2 = m2
  m3 = m3
  m4 = m4
  m5 = m5
  m6 = m6
  Plan <- BookAskMail
  Requests <- Six
  Policies = {"confirm", "auto"}
  MaxInFlight = 2
  MaxCrashes = 1
  Faults = {"write", "step"}
INVARIANTS WritesNeedConsent RunsOnceToTheEnd
PROPERTIES Settled
CHECK_DEADLOCK FALSE
