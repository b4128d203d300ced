SPECIFICATION Spec
CONSTANTS
  Slots <- MCSlots
  SelfFree <- MCSelfFree
  MaxHops = 4
  MaxFaults = 0
INVARIANTS ConvergedIsBooked
CHECK_DEADLOCK FALSE
