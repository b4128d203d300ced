SPECIFICATION MCSpec
CONSTANTS
  Slots <- MCSlots
  SelfFree <- MCSelfFree
  MaxHops = 4
  MaxFaults = 2
  People = {p1, p2}
  Nick = nick
  Addresses = {a1, a2}
  Edits = {e1, e2}
  MaxEdits = 3
  Mails = {m1}
  MaxStops = 1
  Peer = peer
  Ids = {i1}
  Nobody = Nobody
  Owners = {o1, o2}
  Consents = {c1, c2}
  Calls = {k1, k2}
  MaxRestarts = 1
  Nothing = Nothing
  Torn = Torn
  Ambient = Ambient
INVARIANTS OneHoldPerCalendar BookedOrNothing BookIsKept SentAsShown AccountIsRight
PROPERTIES NegotiationEnds
CHECK_DEADLOCK FALSE
