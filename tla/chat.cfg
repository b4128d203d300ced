SPECIFICATION MCSpec
CONSTANTS
  Turns = {t1, t2}
  Actions = {a1}
  Wishes <- MCWishes
  MaxConvs = 2
  None = None
  Watched = {"peer"}
  MaxEvents = 4
  NoNote = NoNote
  Images = {i1}
  Clips = {c1, c2}
  Takes = {k1, k2}
  MaxSent = 2
  Nobody = Nobody
INVARIANTS OneRunAtATime StopStops PanelCatchesUp ComposerKeeps
PROPERTIES ComesToRest
CHECK_DEADLOCK FALSE
