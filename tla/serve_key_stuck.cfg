SPECIFICATION Spec
CONSTANTS
  c1 = c1
  c2 = c2
  c3 = c3
  artist = artist
  assistant = assistant
  narrator = narrator
  Unset = Unset
  Nobody = Nobody
  dotenv = dotenv
  Configurations <- WithOrWithoutKey
  Calls <- TwoCalls
  Agents <- AllAgents
  OwnKey <- Owning
  Modules <- Imported
SYMMETRY Symmetry
CHECK_DEADLOCK FALSE
INVARIANTS KeyRestored
