SPECIFICATION MCSpec
CONSTANTS
  c1 = c1
  c2 = c2
  c3 = c3
  artist = artist
  assistant = assistant
  narrator = narrator
  Unset = Unset
  Nobody = Nobody
  dotenv = dotenv
  Configurations <- WithOrWithoutKey
  Calls <- ThreeCalls
  Agents <- AllAgents
  OwnKey <- Owning
  Modules <- Imported
  Tenants <- TwoOwners
  Assistants <- ThreeAssistants
  Own <- OwnAssistant
  Named <- NamedBy
  Messages <- SomeMessages
  Settings <- SomeSettings
  MaxSteps = 3
  MaxTurns = 3
  MaxRestarts = 1
  MaxEdits = 1
  Requests <- SomeRequests
  Sites <- SomeSites
  Rosters <- SomeRosters
  Preferred = "ann"
  NoOwner = NoOwner
  Limit = 1
  Window = 2
  MaxBuckets = 2
  Slots = {1, 2}
  MaxRequests = 4
  MaxClock = 3
  Texts <- FewWords
  Contexts <- SomeContexts
  Replies <- SomeReplies
SYMMETRY Symmetry
CHECK_DEADLOCK FALSE
INVARIANTS UnlistedOnlyIfRaced KeyComesBack
  CallsAllowed PeerChosen PlanFollowed WrittenOnce
  AnsweredOnce LimitHolds RoutedAsTold
