SPECIFICATION MCSpec
CONSTANTS
  DayLength = 6
  Windows <- MCWindows
  BusyLists <- MCBusyLists
  Durations = {1, 2}
  HoursOf <- MCHours
  Zones <- MCZones
  LastDay = 366
  Agents = {1, 2, 3}
  Tries = 2
  Quorums = {2}
  Limit = 3
  Calls = {1, 2, 3}
  Listings <- MCListings
  PageSize = 2
  Cap = 3
  Ttl = 1
  MaxTime = 1
  None = None
  Messages <- MCMessages
  Extractions <- MCExtractions
  NoSnapshot = NoSnapshot
  NoCall = NoCall
  NoWalk = NoWalk
  NoPrice = NoPrice
  NoModel = NoModel
  Nothing = Nothing
  Taxonomy <- MCTaxonomy
  TagsOf <- MCTagsOf
  SaidOf <- MCSaidOf
  Stopwords <- MCStopwords
  Brands <- MCBrands
  Catalogs <- MCCatalogs
  Queries <- MCQueries
  FacetSets <- MCFacets
  BrowseTags <- MCBrowseTags
  Limits <- MCLimits
  PageDefault = 2
  PageMost = 3
INVARIANTS EarliestFreeSlot WorkingHoursKept BooksWhatWasRead CatalogIsCurrent SearchIsStable FanoutKeepsMode
PROPERTIES NoCallAfterClose SearchesEnd
CHECK_DEADLOCK FALSE
