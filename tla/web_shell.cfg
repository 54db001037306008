\* The shell and what pages share, one component at a time.
\* Users may stop, and the bounds of what they do are reached.
SPECIFICATION WebSpec
CONSTANTS
  Focus = {"browse", "lists", "notify", "session", "lookup", "dropdown", "charts", "collections"}
  BrowseEntities = {"datasets", "people"}
  TiledEntity = "datasets"
  Groups <- MCGroups
  Elements <- MCElements
  MaxTrailLength = 2
  ChunkSize = 2
  MaxPending = 2
  ListUrns = {"p1", "p2", "p3", "d1"}
  KindOf <- MCKindOf
  SupportedListEntities = {"people"}
  PageKind = "people"
  KnownUrns = {"p1", "p2", "d1"}
  MaxNotified = 4
  MaxBanners = 3
  Results = {"r1", "r2"}
  SuccessfulDwellTimeLength = 2
  MaxTime = 4
  MaxClicks = 2
  UserEntitiesSource <- MCUserEntities
  LookupKeywords = {"a", "b", "zz", "("}
  BadKeywords = {"("}
  StartsWith <- MCStartsWith
  SuggestionLimit = 2
  MaxWaiting = 3
  MaxFound = 2
  DropDownItems = {"i1", "i2"}
  HideIds = {"h1", "h2"}
  Values = {0, 1, 3}
  MaxSeries = 2
  Widths = {1, 10}
  Scores = {0, 25, 50}
  MaxScores = {50, 200}
  Items = {0, 1}
  MaxList = 3
  Steps = {"next", "zero"}
  ApplyStep <- MCApplyStep
  MaxChunk = 2
  Calls = {"c1", "c2"}
INVARIANTS
    ListsAgree
    LookupFindsUsers
    DrawnAndComputedWhole
PROPERTIES
    
    
    DropdownFollowsMouse
    BrowsingServes
CHECK_DEADLOCK FALSE
