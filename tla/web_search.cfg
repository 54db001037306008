\* Search page, search box, analytics and requests, one at a time.
\* Users may stop, and the bounds of what they do are reached.
SPECIFICATION WebSpec
CONSTANTS
  Focus = {"page", "box", "keys", "analytics", "fetch"}
  k1 = k1
  k2 = k2
  Keywords <- MCKeywords
  NoKeyword = noKeyword
  Options <- MCOptions
  DefaultFacets = {}
  Hits <- MCHits
  Buckets <- MCBuckets
  PageSize = 2
  Threshold = 1
  MaxInFlight = 2
  MaxTimers = 1
  datasets = datasets
  people = people
  noEntity = noEntity
  empty = empty
  abc = abc
  xabc = xabc
  bad = bad
  Entities = {datasets, people}
  DefaultEntity = datasets
  NoEntity = noEntity
  Texts = {empty, abc, xabc, bad}
  EmptyText = empty
  Wanted <- MCWanted
  WordLength <- MCWordLength
  CacheKey <- MCCacheKey
  MaxAsked = 1
  Routes <- MCRoutes
  HaveSearch = {"search", "browsesearch.entity"}
  ServerConfigs <- MCServerConfigs
  FlagKeys = {"isStagingBanner"}
  UiEvents <- MCUiEvents
  ResultLists <- MCResultLists
  MaxSent = 3
  FetchEntities = {"people", "undefined"}
  FetchTexts = {"t", "a+b", "a&b", "a%", "a%26b", ""}
  DecodeText <- MCDecodeText
  EncodeText <- MCEncodeText
  ServerText <- MCServerText
  MaxCalls = 2
INVARIANTS
    SearchPageAgrees
    
    
    AnswersAreOwn
CHECK_DEADLOCK FALSE
