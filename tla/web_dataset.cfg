\* The parts of the page of a dataset, one at a time.
SPECIFICATION WebSpec
CONSTANTS
  Focus = {"header", "owners", "page", "lineage", "deprecation", "wiki", "urns"}
  da = da
  db = db
  ann = ann
  bob = bob
  Urns = {da, db}
  Inherited = {db}
  UserNames = {ann, bob}
  Persons = {ann, bob}
  Active = {ann, bob}
  InitialOwners <- MCInitialOwners
  Suggested <- MCInitialOwners
  OwnerTypes = {"DataOwner", "Consumer"}
  MaxReads = 2
  MaxOwners = 3
  MaxRaced = 1
  MaxPosts = 1
  MaxSaved = 1
  PageDatasets = {"a", "b", "x"}
  UrnKind <- MCUrnKind
  UmpDatasets = {"a"}
  Relationships <- MCRelationships
  TruncatedLength = 1
  MaxPageReads = 2
  LineageUris = {"a", "b", "c"}
  Lineages <- MCLineages
  MaxLineageCalls = 2
  DeprUrns = {"a", "b"}
  Notes = {"old", "new"}
  Dates = {"d1"}
  StoredAtFirst <- MCStoredAtFirst
  MaxDeprReads = 2
  MaxUpdates = 2
  WikiUrns = {"a", "b"}
  WikiUrls = {"l1", "l2"}
  WikiAtFirst <- MCWikiAtFirst
  MaxLinks = 3
  MaxWikiReads = 2
  MaxChanges = 2
  LowerCase <- MCLowerCase
  UpperCase <- MCUpperCase
  Delimiters <- MCDelimiters
  DatasetNames <- MCDatasetNames
  FabUrns <- MCFabUrns
  Origins <- MCOrigins
  MaxFabReads = 2
INVARIANTS
    
    PageIsOfOneDataset
    LineageIsTrue
    UrnsLeadBack
PROPERTIES
    EditsStayWithDataset
