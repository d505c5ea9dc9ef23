SPECIFICATION MCSpec
CONSTANTS
  FactSlots = {"product", "substrate", "location", "symptom"}
  FactValues = {"brick", "stone", "external", "damp", "cracks", "ultra", "solo"}
  Products = {"ultra", "solo"}
  Suggestible = {"ultra"}
  Objectives = {"plaster"}
  Requirement <- TheRequirement
  Within <- TheWithin
  Begins <- TheWithin
  PlainNames = {"ultra"}
  MaxCandidates = 3
  Threads = {"a"}
  Messages <- TheMessages
  Corpora <- TheCorpora
  Audiences = {"public"}
  MaxIndex = 2
  MaxTurnsEntered = 3
  Terms = {"coverage", "far", "thickness", "suitable", "brick", "lath", "timber", "bags", "why", "damp"}
  Vocabulary <- TheVocabulary
  Weight <- TheWeight
  ClassOf <- TheClassOf
  Topics <- TheTopics
  Mandatory = {"legal"}
  Properties = {"waterproof"}
  Published = {"ultra", "solo"}
  Library <- TheLibrary
  Parts <- TheParts
  Splits <- TheSplits
  Contexts <- TheContexts
  Readers = {{"public"}, {"staff"}, {"public", "staff"}}
  Drafts <- TheDrafts
  TopK = 2
  Rare = 2
  Related = 1
  MissedLimit = 1
  Routable = {"substrate"}
  Reported = {"exposed_masonry", "existing_finish"}
  Forbidden = {"cause"}
  Photographs <- ThePhotographs
  MaxObservations = 2
  MaxPhotographs = 3
  Workers = {"w1", "w2"}
  Visitors = {"ann", "bob"}
  Asks = {"which plaster"}
  Allowed = {{"public"}, {"staff"}}
  MaxImages = 1
  MaxTracked = 1
  MaxCached = 1
  MaxRelease = 2
  MaxRequests = 2
  Ids = {1, 2}
  Slots = {"substrate"}
  Values = {"brick"}
  Questions = {"which wall"}
  MaxSessions = 1
  IdleSeconds = 1
  MaxTurns = 1
  MaxClock = 2
  MaxTold = 2
  MaxFaults = 1
  MaxReboots = 1
  Crawlers = {"c1", "c2"}
  Pages = {"page"}
  Sheets = {"sheet"}
  Bodies = {"limewash", "paint", "paint, crlf"}
  Links <- TheLinks
  Guides <- TheGuides
  Listings <- TheListings
  Robots <- TheRobots
  AsText <- TheText
  FileOf <- TheFiles
  MaxCrawls = 2
  MaxMishaps = 2
CHECK_DEADLOCK FALSE
INVARIANTS
  GraphTypeOK AdviceRestsOnTheConversation NeverReasks ApprovedInThisTurn CaseOpensClean
  FiguresStandWhereTheyAreCited ServedFiguresArePublished AudienceKept GuessesAreNotRemembered
  AnswersAreTheTurnsOwn
  SessionTypeOK OnlyMinted RecallsItsOwn LayersInStep
PROPERTIES
  TestimonyStands NothingForgotten NoSlotChangesHands MintingBounds HonouredWhileFresh CrawlsContinue
  TurnEnds EveryRequestEnds
