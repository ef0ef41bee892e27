SPECIFICATION Spec
CONSTANTS
  Reviewers = {"a", "b"}
  Runs = {1, 2}
  ReviewKeys = {"a", "b"}
  ReviewBodies <- SomeReviews
  MaxReviews = 2
  MaxDecisions = 2
  Writers = {"a", "b"}
  DocumentKeys = {"a", "b"}
  DocumentRequests <- SomeRequests
  MaxDocumentVersions = 3
  MaxNotes = 4
  Runners = {"a", "b"}
  Correctors = {"a"}
  Lookback = 12
  Moments = {32, 44, 52}
  Horizon = 52
  MaxCorrections = 2
  Administrators = {"a", "b"}
  MaxPolicies = 4
  Askers = {"a", "b", "c"}
  MaxGenerations = 4
  MaxStale = 2
  Handlers = {"a", "b"}
  Tasks = {1}
  Migrated = TRUE
  MaxJobs = 2
  MinReviews = 1
  MinRate = 0
  AutoExecute = TRUE
  MaxCrashes = 0
  Migrators = {"a", "b"}
  Servers = {"s", "t"}
  Release <- SomeReleases
  Databases = {"empty", "legacy", "released", "lineage"}
  MaxFailures = 1
  Clients = {"a", "b"}
  MessageKeys = {"a", "b"}
  ChatMessages <- Revising
  LineageLimit = 1
  Blocked = {}
  DocumentLimit = 2
  MaxDocuments = 3
  MaxChatReviews = 1
  MaxRestarts = 0
  Sayings <- SomeSayings
  WorkOrders <- SomeWorkOrders
  Replies <- SomeReplies
INVARIANTS
  TypeOK
  IntentIsExplicit
  ModelsFollowDeployment
  ActsAsConfirmed
  StatusFollowsLatestReview
  OncePerKey
  GeneratedOncePerClaim
  PublishedStaysOfficial
  NothingForgotten
  NoUpdateIsLost
  LedgerIsTrue
PROPERTIES
  RevisionStaysInScope
  ImplementsVersionedRecord
CHECK_DEADLOCK FALSE
