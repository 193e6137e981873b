CONSTANTS
  None = None
  Program <- ProgramIds
  Accounts <- Pubkeys
  Texts <- Metadata
  Transactions <- ChainTransactions
  RuleSets <- Rulesets
  Enrichment <- FetchedFacts
SPECIFICATION Spec
INVARIANTS
  TypeOK
  ReportsTheLaunchesMade
  MetadataIsOwn
  AcceptedIsAllowed
  UnenrichedNeedsNoCheck
CHECK_DEADLOCK FALSE
