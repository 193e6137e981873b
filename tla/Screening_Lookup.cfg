CONSTANTS
  None = None
  Program <- ProgramIds
  Accounts <- Pubkeys
  Texts <- Metadata
  Transactions <- ChainTransactions
  RuleSets <- Rulesets
  Enrichment <- FetchedFacts
SPECIFICATION Spec
INVARIANT CreatorIsTheUser
CHECK_DEADLOCK FALSE
