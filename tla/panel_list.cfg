SPECIFICATION FairSpec
CONSTANTS
  CreatedAt <- MCCreatedAt
  Backend <- MCBackend
  IsPostgres = FALSE
  Outcome <- MCOutcome
  Today <- MCToday
  Filters <- MCFilters
  PageSize = 1
  Days = 2
  MaxCalls = 2
INVARIANT TypeOK
INVARIANT WindowWithinSecond
INVARIANT DaysAreWhole
 
PROPERTY CatchesUp
