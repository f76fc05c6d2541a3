SPECIFICATION WebSpec
CONSTANTS
  PageSize = 2
  TruncateLength = 3
  Height = 2
  Newlines = {1, 4}
  MaxFile = 5
  MaxScrolls = 2
  MaxReadErrors = 1
  MaxCalls = 4
  Queries <- MCQueries
  Parsed <- ParseLines
  maxPoints = 2
  MaxSamples = 3
  MaxQueries = 2
  MaxErrors = 1
  MaxClicks = 2
  Lists <- MCLists
  Columns = 2
  MaxJobs = 2
  MaxWrong = 1
  initialState <- MCInitial
  desiredState <- MCDesired
  updateOnlyTheseInstances <- MCScope
  MaxFailedInstances = 1
  RollbackOnFailure = TRUE
  MaxResumes = 1
  MaxLost = 1
CONSTRAINT Scenarios
INVARIANTS
  WebTypeOK TextMatchesFile PointsInOrder ParserForgets TableIsComplete ProgressIsHonest
PROPERTIES
  LogIsFollowed PollingGoesOn OrderedAsArranged PagesSettle
CHECK_DEADLOCK FALSE
