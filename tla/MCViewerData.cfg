SPECIFICATION FairSpec
CONSTANTS
  Runs = {1, 2}
  Labels = {"jvm"}
  Trimmed <- MCTrimmed
  Requests = {"q1"}
  MaxEvents = 3
INVARIANTS
  TypeOK
  ListedHasDetail
  UnfinishedIsLeftAlone
PROPERTIES
  ViewerCatchesUp
  RequestsAreAnswered
