SPECIFICATION FairSpec
CONSTANTS
  MaxConns = 2
  Workloads <- SmallWorkloads
  UploadQueue = 1
  Repos = {1, 2}
  Rows = {1, 2}
INVARIANTS TypeOK ToldTheTruth RejectedOnce OwnAnswers FreshStatuses
PROPERTIES NeverBackward Answered
CHECK_DEADLOCK FALSE
