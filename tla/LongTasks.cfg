SPECIFICATION Spec
CONSTANTS
  None = None
  Replies <- SmallReplies
  RepoFiles <- SrcFiles
  TestFiles <- Tests
  Outside = "out"
  Failures <- SmallFailures
  DirBytes = 80
  RelBytes = 400
  CommandBytes = 20
  MaxRejectionsPerRun = 1
  MaxCheckpoints = 14
INVARIANTS
  LongTasksAreTruncated
CHECK_DEADLOCK FALSE
