SPECIFICATION FairSpec
CONSTANTS
  Size <- TwoTests
  Retries <- RetryCounts
  Points <- PartialScores
  FullMark = 2
INVARIANTS TypeOK CursorInSync AcIsEarned BlameIsOwn SkippedOnlyWhenLost ConclusionRight RetriesSpent
PROPERTIES Finishes
CHECK_DEADLOCK FALSE
