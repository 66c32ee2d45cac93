\* Lists, replays and live events overlap; connections drop, Docker restarts.
CONSTANTS
  c1 = c1
  c2 = c2
  Containers <- Two
  AtStart <- Second
  Untracked = Untracked
  BufferSize = 2
  ResyncPruneThreshold = 2
  MaxChanges = 3
  MaxDrops = 2
  MaxRestarts = 1
SPECIFICATION FairSpec
CHECK_DEADLOCK FALSE
INVARIANTS TypeOK ExactWithHistory NothingSkipped
PROPERTIES CatchesUp EndsOnCancel
