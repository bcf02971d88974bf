SPECIFICATION ConfigFairSpec
CONSTANTS
  Keys = {k1}
  Watchers = {w1, w2}
  ChSize = 1
  ReplySize = 1
  MaxIndex = 2
  MaxMessages = 3
  NoKey = NoKey
PROPERTY WatchersEnd
PROPERTY ClientFollows
CHECK_DEADLOCK FALSE
