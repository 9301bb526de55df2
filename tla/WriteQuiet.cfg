CONSTANTS
  Messages = {m1, m2}
  Nothing = Nothing
  Sizes = {0, 2, 5}
  QueueLen = 2
  BufSize = 16
SPECIFICATION FairWriteSpec
PROPERTY MessagesServed
CHECK_DEADLOCK FALSE
