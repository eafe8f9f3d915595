CONSTANTS
  Poster = {p1, p2}
  Slot <- UserCodes
  PostCode <- UserPosts
  MSG_USER = 128
  MQFUNC_SIZE = 1024
  Capacity = 2
  MaxPosts = 4
  None = None
SPECIFICATION FairSpec
INVARIANTS TypeOK EndsByStop
PROPERTIES PostedIsHandled StopEnds
CHECK_DEADLOCK FALSE
