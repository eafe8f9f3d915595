CONSTANTS
  Poster = {p1, p2}
  Slot <- AnnexCodes
  PostCode <- AnnexPosts
  MSG_USER = 128
  MQFUNC_SIZE = 1024
  Capacity = 2
  MaxPosts = 2
  None = None
SPECIFICATION FairSpec
PROPERTY PostedIsHandled
CHECK_DEADLOCK FALSE
