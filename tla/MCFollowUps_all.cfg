CONSTANTS
  h1 = h1 h2 = h2 l1 = l1 l2 = l2 g1 = g1 g2 = g2 g3 = g3
  d1 = d1 d2 = d2 d3 = d3
  Situations <- AllSituations
  Faulty = TRUE
  User = {1, 2, 3}
  Author = 1
  GroupMembers = {2, 3}
  GROUP_MEMBER_SEARCH_DEFAULT_LIMIT = 1
  MAX_PARSE_REPLY_COUNT = 2
  Texts <- MCTexts
  Unverified = {1}
  GetUsersLimit = 2
  Interval = "day"
  Hook = {h1, h2}
  URL = {l1, l2}
  PostType = {"question", "answer"}
  Viewer = {1, 2}
  POST_COUNTER_MAX = 3
  NoKey = NoKey
  Goroutines = {g1, g2, g3}
  Doc = {d1, d2, d3}
  CommentDoc = {d3}
  CacheKey = {1, 2, 3}
  CacheValue = {1, 2}
  CacheSize = 2
  NotFound = NotFound
SPECIFICATION Spec
INVARIANTS TablesAgree ReadersAreTold WithdrawnTokensUnused CountsHold SearchFollowsPosts
  StoreOutlivesGoroutines
PROPERTIES RecentSpec JobsEnd
CHECK_DEADLOCK FALSE
