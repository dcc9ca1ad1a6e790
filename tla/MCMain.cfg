\* Files of up to four lines; four workers; the queue's map grows; every kind of text.
SPECIFICATION MCSpec
CONSTANTS
  Lines <- MCLines
  MaxLines = 4
  Unset = Unset
  N = 4
  MayFail = TRUE
  NodeSize = 2
  MapSize = 5
  MaxPush = 9
  UrlTexts <- MCUrlTexts
  UrlRequests <- MCUrlRequests
  Base64Texts <- MCBase64Texts
  Queries <- MCQueries
  Days <- MCDays
INVARIANTS TypeOK ConfFromFile StartSafe StatusInOrder ConversionsRight
PROPERTIES LoadProgress StatusTaken
CHECK_DEADLOCK FALSE
