\* The page with a month and a year to choose from and two of its tables; the user
\* makes a few choices and sends a few messages.
SPECIFICATION PageSpec
CONSTANTS
  Table <- Tables
  Month <- OneMonth
  Year <- OneYear
  Initial = "all"
  Unread = Unread
  MaxActs = 2
  MaxChanges = 1
INVARIANTS
  PageTypeOK
  
  RepliesFollowQuestions
PROPERTIES
  FiguresFresh
  LoadingEnds
CHECK_DEADLOCK FALSE
