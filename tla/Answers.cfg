\* Every input of each conversion within its bounds.
CONSTANTS
  DefaultLimit = 2
  MaxLimit = 3
  MaxText = 2
  MaxBody = 4
  MaxSize = 6
  MaxItems = 2
  Queries <- MCQueries
  DriveLists <- MCDriveLists
SPECIFICATION SpecAnswers
INVARIANTS ListingIsRead AnswerIsShown CutIsTold OfferedIsOwn
CHECK_DEADLOCK FALSE
