CONSTANTS
  Dates = {"mon", "tue"}
  None = None
  MaxOpens = 2
  MaxEvents = 2
  MaxLines = 3
  MaxTime = 3
  MaxBoots = 2
  MaxRequests = 2
SPECIFICATION FairSpec
INVARIANTS
  TypeOK
  LogTellsStory
  ReplyComplete
  EventsHaveLevels
  AsksByName
  LevelsApart
  LevelsFewest
PROPERTIES
  PageSettles
  ImplementsService
CHECK_DEADLOCK FALSE
