SPECIFICATION Spec
CONSTANTS
  Texts <- MCTexts
  Numbers <- MCNumbers
  None = None
  NotANumber = NotANumber
  Scan <- MCScan
  Whole <- MCWhole
  NumberText <- MCNumberText
  BoolText <- MCBoolText
  NilText = "<nil>"
  Within <- MCWithin
  Shows <- MCShows
  Workflows <- MCWorkflows
  Subscribers <- MCSubscribers
  Events <- MCEvents
CHECK_DEADLOCK FALSE
INVARIANT
  PlanIsMeant
