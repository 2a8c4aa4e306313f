CONSTANTS
  Slots = {1, 2}
  Shapes <- MCShapes
  MaxEnabledAsks = 1
  Dates = {"due"}
  NoAnswer <- MCNoAnswer
  Answers <- MCAnswers
  EnrichStarts <- MCStarts
SPECIFICATION EnrichSpec
INVARIANTS PeopleWin AnswerIsCurrent 
CHECK_DEADLOCK FALSE
