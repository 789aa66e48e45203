SPECIFICATION ReportSpec
CONSTANTS
  r1 = r1
  r2 = r2
  Setups <- SomeSetups
  Predicted <- TwoPredictions
  RivalAnswers <- RivalReadings
  Replies <- SomeReplies
  Diagnoses <- SixDiagnoses
  CheckFixes <- ThreeChecks
  MaxQuestions = 3
  Starts <- SomeStarts
CHECK_DEADLOCK FALSE
INVARIANTS
  ObservationAgrees
  LinkedIsCitable
  DivergenceIsExplained
  OneStory
