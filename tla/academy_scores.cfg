SPECIFICATION AcademySpec
CONSTANTS
  s1 = s1
  Segments = {s1}
  Prerequisites <- Alone
  Mastery = {}
  Scores = {50, 80, 90}
  CleanRequired = 1
  MaxWrites = 2
PROPERTIES ScoreNeverFalls
CHECK_DEADLOCK FALSE
