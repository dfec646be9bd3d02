SPECIFICATION FairSpec
CONSTANT MaxSteps = 2
CHECK_DEADLOCK FALSE
INVARIANTS
  HandledIsPrefix
  AnsweredIffDone
PROPERTY QuestionSettles
