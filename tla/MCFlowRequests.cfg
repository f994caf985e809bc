SPECIFICATION FairSpec
CONSTANTS
  o1 = o1
  o2 = o2
  m1 = m1
  m2 = m2
  None = None
  OutNodes <- MCOutNodes
  Msgs <- MCMsgs
  From <- MCFrom
  MaxHiccups = 4
CHECK_DEADLOCK FALSE
INVARIANTS
  NoneForgotten
  Correlated
  SuccessMeansDone
  AnswersHeard
PROPERTIES
  EndsOnce
  EveryRequestEnds
