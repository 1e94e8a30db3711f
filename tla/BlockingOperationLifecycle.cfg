CONSTANTS
  TimeOut <- MCTimeOut
  Indexes = {1}
SPECIFICATION FairSpec
INVARIANTS
  TypeOK
  TransitionRemembersItsStep
  OnlyTheWaitTimesOutIntoTransition
PROPERTIES
  EnforcementIsReachedAgain
