SPECIFICATION FairSpec
CONSTANTS
  Requests = {r1}
  Settings <- MCSettings
  MaxTime = 8
CHECK_DEADLOCK FALSE
INVARIANTS TypeOK LoggedAsAnswered IntegrityKept AnswerArrives DrainCutsTheSlow
PROPERTIES EncoderEnds ImplementsMailClient
