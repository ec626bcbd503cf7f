SPECIFICATION FairSpec
CONSTANTS
  Keys = {k1, k2}
  Requests = {q1, q2, q3}
  Ids = {1, 2}
  None = None
INVARIANTS TypeOK IntakeInv AnswersAgree OneEventPerPayment ExistingPresent
PROPERTIES RequestEnds ImplementsRegistry
