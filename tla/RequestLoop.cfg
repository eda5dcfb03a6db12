SPECIFICATION FairSpec
CONSTANTS
  r1 = r1
  r2 = r2
  r3 = r3
  Ids = {r1, r2, r3}
  MaxRequests = 2
  Tasks = {t1, t2}
  Wait = Wait
  None = None
  Answers <- MCAnswers
INVARIANTS
  TypeOK
  CapacityRespected
  RoomKeptWhileWaiting
  OneOwnerPerRequest
  QueueHoldsEveryTask
PROPERTIES
  PendingHandedOver
  ReleasedByItsTask
  EveryRequestCompletes
  AnswersArePickedUp
