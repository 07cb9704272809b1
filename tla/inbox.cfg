SPECIFICATION FairSpec
CONSTANTS
  Letters = {l1}
  Kinds = {"reply", "autoreply"}
  Timer = Timer
  Hand = Hand
  Readers = {Timer, Hand}
  CatchUp = 1
  Page = 1
  NewerThan = 0
  MaxArrived = 2
  MaxFaults = 2
CONSTRAINT Few
CHECK_DEADLOCK FALSE
INVARIANTS OnceEach CursorHonest
PROPERTIES AnswersRead
