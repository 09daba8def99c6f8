SPECIFICATION FairSpec
CONSTANTS
  Contracts <- MCContracts
  ExtMsgs <- MCExtMsgs
  IntMsgs <- MCIntMsgs
  Keys = {"k1", "k2"}
  NoKey = "nokey"
  Values = {0, 1}
  Initial = 0
  Second = 1
  Interval = 2
  MaxNow = 3
  Gas = 4
INVARIANTS AtMostOnce ConstructedOnce PubkeySigned StoresWhatItLoaded
PROPERTIES OnlyAnswerResumes KeepsPromise EveryMessageSettles
CHECK_DEADLOCK FALSE
