\* The storage writer and the HTTP thread; 2 reads stand for 100.
CONSTANTS
  Writers = {storage}
  Askers = {http}
  MaxReads = 2
  BodyPieces = 2
  MaxSockets = 2
  MaxRequests = 4
SPECIFICATION FairSpec
INVARIANTS
  TypeOK
  AnswersAreOwn
PROPERTIES
  EveryRequestReturns
