\* Two sessions, all operations, expiry; three rocks that wear the armour through.
CONSTANTS
  Full = 14
  MaxSessions = 2
  MaxRocks = 3
  IdleTimeout = 1
  Blows = {2}
  Speeds = {1}
  TimeSteps <- AnyStep
  LibraryUse = TRUE
SPECIFICATION FairSpec
INVARIANTS
  TypeOK
  MapsAgree
  AnswerFits
  WearAndWay
PROPERTIES
  ActiveStays
  AbandonedGoes
