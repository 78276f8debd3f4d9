\* Two rounds into the second wave of SURVIVAL, all operations, expiry.
CONSTANTS
  Full = 14
  MaxSessions = 2
  MaxRocks = 7
  IdleTimeout = 0
  Modes = {"ASSAULT_CHALLENGE", "SURVIVAL"}
  Blows = {2}
  Speeds = {1}
  TimeSteps = {1}
SPECIFICATION Spec
INVARIANTS
  TypeOK
  MapsNest
  FinalResultFits
  OneStory
PROPERTY FinalResultStays
