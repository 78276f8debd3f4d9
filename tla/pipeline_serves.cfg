\* Two worker_loop threads (simulation.threads of system.json), queues of one.
CONSTANTS
  Loops = {l1, l2}
  MaxReadings = 3
  SensorCapacity = 1
  SimulationCapacity = 1
SPECIFICATION FairSpec
INVARIANTS
  TypeOK
  OneStage
  CountersBalance
  StopLosesNothingInHand
PROPERTIES
  ImplementsJourney
  EveryReadingEnds
