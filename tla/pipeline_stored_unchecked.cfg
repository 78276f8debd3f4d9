CONSTANTS
  Loops = {l1}
  MaxReadings = 1
  SensorCapacity = 1
  SimulationCapacity = 1
SPECIFICATION Spec
INVARIANT StoredResultsAreChecked
