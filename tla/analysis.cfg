\* Each component on its own.
CONSTANTS
  Profile <- MCProfile
  Milestones <- MCMilestones
  Percentages = {0, 50, 100}
  Asked <- MCAsked
  MaxComparisons = 5
  Shapes = {"narrow", "template", "wide"}
  Template = "template"
  Terrains = {"FLAT", "TRENCH_FIELD"}
  Merit <- MCMerit
  Target = 8
  MaxOptimizations = 2
  DefaultGroup = TRUE
  DefaultExperts = 5
  ExpertCounts <- MCExpertCounts
  MaxTime = 3
  Names <- MCNames
  System <- MCSystem
  Materials <- MCMaterials
  Ahp <- MCAhp
  Vehicles <- MCVehicles
  Bodies <- MCBodies
  UIntSize = 2048
  Now = 5
SPECIFICATION Spec
INVARIANTS
  TypeOK
  SummariesAgree
  BestUnderBoth
  AnswerIsOneJudgement
  NothingMadeUp
CHECK_DEADLOCK FALSE
