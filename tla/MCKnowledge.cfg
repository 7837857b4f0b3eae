SPECIFICATION Spec
CONSTANTS
  LastChapter = 2
  Kinds = {"pa", "ka"}
  Edited = {"passed", "again"}
  MaxMarks = 2
  MaxEdits = 2
  Ids = {"F1", "F2"}
  Events = {"E1", "E2", "E3"}
  MaxThreads = 3
  MaxCauses = 3
  MaxTracks = 2
  Names = {1, 2}
  Words = {3}
  Layouts <- MCLayouts
  MaxRows = 3
  MaxHand = 1
  Plans <- MCPlans
  PlanDetails <- MCDetails
  MaxPlanned = 2
  MaxScenes = 2
  MaxImpactRows = 3
  Topics = {"ledger", "threads", "causes", "cards", "snapshot", "outline", "impact", "todos", "gate"}
  TodoIds = {1, 2}
  Tools = {"A", "B"}
  Author = "author"
  TodoBatches <- MCTodoBatches
  MaxCalls = 2
  MaxCycles = 1
  GateCalls <- MCGateCalls
  GateSettings <- MCGateSettings
  Forked = {"GeneralPurpose"}
  MaxOpen = 2
INVARIANTS
  LedgerTellsTheLast
  PlotIsTold
  CardsAreTold
  PlansAreKept
  ImpactMissesNothing
  TodosAreKept
  TheGateHolds
CHECK_DEADLOCK FALSE
