SPECIFICATION Spec
CONSTANTS
  MaxCluster = 6
  PerFat = 3
  ClusterSectors = 2
  SectorUnits = 2
  ReportUnits = 5
  RootSectors = 1
  Cards <- SomeCards
  MaxReports = 2
  MayGarble = FALSE
INVARIANTS CardStaysSound HealthyCardTakesReport SectorComesBack
PROPERTIES CallsEnd
