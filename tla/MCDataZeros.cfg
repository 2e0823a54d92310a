SPECIFICATION MCSpec
CONSTANTS
  f1 = f1
  f2 = f2
  f3 = f3
  r1 = r1
  r2 = r2
  Files = {f1, f2, f3}
  Readers = {r1, r2}
  MaxFiles = 1
  MaxHolders = 2
  MaxFaults = 2
  MaxCrashes = 2
  NoFile = NoFile
  Missing = Missing
  Week = 3
  Month = 6
  Uploads <- MCUploads
  OptionSets <- MCOptions
  NoValue = NoValue
  Declarations <- MCDeclarations
  Predictors = {"price"}
  Present = 2
  Horizon = 1
  NoActual = NoActual
  NoSnapshot = NoSnapshot
  Plans <- MCPlans
  Actuals = {1, 4}
  MinVintages = 1
  MinObserved = 2
  MinDates = 2
  Parts = {"series"}
INVARIANTS
  NoFalseDemand
CHECK_DEADLOCK FALSE
