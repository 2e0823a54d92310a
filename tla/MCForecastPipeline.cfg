CONSTANTS
  t1 = t1
  Procs <- MCProcs
  Models <- MCModels
  Baselines = {"Naive"}
  Position <- MCPosition
  Simplicity <- MCSimplicity
  Metrics <- MCMetrics
  Priority <- MCPriority
  MaxLoss = 1000
  Base <- MCBase
  Ensemble = "Naive"
  Pool = {}
  UserLosses = {"mase", "rmse", "mae"}
  Requests <- MCRequests
  Suspects = {"ARIMA"}
  NoModel = NoModel
  NoProc = NoProc
  NoEvidence = NoEvidence
  NoLoss = NoLoss
  NoAdvice = NoAdvice
  Runs <- MCRuns
  Evidences <- MCEvidences
  AutoLosses = {}
  Admins = {t1}
  Sections = 1
SPECIFICATION PipelineSpec
INVARIANTS
  TraditionalIsLlmFree
  ReportMatchesForecast
  PolicyHasTheLastWord
PROPERTIES
  RunEnds
CHECK_DEADLOCK FALSE
