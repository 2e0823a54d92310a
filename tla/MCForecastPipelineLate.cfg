CONSTANTS
  t1 = t1
  Procs <- MCProcs
  Models <- MCModels
  Baselines = {"Naive"}
  Position <- MCPosition
  Simplicity <- MCSimplicity
  Metrics <- MCMetrics
  Priority <- MCPriority
  MaxLoss = 1000
  Base <- MCBase
  Ensemble = "Naive"
  Pool = {}
  UserLosses = {"mase", "rmse", "mae"}
  Requests <- MCRequests
  Suspects = {"ARIMA"}
  NoModel = NoModel
  NoProc = NoProc
  NoEvidence = NoEvidence
  NoLoss = NoLoss
  NoAdvice = NoAdvice
  Runs <- AiRuns
  Evidences <- MCEvidences
  AutoLosses = {}
  Admins = {}
  Sections = 2
SPECIFICATION PipelineSpec
INVARIANT
  NoLateCall
CHECK_DEADLOCK FALSE
