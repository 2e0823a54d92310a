SPECIFICATION MCSpec
CONSTANTS
  Parts = {"agent", "advice", "evidence", "backtest"}
  t1 = t1
  Procs <- AllProcs
  Scores = {0, 100, 104, 112, 130}
  Requests <- MCRequests
  Evidences <- Losses
  Admins = {t1}
  Models <- MCModels
  Baselines <- MCBaselines
  Position <- MCPosition
  Simplicity <- MCSimplicity
  Metrics <- MCMetrics
  Priority <- MCPriority
  MaxLoss = 1000
  Base <- MCBase
  Ensemble = "Simple Ensemble"
  Pool <- MCModels
  UserLosses = {"mase", "rmse", "mae"}
  AutoLosses = {"mase", "rmse", "mae"}
  NoModel = NoModel
  NoProc = NoProc
  NoEvidence = NoEvidence
  NoLoss = NoLoss
  NoAdvice = NoAdvice
  Lineups <- MCLineups
  Asks <- MCAsks
  Answers <- MCAnswers
  Outcomes <- MCOutcomes
  NoName = NoName
  Inputs <- MCInputs
  Replies <- MCReplies
  Unavailable = Unavailable
  NoReply = NoReply
  NoReview = NoReview
  NoReport = NoReport
  NoFindings = NoFindings
  naive = naive
  arima = arima
  recent = recent
  ensemble = ensemble
  None = None
  Default = Default
  Contenders <- Four
  Method <- FourMethod
  Recent <- FourRecent
  MembersOf <- FourParts
  BacktestInputs <- AllInputs
  MaxFailures <- TwoOrNone
  Paths = 2
  Floats = 10
  Entries = 4
  MaxLength = 24
INVARIANTS
  ReserveUntouched
  CalibrationDisjoint
  FitsOfTheirOrigin
  WinnerEligible
  ComplexEarnsItsPlace
  ReviewAgrees
  AdvisedWasEnabled
  OnlyLosersHaveReasons
  WorseNeverBetter
  ReviewKeepsContract
CHECK_DEADLOCK FALSE
