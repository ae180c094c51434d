\* Two handlers serve a runtime's live, backtest or debug session, with one
\* failure; two loads of debug datasets overlap.
SPECIFICATION Spec
CONSTANTS
    Handler = {h1, h2}
    MaxStream = 2
    MaxTick = 3
    ChunkSize = 2
    BacktestPageSize = 3
    MaxFetchLimit = 2
    Loader = {l1, l2}
    MaxLoad = 2
    Method = {"PlaceOrder", "UpdatePortfolioWalletStateAtEnd", "DeliverDataset", "FetchBacktestPage", "StartDebugReplay"}
    Deadlined = {"PlaceOrder", "DeliverDataset"}
    MaxFaults = 1
    None = None
CHECK_DEADLOCK FALSE
INVARIANTS
    OkMeansActive
    AsReported
    ReadersMissNothing
    ActiveDatasetIsLoaded
PROPERTIES
    RequestsAnswered
