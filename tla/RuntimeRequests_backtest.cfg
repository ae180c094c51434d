\* A backtest is read by the page while fetches return at most two klines of the three
\* that a page may have.
SPECIFICATION Spec
CONSTANTS
    Handler = {h1}
    MaxStream = 1
    MaxTick = 4
    ChunkSize = 2
    BacktestPageSize = 3
    MaxFetchLimit = 2
    Loader = {l1}
    MaxLoad = 1
    Method = {"FetchBacktestPage"}
    Deadlined = {}
    MaxFaults = 1
    None = None
CHECK_DEADLOCK FALSE
INVARIANTS
    BacktestMissesNothing
