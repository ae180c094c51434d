\* Two calls of two users and a session overlap, with two request ids; two
\* scrapers want one key; two reports and one query overlap, over three years, the
\* last of which does not begin on the grid of the candles, and a row off the grid.
SPECIFICATION ControlSpec
CONSTANTS
    User = {u1, u2}
    Session = {x1}
    Caller = {t1, t2}
    HistoryReport = {"error"}
    ActualReport = {"running"}
    MaxRequest = 2
    None = None
    Scraper = {"w1", "w2"}
    AskedKey <- MCAskedKey
    AskedTTL <- MCAskedTTL
    MinTTL = 2
    DefaultTTL = 3
    MaxTTL = 3
    MaxId = 3
    MaxTime = 4
    MaxWaiting = 2
    Reporter = {c1, c2}
    Step = 2
    Years = 3
    YearStart <- MCYearStart
    Batch <- MCBatch
    Free = Free
    Query = {q1}
    Window <- MCWindow
    RawTick = {3, 4, 8}
    PageLimit = 1
    KlineLimit = 1
SYMMETRY CallSymmetry
CHECK_DEADLOCK FALSE
INVARIANTS
    InsertUnopposed
    AggregateExact
    OnlyDeadlockStops
    HeldLeaseStands
    AnswerVouchedFor
    AnswerMissesNothing
PROPERTIES
    MergesAreUnions
