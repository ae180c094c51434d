\* A request or a command waits on a stream that closes, and the peer reads.
SPECIFICATION ReadingSpec
CONSTANTS
    Call = {c1}
    Handler = Handler
    Capacity = 1
    Room = 1
    None = None
INVARIANTS
    SendsExclude
    MapHoldsLiveCalls
PROPERTIES
    CallReturns
    HandlerReturns
