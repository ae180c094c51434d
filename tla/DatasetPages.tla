---------------------------- MODULE DatasetPages ----------------------------
(***************************************************************************)
(* Reading stored klines page by page while the scrapers go on storing:    *)
(* the loop that delivers a dataset to a runtime, and the pages that a     *)
(* runtime asks for one by one during a backtest.                          *)
(*                                                                         *)
(* A kline is named by its open time, a tick of its interval; the range    *)
(* that is read is 1..MaxTick.                                             *)
(***************************************************************************)
EXTENDS Naturals, FiniteSets, FiniteSetsExt

CONSTANTS
    Handler,          \* goroutines that serve frames of a runtime
    MaxStream,        \* the streams of a dataset are 1..MaxStream
    MaxTick,          \* bound: klines of a stream in the range
    ChunkSize,        \* ChunkSize of a dataset's request, clamped already
    BacktestPageSize, \* backtestPageSize: 8192 in the code
    MaxFetchLimit     \* maxKlineFetchLimit: 5000 in the code

ASSUME PagesAssumption ==
    /\ MaxStream \in Nat \ {0}
    /\ MaxTick \in Nat \ {0}
    /\ BacktestPageSize \in Nat \ {0}
    /\ MaxFetchLimit \in Nat \ {0}
    /\ ChunkSize \in 1 .. MaxFetchLimit

VARIABLES
    rows,     \* the klines stored, by stream
    delivery, \* per handler: its delivery of a dataset
    backtest  \* the cursor of the runtime that reads stream 1

pageVars == <<rows, delivery, backtest>>

Stream == 1 .. MaxStream
Tick == 1 .. MaxTick

\* due: the rows stored when the reading began that have not been read yet
\* (history).  cut: the last page had as many rows as a fetch may return (history).
NoDelivery == [st |-> "none", stream |-> 1, next |-> 1, due |-> {}]
NoBacktest == [st |-> "none", after |-> 0, page |-> {}, due |-> {}, cut |-> FALSE]

PagesInit ==
    /\ rows \in [Stream -> SUBSET Tick]
    /\ delivery = [h \in Handler |-> NoDelivery]
    /\ backtest = NoBacktest

\* A scraper stores a kline, newer than the others or filling a gap.
StoreKline ==
    /\ \E k \in Stream : \E t \in Tick \ rows[k] : rows' = [rows EXCEPT ![k] = @ \cup {t}]
    /\ UNCHANGED <<delivery, backtest>>

\* No fetch returns more rows than maxKlineFetchLimit, whatever it was asked for.
Clamped(limit) == IF limit > MaxFetchLimit THEN MaxFetchLimit ELSE limit

\* The first rows of stream k from open time `from` on, in the order of time.
FetchKlines(k, from, limit) ==
    {t \in rows[k] : /\ t >= from
                     /\ Cardinality({u \in rows[k] : from <= u /\ u <= t}) <= Clamped(limit)}

-----------------------------------------------------------------------------
(* DeliverDataset *)

DeliveryBegins(h) ==
    /\ delivery' = [delivery EXCEPT ![h] =
           [NoDelivery EXCEPT !.st = "paging", !.due = {row \in Stream \X Tick : row[2] \in rows[row[1]]}]]
    /\ UNCHANGED <<rows, backtest>>

\* Faulty: the next page starts a step too late.
NextStartSkips(page) == Max(page) + 2

\* lastOpen + stepMS
NextStart(page) == Max(page) + 1

\* The last page of a stream is one that is short, or reaches the end.
LastPage(page) == Cardinality(page) < ChunkSize \/ NextStart(page) > MaxTick

\* A chunk names its stream and carries the rows of a page.
Chunk(k, page) == {k} \X page

PageDelivered(h) ==
    LET k == delivery[h].stream
        page == FetchKlines(k, delivery[h].next, ChunkSize)
    IN  /\ delivery[h].st = "paging" /\ k \in Stream
        /\ delivery' = [delivery EXCEPT
               ![h].due = @ \ Chunk(k, page),
               ![h].stream = IF page = {} \/ LastPage(page) THEN k + 1 ELSE k,
               ![h].next = IF page = {} \/ LastPage(page) THEN 1 ELSE NextStart(page)]
        /\ UNCHANGED <<rows, backtest>>

\* The End chunk follows the last page of the last stream.
EndChunkDelivered(h) ==
    /\ delivery[h].st = "paging" /\ delivery[h].stream > MaxStream
    /\ delivery' = [delivery EXCEPT ![h].st = "ended"]
    /\ UNCHANGED <<rows, backtest>>

\* The handler is done with its delivery, or gives it up half-way: the chunks
\* that were sent stay sent, and no End chunk follows them.
DeliveryOver(h) ==
    /\ delivery' = [delivery EXCEPT ![h] = NoDelivery]
    /\ UNCHANGED <<rows, backtest>>

-----------------------------------------------------------------------------
(* FetchBacktestPage, which the runtime asks for until has_more is false *)

BacktestBegins ==
    /\ backtest.st = "none"
    /\ backtest' = [NoBacktest EXCEPT !.st = "reading", !.due = rows[1]]
    /\ UNCHANGED <<rows, delivery>>

\* start_after_time_ms plus a step
BacktestPageFetched ==
    /\ backtest' = [backtest EXCEPT
           !.page = FetchKlines(1, backtest.after + 1, BacktestPageSize)]
    /\ UNCHANGED <<rows, delivery>>

\* What the page says of itself besides its rows.
NextCursor(page) == IF page = {} THEN 0 ELSE Max(page)
HasMore(page) == Cardinality(page) = BacktestPageSize

\* The runtime has the page.
BacktestPageRead ==
    LET page == backtest.page
    IN  /\ backtest' = [backtest EXCEPT
               !.page = {}, !.due = @ \ page, !.cut = Cardinality(page) = MaxFetchLimit,
               !.after = NextCursor(page),
               !.st = IF HasMore(page) THEN "reading" ELSE "read"]
        /\ UNCHANGED <<rows, delivery>>

-----------------------------------------------------------------------------
DeliveryType ==
    [st : {"none", "paging", "ended"}, stream : 1 .. (MaxStream + 1),
     next : 1 .. (MaxTick + 1), due : SUBSET (Stream \X Tick)]

BacktestType ==
    [st : {"none", "reading", "read"}, after : 0 .. MaxTick,
     page : SUBSET Tick, due : SUBSET Tick, cut : BOOLEAN]

PagesTypeOK ==
    /\ rows \in [Stream -> SUBSET Tick]
    /\ delivery \in [Handler -> DeliveryType]
    /\ backtest \in BacktestType

\* The End chunk of a dataset, and a page without has_more that the limit of a fetch
\* did not cut short, vouch for the reading: every row that was stored when it began
\* has been read by then, whatever was stored meanwhile (deliverDataset,
\* klineRowsToBacktestPageStruct).
ReadersMissNothing ==
    /\ \A h \in Handler : delivery[h].st = "ended" => delivery[h].due = {}
    /\ backtest.st = "read" /\ ~backtest.cut => backtest.due = {}

\* A backtest that follows has_more reads every row that was stored when it began:
\* "Large backtests are therefore streamed page by page" (README), and a full page
\* has has_more (TestPlatformProxyFetchBacktestPageUsesFixedPageSize).  The fetch
\* is clamped below the page size, so the first page that is cut short ends it.
BacktestMissesNothing == backtest.st = "read" => backtest.due = {}
=============================================================================
