---------------------------- MODULE CoverageStore ---------------------------
(***************************************************************************)
(* The coverage index of one stream: the rows of                           *)
(* market_data_coverage_segments, and the transactions that merge a        *)
(* reported segment with the rows it touches.                              *)
(*                                                                         *)
(* Time is counted in ticks.  A candle of the stream lasts Step ticks and  *)
(* opens at a multiple of Step, as the code aligns it to the epoch; year y *)
(* lasts from YearStart[y] to YearStart[y + 1], which need not be on that  *)
(* grid (a year is no multiple of three days).                             *)
(***************************************************************************)
EXTENDS Integers, FiniteSets, Sequences

CONSTANTS
    Reporter,    \* report calls that run at the same time
    Step,        \* ticks of a candle
    Years,       \* number of years
    YearStart,   \* the first tick of each year, and the end of the last one
    Batch,       \* the reports of the workers: sequences of segments
    Free         \* of a lock that nobody has

Year == 0 .. Years - 1
Tick == 0 .. YearStart[Years] - 1

Aligned(t) == t % Step = 0

\* What validateCoverageSegment lets pass: a span of whole candles in one year.
\* It refuses the whole report for one wrong segment, before anything is stored, and a
\* report without segments.
Segment ==
    {s \in [year : Year, start : 0 .. YearStart[Years], end : 0 .. YearStart[Years]] :
        /\ s.start < s.end
        /\ YearStart[s.year] <= s.start /\ s.end <= YearStart[s.year + 1]
        /\ Aligned(s.start) /\ Aligned(s.end)}

ASSUME StoreAssumption ==
    /\ Step \in Nat \ {0}
    /\ Years \in Nat \ {0}
    /\ YearStart \in [0 .. Years -> Nat]
    /\ YearStart[0] = 0
    /\ \A y \in Year : YearStart[y] < YearStart[y + 1]
    /\ Batch \subseteq Seq(Segment) \ {<<>>}
    /\ Free \notin Reporter

VARIABLES
    store,   \* the rows of the index
    lock,    \* per year: the call that has the advisory lock of the stream's year
    merge    \* per caller: its position, what is left of its report, its candidates

storeVars == <<store, lock, merge>>

NoMerge == [pc |-> "idle", batch |-> <<>>, start |-> 0, end |-> 0, found |-> {}]

Ticks(s) == s.start .. s.end - 1
TicksOf(S) == UNION {Ticks(s) : s \in S}

-----------------------------------------------------------------------------
StoreInit ==
    /\ store = {}
    /\ lock = [y \in Year |-> Free]
    /\ merge = [t \in Reporter |-> NoMerge]

ReportMarketDataCoverageSegments(t) ==
    /\ merge[t].pc = "idle"
    /\ \E b \in Batch :
           merge' = [merge EXCEPT ![t] = [NoMerge EXCEPT !.pc = "lock", !.batch = b]]
    /\ UNCHANGED <<store, lock>>

\* A transaction for the next segment: it waits for the year's advisory lock.
BeginMerge(t) ==
    LET s == Head(merge[t].batch)
    IN  /\ merge[t].pc = "lock"
        /\ lock[s.year] = Free
        /\ lock' = [lock EXCEPT ![s.year] = t]
        /\ merge' = [merge EXCEPT ![t].pc = "find", ![t].start = s.start, ![t].end = s.end]
        /\ UNCHANGED store

Touching(y, start, end) ==
    {s \in store : s.year = y /\ s.end >= start /\ s.start <= end}

\* One pass of the loop: the rows that touch the merged range widen it, and the
\* loop ends when a pass finds no new one.
FindCandidates(t) ==
    LET new == Touching(Head(merge[t].batch).year, merge[t].start, merge[t].end)
                   \ merge[t].found
        starts == {merge[t].start} \cup {s.start : s \in new}
        ends == {merge[t].end} \cup {s.end : s \in new}
    IN  /\ merge[t].pc = "find"
        /\ IF new = {}
           THEN merge' = [merge EXCEPT ![t].pc = "write"]
           ELSE \E a \in starts, e \in ends :
                    /\ \A b \in starts : a <= b
                    /\ \A b \in ends : b <= e
                    /\ merge' = [merge EXCEPT ![t].found = @ \cup new,
                                              ![t].start = a, ![t].end = e]
        /\ UNCHANGED <<store, lock>>

\* The locks a transaction of t holds are free.
Unlocked(t) == [y \in Year |-> IF lock[y] = t THEN Free ELSE lock[y]]

\* What is left of the report when its first segment is merged.
NextSegment(t) ==
    merge' = [merge EXCEPT ![t] =
        IF Tail(merge[t].batch) = <<>> THEN NoMerge
        ELSE [NoMerge EXCEPT !.pc = "lock", !.batch = Tail(merge[t].batch)]]

\* Faulty: the reported segment is stored in place of the merged one.
MergeWritesIncoming(t) ==
    /\ merge[t].pc = "write"
    /\ store' = (store \ merge[t].found) \cup {Head(merge[t].batch)}
    /\ lock' = Unlocked(t)
    /\ NextSegment(t)

\* The candidates give way to the merged segment, and the transaction commits.
CommitMerge(t) ==
    /\ merge[t].pc = "write"
    /\ store' = (store \ merge[t].found)
                    \cup {[year |-> Head(merge[t].batch).year,
                           start |-> merge[t].start, end |-> merge[t].end]}
    /\ lock' = Unlocked(t)
    /\ NextSegment(t)

\* A statement fails or the process dies: the transaction is rolled back, the
\* segments merged before it stay, those after it are never merged.
MergeFails(t) ==
    /\ merge[t].pc # "idle"
    /\ merge' = [merge EXCEPT ![t] = NoMerge]
    /\ lock' = Unlocked(t)
    /\ UNCHANGED store

StoreStep(t) ==
    \/ ReportMarketDataCoverageSegments(t)
    \/ BeginMerge(t) \/ FindCandidates(t) \/ CommitMerge(t) \/ MergeFails(t)

StoreNext == \E t \in Reporter : StoreStep(t)

StoreSpec == StoreInit /\ [][StoreNext]_storeVars

-----------------------------------------------------------------------------
(* Properties *)

MergeType ==
    [pc : {"idle", "lock", "find", "write"}, batch : Seq(Segment),
     start : 0 .. YearStart[Years], end : 0 .. YearStart[Years], found : SUBSET Segment]

\* The rows are legal segments, and a call has something to merge until it is idle.
StoreTypeOK ==
    /\ store \subseteq Segment
    /\ lock \in [Year -> Reporter \cup {Free}]
    /\ merge \in [Reporter -> MergeType]
    /\ \A t \in Reporter : merge[t].pc = "idle" <=> merge[t].batch = <<>>

\* Two rows of a year neither overlap nor touch, whatever is reported at the same
\* time: the index stays as short as it can be, and no tick is counted twice.
RowsApart ==
    \A s, r \in store : s # r /\ s.year = r.year => s.end < r.start \/ r.end < s.start

Abstract ==
    INSTANCE CoveredTicks WITH
        covered <- TicksOf(store),
        owed <- [t \in Reporter |-> TicksOf({merge[t].batch[i] : i \in DOMAIN merge[t].batch})]

\* The index covers what was merged and nothing else, for ever; a call is answered
\* only when all of its report is covered.
MergesAreUnions == Abstract!Spec
=============================================================================
