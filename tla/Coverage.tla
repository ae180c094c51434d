------------------------------ MODULE Coverage ------------------------------
(***************************************************************************)
(* What a caller is told of the candles there are: the answers computed    *)
(* from the coverage index and from the raw rows, while workers report to  *)
(* the index and rows arrive.                                              *)
(*                                                                         *)
(* A query reads the index in one statement and then the raw rows, page by *)
(* page and year by year (every year has a database of its own), so its    *)
(* answer is no snapshot of anything.  The properties bound it from both   *)
(* sides.                                                                  *)
(***************************************************************************)
EXTENDS CoverageStore, SequencesExt, FiniteSetsExt

CONSTANTS
    Query,        \* calls that ask at the same time
    Window,       \* the spans they ask for: pairs of ticks
    RawTick,      \* the open times rows may arrive with, on the grid or off it
    PageLimit,    \* rows of a page (rawKlineValidationFetchLimit)
    KlineLimit    \* rows a caller of QueryMarketDataKlines asks for

ASSUME CoverageAssumption ==
    /\ \A w \in Window : w[1] \in Tick /\ w[2] \in 1 .. YearStart[Years] /\ w[1] < w[2]
    /\ RawTick \subseteq Tick
    /\ PageLimit \in Nat \ {0}
    /\ KlineLimit \in Nat \ {0}

VARIABLES
    raw,     \* the open times of the rows in the yearly databases
    query    \* per query: its position, its arguments and what it found so far

coverageVars == <<storeVars, raw, query>>

Span(start, end) == [start |-> start, end |-> end]
Before(s, r) == s.start < r.start \/ (s.start = r.start /\ s.end < r.end)

\* Segment i has i - 1 segments before it.
Sorted(S) ==
    [i \in 1 .. Cardinality(S) |-> CHOOSE s \in S : Cardinality({r \in S : Before(r, s)}) = i - 1]

Clip(s, start, end) == Span(Max({s.start, start}), Min({s.end, end}))
Meets(s, start, end) == s.end > start /\ s.start < end

AllAligned(S) == \A s \in S : Aligned(s.start) /\ Aligned(s.end)
YearOf(t) == CHOOSE y \in Year : YearStart[y] <= t /\ t < YearStart[y + 1]

NoQuery == [pc |-> "idle", kind |-> "coverage", start |-> 0, end |-> 0, covered |-> {},
            gaps |-> <<>>, from |-> 0, year |-> 0, page |-> {}, rows |-> {},
            missing |-> <<>>, truncated |-> FALSE, knew |-> {}]

-----------------------------------------------------------------------------
(* coverage.go *)

\* The segments that meet the window, cut to it.
Clipped(S, start, end) == {Clip(s, start, end) : s \in {r \in S : Meets(r, start, end)}}

\* The gap between the cursor and a segment is missing; the cursor goes behind the segment.
Gap(gaps, from, to) == IF from < to THEN Append(gaps, Span(from, to)) ELSE gaps
Sweep(acc, s) == [cursor |-> Max({acc.cursor, s.end}), gaps |-> Gap(acc.gaps, acc.cursor, s.start)]

Swept(start, segments) ==
    LET acc[i \in 0 .. Len(segments)] ==
            IF i = 0 THEN [cursor |-> start, gaps |-> <<>>] ELSE Sweep(acc[i - 1], segments[i])
    IN  acc[Len(segments)]

\* The gaps that a sweep over the sorted segments leaves behind its cursor.
computeMissingSegments(start, end, covered) ==
    LET swept == Swept(start, Sorted(Clipped(covered, start, end)))
    IN  Gap(swept.gaps, swept.cursor, end)

splitCoverageSegmentByYear(s) ==
    {Clip(s, YearStart[y], YearStart[y + 1]) :
        y \in {z \in Year : Meets(s, YearStart[z], YearStart[z + 1])}}

\* A segment widens the last one if it overlaps or touches it in the same year.
Join(out, s) ==
    IF out # <<>> /\ YearOf(Last(out).start) = YearOf(s.start) /\ s.start <= Last(out).end
    THEN Append(Front(out), Span(Last(out).start, Max({Last(out).end, s.end})))
    ELSE Append(out, s)

Joined(segments) ==
    LET out[i \in 0 .. Len(segments)] == IF i = 0 THEN <<>> ELSE Join(out[i - 1], segments[i])
    IN  out[Len(segments)]

\* The segments of the window, joined where those of one year overlap or touch.
\* It fails when a part is not made of whole candles.
mergeCoverageForQuery(start, end, covered) ==
    LET parts == UNION {splitCoverageSegmentByYear(s) : s \in Clipped(covered, start, end)}
    IN  [ok |-> AllAligned(parts), segments |-> ToSet(Joined(Sorted(parts)))]

\* Faulty: a run reaches one candle too far.
coverageSegmentsFromKlineRowsTooFar(start, end, rows) ==
    LET open == {t \in rows : start <= t /\ t < end /\ (t - start) % Step = 0}
        parts == UNION {splitCoverageSegmentByYear(Span(t, t + 2 * Step)) : t \in open}
    IN  [ok |-> AllAligned(parts), segments |-> parts]

\* The runs of consecutive candles among the rows, year by year; rows off the
\* grid of the window are passed over.
coverageSegmentsFromKlineRows(start, end, rows) ==
    LET open == {t \in rows : start <= t /\ t < end /\ (t - start) % Step = 0}
        runs == {p \in open \X open :
                    /\ p[1] <= p[2] /\ p[1] - Step \notin open /\ p[2] + Step \notin open
                    /\ \A t \in p[1] .. p[2] : (t - start) % Step = 0 => t \in open}
        parts == UNION {splitCoverageSegmentByYear(Span(p[1], p[2] + Step)) : p \in runs}
    IN  [ok |-> AllAligned(parts), segments |-> parts]

\* ValidateKlineRows: the runs of grid ticks of the window without a row.
ValidateKlineRows(start, end, rows) ==
    LET grid == {t \in start .. end - 1 : (t - start) % Step = 0}
    IN  computeMissingSegments(start, end, {Span(t, t + Step) : t \in grid \cap rows})

-----------------------------------------------------------------------------
CoverageInit ==
    /\ StoreInit
    /\ raw = {}
    /\ query = [q \in Query |-> NoQuery]

\* What is known of a window: ticks of the index, and candles with a raw row.
Candles(rows) == UNION {t .. t + Step - 1 : t \in {r \in rows : Aligned(r)}}
Known(start, end) == (TicksOf(store) \cup Candles(raw)) \cap (start .. end - 1)

\* The rows of the index that one statement selects.
Indexed(start, end) == {s \in store : Meets(s, start, end)}

\* Position q at the first page of its next gap.
AtNextGap(w) == [w EXCEPT !.pc = "fetch", !.from = Head(w.gaps).start,
                          !.year = YearOf(Head(w.gaps).start), !.page = {}, !.rows = {}]

\* The answer, computed from everything that was found.
Answered(w) == [w EXCEPT !.pc = "answered",
                         !.missing = computeMissingSegments(w.start, w.end, w.covered)]

\* The index is read once; where it has no gap the raw rows are not looked at.
QueryMarketDataCoverage(q, w) ==
    LET merged == mergeCoverageForQuery(w[1], w[2], Indexed(w[1], w[2])).segments
        asked == [NoQuery EXCEPT !.start = w[1], !.end = w[2], !.covered = merged,
                                 !.gaps = computeMissingSegments(w[1], w[2], merged),
                                 !.knew = Known(w[1], w[2])]
    IN  /\ query[q].pc = "idle"
        /\ Aligned(w[1]) /\ Aligned(w[2])
        /\ query' = [query EXCEPT ![q] =
                        IF asked.gaps = <<>> THEN Answered(asked) ELSE AtNextGap(asked)]
        /\ UNCHANGED <<storeVars, raw>>

\* The raw rows alone are looked at: one gap, the window.
ValidateMarketDataCoverage(q, w) ==
    /\ query[q].pc = "idle"
    /\ Aligned(w[1]) /\ Aligned(w[2])
    /\ query' = [query EXCEPT ![q] = AtNextGap(
           [NoQuery EXCEPT !.kind = "validate", !.start = w[1], !.end = w[2],
                           !.gaps = <<Span(w[1], w[2])>>,
                           !.knew = Candles(raw) \cap (w[1] .. w[2] - 1)])]
    /\ UNCHANGED <<storeVars, raw>>

\* Any window will do, and one page is all that is read.
QueryMarketDataKlines(q, w) ==
    /\ query[q].pc = "idle"
    /\ query' = [query EXCEPT ![q] = AtNextGap(
           [NoQuery EXCEPT !.kind = "klines", !.start = w[1], !.end = w[2],
                           !.gaps = <<Span(w[1], w[2])>>, !.knew = raw \cap (w[1] .. w[2] - 1)])]
    /\ UNCHANGED <<storeVars, raw>>

-----------------------------------------------------------------------------
(* Raw rows *)

Limit(w) == IF w.kind = "klines" THEN KlineLimit + 1 ELSE PageLimit

Lowest(n, S) == {t \in S : Cardinality({r \in S : r < t}) < n}

\* A database per exchange and year.
Database(y) == {t \in raw : YearOf(t) = y}

\* The page with what the next year's database adds to it.
Fetched(w) ==
    w.page \cup Lowest(Limit(w) - Cardinality(w.page),
                       {t \in Database(w.year) : w.from <= t /\ t < Head(w.gaps).end})

PageEnds(w) ==
    Cardinality(Fetched(w)) = Limit(w) \/ w.year = YearOf(Head(w.gaps).end - 1)

\* FetchKlines asks one database after the other until the page is full.
FetchYear(q) ==
    /\ query[q].pc = "fetch"
    /\ ~PageEnds(query[q])
    /\ query' = [query EXCEPT ![q].page = Fetched(query[q]), ![q].year = @ + 1]
    /\ UNCHANGED <<storeVars, raw>>

\* The next page begins a candle behind the last row.
NextPage(w) == Max(Fetched(w)) + Step

\* A page came back and the gap goes on behind it.
FetchPage(q) ==
    LET w == query[q]
    IN  /\ w.pc = "fetch" /\ w.kind # "klines"
        /\ PageEnds(w) /\ Fetched(w) # {}
        /\ NextPage(w) < Head(w.gaps).end
        /\ query' = [query EXCEPT ![q].page = {}, ![q].rows = @ \cup Fetched(w),
                                  ![q].from = NextPage(w), ![q].year = YearOf(NextPage(w))]
        /\ UNCHANGED <<storeVars, raw>>

\* The rows of the gap are complete.
GapFetched(w) ==
    /\ w.pc = "fetch" /\ w.kind # "klines"
    /\ PageEnds(w)
    /\ Fetched(w) # {} => NextPage(w) >= Head(w.gaps).end

\* coverageWithRawFallback: the rows of the gap become segments; behind the last
\* gap everything is merged.  A segment that is cut inside a candle fails the call.
AddRawCoverage(q) ==
    LET w == query[q]
        gap == Head(w.gaps)
        found == coverageSegmentsFromKlineRows(gap.start, gap.end, w.rows \cup Fetched(w))
        next == [w EXCEPT !.covered = @ \cup found.segments, !.gaps = Tail(@)]
        merged == mergeCoverageForQuery(w.start, w.end, next.covered)
    IN  /\ GapFetched(w) /\ w.kind = "coverage"
        /\ query' = [query EXCEPT ![q] =
               IF ~found.ok \/ (next.gaps = <<>> /\ ~merged.ok) THEN [NoQuery EXCEPT !.pc = "failed"]
               ELSE IF next.gaps # <<>> THEN AtNextGap(next)
               ELSE Answered([next EXCEPT !.covered = merged.segments, !.rows = {}, !.page = {}])]
        /\ UNCHANGED <<storeVars, raw>>

AnswerValidation(q) ==
    LET w == query[q]  rows == w.rows \cup Fetched(w)
    IN  /\ GapFetched(w) /\ w.kind = "validate"
        /\ query' = [query EXCEPT ![q] =
               [w EXCEPT !.pc = "answered", !.rows = rows, !.page = {}, !.gaps = <<>>,
                         !.missing = ValidateKlineRows(w.start, w.end, rows)]]
        /\ UNCHANGED <<storeVars, raw>>

\* Faulty: the comparison is with the limit that was asked for, which nothing exceeds.
TruncatedBeyondAsked(w) == Cardinality(Fetched(w)) > Limit(w)

Truncated(w) == Cardinality(Fetched(w)) > KlineLimit

\* One row more than the limit was asked for, to tell whether there is more.
AnswerKlines(q) ==
    LET w == query[q]
    IN  /\ w.pc = "fetch" /\ w.kind = "klines"
        /\ PageEnds(w)
        /\ query' = [query EXCEPT ![q] =
               [w EXCEPT !.pc = "answered", !.rows = Lowest(KlineLimit, Fetched(w)),
                         !.page = {}, !.gaps = <<>>, !.truncated = Truncated(w)]]
        /\ UNCHANGED <<storeVars, raw>>

\* The caller has its answer, or the error of a database.
Return(q) ==
    /\ query[q].pc # "idle"
    /\ query' = [query EXCEPT ![q] = NoQuery]
    /\ UNCHANGED <<storeVars, raw>>

\* Scrapers and workers write the raw rows.
RowArrives(t) == t \notin raw /\ raw' = raw \cup {t} /\ UNCHANGED <<storeVars, query>>

-----------------------------------------------------------------------------
CoverageNext ==
    \/ StoreNext /\ UNCHANGED <<raw, query>>
    \/ \E t \in RawTick : RowArrives(t)
    \/ \E q \in Query :
        \/ \E w \in Window :
               \/ QueryMarketDataCoverage(q, w)
               \/ ValidateMarketDataCoverage(q, w)
               \/ QueryMarketDataKlines(q, w)
        \/ FetchYear(q) \/ FetchPage(q)
        \/ AddRawCoverage(q) \/ AnswerValidation(q) \/ AnswerKlines(q)
        \/ Return(q)

CoverageSpec == CoverageInit /\ [][CoverageNext]_coverageVars

-----------------------------------------------------------------------------
(* Properties *)

Answer(kind) == {w \in {query[q] : q \in Query} : w.pc = "answered" /\ w.kind = kind}
Asked(w) == w.start .. w.end - 1
Missing(w) == TicksOf(ToSet(w.missing))

\* Nobody is told of a candle that neither the index nor a raw row vouches for.
AnswerVouchedFor ==
    /\ \A w \in Answer("coverage") : TicksOf(w.covered) \subseteq Known(w.start, w.end)
    /\ \A w \in Answer("validate") : Asked(w) \ Missing(w) \subseteq Candles(raw)

\* A row off the grid that may be the last of a page hides the candle after it.
Hidden(t) == \E r \in raw : ~Aligned(r) /\ r < t /\ t < r + Step

\* A candle that was known when the call came is not called missing, and no row
\* of it is left out of a list that claims to be complete.  A row off the grid
\* breaks that for the candle behind it: a page that it ends is followed by one
\* that begins a step behind it.
AnswerMissesNothing ==
    /\ \A w \in Answer("coverage") \cup Answer("validate") : \A t \in Missing(w) \cap w.knew :
           Hidden(t - (t % Step))
    /\ \A w \in Answer("klines") : \A t \in w.knew \ w.rows :
           w.truncated /\ \A r \in w.rows : r < t

=============================================================================
