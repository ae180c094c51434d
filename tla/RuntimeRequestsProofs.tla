----------------------- MODULE RuntimeRequestsProofs -----------------------
(***************************************************************************)
(* What runtimes ask of the platform, for any number of handlers, methods, *)
(* pages, loads and failures: the check of the session, the reports on it, *)
(* the pages of klines, and the datasets of a debugger.                    *)
(***************************************************************************)
EXTENDS RuntimeRequests, FiniteSetTheorems, SequenceTheorems, WellFoundedInduction, TLAPS

-----------------------------------------------------------------------------
(* The methods *)

\* What the checks of the four reports are, in the table of all methods.
LEMMA ReportChecks ==
    /\ Report \subseteq DOMAIN Checks
    /\ Checks["SaveSession"] = {"portfolio", "ids"}
    /\ Checks["UpdateSession"] = {"ids", "owner"}
    /\ Checks["CreateSessionMarketDataSubscriptions"] = {"ids"}
    /\ Checks["ReleaseSessionMarketDataSubscriptions"] = {"ids", "owner"}
<1> DEFINE Others == Joined(PortfolioChecks, Joined(OrderChecks, Joined(LogChecks,
               Joined(NotificationChecks, Joined(DebugChecks, [Unsupported |-> {"never"}])))))
<1>1. /\ DOMAIN SessionChecks = {"SaveSession", "UpdateSession", "SaveStrategyIndicators"}
      /\ SessionChecks["SaveSession"] = {"portfolio", "ids"}
      /\ SessionChecks["UpdateSession"] = {"ids", "owner"}
  BY DEF SessionChecks
<1>2. /\ {"CreateSessionMarketDataSubscriptions", "ReleaseSessionMarketDataSubscriptions"}
            \subseteq DOMAIN MarketDataChecks
      /\ MarketDataChecks["CreateSessionMarketDataSubscriptions"] = {"ids"}
      /\ MarketDataChecks["ReleaseSessionMarketDataSubscriptions"] = {"ids", "owner"}
  BY DEF MarketDataChecks
<1>3. Checks = Joined(SessionChecks, Joined(MarketDataChecks, Others))
  BY DEF Checks
<1> HIDE DEF Others
<1> QED BY <1>1, <1>2, <1>3 DEF Joined, Report

-----------------------------------------------------------------------------
(* Types of handlers *)

Status == Reported \cup {"none"}

LEMMA NoCallTyped == NoCall \in CallType /\ NoCall.pc = "idle" /\ NoCall.op = "none" /\ NoCall.ok = FALSE
  BY DEF NoCall, CallType, Reported

LEMMA FaultCounted == ASSUME RequestsTypeOK, Fault \/ UNCHANGED faults PROVE faults' \in 0 .. MaxFaults
  BY RequestsAssumption DEF RequestsTypeOK, Fault

LEMMA StartsTyped ==
    ASSUME RequestsTypeOK, NEW h \in Handler, NEW op \in DOMAIN Checks, NEW status \in Status,
           NEW foreign \in BOOLEAN, NEW patch \in BOOLEAN,
           Starts(h, op, status, foreign, patch)
    PROVE  /\ call' \in [Handler -> CallType] /\ awaiting' \subseteq Handler
           /\ call[h].pc = "idle"
           /\ call'[h].pc = "check" /\ call'[h].op = op /\ call'[h].status = status
           /\ (call'[h].foreign <=> foreign) /\ ~call'[h].ok
           /\ call'[h].seen <=> session \in Active
           /\ \A g \in Handler \ {h} : call'[g] = call[g]
<1> DEFINE c == [NoCall EXCEPT !.pc = "check", !.op = op, !.status = status, !.foreign = foreign,
                               !.patch = patch, !.linked = TRUE, !.seen = session \in Active]
<1>1. c \in CallType
  <2> DEFINE d(seen) == [NoCall EXCEPT !.pc = "check", !.op = op, !.status = status,
                         !.foreign = foreign, !.patch = patch, !.linked = TRUE, !.seen = seen]
  <2>1. \A seen \in BOOLEAN : d(seen) \in CallType
    BY NoCallTyped DEF CallType, Status
  <2>2. c = d(session \in Active) /\ (session \in Active) \in BOOLEAN
    OBVIOUS
  <2> HIDE DEF d, c
  <2> QED BY <2>1, <2>2
<1>2. /\ c.pc = "check" /\ c.op = op /\ c.status = status
      /\ c.foreign = foreign /\ c.ok = FALSE
  BY DEF NoCall
<1>3. c.seen <=> session \in Active
  BY DEF NoCall
<1>4. call' = [call EXCEPT ![h] = c]
  BY DEF Starts
<1>5. call \in [Handler -> CallType] /\ awaiting' \subseteq Handler /\ call[h].pc = "idle"
  BY DEF Starts, RequestsTypeOK
<1> HIDE DEF c
<1> QED BY <1>1, <1>2, <1>3, <1>4, <1>5

\* A frame that is refused or failed is answered, or is over if it was a patch.
LEMMA RefusedTyped ==
    ASSUME RequestsTypeOK, NEW h \in Handler, call' = [call EXCEPT ![h] = Refused(h)]
    PROVE  /\ call' \in [Handler -> CallType]
           /\ \/ call'[h] = NoCall
              \/ /\ call'[h].pc = "answer" /\ call'[h].op = call[h].op
                 /\ call'[h].ok = call[h].ok /\ call'[h].foreign = call[h].foreign
                 /\ call'[h].seen = call[h].seen
           /\ \A g \in Handler \ {h} : call'[g] = call[g]
<1> DEFINE c == [call[h] EXCEPT !.pc = "answer"]
<1>1. /\ c \in CallType /\ c.pc = "answer" /\ c.op = call[h].op /\ c.ok = call[h].ok
      /\ c.foreign = call[h].foreign /\ c.seen = call[h].seen
  BY DEF RequestsTypeOK, CallType
<1>2. Refused(h) \in {NoCall, c}
  BY DEF Refused
<1>3. call \in [Handler -> CallType]
  BY DEF RequestsTypeOK
<1> HIDE DEF c
<1> QED BY <1>1, <1>2, <1>3, NoCallTyped

LEMMA ForwardedTyped ==
    ASSUME RequestsTypeOK, NEW h \in Handler, Forwarded(h)
    PROVE  /\ call' \in [Handler -> CallType]
           /\ \/ call'[h] = NoCall
              \/ /\ call'[h].pc = "answer" /\ call'[h].op = call[h].op /\ call'[h].ok
                 /\ call'[h].foreign = call[h].foreign /\ call'[h].seen = call[h].seen
           /\ \A g \in Handler \ {h} :
                 /\ call'[g].pc = call[g].pc /\ call'[g].op = call[g].op
                 /\ call'[g].status = call[g].status /\ call'[g].ok = call[g].ok
                 /\ call'[g].foreign = call[g].foreign
                 /\ call'[g].seen <=> call[g].seen \/ (call[g].pc # "idle" /\ session' \in Active)
<1> DEFINE c == [call[h] EXCEPT !.pc = "answer", !.ok = TRUE]
           s(g) == call[g].seen \/ (call[g].pc # "idle" /\ session' \in Active)
           d(g) == [call[g] EXCEPT !.seen = @ \/ (call[g].pc # "idle" /\ session' \in Active)]
<1>0. call \in [Handler -> CallType]
  BY DEF RequestsTypeOK
<1>1. /\ c \in CallType /\ c.pc = "answer" /\ c.op = call[h].op /\ c.ok
      /\ c.foreign = call[h].foreign /\ c.seen = call[h].seen
  BY <1>0 DEF CallType
<1>2. ASSUME NEW g \in Handler
      PROVE  /\ d(g) \in CallType /\ d(g).pc = call[g].pc /\ d(g).op = call[g].op
             /\ d(g).status = call[g].status /\ d(g).ok = call[g].ok
             /\ d(g).foreign = call[g].foreign /\ (d(g).seen <=> s(g))
  <2>1. d(g) = [call[g] EXCEPT !.seen = s(g)] /\ s(g) \in BOOLEAN
    BY <1>0 DEF CallType
  <2> HIDE DEF s, d
  <2> QED BY <1>0, <2>1 DEF CallType
<1>3. /\ call' = [g \in Handler |-> IF g = h THEN call'[h] ELSE d(g)]
      /\ call'[h] \in {NoCall, c}
  BY DEF Forwarded
<1>4. \A g \in Handler \ {h} : call'[g] = d(g)
  BY <1>3
<1>5. call' \in [Handler -> CallType]
  <2> HIDE DEF c, d
  <2> QED BY <1>1, <1>2, <1>3, NoCallTyped
<1>6. \A g \in Handler \ {h} :
         /\ call'[g].pc = call[g].pc /\ call'[g].op = call[g].op
         /\ call'[g].status = call[g].status /\ call'[g].ok = call[g].ok
         /\ call'[g].foreign = call[g].foreign /\ (call'[g].seen <=> s(g))
  <2> HIDE DEF c, d, s
  <2> QED BY <1>2, <1>4
<1>7. \/ call'[h] = NoCall
      \/ /\ call'[h].pc = "answer" /\ call'[h].op = call[h].op /\ call'[h].ok
         /\ call'[h].foreign = call[h].foreign /\ call'[h].seen = call[h].seen
  <2> HIDE DEF c, d, s
  <2> QED BY <1>1, <1>3
<1> QED BY <1>5, <1>6, <1>7

\* The handler is done: an answer was sent, or could not be.
LEMMA AnsweredTyped ==
    ASSUME RequestsTypeOK, NEW h \in Handler, HandleRuntimeRequest(h)
    PROVE  /\ call' \in [Handler -> CallType] /\ awaiting' \subseteq Handler
           /\ call'[h] = NoCall
           /\ \A g \in Handler \ {h} : call'[g] = call[g]
  BY NoCallTyped DEF RequestsTypeOK, HandleRuntimeRequest, AnswersCall

LEMMA UnlinkedTyped ==
    ASSUME RequestsTypeOK, StreamEnds
    PROVE  /\ call' \in [Handler -> CallType] /\ awaiting' = {}
           /\ \A g \in Handler :
                 /\ call'[g].pc = call[g].pc /\ call'[g].op = call[g].op
                 /\ call'[g].status = call[g].status /\ call'[g].ok = call[g].ok
                 /\ call'[g].foreign = call[g].foreign /\ call'[g].seen = call[g].seen
<1> DEFINE d(g) == [call[g] EXCEPT !.linked = FALSE]
<1>1. ASSUME NEW g \in Handler
      PROVE  /\ d(g) \in CallType /\ d(g).pc = call[g].pc /\ d(g).op = call[g].op
             /\ d(g).status = call[g].status /\ d(g).ok = call[g].ok
             /\ d(g).foreign = call[g].foreign /\ d(g).seen = call[g].seen
  BY DEF RequestsTypeOK, CallType
<1>2. call' = [g \in Handler |-> d(g)] /\ awaiting' = {}
  BY DEF StreamEnds
<1> HIDE DEF d
<1> QED BY <1>1, <1>2

-----------------------------------------------------------------------------
(* Pages of klines *)

LEMMA TicksFinite ==
    ASSUME NEW S \in SUBSET Tick
    PROVE  IsFiniteSet(S) /\ Cardinality(S) \in Nat
<1>1. IsFiniteSet(Tick)
  BY PagesAssumption, FS_Interval DEF Tick
<1> QED BY <1>1, FS_Subset, FS_CardinalityType

LEMMA LeastTick ==
    ASSUME NEW S \in SUBSET Tick, S # {}
    PROVE  \E t \in S : \A u \in S : t <= u
<1>1. S \subseteq Nat
  BY PagesAssumption DEF Tick
<1>2. PICK t \in S : \A u \in S : ~(<<u, t>> \in OpToRel(<, Nat))
  BY <1>1, NatLessThanWellFounded, WFMin
<1>3. \A u \in S : ~(u < t)
  BY <1>1, <1>2 DEF OpToRel
<1> QED BY <1>1, <1>3

LEMMA MaxOfTicks ==
    ASSUME NEW S \in SUBSET Tick, S # {}
    PROVE  Max(S) \in S /\ Max(S) \in Tick /\ \A t \in S : t <= Max(S)
<1> DEFINE T == {MaxTick + 1 - t : t \in S}
<1>1. \A t \in S : t \in 1 .. MaxTick
  BY DEF Tick
<1>2. T \in SUBSET Tick /\ T # {}
  <2>1. MaxTick \in Nat
    BY PagesAssumption
  <2>2. ASSUME NEW t \in S PROVE MaxTick + 1 - t \in Tick
    <3>1. t \in Int /\ 1 <= t /\ t <= MaxTick
      BY <1>1, <2>1
    <3> QED BY <2>1, <3>1 DEF Tick
  <2> QED BY <2>2
<1>3. PICK v \in T : \A w \in T : v <= w
  BY <1>2, LeastTick
<1>4. PICK m \in S : v = MaxTick + 1 - m
  OBVIOUS
<1>5. \A t \in S : m >= t
  <2> SUFFICES ASSUME NEW t \in S PROVE m >= t
    OBVIOUS
  <2>1. MaxTick + 1 - m <= MaxTick + 1 - t
    BY <1>3, <1>4
  <2> QED BY <1>1, <2>1, PagesAssumption
<1>6. Max(S) \in S /\ \A t \in S : Max(S) >= t
  BY <1>5 DEF Max
<1> QED BY <1>1, <1>6 DEF Tick

\* A fetch returns some rows, and no more than it was asked for.
LEMMA ClampedTyped ==
    ASSUME NEW limit \in Nat \ {0}
    PROVE  /\ Clamped(limit) \in Nat \ {0} /\ Clamped(limit) \in {limit, MaxFetchLimit}
           /\ limit <= MaxFetchLimit => Clamped(limit) = limit
  BY PagesAssumption DEF Clamped

\* A page holds the first rows from its start on: no row before its last one is left out.
LEMMA PageIsPrefix ==
    ASSUME PagesTypeOK, NEW k \in Stream, NEW from \in Nat, NEW limit \in Nat \ {0}
    PROVE  /\ FetchKlines(k, from, limit) \subseteq rows[k] /\ rows[k] \in SUBSET Tick
           /\ FetchKlines(k, from, limit) \in SUBSET Tick
           /\ \A t \in FetchKlines(k, from, limit), u \in rows[k] :
                 from <= u /\ u <= t => u \in FetchKlines(k, from, limit)
<1> DEFINE upto(t) == {u \in rows[k] : from <= u /\ u <= t}
<1>1. rows[k] \in SUBSET Tick /\ Tick \subseteq Nat
  BY PagesAssumption DEF PagesTypeOK, Tick
<1>2. FetchKlines(k, from, limit) =
          {t \in rows[k] : t >= from /\ Cardinality(upto(t)) <= Clamped(limit)}
  BY DEF FetchKlines
<1>3. ASSUME NEW t \in FetchKlines(k, from, limit), NEW u \in rows[k], from <= u, u <= t
      PROVE  u \in FetchKlines(k, from, limit)
  <2>1. t \in rows[k] /\ t \in Nat /\ u \in Nat
    BY <1>1, <1>2
  <2>2. upto(u) \subseteq upto(t)
    <3> SUFFICES ASSUME NEW x \in rows[k], from <= x, x <= u PROVE x <= t
      OBVIOUS
    <3>1. x \in Nat
      BY <1>1
    <3> QED BY <1>3, <2>1, <3>1
  <2>3. upto(t) \in SUBSET Tick /\ upto(u) \in SUBSET Tick
    BY <1>1
  <2>4. Cardinality(upto(u)) <= Cardinality(upto(t))
    BY <2>2, <2>3, TicksFinite, FS_Subset
  <2>5. Cardinality(upto(u)) \in Nat /\ Cardinality(upto(t)) \in Nat
    BY <2>3, TicksFinite
  <2>6. Cardinality(upto(t)) <= Clamped(limit)
    BY <1>2
  <2>7. Cardinality(upto(u)) <= Clamped(limit)
    BY <2>4, <2>5, <2>6, ClampedTyped
  <2> QED BY <1>1, <1>2, <1>3, <2>1, <2>7
<1> HIDE DEF upto
<1>4. FetchKlines(k, from, limit) \subseteq rows[k]
  BY <1>2
<1> QED BY <1>1, <1>3, <1>4

\* A page that is shorter than the fetch allowed has every row from its start on.
LEMMA ShortPageIsAll ==
    ASSUME PagesTypeOK, NEW k \in Stream, NEW from \in Nat, NEW limit \in Nat \ {0},
           Cardinality(FetchKlines(k, from, limit)) < Clamped(limit)
    PROVE  \A t \in rows[k] : t >= from => t \in FetchKlines(k, from, limit)
<1> DEFINE page == FetchKlines(k, from, limit)
           upto(t) == {u \in rows[k] : from <= u /\ u <= t}
           left == {t \in rows[k] : t >= from /\ t \notin page}
<1>1. rows[k] \in SUBSET Tick /\ Tick \subseteq Nat /\ page \in SUBSET Tick
  BY PagesAssumption, PageIsPrefix DEF PagesTypeOK, Tick
<1>2. page = {t \in rows[k] : t >= from /\ Cardinality(upto(t)) <= Clamped(limit)}
  BY DEF FetchKlines
<1>3. SUFFICES ASSUME left # {} PROVE FALSE
  OBVIOUS
<1>4. PICK t \in left : \A u \in left : t <= u
  <2>1. left \in SUBSET Tick
    BY <1>1
  <2> HIDE DEF left
  <2> QED BY <1>3, <2>1, LeastTick
<1>5. upto(t) \subseteq page \cup {t}
  <2> SUFFICES ASSUME NEW u \in rows[k], from <= u, u <= t, u # t, u \notin page PROVE FALSE
    OBVIOUS
  <2>1. u \in Nat /\ t \in Nat
    BY <1>1, <1>4
  <2>2. u \in left
    BY <2>1
  <2>3. t <= u
    BY <1>4, <2>2
  <2> QED BY <2>1, <2>3
<1>6. IsFiniteSet(page) /\ Cardinality(page) \in Nat
  BY <1>1, TicksFinite
<1>7. upto(t) \in SUBSET Tick
  BY <1>1
<1>8. Cardinality(upto(t)) \in Nat
  BY <1>7, TicksFinite
<1>9. t \notin page /\ t \in rows[k] /\ t >= from
  BY <1>4
<1>10. Cardinality(upto(t)) <= Cardinality(page) + 1
  <2> HIDE DEF page, upto
  <2>1. IsFiniteSet(page \cup {t}) /\ Cardinality(page \cup {t}) = Cardinality(page) + 1
    BY <1>6, <1>9, FS_AddElement
  <2> QED BY <1>5, <2>1, FS_Subset
<1>11. Cardinality(upto(t)) <= Clamped(limit)
  <2> HIDE DEF upto
  <2> QED BY <1>6, <1>8, <1>10, ClampedTyped
<1> QED BY <1>2, <1>9, <1>11

\* No page is longer than a fetch allows.
LEMMA PageSizeKept ==
    ASSUME PagesTypeOK, NEW k \in Stream, NEW from \in Nat, NEW limit \in Nat \ {0}
    PROVE  /\ Cardinality(FetchKlines(k, from, limit)) \in Nat
           /\ Cardinality(FetchKlines(k, from, limit)) <= Clamped(limit)
<1> DEFINE page == FetchKlines(k, from, limit)
           upto(t) == {u \in rows[k] : from <= u /\ u <= t}
<1>1. page \in SUBSET Tick /\ page \subseteq rows[k] /\ rows[k] \in SUBSET Tick
  BY PageIsPrefix
<1>2. page = {t \in rows[k] : t >= from /\ Cardinality(upto(t)) <= Clamped(limit)}
  BY DEF FetchKlines
<1>3. Cardinality(page) \in Nat
  BY <1>1, TicksFinite
<1>4. CASE page = {}
  BY <1>4, FS_EmptySet, ClampedTyped
<1>5. CASE page # {}
  <2> DEFINE m == Max(page)
  <2>1. m \in page /\ \A t \in page : t <= m
    <3> HIDE DEF page
    <3> QED BY <1>1, <1>5, MaxOfTicks
  <2> HIDE DEF m
  <2>2. page \subseteq upto(m) /\ upto(m) \in SUBSET Tick
    <3>1. \A t \in page : t \in Nat /\ t >= from
      BY <1>1, <1>2, PagesAssumption DEF Tick
    <3>2. \A t \in page : from <= t
      BY <3>1
    <3> QED BY <1>1, <2>1, <3>2
  <2>3. Cardinality(upto(m)) <= Clamped(limit)
    BY <1>2, <2>1
  <2>4. IsFiniteSet(upto(m)) /\ Cardinality(upto(m)) \in Nat
    BY <2>2, TicksFinite
  <2>5. Cardinality(page) <= Cardinality(upto(m))
    <3> HIDE DEF page, upto
    <3> QED BY <2>2, <2>4, FS_Subset
  <2> QED BY <1>3, <2>3, <2>4, <2>5, ClampedTyped
<1> QED BY <1>3, <1>4, <1>5

-----------------------------------------------------------------------------
(* Types *)

LEMMA NoDeliveryTyped ==
    /\ NoDelivery \in DeliveryType /\ NoDelivery.st = "none" /\ NoDelivery.due = {}
    /\ NoBacktest \in BacktestType /\ NoBacktest.st = "none" /\ NoBacktest.due = {}
  BY PagesAssumption DEF NoDelivery, NoBacktest, DeliveryType, BacktestType

\* Where a delivery goes on after a page.
LEMMA PageDeliveredTyped ==
    ASSUME PagesTypeOK, NEW h \in Handler, PageDelivered(h)
    PROVE  PagesTypeOK'
<1> DEFINE k == delivery[h].stream
           page == FetchKlines(k, delivery[h].next, ChunkSize)
           over == page = {} \/ LastPage(page)
           stream == IF over THEN k + 1 ELSE k
           next == IF over THEN 1 ELSE NextStart(page)
           due == delivery[h].due \ Chunk(k, page)
           d == [delivery[h] EXCEPT !.due = due, !.stream = stream, !.next = next]
<1>1. k \in Stream /\ delivery[h] \in DeliveryType /\ delivery[h].next \in Nat
  <2>1. delivery[h] \in DeliveryType /\ k \in Stream
    BY DEF PageDelivered, PagesTypeOK
  <2>2. delivery[h].next \in 1 .. (MaxTick + 1)
    BY <2>1 DEF DeliveryType
  <2> QED BY <2>1, <2>2, PagesAssumption
<1>2. page \in SUBSET Tick
  BY <1>1, PageIsPrefix, PagesAssumption
<1>3. stream \in 1 .. (MaxStream + 1)
  BY <1>1, PagesAssumption DEF Stream
<1>4. next \in 1 .. (MaxTick + 1)
  <2>1. CASE over
    BY <2>1, PagesAssumption
  <2>2. CASE ~over
    <3> HIDE DEF page
    <3>1. Max(page) \in Tick
      BY <1>2, <2>2, MaxOfTicks
    <3> QED BY <2>2, <3>1, PagesAssumption DEF NextStart, LastPage, Tick
  <2> QED BY <2>1, <2>2
<1>5. due \in SUBSET (Stream \X Tick)
  BY <1>1 DEF DeliveryType
<1>6. d \in DeliveryType
  <2> HIDE DEF stream, next, due
  <2> QED BY <1>1, <1>3, <1>4, <1>5 DEF DeliveryType
<1>7. delivery' = [delivery EXCEPT ![h] = d] /\ UNCHANGED <<rows, backtest>>
  BY DEF PageDelivered
<1> HIDE DEF d
<1> QED BY <1>6, <1>7 DEF PagesTypeOK

LEMMA DeliveryTyped ==
    ASSUME PagesTypeOK, NEW h \in Handler,
           \/ DeliveryBegins(h) \/ PageDelivered(h) \/ EndChunkDelivered(h) \/ DeliveryOver(h)
    PROVE  PagesTypeOK'
<1>1. CASE DeliveryBegins(h)
  <2> DEFINE stored == {row \in Stream \X Tick : row[2] \in rows[row[1]]}
             d == [NoDelivery EXCEPT !.st = "paging", !.due = stored]
  <2>1. d \in DeliveryType
    BY NoDeliveryTyped DEF DeliveryType
  <2> QED BY <1>1, <2>1 DEF DeliveryBegins, PagesTypeOK
<1>2. CASE EndChunkDelivered(h)
  <2>1. [delivery[h] EXCEPT !.st = "ended"] \in DeliveryType
    BY DEF PagesTypeOK, DeliveryType
  <2> QED BY <1>2, <2>1 DEF EndChunkDelivered, PagesTypeOK
<1>3. CASE DeliveryOver(h)
  BY <1>3, NoDeliveryTyped DEF DeliveryOver, PagesTypeOK
<1> QED BY <1>1, <1>2, <1>3, PageDeliveredTyped

LEMMA BacktestTyped ==
    ASSUME PagesTypeOK, StoreKline \/ BacktestBegins \/ BacktestPageFetched \/ BacktestPageRead
    PROVE  PagesTypeOK'
<1>0. 1 \in Stream
  BY PagesAssumption DEF Stream
<1>1. CASE StoreKline
  BY <1>1 DEF StoreKline, PagesTypeOK
<1>2. CASE BacktestBegins
  <2>1. rows[1] \in SUBSET Tick
    BY <1>0 DEF PagesTypeOK
  <2>2. [NoBacktest EXCEPT !.st = "reading", !.due = rows[1]] \in BacktestType
    BY <2>1, NoDeliveryTyped DEF BacktestType
  <2> QED BY <1>2, <2>2 DEF BacktestBegins, PagesTypeOK
<1>3. CASE BacktestPageFetched
  <2>1. backtest \in BacktestType /\ backtest.after + 1 \in Nat
    BY DEF PagesTypeOK, BacktestType
  <2> DEFINE page == FetchKlines(1, backtest.after + 1, BacktestPageSize)
  <2>2. page \in SUBSET Tick
    BY <1>0, <2>1, PageIsPrefix, PagesAssumption
  <2>3. backtest' = [backtest EXCEPT !.page = page] /\ UNCHANGED <<rows, delivery>>
    BY <1>3 DEF BacktestPageFetched
  <2> HIDE DEF page
  <2>4. backtest' \in BacktestType
    BY <2>1, <2>2, <2>3 DEF BacktestType
  <2> QED BY <2>3, <2>4 DEF PagesTypeOK
<1>4. CASE BacktestPageRead
  <2>1. backtest \in BacktestType /\ backtest.page \in SUBSET Tick
    BY DEF PagesTypeOK, BacktestType
  <2>2. NextCursor(backtest.page) \in 0 .. MaxTick
    BY <2>1, MaxOfTicks, PagesAssumption DEF NextCursor, Tick
  <2>3. /\ backtest' = [backtest EXCEPT !.page = {}, !.due = @ \ backtest.page,
                           !.cut = Cardinality(backtest.page) = MaxFetchLimit,
                           !.after = NextCursor(backtest.page),
                           !.st = IF HasMore(backtest.page) THEN "reading" ELSE "read"]
        /\ UNCHANGED <<rows, delivery>>
    BY <1>4 DEF BacktestPageRead
  <2>4. backtest' \in BacktestType
    BY <2>1, <2>2, <2>3 DEF BacktestType
  <2> QED BY <2>3, <2>4 DEF PagesTypeOK
<1> QED BY <1>1, <1>2, <1>3, <1>4

\* A load under way has its dataset.
LoadsNamed == \A l \in Loader : load[l].pc # "idle" => load[l].of \in Dataset

LEMMA NoLoadTyped == NoLoad \in LoadType /\ NoLoad.pc = "idle"
  BY DEF NoLoad, LoadType

\* The loads that a result is for: those that wait for dataset d.
LEMMA AnsweredLoads ==
    ASSUME DebugTypeOK, NEW d, NEW pc \in {"active", "failed"}, Answered(d, pc)
    PROVE  /\ load' \in [Loader -> LoadType]
           /\ \A l \in Loader :
                 /\ load'[l].of = load[l].of
                 /\ load'[l].pc = IF load[l].pc = "wait" /\ load[l].of = d THEN pc ELSE load[l].pc
<1> DEFINE e(l) == [load[l] EXCEPT !.pc = pc]
<1>1. ASSUME NEW l \in Loader
      PROVE  /\ load[l] \in LoadType /\ e(l) \in LoadType
             /\ e(l).pc = pc /\ e(l).of = load[l].of
  BY DEF DebugTypeOK, LoadType
<1>2. load' = [l \in Loader |-> IF load[l].pc = "wait" /\ load[l].of = d THEN e(l) ELSE load[l]]
  BY DEF Answered
<1> HIDE DEF e
<1> QED BY <1>1, <1>2

LEMMA DisconnectedLoads ==
    ASSUME DebugTypeOK, LoadsDisconnected
    PROVE  /\ load' \in [Loader -> LoadType] /\ command' = << >>
           /\ \A l \in Loader :
                 /\ load'[l].of = load[l].of
                 /\ load'[l].pc = IF load[l].pc = "wait" THEN "failed" ELSE load[l].pc
<1> DEFINE e(l) == [load[l] EXCEPT !.pc = "failed"]
<1>1. ASSUME NEW l \in Loader
      PROVE  /\ load[l] \in LoadType /\ e(l) \in LoadType
             /\ e(l).pc = "failed" /\ e(l).of = load[l].of
  BY DEF DebugTypeOK, LoadType
<1>2. /\ load' = [l \in Loader |-> IF load[l].pc = "wait" THEN e(l) ELSE load[l]]
      /\ command' = << >>
  BY DEF LoadsDisconnected
<1> HIDE DEF e
<1> QED BY <1>1, <1>2

\* What a step of a loader makes of its load.
LEMMA LoadTyped ==
    ASSUME DebugTypeOK, NEW l \in Loader
    PROVE  /\ LoadDebugDataset(l) => /\ load' \in [Loader -> LoadType]
                                     /\ load'[l].pc = "send" /\ load'[l].of \in Dataset
                                     /\ stamped' \in 0 .. MaxLoad
           /\ SendLoadCommand(l) => /\ load' \in [Loader -> LoadType]
                                    /\ load'[l].pc = "wait" /\ load'[l].of = load[l].of
           /\ LoadFindsNoStream(l) \/ SendLoadFails(l) =>
                 /\ load' \in [Loader -> LoadType]
                 /\ load'[l].pc = "failed" /\ load'[l].of = load[l].of
           /\ LoadTimesOut(l) \/ ReplaceActiveDebugDataset(l) \/ ReplaceFails(l) =>
                 load' \in [Loader -> LoadType] /\ load'[l] = NoLoad
           /\ \/ LoadDebugDataset(l) \/ SendLoadCommand(l)
              \/ LoadFindsNoStream(l) \/ SendLoadFails(l) \/ LoadTimesOut(l)
              \/ ReplaceActiveDebugDataset(l) \/ ReplaceFails(l)
              => \A k \in Loader \ {l} : load'[k] = load[k]
<1>0. load \in [Loader -> LoadType] /\ load[l] \in LoadType
  BY DEF DebugTypeOK
<1>1. ASSUME LoadDebugDataset(l)
      PROVE  /\ load' \in [Loader -> LoadType]
             /\ load'[l].pc = "send" /\ load'[l].of \in Dataset
             /\ stamped' \in 0 .. MaxLoad
  <2>1. stamped + 1 \in Dataset /\ stamped' \in 0 .. MaxLoad
    BY <1>1, DebugAssumption DEF LoadDebugDataset, DebugTypeOK, Dataset
  <2>2. load' = [load EXCEPT ![l] = [pc |-> "send", of |-> stamped + 1]]
    BY <1>1 DEF LoadDebugDataset
  <2> QED BY <1>0, <2>1, <2>2 DEF LoadType
<1>2. ASSUME SendLoadCommand(l)
      PROVE  /\ load' \in [Loader -> LoadType]
             /\ load'[l].pc = "wait" /\ load'[l].of = load[l].of
  BY <1>0, <1>2 DEF SendLoadCommand, LoadType
<1>3. ASSUME LoadTimesOut(l) \/ ReplaceActiveDebugDataset(l) \/ ReplaceFails(l)
      PROVE  load' \in [Loader -> LoadType] /\ load'[l] = NoLoad
  BY <1>0, <1>3, NoLoadTyped DEF LoadTimesOut, ReplaceActiveDebugDataset, ReplaceFails
<1>4. ASSUME LoadFindsNoStream(l) \/ SendLoadFails(l)
      PROVE  /\ load' \in [Loader -> LoadType]
             /\ load'[l].pc = "failed" /\ load'[l].of = load[l].of
  BY <1>0, <1>4 DEF LoadFindsNoStream, SendLoadFails, LoadType
<1>5. ASSUME \/ LoadDebugDataset(l) \/ SendLoadCommand(l)
             \/ LoadFindsNoStream(l) \/ SendLoadFails(l) \/ LoadTimesOut(l)
             \/ ReplaceActiveDebugDataset(l) \/ ReplaceFails(l),
             NEW k \in Loader \ {l}
      PROVE  load'[k] = load[k]
  BY <1>0, <1>5 DEF LoadDebugDataset, SendLoadCommand, LoadFindsNoStream, SendLoadFails,
                    LoadTimesOut, ReplaceActiveDebugDataset, ReplaceFails
<1> QED BY <1>1, <1>2, <1>3, <1>4, <1>5

LEMMA DebugTyped ==
    ASSUME DebugTypeOK, LoadsNamed, DebugNext
    PROVE  DebugTypeOK' /\ LoadsNamed'
<1>1. ASSUME NEW l \in Loader, LoadDebugDataset(l) PROVE DebugTypeOK' /\ LoadsNamed'
  <2>1. load' \in [Loader -> LoadType] /\ stamped' \in 0 .. MaxLoad /\ calm' \in BOOLEAN
    BY <1>1, LoadTyped DEF LoadDebugDataset
  <2>2. LoadsNamed'
    BY <1>1, LoadTyped DEF LoadsNamed
  <2> QED BY <1>1, <2>1, <2>2 DEF LoadDebugDataset, DebugTypeOK
<1>2. ASSUME NEW l \in Loader,
             SendLoadCommand(l) \/ LoadFindsNoStream(l) \/ SendLoadFails(l)
      PROVE  DebugTypeOK' /\ LoadsNamed'
  <2>1. load[l].of \in Dataset /\ load[l].pc # "idle"
    BY <1>2 DEF SendLoadCommand, LoadFindsNoStream, SendLoadFails, LoadsNamed
  <2>2. load' \in [Loader -> LoadType] /\ LoadsNamed'
    BY <1>2, <2>1, LoadTyped DEF LoadsNamed
  <2>3. command' \in Seq(Dataset)
    BY <1>2, <2>1 DEF SendLoadCommand, LoadFindsNoStream, SendLoadFails, LoadPayload, DebugTypeOK
  <2> QED BY <1>2, <2>2, <2>3 DEF SendLoadCommand, LoadFindsNoStream, SendLoadFails, DebugTypeOK
<1>3. ASSUME NEW l \in Loader, LoadTimesOut(l) \/ ReplaceActiveDebugDataset(l) \/ ReplaceFails(l)
      PROVE  DebugTypeOK' /\ LoadsNamed'
  <2>1. load' \in [Loader -> LoadType] /\ LoadsNamed'
    BY <1>3, LoadTyped, NoLoadTyped DEF LoadsNamed
  <2>2. calm' \in BOOLEAN /\ UNCHANGED <<connected, stamped, command, memory, workspace>>
    BY <1>3 DEF LoadTimesOut, ReplaceActiveDebugDataset, ReplaceFails, DebugTypeOK
  <2>3. dataset' \in [Dataset -> {"none", "active", "lost", "failed"}]
    BY <1>3 DEF LoadTimesOut, ReplaceActiveDebugDataset, Replaced, ReplaceFails, DebugTypeOK
  <2> QED BY <2>1, <2>2, <2>3 DEF DebugTypeOK
<1>4. CASE RuntimeLoads \/ RuntimeRefusesLoad
  <2>1. Head(command) \in Dataset /\ Tail(command) \in Seq(Dataset)
    BY <1>4 DEF RuntimeLoads, RuntimeRefusesLoad, DebugTypeOK
  <2>2. load' \in [Loader -> LoadType] /\ LoadsNamed'
    BY <1>4, AnsweredLoads DEF RuntimeLoads, RuntimeRefusesLoad, LoadsNamed
  <2> QED BY <1>4, <2>1, <2>2 DEF RuntimeLoads, RuntimeRefusesLoad, DebugTypeOK
<1>5. CASE PrepareDebugWorkspace
  <2>1. workspace' \in WorkspaceState
    BY <1>5 DEF PrepareDebugWorkspace, SaveDebugWorkspaceState, MarkDebugWorkspaceError,
                DebugTypeOK, WorkspaceState
  <2> QED BY <1>5, <2>1 DEF PrepareDebugWorkspace, SaveDebugWorkspaceState,
                            MarkDebugWorkspaceError, DebugTypeOK, LoadsNamed
<1> QED BY <1>1, <1>2, <1>3, <1>4, <1>5 DEF DebugNext

RequestsInv == RequestsTypeOK /\ LoadsNamed

LEMMA RequestsInit == Init => RequestsInv
<1> SUFFICES ASSUME Init PROVE RequestsInv
  OBVIOUS
<1>1. PagesTypeOK
  BY NoDeliveryTyped DEF Init, PagesInit, PagesTypeOK
<1>2. DebugTypeOK /\ LoadsNamed
  BY NoLoadTyped, DebugAssumption DEF Init, DebugInit, DebugTypeOK, LoadsNamed, WorkspaceState
<1> QED BY <1>1, <1>2, NoCallTyped, RequestsAssumption DEF Init, RequestsTypeOK, RequestsInv, Reported

LEMMA ReportsTyped ==
    ASSUME RequestsTypeOK, NEW h \in Handler, NEW op \in Report, NEW status \in Status,
           NEW stream \in BOOLEAN, NEW patch \in BOOLEAN,
           Reports(h, op, status, stream, patch)
    PROVE  RequestsTypeOK'
<1>1. op \in DOMAIN Checks
  BY ReportChecks
<1>2. call' \in [Handler -> CallType] /\ awaiting' \subseteq Handler
  BY <1>1, StartsTyped DEF Reports
<1>3. told' \in [status : Reported \cup {"none"}, stream : BOOLEAN]
  BY DEF Reports, Status
<1> QED BY <1>2, <1>3 DEF Reports, RequestsTypeOK, coreVars, pageVars, debugVars, PagesTypeOK,
                          DebugTypeOK

LEMMA SendsTyped ==
    ASSUME RequestsTypeOK, NEW h \in Handler, Sends(h)
    PROVE  RequestsTypeOK' /\ UNCHANGED debugVars
<1>0. told.stream \in BOOLEAN /\ told.status \in Status
  BY DEF RequestsTypeOK, Status
<1>1. CASE SendSaveSession(h) \/ SendStatus(h) \/ SendSubscribe(h) \/ SendRelease(h)
  <2>1. \E op \in Report, status \in Status, stream \in BOOLEAN, patch \in BOOLEAN :
           Reports(h, op, status, stream, patch)
    BY <1>0, <1>1 DEF SendSaveSession, SendStatus, SendSubscribe, SendRelease, Report, Status,
                      Reported
  <2> QED BY <2>1, ReportsTyped DEF Reports
<1>2. ASSUME NEW op \in Method, NEW foreign \in BOOLEAN, SendRequest(h, op, foreign)
      PROVE  RequestsTypeOK' /\ UNCHANGED debugVars
  <2>1. call' \in [Handler -> CallType] /\ awaiting' \subseteq Handler
    BY <1>2, StartsTyped, RequestsAssumption DEF SendRequest, Status
  <2> QED BY <1>2, <2>1 DEF SendRequest, RequestsTypeOK, coreVars, historyVars, pageVars,
                            debugVars, PagesTypeOK, DebugTypeOK
<1> QED BY <1>1, <1>2 DEF Sends

LEMMA HandlesTyped ==
    ASSUME RequestsTypeOK, NEW h \in Handler, Handles(h)
    PROVE  RequestsTypeOK' /\ UNCHANGED debugVars
<1>1. CASE DispatchRuntimeRequest(h)
  <2>1. [call[h] EXCEPT !.pc = "forward"] \in CallType
    BY DEF RequestsTypeOK, CallType
  <2>2. call' \in [Handler -> CallType]
    BY <1>1, <2>1, RefusedTyped DEF DispatchRuntimeRequest, RequestsTypeOK
  <2> QED BY <1>1, <2>2 DEF DispatchRuntimeRequest, RequestsTypeOK, coreVars, historyVars,
                            pageVars, debugVars, PagesTypeOK, DebugTypeOK
<1>2. CASE \/ SaveSession(h) \/ UpdateSession(h) \/ CreateSessionMarketDataSubscriptions(h)
           \/ ReleaseSessionMarketDataSubscriptions(h) \/ AnswersOnly(h)
  <2>1. call' \in [Handler -> CallType]
    BY <1>2, ForwardedTyped DEF SaveSession, UpdateSession, CreateSessionMarketDataSubscriptions,
                                ReleaseSessionMarketDataSubscriptions, AnswersOnly
  <2>2. session' \in Reported \cup {"none"} /\ sub' \in {"none", "active", "released"}
    <3>1. call[h].status \in Reported \cup {"none"}
      BY DEF RequestsTypeOK, CallType
    <3> QED BY <1>2, <3>1 DEF SaveSession, UpdateSession, WritesStatus,
               CreateSessionMarketDataSubscriptions, ReleaseSessionMarketDataSubscriptions,
               AnswersOnly, coreVars, RequestsTypeOK, Reported
  <2>3. UNCHANGED <<use, connected, awaiting, historyVars, faults, pageVars, debugVars>>
    BY <1>2 DEF SaveSession, UpdateSession, CreateSessionMarketDataSubscriptions,
                ReleaseSessionMarketDataSubscriptions, AnswersOnly
  <2> QED BY <2>1, <2>2, <2>3 DEF RequestsTypeOK, historyVars, pageVars, debugVars, PagesTypeOK,
                                  DebugTypeOK
<1>3. CASE DeliverDataset(h)
  <2>1. call' \in [Handler -> CallType]
    BY <1>3, ForwardedTyped DEF DeliverDataset, RequestsTypeOK
  <2>2. PagesTypeOK'
    BY <1>3, DeliveryTyped DEF DeliverDataset, RequestsTypeOK
  <2> QED BY <1>3, <2>1, <2>2 DEF DeliverDataset, RequestsTypeOK, coreVars, historyVars,
                                  debugVars, DebugTypeOK
<1>4. CASE FetchBacktestPage(h)
  <2>1. call' \in [Handler -> CallType]
    BY <1>4, ForwardedTyped DEF FetchBacktestPage
  <2>2. PagesTypeOK'
    BY <1>4, BacktestTyped DEF FetchBacktestPage, RequestsTypeOK
  <2> QED BY <1>4, <2>1, <2>2 DEF FetchBacktestPage, RequestsTypeOK, historyVars, debugVars,
                                  DebugTypeOK
<1>5. CASE HandleRuntimeRequest(h)
  <2>1. call' \in [Handler -> CallType] /\ awaiting' \subseteq Handler
    BY <1>5, AnsweredTyped
  <2>2. PagesTypeOK'
    BY <1>5, BacktestTyped DEF HandleRuntimeRequest, RequestsTypeOK, pageVars, PagesTypeOK
  <2> QED BY <1>5, <2>1, <2>2 DEF HandleRuntimeRequest, RequestsTypeOK, coreVars, historyVars,
                                  debugVars, DebugTypeOK
<1> QED BY <1>1, <1>2, <1>3, <1>4, <1>5 DEF Handles, Serves

LEMMA ErrsTyped ==
    ASSUME RequestsTypeOK, NEW h \in Handler, GivesUp(h)
    PROVE  RequestsTypeOK' /\ UNCHANGED debugVars
<1>1. Errs(h) /\ (Fault \/ UNCHANGED faults)
  BY DEF GivesUp, CheckFails, ForwardFails, DeadlinePasses, Cancelled
<1>2. call' \in [Handler -> CallType] /\ faults' \in 0 .. MaxFaults
  BY <1>1, RefusedTyped, FaultCounted DEF Errs
<1>3. PagesTypeOK'
  BY <1>1, DeliveryTyped DEF Errs, RequestsTypeOK, pageVars, PagesTypeOK
<1>4. orderly' \in BOOLEAN
  BY <1>1 DEF Errs, RequestsTypeOK
<1> QED BY <1>1, <1>2, <1>3, <1>4 DEF Errs, RequestsTypeOK, coreVars, debugVars, DebugTypeOK

LEMMA BesideTyped ==
    ASSUME RequestsInv, StreamEnds \/ StreamComesBack \/ KlineStored \/ BacktestStarts \/ DebuggerSteps
    PROVE  RequestsInv'
<1>1. CASE StreamEnds
  <2>1. load' \in [Loader -> LoadType] /\ command' = << >> /\ LoadsNamed'
    BY <1>1, DisconnectedLoads DEF StreamEnds, RequestsInv, RequestsTypeOK, LoadsNamed
  <2>2. memory' \in Dataset \cup {None}
    BY <1>1 DEF StreamEnds, HandledUnanswered, RequestsInv, RequestsTypeOK, DebugTypeOK
  <2>3. DebugTypeOK'
    <3>1. << >> \in Seq(Dataset)
      OBVIOUS
    <3>2. connected' = FALSE /\ UNCHANGED <<stamped, dataset, workspace, calm>>
      BY <1>1 DEF StreamEnds, LoadsDisconnected
    <3> QED BY <2>1, <2>2, <3>1, <3>2 DEF RequestsInv, RequestsTypeOK, DebugTypeOK
  <2>4. call' \in [Handler -> CallType] /\ awaiting' \subseteq Handler /\ faults' \in 0 .. MaxFaults
    BY <1>1, UnlinkedTyped, FaultCounted DEF StreamEnds, RequestsInv
  <2> QED BY <1>1, <2>1, <2>3, <2>4 DEF StreamEnds, RequestsInv, RequestsTypeOK, coreVars,
                                        historyVars, pageVars, PagesTypeOK
<1>2. CASE StreamComesBack
  BY <1>2 DEF StreamComesBack, RequestsInv, RequestsTypeOK, coreVars, handlerVars, historyVars,
              pageVars, debugVars, PagesTypeOK, DebugTypeOK, LoadsNamed
<1>3. CASE KlineStored \/ BacktestStarts
  <2>1. PagesTypeOK' /\ faults' \in 0 .. MaxFaults
    BY <1>3, BacktestTyped, FaultCounted DEF KlineStored, BacktestStarts, RequestsInv, RequestsTypeOK
  <2>2. UNCHANGED <<use, connected, coreVars, handlerVars, historyVars, debugVars>>
    BY <1>3 DEF KlineStored, BacktestStarts
  <2> QED BY <2>1, <2>2 DEF RequestsInv, RequestsTypeOK, coreVars, handlerVars, historyVars,
                            debugVars, DebugTypeOK, LoadsNamed
<1>4. CASE DebuggerSteps
  <2>1. DebugTypeOK' /\ LoadsNamed'
    BY <1>4, DebugTyped DEF DebuggerSteps, RequestsInv, RequestsTypeOK
  <2> QED BY <1>4, <2>1 DEF DebuggerSteps, RequestsInv, RequestsTypeOK, coreVars, handlerVars,
                            historyVars, pageVars, PagesTypeOK
<1> QED BY <1>1, <1>2, <1>3, <1>4

LEMMA RequestsNext == RequestsInv /\ [Next]_vars => RequestsInv'
<1> SUFFICES ASSUME RequestsInv, [Next]_vars PROVE RequestsInv'
  OBVIOUS
<1>1. CASE UNCHANGED vars
  BY <1>1 DEF vars, RequestsInv, RequestsTypeOK, coreVars, handlerVars, historyVars, pageVars,
              debugVars, PagesTypeOK, DebugTypeOK, LoadsNamed
<1>2. ASSUME NEW h \in Handler,
             Sends(h) \/ Handles(h) \/ GivesUp(h)
      PROVE  RequestsInv'
  <2>1. RequestsTypeOK' /\ UNCHANGED debugVars
    BY <1>2, SendsTyped, HandlesTyped, ErrsTyped DEF RequestsInv
  <2> QED BY <2>1 DEF RequestsInv, debugVars, LoadsNamed
<1> QED BY <1>1, <1>2, BesideTyped DEF Next

\* In every reachable state every variable has its type: the frames that handlers serve,
\* the session, the pages, and the loads of a debugger.
THEOREM RequestsTyped == Spec => []RequestsTypeOK
<1>1. RequestsInv => RequestsTypeOK
  BY DEF RequestsInv
<1> QED BY <1>1, RequestsInit, RequestsNext, PTL DEF Spec

-----------------------------------------------------------------------------
(* Requests that need an active session *)

\* A handler that checks has seen the session active if it is; one that forwards what
\* needs an active session, or has its answer, has seen it and serves its own runtime.
HandlerSound(h) ==
    /\ call[h].ok => call[h].pc = "answer"
    /\ call[h].pc = "check" /\ session \in Active => call[h].seen
    /\ (call[h].pc = "forward" \/ call[h].ok) /\ "active" \in Checks[call[h].op] =>
          call[h].seen /\ ~call[h].foreign

\* Another handler's step, or one of the stream: the handler may see the session active.
Kept(h) ==
    /\ call'[h].pc = call[h].pc /\ call'[h].op = call[h].op
    /\ call'[h].status = call[h].status /\ call'[h].ok = call[h].ok
    /\ call'[h].foreign = call[h].foreign
    /\ call[h].seen => call'[h].seen
    /\ call[h].pc # "idle" /\ session' \in Active => call'[h].seen \/ session' = session

LEMMA HandlesKeepsOthers ==
    ASSUME RequestsTypeOK, NEW h \in Handler, NEW g \in Handler \ {h},
           Handles(h) \/ GivesUp(h)
    PROVE  Kept(g)
<1>1. CASE Forwarded(h)
  BY <1>1, ForwardedTyped DEF Kept
<1>2. CASE call'[g] = call[g] /\ session' = session
  BY <1>2 DEF Kept
<1>3. CASE DispatchRuntimeRequest(h)
  <2>1. call'[g] = call[g]
    BY <1>3 DEF DispatchRuntimeRequest, RequestsTypeOK
  <2> QED BY <1>2, <1>3, <2>1 DEF DispatchRuntimeRequest, coreVars
<1>4. CASE \/ SaveSession(h) \/ UpdateSession(h) \/ CreateSessionMarketDataSubscriptions(h)
           \/ ReleaseSessionMarketDataSubscriptions(h) \/ AnswersOnly(h) \/ DeliverDataset(h)
           \/ FetchBacktestPage(h)
  <2>1. Forwarded(h) \/ (UNCHANGED call /\ UNCHANGED coreVars)
    BY <1>4 DEF SaveSession, UpdateSession, CreateSessionMarketDataSubscriptions,
                ReleaseSessionMarketDataSubscriptions, AnswersOnly, DeliverDataset,
                FetchBacktestPage
  <2> QED BY <1>1, <1>2, <2>1 DEF coreVars
<1>5. CASE HandleRuntimeRequest(h)
  BY <1>2, <1>5, AnsweredTyped DEF HandleRuntimeRequest, coreVars
<1>6. CASE GivesUp(h)
  <2>1. call' = [call EXCEPT ![h] = Refused(h)] /\ session' = session
    BY <1>6 DEF GivesUp, CheckFails, ForwardFails, DeadlinePasses, Cancelled, Errs, coreVars
  <2> QED BY <1>2, <2>1, RefusedTyped
<1> QED BY <1>3, <1>4, <1>5, <1>6 DEF Handles, Serves

LEMMA SendsStarts ==
    ASSUME RequestsTypeOK, NEW h \in Handler, Sends(h)
    PROVE  /\ call'[h].pc = "check" /\ ~call'[h].ok
           /\ call'[h].seen <=> session \in Active
           /\ \A g \in Handler \ {h} : call'[g] = call[g]
           /\ session' = session
<1>0. told.stream \in BOOLEAN /\ told.status \in Status
  BY DEF RequestsTypeOK, Status
<1>1. ASSUME NEW op \in DOMAIN Checks, NEW status \in Status, NEW foreign \in BOOLEAN,
             NEW patch \in BOOLEAN, Starts(h, op, status, foreign, patch)
      PROVE  /\ call'[h].pc = "check" /\ ~call'[h].ok
             /\ call'[h].seen <=> session \in Active
             /\ \A g \in Handler \ {h} : call'[g] = call[g]
  BY <1>1, StartsTyped
<1>2. CASE SendSaveSession(h) \/ SendStatus(h) \/ SendSubscribe(h) \/ SendRelease(h)
  <2>1. \E op \in Report, status \in Status, stream \in BOOLEAN, patch \in BOOLEAN :
           Reports(h, op, status, stream, patch)
    BY <1>0, <1>2 DEF SendSaveSession, SendStatus, SendSubscribe, SendRelease, Report, Status,
                      Reported
  <2>2. PICK op \in Report, status \in Status, stream \in BOOLEAN, patch \in BOOLEAN :
               Reports(h, op, status, stream, patch)
    BY <2>1
  <2>3. Starts(h, op, status, FALSE, patch) /\ op \in DOMAIN Checks /\ FALSE \in BOOLEAN
    BY <2>2, ReportChecks DEF Reports
  <2>4. session' = session
    BY <2>2 DEF Reports, coreVars
  <2> QED BY <1>1, <2>3, <2>4
<1>3. ASSUME NEW op \in Method, NEW foreign \in BOOLEAN, SendRequest(h, op, foreign)
      PROVE  /\ call'[h].pc = "check" /\ ~call'[h].ok
             /\ call'[h].seen <=> session \in Active
             /\ \A g \in Handler \ {h} : call'[g] = call[g]
             /\ session' = session
  BY <1>1, <1>3, RequestsAssumption DEF SendRequest, Status, coreVars
<1> QED BY <1>2, <1>3 DEF Sends

\* A step leaves a handler as it is, but for what it has seen, or is the handler's own.
LEMMA StepOfHandler ==
    ASSUME RequestsTypeOK, [Next]_vars, NEW g \in Handler
    PROVE  \/ Kept(g)
           \/ Sends(g) \/ Handles(g)
           \/ GivesUp(g)
<1>1. call'[g] = call[g] /\ session' = session => Kept(g)
  BY DEF Kept
<1>2. CASE UNCHANGED vars
  BY <1>1, <1>2 DEF vars, coreVars, handlerVars
<1>3. ASSUME NEW h \in Handler \ {g}, Sends(h) PROVE Kept(g)
  <2>1. h \in Handler /\ g \in Handler \ {h}
    OBVIOUS
  <2>2. call'[g] = call[g] /\ session' = session
    BY <1>3, <2>1, SendsStarts
  <2> QED BY <1>1, <2>2
<1>4. ASSUME NEW h \in Handler \ {g},
             Handles(h) \/ GivesUp(h)
      PROVE  Kept(g)
  BY <1>4, HandlesKeepsOthers
<1>5. CASE StreamEnds
  BY <1>5, UnlinkedTyped DEF StreamEnds, coreVars, Kept
<1>6. CASE StreamComesBack \/ KlineStored \/ BacktestStarts \/ DebuggerSteps
  BY <1>1, <1>6 DEF StreamComesBack, KlineStored, BacktestStarts, DebuggerSteps, coreVars,
                    handlerVars
<1> QED BY <1>2, <1>3, <1>4, <1>5, <1>6 DEF Next

LEMMA HandlerSoundKept ==
    ASSUME RequestsTypeOK, [Next]_vars, NEW h \in Handler, HandlerSound(h)
    PROVE  HandlerSound(h)'
<1>0. call \in [Handler -> CallType] /\ call[h] \in CallType /\ HandlerSound(h)
  BY DEF RequestsTypeOK
<1>1. CASE Kept(h)
  BY <1>0, <1>1 DEF Kept, HandlerSound
<1>2. CASE call'[h] = NoCall
  BY <1>2, NoCallTyped DEF HandlerSound
<1>3. CASE Sends(h)
  <2>1. /\ call'[h].pc = "check" /\ ~call'[h].ok
        /\ call'[h].seen <=> session \in Active
    BY <1>3, SendsStarts
  <2>2. session' = session
    BY <1>3, SendsStarts
  <2> QED BY <2>1, <2>2 DEF HandlerSound
<1>4. CASE /\ call'[h].pc = "answer" /\ call'[h].op = call[h].op
           /\ call'[h].foreign = call[h].foreign /\ call'[h].seen = call[h].seen
           /\ call'[h].ok => call[h].ok \/ call[h].pc = "forward"
  BY <1>0, <1>4 DEF HandlerSound
<1>5. CASE DispatchRuntimeRequest(h)
  <2>1. CASE ~Admits(h)
    <3>1. call' = [call EXCEPT ![h] = Refused(h)]
      BY <1>5, <2>1 DEF DispatchRuntimeRequest
    <3> QED BY <1>2, <1>4, <3>1, RefusedTyped
  <2>2. CASE Admits(h)
    <3> DEFINE c == [call[h] EXCEPT !.pc = "forward"]
    <3>1. /\ c.pc = "forward" /\ c.op = call[h].op /\ c.ok = call[h].ok
          /\ c.foreign = call[h].foreign /\ c.seen = call[h].seen
      BY <1>0 DEF CallType
    <3>2. call'[h] = c /\ session' = session /\ call[h].pc = "check"
      BY <1>0, <1>5, <2>2 DEF DispatchRuntimeRequest, coreVars
    <3>3. "active" \in Checks[call[h].op] => session \in Active /\ ~call[h].foreign
      BY <2>2 DEF Admits, EnsureSessionOwner
    <3> HIDE DEF c
    <3> QED BY <1>0, <3>1, <3>2, <3>3 DEF HandlerSound
  <2> QED BY <2>1, <2>2
<1>6. CASE GivesUp(h)
  <2>1. call' = [call EXCEPT ![h] = Refused(h)]
    BY <1>6 DEF GivesUp, CheckFails, ForwardFails, DeadlinePasses, Cancelled, Errs
  <2> QED BY <1>2, <1>4, <2>1, RefusedTyped
<1>7. CASE \/ SaveSession(h) \/ UpdateSession(h) \/ CreateSessionMarketDataSubscriptions(h)
           \/ ReleaseSessionMarketDataSubscriptions(h) \/ AnswersOnly(h) \/ DeliverDataset(h)
           \/ FetchBacktestPage(h)
  <2>1. \/ Forwarded(h) /\ call[h].pc = "forward"
        \/ UNCHANGED call /\ UNCHANGED coreVars
    BY <1>7 DEF SaveSession, UpdateSession, CreateSessionMarketDataSubscriptions,
                ReleaseSessionMarketDataSubscriptions, AnswersOnly, DeliverDataset,
                FetchBacktestPage, Forwards
  <2>2. CASE UNCHANGED call /\ UNCHANGED coreVars
    BY <1>1, <2>2 DEF coreVars, Kept
  <2>3. CASE Forwarded(h) /\ call[h].pc = "forward"
    BY <1>2, <1>4, <2>3, ForwardedTyped
  <2> QED BY <2>1, <2>2, <2>3
<1>8. CASE HandleRuntimeRequest(h)
  BY <1>2, <1>8, AnsweredTyped
<1> QED BY <1>1, <1>3, <1>5, <1>6, <1>7, <1>8, StepOfHandler DEF Handles, Serves

HandlersSound == \A h \in Handler : HandlerSound(h)

LEMMA HandlersInit == Init => HandlersSound
  BY NoCallTyped DEF Init, HandlersSound, HandlerSound

LEMMA HandlersKept == RequestsInv /\ HandlersSound /\ [Next]_vars => HandlersSound'
  BY HandlerSoundKept DEF RequestsInv, HandlersSound

\* An order, a log, a notification, a lease or a dataset is granted only to the runtime
\* of the session, and only if the session was active while the request was served:
\* whatever the frames of the runtime, and however their handlers interleave.
THEOREM OkOnlyWhileActive == Spec => []OkMeansActive
<1>1. HandlersSound => OkMeansActive
  BY DEF HandlersSound, HandlerSound, OkMeansActive
<1> QED BY <1>1, RequestsInit, RequestsNext, HandlersInit, HandlersKept, PTL DEF Spec

-----------------------------------------------------------------------------
(* Reports on the session *)

Reporting(h) == call[h].pc # "idle" /\ call[h].op \in Report

\* Core-service and the subscriptions say what the runtime said last.
SubAsTold == sub = "active" <=> told.stream
Applied == session = told.status /\ SubAsTold

\* The report is on its way: it passes its checks, and makes up the difference.
ReportDue(h) ==
    /\ ~call[h].foreign
    /\ call[h].op = "SaveSession" => told.status = "running" /\ SubAsTold
    /\ call[h].op = "UpdateSession" =>
          session # "none" /\ call[h].status = told.status /\ SubAsTold
    /\ call[h].op = "CreateSessionMarketDataSubscriptions" =>
          session = told.status /\ told.stream
    /\ call[h].op = "ReleaseSessionMarketDataSubscriptions" =>
          session = told.status /\ session # "none" /\ ~told.stream

ReportsSound ==
    /\ told.status = "none" => ~told.stream
    /\ orderly =>
        /\ (\A h \in Handler : ~Reporting(h)) => Applied
        /\ \A g, h \in Handler : Reporting(g) /\ Reporting(h) => g = h
        /\ \A h \in Handler : Reporting(h) =>
              /\ call[h].pc = "answer" => Applied
              /\ call[h].pc # "answer" => ReportDue(h)

\* A step that is of no report: of each handler, or of each but one, it leaves the frame
\* as it is, and that one serves no report.
LEMMA OtherStepReports ==
    ASSUME ReportsSound, orderly' => orderly, UNCHANGED <<session, sub, told>>,
           \A g \in Handler : Kept(g) \/ (~Reporting(g) /\ ~Reporting(g)')
    PROVE  ReportsSound'
<1>1. Applied' <=> Applied
  BY DEF Applied, SubAsTold
<1>2. \A g \in Handler : /\ Reporting(g)' => Kept(g)
                         /\ Reporting(g)' <=> Reporting(g)
  BY DEF Kept, Reporting
<1>3. \A g \in Handler : Kept(g) => (ReportDue(g)' <=> ReportDue(g))
  BY DEF Kept, ReportDue, SubAsTold
<1>4. \A g \in Handler : Kept(g) => call'[g].pc = call[g].pc
  BY DEF Kept
<1> QED BY <1>1, <1>2, <1>3, <1>4 DEF ReportsSound

\* A report that is sent while no other one is served.
LEMMA ReportSent ==
    ASSUME RequestsTypeOK, ReportsSound, NEW h \in Handler, NEW op \in Report,
           NEW status \in Status, NEW stream \in BOOLEAN, NEW patch \in BOOLEAN,
           Reports(h, op, status, stream, patch),
           status = "none" => ~stream,
           Applied =>
              CASE op = "SaveSession" -> status = "running" /\ stream = told.stream
                [] op = "UpdateSession" -> session # "none" /\ stream = told.stream
                [] op = "CreateSessionMarketDataSubscriptions" -> status = told.status /\ stream
                [] op = "ReleaseSessionMarketDataSubscriptions" ->
                      status = told.status /\ session # "none" /\ ~stream
    PROVE  ReportsSound'
<1>1. op \in DOMAIN Checks /\ Starts(h, op, status, FALSE, patch)
  BY ReportChecks DEF Reports
<1>2. /\ call'[h].pc = "check" /\ call'[h].op = op /\ call'[h].status = status
      /\ ~call'[h].foreign
      /\ \A g \in Handler \ {h} : call'[g] = call[g]
  <2>1. ASSUME NEW foreign \in BOOLEAN, Starts(h, op, status, foreign, patch)
        PROVE  /\ call'[h].pc = "check" /\ call'[h].op = op /\ call'[h].status = status
               /\ call'[h].foreign <=> foreign
               /\ \A g \in Handler \ {h} : call'[g] = call[g]
    BY <1>1, <2>1, StartsTyped
  <2> QED BY <1>1, <2>1
<1>3. told' = [status |-> status, stream |-> stream] /\ UNCHANGED <<session, sub>>
  BY DEF Reports, coreVars
<1>4. SUFFICES ASSUME orderly'
               PROVE  /\ \A g \in Handler \ {h} : ~Reporting(g)'
                      /\ ReportDue(h)'
  BY <1>2, <1>3 DEF ReportsSound, Reporting
<1>5. orderly /\ \A g \in Handler : ~Reporting(g)
  BY <1>4 DEF Reports, Serving, Reporting
<1>6. Applied
  BY <1>5 DEF ReportsSound
<1>7. \A g \in Handler \ {h} : ~Reporting(g)'
  BY <1>2, <1>5 DEF Reporting
<1>8. ReportDue(h)'
  BY <1>2, <1>3, <1>6 DEF ReportDue, Applied, SubAsTold, Report
<1> QED BY <1>7, <1>8

LEMMA SendsReports ==
    ASSUME RequestsTypeOK, ReportsSound, NEW h \in Handler, Sends(h)
    PROVE  ReportsSound'
<1>0. told.stream \in BOOLEAN /\ told.status \in Status /\ Reported \subseteq Status
  BY DEF RequestsTypeOK, Status
<1>1. CASE SendSaveSession(h)
  <2>1. Reports(h, "SaveSession", "running", FALSE, FALSE) /\ session = "none"
    BY <1>1 DEF SendSaveSession
  <2>2. Applied => FALSE = told.stream
    BY <1>0, <2>1 DEF Applied, ReportsSound
  <2> QED BY <1>0, <2>1, <2>2, ReportSent DEF Report, Reported
<1>2. CASE SendStatus(h)
  <2>1. PICK status \in Reported, patch \in BOOLEAN :
               Reports(h, "UpdateSession", status, told.stream, patch)
    BY <1>2 DEF SendStatus
  <2>2. session # "none" /\ status # "none"
    BY <1>2 DEF SendStatus, Reported
  <2> QED BY <1>0, <2>1, <2>2, ReportSent DEF Report
<1>3. CASE SendSubscribe(h)
  <2>1. /\ Reports(h, "CreateSessionMarketDataSubscriptions", told.status, TRUE, FALSE)
        /\ told.status = "running"
    BY <1>3 DEF SendSubscribe
  <2> QED BY <1>0, <2>1, ReportSent DEF Report
<1>4. CASE SendRelease(h)
  <2>1. /\ Reports(h, "ReleaseSessionMarketDataSubscriptions", told.status, FALSE, FALSE)
        /\ told.status = "finished"
    BY <1>4 DEF SendRelease
  <2>2. Applied => session # "none"
    BY <2>1 DEF Applied
  <2> QED BY <1>0, <2>1, <2>2, ReportSent DEF Report
<1>5. ASSUME NEW op \in Method, NEW foreign \in BOOLEAN, SendRequest(h, op, foreign)
      PROVE  ReportsSound'
  <2>1. /\ call[h].pc = "idle" /\ call'[h].op = op
        /\ \A g \in Handler \ {h} : call'[g] = call[g]
    <3>1. ASSUME NEW patch \in BOOLEAN, NEW status \in Status, NEW name \in DOMAIN Checks,
                 Starts(h, name, status, foreign, patch)
          PROVE  /\ call[h].pc = "idle" /\ call'[h].op = name
                 /\ \A g \in Handler \ {h} : call'[g] = call[g]
      BY <3>1, StartsTyped
    <3> QED BY <1>5, <3>1, RequestsAssumption DEF SendRequest, Status
  <2>2. op \notin Report /\ UNCHANGED <<session, sub, told, orderly>>
    BY <1>5 DEF SendRequest, coreVars, historyVars
  <2>3. ~Reporting(h) /\ ~Reporting(h)' /\ \A g \in Handler \ {h} : Kept(g)
    BY <2>1, <2>2 DEF Reporting, Kept
  <2> QED BY <2>2, <2>3, OtherStepReports
<1> QED BY <1>1, <1>2, <1>3, <1>4, <1>5 DEF Sends

\* A report that is due passes its checks.
LEMMA DueReportAdmitted ==
    ASSUME NEW h \in Handler, call[h].op \in Report, ReportDue(h)
    PROVE  Admits(h)
<1>1. CASE call[h].op = "SaveSession"
  BY <1>1, ReportChecks DEF ReportDue, Admits, EnsurePortfolioOwner
<1>2. CASE call[h].op = "CreateSessionMarketDataSubscriptions"
  BY <1>2, ReportChecks DEF ReportDue, Admits
<1>3. CASE call[h].op \in {"UpdateSession", "ReleaseSessionMarketDataSubscriptions"}
  BY <1>3, ReportChecks DEF ReportDue, Admits, EnsureSessionOwner
<1> QED BY <1>1, <1>2, <1>3 DEF Report

LEMMA DispatchReports ==
    ASSUME RequestsTypeOK, ReportsSound, NEW h \in Handler, DispatchRuntimeRequest(h)
    PROVE  ReportsSound'
<1>0. UNCHANGED <<session, sub, told, orderly>> /\ call[h].pc = "check"
  BY DEF DispatchRuntimeRequest, coreVars, historyVars
<1>1. \A g \in Handler \ {h} : Kept(g)
  BY HandlesKeepsOthers DEF Handles, Serves
<1>2. CASE Reporting(h)
  <2>1. CASE ~orderly
    BY <1>0, <2>1 DEF ReportsSound
  <2>2. CASE orderly
    <3>1. ReportDue(h)
      BY <1>0, <1>2, <2>2 DEF ReportsSound
    <3>2. Admits(h)
      BY <1>2, <3>1, DueReportAdmitted DEF Reporting
    <3> DEFINE c == [call[h] EXCEPT !.pc = "forward"]
    <3>3. /\ c.pc = "forward" /\ c.op = call[h].op /\ c.status = call[h].status
          /\ c.foreign = call[h].foreign
      BY DEF RequestsTypeOK, CallType
    <3>4. call'[h] = c
      BY <3>2 DEF DispatchRuntimeRequest, RequestsTypeOK
    <3> HIDE DEF c
    <3>5. Reporting(h)' /\ call'[h].pc # "answer" /\ ReportDue(h)'
      BY <1>0, <1>2, <3>1, <3>3, <3>4 DEF Reporting, ReportDue, SubAsTold
    <3>6. \A g \in Handler \ {h} : ~Reporting(g)
      BY <1>2, <2>2 DEF ReportsSound
    <3>7. \A g \in Handler \ {h} : ~Reporting(g)'
      BY <1>1, <3>6 DEF Kept, Reporting
    <3>8. told.status = "none" => ~told.stream
      BY DEF ReportsSound
    <3> QED BY <1>0, <3>5, <3>7, <3>8 DEF ReportsSound
  <2> QED BY <2>1, <2>2
<1>3. CASE ~Reporting(h)
  <2>1. ~Reporting(h)'
    <3>1. CASE Admits(h)
      <4>1. [call[h] EXCEPT !.pc = "forward"].op = call[h].op
        BY DEF RequestsTypeOK, CallType
      <4> QED BY <1>0, <1>3, <3>1, <4>1 DEF DispatchRuntimeRequest, Reporting, RequestsTypeOK
    <3>2. CASE ~Admits(h)
      BY <1>0, <1>3, <3>2, RefusedTyped, NoCallTyped DEF DispatchRuntimeRequest, Reporting
    <3> QED BY <3>1, <3>2
  <2> QED BY <1>0, <1>1, <1>3, <2>1, OtherStepReports
<1> QED BY <1>2, <1>3

\* A report that is forwarded makes core-service and the subscriptions say what it says.
LEMMA ForwardedReports ==
    ASSUME RequestsTypeOK, ReportsSound, NEW h \in Handler, Reporting(h), call[h].pc = "forward",
           Forwarded(h), \A g \in Handler \ {h} : Kept(g), UNCHANGED <<told, orderly>>,
           ReportDue(h) => Applied'
    PROVE  ReportsSound'
<1>1. told.status = "none" => ~told.stream
  BY DEF ReportsSound
<1>2. SUFFICES ASSUME orderly
               PROVE  /\ Applied'
                      /\ \A g \in Handler \ {h} : ~Reporting(g)'
                      /\ Reporting(h)' => call'[h].pc = "answer"
  BY <1>1, <1>2 DEF ReportsSound
<1>3. Applied'
  BY <1>2 DEF ReportsSound
<1>4. \A g \in Handler \ {h} : ~Reporting(g)
  BY <1>2 DEF ReportsSound
<1>5. \A g \in Handler \ {h} : ~Reporting(g)'
  BY <1>4 DEF Kept, Reporting
<1>6. Reporting(h)' => call'[h].pc = "answer"
  BY ForwardedTyped, NoCallTyped DEF Reporting
<1> QED BY <1>3, <1>5, <1>6

LEMMA HandlesReports ==
    ASSUME RequestsTypeOK, ReportsSound, NEW h \in Handler, Handles(h)
    PROVE  ReportsSound'
<1>0. \A g \in Handler \ {h} : Kept(g)
  BY HandlesKeepsOthers
<1>1. CASE DispatchRuntimeRequest(h)
  BY <1>1, DispatchReports
<1>2. CASE SaveSession(h)
  <2>1. ReportDue(h) => Applied'
    BY <1>2 DEF SaveSession, Forwards, ReportDue, Applied, SubAsTold, historyVars
  <2> QED BY <1>0, <1>2, <2>1, ForwardedReports DEF SaveSession, Forwards, Reporting, Report,
                                                    historyVars
<1>3. CASE UpdateSession(h)
  <2>1. ReportDue(h) => Applied'
    BY <1>3 DEF UpdateSession, WritesStatus, Forwards, ReportDue, Applied, SubAsTold, historyVars
  <2> QED BY <1>0, <1>3, <2>1, ForwardedReports DEF UpdateSession, Forwards, Reporting, Report,
                                                    historyVars
<1>4. CASE CreateSessionMarketDataSubscriptions(h)
  <2>1. ReportDue(h) => Applied'
    BY <1>4 DEF CreateSessionMarketDataSubscriptions, Forwards, ReportDue, Applied, SubAsTold,
                historyVars
  <2> QED BY <1>0, <1>4, <2>1, ForwardedReports DEF CreateSessionMarketDataSubscriptions, Forwards,
                                                    Reporting, Report, historyVars
<1>5. CASE ReleaseSessionMarketDataSubscriptions(h)
  <2>1. ReportDue(h) => Applied'
    BY <1>5 DEF ReleaseSessionMarketDataSubscriptions, Forwards, ReportDue, Applied, SubAsTold,
                historyVars
  <2> QED BY <1>0, <1>5, <2>1, ForwardedReports DEF ReleaseSessionMarketDataSubscriptions, Forwards,
                                                    Reporting, Report, historyVars
<1>6. CASE AnswersOnly(h) \/ DeliverDataset(h) \/ FetchBacktestPage(h)
  <2>1. /\ call[h].op \notin Report /\ UNCHANGED <<session, sub, told, orderly>>
        /\ Forwarded(h) \/ UNCHANGED call
    BY <1>6 DEF AnswersOnly, DeliverDataset, FetchBacktestPage, Forwards, Report, coreVars,
                historyVars
  <2>2. call'[h] = NoCall \/ call'[h].op = call[h].op
    BY <2>1, ForwardedTyped
  <2>3. ~Reporting(h) /\ ~Reporting(h)'
    BY <2>1, <2>2, NoCallTyped DEF Reporting
  <2> QED BY <1>0, <2>1, <2>3, OtherStepReports
<1>7. CASE HandleRuntimeRequest(h)
  <2>1. UNCHANGED <<session, sub, told, orderly>> /\ call[h].pc = "answer"
    BY <1>7 DEF HandleRuntimeRequest, coreVars, historyVars
  <2>2. ~Reporting(h)'
    BY <1>7, AnsweredTyped, NoCallTyped DEF Reporting
  <2>3. CASE ~Reporting(h)
    BY <1>0, <2>1, <2>2, <2>3, OtherStepReports
  <2>4. CASE Reporting(h)
    <3>1. told.status = "none" => ~told.stream
      BY DEF ReportsSound
    <3>2. ASSUME orderly PROVE Applied' /\ \A g \in Handler : ~Reporting(g)'
      <4>1. Applied /\ \A g \in Handler \ {h} : ~Reporting(g)
        BY <2>1, <2>4, <3>2 DEF ReportsSound
      <4>2. Applied'
        BY <2>1, <4>1 DEF Applied, SubAsTold
      <4>3. \A g \in Handler \ {h} : ~Reporting(g)'
        BY <1>0, <4>1 DEF Kept, Reporting
      <4> QED BY <2>2, <4>2, <4>3
    <3> QED BY <2>1, <3>1, <3>2 DEF ReportsSound
  <2> QED BY <2>3, <2>4
<1> QED BY <1>1, <1>2, <1>3, <1>4, <1>5, <1>6, <1>7 DEF Handles, Serves

LEMMA ReportsKept ==
    ASSUME RequestsTypeOK, ReportsSound, [Next]_vars
    PROVE  ReportsSound'
<1>1. ASSUME NEW h \in Handler, GivesUp(h)
      PROVE  ReportsSound'
  <2>1. Errs(h) /\ call[h].pc # "idle"
    BY <1>1 DEF GivesUp, CheckFails, ForwardFails, DeadlinePasses, Cancelled
  <2>2. UNCHANGED <<session, sub, told>> /\ (orderly' <=> orderly /\ call[h].op \notin Report)
    BY <2>1 DEF Errs, coreVars
  <2>3. CASE call[h].op \in Report
    BY <2>2, <2>3 DEF ReportsSound
  <2>4. CASE call[h].op \notin Report
    <3>1. call'[h] = NoCall \/ call'[h].op = call[h].op
      BY <2>1, RefusedTyped DEF Errs
    <3>2. ~Reporting(h) /\ ~Reporting(h)'
      BY <2>4, <3>1, NoCallTyped DEF Reporting
    <3>3. \A g \in Handler \ {h} : Kept(g)
      BY <1>1, HandlesKeepsOthers
    <3> QED BY <2>2, <3>2, <3>3, OtherStepReports
  <2> QED BY <2>3, <2>4
<1>2. CASE StreamEnds
  <2>1. UNCHANGED <<session, sub, told, orderly>> /\ \A g \in Handler : Kept(g)
    BY <1>2, UnlinkedTyped DEF StreamEnds, coreVars, historyVars, Kept
  <2> QED BY <2>1, OtherStepReports
<1>3. CASE UNCHANGED vars \/ StreamComesBack \/ KlineStored \/ BacktestStarts \/ DebuggerSteps
  <2>1. UNCHANGED <<session, sub, told, orderly, call>>
    BY <1>3 DEF vars, StreamComesBack, KlineStored, BacktestStarts, DebuggerSteps, coreVars,
                handlerVars, historyVars
  <2>2. \A g \in Handler : Kept(g)
    BY <2>1 DEF Kept
  <2> QED BY <2>1, <2>2, OtherStepReports
<1> QED BY <1>1, <1>2, <1>3, SendsReports, HandlesReports DEF Next

LEMMA ReportsInit == Init => ReportsSound
  BY NoCallTyped DEF Init, ReportsSound, Reporting, Applied, SubAsTold

\* When no report is on its way, core-service and the subscriptions say what the runtime
\* said last, provided that it let no two reports overlap and none failed: nothing that
\* other frames, ends of the stream, or cancelled handlers do makes them differ.
THEOREM AppliedAsReported == Spec => []AsReported
<1>1. ReportsSound => AsReported
  BY DEF ReportsSound, AsReported, Serving, Reporting, Applied, SubAsTold
<1>2. RequestsInv /\ ReportsSound /\ [Next]_vars => ReportsSound'
  BY ReportsKept DEF RequestsInv
<1> QED BY <1>1, <1>2, RequestsInit, RequestsNext, ReportsInit, PTL DEF Spec

-----------------------------------------------------------------------------
(* The rows that a reading is due *)

\* What a delivery owes is stored, and lies ahead of it.
DeliverySound(h) ==
    /\ delivery[h].st = "paging" => \A p \in delivery[h].due :
          /\ p[2] \in rows[p[1]]
          /\ \/ p[1] > delivery[h].stream
             \/ p[1] = delivery[h].stream /\ p[2] >= delivery[h].next
    /\ delivery[h].st # "paging" => delivery[h].due = {}

DeliveriesSound == \A h \in Handler : DeliverySound(h)

LEMMA PageDeliveredSound ==
    ASSUME PagesTypeOK, NEW h \in Handler, PageDelivered(h), DeliverySound(h)
    PROVE  DeliverySound(h)'
<1> DEFINE k == delivery[h].stream
           from == delivery[h].next
           page == FetchKlines(k, from, ChunkSize)
           over == page = {} \/ LastPage(page)
           stream == IF over THEN k + 1 ELSE k
           next == IF over THEN 1 ELSE NextStart(page)
           due == delivery[h].due \ Chunk(k, page)
           d == [delivery[h] EXCEPT !.due = due, !.stream = stream, !.next = next]
<1>1. /\ k \in Stream /\ delivery[h] \in DeliveryType /\ delivery[h].st = "paging"
      /\ delivery \in [Handler -> DeliveryType]
  BY DEF PageDelivered, PagesTypeOK
<1>2. from \in 1 .. (MaxTick + 1) /\ delivery[h].due \in SUBSET (Stream \X Tick)
  BY <1>1 DEF DeliveryType
<1>3. /\ from \in Nat /\ k \in Nat /\ MaxTick \in Nat
      /\ ChunkSize \in Nat \ {0} /\ Clamped(ChunkSize) = ChunkSize
  BY <1>1, <1>2, PagesAssumption, ClampedTyped DEF Stream
<1>4. /\ page \subseteq rows[k] /\ rows[k] \in SUBSET Tick /\ page \in SUBSET Tick
      /\ \A t \in page, u \in rows[k] : from <= u /\ u <= t => u \in page
  BY <1>1, <1>3, PageIsPrefix
<1>5. Cardinality(page) < ChunkSize => \A t \in rows[k] : t >= from => t \in page
  BY <1>1, <1>3, ShortPageIsAll
<1>6. /\ d.st = "paging" /\ d.due = due /\ d.stream = stream /\ d.next = next
      /\ delivery' = [delivery EXCEPT ![h] = d] /\ rows' = rows
  <2>1. d.st = "paging" /\ d.due = due /\ d.stream = stream /\ d.next = next
    <3> HIDE DEF due, stream, next
    <3> QED BY <1>1 DEF DeliveryType
  <2>2. delivery' = [delivery EXCEPT ![h] = d] /\ rows' = rows
    BY DEF PageDelivered
  <2> HIDE DEF d
  <2> QED BY <2>1, <2>2
<1> HIDE DEF page
\* What is left of stream k lies behind the page, and only if it is not the last one.
<1>7. ASSUME NEW t \in rows[k], t >= from, t \notin page
      PROVE  ~over /\ t >= NextStart(page)
  <2>0. t \in Nat /\ t <= MaxTick /\ from <= t
    BY <1>3, <1>4, <1>7 DEF Tick
  <2>1. Cardinality(page) >= ChunkSize /\ Cardinality(page) \in Nat
    BY <1>3, <1>4, <1>5, <1>7, TicksFinite
  <2>2. page # {}
    BY <1>3, <2>1, FS_EmptySet
  <2>3. Max(page) \in page /\ Max(page) \in Tick
    BY <1>4, <2>2, MaxOfTicks
  <2>4. Max(page) \in Nat
    BY <1>3, <2>3 DEF Tick
  <2>5. ~(t <= Max(page))
    BY <1>4, <1>7, <2>0, <2>3
  <2>6. t >= NextStart(page)
    BY <2>0, <2>4, <2>5 DEF NextStart
  <2>7. ~LastPage(page)
    BY <1>3, <2>0, <2>1, <2>4, <2>6 DEF LastPage, NextStart
  <2> QED BY <2>2, <2>6, <2>7
<1> HIDE DEF over
<1>8. ASSUME NEW p \in due
      PROVE  /\ p[2] \in rows[p[1]]
             /\ \/ p[1] > stream
                \/ p[1] = stream /\ p[2] >= next
  <2>1. /\ p \in delivery[h].due /\ p \in Stream \X Tick
        /\ p[1] = k => p[2] \notin page
    BY <1>2 DEF Chunk
  <2>2. p[1] \in Nat /\ p[2] \in Nat /\ p[2] >= 1
    BY <1>3, <2>1, PagesAssumption DEF Stream, Tick
  <2>3. /\ p[2] \in rows[p[1]]
        /\ \/ p[1] > k
           \/ p[1] = k /\ p[2] >= from
    BY <1>1, <2>1 DEF DeliverySound
  <2>4. CASE p[1] > k
    BY <1>3, <2>2, <2>3, <2>4
  <2>5. CASE p[1] = k /\ p[2] >= from
    BY <1>7, <2>1, <2>3, <2>5
  <2> QED BY <2>3, <2>4, <2>5
<1> HIDE DEF d, due, stream, next
<1>9. delivery'[h] = d
  BY <1>1, <1>6
<1> QED BY <1>6, <1>8, <1>9 DEF DeliverySound

LEMMA DeliveryKept ==
    ASSUME PagesTypeOK, DeliveriesSound, NEW h \in Handler,
           \/ DeliveryBegins(h) \/ PageDelivered(h) \/ EndChunkDelivered(h) \/ DeliveryOver(h)
    PROVE  DeliveriesSound' /\ UNCHANGED <<rows, backtest>>
<1>0. /\ delivery \in [Handler -> DeliveryType] /\ delivery[h] \in DeliveryType
      /\ DeliverySound(h)
  BY DEF PagesTypeOK, DeliveriesSound
<1>1. UNCHANGED <<rows, backtest>> /\ \A g \in Handler \ {h} : delivery'[g] = delivery[g]
  BY <1>0 DEF DeliveryBegins, PageDelivered, EndChunkDelivered, DeliveryOver
<1>2. ASSUME DeliveryBegins(h) PROVE DeliverySound(h)'
  <2> DEFINE stored == {row \in Stream \X Tick : row[2] \in rows[row[1]]}
             d == [NoDelivery EXCEPT !.st = "paging", !.due = stored]
  <2>1. d.st = "paging" /\ d.due = stored /\ d.stream = 1 /\ d.next = 1
    BY DEF NoDelivery
  <2>2. delivery'[h] = d
    BY <1>0, <1>2 DEF DeliveryBegins
  <2>3. ASSUME NEW p \in stored
        PROVE  p[2] \in rows[p[1]] /\ (p[1] > 1 \/ (p[1] = 1 /\ p[2] >= 1))
    BY <2>3, PagesAssumption DEF Stream, Tick
  <2> HIDE DEF d, stored
  <2> QED BY <1>1, <2>1, <2>2, <2>3 DEF DeliverySound
<1>3. ASSUME EndChunkDelivered(h) PROVE DeliverySound(h)'
  <2>1. /\ delivery[h].st = "paging" /\ delivery[h].stream > MaxStream
        /\ delivery'[h] = [delivery[h] EXCEPT !.st = "ended"]
    BY <1>0, <1>3 DEF EndChunkDelivered
  <2>2. delivery'[h].st = "ended" /\ delivery'[h].due = delivery[h].due
    BY <1>0, <2>1 DEF DeliveryType
  <2>3. ASSUME NEW p \in delivery[h].due PROVE FALSE
    <3>1. p[1] >= delivery[h].stream /\ p \in Stream \X Tick
      BY <1>0, <2>1, PagesAssumption DEF DeliverySound, DeliveryType, Stream
    <3> QED BY <1>0, <2>1, <3>1, PagesAssumption DEF DeliveryType, Stream
  <2> QED BY <2>2, <2>3 DEF DeliverySound
<1>4. ASSUME DeliveryOver(h) PROVE DeliverySound(h)'
  BY <1>0, <1>4, NoDeliveryTyped DEF DeliveryOver, DeliverySound
<1>5. ASSUME PageDelivered(h) PROVE DeliverySound(h)'
  BY <1>0, <1>5, PageDeliveredSound
<1>6. DeliverySound(h)'
  BY <1>2, <1>3, <1>4, <1>5
<1>7. ASSUME NEW g \in Handler \ {h} PROVE DeliverySound(g)'
  BY <1>1, <1>7 DEF DeliveriesSound, DeliverySound
<1> QED BY <1>1, <1>6, <1>7 DEF DeliveriesSound

\* The steps of the readers of pages, and the others.
LEMMA StepOfPages ==
    ASSUME [Next]_vars
    PROVE  \/ UNCHANGED pageVars
           \/ \E h \in Handler : \/ DeliveryBegins(h) \/ PageDelivered(h)
                                 \/ EndChunkDelivered(h) \/ DeliveryOver(h)
           \/ StoreKline
           \/ BacktestBegins
           \/ BacktestPageFetched
           \/ BacktestPageRead
<1>1. ASSUME NEW h \in Handler, Sends(h) PROVE UNCHANGED pageVars
  BY <1>1 DEF Sends, SendSaveSession, SendStatus, SendSubscribe, SendRelease, Reports, SendRequest
<1>2. ASSUME NEW h \in Handler, Handles(h)
      PROVE  \/ UNCHANGED pageVars
             \/ DeliveryBegins(h) \/ PageDelivered(h) \/ EndChunkDelivered(h) \/ DeliveryOver(h)
             \/ BacktestPageFetched
             \/ BacktestPageRead
  BY <1>2 DEF Handles, Serves, DispatchRuntimeRequest, SaveSession, UpdateSession,
     CreateSessionMarketDataSubscriptions, ReleaseSessionMarketDataSubscriptions, AnswersOnly,
     DeliverDataset, FetchBacktestPage, HandleRuntimeRequest
<1>3. ASSUME NEW h \in Handler, GivesUp(h)
      PROVE  UNCHANGED pageVars \/ DeliveryOver(h)
  BY <1>3 DEF GivesUp, CheckFails, ForwardFails, DeadlinePasses, Cancelled, Errs
<1>4. CASE UNCHANGED vars \/ StreamEnds \/ StreamComesBack \/ DebuggerSteps
  BY <1>4 DEF vars, StreamEnds, StreamComesBack, DebuggerSteps
<1> QED BY <1>1, <1>2, <1>3, <1>4 DEF Next, KlineStored, BacktestStarts

LEMMA StoredKept == ASSUME PagesTypeOK, StoreKline, NEW k \in Stream PROVE rows[k] \subseteq rows'[k]
  BY DEF StoreKline, PagesTypeOK

LEMMA DeliveriesKept ==
    ASSUME PagesTypeOK, DeliveriesSound, [Next]_vars
    PROVE  DeliveriesSound'
<1>1. CASE StoreKline
  <2>1. delivery' = delivery
    BY <1>1 DEF StoreKline
  <2> SUFFICES ASSUME NEW h \in Handler PROVE DeliverySound(h)'
    BY DEF DeliveriesSound
  <2>2. ASSUME NEW p \in delivery[h].due, p[2] \in rows[p[1]] PROVE p[2] \in rows'[p[1]]
    <3>1. p[1] \in Stream
      BY DEF PagesTypeOK, DeliveryType
    <3> QED BY <1>1, <2>2, <3>1, StoredKept
  <2> QED BY <2>1, <2>2 DEF DeliveriesSound, DeliverySound
<1>2. CASE \E h \in Handler : \/ DeliveryBegins(h) \/ PageDelivered(h)
                              \/ EndChunkDelivered(h) \/ DeliveryOver(h)
  BY <1>2, DeliveryKept
<1>3. CASE UNCHANGED <<rows, delivery>>
  BY <1>3 DEF DeliveriesSound, DeliverySound
<1> QED BY <1>1, <1>2, <1>3, StepOfPages DEF pageVars, BacktestBegins, BacktestPageFetched,
                                             BacktestPageRead

Reads(h) == call[h].pc # "idle" /\ call[h].op = "FetchBacktestPage"

\* The page covers what is due up to its last row, and all of it when the fetch had
\* room for more.
PageCovers ==
    /\ \A t \in backtest.due : (\E u \in backtest.page : t <= u) => t \in backtest.page
    /\ Cardinality(backtest.page) # Clamped(BacktestPageSize) =>
           backtest.due \subseteq backtest.page

\* What the backtest is due is stored and lies ahead of it; pages are asked for one
\* after the other, and one that was fetched covers what it spans.
BacktestSound ==
    /\ backtest.st = "reading" => \A t \in backtest.due : t \in rows[1] /\ t > backtest.after
    /\ backtest.st = "none" => backtest.due = {}
    /\ backtest.st = "read" /\ (~backtest.cut \/ BacktestPageSize <= MaxFetchLimit) =>
           backtest.due = {}
    /\ \A g, h \in Handler : Reads(g) /\ Reads(h) => g = h
    /\ \A h \in Handler : Reads(h) => backtest.st = "reading" /\ (call[h].ok => PageCovers)

\* A step that leaves the backtest as it is and begins no request for a page.
LEMMA OtherStepReads ==
    ASSUME BacktestSound, backtest' = backtest, rows[1] \subseteq rows'[1],
           \A g \in Handler : Reads(g)' => Reads(g) /\ (call'[g].ok => call[g].ok)
    PROVE  BacktestSound'
<1>1. PageCovers' <=> PageCovers
  BY DEF PageCovers
<1> QED BY <1>1 DEF BacktestSound

LEMMA SendsReads ==
    ASSUME RequestsTypeOK, BacktestSound, NEW h \in Handler, Sends(h)
    PROVE  BacktestSound'
<1>0. UNCHANGED <<rows, backtest>>
  BY DEF Sends, SendSaveSession, SendStatus, SendSubscribe, SendRelease, Reports, SendRequest,
         pageVars
<1>1. ~call'[h].ok /\ \A g \in Handler \ {h} : call'[g] = call[g]
  BY SendsStarts
<1>2. CASE ~Reads(h)'
  <2>1. \A g \in Handler : Reads(g)' => Reads(g) /\ (call'[g].ok => call[g].ok)
    BY <1>1, <1>2 DEF Reads
  <2> QED BY <1>0, <2>1, OtherStepReads
<1>3. CASE backtest.st = "reading" /\ \A g \in Handler : ~Reads(g)
  <2>1. \A g \in Handler : Reads(g)' => g = h
    BY <1>1, <1>3 DEF Reads
  <2> QED BY <1>0, <1>1, <1>3, <2>1 DEF BacktestSound
<1>4. CASE SendSaveSession(h) \/ SendStatus(h) \/ SendSubscribe(h) \/ SendRelease(h)
  <2>1. ASSUME NEW op \in Report, NEW status \in Status, NEW stream \in BOOLEAN,
               NEW patch \in BOOLEAN, Reports(h, op, status, stream, patch)
        PROVE  call'[h].op = op
    <3>1. ASSUME NEW foreign \in BOOLEAN, Starts(h, op, status, foreign, patch)
          PROVE  call'[h].op = op
      BY <3>1, StartsTyped, ReportChecks
    <3> QED BY <2>1, <3>1 DEF Reports
  <2>2. told.stream \in BOOLEAN /\ told.status \in Status
    BY DEF RequestsTypeOK, Status
  <2>3. \E op \in Report, status \in Status, stream \in BOOLEAN, patch \in BOOLEAN :
           Reports(h, op, status, stream, patch)
    BY <1>4, <2>2 DEF SendSaveSession, SendStatus, SendSubscribe, SendRelease, Report, Status,
                      Reported
  <2>4. call'[h].op \in Report
    BY <2>1, <2>3
  <2> QED BY <1>2, <2>4 DEF Reads, Report
<1>5. ASSUME NEW op \in Method, NEW foreign \in BOOLEAN, SendRequest(h, op, foreign)
      PROVE  BacktestSound'
  <2>1. call'[h].op = op
    <3>1. ASSUME NEW patch \in BOOLEAN, NEW status \in Status, NEW name \in DOMAIN Checks,
                 Starts(h, name, status, foreign, patch)
          PROVE  call'[h].op = name
      BY <3>1, StartsTyped
    <3> QED BY <1>5, <3>1, RequestsAssumption DEF SendRequest, Status
  <2>2. CASE op # "FetchBacktestPage"
    BY <1>2, <2>1, <2>2 DEF Reads
  <2>3. CASE op = "FetchBacktestPage"
    BY <1>3, <1>5, <2>3 DEF SendRequest, Paged, Serving, Reads
  <2> QED BY <2>2, <2>3
<1> QED BY <1>4, <1>5 DEF Sends

\* The page is read: what is due lies behind its last row, or there is nothing due.
LEMMA PageReadSound ==
    ASSUME PagesTypeOK, BacktestSound, PageCovers, BacktestPageRead, backtest.st = "reading",
           \A g \in Handler : ~Reads(g)'
    PROVE  BacktestSound'
<1> DEFINE page == backtest.page
           due == backtest.due \ page
           cut == Cardinality(page) = MaxFetchLimit
<1>1. /\ backtest \in BacktestType /\ page \in SUBSET Tick /\ backtest.due \in SUBSET Tick
      /\ Tick \subseteq Nat /\ BacktestPageSize \in Nat \ {0}
  BY PagesAssumption DEF PagesTypeOK, BacktestType, Tick
<1>2. /\ backtest'.due = due /\ backtest'.after = NextCursor(page)
      /\ backtest'.st = (IF HasMore(page) THEN "reading" ELSE "read") /\ rows' = rows
      /\ backtest'.cut = cut
  <2>1. /\ backtest' = [backtest EXCEPT !.page = {}, !.due = due, !.after = NextCursor(page),
                           !.cut = cut,
                           !.st = IF HasMore(page) THEN "reading" ELSE "read"]
        /\ rows' = rows
    BY DEF BacktestPageRead
  <2> HIDE DEF page, due, cut
  <2> QED BY <1>1, <2>1 DEF BacktestType
<1>3. CASE HasMore(page)
  <2>1. page # {}
    BY <1>1, <1>3, FS_EmptySet DEF HasMore
  <2>2. Max(page) \in page
    BY <1>1, <2>1, MaxOfTicks
  <2>3. ASSUME NEW t \in due PROVE t \in rows[1] /\ t > NextCursor(page)
    <3>1. t \in Nat /\ Max(page) \in Nat
      BY <1>1, <2>2
    <3>2. ~(t <= Max(page))
      BY <2>2 DEF PageCovers
    <3>3. t \in rows[1]
      BY DEF BacktestSound
    <3> QED BY <2>1, <3>1, <3>2, <3>3 DEF NextCursor
  <2> HIDE DEF page, due
  <2> QED BY <1>2, <1>3, <2>3 DEF BacktestSound
<1>4. CASE ~HasMore(page)
  <2>1. ~cut \/ BacktestPageSize <= MaxFetchLimit => due = {}
    BY <1>1, <1>4, ClampedTyped DEF HasMore, PageCovers
  <2> HIDE DEF page, due, cut
  <2> QED BY <1>2, <1>4, <2>1 DEF BacktestSound
<1> QED BY <1>3, <1>4

\* The page is fetched, from the rows that are stored by then.
LEMMA PageFetchedCovers ==
    ASSUME PagesTypeOK, BacktestSound, BacktestPageFetched, backtest.st = "reading"
    PROVE  PageCovers' /\ UNCHANGED rows /\ backtest'.due = backtest.due
           /\ backtest'.st = backtest.st /\ backtest'.after = backtest.after
<1> DEFINE from == backtest.after + 1
           page == FetchKlines(1, from, BacktestPageSize)
           size == Clamped(BacktestPageSize)
<1>1. backtest \in BacktestType /\ backtest.after \in Nat /\ from \in Nat /\ 1 \in Stream
  BY PagesAssumption DEF PagesTypeOK, BacktestType, Stream
<1>2. backtest' = [backtest EXCEPT !.page = page] /\ rows' = rows
  BY DEF BacktestPageFetched
<1>3. /\ \A t \in page, u \in rows[1] : from <= u /\ u <= t => u \in page
      /\ Cardinality(page) < size => \A t \in rows[1] : t >= from => t \in page
      /\ Cardinality(page) \in Nat /\ Cardinality(page) <= size /\ size \in Nat
  BY <1>1, PageIsPrefix, ShortPageIsAll, PageSizeKept, ClampedTyped, PagesAssumption
<1>4. ASSUME NEW t \in backtest.due PROVE t \in rows[1] /\ from <= t /\ t >= from
  <2>1. t \in rows[1] /\ t > backtest.after /\ t \in Nat
    BY PagesAssumption DEF BacktestSound, PagesTypeOK, BacktestType, Tick
  <2> QED BY <1>1, <2>1
<1> HIDE DEF page
<1>5. /\ backtest'.page = page /\ backtest'.due = backtest.due
      /\ backtest'.st = backtest.st /\ backtest'.after = backtest.after
  BY <1>1, <1>2 DEF BacktestType
<1>6. \A t \in backtest.due : (\E u \in page : t <= u) => t \in page
  BY <1>3, <1>4
<1>7. Cardinality(page) # size => backtest.due \subseteq page
  BY <1>3, <1>4
<1> QED BY <1>2, <1>5, <1>6, <1>7 DEF PageCovers

LEMMA HandlesReads ==
    ASSUME RequestsTypeOK, HandlersSound, BacktestSound, NEW h \in Handler, Handles(h)
    PROVE  BacktestSound'
<1>0. PagesTypeOK /\ \A g \in Handler \ {h} : Kept(g)
  BY HandlesKeepsOthers DEF RequestsTypeOK
<1>1. \A g \in Handler \ {h} : Reads(g)' => Reads(g) /\ (call'[g].ok => call[g].ok)
  BY <1>0 DEF Kept, Reads
<1>2. CASE DispatchRuntimeRequest(h)
  <2>1. Reads(h)' => Reads(h) /\ (call'[h].ok => call[h].ok)
    <3>1. CASE Admits(h)
      <4> DEFINE c == [call[h] EXCEPT !.pc = "forward"]
      <4>1. c.op = call[h].op /\ c.ok = call[h].ok
        BY DEF RequestsTypeOK, CallType
      <4>2. call'[h] = c /\ call[h].pc = "check"
        BY <1>2, <3>1 DEF DispatchRuntimeRequest, RequestsTypeOK
      <4> HIDE DEF c
      <4> QED BY <4>1, <4>2 DEF Reads
    <3>2. CASE ~Admits(h)
      BY <1>2, <3>2, RefusedTyped, NoCallTyped DEF DispatchRuntimeRequest, Reads
    <3> QED BY <3>1, <3>2
  <2> QED BY <1>1, <1>2, <2>1, OtherStepReads DEF DispatchRuntimeRequest, pageVars
<1>3. CASE \/ SaveSession(h) \/ UpdateSession(h) \/ CreateSessionMarketDataSubscriptions(h)
           \/ ReleaseSessionMarketDataSubscriptions(h) \/ AnswersOnly(h) \/ DeliverDataset(h)
  <2>1. UNCHANGED <<rows, backtest>>
    BY <1>3 DEF SaveSession, UpdateSession, CreateSessionMarketDataSubscriptions,
       ReleaseSessionMarketDataSubscriptions, AnswersOnly, DeliverDataset, DeliveryBegins,
       PageDelivered, EndChunkDelivered, DeliveryOver, pageVars
  <2>2. /\ call[h].op # "FetchBacktestPage"
        /\ Forwarded(h) \/ UNCHANGED call
    BY <1>3 DEF SaveSession, UpdateSession, CreateSessionMarketDataSubscriptions,
       ReleaseSessionMarketDataSubscriptions, AnswersOnly, DeliverDataset, Forwards, Paged
  <2>3. call'[h] = NoCall \/ call'[h].op = call[h].op
    BY <2>2, ForwardedTyped
  <2>4. ~Reads(h)'
    BY <2>2, <2>3, NoCallTyped DEF Reads
  <2> QED BY <1>1, <2>1, <2>4, OtherStepReads
<1>4. CASE FetchBacktestPage(h)
  <2>1. Reads(h) /\ BacktestPageFetched /\ Forwarded(h)
    BY <1>4 DEF FetchBacktestPage, Forwards, Reads
  <2>2. /\ PageCovers' /\ UNCHANGED rows /\ backtest'.due = backtest.due
        /\ backtest'.st = backtest.st /\ backtest'.after = backtest.after
    BY <1>0, <2>1, PageFetchedCovers DEF BacktestSound
  <2>3. \A g \in Handler : Reads(g)' => g = h
    BY <1>1, <2>1 DEF BacktestSound
  <2> QED BY <2>1, <2>2, <2>3 DEF BacktestSound
<1>5. CASE HandleRuntimeRequest(h)
  <2>1. ~Reads(h)' /\ call[h].pc = "answer"
    BY <1>5, AnsweredTyped, NoCallTyped DEF HandleRuntimeRequest, Reads
  <2>2. CASE UNCHANGED pageVars
    BY <1>1, <2>1, <2>2, OtherStepReads DEF pageVars
  <2>3. CASE call[h].op = "FetchBacktestPage" /\ call[h].ok /\ BacktestPageRead
    <3>1. Reads(h) /\ PageCovers /\ backtest.st = "reading"
      BY <2>1, <2>3 DEF Reads, BacktestSound
    <3>2. \A g \in Handler : ~Reads(g)'
      BY <1>1, <2>1, <3>1 DEF BacktestSound
    <3> QED BY <1>0, <2>3, <3>1, <3>2, PageReadSound
  <2> QED BY <1>5, <2>2, <2>3 DEF HandleRuntimeRequest
<1> QED BY <1>2, <1>3, <1>4, <1>5 DEF Handles, Serves

LEMMA BacktestKept ==
    ASSUME RequestsTypeOK, HandlersSound, BacktestSound, [Next]_vars
    PROVE  BacktestSound'
<1>0. PagesTypeOK /\ 1 \in Stream
  BY PagesAssumption DEF RequestsTypeOK, Stream
<1>1. ASSUME NEW h \in Handler, GivesUp(h)
      PROVE  BacktestSound'
  <2>1. call' = [call EXCEPT ![h] = Refused(h)] /\ call[h].pc # "idle"
    BY <1>1 DEF GivesUp, CheckFails, ForwardFails, DeadlinePasses, Cancelled, Errs
  <2>2. UNCHANGED <<rows, backtest>>
    BY <1>1 DEF GivesUp, CheckFails, ForwardFails, DeadlinePasses, Cancelled, Errs, DeliveryOver, pageVars
  <2>3. Reads(h)' => Reads(h) /\ (call'[h].ok => call[h].ok)
    BY <2>1, RefusedTyped, NoCallTyped DEF Reads
  <2>4. \A g \in Handler \ {h} : Reads(g)' => Reads(g) /\ (call'[g].ok => call[g].ok)
    BY <2>1, RefusedTyped DEF Reads
  <2> QED BY <2>2, <2>3, <2>4, OtherStepReads
<1>2. CASE StreamEnds
  <2>1. \A g \in Handler : Reads(g)' => Reads(g) /\ (call'[g].ok => call[g].ok)
    BY <1>2, UnlinkedTyped DEF Reads
  <2> QED BY <1>2, <2>1, OtherStepReads DEF StreamEnds, pageVars
<1>3. CASE UNCHANGED vars \/ StreamComesBack \/ DebuggerSteps
  <2>1. UNCHANGED <<rows, backtest, call>>
    BY <1>3 DEF vars, StreamComesBack, DebuggerSteps, handlerVars, pageVars
  <2> QED BY <2>1, OtherStepReads DEF Reads
<1>4. CASE KlineStored
  <2>1. UNCHANGED <<backtest, call>> /\ rows[1] \subseteq rows'[1]
    BY <1>0, <1>4, StoredKept DEF KlineStored, StoreKline, handlerVars
  <2> QED BY <2>1, OtherStepReads DEF Reads
<1>5. CASE BacktestStarts
  <2>1. call' = call /\ rows' = rows /\ backtest.st = "none"
    BY <1>5 DEF BacktestStarts, BacktestBegins, handlerVars
  <2>2. \A g \in Handler : ~Reads(g)'
    BY <2>1 DEF BacktestSound, Reads
  <2>3. backtest'.st = "reading" /\ backtest'.due = rows[1] /\ backtest'.after = 0
    BY <1>5 DEF BacktestStarts, BacktestBegins, NoBacktest
  <2>4. \A t \in rows[1] : t > 0
    BY <1>0, PagesAssumption DEF PagesTypeOK, Tick
  <2> QED BY <2>1, <2>2, <2>3, <2>4 DEF BacktestSound
<1> QED BY <1>1, <1>2, <1>3, <1>4, <1>5, SendsReads, HandlesReads DEF Next

LEMMA ReadersInit == Init => DeliveriesSound /\ BacktestSound
  BY NoDeliveryTyped, NoCallTyped DEF Init, PagesInit, DeliveriesSound, DeliverySound,
     BacktestSound, Reads

\* The End chunk of a dataset, and the last page of a backtest unless a fetch cut it
\* short, come only when every row that was stored at the beginning has been read,
\* whatever the scrapers stored meanwhile, for any chunk, page and fetch size.
THEOREM ReadingIsComplete == Spec => []ReadersMissNothing
<1>1. DeliveriesSound /\ BacktestSound => ReadersMissNothing
  BY DEF DeliveriesSound, DeliverySound, BacktestSound, ReadersMissNothing
<1>2. RequestsInv /\ DeliveriesSound /\ [Next]_vars => DeliveriesSound'
  BY DeliveriesKept DEF RequestsInv, RequestsTypeOK
<1>3. RequestsInv /\ HandlersSound /\ BacktestSound /\ [Next]_vars => BacktestSound'
  BY BacktestKept DEF RequestsInv
<1> QED BY <1>1, <1>2, <1>3, RequestsInit, RequestsNext, HandlersInit, HandlersKept, ReadersInit,
           PTL DEF Spec

\* What has_more promises would hold if a fetch returned a whole page, as it does not in
\* the code: the condition that the counterexample to BacktestMissesNothing breaks.
THEOREM WholePagesMissNothing ==
    ASSUME BacktestPageSize <= MaxFetchLimit
    PROVE  Spec => []BacktestMissesNothing
<1>1. BacktestSound => BacktestMissesNothing
  BY DEF BacktestSound, BacktestMissesNothing
<1>2. RequestsInv /\ HandlersSound /\ BacktestSound /\ [Next]_vars => BacktestSound'
  BY BacktestKept DEF RequestsInv
<1> QED BY <1>1, <1>2, RequestsInit, RequestsNext, HandlersInit, HandlersKept, ReadersInit,
           PTL DEF Spec

-----------------------------------------------------------------------------
(* The dataset a debugger holds *)

\* Commands that a load left behind when its send failed may still be handled: then no row
\* is active.  The active row is right until the runtime has answered.
NoneActive == \A d \in Dataset : dataset[d] # "active"
RowHeld == \A d \in Dataset : dataset[d] = "active" => memory = d

\* A load names a dataset that no command left behind names; its own command comes last.
LoadSound(l) ==
    /\ load[l].pc # "idle" => load[l].of \in Dataset /\ load[l].of <= stamped
    /\ load[l].pc = "send" => \A n \in 1 .. Len(command) : command[n] # load[l].of
    /\ load[l].pc = "wait" =>
          /\ command # << >> /\ command[Len(command)] = load[l].of
          /\ \A n \in 1 .. Len(command) - 1 : command[n] # load[l].of
          /\ Len(command) > 1 => NoneActive
    /\ load[l].pc = "active" => memory = load[l].of /\ command = << >>

\* While loads keep calm there is one at a time.
OneLoad == \A k, l \in Loader : load[k].pc # "idle" /\ load[l].pc # "idle" => k = l

LoadsInOrder ==
    /\ OneLoad
    /\ \A n \in 1 .. Len(command) : command[n] <= stamped
    /\ \A l \in Loader : LoadSound(l)
    /\ (\A l \in Loader : load[l].pc \in {"idle", "send"}) /\ command # << >> => NoneActive
    /\ (\A l \in Loader : load[l].pc \in {"idle", "send", "wait"}) => RowHeld

CalmSound == calm => LoadsInOrder

\* The rows of the other loaders when one load is under way.
LEMMA OthersIdle ==
    ASSUME OneLoad, NEW l \in Loader, load[l].pc # "idle",
           \A k \in Loader \ {l} : load'[k] = load[k]
    PROVE  \A k \in Loader \ {l} : load[k].pc = "idle" /\ load'[k].pc = "idle"
  BY DEF OneLoad

\* One load under way makes all loads orderly, if it is sound itself.
LEMMA OneLoadSound ==
    ASSUME NEW l \in Loader, \A k \in Loader \ {l} : load'[k].pc = "idle",
           LoadSound(l)', \A n \in 1 .. Len(command') : command'[n] <= stamped',
           load'[l].pc \in {"idle", "send"} /\ command' # << >> => NoneActive',
           load'[l].pc \in {"idle", "send", "wait"} => RowHeld'
    PROVE  LoadsInOrder'
<1>1. \A k \in Loader \ {l} : LoadSound(k)'
  BY DEF LoadSound
<1> QED BY <1>1 DEF LoadsInOrder, OneLoad

LEMMA LastCommand ==
    ASSUME NEW c \in Seq(Dataset), NEW d \in Dataset
    PROVE  /\ Append(c, d) \in Seq(Dataset) /\ Append(c, d) # << >>
           /\ Len(c) \in Nat /\ Len(Append(c, d)) = Len(c) + 1
           /\ Append(c, d)[Len(c) + 1] = d
           /\ \A n \in 1 .. Len(c) : Append(c, d)[n] = c[n]
           /\ Len(c) > 0 <=> c # << >>
  BY AppendProperties, EmptySeq

LEMMA FirstCommand ==
    ASSUME NEW c \in Seq(Dataset), c # << >>
    PROVE  /\ Len(c) \in Nat /\ Len(c) > 0 /\ Tail(c) \in Seq(Dataset)
           /\ Head(c) = c[1] /\ Len(Tail(c)) = Len(c) - 1
           /\ \A n \in 1 .. Len(c) - 1 : Tail(c)[n] = c[n + 1]
           /\ Tail(c) = << >> <=> Len(c) = 1
<1>1. /\ Len(c) \in Nat /\ Len(c) > 0 /\ Tail(c) \in Seq(Dataset)
      /\ Head(c) = c[1] /\ Len(Tail(c)) = Len(c) - 1
  BY HeadTailProperties, EmptySeq
<1>2. \A n \in 1 .. Len(c) - 1 : Tail(c)[n] = c[n + 1]
  BY <1>1, HeadTailProperties
<1>3. Tail(c) = << >> <=> Len(c) = 1
  <2> DEFINE t == Tail(c)
  <2>1. t \in Seq(Dataset) /\ Len(t) = Len(c) - 1
    BY <1>1
  <2> HIDE DEF t
  <2>2. t = << >> <=> Len(t) = 0
    BY <2>1, EmptySeq
  <2> QED BY <1>1, <2>1, <2>2 DEF t
<1> QED BY <1>1, <1>2, <1>3

LEMMA LoadBegins ==
    ASSUME DebugTypeOK, CalmSound, NEW l \in Loader, LoadDebugDataset(l)
    PROVE  CalmSound'
<1>1. /\ load'[l].pc = "send" /\ load'[l].of = stamped + 1 /\ stamped' = stamped + 1
      /\ \A k \in Loader \ {l} : load'[k] = load[k]
  BY LoadTyped DEF LoadDebugDataset, DebugTypeOK
<1>2. UNCHANGED <<dataset, command, memory>> /\ load'[l].of \in Dataset
  BY LoadTyped DEF LoadDebugDataset
<1>3. SUFFICES ASSUME calm' PROVE LoadsInOrder'
  BY DEF CalmSound
<1>4. LoadsInOrder /\ \A k \in Loader : load[k].pc = "idle"
  BY <1>3 DEF LoadDebugDataset, Loading, CalmSound
<1>5. RowHeld' /\ (command' # << >> => NoneActive')
  BY <1>2, <1>4 DEF LoadsInOrder, RowHeld, NoneActive
<1>6. stamped \in Nat /\ \A n \in 1 .. Len(command) : command[n] \in Nat /\ command[n] <= stamped
  <2>1. command \in Seq(Dataset) /\ stamped \in Nat /\ Dataset \subseteq Nat
    BY DEF DebugTypeOK, Dataset
  <2>2. \A n \in 1 .. Len(command) : command[n] \in Dataset
    BY <2>1, ElementOfSeq
  <2> QED BY <1>4, <2>1, <2>2 DEF LoadsInOrder
<1>7. \A n \in 1 .. Len(command') : command'[n] <= stamped' /\ command'[n] # load'[l].of
  BY <1>1, <1>2, <1>6
<1>8. LoadSound(l)'
  BY <1>1, <1>2, <1>6, <1>7 DEF LoadSound
<1>9. \A k \in Loader \ {l} : load'[k].pc = "idle"
  BY <1>1, <1>4
<1> QED BY <1>1, <1>5, <1>7, <1>8, <1>9, OneLoadSound

\* The command of the load goes out behind those that were left behind.
LEMMA LoadSent ==
    ASSUME DebugTypeOK, CalmSound, NEW l \in Loader, SendLoadCommand(l)
    PROVE  CalmSound'
<1>1. /\ load'[l].pc = "wait" /\ load'[l].of = load[l].of
      /\ \A k \in Loader \ {l} : load'[k] = load[k]
  BY LoadTyped
<1>2. /\ UNCHANGED <<dataset, memory, calm, stamped>> /\ load[l].pc = "send"
      /\ command' = Append(command, load[l].of) /\ command \in Seq(Dataset)
  BY DEF SendLoadCommand, LoadPayload, DebugTypeOK
<1>3. SUFFICES ASSUME LoadsInOrder PROVE LoadsInOrder'
  BY <1>2 DEF CalmSound
<1>4. \A k \in Loader \ {l} : load[k].pc = "idle" /\ load'[k].pc = "idle"
  BY <1>1, <1>2, <1>3, OthersIdle DEF LoadsInOrder
<1>5. /\ load[l].of \in Dataset /\ load[l].of <= stamped
      /\ \A n \in 1 .. Len(command) : command[n] # load[l].of /\ command[n] <= stamped
  BY <1>2, <1>3 DEF LoadsInOrder, LoadSound
<1>6. /\ Len(command) \in Nat /\ Len(command') = Len(command) + 1 /\ command' # << >>
      /\ command'[Len(command')] = load[l].of
      /\ \A n \in 1 .. Len(command) : command'[n] = command[n]
  BY <1>2, <1>5, LastCommand
<1>7. RowHeld' /\ (command # << >> => NoneActive')
  BY <1>2, <1>3, <1>4 DEF LoadsInOrder, RowHeld, NoneActive
<1>8. Len(command') > 1 => NoneActive'
  <2>1. Len(command') > 1 => command # << >>
    BY <1>2, <1>5, <1>6, LastCommand
  <2> QED BY <1>7, <2>1
<1>9. /\ \A n \in 1 .. Len(command') : command'[n] <= stamped'
      /\ \A n \in 1 .. Len(command') - 1 : command'[n] # load'[l].of
  BY <1>1, <1>2, <1>5, <1>6
<1>10. LoadSound(l)'
  BY <1>1, <1>2, <1>5, <1>6, <1>8, <1>9 DEF LoadSound
<1> QED BY <1>1, <1>4, <1>7, <1>9, <1>10, OneLoadSound

\* The send fails: the command may be out, and the load goes on to record the failure.
LEMMA LoadUnsent ==
    ASSUME DebugTypeOK, CalmSound, NEW l \in Loader, LoadFindsNoStream(l) \/ SendLoadFails(l)
    PROVE  CalmSound'
<1>1. /\ load'[l].pc = "failed" /\ load'[l].of = load[l].of
      /\ \A k \in Loader \ {l} : load'[k] = load[k]
  BY LoadTyped
<1>2. /\ UNCHANGED <<calm, stamped>> /\ load[l].pc = "send"
      /\ command' = command \/ command' = Append(command, load[l].of)
      /\ command \in Seq(Dataset)
  BY DEF LoadFindsNoStream, SendLoadFails, LoadPayload, DebugTypeOK
<1>3. SUFFICES ASSUME LoadsInOrder PROVE LoadsInOrder'
  BY <1>2 DEF CalmSound
<1>4. \A k \in Loader \ {l} : load'[k].pc = "idle"
  BY <1>1, <1>2, <1>3, OthersIdle DEF LoadsInOrder
<1>5. /\ load[l].of \in Dataset /\ load[l].of <= stamped
      /\ \A n \in 1 .. Len(command) : command[n] <= stamped
  BY <1>2, <1>3 DEF LoadsInOrder, LoadSound
<1>6. \A n \in 1 .. Len(command') : command'[n] <= stamped'
  <2>1. CASE command' = command
    BY <1>2, <1>5, <2>1
  <2>2. CASE command' = Append(command, load[l].of)
    <3>1. /\ Len(command) \in Nat /\ Len(command') = Len(command) + 1
          /\ command'[Len(command) + 1] = load[l].of
          /\ \A n \in 1 .. Len(command) : command'[n] = command[n]
      BY <1>2, <1>5, <2>2, LastCommand
    <3> QED BY <1>2, <1>5, <3>1
  <2> QED BY <1>2, <2>1, <2>2
<1>7. LoadSound(l)'
  BY <1>1, <1>2, <1>5 DEF LoadSound
<1> QED BY <1>1, <1>4, <1>6, <1>7, OneLoadSound

LEMMA LoadEnds ==
    ASSUME DebugTypeOK, CalmSound, NEW l \in Loader,
           LoadTimesOut(l) \/ ReplaceActiveDebugDataset(l) \/ ReplaceFails(l)
    PROVE  CalmSound'
<1>1. /\ load'[l] = NoLoad /\ load'[l].pc = "idle"
      /\ \A k \in Loader \ {l} : load'[k] = load[k]
  BY LoadTyped, NoLoadTyped
<1>2. UNCHANGED <<command, memory, stamped>> /\ load[l].pc # "idle"
  BY DEF LoadTimesOut, ReplaceActiveDebugDataset, ReplaceFails
<1>3. SUFFICES ASSUME calm' PROVE LoadsInOrder'
  BY DEF CalmSound
<1>4. /\ LoadsInOrder
      /\ \/ LoadTimesOut(l) /\ load[l].pc = "send"
         \/ ReplaceActiveDebugDataset(l) /\ load[l].pc \in {"active", "failed"}
  BY <1>3 DEF LoadTimesOut, ReplaceActiveDebugDataset, ReplaceFails, CalmSound
<1>5. \A k \in Loader \ {l} : load[k].pc = "idle" /\ load'[k].pc = "idle"
  BY <1>1, <1>2, <1>4, OthersIdle DEF LoadsInOrder
<1>6. RowHeld' /\ (command' # << >> => NoneActive')
  <2>1. ASSUME LoadTimesOut(l), load[l].pc = "send"
        PROVE  RowHeld' /\ (command' # << >> => NoneActive')
    <3>1. UNCHANGED dataset
      BY <2>1 DEF LoadTimesOut
    <3>2. RowHeld /\ (command # << >> => NoneActive)
      BY <1>4, <1>5, <2>1 DEF LoadsInOrder
    <3> QED BY <1>2, <3>1, <3>2 DEF RowHeld, NoneActive
  <2>2. ASSUME ReplaceActiveDebugDataset(l), load[l].pc = "failed"
        PROVE  NoneActive'
    BY <2>2 DEF ReplaceActiveDebugDataset, Replaced, NoneActive
  <2>3. ASSUME ReplaceActiveDebugDataset(l), load[l].pc = "active"
        PROVE  RowHeld' /\ command' = << >>
    <3>1. memory = load[l].of /\ command = << >>
      BY <1>4, <2>3 DEF LoadsInOrder, LoadSound
    <3>2. \A d \in Dataset : dataset'[d] = "active" => d = load[l].of
      BY <2>3 DEF ReplaceActiveDebugDataset, Replaced
    <3> QED BY <1>2, <3>1, <3>2 DEF RowHeld
  <2>4. NoneActive' => RowHeld'
    BY DEF NoneActive, RowHeld
  <2> QED BY <1>4, <2>1, <2>2, <2>3, <2>4
<1>7. LoadSound(l)' /\ \A n \in 1 .. Len(command') : command'[n] <= stamped'
  BY <1>1, <1>2, <1>4 DEF LoadSound, LoadsInOrder
<1> QED BY <1>5, <1>6, <1>7, OneLoadSound

\* A command is handled that was left behind, or the one of the load that waits, which is
\* the last one.
LEMMA RuntimeHandlesLoad ==
    ASSUME DebugTypeOK, CalmSound, RuntimeLoads \/ RuntimeRefusesLoad
    PROVE  CalmSound'
<1>1. /\ UNCHANGED <<dataset, calm, stamped>> /\ command # << >> /\ command' = Tail(command)
      /\ command \in Seq(Dataset)
      /\ \E pc \in {"active", "failed"} :
            /\ Answered(Head(command), pc)
            /\ pc = "active" => memory' = Head(command)
  BY DEF RuntimeLoads, RuntimeRefusesLoad, DebugTypeOK
<1>2. SUFFICES ASSUME LoadsInOrder PROVE LoadsInOrder'
  BY <1>1 DEF CalmSound
<1>3. PICK pc \in {"active", "failed"} :
         Answered(Head(command), pc) /\ (pc = "active" => memory' = Head(command))
  BY <1>1
<1>4. \A k \in Loader :
         /\ load'[k].of = load[k].of
         /\ load'[k].pc = IF load[k].pc = "wait" /\ load[k].of = command[1]
                          THEN pc ELSE load[k].pc
  BY <1>1, <1>3, AnsweredLoads, FirstCommand
<1>5. /\ Len(command) \in Nat /\ Len(command) > 0 /\ Len(command') = Len(command) - 1
      /\ \A n \in 1 .. Len(command) - 1 : command'[n] = command[n + 1]
      /\ command' = << >> <=> Len(command) = 1
      /\ Head(command) = command[1]
  BY <1>1, FirstCommand
<1>6. \A n \in 1 .. Len(command') : command'[n] <= stamped'
  <2>1. \A n \in 1 .. Len(command) : command[n] <= stamped
    BY <1>2 DEF LoadsInOrder
  <2> QED BY <1>1, <1>5, <2>1
<1>7. CASE \E l \in Loader : load[l].pc = "wait"
  <2>1. PICK l \in Loader : load[l].pc = "wait"
    BY <1>7
  <2>2. \A k \in Loader \ {l} : load[k].pc = "idle" /\ load'[k].pc = "idle"
    BY <1>2, <1>4, <2>1 DEF LoadsInOrder, OneLoad
  <2>3. /\ load[l].of \in Dataset /\ load[l].of <= stamped
        /\ command[Len(command)] = load[l].of
        /\ \A n \in 1 .. Len(command) - 1 : command[n] # load[l].of
        /\ Len(command) > 1 => NoneActive
    BY <1>2, <2>1 DEF LoadsInOrder, LoadSound
  <2>4. CASE Len(command) = 1
    <3>1. load'[l].pc = pc /\ load'[l].of = load[l].of /\ command' = << >>
      BY <1>4, <1>5, <2>1, <2>3, <2>4
    <3>2. pc = "active" => memory' = load[l].of
      BY <1>3, <1>5, <2>3, <2>4
    <3>3. LoadSound(l)'
      BY <1>1, <2>3, <3>1, <3>2 DEF LoadSound
    <3> QED BY <1>6, <2>2, <3>1, <3>3, OneLoadSound
  <2>5. CASE Len(command) > 1
    <3>1. command[1] # load[l].of
      BY <1>5, <2>3, <2>5
    <3>2. load'[l].pc = "wait" /\ load'[l].of = load[l].of
      BY <1>4, <2>1, <3>1
    <3>3. NoneActive' /\ RowHeld'
      BY <1>1, <2>3, <2>5 DEF NoneActive, RowHeld
    <3>4. /\ command' # << >> /\ command'[Len(command')] = load[l].of
          /\ \A n \in 1 .. Len(command') - 1 : command'[n] # load[l].of
      BY <1>5, <2>3, <2>5
    <3>5. LoadSound(l)'
      BY <1>1, <2>3, <3>2, <3>3, <3>4 DEF LoadSound
    <3> QED BY <1>6, <2>2, <3>2, <3>3, <3>5, OneLoadSound
  <2> QED BY <1>5, <2>4, <2>5
<1>8. CASE \A l \in Loader : load[l].pc # "wait"
  <2>1. \A k \in Loader : load'[k].pc = load[k].pc /\ load'[k].of = load[k].of
    BY <1>4, <1>8
  <2>2. \A k \in Loader : load[k].pc # "active"
    BY <1>1, <1>2 DEF LoadsInOrder, LoadSound
  <2>3. ASSUME NEW k \in Loader PROVE LoadSound(k)'
    <3>1. load'[k].pc # "idle" => load'[k].of \in Dataset /\ load'[k].of <= stamped'
      BY <1>1, <1>2, <2>1 DEF LoadsInOrder, LoadSound
    <3>2. load'[k].pc = "send" => \A n \in 1 .. Len(command') : command'[n] # load'[k].of
      <4>1. load[k].pc = "send" => \A n \in 1 .. Len(command) : command[n] # load[k].of
        BY <1>2 DEF LoadsInOrder, LoadSound
      <4> QED BY <1>5, <2>1, <4>1
    <3> QED BY <1>8, <2>1, <2>2, <3>1, <3>2 DEF LoadSound
  <2>4. (\A k \in Loader : load'[k].pc \in {"idle", "send", "wait"}) => NoneActive' /\ RowHeld'
    <3>1. (\A k \in Loader : load'[k].pc \in {"idle", "send", "wait"}) => NoneActive
      BY <1>1, <1>2, <1>8, <2>1 DEF LoadsInOrder
    <3> QED BY <1>1, <3>1 DEF NoneActive, RowHeld
  <2>5. OneLoad'
    BY <1>2, <2>1 DEF LoadsInOrder, OneLoad
  <2> QED BY <1>6, <2>3, <2>4, <2>5 DEF LoadsInOrder
<1> QED BY <1>7, <1>8

\* The end of a stream: no result comes any more, and what the runtime made of a command
\* stays open.
LEMMA LoadsCutOff ==
    ASSUME DebugTypeOK, CalmSound, LoadsDisconnected, HandledUnanswered
    PROVE  CalmSound'
<1>1. UNCHANGED <<dataset, calm, stamped>> /\ command' = << >>
  BY DEF LoadsDisconnected
<1>2. SUFFICES ASSUME LoadsInOrder PROVE LoadsInOrder'
  BY <1>1 DEF CalmSound
<1>3. \A l \in Loader : /\ load'[l].of = load[l].of
                        /\ load'[l].pc = IF load[l].pc = "wait" THEN "failed" ELSE load[l].pc
  BY DisconnectedLoads
<1>4. Len(command') = 0 /\ \A n \in 1 .. Len(command') : command'[n] <= stamped'
  BY <1>1
<1>5. memory' = memory \/ command # << >>
  <2>1. command = << >> => DOMAIN command = {}
    OBVIOUS
  <2> QED BY <2>1 DEF HandledUnanswered
<1>6. ASSUME NEW l \in Loader PROVE LoadSound(l)'
  <2>1. load'[l].pc # "idle" => load'[l].of \in Dataset /\ load'[l].of <= stamped'
    BY <1>1, <1>2, <1>3 DEF LoadsInOrder, LoadSound
  <2>2. load'[l].pc = "active" => memory' = load'[l].of
    BY <1>2, <1>3, <1>5 DEF LoadsInOrder, LoadSound
  <2>3. load'[l].pc # "wait"
    BY <1>3
  <2> QED BY <1>1, <1>4, <2>1, <2>2, <2>3 DEF LoadSound
<1>7. (\A l \in Loader : load'[l].pc \in {"idle", "send", "wait"}) => RowHeld'
  <2>1. SUFFICES ASSUME \A l \in Loader : load'[l].pc \in {"idle", "send", "wait"}
                 PROVE  RowHeld'
    OBVIOUS
  <2>2. \A l \in Loader : load[l].pc \in {"idle", "send"}
    BY <1>3, <2>1
  <2>3. RowHeld /\ (command # << >> => NoneActive)
    BY <1>2, <2>2 DEF LoadsInOrder
  <2> QED BY <1>1, <1>5, <2>3 DEF RowHeld, NoneActive
<1>8. OneLoad'
  BY <1>2, <1>3 DEF LoadsInOrder, OneLoad
<1> QED BY <1>1, <1>4, <1>6, <1>7, <1>8 DEF LoadsInOrder

LEMMA CalmKept ==
    ASSUME RequestsTypeOK, CalmSound, [Next]_vars
    PROVE  CalmSound'
<1>0. DebugTypeOK
  BY DEF RequestsTypeOK
<1>1. UNCHANGED <<stamped, dataset, load, command, memory, calm>> => CalmSound'
  BY DEF CalmSound, LoadsInOrder, OneLoad, LoadSound, RowHeld, NoneActive
<1>2. ASSUME NEW h \in Handler, Sends(h) \/ Handles(h) \/ GivesUp(h)
      PROVE  UNCHANGED debugVars
  BY <1>2, SendsTyped, HandlesTyped, ErrsTyped
<1>3. CASE StreamComesBack \/ KlineStored \/ BacktestStarts \/ UNCHANGED vars
  BY <1>1, <1>3 DEF StreamComesBack, KlineStored, BacktestStarts, vars, debugVars
<1>4. CASE StreamEnds
  BY <1>0, <1>4, LoadsCutOff DEF StreamEnds
<1>5. CASE DebuggerSteps
  <2>1. CASE PrepareDebugWorkspace
    BY <1>1, <2>1 DEF PrepareDebugWorkspace, SaveDebugWorkspaceState, MarkDebugWorkspaceError
  <2> QED BY <1>0, <1>5, <2>1, LoadBegins, LoadSent, LoadUnsent, LoadEnds, RuntimeHandlesLoad
          DEF DebuggerSteps, DebugNext
<1> QED BY <1>1, <1>2, <1>3, <1>4, <1>5 DEF Next, debugVars

LEMMA CalmInit == Init => CalmSound
<1> SUFFICES ASSUME Init PROVE LoadsInOrder
  BY DEF CalmSound
<1>1. \A l \in Loader : load[l].pc = "idle"
  BY NoLoadTyped DEF Init, DebugInit
<1>2. command = << >> /\ RowHeld /\ Len(command) = 0
  BY DEF Init, DebugInit, RowHeld
<1> QED BY <1>1, <1>2 DEF LoadsInOrder, OneLoad, LoadSound

\* The row that replays start from names the dataset the runtime holds, provided that loads
\* did not overlap, none was given up while its command was out, and each outcome was
\* recorded: whatever the end of a stream leaves open of a load, and also if the command
\* of a load that failed is handled later.
THEOREM ActiveIsLoaded == Spec => []ActiveDatasetIsLoaded
<1>1. CalmSound => ActiveDatasetIsLoaded
  BY DEF CalmSound, LoadsInOrder, RowHeld, ActiveDatasetIsLoaded, Loading
<1>2. RequestsInv /\ CalmSound /\ [Next]_vars => CalmSound'
  BY CalmKept DEF RequestsInv
<1> QED BY <1>1, <1>2, RequestsInit, RequestsNext, CalmInit, PTL DEF Spec
=============================================================================
