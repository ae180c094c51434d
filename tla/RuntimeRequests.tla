--------------------------- MODULE RuntimeRequests ---------------------------
(***************************************************************************)
(* What a runtime asks of the platform over its stream.  Every REQUEST     *)
(* frame and every STATUS_PATCH frame is served by a goroutine of its own: *)
(* it checks the session with core-service, forwards the request to the    *)
(* service it is for, and answers a REQUEST by its correlation id.  A      *)
(* patch is answered by nothing.                                           *)
(*                                                                         *)
(* The platform services are external: what they hold of the one session   *)
(* modelled is its row, bound to the runtime that saved it, and its        *)
(* subscriptions.  Requests of another runtime of the user are refused by  *)
(* the check.  What runtimes read, and what they write that nothing else   *)
(* here depends on, has no effect in the model beyond the answer.          *)
(***************************************************************************)
EXTENDS DatasetPages, DebugDatasets

CONSTANTS
    Method,     \* bound: the requests made, besides the reports on the session
    Deadlined,  \* the requests that the runtime sends with a deadline_unix_ms
    MaxFaults   \* bound: failures, disconnections and klines stored meanwhile

VARIABLES
    use,      \* what the runtime is used for
    session,  \* status of the session in core-service
    sub,      \* status of its market-data subscriptions
    call,     \* per handler: the frame it serves and how far it is
    awaiting, \* the requests the runtime waits for, by handler
    told,     \* what the runtime reported last, and whether it wants the stream
    orderly,  \* no two reports of the runtime overlapped, and none failed (history)
    faults    \* how often something failed so far

coreVars == <<session, sub>>
handlerVars == <<call, awaiting>>
historyVars == <<told, orderly>>
vars == <<use, connected, coreVars, handlerVars, historyVars, faults, pageVars, debugVars>>

-----------------------------------------------------------------------------
\* What a runtime is used for: a live session, a session on a dataset, the pages
\* of a backtest, or debugging.
Use == {"live", "dataset", "backtest", "debug"}

Reported == {"running", "stopping", "finished"}
Active == {"running", "stopping"}

\* The order in which a runtime reports on a session.
Rank(status) == CASE status = "none" -> 0 [] status = "running" -> 1
                  [] status = "stopping" -> 2 [] status = "finished" -> 3

\* What a request must pass before it is forwarded: the user and runtime it names
\* ("ids"), its portfolio, its session, which is the runtime's own ("owner") or
\* also active, its debug dataset.  Some are never forwarded.
PortfolioChecks ==
    [GetSession                      |-> {"ids", "owner"},
     ListSessions                    |-> {"ids", "portfolio"},
     GetPortfolioSnapshot            |-> {"ids", "portfolio"},
     UpdatePortfolioSnapshot         |-> {"never"},
     UpdatePortfolioWalletState      |-> {"ids", "portfolio", "active"},
     UpdatePortfolioWalletStateAtEnd |-> {"ids", "portfolio", "owner"},
     PreflightStrategySession        |-> {"ids", "portfolio"},
     GetActiveStrategy               |-> {"portfolio"}]

SessionChecks ==
    [SaveSession            |-> {"portfolio", "ids"},
     UpdateSession          |-> {"ids", "owner"},
     SaveStrategyIndicators |-> {"ids", "owner"}]

OrderChecks ==
    [PlaceOrder               |-> {"portfolio", "active"},
     PlaceOrderWithoutSession |-> {"portfolio"},
     ResolveOrderAttempt      |-> {"portfolio"}]

MarketDataChecks ==
    [GetMarketDataStreamStatus             |-> {},
     FetchKlines                           |-> {},
     FetchBacktestPage                     |-> {},
     DeliverDataset                        |-> {"ids", "active"},
     CreateOrRenewMarketDataLease          |-> {"portfolio", "active"},
     ReleaseMarketDataLease                |-> {"owner"},
     CreateSessionMarketDataSubscriptions  |-> {"ids"},
     ReleaseSessionMarketDataSubscriptions |-> {"ids", "owner"}]

LogChecks == [Emit |-> {"ids", "portfolio", "active"}]

NotificationChecks == [Publish |-> {"ids", "portfolio", "active"}]

DebugChecks == [StartDebugReplay |-> {"ids", "replay"}]

\* Two tables as one (they have no method in common).
Joined(f, g) == [op \in DOMAIN f \cup DOMAIN g |-> IF op \in DOMAIN f THEN f[op] ELSE g[op]]

\* Methods by their canonical names; a name that is not known is never forwarded.
Checks ==
    Joined(SessionChecks, Joined(MarketDataChecks, Joined(PortfolioChecks,
        Joined(OrderChecks, Joined(LogChecks, Joined(NotificationChecks,
        Joined(DebugChecks, [Unsupported |-> {"never"}])))))))

ASSUME RequestsAssumption ==
    /\ Method \subseteq DOMAIN Checks
    /\ Deadlined \subseteq DOMAIN Checks
    /\ MaxFaults \in Nat

\* The ones that change what is modelled of the session.
Report == {"SaveSession", "UpdateSession", "CreateSessionMarketDataSubscriptions",
           "ReleaseSessionMarketDataSubscriptions"}

\* The ones that read klines by the page.
Paged == {"DeliverDataset", "FetchBacktestPage"}

\* seen: the session was active at some time since the frame was received
\* (history).  linked: the stream the frame came on is open.
NoCall == [pc |-> "idle", op |-> "none", status |-> "none", foreign |-> FALSE,
           patch |-> FALSE, linked |-> FALSE, seen |-> FALSE, ok |-> FALSE]

Init ==
    /\ PagesInit /\ DebugInit
    /\ use \in Use
    /\ use \in {"live", "debug"} => rows = [k \in Stream |-> {}]
    /\ session = "none" /\ sub = "none"
    /\ call = [h \in Handler |-> NoCall]
    /\ awaiting = {}
    /\ told = [status |-> "none", stream |-> FALSE]
    /\ orderly = TRUE
    /\ faults = 0

Fault ==
    /\ faults < MaxFaults
    /\ faults' = faults + 1

Serving(ops) == {h \in Handler : call[h].pc # "idle" /\ call[h].op \in ops}

-----------------------------------------------------------------------------
(* The runtime sends *)

\* Handle starts a goroutine for the frame and goes on receiving.
Starts(h, op, status, foreign, patch) ==
    /\ connected
    /\ call[h].pc = "idle" /\ h \notin awaiting
    /\ call' = [call EXCEPT ![h] =
           [NoCall EXCEPT !.pc = "check", !.op = op, !.status = status, !.foreign = foreign,
                          !.patch = patch, !.linked = TRUE, !.seen = session \in Active]]
    /\ awaiting' = IF patch \/ foreign THEN awaiting ELSE awaiting \cup {h}

\* A report that overlaps another one may be applied before it.
Reports(h, op, status, stream, patch) ==
    /\ Starts(h, op, status, FALSE, patch)
    /\ told' = [status |-> status, stream |-> stream]
    /\ orderly' = (orderly /\ Serving(Report) = {})
    /\ UNCHANGED <<use, connected, coreVars, faults, pageVars, debugVars>>

\* The runtime saves a session when it starts, and again when that failed.
SendSaveSession(h) ==
    /\ use \in {"live", "dataset"}
    /\ session = "none"
    /\ Serving({"SaveSession"}) = {}
    /\ Reports(h, "SaveSession", "running", FALSE, FALSE)

\* UpdateSession as a request or, without an answer, as a STATUS_PATCH.
SendStatus(h) ==
    /\ session # "none"
    /\ \E status \in Reported, patch \in BOOLEAN :
         /\ Rank(status) > Rank(told.status)
         /\ Reports(h, "UpdateSession", status, told.stream, patch)

SendSubscribe(h) ==
    /\ use = "live"
    /\ session # "none" /\ told.status = "running" /\ ~told.stream
    /\ Reports(h, "CreateSessionMarketDataSubscriptions", told.status, TRUE, FALSE)

SendRelease(h) ==
    /\ told.status = "finished" /\ told.stream
    /\ Reports(h, "ReleaseSessionMarketDataSubscriptions", told.status, FALSE, FALSE)

\* Any other request, of this runtime or of another one.  Datasets
\* and pages are asked for one after the other.
SendRequest(h, op, foreign) ==
    /\ op \notin Report
    /\ foreign => Checks[op] # {}
    /\ op \in Paged => ~foreign /\ Serving({op}) = {}
    /\ op = "DeliverDataset" => use = "dataset"
    /\ op = "FetchBacktestPage" => use = "backtest" /\ backtest.st = "reading"
    /\ op = "StartDebugReplay" => use = "debug" /\ ~foreign
    /\ op \notin Paged \cup {"StartDebugReplay"} => use = "live"
    /\ Starts(h, op, "none", foreign, FALSE)
    /\ UNCHANGED <<use, connected, coreVars, historyVars, faults, pageVars, debugVars>>

-----------------------------------------------------------------------------
(* The handler checks *)

\* The portfolio it names is the user's.
EnsurePortfolioOwner(h) == ~call[h].foreign

\* Faulty: a session that is over is good enough for everything.
EnsureSessionBound(h, allowTerminal) == session # "none" /\ ~call[h].foreign

\* Faulty: no request may name a session that is over.
EnsureSessionActive(h, allowTerminal) == session \in Active /\ ~call[h].foreign

\* The session is bound to the runtime, and is active unless a terminal one is
\* allowed.
EnsureSessionOwner(h, allowTerminal) ==
    /\ session # "none"
    /\ ~call[h].foreign
    /\ allowTerminal \/ session \in Active

\* What DispatchRuntimeRequest demands before it forwards.
Admits(h) ==
    LET checks == Checks[call[h].op]
    IN  /\ "never" \notin checks
        /\ "ids" \in checks => ~call[h].foreign
        /\ "portfolio" \in checks => EnsurePortfolioOwner(h)
        /\ "owner" \in checks => EnsureSessionOwner(h, TRUE)
        /\ "active" \in checks => EnsureSessionOwner(h, FALSE)
        /\ "replay" \in checks => \E d \in Dataset : ReplayOf(d)

\* A patch that is refused is logged.
Refused(h) == IF call[h].patch THEN NoCall ELSE [call[h] EXCEPT !.pc = "answer"]

DispatchRuntimeRequest(h) ==
    /\ call[h].pc = "check"
    /\ IF Admits(h)
       THEN call' = [call EXCEPT ![h].pc = "forward"]
       ELSE call' = [call EXCEPT ![h] = Refused(h)]
    /\ UNCHANGED <<use, connected, coreVars, awaiting, historyVars, faults, pageVars, debugVars>>

Errs(h) ==
    /\ call' = [call EXCEPT ![h] = Refused(h)]
    /\ orderly' = (orderly /\ call[h].op \notin Report)
    /\ IF delivery[h].st # "none" THEN DeliveryOver(h) ELSE UNCHANGED pageVars
    /\ UNCHANGED <<use, connected, coreVars, awaiting, told, debugVars>>

\* A service that the check asks is down, or is not configured.
CheckFails(h) == call[h].pc = "check" /\ Errs(h) /\ Fault

\* The service that the request is for is down, or is not configured.
ForwardFails(h) == call[h].pc = "forward" /\ Errs(h) /\ Fault

\* A frame may carry a deadline, and a patch has statusPatchPersistTimeout: the calls to
\* the services take it, and so does the reading of a dataset, but not the sending of
\* its chunks.
Timed(h) == call[h].patch \/ call[h].op \in Deadlined

DeadlinePasses(h) ==
    /\ call[h].pc \in {"check", "forward"}
    /\ Timed(h)
    /\ Errs(h)
    /\ UNCHANGED faults

-----------------------------------------------------------------------------
(* The handler forwards *)

\* The forwarded request has been answered.  Handlers at work that need an
\* active session see it become one.
Forwarded(h) ==
    call' = [g \in Handler |->
        IF g = h THEN IF call[h].patch THEN NoCall
                      ELSE [call[h] EXCEPT !.pc = "answer", !.ok = TRUE]
        ELSE [call[g] EXCEPT !.seen = @ \/ (call[g].pc # "idle" /\ session' \in Active)]]

Forwards(h, op) == call[h].pc = "forward" /\ call[h].op = op

\* The session is bound to the runtime that saves it.
SaveSession(h) ==
    /\ Forwards(h, "SaveSession")
    /\ session' = "running"
    /\ Forwarded(h)
    /\ UNCHANGED <<use, connected, sub, awaiting, historyVars, faults, pageVars, debugVars>>

\* The status is written whatever the former one was.
WritesStatus(h) == session' = call[h].status

UpdateSession(h) ==
    /\ Forwards(h, "UpdateSession")
    /\ WritesStatus(h)
    /\ Forwarded(h)
    /\ UNCHANGED <<use, connected, sub, awaiting, historyVars, faults, pageVars, debugVars>>

CreateSessionMarketDataSubscriptions(h) ==
    /\ Forwards(h, "CreateSessionMarketDataSubscriptions")
    /\ sub' = "active"
    /\ UNCHANGED session
    /\ Forwarded(h)
    /\ UNCHANGED <<use, connected, awaiting, historyVars, faults, pageVars, debugVars>>

ReleaseSessionMarketDataSubscriptions(h) ==
    /\ Forwards(h, "ReleaseSessionMarketDataSubscriptions")
    /\ sub' = "released"
    /\ UNCHANGED session
    /\ Forwarded(h)
    /\ UNCHANGED <<use, connected, awaiting, historyVars, faults, pageVars, debugVars>>

\* Requests with an answer only: PlaceOrder, ResolveOrderAttempt, the reads, the
\* wallet, the leases, logs and notifications.
AnswersOnly(h) ==
    /\ call[h].pc = "forward"
    /\ call[h].op \notin Report \cup Paged
    /\ UNCHANGED coreVars
    /\ Forwarded(h)
    /\ UNCHANGED <<use, connected, awaiting, historyVars, faults, pageVars, debugVars>>

DeliverDataset(h) ==
    /\ Forwards(h, "DeliverDataset")
    /\ \/ delivery[h].st = "none" /\ DeliveryBegins(h) /\ UNCHANGED call
       \/ PageDelivered(h) /\ UNCHANGED call
       \/ EndChunkDelivered(h) /\ UNCHANGED call
       \/ delivery[h].st = "ended" /\ UNCHANGED session /\ Forwarded(h) /\ DeliveryOver(h)
    /\ UNCHANGED <<use, connected, coreVars, awaiting, historyVars, faults, debugVars>>

FetchBacktestPage(h) ==
    /\ Forwards(h, "FetchBacktestPage")
    /\ BacktestPageFetched
    /\ UNCHANGED session
    /\ Forwarded(h)
    /\ UNCHANGED <<use, connected, sub, awaiting, historyVars, faults, debugVars>>

-----------------------------------------------------------------------------
(* The handler answers *)

\* Faulty: only what succeeded is answered.
AnswersSuccess(h) == IF call[h].linked /\ call[h].ok THEN awaiting \ {h} ELSE awaiting

\* A response or an error frame: sending it fails if the stream is closed.
AnswersCall(h) == IF call[h].linked THEN awaiting \ {h} ELSE awaiting

HandleRuntimeRequest(h) ==
    /\ call[h].pc = "answer"
    /\ awaiting' = AnswersCall(h)
    /\ call' = [call EXCEPT ![h] = NoCall]
    /\ IF call[h].op = "FetchBacktestPage" /\ call[h].linked /\ call[h].ok
       THEN BacktestPageRead
       ELSE UNCHANGED pageVars
    /\ UNCHANGED <<use, connected, coreVars, historyVars, faults, debugVars>>

-----------------------------------------------------------------------------
(* The stream, and what happens beside the requests *)

\* The stream ends: its requests are cancelled with its context, the runtime
\* waits for none of them any more.  Patches have a context of their own.
StreamEnds ==
    /\ connected /\ connected' = FALSE
    /\ Fault
    /\ call' = [h \in Handler |-> [call[h] EXCEPT !.linked = FALSE]]
    /\ awaiting' = {}
    /\ LoadsDisconnected /\ HandledUnanswered
    /\ UNCHANGED <<use, coreVars, historyVars, pageVars>>

\* Its context fails what the handler does next, if it notices in time.
Cancelled(h) ==
    /\ call[h].pc \in {"check", "forward"}
    /\ ~call[h].linked /\ ~call[h].patch
    /\ Errs(h)
    /\ UNCHANGED faults

StreamComesBack ==
    /\ ~connected /\ connected' = TRUE
    /\ UNCHANGED <<use, coreVars, handlerVars, historyVars, faults, pageVars, debugVars>>

KlineStored ==
    /\ use \in {"dataset", "backtest"}
    /\ StoreKline
    /\ Fault
    /\ UNCHANGED <<use, connected, coreVars, handlerVars, historyVars, debugVars>>

BacktestStarts ==
    /\ use = "backtest"
    /\ BacktestBegins
    /\ UNCHANGED <<use, connected, coreVars, handlerVars, historyVars, faults, debugVars>>

DebuggerSteps ==
    /\ use = "debug"
    /\ DebugNext
    /\ UNCHANGED <<use, coreVars, handlerVars, historyVars, faults, pageVars>>

-----------------------------------------------------------------------------
Sends(h) ==
    \/ SendSaveSession(h) \/ SendStatus(h) \/ SendSubscribe(h) \/ SendRelease(h)
    \/ \E op \in Method, foreign \in BOOLEAN : SendRequest(h, op, foreign)

\* The services are asked, and answer; chunks of a dataset are sent.
Serves(h) ==
    \/ DispatchRuntimeRequest(h)
    \/ SaveSession(h) \/ UpdateSession(h)
    \/ CreateSessionMarketDataSubscriptions(h) \/ ReleaseSessionMarketDataSubscriptions(h)
    \/ AnswersOnly(h) \/ DeliverDataset(h) \/ FetchBacktestPage(h)

Handles(h) == Serves(h) \/ HandleRuntimeRequest(h)

GivesUp(h) == CheckFails(h) \/ ForwardFails(h) \/ DeadlinePasses(h) \/ Cancelled(h)

Next ==
    \/ \E h \in Handler : Sends(h) \/ Handles(h) \/ GivesUp(h)
    \/ StreamEnds \/ StreamComesBack
    \/ KlineStored \/ BacktestStarts \/ DebuggerSteps

\* What goes on whatever services and runtimes do: a call that takes the deadline ends
\* with it.  Neither a service nor the send of a frame has another limit.
ExpiresInTime(h) == call[h].op # "DeliverDataset" /\ DeadlinePasses(h)

Spec == Init /\ [][Next]_vars /\ \A h \in Handler : WF_vars(ExpiresInTime(h))

\* The runtime reads what is sent on its stream, so that sendFrame returns.
RuntimeReads == \A h \in Handler : WF_vars(HandleRuntimeRequest(h))

\* The services, and the sends of a dataset, answer in the end.
ServicesAnswer == \A h \in Handler : WF_vars(Serves(h))

-----------------------------------------------------------------------------
CallType ==
    [pc : {"idle", "check", "forward", "answer"},
     op : DOMAIN Checks \cup {"none"},
     status : Reported \cup {"none"}, foreign : BOOLEAN, patch : BOOLEAN,
     linked : BOOLEAN, seen : BOOLEAN, ok : BOOLEAN]

RequestsTypeOK ==
    /\ PagesTypeOK /\ DebugTypeOK
    /\ use \in Use
    /\ session \in Reported \cup {"none"}
    /\ sub \in {"none", "active", "released"}
    /\ call \in [Handler -> CallType]
    /\ awaiting \subseteq Handler
    /\ told \in [status : Reported \cup {"none"}, stream : BOOLEAN]
    /\ orderly \in BOOLEAN
    /\ faults \in 0 .. MaxFaults

\* A request that needs an active session is answered well only to the runtime
\* of the session, and only if the session was active at some time while the
\* request was served: an order that follows the end of its session is refused,
\* one that overlaps it may pass (ensureSessionOwner).
OkMeansActive ==
    \A h \in Handler : call[h].ok /\ "active" \in Checks[call[h].op] =>
        call[h].seen /\ ~call[h].foreign

\* When no report is on its way any more, core-service and the subscriptions say
\* what the runtime said last, provided that it never let two of its reports
\* overlap and none failed: goroutines apply reports in any order, and a status
\* that is final can be overwritten by an earlier patch (handleRuntimeStatusPatch).
AsReported ==
    orderly /\ Serving(Report) = {} =>
        /\ session = told.status
        /\ sub = "active" <=> told.stream

\* The row that replays start from names the dataset the runtime holds, provided
\* that loads did not overlap, none was given up while its command was out, and
\* each outcome was recorded.  A load whose outcome the stream's end left open
\* takes the former row's state away as well (ReplaceActiveDebugDataset).
ActiveDatasetIsLoaded ==
    calm /\ Loading = {} =>
        \A d \in Dataset : dataset[d] = "active" => memory = d

\* A runtime that waits for an answer, and reads what it is sent, gets one or loses its
\* stream: always if the services answer, and by its deadline, if the request has one,
\* even when they do not.  A request without one waits as long as core-service does, and
\* a delivery as long as its chunks are not read (handleRuntimeRequest).
RequestsAnswered ==
    /\ RuntimeReads /\ ServicesAnswer =>
           \A h \in Handler : h \in awaiting ~> h \notin awaiting
    /\ RuntimeReads =>
           \A h \in Handler :
               h \in awaiting /\ Timed(h) /\ call[h].op # "DeliverDataset"
                   ~> h \notin awaiting
=============================================================================
