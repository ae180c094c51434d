# control-panel-service: TLA+ models and proofs

The control panel admits *runtimes* (processes that execute trading strategies),
keeps one bidirectional gRPC stream (a *RuntimeChannel*) to each of them, routes
calls and market data over it, and runs the control plane of market data
collection. Several control-panel processes share one TimescaleDB database and
nothing else; a runtime may reconnect to any of them.

This directory holds TLA+ modules that model that program, TLC configurations
that check them on small instances, and TLAPS proofs of the properties that
matter most. `PROJECT.json` is the machine-readable index: components, runs,
mutants, the source lines of every definition, hazards, findings, theorems.

    tlc -workers 2 -config RuntimeChannel.cfg MCRuntimeChannel
    tlapm RuntimeChannelProofs.tla

## 1. Inventory

`rc/` stands for `src/internal/runtimechannel/`, `repo/` for
`src/internal/repository/`, `md/` for `src/internal/marketdata/`.

| component | source | state | operations | interacts with |
|---|---|---|---|---|
| Stream handler | `rc/service.go`, `rc/auth.go`, `rc/grpc.go` | locals of the `Handle` goroutine: runtime, resume token, position | verify HELLO / RESUME, record owner, register, ACK, frame loop, deferred cleanup | registry (lock), repository (SQL), peer (frames) |
| Stream registry | `rc/registry.go` | per process: streams by runtime, runtimes by key id; per stream: closed channel, in-flight calls, sender | Register, Unregister, CloseByKeyID, CloseByRuntimeID, Find, deliver, failInFlight | handlers, proxy, Revoke, EndRuntime |
| Runtime registry | `repo/timescale.go`, `repo/runtime_channel_admission.go` | tables `runtime_registry`, `runtime_credentials`, `runtime_channel_leases` | upserts per source, consume credential, heartbeat, owner, lease, end, reap, revoke | every process |
| Runtime lifecycle | `src/internal/runtime/service.go`, `src/cmd/control-panel-service/main.go` | none of its own | EndRuntime, ReapStaleRuntimes, ResolveRoute, EnsureHostedRuntime, quotas | repository, registry, provisioner, portfolio service (sessions) |
| Credentials | `src/internal/credential/service.go` | rows of `runtime_credentials` | issue, list, revoke | repository, registry |
| Command queue | `repo/runtime_commands.go`, `rc/command_dispatch.go` | table `runtime_commands` | create (idempotent), claim, ack, running, complete, time out, circuit breaker | stream handler, registry |
| In-flight calls | `rc/proxy.go`, `rc/registry.go`, `rc/command_dispatch.go` | per stream: reply channel per correlation id | invoke, deliver, drop, fail on close | stream handler |
| Replay cache | `rc/replay.go` | per process: bounded set of nonces | CheckAndStore, prune | HELLO |
| Live data delivery | `rc/live_delivery.go`, `rc/frame_queue.go`, `rc/data_backpressure.go` | window of unacked frames | enqueue, ack, expire, backpressure | stream, Kafka worker |
| Kafka worker | `rc/kafka_live_delivery.go` | subscriptions, one consumer per topic | refresh, consume, deliver | delivery leases, live delivery |
| Order lifecycle worker | `rc/order_lifecycle_delivery.go` | per process, in memory: the cursor of each session | SyncOnce | core-service (events), live delivery |
| Platform proxy | `rc/runtime_request.go`, `rc/platform_proxy.go`, `rc/status_patch.go` | none | requests of the runtime to other services | stream, other services |
| Market data control plane | `md/service.go`, `md/repository/timescale.go` | tables of streams, requests, leases, delivery and writer leases, history requests | create/cancel request, recompute aggregate, lease acquire/renew/release, history state | workers, Kafka worker |
| Coverage | `md/coverage.go`, `rc/coverage_validation.go`, `rc/market_data_query.go` | coverage segments | merge segments, find gaps | market data, debugger |
| Debugger | `src/internal/debugger/service.go` | active dataset per runtime | load dataset | in-flight calls, coverage |
| Plan resolver | `src/internal/plan/resolver.go` | none | effective quota | lifecycle |
| Provisioning | `src/internal/provision/` | Docker containers | provision, remove | lifecycle |
| Certificates and TLS | `src/internal/runtimecert/`, `rc/tls.go` | none | sign, identify the peer | HELLO |
| Rest | notification, portfolio client, HTTP server, logger, config, migrations, generated code | - | pure I/O, wiring | - |

What is hard in them, and what makes them correct:

* **Stream handler and registry.** Handlers of one runtime supersede one another
  while the older one still has frames, statements and a deferred cleanup ahead
  of it; users revoke and end while a handler is between two statements;
  processes crash with their registry. Correct means: the two indexes agree; a
  stream that is served can be found; a credential admits one runtime; a token
  works once; what has ended stays ended; a closed or ended stream's handler
  returns; a silent runtime is reaped.
* **HELLO.** What a runtime says, what its credential's row says and what its
  certificate says are compared one by one; a HELLO may be shown again, late, or
  to another process. Correct means: who is admitted is what was issued; a process
  lets a HELLO pass once.
* **Command queue and calls.** Claiming counts and updates in two statements; a
  timeout races a late answer; a duplicate or late result finds the command
  closed. Correct means: a command goes forward only, is answered once, and
  exceeds its in-flight limit by no more than overlapping calls explain; a call
  ends when its stream closes, and takes only its own reply.
* **Requests of a runtime.** Every frame has a goroutine, and reports overtake one
  another; the session may end between the check and the request; klines are
  paged while they change. Correct means: only an active session places orders; what was
  reported last is what is stored; a reading misses nothing; a request is answered.
* **Delivery.** A lease per subscription that runs out while a message is sent; a
  window with a budget, acks that come late or never; one route or session that
  fails. Correct means: one sender per subscription, frames in order, slots that
  come back, leases and consumers that recover.
* **Hosted runtimes.** A container is started long before its row exists; calls
  overlap; whoever ends a runtime has three more steps to take. Correct means: no
  container is forgotten, no second runtime without an overlap, sessions are
  released.
* **Market data.** Aggregates derived from requests in concurrent transactions;
  leases that expire and are taken over; late worker updates; an index that
  concurrent reports merge. Correct means: a stream is wanted exactly when somebody
  wants it; one holder per lease; gaps and segments partition the interval.

The complete list of hazards, each at its line, is in `PROJECT.json`.

## 2. The modules

| module | extends / instantiates | checked by | theorems in |
|---|---|---|---|
| `RuntimeChannel` | - | `MCRuntimeChannel` | `RuntimeChannelProofs` |
| `HelloAdmission` | `ReplayCache` | `MCHelloAdmission` | `HelloAdmissionProofs` |
| `CommandQueue` | implements `CommandLife` | `MCCommandQueue` | `CommandQueueProofs` |
| `StreamCalls` | - | `MCStreamCalls` | `StreamCallsProofs` |
| `RuntimeRequests` | composes `DatasetPages`, `DebugDatasets` | `MCRuntimeRequests` | `RuntimeRequestsProofs` |
| `LiveDelivery` | - | `MCLiveDelivery` | `DeliveryProofs` |
| `OrderDelivery` | - | `MCOrderDelivery` | `DeliveryProofs` |
| `HostedRuntime` | - | `MCHostedRuntime` | `HostedRuntimeProofs` |
| `MarketDataControl` | composes `MarketDataRequests`, `WriterLeases`, `Coverage` | `MCMarketDataControl` | `MarketDataProofs` |
| `Coverage` | extends `CoverageStore`, which implements `CoveredTicks`; composed by `MarketDataControl` | `MCMarketDataControl` | `MarketDataProofs` |

Order: what can lose or double a trade came first (who is connected, which
command runs), then delivery, then the control plane of market data. The modules
meet at the state they share: the connection of a runtime is moved by
`RuntimeChannel` in every way its handlers move it, and the other modules let it
move at any time (`Connect`, `Disconnect`, `StreamEnds`, `OwnerChanges`), which
includes those ways. Three modules put independent subjects into one run and choose
the subject in `Init` (`study`, `use`, `part`): the behaviours of one subject do
not read the other's variables, so nothing is lost by not interleaving them.

`MC` modules define only what a `.cfg` cannot: symmetry sets, functions and sets of
tuples. A definition that begins with the comment "Faulty:" belongs to no
specification; it is a plausible mistake in a mapped definition, and
`PROJECT.json` names the property that notices it.

What could follow: abstract specifications of the deliveries and of hosted
provisioning, which their modules would be shown to implement.

## 3. `RuntimeChannel`

### State

| variable | code |
|---|---|
| `cred[k]` | row of `runtime_credentials`: usable, consumed (by whom) or revoked |
| `row[r]` | row of `runtime_registry`: status, `credential_key_id`, age of `heartbeat_at`, `connection_owner_instance_id` |
| `lease[r]` | row of `runtime_channel_leases`: the token whose hash is stored, its binding, whether it expired |
| `held[r]`, `lastToken` | the tokens the runtime received in an ACK (environment), and how many were generated |
| `conn[s]` | the `Handle` goroutine of stream `s`: `pc`, process, runtime, key, token sent, token shown, frame in hand |
| `closed` | streams whose `closed` channel is closed |
| `byRuntime[i]`, `byKey[i]` | `Registry.streamsByRuntime`, `Registry.runtimesByKeyID` of process `i` |
| `alive` | processes that run |
| `revokeCall[k]`, `endCall[r]`, `reaper[i]` | position of a Revoke call, an EndRuntime call, the reaper's tick |

### Actions

One action is one SQL statement or transaction, or one critical section of the
registry lock, with the local code around it. A handler moves

    Hello -> CreateOrReplace{Keyed,Bare}Runtime -> IssueRuntimeChannelLease \
    Resume -> RotateRuntimeChannelLease ------------------------------------> RecordConnectionOwner
      -> Register -> SendHelloAck -> loop
    loop: Heartbeat / OtherFrame -> RecordHeartbeat -> RecordOwnerAgain [-> SendHeartbeatAck] -> loop
    loop: LoopClosed / LoopIdle / any failure -> Unregister -> ClearConnectionOwner

`HelloAckFails` ends in the pc `leaked`: the handler is gone, its registry entry
is not. `AbortAdmission` and `LoopFails` are the failing statements, cancelled
contexts and invalid frames, at every step. Revoke is `RevokeRuntimeCredential`,
`CloseByKeyID`, `EndRuntimesByCredentialKey` (or its swallowed failure);
EndRuntime is a read, `EndRuntimeRow`, `CloseStreamForRuntime`; the reaper is
`MarkStaleRuntimesUnhealthy`, `EndDeadRuntimes`. `Crash` takes a process with its
handlers, its registry and its calls.

### Abstractions

* The checks of a HELLO that depend on its bytes (payload, signature, timestamp,
  nonce, certificate identity, name, role, user) refuse or do not: a refused HELLO
  leaves no state behind and is no step. The checks themselves and the replay cache
  are `HelloAdmission` and `ReplayCache`.
* `downloaded` and `active` credentials are both `issued`; an expired one is not
  usable and is no longer `issued` for a HELLO. Statuses `starting` and `paired`
  are not written by any caller of the repository and are left out.
* The two reads of `verifyResume` are one step: the rotation compares the hash
  again, so a lease that moved between them is refused there.
* `heartbeat_at` is an age with three values: fresh, past HeartbeatGrace, past
  DeathGrace. Bare runtimes' own grace uses the same scale.
* One Revoke per key and one EndRuntime per runtime at a time. Deprovisioning,
  session recovery, cleanup guidance and notifications change no state the
  properties read.
* A connection record is reused when its stream is over.

### Runs

| run | instance | properties |
|---|---|---|
| `channel` | 2 runtimes, 1 key, 2 streams, 2 processes of which one may crash, 3 tokens | `RegistryConsistent`, `ServingIsRegistered`, `OneRuntimePerCredential`, `RevokedRowsStayEnded`, `ResumeTokenSingleUse`, `TerminalIsFinal` |
| `fair` | 1 runtime, hosted or bare, 1 stream, 2 processes of which one may crash, ages | `EndedStreamDrains`, `SilentRuntimeReaped` |

Why the bounds are enough to be interesting: every race in this component is
between two handlers of one runtime, two runtimes of one credential, a handler
and an administrative call, or two processes, and `channel` has all of them. Three
tokens are a HELLO and two RESUMEs that race for its token; `MaxToken` only stops
new admissions. `MaxAge` 0 stops time where no property depends on it. The symmetry
of runtimes is sound: no definition tells one from another. It is not used in runs
with liveness. The liveness run has one stream: its properties speak of one
handler, or of a row without one, and a stream that is over may connect again.

Fairness (`FairSpec`): a handler that runs goes on while its process lives and the
database answers (weak fairness of its statements and of its idle timeout); a
select with a ready `closed` case takes it eventually although frames keep coming
(strong fairness of `LoopClosed`: Go picks a ready case at random); the ticker of
a living process's reaper keeps ticking. Nothing is assumed of peers, users, or of
a call's success beyond that: a handler's `LoopFails` and an admission that aborts
stay possible at any time. In particular nothing is owed to `SendHeartbeatAck`:
`stream.Send` has no deadline (`rc/registry.go:75`) and blocks while the peer does
not read, so `EndedStreamDrains` promises the handler's return only under
`PeersRead`, that the peers read what they are sent. `SilentRuntimeReaped` needs no
such condition.

### What a reader of the code should know

* *A handler closes its successor's stream.* `Handle`'s deferred
  `Unregister(rt.RuntimeID)` (`rc/service.go:170`) names the runtime. When the
  runtime reconnected, the superseded handler's cleanup removes and closes the new
  stream; its runtime has to come back once more.
* *A stale disconnect may erase the newer owner.* The comment at
  `repo/repository.go:81` rules it out by comparing the stored owner; but a frame
  in hand makes the stale handler record itself again (`rc/service.go:238`) just
  before it clears.
* *A revoked credential's runtime may stay routable* when ending the rows fails: the
  error is dropped (`credential/service.go:303`), against
  `src/README.md:341`. `RevokedRowsStayEnded` therefore speaks of rows that
  Revoke did end.
* When the HELLO_ACK fails, `Handle` returns before its cleanup is deferred and
  leaves a registry entry that no goroutine serves (pc `leaked`).

The model has every one of these steps, and the properties hold in spite of them.

## 4. `CommandQueue` and `CommandLife`

### State and actions

| variable | code |
|---|---|
| `status[c]`, `key[c]` | row of `runtime_commands`: status, `idempotency_key` |
| `owner` | `runtime_registry.connection_owner_instance_id` of the runtime |
| `connected`, `frames[i]` | the processes with a stream of the runtime, and the command frames that wait in it |
| `call[d]` | a call of `DispatchNextRuntimeCommand`: at the count, the update, the send or the failure |
| `handed[c]` | how often the COMMAND frame of `c` was handed to a stream (history) |

`CreateRuntimeCommand`, `TimeoutRuntimeCommands` and the three updates behind a
frame are one statement each. The claim is one transaction, but READ COMMITTED
and without a common lock, so its statements are steps of their own:
`ClaimNextRuntimeCommand` reads the owner, `CountInFlight` counts, `ClaimOldest`
updates and commits; then `SendCommand`, or `SendCommandFails` and `FailCommand`.
`DispatchAborts` is a crash, a rollback or a failed statement at any of them.
`HandleRuntimeCommandFrame` applies the frame at the head of a stream, or ends the
stream when its statement finds no row.

Abstractions: one runtime; a deadline may pass at any time, so that
`TimeoutRuntimeCommands` closes any set of open commands; commands are numbered in
the order in which they are created, which is the order the claim takes them in;
payloads are left out.
`OwnerChanges`, `StreamOpens` and `StreamCloses` may happen at any time, which
includes every way in which `RuntimeChannel` moves them. The repository does not
call the create, the dispatch and the timeout: they are called at any time.
A command frame on a stream is answered by `RuntimeAnswers` with any verdict, on
any stream, any number of times, but only for a command that was handed over.

`CommandLife` is what a caller may rely on: a command is queued once, claimed
once, handed over at most once, and closed once with an outcome that stays.

### Runs

| run | instance | shows |
|---|---|---|
| `queue_overlap` | 2 dispatches that overlap, 3 commands, 1 key | `OverlapBounded`, `LifeSpec` (the refinement), `OnlyLateFramesCloseStream` |

Three commands and two dispatches have every race of the queue: two claims for one
command and for the last slot with a third command waiting, an answer against a
timeout against a failing dispatcher. With `Limit` 1 the limit can be reached and
exceeded. `MaxFrames` bounds what waits in a stream; an answer may be repeated
once the previous one is handled, so one waiting frame has the repeated and the
reordered answer.

The limit is a promise with an exception: the count and the update of a claim are
not serialised, so each claim that runs at the same time may pass it by one.
`OverlapBounded` says exactly that. `ClaimedOnce` and `KeyNamesOneCommand`, which the
refinement implies in part, are proved and not checked by a run of their own. The owner is read at the start of a claim and
not compared again, so the former owner may claim a command and fail it for want
of a stream; that, too, is in the model, and `CommandLife` allows it.

## 5. `StreamCalls`

### State and actions

| variable | code |
|---|---|
| `closer`, `failing` | the goroutine in `close()`: `closed` closed, `failInFlight` with the channels it took |
| `inFlight`, `shut`, `buf[c]` | `runtimeStream.inFlight`, the reply channels that are closed, their contents |
| `pc[c]`, `expired`, `asked` | an invocation, whether its context is done, whether its request was sent |
| `sender`, `room` | the holder of `sendMu`; the frames the transport takes before `stream.Send` blocks |
| `hpc`, `reply`, `connected` | the `Handle` goroutine, the reply in its hand, the peer's end of the connection |
| `panicked` | the process died of a send on a closed channel |

A call runs `FindStream -> RegisterCall -> SendBegins -> SendEnds`, waits in a
select (`TakeReply`, `WaitSeesClosed`, `WaitExpires`, the latter with an abort frame
for a strategy request) and ends in `UnregisterCall`. `close()` is `CloseStream`,
`FailInFlight` (the map is emptied under the lock), `CloseReplyChannel` per channel
(without it) and `CloseReturns`. The handler sends its acks, and delivers a reply
in two steps, as `deliver` does: `DeliverFinds` under the lock, then `Push`,
`PushDrops` or `PushPanics` without it.

Abstractions: one stream, from its registration on; two kinds of reply,
one that ends the call and one that does not; the peer answers only what it was
asked, with any number of frames; what a call returns is not kept. Other senders
of the stream, the command dispatcher and data delivery, contend for `sendMu` like
a call. How a stream is registered and who closes it is `RuntimeChannel`'s subject;
here `CloseStream` may happen at any time.

### Runs

| run | instance | shows |
|---|---|---|
| `calls` | a request or a command, a channel of 1 reply, room for 1 frame, the peer reads | `SendsExclude`, `MapHoldsLiveCalls`, `CallReturns`, `HandlerReturns` |

A call races with the handler, with `close()` and with the peer's reply. `Capacity` 1
fills a channel with one reply, `Room` 1 blocks a sender behind one unread frame;
larger values only take longer to get there. The theorems of section 12 hold for
any number of calls.

Fairness: `FairSpec` lets every goroutine go on. `sendMu` is granted in the end to
who waits for it (strong fairness; Go's mutexes do not starve), and the handler's
select takes the closed channel in the end although frames keep coming.
`ReadingSpec` adds that the peer reads what it is sent, which the code cannot
enforce, so that `CallReturns` and `HandlerReturns` are promises under that
condition.

### What a reader of the code should know

* *A closed stream does not free a call that is sending.* `sendFrame` looks at
  `closed` before it sends (`rc/registry.go:75`), but a sender that waits for a peer
  that does not read holds up itself, every other sender and, when it is the
  handler, the end of the stream's context.
* *A reply that meets the close may panic.* `deliver` (`rc/registry.go:111`) sends
  after it has released the lock, on a channel `failInFlight` may have closed
  meanwhile; the model has the step (`PushPanics`, `panicked`).

## 6. `HelloAdmission` and `ReplayCache`

Who is let in as which runtime. `ReplayCache` has the clock, the freshness check,
the verification that may stall, and the cache of one process; `HelloAdmission` adds
the credentials, the certificates, what a HELLO says, and the row it becomes.

| variable | code |
|---|---|
| `now`, `issued[h]` | the time, and `issued_at_unix_ms` of a HELLO by the clock of its runtime |
| `verifying[g]` | a handler between the clock it read and the cache (`rc/auth.go`) |
| `cache[i]`, `stored[i]` | `ReplayCache`: entries with expiry, in the order in which they were stored |
| `credential[k]` | row of `runtime_credentials` with the identity in the certificate signed for it |
| `says[h]` | source, key, signature, runtime id and user of a HELLO (environment) |
| `admitting[g]`, `registry[r]` | the runtime a handler is about to register; its row |

`Issue`, `IssueHostedInternalRuntimeCredential` and `BootstrapBareRuntimeCertificate`
create credentials; `Composes` puts a HELLO together from the files of any bundle,
with ids that belong to none; `HelloArrives`, `VerifyHello` / `HelloRefused` /
`HelloReplayed` and `Registers` are `verifyHello`, `validatePeerIdentity` and the
upsert. Cryptography is abstracted to the key that signed; parsing is left out.

| run | instance | properties |
|---|---|---|
| `hello` | 2 processes, 2 handlers, 2 HELLOs, 2 users, 2 keys, cache of 1 entry, skew 1, time to live 3, time to 4 | `AdmittedAsIssued`, `HelloPassesOnce` |

`study` splits the run: *who* says HELLO (any content, with and without TLS, time
stands still) or *when* (content as issued, clocks, stalls, restarts, evictions).
The checks of the content, before and after the cache is asked, do not read the
cache, and the cache reads nothing of a HELLO but its key, nonce and time. A cache of one entry evicts
at the second HELLO; the time is long enough for an entry to outlive its HELLO and
for a late handler to find it pruned.

Facts worth knowing: a bare HELLO consults neither a credential nor the cache;
the cache is private to a process, so that elsewhere and after a restart only
the consumed credential stands in the way of a repeated HELLO; without TLS the
runtime id of a keyed runtime is its own word; the certificate on the stream may
be of another credential of the same user; `expires_at` of a credential is never
written, and the `expired` mark of `repo/timescale.go:488` is rolled back with the
transaction that makes it.

## 7. `RuntimeRequests`, `DatasetPages`, `DebugDatasets`

What a runtime asks of the platform over its stream. Every REQUEST and STATUS_PATCH
frame gets a goroutine: `Sends` is the frame, `DispatchRuntimeRequest` the check of
the session (`ensureSessionOwner`), `SaveSession`, `UpdateSession`,
`CreateSessionMarketDataSubscriptions`, `ReleaseSessionMarketDataSubscriptions`,
`DeliverDataset`, `FetchBacktestPage` and `AnswersOnly` the service it is for, and
`HandleRuntimeRequest` the answer. `Checks` is the table of `rc/platform_proxy.go`:
what each method demands of the session. A method whose only effect lies in another
service is answered by `AnswersOnly`.

`DatasetPages` has the two loops that read klines page by page while scrapers
store more of them. `DebugDatasets` has the loading of a debugger's dataset: stamp,
command, wait, `ReplaceActiveDebugDataset`; each step may fail or time out. A load
that finds no stream within `reconnectWait` (`LoadFindsNoStream`) or whose send fails
(`SendLoadFails`), the command out or not, is recorded as failed under a context that
lives, while the runtime may come to load the dataset all the same; so is one whose
result cannot be read.

A page of a dataset has at most `ChunkSize` rows, which the code has clamped already;
a page of a backtest is asked for with `BacktestPageSize`, which is what `HasMore`
compares with, and fetched with at most `MaxFetchLimit` rows (`Clamped`).

| variable | code |
|---|---|
| `session`, `sub` | row of the session in core-service (external), `session_market_data_subscriptions` |
| `call[h]`, `awaiting` | the goroutine of a frame; the correlation ids the runtime waits for |
| `rows`, `delivery[h]`, `backtest` | stored klines; the loop of `deliverDataset`; the runtime's cursor |
| `dataset[d]`, `load[l]`, `workspace` | `runtime_debug_datasets`, calls of `LoadDebugDataset`, the `debug_workspace` columns |
| `command`, `memory` | load commands on their way; what the runtime holds (external) |

| run | instance | properties |
|---|---|---|
| `platform` | 2 handlers, 2 streams of 3 ticks, chunks of 2, pages of 3 and fetches of at most 2 rows, 2 loaders with 2 loads, 1 fault | `OkMeansActive`, `AsReported`, `ReadersMissNothing`, `ActiveDatasetIsLoaded`, `RequestsAnswered` |
| `backtest_pages` | 1 handler, 1 stream of 4 ticks, pages of 3 and fetches of at most 2 rows | `BacktestMissesNothing` (violated: section 13) |

`use` says what the runtime is for (live, backtest or debug). Two handlers are two
frames that overtake one another; three ticks in chunks of two have a full and a
partial chunk and a row stored behind, on and before the cursor; pages and fetches
keep the order of the code's sizes, 8192 and 5000. `Method` in the configuration is
one method of each kind of check, `Deadlined` has a method that forwards and the one
that sends chunks.

Fairness: the specification owes a handler its deadline and nothing else. A frame has
one only if the runtime sets `deadline_unix_ms` (`rc/runtime_request.go:30`; `Deadlined`
names the methods for which it does), a patch always (`rc/status_patch.go:18`), the
clients of core-service have none, and `sendFrame` has none. So `RequestsAnswered` has
two parts, both under `RuntimeReads`, that the runtime reads its answers: every request
is answered if the services answer in the end (`ServicesAnswer`), and one with a
deadline is answered though they do not. A delivery is not in the second part: the
deadline does not end the send of a chunk. A forward that fails or is cut off by its
deadline (`ForwardFails`, `DeadlinePasses`) is taken to have left the service as it was;
`AsReported` excludes failed reports in any case.

`AsReported` and `ActiveDatasetIsLoaded` are conditional, and the conditions tell
what the code does not do: goroutines apply reports in any order, so that a runtime
that lets two of them overlap may find the earlier one stored; a load that is
given up while its command is out may still take effect in the runtime. Two
`DeliverDataset` requests served at once share the id of their End frame
(`rc/platform_proxy.go:795`).

## 8. `LiveDelivery`

The path of a live kline: subscription, lease, Kafka consumer, window, stream.

| variable | code |
|---|---|
| `sub[s]` | `session_market_data_subscriptions.status`; `hidden` when the runtime is not routable |
| `lease[s]` | the active row of `stream_delivery_leases`: owner, ticks left, progress |
| `worker[i]`, `routes[i]` | the refresh loop of `rc/kafka_live_delivery.go`, `subsByRoute` |
| `part[i]` | the consumer of the partition: position, the subscriptions the message is still for, the renewal under which it sends |
| `window[i]` | `RuntimeDataWindow`: sequence per session, slots of unacknowledged chunks |
| `conn[s]`, `flight[s]` | the process that has the stream; the frames on it |

A refresh is `ListSubscriptions`, `RenewNext` per subscription,
`EnsureTopicConsumers`. A message is `TakeMessage`, then per subscription
`RenewForMessage` or a skip, `DropsStale`, `DeliverLiveKlineBatch` / `DeliveryFails`
/ `Backpressured`, `RecordsProgress`. `DeliverDatasetChunk` shares the window.
`RefreshFails`, `TopicConsumerFails`, `PartitionStops`, `ProcessDies`, `Disconnect`
and `ReleaseStreamDeliveryLease` are the faults. A time is a number of ticks left.
One topic with one partition and one route is modelled; bytes of the window are
counted as slots.

| run | instance | properties |
|---|---|---|
| `delivery` | 1 process, 2 sessions, 2 messages, 1 fault, 2 slots | `StreamInOrder`, `FlightHoldsSlots` |
| `delivery_failover` | 2 processes, 1 subscription, 1 message, 1 fault, time to live 1 | `OneValidSender`, `LeaseFailsOver`, `ConsumerComesBack` |

Two sessions share a window and a partition, two messages show an order, and one
fault lies at any place; two processes are needed for the lease, for which one
message and one subscription suffice. The safety properties are proved for all
instances (section 12), so that the runs only have to be large enough to break a
wrong model.

Fairness (`Spec`): the loop runs to the end of a refresh and the ticker starts
the next; the statements of the consumer get done (`Handles`); time passes; all of it
as long as the database answers. Nothing is owed to a delivery to a runtime that is
connected: it ends in `sendFrame` (`rc/live_delivery.go:110`), which has no deadline
and blocks while the runtime does not read, and one such runtime holds up the consumer
and all sessions behind it. `ConsumerComesBack` is therefore promised under
`RuntimesRead`; the refresh loop renews leases beside a consumer that hangs, so
`LeaseFailsOver` needs no condition. A worker whose refresh
failed does not run any more: the properties speak of those that do.

Worth knowing: the comment at `rc/kafka_live_delivery.go:192` speaks of the next
refresh, but the error it returns ends the worker, and nobody starts it again; its
leases run out and another process takes over. Progress (`last_offset`, migration 0024) is
written and inherited with the row, and never read to choose where a consumer
begins (it begins at the newest offset), so that what is produced between two
owners reaches nobody over this path. `expires_at` is written with the clock of a
process and compared with the database's: with a skew the lease is shorter or
longer by it. The lease does not look at who has the runtime's stream: a process
without it may hold the lease and deliver nothing as long as it renews.

## 9. `OrderDelivery`

`SyncOnce` visits the sessions with active subscriptions in one order, fetches the
events after its cursor and sends them. State: `active` and `events` (environment),
`route`, the `cursor` of a process, its `pass`, and the history `sent`. Actions:
`StartPass`, `FetchEvents`, `SendBatch`, `PassEndsAtRoute`, `EndPass`, and the faults
`PassFails`, `RuntimeLeaves`, `SessionEnds`, `Restart`.

| run | instance | properties |
|---|---|---|
| `orders` | 2 processes, 2 sessions, 2 events, batches of 1, 2 faults | `NoEventSkipped`, `SentOnce`, `EventsArrive` |

No lease decides which process serves a session; every process visits all of them,
and a session whose runtime is elsewhere ends the pass when it has events to send. Hence
the condition of `EventsArrive`: a session is served where its runtime is connected if the
runtimes of all sessions before it are connected there too. A session behind one
whose runtime is on another process is not served. The cursor is in memory: a
process that restarts sends everything again. Both safety properties are proved for
all instances (section 12). Fairness: the ticker starts pass after pass, and a pass
ends with its sessions or at a runtime without a stream here. The call of core-service
and the send (`rc/live_delivery.go:142`) have no deadline, so nothing is owed to them:
one connected runtime that does not read stalls the worker for good, and
`EventsArrive` is promised under `PeersAnswer`, that core-service answers and the
runtimes read.

## 10. `HostedRuntime`

| variable | code |
|---|---|
| `call[c]` | a call of `EnsureHostedRuntime`: its step and the name it wants |
| `row[r]` | row of `runtime_registry`: status, name, age, owner, cleanup state |
| `container[r]`, `link[r]` | Docker's container, and its RuntimeChannel stream |
| `ender[r]` | what is left to do by whoever ends the runtime: update, deprovision, mark the sessions |
| `session[s]` | a session in core-service and the runtime it is bound to |
| `stray` | containers cut off from everybody (history) |

A call is `EnsureAuto` / `EnsureNamed`, `CheckPlan`, `CheckSlot`, `GenerateName`,
`IssueCredential`, `ProvisionStarts` / `ProvisionFails` / `ProvisionLosesContainer`, then it
waits: `RegistrationSeen` or `RegistrationTimeout` with `RemoveUnregistered`. The
container dials, is admitted, owned, beats and breaks; `EndRuntime` and the
watchdog's `MarkStale` and `EndDead` end it, then `Deprovision` and `MarkSessions`.
Each statement, docker command and call of core-service is a step.

| run | instance | properties |
|---|---|---|
| `hosted` | 2 calls, 2 names, 1 session, plan of 2 and platform of 3, 1 fault | `ContainersAccountedFor`, `OneHostedUnlessOverlapping`, `SessionsReleased` |

Two calls overlap, one after the other, with each other's containers; one fault is
enough for each property to need its exception. What the exceptions say: calls
that overlap may each create a runtime and pass the plan's limit
(`src/internal/runtime/service.go:836` counts before it provisions); a container
whose creation is cut off stays, since cleanup is best effort; a session that
starts between `ReadBlockers` and `EndRuntime` is not a blocker and is released only
by what follows.

## 11. Market data (composed by `MarketDataControl`)

### `MarketDataRequests` and `WriterLeases`

`MarketDataRequests` models the transactions of `md/repository/timescale.go` at READ
COMMITTED: a statement sees what was committed when it began, a written row is
locked, and an update that waited goes on with its old snapshot. `request`, `lease`
and `stream` are the tables, `holder` the lock of the stream's row, `call[t]` a
transaction with its snapshot and its uncommitted writes; `exact` is history.
`CreateMarketDataRequest`, `CancelMarketDataRequest`,
`CreateOrRenewMarketDataLease`, `ReleaseMarketDataLease` and the workers' reports
begin calls, `Proceed` are their statements, `DeadlockDetected` is Postgres ending
one of a cycle. The partial unique index on the open requests of a user
(migration 0004) is the guard of `InsertRequest` (`IndexAdmits`), the one of migration
0006 part of the inserts and reports of history requests. That no user has two open
requests follows from the indexes; what depends on the transactions is that an upsert
never runs into its index, which `InsertUnopposed` says: it looks for an open request
and inserts one in two statements, and only the lock of the stream's row, taken before
both, keeps another call of the user from inserting one in between.

`WriterLeases` models the lease a scraper needs to write a year: each call is one
statement, and calls and answers are delayed, lost and reordered. `held[w]` is what
the scraper was last told, `writer[k]` the row.

Two callers are two transactions that interleave at every statement; a request of
each user, or a live and a historical one of the same, use up the two ids.
`AggregateExact` is conditional on a recompute that nobody overtook: the code's
recompute takes its snapshot before it waits for the row, so a concurrent commit
may leave the aggregate wrong until the next one. `HeldLeaseStands` holds for
scrapers that ask for one time to live throughout. A former writer's
`ReportMarketDataStreamState` is not fenced by its lease. What a user cancelled is
reopened only by a late report of a historical worker.

### `CoverageStore`, `Coverage`, `CoveredTicks`

`CoverageStore` has the index (`store`, `lock`, `merge[t]`): a report of segments is
merged one by one under an advisory lock per year (`BeginMerge`, the loop
`FindCandidates` that widens the segment by what it touches, `CommitMerge`,
`MergeFails`). `Coverage` adds the raw rows of
the yearly databases and the calls `QueryMarketDataCoverage`,
`ValidateMarketDataCoverage` and `QueryMarketDataKlines`, which read the index at
one moment and the rows page by page (`FetchYear`, `FetchPage`) and compute what is
missing. The sort of `coverage.go` gives every segment its rank (`Sorted`), and its two
loops are functions of the segments passed so far (`Swept`, `Joined`). `CoveredTicks` is
what the index promises: a set of ticks that only grows,
by what was reported. Time is counted in ticks, a candle has `Step` of them, and a
year need not begin on the grid of candles (a year is no multiple of three days).

### Run

| run | instance | properties |
|---|---|---|
| `requests` | one of three subjects: 2 users, 1 session, 2 callers, 2 request ids; 2 scrapers, 1 year in two spellings of its key, leases of 2 and of 3 ticks, time to 4; 2 reports, 1 query, 3 years of which the second begins on the grid and the third inside a candle, candles of 2 ticks, pages of 1 row, a row off the grid | `InsertUnopposed`, `AggregateExact`, `OnlyDeadlockStops`; `HeldLeaseStands`; `AnswerVouchedFor`, `AnswerMissesNothing`, `MergesAreUnions` |

Two reports overlap, touch or are apart, across a year's end or not; one query sees
every stage of them. Pages of one row make every page boundary occur. A query
fails only when a raw candle straddles a year's end.

## 12. Proofs

A theorem holds for every value of the constants that its assumption admits: any
number of processes, handlers, sessions, calls and ids, and any bound. TLC evaluates
each assumption in the run of its component. An invariant that was strengthened
was checked with TLC before it was proved.

| module | theorems | rests on | assumes |
|---|---|---|---|
| `RuntimeChannelProofs` | `TypeInvariant`, `RegistryIsConsistent`, `ServingStreamIsRegistered`, `CredentialBindsOneRuntime`, `EndedRowsStayEnded`, `RevocationIsFinal`, `TokenWorksOnce` | `RegistryInv`, `BindingInv`, `RevokeInv`, `TokenInv` | `ConstantsAssumption` |
| `CommandQueueProofs` | `QueueTypes`, `CommandClaimedOnce`, `KeyIsUnique`, `LateFramesOnly`, `LimitHoldsUpToOverlap`, `QueueImplementsLife` | `QueueInv`, `LimitInv` | `QueueAssumption` |
| `StreamCallsProofs` | `CallsTypes`, `SendIsExclusive`, `MapIsClean` | `CallsInv` | `CallsAssumption` |
| `HelloAdmissionProofs` | `CachePassesOnce`, `AdmissionPassesOnce`, `AdmissionTyped`, `AdmissionAsIssued` | `ReplayInv`, `AdmissionInv` | `ReplayAssumption`, `AdmissionAssumption`, `IdentityAssumption` |
| `DeliveryProofs` (`LiveDelivery`) | `DeliveryTyped`, `OnlyOneValidSender`, `StreamsInOrder`, `FlightHasSlots` | `SafetyInv`, `OrderInv` | `DeliveryAssumption` |
| `DeliveryProofs` (`OrderDelivery`) | `OrdersTyped`, `NothingSkipped`, `EventsSentOnce` | `CursorInv` | `OrderAssumption` |
| `MarketDataProofs` (`MarketDataControl`) | `WritersTyped`, `LeasesStand`, `RequestsTyped`, `InsertsUnopposed`, `AggregateIsExact` | `WriterInv`, `RequestsInv` | `WriterAssumption`, `RequestsAssumption` |
| `MarketDataProofs` (`CoverageStore`) | `StoreTyped`, `StoreApart`, `StoreImplements` | `StoreInv` | `StoreAssumption` |
| `MarketDataProofs` (`Coverage`) | `AnswersAreVouched`, `AnswersMissNothing` | `StoreInv`, `AnswersSound` | `StoreAssumption`, `CoverageAssumption` |
| `HostedRuntimeProofs` | `HostedTyped`, `ContainersAccounted`, `OneHosted`, `SessionsAreReleased` | `AllSound`, `OneAfterAnother` | `HostedAssumption` |
| `RuntimeRequestsProofs` | `RequestsTyped`, `OkOnlyWhileActive`, `AppliedAsReported`, `ReadingIsComplete`, `WholePagesMissNothing`, `ActiveIsLoaded` | `HandlersSound`, `ReportsSound`, `DeliveriesSound`, `BacktestSound`, `CalmSound` | `RequestsAssumption`, `PagesAssumption`, `DebugAssumption` |

Why the properties are not inductive by themselves, and what the invariants add:

* `RegistryInv`: an entry's handler is between Register and its cleanup (or
  leaked), so that its record is not reused; such a handler with an open stream
  still has its entry.
* `BindingInv`: an unused credential has no row and no admitted handler; a
  consumed one names its runtime; rows and handlers agree with it.
* `RevokeInv`: from its first step on, a Revoke call has a revoked credential, so
  no upsert is admitted afterwards.
* `TokenInv`: tokens are numbered, no two leases share one, and a token that a
  RESUME rotated away is no lease's token.
* `QueueInv`: what was handed over is no longer queued, and only such commands are
  answered. Without the first a claim could take a command that was sent, without
  the second an answer could close a queued one. The refinement has one lemma per
  actor: each step is a `Create`, `Claim`, `Hand` or `Close` of `CommandLife`, or
  changes nothing that it sees; `ClosingRows` carries the timeout, the result and
  the failing dispatcher alike.
* `LimitInv`: the commands in flight, and the claims that have counted and not yet
  updated, are together within the limit plus the number of dispatches less one.
* `CallsInv`: a call whose channel was taken by `failInFlight` has registered
  before, so that it cannot enter the map a second time and have its channel
  closed again.
* `ReplayInv`: a handler that verifies read the clock within the skew of the HELLO
  (`VerifyingFresh`), and what was passed is still remembered, forgotten by accident, or too
  old to be fresh again (`PassedRemembered`). That needs an entry to outlive the freshness of
  its HELLO: `2 * Skew < TTL` (10 minutes and 30).
* `AdmissionInv`: what a handler is about to register has been compared with the
  credential and the certificate, which do not change while it waits, and a
  credential that a row names has been consumed by that row.
* `SafetyInv`: a process that acts under a renewal owns the lease, which lasts at
  least as long as the renewal (`Backed`).
* `OrderInv`: what is on a stream is behind the position of the consumer, and
  numbered below the next number, of the process that has the stream (`Work`,
  `StreamFits`), over restarts of the consumer; the slots of a window are finite
  and within its capacity (`WindowFits`).
* `WriterInv`: an answer on its way is as good as a lease that is held
  (`AnswersStand`), and a release on its way was asked for (`ReleasesGiven`).
* `RequestsInv`: what a commit makes of the tables was decided by earlier statements
  of its transaction. An upsert holds the lock of the stream from its second statement
  on, so that nobody opens a request of its user between its lookup and its insert
  (`Locks`, `Writes`); a
  cancellation writes a cancelled row of the right scope (`Targets`, `Writes`); and a
  recompute nobody overtook has seen what its commit leaves behind (`Fresh`).
* `CursorInv`: what a process sent of a session is exactly what
  its cursor has passed (`SentIsPassed`), which both properties weaken; cursors stay
  behind the last event, so that a batch is never fetched backwards (`CursorBehind`);
  and a batch on its way follows the cursor of the session whose turn it is
  (`BatchFollows`). That `Turn` exists needs a least element of a set of naturals
  (`WFMin`).
* `StoreInv`: while a call holds the lock of a year, the rows it found are those
  that touch its range, and nobody else changes them. The refinement maps the
  index to the ticks it covers, and a call's remaining segments to what it owes.
* `AnswersSound`: an answer alone says too little, because it is put together page after
  page while reports and rows come in. So the invariant says what a query still owes: a
  tick that was known when the call came is covered, or hidden by a row off the grid, or
  its row lies in a gap that is still to be read, or was read in this gap, or is ahead of
  the page (`OwesTick`, `Coming`); and a page in the making holds the rows of earlier years
  and has room (`Paging`). What holds of a query is kept by every row and every covered
  tick that is added (`SoundGrows`), and the refinement shows that the index only adds.
  The rest is what the operators of `coverage.go` yield for every input: the gaps and the
  segments together make up the window (`MissingSound`), neither the split by year nor the
  join loses or adds a tick (`SplitSound`, `JoinedSound`), the runs of rows are the candles
  that have a row (`RunsOfRows`), a row that an ended page left out is behind a full page
  (`PageEndsBefore`).
* The sweep and the join run along a sorted sequence. They are recursive functions on the
  positions of the sequence, and `SweepRuns` and `JoinRuns` show that the functions exist:
  of the runs up to a position the one that fails earliest would be a counterexample, and
  it is none (`LeastOf`). What holds after every position is shown in the same way
  (`SweptGaps`, `JoinedSound`); that needs a least natural number and no induction theorem.
* `AllSound`: a call has no row, container or stream before `docker run`, so that no
  end and no watchdog can meet a container whose call has only begun (`NothingYet`),
  and whoever removes a container or marks sessions has ended the row first
  (`EnderSound`). `ContainersAccountedFor` is its third part.
* `OneAfterAnother`: of two calls that were alone one came first (`Before`): it can
  bring no row about any more, and as long as its row lives the other call has yet to
  look for the slot, or is over. `SessionsReleased` needs the types only: a row gets
  into the state it speaks of by one step, which marks the sessions.
* `HandlersSound`: a frame that passed the check of an active session saw one
  (`seen`), and keeps what it saw while the session ends.
* `ReportsSound`: while the runtime is orderly at most one report is on its way; it is
  admitted wherever it stands, and makes up the only difference that is left
  (`ReportDue`). A refused report would leave the difference for ever.
* `DeliveriesSound`, `BacktestSound`: what a reading is due is stored and lies ahead of
  it, and a page covers what it spans. They rest on facts about the first rows of a
  finite set (`PageIsPrefix`, `ShortPageIsAll`, `PageSizeKept`), which use cardinalities
  and a least element, and no induction. `ReadingIsComplete` excludes a last page that
  the limit of a fetch cut short, which is what the code's sizes allow;
  `WholePagesMissNothing` shows that nothing else is missing: with a fetch limit of at
  least a page the exception is not needed.
* `CalmSound`: loads that keep calm are one at a time, the command of a load that waits
  is the last one out, and behind a load whose send failed commands may be left over,
  which name older datasets; while there are any, no row is active, since the failure
  took it away (`LoadSound`, `NoneActive`). The active row is right until the runtime has
  answered (`LoadsInOrder`).

Model-checked only: the liveness properties (`EndedStreamDrains`,
`SilentRuntimeReaped`, `CallReturns`, `HandlerReturns`, `LeaseFailsOver`,
`ConsumerComesBack`, `EventsArrive`, `RequestsAnswered`) and `OnlyDeadlockStops`,
since fairness and ENABLED are out of the prover's reach. Every other property of a
passing run is stated by a theorem.

Every property of a passing run has a mutant: a definition prefixed "Faulty:" that
replaces a mapped one by a plausible mistake, under which TLC must find the
property violated. One run expects a violation (section 13); where else the code
differs from what a comment promises, the sections above say so, and the properties
are those that hold nevertheless.

## 13. A finding: backtests over more than 5000 bars end early

`klineRowsToBacktestPageStruct` (`rc/platform_proxy.go:885`) sets `has_more` when a page
has exactly `backtestPageSize` = 8192 rows, but `MarketDataQuery.FetchKlines` returns at
most `maxKlineFetchLimit` = 5000 (`rc/market_data_query.go:90`). So no page has 8192
rows, `has_more` is always false, and a runtime that follows it stops after the first
5000 bars. `src/README.md:54` promises pages of at most 8192 bars and that large
backtests are streamed page by page; the test that asks for `has_more` on a full page
(`rc/platform_proxy_test.go:575`) has a query of its own that does not clamp. The run
`backtest_pages` shows it with pages of 3 and fetches of 2: the reading ends with rows
that were stored before it began and never read. The same clamp does no harm to
`DeliverDataset`, which clamps its own chunk size first.

## 14. Not modelled

* **Records and output**: the rows about refused admissions, delivery health and
  failures (`RecordStreamDeliveryFailure`, `ListSessionDeliveryHealth`), backpressure
  and other notifications (`src/internal/notification/`). Nothing reads them back
  to decide anything.
* **Read-only calls**: listings of runtimes, credentials, streams and requests, the
  reading of a request after its upsert;
  route resolution where it only reads; the count of recent failures behind the
  circuit breaker of the command queue. A listing that is paged by limit and offset while rows
  change is taken as one moment.
* **Code without a caller outside tests**: `UpsertMarketDataStream`,
  `ExpireStaleLeases`, `RunLiveDeliveryLoop`,
  `RuntimeDataWindow.Expired`, `PriorityFrameQueue` and the progress of data
  transfers, `TouchRuntimeChannelLease`.
* **Cryptography, parsing, layout**: certificates and signatures are modelled by
  which key made them; bundles, payloads and SQL scanning not at all.
* **Wiring**: configuration, HTTP server, logger, portfolio client, the commands.
  `main.go` appears as the reaper's ticker. Its shutdown waits in `GracefulStop`
  for open streams without a limit; a process that is killed then is the crash of the models.
* **Schema**: the constraints the statements rely on (unique indexes, the partial
  unique indexes of open requests) are part of the actions that run into them.
* **Generated code**: gRPC stubs and messages.
* **Clock skew** between processes and the database: one clock in every module but
  `ReplayCache`, where a HELLO's time is the runtime's own.
