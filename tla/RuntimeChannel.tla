--------------------------- MODULE RuntimeChannel ---------------------------
(***************************************************************************)
(* Admission, serving and ending of RuntimeChannel streams.                *)
(*                                                                         *)
(* Every gRPC stream is served by one goroutine (Service.Handle), whose    *)
(* progress is conn[s].pc.  A handler shares two things with the others:   *)
(* the registry of its own process (a runtime index and a credential       *)
(* index) and the database (runtime_registry, runtime_credentials,         *)
(* runtime_channel_leases).  Users revoke credentials and end runtimes     *)
(* while handlers run, the reaper of every process ends the runtimes that  *)
(* went silent, and a process may die between any two steps.               *)
(*                                                                         *)
(* One action is one database statement or transaction, or one critical    *)
(* section of the registry lock, with the local code around it.            *)
(***************************************************************************)
EXTENDS Naturals

CONSTANTS
    Runtime,     \* runtime ids
    Key,         \* key ids of runtime credentials
    HostedKey,   \* the credentials issued with hosted_internal = TRUE
    Stream,      \* RuntimeChannel connections (a finished one may be reused)
    Instance,    \* control-panel processes (instance ids are never reused)
    Crashable,   \* the processes that may die
    AllowBare,   \* AuthConfig.AllowBareRuntime
    MaxToken,    \* bound: resume tokens generated in a behaviour
    MaxAge,      \* bound: 2 lets heartbeats age past both grace periods, 0 stops time
    None

ASSUME ConstantsAssumption ==
    /\ HostedKey \subseteq Key
    /\ Crashable \subseteq Instance
    /\ AllowBare \in BOOLEAN
    /\ MaxToken \in Nat
    /\ MaxAge \in 0 .. 2
    /\ None \notin Runtime \cup Key \cup Stream \cup Instance

VARIABLES
    cred,        \* runtime_credentials: status and consumed_runtime_id
    row,         \* runtime_registry: status, key, heartbeat age, connection owner
    lease,       \* runtime_channel_leases: current token, its binding, its expiry
    lastToken,   \* the number of tokens generated so far
    held,        \* the tokens that reached each runtime in an ACK
    conn,        \* per stream: the handler's local state
    closed,      \* the streams whose "closed" channel is closed
    byRuntime,   \* per process: Registry.streamsByRuntime
    byKey,       \* per process: Registry.runtimesByKeyID
    alive,       \* the processes that have not died
    revokeCall,  \* per key: the Revoke call in progress, or how the last one ended
    endCall,     \* per runtime: the EndRuntime call in progress
    reaper       \* per process: the statement the reaper executes next

dbVars == <<cred, row, lease>>
tokenVars == <<lastToken, held>>
registryVars == <<closed, byRuntime, byKey>>
adminVars == <<revokeCall, endCall, reaper>>
vars == <<dbVars, tokenVars, conn, registryVars, alive, adminVars>>

-----------------------------------------------------------------------------
(* State of the parts *)

Terminal == {"ended", "cancelled", "failed", "heartbeat_stale"}
Status == {"none", "active", "unhealthy"} \cup Terminal

\* runtime_registry.status NOT IN ('ended', 'cancelled', 'failed', 'heartbeat_stale')
NonTerminal(r) == row[r].status \notin Terminal \cup {"none"}

Token == 0 .. MaxToken                     \* 0: no token

PC == {"free", "upsert", "lease", "rotate", "owner", "register", "ack",
       "loop", "beat", "reown", "beatack", "unregister", "clear", "leaked"}

\* The age of heartbeat_at: 1 is past HeartbeatGrace, 2 is past DeathGrace.
Age == 0 .. 2

NoRow == [status |-> "none", key |-> None, hb |-> 0, owner |-> None]
NoLease == [tok |-> 0, key |-> None, expired |-> FALSE]
NewConn(pc, i, r, k, t) == [pc |-> pc, at |-> i, rt |-> r, key |-> k,
                            tok |-> 0, shown |-> t, frame |-> "other"]
FreeConn == NewConn("free", None, None, None, 0)
NoCall == [step |-> "idle", at |-> None]

\* A handler that serves frames of its runtime.
ServingPC == {"loop", "beat", "reown", "beatack"}
Serving(s, r) == conn[s].pc \in ServingPC /\ conn[s].rt = r

\* A connection record that a new stream may take: nothing refers to it.
Available(s) == conn[s].pc = "free" \/ (conn[s].pc = "leaked" /\ s \in closed)

Goto(s, pc) == conn' = [conn EXCEPT ![s].pc = pc]
Return(s) == conn' = [conn EXCEPT ![s] = FreeConn]

-----------------------------------------------------------------------------
(* The registry of one process.  Each operator is a critical section of    *)
(* Registry.mu; closing a stream closes its "closed" channel.              *)

\* Faulty: removeLocked forgets the credential index.
CloseEntriesKeepKey(i, R) ==
    /\ byRuntime' = [byRuntime EXCEPT ![i] =
           [r \in Runtime |-> IF r \in R THEN None ELSE byRuntime[i][r]]]
    /\ closed' = closed \cup ({byRuntime[i][r] : r \in R} \ {None})
    /\ UNCHANGED byKey

\* removeLocked and close for the entries of the runtimes R at process i.
CloseEntries(i, R) ==
    LET gone == {r \in R : byRuntime[i][r] # None}
    IN  /\ byRuntime' = [byRuntime EXCEPT ![i] =
               [r \in Runtime |-> IF r \in gone THEN None ELSE byRuntime[i][r]]]
        /\ byKey' = [byKey EXCEPT ![i] =
               [k \in Key |-> byKey[i][k] \ {r \in gone : conn[byRuntime[i][r]].key = k}]]
        /\ closed' = closed \cup {byRuntime[i][r] : r \in gone}

\* The credential of s is connected by another runtime: ErrRuntimeCredentialConnected.
KeyConnectedByOther(s) ==
    /\ conn[s].key \in Key
    /\ byKey[conn[s].at][conn[s].key] \ {conn[s].rt} # {}

\* Faulty: the previous stream is replaced but not closed.
ReplaceEntryOpen(s) ==
    LET i == conn[s].at  r == conn[s].rt
    IN  /\ byRuntime' = [byRuntime EXCEPT ![i][r] = s]
        /\ byKey' = [byKey EXCEPT ![i] =
               [k \in Key |-> byKey[i][k] \cup (IF conn[s].key = k THEN {r} ELSE {})]]
        /\ closed' = closed \ {s}

\* Close and remove the runtime's previous stream, if any, then enter s in both indexes.
ReplaceEntry(s) ==
    LET i == conn[s].at  r == conn[s].rt  old == byRuntime[i][r]
    IN  /\ byRuntime' = [byRuntime EXCEPT ![i][r] = s]
        /\ byKey' = [byKey EXCEPT ![i] = [k \in Key |->
               (byKey[i][k] \ (IF old # None /\ conn[old].key = k THEN {r} ELSE {}))
                   \cup (IF conn[s].key = k THEN {r} ELSE {})]]
        /\ closed' = (closed \cup ({old} \ {None})) \ {s}

-----------------------------------------------------------------------------
Init ==
    /\ cred = [k \in Key |-> [status |-> "issued", by |-> None]]
    /\ row = [r \in Runtime |-> NoRow]
    /\ lease = [r \in Runtime |-> NoLease]
    /\ lastToken = 0
    /\ held = [r \in Runtime |-> {}]
    /\ conn = [s \in Stream |-> FreeConn]
    /\ closed = {}
    /\ byRuntime = [i \in Instance |-> [r \in Runtime |-> None]]
    /\ byKey = [i \in Instance |-> [k \in Key |-> {}]]
    /\ alive = Instance
    /\ revokeCall = [k \in Key |-> NoCall]
    /\ endCall = [r \in Runtime |-> NoCall]
    /\ reaper = [i \in Instance |-> "mark"]

-----------------------------------------------------------------------------
(* HELLO: verify, upsert the registry row, issue a lease. *)

\* verifyHello and validateCredentialUsableForHello: a signed HELLO needs a
\* credential that is active or downloaded ("issued"); a bare one only the debug gate.
Hello(s, i, r, k) ==
    /\ Available(s)
    /\ i \in alive
    /\ IF k = None THEN AllowBare ELSE cred[k].status = "issued"
    /\ conn' = [conn EXCEPT ![s] = NewConn("upsert", i, r, k, 0)]
    /\ closed' = closed \ {s}
    /\ UNCHANGED <<dbVars, tokenVars, byRuntime, byKey, alive, adminVars>>

\* Both upserts keep the connection owner columns of an existing row.
ActiveRow(r, k) == [status |-> "active", key |-> k, hb |-> 0, owner |-> row[r].owner]

\* "credential already bound to runtime": the self-hosted upsert checks it, and for both
\* the unique index on the live rows' credential_key_id makes it an ErrConflict.
BoundElsewhere(r, k) == \E other \in Runtime \ {r} : row[other].key = k /\ NonTerminal(other)

\* Faulty: the transaction trusts the status verifyHello read.
KeyedUpsertUnlocked(r, k) ==
    /\ ~BoundElsewhere(r, k)
    /\ row[r].status = "none" \/ (row[r].key = k /\ NonTerminal(r))

\* The credential is still unused under FOR UPDATE (the consumption), and the row is
\* absent or a live one of the same credential (ON CONFLICT ... WHERE).
KeyedUpsertAdmitted(r, k) ==
    /\ ~BoundElsewhere(r, k)
    /\ cred[k].status = "issued"
    /\ row[r].status = "none" \/ (row[r].key = k /\ NonTerminal(r))

\* CreateOrReplaceHostedRuntime and CreateOrReplaceSelfHostedRuntime, one transaction:
\* the credential is consumed with the upsert, or both are rolled back.
CreateOrReplaceKeyedRuntime(s) ==
    LET r == conn[s].rt  k == conn[s].key
    IN  /\ conn[s].pc = "upsert"
        /\ k \in Key
        /\ IF KeyedUpsertAdmitted(r, k)
           THEN /\ cred' = [cred EXCEPT ![k] = [status |-> "consumed", by |-> r]]
                /\ row' = [row EXCEPT ![r] = ActiveRow(r, k)]
                /\ Goto(s, "lease")
           ELSE /\ Return(s)
                /\ UNCHANGED <<cred, row>>
        /\ UNCHANGED <<lease, tokenVars, registryVars, alive, adminVars>>

\* The row is absent or bare.
BareUpsertAdmitted(r) == row[r].key = None

\* CreateOrReplaceBareRuntime: a bare row may be taken over whatever its status.
CreateOrReplaceBareRuntime(s) ==
    LET r == conn[s].rt
    IN  /\ conn[s].pc = "upsert"
        /\ conn[s].key = None
        /\ IF BareUpsertAdmitted(r)
           THEN row' = [row EXCEPT ![r] = ActiveRow(r, None)] /\ Goto(s, "lease")
           ELSE UNCHANGED row /\ Return(s)
        /\ UNCHANGED <<cred, lease, tokenVars, registryVars, alive, adminVars>>

\* CreateRuntimeChannelLease: the upsert by runtime_id replaces any earlier lease.
NewLease(t, k) == [tok |-> t, key |-> k, expired |-> FALSE]

\* issueRuntimeChannelLease.
IssueRuntimeChannelLease(s) ==
    LET r == conn[s].rt  t == lastToken + 1
    IN  /\ conn[s].pc = "lease"
        /\ lastToken < MaxToken
        /\ lastToken' = t
        /\ lease' = [lease EXCEPT ![r] = NewLease(t, conn[s].key)]
        /\ conn' = [conn EXCEPT ![s] = [@ EXCEPT !.pc = "owner", !.tok = t]]
        /\ UNCHANGED <<cred, row, held, registryVars, alive, adminVars>>

-----------------------------------------------------------------------------
(* RESUME: verify the token, rotate it. *)

\* The lease with this token belongs to r, is unexpired and has the row's binding,
\* and the row has not ended.  The credential is not consulted.
FingerprintValid(r, t) ==
    /\ lease[r].tok = t
    /\ ~lease[r].expired
    /\ lease[r].key = row[r].key
    /\ NonTerminal(r)

\* verifyResume up to the rotation.  Its two reads are one step: a lease rotated
\* between them is refused by the rotation itself.
Resume(s, i, r, t) ==
    /\ Available(s)
    /\ i \in alive
    /\ t \in held[r]
    /\ FingerprintValid(r, t)
    /\ conn' = [conn EXCEPT ![s] = NewConn("rotate", i, r, row[r].key, t)]
    /\ closed' = closed \ {s}
    /\ UNCHANGED <<dbVars, tokenVars, byRuntime, byKey, alive, adminVars>>

\* Faulty: the update does not compare the old hash.
LeaseUnexpired(r, t) == ~lease[r].expired

\* The WHERE clause of RotateRuntimeChannelLease: compare and swap on the old hash.
LeaseUnmoved(r, t) == lease[r].tok = t /\ ~lease[r].expired

\* rotateRuntimeFingerprintWithHash.
RotateRuntimeChannelLease(s) ==
    LET r == conn[s].rt  t == lastToken + 1
    IN  /\ conn[s].pc = "rotate"
        /\ lastToken < MaxToken
        /\ lastToken' = t
        /\ IF LeaseUnmoved(r, conn[s].shown)
           THEN /\ lease' = [lease EXCEPT ![r].tok = t]
                /\ conn' = [conn EXCEPT ![s] = [@ EXCEPT !.pc = "owner", !.tok = t]]
           ELSE /\ UNCHANGED lease
                /\ Return(s)
        /\ UNCHANGED <<cred, row, held, registryVars, alive, adminVars>>

-----------------------------------------------------------------------------
(* Registration, the ACK, and the early returns before the deferred cleanup *)

\* RecordRuntimeConnectionOwner updates only rows that have not ended.
OwnerRecorded(s) ==
    row' = IF NonTerminal(conn[s].rt)
           THEN [row EXCEPT ![conn[s].rt].owner = conn[s].at]
           ELSE row

RecordConnectionOwner(s) ==
    /\ conn[s].pc = "owner"
    /\ OwnerRecorded(s)
    /\ IF NonTerminal(conn[s].rt) THEN Goto(s, "register") ELSE Return(s)
    /\ UNCHANGED <<cred, lease, tokenVars, registryVars, alive, adminVars>>

Register(s) ==
    /\ conn[s].pc = "register"
    /\ IF KeyConnectedByOther(s)
       THEN Return(s) /\ UNCHANGED registryVars
       ELSE Goto(s, "ack") /\ ReplaceEntry(s)
    /\ UNCHANGED <<dbVars, tokenVars, alive, adminVars>>

\* The HELLO_ACK is handed to the transport; it may still be lost on the way.
SendHelloAck(s) ==
    /\ conn[s].pc = "ack"
    /\ s \notin closed
    /\ Goto(s, "loop")
    /\ \/ held' = [held EXCEPT ![conn[s].rt] = @ \cup {conn[s].tok}]
       \/ UNCHANGED held
    /\ UNCHANGED <<dbVars, lastToken, registryVars, alive, adminVars>>

\* sendFrame fails (closed, or the transport is gone): Handle returns before the
\* defer, so the registry entry and the owner columns stay behind.
HelloAckFails(s) ==
    /\ conn[s].pc = "ack"
    /\ Goto(s, "leaked")
    /\ UNCHANGED <<dbVars, tokenVars, registryVars, alive, adminVars>>

\* A cancelled context, a failing statement or a peer identity mismatch.
AbortAdmission(s) ==
    /\ conn[s].pc \in {"upsert", "lease", "rotate", "owner", "register"}
    /\ Return(s)
    /\ UNCHANGED <<dbVars, tokenVars, registryVars, alive, adminVars>>

-----------------------------------------------------------------------------
(* The frame loop *)

\* refreshRuntimeFingerprint extends the expiry of the lease and keeps its token.
Heartbeat(s) ==
    /\ conn[s].pc = "loop"
    /\ \E t \in held[conn[s].rt] :
          IF FingerprintValid(conn[s].rt, t)
          THEN conn' = [conn EXCEPT ![s] = [@ EXCEPT !.pc = "beat", !.frame = "heartbeat"]]
          ELSE Goto(s, "unregister")
    /\ UNCHANGED <<dbVars, tokenVars, registryVars, alive, adminVars>>

OtherFrame(s) ==
    /\ conn[s].pc = "loop"
    /\ conn' = [conn EXCEPT ![s] = [@ EXCEPT !.pc = "beat", !.frame = "other"]]
    /\ UNCHANGED <<dbVars, tokenVars, registryVars, alive, adminVars>>

\* Faulty: the update does not look at the status.
HeartbeatAlways(r) == row[r].status # "none"

\* The guard of UpdateRuntimeHeartbeat.
HeartbeatAdmitted(r) == NonTerminal(r)

\* Faulty: ErrRuntimeAlreadyEnded does not end the loop.
RecordHeartbeatGoesOn(s) ==
    LET r == conn[s].rt
    IN  /\ conn[s].pc = "beat"
        /\ row' = IF HeartbeatAdmitted(r)
                  THEN [row EXCEPT ![r] = [@ EXCEPT !.hb = 0, !.status = "active"]] ELSE row
        /\ Goto(s, "reown")
        /\ UNCHANGED <<cred, lease, tokenVars, registryVars, alive, adminVars>>

\* recordHeartbeat: the row becomes active again unless it has ended.
RecordHeartbeat(s) ==
    LET r == conn[s].rt
    IN  /\ conn[s].pc = "beat"
        /\ IF HeartbeatAdmitted(r)
           THEN /\ row' = [row EXCEPT ![r] = [@ EXCEPT !.hb = 0, !.status = "active"]]
                /\ Goto(s, "reown")
           ELSE /\ UNCHANGED row
                /\ Goto(s, "unregister")
        /\ UNCHANGED <<cred, lease, tokenVars, registryVars, alive, adminVars>>

\* The error of this recordConnectionOwner is ignored.
RecordOwnerAgain(s) ==
    /\ conn[s].pc = "reown"
    /\ OwnerRecorded(s) \/ UNCHANGED row
    /\ Goto(s, IF conn[s].frame = "heartbeat" THEN "beatack" ELSE "loop")
    /\ UNCHANGED <<cred, lease, tokenVars, registryVars, alive, adminVars>>

SendHeartbeatAck(s) ==
    /\ conn[s].pc = "beatack"
    /\ Goto(s, IF s \in closed THEN "unregister" ELSE "loop")
    /\ UNCHANGED <<dbVars, tokenVars, registryVars, alive, adminVars>>

\* case <-rs.closed
LoopClosed(s) ==
    /\ conn[s].pc = "loop"
    /\ s \in closed
    /\ Goto(s, "unregister")
    /\ UNCHANGED <<dbVars, tokenVars, registryVars, alive, adminVars>>

\* The stream breaks or ends, or the ticker finds the last frame older than
\* streamIdleTimeout: a handler that waits for ever takes this step.
LoopIdle(s) ==
    /\ conn[s].pc = "loop"
    /\ Goto(s, "unregister")
    /\ UNCHANGED <<dbVars, tokenVars, registryVars, alive, adminVars>>

\* The stream breaks, a frame is invalid or cannot be handled, a statement fails.
LoopFails(s) ==
    /\ conn[s].pc \in {"beat", "reown", "beatack"}
    /\ Goto(s, "unregister")
    /\ UNCHANGED <<dbVars, tokenVars, registryVars, alive, adminVars>>

\* The deferred Unregister(rt.RuntimeID): by runtime id, not by stream.
Unregister(s) ==
    /\ conn[s].pc = "unregister"
    /\ CloseEntries(conn[s].at, {conn[s].rt})
    /\ Goto(s, "clear")
    /\ UNCHANGED <<dbVars, tokenVars, alive, adminVars>>

\* The deferred ClearRuntimeConnectionOwner, whose error is ignored.
ClearConnectionOwner(s) ==
    LET r == conn[s].rt
    IN  /\ conn[s].pc = "clear"
        /\ \/ /\ row[r].owner = conn[s].at
              /\ row' = [row EXCEPT ![r].owner = None]
           \/ UNCHANGED row
        /\ Return(s)
        /\ closed' = closed \ {s}
        /\ UNCHANGED <<cred, lease, tokenVars, byRuntime, byKey, alive, adminVars>>

-----------------------------------------------------------------------------
(* Revoke: commit the revocation, close the streams, end the rows *)

RevokeRuntimeCredential(i, k) ==
    /\ i \in alive
    /\ revokeCall[k].step \in {"idle", "done"}
    /\ cred' = [cred EXCEPT ![k].status = "revoked"]
    /\ revokeCall' = [revokeCall EXCEPT ![k] = [step |-> "close", at |-> i]]
    /\ UNCHANGED <<row, lease, tokenVars, conn, registryVars, alive, endCall, reaper>>

CloseByKeyID(k) ==
    /\ revokeCall[k].step = "close"
    /\ CloseEntries(revokeCall[k].at, byKey[revokeCall[k].at][k])
    /\ revokeCall' = [revokeCall EXCEPT ![k].step = "end"]
    /\ UNCHANGED <<dbVars, tokenVars, conn, alive, endCall, reaper>>

\* The rows that end with the reason st names, all in one statement.
EndRows(R, st) == row' = [r \in Runtime |-> IF r \in R THEN [row[r] EXCEPT !.status = st] ELSE row[r]]

RowsOfKey(k) == {r \in Runtime : row[r].key = k /\ NonTerminal(r)}

EndRuntimesByCredentialKey(k) ==
    /\ revokeCall[k].step = "end"
    /\ EndRows(RowsOfKey(k), "failed")
    /\ revokeCall' = [revokeCall EXCEPT ![k] = [step |-> "done", at |-> None]]
    /\ UNCHANGED <<cred, lease, tokenVars, conn, registryVars, alive, endCall, reaper>>

\* The error is dropped: Revoke reports success and nothing retries.
EndRuntimesByCredentialKeyFails(k) ==
    /\ revokeCall[k].step = "end"
    /\ revokeCall' = [revokeCall EXCEPT ![k] = NoCall]
    /\ UNCHANGED <<dbVars, tokenVars, conn, registryVars, alive, endCall, reaper>>

-----------------------------------------------------------------------------
(* EndRuntime by the user: read the row, end it, close a self-hosted stream *)

EndRuntime(i, r) ==
    /\ i \in alive
    /\ endCall[r].step = "idle"
    /\ NonTerminal(r)
    /\ endCall' = [endCall EXCEPT ![r] = [step |-> "end", at |-> i]]
    /\ UNCHANGED <<dbVars, tokenVars, conn, registryVars, alive, revokeCall, reaper>>

\* Running sessions block the call, or its statement fails.
EndRuntimeRefused(r) ==
    /\ endCall[r].step = "end"
    /\ endCall' = [endCall EXCEPT ![r] = NoCall]
    /\ UNCHANGED <<dbVars, tokenVars, conn, registryVars, alive, revokeCall, reaper>>

SelfHosted(r) == row[r].key \in Key \ HostedKey

\* A row that ended meanwhile is returned as it is, and the cleanup still runs.
EndRuntimeRow(r) ==
    /\ endCall[r].step = "end"
    /\ EndRows({r} \cap {x \in Runtime : NonTerminal(x)}, "cancelled")
    /\ endCall' = IF SelfHosted(r) THEN [endCall EXCEPT ![r].step = "close"]
                                   ELSE [endCall EXCEPT ![r] = NoCall]
    /\ UNCHANGED <<cred, lease, tokenVars, conn, registryVars, alive, revokeCall, reaper>>

CloseStreamForRuntime(r) ==
    /\ endCall[r].step = "close"
    /\ CloseEntries(endCall[r].at, {r})
    /\ endCall' = [endCall EXCEPT ![r] = NoCall]
    /\ UNCHANGED <<dbVars, tokenVars, conn, alive, revokeCall, reaper>>

-----------------------------------------------------------------------------
(* ReapStaleRuntimes: two statements, each over the whole table.  Both cutoffs are  *)
(* taken when the tick starts, so a tick with nothing to mark or end is no step.    *)

\* Faulty: a heartbeat that aged past both cutoffs between two ticks is missed.
StaleOnly(r) == row[r].status = "active" /\ row[r].hb = 1

Stale(r) == row[r].status = "active" /\ row[r].hb >= 1
Dead(r) == row[r].status = "unhealthy" /\ row[r].hb = 2

MarkStaleRuntimesUnhealthy(i) ==
    /\ i \in alive
    /\ reaper[i] = "mark"
    /\ \E r \in Runtime : Stale(r) \/ Dead(r)
    /\ EndRows({r \in Runtime : Stale(r)}, "unhealthy")
    /\ reaper' = [reaper EXCEPT ![i] = "end"]
    /\ UNCHANGED <<cred, lease, tokenVars, conn, registryVars, alive, revokeCall, endCall>>

EndDeadRuntimes(i) ==
    /\ i \in alive
    /\ reaper[i] = "end"
    /\ EndRows({r \in Runtime : Dead(r)}, "heartbeat_stale")
    /\ reaper' = [reaper EXCEPT ![i] = "mark"]
    /\ UNCHANGED <<cred, lease, tokenVars, conn, registryVars, alive, revokeCall, endCall>>

-----------------------------------------------------------------------------
(* Time and crashes *)

\* heartbeat_at grows older than HeartbeatGrace, then than DeathGrace.  Nothing reads
\* it once the row has ended.
HeartbeatAges(r) ==
    /\ NonTerminal(r)
    /\ row[r].hb < MaxAge
    /\ row' = [row EXCEPT ![r].hb = @ + 1]
    /\ UNCHANGED <<cred, lease, tokenVars, conn, registryVars, alive, adminVars>>

LeaseExpires(r) ==
    /\ NonTerminal(r)
    /\ lease[r].tok # 0
    /\ ~lease[r].expired
    /\ lease' = [lease EXCEPT ![r].expired = TRUE]
    /\ UNCHANGED <<cred, row, tokenVars, conn, registryVars, alive, adminVars>>

\* The process dies with its handlers, its registry and the calls it was executing.
Crash(i) ==
    /\ i \in alive \cap Crashable
    /\ alive' = alive \ {i}
    /\ conn' = [s \in Stream |-> IF conn[s].at = i THEN FreeConn ELSE conn[s]]
    /\ closed' = {s \in closed : conn[s].at # i}
    /\ byRuntime' = [byRuntime EXCEPT ![i] = [r \in Runtime |-> None]]
    /\ byKey' = [byKey EXCEPT ![i] = [k \in Key |-> {}]]
    /\ revokeCall' = [k \in Key |-> IF revokeCall[k].at = i THEN NoCall ELSE revokeCall[k]]
    /\ endCall' = [r \in Runtime |-> IF endCall[r].at = i THEN NoCall ELSE endCall[r]]
    /\ reaper' = [reaper EXCEPT ![i] = "mark"]
    /\ UNCHANGED <<dbVars, tokenVars>>

-----------------------------------------------------------------------------
Admission(s) ==
    \/ CreateOrReplaceKeyedRuntime(s) \/ CreateOrReplaceBareRuntime(s)
    \/ IssueRuntimeChannelLease(s) \/ RotateRuntimeChannelLease(s)
    \/ RecordConnectionOwner(s) \/ Register(s)
    \/ SendHelloAck(s) \/ HelloAckFails(s) \/ AbortAdmission(s)

Loop(s) ==
    \/ Heartbeat(s) \/ OtherFrame(s)
    \/ RecordHeartbeat(s) \/ RecordOwnerAgain(s) \/ SendHeartbeatAck(s)
    \/ LoopClosed(s) \/ LoopIdle(s) \/ LoopFails(s)
    \/ Unregister(s) \/ ClearConnectionOwner(s)

Connect(s) ==
    \E i \in Instance, r \in Runtime :
       \/ \E k \in Key \cup {None} : Hello(s, i, r, k)
       \/ \E t \in Token : Resume(s, i, r, t)

Revoke(k) ==
    \/ \E i \in Instance : RevokeRuntimeCredential(i, k)
    \/ CloseByKeyID(k)
    \/ EndRuntimesByCredentialKey(k) \/ EndRuntimesByCredentialKeyFails(k)

End(r) ==
    \/ \E i \in Instance : EndRuntime(i, r)
    \/ EndRuntimeRefused(r) \/ EndRuntimeRow(r) \/ CloseStreamForRuntime(r)

Process(i) == MarkStaleRuntimesUnhealthy(i) \/ EndDeadRuntimes(i) \/ Crash(i)

Next ==
    \/ \E s \in Stream : Connect(s) \/ Admission(s) \/ Loop(s)
    \/ \E k \in Key : Revoke(k)
    \/ \E r \in Runtime : End(r) \/ HeartbeatAges(r) \/ LeaseExpires(r)
    \/ \E i \in Instance : Process(i)

Spec == Init /\ [][Next]_vars

(* Fairness.  A handler and the reaper's ticker keep going as long as their process *)
(* lives and the database answers.  LoopIdle is the idle timeout: it is owed only   *)
(* to a handler that stays in its select.  LoopClosed is strongly fair because Go's *)
(* select picks a ready case at random, so frames cannot starve rs.closed.  Nothing *)
(* is owed to SendHeartbeatAck: a Send has no deadline, and blocks while the peer   *)
(* does not read.                                                                   *)
FairSpec ==
    /\ Spec
    /\ \A s \in Stream :
          /\ WF_vars(RecordHeartbeat(s)) /\ WF_vars(RecordOwnerAgain(s))
          /\ WF_vars(LoopIdle(s)) /\ SF_vars(LoopClosed(s))
    /\ \A i \in Instance : WF_vars(MarkStaleRuntimesUnhealthy(i)) /\ WF_vars(EndDeadRuntimes(i))

\* What only the peers can promise: they read, so that a Send returns.
PeersRead == \A s \in Stream : WF_vars(SendHeartbeatAck(s))

-----------------------------------------------------------------------------
(* Safety *)

RowType == [status : Status, key : Key \cup {None}, hb : Age, owner : Instance \cup {None}]
LeaseType == [tok : Token, key : Key \cup {None}, expired : BOOLEAN]
ConnType == [pc : PC, at : Instance \cup {None}, rt : Runtime \cup {None},
             key : Key \cup {None}, tok : Token, shown : Token, frame : {"heartbeat", "other"}]

DbTypeOK ==
    /\ cred \in [Key -> [status : {"issued", "consumed", "revoked"}, by : Runtime \cup {None}]]
    /\ row \in [Runtime -> RowType]
    /\ lease \in [Runtime -> LeaseType]

TokensTypeOK == lastToken \in Token /\ held \in [Runtime -> SUBSET Token]

\* A handler knows its process and its runtime from its first statement on.
ConnTypeOK ==
    /\ conn \in [Stream -> ConnType]
    /\ \A s \in Stream : conn[s].pc # "free" => conn[s].at \in Instance /\ conn[s].rt \in Runtime

RegistryTypeOK ==
    /\ closed \subseteq Stream
    /\ byRuntime \in [Instance -> [Runtime -> Stream \cup {None}]]
    /\ byKey \in [Instance -> [Key -> SUBSET Runtime]]

AdminTypeOK ==
    /\ revokeCall \in [Key -> [step : {"idle", "close", "end", "done"}, at : Instance \cup {None}]]
    /\ \A k \in Key : revokeCall[k].step \in {"close", "end"} => revokeCall[k].at \in Instance
    /\ endCall \in [Runtime -> [step : {"idle", "end", "close"}, at : Instance \cup {None}]]
    /\ \A r \in Runtime : endCall[r].step # "idle" => endCall[r].at \in Instance
    /\ reaper \in [Instance -> {"mark", "end"}]

TypeOK ==
    /\ DbTypeOK
    /\ TokensTypeOK
    /\ ConnTypeOK
    /\ RegistryTypeOK
    /\ alive \subseteq Instance
    /\ AdminTypeOK

\* Registry "owns the active RuntimeChannel double-index" (registry.go:154): an entry
\* is an open stream of that very runtime and process, and the credential index holds
\* exactly the runtimes whose registered stream was admitted with the credential, so
\* closing by key and closing by runtime see the same streams.
RegistryConsistent ==
    \A i \in Instance :
       /\ \A r \in Runtime : byRuntime[i][r] # None =>
             /\ conn[byRuntime[i][r]].at = i
             /\ conn[byRuntime[i][r]].rt = r
             /\ byRuntime[i][r] \notin closed
       /\ \A k \in Key : byKey[i][k] =
             {r \in Runtime : byRuntime[i][r] # None /\ conn[byRuntime[i][r]].key = k}

\* A handler that still serves an open stream can be found: Revoke, EndRuntime and a
\* reconnect of the runtime reach it through the registry, however handlers that
\* supersede each other and closing calls interleave.  (Register, Unregister, Close*.)
ServingIsRegistered ==
    \A s \in Stream : conn[s].pc \in ServingPC /\ s \notin closed =>
       byRuntime[conn[s].at][conn[s].rt] = s

AdmittedPC == PC \ {"free", "upsert"}

\* A credential admits one runtime, in every process: all handlers past admission that
\* carry it serve the same runtime, which is the one that consumed it.  Hence
\* Register's ErrRuntimeCredentialConnected never has to fire.  (auth.go, the upserts'
\* FOR UPDATE, and RESUME, which reads the key from the row.)
OneRuntimePerCredential ==
    \A s \in Stream : conn[s].pc \in AdmittedPC /\ conn[s].key \in Key =>
       /\ cred[conn[s].key].by = conn[s].rt
       /\ row[conn[s].rt].key = conn[s].key

\* The handlers that obtained their token by RESUME.
Resumed(s) == conn[s].shown # 0 /\ conn[s].pc \in PC \ {"free", "rotate"}

\* A resume token works once: of the RESUMEs that show the same token concurrently, on
\* whatever processes, one gets through, and the token it showed is current no more.
\* (RotateRuntimeChannelLease's compare and swap.)
ResumeTokenSingleUse ==
    /\ \A s1, s2 \in Stream :
          s1 # s2 /\ Resumed(s1) /\ Resumed(s2) => conn[s1].shown # conn[s2].shown
    /\ \A s \in Stream : Resumed(s) => lease[conn[s].rt].tok # conn[s].shown

\* Once Revoke has ended the rows of a credential, none ever lives again: neither a
\* HELLO that was verified before the revocation nor a RESUME or a heartbeat in
\* progress brings one back.  ("cannot remain routable after their key is revoked",
\* repository.go:96-98.)
RevokedRowsStayEnded ==
    \A k \in Key : revokeCall[k].step = "done" => RowsOfKey(k) = {}

\* The row of a runtime that was admitted with a credential never leaves a terminal
\* status and never changes its credential, whatever handlers, reaper and users do.
\* (Bare rows may be taken over again: CreateOrReplaceBareRuntime.)
TerminalIsFinal ==
    [][\A r \in Runtime : row[r].key # None =>
          /\ row'[r].key = row[r].key
          /\ row[r].status \in Terminal => row'[r].status = row[r].status]_vars

-----------------------------------------------------------------------------
(* Liveness *)

\* If the peers read what they are sent, a handler that serves an ended runtime
\* returns, however many frames they send, even when the registry never closed its
\* stream: the call that ended the row ran in another process or before Register.
EndedStreamDrains ==
    PeersRead =>
        \A s \in Stream, r \in Runtime :
           Serving(s, r) /\ row[r].status \in Terminal ~> ~Serving(s, r) \/ NonTerminal(r)

\* A runtime that stays silent past the death grace is ended by the reaper, whichever
\* status it had when it fell silent.
SilentRuntimeReaped ==
    \A r \in Runtime : (NonTerminal(r) /\ row[r].hb = 2) ~> (row[r].status \in Terminal \/ row[r].hb # 2)

=============================================================================
