---------------------------- MODULE CommandQueue ----------------------------
(***************************************************************************)
(* The durable queue of commands of one runtime (runtime_commands), the    *)
(* dispatchers that claim and send them, and the handling of the frames    *)
(* with which the runtime acknowledges and answers them.                   *)
(*                                                                         *)
(* Who owns the runtime's connection and which processes have a stream of  *)
(* it is decided by RuntimeChannel; here both change at any time.  Nothing *)
(* in the repository calls CreateRuntimeCommand, DispatchNextRuntimeCommand*)
(* or TimeoutRuntimeCommands: they are called here at any time, by any     *)
(* process, any number of times.                                           *)
(***************************************************************************)
EXTENDS Naturals, Sequences, FiniteSets

CONSTANTS
    Command,     \* command ids, numbered in the order (created_at, command_id)
    Key,         \* idempotency keys
    Instance,    \* control-panel processes
    Dispatcher,  \* concurrent calls of DispatchNextRuntimeCommand
    Limit,       \* inFlightLimit
    MaxFrames,   \* bound: frames of the runtime that wait in a stream
    None

ASSUME QueueAssumption ==
    /\ Command \subseteq Nat /\ IsFiniteSet(Command)
    /\ IsFiniteSet(Dispatcher)
    /\ Limit \in Nat \ {0}
    /\ MaxFrames \in Nat
    /\ None \notin Key \cup Instance \cup Command

VARIABLES
    status,      \* runtime_commands.status, "absent" before the insert
    key,         \* runtime_commands.idempotency_key
    owner,       \* runtime_registry.connection_owner_instance_id
    connected,   \* the processes whose registry has a stream of the runtime
    frames,      \* per process: command frames of the runtime, not yet handled
    call,        \* per dispatcher: the progress of its call
    handed       \* per command: how often its COMMAND frame was handed to a stream

rowVars == <<status, key>>
streamVars == <<owner, connected, frames>>
vars == <<rowVars, streamVars, call, handed>>

-----------------------------------------------------------------------------
InFlight == {"sent", "acked", "running"}
Terminal == {"succeeded", "failed", "timed_out", "cancelled"}
Status == {"absent", "queued"} \cup InFlight \cup Terminal

Open(c) == status[c] \in {"queued"} \cup InFlight
InFlightCommands == {c \in Command : status[c] \in InFlight}

NoCall == [pc |-> "idle", at |-> None, cmd |-> None]

\* What a COMMAND_ACK or a COMMAND_RESULT says; an empty result status means succeeded.
Verdict == {"acked", "running"} \cup Terminal
Frame == [cmd : Command, says : Verdict]

Init ==
    /\ status = [c \in Command |-> "absent"]
    /\ key = [c \in Command |-> None]
    /\ owner = None
    /\ connected = {}
    /\ frames = [i \in Instance |-> <<>>]
    /\ call = [d \in Dispatcher |-> NoCall]
    /\ handed = [c \in Command |-> 0]

-----------------------------------------------------------------------------
(* Creating commands *)

\* ON CONFLICT (runtime_id, idempotency_key) WHERE idempotency_key <> ''.
KeyUnused(k) == \A c \in Command : key[c] # k

\* The conflicting insert does nothing, and the caller gets the existing row.
CreateRuntimeCommand(c, k) ==
    /\ status[c] = "absent"
    /\ \A d \in Command : d < c => status[d] # "absent"
    /\ k # None => KeyUnused(k)
    /\ status' = [status EXCEPT ![c] = "queued"]
    /\ key' = [key EXCEPT ![c] = k]
    /\ UNCHANGED <<streamVars, call, handed>>

-----------------------------------------------------------------------------
(* ClaimNextRuntimeCommand: three statements of one READ COMMITTED transaction *)

\* The caller owns the connection.
ClaimNextRuntimeCommand(d, i) ==
    /\ call[d].pc = "idle"
    /\ owner = i
    /\ call' = [call EXCEPT ![d] = [pc |-> "count", at |-> i, cmd |-> None]]
    /\ UNCHANGED <<rowVars, streamVars, handed>>

\* Faulty: commands that the runtime has acknowledged are not counted.
CountOnlySent(d) ==
    /\ call[d].pc = "count"
    /\ call' = [call EXCEPT ![d] =
           IF Cardinality({c \in Command : status[c] = "sent"}) < Limit
           THEN [@ EXCEPT !.pc = "claim"] ELSE NoCall]
    /\ UNCHANGED <<rowVars, streamVars, handed>>

CountInFlight(d) ==
    /\ call[d].pc = "count"
    /\ call' = [call EXCEPT ![d] =
           IF Cardinality(InFlightCommands) < Limit THEN [@ EXCEPT !.pc = "claim"] ELSE NoCall]
    /\ UNCHANGED <<rowVars, streamVars, handed>>

\* ORDER BY created_at, command_id LIMIT 1 FOR UPDATE SKIP LOCKED.
Claimable(c) ==
    /\ status[c] = "queued"
    /\ \A b \in Command : b < c => status[b] # "queued"

\* The oldest queued command is claimed; without one the call ends.
ClaimOldest(d) ==
    /\ call[d].pc = "claim"
    /\ \/ \E c \in Command :
             /\ Claimable(c)
             /\ status' = [status EXCEPT ![c] = "sent"]
             /\ call' = [call EXCEPT ![d] = [@ EXCEPT !.pc = "send", !.cmd = c]]
       \/ /\ \A c \in Command : ~Claimable(c)
          /\ call' = [call EXCEPT ![d] = NoCall]
          /\ UNCHANGED status
    /\ UNCHANGED <<key, streamVars, handed>>

-----------------------------------------------------------------------------
(* DispatchNextRuntimeCommand after the claim *)

\* The stream is found and the frame handed to it.
SendCommand(d) ==
    /\ call[d].pc = "send"
    /\ call[d].at \in connected
    /\ handed' = [handed EXCEPT ![call[d].cmd] = @ + 1]
    /\ call' = [call EXCEPT ![d] = NoCall]
    /\ UNCHANGED <<rowVars, streamVars>>

\* No stream of the runtime in this process, or it is closing.
SendCommandFails(d) ==
    /\ call[d].pc = "send"
    /\ call' = [call EXCEPT ![d].pc = "fail"]
    /\ UNCHANGED <<rowVars, streamVars, handed>>

\* Faulty: the status is not compared.
CompletesAlways(c) == status[c] # "absent"

\* The guard of CompleteRuntimeCommand.
Completes(c) == Open(c)

FailCommand(d) ==
    /\ call[d].pc = "fail"
    /\ status' = IF Completes(call[d].cmd) THEN [status EXCEPT ![call[d].cmd] = "failed"] ELSE status
    /\ call' = [call EXCEPT ![d] = NoCall]
    /\ UNCHANGED <<key, streamVars, handed>>

\* The process dies or a statement fails: the claim is rolled back, or stays without
\* being sent, or the failure is not recorded.
DispatchAborts(d) ==
    /\ call[d].pc # "idle"
    /\ call' = [call EXCEPT ![d] = NoCall]
    /\ UNCHANGED <<rowVars, streamVars, handed>>

-----------------------------------------------------------------------------
(* Frames of the runtime.  It may answer on another stream than the command came on, *)
(* and repeat itself after a reconnect.                                              *)

RuntimeAnswers(i, f) ==
    /\ i \in connected
    /\ handed[f.cmd] > 0
    /\ Len(frames[i]) < MaxFrames
    /\ frames' = [frames EXCEPT ![i] = Append(@, f)]
    /\ UNCHANGED <<rowVars, owner, connected, call, handed>>

\* Faulty: the runtime is expected to say acked, running and its result in this order.
AppliesInOrder(f) ==
    \/ f.says = "acked" /\ status[f.cmd] = "sent"
    \/ f.says = "running" /\ status[f.cmd] = "acked"
    \/ f.says \in Terminal /\ status[f.cmd] = "running"

\* The statement that a frame executes finds its row: AcknowledgeRuntimeCommand,
\* MarkRuntimeCommandRunning, CompleteRuntimeCommand.
Applies(f) ==
    \/ f.says = "acked" /\ status[f.cmd] \in {"sent", "acked"}
    \/ f.says = "running" /\ status[f.cmd] \in {"sent", "acked", "running"}
    \/ f.says \in Terminal /\ Completes(f.cmd)

\* The handler returns, unregisters its stream and drops what waits in it.
CloseStream(i) ==
    /\ connected' = connected \ {i}
    /\ frames' = [frames EXCEPT ![i] = <<>>]

\* handleRuntimeCommandFrame: a statement that finds no row is ErrNotFound, which
\* ends the frame loop of the stream.
HandleRuntimeCommandFrame(i) ==
    /\ frames[i] # <<>>
    /\ LET f == Head(frames[i])
       IN  IF Applies(f)
           THEN /\ status' = [status EXCEPT ![f.cmd] = f.says]
                /\ frames' = [frames EXCEPT ![i] = Tail(@)]
                /\ UNCHANGED connected
           ELSE /\ CloseStream(i)
                /\ UNCHANGED status
    /\ UNCHANGED <<key, owner, call, handed>>

-----------------------------------------------------------------------------
(* Deadlines, and what RuntimeChannel does to the stream and its owner *)

\* The open commands in late have passed their deadline, which nothing else looks at.
TimeoutRuntimeCommands(late) ==
    /\ late # {}
    /\ \A c \in late : Open(c)
    /\ status' = [c \in Command |-> IF c \in late THEN "timed_out" ELSE status[c]]
    /\ UNCHANGED <<key, streamVars, call, handed>>

OwnerChanges ==
    /\ owner' \in Instance \cup {None}
    /\ UNCHANGED <<rowVars, connected, frames, call, handed>>

StreamOpens(i) ==
    /\ connected' = connected \cup {i}
    /\ UNCHANGED <<rowVars, owner, frames, call, handed>>

StreamCloses(i) ==
    /\ CloseStream(i)
    /\ UNCHANGED <<rowVars, owner, call, handed>>

-----------------------------------------------------------------------------
Dispatch(d) ==
    \/ \E i \in Instance : ClaimNextRuntimeCommand(d, i)
    \/ CountInFlight(d) \/ ClaimOldest(d)
    \/ SendCommand(d) \/ SendCommandFails(d) \/ FailCommand(d) \/ DispatchAborts(d)

Stream(i) ==
    \/ \E f \in Frame : RuntimeAnswers(i, f)
    \/ HandleRuntimeCommandFrame(i)
    \/ StreamOpens(i) \/ StreamCloses(i)

Next ==
    \/ \E c \in Command, k \in Key \cup {None} : CreateRuntimeCommand(c, k)
    \/ \E d \in Dispatcher : Dispatch(d)
    \/ \E i \in Instance : Stream(i)
    \/ \E late \in SUBSET Command : TimeoutRuntimeCommands(late)
    \/ OwnerChanges

Spec == Init /\ [][Next]_vars

-----------------------------------------------------------------------------
(* Properties *)

CallType ==
    [pc : {"idle", "count", "claim", "send", "fail"},
     at : Instance \cup {None}, cmd : Command \cup {None}]

TypeOK ==
    /\ status \in [Command -> Status]
    /\ key \in [Command -> Key \cup {None}]
    /\ owner \in Instance \cup {None}
    /\ connected \subseteq Instance
    /\ frames \in [Instance -> Seq(Frame)]
    /\ call \in [Dispatcher -> CallType]
    /\ \A d \in Dispatcher : call[d].pc \in {"send", "fail"} => call[d].cmd \in Command
    /\ handed \in [Command -> Nat]

\* A claimed command.
Holds(d, c) == call[d].pc \in {"send", "fail"} /\ call[d].cmd = c

\* A command is in one dispatcher's hands at a time, is no longer queued, and its frame
\* has not been handed over before: however claims of several processes interleave with
\* timeouts and answers, no command is sent twice.  (FOR UPDATE SKIP LOCKED.)
ClaimedOnce ==
    \A d \in Dispatcher, c \in Command : Holds(d, c) =>
       /\ status[c] \notin {"absent", "queued"}
       /\ handed[c] = 0
       /\ \A e \in Dispatcher : Holds(e, c) => e = d

\* The queue implements the life cycle of CommandLife: queued, claimed and handed over at
\* most once, closed once and for good, by whichever of the answer, the timeout and the
\* failing dispatcher comes first.
Life == INSTANCE CommandLife WITH
    Outcome <- Terminal,
    life <- [c \in Command |-> IF status[c] \in InFlight THEN "inflight" ELSE status[c]]

LifeSpec == Life!Spec

\* An idempotency key names one command for ever, also after the command was closed.
KeyNamesOneCommand ==
    \A b, c \in Command : key[b] # None /\ key[b] = key[c] => b = c

\* A command frame ends its stream only when it is out of date: the command was closed
\* meanwhile, or is known to run already.
OnlyLateFramesCloseStream ==
    [][\A i \in Instance :
          HandleRuntimeCommandFrame(i) /\ i \in connected /\ i \notin connected' =>
             LET f == Head(frames[i])
             IN  status[f.cmd] \in Terminal \/ (f.says = "acked" /\ status[f.cmd] = "running")]_vars

\* Overlapping calls may exceed the in-flight limit, since each counts before it claims,
\* but by no more than the calls that overlap: one call at a time keeps within the limit.
\* runtime_command_test.go:112 "claim succeeded despite in-flight limit" is about one call.
OverlapBounded == Cardinality(InFlightCommands) <= Limit + Cardinality(Dispatcher) - 1
=============================================================================
