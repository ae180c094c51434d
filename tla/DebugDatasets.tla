---------------------------- MODULE DebugDatasets ----------------------------
(***************************************************************************)
(* The datasets a user loads into a debugger runtime: a call stamps the    *)
(* dataset, sends it to the runtime as a command, waits for the result and *)
(* then replaces the active row of runtime_debug_datasets.  Replays are    *)
(* started from the rows.                                                  *)
(*                                                                         *)
(* One runtime is modelled.  A dataset is named by the rank of its         *)
(* loaded_at.                                                              *)
(***************************************************************************)
EXTENDS Naturals, Sequences, FiniteSetsExt

CONSTANTS
    Loader,   \* calls of LoadDebugDataset that run at the same time
    MaxLoad,  \* bound: datasets stamped in a behaviour
    None

ASSUME DebugAssumption ==
    /\ MaxLoad \in Nat
    /\ None \notin 1 .. MaxLoad

VARIABLES
    connected, \* the registry has the runtime's stream, and its row is active
    stamped,   \* datasets stamped so far
    dataset,   \* runtime_debug_datasets.state, by dataset
    load,      \* per loader: its position and its dataset
    command,   \* load commands sent to the runtime and not handled yet
    memory,    \* the dataset the runtime holds (external)
    workspace, \* the debug_workspace columns: prepared, and last_error
    calm       \* no loads overlapped, and the outcome of each was recorded (history)

debugVars == <<stamped, dataset, load, command, memory, workspace, calm>>

Dataset == 1 .. MaxLoad
NoLoad == [pc |-> "idle", of |-> None]

DebugInit ==
    /\ connected = TRUE
    /\ stamped = 0
    /\ dataset = [d \in Dataset |-> "none"]
    /\ load = [l \in Loader |-> NoLoad]
    /\ command = <<>>
    /\ memory = None
    /\ workspace = [prepared |-> FALSE, error |-> FALSE]
    /\ calm = TRUE

Loading == {l \in Loader : load[l].pc # "idle"}

-----------------------------------------------------------------------------
\* requireDebuggerRuntime; what else it and the validation refuse changes nothing.
RequireDebuggerRuntime == connected

\* The klines were fetched and validated; the dataset is stamped.
LoadDebugDataset(l) ==
    /\ load[l].pc = "idle"
    /\ RequireDebuggerRuntime
    /\ stamped < MaxLoad
    /\ stamped' = stamped + 1
    /\ load' = [load EXCEPT ![l] = [pc |-> "send", of |-> stamped + 1]]
    /\ calm' = (calm /\ Loading = {})
    /\ UNCHANGED <<connected, dataset, command, memory, workspace>>

\* The command carries the rows and the id of the stamped dataset (here the id).
LoadPayload(l) == load[l].of

\* InvokeRuntimeCommand on the stream of the runtime, once there is one.
SendLoadCommand(l) ==
    /\ load[l].pc = "send"
    /\ connected
    /\ command' = Append(command, LoadPayload(l))
    /\ load' = [load EXCEPT ![l].pc = "wait"]
    /\ UNCHANGED <<connected, stamped, dataset, memory, workspace, calm>>

\* waitForRuntimeStream gives up after reconnectWait, or the stream it found is closed by
\* the time of the send.  The context of the call goes on: the failure will be recorded.
LoadFindsNoStream(l) ==
    /\ load[l].pc = "send"
    /\ ~connected
    /\ load' = [load EXCEPT ![l].pc = "failed"]
    /\ UNCHANGED <<connected, stamped, dataset, command, memory, workspace, calm>>

\* sendFrame returns an error, with which the call fails: the runtime may have got the
\* command all the same, and will load a dataset that is recorded as failed.
SendLoadFails(l) ==
    /\ load[l].pc = "send"
    /\ connected
    /\ command' \in {command, Append(command, LoadPayload(l))}
    /\ load' = [load EXCEPT ![l].pc = "failed"]
    /\ UNCHANGED <<connected, stamped, dataset, memory, workspace, calm>>

\* The runtime answers the command of dataset d to whoever waits for it.
Answered(d, pc) ==
    load' = [l \in Loader |-> IF load[l].pc = "wait" /\ load[l].of = d
                              THEN [load[l] EXCEPT !.pc = pc] ELSE load[l]]

\* The runtime handles its commands one after the other.  A result of a load that cannot
\* be read fails the call as well.
RuntimeLoads ==
    /\ connected
    /\ command # <<>>
    /\ memory' = Head(command)
    /\ \E pc \in {"active", "failed"} : Answered(Head(command), pc)
    /\ command' = Tail(command)
    /\ UNCHANGED <<connected, stamped, dataset, workspace, calm>>

\* A dataset the runtime cannot load leaves the former one in place.
RuntimeRefusesLoad ==
    /\ connected
    /\ command # <<>>
    /\ Answered(Head(command), "failed")
    /\ command' = Tail(command)
    /\ UNCHANGED <<connected, stamped, dataset, memory, workspace, calm>>

\* The context of the call ends.  The failure would be recorded with the same
\* context, so it is not, and a command that was sent may still be handled.
LoadTimesOut(l) ==
    /\ load[l].pc \in {"send", "wait"}
    /\ load' = [load EXCEPT ![l] = NoLoad]
    /\ calm' = (calm /\ load[l].pc = "send")
    /\ UNCHANGED <<connected, stamped, dataset, command, memory, workspace>>

\* The stream ends: the calls that wait fail, and the runtime's answers are lost.
LoadsDisconnected ==
    /\ load' = [l \in Loader |-> IF load[l].pc = "wait"
                                 THEN [load[l] EXCEPT !.pc = "failed"] ELSE load[l]]
    /\ command' = <<>>
    /\ UNCHANGED <<stamped, dataset, workspace, calm>>

\* A command that was sent on it may have been handled.
HandledUnanswered ==
    \/ UNCHANGED memory
    \/ \E n \in DOMAIN command : memory' = command[n]

\* Faulty: a load that failed leaves the active row as it was.
ReplacedOnSuccess(l) ==
    [d \in Dataset |-> IF d = load[l].of THEN load[l].pc
                       ELSE IF dataset[d] = "active" /\ load[l].pc = "active"
                            THEN "lost" ELSE dataset[d]]

\* The active row becomes lost, and the row of the new dataset is inserted.
Replaced(l) ==
    [d \in Dataset |-> IF d = load[l].of THEN load[l].pc
                       ELSE IF dataset[d] = "active" THEN "lost" ELSE dataset[d]]

ReplaceActiveDebugDataset(l) ==
    /\ load[l].pc \in {"active", "failed"}
    /\ dataset' = Replaced(l)
    /\ load' = [load EXCEPT ![l] = NoLoad]
    /\ UNCHANGED <<connected, stamped, command, memory, workspace, calm>>

\* The transaction fails: the error is returned, or ignored if the load failed.
ReplaceFails(l) ==
    /\ load[l].pc \in {"active", "failed"}
    /\ load' = [load EXCEPT ![l] = NoLoad]
    /\ calm' = FALSE
    /\ UNCHANGED <<connected, stamped, dataset, command, memory, workspace>>

-----------------------------------------------------------------------------
(* PrepareDebugWorkspace: a command whose result is saved *)

\* decodeWorkspaceState: the result may name an error of its own, and lack the time.
WorkspaceState == [prepared : BOOLEAN, error : BOOLEAN]

SaveDebugWorkspaceState ==
    /\ workspace' \in WorkspaceState
    /\ UNCHANGED <<connected, stamped, dataset, load, command, memory, calm>>

\* The command failed, or its result made no sense: only the error is written.
MarkDebugWorkspaceError ==
    /\ workspace' = [workspace EXCEPT !.error = TRUE]
    /\ UNCHANGED <<connected, stamped, dataset, load, command, memory, calm>>

\* What is refused changes nothing.
PrepareDebugWorkspace ==
    /\ RequireDebuggerRuntime
    /\ SaveDebugWorkspaceState \/ MarkDebugWorkspaceError

-----------------------------------------------------------------------------
Stored == {d \in Dataset : dataset[d] # "none"}

\* GetLatestDebugDataset: by loaded_at, whatever its state.
IsLatest(d) == d \in Stored /\ d = Max(Stored)

\* StartDebugReplay for dataset d
ReplayOf(d) == RequireDebuggerRuntime /\ IsLatest(d) /\ dataset[d] = "active"

DebugNext ==
    \/ \E l \in Loader :
         \/ LoadDebugDataset(l) \/ SendLoadCommand(l)
         \/ LoadFindsNoStream(l) \/ SendLoadFails(l) \/ LoadTimesOut(l)
         \/ ReplaceActiveDebugDataset(l) \/ ReplaceFails(l)
    \/ RuntimeLoads \/ RuntimeRefusesLoad
    \/ PrepareDebugWorkspace

LoadType == [pc : {"idle", "send", "wait", "active", "failed"}, of : Dataset \cup {None}]

DebugTypeOK ==
    /\ connected \in BOOLEAN
    /\ stamped \in 0 .. MaxLoad
    /\ dataset \in [Dataset -> {"none", "active", "lost", "failed"}]
    /\ load \in [Loader -> LoadType]
    /\ command \in Seq(Dataset)
    /\ memory \in Dataset \cup {None}
    /\ workspace \in WorkspaceState
    /\ calm \in BOOLEAN
=============================================================================
