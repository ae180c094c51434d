----------------------------- MODULE StreamCalls -----------------------------
(***************************************************************************)
(* The calls to a runtime over one stream: strategy requests and runtime   *)
(* commands that wait for a reply, the handler that delivers the replies,  *)
(* the mutex and the flow control of the stream's sender, and close() with *)
(* failInFlight, which may run at any of their steps.                      *)
(*                                                                         *)
(* One process and one stream, from its registration on.  How it comes to  *)
(* be registered and who closes it is the subject of RuntimeChannel.       *)
(***************************************************************************)
EXTENDS Naturals, Sequences, FiniteSets

CONSTANTS
    Call,          \* invocations, each with a correlation id of its own
    Handler,       \* the Handle goroutine as a sender
    Capacity,      \* of a reply channel, 16 in the code
    Room,          \* bound: frames the transport takes before the peer reads
    None

ASSUME CallsAssumption ==
    /\ Capacity \in Nat \ {0}
    /\ Room \in Nat \ {0}
    /\ Handler \notin Call
    /\ None \notin Call \cup {Handler}

VARIABLES
    closer,     \* close(): open, closing (closed is closed), failing, closed
    failing,    \* the calls whose channels failInFlight has taken and not closed yet
    inFlight,   \* runtimeStream.inFlight: the calls that can be found
    shut,       \* the calls whose reply channel is closed
    buf,        \* per call: the replies in its channel
    pc,         \* per call: where it is
    expired,    \* the calls whose context is done
    asked,      \* the calls whose request has reached the transport
    sender,     \* the holder of sendMu, None
    room,       \* frames the transport still takes
    connected,  \* the peer's side of the connection
    hpc,        \* where the handler is
    reply,      \* the reply it handles
    panicked,   \* the process died of a send on a closed channel
    command     \* the calls of InvokeRuntimeCommand

streamVars == <<closer, failing, inFlight, shut>>
callVars == <<pc, expired, asked>>
sendVars == <<sender, room>>
handlerVars == <<hpc, reply>>
vars == <<streamVars, buf, callVars, sendVars, connected, handlerVars, panicked, command>>

-----------------------------------------------------------------------------
\* PROGRESS or COMMAND_ACK; RESPONSE, ERROR or COMMAND_RESULT.
Kind == {"progress", "final"}
Reply == [call : Call, kind : Kind]

closed == closer # "open"

\* The context of the stream is alive: the peer is there and Handle has not returned.
StreamAlive == connected /\ hpc # "gone"

Init ==
    /\ closer = "open" /\ failing = {} /\ inFlight = {} /\ shut = {}
    /\ buf = [c \in Call |-> <<>>]
    /\ pc = [c \in Call |-> "idle"]
    /\ expired = {} /\ asked = {}
    /\ sender = None /\ room = Room
    /\ connected = TRUE
    /\ hpc = "registered" /\ reply = None
    /\ panicked = FALSE
    /\ command \in SUBSET Call

Goto(c, step) == pc' = [pc EXCEPT ![c] = step]

\* The deferred unregisterCall comes next.
Return(c) == Goto(c, "unregister")

-----------------------------------------------------------------------------
(* InvokeStrategyUnaryByRuntimeID, InvokeRuntimeCommand *)

\* The stream is in the registry: it leaves it in the critical section that closes it.
FindStream(c) ==
    /\ pc[c] = "idle"
    /\ ~closed
    /\ Goto(c, "register")
    /\ UNCHANGED <<streamVars, buf, expired, asked, sendVars, connected, handlerVars, panicked, command>>

NoStream(c) ==
    /\ pc[c] = "idle"
    /\ closed
    /\ Goto(c, "done")
    /\ UNCHANGED <<streamVars, buf, expired, asked, sendVars, connected, handlerVars, panicked, command>>

\* RunStrategy, PreviewRunStrategy, StopStrategy, GetStrategyStatus and the debugger's
\* commands; reconnectWait is over when NoStream.
Invoke(c) == FindStream(c) \/ NoStream(c)

\* The stream may have been closed, and failInFlight be over, since it was found: then
\* nobody closes this channel, and it is sendFrame that ends the call.
RegisterCall(c) ==
    /\ pc[c] = "register"
    /\ inFlight' = inFlight \cup {c}
    /\ Goto(c, "send")
    /\ UNCHANGED <<closer, failing, shut, buf, expired, asked, sendVars, connected, handlerVars, panicked, command>>

\* sendFrame returns an error: no sender yet, or closed is closed.
SendRefused(c) ==
    /\ pc[c] \in {"send", "abort"}
    /\ hpc = "registered" \/ (sender = None /\ closed)
    /\ Return(c)
    /\ UNCHANGED <<streamVars, buf, expired, asked, sendVars, connected, handlerVars, panicked, command>>

\* Faulty: sendFrame without sendMu.
SendBeginsUnlocked(c) ==
    /\ pc[c] \in {"send", "abort"}
    /\ hpc # "registered" /\ ~closed
    /\ sender' = c
    /\ Goto(c, IF pc[c] = "send" THEN "sending" ELSE "aborting")
    /\ UNCHANGED <<streamVars, buf, expired, asked, room, connected, handlerVars, panicked, command>>

\* sendMu is taken and the stream is open.
SendBegins(c) ==
    /\ pc[c] \in {"send", "abort"}
    /\ hpc # "registered" /\ ~closed
    /\ sender = None
    /\ sender' = c
    /\ Goto(c, IF pc[c] = "send" THEN "sending" ELSE "aborting")
    /\ UNCHANGED <<streamVars, buf, expired, asked, room, connected, handlerVars, panicked, command>>

\* stream.Send returns: the transport has room for the frame.  Neither the deadline of
\* the call nor the closing of the stream ends it.
SendEnds(c) ==
    /\ pc[c] \in {"sending", "aborting"}
    /\ room > 0
    /\ room' = room - 1
    /\ sender' = None
    /\ IF pc[c] = "sending"
       THEN Goto(c, "wait") /\ asked' = asked \cup {c}
       ELSE Return(c) /\ UNCHANGED asked
    /\ UNCHANGED <<streamVars, buf, expired, connected, handlerVars, panicked, command>>

\* Or it fails, since the stream is over.
SendFails(c) ==
    /\ pc[c] \in {"sending", "aborting"}
    /\ ~StreamAlive
    /\ sender' = None
    /\ Return(c)
    /\ UNCHANGED <<streamVars, buf, expired, asked, room, connected, handlerVars, panicked, command>>

\* Faulty: the deadline of a request is left to the runtime, which gets it with the request.
CommandExpires(c) ==
    /\ pc[c] = "wait"
    /\ c \in expired \cap command
    /\ Return(c)
    /\ UNCHANGED <<streamVars, buf, expired, asked, sendVars, connected, handlerVars, panicked, command>>

\* The select of the waiting call: any case that is ready.  A timed out request is
\* aborted, except a status poll; a timed out command is not.
WaitExpires(c) ==
    /\ pc[c] = "wait"
    /\ c \in expired
    /\ \/ c \notin command /\ Goto(c, "abort")
       \/ Return(c)
    /\ UNCHANGED <<streamVars, buf, expired, asked, sendVars, connected, handlerVars, panicked, command>>

WaitSeesClosed(c) ==
    /\ pc[c] = "wait"
    /\ closed \/ (c \in shut /\ buf[c] = <<>>)
    /\ Return(c)
    /\ UNCHANGED <<streamVars, buf, expired, asked, sendVars, connected, handlerVars, panicked, command>>

TakeReply(c) ==
    /\ pc[c] = "wait"
    /\ buf[c] # <<>>
    /\ buf' = [buf EXCEPT ![c] = Tail(@)]
    /\ IF Head(buf[c]) = "final" THEN Return(c) ELSE UNCHANGED pc
    /\ UNCHANGED <<streamVars, expired, asked, sendVars, connected, handlerVars, panicked, command>>

UnregisterCall(c) ==
    /\ pc[c] = "unregister"
    /\ inFlight' = inFlight \ {c}
    /\ Goto(c, "done")
    /\ UNCHANGED <<closer, failing, shut, buf, expired, asked, sendVars, connected, handlerVars, panicked, command>>

DeadlinePasses(c) ==
    /\ pc[c] \notin {"idle", "done"}
    /\ c \notin expired
    /\ expired' = expired \cup {c}
    /\ UNCHANGED <<streamVars, buf, pc, asked, sendVars, connected, handlerVars, panicked, command>>

-----------------------------------------------------------------------------
(* close(): closeOnce; the registry lock is held meanwhile *)

\* Register, Unregister, CloseByKeyID or CloseByRuntimeID of another goroutine.
CloseStream ==
    /\ closer = "open"
    /\ closer' = "closing"
    /\ UNCHANGED <<failing, inFlight, shut, buf, callVars, sendVars, connected, handlerVars, panicked, command>>

\* Faulty: the calls are not taken out of the map.
FailInFlightKeepsMap ==
    /\ closer = "closing"
    /\ closer' = "failing"
    /\ failing' = inFlight
    /\ UNCHANGED <<inFlight, shut, buf, callVars, sendVars, connected, handlerVars, panicked, command>>

\* failInFlight empties the map under the lock.
FailInFlight ==
    /\ closer = "closing"
    /\ closer' = "failing"
    /\ failing' = inFlight
    /\ inFlight' = {}
    /\ UNCHANGED <<shut, buf, callVars, sendVars, connected, handlerVars, panicked, command>>

\* The channels are closed without it, one after the other.
CloseReplyChannel(c) ==
    /\ closer = "failing"
    /\ c \in failing
    /\ failing' = failing \ {c}
    /\ shut' = shut \cup {c}
    /\ UNCHANGED <<closer, inFlight, buf, callVars, sendVars, connected, handlerVars, panicked, command>>

CloseReturns ==
    /\ closer = "failing"
    /\ failing = {}
    /\ closer' = "closed"
    /\ UNCHANGED <<failing, inFlight, shut, buf, callVars, sendVars, connected, handlerVars, panicked, command>>

-----------------------------------------------------------------------------
(* Handle *)

handlerFrame == <<streamVars, buf, callVars, connected, panicked, command>>

SetSender ==
    /\ hpc = "registered"
    /\ hpc' = "hello"
    /\ UNCHANGED <<handlerFrame, sendVars, reply>>

Heartbeat ==
    /\ hpc = "loop"
    /\ connected
    /\ hpc' = "ack"
    /\ UNCHANGED <<handlerFrame, sendVars, reply>>

\* HELLO_ACK and HEARTBEAT_ACK go through sendFrame, too.
AckBegins ==
    /\ hpc \in {"hello", "ack"}
    /\ sender = None /\ ~closed
    /\ sender' = Handler
    /\ hpc' = IF hpc = "hello" THEN "greeting" ELSE "acking"
    /\ UNCHANGED <<handlerFrame, room, reply>>

AckEnds ==
    /\ hpc \in {"greeting", "acking"}
    /\ room > 0
    /\ room' = room - 1
    /\ sender' = None
    /\ hpc' = "loop"
    /\ UNCHANGED <<handlerFrame, reply>>

\* After a failed HELLO_ACK the handler returns without its cleanup.
AfterFailedAck == IF hpc \in {"hello", "greeting"} THEN "gone" ELSE "cleanup"

AckFails ==
    /\ \/ hpc \in {"hello", "ack"} /\ sender = None /\ closed
       \/ hpc \in {"greeting", "acking"} /\ ~connected
    /\ sender' = None
    /\ hpc' = AfterFailedAck
    /\ UNCHANGED <<handlerFrame, room, reply>>

\* The peer answers a request, with any number of frames, and may repeat itself.
ReceiveReply(f) ==
    /\ hpc = "loop"
    /\ f.call \in asked
    /\ hpc' = "deliver"
    /\ reply' = f
    /\ UNCHANGED <<handlerFrame, sendVars>>

\* deliver looks the channel up under the lock.
DeliverFinds ==
    /\ hpc = "deliver"
    /\ reply.call \in inFlight
    /\ hpc' = "push"
    /\ UNCHANGED <<handlerFrame, sendVars, reply>>

\* A reply that deliver refuses is dropped.  That of a command is taken for one of the
\* command queue: it has no row in runtime_commands, and the error ends the stream.
Undelivered ==
    /\ hpc' = IF reply.call \in command THEN "cleanup" ELSE "loop"
    /\ reply' = None

DeliverFindsNothing ==
    /\ hpc = "deliver"
    /\ reply.call \notin inFlight
    /\ Undelivered
    /\ UNCHANGED <<handlerFrame, sendVars>>

\* Without the lock: a non-blocking send on the channel found before.
Push ==
    /\ hpc = "push"
    /\ reply.call \notin shut
    /\ Len(buf[reply.call]) < Capacity
    /\ buf' = [buf EXCEPT ![reply.call] = Append(@, reply.kind)]
    /\ hpc' = "loop"
    /\ reply' = None
    /\ UNCHANGED <<streamVars, callVars, sendVars, connected, panicked, command>>

PushDrops ==
    /\ hpc = "push"
    /\ reply.call \notin shut
    /\ Len(buf[reply.call]) >= Capacity
    /\ Undelivered
    /\ UNCHANGED <<handlerFrame, sendVars>>

\* A send on a closed channel panics, also in a select with a default.  Nothing recovers:
\* the process dies, with every goroutine.
PushPanics ==
    /\ hpc = "push"
    /\ reply.call \in shut
    /\ panicked' = TRUE
    /\ hpc' = "gone" /\ reply' = None
    /\ pc' = [c \in Call |-> "done"]
    /\ closer' = "closed" /\ failing' = {} /\ inFlight' = {}
    /\ sender' = None
    /\ UNCHANGED <<shut, buf, expired, asked, room, connected, command>>

\* Faulty: the select has no case for the closed channel.
LoopDisconnected ==
    /\ hpc = "loop"
    /\ ~connected
    /\ hpc' = "cleanup"
    /\ UNCHANGED <<handlerFrame, sendVars, reply>>

LoopClosed ==
    /\ hpc = "loop"
    /\ closed \/ ~connected
    /\ hpc' = "cleanup"
    /\ UNCHANGED <<handlerFrame, sendVars, reply>>

\* An invalid frame, a failed statement, the idle timeout.
LoopFails ==
    /\ hpc = "loop"
    /\ hpc' = "cleanup"
    /\ UNCHANGED <<handlerFrame, sendVars, reply>>

\* The deferred Unregister closes the stream unless it is closed already.
UnregisterStream ==
    /\ hpc = "cleanup"
    /\ CloseStream

HandleReturns ==
    /\ hpc = "cleanup"
    /\ closer = "closed"
    /\ hpc' = "gone"
    /\ UNCHANGED <<handlerFrame, sendVars, reply>>

-----------------------------------------------------------------------------
(* The peer *)

PeerReads ==
    /\ room < Room
    /\ room' = room + 1
    /\ UNCHANGED <<handlerFrame, sender, handlerVars>>

PeerDisconnects ==
    /\ connected
    /\ connected' = FALSE
    /\ UNCHANGED <<streamVars, buf, callVars, sendVars, handlerVars, panicked, command>>

-----------------------------------------------------------------------------
CallSteps(c) ==
    \/ RegisterCall(c)
    \/ SendRefused(c) \/ SendBegins(c) \/ SendEnds(c) \/ SendFails(c)
    \/ WaitExpires(c) \/ WaitSeesClosed(c) \/ TakeReply(c)
    \/ UnregisterCall(c)

CloseSteps == FailInFlight \/ CloseReturns \/ \E c \in Call : CloseReplyChannel(c)

HandlerSteps ==
    \/ SetSender \/ AckBegins \/ AckEnds \/ AckFails
    \/ DeliverFinds \/ DeliverFindsNothing \/ Push \/ PushDrops \/ PushPanics
    \/ LoopClosed \/ UnregisterStream \/ HandleReturns

\* Every goroutine is over.
Over ==
    /\ hpc = "gone" /\ \A c \in Call : pc[c] = "done"
    /\ UNCHANGED vars

Next ==
    \/ \E c \in Call : Invoke(c) \/ CallSteps(c) \/ DeadlinePasses(c)
    \/ CloseStream \/ CloseSteps
    \/ HandlerSteps \/ Heartbeat \/ LoopFails
    \/ \E f \in Reply : ReceiveReply(f)
    \/ PeerReads \/ PeerDisconnects
    \/ Over

Spec == Init /\ [][Next]_vars

\* Goroutines go on: sendMu is granted in the end (Go's mutexes do not starve), and a
\* select takes each of its ready cases in the end.
FairSpec ==
    /\ Spec
    /\ \A c \in Call :
          /\ WF_vars(CallSteps(c))
          /\ SF_vars(SendBegins(c))
          /\ WF_vars(WaitSeesClosed(c) \/ WaitExpires(c))
    /\ WF_vars(CloseSteps)
    /\ WF_vars(HandlerSteps)
    /\ SF_vars(AckBegins)
    /\ SF_vars(LoopClosed)

\* The peer reads what it is sent.
ReadingSpec == FairSpec /\ WF_vars(PeerReads)

-----------------------------------------------------------------------------
(* Properties *)

CallPC == {"idle", "register", "send", "sending", "wait", "abort", "aborting", "unregister", "done"}
HandlerPC == {"registered", "hello", "greeting", "ack", "acking", "loop", "deliver", "push", "cleanup", "gone"}

TypeOK ==
    /\ closer \in {"open", "closing", "failing", "closed"}
    /\ failing \subseteq Call /\ inFlight \subseteq Call /\ shut \subseteq Call
    /\ buf \in [Call -> Seq(Kind)]
    /\ \A c \in Call : Len(buf[c]) <= Capacity
    /\ pc \in [Call -> CallPC]
    /\ expired \subseteq Call /\ asked \subseteq Call
    /\ sender \in Call \cup {Handler, None}
    /\ room \in 0 .. Room
    /\ connected \in BOOLEAN /\ panicked \in BOOLEAN
    /\ command \in SUBSET Call
    /\ hpc \in HandlerPC
    /\ hpc \in {"deliver", "push"} => reply \in Reply

\* Whoever is in stream.Send holds sendMu, so that no two goroutines are in it at once
\* (gRPC forbids it).
SendsExclude ==
    /\ \A c \in Call : pc[c] \in {"sending", "aborting"} => sender = c
    /\ sender = Handler <=> hpc \in {"greeting", "acking"}

\* A channel that failInFlight closed or is about to close is found by nobody any more,
\* and a call that is over has left the map, though it registered after failInFlight: no
\* channel is closed twice, and the map holds no call that is not waiting.
MapHoldsLiveCalls ==
    /\ inFlight \cap (failing \cup shut) = {}
    /\ \A c \in inFlight : pc[c] \notin {"idle", "register", "done"}

\* A call returns once its stream is closed, its deadline has passed, or its answer is in
\* its channel, if the peer reads what it is sent.
CallReturns ==
    \A c \in Call :
       (pc[c] \notin {"idle", "done"} /\ (closed \/ c \in expired \/ "final" \in {buf[c][n] : n \in 1 .. Len(buf[c])}))
          ~> pc[c] = "done"

\* The handler of a closed stream returns, if the peer reads what it is sent.
HandlerReturns == closed ~> hpc = "gone"

=============================================================================
