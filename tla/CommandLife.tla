---------------------------- MODULE CommandLife ----------------------------
(***************************************************************************)
(* What the queue of runtime commands promises: a command is queued once,  *)
(* is handed to the runtime at most once, and is closed at most once, with *)
(* an outcome that never changes.                                          *)
(***************************************************************************)
CONSTANTS
    Command,   \* commands of one runtime
    Outcome    \* how a command may be closed

VARIABLES
    life,      \* per command: absent, queued, inflight, or its outcome
    handed     \* per command: how often its frame was handed to a stream

vars == <<life, handed>>

Init ==
    /\ life = [c \in Command |-> "absent"]
    /\ handed = [c \in Command |-> 0]

\* Commands are created one at a time.
Create(c) ==
    /\ life[c] = "absent"
    /\ life' = [life EXCEPT ![c] = "queued"]
    /\ UNCHANGED handed

Claim(c) ==
    /\ life[c] = "queued"
    /\ life' = [life EXCEPT ![c] = "inflight"]
    /\ UNCHANGED handed

\* The frame may still be handed over when a timeout closed the command meanwhile.
Hand(c) ==
    /\ life[c] \notin {"absent", "queued"}
    /\ handed[c] = 0
    /\ handed' = [handed EXCEPT ![c] = 1]
    /\ UNCHANGED life

\* Open commands are closed, several at once by a timeout.
Close(C, how) ==
    /\ \A c \in C : life[c] \in {"queued", "inflight"}
    /\ life' = [c \in Command |-> IF c \in C THEN how ELSE life[c]]
    /\ UNCHANGED handed

Next ==
    \/ \E c \in Command : Create(c) \/ Claim(c) \/ Hand(c)
    \/ \E C \in SUBSET Command, how \in Outcome : Close(C, how)

Spec == Init /\ [][Next]_vars
=============================================================================
