------------------------- MODULE CommandQueueProofs -------------------------
(***************************************************************************)
(* Theorems about CommandQueue: its types, that a command is claimed once, *)
(* that an idempotency key names one command, which frames end a stream,   *)
(* how far overlapping calls exceed the in-flight limit, and that the      *)
(* queue implements CommandLife.                                           *)
(***************************************************************************)
EXTENDS CommandQueue, FiniteSetTheorems, TLAPS

\* A queued command has not been handed over, and only commands that were are answered.
QueueInv ==
    /\ ClaimedOnce
    /\ KeyNamesOneCommand
    /\ \A c \in Command : handed[c] > 0 => status[c] \notin {"absent", "queued"}
    /\ \A i \in Instance : \A n \in 1 .. Len(frames[i]) : handed[frames[i][n].cmd] > 0

-----------------------------------------------------------------------------
(* Types *)

\* The empty queue is well typed.
LEMMA InitType == Init => TypeOK
  BY DEF Init, TypeOK, Status, NoCall, CallType

\* The steps of a dispatcher keep the types.
LEMMA DispatchType ==
    ASSUME TypeOK, NEW d \in Dispatcher, Dispatch(d)
    PROVE  TypeOK'
  <1>1. call[d] \in CallType
    BY DEF TypeOK
  <1>2. ASSUME NEW v \in CallType, call' = [call EXCEPT ![d] = v],
               v.pc \in {"send", "fail"} => v.cmd \in Command
        PROVE  /\ call' \in [Dispatcher -> CallType]
               /\ \A e \in Dispatcher : call'[e].pc \in {"send", "fail"} => call'[e].cmd \in Command
    BY <1>2 DEF TypeOK
  <1>3. NoCall \in CallType /\ NoCall.pc \notin {"send", "fail"}
    BY DEF NoCall, CallType
  <1>4. ASSUME NEW i \in Instance, ClaimNextRuntimeCommand(d, i)
        PROVE  TypeOK'
    <2> DEFINE v == [pc |-> "count", at |-> i, cmd |-> None]
    <2>1. v \in CallType /\ v.pc \notin {"send", "fail"}
      BY DEF CallType
    <2>2. call' = [call EXCEPT ![d] = v]
      BY <1>4 DEF ClaimNextRuntimeCommand
    <2> HIDE DEF v
    <2> QED
      BY <1>2, <1>4, <2>1, <2>2 DEF ClaimNextRuntimeCommand, TypeOK, rowVars, streamVars
  <1>5. CASE CountInFlight(d)
    <2> DEFINE v == IF Cardinality(InFlightCommands) < Limit
                    THEN [call[d] EXCEPT !.pc = "claim"] ELSE NoCall
    <2>1. v \in CallType /\ v.pc \notin {"send", "fail"}
      BY <1>1, <1>3 DEF CallType
    <2>2. call' = [call EXCEPT ![d] = v]
      BY <1>5 DEF CountInFlight, TypeOK
    <2> HIDE DEF v
    <2> QED
      BY <1>2, <1>5, <2>1, <2>2 DEF CountInFlight, TypeOK, rowVars, streamVars
  <1>6. CASE ClaimOldest(d)
    <2>1. CASE UNCHANGED status /\ call' = [call EXCEPT ![d] = NoCall]
      BY <1>2, <1>3, <1>6, <2>1 DEF ClaimOldest, TypeOK, streamVars
    <2>2. ASSUME NEW c \in Command, status' = [status EXCEPT ![c] = "sent"],
                 call' = [call EXCEPT ![d] = [@ EXCEPT !.pc = "send", !.cmd = c]]
          PROVE  TypeOK'
      <3> DEFINE v == [call[d] EXCEPT !.pc = "send", !.cmd = c]
      <3>1. v \in CallType /\ v.cmd \in Command
        BY <1>1 DEF CallType
      <3>2. call' = [call EXCEPT ![d] = v]
        BY <2>2 DEF TypeOK
      <3>3. status' \in [Command -> Status]
        BY <2>2 DEF TypeOK, Status, InFlight
      <3> HIDE DEF v
      <3> QED
        BY <1>2, <1>6, <3>1, <3>2, <3>3 DEF ClaimOldest, TypeOK, streamVars
    <2> QED
      BY <1>6, <2>1, <2>2 DEF ClaimOldest
  <1>7. CASE SendCommand(d)
    <2>1. handed' \in [Command -> Nat]
      BY <1>7 DEF SendCommand, TypeOK
    <2> QED
      BY <1>2, <1>3, <1>7, <2>1 DEF SendCommand, TypeOK, rowVars, streamVars
  <1>8. CASE SendCommandFails(d)
    <2> DEFINE v == [call[d] EXCEPT !.pc = "fail"]
    <2>1. v \in CallType /\ v.cmd \in Command
      BY <1>1, <1>8 DEF CallType, SendCommandFails, TypeOK
    <2>2. call' = [call EXCEPT ![d] = v]
      BY <1>8 DEF SendCommandFails, TypeOK
    <2> HIDE DEF v
    <2> QED
      BY <1>2, <1>8, <2>1, <2>2 DEF SendCommandFails, TypeOK, rowVars, streamVars
  <1>9. CASE FailCommand(d)
    <2>1. status' \in [Command -> Status]
      BY <1>9 DEF FailCommand, TypeOK, Status, Terminal
    <2> QED
      BY <1>2, <1>3, <1>9, <2>1 DEF FailCommand, TypeOK, streamVars
  <1>10. CASE DispatchAborts(d)
    BY <1>2, <1>3, <1>10 DEF DispatchAborts, TypeOK, rowVars, streamVars
  <1> QED
    BY <1>4, <1>5, <1>6, <1>7, <1>8, <1>9, <1>10 DEF Dispatch

\* The steps of a stream keep the types.
LEMMA StreamType ==
    ASSUME TypeOK, NEW i \in Instance, Stream(i)
    PROVE  TypeOK'
  <1>1. frames[i] \in Seq(Frame)
    BY DEF TypeOK
  <1>2. CloseStream(i) => connected' \subseteq Instance /\ frames' \in [Instance -> Seq(Frame)]
    BY DEF CloseStream, TypeOK
  <1>3. ASSUME NEW f \in Frame, RuntimeAnswers(i, f)
        PROVE  TypeOK'
    <2>1. frames' \in [Instance -> Seq(Frame)]
      BY <1>1, <1>3 DEF RuntimeAnswers, TypeOK
    <2> QED
      BY <1>3, <2>1 DEF RuntimeAnswers, TypeOK, rowVars
  <1>4. CASE HandleRuntimeCommandFrame(i)
    <2>1. Head(frames[i]) \in Frame /\ Tail(frames[i]) \in Seq(Frame)
      BY <1>1, <1>4 DEF HandleRuntimeCommandFrame
    <2>2. Verdict \subseteq Status
      BY DEF Verdict, Status, InFlight
    <2>3. CASE Applies(Head(frames[i]))
      <3>1. status' \in [Command -> Status] /\ frames' \in [Instance -> Seq(Frame)]
        BY <1>4, <2>1, <2>2, <2>3 DEF HandleRuntimeCommandFrame, TypeOK, Frame
      <3> QED
        BY <1>4, <2>3, <3>1 DEF HandleRuntimeCommandFrame, TypeOK
    <2>4. CASE ~Applies(Head(frames[i]))
      BY <1>2, <1>4, <2>4 DEF HandleRuntimeCommandFrame, TypeOK
    <2> QED
      BY <2>3, <2>4
  <1>5. CASE StreamOpens(i)
    BY <1>5 DEF StreamOpens, TypeOK, rowVars
  <1>6. CASE StreamCloses(i)
    BY <1>2, <1>6 DEF StreamCloses, TypeOK, rowVars
  <1> QED
    BY <1>3, <1>4, <1>5, <1>6 DEF Stream

\* Every step keeps the types.
LEMMA NextType == TypeOK /\ [Next]_vars => TypeOK'
  <1> SUFFICES ASSUME TypeOK, [Next]_vars PROVE TypeOK'
    OBVIOUS
  <1>1. ASSUME NEW c \in Command, NEW k \in Key \cup {None}, CreateRuntimeCommand(c, k)
        PROVE  TypeOK'
    BY <1>1 DEF CreateRuntimeCommand, TypeOK, Status, streamVars
  <1>2. ASSUME NEW late \in SUBSET Command, TimeoutRuntimeCommands(late)
        PROVE  TypeOK'
    <2>1. status' \in [Command -> Status]
      BY <1>2 DEF TimeoutRuntimeCommands, TypeOK, Status, Terminal
    <2> QED
      BY <1>2, <2>1 DEF TimeoutRuntimeCommands, TypeOK, streamVars
  <1>3. CASE OwnerChanges
    BY <1>3 DEF OwnerChanges, TypeOK, rowVars
  <1>4. CASE UNCHANGED vars
    BY <1>4 DEF vars, rowVars, streamVars, TypeOK
  <1> QED
    BY <1>1, <1>2, <1>3, <1>4, DispatchType, StreamType DEF Next

\* The queue is well typed, for every set of commands, keys, processes and calls.
THEOREM QueueTypes == Spec => []TypeOK
  BY InitType, NextType, PTL DEF Spec

-----------------------------------------------------------------------------
(* Claims, keys and frames *)

\* At the start nothing is created.
LEMMA InitInv == Init => QueueInv
  BY DEF Init, QueueInv, ClaimedOnce, KeyNamesOneCommand, Holds, NoCall

\* The steps of a dispatcher: only a queued command is claimed, and no one holds it.
LEMMA DispatchInv ==
    ASSUME TypeOK, QueueInv, NEW d \in Dispatcher, Dispatch(d)
    PROVE  QueueInv'
  <1>0. /\ \A c \in Command : handed[c] \in Nat
        /\ \A e \in Dispatcher : call[e] \in CallType
        /\ \A i \in Instance : frames[i] \in Seq(Frame)
    BY DEF TypeOK
  <1>1. UNCHANGED <<key, frames>>
    BY DEF Dispatch, ClaimNextRuntimeCommand, CountInFlight, ClaimOldest, SendCommand,
           SendCommandFails, FailCommand, DispatchAborts, rowVars, streamVars
  <1>2. ASSUME \A e \in Dispatcher, c \in Command : Holds(e, c)' => Holds(e, c),
               UNCHANGED handed,
               \A c \in Command : status'[c] = status[c] \/ status'[c] \in Terminal
        PROVE  QueueInv'
    BY <1>1, <1>2 DEF QueueInv, ClaimedOnce, KeyNamesOneCommand, Terminal
  <1>3. ASSUME NEW v, call' = [call EXCEPT ![d] = v], v.pc \notin {"send", "fail"}
        PROVE  \A e \in Dispatcher, c \in Command : Holds(e, c)' => Holds(e, c) /\ e # d
    BY <1>3 DEF Holds, TypeOK
  <1>4. NoCall.pc \notin {"send", "fail"}
    BY DEF NoCall
  <1>5. ASSUME NEW i \in Instance, ClaimNextRuntimeCommand(d, i)
        PROVE  QueueInv'
    BY <1>2, <1>3, <1>5 DEF ClaimNextRuntimeCommand, rowVars
  <1>6. CASE CountInFlight(d)
    <2> DEFINE v == IF Cardinality(InFlightCommands) < Limit
                    THEN [call[d] EXCEPT !.pc = "claim"] ELSE NoCall
    <2>1. v.pc \notin {"send", "fail"}
      BY <1>0, <1>4 DEF CallType
    <2>2. call' = [call EXCEPT ![d] = v]
      BY <1>6 DEF CountInFlight, TypeOK
    <2> HIDE DEF v
    <2> QED
      BY <1>2, <1>3, <1>6, <2>1, <2>2 DEF CountInFlight, rowVars
  <1>7. CASE ClaimOldest(d)
    <2>1. CASE UNCHANGED status /\ call' = [call EXCEPT ![d] = NoCall]
      BY <1>2, <1>3, <1>4, <1>7, <2>1 DEF ClaimOldest
    <2>2. ASSUME NEW c \in Command, Claimable(c), status' = [status EXCEPT ![c] = "sent"],
                 call' = [call EXCEPT ![d] = [@ EXCEPT !.pc = "send", !.cmd = c]]
          PROVE  QueueInv'
      <3>1. status[c] = "queued" /\ handed[c] = 0 /\ \A e \in Dispatcher : ~Holds(e, c)
        BY <1>0, <2>2 DEF Claimable, QueueInv, ClaimedOnce
      <3>2. \A e \in Dispatcher, b \in Command :
              Holds(e, b)' => (e # d /\ Holds(e, b)) \/ (e = d /\ b = c)
        BY <1>0, <2>2 DEF Holds, TypeOK, CallType
      <3>3. UNCHANGED handed
        BY <1>7 DEF ClaimOldest
      <3>4. /\ status'[c] = "sent"
            /\ \A b \in Command : b # c => status'[b] = status[b]
        BY <2>2 DEF TypeOK
      <3> QED
        BY <1>1, <3>1, <3>2, <3>3, <3>4 DEF QueueInv, ClaimedOnce, KeyNamesOneCommand
    <2> QED
      BY <1>7, <2>1, <2>2 DEF ClaimOldest
  <1>8. CASE SendCommand(d)
    <2> DEFINE c == call[d].cmd
    <2>1. c \in Command /\ Holds(d, c)
      BY <1>8 DEF SendCommand, TypeOK, Holds
    <2>2. handed'[c] = handed[c] + 1 /\ \A b \in Command : b # c => handed'[b] = handed[b]
      BY <1>8, <2>1 DEF SendCommand, TypeOK
    <2>3. \A e \in Dispatcher, b \in Command : Holds(e, b)' => Holds(e, b) /\ e # d
      BY <1>3, <1>4, <1>8 DEF SendCommand
    <2>4. UNCHANGED status
      BY <1>8 DEF SendCommand, rowVars
    <2>5. \A b \in Command : handed[b] > 0 => handed'[b] > 0
      BY <1>0, <2>2
    <2>6. \A i \in Instance : \A n \in 1 .. Len(frames[i]) : frames[i][n].cmd \in Command
      <3> SUFFICES ASSUME NEW i \in Instance, NEW n \in 1 .. Len(frames[i])
                   PROVE  frames[i][n].cmd \in Command
        OBVIOUS
      <3>1. frames[i][n] \in Frame
        BY <1>0
      <3> QED
        BY <3>1 DEF Frame
    <2>7. ClaimedOnce' /\ KeyNamesOneCommand'
      BY <1>1, <2>1, <2>2, <2>3, <2>4 DEF QueueInv, ClaimedOnce, KeyNamesOneCommand
    <2>8. \A b \in Command : handed'[b] > 0 => status'[b] \notin {"absent", "queued"}
      BY <2>1, <2>2, <2>4 DEF QueueInv, ClaimedOnce
    <2>9. \A i \in Instance : \A n \in 1 .. Len(frames'[i]) : handed'[frames'[i][n].cmd] > 0
      BY <1>1, <2>5, <2>6 DEF QueueInv
    <2> QED
      BY <2>7, <2>8, <2>9 DEF QueueInv
  <1>9. CASE SendCommandFails(d)
    <2>1. \A e \in Dispatcher, c \in Command : Holds(e, c)' => Holds(e, c)
      BY <1>0, <1>9 DEF SendCommandFails, Holds, TypeOK, CallType
    <2> QED
      BY <1>2, <1>9, <2>1 DEF SendCommandFails, rowVars
  <1>10. CASE FailCommand(d)
    <2>1. \A c \in Command : status'[c] = status[c] \/ status'[c] \in Terminal
      BY <1>10 DEF FailCommand, TypeOK, Terminal
    <2> QED
      BY <1>2, <1>3, <1>4, <1>10, <2>1 DEF FailCommand
  <1>11. CASE DispatchAborts(d)
    BY <1>2, <1>3, <1>4, <1>11 DEF DispatchAborts, rowVars
  <1> QED
    BY <1>5, <1>6, <1>7, <1>8, <1>9, <1>10, <1>11 DEF Dispatch

\* The steps of a stream: a frame changes only a command that was handed over.
LEMMA StreamInv ==
    ASSUME TypeOK, QueueInv, NEW i \in Instance, Stream(i)
    PROVE  QueueInv'
  <1>0. \A j \in Instance : frames[j] \in Seq(Frame)
    BY DEF TypeOK
  <1>1. UNCHANGED <<key, call, handed>>
    BY DEF Stream, RuntimeAnswers, HandleRuntimeCommandFrame, StreamOpens, StreamCloses, rowVars
  <1> DEFINE FramesHanded ==
        \A j \in Instance : \A n \in 1 .. Len(frames'[j]) : handed[frames'[j][n].cmd] > 0
  <1>2. ASSUME FramesHanded,
               \A c \in Command : \/ status'[c] = status[c]
                                  \/ status'[c] \notin {"absent", "queued"}
        PROVE  QueueInv'
    BY <1>1, <1>2 DEF QueueInv, ClaimedOnce, KeyNamesOneCommand, Holds
  <1>3. CloseStream(i) => FramesHanded
    BY DEF CloseStream, QueueInv, TypeOK
  <1>4. ASSUME NEW f \in Frame, RuntimeAnswers(i, f)
        PROVE  QueueInv'
    <2>1. FramesHanded
      <3> SUFFICES ASSUME NEW j \in Instance, NEW n \in 1 .. Len(frames'[j])
                   PROVE  handed[frames'[j][n].cmd] > 0
        OBVIOUS
      <3>1. CASE j # i
        BY <1>4, <3>1 DEF RuntimeAnswers, TypeOK, QueueInv
      <3>2. CASE j = i
        <4>1. frames'[i] = Append(frames[i], f)
          BY <1>4 DEF RuntimeAnswers, TypeOK
        <4>2. CASE n = Len(frames[i]) + 1
          BY <1>0, <1>4, <3>2, <4>1, <4>2 DEF RuntimeAnswers
        <4>3. CASE n \in 1 .. Len(frames[i])
          BY <1>0, <3>2, <4>1, <4>3 DEF QueueInv
        <4> QED
          BY <1>0, <3>2, <4>1, <4>2, <4>3
      <3> QED
        BY <3>1, <3>2
    <2> QED
      BY <1>2, <1>4, <2>1 DEF RuntimeAnswers, rowVars
  <1>5. CASE HandleRuntimeCommandFrame(i)
    <2> DEFINE f == Head(frames[i])
    <2>1. f = frames[i][1] /\ f \in Frame /\ 1 \in 1 .. Len(frames[i])
      BY <1>0, <1>5 DEF HandleRuntimeCommandFrame
    <2>2. CASE Applies(f)
      <3>1. frames' = [frames EXCEPT ![i] = Tail(@)] /\ status' = [status EXCEPT ![f.cmd] = f.says]
        BY <1>5, <2>2 DEF HandleRuntimeCommandFrame
      <3>2. FramesHanded
        <4> SUFFICES ASSUME NEW j \in Instance, NEW n \in 1 .. Len(frames'[j])
                     PROVE  handed[frames'[j][n].cmd] > 0
          OBVIOUS
        <4>1. CASE j # i
          BY <3>1, <4>1 DEF TypeOK, QueueInv
        <4>2. CASE j = i
          <5>1. frames'[i] = Tail(frames[i]) /\ frames[i] # <<>>
            BY <1>5, <3>1 DEF TypeOK, HandleRuntimeCommandFrame
          <5>2. frames'[i][n] = frames[i][n + 1] /\ n + 1 \in 1 .. Len(frames[i])
            BY <1>0, <4>2, <5>1
          <5> QED
            BY <4>2, <5>2 DEF QueueInv
        <4> QED
          BY <4>1, <4>2
      <3>3. \A c \in Command : status'[c] = status[c] \/ status'[c] \notin {"absent", "queued"}
        BY <2>1, <3>1 DEF Frame, Verdict, Terminal, TypeOK
      <3> QED
        BY <1>2, <3>2, <3>3
    <2>3. CASE ~Applies(f)
      BY <1>2, <1>3, <1>5, <2>3 DEF HandleRuntimeCommandFrame
    <2> QED
      BY <2>2, <2>3
  <1>6. CASE StreamOpens(i)
    BY <1>2, <1>6 DEF StreamOpens, rowVars, QueueInv
  <1>7. CASE StreamCloses(i)
    BY <1>2, <1>3, <1>7 DEF StreamCloses, rowVars
  <1> QED
    BY <1>4, <1>5, <1>6, <1>7 DEF Stream

\* Every step keeps the invariant.
LEMMA NextInv == TypeOK /\ QueueInv /\ [Next]_vars => QueueInv'
  <1> SUFFICES ASSUME TypeOK, QueueInv, [Next]_vars PROVE QueueInv'
    OBVIOUS
  <1>1. ASSUME NEW c \in Command, NEW k \in Key \cup {None}, CreateRuntimeCommand(c, k)
        PROVE  QueueInv'
    <2>1. /\ status'[c] = "queued" /\ status[c] = "absent" /\ key'[c] = k
          /\ \A b \in Command : b # c => status'[b] = status[b] /\ key'[b] = key[b]
          /\ UNCHANGED <<call, handed, frames>>
      BY <1>1 DEF CreateRuntimeCommand, TypeOK, streamVars
    <2>2. KeyNamesOneCommand'
      BY <1>1, <2>1 DEF CreateRuntimeCommand, KeyUnused, QueueInv, KeyNamesOneCommand
    <2>3. ClaimedOnce'
      BY <2>1 DEF QueueInv, ClaimedOnce, Holds
    <2> QED
      BY <2>1, <2>2, <2>3 DEF QueueInv
  <1>2. ASSUME NEW late \in SUBSET Command, TimeoutRuntimeCommands(late)
        PROVE  QueueInv'
    <2>1. /\ \A c \in Command : status'[c] = status[c] \/ status'[c] = "timed_out"
          /\ UNCHANGED <<key, call, handed, frames>>
      BY <1>2 DEF TimeoutRuntimeCommands, streamVars
    <2> QED
      BY <2>1 DEF QueueInv, ClaimedOnce, KeyNamesOneCommand, Holds
  <1>3. CASE OwnerChanges
    BY <1>3 DEF OwnerChanges, QueueInv, ClaimedOnce, KeyNamesOneCommand, Holds, rowVars
  <1>4. CASE UNCHANGED vars
    BY <1>4 DEF vars, rowVars, streamVars, QueueInv, ClaimedOnce, KeyNamesOneCommand, Holds
  <1> QED
    BY <1>1, <1>2, <1>3, <1>4, DispatchInv, StreamInv DEF Next

\* A command is in one dispatcher's hands at a time and is not sent twice.
THEOREM CommandClaimedOnce == Spec => []ClaimedOnce
  <1>1. QueueInv => ClaimedOnce
    BY DEF QueueInv
  <1> QED
    BY <1>1, InitType, NextType, InitInv, NextInv, PTL DEF Spec

\* An idempotency key names one command for ever.
THEOREM KeyIsUnique == Spec => []KeyNamesOneCommand
  <1>1. QueueInv => KeyNamesOneCommand
    BY DEF QueueInv
  <1> QED
    BY <1>1, InitType, NextType, InitInv, NextInv, PTL DEF Spec

\* A command frame ends its stream only when it is out of date.
THEOREM LateFramesOnly == Spec => OnlyLateFramesCloseStream
  <1>1. ASSUME TypeOK, QueueInv, NEW i \in Instance, HandleRuntimeCommandFrame(i),
               i \in connected, i \notin connected'
        PROVE  LET f == Head(frames[i])
               IN  status[f.cmd] \in Terminal \/ (f.says = "acked" /\ status[f.cmd] = "running")
    <2> DEFINE f == Head(frames[i])
    <2>1. f = frames[i][1] /\ f \in Frame /\ 1 \in 1 .. Len(frames[i])
      BY <1>1 DEF HandleRuntimeCommandFrame, TypeOK
    <2>2. ~Applies(f)
      BY <1>1 DEF HandleRuntimeCommandFrame
    <2>3. status[f.cmd] \in Status \ {"absent", "queued"}
      <3>1. f.cmd \in Command
        BY <2>1 DEF Frame
      <3>2. handed[f.cmd] > 0
        BY <1>1, <2>1 DEF QueueInv
      <3> QED
        BY <1>1, <3>1, <3>2 DEF QueueInv, TypeOK
    <2>4. f.says \in Verdict
      BY <2>1 DEF Frame
    <2> QED
      BY <2>2, <2>3, <2>4 DEF Applies, Completes, Open, Status, InFlight, Verdict, Terminal
  <1>2. TypeOK /\ QueueInv => \A i \in Instance :
          HandleRuntimeCommandFrame(i) /\ i \in connected /\ i \notin connected' =>
             LET f == Head(frames[i])
             IN  status[f.cmd] \in Terminal \/ (f.says = "acked" /\ status[f.cmd] = "running")
    BY <1>1
  <1> QED
    BY <1>2, InitType, NextType, InitInv, NextInv, PTL DEF Spec, OnlyLateFramesCloseStream

-----------------------------------------------------------------------------
(* The in-flight limit *)

\* The calls that have counted and not yet claimed.
Claiming == {d \in Dispatcher : call[d].pc = "claim"}

\* Every call that has counted may still add a command.
LimitInv ==
    Cardinality(InFlightCommands) + Cardinality(Claiming)
       <= Limit + Cardinality(Dispatcher) - 1

\* Both counts are natural numbers, and the calls that claim are among the dispatchers.
LEMMA Counts ==
    /\ IsFiniteSet(InFlightCommands) /\ Cardinality(InFlightCommands) \in Nat
    /\ IsFiniteSet(Claiming) /\ Cardinality(Claiming) \in Nat
    /\ Cardinality(Claiming) <= Cardinality(Dispatcher)
    /\ Cardinality(Dispatcher) \in Nat
  <1>1. InFlightCommands \subseteq Command /\ Claiming \subseteq Dispatcher
    BY DEF InFlightCommands, Claiming
  <1> QED
    BY <1>1, QueueAssumption, FS_Subset, FS_CardinalityType

\* The same in the next state.
LEMMA CountsNext ==
    /\ IsFiniteSet(InFlightCommands') /\ Cardinality(InFlightCommands') \in Nat
    /\ IsFiniteSet(Claiming') /\ Cardinality(Claiming') \in Nat
    /\ Cardinality(Claiming') <= Cardinality(Dispatcher)
  <1>1. InFlightCommands' \subseteq Command /\ Claiming' \subseteq Dispatcher
    BY DEF InFlightCommands, Claiming
  <1> QED
    BY <1>1, QueueAssumption, FS_Subset, FS_CardinalityType

\* A step that adds neither a command in flight nor a claiming call.
LEMMA NothingAdded ==
    ASSUME LimitInv, InFlightCommands' \subseteq InFlightCommands, Claiming' \subseteq Claiming
    PROVE  LimitInv'
  <1>1. /\ Cardinality(InFlightCommands') <= Cardinality(InFlightCommands)
        /\ Cardinality(Claiming') <= Cardinality(Claiming)
    BY Counts, FS_Subset
  <1> QED
    BY <1>1, Counts, CountsNext, QueueAssumption DEF LimitInv

\* A call that goes on after its count saw a free slot, whatever the others do.
LEMMA CountLimit ==
    ASSUME TypeOK, LimitInv, NEW d \in Dispatcher, CountInFlight(d)
    PROVE  LimitInv'
  <1>1. InFlightCommands' = InFlightCommands
    BY DEF CountInFlight, InFlightCommands, rowVars
  <1>2. CASE Cardinality(InFlightCommands) < Limit
    BY <1>1, <1>2, Counts, CountsNext, QueueAssumption DEF LimitInv
  <1>3. CASE ~(Cardinality(InFlightCommands) < Limit)
    <2>1. call' = [call EXCEPT ![d] = NoCall]
      BY <1>3 DEF CountInFlight
    <2>2. Claiming' \subseteq Claiming
      BY <2>1 DEF Claiming, TypeOK, NoCall
    <2> QED
      BY <1>1, <2>2, NothingAdded
  <1> QED
    BY <1>2, <1>3

\* A claim moves one from the claiming calls to the commands in flight.
LEMMA ClaimLimit ==
    ASSUME TypeOK, LimitInv, NEW d \in Dispatcher, ClaimOldest(d)
    PROVE  LimitInv'
  <1>1. call[d].pc = "claim" /\ d \in Claiming
    BY DEF ClaimOldest, Claiming
  <1>2. ASSUME NEW c \in Command, Claimable(c), status' = [status EXCEPT ![c] = "sent"],
               call' = [call EXCEPT ![d] = [@ EXCEPT !.pc = "send", !.cmd = c]]
        PROVE  LimitInv'
    <2>1. InFlightCommands' = InFlightCommands \cup {c} /\ c \notin InFlightCommands
      BY <1>2 DEF InFlightCommands, InFlight, Claimable, TypeOK
    <2>2. call'[d].pc = "send" /\ \A e \in Dispatcher : e # d => call'[e] = call[e]
      BY <1>2 DEF TypeOK, CallType
    <2>3. Claiming' = Claiming \ {d}
      BY <2>2 DEF Claiming
    <2>4. /\ Cardinality(InFlightCommands') = Cardinality(InFlightCommands) + 1
          /\ Cardinality(Claiming') = Cardinality(Claiming) - 1
      BY <1>1, <2>1, <2>3, Counts, FS_AddElement, FS_RemoveElement
    <2> QED
      BY <2>4, Counts, CountsNext, QueueAssumption DEF LimitInv
  <1>3. CASE UNCHANGED status /\ call' = [call EXCEPT ![d] = NoCall]
    <2>1. InFlightCommands' = InFlightCommands
      BY <1>3 DEF InFlightCommands
    <2>2. Claiming' \subseteq Claiming
      BY <1>3 DEF Claiming, TypeOK, NoCall
    <2> QED
      BY <2>1, <2>2, NothingAdded
  <1> QED
    BY <1>2, <1>3 DEF ClaimOldest

\* Every other step adds to neither count.
LEMMA NextLimit == TypeOK /\ LimitInv /\ [Next]_vars => LimitInv'
  <1> SUFFICES ASSUME TypeOK, LimitInv, [Next]_vars PROVE LimitInv'
    OBVIOUS
  <1>1. ASSUME UNCHANGED call, \A c \in Command : status'[c] \in InFlight => status[c] \in InFlight
        PROVE  LimitInv'
    BY <1>1, NothingAdded DEF InFlightCommands, Claiming
  <1>2. ASSUME NEW d \in Dispatcher, Dispatch(d)
        PROVE  LimitInv'
    <2>1. ASSUME NEW v, call' = [call EXCEPT ![d] = v], v.pc # "claim",
                 \A c \in Command : status'[c] \in InFlight => status[c] \in InFlight
          PROVE  LimitInv'
      <3>1. InFlightCommands' \subseteq InFlightCommands
        BY <2>1 DEF InFlightCommands
      <3>2. Claiming' \subseteq Claiming
        BY <2>1 DEF Claiming, TypeOK
      <3> QED
        BY <3>1, <3>2, NothingAdded
    <2>2. NoCall.pc # "claim"
      BY DEF NoCall
    <2>3. ASSUME NEW i \in Instance, ClaimNextRuntimeCommand(d, i)
          PROVE  LimitInv'
      <3> DEFINE v == [pc |-> "count", at |-> i, cmd |-> None]
      <3>1. v.pc # "claim"
        OBVIOUS
      <3>2. call' = [call EXCEPT ![d] = v] /\ UNCHANGED status
        BY <2>3 DEF ClaimNextRuntimeCommand, rowVars
      <3> HIDE DEF v
      <3> QED
        BY <2>1, <3>1, <3>2
    <2>4. CASE SendCommand(d) \/ DispatchAborts(d)
      BY <2>1, <2>2, <2>4 DEF SendCommand, DispatchAborts, rowVars
    <2>5. CASE SendCommandFails(d)
      <3> DEFINE v == [call[d] EXCEPT !.pc = "fail"]
      <3>1. v.pc # "claim"
        BY DEF TypeOK, CallType
      <3>2. call' = [call EXCEPT ![d] = v] /\ UNCHANGED status
        BY <2>5 DEF SendCommandFails, TypeOK, rowVars
      <3> HIDE DEF v
      <3> QED
        BY <2>1, <3>1, <3>2
    <2>6. CASE FailCommand(d)
      <3>1. \A c \in Command : status'[c] \in InFlight => status[c] \in InFlight
        BY <2>6 DEF FailCommand, TypeOK, InFlight
      <3> QED
        BY <2>1, <2>2, <2>6, <3>1 DEF FailCommand
    <2> QED
      BY <1>2, <2>3, <2>4, <2>5, <2>6, CountLimit, ClaimLimit DEF Dispatch
  <1>3. ASSUME NEW i \in Instance, Stream(i)
        PROVE  LimitInv'
    <2>1. CASE HandleRuntimeCommandFrame(i)
      <3> DEFINE f == Head(frames[i])
      <3>1. f \in Frame /\ UNCHANGED call
        BY <2>1 DEF HandleRuntimeCommandFrame, TypeOK
      <3>2. f.cmd \in Command
        BY <3>1 DEF Frame
      <3>3. \A c \in Command : status'[c] \in InFlight => status[c] \in InFlight
        BY <2>1, <3>2 DEF HandleRuntimeCommandFrame, Applies, InFlight, Terminal, TypeOK
      <3> QED
        BY <1>1, <3>1, <3>3
    <2>2. CASE (\E f \in Frame : RuntimeAnswers(i, f)) \/ StreamOpens(i) \/ StreamCloses(i)
      BY <1>1, <2>2 DEF RuntimeAnswers, StreamOpens, StreamCloses, rowVars
    <2> QED
      BY <1>3, <2>1, <2>2 DEF Stream
  <1>4. ASSUME NEW c \in Command, NEW k \in Key \cup {None}, CreateRuntimeCommand(c, k)
        PROVE  LimitInv'
    <2>1. UNCHANGED call /\ \A b \in Command : status'[b] \in InFlight => status[b] \in InFlight
      BY <1>4 DEF CreateRuntimeCommand, TypeOK, InFlight
    <2> QED
      BY <1>1, <2>1
  <1>5. ASSUME NEW late \in SUBSET Command, TimeoutRuntimeCommands(late)
        PROVE  LimitInv'
    BY <1>1, <1>5 DEF TimeoutRuntimeCommands, InFlight
  <1>6. CASE OwnerChanges \/ UNCHANGED vars
    BY <1>1, <1>6 DEF OwnerChanges, vars, rowVars
  <1> QED
    BY <1>2, <1>3, <1>4, <1>5, <1>6 DEF Next

\* The commands in flight exceed the limit by less than the number of overlapping calls.
THEOREM LimitHoldsUpToOverlap == Spec => []OverlapBounded
  <1>1. Init => LimitInv
    <2>1. ASSUME Init PROVE InFlightCommands = {} /\ Claiming = {}
      BY <2>1 DEF Init, InFlightCommands, InFlight, Claiming, NoCall
    <2> QED
      BY <2>1, FS_EmptySet, Counts, QueueAssumption DEF LimitInv
  <1>2. LimitInv => OverlapBounded
    BY Counts, QueueAssumption DEF LimitInv, OverlapBounded
  <1> QED
    BY <1>1, <1>2, InitType, NextType, NextLimit, PTL DEF Spec

-----------------------------------------------------------------------------
(* The life cycle *)

\* Closing the commands C with one outcome, as the queue's rows say it, closes them in
\* CommandLife.
LEMMA ClosingRows ==
    ASSUME TypeOK, NEW C \in SUBSET Command, NEW how \in Terminal,
           \A c \in C : Open(c),
           status' = [c \in Command |-> IF c \in C THEN how ELSE status[c]],
           UNCHANGED handed
    PROVE  Life!Next
  <1>1. \A c \in Command : status'[c] = IF c \in C THEN how ELSE status[c]
    OBVIOUS
  <1>2. Life!Close(C, how)
    BY <1>1 DEF Life!Close, Open, InFlight, Terminal
  <1> QED
    BY <1>2 DEF Life!Next

\* The same for one command.
LEMMA ClosingRow ==
    ASSUME TypeOK, NEW c \in Command, NEW how \in Terminal, Open(c),
           status' = [status EXCEPT ![c] = how], UNCHANGED handed
    PROVE  Life!Next
  <1>1. status' = [b \in Command |-> IF b \in {c} THEN how ELSE status[b]]
    BY DEF TypeOK
  <1>2. {c} \in SUBSET Command /\ \A b \in {c} : Open(b)
    OBVIOUS
  <1> HIDE DEF Life!Next, Open
  <1> QED
    BY <1>1, <1>2, ClosingRows

\* The steps of a dispatcher: a claim, a hand-over, a failure, or nothing CommandLife sees.
LEMMA DispatchLife ==
    ASSUME TypeOK, QueueInv, NEW d \in Dispatcher, Dispatch(d)
    PROVE  [Life!Next]_(Life!vars)
  <1>1. ASSUME UNCHANGED <<status, handed>>
        PROVE  UNCHANGED Life!vars
    BY <1>1 DEF Life!vars
  <1>2. ASSUME NEW i \in Instance, ClaimNextRuntimeCommand(d, i)
        PROVE  UNCHANGED <<status, handed>>
    BY <1>2 DEF ClaimNextRuntimeCommand, rowVars
  <1>3. CASE ClaimOldest(d)
    <2>1. ASSUME NEW c \in Command, Claimable(c), status' = [status EXCEPT ![c] = "sent"]
          PROVE  Life!Next
      <3>1. /\ status[c] = "queued" /\ status'[c] = "sent"
            /\ \A b \in Command : b # c => status'[b] = status[b]
            /\ UNCHANGED handed
        BY <1>3, <2>1 DEF Claimable, TypeOK, ClaimOldest
      <3>2. Life!Claim(c)
        BY <3>1 DEF Life!Claim, InFlight
      <3> QED
        BY <3>2 DEF Life!Next
    <2>2. UNCHANGED handed
      BY <1>3 DEF ClaimOldest
    <2> QED
      BY <1>1, <1>3, <2>1, <2>2 DEF ClaimOldest
  <1>4. CASE SendCommand(d)
    <2> DEFINE c == call[d].cmd
    <2>1. c \in Command /\ Holds(d, c)
      BY <1>4 DEF SendCommand, TypeOK, Holds
    <2>2. status[c] \notin {"absent", "queued"} /\ handed[c] = 0
      BY <2>1 DEF QueueInv, ClaimedOnce
    <2>3. handed' = [handed EXCEPT ![c] = 1] /\ UNCHANGED status
      BY <1>4, <2>1, <2>2 DEF SendCommand, TypeOK, rowVars
    <2> HIDE DEF c
    <2>4. Life!Hand(c)
      BY <2>1, <2>2, <2>3 DEF Life!Hand, InFlight
    <2> QED
      BY <2>1, <2>4 DEF Life!Next
  <1>5. CASE FailCommand(d)
    <2>1. call[d].cmd \in Command /\ UNCHANGED handed /\ "failed" \in Terminal
      BY <1>5 DEF FailCommand, TypeOK, Terminal
    <2>2. CASE Completes(call[d].cmd)
      BY <1>5, <2>1, <2>2, ClosingRow DEF FailCommand, Completes
    <2>3. CASE ~Completes(call[d].cmd)
      BY <1>1, <1>5, <2>1, <2>3 DEF FailCommand
    <2> QED
      BY <2>2, <2>3
  <1>6. CASE CountInFlight(d) \/ SendCommandFails(d) \/ DispatchAborts(d)
    BY <1>1, <1>6 DEF CountInFlight, SendCommandFails, DispatchAborts, rowVars
  <1> QED
    BY <1>1, <1>2, <1>3, <1>4, <1>5, <1>6 DEF Dispatch

\* The steps of a stream: a result closes its command, an acknowledgement is not seen.
LEMMA StreamLife ==
    ASSUME TypeOK, QueueInv, NEW i \in Instance, Stream(i)
    PROVE  [Life!Next]_(Life!vars)
  <1>1. ASSUME UNCHANGED <<status, handed>>
        PROVE  UNCHANGED Life!vars
    BY <1>1 DEF Life!vars
  <1>2. CASE HandleRuntimeCommandFrame(i)
    <2> DEFINE f == Head(frames[i])
    <2>1. f \in Frame /\ UNCHANGED handed
      BY <1>2 DEF HandleRuntimeCommandFrame, TypeOK
    <2>2. f.cmd \in Command /\ f.says \in Verdict
      BY <2>1 DEF Frame
    <2>3. CASE ~Applies(f)
      BY <1>1, <1>2, <2>1, <2>3 DEF HandleRuntimeCommandFrame
    <2>4. CASE Applies(f) /\ f.says \in Terminal
      <3>1. status' = [status EXCEPT ![f.cmd] = f.says] /\ Open(f.cmd)
        BY <1>2, <2>4 DEF HandleRuntimeCommandFrame, Applies, Completes, Terminal
      <3> QED
        BY <2>1, <2>2, <2>4, <3>1, ClosingRow
    <2>5. CASE Applies(f) /\ f.says \in {"acked", "running"}
      <3>1. /\ status'[f.cmd] \in InFlight /\ status[f.cmd] \in InFlight
            /\ \A b \in Command : b # f.cmd => status'[b] = status[b]
        BY <1>2, <2>2, <2>5 DEF HandleRuntimeCommandFrame, Applies, InFlight, Terminal, TypeOK
      <3> QED
        BY <2>1, <3>1 DEF Life!vars
    <2> QED
      BY <2>2, <2>3, <2>4, <2>5 DEF Verdict
  <1>3. CASE (\E f \in Frame : RuntimeAnswers(i, f)) \/ StreamOpens(i) \/ StreamCloses(i)
    BY <1>1, <1>3 DEF RuntimeAnswers, StreamOpens, StreamCloses, rowVars
  <1> QED
    BY <1>2, <1>3 DEF Stream

\* Every step is a step of CommandLife or one it does not see.
LEMMA NextLife == TypeOK /\ QueueInv /\ [Next]_vars => [Life!Next]_(Life!vars)
  <1> SUFFICES ASSUME TypeOK, QueueInv, [Next]_vars PROVE [Life!Next]_(Life!vars)
    OBVIOUS
  <1>1. ASSUME UNCHANGED <<status, handed>>
        PROVE  UNCHANGED Life!vars
    BY <1>1 DEF Life!vars
  <1>2. ASSUME NEW c \in Command, NEW k \in Key \cup {None}, CreateRuntimeCommand(c, k)
        PROVE  Life!Next
    <2>1. /\ status[c] = "absent" /\ status'[c] = "queued"
          /\ \A b \in Command : b # c => status'[b] = status[b]
          /\ UNCHANGED handed
      BY <1>2 DEF CreateRuntimeCommand, TypeOK
    <2>2. Life!Create(c)
      BY <2>1 DEF Life!Create, InFlight
    <2> QED
      BY <2>2 DEF Life!Next
  <1>3. ASSUME NEW late \in SUBSET Command, TimeoutRuntimeCommands(late)
        PROVE  Life!Next
    <2>1. /\ "timed_out" \in Terminal
          /\ \A c \in late : Open(c)
          /\ status' = [c \in Command |-> IF c \in late THEN "timed_out" ELSE status[c]]
          /\ UNCHANGED handed
      BY <1>3 DEF TimeoutRuntimeCommands, Terminal
    <2> QED
      BY <2>1, ClosingRows
  <1>4. CASE OwnerChanges \/ UNCHANGED vars
    BY <1>1, <1>4 DEF OwnerChanges, vars, rowVars, streamVars
  <1> QED
    BY <1>2, <1>3, <1>4, DispatchLife, StreamLife DEF Next

\* The queue implements CommandLife: a command is queued once, handed over at most once,
\* and closed once, whoever closes it.
THEOREM QueueImplementsLife == Spec => LifeSpec
  <1>1. Init => Life!Init
    BY DEF Init, Life!Init, InFlight
  <1> QED
    BY <1>1, NextLife, InitType, NextType, InitInv, NextInv, PTL DEF Spec, LifeSpec, Life!Spec
=============================================================================
