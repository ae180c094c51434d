-------------------------- MODULE StreamCallsProofs --------------------------
(***************************************************************************)
(* Theorems about StreamCalls: its types, that stream.Send is entered by   *)
(* one goroutine at a time, and what the map of calls holds.               *)
(***************************************************************************)
EXTENDS StreamCalls, TLAPS

\* A call that has not registered has no channel to close.
CallsInv ==
    /\ SendsExclude
    /\ MapHoldsLiveCalls
    /\ \A c \in failing \cup shut : pc[c] \notin {"idle", "register"}

USE DEF streamVars, callVars, sendVars, handlerVars, handlerFrame

-----------------------------------------------------------------------------
(* Types *)

\* A stream that was just registered is well typed.
LEMMA InitType == Init => TypeOK
  <1> SUFFICES ASSUME Init PROVE TypeOK
    OBVIOUS
  <1>1. <<>> \in Seq(Kind) /\ Len(<<>>) = 0
    OBVIOUS
  <1>2. buf \in [Call -> Seq(Kind)] /\ \A c \in Call : Len(buf[c]) <= Capacity
    BY <1>1, CallsAssumption DEF Init
  <1>3. room \in 0 .. Room
    BY CallsAssumption DEF Init
  <1>4. pc \in [Call -> CallPC]
    BY DEF Init, CallPC
  <1> QED
    BY <1>2, <1>3, <1>4 DEF Init, TypeOK, HandlerPC

\* The steps of a call keep the types.
LEMMA CallType ==
    ASSUME TypeOK, NEW c \in Call,
           FindStream(c) \/ NoStream(c) \/ CallSteps(c) \/ DeadlinePasses(c)
    PROVE  TypeOK'
  <1>1. ASSUME NEW step \in CallPC, Goto(c, step)
        PROVE  pc' \in [Call -> CallPC]
    BY <1>1 DEF Goto, TypeOK
  <1>2. ASSUME Return(c)
        PROVE  pc' \in [Call -> CallPC]
    BY <1>1, <1>2 DEF Return, CallPC
  <1>3. CASE FindStream(c) \/ NoStream(c) \/ RegisterCall(c) \/ UnregisterCall(c)
    BY <1>1, <1>3 DEF FindStream, NoStream, RegisterCall, UnregisterCall, TypeOK, CallPC
  <1>4. CASE SendRefused(c) \/ WaitSeesClosed(c) \/ SendFails(c)
    BY <1>2, <1>4 DEF SendRefused, WaitSeesClosed, SendFails, TypeOK
  <1>5. CASE SendBegins(c)
    <2>1. pc' \in [Call -> CallPC]
      BY <1>1, <1>5 DEF SendBegins, CallPC
    <2> QED
      BY <1>5, <2>1 DEF SendBegins, TypeOK
  <1>6. CASE SendEnds(c)
    <2>1. pc' \in [Call -> CallPC] /\ asked' \subseteq Call
      BY <1>1, <1>2, <1>6 DEF SendEnds, CallPC, TypeOK
    <2>2. room' \in 0 .. Room
      BY <1>6, CallsAssumption DEF SendEnds, TypeOK
    <2> QED
      BY <1>6, <2>1, <2>2 DEF SendEnds, TypeOK
  <1>7. CASE WaitExpires(c)
    <2>1. pc' \in [Call -> CallPC]
      BY <1>1, <1>2, <1>7 DEF WaitExpires, CallPC
    <2> QED
      BY <1>7, <2>1 DEF WaitExpires, TypeOK
  <1>8. CASE TakeReply(c)
    <2>1. pc' \in [Call -> CallPC]
      BY <1>2, <1>8 DEF TakeReply, TypeOK
    <2>2. Tail(buf[c]) \in Seq(Kind) /\ Len(Tail(buf[c])) <= Capacity
      BY <1>8, CallsAssumption DEF TakeReply, TypeOK
    <2>3. buf' = [buf EXCEPT ![c] = Tail(buf[c])]
      BY <1>8 DEF TakeReply
    <2>4. buf' \in [Call -> Seq(Kind)] /\ \A b \in Call : Len(buf'[b]) <= Capacity
      BY <2>2, <2>3 DEF TypeOK
    <2> QED
      BY <1>8, <2>1, <2>4 DEF TakeReply, TypeOK
  <1>9. CASE DeadlinePasses(c)
    BY <1>9 DEF DeadlinePasses, TypeOK
  <1> QED
    BY <1>3, <1>4, <1>5, <1>6, <1>7, <1>8, <1>9 DEF CallSteps

\* The steps of close() and of the handler keep the types.
LEMMA StreamType ==
    ASSUME TypeOK, CloseStream \/ CloseSteps \/ HandlerSteps \/ Heartbeat \/ LoopFails
    PROVE  TypeOK'
  <1>1. CASE CloseStream \/ UnregisterStream
    BY <1>1 DEF CloseStream, UnregisterStream, TypeOK
  <1>2. CASE FailInFlight \/ CloseReturns
    BY <1>2 DEF FailInFlight, CloseReturns, TypeOK
  <1>3. ASSUME NEW c \in Call, CloseReplyChannel(c)
        PROVE  TypeOK'
    BY <1>3 DEF CloseReplyChannel, TypeOK
  <1>4. CASE SetSender \/ Heartbeat \/ LoopClosed \/ LoopFails \/ HandleReturns \/ AckBegins
    BY <1>4 DEF SetSender, Heartbeat, LoopClosed, LoopFails, HandleReturns, AckBegins, TypeOK, HandlerPC
  <1>5. CASE AckEnds
    <2>1. room' \in 0 .. Room
      BY <1>5, CallsAssumption DEF AckEnds, TypeOK
    <2> QED
      BY <1>5, <2>1 DEF AckEnds, TypeOK, HandlerPC
  <1>6. CASE AckFails
    BY <1>6 DEF AckFails, AfterFailedAck, TypeOK, HandlerPC
  <1>7. CASE DeliverFinds
    BY <1>7 DEF DeliverFinds, TypeOK, HandlerPC
  <1>8. CASE DeliverFindsNothing \/ PushDrops
    BY <1>8 DEF DeliverFindsNothing, PushDrops, Undelivered, TypeOK, HandlerPC
  <1>9. CASE Push
    <2> DEFINE c == reply.call
    <2>1. c \in Call /\ reply.kind \in Kind
      BY <1>9 DEF Push, TypeOK, Reply
    <2>2. /\ Append(buf[c], reply.kind) \in Seq(Kind)
          /\ Len(Append(buf[c], reply.kind)) <= Capacity
      BY <1>9, <2>1, CallsAssumption DEF Push, TypeOK
    <2>3. buf' = [buf EXCEPT ![c] = Append(buf[c], reply.kind)]
      BY <1>9 DEF Push
    <2>4. buf' \in [Call -> Seq(Kind)] /\ \A b \in Call : Len(buf'[b]) <= Capacity
      BY <2>1, <2>2, <2>3 DEF TypeOK
    <2> QED
      BY <1>9, <2>4 DEF Push, TypeOK, HandlerPC
  <1>10. CASE PushPanics
    BY <1>10 DEF PushPanics, TypeOK, HandlerPC, CallPC
  <1> QED
    BY <1>1, <1>2, <1>3, <1>4, <1>5, <1>6, <1>7, <1>8, <1>9, <1>10 DEF CloseSteps, HandlerSteps

\* Every step keeps the types.
LEMMA NextType == TypeOK /\ [Next]_vars => TypeOK'
  <1> SUFFICES ASSUME TypeOK, [Next]_vars PROVE TypeOK'
    OBVIOUS
  <1>1. ASSUME NEW f \in Reply, ReceiveReply(f)
        PROVE  TypeOK'
    BY <1>1 DEF ReceiveReply, TypeOK, HandlerPC
  <1>2. CASE PeerReads
    <2>1. room' \in 0 .. Room
      BY <1>2, CallsAssumption DEF PeerReads, TypeOK
    <2> QED
      BY <1>2, <2>1 DEF PeerReads, TypeOK
  <1>3. CASE PeerDisconnects
    BY <1>3 DEF PeerDisconnects, TypeOK
  <1>4. CASE UNCHANGED vars
    BY <1>4 DEF vars, TypeOK
  <1> QED
    BY <1>1, <1>2, <1>3, <1>4, CallType, StreamType DEF Next, Invoke, Over

\* The stream is well typed, for every set of calls and every capacity.
THEOREM CallsTypes == Spec => []TypeOK
  BY InitType, NextType, PTL DEF Spec

-----------------------------------------------------------------------------
(* Senders and reply channels *)

\* At the start nobody sends and nobody waits.
LEMMA InitInv == Init => CallsInv
  BY CallsAssumption DEF Init, CallsInv, SendsExclude, MapHoldsLiveCalls

\* The steps of a call: it sends under sendMu, registers once, and leaves the map.
LEMMA CallInv ==
    ASSUME TypeOK, CallsInv, NEW c \in Call,
           FindStream(c) \/ NoStream(c) \/ CallSteps(c) \/ DeadlinePasses(c)
    PROVE  CallsInv'
  <1> USE DEF TypeOK, CallsInv, SendsExclude, MapHoldsLiveCalls, Goto, Return
  <1>1. CASE FindStream(c) \/ NoStream(c)
    BY <1>1 DEF FindStream, NoStream
  <1>2. CASE RegisterCall(c)
    BY <1>2 DEF RegisterCall
  <1>3. CASE SendRefused(c)
    BY <1>3 DEF SendRefused
  <1>4. CASE SendBegins(c)
    BY <1>4, CallsAssumption DEF SendBegins
  <1>5. CASE SendEnds(c)
    BY <1>5, CallsAssumption DEF SendEnds
  <1>6. CASE SendFails(c)
    BY <1>6, CallsAssumption DEF SendFails
  <1>7. CASE WaitExpires(c)
    BY <1>7 DEF WaitExpires
  <1>8. CASE WaitSeesClosed(c) \/ TakeReply(c)
    BY <1>8 DEF WaitSeesClosed, TakeReply
  <1>9. CASE UnregisterCall(c)
    BY <1>9 DEF UnregisterCall
  <1>10. CASE DeadlinePasses(c)
    BY <1>10 DEF DeadlinePasses
  <1> QED
    BY <1>1, <1>2, <1>3, <1>4, <1>5, <1>6, <1>7, <1>8, <1>9, <1>10 DEF CallSteps

\* The steps of close() and of the handler.
LEMMA StreamInv ==
    ASSUME TypeOK, CallsInv, CloseStream \/ CloseSteps \/ HandlerSteps \/ Heartbeat \/ LoopFails
    PROVE  CallsInv'
  <1> USE DEF TypeOK, CallsInv, SendsExclude, MapHoldsLiveCalls
  <1>1. CASE CloseStream \/ UnregisterStream \/ CloseReturns
    BY <1>1 DEF CloseStream, UnregisterStream, CloseReturns
  <1>2. CASE FailInFlight
    BY <1>2 DEF FailInFlight
  <1>3. ASSUME NEW c \in Call, CloseReplyChannel(c)
        PROVE  CallsInv'
    BY <1>3 DEF CloseReplyChannel
  <1>4. CASE SetSender \/ Heartbeat \/ LoopClosed \/ LoopFails \/ HandleReturns
    BY <1>4 DEF SetSender, Heartbeat, LoopClosed, LoopFails, HandleReturns
  <1>5. CASE AckBegins
    BY <1>5, CallsAssumption DEF AckBegins
  <1>6. CASE AckEnds \/ AckFails
    BY <1>6, CallsAssumption DEF AckEnds, AckFails, AfterFailedAck
  <1>7. CASE DeliverFinds \/ DeliverFindsNothing \/ Push \/ PushDrops
    BY <1>7 DEF DeliverFinds, DeliverFindsNothing, Push, PushDrops, Undelivered
  <1>8. CASE PushPanics
    BY <1>8, CallsAssumption DEF PushPanics
  <1> QED
    BY <1>1, <1>2, <1>3, <1>4, <1>5, <1>6, <1>7, <1>8 DEF CloseSteps, HandlerSteps

\* Every step keeps the invariant.
LEMMA NextInv == TypeOK /\ CallsInv /\ [Next]_vars => CallsInv'
  <1> SUFFICES ASSUME TypeOK, CallsInv, [Next]_vars PROVE CallsInv'
    OBVIOUS
  <1>1. ASSUME NEW f \in Reply, ReceiveReply(f)
        PROVE  CallsInv'
    BY <1>1 DEF ReceiveReply, CallsInv, SendsExclude, MapHoldsLiveCalls
  <1>2. CASE PeerReads \/ PeerDisconnects
    BY <1>2 DEF PeerReads, PeerDisconnects, CallsInv, SendsExclude, MapHoldsLiveCalls
  <1>3. CASE UNCHANGED vars
    BY <1>3 DEF vars, CallsInv, SendsExclude, MapHoldsLiveCalls
  <1> QED
    BY <1>1, <1>2, <1>3, CallInv, StreamInv DEF Next, Invoke, Over

\* Two goroutines are never in stream.Send at the same time.
THEOREM SendIsExclusive == Spec => []SendsExclude
  <1>1. CallsInv => SendsExclude
    BY DEF CallsInv
  <1> QED
    BY <1>1, InitType, NextType, InitInv, NextInv, PTL DEF Spec

\* No reply channel is closed twice, and no call is left in the map.
THEOREM MapIsClean == Spec => []MapHoldsLiveCalls
  <1>1. CallsInv => MapHoldsLiveCalls
    BY DEF CallsInv
  <1> QED
    BY <1>1, InitType, NextType, InitInv, NextInv, PTL DEF Spec
=============================================================================
