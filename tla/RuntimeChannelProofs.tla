------------------------ MODULE RuntimeChannelProofs ------------------------
(***************************************************************************)
(* Theorems about RuntimeChannel, for every set of runtimes, credentials,  *)
(* connections and processes and every bound: the types, then the safety   *)
(* properties.  Each of their sections states an inductive invariant,      *)
(* shows that every step keeps it, and concludes with the property; the    *)
(* invariants lean on the types and not on one another.                    *)
(***************************************************************************)
EXTENDS RuntimeChannel, TLAPS

-----------------------------------------------------------------------------
(* Types *)

\* A handler that has started and moves to another step keeps the type of conn.
LEMMA GotoType ==
    ASSUME NEW s \in Stream, NEW pc \in PC \ {"free"}, ConnTypeOK,
           conn[s].pc # "free", Goto(s, pc)
    PROVE  ConnTypeOK'
  BY DEF ConnTypeOK, ConnType, Goto

\* So does a handler that also stores a token or the kind of a frame.
LEMMA StepType ==
    ASSUME NEW s \in Stream, NEW pc \in PC \ {"free"}, NEW t \in Token,
           NEW f \in {"heartbeat", "other"}, ConnTypeOK, conn[s].pc # "free",
           \/ conn' = [conn EXCEPT ![s] = [@ EXCEPT !.pc = pc, !.tok = t]]
           \/ conn' = [conn EXCEPT ![s] = [@ EXCEPT !.pc = pc, !.frame = f]]
    PROVE  ConnTypeOK'
  <1> DEFINE c == conn[s]
  <1>0. c \in ConnType
    BY DEF ConnTypeOK
  <1>1. /\ [c EXCEPT !.pc = pc, !.tok = t] \in ConnType
        /\ [c EXCEPT !.pc = pc, !.frame = f] \in ConnType
    <2> HIDE DEF c
    <2>1. [c EXCEPT !.pc = pc, !.tok = t] \in ConnType
      BY <1>0 DEF ConnType
    <2>2. [c EXCEPT !.pc = pc, !.frame = f] \in ConnType
      BY <1>0 DEF ConnType
    <2> QED
      BY <2>1, <2>2
  <1>2. conn' \in [Stream -> ConnType]
    BY <1>1 DEF ConnTypeOK
  <1>3. ASSUME NEW x \in Stream, conn'[x].pc # "free"
        PROVE  conn'[x].at \in Instance /\ conn'[x].rt \in Runtime
    <2>1. CASE x = s
      BY <2>1 DEF ConnTypeOK, ConnType
    <2>2. CASE x # s
      BY <1>3, <2>2 DEF ConnTypeOK
    <2> QED
      BY <2>1, <2>2
  <1> QED
    BY <1>2, <1>3 DEF ConnTypeOK

\* A handler started on a free connection record.
LEMMA StartType ==
    ASSUME NEW s \in Stream, NEW pc \in PC, NEW i \in Instance, NEW r \in Runtime,
           NEW k \in Key \cup {None}, NEW t \in Token, ConnTypeOK,
           conn' = [conn EXCEPT ![s] = NewConn(pc, i, r, k, t)]
    PROVE  ConnTypeOK'
  <1>1. NewConn(pc, i, r, k, t) \in ConnType
    BY ConstantsAssumption DEF NewConn, ConnType, Token, ConstantsAssumption
  <1> QED
    BY <1>1 DEF ConnTypeOK, NewConn

\* Returning forgets the handler's state.
LEMMA ReturnType ==
    ASSUME NEW s \in Stream, ConnTypeOK, ConstantsAssumption, Return(s)
    PROVE  ConnTypeOK'
  BY DEF ConnTypeOK, ConnType, Return, FreeConn, NewConn, PC, Token, ConstantsAssumption

\* Closing entries keeps the registry's type.
LEMMA CloseEntriesType ==
    ASSUME NEW i \in Instance, NEW R \in SUBSET Runtime, RegistryTypeOK, CloseEntries(i, R)
    PROVE  RegistryTypeOK'
  <1> DEFINE gone == {r \in R : byRuntime[i][r] # None}
  <1>1. \A r \in gone : byRuntime[i][r] \in Stream
    BY DEF RegistryTypeOK
  <1>2. closed' \subseteq Stream
    BY <1>1 DEF RegistryTypeOK, CloseEntries
  <1>3. byRuntime' \in [Instance -> [Runtime -> Stream \cup {None}]]
    BY DEF RegistryTypeOK, CloseEntries
  <1>4. byKey' \in [Instance -> [Key -> SUBSET Runtime]]
    BY DEF RegistryTypeOK, CloseEntries
  <1> QED
    BY <1>2, <1>3, <1>4 DEF RegistryTypeOK

\* Entering a stream in both indexes keeps the registry's type.
LEMMA ReplaceEntryType ==
    ASSUME NEW s \in Stream, RegistryTypeOK, conn[s].at \in Instance, conn[s].rt \in Runtime,
           ReplaceEntry(s)
    PROVE  RegistryTypeOK'
  <1> DEFINE i == conn[s].at
             r == conn[s].rt
             old == byRuntime[i][r]
  <1>1. old \in Stream \cup {None}
    BY DEF RegistryTypeOK
  <1>2. closed' \subseteq Stream
    BY <1>1 DEF RegistryTypeOK, ReplaceEntry
  <1>3. byRuntime' \in [Instance -> [Runtime -> Stream \cup {None}]]
    BY DEF RegistryTypeOK, ReplaceEntry
  <1>4. byKey' \in [Instance -> [Key -> SUBSET Runtime]]
    <2> DEFINE new == [k \in Key |->
                   (byKey[i][k] \ (IF old # None /\ conn[old].key = k THEN {r} ELSE {}))
                       \cup (IF conn[s].key = k THEN {r} ELSE {})]
    <2>1. new \in [Key -> SUBSET Runtime]
      BY DEF RegistryTypeOK
    <2>2. byKey' = [byKey EXCEPT ![i] = new]
      BY DEF ReplaceEntry
    <2> HIDE DEF new
    <2> QED
      BY <2>1, <2>2 DEF RegistryTypeOK
  <1> QED
    BY <1>2, <1>3, <1>4 DEF RegistryTypeOK

\* Ending rows with a status keeps the type of the table.
LEMMA EndRowsType ==
    ASSUME NEW R, NEW st \in Status, row \in [Runtime -> RowType], EndRows(R, st)
    PROVE  row' \in [Runtime -> RowType]
  BY DEF EndRows, RowType

\* Init has the right types.
LEMMA InitType == Init => TypeOK
  BY ConstantsAssumption
  DEF Init, TypeOK, DbTypeOK, TokensTypeOK, ConnTypeOK, RegistryTypeOK, AdminTypeOK,
      RowType, LeaseType, ConnType, NoRow, NoLease, FreeConn, NewConn, NoCall, PC, Status, Terminal,
      Age, Token, ConstantsAssumption

\* The first frame and the statements of admission.
LEMMA AdmissionType ==
    ASSUME TypeOK, NEW s \in Stream, Admission(s)
    PROVE  TypeOK'
  <1> USE ConstantsAssumption DEF TypeOK
  <1>1. CASE CreateOrReplaceKeyedRuntime(s)
    <2>1. DbTypeOK'
      <3>1. conn[s].rt \in Runtime /\ conn[s].key \in Key
        BY <1>1 DEF CreateOrReplaceKeyedRuntime, ConnTypeOK
      <3>2. ActiveRow(conn[s].rt, conn[s].key) \in RowType
        BY <3>1 DEF DbTypeOK, RowType, ActiveRow, Age, Status
      <3> QED
        BY <1>1, <3>1, <3>2 DEF CreateOrReplaceKeyedRuntime, DbTypeOK
    <2>2. ConnTypeOK'
      BY <1>1, GotoType, ReturnType DEF CreateOrReplaceKeyedRuntime, PC
    <2> QED
      BY <1>1, <2>1, <2>2
      DEF CreateOrReplaceKeyedRuntime, tokenVars, registryVars, adminVars, TokensTypeOK,
          RegistryTypeOK, AdminTypeOK
  <1>2. CASE CreateOrReplaceBareRuntime(s)
    <2>1. DbTypeOK'
      <3>1. conn[s].rt \in Runtime
        BY <1>2 DEF CreateOrReplaceBareRuntime, ConnTypeOK
      <3>2. row[conn[s].rt] \in RowType
        BY <3>1 DEF DbTypeOK
      <3>3. ActiveRow(conn[s].rt, None) \in RowType
        BY <3>2 DEF RowType, ActiveRow, Age, Status
      <3>4. row' \in [Runtime -> RowType]
        BY <1>2, <3>1, <3>3 DEF CreateOrReplaceBareRuntime, DbTypeOK
      <3> QED
        BY <1>2, <3>4 DEF CreateOrReplaceBareRuntime, DbTypeOK
    <2>2. ConnTypeOK'
      BY <1>2, GotoType, ReturnType DEF CreateOrReplaceBareRuntime, PC
    <2> QED
      BY <1>2, <2>1, <2>2
      DEF CreateOrReplaceBareRuntime, tokenVars, registryVars, adminVars, TokensTypeOK,
          RegistryTypeOK, AdminTypeOK
  <1>3. CASE IssueRuntimeChannelLease(s)
    <2>1. lastToken + 1 \in Token
      BY <1>3 DEF IssueRuntimeChannelLease, NewLease, TokensTypeOK, Token, ConstantsAssumption
    <2>2. conn[s].key \in Key \cup {None}
      BY DEF ConnTypeOK, ConnType
    <2>3. DbTypeOK' /\ TokensTypeOK'
      BY <1>3, <2>1, <2>2 DEF IssueRuntimeChannelLease, NewLease, DbTypeOK, TokensTypeOK, LeaseType
    <2>4. ConnTypeOK'
      BY <1>3, <2>1, StepType DEF IssueRuntimeChannelLease, NewLease, PC
    <2> QED
      BY <1>3, <2>3, <2>4
      DEF IssueRuntimeChannelLease, NewLease, registryVars, adminVars, RegistryTypeOK, AdminTypeOK
  <1>4. CASE RotateRuntimeChannelLease(s)
    <2>1. lastToken + 1 \in Token
      BY <1>4 DEF RotateRuntimeChannelLease, TokensTypeOK, Token, ConstantsAssumption
    <2>2. DbTypeOK' /\ TokensTypeOK'
      BY <1>4, <2>1 DEF RotateRuntimeChannelLease, DbTypeOK, TokensTypeOK, LeaseType
    <2>3. ConnTypeOK'
      BY <1>4, <2>1, ReturnType, StepType DEF RotateRuntimeChannelLease, PC
    <2> QED
      BY <1>4, <2>2, <2>3
      DEF RotateRuntimeChannelLease, registryVars, adminVars, RegistryTypeOK, AdminTypeOK
  <1>5. CASE RecordConnectionOwner(s)
    <2>1. DbTypeOK'
      BY <1>5 DEF RecordConnectionOwner, OwnerRecorded, DbTypeOK, RowType, ConnTypeOK, ConnType
    <2>2. ConnTypeOK'
      BY <1>5, GotoType, ReturnType DEF RecordConnectionOwner, PC
    <2> QED
      BY <1>5, <2>1, <2>2
      DEF RecordConnectionOwner, tokenVars, registryVars, adminVars, TokensTypeOK,
          RegistryTypeOK, AdminTypeOK
  <1>6. CASE Register(s)
    <2>1. ConnTypeOK'
      BY <1>6, GotoType, ReturnType DEF Register, PC
    <2>2. RegistryTypeOK'
      BY <1>6, ReplaceEntryType DEF Register, registryVars, RegistryTypeOK, ConnTypeOK
    <2> QED
      BY <1>6, <2>1, <2>2
      DEF Register, dbVars, tokenVars, adminVars, DbTypeOK, TokensTypeOK, AdminTypeOK
  <1>7. CASE SendHelloAck(s)
    <2>1. ConnTypeOK'
      BY <1>7, GotoType DEF SendHelloAck, PC
    <2>2. TokensTypeOK'
      BY <1>7 DEF SendHelloAck, TokensTypeOK, ConnTypeOK, ConnType
    <2> QED
      BY <1>7, <2>1, <2>2
      DEF SendHelloAck, dbVars, registryVars, adminVars, DbTypeOK, RegistryTypeOK, AdminTypeOK
  <1>8. CASE HelloAckFails(s)
    <2>1. ConnTypeOK'
      BY <1>8, GotoType DEF HelloAckFails, PC
    <2> QED
      BY <1>8, <2>1
      DEF HelloAckFails, dbVars, tokenVars, registryVars, adminVars, DbTypeOK, TokensTypeOK,
          RegistryTypeOK, AdminTypeOK
  <1>9. CASE AbortAdmission(s)
    <2>1. ConnTypeOK'
      BY <1>9, ReturnType DEF AbortAdmission
    <2> QED
      BY <1>9, <2>1
      DEF AbortAdmission, dbVars, tokenVars, registryVars, adminVars, DbTypeOK, TokensTypeOK,
          RegistryTypeOK, AdminTypeOK
  <1> QED
    BY <1>1, <1>2, <1>3, <1>4, <1>5, <1>6, <1>7, <1>8, <1>9 DEF Admission

\* The steps of the frame loop and of the deferred cleanup.
LEMMA LoopType ==
    ASSUME TypeOK, NEW s \in Stream, Loop(s)
    PROVE  TypeOK'
  <1> USE ConstantsAssumption DEF TypeOK
  <1>1. CASE Heartbeat(s)
    <2>1. ConnTypeOK'
      BY <1>1, GotoType, StepType DEF Heartbeat, PC, ConnTypeOK, ConnType
    <2> QED
      BY <1>1, <2>1
      DEF Heartbeat, dbVars, tokenVars, registryVars, adminVars, DbTypeOK, TokensTypeOK,
          RegistryTypeOK, AdminTypeOK
  <1>2. CASE OtherFrame(s)
    <2>1. ConnTypeOK'
      BY <1>2, StepType DEF OtherFrame, PC, ConnTypeOK, ConnType
    <2> QED
      BY <1>2, <2>1
      DEF OtherFrame, dbVars, tokenVars, registryVars, adminVars, DbTypeOK, TokensTypeOK,
          RegistryTypeOK, AdminTypeOK
  <1>3. CASE RecordHeartbeat(s)
    <2>1. DbTypeOK'
      <3>1. conn[s].rt \in Runtime
        BY <1>3 DEF RecordHeartbeat, ConnTypeOK
      <3>2. row[conn[s].rt] \in RowType
        BY <3>1 DEF DbTypeOK
      <3>3. \A x \in RowType : [x EXCEPT !.hb = 0] \in RowType
        BY DEF RowType, Age
      <3>4. \A x \in RowType : [x EXCEPT !.status = "active"] \in RowType
        BY DEF RowType, Status
      <3>5. [row[conn[s].rt] EXCEPT !.hb = 0, !.status = "active"] \in RowType
        BY <3>2, <3>3, <3>4, Zenon
      <3> QED
        BY <1>3, <3>1, <3>5 DEF RecordHeartbeat, DbTypeOK
    <2>2. ConnTypeOK'
      BY <1>3, GotoType DEF RecordHeartbeat, PC
    <2> QED
      BY <1>3, <2>1, <2>2
      DEF RecordHeartbeat, tokenVars, registryVars, adminVars, TokensTypeOK, RegistryTypeOK,
          AdminTypeOK
  <1>4. CASE RecordOwnerAgain(s)
    <2>1. DbTypeOK'
      BY <1>4 DEF RecordOwnerAgain, OwnerRecorded, DbTypeOK, RowType, ConnTypeOK, ConnType
    <2>2. ConnTypeOK'
      BY <1>4, GotoType DEF RecordOwnerAgain, PC
    <2> QED
      BY <1>4, <2>1, <2>2
      DEF RecordOwnerAgain, tokenVars, registryVars, adminVars, TokensTypeOK, RegistryTypeOK,
          AdminTypeOK
  <1>5. CASE SendHeartbeatAck(s)
    <2>1. ConnTypeOK'
      BY <1>5, GotoType DEF SendHeartbeatAck, PC
    <2> QED
      BY <1>5, <2>1
      DEF SendHeartbeatAck, dbVars, tokenVars, registryVars, adminVars, DbTypeOK, TokensTypeOK,
          RegistryTypeOK, AdminTypeOK
  <1>6. CASE LoopClosed(s)
    <2>1. ConnTypeOK'
      BY <1>6, GotoType DEF LoopClosed, PC
    <2> QED
      BY <1>6, <2>1
      DEF LoopClosed, dbVars, tokenVars, registryVars, adminVars, DbTypeOK, TokensTypeOK,
          RegistryTypeOK, AdminTypeOK
  <1>7. CASE LoopIdle(s)
    <2>1. ConnTypeOK'
      BY <1>7, GotoType DEF LoopIdle, PC
    <2> QED
      BY <1>7, <2>1
      DEF LoopIdle, dbVars, tokenVars, registryVars, adminVars, DbTypeOK, TokensTypeOK,
          RegistryTypeOK, AdminTypeOK
  <1>8. CASE LoopFails(s)
    <2>1. ConnTypeOK'
      BY <1>8, GotoType DEF LoopFails, PC
    <2> QED
      BY <1>8, <2>1
      DEF LoopFails, dbVars, tokenVars, registryVars, adminVars, DbTypeOK, TokensTypeOK,
          RegistryTypeOK, AdminTypeOK
  <1>9. CASE Unregister(s)
    <2>1. ConnTypeOK'
      BY <1>9, GotoType DEF Unregister, PC
    <2>2. RegistryTypeOK'
      BY <1>9, CloseEntriesType DEF Unregister, ConnTypeOK
    <2> QED
      BY <1>9, <2>1, <2>2
      DEF Unregister, dbVars, tokenVars, adminVars, DbTypeOK, TokensTypeOK, AdminTypeOK
  <1>10. CASE ClearConnectionOwner(s)
    <2>1. DbTypeOK'
      BY <1>10 DEF ClearConnectionOwner, DbTypeOK, RowType
    <2>2. ConnTypeOK'
      BY <1>10, ReturnType DEF ClearConnectionOwner
    <2> QED
      BY <1>10, <2>1, <2>2
      DEF ClearConnectionOwner, tokenVars, adminVars, TokensTypeOK, RegistryTypeOK, AdminTypeOK
  <1> QED
    BY <1>1, <1>2, <1>3, <1>4, <1>5, <1>6, <1>7, <1>8, <1>9, <1>10 DEF Loop

\* A new stream.
LEMMA ConnectType ==
    ASSUME TypeOK, NEW s \in Stream, Connect(s)
    PROVE  TypeOK'
  <1>1. ConnTypeOK'
    <2>1. ASSUME NEW i \in Instance, NEW r \in Runtime, NEW k \in Key \cup {None},
                 Hello(s, i, r, k)
          PROVE  ConnTypeOK'
      <3>1. 0 \in Token /\ "upsert" \in PC
        BY ConstantsAssumption DEF Token, PC, ConstantsAssumption
      <3> QED
        BY <2>1, <3>1, StartType DEF TypeOK, Hello
    <2>2. ASSUME NEW i \in Instance, NEW r \in Runtime, NEW t \in Token, Resume(s, i, r, t)
          PROVE  ConnTypeOK'
      <3>1. row[r].key \in Key \cup {None}
        BY DEF TypeOK, DbTypeOK, RowType
      <3> QED
        BY <2>2, <3>1, StartType DEF TypeOK, Resume, PC
    <2> QED
      BY <2>1, <2>2 DEF Connect
  <1> QED
    BY <1>1
    DEF TypeOK, Connect, Hello, Resume, dbVars, tokenVars, adminVars, DbTypeOK, TokensTypeOK,
        RegistryTypeOK, AdminTypeOK

\* The steps of Revoke.
LEMMA RevokeType ==
    ASSUME TypeOK, NEW k \in Key, Revoke(k)
    PROVE  TypeOK'
  <1> USE ConstantsAssumption DEF TypeOK
  <1>1. ASSUME NEW i \in Instance, RevokeRuntimeCredential(i, k)
        PROVE  TypeOK'
    <2>1. DbTypeOK'
      BY <1>1 DEF RevokeRuntimeCredential, DbTypeOK
    <2>2. AdminTypeOK'
      BY <1>1 DEF RevokeRuntimeCredential, AdminTypeOK
    <2> QED
      BY <1>1, <2>1, <2>2 DEF RevokeRuntimeCredential, tokenVars, registryVars, TokensTypeOK,
                              ConnTypeOK, RegistryTypeOK
  <1>2. CASE CloseByKeyID(k)
    <2>1. RegistryTypeOK'
      <3>1. revokeCall[k].at \in Instance
        BY <1>2 DEF CloseByKeyID, AdminTypeOK
      <3>2. byKey[revokeCall[k].at][k] \in SUBSET Runtime
        BY <3>1 DEF RegistryTypeOK
      <3> QED
        BY <1>2, <3>1, <3>2, CloseEntriesType DEF CloseByKeyID
    <2>2. AdminTypeOK'
      BY <1>2 DEF CloseByKeyID, AdminTypeOK
    <2> QED
      BY <1>2, <2>1, <2>2
      DEF CloseByKeyID, dbVars, tokenVars, DbTypeOK, TokensTypeOK, ConnTypeOK
  <1>3. CASE EndRuntimesByCredentialKey(k)
    <2>1. DbTypeOK'
      BY <1>3, EndRowsType DEF EndRuntimesByCredentialKey, DbTypeOK, Status, Terminal
    <2>2. AdminTypeOK'
      BY <1>3 DEF EndRuntimesByCredentialKey, AdminTypeOK
    <2> QED
      BY <1>3, <2>1, <2>2
      DEF EndRuntimesByCredentialKey, tokenVars, registryVars, TokensTypeOK, ConnTypeOK,
          RegistryTypeOK
  <1>4. CASE EndRuntimesByCredentialKeyFails(k)
    BY <1>4 DEF EndRuntimesByCredentialKeyFails, NoCall, dbVars, tokenVars, registryVars,
                DbTypeOK, TokensTypeOK, ConnTypeOK, RegistryTypeOK, AdminTypeOK
  <1> QED
    BY <1>1, <1>2, <1>3, <1>4 DEF Revoke

\* The steps of EndRuntime.
LEMMA EndType ==
    ASSUME TypeOK, NEW r \in Runtime, End(r)
    PROVE  TypeOK'
  <1> USE ConstantsAssumption DEF TypeOK
  <1>1. ASSUME NEW i \in Instance, EndRuntime(i, r)
        PROVE  TypeOK'
    BY <1>1 DEF EndRuntime, dbVars, tokenVars, registryVars,
                DbTypeOK, TokensTypeOK, ConnTypeOK, RegistryTypeOK, AdminTypeOK
  <1>2. CASE EndRuntimeRefused(r)
    BY <1>2 DEF EndRuntimeRefused, NoCall, dbVars, tokenVars, registryVars,
                DbTypeOK, TokensTypeOK, ConnTypeOK, RegistryTypeOK, AdminTypeOK
  <1>3. CASE EndRuntimeRow(r)
    <2>1. DbTypeOK'
      BY <1>3, EndRowsType DEF EndRuntimeRow, DbTypeOK, Status, Terminal
    <2>2. AdminTypeOK'
      BY <1>3 DEF EndRuntimeRow, NoCall, AdminTypeOK
    <2> QED
      BY <1>3, <2>1, <2>2
      DEF EndRuntimeRow, tokenVars, registryVars, TokensTypeOK, ConnTypeOK, RegistryTypeOK
  <1>4. CASE CloseStreamForRuntime(r)
    <2>1. RegistryTypeOK'
      BY <1>4, CloseEntriesType DEF CloseStreamForRuntime, AdminTypeOK
    <2>2. AdminTypeOK'
      BY <1>4 DEF CloseStreamForRuntime, NoCall, AdminTypeOK
    <2> QED
      BY <1>4, <2>1, <2>2
      DEF CloseStreamForRuntime, dbVars, tokenVars, DbTypeOK, TokensTypeOK, ConnTypeOK
  <1> QED
    BY <1>1, <1>2, <1>3, <1>4 DEF End

\* The passage of time.
LEMMA TimeType ==
    ASSUME TypeOK, NEW r \in Runtime, HeartbeatAges(r) \/ LeaseExpires(r)
    PROVE  TypeOK'
  <1> USE ConstantsAssumption DEF TypeOK
  <1>1. CASE HeartbeatAges(r)
    <2>1. DbTypeOK'
      BY <1>1 DEF HeartbeatAges, DbTypeOK, RowType, Age, ConstantsAssumption
    <2> QED
      BY <1>1, <2>1
      DEF HeartbeatAges, tokenVars, registryVars, adminVars, TokensTypeOK, ConnTypeOK,
          RegistryTypeOK, AdminTypeOK
  <1>2. CASE LeaseExpires(r)
    <2>1. DbTypeOK'
      BY <1>2 DEF LeaseExpires, DbTypeOK, LeaseType
    <2> QED
      BY <1>2, <2>1
      DEF LeaseExpires, tokenVars, registryVars, adminVars, TokensTypeOK, ConnTypeOK,
          RegistryTypeOK, AdminTypeOK
  <1> QED
    BY <1>1, <1>2

\* The reaper and crashes.
LEMMA ProcessType ==
    ASSUME TypeOK, NEW i \in Instance, Process(i)
    PROVE  TypeOK'
  <1> USE ConstantsAssumption DEF TypeOK
  <1>1. CASE MarkStaleRuntimesUnhealthy(i)
    <2>1. DbTypeOK'
      BY <1>1, EndRowsType DEF MarkStaleRuntimesUnhealthy, DbTypeOK, Status
    <2> QED
      BY <1>1, <2>1
      DEF MarkStaleRuntimesUnhealthy, tokenVars, registryVars, TokensTypeOK, ConnTypeOK,
          RegistryTypeOK, AdminTypeOK
  <1>2. CASE EndDeadRuntimes(i)
    <2>1. DbTypeOK'
      BY <1>2, EndRowsType DEF EndDeadRuntimes, DbTypeOK, Status, Terminal
    <2> QED
      BY <1>2, <2>1
      DEF EndDeadRuntimes, tokenVars, registryVars, TokensTypeOK, ConnTypeOK,
          RegistryTypeOK, AdminTypeOK
  <1>3. CASE Crash(i)
    <2>1. ConnTypeOK'
      BY <1>3 DEF Crash, ConnTypeOK, ConnType, FreeConn, NewConn, PC, Token, ConstantsAssumption
    <2>2. RegistryTypeOK'
      BY <1>3 DEF Crash, RegistryTypeOK
    <2>3. AdminTypeOK'
      BY <1>3 DEF Crash, AdminTypeOK, NoCall
    <2> QED
      BY <1>3, <2>1, <2>2, <2>3
      DEF Crash, dbVars, tokenVars, DbTypeOK, TokensTypeOK
  <1> QED
    BY <1>1, <1>2, <1>3 DEF Process

\* Every step keeps the types.
LEMMA NextType == TypeOK /\ [Next]_vars => TypeOK'
  <1> SUFFICES ASSUME TypeOK, [Next]_vars
               PROVE  TypeOK'
    OBVIOUS
  <1>1. CASE UNCHANGED vars
    BY <1>1 DEF vars, dbVars, tokenVars, registryVars, adminVars, TypeOK, DbTypeOK,
                TokensTypeOK, ConnTypeOK, RegistryTypeOK, AdminTypeOK
  <1>2. CASE Next
    BY <1>2, AdmissionType, LoopType, ConnectType, RevokeType, EndType, TimeType, ProcessType
    DEF Next
  <1> QED
    BY <1>1, <1>2

\* The variables of the model keep their types in every behaviour: in particular a row
\* never gets a status that the queries of the repository do not know.
THEOREM TypeInvariant == Spec => []TypeOK
  BY InitType, NextType, PTL DEF Spec

-----------------------------------------------------------------------------
(* The registry *)

\* The handlers whose stream was entered in the registry and not yet taken out by them.
HoldingPC == ServingPC \cup {"ack", "unregister", "leaked"}

\* RegistryConsistent is not inductive: a record must not be reused while an entry
\* refers to it, and a handler must not keep an open stream that lost its entry.
RegistryInv ==
    /\ RegistryConsistent
    /\ \A i \in Instance, r \in Runtime :
          byRuntime[i][r] # None => conn[byRuntime[i][r]].pc \in HoldingPC
    /\ \A s \in Stream :
          conn[s].pc \in HoldingPC /\ s \notin closed => byRuntime[conn[s].at][conn[s].rt] = s

\* A handler that keeps its identity and stays on its side of the registration.
LEMMA RegistryMove ==
    ASSUME TypeOK, RegistryInv, NEW s \in Stream, NEW c, UNCHANGED registryVars,
           conn' = [conn EXCEPT ![s] = c],
           c.at = conn[s].at, c.rt = conn[s].rt, c.key = conn[s].key,
           c.pc \in HoldingPC <=> conn[s].pc \in HoldingPC
    PROVE  RegistryInv'
  <1>1. \A x \in Stream : /\ conn'[x].at = conn[x].at /\ conn'[x].rt = conn[x].rt
                          /\ conn'[x].key = conn[x].key
                          /\ conn'[x].pc \in HoldingPC <=> conn[x].pc \in HoldingPC
    BY DEF TypeOK, ConnTypeOK
  <1>2. \A i \in Instance, r \in Runtime : byRuntime[i][r] \in Stream \cup {None}
    BY DEF TypeOK, RegistryTypeOK
  <1> QED
    BY <1>1, <1>2 DEF RegistryInv, RegistryConsistent, registryVars

\* A connection record without an entry that starts or ends a handler.
LEMMA RegistryRecycle ==
    ASSUME TypeOK, RegistryInv, NEW s \in Stream, NEW c,
           conn' = [conn EXCEPT ![s] = c], c.pc \notin HoldingPC,
           conn[s].pc \notin HoldingPC \/ s \in closed,
           closed' = closed \/ closed' = closed \ {s}, UNCHANGED <<byRuntime, byKey>>
    PROVE  RegistryInv'
  <1>1. \A i \in Instance, r \in Runtime : byRuntime[i][r] # s
    BY ConstantsAssumption DEF RegistryInv, RegistryConsistent, ConstantsAssumption
  <1>2. \A x \in Stream : x # s => conn'[x] = conn[x]
    BY DEF TypeOK, ConnTypeOK
  <1>3. \A i \in Instance, r \in Runtime : byRuntime[i][r] \in Stream \cup {None}
    BY DEF TypeOK, RegistryTypeOK
  <1>4. conn'[s].pc \notin HoldingPC
    BY DEF TypeOK, ConnTypeOK
  <1> QED
    BY <1>1, <1>2, <1>3, <1>4 DEF RegistryInv, RegistryConsistent

\* Closing entries, whether or not the handler that closes them moves on.
LEMMA RegistryClose ==
    ASSUME TypeOK, RegistryInv, NEW i \in Instance, NEW R \in SUBSET Runtime, CloseEntries(i, R),
           \A x \in Stream :
              /\ conn'[x].at = conn[x].at /\ conn'[x].rt = conn[x].rt /\ conn'[x].key = conn[x].key
              /\ conn'[x].pc \in HoldingPC => conn[x].pc \in HoldingPC
              /\ conn[x].pc \in HoldingPC /\ x \notin closed' => conn'[x].pc \in HoldingPC
    PROVE  RegistryInv'
  <1> DEFINE gone == {r \in R : byRuntime[i][r] # None}
  <1>1. \A j \in Instance, r \in Runtime : byRuntime[j][r] \in Stream \cup {None}
    BY DEF TypeOK, RegistryTypeOK
  <1>2. \A j \in Instance, r \in Runtime :
           byRuntime'[j][r] = IF j = i /\ r \in gone THEN None ELSE byRuntime[j][r]
    BY DEF CloseEntries, TypeOK, RegistryTypeOK
  <1>3. closed' = closed \cup {byRuntime[i][r] : r \in gone}
    BY DEF CloseEntries
  <1>4. \A j \in Instance, k \in Key : byKey'[j][k] =
           IF j = i THEN byKey[i][k] \ {r \in gone : conn[byRuntime[i][r]].key = k} ELSE byKey[j][k]
    BY DEF CloseEntries, TypeOK, RegistryTypeOK
  <1>5. \A j \in Instance, r \in Runtime : byRuntime'[j][r] # None =>
           /\ byRuntime'[j][r] = byRuntime[j][r]
           /\ byRuntime[j][r] \notin closed'
    <2> SUFFICES ASSUME NEW j \in Instance, NEW r \in Runtime, byRuntime'[j][r] # None
                 PROVE  byRuntime'[j][r] = byRuntime[j][r] /\ byRuntime[j][r] \notin closed'
      OBVIOUS
    <2>1. byRuntime'[j][r] = byRuntime[j][r] /\ ~(j = i /\ r \in gone)
      BY <1>2
    <2>2. byRuntime[j][r] \notin closed
      BY <2>1 DEF RegistryInv, RegistryConsistent
    <2>3. ASSUME NEW q \in gone, byRuntime[i][q] = byRuntime[j][r]
          PROVE  FALSE
      BY <2>1, <2>3 DEF RegistryInv, RegistryConsistent
    <2> QED
      BY <1>3, <2>1, <2>2, <2>3
  <1>6. ASSUME NEW j \in Instance
        PROVE  /\ \A r \in Runtime : byRuntime'[j][r] # None =>
                     /\ conn'[byRuntime'[j][r]].at = j
                     /\ conn'[byRuntime'[j][r]].rt = r
                     /\ byRuntime'[j][r] \notin closed'
                     /\ conn'[byRuntime'[j][r]].pc \in HoldingPC
               /\ \A k \in Key : byKey'[j][k] =
                     {r \in Runtime : byRuntime'[j][r] # None /\ conn'[byRuntime'[j][r]].key = k}
    <2>1. \A r \in Runtime : byRuntime'[j][r] # None =>
             /\ conn'[byRuntime'[j][r]].at = j
             /\ conn'[byRuntime'[j][r]].rt = r
             /\ byRuntime'[j][r] \notin closed'
             /\ conn'[byRuntime'[j][r]].pc \in HoldingPC
      BY <1>1, <1>5 DEF RegistryInv, RegistryConsistent
    <2>2. ASSUME NEW k \in Key
          PROVE  byKey'[j][k] =
                   {r \in Runtime : byRuntime'[j][r] # None /\ conn'[byRuntime'[j][r]].key = k}
      <3>1. byKey[j][k] = {r \in Runtime : byRuntime[j][r] # None /\ conn[byRuntime[j][r]].key = k}
        BY DEF RegistryInv, RegistryConsistent
      <3>2. ASSUME NEW r \in Runtime
            PROVE  byRuntime'[j][r] # None /\ conn'[byRuntime'[j][r]].key = k <=> r \in byKey'[j][k]
        <4>1. r \in byKey[j][k] <=> byRuntime[j][r] # None /\ conn[byRuntime[j][r]].key = k
          BY <3>1
        <4>2. CASE j = i /\ r \in gone
          <5>1. byRuntime'[j][r] = None
            BY <1>2, <4>2
          <5>2. byKey'[i][k] = byKey[i][k] \ {q \in gone : conn[byRuntime[i][q]].key = k}
            BY <1>4
          <5>3. r \notin byKey'[i][k]
            BY <4>1, <4>2, <5>2
          <5> QED
            BY <4>2, <5>1, <5>3
        <4>3. CASE ~(j = i /\ r \in gone)
          <5>1. byRuntime'[j][r] = byRuntime[j][r] /\ (r \in byKey'[j][k] <=> r \in byKey[j][k])
            BY <1>2, <1>4, <4>3
          <5>2. byRuntime[j][r] # None => conn'[byRuntime[j][r]].key = conn[byRuntime[j][r]].key
            BY <1>1
          <5> QED
            BY <4>1, <5>1, <5>2
        <4> QED
          BY <4>2, <4>3
      <3>3. byKey'[j][k] \subseteq Runtime
        BY <1>4, <3>1
      <3> QED
        BY <3>2, <3>3
    <2> QED
      BY <2>1, <2>2
  <1>7. ASSUME NEW x \in Stream, conn'[x].pc \in HoldingPC, x \notin closed'
        PROVE  byRuntime'[conn'[x].at][conn'[x].rt] = x
    <2>1. conn[x].pc \in HoldingPC /\ x \notin closed
      BY <1>3, <1>7
    <2>2. byRuntime[conn[x].at][conn[x].rt] = x
      BY <2>1 DEF RegistryInv
    <2>3. conn[x].at \in Instance /\ conn[x].rt \in Runtime
      BY <2>1 DEF TypeOK, ConnTypeOK, HoldingPC, ServingPC
    <2>4. ~(conn[x].at = i /\ conn[x].rt \in gone)
      BY <1>3, <1>7, <2>2
    <2> QED
      BY <1>2, <2>2, <2>3, <2>4
  <1> QED
    BY <1>6, <1>7 DEF RegistryInv, RegistryConsistent

\* Entering a stream, and closing the one it supersedes.
LEMMA RegistryReplace ==
    ASSUME TypeOK, RegistryInv, NEW s \in Stream, conn[s].pc = "register",
           Goto(s, "ack"), ReplaceEntry(s)
    PROVE  RegistryInv'
  <1> DEFINE i == conn[s].at
             r == conn[s].rt
             old == byRuntime[i][r]
  <1>0. i \in Instance /\ r \in Runtime
    BY DEF TypeOK, ConnTypeOK
  <1>1. \A j \in Instance, q \in Runtime : byRuntime[j][q] \in Stream \cup {None}
    BY DEF TypeOK, RegistryTypeOK
  <1>2. \A j \in Instance, q \in Runtime :
           byRuntime'[j][q] = IF j = i /\ q = r THEN s ELSE byRuntime[j][q]
    BY <1>0 DEF ReplaceEntry, TypeOK, RegistryTypeOK
  <1>3. closed' = (closed \cup ({old} \ {None})) \ {s}
    BY DEF ReplaceEntry
  <1>4. \A j \in Instance, k \in Key : byKey'[j][k] =
           IF j = i
           THEN (byKey[i][k] \ (IF old # None /\ conn[old].key = k THEN {r} ELSE {}))
                   \cup (IF conn[s].key = k THEN {r} ELSE {})
           ELSE byKey[j][k]
    BY <1>0 DEF ReplaceEntry, TypeOK, RegistryTypeOK
  <1>41. ASSUME NEW j \in Instance, NEW k \in Key, NEW q
         PROVE  q \in byKey'[j][k] <=>
                   \/ q \in byKey[j][k] /\ ~(j = i /\ q = r /\ old # None /\ conn[old].key = k)
                   \/ j = i /\ q = r /\ conn[s].key = k
    <2> DEFINE A == IF old # None /\ conn[old].key = k THEN {r} ELSE {}
               B == IF conn[s].key = k THEN {r} ELSE {}
    <2>1. q \in A <=> q = r /\ old # None /\ conn[old].key = k
      OBVIOUS
    <2>2. q \in B <=> q = r /\ conn[s].key = k
      OBVIOUS
    <2>3. byKey'[j][k] = IF j = i THEN (byKey[i][k] \ A) \cup B ELSE byKey[j][k]
      BY <1>4
    <2> HIDE DEF A, B, i, r, old
    <2> QED
      BY <2>1, <2>2, <2>3
  <1>5. /\ \A x \in Stream : /\ conn'[x].at = conn[x].at /\ conn'[x].rt = conn[x].rt
                             /\ conn'[x].key = conn[x].key
                             /\ x # s => conn'[x].pc = conn[x].pc
        /\ conn'[s].pc = "ack"
    BY DEF Goto, TypeOK, ConnTypeOK
  <1>6. \A j \in Instance, q \in Runtime : byRuntime[j][q] # s
    BY ConstantsAssumption
    DEF RegistryInv, HoldingPC, ServingPC, ConstantsAssumption
  <1>7. s # None
    BY ConstantsAssumption DEF ConstantsAssumption
  <1>8. ASSUME NEW j \in Instance, NEW q \in Runtime, byRuntime'[j][q] # None
        PROVE  /\ conn'[byRuntime'[j][q]].at = j
               /\ conn'[byRuntime'[j][q]].rt = q
               /\ byRuntime'[j][q] \notin closed'
               /\ conn'[byRuntime'[j][q]].pc \in HoldingPC
    <2>1. CASE j = i /\ q = r
      BY <1>2, <1>3, <1>5, <2>1 DEF HoldingPC
    <2>2. CASE ~(j = i /\ q = r)
      <3>1. byRuntime'[j][q] = byRuntime[j][q] /\ byRuntime[j][q] # None
        BY <1>2, <1>8, <2>2
      <3>2. /\ conn[byRuntime[j][q]].at = j
            /\ conn[byRuntime[j][q]].rt = q
            /\ byRuntime[j][q] \notin closed
            /\ conn[byRuntime[j][q]].pc \in HoldingPC
        BY <3>1 DEF RegistryInv, RegistryConsistent
      <3>3. byRuntime[j][q] # old
        <4>1. CASE old = None
          BY <3>1, <4>1
        <4>2. CASE old # None
          BY <1>0, <2>2, <3>2, <4>2 DEF RegistryInv, RegistryConsistent
        <4> QED
          BY <4>1, <4>2
      <3> QED
        BY <1>1, <1>3, <1>5, <1>6, <3>1, <3>2, <3>3
    <2> QED
      BY <2>1, <2>2
  <1>9. ASSUME NEW j \in Instance, NEW k \in Key
        PROVE  byKey'[j][k] =
                 {q \in Runtime : byRuntime'[j][q] # None /\ conn'[byRuntime'[j][q]].key = k}
    <2>1. byKey[j][k] = {q \in Runtime : byRuntime[j][q] # None /\ conn[byRuntime[j][q]].key = k}
      BY DEF RegistryInv, RegistryConsistent
    <2>2. ASSUME NEW q \in Runtime
          PROVE  byRuntime'[j][q] # None /\ conn'[byRuntime'[j][q]].key = k <=> q \in byKey'[j][k]
      <3>1. CASE j = i /\ q = r
        <4>1. byRuntime'[j][q] = s
          BY <1>2, <3>1
        <4>2. conn'[s].key = conn[s].key
          BY <1>5
        <4>3. q \in byKey'[j][k] <=> conn[s].key = k
          BY <1>41, <2>1, <3>1
        <4> QED
          BY <1>7, <4>1, <4>2, <4>3
      <3>2. CASE ~(j = i /\ q = r)
        <4>1. byRuntime'[j][q] = byRuntime[j][q]
          BY <1>2, <3>2
        <4>2. q \in byKey'[j][k] <=> q \in byKey[j][k]
          BY <1>41, <3>2
        <4>3. byRuntime[j][q] # None => conn'[byRuntime[j][q]].key = conn[byRuntime[j][q]].key
          BY <1>1, <1>5
        <4> QED
          BY <2>1, <4>1, <4>2, <4>3
      <3> QED
        BY <3>1, <3>2
    <2>3. byKey'[j][k] \subseteq Runtime
      BY <1>0, <1>41, <2>1
    <2> QED
      BY <2>2, <2>3
  <1>10. ASSUME NEW x \in Stream, conn'[x].pc \in HoldingPC, x \notin closed'
         PROVE  byRuntime'[conn'[x].at][conn'[x].rt] = x
    <2>1. CASE x = s
      BY <1>0, <1>2, <1>5, <2>1
    <2>2. CASE x # s
      <3>1. conn[x].pc \in HoldingPC /\ x \notin closed /\ x # old
        BY <1>3, <1>5, <1>10, <2>2, ConstantsAssumption DEF ConstantsAssumption
      <3>2. byRuntime[conn[x].at][conn[x].rt] = x
        BY <3>1 DEF RegistryInv
      <3>3. conn[x].at \in Instance /\ conn[x].rt \in Runtime
        BY <3>1 DEF TypeOK, ConnTypeOK, HoldingPC, ServingPC
      <3>4. ~(conn[x].at = i /\ conn[x].rt = r)
        BY <3>1, <3>2
      <3> QED
        BY <1>2, <1>5, <3>2, <3>3, <3>4
    <2> QED
      BY <2>1, <2>2
  <1> QED
    BY <1>8, <1>9, <1>10 DEF RegistryInv, RegistryConsistent

\* The death of a process takes its entries and its handlers.
LEMMA RegistryCrash ==
    ASSUME TypeOK, RegistryInv, NEW i \in Instance, Crash(i)
    PROVE  RegistryInv'
  <1>1. \A j \in Instance, r \in Runtime :
           /\ byRuntime[j][r] \in Stream \cup {None}
           /\ byRuntime'[j][r] = IF j = i THEN None ELSE byRuntime[j][r]
    BY DEF Crash, TypeOK, RegistryTypeOK
  <1>2. \A j \in Instance, k \in Key : byKey'[j][k] = IF j = i THEN {} ELSE byKey[j][k]
    BY DEF Crash, TypeOK, RegistryTypeOK
  <1>3. \A x \in Stream : conn'[x] = IF conn[x].at = i THEN FreeConn ELSE conn[x]
    BY DEF Crash
  <1>4. closed' \subseteq closed /\ \A x \in closed : conn[x].at # i => x \in closed'
    BY DEF Crash
  <1>5. FreeConn.pc \notin HoldingPC
    BY DEF FreeConn, NewConn, HoldingPC, ServingPC
  <1>6. \A x \in Stream : conn[x].pc \in HoldingPC => conn[x].at \in Instance /\ conn[x].rt \in Runtime
    BY DEF TypeOK, ConnTypeOK, HoldingPC, ServingPC
  <1>7. ASSUME NEW j \in Instance
        PROVE  /\ \A r \in Runtime : byRuntime'[j][r] # None =>
                     /\ conn'[byRuntime'[j][r]].at = j
                     /\ conn'[byRuntime'[j][r]].rt = r
                     /\ byRuntime'[j][r] \notin closed'
                     /\ conn'[byRuntime'[j][r]].pc \in HoldingPC
               /\ \A k \in Key : byKey'[j][k] =
                     {r \in Runtime : byRuntime'[j][r] # None /\ conn'[byRuntime'[j][r]].key = k}
    <2>1. CASE j = i
      BY <1>1, <1>2, <2>1
    <2>2. CASE j # i
      BY <1>1, <1>2, <1>3, <1>4, <2>2 DEF RegistryInv, RegistryConsistent
    <2> QED
      BY <2>1, <2>2
  <1>8. ASSUME NEW x \in Stream, conn'[x].pc \in HoldingPC, x \notin closed'
        PROVE  byRuntime'[conn'[x].at][conn'[x].rt] = x
    BY <1>1, <1>3, <1>4, <1>5, <1>6, <1>8 DEF RegistryInv
  <1> QED
    BY <1>7, <1>8 DEF RegistryInv, RegistryConsistent

\* A handler that goes to a step on the same side of the registration (Goto).
LEMMA RegistryGoto ==
    ASSUME TypeOK, RegistryInv, NEW s \in Stream, NEW pc, Goto(s, pc), UNCHANGED registryVars,
           pc \in HoldingPC <=> conn[s].pc \in HoldingPC
    PROVE  RegistryInv'
  <1> DEFINE c == [conn[s] EXCEPT !.pc = pc]
  <1>1. c.at = conn[s].at /\ c.rt = conn[s].rt /\ c.key = conn[s].key /\ c.pc = pc
    BY DEF TypeOK, ConnTypeOK, ConnType
  <1>2. conn' = [conn EXCEPT ![s] = c]
    BY DEF Goto
  <1> HIDE DEF c
  <1> QED
    BY <1>1, <1>2, RegistryMove

\* A handler that returns before it is registered, or after it took its entry out (Return).
LEMMA RegistryReturn ==
    ASSUME TypeOK, RegistryInv, NEW s \in Stream, Return(s), conn[s].pc \notin HoldingPC,
           closed' = closed \/ closed' = closed \ {s}, UNCHANGED <<byRuntime, byKey>>
    PROVE  RegistryInv'
  <1>1. FreeConn.pc \notin HoldingPC
    BY DEF FreeConn, NewConn, HoldingPC, ServingPC
  <1> QED
    BY <1>1, RegistryRecycle DEF Return

\* The statements of the database, which touch neither handlers nor registries.
LEMMA RegistryFrame ==
    ASSUME RegistryInv, UNCHANGED <<conn, registryVars>>
    PROVE  RegistryInv'
  BY DEF RegistryInv, RegistryConsistent, registryVars

\* A handler that has a token or a frame to remember moves inside one side.
LEMMA RegistryStep ==
    ASSUME TypeOK, RegistryInv, NEW s \in Stream, NEW pc, NEW v, UNCHANGED registryVars,
           pc \in HoldingPC <=> conn[s].pc \in HoldingPC,
           \/ conn' = [conn EXCEPT ![s] = [@ EXCEPT !.pc = pc, !.tok = v]]
           \/ conn' = [conn EXCEPT ![s] = [@ EXCEPT !.pc = pc, !.frame = v]]
    PROVE  RegistryInv'
  <1>1. CASE conn' = [conn EXCEPT ![s] = [@ EXCEPT !.pc = pc, !.tok = v]]
    <2> DEFINE c == [conn[s] EXCEPT !.pc = pc, !.tok = v]
    <2>1. c.at = conn[s].at /\ c.rt = conn[s].rt /\ c.key = conn[s].key /\ c.pc = pc
      BY DEF TypeOK, ConnTypeOK, ConnType
    <2>2. conn' = [conn EXCEPT ![s] = c]
      BY <1>1
    <2> HIDE DEF c
    <2> QED
      BY <2>1, <2>2, RegistryMove
  <1>2. CASE conn' = [conn EXCEPT ![s] = [@ EXCEPT !.pc = pc, !.frame = v]]
    <2> DEFINE c == [conn[s] EXCEPT !.pc = pc, !.frame = v]
    <2>1. c.at = conn[s].at /\ c.rt = conn[s].rt /\ c.key = conn[s].key /\ c.pc = pc
      BY DEF TypeOK, ConnTypeOK, ConnType
    <2>2. conn' = [conn EXCEPT ![s] = c]
      BY <1>2
    <2> HIDE DEF c
    <2> QED
      BY <2>1, <2>2, RegistryMove
  <1> QED
    BY <1>1, <1>2

\* Init satisfies the invariant, and every step keeps it.
LEMMA RegistryInit == Init => RegistryInv
  <1> SUFFICES ASSUME Init PROVE RegistryInv
    OBVIOUS
  <1>1. \A s \in Stream : conn[s].pc \notin HoldingPC
    BY DEF Init, FreeConn, NewConn, HoldingPC, ServingPC
  <1>2. \A i \in Instance : /\ \A r \in Runtime : byRuntime[i][r] = None
                            /\ \A k \in Key : byKey[i][k] = {}
    BY DEF Init
  <1> QED
    BY <1>1, <1>2 DEF RegistryInv, RegistryConsistent

\* Every step keeps the registry consistent.
LEMMA RegistryNext == TypeOK /\ RegistryInv /\ [Next]_vars => RegistryInv'
  <1> SUFFICES ASSUME TypeOK, RegistryInv, [Next]_vars
               PROVE  RegistryInv'
    OBVIOUS
  <1>1. ASSUME NEW s \in Stream, Admission(s)
        PROVE  RegistryInv'
    <2>1. CASE Register(s)
      <3>1. "register" \notin HoldingPC
        BY DEF HoldingPC, ServingPC
      <3> QED
        BY <2>1, <3>1, RegistryReplace, RegistryReturn DEF Register, registryVars
    <2>2. CASE IssueRuntimeChannelLease(s) \/ RotateRuntimeChannelLease(s)
      <3>1. {"lease", "rotate", "owner"} \cap HoldingPC = {}
        BY DEF HoldingPC, ServingPC
      <3>2. \/ conn' = [conn EXCEPT ![s] = [@ EXCEPT !.pc = "owner", !.tok = lastToken + 1]]
            \/ Return(s)
        BY <2>2 DEF IssueRuntimeChannelLease, NewLease, RotateRuntimeChannelLease
      <3>3. conn[s].pc \in {"lease", "rotate"} /\ UNCHANGED registryVars
        BY <2>2 DEF IssueRuntimeChannelLease, NewLease, RotateRuntimeChannelLease
      <3>4. CASE Return(s)
        BY <3>1, <3>3, <3>4, RegistryReturn DEF registryVars
      <3>5. CASE conn' = [conn EXCEPT ![s] = [@ EXCEPT !.pc = "owner", !.tok = lastToken + 1]]
        BY <3>1, <3>3, <3>5, RegistryStep
      <3> QED
        BY <3>2, <3>4, <3>5
    <2>3. CASE SendHelloAck(s) \/ HelloAckFails(s)
      <3>1. {"ack", "loop", "leaked"} \subseteq HoldingPC
        BY DEF HoldingPC, ServingPC
      <3> QED
        BY <2>3, <3>1, RegistryGoto DEF SendHelloAck, HelloAckFails
    <2>4. CASE \/ CreateOrReplaceKeyedRuntime(s) \/ CreateOrReplaceBareRuntime(s)
               \/ RecordConnectionOwner(s) \/ AbortAdmission(s)
      <3>1. {"upsert", "lease", "rotate", "owner", "register"} \cap HoldingPC = {}
        BY DEF HoldingPC, ServingPC
      <3> QED
        BY <2>4, <3>1, RegistryGoto, RegistryReturn
        DEF CreateOrReplaceKeyedRuntime, CreateOrReplaceBareRuntime, RecordConnectionOwner,
            AbortAdmission, registryVars
    <2> QED
      BY <1>1, <2>1, <2>2, <2>3, <2>4 DEF Admission
  <1>2. ASSUME NEW s \in Stream, Loop(s)
        PROVE  RegistryInv'
    <2>1. CASE Unregister(s)
      <3>1. conn[s].at \in Instance /\ conn[s].rt \in Runtime
        BY <2>1 DEF Unregister, TypeOK, ConnTypeOK
      <3>2. \A x \in Stream :
               /\ conn'[x].at = conn[x].at /\ conn'[x].rt = conn[x].rt /\ conn'[x].key = conn[x].key
               /\ x # s => conn'[x].pc = conn[x].pc
        BY <2>1 DEF Unregister, Goto, TypeOK, ConnTypeOK
      <3>3. conn'[s].pc = "clear" /\ conn[s].pc = "unregister"
        BY <2>1 DEF Unregister, Goto, TypeOK, ConnTypeOK, ConnType
      <3>4. "unregister" \in HoldingPC /\ "clear" \notin HoldingPC
        BY DEF HoldingPC, ServingPC
      <3>5. s \in closed'
        <4>1. CASE s \in closed
          BY <2>1, <4>1 DEF Unregister, CloseEntries
        <4>2. CASE s \notin closed
          <5>1. byRuntime[conn[s].at][conn[s].rt] = s
            BY <3>3, <3>4, <4>2 DEF RegistryInv
          <5> QED
            BY <2>1, <5>1, ConstantsAssumption DEF Unregister, CloseEntries, ConstantsAssumption
        <4> QED
          BY <4>1, <4>2
      <3> QED
        BY <2>1, <3>1, <3>2, <3>3, <3>4, <3>5, RegistryClose DEF Unregister
    <2>2. CASE ClearConnectionOwner(s)
      <3>1. "clear" \notin HoldingPC
        BY DEF HoldingPC, ServingPC
      <3> QED
        BY <2>2, <3>1, RegistryReturn DEF ClearConnectionOwner
    <2>3. CASE OtherFrame(s) \/ Heartbeat(s)
      <3>1. {"loop", "beat", "unregister"} \subseteq HoldingPC
        BY DEF HoldingPC, ServingPC
      <3> QED
        BY <2>3, <3>1, RegistryStep, RegistryGoto DEF OtherFrame, Heartbeat
    <2>4. CASE \/ RecordHeartbeat(s) \/ RecordOwnerAgain(s) \/ SendHeartbeatAck(s)
               \/ LoopClosed(s) \/ LoopIdle(s) \/ LoopFails(s)
      <3>1. {"loop", "beat", "reown", "beatack", "unregister"} \subseteq HoldingPC
        BY DEF HoldingPC, ServingPC
      <3> QED
        BY <2>4, <3>1, RegistryGoto
        DEF RecordHeartbeat, RecordOwnerAgain, SendHeartbeatAck, LoopClosed, LoopIdle, LoopFails
    <2> QED
      BY <1>2, <2>1, <2>2, <2>3, <2>4 DEF Loop
  <1>3. ASSUME NEW s \in Stream, Connect(s)
        PROVE  RegistryInv'
    <2>1. conn[s].pc \notin HoldingPC \/ s \in closed
      BY <1>3 DEF Connect, Hello, Resume, Available, HoldingPC, ServingPC
    <2>2. \A i, r, k, tok : /\ NewConn("upsert", i, r, k, tok).pc \notin HoldingPC
                            /\ NewConn("rotate", i, r, k, tok).pc \notin HoldingPC
      BY DEF NewConn, HoldingPC, ServingPC
    <2>3. ASSUME NEW i, NEW r, NEW k, Hello(s, i, r, k)
          PROVE  RegistryInv'
      BY <2>1, <2>2, <2>3, RegistryRecycle DEF Hello
    <2>4. ASSUME NEW i, NEW r, NEW t, Resume(s, i, r, t)
          PROVE  RegistryInv'
      BY <2>1, <2>2, <2>4, RegistryRecycle DEF Resume
    <2> QED
      BY <1>3, <2>3, <2>4 DEF Connect
  <1>4. ASSUME NEW k \in Key, Revoke(k)
        PROVE  RegistryInv'
    <2>1. CASE CloseByKeyID(k)
      <3>1. revokeCall[k].at \in Instance
        BY <2>1 DEF CloseByKeyID, TypeOK, AdminTypeOK
      <3>2. byKey[revokeCall[k].at][k] \in SUBSET Runtime
        BY <3>1 DEF TypeOK, RegistryTypeOK
      <3> QED
        BY <2>1, <3>1, <3>2, RegistryClose DEF CloseByKeyID
    <2>2. CASE ~CloseByKeyID(k)
      BY <1>4, <2>2, RegistryFrame
      DEF Revoke, RevokeRuntimeCredential, EndRuntimesByCredentialKey,
          EndRuntimesByCredentialKeyFails
    <2> QED
      BY <2>1, <2>2
  <1>5. ASSUME NEW r \in Runtime, End(r)
        PROVE  RegistryInv'
    <2>1. CASE CloseStreamForRuntime(r)
      <3>1. endCall[r].at \in Instance
        BY <2>1 DEF CloseStreamForRuntime, TypeOK, AdminTypeOK
      <3> QED
        BY <2>1, <3>1, RegistryClose DEF CloseStreamForRuntime
    <2>2. CASE ~CloseStreamForRuntime(r)
      BY <1>5, <2>2, RegistryFrame DEF End, EndRuntime, EndRuntimeRefused, EndRuntimeRow
    <2> QED
      BY <2>1, <2>2
  <1>6. ASSUME NEW r \in Runtime, HeartbeatAges(r) \/ LeaseExpires(r)
        PROVE  RegistryInv'
    BY <1>6, RegistryFrame DEF HeartbeatAges, LeaseExpires
  <1>7. ASSUME NEW i \in Instance, Process(i)
        PROVE  RegistryInv'
    BY <1>7, RegistryFrame, RegistryCrash
    DEF Process, MarkStaleRuntimesUnhealthy, EndDeadRuntimes
  <1>8. CASE UNCHANGED vars
    BY <1>8, RegistryFrame DEF vars
  <1> QED
    BY <1>1, <1>2, <1>3, <1>4, <1>5, <1>6, <1>7, <1>8 DEF Next

\* The two indexes of every registry agree with each other and with the handlers, and no
\* entry refers to a closed stream (registry.go: Register, Unregister, Close*).
THEOREM RegistryIsConsistent == Spec => []RegistryConsistent
  <1>1. RegistryInv => RegistryConsistent
    BY DEF RegistryInv
  <1> QED
    BY <1>1, InitType, NextType, RegistryInit, RegistryNext, PTL DEF Spec

\* A handler that serves an open stream is found by its runtime id, so whoever revokes,
\* ends or supersedes it reaches it.
THEOREM ServingStreamIsRegistered == Spec => []ServingIsRegistered
  <1>1. RegistryInv => ServingIsRegistered
    BY DEF RegistryInv, ServingIsRegistered, HoldingPC
  <1> QED
    BY <1>1, InitType, NextType, RegistryInit, RegistryNext, PTL DEF Spec

-----------------------------------------------------------------------------
(* Rows and credentials *)

\* Rows keep their credential, and what has ended stays ended.
RowsKept ==
    \A r \in Runtime :
       /\ row'[r].key = row[r].key
       /\ row'[r].status = "none" <=> row[r].status = "none"
       /\ row[r].status \in Terminal => row'[r].status = row[r].status

\* Credentials only move towards revocation, and keep who consumed them.
CredsKept ==
    \A k \in Key :
       /\ cred'[k].by = cred[k].by
       /\ cred'[k].status = "issued" => cred[k].status = "issued"
       /\ cred[k].status = "revoked" => cred'[k].status = "revoked"

\* EndRows, whoever calls it, changes only rows that have not ended.
LEMMA EndRowsKept ==
    ASSUME TypeOK, NEW R, NEW st \in Status \ {"none"}, EndRows(R, st),
           \A r \in R : r \in Runtime => NonTerminal(r)
    PROVE  RowsKept
  <1> SUFFICES ASSUME NEW r \in Runtime
               PROVE  /\ row'[r].key = row[r].key
                      /\ row'[r].status = "none" <=> row[r].status = "none"
                      /\ row[r].status \in Terminal => row'[r].status = row[r].status
    BY DEF RowsKept
  <1>1. row[r] \in RowType
    BY DEF TypeOK, DbTypeOK
  <1>2. row'[r] = IF r \in R THEN [row[r] EXCEPT !.status = st] ELSE row[r]
    BY DEF EndRows
  <1> QED
    BY <1>1, <1>2 DEF RowType, NonTerminal

\* Only the two upserts do more to a row than that.
LEMMA RowsOfStep ==
    ASSUME TypeOK, Next
    PROVE  \/ RowsKept /\ CredsKept
           \/ \E s \in Stream : CreateOrReplaceKeyedRuntime(s) \/ CreateOrReplaceBareRuntime(s)
  <1>0. row' = row => RowsKept
    BY DEF RowsKept
  <1>1. cred' = cred => CredsKept
    BY DEF CredsKept
  <1>2. \A i \in Instance, r \in Runtime :
           row' = [row EXCEPT ![r].owner = i] => RowsKept
    BY DEF RowsKept, TypeOK, DbTypeOK, RowType
  <1>3. ASSUME NEW s \in Stream, Admission(s)
        PROVE  \/ RowsKept /\ CredsKept
               \/ CreateOrReplaceKeyedRuntime(s) \/ CreateOrReplaceBareRuntime(s)
    <2>1. CASE RecordConnectionOwner(s)
      <3>1. conn[s].at \in Instance /\ conn[s].rt \in Runtime
        BY <2>1 DEF RecordConnectionOwner, TypeOK, ConnTypeOK
      <3> QED
        BY <1>0, <1>1, <1>2, <2>1, <3>1 DEF RecordConnectionOwner, OwnerRecorded
    <2>2. CASE \/ IssueRuntimeChannelLease(s) \/ RotateRuntimeChannelLease(s) \/ Register(s)
               \/ SendHelloAck(s) \/ HelloAckFails(s) \/ AbortAdmission(s)
      BY <1>0, <1>1, <2>2
      DEF IssueRuntimeChannelLease, NewLease, RotateRuntimeChannelLease, Register, SendHelloAck,
          HelloAckFails, AbortAdmission, dbVars
    <2> QED
      BY <1>3, <2>1, <2>2 DEF Admission
  <1>4. ASSUME NEW s \in Stream, Loop(s)
        PROVE  RowsKept /\ CredsKept
    <2>1. CASE RecordHeartbeat(s)
      <3>1. conn[s].rt \in Runtime
        BY <2>1 DEF RecordHeartbeat, TypeOK, ConnTypeOK
      <3>2. CASE HeartbeatAdmitted(conn[s].rt)
        <4>1. row' = [row EXCEPT ![conn[s].rt] = [@ EXCEPT !.hb = 0, !.status = "active"]]
          BY <2>1, <3>2 DEF RecordHeartbeat
        <4>2. \A r \in Runtime \ {conn[s].rt} : row'[r] = row[r]
          BY <4>1 DEF TypeOK, DbTypeOK
        <4>3. row'[conn[s].rt] = [row[conn[s].rt] EXCEPT !.hb = 0, !.status = "active"]
          BY <3>1, <4>1 DEF TypeOK, DbTypeOK
        <4>4. row[conn[s].rt] \in RowType
          BY <3>1 DEF TypeOK, DbTypeOK
        <4>5. row'[conn[s].rt].key = row[conn[s].rt].key /\ row'[conn[s].rt].status = "active"
          BY <4>3, <4>4 DEF RowType
        <4> QED
          BY <1>1, <2>1, <3>1, <3>2, <4>2, <4>5
          DEF RecordHeartbeat, HeartbeatAdmitted, NonTerminal, RowsKept
      <3>3. CASE ~HeartbeatAdmitted(conn[s].rt)
        BY <1>0, <1>1, <2>1, <3>3 DEF RecordHeartbeat
      <3> QED
        BY <3>2, <3>3
    <2>2. CASE RecordOwnerAgain(s)
      <3>1. conn[s].at \in Instance /\ conn[s].rt \in Runtime
        BY <2>2 DEF RecordOwnerAgain, TypeOK, ConnTypeOK
      <3> QED
        BY <1>0, <1>1, <1>2, <2>2, <3>1 DEF RecordOwnerAgain, OwnerRecorded
    <2>3. CASE ClearConnectionOwner(s)
      <3>1. \A r \in Runtime : row' = [row EXCEPT ![r].owner = None] => RowsKept
        BY DEF RowsKept, TypeOK, DbTypeOK, RowType
      <3>2. conn[s].rt \in Runtime
        BY <2>3 DEF ClearConnectionOwner, TypeOK, ConnTypeOK
      <3> QED
        BY <1>0, <1>1, <2>3, <3>1, <3>2 DEF ClearConnectionOwner
    <2>4. CASE \/ Heartbeat(s) \/ OtherFrame(s) \/ SendHeartbeatAck(s) \/ LoopClosed(s)
               \/ LoopIdle(s) \/ LoopFails(s) \/ Unregister(s)
      BY <1>0, <1>1, <2>4
      DEF Heartbeat, OtherFrame, SendHeartbeatAck, LoopClosed, LoopIdle, LoopFails, Unregister,
          dbVars
    <2> QED
      BY <1>4, <2>1, <2>2, <2>3, <2>4 DEF Loop
  <1>5. ASSUME NEW s \in Stream, Connect(s)
        PROVE  RowsKept /\ CredsKept
    BY <1>0, <1>1, <1>5 DEF Connect, Hello, Resume, dbVars
  <1>6. ASSUME NEW k \in Key, Revoke(k)
        PROVE  RowsKept /\ CredsKept
    <2>1. ASSUME NEW i \in Instance, RevokeRuntimeCredential(i, k)
          PROVE  RowsKept /\ CredsKept
      BY <1>0, <2>1 DEF RevokeRuntimeCredential, CredsKept, TypeOK, DbTypeOK
    <2>2. CASE EndRuntimesByCredentialKey(k)
      <3>1. "failed" \in Status \ {"none"}
        BY DEF Status, Terminal
      <3> QED
        BY <1>1, <2>2, <3>1, EndRowsKept DEF EndRuntimesByCredentialKey, RowsOfKey
    <2>3. CASE CloseByKeyID(k) \/ EndRuntimesByCredentialKeyFails(k)
      BY <1>0, <1>1, <2>3 DEF CloseByKeyID, EndRuntimesByCredentialKeyFails, dbVars
    <2> QED
      BY <1>6, <2>1, <2>2, <2>3 DEF Revoke
  <1>7. ASSUME NEW r \in Runtime, End(r)
        PROVE  RowsKept /\ CredsKept
    <2>1. CASE EndRuntimeRow(r)
      <3>1. "cancelled" \in Status \ {"none"}
        BY DEF Status, Terminal
      <3> QED
        BY <1>1, <2>1, <3>1, EndRowsKept DEF EndRuntimeRow
    <2>2. CASE ~EndRuntimeRow(r)
      BY <1>0, <1>1, <1>7, <2>2
      DEF End, EndRuntime, EndRuntimeRefused, CloseStreamForRuntime, dbVars
    <2> QED
      BY <2>1, <2>2
  <1>8. ASSUME NEW r \in Runtime, HeartbeatAges(r) \/ LeaseExpires(r)
        PROVE  RowsKept /\ CredsKept
    BY <1>0, <1>1, <1>8 DEF HeartbeatAges, LeaseExpires, RowsKept, TypeOK, DbTypeOK, RowType
  <1>9. ASSUME NEW i \in Instance, Process(i)
        PROVE  RowsKept /\ CredsKept
    <2>1. {"unhealthy", "heartbeat_stale"} \subseteq Status \ {"none"}
      BY DEF Status, Terminal
    <2>2. \A r \in Runtime : Stale(r) \/ Dead(r) => NonTerminal(r)
      BY DEF Stale, Dead, NonTerminal, Terminal
    <2>3. CASE MarkStaleRuntimesUnhealthy(i)
      BY <1>1, <2>1, <2>2, <2>3, EndRowsKept DEF MarkStaleRuntimesUnhealthy
    <2>4. CASE EndDeadRuntimes(i)
      BY <1>1, <2>1, <2>2, <2>4, EndRowsKept DEF EndDeadRuntimes
    <2>5. CASE Crash(i)
      BY <1>0, <1>1, <2>5 DEF Crash, dbVars
    <2> QED
      BY <1>9, <2>3, <2>4, <2>5 DEF Process
  <1> QED
    BY <1>3, <1>4, <1>5, <1>6, <1>7, <1>8, <1>9 DEF Next

\* A credential belongs to the runtime that consumed it: its row, and every handler that
\* was admitted, carry it.
BindingInv ==
    /\ \A r \in Runtime : row[r].status = "none" => row[r].key = None
    /\ \A r \in Runtime : row[r].key # None => cred[row[r].key].by = r
    /\ \A k \in Key : cred[k].status = "issued" => \A r \in Runtime : row[r].key # k
    /\ \A s \in Stream :
          conn[s].pc \in AdmittedPC /\ conn[s].key # None => row[conn[s].rt].key = conn[s].key

\* Where the handlers past admission come from.
HandlersKept ==
    \A x \in Stream : conn'[x].pc \in AdmittedPC =>
       \/ conn[x].pc \in AdmittedPC /\ conn'[x].key = conn[x].key /\ conn'[x].rt = conn[x].rt
       \/ conn'[x].rt \in Runtime /\ row[conn'[x].rt].key = conn'[x].key

\* A handler past admission serves the runtime and the credential its row names; only
\* the upserts make one without reading the row.
LEMMA HandlersOfStep ==
    ASSUME TypeOK, Next
    PROVE  \/ HandlersKept
           \/ \E s \in Stream : CreateOrReplaceKeyedRuntime(s) \/ CreateOrReplaceBareRuntime(s)
  <1>0. conn' = conn => HandlersKept
    BY DEF HandlersKept
  <1>1. ASSUME NEW s \in Stream, NEW c, conn' = [conn EXCEPT ![s] = c], conn[s].pc \in AdmittedPC,
               c.key = conn[s].key, c.rt = conn[s].rt
        PROVE  HandlersKept
    BY <1>1 DEF HandlersKept, TypeOK, ConnTypeOK
  <1>2. ASSUME NEW s \in Stream, NEW pc, Goto(s, pc), conn[s].pc \in AdmittedPC
        PROVE  HandlersKept
    <2>1. [conn[s] EXCEPT !.pc = pc].key = conn[s].key /\ [conn[s] EXCEPT !.pc = pc].rt = conn[s].rt
      BY DEF TypeOK, ConnTypeOK, ConnType
    <2> QED
      BY <1>1, <1>2, <2>1 DEF Goto
  <1>3. ASSUME NEW s \in Stream, Return(s)
        PROVE  HandlersKept
    BY <1>3 DEF HandlersKept, Return, FreeConn, NewConn, AdmittedPC, TypeOK, ConnTypeOK
  <1>4. ASSUME NEW s \in Stream, Admission(s)
        PROVE  \/ HandlersKept
               \/ CreateOrReplaceKeyedRuntime(s) \/ CreateOrReplaceBareRuntime(s)
    <2>1. {"lease", "rotate", "owner", "register", "ack"} \subseteq AdmittedPC
      BY DEF AdmittedPC, PC
    <2>2. CASE IssueRuntimeChannelLease(s) \/ RotateRuntimeChannelLease(s)
      <3> DEFINE c == [conn[s] EXCEPT !.pc = "owner", !.tok = lastToken + 1]
      <3>1. c.key = conn[s].key /\ c.rt = conn[s].rt
        BY DEF TypeOK, ConnTypeOK, ConnType
      <3>2. conn' = [conn EXCEPT ![s] = c] \/ Return(s)
        BY <2>2 DEF IssueRuntimeChannelLease, NewLease, RotateRuntimeChannelLease
      <3>3. conn[s].pc \in AdmittedPC
        BY <2>1, <2>2 DEF IssueRuntimeChannelLease, NewLease, RotateRuntimeChannelLease
      <3> HIDE DEF c
      <3> QED
        BY <1>1, <1>3, <3>1, <3>2, <3>3
    <2>3. CASE RecordConnectionOwner(s) \/ Register(s) \/ SendHelloAck(s) \/ HelloAckFails(s)
      BY <1>2, <1>3, <2>1, <2>3 DEF RecordConnectionOwner, Register, SendHelloAck, HelloAckFails
    <2>4. CASE AbortAdmission(s)
      BY <1>3, <2>4 DEF AbortAdmission
    <2> QED
      BY <1>4, <2>2, <2>3, <2>4 DEF Admission
  <1>5. ASSUME NEW s \in Stream, Loop(s)
        PROVE  HandlersKept
    <2>1. {"loop", "beat", "reown", "beatack", "unregister", "clear"} \subseteq AdmittedPC
      BY DEF AdmittedPC, PC
    <2>2. CASE OtherFrame(s) \/ Heartbeat(s)
      <3> DEFINE c(f) == [conn[s] EXCEPT !.pc = "beat", !.frame = f]
      <3>1. \A f : c(f).key = conn[s].key /\ c(f).rt = conn[s].rt
        BY DEF TypeOK, ConnTypeOK, ConnType
      <3>2. conn' = [conn EXCEPT ![s] = c("other")] \/ conn' = [conn EXCEPT ![s] = c("heartbeat")]
               \/ Goto(s, "unregister")
        BY <2>2 DEF OtherFrame, Heartbeat
      <3>3. conn[s].pc \in AdmittedPC
        BY <2>1, <2>2 DEF OtherFrame, Heartbeat
      <3> HIDE DEF c
      <3> QED
        BY <1>1, <1>2, <3>1, <3>2, <3>3
    <2>3. CASE ClearConnectionOwner(s)
      BY <1>3, <2>3 DEF ClearConnectionOwner
    <2>4. CASE \/ RecordHeartbeat(s) \/ RecordOwnerAgain(s) \/ SendHeartbeatAck(s)
               \/ LoopClosed(s) \/ LoopIdle(s) \/ LoopFails(s) \/ Unregister(s)
      BY <1>2, <2>1, <2>4
      DEF RecordHeartbeat, RecordOwnerAgain, SendHeartbeatAck, LoopClosed, LoopIdle, LoopFails,
          Unregister
    <2> QED
      BY <1>5, <2>2, <2>3, <2>4 DEF Loop
  <1>6. ASSUME NEW s \in Stream, Connect(s)
        PROVE  HandlersKept
    <2>1. \A x \in Stream : x # s => conn'[x] = conn[x]
      BY <1>6 DEF Connect, Hello, Resume, TypeOK, ConnTypeOK
    <2>2. ASSUME NEW i, NEW r, NEW k, Hello(s, i, r, k)
          PROVE  conn'[s].pc \notin AdmittedPC
      BY <2>2 DEF Hello, NewConn, AdmittedPC, TypeOK, ConnTypeOK
    <2>3. ASSUME NEW i, NEW r \in Runtime, NEW t, Resume(s, i, r, t)
          PROVE  conn'[s].rt \in Runtime /\ row[conn'[s].rt].key = conn'[s].key
      BY <2>3 DEF Resume, NewConn, TypeOK, ConnTypeOK
    <2>4. \/ conn'[s].pc \notin AdmittedPC
          \/ conn'[s].rt \in Runtime /\ row[conn'[s].rt].key = conn'[s].key
      BY <1>6, <2>2, <2>3 DEF Connect
    <2> QED
      BY <2>1, <2>4 DEF HandlersKept
  <1>7. ASSUME NEW i \in Instance, Crash(i)
        PROVE  HandlersKept
    BY <1>7 DEF HandlersKept, Crash, FreeConn, NewConn, AdmittedPC
  <1>8. ASSUME NEW k \in Key, Revoke(k)
        PROVE  HandlersKept
    BY <1>0, <1>8 DEF Revoke, RevokeRuntimeCredential, CloseByKeyID, EndRuntimesByCredentialKey,
                      EndRuntimesByCredentialKeyFails
  <1>9. ASSUME NEW r \in Runtime, End(r) \/ HeartbeatAges(r) \/ LeaseExpires(r)
        PROVE  HandlersKept
    BY <1>0, <1>9 DEF End, EndRuntime, EndRuntimeRefused, EndRuntimeRow, CloseStreamForRuntime,
                      HeartbeatAges, LeaseExpires
  <1>10. ASSUME NEW i \in Instance, Process(i)
         PROVE  HandlersKept
    BY <1>0, <1>7, <1>10 DEF Process, MarkStaleRuntimesUnhealthy, EndDeadRuntimes
  <1> QED
    BY <1>4, <1>5, <1>6, <1>8, <1>9, <1>10 DEF Next

\* What the upserts do to the row, the credential and the handler.
LEMMA KeyedUpsert ==
    ASSUME TypeOK, NEW s \in Stream, CreateOrReplaceKeyedRuntime(s)
    PROVE  \/ UNCHANGED <<cred, row>> /\ Return(s)
           \/ /\ conn[s].rt \in Runtime /\ conn[s].key \in Key
              /\ KeyedUpsertAdmitted(conn[s].rt, conn[s].key)
              /\ row' = [row EXCEPT ![conn[s].rt] = ActiveRow(conn[s].rt, conn[s].key)]
              /\ cred' = [cred EXCEPT ![conn[s].key] = [status |-> "consumed", by |-> conn[s].rt]]
              /\ Goto(s, "lease")
  BY DEF CreateOrReplaceKeyedRuntime, TypeOK, ConnTypeOK

\* CreateOrReplaceBareRuntime returns, or makes an absent or bare row active.
LEMMA BareUpsert ==
    ASSUME TypeOK, NEW s \in Stream, CreateOrReplaceBareRuntime(s)
    PROVE  \/ UNCHANGED <<cred, row>> /\ Return(s)
           \/ /\ conn[s].rt \in Runtime /\ conn[s].key = None
              /\ BareUpsertAdmitted(conn[s].rt)
              /\ row' = [row EXCEPT ![conn[s].rt] = ActiveRow(conn[s].rt, None)]
              /\ cred' = cred
              /\ Goto(s, "lease")
  BY DEF CreateOrReplaceBareRuntime, TypeOK, ConnTypeOK

\* At the start no credential is consumed and no handler admitted.
LEMMA BindingInit == Init => BindingInv
  <1> SUFFICES ASSUME Init PROVE BindingInv
    OBVIOUS
  <1>1. \A r \in Runtime : row[r].key = None
    BY DEF Init, NoRow
  <1>2. \A s \in Stream : conn[s].pc \notin AdmittedPC
    BY DEF Init, FreeConn, NewConn, AdmittedPC
  <1>3. \A k \in Key : k # None
    BY ConstantsAssumption DEF ConstantsAssumption
  <1> QED
    BY <1>1, <1>2, <1>3 DEF BindingInv

\* Every step keeps the binding of credentials to runtimes.
LEMMA BindingNext == TypeOK /\ BindingInv /\ [Next]_vars => BindingInv'
  <1> SUFFICES ASSUME TypeOK, BindingInv, [Next]_vars
               PROVE  BindingInv'
    OBVIOUS
  <1>0. /\ \A r \in Runtime : row[r].key \in Key \cup {None}
        /\ \A s \in Stream : conn[s].pc \in AdmittedPC => conn[s].rt \in Runtime
    BY DEF TypeOK, DbTypeOK, RowType, ConnTypeOK, AdmittedPC
  <1>1. ASSUME NEW s \in Stream, Return(s)
        PROVE  HandlersKept
    BY <1>1 DEF HandlersKept, Return, FreeConn, NewConn, AdmittedPC, TypeOK, ConnTypeOK
  <1>2. ASSUME RowsKept, CredsKept, HandlersKept
        PROVE  BindingInv'
    BY <1>0, <1>2 DEF BindingInv, RowsKept, CredsKept, HandlersKept
  <1>3. ASSUME UNCHANGED <<cred, row>>, HandlersKept
        PROVE  BindingInv'
    BY <1>2, <1>3 DEF RowsKept, CredsKept
  <1>4. ASSUME NEW s \in Stream, CreateOrReplaceKeyedRuntime(s)
        PROVE  BindingInv'
    <2> DEFINE r == conn[s].rt
               k == conn[s].key
    <2>1. CASE UNCHANGED <<cred, row>> /\ Return(s)
      BY <1>1, <1>3, <2>1
    <2>2. CASE /\ r \in Runtime /\ k \in Key
               /\ KeyedUpsertAdmitted(r, k)
               /\ row' = [row EXCEPT ![r] = ActiveRow(r, k)]
               /\ cred' = [cred EXCEPT ![k] = [status |-> "consumed", by |-> r]]
               /\ Goto(s, "lease")
      <3>1. /\ row'[r].status = "active" /\ row'[r].key = k
            /\ \A q \in Runtime \ {r} : row'[q] = row[q]
        BY <2>2 DEF ActiveRow, TypeOK, DbTypeOK
      <3>2. /\ cred'[k].status = "consumed" /\ cred'[k].by = r
            /\ \A h \in Key \ {k} : cred'[h] = cred[h]
        BY <2>2 DEF TypeOK, DbTypeOK
      <3>3. cred[k].status = "issued" /\ \A q \in Runtime : row[q].key # k
        BY <2>2 DEF KeyedUpsertAdmitted, BindingInv
      <3>4. row[r].key = None
        BY <2>2, <3>3 DEF KeyedUpsertAdmitted, BindingInv
      <3>5. \A x \in Stream : /\ conn'[x].key = conn[x].key /\ conn'[x].rt = conn[x].rt
                              /\ x # s => conn'[x].pc = conn[x].pc
        BY <2>2 DEF Goto, TypeOK, ConnTypeOK
      <3>6. k # None
        BY <2>2, ConstantsAssumption DEF ConstantsAssumption
      <3>7. \A q \in Runtime : row'[q].key # None => cred'[row'[q].key].by = q
        BY <1>0, <2>2, <3>1, <3>2, <3>3 DEF BindingInv
      <3>8. \A h \in Key : cred'[h].status = "issued" => \A q \in Runtime : row'[q].key # h
        BY <2>2, <3>1, <3>2 DEF BindingInv
      <3>9. \A x \in Stream :
               conn'[x].pc \in AdmittedPC /\ conn'[x].key # None => row'[conn'[x].rt].key = conn'[x].key
        BY <1>0, <3>1, <3>4, <3>5 DEF BindingInv
      <3> QED
        BY <3>1, <3>7, <3>8, <3>9 DEF BindingInv
    <2> QED
      BY <1>4, <2>1, <2>2, KeyedUpsert
  <1>5. ASSUME NEW s \in Stream, CreateOrReplaceBareRuntime(s)
        PROVE  BindingInv'
    <2> DEFINE r == conn[s].rt
    <2>1. CASE UNCHANGED <<cred, row>> /\ Return(s)
      BY <1>1, <1>3, <2>1
    <2>2. CASE /\ r \in Runtime /\ conn[s].key = None
               /\ BareUpsertAdmitted(r)
               /\ row' = [row EXCEPT ![r] = ActiveRow(r, None)]
               /\ cred' = cred
               /\ Goto(s, "lease")
      <3>1. /\ row'[r].status = "active" /\ row'[r].key = None /\ row[r].key = None
            /\ \A q \in Runtime \ {r} : row'[q] = row[q]
        BY <2>2 DEF ActiveRow, BareUpsertAdmitted, TypeOK, DbTypeOK
      <3>2. \A q \in Runtime : /\ row'[q].key = row[q].key
                               /\ row'[q].status = "none" => row[q].status = "none"
        BY <3>1
      <3>3. \A x \in Stream : /\ conn'[x].key = conn[x].key /\ conn'[x].rt = conn[x].rt
                              /\ x # s => conn'[x].pc = conn[x].pc
        BY <2>2 DEF Goto, TypeOK, ConnTypeOK
      <3> QED
        BY <1>0, <2>2, <3>2, <3>3 DEF BindingInv
    <2> QED
      BY <1>5, <2>1, <2>2, BareUpsert
  <1>6. CASE UNCHANGED vars
    BY <1>3, <1>6 DEF vars, dbVars, HandlersKept
  <1>7. CASE Next
    BY <1>2, <1>4, <1>5, <1>7, RowsOfStep, HandlersOfStep
  <1> QED
    BY <1>6, <1>7

\* Whatever HELLOs and RESUMEs race, in whatever processes, the handlers past admission
\* that carry one credential all serve the runtime that consumed it.
THEOREM CredentialBindsOneRuntime == Spec => []OneRuntimePerCredential
  <1>1. BindingInv /\ TypeOK => OneRuntimePerCredential
    BY ConstantsAssumption
    DEF BindingInv, OneRuntimePerCredential, TypeOK, ConnTypeOK, AdmittedPC, ConstantsAssumption
  <1> QED
    BY <1>1, InitType, NextType, BindingInit, BindingNext, PTL DEF Spec

-----------------------------------------------------------------------------
(* Ended rows *)

\* A row that was admitted with a credential keeps it and never leaves a terminal
\* status: a heartbeat, an owner update, an upsert or the reaper that comes late loses.
THEOREM EndedRowsStayEnded == Spec => TerminalIsFinal
  <1> DEFINE A == \A r \in Runtime : row[r].key # None =>
                     /\ row'[r].key = row[r].key
                     /\ row[r].status \in Terminal => row'[r].status = row[r].status
  <1>1. TypeOK /\ BindingInv /\ [Next]_vars => A
    <2> SUFFICES ASSUME TypeOK, BindingInv, [Next]_vars
                 PROVE  A
      OBVIOUS
    <2>1. RowsKept => A
      BY DEF RowsKept
    <2>2. row' = row => A
      OBVIOUS
    <2>3. ASSUME NEW s \in Stream, CreateOrReplaceKeyedRuntime(s)
          PROVE  A
      <3> DEFINE r == conn[s].rt
                 k == conn[s].key
      <3>1. CASE row' = row
        BY <2>2, <3>1
      <3>2. CASE /\ r \in Runtime /\ k \in Key
                 /\ KeyedUpsertAdmitted(r, k)
                 /\ row' = [row EXCEPT ![r] = ActiveRow(r, k)]
        <4>1. row[r].key = None
          BY <3>2 DEF KeyedUpsertAdmitted, BindingInv
        <4>2. \A q \in Runtime \ {r} : row'[q] = row[q]
          BY <3>2 DEF TypeOK, DbTypeOK
        <4> QED
          BY <4>1, <4>2
      <3> QED
        BY <2>3, <3>1, <3>2, KeyedUpsert
    <2>4. ASSUME NEW s \in Stream, CreateOrReplaceBareRuntime(s)
          PROVE  A
      <3> DEFINE r == conn[s].rt
      <3>1. CASE row' = row
        BY <2>2, <3>1
      <3>2. CASE /\ r \in Runtime
                 /\ BareUpsertAdmitted(r)
                 /\ row' = [row EXCEPT ![r] = ActiveRow(r, None)]
        <4>1. row[r].key = None
          BY <3>2 DEF BareUpsertAdmitted
        <4>2. \A q \in Runtime \ {r} : row'[q] = row[q]
          BY <3>2 DEF TypeOK, DbTypeOK
        <4> QED
          BY <4>1, <4>2
      <3> QED
        BY <2>4, <3>1, <3>2, BareUpsert
    <2>5. CASE UNCHANGED vars
      BY <2>2, <2>5 DEF vars, dbVars
    <2> QED
      BY <2>1, <2>3, <2>4, <2>5, RowsOfStep
  <1> QED
    BY <1>1, InitType, NextType, BindingInit, BindingNext, PTL DEF Spec, TerminalIsFinal

\* The credential is revoked before the rows end, so no HELLO is admitted in between.
RevokeInv ==
    /\ \A k \in Key : revokeCall[k].step # "idle" => cred[k].status = "revoked"
    /\ RevokedRowsStayEnded

\* The steps of Revoke, and what the others leave alone.
LEMMA RevokeCallOfStep ==
    ASSUME TypeOK, Next
    PROVE  \/ \E k \in Key : Revoke(k)
           \/ \A k \in Key : revokeCall'[k] = revokeCall[k] \/ revokeCall'[k] = NoCall
  <1>1. (\E s \in Stream : Connect(s)) => UNCHANGED revokeCall
    BY DEF Connect, Hello, Resume, adminVars
  <1>2. ASSUME NEW s \in Stream, Admission(s)
        PROVE  UNCHANGED revokeCall
    BY <1>2 DEF Admission, CreateOrReplaceKeyedRuntime, CreateOrReplaceBareRuntime,
                IssueRuntimeChannelLease, NewLease, RotateRuntimeChannelLease, RecordConnectionOwner,
                Register, SendHelloAck, HelloAckFails, AbortAdmission, adminVars
  <1>3. ASSUME NEW s \in Stream, Loop(s)
        PROVE  UNCHANGED revokeCall
    BY <1>3 DEF Loop, Heartbeat, OtherFrame, RecordHeartbeat, RecordOwnerAgain, SendHeartbeatAck,
                LoopClosed, LoopIdle, LoopFails, Unregister, ClearConnectionOwner, adminVars
  <1>4. ASSUME NEW r \in Runtime, End(r) \/ HeartbeatAges(r) \/ LeaseExpires(r)
        PROVE  UNCHANGED revokeCall
    BY <1>4 DEF End, EndRuntime, EndRuntimeRefused, EndRuntimeRow, CloseStreamForRuntime,
                HeartbeatAges, LeaseExpires, adminVars
  <1>5. ASSUME NEW i \in Instance, Process(i)
        PROVE  \A k \in Key : revokeCall'[k] = revokeCall[k] \/ revokeCall'[k] = NoCall
    BY <1>5 DEF Process, MarkStaleRuntimesUnhealthy, EndDeadRuntimes, Crash
  <1> QED
    BY <1>1, <1>2, <1>3, <1>4, <1>5 DEF Next

\* At the start no Revoke call has been made.
LEMMA RevokeInit == Init => RevokeInv
  BY DEF Init, RevokeInv, RevokedRowsStayEnded, NoCall

\* Every step keeps the rows of a revoked credential ended.
LEMMA RevokeNext == TypeOK /\ RevokeInv /\ [Next]_vars => RevokeInv'
  <1> SUFFICES ASSUME TypeOK, RevokeInv, [Next]_vars
               PROVE  RevokeInv'
    OBVIOUS
  <1>1. ASSUME RowsKept, CredsKept,
               \A k \in Key : revokeCall'[k] = revokeCall[k] \/ revokeCall'[k] = NoCall
        PROVE  RevokeInv'
    BY <1>1 DEF RowsKept, CredsKept, RevokeInv, RevokedRowsStayEnded, RowsOfKey, NonTerminal, NoCall
  <1>2. ASSUME NEW s \in Stream, CreateOrReplaceKeyedRuntime(s) \/ CreateOrReplaceBareRuntime(s)
        PROVE  RevokeInv'
    <2>1. UNCHANGED revokeCall
      BY <1>2 DEF CreateOrReplaceKeyedRuntime, CreateOrReplaceBareRuntime, adminVars
    <2>2. CASE UNCHANGED <<cred, row>>
      BY <1>1, <2>1, <2>2 DEF RowsKept, CredsKept
    <2>3. CASE ~UNCHANGED <<cred, row>>
      <3> DEFINE r == conn[s].rt
                 k == conn[s].key
      <3>1. PICK key \in Key \cup {None} :
               /\ r \in Runtime
               /\ row' = [row EXCEPT ![r] = ActiveRow(r, key)]
               /\ \A h \in Key \ {key} : cred'[h] = cred[h]
               /\ key \in Key => cred[key].status = "issued"
        <4>1. CASE CreateOrReplaceKeyedRuntime(s)
          BY <2>3, <4>1, KeyedUpsert DEF KeyedUpsertAdmitted, TypeOK, DbTypeOK
        <4>2. CASE CreateOrReplaceBareRuntime(s)
          BY <2>3, <4>2, BareUpsert, ConstantsAssumption DEF ConstantsAssumption
        <4> QED
          BY <1>2, <4>1, <4>2
      <3>2. \A h \in Key : revokeCall[h].step # "idle" => h # key /\ cred'[h] = cred[h]
        BY <3>1 DEF RevokeInv
      <3>3. row'[r].key = key /\ \A q \in Runtime \ {r} : row'[q] = row[q]
        BY <3>1 DEF ActiveRow, TypeOK, DbTypeOK
      <3> QED
        BY <2>1, <3>2, <3>3 DEF RevokeInv, RevokedRowsStayEnded, RowsOfKey, NonTerminal
    <2> QED
      BY <2>2, <2>3
  <1>3. ASSUME NEW k \in Key, Revoke(k), RowsKept, CredsKept
        PROVE  RevokeInv'
    <2>1. \A h \in Key \ {k} : revokeCall'[h] = revokeCall[h]
      BY <1>3 DEF Revoke, RevokeRuntimeCredential, CloseByKeyID, EndRuntimesByCredentialKey,
                  EndRuntimesByCredentialKeyFails, TypeOK, AdminTypeOK
    <2>2. /\ revokeCall'[k].step # "idle" => cred'[k].status = "revoked"
          /\ revokeCall'[k].step = "done" => RowsOfKey(k)' = {}
      <3>1. ASSUME NEW i, RevokeRuntimeCredential(i, k)
            PROVE  cred'[k].status = "revoked" /\ revokeCall'[k].step = "close"
        BY <3>1 DEF RevokeRuntimeCredential, TypeOK, DbTypeOK, AdminTypeOK
      <3>2. CASE CloseByKeyID(k)
        <4>1. revokeCall'[k].step = "end" /\ revokeCall[k].step # "idle"
          BY <3>2 DEF CloseByKeyID, TypeOK, AdminTypeOK
        <4> QED
          BY <1>3, <4>1 DEF RevokeInv, CredsKept
      <3>3. CASE EndRuntimesByCredentialKey(k)
        <4>1. cred'[k].status = "revoked"
          BY <1>3, <3>3 DEF EndRuntimesByCredentialKey, RevokeInv, CredsKept
        <4>2. ASSUME NEW r \in Runtime, row'[r].key = k, NonTerminal(r)'
              PROVE  FALSE
          <5>1. r \in RowsOfKey(k)
            BY <1>3, <3>3, <4>2 DEF RowsKept, RowsOfKey, NonTerminal
          <5>2. row'[r].status = "failed"
            BY <3>3, <5>1 DEF EndRuntimesByCredentialKey, EndRows, TypeOK, DbTypeOK, RowType
          <5> QED
            BY <4>2, <5>2 DEF NonTerminal, Terminal
        <4> QED
          BY <4>1, <4>2 DEF RowsOfKey
      <3>4. CASE EndRuntimesByCredentialKeyFails(k)
        BY <3>4 DEF EndRuntimesByCredentialKeyFails, NoCall, TypeOK, AdminTypeOK
      <3> QED
        BY <1>3, <3>1, <3>2, <3>3, <3>4 DEF Revoke
    <2>3. \A h \in Key \ {k} : /\ revokeCall'[h].step # "idle" => cred'[h].status = "revoked"
                               /\ revokeCall'[h].step = "done" => RowsOfKey(h)' = {}
      BY <1>3, <2>1 DEF RevokeInv, RevokedRowsStayEnded, RowsKept, CredsKept, RowsOfKey, NonTerminal
    <2> QED
      BY <2>2, <2>3 DEF RevokeInv, RevokedRowsStayEnded
  <1>4. CASE UNCHANGED vars
    BY <1>1, <1>4 DEF vars, dbVars, adminVars, RowsKept, CredsKept
  <1>5. CASE Next
    BY <1>1, <1>2, <1>3, <1>5, RowsOfStep, RevokeCallOfStep
  <1> QED
    BY <1>4, <1>5

\* When Revoke has ended the rows of a credential, no HELLO, RESUME or heartbeat that was
\* already in progress makes one live again.
THEOREM RevocationIsFinal == Spec => []RevokedRowsStayEnded
  <1>1. RevokeInv => RevokedRowsStayEnded
    BY DEF RevokeInv
  <1> QED
    BY <1>1, InitType, NextType, RevokeInit, RevokeNext, PTL DEF Spec

-----------------------------------------------------------------------------
(* Resume tokens *)

\* The handlers that have a new token to hand out.
TokenPC == {"owner", "register", "ack"}

\* Tokens are numbered in the order of their generation, and no two leases share one.
TokenInv ==
    /\ \A r \in Runtime : lease[r].tok <= lastToken /\ 0 \notin held[r]
    /\ \A r1, r2 \in Runtime : lease[r1].tok = lease[r2].tok /\ lease[r1].tok # 0 => r1 = r2
    /\ \A s \in Stream :
          /\ conn[s].pc \in TokenPC => conn[s].tok # 0
          /\ conn[s].shown <= lastToken
          /\ conn[s].pc = "rotate" => conn[s].shown # 0
          /\ Resumed(s) => \A r \in Runtime : lease[r].tok # conn[s].shown
    /\ ResumeTokenSingleUse

\* A handler that forgets its token, one that keeps it, and one that just got it shown.
TokenForgotten(x) == conn'[x].shown = 0 /\ conn'[x].pc \notin TokenPC \cup {"rotate"}
TokenCarried(x) ==
    /\ conn'[x].shown = conn[x].shown /\ conn'[x].rt = conn[x].rt
    /\ conn'[x].pc = "rotate" => conn[x].pc = "rotate"
    /\ Resumed(x)' => Resumed(x)
    /\ conn'[x].pc \in TokenPC => conn[x].pc \in TokenPC /\ conn'[x].tok = conn[x].tok
TokenShown(x) ==
    /\ conn'[x].pc = "rotate"
    /\ conn'[x].shown # 0 /\ conn'[x].shown <= lastToken

\* A step that generates no token.
TokensKept ==
    /\ UNCHANGED lastToken
    /\ \A r \in Runtime : lease'[r].tok = lease[r].tok
    /\ \A r \in Runtime : 0 \notin held'[r]
    /\ \A x \in Stream : TokenForgotten(x) \/ TokenCarried(x) \/ TokenShown(x)

\* Only issuing and rotating a lease generate a token.
LEMMA TokensOfStep ==
    ASSUME TypeOK, TokenInv, Next
    PROVE  \/ TokensKept
           \/ \E s \in Stream : IssueRuntimeChannelLease(s) \/ RotateRuntimeChannelLease(s)
  <1> DEFINE Handlers == \A x \in Stream : TokenForgotten(x) \/ TokenCarried(x) \/ TokenShown(x)
  <1>0. /\ UNCHANGED <<lease, lastToken, held>> /\ Handlers => TokensKept
        /\ UNCHANGED conn => Handlers
    BY DEF TokensKept, TokenInv, TokenCarried, Resumed
  <1>1. ASSUME NEW s \in Stream, NEW c, conn' = [conn EXCEPT ![s] = c],
               c.shown = conn[s].shown, c.rt = conn[s].rt,
               conn[s].pc \in PC \ {"free", "rotate"}, c.pc # "rotate",
               c.pc \in TokenPC => conn[s].pc \in TokenPC /\ c.tok = conn[s].tok
        PROVE  Handlers
    <2>1. conn'[s] = c /\ \A x \in Stream \ {s} : conn'[x] = conn[x]
      BY <1>1 DEF TypeOK, ConnTypeOK
    <2>2. TokenCarried(s)
      BY <1>1, <2>1 DEF TokenCarried, Resumed
    <2>3. \A x \in Stream \ {s} : TokenCarried(x)
      BY <2>1 DEF TokenCarried, Resumed
    <2> QED
      BY <2>2, <2>3
  <1>2. ASSUME NEW s \in Stream, NEW pc, Goto(s, pc), conn[s].pc \in PC \ {"free", "rotate"},
               pc # "rotate", pc \in TokenPC => conn[s].pc \in TokenPC
        PROVE  Handlers
    <2> DEFINE c == [conn[s] EXCEPT !.pc = pc]
    <2>1. c.pc = pc /\ c.shown = conn[s].shown /\ c.rt = conn[s].rt /\ c.tok = conn[s].tok
      BY DEF TypeOK, ConnTypeOK, ConnType
    <2>2. conn' = [conn EXCEPT ![s] = c]
      BY <1>2 DEF Goto
    <2> HIDE DEF c
    <2> QED
      BY <1>1, <1>2, <2>1, <2>2
  <1>3. ASSUME NEW s \in Stream, NEW c, conn' = [conn EXCEPT ![s] = c], c.shown = 0,
               c.pc \in {"free", "upsert"}
        PROVE  Handlers
    <2>1. conn'[s] = c /\ \A x \in Stream \ {s} : conn'[x] = conn[x]
      BY <1>3 DEF TypeOK, ConnTypeOK
    <2>2. TokenForgotten(s)
      BY <1>3, <2>1 DEF TokenForgotten, TokenPC
    <2>3. \A x \in Stream \ {s} : TokenCarried(x)
      BY <2>1 DEF TokenCarried, Resumed
    <2> QED
      BY <2>2, <2>3
  <1>4. ASSUME NEW s \in Stream, Return(s)
        PROVE  Handlers
    <2>1. FreeConn.pc = "free" /\ FreeConn.shown = 0
      BY DEF FreeConn, NewConn
    <2> QED
      BY <1>3, <1>4, <2>1 DEF Return
  <1>5. ASSUME NEW s \in Stream, Admission(s)
        PROVE  TokensKept \/ IssueRuntimeChannelLease(s) \/ RotateRuntimeChannelLease(s)
    <2>1. {"upsert", "lease", "owner", "register", "ack"} \subseteq PC \ {"free", "rotate"}
      BY DEF PC
    <2>2. {"owner", "register", "ack"} \subseteq TokenPC /\ {"lease", "loop", "leaked"} \cap TokenPC = {}
      BY DEF TokenPC
    <2>3. CASE SendHelloAck(s)
      <3>1. Handlers
        BY <1>2, <2>1, <2>2, <2>3 DEF SendHelloAck
      <3>2. conn[s].tok # 0
        BY <2>2, <2>3 DEF SendHelloAck, TokenInv
      <3>3. \A r \in Runtime : 0 \notin held'[r]
        BY <2>3, <3>2 DEF SendHelloAck, TokenInv, TypeOK, TokensTypeOK
      <3> QED
        BY <2>3, <3>1, <3>3 DEF SendHelloAck, dbVars, TokensKept
    <2>4. CASE \/ CreateOrReplaceKeyedRuntime(s) \/ CreateOrReplaceBareRuntime(s)
               \/ RecordConnectionOwner(s) \/ Register(s) \/ HelloAckFails(s) \/ AbortAdmission(s)
      <3>1. Handlers
        BY <1>2, <1>4, <2>1, <2>2, <2>4
        DEF CreateOrReplaceKeyedRuntime, CreateOrReplaceBareRuntime, RecordConnectionOwner,
            Register, HelloAckFails, AbortAdmission
      <3>2. UNCHANGED <<lease, lastToken, held>>
        BY <2>4
        DEF CreateOrReplaceKeyedRuntime, CreateOrReplaceBareRuntime, RecordConnectionOwner,
            Register, HelloAckFails, AbortAdmission, dbVars, tokenVars
      <3> QED
        BY <1>0, <3>1, <3>2
    <2> QED
      BY <1>5, <2>3, <2>4 DEF Admission
  <1>6. ASSUME NEW s \in Stream, Loop(s)
        PROVE  TokensKept
    <2>1. {"loop", "beat", "reown", "beatack", "unregister", "clear"} \subseteq PC \ {"free", "rotate"}
      BY DEF PC
    <2>2. {"loop", "beat", "reown", "beatack", "unregister", "clear"} \cap TokenPC = {}
      BY DEF TokenPC
    <2>3. UNCHANGED <<lease, lastToken, held>>
      BY <1>6 DEF Loop, Heartbeat, OtherFrame, RecordHeartbeat, RecordOwnerAgain, SendHeartbeatAck,
                  LoopClosed, LoopIdle, LoopFails, Unregister, ClearConnectionOwner, dbVars, tokenVars
    <2>4. CASE OtherFrame(s) \/ Heartbeat(s)
      <3> DEFINE c(f) == [conn[s] EXCEPT !.pc = "beat", !.frame = f]
      <3>1. \A f : c(f).pc = "beat" /\ c(f).shown = conn[s].shown /\ c(f).rt = conn[s].rt
        BY DEF TypeOK, ConnTypeOK, ConnType
      <3>2. conn' = [conn EXCEPT ![s] = c("other")] \/ conn' = [conn EXCEPT ![s] = c("heartbeat")]
               \/ Goto(s, "unregister")
        BY <2>4 DEF OtherFrame, Heartbeat
      <3>3. conn[s].pc = "loop"
        BY <2>4 DEF OtherFrame, Heartbeat
      <3> HIDE DEF c
      <3>4. Handlers
        BY <1>1, <1>2, <2>1, <2>2, <3>1, <3>2, <3>3
      <3> QED
        BY <1>0, <2>3, <3>4
    <2>5. CASE ClearConnectionOwner(s)
      BY <1>0, <1>4, <2>3, <2>5 DEF ClearConnectionOwner
    <2>6. CASE \/ RecordHeartbeat(s) \/ RecordOwnerAgain(s) \/ SendHeartbeatAck(s)
               \/ LoopClosed(s) \/ LoopIdle(s) \/ LoopFails(s) \/ Unregister(s)
      <3>1. Handlers
        BY <1>2, <2>1, <2>2, <2>6
        DEF RecordHeartbeat, RecordOwnerAgain, SendHeartbeatAck, LoopClosed, LoopIdle, LoopFails,
            Unregister
      <3> QED
        BY <1>0, <2>3, <3>1
    <2> QED
      BY <1>6, <2>4, <2>5, <2>6 DEF Loop
  <1>7. ASSUME NEW s \in Stream, Connect(s)
        PROVE  TokensKept
    <2>1. UNCHANGED <<lease, lastToken, held>>
      BY <1>7 DEF Connect, Hello, Resume, dbVars, tokenVars
    <2>2. ASSUME NEW i, NEW r, NEW k, Hello(s, i, r, k)
          PROVE  Handlers
      <3>1. NewConn("upsert", i, r, k, 0).pc = "upsert" /\ NewConn("upsert", i, r, k, 0).shown = 0
        BY DEF NewConn
      <3> QED
        BY <1>3, <2>2, <3>1 DEF Hello
    <2>3. ASSUME NEW i, NEW r \in Runtime, NEW t, Resume(s, i, r, t)
          PROVE  Handlers
      <3>1. /\ conn'[s].pc = "rotate" /\ conn'[s].shown = t
            /\ \A x \in Stream \ {s} : conn'[x] = conn[x]
        BY <2>3 DEF Resume, NewConn, TypeOK, ConnTypeOK
      <3>2. t # 0 /\ t <= lastToken
        BY <2>3 DEF Resume, FingerprintValid, TokenInv
      <3>3. TokenShown(s)
        BY <3>1, <3>2 DEF TokenShown
      <3>4. \A x \in Stream \ {s} : TokenCarried(x)
        BY <3>1 DEF TokenCarried, Resumed
      <3> QED
        BY <3>3, <3>4
    <2> QED
      BY <1>0, <1>7, <2>1, <2>2, <2>3 DEF Connect
  <1>8. ASSUME NEW k \in Key, Revoke(k)
        PROVE  TokensKept
    BY <1>0, <1>8 DEF Revoke, RevokeRuntimeCredential, CloseByKeyID, EndRuntimesByCredentialKey,
                      EndRuntimesByCredentialKeyFails, dbVars, tokenVars
  <1>9. ASSUME NEW r \in Runtime, End(r) \/ HeartbeatAges(r)
        PROVE  TokensKept
    BY <1>0, <1>9 DEF End, EndRuntime, EndRuntimeRefused, EndRuntimeRow, CloseStreamForRuntime,
                      HeartbeatAges, dbVars, tokenVars
  <1>10. ASSUME NEW r \in Runtime, LeaseExpires(r)
         PROVE  TokensKept
    <2>1. \A q \in Runtime : lease'[q].tok = lease[q].tok
      BY <1>10 DEF LeaseExpires, TypeOK, DbTypeOK, LeaseType
    <2> QED
      BY <1>0, <1>10, <2>1 DEF LeaseExpires, tokenVars, TokensKept, TokenInv
  <1>11. ASSUME NEW i \in Instance, Process(i)
         PROVE  TokensKept
    <2>1. CASE Crash(i)
      <3>1. \A x \in Stream : conn'[x] = FreeConn \/ conn'[x] = conn[x]
        BY <2>1 DEF Crash
      <3>2. FreeConn.shown = 0 /\ FreeConn.pc \notin TokenPC \cup {"rotate"}
        BY DEF FreeConn, NewConn, TokenPC
      <3>3. Handlers
        BY <3>1, <3>2 DEF TokenForgotten, TokenCarried, Resumed
      <3> QED
        BY <1>0, <2>1, <3>3 DEF Crash, dbVars, tokenVars
    <2>2. CASE MarkStaleRuntimesUnhealthy(i) \/ EndDeadRuntimes(i)
      BY <1>0, <2>2 DEF MarkStaleRuntimesUnhealthy, EndDeadRuntimes, tokenVars
    <2> QED
      BY <1>11, <2>1, <2>2 DEF Process
  <1> QED
    BY <1>5, <1>6, <1>7, <1>8, <1>9, <1>10, <1>11 DEF Next

\* At the start there is no token.
LEMMA TokenInit == Init => TokenInv
  <1> SUFFICES ASSUME Init PROVE TokenInv
    OBVIOUS
  <1>1. \A s \in Stream : conn[s].pc = "free" /\ conn[s].shown = 0
    BY DEF Init, FreeConn, NewConn
  <1>2. \A r \in Runtime : lease[r].tok = 0 /\ held[r] = {}
    BY DEF Init, NoLease
  <1>3. lastToken = 0
    BY DEF Init
  <1> QED
    BY <1>1, <1>2, <1>3 DEF TokenInv, TokenPC, Resumed, ResumeTokenSingleUse

\* Every step keeps tokens distinct and a shown token out of use.
LEMMA TokenNext == TypeOK /\ TokenInv /\ [Next]_vars => TokenInv'
  <1> SUFFICES ASSUME TypeOK, TokenInv, [Next]_vars
               PROVE  TokenInv'
    OBVIOUS
  <1>0. /\ lastToken \in Nat
        /\ \A r \in Runtime : lease[r].tok \in Nat
        /\ \A s \in Stream : conn[s].shown \in Nat /\ (conn[s].pc # "free" => conn[s].rt \in Runtime)
    BY ConstantsAssumption
    DEF TypeOK, TokensTypeOK, DbTypeOK, LeaseType, ConnTypeOK, ConnType, Token, ConstantsAssumption
  <1>1. ASSUME TokensKept
        PROVE  TokenInv'
    <2>1. ASSUME NEW x \in Stream
          PROVE  /\ conn'[x].pc \in TokenPC => conn'[x].tok # 0
                 /\ conn'[x].shown <= lastToken'
                 /\ conn'[x].pc = "rotate" => conn'[x].shown # 0
                 /\ Resumed(x)' => \A r \in Runtime : lease'[r].tok # conn'[x].shown
                 /\ Resumed(x)' => Resumed(x) /\ conn'[x].shown = conn[x].shown /\ conn'[x].rt = conn[x].rt
      <3>1. CASE TokenForgotten(x)
        BY <1>0, <1>1, <3>1 DEF TokenForgotten, TokensKept, Resumed
      <3>2. CASE TokenCarried(x)
        BY <1>1, <3>2 DEF TokenCarried, TokensKept, TokenInv
      <3>3. CASE TokenShown(x)
        BY <1>1, <3>3 DEF TokenShown, TokensKept, Resumed, TokenPC
      <3> QED
        BY <1>1, <3>1, <3>2, <3>3 DEF TokensKept
    <2>2. ResumeTokenSingleUse'
      <3>1. \A s1, s2 \in Stream :
               s1 # s2 /\ Resumed(s1)' /\ Resumed(s2)' => conn'[s1].shown # conn'[s2].shown
        BY <2>1 DEF TokenInv, ResumeTokenSingleUse
      <3>2. \A x \in Stream : Resumed(x)' => lease'[conn'[x].rt].tok # conn'[x].shown
        BY <1>0, <2>1 DEF Resumed, PC
      <3> QED
        BY <3>1, <3>2 DEF ResumeTokenSingleUse
    <2> QED
      BY <1>1, <2>1, <2>2 DEF TokenInv, TokensKept
  <1>2. ASSUME NEW s \in Stream, IssueRuntimeChannelLease(s) \/ RotateRuntimeChannelLease(s)
        PROVE  TokenInv'
    <2> DEFINE r == conn[s].rt
               t == lastToken + 1
    <2>1. /\ lastToken' = t /\ t > lastToken /\ t \in Nat /\ t # 0
          /\ r \in Runtime /\ conn[s].pc \in {"lease", "rotate"} /\ held' = held
      BY <1>0, <1>2 DEF IssueRuntimeChannelLease, NewLease, RotateRuntimeChannelLease
    <2>2. \/ conn' = [conn EXCEPT ![s] = [@ EXCEPT !.pc = "owner", !.tok = t]]
          \/ Return(s)
      BY <1>2 DEF IssueRuntimeChannelLease, NewLease, RotateRuntimeChannelLease
    <2>3. \A x \in Stream \ {s} : conn'[x] = conn[x]
      BY <2>2 DEF Return, TypeOK, ConnTypeOK
    <2>4. \/ /\ conn'[s].pc = "owner" /\ conn'[s].tok = t
             /\ conn'[s].shown = conn[s].shown /\ conn'[s].rt = r
          \/ conn'[s].pc = "free" /\ conn'[s].shown = 0
      <3>1. CASE Return(s)
        BY <3>1 DEF Return, FreeConn, NewConn, TypeOK, ConnTypeOK
      <3>2. CASE conn' = [conn EXCEPT ![s] = [@ EXCEPT !.pc = "owner", !.tok = t]]
        <4>1. conn'[s] = [conn[s] EXCEPT !.pc = "owner", !.tok = t]
          BY <3>2 DEF TypeOK, ConnTypeOK
        <4>2. conn[s] \in ConnType
          BY DEF TypeOK, ConnTypeOK
        <4> HIDE DEF r, t
        <4>3. /\ conn'[s].pc = "owner" /\ conn'[s].tok = t
              /\ conn'[s].shown = conn[s].shown /\ conn'[s].rt = conn[s].rt
          BY <4>1, <4>2 DEF ConnType
        <4> QED
          BY <4>3 DEF r
      <3> QED
        BY <2>2, <3>1, <3>2
    <2>5. /\ \A q \in Runtime \ {r} : lease'[q].tok = lease[q].tok
          /\ \/ lease'[r].tok = t
             \/ lease'[r].tok = lease[r].tok /\ conn'[s].pc = "free" /\ conn'[s].shown = 0
      <3>1. CASE IssueRuntimeChannelLease(s)
        <4> DEFINE new == [tok |-> t, key |-> conn[s].key, expired |-> FALSE]
        <4>1. lease' = [lease EXCEPT ![r] = new] /\ new.tok = t
          BY <3>1 DEF IssueRuntimeChannelLease, NewLease
        <4> HIDE DEF new, t
        <4> QED
          BY <2>1, <4>1 DEF TypeOK, DbTypeOK
      <3>2. CASE RotateRuntimeChannelLease(s)
        <4>1. CASE lease' = [lease EXCEPT ![r].tok = t]
          BY <2>1, <4>1 DEF TypeOK, DbTypeOK, LeaseType
        <4>2. CASE UNCHANGED lease /\ Return(s)
          BY <2>1, <4>2 DEF Return, FreeConn, NewConn, TypeOK, ConnTypeOK
        <4> QED
          BY <3>2, <4>1, <4>2 DEF RotateRuntimeChannelLease
      <3> QED
        BY <1>2, <3>1, <3>2
    <2>6. \A q \in Runtime : lease'[q].tok <= lastToken' /\ 0 \notin held'[q]
      <3> HIDE DEF r, t
      <3> QED
        BY <1>0, <2>1, <2>5 DEF TokenInv
    <2>7. \A q1, q2 \in Runtime : lease'[q1].tok = lease'[q2].tok /\ lease'[q1].tok # 0 => q1 = q2
      <3>1. \A q \in Runtime : lease[q].tok # t
        BY <1>0, <2>1 DEF TokenInv
      <3> HIDE DEF r, t
      <3> QED
        BY <2>5, <3>1 DEF TokenInv
    <2>8. \A x \in Stream \ {s} :
             Resumed(x)' => /\ Resumed(x) /\ conn'[x].shown = conn[x].shown
                            /\ \A q \in Runtime : lease'[q].tok # conn'[x].shown
      <3>1. \A x \in Stream : conn[x].shown # t
        BY <1>0, <2>1 DEF TokenInv
      <3>2. \A x \in Stream \ {s} : Resumed(x)' <=> Resumed(x)
        BY <2>3 DEF Resumed
      <3> HIDE DEF r, t
      <3> QED
        BY <2>3, <2>5, <3>1, <3>2 DEF TokenInv
    <2>9. Resumed(s)' => /\ RotateRuntimeChannelLease(s) \/ Resumed(s)
                         /\ conn'[s].shown = conn[s].shown /\ conn'[s].rt = r
                         /\ \A q \in Runtime : lease'[q].tok # conn'[s].shown
                         /\ \A x \in Stream \ {s} : Resumed(x)' => conn'[x].shown # conn'[s].shown
      <3> SUFFICES ASSUME Resumed(s)'
                   PROVE  /\ RotateRuntimeChannelLease(s) \/ Resumed(s)
                          /\ conn'[s].shown = conn[s].shown /\ conn'[s].rt = r
                          /\ \A q \in Runtime : lease'[q].tok # conn'[s].shown
                          /\ \A x \in Stream \ {s} : Resumed(x)' => conn'[x].shown # conn'[s].shown
        OBVIOUS
      <3>1. conn'[s].shown = conn[s].shown /\ conn'[s].rt = r /\ conn[s].shown # 0 /\ lease'[r].tok = t
        BY <2>4, <2>5 DEF Resumed
      <3>2. conn[s].shown # t
        BY <1>0, <2>1 DEF TokenInv
      <3>3. CASE conn[s].pc = "lease"
        <4>1. Resumed(s)
          BY <3>1, <3>3 DEF Resumed, PC
        <4>2. \A q \in Runtime : lease[q].tok # conn[s].shown
          BY <4>1 DEF TokenInv
        <4>3. \A x \in Stream \ {s} : Resumed(x) => conn[x].shown # conn[s].shown
          BY <4>1 DEF TokenInv, ResumeTokenSingleUse
        <4> HIDE DEF r, t
        <4> QED
          BY <2>5, <2>8, <3>1, <3>2, <4>1, <4>2, <4>3
      <3>4. CASE conn[s].pc = "rotate"
        <4>1. RotateRuntimeChannelLease(s)
          BY <1>2, <3>4 DEF IssueRuntimeChannelLease, NewLease
        <4>2. lease[r].tok = conn[s].shown
          <5>1. ~Return(s)
            BY <2>4 DEF Return, FreeConn, NewConn, Resumed, TypeOK, ConnTypeOK
          <5> QED
            BY <4>1, <5>1 DEF RotateRuntimeChannelLease, LeaseUnmoved
        <4>3. \A q \in Runtime \ {r} : lease[q].tok # conn[s].shown
          BY <2>1, <3>1, <4>2 DEF TokenInv
        <4>4. \A x \in Stream \ {s} : Resumed(x) => conn[x].shown # conn[s].shown
          BY <2>1, <4>2 DEF TokenInv
        <4> HIDE DEF r, t
        <4> QED
          BY <2>5, <2>8, <3>1, <3>2, <4>1, <4>3, <4>4
      <3> QED
        BY <2>1, <3>3, <3>4
    <2>10. \A x \in Stream : /\ conn'[x].pc \in TokenPC => conn'[x].tok # 0
                             /\ conn'[x].shown <= lastToken'
                             /\ conn'[x].pc = "rotate" => conn'[x].shown # 0
      <3>1. \A x \in Stream \ {s} : conn'[x].shown <= lastToken'
        BY <1>0, <2>1, <2>3 DEF TokenInv
      <3>2. conn'[s].shown <= lastToken'
        BY <1>0, <2>1, <2>4 DEF TokenInv
      <3> HIDE DEF r, t
      <3> QED
        BY <2>1, <2>3, <2>4, <3>1, <3>2 DEF TokenInv, TokenPC
    <2>11. ResumeTokenSingleUse'
      <3>1. \A s1, s2 \in Stream :
               s1 # s2 /\ Resumed(s1)' /\ Resumed(s2)' => conn'[s1].shown # conn'[s2].shown
        BY <2>8, <2>9 DEF TokenInv, ResumeTokenSingleUse
      <3>2. \A x \in Stream : Resumed(x)' => conn'[x].rt \in Runtime
        BY <1>0, <2>1, <2>3, <2>4 DEF Resumed, PC
      <3>3. \A x \in Stream : Resumed(x)' => lease'[conn'[x].rt].tok # conn'[x].shown
        BY <2>8, <2>9, <3>2
      <3> QED
        BY <3>1, <3>3 DEF ResumeTokenSingleUse
    <2> QED
      BY <2>6, <2>7, <2>8, <2>9, <2>10, <2>11 DEF TokenInv
  <1>3. CASE UNCHANGED vars
    BY <1>3 DEF vars, dbVars, tokenVars, TokenInv, Resumed, ResumeTokenSingleUse
  <1>4. CASE Next
    BY <1>1, <1>2, <1>4, TokensOfStep
  <1> QED
    BY <1>3, <1>4

\* However many RESUMEs show one token, in however many processes, at most one of them is
\* admitted, and it makes the token useless.
THEOREM TokenWorksOnce == Spec => []ResumeTokenSingleUse
  <1>1. TokenInv => ResumeTokenSingleUse
    BY DEF TokenInv
  <1> QED
    BY <1>1, InitType, NextType, TokenInit, TokenNext, PTL DEF Spec
=============================================================================
