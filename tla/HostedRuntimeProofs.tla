------------------------- MODULE HostedRuntimeProofs -------------------------
(***************************************************************************)
(* The hosted runtimes of one user, for any number of calls, names and     *)
(* sessions, any limits and any number of faults: no container is          *)
(* forgotten, two runtimes live at once only if their calls overlapped,    *)
(* and an end without a fault releases the sessions.                       *)
(***************************************************************************)
EXTENDS HostedRuntime, TLAPS

-----------------------------------------------------------------------------
(* Types *)

LEMMA FaultTyped ==
    ASSUME HostedTypeOK, Fault \/ UNCHANGED faults
    PROVE  faults' \in 0 .. MaxFaults
  BY HostedAssumption DEF HostedTypeOK, Fault

LEMMA GotoTyped ==
    ASSUME HostedTypeOK, NEW c \in Call, NEW step \in CallStep, Goto(c, step)
    PROVE  /\ call' \in [Call -> CallType]
           /\ call'[c].step = step
           /\ call'[c].name = call[c].name /\ call'[c].alone = call[c].alone
           /\ \A o \in Call \ {c} : call'[o] = call[o]
<1> DEFINE d == [call[c] EXCEPT !.step = step]
<1>1. /\ d \in CallType /\ d.step = step
      /\ d.name = call[c].name /\ d.alone = call[c].alone
  BY DEF HostedTypeOK, CallType
<1>2. call' = [call EXCEPT ![c] = d]
  BY DEF Goto
<1> HIDE DEF d
<1> QED BY <1>1, <1>2 DEF HostedTypeOK

LEMMA GoesOnTyped ==
    ASSUME HostedTypeOK, NEW c \in Call, NEW n \in Name \cup {None}, GoesOn(c, n)
    PROVE  /\ call' \in [Call -> CallType]
           /\ call'[c].step = "plan" /\ call'[c].name = n
           /\ call'[c].alone <=> \A o \in Call \ {c} : ~Pending(o)
           /\ \A o \in Call \ {c} : call'[o] = call[o]
<1> DEFINE d == [NoCall EXCEPT !.step = "plan", !.name = n,
                    !.alone = (\A o \in Call \ {c} : ~Pending(o))]
<1>1. d \in CallType /\ d.step = "plan" /\ d.name = n
  BY DEF NoCall, CallType, CallStep
<1>2. d.alone <=> \A o \in Call \ {c} : ~Pending(o)
  BY DEF NoCall
<1>3. call' = [call EXCEPT ![c] = d]
  BY DEF GoesOn
<1> HIDE DEF d
<1> QED BY <1>1, <1>2, <1>3 DEF HostedTypeOK

\* What a removal and its record change of runtime r.
LEMMA RemovedTyped ==
    ASSUME HostedTypeOK, NEW r \in Call, Removed(r)
    PROVE  /\ container' \in [Call -> {"none", "running", "removed"}]
           /\ link' \in [Call -> {"down", "dialled", "admitted", "up", "broken"}]
           /\ container'[r] = "removed"
           /\ link'[r] = "dialled" => link[r] = "dialled"
           /\ \A o \in Call \ {r} : container'[o] = container[o] /\ link'[o] = link[o]
  BY DEF Removed, HostedTypeOK

LEMMA RecordedTyped ==
    ASSUME HostedTypeOK, NEW r \in Call, NEW outcome \in {"succeeded", "failed"},
           CleanupRecorded(r, outcome)
    PROVE  /\ row' \in [Call -> RowType]
           /\ \A o \in Call : row'[o].status = row[o].status
           /\ \A o \in Call \ {r} : row'[o] = row[o]
           /\ row[r].status # "none" => row'[r].cleanup = outcome
<1> DEFINE d == [row[r] EXCEPT !.cleanup = IF row[r].status = "none" THEN @ ELSE outcome]
<1>1. /\ d \in RowType /\ d.status = row[r].status
      /\ row[r].status # "none" => d.cleanup = outcome
  BY DEF HostedTypeOK, RowType
<1>2. row' = [row EXCEPT ![r] = d]
  BY DEF CleanupRecorded
<1> HIDE DEF d
<1> QED BY <1>1, <1>2 DEF HostedTypeOK

LEMMA HostedInitTyped == Init => HostedTypeOK
<1>1. NoCall \in CallType /\ NoRow \in RowType /\ NoSession \in SessionType
  BY DEF NoCall, CallType, CallStep, NoRow, RowType, Age, NoSession, SessionType
<1> QED BY <1>1, HostedAssumption DEF Init, HostedTypeOK

LEMMA EnsureTyped ==
    ASSUME HostedTypeOK, NEW c \in Call, EnsureStep(c)
    PROVE  HostedTypeOK'
<1>1. CASE EnsureAuto(c) \/ \E n \in Name : EnsureNamed(c, n)
  <2>1. \/ \E step \in CallStep : Goto(c, step)
        \/ \E n \in Name \cup {None} : GoesOn(c, n)
    BY <1>1 DEF EnsureAuto, EnsureNamed, CallStep
  <2>2. call' \in [Call -> CallType]
    BY <2>1, GotoTyped, GoesOnTyped
  <2> QED BY <1>1, <2>2 DEF EnsureAuto, EnsureNamed, HostedTypeOK
<1>2. CASE CheckPlan(c) \/ CheckSlot(c) \/ IssueCredential(c) \/ ProvisionFails(c)
             \/ RegistrationSeen(c) \/ RegistrationTimeout(c)
  <2>1. \E step \in CallStep : Goto(c, step)
    BY <1>2 DEF CheckPlan, CheckSlot, IssueCredential, ProvisionFails, RegistrationSeen,
                RegistrationTimeout, CallStep
  <2>2. call' \in [Call -> CallType]
    BY <2>1, GotoTyped
  <2>3. UNCHANGED <<row, container, link, ender, session, stray, faults>>
    BY <1>2 DEF CheckPlan, CheckSlot, IssueCredential, ProvisionFails, RegistrationSeen,
                RegistrationTimeout
  <2> QED BY <2>2, <2>3 DEF HostedTypeOK
<1>3. CASE GenerateName(c)
  <2>1. ASSUME NEW n \in Name PROVE [call[c] EXCEPT !.step = "issue", !.name = n] \in CallType
    BY DEF HostedTypeOK, CallType, CallStep
  <2>2. call' \in [Call -> CallType]
    BY <1>3, <2>1, GotoTyped DEF GenerateName, HostedTypeOK, CallStep
  <2> QED BY <1>3, <2>2 DEF GenerateName, HostedTypeOK
<1>4. CASE ProvisionStarts(c) \/ ProvisionLosesContainer(c)
  <2>1. call' \in [Call -> CallType]
    BY <1>4, GotoTyped DEF ProvisionStarts, ProvisionLosesContainer, CallStep
  <2>2. faults' \in 0 .. MaxFaults
    BY <1>4, FaultTyped DEF ProvisionStarts, ProvisionLosesContainer
  <2>3. container' \in [Call -> {"none", "running", "removed"}] /\ stray' \subseteq Call
    BY <1>4 DEF ProvisionStarts, ProvisionLosesContainer, Started, HostedTypeOK
  <2> QED BY <1>4, <2>1, <2>2, <2>3 DEF ProvisionStarts, ProvisionLosesContainer, HostedTypeOK
<1>5. CASE RemoveUnregistered(c)
  <2>1. call' \in [Call -> CallType] /\ row' \in [Call -> RowType]
    BY <1>5, GotoTyped, RecordedTyped DEF RemoveUnregistered, CallStep
  <2> QED BY <1>5, <2>1, RemovedTyped DEF RemoveUnregistered, HostedTypeOK
<1>6. CASE RemoveUnregisteredFails(c) \/ CallDies(c)
  <2>1. call' \in [Call -> CallType]
    BY <1>6, GotoTyped DEF RemoveUnregisteredFails, CallDies, CallStep
  <2>2. row' \in [Call -> RowType]
    BY <1>6, RecordedTyped DEF RemoveUnregisteredFails, CallDies, HostedTypeOK
  <2>3. faults' \in 0 .. MaxFaults
    BY <1>6, FaultTyped DEF RemoveUnregisteredFails, CallDies
  <2>4. stray' \subseteq Call
    BY <1>6 DEF RemoveUnregisteredFails, CallDies, HostedTypeOK
  <2> QED BY <1>6, <2>1, <2>2, <2>3, <2>4 DEF RemoveUnregisteredFails, CallDies, HostedTypeOK
<1> QED BY <1>1, <1>2, <1>3, <1>4, <1>5, <1>6 DEF EnsureStep

LEMMA StreamTyped ==
    ASSUME HostedTypeOK, NEW r \in Call, StreamStep(r)
    PROVE  HostedTypeOK'
<1>1. CASE Dial(r) \/ ResumeAdmitted(r)
  BY <1>1 DEF Dial, ResumeAdmitted, HostedTypeOK
<1>2. CASE Admit(r)
  <2>1. [NoRow EXCEPT !.status = "active", !.name = call[r].name] \in RowType
    <3>1. call[r].name \in Name \cup {None}
      BY DEF HostedTypeOK, CallType
    <3>2. NoRow \in RowType
      BY DEF NoRow, RowType, Age
    <3> QED BY <3>1, <3>2 DEF RowType
  <2>2. row' \in [Call -> RowType]
    BY <1>2, <2>1 DEF Admit, HostedTypeOK
  <2> QED BY <1>2, <2>2 DEF Admit, HostedTypeOK
<1>3. CASE OwnerRecorded(r) \/ Heartbeat(r)
  <2>1. /\ [row[r] EXCEPT !.owner = TRUE, !.age = 0] \in RowType
        /\ [row[r] EXCEPT !.status = "active", !.owner = TRUE, !.age = 0] \in RowType
    <3>1. row[r] \in RowType /\ 0 \in Age
      BY DEF HostedTypeOK, Age
    <3> QED BY <3>1 DEF RowType
  <2>2. row' \in [Call -> RowType]
    BY <1>3, <2>1 DEF OwnerRecorded, Heartbeat, HostedTypeOK
  <2> QED BY <1>3, <2>2 DEF OwnerRecorded, Heartbeat, HostedTypeOK
<1>4. CASE Disconnected(r) \/ StreamBreaks(r)
  <2>1. [row[r] EXCEPT !.owner = FALSE] \in RowType
    BY DEF HostedTypeOK, RowType
  <2>2. row' \in [Call -> RowType]
    BY <1>4, <2>1 DEF Disconnected, StreamBreaks, HostedTypeOK
  <2>3. faults' \in 0 .. MaxFaults
    BY <1>4, FaultTyped DEF Disconnected, StreamBreaks
  <2> QED BY <1>4, <2>2, <2>3 DEF Disconnected, StreamBreaks, HostedTypeOK
<1>5. CASE ContainerDies(r)
  BY <1>5, RemovedTyped, FaultTyped DEF ContainerDies, HostedTypeOK
<1> QED BY <1>1, <1>2, <1>3, <1>4, <1>5 DEF StreamStep

LEMMA EndTyped ==
    ASSUME HostedTypeOK, NEW r \in Call, EndStep(r) \/ ResolveEnded(r)
    PROVE  HostedTypeOK'
<1>1. CASE ReadBlockers(r)
  BY <1>1 DEF ReadBlockers, HostedTypeOK
<1>2. CASE EndRuntime(r)
  <2>1. [row[r] EXCEPT !.status = "cancelled"] \in RowType
    BY DEF HostedTypeOK, RowType, Ended
  <2> QED BY <1>2, <2>1 DEF EndRuntime, HostedTypeOK
<1>3. CASE Silent(r)
  <2>1. [row[r] EXCEPT !.age = @ + 1] \in RowType
    <3>1. row[r] \in RowType /\ row[r].age < 2
      BY <1>3 DEF Silent, HostedTypeOK
    <3>2. row[r].age + 1 \in Age
      BY <3>1 DEF RowType, Age
    <3> QED BY <3>1, <3>2 DEF RowType
  <2> QED BY <1>3, <2>1 DEF Silent, HostedTypeOK
<1>4. CASE Deprovision(r)
  BY <1>4, RemovedTyped, RecordedTyped DEF Deprovision, HostedTypeOK
<1>5. CASE DeprovisionFails(r)
  BY <1>5, RecordedTyped, FaultTyped DEF DeprovisionFails, HostedTypeOK
<1>6. Recoverable(r) => session' \in [Session -> SessionType]
  BY DEF Recoverable, HostedTypeOK, NoSession, SessionType
<1>7. CASE MarkSessions(r)
  BY <1>6, <1>7, FaultTyped DEF MarkSessions, HostedTypeOK
<1>8. CASE EnderDies(r)
  BY <1>8, FaultTyped DEF EnderDies, HostedTypeOK
<1>9. CASE ResolveEnded(r)
  BY <1>6, <1>9 DEF ResolveEnded, HostedTypeOK
<1> QED BY <1>1, <1>2, <1>3, <1>4, <1>5, <1>7, <1>8, <1>9 DEF EndStep

LEMMA WatchdogTyped == ASSUME HostedTypeOK, Watchdog PROVE HostedTypeOK'
<1>1. \A r \in Call : /\ [row[r] EXCEPT !.status = "unhealthy"] \in RowType
                      /\ [row[r] EXCEPT !.status = "heartbeat_stale"] \in RowType
                      /\ row[r] \in RowType
  BY DEF HostedTypeOK, RowType, Ended
<1>2. CASE MarkStale
  BY <1>1, <1>2 DEF MarkStale, HostedTypeOK
<1>3. CASE EndDead
  BY <1>1, <1>3 DEF EndDead, HostedTypeOK
<1> QED BY <1>2, <1>3 DEF Watchdog

LEMMA SessionTyped ==
    ASSUME HostedTypeOK, NEW s \in Session, SessionStep(s)
    PROVE  HostedTypeOK'
<1>1. ASSUME NEW r \in Call, ResolveRuntimeRouteByID(s, r) PROVE HostedTypeOK'
  <2>1. [NoSession EXCEPT !.st = "resolved", !.at = r] \in SessionType
    BY DEF NoSession, SessionType
  <2> QED BY <1>1, <2>1 DEF ResolveRuntimeRouteByID, HostedTypeOK
<1>2. CASE SessionStarts(s)
  <2>1. ASSUME NEW l \in BOOLEAN PROVE [session[s] EXCEPT !.st = "running", !.late = l] \in SessionType
    BY DEF HostedTypeOK, SessionType
  <2> QED BY <1>2, <2>1 DEF SessionStarts, HostedTypeOK
<1>3. CASE SessionStops(s)
  BY <1>3 DEF SessionStops, HostedTypeOK, NoSession, SessionType
<1> QED BY <1>1, <1>2, <1>3 DEF SessionStep

LEMMA HostedNextTyped == HostedTypeOK /\ [Next]_vars => HostedTypeOK'
<1> SUFFICES ASSUME HostedTypeOK, [Next]_vars PROVE HostedTypeOK'
  OBVIOUS
<1>1. CASE UNCHANGED vars
  BY <1>1 DEF vars, HostedTypeOK
<1>2. CASE Next
  BY <1>2, EnsureTyped, StreamTyped, EndTyped, WatchdogTyped, SessionTyped DEF Next
<1> QED BY <1>1, <1>2

\* In every reachable state every variable has its type: the steps of a call, the
\* columns of a registry row, the states of docker, of a stream and of a session.
THEOREM HostedTyped == Spec => []HostedTypeOK
<1> QED BY HostedInitTyped, HostedNextTyped, PTL DEF Spec

-----------------------------------------------------------------------------
(* One runtime at a time *)

\* What is left of an end is left of a row: its container and its sessions are looked
\* after once the row has ended.
EnderSound(r) ==
    ender[r] # "none" =>
        /\ row[r].status # "none"
        /\ ender[r] \in {"deprovision", "mark"} => row[r].status \in Ended

\* Until docker run there is no container, no stream and no row; and only a call that
\* has read the registry can have been alone.
Early == {"new", "plan", "slot", "name", "issue", "provision"}

NothingYet(r) ==
    /\ call[r].step \in Early =>
          row[r].status = "none" /\ container[r] = "none" /\ link[r] = "down"
    /\ call[r].alone => call[r].step # "new"

Accounted(r) ==
    container[r] = "running" =>
        \/ call[r].step \in {"wait", "cleanup"}
        \/ Live(r)
        \/ ender[r] = "deprovision"
        \/ row[r].status \in Ended /\ row[r].cleanup = "failed"
        \/ r \in stray

Sound(r) == EnderSound(r) /\ NothingYet(r) /\ Accounted(r)

\* The step is one of another runtime.
Untouched(r) ==
    /\ call'[r] = call[r] /\ row'[r] = row[r] /\ container'[r] = container[r]
    /\ link'[r] = link[r] /\ ender'[r] = ender[r] /\ stray \subseteq stray'

LEMMA UntouchedSound ==
    ASSUME NEW r \in Call, Sound(r), Untouched(r) PROVE Sound(r)'
  BY DEF Untouched, Sound, EnderSound, NothingYet, Accounted, Live

LEMMA EnsureTouchesOne ==
    ASSUME HostedTypeOK, NEW c \in Call, EnsureStep(c), NEW r \in Call \ {c}
    PROVE  Untouched(r)
<1>1. CASE \/ EnsureAuto(c) \/ (\E n \in Name : EnsureNamed(c, n)) \/ CheckPlan(c)
           \/ CheckSlot(c) \/ IssueCredential(c) \/ ProvisionFails(c) \/ RegistrationSeen(c)
           \/ RegistrationTimeout(c)
  <2>1. \/ \E step \in CallStep : Goto(c, step)
        \/ \E n \in Name \cup {None} : GoesOn(c, n)
    BY <1>1 DEF EnsureAuto, EnsureNamed, CheckPlan, CheckSlot, IssueCredential,
                ProvisionFails, RegistrationSeen, RegistrationTimeout, CallStep
  <2>2. call'[r] = call[r]
    BY <2>1, GotoTyped, GoesOnTyped
  <2>3. UNCHANGED <<row, container, link, ender, session, stray, faults>>
    BY <1>1 DEF EnsureAuto, EnsureNamed, CheckPlan, CheckSlot, IssueCredential,
                ProvisionFails, RegistrationSeen, RegistrationTimeout
  <2> QED BY <2>2, <2>3 DEF Untouched
<1>2. CASE GenerateName(c)
  BY <1>2, GotoTyped DEF GenerateName, HostedTypeOK, CallStep, Untouched
<1>3. CASE ProvisionStarts(c) \/ ProvisionLosesContainer(c)
  <2>1. call'[r] = call[r]
    BY <1>3, GotoTyped DEF ProvisionStarts, ProvisionLosesContainer, CallStep
  <2> QED BY <1>3, <2>1 DEF ProvisionStarts, ProvisionLosesContainer, Started, HostedTypeOK,
                            Untouched
<1>4. CASE RemoveUnregistered(c)
  <2>1. call'[r] = call[r] /\ row'[r] = row[r]
    BY <1>4, GotoTyped, RecordedTyped DEF RemoveUnregistered, CallStep
  <2> QED BY <1>4, <2>1, RemovedTyped DEF RemoveUnregistered, Untouched
<1>5. CASE RemoveUnregisteredFails(c) \/ CallDies(c)
  <2>1. call'[r] = call[r]
    BY <1>5, GotoTyped DEF RemoveUnregisteredFails, CallDies, CallStep
  <2>2. row'[r] = row[r]
    BY <1>5, RecordedTyped DEF RemoveUnregisteredFails, CallDies
  <2> QED BY <1>5, <2>1, <2>2 DEF RemoveUnregisteredFails, CallDies, Untouched
<1> QED BY <1>1, <1>2, <1>3, <1>4, <1>5 DEF EnsureStep

LEMMA StreamTouchesOne ==
    ASSUME HostedTypeOK, NEW c \in Call, StreamStep(c), NEW r \in Call \ {c}
    PROVE  Untouched(r)
<1>1. CASE ContainerDies(c)
  BY <1>1, RemovedTyped DEF ContainerDies, Untouched
<1>2. CASE Dial(c) \/ Admit(c) \/ ResumeAdmitted(c)
  BY <1>2 DEF Dial, Admit, ResumeAdmitted, HostedTypeOK, Untouched
<1>3. CASE OwnerRecorded(c) \/ Heartbeat(c) \/ Disconnected(c) \/ StreamBreaks(c)
  BY <1>3 DEF OwnerRecorded, Heartbeat, Disconnected, StreamBreaks, HostedTypeOK, Untouched
<1> QED BY <1>1, <1>2, <1>3 DEF StreamStep

LEMMA EndTouchesOne ==
    ASSUME HostedTypeOK, NEW c \in Call, EndStep(c) \/ ResolveEnded(c), NEW r \in Call \ {c}
    PROVE  Untouched(r)
<1>1. CASE Deprovision(c) \/ DeprovisionFails(c)
  <2>1. row'[r] = row[r]
    BY <1>1, RecordedTyped DEF Deprovision, DeprovisionFails
  <2>2. container'[r] = container[r] /\ link'[r] = link[r]
    BY <1>1, RemovedTyped DEF Deprovision, DeprovisionFails
  <2> QED BY <1>1, <2>1, <2>2 DEF Deprovision, DeprovisionFails, HostedTypeOK, Untouched
<1>2. CASE ReadBlockers(c) \/ EndRuntime(c) \/ Silent(c)
  BY <1>2 DEF ReadBlockers, EndRuntime, Silent, HostedTypeOK, Untouched
<1>3. CASE MarkSessions(c) \/ EnderDies(c) \/ ResolveEnded(c)
  BY <1>3 DEF MarkSessions, EnderDies, ResolveEnded, HostedTypeOK, Untouched
<1> QED BY <1>1, <1>2, <1>3 DEF EndStep

\* A call that only moves on: it reuses a row, fails before docker run, or takes one of
\* the steps between the plan and the credential.
LEMMA MovesOnSound ==
    ASSUME HostedTypeOK, NEW c \in Call, Sound(c),
           UNCHANGED <<row, container, link, ender, stray>>,
           call'[c].alone => call[c].alone \/ call[c].step = "new",
           call'[c].step # "new",
           \/ call[c].step \in Early
           \/ call[c].step = "wait" /\ Live(c) /\ call'[c].step = "done"
           \/ call[c].step = "wait" /\ call'[c].step = "cleanup"
    PROVE  Sound(c)'
<1>1. EnderSound(c)'
  BY DEF Sound, EnderSound
<1>2. NothingYet(c)'
  BY DEF Sound, NothingYet, Early
<1>3. Accounted(c)'
  BY DEF Sound, NothingYet, Accounted, Live
<1> QED BY <1>1, <1>2, <1>3 DEF Sound

LEMMA EnsureSound ==
    ASSUME HostedTypeOK, NEW c \in Call, EnsureStep(c), Sound(c)
    PROVE  Sound(c)'
<1>0. call[c] \in CallType
  BY DEF HostedTypeOK
<1>1. CASE EnsureAuto(c) \/ \E n \in Name : EnsureNamed(c, n)
  <2>1. \/ \E step \in {"done", "failed"} : Goto(c, step)
        \/ \E n \in Name \cup {None} : GoesOn(c, n)
    BY <1>1 DEF EnsureAuto, EnsureNamed
  <2>2. call'[c].step # "new"
    BY <2>1, GotoTyped, GoesOnTyped DEF CallStep
  <2>3. call[c].step = "new" /\ UNCHANGED <<row, container, link, ender, stray>>
    BY <1>1 DEF EnsureAuto, EnsureNamed
  <2> QED BY <2>2, <2>3, MovesOnSound DEF Early
<1>2. CASE CheckPlan(c) \/ CheckSlot(c) \/ IssueCredential(c) \/ ProvisionFails(c)
  <2>1. \E step \in CallStep \ {"new"} : Goto(c, step)
    BY <1>2 DEF CheckPlan, CheckSlot, IssueCredential, ProvisionFails, CallStep
  <2>2. call'[c].step # "new" /\ call'[c].alone = call[c].alone
    BY <1>0, <2>1, GotoTyped DEF CallType
  <2>3. call[c].step \in Early /\ UNCHANGED <<row, container, link, ender, stray>>
    BY <1>2 DEF CheckPlan, CheckSlot, IssueCredential, ProvisionFails, Early
  <2> QED BY <2>2, <2>3, MovesOnSound
<1>3. CASE GenerateName(c)
  <2>1. call'[c].step # "new" /\ call'[c].alone = call[c].alone
    <3>1. CASE Goto(c, "failed")
      BY <1>0, <3>1, GotoTyped DEF CallStep, CallType
    <3>2. CASE \E n \in Name :
                  call' = [call EXCEPT ![c] = [@ EXCEPT !.step = "issue", !.name = n]]
      BY <1>0, <3>2 DEF HostedTypeOK, CallType
    <3> QED BY <1>3, <3>1, <3>2 DEF GenerateName
  <2> QED BY <1>3, <2>1, MovesOnSound DEF GenerateName, Early
<1>4. CASE RegistrationSeen(c) \/ RegistrationTimeout(c)
  <2>1. /\ call'[c].alone = call[c].alone
        /\ \/ RegistrationSeen(c) /\ call'[c].step = "done"
           \/ RegistrationTimeout(c) /\ call'[c].step = "cleanup"
    BY <1>0, <1>4, GotoTyped DEF RegistrationSeen, RegistrationTimeout, CallStep, CallType
  <2> QED BY <1>4, <2>1, MovesOnSound DEF RegistrationSeen, RegistrationTimeout, Registered, Live
<1>5. CASE ProvisionStarts(c) \/ ProvisionLosesContainer(c)
  <2>1. /\ call'[c].alone = call[c].alone
        /\ \/ call'[c].step = "wait"
           \/ call'[c].step = "failed" /\ c \in stray'
    BY <1>0, <1>5, GotoTyped DEF ProvisionStarts, ProvisionLosesContainer, CallStep, CallType
  <2>2. row' = row /\ ender' = ender /\ call[c].step = "provision"
    BY <1>5 DEF ProvisionStarts, ProvisionLosesContainer
  <2>3. EnderSound(c)'
    BY <2>2 DEF Sound, EnderSound
  <2>4. NothingYet(c)'
    BY <2>1, <2>2 DEF Sound, NothingYet, Early
  <2>5. Accounted(c)'
    BY <2>1 DEF Accounted
  <2> QED BY <2>3, <2>4, <2>5 DEF Sound
<1>6. CASE RemoveUnregistered(c) \/ RemoveUnregisteredFails(c) \/ CallDies(c)
  <2>1. call'[c].alone = call[c].alone /\ call'[c].step = "failed"
    BY <1>0, <1>6, GotoTyped DEF RemoveUnregistered, RemoveUnregisteredFails, CallDies,
                                 CallStep, CallType
  <2>2. row'[c].status = row[c].status /\ ender' = ender
    BY <1>6, RecordedTyped DEF RemoveUnregistered, RemoveUnregisteredFails, CallDies
  <2>3. EnderSound(c)'
    BY <2>2 DEF Sound, EnderSound
  <2>4. NothingYet(c)'
    BY <1>6, <2>1 DEF Sound, NothingYet, Early, RemoveUnregistered, RemoveUnregisteredFails,
                      CallDies
  <2>5. Accounted(c)'
    <3>1. CASE RemoveUnregistered(c)
      BY <3>1, RemovedTyped DEF RemoveUnregistered, Accounted
    <3>2. CASE RemoveUnregisteredFails(c)
      <4>1. row[c].status # "none" => row'[c].cleanup = "failed"
        BY <3>2, RecordedTyped DEF RemoveUnregisteredFails
      <4>2. row[c].status = "none" => c \in stray'
        BY <3>2 DEF RemoveUnregisteredFails
      <4>3. row[c].status \in {"none", "active", "unhealthy"} \cup Ended
        BY DEF HostedTypeOK, RowType
      <4> QED BY <2>2, <4>1, <4>2, <4>3 DEF Accounted, Live
    <3>3. CASE CallDies(c)
      BY <3>3 DEF CallDies, Accounted
    <3> QED BY <1>6, <3>1, <3>2, <3>3
  <2> QED BY <2>3, <2>4, <2>5 DEF Sound
<1> QED BY <1>1, <1>2, <1>3, <1>4, <1>5, <1>6 DEF EnsureStep

\* The steps of a stream: a call before docker run has no container to dial.
LEMMA StreamSound ==
    ASSUME HostedTypeOK, NEW r \in Call, StreamStep(r), Sound(r)
    PROVE  Sound(r)'
<1>0. /\ call' = call /\ ender' = ender /\ stray' = stray
      /\ container[r] = "running" \/ link[r] # "down"
  BY DEF StreamStep, Dial, Admit, ResumeAdmitted, OwnerRecorded, Heartbeat, Disconnected,
         StreamBreaks, ContainerDies
<1>1. /\ \/ row'[r].status = row[r].status
         \/ row'[r].status = "active" /\ row[r].status \notin Ended
      /\ Live(r) => Live(r)'
      /\ row[r].status \in Ended => row'[r].status = row[r].status
      /\ row[r].status # "none" => row'[r].status # "none" /\ row'[r].cleanup = row[r].cleanup
  <2>1. CASE row'[r] = row[r]
    <3>1. Live(r)' <=> Live(r)
      BY <2>1 DEF Live
    <3> QED BY <2>1, <3>1
  <2>2. CASE Admit(r)
    <3>1. row'[r] = row[r] \/ row'[r] = [NoRow EXCEPT !.status = "active", !.name = call[r].name]
      BY <2>2 DEF Admit, HostedTypeOK
    <3> QED BY <2>2, <3>1 DEF Admit, NoRow, Live, Ended
  <2>3. CASE OwnerRecorded(r) \/ Heartbeat(r) \/ Disconnected(r)
    <3>1. row[r] \in RowType /\ row \in [Call -> RowType]
      BY DEF HostedTypeOK
    <3>2. \/ row'[r] = row[r]
          \/ row'[r] = [row[r] EXCEPT !.owner = TRUE, !.age = 0] /\ Live(r)
          \/ row'[r] = [row[r] EXCEPT !.status = "active", !.owner = TRUE, !.age = 0] /\ Live(r)
          \/ row'[r] = [row[r] EXCEPT !.owner = FALSE]
      BY <2>3, <3>1 DEF OwnerRecorded, Heartbeat, Disconnected
    <3> QED BY <2>1, <3>1, <3>2 DEF RowType, Live, Ended
  <2> QED BY <2>1, <2>2, <2>3 DEF StreamStep, Dial, ResumeAdmitted, StreamBreaks, ContainerDies
<1>2. EnderSound(r)'
  BY <1>0, <1>1 DEF Sound, EnderSound
<1>3. NothingYet(r)'
  BY <1>0 DEF Sound, NothingYet
<1>4. container'[r] = "running" => container[r] = "running"
  BY RemovedTyped DEF StreamStep, Dial, Admit, ResumeAdmitted, OwnerRecorded, Heartbeat,
                      Disconnected, StreamBreaks, ContainerDies
<1>5. Accounted(r)'
  <2>1. row[r].status \in Ended => row[r].status # "none"
    BY DEF Ended
  <2> QED BY <1>0, <1>1, <1>4, <2>1 DEF Sound, Accounted
<1> QED BY <1>2, <1>3, <1>5 DEF Sound

LEMMA EndSound ==
    ASSUME HostedTypeOK, NEW r \in Call, EndStep(r) \/ ResolveEnded(r), Sound(r)
    PROVE  Sound(r)'
<1>0. /\ call' = call /\ stray \subseteq stray'
      /\ row \in [Call -> RowType] /\ row[r] \in RowType
  BY DEF EndStep, ResolveEnded, ReadBlockers, EndRuntime, Silent, Deprovision,
         DeprovisionFails, MarkSessions, EnderDies, HostedTypeOK
<1>1. CASE ResolveEnded(r)
  BY <1>1, UntouchedSound DEF ResolveEnded, Untouched
<1>2. CASE ReadBlockers(r)
  <2>1. ender'[r] = "update" /\ Live(r) /\ UNCHANGED <<row, container, link>>
    BY <1>2 DEF ReadBlockers, HostedTypeOK
  <2> QED BY <1>0, <2>1 DEF Sound, EnderSound, NothingYet, Accounted, Live
<1>3. CASE EndRuntime(r)
  <2>1. row'[r].status = IF Live(r) THEN "cancelled" ELSE row[r].status
    BY <1>0, <1>3 DEF EndRuntime, RowType
  <2>2. ender[r] = "update" /\ ender'[r] = "deprovision" /\ UNCHANGED <<container, link>>
    BY <1>3 DEF EndRuntime, HostedTypeOK
  <2>3. row'[r].status \in Ended
    BY <1>0, <2>1, <2>2 DEF Sound, EnderSound, Live, RowType, Ended
  <2>4. NothingYet(r)'
    BY <1>0, <2>2 DEF Sound, NothingYet, EnderSound
  <2> QED BY <2>2, <2>3, <2>4 DEF Sound, EnderSound, Accounted, Ended
<1>4. CASE Silent(r)
  <2>1. /\ row'[r].status = row[r].status /\ row'[r].cleanup = row[r].cleanup
        /\ UNCHANGED <<container, link, ender, stray>>
    BY <1>0, <1>4 DEF Silent, RowType
  <2>2. Live(r)' <=> Live(r)
    BY <2>1 DEF Live
  <2> QED BY <1>0, <2>1, <2>2 DEF Sound, EnderSound, NothingYet, Accounted
<1>5. CASE Deprovision(r) \/ DeprovisionFails(r)
  <2>1. /\ ender[r] = "deprovision" /\ row[r].status \in Ended
        /\ row'[r].status = row[r].status /\ row[r].status # "none"
    BY <1>5, RecordedTyped DEF Deprovision, DeprovisionFails, Sound, EnderSound
  <2>2. ender'[r] = "mark"
    BY <1>5 DEF Deprovision, DeprovisionFails, HostedTypeOK
  <2>3. container'[r] = "running" => row'[r].cleanup = "failed"
    <3>1. CASE Deprovision(r)
      BY <3>1, RemovedTyped DEF Deprovision
    <3>2. CASE DeprovisionFails(r)
      BY <2>1, <3>2, RecordedTyped DEF DeprovisionFails
    <3> QED BY <1>5, <3>1, <3>2
  <2>4. EnderSound(r)' /\ Accounted(r)'
    BY <2>1, <2>2, <2>3 DEF EnderSound, Accounted
  <2>5. NothingYet(r)'
    BY <1>0, <2>1 DEF Sound, NothingYet
  <2> QED BY <2>4, <2>5 DEF Sound
<1>6. CASE MarkSessions(r) \/ EnderDies(r)
  <2>1. /\ UNCHANGED <<row, container, link>> /\ ender'[r] = "none"
        /\ ender[r] = "deprovision" => r \in stray'
    BY <1>6 DEF MarkSessions, EnderDies, HostedTypeOK
  <2>2. Live(r)' <=> Live(r)
    BY <2>1 DEF Live
  <2> QED BY <1>0, <2>1, <2>2 DEF Sound, EnderSound, NothingYet, Accounted
<1> QED BY <1>1, <1>2, <1>3, <1>4, <1>5, <1>6 DEF EndStep

LEMMA WatchdogSound ==
    ASSUME HostedTypeOK, Watchdog, NEW r \in Call, Sound(r)
    PROVE  Sound(r)'
<1>0. UNCHANGED <<call, container, link, stray>> /\ row[r] \in RowType
  BY DEF Watchdog, MarkStale, EndDead, HostedTypeOK
<1>1. CASE row'[r] = row[r] /\ ender'[r] = ender[r]
  BY <1>0, <1>1, UntouchedSound DEF Untouched
<1>2. CASE Live(r) /\ row'[r].status = "unhealthy" /\ ender'[r] = ender[r]
  BY <1>0, <1>2 DEF Sound, EnderSound, NothingYet, Accounted, Live, Ended
<1>3. CASE /\ Live(r)
           /\ row'[r].status = "heartbeat_stale" /\ ender'[r] = "deprovision"
  BY <1>0, <1>3 DEF Sound, EnderSound, NothingYet, Accounted, Live, Ended
<1>4. CASE MarkStale
  <2>1. \/ row'[r] = row[r]
        \/ Live(r) /\ row'[r] = [row[r] EXCEPT !.status = "unhealthy"]
    BY <1>4 DEF MarkStale, Live
  <2> QED BY <1>0, <1>1, <1>2, <1>4, <2>1 DEF MarkStale, RowType
<1>5. CASE EndDead
  <2>1. \/ row'[r] = row[r] /\ ender'[r] = ender[r]
        \/ /\ Live(r) /\ row'[r] = [row[r] EXCEPT !.status = "heartbeat_stale"]
           /\ ender'[r] = "deprovision"
    BY <1>5 DEF EndDead, Dead, Live
  <2> QED BY <1>0, <1>1, <1>3, <2>1 DEF RowType
<1> QED BY <1>4, <1>5 DEF Watchdog

AllSound == \A r \in Call : Sound(r)

\* What a step does to one runtime: nothing, or one of the steps of this runtime.
LEMMA StepOfOne ==
    ASSUME HostedTypeOK, [Next]_vars, NEW r \in Call
    PROVE  \/ Untouched(r)
           \/ EnsureStep(r)
           \/ StreamStep(r)
           \/ EndStep(r) \/ ResolveEnded(r)
           \/ Watchdog
<1>1. CASE UNCHANGED vars
  BY <1>1 DEF vars, Untouched
<1>2. ASSUME NEW c \in Call, EnsureStep(c) PROVE EnsureStep(r) \/ Untouched(r)
  BY <1>2, EnsureTouchesOne
<1>3. ASSUME NEW c \in Call, StreamStep(c) PROVE StreamStep(r) \/ Untouched(r)
  BY <1>3, StreamTouchesOne
<1>4. ASSUME NEW c \in Call, EndStep(c) \/ ResolveEnded(c)
      PROVE  EndStep(r) \/ ResolveEnded(r) \/ Untouched(r)
  BY <1>4, EndTouchesOne
<1>5. ASSUME NEW s \in Session, SessionStep(s) PROVE Untouched(r)
  BY <1>5 DEF SessionStep, ResolveRuntimeRouteByID, SessionStarts, SessionStops, Untouched
<1> QED BY <1>1, <1>2, <1>3, <1>4, <1>5 DEF Next

LEMMA SoundKept == HostedTypeOK /\ AllSound /\ [Next]_vars => AllSound'
<1> SUFFICES ASSUME HostedTypeOK, AllSound, [Next]_vars, NEW r \in Call PROVE Sound(r)'
  BY DEF AllSound
<1>1. Sound(r)
  BY DEF AllSound
<1> QED BY <1>1, StepOfOne, UntouchedSound, EnsureSound, StreamSound, EndSound, WatchdogSound

LEMMA SoundInit == Init => AllSound
  BY DEF Init, NoCall, NoRow, AllSound, Sound, EnderSound, NothingYet, Accounted, Early

\* A container runs only as long as somebody answers for it: the call that waits for its
\* HELLO or gives it up, a live row, the end that will remove it, or the record that the
\* removal failed; it can only stray where docker run is cut off or a process dies.
THEOREM ContainersAccounted == Spec => []ContainersAccountedFor
<1>1. AllSound => ContainersAccountedFor
  BY DEF AllSound, Sound, Accounted, ContainersAccountedFor
<1> QED BY <1>1, HostedTyped, SoundInit, SoundKept, PTL DEF Spec

-----------------------------------------------------------------------------
(* One hosted runtime at a time *)

\* The call is over, and no container of it may still bring a row about.
Settled(r) == call[r].step # "new" /\ ~Pending(r)

Over(r) == Settled(r) /\ ~Live(r)

\* Of two calls that were alone, one came first: its runtime is settled, and as long as
\* that runtime lives the other call has nothing, or is about to look for the slot.
Before(r, o) ==
    /\ Settled(r)
    /\ Live(r) => \/ call[o].step \in {"plan", "slot"} /\ call[o].name # None
                  \/ Over(o)

OneAfterAnother ==
    \A r, o \in Call : r # o /\ call[r].alone /\ call[o].alone => Before(r, o) \/ Before(o, r)

\* What is settled stays so, and does not come to life.
LEMMA SettledKept ==
    ASSUME HostedTypeOK, [Next]_vars, NEW r \in Call, Settled(r)
    PROVE  Settled(r)' /\ (Live(r)' => Live(r))
<1>0. /\ call[r].step \notin {"new", "plan", "slot", "name", "issue", "provision", "wait", "cleanup"}
      /\ row[r].status = "none" => container[r] # "running" /\ link[r] # "dialled"
  BY DEF Settled, Pending
<1>1. CASE Untouched(r)
  BY <1>1 DEF Untouched, Settled, Pending, Live
<1>2. CASE EnsureStep(r)
  BY <1>0, <1>2 DEF EnsureStep, EnsureAuto, EnsureNamed, CheckPlan, CheckSlot, GenerateName,
     IssueCredential, ProvisionStarts, ProvisionFails, ProvisionLosesContainer,
     RegistrationSeen, RegistrationTimeout, RemoveUnregistered, RemoveUnregisteredFails,
     CallDies
<1>3. SUFFICES ASSUME StreamStep(r) \/ EndStep(r) \/ ResolveEnded(r) \/ Watchdog
               PROVE  /\ call'[r] = call[r]
                      /\ row'[r].status = "none" <=> row[r].status = "none"
                      /\ container'[r] = "running" => container[r] = "running"
                      /\ row[r].status = "none" /\ link'[r] = "dialled" =>
                            container[r] = "running" \/ link[r] = "dialled"
                      /\ Live(r)' => Live(r)
  BY <1>0, <1>1, <1>2, StepOfOne DEF Settled, Pending
<1>4. row \in [Call -> RowType] /\ row[r] \in RowType
  BY DEF HostedTypeOK
<1>5. CASE StreamStep(r)
  <2>1. CASE Dial(r) \/ ResumeAdmitted(r) \/ StreamBreaks(r)
    <3>1. row' = row /\ call' = call /\ container' = container
      BY <2>1 DEF Dial, ResumeAdmitted, StreamBreaks
    <3>2. link'[r] = "dialled" => container[r] = "running"
      BY <2>1 DEF Dial, ResumeAdmitted, StreamBreaks, HostedTypeOK
    <3>3. Live(r)' <=> Live(r)
      BY <3>1 DEF Live
    <3> QED BY <3>1, <3>2, <3>3
  <2>2. CASE ContainerDies(r)
    <3>1. Live(r)' <=> Live(r)
      BY <2>2 DEF ContainerDies, Live
    <3> QED BY <2>2, <3>1, RemovedTyped DEF ContainerDies
  <2>3. ~Admit(r)
    BY <1>0 DEF Admit
  <2>4. CASE OwnerRecorded(r) \/ Heartbeat(r) \/ Disconnected(r)
    <3>1. \/ row'[r] = row[r]
          \/ row'[r] = [row[r] EXCEPT !.owner = TRUE, !.age = 0] /\ Live(r)
          \/ row'[r] = [row[r] EXCEPT !.status = "active", !.owner = TRUE, !.age = 0] /\ Live(r)
          \/ row'[r] = [row[r] EXCEPT !.owner = FALSE]
      BY <1>4, <2>4 DEF OwnerRecorded, Heartbeat, Disconnected
    <3>2. (row'[r].status = "none" <=> row[r].status = "none") /\ (Live(r)' => Live(r))
      BY <1>4, <3>1 DEF RowType, Live
    <3>3. call' = call /\ container' = container /\ (link'[r] = "dialled" => link[r] = "dialled")
      BY <2>4 DEF OwnerRecorded, Heartbeat, Disconnected, HostedTypeOK
    <3> QED BY <3>2, <3>3
  <2> QED BY <1>5, <2>1, <2>2, <2>3, <2>4 DEF StreamStep
<1>6. CASE EndStep(r) \/ ResolveEnded(r)
  <2>1. CASE Deprovision(r)
    <3>1. row'[r].status = row[r].status
      BY <2>1, RecordedTyped DEF Deprovision
    <3>2. Live(r)' <=> Live(r)
      BY <3>1 DEF Live
    <3> QED BY <2>1, <3>1, <3>2, RemovedTyped DEF Deprovision
  <2>2. CASE \/ ReadBlockers(r) \/ EndRuntime(r) \/ Silent(r) \/ DeprovisionFails(r)
             \/ MarkSessions(r) \/ EnderDies(r) \/ ResolveEnded(r)
    <3>1. UNCHANGED <<call, container, link>>
      BY <2>2 DEF ReadBlockers, EndRuntime, Silent, DeprovisionFails, MarkSessions, EnderDies,
                  ResolveEnded
    <3>2. row'[r].status = row[r].status \/ (Live(r) /\ row'[r].status = "cancelled")
      BY <1>4, <2>2, RecordedTyped DEF ReadBlockers, EndRuntime, Silent, DeprovisionFails,
                  MarkSessions, EnderDies, ResolveEnded, RowType
    <3>3. (row'[r].status = "none" <=> row[r].status = "none") /\ (Live(r)' => Live(r))
      BY <3>2 DEF Live
    <3> QED BY <3>1, <3>3
  <2> QED BY <1>6, <2>1, <2>2 DEF EndStep
<1>7. CASE Watchdog
  <2>1. UNCHANGED <<call, container, link>>
    BY <1>7 DEF Watchdog, MarkStale, EndDead
  <2>2. \/ row'[r] = row[r]
        \/ row'[r] = [row[r] EXCEPT !.status = "unhealthy"] /\ Live(r)
        \/ row'[r] = [row[r] EXCEPT !.status = "heartbeat_stale"] /\ Live(r)
    BY <1>7 DEF Watchdog, MarkStale, EndDead, Dead, Live
  <2>3. (row'[r].status = "none" <=> row[r].status = "none") /\ (Live(r)' => Live(r))
    BY <1>4, <2>2 DEF RowType, Live
  <2> QED BY <2>1, <2>3
<1> QED BY <1>3, <1>5, <1>6, <1>7

LEMMA OverKept ==
    ASSUME HostedTypeOK, [Next]_vars, NEW r \in Call, Over(r)
    PROVE  Over(r)'
  BY SettledKept DEF Over

\* The steps of a named call between the plan and its look for the slot.
LEMMA LooksForTheSlot ==
    ASSUME HostedTypeOK, AllSound, [Next]_vars, NEW o \in Call,
           call[o].step \in {"plan", "slot"}, call[o].name # None
    PROVE  \/ call'[o].step \in {"plan", "slot"} /\ call'[o].name # None
           \/ Over(o)'
           \/ HostedSlots = {}
<1>0. /\ row[o].status = "none" /\ container[o] = "none" /\ link[o] = "down"
      /\ call[o] \in CallType
  BY DEF AllSound, Sound, NothingYet, Early, HostedTypeOK
<1>1. CASE call'[o] = call[o]
  BY <1>1
<1>2. CASE EnsureStep(o)
  <2>1. CheckPlan(o) \/ CheckSlot(o) \/ CallDies(o)
    BY <1>2 DEF EnsureStep, EnsureAuto, EnsureNamed, GenerateName, IssueCredential,
       ProvisionStarts, ProvisionFails, ProvisionLosesContainer, RegistrationSeen,
       RegistrationTimeout, RemoveUnregistered, RemoveUnregisteredFails
  <2>2. UNCHANGED <<row, container, link>>
    BY <2>1 DEF CheckPlan, CheckSlot, CallDies
  <2>3. ASSUME Goto(o, "failed") PROVE Over(o)'
    <3>1. call'[o].step = "failed"
      BY <2>3, GotoTyped DEF CallStep
    <3> QED BY <1>0, <2>2, <3>1 DEF Over, Settled, Pending, Live
  <2>4. ASSUME Goto(o, "slot") PROVE call'[o].step = "slot" /\ call'[o].name # None
    BY <2>4, GotoTyped DEF CallStep
  <2> QED BY <2>1, <2>3, <2>4 DEF CheckPlan, CheckSlot, CallDies
<1>3. CASE Untouched(o) \/ StreamStep(o) \/ EndStep(o) \/ ResolveEnded(o) \/ Watchdog
  <2>1. call'[o] = call[o]
    BY <1>3 DEF Untouched, StreamStep, Dial, Admit, ResumeAdmitted, OwnerRecorded, Heartbeat,
       Disconnected, StreamBreaks, ContainerDies, EndStep, ReadBlockers, EndRuntime, Silent,
       Deprovision, DeprovisionFails, MarkSessions, EnderDies, ResolveEnded, Watchdog,
       MarkStale, EndDead
  <2> QED BY <1>1, <2>1
<1> QED BY <1>2, <1>3, StepOfOne

LEMMA BeforeKept ==
    ASSUME HostedTypeOK, AllSound, [Next]_vars, NEW r \in Call, NEW o \in Call, Before(r, o)
    PROVE  Before(r, o)'
<1>1. Settled(r)' /\ (Live(r)' => Live(r))
  BY SettledKept DEF Before
<1>2. Live(r) => HostedSlots # {}
  BY DEF HostedSlots
<1> QED BY <1>1, <1>2, OverKept, LooksForTheSlot DEF Before

\* A call that was alone before or that is alone now: it found no runtime under way.
LEMMA AloneSince ==
    ASSUME HostedTypeOK, [Next]_vars, NEW o \in Call, call'[o].alone
    PROVE  \/ call[o].alone
           \/ /\ \A r \in Call \ {o} : ~Pending(r) /\ call'[r] = call[r]
              /\ call'[o].step = "plan" /\ UNCHANGED <<row, container, link>>
              /\ call'[o].name = None => HostedSlots = {}
<1>0. call[o] \in CallType
  BY DEF HostedTypeOK
<1>1. CASE Untouched(o) \/ StreamStep(o) \/ EndStep(o) \/ ResolveEnded(o) \/ Watchdog
  <2>1. call'[o] = call[o]
    BY <1>1 DEF Untouched, StreamStep, Dial, Admit, ResumeAdmitted, OwnerRecorded, Heartbeat,
       Disconnected, StreamBreaks, ContainerDies, EndStep, ReadBlockers, EndRuntime, Silent,
       Deprovision, DeprovisionFails, MarkSessions, EnderDies, ResolveEnded, Watchdog,
       MarkStale, EndDead
  <2> QED BY <2>1
<1>2. CASE EnsureStep(o)
  <2>1. ASSUME NEW step \in CallStep, Goto(o, step) PROVE call[o].alone
    BY <2>1, GotoTyped
  <2>2. ASSUME NEW n \in Name, GenerateName(o),
               call' = [call EXCEPT ![o] = [@ EXCEPT !.step = "issue", !.name = n]]
        PROVE  call[o].alone
    BY <1>0, <2>2 DEF HostedTypeOK, CallType
  <2>3. ASSUME NEW n \in Name \cup {None}, GoesOn(o, n), UNCHANGED <<row, container, link>>,
               n # None \/ HostedSlots = {}
        PROVE  /\ \A r \in Call \ {o} : ~Pending(r) /\ call'[r] = call[r]
               /\ call'[o].step = "plan" /\ UNCHANGED <<row, container, link>>
               /\ call'[o].name = None => HostedSlots = {}
    BY <2>3, GoesOnTyped
  <2>4. CASE EnsureAuto(o) \/ \E n \in Name : EnsureNamed(o, n)
    BY <2>1, <2>3, <2>4, HostedAssumption DEF EnsureAuto, EnsureNamed, CallStep
  <2>5. CASE GenerateName(o)
    BY <2>1, <2>2, <2>5 DEF GenerateName, CallStep
  <2>6. CASE \/ CheckPlan(o) \/ CheckSlot(o) \/ IssueCredential(o) \/ ProvisionStarts(o)
             \/ ProvisionFails(o) \/ ProvisionLosesContainer(o) \/ RegistrationSeen(o)
             \/ RegistrationTimeout(o) \/ RemoveUnregistered(o)
             \/ RemoveUnregisteredFails(o) \/ CallDies(o)
    <3>1. \E step \in CallStep : Goto(o, step)
      BY <2>6 DEF CheckPlan, CheckSlot, IssueCredential, ProvisionStarts, ProvisionFails,
         ProvisionLosesContainer, RegistrationSeen, RegistrationTimeout, RemoveUnregistered,
         RemoveUnregisteredFails, CallDies, CallStep
    <3> QED BY <2>1, <3>1
  <2> QED BY <1>2, <2>4, <2>5, <2>6 DEF EnsureStep
<1> QED BY <1>1, <1>2, StepOfOne

\* A call that finds itself alone comes after every other call that was alone.
LEMMA NewcomerIsLast ==
    ASSUME HostedTypeOK, AllSound, [Next]_vars, NEW r \in Call, NEW o \in Call, r # o,
           call'[r].alone, call'[o].alone, ~call[o].alone
    PROVE  Before(r, o)'
<1>1. /\ ~Pending(r) /\ call'[r] = call[r]
      /\ call'[o].step = "plan" /\ UNCHANGED <<row, container, link>>
      /\ call'[o].name = None => HostedSlots = {}
  BY AloneSince
<1>2. call[r].step # "new"
  BY <1>1 DEF AllSound, Sound, NothingYet
<1>3. Settled(r)' /\ (Live(r)' <=> Live(r))
  BY <1>1, <1>2 DEF Settled, Pending, Live
<1>4. Live(r) => HostedSlots # {}
  BY DEF HostedSlots
<1> QED BY <1>1, <1>3, <1>4 DEF Before

LEMMA OneAfterAnotherKept ==
    HostedTypeOK /\ AllSound /\ OneAfterAnother /\ [Next]_vars => OneAfterAnother'
<1> SUFFICES ASSUME HostedTypeOK, AllSound, OneAfterAnother, [Next]_vars,
                    NEW r \in Call, NEW o \in Call, r # o, call'[r].alone, call'[o].alone
             PROVE  Before(r, o)' \/ Before(o, r)'
  BY DEF OneAfterAnother
<1>1. CASE call[r].alone /\ call[o].alone
  <2>1. Before(r, o) \/ Before(o, r)
    BY <1>1 DEF OneAfterAnother
  <2> QED BY <2>1, BeforeKept
<1>2. CASE ~call[o].alone
  BY <1>2, NewcomerIsLast
<1>3. CASE ~call[r].alone
  BY <1>3, NewcomerIsLast
<1> QED BY <1>1, <1>2, <1>3

LEMMA OneAfterAnotherInit == Init => OneAfterAnother
  BY DEF Init, NoCall, OneAfterAnother

\* Two hosted runtimes of a user are live at once only if the call of one of them read
\* the registry while the other call, or a container without a row, was under way: the
\* checks of EnsureHostedRuntime are enough for calls that come one after the other.
THEOREM OneHosted == Spec => []OneHostedUnlessOverlapping
<1>1. AllSound /\ OneAfterAnother => OneHostedUnlessOverlapping
  <2> SUFFICES ASSUME AllSound, OneAfterAnother, NEW r \in Call, NEW o \in Call,
                      Live(r), Live(o), r # o, call[r].alone, call[o].alone
               PROVE  FALSE
    BY DEF OneHostedUnlessOverlapping
  <2>1. ASSUME NEW x \in Call, NEW y \in Call, Live(x), Live(y) PROVE ~Before(x, y)
    BY <2>1 DEF Before, Over, AllSound, Sound, NothingYet, Early, Live
  <2> QED BY <2>1 DEF OneAfterAnother
<1>2. Spec => [](AllSound /\ OneAfterAnother)
  BY HostedTyped, SoundInit, SoundKept, OneAfterAnotherInit, OneAfterAnotherKept, PTL DEF Spec
<1> QED BY <1>1, <1>2, PTL

-----------------------------------------------------------------------------
(* The sessions of an ended runtime *)

\* Runtime r has ended and nobody has anything left to do for it, without a fault.
EndedInOrder(r) == row[r].status \in Ended /\ ender[r] = "none" /\ faults = 0

LEMMA FaultsCounted == HostedTypeOK /\ [Next]_vars /\ faults' = 0 => faults' = faults
<1> SUFFICES ASSUME HostedTypeOK, [Next]_vars, faults' = 0 PROVE faults' = faults
  OBVIOUS
<1>1. Fault => FALSE
  BY DEF Fault, HostedTypeOK
<1>2. ASSUME NEW c \in Call, EnsureStep(c) PROVE faults' = faults
  BY <1>1, <1>2 DEF EnsureStep, EnsureAuto, EnsureNamed, CheckPlan, CheckSlot, GenerateName,
     IssueCredential, ProvisionStarts, ProvisionFails, ProvisionLosesContainer,
     RegistrationSeen, RegistrationTimeout, RemoveUnregistered, RemoveUnregisteredFails,
     CallDies
<1>3. ASSUME NEW r \in Call, StreamStep(r) PROVE faults' = faults
  BY <1>1, <1>3 DEF StreamStep, Dial, Admit, ResumeAdmitted, OwnerRecorded, Heartbeat,
     Disconnected, StreamBreaks, ContainerDies
<1>4. ASSUME NEW r \in Call, EndStep(r) \/ ResolveEnded(r) PROVE faults' = faults
  BY <1>1, <1>4 DEF EndStep, ReadBlockers, EndRuntime, Silent, Deprovision,
     DeprovisionFails, MarkSessions, EnderDies, ResolveEnded
<1>5. Watchdog => faults' = faults
  BY DEF Watchdog, MarkStale, EndDead
<1>6. ASSUME NEW s \in Session, SessionStep(s) PROVE faults' = faults
  BY <1>6 DEF SessionStep, ResolveRuntimeRouteByID, SessionStarts, SessionStops
<1> QED BY <1>2, <1>3, <1>4, <1>5, <1>6 DEF Next, vars

\* An end comes into order by a step that marks the sessions.
LEMMA OrderlyEnd ==
    ASSUME HostedTypeOK, [Next]_vars, NEW r \in Call, EndedInOrder(r)'
    PROVE  EndedInOrder(r) \/ (MarkSessions(r) /\ Recoverable(r))
<1>0. /\ faults' = faults /\ ~Fault /\ row \in [Call -> RowType] /\ row[r] \in RowType
      /\ faults' = 0
  BY FaultsCounted DEF EndedInOrder, Fault, HostedTypeOK
<1>1. SUFFICES ASSUME row'[r].status \in Ended, ender'[r] = "none"
               PROVE  \/ row[r].status \in Ended /\ ender[r] = "none"
                      \/ MarkSessions(r) /\ Recoverable(r)
  BY <1>0 DEF EndedInOrder
<1>2. CASE Untouched(r)
  BY <1>1, <1>2 DEF Untouched
<1>3. CASE EnsureStep(r)
  <2>1. row'[r].status = row[r].status /\ ender' = ender
    BY <1>3, RecordedTyped DEF EnsureStep, EnsureAuto, EnsureNamed, CheckPlan, CheckSlot,
       GenerateName, IssueCredential, ProvisionStarts, ProvisionFails,
       ProvisionLosesContainer, RegistrationSeen, RegistrationTimeout, RemoveUnregistered,
       RemoveUnregisteredFails, CallDies
  <2> QED BY <1>1, <2>1
<1>4. CASE StreamStep(r)
  <2>1. ender' = ender
    BY <1>4 DEF StreamStep, Dial, Admit, ResumeAdmitted, OwnerRecorded, Heartbeat,
       Disconnected, StreamBreaks, ContainerDies
  <2>2. CASE row'[r] = row[r]
    BY <1>1, <2>1, <2>2
  <2>3. CASE row'[r].status = "active"
    BY <1>1, <2>3 DEF Ended
  <2>4. CASE OwnerRecorded(r) \/ Heartbeat(r) \/ Disconnected(r)
    <3>1. \/ row'[r] = row[r]
          \/ row'[r] = [row[r] EXCEPT !.owner = TRUE, !.age = 0] /\ Live(r)
          \/ row'[r] = [row[r] EXCEPT !.status = "active", !.owner = TRUE, !.age = 0] /\ Live(r)
          \/ row'[r] = [row[r] EXCEPT !.owner = FALSE]
      BY <1>0, <2>4 DEF OwnerRecorded, Heartbeat, Disconnected
    <3> QED BY <1>0, <1>1, <2>1, <2>3, <3>1 DEF RowType
  <2>5. CASE Admit(r)
    <3>1. row'[r] = row[r] \/ row'[r] = [NoRow EXCEPT !.status = "active", !.name = call[r].name]
      BY <1>0, <2>5 DEF Admit
    <3> QED BY <2>2, <2>3, <3>1 DEF NoRow
  <2> QED BY <1>4, <2>2, <2>4, <2>5 DEF StreamStep, Dial, ResumeAdmitted, StreamBreaks,
                                        ContainerDies
<1>5. CASE EndStep(r) \/ ResolveEnded(r)
  <2>1. CASE MarkSessions(r)
    BY <1>0, <2>1 DEF MarkSessions
  <2>2. CASE ReadBlockers(r) \/ EndRuntime(r) \/ Deprovision(r) \/ DeprovisionFails(r) \/ EnderDies(r)
    BY <1>0, <1>1, <2>2 DEF ReadBlockers, EndRuntime, Deprovision, DeprovisionFails, EnderDies,
                            HostedTypeOK
  <2>3. CASE Silent(r) \/ ResolveEnded(r)
    <3>1. row'[r].status = row[r].status /\ ender' = ender
      BY <1>0, <2>3 DEF Silent, ResolveEnded, RowType
    <3> QED BY <1>1, <3>1
  <2> QED BY <1>5, <2>1, <2>2, <2>3 DEF EndStep
<1>6. CASE Watchdog
  <2>1. \/ row'[r] = row[r] /\ ender'[r] = ender[r]
        \/ row'[r] = [row[r] EXCEPT !.status = "unhealthy"]
        \/ ender'[r] = "deprovision"
    BY <1>6 DEF Watchdog, MarkStale, EndDead
  <2> QED BY <1>0, <1>1, <2>1 DEF RowType, Ended
<1> QED BY <1>2, <1>3, <1>4, <1>5, <1>6, StepOfOne

LEMMA ReleasedKept ==
    HostedTypeOK /\ SessionsReleased /\ [Next]_vars => SessionsReleased'
<1> SUFFICES ASSUME HostedTypeOK, SessionsReleased, [Next]_vars, NEW r \in Call,
                    EndedInOrder(r)', NEW s \in Session,
                    session'[s].st = "running", session'[s].at = r
             PROVE  session'[s].late
  BY DEF SessionsReleased, EndedInOrder, RunningAt
<1>0. session \in [Session -> SessionType] /\ session[s] \in SessionType
  BY DEF HostedTypeOK
<1>1. EndedInOrder(r) /\ s \in RunningAt(r) => session[s].late
  BY DEF SessionsReleased, EndedInOrder
<1>2. ASSUME NEW o \in Call, Recoverable(o)
      PROVE  s \notin RunningAt(o) /\ session'[s] = session[s]
  BY <1>2 DEF Recoverable, NoSession
<1>3. CASE session'[s] = session[s]
  <2>1. s \in RunningAt(r)
    BY <1>3 DEF RunningAt
  <2>2. EndedInOrder(r)
    BY <1>2, <2>1, OrderlyEnd
  <2> QED BY <1>1, <1>3, <2>1, <2>2
<1>4. CASE SessionStep(s)
  <2>1. CASE SessionStarts(s)
    <3>1. /\ session[s].at = r /\ UNCHANGED <<row, ender>>
          /\ session'[s].late = (row[r].status \in Ended /\ ender[r] = "none")
      BY <1>0, <2>1 DEF SessionStarts, SessionType
    <3> QED BY <3>1 DEF EndedInOrder
  <2>2. ~SessionStops(s)
    BY <1>0 DEF SessionStops, NoSession
  <2>3. ASSUME NEW o \in Call PROVE ~ResolveRuntimeRouteByID(s, o)
    BY <1>0 DEF ResolveRuntimeRouteByID, NoSession
  <2> QED BY <1>4, <2>1, <2>2, <2>3 DEF SessionStep
<1>5. ASSUME NEW z \in Session \ {s}, SessionStep(z) PROVE session'[s] = session[s]
  BY <1>0, <1>5 DEF SessionStep, ResolveRuntimeRouteByID, SessionStarts, SessionStops
<1>6. ASSUME NEW c \in Call, EnsureStep(c) PROVE session' = session
  BY <1>6 DEF EnsureStep, EnsureAuto, EnsureNamed, CheckPlan, CheckSlot, GenerateName,
     IssueCredential, ProvisionStarts, ProvisionFails, ProvisionLosesContainer,
     RegistrationSeen, RegistrationTimeout, RemoveUnregistered, RemoveUnregisteredFails,
     CallDies
<1>7. ASSUME NEW o \in Call, StreamStep(o) PROVE session' = session
  BY <1>7 DEF StreamStep, Dial, Admit, ResumeAdmitted, OwnerRecorded, Heartbeat,
     Disconnected, StreamBreaks, ContainerDies
<1>8. ASSUME NEW o \in Call, EndStep(o) \/ ResolveEnded(o) PROVE session'[s] = session[s]
  BY <1>2, <1>8 DEF EndStep, ReadBlockers, EndRuntime, Silent, Deprovision,
     DeprovisionFails, MarkSessions, EnderDies, ResolveEnded
<1>9. Watchdog \/ UNCHANGED vars => session' = session
  BY DEF Watchdog, MarkStale, EndDead, vars
<1> QED BY <1>3, <1>4, <1>5, <1>6, <1>7, <1>8, <1>9 DEF Next

\* Once an end without a fault is over, by the user or by the reaper, no session that was
\* stored before the sessions were marked is still recorded as running at that runtime.
THEOREM SessionsAreReleased == Spec => []SessionsReleased
<1>1. Init => SessionsReleased
  BY DEF Init, NoRow, Ended, SessionsReleased
<1> QED BY <1>1, HostedTyped, ReleasedKept, PTL DEF Spec
=============================================================================
