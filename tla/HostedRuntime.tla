---------------------------- MODULE HostedRuntime ----------------------------
(***************************************************************************)
(* The hosted runtimes of one user: how they are created, used and ended.  *)
(*                                                                         *)
(* EnsureHostedRuntime reads the registry and the plan, issues a           *)
(* credential, starts a container and waits until that container has said  *)
(* HELLO on the RuntimeChannel: only then is there a row.  Several calls   *)
(* run at once and share nothing but the registry.  Users end runtimes,    *)
(* the reaper ends the silent ones, and whoever ends a row removes its     *)
(* container and marks its sessions, in steps that may fail one by one.    *)
(*                                                                         *)
(* A call allocates a fresh runtime id (auth.GenerateRuntimeID), so the    *)
(* runtime of a call bears its name here.  Each statement of the database, *)
(* command of docker and call of core-service is a step of its own.        *)
(***************************************************************************)
EXTENDS Integers, FiniteSets

CONSTANTS
    Call,        \* EnsureHostedRuntime calls, and the runtime ids they allocate
    Name,        \* display names
    Session,     \* strategy sessions of core-service
    PlanLimit,      \* RuntimePlan.MaxHostedRuntimes of the user's plan
    PlatformLimit,  \* RuntimePlatformConfig.MaxTotalHostedRuntimes
    MaxFaults,   \* bound: faults in a behaviour
    None

ASSUME HostedAssumption ==
    /\ PlanLimit \in Nat \cup {-1}
    /\ PlatformLimit \in Nat \cup {-1}
    /\ MaxFaults \in Nat
    /\ None \notin Call \cup Name

VARIABLES
    call,        \* per call: its step, and the name of the runtime (None: to be generated)
    row,         \* runtime_registry: status, name, age, owner, cleanup state
    container,   \* docker: the container started for each runtime id
    link,        \* the RuntimeChannel stream of each container
    ender,       \* per runtime: what is left to do by whoever ends it
    session,     \* per session: its state, its runtime
    stray,       \* containers that nobody will remove and no cleanup state records
    faults       \* the number of faults so far

vars == <<call, row, container, link, ender, session, stray, faults>>

-----------------------------------------------------------------------------
(* The plan *)

\* -1 is unlimited, 0 forbids, and of two limits the smaller wins.
applyPlatformCap(planLimit, platformLimit) ==
    CASE 0 \in {planLimit, platformLimit} -> 0
      [] planLimit = -1 -> platformLimit
      [] platformLimit = -1 -> planLimit
      [] OTHER -> IF planLimit < platformLimit THEN planLimit ELSE platformLimit

MaxHosted == applyPlatformCap(PlanLimit, PlatformLimit)

\* A runtime may be created beside n others; n runtimes may be used.
MayCreate(n) == MaxHosted = -1 \/ n < MaxHosted
MayUse(n) == MaxHosted = -1 \/ n <= MaxHosted

-----------------------------------------------------------------------------
(* Types and reads of the registry *)

CallStep == {"new", "plan", "slot", "name", "issue", "provision", "wait", "cleanup",
             "done", "failed"}
\* alone: when the call read the registry, every other call was over and every other
\* container had its row.
CallType == [step : CallStep, name : Name \cup {None}, alone : BOOLEAN]
NoCall == [step |-> "new", name |-> None, alone |-> FALSE]

\* The age of heartbeat_at and of the owner's: 1 is past HeartbeatGrace, 2 past DeathGrace.
Age == 0 .. 2
Ended == {"cancelled", "heartbeat_stale"}
RowType == [status : {"none", "active", "unhealthy"} \cup Ended, name : Name \cup {None},
            age : Age, owner : BOOLEAN, cleanup : {"none", "succeeded", "failed"}]
NoRow == [status |-> "none", name |-> None, age |-> 0, owner |-> FALSE, cleanup |-> "none"]

\* late: the session was stored after its runtime had been ended and marked.
SessionType == [st : {"idle", "resolved", "running"}, at : Call \cup {None},
                late : BOOLEAN]
NoSession == [st |-> "idle", at |-> None, late |-> FALSE]

\* status NOT IN ('ended', 'cancelled', 'failed', 'heartbeat_stale')
Live(r) == row[r].status \in {"active", "unhealthy"}

\* CountRuntimesByUser
CountHosted == Cardinality({r \in Call : Live(r)})

\* ListRuntimes without a filter: the rows of every status.  (The pages it is read in
\* are taken to be of one moment.)
Listed == {r \in Call : row[r].status # "none"}

\* findRuntimeByUserNameSource with includeEnded.
NameTaken(n) == \E r \in Listed : row[r].name = n

\* Faulty: an unhealthy row does not hold the slot.
HostedSlotsHealthy == {r \in Call : row[r].status = "active"}

\* findHostedRuntimeSlot
HostedSlots == {r \in Call : Live(r)}

\* tryReuseExisting
Reusable(r) == row[r].status = "active" /\ row[r].age = 0 /\ row[r].owner

Fault == faults < MaxFaults /\ faults' = faults + 1

Init ==
    /\ call = [c \in Call |-> NoCall]
    /\ row = [r \in Call |-> NoRow]
    /\ container = [r \in Call |-> "none"]
    /\ link = [r \in Call |-> "down"]
    /\ ender = [r \in Call |-> "none"]
    /\ session = [s \in Session |-> NoSession]
    /\ stray = {}
    /\ faults = 0

Goto(c, step) == call' = [call EXCEPT ![c].step = step]

-----------------------------------------------------------------------------
(* EnsureHostedRuntime *)

\* Another call, or a container without a row, may still bring a runtime about.
Pending(c) ==
    \/ call[c].step \notin {"new", "done", "failed"}
    \/ row[c].status = "none" /\ (container[c] = "running" \/ link[c] = "dialled")

\* The call finds nothing to reuse and goes on to create a runtime.
GoesOn(c, n) ==
    call' = [call EXCEPT ![c] = [NoCall EXCEPT !.step = "plan", !.name = n,
                                     !.alone = (\A o \in Call \ {c} : ~Pending(o))]]

\* The fast path of a named call: the row of this name is reused, or refuses the call.
EnsureNamed(c, n) ==
    /\ call[c].step = "new"
    /\ IF NameTaken(n)
       THEN \E r \in Listed :
               /\ row[r].name = n
               /\ Goto(c, IF Reusable(r) THEN "done" ELSE "failed")
       ELSE GoesOn(c, n)
    /\ UNCHANGED <<row, container, link, ender, session, stray, faults>>

\* The fast path of a call without a name: any live hosted row is the slot.  One that
\* cannot be reused refuses the call, after the checks of the plan.
EnsureAuto(c) ==
    /\ call[c].step = "new"
    /\ IF HostedSlots = {}
       THEN GoesOn(c, None)
       ELSE \E r \in HostedSlots :
               Goto(c, IF Reusable(r) THEN "done" ELSE "failed")
    /\ UNCHANGED <<row, container, link, ender, session, stray, faults>>

\* resolvePlan, the count against the cap, and the resource profile.
CheckPlan(c) ==
    /\ call[c].step = "plan"
    /\ \/ MayCreate(CountHosted) /\ Goto(c, IF call[c].name = None THEN "name" ELSE "slot")
       \/ Goto(c, "failed")
    /\ UNCHANGED <<row, container, link, ender, session, stray, faults>>

\* A named call looks for the slot only now.
CheckSlot(c) ==
    /\ call[c].step = "slot"
    /\ Goto(c, IF HostedSlots = {} THEN "issue" ELSE "failed")
    /\ UNCHANGED <<row, container, link, ender, session, stray, faults>>

\* generateAvailableHostedRuntimeName: a name without a row, or ErrConflict.
GenerateName(c) ==
    /\ call[c].step = "name"
    /\ \/ \E n \in Name :
             /\ ~NameTaken(n)
             /\ call' = [call EXCEPT ![c] = [@ EXCEPT !.step = "issue", !.name = n]]
       \/ (\A n \in Name : NameTaken(n)) /\ Goto(c, "failed")
    /\ UNCHANGED <<row, container, link, ender, session, stray, faults>>

\* IssueHostedInternalRuntimeCredential: one credential per runtime id, or an error.
IssueCredential(c) ==
    /\ call[c].step = "issue"
    /\ Goto(c, "provision") \/ Goto(c, "failed")
    /\ UNCHANGED <<row, container, link, ender, session, stray, faults>>

\* docker run -d: a container named after the runtime id it is given, with the name and
\* the credential of the call, and without --restart.
Started(c) == container' = [container EXCEPT ![c] = "running"]

ProvisionStarts(c) ==
    /\ call[c].step = "provision"
    /\ Started(c)
    /\ Goto(c, "wait")
    /\ UNCHANGED <<row, link, ender, session, stray, faults>>

\* docker run fails before a container runs, or its output names one and it is removed.
ProvisionFails(c) ==
    /\ call[c].step = "provision"
    /\ Goto(c, "failed")
    /\ UNCHANGED <<row, container, link, ender, session, stray, faults>>

\* docker run is cut off (the request's context ends) and its output names no
\* container, or the removal of the one it names fails.
ProvisionLosesContainer(c) ==
    /\ call[c].step = "provision"
    /\ Fault
    /\ Started(c)
    /\ stray' = stray \cup {c}
    /\ Goto(c, "failed")
    /\ UNCHANGED <<row, link, ender, session>>

\* The row waitForRegistration waits for.
Registered(c) == row[c].status = "active" /\ row[c].owner

RegistrationSeen(c) ==
    /\ call[c].step = "wait"
    /\ Registered(c)
    /\ Goto(c, "done")
    /\ UNCHANGED <<row, container, link, ender, session, stray, faults>>

\* The last poll was before the row was complete, and the deadline or the request's
\* context ends the wait: the call goes on to remove the container.
RegistrationTimeout(c) ==
    /\ call[c].step = "wait"
    /\ Goto(c, "cleanup")
    /\ UNCHANGED <<row, container, link, ender, session, stray, faults>>

\* docker rm -f: the stream of a running container breaks with it.
Removed(r) ==
    /\ container' = [container EXCEPT ![r] = "removed"]
    /\ link' = [link EXCEPT ![r] = IF @ = "up" THEN "broken" ELSE @]

\* recordRuntimeCleanupState: UpdateRuntimeCleanupState finds the row or it does not.
CleanupRecorded(r, outcome) ==
    row' = [row EXCEPT ![r].cleanup = IF row[r].status = "none" THEN @ ELSE outcome]

\* Faulty: a failed start leaves its container alone.
RemoveUnregisteredNever(c) ==
    /\ call[c].step = "cleanup"
    /\ Goto(c, "failed")
    /\ UNCHANGED <<row, container, link, ender, session, stray, faults>>

\* deprovisionHostedRuntimeHandle of a call that fails.
RemoveUnregistered(c) ==
    /\ call[c].step = "cleanup"
    /\ Goto(c, "failed")
    /\ Removed(c)
    /\ CleanupRecorded(c, "succeeded")
    /\ UNCHANGED <<ender, session, stray, faults>>

RemoveUnregisteredFails(c) ==
    /\ call[c].step = "cleanup"
    /\ Fault
    /\ Goto(c, "failed")
    /\ CleanupRecorded(c, "failed")
    /\ stray' = IF row[c].status = "none" THEN stray \cup {c} ELSE stray
    /\ UNCHANGED <<container, link, ender, session>>

\* The process dies with the call.
CallDies(c) ==
    /\ call[c].step \in {"plan", "slot", "name", "issue", "provision", "wait", "cleanup"}
    /\ Fault
    /\ Goto(c, "failed")
    /\ stray' = IF container[c] = "running" THEN stray \cup {c} ELSE stray
    /\ UNCHANGED <<row, container, link, ender, session>>

-----------------------------------------------------------------------------
(* The container and its RuntimeChannel stream *)

\* The container dials: HELLO if it has never been admitted, RESUME afterwards.
Dial(r) ==
    /\ container[r] = "running"
    /\ link[r] = "down"
    /\ row[r].status \notin Ended
    /\ link' = [link EXCEPT ![r] = "dialled"]
    /\ UNCHANGED <<call, row, container, ender, session, stray, faults>>

\* A row of another runtime holds the name, whatever its status.
NameHeld(r) ==
    \E o \in Call \ {r} : row[o].status # "none" /\ row[o].name = call[r].name

\* CreateOrReplaceHostedRuntime, for a HELLO: the row is inserted unless the name is
\* held.  The container may be gone by the time its HELLO is handled.
Admit(r) ==
    /\ link[r] = "dialled"
    /\ row[r].status = "none"
    /\ IF NameHeld(r)
       THEN link' = [link EXCEPT ![r] = "down"] /\ UNCHANGED row
       ELSE /\ link' = [link EXCEPT ![r] = "admitted"]
            /\ row' = [row EXCEPT ![r] = [NoRow EXCEPT !.status = "active",
                                                       !.name = call[r].name]]
    /\ UNCHANGED <<call, container, ender, session, stray, faults>>

\* verifyResume: any row but an ended one.
ResumeAdmitted(r) ==
    /\ link[r] = "dialled"
    /\ row[r].status # "none"
    /\ link' = [link EXCEPT ![r] = IF Live(r) THEN "admitted" ELSE "down"]
    /\ UNCHANGED <<call, row, container, ender, session, stray, faults>>

\* RecordRuntimeConnectionOwner and the registration of the stream.
OwnerRecorded(r) ==
    /\ link[r] = "admitted"
    /\ IF Live(r)
       THEN /\ row' = [row EXCEPT ![r] = [@ EXCEPT !.owner = TRUE, !.age = 0]]
            /\ link' = [link EXCEPT ![r] = IF container[r] = "running" THEN "up" ELSE "broken"]
       ELSE UNCHANGED row /\ link' = [link EXCEPT ![r] = "down"]
    /\ UNCHANGED <<call, container, ender, session, stray, faults>>

\* A heartbeat makes the row active and fresh, unless it has ended: then the loop ends.
Heartbeat(r) ==
    /\ link[r] = "up"
    /\ IF Live(r)
       THEN /\ row' = [row EXCEPT ![r] = [@ EXCEPT !.status = "active", !.owner = TRUE,
                                                   !.age = 0]]
            /\ UNCHANGED link
       ELSE UNCHANGED row /\ link' = [link EXCEPT ![r] = "broken"]
    /\ UNCHANGED <<call, container, ender, session, stray, faults>>

\* The handler returns; its ClearRuntimeConnectionOwner may fail or never run.
Disconnected(r) ==
    /\ link[r] = "broken"
    /\ link' = [link EXCEPT ![r] = "down"]
    /\ \/ row' = [row EXCEPT ![r].owner = FALSE] /\ UNCHANGED faults
       \/ Fault /\ UNCHANGED row
    /\ UNCHANGED <<call, container, ender, session, stray>>

\* The network or the serving process fails.
StreamBreaks(r) ==
    /\ link[r] = "up"
    /\ Fault
    /\ link' = [link EXCEPT ![r] = "broken"]
    /\ UNCHANGED <<call, row, container, ender, session, stray>>

\* The strategy process in the container exits by itself (docker run without --restart).
ContainerDies(r) ==
    /\ container[r] = "running"
    /\ Fault
    /\ Removed(r)
    /\ UNCHANGED <<call, row, ender, session, stray>>

-----------------------------------------------------------------------------
(* Ending a runtime: the user and the reaper *)

RunningAt(r) == {s \in Session : session[s].st = "running" /\ session[s].at = r}

\* EndRuntime up to the answer of core-service: a running session blocks the end.
ReadBlockers(r) ==
    /\ Live(r)
    /\ ender[r] = "none"
    /\ RunningAt(r) = {}
    /\ ender' = [ender EXCEPT ![r] = "update"]
    /\ UNCHANGED <<call, row, container, link, session, stray, faults>>

\* The UPDATE of repository.EndRuntime: idempotent on a row that has ended meanwhile.
EndRuntime(r) ==
    /\ ender[r] = "update"
    /\ row' = IF Live(r) THEN [row EXCEPT ![r].status = "cancelled"] ELSE row
    /\ ender' = [ender EXCEPT ![r] = "deprovision"]
    /\ UNCHANGED <<call, container, link, session, stray, faults>>

\* Time: the row of a runtime that is not connected grows old.
Silent(r) ==
    /\ Live(r)
    /\ row[r].age < 2
    /\ link[r] # "up"
    /\ row' = [row EXCEPT ![r].age = @ + 1]
    /\ UNCHANGED <<call, container, link, ender, session, stray, faults>>

\* MarkStaleRuntimesUnhealthy
MarkStale ==
    LET stale == {r \in Call : row[r].status = "active" /\ row[r].age >= 1}
    IN  /\ stale # {}
        /\ row' = [r \in Call |->
                     IF r \in stale THEN [row[r] EXCEPT !.status = "unhealthy"] ELSE row[r]]
        /\ UNCHANGED <<call, container, link, ender, session, stray, faults>>

Dead == {r \in Call : row[r].status = "unhealthy" /\ row[r].age = 2}

\* EndDeadRuntimesBySourceCutoffs: one statement ends the dead rows and hands them to
\* the loop of ReapStaleRuntimes.
EndDead ==
    /\ Dead # {}
    /\ row' = [r \in Call |->
                 IF r \in Dead THEN [row[r] EXCEPT !.status = "heartbeat_stale"] ELSE row[r]]
    /\ ender' = [r \in Call |-> IF r \in Dead THEN "deprovision" ELSE ender[r]]
    /\ UNCHANGED <<call, container, link, session, stray, faults>>

\* Faulty: the end is over when the container is gone.
DeprovisionOnly(r) ==
    /\ ender[r] = "deprovision"
    /\ Removed(r)
    /\ CleanupRecorded(r, "succeeded")
    /\ ender' = [ender EXCEPT ![r] = "none"]
    /\ UNCHANGED <<call, session, stray, faults>>

\* deprovisionHostedRuntime of a row that has ended.
Deprovision(r) ==
    /\ ender[r] = "deprovision"
    /\ Removed(r)
    /\ CleanupRecorded(r, "succeeded")
    /\ ender' = [ender EXCEPT ![r] = "mark"]
    /\ UNCHANGED <<call, session, stray, faults>>

\* Its failure is recorded, and never retried.
DeprovisionFails(r) ==
    /\ ender[r] = "deprovision"
    /\ Fault
    /\ CleanupRecorded(r, "failed")
    /\ ender' = [ender EXCEPT ![r] = "mark"]
    /\ UNCHANGED <<call, container, link, session, stray>>

\* The sessions stored as running at r become recoverable: they may be started elsewhere.
Recoverable(r) ==
    session' = [s \in Session |->
                  IF s \in RunningAt(r) THEN NoSession ELSE session[s]]

\* markRuntimeSessionsRecoverable; the error of the call is ignored.
MarkSessions(r) ==
    /\ ender[r] = "mark"
    /\ ender' = [ender EXCEPT ![r] = "none"]
    /\ \/ Recoverable(r) /\ UNCHANGED faults
       \/ Fault /\ UNCHANGED session
    /\ UNCHANGED <<call, row, container, link, stray>>

\* The process dies between the steps of an end: nobody takes them up.
EnderDies(r) ==
    /\ ender[r] # "none"
    /\ Fault
    /\ ender' = [ender EXCEPT ![r] = "none"]
    /\ stray' = IF ender[r] = "deprovision" THEN stray \cup {r} ELSE stray
    /\ UNCHANGED <<call, row, container, link, session>>

-----------------------------------------------------------------------------
(* Sessions: core-service resolves a route, then starts the session. *)

\* resolveRuntimeRouteForRuntimeWithPolicy: status, freshness, owner, quota.
Routable(r) ==
    /\ row[r].status = "active"
    /\ row[r].age = 0
    /\ row[r].owner
    /\ MayUse(CountHosted)

ResolveRuntimeRouteByID(s, r) ==
    /\ session[s].st = "idle"
    /\ Routable(r)
    /\ session' = [session EXCEPT ![s] = [NoSession EXCEPT !.st = "resolved", !.at = r]]
    /\ UNCHANGED <<call, row, container, link, ender, stray, faults>>

\* A terminal row makes the route's resolution mark the sessions, and refuse.
ResolveEnded(r) ==
    /\ row[r].status \in Ended
    /\ Recoverable(r)
    /\ UNCHANGED <<call, row, container, link, ender, stray, faults>>

\* core-service stores the running session of the route it was given.
SessionStarts(s) ==
    /\ session[s].st = "resolved"
    /\ session' = [session EXCEPT ![s] = [@ EXCEPT !.st = "running",
        !.late = (row[session[s].at].status \in Ended /\ ender[session[s].at] = "none")]]
    /\ UNCHANGED <<call, row, container, link, ender, stray, faults>>

SessionStops(s) ==
    /\ session[s].st \in {"resolved", "running"}
    /\ session' = [session EXCEPT ![s] = NoSession]
    /\ UNCHANGED <<call, row, container, link, ender, stray, faults>>

-----------------------------------------------------------------------------
EnsureStep(c) ==
    \/ EnsureAuto(c)
    \/ \E n \in Name : EnsureNamed(c, n)
    \/ CheckPlan(c)
    \/ CheckSlot(c)
    \/ GenerateName(c)
    \/ IssueCredential(c)
    \/ ProvisionStarts(c)
    \/ ProvisionFails(c)
    \/ ProvisionLosesContainer(c)
    \/ RegistrationSeen(c)
    \/ RegistrationTimeout(c)
    \/ RemoveUnregistered(c)
    \/ RemoveUnregisteredFails(c)
    \/ CallDies(c)

StreamStep(r) ==
    \/ Dial(r)
    \/ Admit(r)
    \/ ResumeAdmitted(r)
    \/ OwnerRecorded(r)
    \/ Heartbeat(r)
    \/ Disconnected(r)
    \/ StreamBreaks(r)
    \/ ContainerDies(r)

EndStep(r) ==
    \/ ReadBlockers(r)
    \/ EndRuntime(r)
    \/ Silent(r)
    \/ Deprovision(r)
    \/ DeprovisionFails(r)
    \/ MarkSessions(r)
    \/ EnderDies(r)

\* The ticks of the watchdog of every process: ReapStaleRuntimes.
Watchdog == MarkStale \/ EndDead

SessionStep(s) ==
    \/ \E r \in Call : ResolveRuntimeRouteByID(s, r)
    \/ SessionStarts(s)
    \/ SessionStops(s)

Next ==
    \/ \E c \in Call : EnsureStep(c)
    \/ \E r \in Call : StreamStep(r) \/ EndStep(r) \/ ResolveEnded(r)
    \/ Watchdog
    \/ \E s \in Session : SessionStep(s)

Spec == Init /\ [][Next]_vars

-----------------------------------------------------------------------------
(* Properties *)

\* Every variable keeps its type.
HostedTypeOK ==
    /\ call \in [Call -> CallType]
    /\ row \in [Call -> RowType]
    /\ container \in [Call -> {"none", "running", "removed"}]
    /\ link \in [Call -> {"down", "dialled", "admitted", "up", "broken"}]
    /\ ender \in [Call -> {"none", "update", "deprovision", "mark"}]
    /\ session \in [Session -> SessionType]
    /\ stray \subseteq Call
    /\ faults \in 0 .. MaxFaults

\* A running container is always somebody's: a call waits for it or removes it, a live
\* row can still be ended, whoever ended the row removes it, the failure to remove it is
\* on record - or it strayed when docker run was cut off or a process died.
ContainersAccountedFor ==
    \A r \in Call : container[r] = "running" =>
        \/ call[r].step \in {"wait", "cleanup"}
        \/ Live(r)
        \/ ender[r] = "deprovision"
        \/ row[r].status \in Ended /\ row[r].cleanup = "failed"
        \/ r \in stray

\* Two hosted runtimes of a user live at once only if the call of one of them read the
\* registry while another call, or its container, was still under way.
OneHostedUnlessOverlapping ==
    \A r, o \in Call :
        Live(r) /\ Live(o) /\ r # o => ~call[r].alone \/ ~call[o].alone

\* Without a fault, whoever ends a runtime, user or reaper, releases every session that
\* was stored before the sessions were marked.
SessionsReleased ==
    \A r \in Call : row[r].status \in Ended /\ ender[r] = "none" /\ faults = 0 =>
        \A s \in RunningAt(r) : session[s].late

==============================================================================
