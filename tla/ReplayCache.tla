----------------------------- MODULE ReplayCache -----------------------------
(***************************************************************************)
(* Which signed HELLOs a process takes, and how often: each names the time *)
(* it was issued and carries a nonce; a process takes it near that time    *)
(* only, and remembers the nonces it has taken.                            *)
(*                                                                         *)
(* A handler reads the clock first, then looks the credential up, which    *)
(* may take any time, and then asks the cache with the time it had read.   *)
(* A HELLO is named by its credential and nonce.  It may reach any process *)
(* any number of times: a runtime that hears nothing sends it again.       *)
(***************************************************************************)
EXTENDS Naturals, FiniteSets

CONSTANTS
    Instance,  \* control-panel processes
    Handler,   \* streams whose first frame is handled at the same time
    Hello,     \* signed HELLOs
    Skew,      \* maxHelloClockSkew
    TTL,       \* replayTTL
    MaxSize,   \* nonces a cache holds
    MaxTime,   \* bound: the last instant
    MaxStored, \* bound: nonces stored by a process
    None

ASSUME ReplayAssumption ==
    /\ Skew \in Nat /\ TTL \in Nat
    /\ 2 * Skew < TTL
    /\ MaxSize \in Nat \ {0}
    /\ MaxTime \in Nat /\ MaxStored \in Nat
    /\ None \notin Instance \cup Hello

VARIABLES
    now,       \* the time
    issued,    \* when each HELLO was issued, by the clock of its runtime
    verifying, \* per handler: the HELLO, the process, and the time it read
    cache,     \* per process: the entries, in the order of their numbers
    stored,    \* per process: entries stored so far
    passed,    \* the HELLOs each process has let pass (history)
    again,     \* those it has let pass twice (history)
    forgot,    \* those it evicted, or lost when it restarted (history)
    late       \* those whose check waited for too long after the clock was read (history)

historyVars == <<passed, again, forgot, late>>
replayVars == <<now, issued, verifying, cache, stored, historyVars>>

NotVerifying == [hello |-> None, at |-> None, read |-> 0]

ReplayInit ==
    /\ now = Skew
    /\ issued \in [Hello -> 0 .. Skew + MaxTime]
    /\ verifying = [g \in Handler |-> NotVerifying]
    /\ cache = [i \in Instance |-> {}]
    /\ stored = [i \in Instance |-> 0]
    /\ passed = {} /\ again = {} /\ forgot = {} /\ late = {}

-----------------------------------------------------------------------------
\* issued_at is within the allowed clock skew, either way.
Fresh(h) == issued[h] <= now + Skew /\ now <= issued[h] + Skew

\* verifyHello reads the clock, and refuses a HELLO from too early or too late.
Begins(g, i, h) ==
    /\ verifying[g] = NotVerifying
    /\ Fresh(h)
    /\ verifying' = [verifying EXCEPT ![g] = [hello |-> h, at |-> i, read |-> now]]
    /\ UNCHANGED <<now, issued, cache, stored, historyVars>>

\* It ends before it comes to the cache: the credential or the signature is wrong,
\* or the stream is gone.
Abandons(g) ==
    /\ verifying[g] # NotVerifying
    /\ verifying' = [verifying EXCEPT ![g] = NotVerifying]
    /\ UNCHANGED <<now, issued, cache, stored, historyVars>>

\* pruneLocked: what has expired by the caller's time is dropped.
Pruned(i, at) == {e \in cache[i] : at < e.expires}

\* Faulty: an entry lives as long as a HELLO of its time may be shown.
ExpiresWithSkew(at) == at + Skew

Expires(at) == at + TTL

\* While there are too many, the one stored first goes.
Evicted(E) ==
    IF Cardinality(E) > MaxSize THEN {e \in E : \A f \in E : e.number <= f.number} ELSE {}

NewEntry(g) ==
    [hello |-> verifying[g].hello, expires |-> Expires(verifying[g].read),
     number |-> stored[verifying[g].at] + 1]

Seen(g) == \E e \in Pruned(verifying[g].at, verifying[g].read) : e.hello = verifying[g].hello

\* The handler has waited so long that the entry of a HELLO shown as early as allowed
\* may be pruned by now, while the HELLO was fresh when the handler read the clock.
Late(g) == now + 2 * Skew >= verifying[g].read + TTL

\* CheckAndStore returns true.
Passes(g) ==
    LET i == verifying[g].at
        p == <<i, verifying[g].hello>>
        E == Pruned(i, verifying[g].read) \cup {NewEntry(g)}
    IN  /\ verifying[g] # NotVerifying
        /\ ~Seen(g)
        /\ stored[i] < MaxStored
        /\ cache' = [cache EXCEPT ![i] = E \ Evicted(E)]
        /\ stored' = [stored EXCEPT ![i] = @ + 1]
        /\ verifying' = [verifying EXCEPT ![g] = NotVerifying]
        /\ passed' = passed \cup {p}
        /\ again' = IF p \in passed THEN again \cup {p} ELSE again
        /\ forgot' = forgot \cup {<<i, e.hello>> : e \in Evicted(E)}
        /\ late' = IF Late(g) THEN late \cup {p} ELSE late
        /\ UNCHANGED <<now, issued>>

\* CheckAndStore returns false, having pruned.
Replayed(g) ==
    LET i == verifying[g].at
    IN  /\ verifying[g] # NotVerifying
        /\ Seen(g)
        /\ cache' = [cache EXCEPT ![i] = Pruned(i, verifying[g].read)]
        /\ verifying' = [verifying EXCEPT ![g] = NotVerifying]
        /\ UNCHANGED <<now, issued, stored, historyVars>>

\* The cache is in the memory of the process.
Restarts(i) ==
    /\ cache' = [cache EXCEPT ![i] = {}]
    /\ verifying' = [g \in Handler |->
           IF verifying[g].at = i THEN NotVerifying ELSE verifying[g]]
    /\ forgot' = forgot \cup {p \in passed : p[1] = i}
    /\ UNCHANGED <<now, issued, stored, passed, again, late>>

TimePasses ==
    /\ now < MaxTime
    /\ now' = now + 1
    /\ UNCHANGED <<issued, verifying, cache, stored, historyVars>>

ReplayNext ==
    \/ \E g \in Handler : \/ \E i \in Instance, h \in Hello : Begins(g, i, h)
                          \/ Abandons(g) \/ Passes(g) \/ Replayed(g)
    \/ \E i \in Instance : Restarts(i)
    \/ TimePasses

ReplaySpec == ReplayInit /\ [][ReplayNext]_replayVars

-----------------------------------------------------------------------------
EntryType == [hello : Hello, expires : Nat, number : Nat \ {0}]

ReplayTypeOK ==
    /\ now \in Nat
    /\ issued \in [Hello -> Nat]
    /\ verifying \in [Handler -> [hello : Hello, at : Instance, read : Nat] \cup {NotVerifying}]
    /\ cache \in [Instance -> SUBSET EntryType]
    /\ stored \in [Instance -> Nat]
    /\ passed \subseteq Instance \X Hello
    /\ again \subseteq Instance \X Hello
    /\ forgot \subseteq Instance \X Hello
    /\ late \subseteq Instance \X Hello

\* A process lets a HELLO pass once, in whatever order handlers come to the cache with
\* the times they read, unless the nonce was evicted or lost in a restart, or a handler
\* took longer to look the credential up than an entry outlives its HELLO (30 minutes
\* less twice the skew of 5).  Other processes know nothing of the nonce: there, as
\* after these accidents, only the consumed credential stands in the way.
HelloPassesOnce == \A p \in again : p \in forgot \/ p \in late
=============================================================================
