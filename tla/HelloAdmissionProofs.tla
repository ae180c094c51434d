------------------------ MODULE HelloAdmissionProofs ------------------------
(***************************************************************************)
(* Type correctness of HelloAdmission, and its two invariants: a process   *)
(* lets a HELLO pass once, and a runtime is registered as what was issued. *)
(***************************************************************************)
EXTENDS HelloAdmission, TLAPS

-----------------------------------------------------------------------------
(* The replay cache *)

\* A handler that is verifying has the name of a HELLO, a process, and a time that has
\* passed and was near the one in the HELLO.
VerifyingFresh ==
    \A g \in Handler : verifying[g] # NotVerifying =>
        LET v == verifying[g]
        IN  /\ v.read <= now
            /\ issued[v.hello] <= v.read + Skew
            /\ v.read <= issued[v.hello] + Skew

\* Process i remembers h for as long as h may be shown.
Remembers(i, h) ==
    \E e \in cache[i] : e.hello = h /\ e.expires + Skew >= issued[h] + TTL

\* It was shown so long ago that its entry may be gone.
LongAgo(h) == now + Skew >= issued[h] + TTL

PassedRemembered ==
    \A i \in Instance, h \in Hello : <<i, h>> \in passed =>
        <<i, h>> \in forgot \/ Remembers(i, h) \/ LongAgo(h)

\* HelloPassesOnce alone is not inductive: that a nonce is let through once rests on
\* what the cache still holds of it.
ReplayInv == VerifyingFresh /\ PassedRemembered /\ HelloPassesOnce

-----------------------------------------------------------------------------
\* The history, the clock and the cache stay typed with every step of a handler.
LEMMA ReplayInitTyped == ReplayInit => ReplayTypeOK /\ ReplayInv
  BY ReplayAssumption
  DEF ReplayInit, ReplayTypeOK, ReplayInv, VerifyingFresh, PassedRemembered,
      HelloPassesOnce, NotVerifying

LEMMA VerifyingTyped ==
  ASSUME ReplayTypeOK, NEW g \in Handler, verifying[g] # NotVerifying
  PROVE  verifying[g] \in [hello : Hello, at : Instance, read : Nat]
  BY DEF ReplayTypeOK

\* The four histories are one tuple.
LEMMA HistoryUnchanged ==
  ASSUME UNCHANGED historyVars
  PROVE  UNCHANGED passed /\ UNCHANGED again /\ UNCHANGED forgot /\ UNCHANGED late
  BY DEF historyVars

\* Begins keeps the invariant: the HELLO is fresh when the clock is read.
LEMMA BeginsKeeps ==
  ASSUME ReplayTypeOK, ReplayInv, NEW g \in Handler, NEW i \in Instance, NEW h \in Hello,
         Begins(g, i, h)
  PROVE  ReplayTypeOK' /\ ReplayInv'
<1>1. ReplayTypeOK'
  BY HistoryUnchanged DEF Begins, ReplayTypeOK
<1>2. VerifyingFresh'
  <2> SUFFICES ASSUME NEW o \in Handler, verifying'[o] # NotVerifying
               PROVE  LET v == verifying'[o]
                      IN  /\ v.read <= now'
                          /\ issued'[v.hello] <= v.read + Skew
                          /\ v.read <= issued'[v.hello] + Skew
    BY DEF VerifyingFresh
  <2>1. CASE o = g
    BY <2>1 DEF Begins, Fresh, ReplayTypeOK
  <2>2. CASE o # g
    BY <2>2 DEF Begins, ReplayTypeOK, ReplayInv, VerifyingFresh
  <2> QED BY <2>1, <2>2
<1>3. PassedRemembered' /\ HelloPassesOnce'
  BY HistoryUnchanged
  DEF Begins, ReplayInv, PassedRemembered, Remembers, LongAgo, HelloPassesOnce
<1> QED BY <1>1, <1>2, <1>3 DEF ReplayInv

LEMMA AbandonsKeeps ==
  ASSUME ReplayTypeOK, ReplayInv, NEW g \in Handler, Abandons(g)
  PROVE  ReplayTypeOK' /\ ReplayInv'
  BY HistoryUnchanged
  DEF Abandons, ReplayTypeOK, ReplayInv, VerifyingFresh, PassedRemembered, Remembers,
      LongAgo, HelloPassesOnce, NotVerifying

\* What is pruned at a time that has passed may be long ago.
LEMMA PrunedIsOld ==
  ASSUME ReplayTypeOK, NEW i \in Instance, NEW h \in Hello, NEW at \in Nat, at <= now,
         Remembers(i, h)
  PROVE  \/ \E e \in Pruned(i, at) : e.hello = h /\ e.expires + Skew >= issued[h] + TTL
         \/ LongAgo(h)
<1> PICK e \in cache[i] : e.hello = h /\ e.expires + Skew >= issued[h] + TTL
  BY DEF Remembers
<1>1. e.expires \in Nat /\ issued[h] \in Nat /\ Skew \in Nat /\ TTL \in Nat /\ now \in Nat
  BY ReplayAssumption DEF ReplayTypeOK, EntryType
<1>2. CASE at < e.expires
  BY <1>2 DEF Pruned
<1>3. CASE ~(at < e.expires)
  BY <1>1, <1>3 DEF LongAgo
<1> QED BY <1>2, <1>3

LEMMA ReplayedKeeps ==
  ASSUME ReplayTypeOK, ReplayInv, NEW g \in Handler, Replayed(g)
  PROVE  ReplayTypeOK' /\ ReplayInv'
<1> DEFINE v == verifying[g]
<1>1. v \in [hello : Hello, at : Instance, read : Nat]
  BY VerifyingTyped DEF Replayed
<1>2. v.read <= now
  BY DEF ReplayInv, VerifyingFresh, Replayed
<1>3. /\ cache' = [cache EXCEPT ![v.at] = Pruned(v.at, v.read)]
      /\ verifying' = [verifying EXCEPT ![g] = NotVerifying]
      /\ UNCHANGED <<now, issued, stored, passed, again, forgot, late>>
  BY HistoryUnchanged DEF Replayed
<1>4. Pruned(v.at, v.read) \subseteq cache[v.at]
  BY DEF Pruned
<1>5. ReplayTypeOK'
  BY <1>1, <1>3, <1>4 DEF ReplayTypeOK
<1>6. VerifyingFresh' /\ HelloPassesOnce'
  BY <1>3 DEF ReplayInv, VerifyingFresh, HelloPassesOnce, NotVerifying, ReplayTypeOK
<1>7. PassedRemembered'
  <2> SUFFICES ASSUME NEW i \in Instance, NEW h \in Hello, <<i, h>> \in passed,
                      <<i, h>> \notin forgot, ~LongAgo(h)
               PROVE  Remembers(i, h)'
    BY <1>3 DEF PassedRemembered, LongAgo
  <2>1. Remembers(i, h)
    BY DEF ReplayInv, PassedRemembered
  <2>2. CASE i = v.at
    <3>1. \E e \in Pruned(i, v.read) : e.hello = h /\ e.expires + Skew >= issued[h] + TTL
      BY <1>1, <1>2, <2>1, <2>2, PrunedIsOld
    <3>2. cache'[i] = Pruned(i, v.read)
      BY <1>1, <1>3, <2>2 DEF ReplayTypeOK
    <3> QED BY <1>3, <3>1, <3>2 DEF Remembers
  <2>3. CASE i # v.at
    BY <1>3, <2>1, <2>3 DEF Remembers, ReplayTypeOK
  <2> QED BY <2>2, <2>3
<1> QED BY <1>5, <1>6, <1>7 DEF ReplayInv

\* A HELLO that passes is remembered, or another evicts it.  One that has passed before
\* was forgotten, or its handler was late: the time it read is near the time of the
\* HELLO, and an entry for the HELLO expires later than that.
LEMMA PassesKeeps ==
  ASSUME ReplayTypeOK, ReplayInv, NEW g \in Handler, Passes(g)
  PROVE  ReplayTypeOK' /\ ReplayInv'
<1> DEFINE v == verifying[g]
           p == <<v.at, v.hello>>
           E == Pruned(v.at, v.read) \cup {NewEntry(g)}
<1>1. v \in [hello : Hello, at : Instance, read : Nat]
  BY VerifyingTyped DEF Passes
<1>2. /\ v.read <= now
      /\ issued[v.hello] <= v.read + Skew
      /\ v.read <= issued[v.hello] + Skew
  BY DEF ReplayInv, VerifyingFresh, Passes
<1>3. /\ ~Seen(g)
      /\ cache' = [cache EXCEPT ![v.at] = E \ Evicted(E)]
      /\ stored' = [stored EXCEPT ![v.at] = @ + 1]
      /\ verifying' = [verifying EXCEPT ![g] = NotVerifying]
      /\ passed' = passed \cup {p}
      /\ again' = IF p \in passed THEN again \cup {p} ELSE again
      /\ forgot' = forgot \cup {<<v.at, e.hello>> : e \in Evicted(E)}
      /\ late' = IF Late(g) THEN late \cup {p} ELSE late
      /\ UNCHANGED <<now, issued>>
  BY DEF Passes
<1>4. NewEntry(g) \in EntryType /\ NewEntry(g).hello = v.hello
                                /\ NewEntry(g).expires = v.read + TTL
  BY <1>1, ReplayAssumption DEF NewEntry, Expires, EntryType, ReplayTypeOK
<1>5. E \subseteq EntryType /\ Evicted(E) \subseteq E
  BY <1>1, <1>4 DEF Pruned, Evicted, ReplayTypeOK
<1>6. {<<v.at, e.hello>> : e \in Evicted(E)} \subseteq Instance \X Hello
  <2> SUFFICES ASSUME NEW e \in Evicted(E)
               PROVE  <<v.at, e.hello>> \in Instance \X Hello
    OBVIOUS
  <2>1. e.hello \in Hello
    BY <1>5 DEF EntryType
  <2> QED BY <1>1, <2>1
<1>7. ReplayTypeOK'
  <2>1. cache' \in [Instance -> SUBSET EntryType]
    BY <1>3, <1>5 DEF ReplayTypeOK
  <2>2. stored' \in [Instance -> Nat] /\ now' \in Nat /\ issued' \in [Hello -> Nat]
    BY <1>1, <1>3 DEF ReplayTypeOK
  <2>3. verifying' \in [Handler ->
                           [hello : Hello, at : Instance, read : Nat] \cup {NotVerifying}]
    BY <1>3 DEF ReplayTypeOK
  <2>4. forgot' \subseteq Instance \X Hello
    BY <1>3, <1>6 DEF ReplayTypeOK
  <2>5. p \in Instance \X Hello
    BY <1>1
  <2>6. passed' \subseteq Instance \X Hello /\ again' \subseteq Instance \X Hello
                                            /\ late' \subseteq Instance \X Hello
    BY <1>3, <2>5 DEF ReplayTypeOK
  <2> QED BY <2>1, <2>2, <2>3, <2>4, <2>6 DEF ReplayTypeOK
<1>8. VerifyingFresh'
  BY <1>3 DEF ReplayInv, VerifyingFresh, NotVerifying, ReplayTypeOK
<1>9. ASSUME NEW i \in Instance, i = v.at, NEW h \in Hello,
             NEW e \in E, e.hello = h, e.expires + Skew >= issued[h] + TTL
      PROVE  Remembers(i, h)' \/ <<i, h>> \in forgot'
  <2>1. cache'[i] = E \ Evicted(E)
    BY <1>3, <1>9 DEF ReplayTypeOK
  <2>2. CASE e \in Evicted(E)
    BY <1>3, <1>9, <2>2
  <2>3. CASE e \notin Evicted(E)
    <3>1. e \in cache'[i]
      BY <1>9, <2>1, <2>3
    <3> QED BY <1>3, <1>9, <3>1 DEF Remembers
  <2> QED BY <2>2, <2>3
<1>10. PassedRemembered'
  <2> SUFFICES ASSUME NEW i \in Instance, NEW h \in Hello, <<i, h>> \in passed',
                      <<i, h>> \notin forgot', ~LongAgo(h)
               PROVE  Remembers(i, h)'
    BY <1>3 DEF PassedRemembered, LongAgo
  <2>1. CASE <<i, h>> = p
    <3>1. i = v.at /\ h = v.hello
      BY <2>1
    <3>2. NewEntry(g) \in E /\ NewEntry(g).expires + Skew >= issued[h] + TTL
      BY <1>1, <1>2, <1>4, <3>1, ReplayAssumption DEF ReplayTypeOK
    <3> QED BY <1>4, <1>9, <3>1, <3>2
  <2>2. CASE <<i, h>> # p
    <3>1. Remembers(i, h)
      BY <1>3, <2>2 DEF ReplayInv, PassedRemembered
    <3>2. CASE i = v.at
      <4>1. PICK e \in Pruned(i, v.read) : e.hello = h /\ e.expires + Skew >= issued[h] + TTL
        BY <1>1, <1>2, <3>1, <3>2, PrunedIsOld
      <4> QED BY <1>9, <3>2, <4>1
    <3>3. CASE i # v.at
      BY <1>3, <3>1, <3>3 DEF Remembers, ReplayTypeOK
    <3> QED BY <3>2, <3>3
  <2> QED BY <2>1, <2>2
<1>11. HelloPassesOnce'
  <2>1. ASSUME p \in passed, p \notin forgot
        PROVE  Late(g)
    <3>1. ~Remembers(v.at, v.hello)
      <4> SUFFICES ASSUME NEW e \in cache[v.at], e.hello = v.hello,
                          e.expires + Skew >= issued[v.hello] + TTL
                   PROVE  FALSE
        BY DEF Remembers
      <4>1. e.expires \in Nat /\ issued[v.hello] \in Nat
        BY <1>1 DEF ReplayTypeOK, EntryType
      <4>2. v.read < e.expires
        BY <1>1, <1>2, <4>1, ReplayAssumption
      <4> QED BY <1>3, <4>2 DEF Seen, Pruned
    <3>2. LongAgo(v.hello)
      BY <1>1, <2>1, <3>1 DEF ReplayInv, PassedRemembered
    <3> QED BY <1>1, <1>2, <3>2, ReplayAssumption DEF LongAgo, Late, ReplayTypeOK
  <2> QED BY <1>3, <2>1 DEF ReplayInv, HelloPassesOnce
<1> QED BY <1>7, <1>8, <1>10, <1>11 DEF ReplayInv

LEMMA RestartsKeeps ==
  ASSUME ReplayTypeOK, ReplayInv, NEW i \in Instance, Restarts(i)
  PROVE  ReplayTypeOK' /\ ReplayInv'
<1>1. ReplayTypeOK'
  BY DEF Restarts, ReplayTypeOK
<1>2. VerifyingFresh'
  BY DEF Restarts, ReplayInv, VerifyingFresh, NotVerifying, ReplayTypeOK
<1>3. PassedRemembered'
  BY DEF Restarts, ReplayInv, PassedRemembered, Remembers, LongAgo, ReplayTypeOK
<1>4. HelloPassesOnce'
  BY DEF Restarts, ReplayInv, HelloPassesOnce
<1> QED BY <1>1, <1>2, <1>3, <1>4 DEF ReplayInv

LEMMA TimePassesKeeps ==
  ASSUME ReplayTypeOK, ReplayInv, TimePasses
  PROVE  ReplayTypeOK' /\ ReplayInv'
<1> USE HistoryUnchanged DEF TimePasses
<1>1. ReplayTypeOK'
  BY DEF ReplayTypeOK
<1>2. VerifyingFresh'
  <2> SUFFICES ASSUME NEW g \in Handler, verifying[g] # NotVerifying
               PROVE  verifying[g].read <= now'
    BY DEF ReplayInv, VerifyingFresh
  <2> QED BY VerifyingTyped DEF ReplayInv, VerifyingFresh, ReplayTypeOK
<1>3. ASSUME NEW h \in Hello, LongAgo(h)
      PROVE  LongAgo(h)'
  BY <1>3, ReplayAssumption DEF LongAgo, ReplayTypeOK
<1>4. PassedRemembered'
  BY <1>3 DEF ReplayInv, PassedRemembered, Remembers
<1>5. HelloPassesOnce'
  BY DEF ReplayInv, HelloPassesOnce
<1> QED BY <1>1, <1>2, <1>4, <1>5 DEF ReplayInv

LEMMA ReplayKeeps ==
  ASSUME ReplayTypeOK, ReplayInv, [ReplayNext]_replayVars
  PROVE  ReplayTypeOK' /\ ReplayInv'
<1>1. CASE UNCHANGED replayVars
  BY <1>1, HistoryUnchanged
  DEF replayVars, ReplayTypeOK, ReplayInv, VerifyingFresh, PassedRemembered, Remembers,
      LongAgo, HelloPassesOnce
<1>2. CASE ReplayNext
  BY <1>2, BeginsKeeps, AbandonsKeeps, PassesKeeps, ReplayedKeeps, RestartsKeeps,
     TimePassesKeeps DEF ReplayNext
<1> QED BY <1>1, <1>2

\* Of the cache alone: in any order of its callers a process lets a HELLO pass once,
\* unless it forgot the nonce or the caller was late (ReplayCache.CheckAndStore).
THEOREM CachePassesOnce == ReplaySpec => [](ReplayTypeOK /\ HelloPassesOnce)
<1>1. ReplayTypeOK /\ ReplayInv /\ [ReplayNext]_replayVars => ReplayTypeOK' /\ ReplayInv'
  BY ReplayKeeps
<1>2. ReplayInv => HelloPassesOnce
  BY DEF ReplayInv
<1> QED BY <1>1, <1>2, ReplayInitTyped, PTL DEF ReplaySpec

-----------------------------------------------------------------------------
(* Admission *)

CertIssued(identity) == \E k \in KeyId : Issued(k) /\ credential[k].cert = identity

\* Where certificates are required, what is about to be registered is what one says.
AdmittingIssued ==
    \A g \in Handler : tls /\ admitting[g] # NoRuntime => CertIssued(admitting[g].id)

\* The credential of a row has been used: no second row is made with it.
RowKeysUsed ==
    \A r \in RuntimeId : registry[r] # NoRuntime /\ registry[r].key # None =>
        /\ Issued(registry[r].key)
        /\ credential[registry[r].key].status # "downloaded"

AdmissionInv == AdmittingIssued /\ RowKeysUsed /\ AdmittedAsIssued

\* A step of the admission is one of the cache, or leaves it alone.
LEMMA AdmissionRefinesReplay ==
  ASSUME [Next]_vars
  PROVE  [ReplayNext]_replayVars
<1>1. CASE Issues \/ \E k \in KeyId : RevokeRuntimeCredential(k)
  BY <1>1 DEF Issues, Issue, IssueHostedInternalRuntimeCredential,
     BootstrapBareRuntimeCertificate, CreateRuntimeCredential, RevokeRuntimeCredential
<1>2. CASE \E h \in Hello : Composes(h)
  BY <1>2 DEF Composes
<1>3. CASE \E g \in Handler, h \in Hello : \/ \E i \in Instance : HelloArrives(g, i, h)
                                          \/ VerifyBareHello(g, h)
  BY <1>3 DEF HelloArrives, VerifyBareHello, ReplayNext
<1>4. CASE \E g \in Handler : \/ HelloRefused(g) \/ HelloReplayed(g) \/ VerifyHello(g)
                              \/ Registers(g) \/ RegistrationFails(g)
  BY <1>4 DEF HelloRefused, HelloReplayed, VerifyHello, Registers, RegistrationFails,
     ReplayNext
<1>5. CASE (\E i \in Instance : ProcessRestarts(i)) \/ ClockTicks
  BY <1>5 DEF ProcessRestarts, ClockTicks, ReplayNext
<1>6. CASE UNCHANGED vars
  BY <1>6 DEF vars
<1> QED BY <1>1, <1>2, <1>3, <1>4, <1>5, <1>6 DEF Next

\* HELLOs are let through once by every process of the admission, too
\* (verifyHello, with everything that may fail before and after the cache).
THEOREM AdmissionPassesOnce == Spec => [](ReplayTypeOK /\ HelloPassesOnce)
<1>1. ReplayTypeOK /\ ReplayInv /\ [Next]_vars => ReplayTypeOK' /\ ReplayInv'
  BY AdmissionRefinesReplay, ReplayKeeps
<1>2. AdmissionInit => ReplayTypeOK /\ ReplayInv
  BY ReplayInitTyped DEF AdmissionInit
<1>3. ReplayInv => HelloPassesOnce
  BY DEF ReplayInv
<1> QED BY <1>1, <1>2, <1>3, PTL DEF Spec

-----------------------------------------------------------------------------
LEMMA DrawnKey ==
  ASSUME NEW k \in KeyId, k[1] = "key"
  PROVE  SelfHosted(k) \in RuntimeId
  BY DEF KeyId, RuntimeId, Drawn, BareKey

LEMMA DrawnTyped ==
  ASSUME NEW n \in 1 .. MaxKey
  PROVE  Drawn(n) \in KeyId /\ SelfHosted(Drawn(n)) \in RuntimeId
  BY DEF KeyId, RuntimeId

\* Identities are equal when their fields are.
LEMMA SameIdentity ==
  ASSUME NEW id \in [runtime : RuntimeId, user : User \cup {None}, source : Source, role : Role],
         NEW peer \in IdentityType, PeerMatches(id, peer)
  PROVE  peer = id
<1>1. peer # None
  BY IdentityAssumption
<1>2. /\ peer.runtime = id.runtime /\ peer.user = id.user
      /\ peer.source = id.source /\ peer.role = id.role
  BY <1>1 DEF PeerMatches
<1> QED BY <1>2 DEF IdentityType

AdmissionVarsTyped ==
    /\ study \in {"who", "when"}
    /\ tls \in BOOLEAN
    /\ credential \in [KeyId -> CredentialType \cup {NoCredential}]
    /\ says \in [Hello -> HelloType]
    /\ admitting \in [Handler -> RowType \cup {NoRuntime}]
    /\ registry \in [RuntimeId -> RowType \cup {NoRuntime}]

LEMMA AdmissionInitTyped == AdmissionInit => AdmissionVarsTyped /\ AdmissionInv
<1> SUFFICES ASSUME AdmissionInit PROVE AdmissionVarsTyped /\ AdmissionInv
  OBVIOUS
<1>1. /\ study \in {"who", "when"} /\ tls \in BOOLEAN
      /\ admitting = [g \in Handler |-> NoRuntime]
      /\ registry = [r \in RuntimeId |-> NoRuntime]
  BY DEF AdmissionInit, NotAdmitting
<1>2. /\ credential \in [KeyId -> CredentialType \cup {NoCredential}]
      /\ says \in [Hello -> HelloType]
  <2>1. CASE study = "who"
    <3>1. Silent \in HelloType
      BY DEF Silent, HelloType
    <3> QED BY <2>1, <3>1 DEF AdmissionInit
  <2>2. CASE study # "who"
    <3>1. PICK u \in User :
            /\ credential = [k \in KeyId |->
                   IF k = Drawn(1)
                   THEN Signed(Identity(SelfHosted(k), u, "self_hosted", "executor"))
                   ELSE NoCredential]
            /\ says = [h \in Hello |-> BundleOf(Drawn(1), u)]
      BY <2>2 DEF AdmissionInit
    <3>2. Drawn(1) \in KeyId /\ SelfHosted(Drawn(1)) \in RuntimeId
      BY DrawnTyped, AdmissionAssumption
    <3>3. Signed(Identity(SelfHosted(Drawn(1)), u, "self_hosted", "executor")) \in CredentialType
      BY <3>2 DEF Signed, Identity, CredentialType, IdentityType, Source, Role
    <3>4. BundleOf(Drawn(1), u) \in HelloType
      BY <3>2 DEF BundleOf, HelloType
    <3> QED BY <3>1, <3>3, <3>4
  <2> QED BY <2>1, <2>2
<1> QED BY <1>1, <1>2
        DEF AdmissionVarsTyped, AdmissionInv, AdmittingIssued, RowKeysUsed, AdmittedAsIssued

\* A credential keeps its certificate, and is not used again once it has been.
CredentialsKept ==
    \A k \in KeyId : Issued(k) =>
        /\ Issued(k)'
        /\ credential'[k].cert = credential[k].cert
        /\ credential[k].status # "downloaded" =>
               credential'[k].status # "downloaded" /\ credential'[k].by = credential[k].by

\* As long as the credentials keep what they were issued with, a step that registers
\* nothing disturbs nothing that was registered.
LEMMA RowsStand ==
  ASSUME AdmissionVarsTyped, RowKeysUsed, AdmittedAsIssued, CredentialsKept,
         UNCHANGED <<tls, registry>>
  PROVE  RowKeysUsed' /\ AdmittedAsIssued'
<1>1. RowKeysUsed'
  BY DEF RowKeysUsed, CredentialsKept, Issued
<1>2. AdmittedAsIssued'
  <2> SUFFICES ASSUME NEW r \in RuntimeId, registry[r] # NoRuntime
               PROVE  LET row == registry[r]
                      IN  /\ row.id.runtime = r
                          /\ row.key # None =>
                                 LET c == credential'[row.key]
                                 IN  /\ c.by = r
                                     /\ Identity(r, c.cert.user, c.cert.source, c.cert.role)
                                            = row.id
                          /\ tls => \E k \in KeyId : Issued(k)' /\ credential'[k].cert = row.id
    BY DEF AdmittedAsIssued
  <2>1. registry[r].id.runtime = r
    BY DEF AdmittedAsIssued
  <2>2. ASSUME registry[r].key # None
        PROVE  LET c == credential'[registry[r].key]
               IN  /\ c.by = r
                   /\ Identity(r, c.cert.user, c.cert.source, c.cert.role) = registry[r].id
    BY <2>2 DEF AdmittedAsIssued, RowKeysUsed, CredentialsKept, Issued
  <2>3. tls => \E k \in KeyId : Issued(k)' /\ credential'[k].cert = registry[r].id
    BY DEF AdmittedAsIssued, CredentialsKept
  <2> QED BY <2>1, <2>2, <2>3
<1> QED BY <1>1, <1>2

LEMMA AdmittingStands ==
  ASSUME AdmittingIssued, CredentialsKept, UNCHANGED tls,
         \A g \in Handler : admitting'[g] \in {admitting[g], NoRuntime}
  PROVE  AdmittingIssued'
  BY DEF AdmittingIssued, CredentialsKept, CertIssued

-----------------------------------------------------------------------------
(* What each step does to the rows *)

\* CreateRuntimeCredential stores a new row and touches no other.
LEMMA CreateKeeps ==
  ASSUME AdmissionVarsTyped, AdmissionInv, NEW k \in KeyId, NEW identity \in IdentityType,
         CreateRuntimeCredential(k, identity)
  PROVE  AdmissionVarsTyped' /\ AdmissionInv'
<1>1. Signed(identity) \in CredentialType
  BY DEF Signed, CredentialType
<1>2. AdmissionVarsTyped'
  BY <1>1 DEF CreateRuntimeCredential, AdmissionVarsTyped
<1>3. CredentialsKept
  BY DEF CreateRuntimeCredential, CredentialsKept, Issued, AdmissionVarsTyped
<1>4. RowKeysUsed' /\ AdmittedAsIssued'
  BY <1>3, RowsStand DEF CreateRuntimeCredential, AdmissionInv
<1>5. AdmittingIssued'
  BY <1>3, AdmittingStands DEF CreateRuntimeCredential, AdmissionInv
<1> QED BY <1>2, <1>4, <1>5 DEF AdmissionInv

LEMMA IssuesKeeps ==
  ASSUME AdmissionVarsTyped, AdmissionInv, Issues
  PROVE  AdmissionVarsTyped' /\ AdmissionInv'
<1>1. ASSUME NEW k \in KeyId, NEW u \in User, NEW role \in Role, Issue(k, u, role)
      PROVE  AdmissionVarsTyped' /\ AdmissionInv'
  <2>1. SelfHosted(k) \in RuntimeId
    BY <1>1, DrawnTyped DEF Issue, NextKey
  <2>2. Identity(SelfHosted(k), u, "self_hosted", role) \in IdentityType
    BY <2>1 DEF Identity, IdentityType, Source
  <2> QED BY <1>1, <2>2, CreateKeeps DEF Issue
<1>2. ASSUME NEW k \in KeyId, NEW u \in User, NEW n \in Name,
             IssueHostedInternalRuntimeCredential(k, u, Named(n))
      PROVE  AdmissionVarsTyped' /\ AdmissionInv'
  <2>1. Identity(Named(n), u, "hosted", "executor") \in IdentityType
    BY DEF Identity, IdentityType, Source, Role, RuntimeId
  <2> QED BY <1>2, <2>1, CreateKeeps DEF IssueHostedInternalRuntimeCredential
<1>3. ASSUME NEW u \in User, NEW n \in Name, NEW allowed \in Address,
             BootstrapBareRuntimeCertificate(u, Named(n), allowed)
      PROVE  AdmissionVarsTyped' /\ AdmissionInv'
  <2>1. Identity(Named(n), u, "bare", "executor") \in IdentityType
    BY DEF Identity, IdentityType, Source, Role, RuntimeId
  <2>2. BareKey(Named(n)) \in KeyId
    BY DEF KeyId
  <2> QED BY <1>3, <2>1, <2>2, CreateKeeps DEF BootstrapBareRuntimeCertificate
<1> QED BY <1>1, <1>2, <1>3 DEF Issues

LEMMA RevokeKeeps ==
  ASSUME AdmissionVarsTyped, AdmissionInv, NEW k \in KeyId, RevokeRuntimeCredential(k)
  PROVE  AdmissionVarsTyped' /\ AdmissionInv'
<1>1. credential[k] \in CredentialType
  BY DEF RevokeRuntimeCredential, Issued, AdmissionVarsTyped
<1>2. credential' = [credential EXCEPT ![k] = [credential[k] EXCEPT !.status = "revoked"]]
  BY DEF RevokeRuntimeCredential
<1>3. [credential[k] EXCEPT !.status = "revoked"] \in CredentialType
  BY <1>1 DEF CredentialType
<1>4. AdmissionVarsTyped'
  BY <1>2, <1>3 DEF RevokeRuntimeCredential, AdmissionVarsTyped
<1>5. CredentialsKept
  BY <1>1, <1>2
  DEF CredentialsKept, Issued, AdmissionVarsTyped, CredentialType, NoCredential
<1>6. RowKeysUsed' /\ AdmittedAsIssued'
  BY <1>5, RowsStand DEF RevokeRuntimeCredential, AdmissionInv
<1>7. AdmittingIssued'
  BY <1>5, AdmittingStands DEF RevokeRuntimeCredential, AdmissionInv
<1> QED BY <1>4, <1>6, <1>7 DEF AdmissionInv

\* The steps that write neither the credentials nor the rows.
LEMMA NothingWritten ==
  ASSUME AdmissionVarsTyped, AdmissionInv, UNCHANGED <<tls, credential, registry>>
  PROVE  /\ RowKeysUsed' /\ AdmittedAsIssued'
         /\ UNCHANGED admitting => AdmittingIssued'
<1>1. CredentialsKept
  BY DEF CredentialsKept, Issued
<1>2. RowKeysUsed' /\ AdmittedAsIssued'
  BY <1>1, RowsStand DEF AdmissionInv
<1> QED BY <1>1, <1>2, AdmittingStands DEF AdmissionInv

LEMMA ComposesKeeps ==
  ASSUME AdmissionVarsTyped, AdmissionInv, NEW h \in Hello, Composes(h)
  PROVE  AdmissionVarsTyped' /\ AdmissionInv'
<1>1. PICK hello \in Anything : says' = [says EXCEPT ![h] = hello]
  BY DEF Composes
<1>2. hello \in HelloType
  BY DEF Anything, HelloType
<1>3. AdmissionVarsTyped'
  BY <1>1, <1>2 DEF Composes, AdmissionVarsTyped
<1> QED BY <1>3, NothingWritten DEF Composes, AdmissionInv

\* What AdmitsOrNot lets through is, where certificates are required, what one says:
\* the peer's identity is one of them and equals what was verified.
LEMMA AdmitsIssued ==
  ASSUME AdmissionVarsTyped, AdmissionInv, UNCHANGED <<tls, credential, registry>>,
         NEW g \in Handler, NEW h \in Hello, NEW key \in KeyId \cup {None},
         NEW id \in [runtime : RuntimeId, user : User \cup {None}, source : Source, role : Role],
         AdmitsOrNot(g, h, key, id)
  PROVE  /\ admitting' \in [Handler -> RowType \cup {NoRuntime}]
         /\ AdmissionInv'
<1>1. PICK peer \in Peers :
         admitting' = IF PeerMatches(id, peer)
                      THEN [admitting EXCEPT ![g] = [key |-> key, id |-> id, peer |-> peer]]
                      ELSE admitting
  BY DEF AdmitsOrNot
<1>2. tls => peer \in IdentityType /\ CertIssued(peer)
  BY DEF Peers, Certificates, CertIssued, Issued, AdmissionVarsTyped, CredentialType
<1>3. peer \in IdentityType \cup {None}
  BY <1>2 DEF Peers
<1>4. [key |-> key, id |-> id, peer |-> peer] \in RowType
  BY <1>3 DEF RowType
<1>5. admitting' \in [Handler -> RowType \cup {NoRuntime}]
  BY <1>1, <1>4 DEF AdmissionVarsTyped
<1>6. AdmittingIssued'
  <2> SUFFICES ASSUME NEW o \in Handler, tls, admitting'[o] # NoRuntime
               PROVE  CertIssued(admitting'[o].id)
    BY DEF AdmittingIssued, CertIssued, Issued
  <2>1. CASE o = g /\ PeerMatches(id, peer)
    <3>1. admitting'[o].id = id
      BY <1>1, <2>1 DEF AdmissionVarsTyped
    <3>2. peer = id
      BY <1>2, <2>1, SameIdentity
    <3> QED BY <1>2, <3>1, <3>2
  <2>2. CASE ~(o = g /\ PeerMatches(id, peer))
    <3>1. admitting'[o] = admitting[o]
      BY <1>1, <2>2 DEF AdmissionVarsTyped
    <3> QED BY <3>1 DEF AdmissionInv, AdmittingIssued
  <2> QED BY <2>1, <2>2
<1> QED BY <1>5, <1>6, NothingWritten DEF AdmissionInv

LEMMA VerifyKeeps ==
  ASSUME ReplayTypeOK, AdmissionVarsTyped, AdmissionInv, NEW g \in Handler, VerifyHello(g)
  PROVE  AdmissionVarsTyped' /\ AdmissionInv'
<1> DEFINE h == verifying[g].hello
           s == says[h]
<1>1. /\ h \in Hello
      /\ s \in HelloType
  BY VerifyingTyped DEF VerifyHello, AdmissionVarsTyped
<1>2. UNCHANGED <<study, tls, credential, says, registry>>
  BY DEF VerifyHello
<1>3. s.key \in KeyId /\ credential[s.key] \in CredentialType /\ SelfHosted(s.key) \in RuntimeId
  BY DrawnKey DEF VerifyHello, SignedByUsable, Usable, Issued, AdmissionVarsTyped
<1>4. Claimed(s) \in [runtime : RuntimeId, user : User \cup {None}, source : Source, role : Role]
  BY <1>1, <1>3 DEF Claimed, Identity, CredentialType, IdentityType, HelloType
<1>5. CASE AdmitsOrNot(g, h, s.key, Claimed(s))
  <2>1. admitting' \in [Handler -> RowType \cup {NoRuntime}] /\ AdmissionInv'
    BY <1>1, <1>2, <1>3, <1>4, <1>5, AdmitsIssued
  <2> QED BY <1>2, <2>1 DEF AdmissionVarsTyped
<1>6. CASE UNCHANGED admitting
  <2>1. AdmissionInv'
    BY <1>2, <1>6, NothingWritten DEF AdmissionInv
  <2> QED BY <1>2, <1>6, <2>1 DEF AdmissionVarsTyped
<1> QED BY <1>5, <1>6 DEF VerifyHello

LEMMA VerifyBareKeeps ==
  ASSUME AdmissionVarsTyped, AdmissionInv, NEW g \in Handler, NEW h \in Hello,
         VerifyBareHello(g, h)
  PROVE  AdmissionVarsTyped' /\ AdmissionInv'
<1>1. says[h] \in HelloType /\ says[h].runtime \in RuntimeId
  BY DEF VerifyBareHello, AdmissionVarsTyped, HelloType
<1>2. ClaimedBare(says[h])
        \in [runtime : RuntimeId, user : User \cup {None}, source : Source, role : Role]
  BY <1>1 DEF ClaimedBare, Identity, HelloType, Source, Role
<1>3. AdmitsOrNot(g, h, None, ClaimedBare(says[h]))
  BY DEF VerifyBareHello
<1>4. UNCHANGED <<study, tls, credential, says, registry>>
  BY DEF VerifyBareHello
<1>5. admitting' \in [Handler -> RowType \cup {NoRuntime}] /\ AdmissionInv'
  BY <1>2, <1>3, <1>4, AdmitsIssued
<1> QED BY <1>4, <1>5 DEF AdmissionVarsTyped

LEMMA RegistrationFailsKeeps ==
  ASSUME AdmissionVarsTyped, AdmissionInv, NEW g \in Handler, RegistrationFails(g)
  PROVE  AdmissionVarsTyped' /\ AdmissionInv'
<1>1. /\ admitting' = [admitting EXCEPT ![g] = NoRuntime]
      /\ UNCHANGED <<study, tls, credential, says, registry>>
  BY DEF RegistrationFails, NotAdmitting
<1>2. AdmittingIssued'
  BY <1>1 DEF AdmissionInv, AdmittingIssued, CertIssued, Issued, AdmissionVarsTyped
<1>3. AdmissionVarsTyped'
  BY <1>1 DEF AdmissionVarsTyped
<1> QED BY <1>1, <1>2, <1>3, NothingWritten DEF AdmissionInv

\* The row that is written is the one that was verified, and its credential becomes its
\* own; no older row has it, because their credentials are used.
LEMMA RegistersKeeps ==
  ASSUME AdmissionVarsTyped, AdmissionInv, NEW g \in Handler, Registers(g)
  PROVE  AdmissionVarsTyped' /\ AdmissionInv'
<1> DEFINE a == admitting[g]
           rt == a.id.runtime
<1>1. a \in RowType /\ rt \in RuntimeId
  BY DEF Registers, NotAdmitting, AdmissionVarsTyped, RowType
<1>2. /\ registry' = [registry EXCEPT ![rt] = a]
      /\ admitting' = [admitting EXCEPT ![g] = NoRuntime]
      /\ UNCHANGED <<study, tls, says>>
  <2>1. [key |-> a.key, id |-> a.id, peer |-> a.peer] = a
    BY <1>1 DEF RowType
  <2> QED BY <2>1 DEF Registers, NotAdmitting
<1>3. a.key = None => UNCHANGED credential
  BY DEF Registers
<1>4. ASSUME a.key # None
      PROVE  LET c == credential[a.key]
             IN  /\ a.key \in KeyId /\ c \in CredentialType /\ Issued(a.key)
                 /\ c.status = "downloaded"
                 /\ Identity(rt, c.cert.user, c.cert.source, c.cert.role) = a.id
                 /\ credential' = [credential EXCEPT
                        ![a.key] = [c EXCEPT !.status = "consumed", !.by = rt]]
  <2>1. a.key \in KeyId /\ Issued(a.key) /\ credential[a.key].status = "downloaded"
    BY <1>4 DEF Registers, KeyedAdmitted, Usable, Issued
  <2>2. credential[a.key] \in CredentialType
    BY <2>1 DEF Issued, AdmissionVarsTyped
  <2>3. LET cert == credential[a.key].cert
        IN  cert.user = a.id.user /\ cert.role = a.id.role /\ cert.source = a.id.source
    BY <1>4 DEF Registers, KeyedAdmitted
  <2>4. Identity(rt, a.id.user, a.id.source, a.id.role) = a.id
    BY <1>1 DEF Identity, RowType
  <2>5. credential' = [credential EXCEPT
            ![a.key] = [credential[a.key] EXCEPT !.status = "consumed", !.by = rt]]
    BY <1>4, <2>1, <2>2 DEF Registers, AdmissionVarsTyped, CredentialType
  <2> QED BY <2>1, <2>2, <2>3, <2>4, <2>5
<1>5. AdmissionVarsTyped'
  <2>1. credential' \in [KeyId -> CredentialType \cup {NoCredential}]
    <3>1. CASE a.key = None
      BY <1>3, <3>1 DEF AdmissionVarsTyped
    <3>2. CASE a.key # None
      <4> DEFINE c == [credential[a.key] EXCEPT !.status = "consumed", !.by = rt]
      <4>1. c \in CredentialType
        BY <1>1, <1>4, <3>2 DEF CredentialType
      <4>2. credential' = [credential EXCEPT ![a.key] = c]
        BY <1>4, <3>2
      <4> HIDE DEF c
      <4> QED BY <4>1, <4>2 DEF AdmissionVarsTyped
    <3> QED BY <3>1, <3>2
  <2> QED BY <1>1, <1>2, <2>1 DEF AdmissionVarsTyped
<1>6. \A k \in KeyId : Issued(k) =>
        /\ Issued(k)'
        /\ credential'[k].cert = credential[k].cert
        /\ credential[k].status # "downloaded" => credential'[k] = credential[k]
  <2> SUFFICES ASSUME NEW k \in KeyId, Issued(k)
               PROVE  /\ credential'[k] # NoCredential
                      /\ credential'[k].cert = credential[k].cert
                      /\ credential[k].status # "downloaded" => credential'[k] = credential[k]
    BY DEF Issued
  <2>1. CASE a.key # None /\ k = a.key
    <3>1. credential'[k] = [credential[k] EXCEPT !.status = "consumed", !.by = rt]
      BY <1>4, <2>1 DEF AdmissionVarsTyped
    <3>2. credential'[k].status = "consumed" /\ credential'[k].cert = credential[k].cert
      BY <1>4, <2>1, <3>1 DEF CredentialType
    <3> QED BY <1>4, <2>1, <3>2 DEF NoCredential
  <2>2. CASE ~(a.key # None /\ k = a.key)
    BY <1>3, <1>4, <2>2 DEF Issued, AdmissionVarsTyped
  <2> QED BY <2>1, <2>2
<1>7. AdmittingIssued'
  BY <1>2, <1>6 DEF AdmissionInv, AdmittingIssued, CertIssued, AdmissionVarsTyped
<1>8. ASSUME NEW r \in RuntimeId, r # rt, registry'[r] # NoRuntime
      PROVE  registry'[r] = registry[r] /\ registry[r] # NoRuntime
  BY <1>1, <1>2, <1>8 DEF AdmissionVarsTyped
<1>9. registry'[rt] = a
  BY <1>1, <1>2 DEF AdmissionVarsTyped
<1>10. ASSUME a.key # None
       PROVE  /\ a.key \in KeyId /\ credential'[a.key] # NoCredential
              /\ credential'[a.key].status = "consumed" /\ credential'[a.key].by = rt
              /\ credential'[a.key].cert = credential[a.key].cert
  <2>1. credential'[a.key] = [credential[a.key] EXCEPT !.status = "consumed", !.by = rt]
    BY <1>4, <1>10 DEF AdmissionVarsTyped
  <2>2. /\ credential'[a.key].status = "consumed" /\ credential'[a.key].by = rt
        /\ credential'[a.key].cert = credential[a.key].cert
    BY <1>4, <1>10, <2>1 DEF CredentialType
  <2> QED BY <1>4, <1>10, <2>2 DEF NoCredential
<1>11. RowKeysUsed'
  <2> SUFFICES ASSUME NEW r \in RuntimeId, registry'[r] # NoRuntime, registry'[r].key # None
               PROVE  /\ registry'[r].key \in KeyId
                      /\ credential'[registry'[r].key] # NoCredential
                      /\ credential'[registry'[r].key].status # "downloaded"
    BY DEF RowKeysUsed, Issued
  <2>1. CASE r = rt
    BY <1>9, <1>10, <2>1
  <2>2. CASE r # rt
    BY <1>6, <1>8, <2>2 DEF AdmissionInv, RowKeysUsed, Issued
  <2> QED BY <2>1, <2>2
<1>12. AdmittedAsIssued'
  <2> SUFFICES ASSUME NEW r \in RuntimeId, registry'[r] # NoRuntime
               PROVE  LET row == registry'[r]
                      IN  /\ row.id.runtime = r
                          /\ row.key # None =>
                                 LET c == credential'[row.key]
                                 IN  /\ c.by = r
                                     /\ Identity(r, c.cert.user, c.cert.source, c.cert.role)
                                            = row.id
                          /\ tls => \E k \in KeyId : Issued(k)' /\ credential'[k].cert = row.id
    BY <1>2 DEF AdmittedAsIssued
  <2>1. CASE r = rt
    <3>1. a.key # None => Identity(r, credential'[a.key].cert.user,
                  credential'[a.key].cert.source, credential'[a.key].cert.role) = a.id
      BY <1>4, <1>10, <2>1
    <3>2. tls => \E k \in KeyId : Issued(k)' /\ credential'[k].cert = a.id
      BY <1>6 DEF Registers, NotAdmitting, AdmissionInv, AdmittingIssued, CertIssued
    <3> QED BY <1>9, <1>10, <2>1, <3>1, <3>2
  <2>2. CASE r # rt
    <3>1. registry'[r] = registry[r] /\ registry[r] # NoRuntime
      BY <1>8, <2>2
    <3>2. registry[r].key # None => credential'[registry[r].key] = credential[registry[r].key]
      BY <1>6, <3>1 DEF AdmissionInv, RowKeysUsed, Issued
    <3>3. tls => \E k \in KeyId : Issued(k)' /\ credential'[k].cert = registry[r].id
      BY <1>6, <3>1 DEF AdmissionInv, AdmittedAsIssued
    <3> QED BY <3>1, <3>2, <3>3 DEF AdmissionInv, AdmittedAsIssued
  <2> QED BY <2>1, <2>2
<1> QED BY <1>5, <1>7, <1>11, <1>12 DEF AdmissionInv

LEMMA AdmissionKeeps ==
  ASSUME ReplayTypeOK, AdmissionVarsTyped, AdmissionInv, [Next]_vars
  PROVE  AdmissionVarsTyped' /\ AdmissionInv'
<1>1. CASE UNCHANGED <<study, tls, credential, says, admitting, registry>>
  BY <1>1, NothingWritten DEF AdmissionVarsTyped, AdmissionInv
<1>2. CASE Issues
  BY <1>2, IssuesKeeps
<1>3. CASE (\E k \in KeyId : RevokeRuntimeCredential(k)) \/ \E h \in Hello : Composes(h)
  BY <1>3, RevokeKeeps, ComposesKeeps
<1>4. CASE \E g \in Handler : VerifyHello(g) \/ \E h \in Hello : VerifyBareHello(g, h)
  BY <1>4, VerifyKeeps, VerifyBareKeeps
<1>5. CASE \E g \in Handler : Registers(g) \/ RegistrationFails(g)
  BY <1>5, RegistersKeeps, RegistrationFailsKeeps
<1>6. CASE \E g \in Handler : \/ \E i \in Instance, h \in Hello : HelloArrives(g, i, h)
                              \/ HelloRefused(g) \/ HelloReplayed(g)
  BY <1>1, <1>6 DEF HelloArrives, HelloRefused, HelloReplayed, admissionVars
<1>7. CASE (\E i \in Instance : ProcessRestarts(i)) \/ ClockTicks \/ UNCHANGED vars
  BY <1>1, <1>7 DEF ProcessRestarts, ClockTicks, admissionVars, vars
<1> QED BY <1>2, <1>3, <1>4, <1>5, <1>6, <1>7 DEF Next

\* The rows of the credentials and of the registry, and the handlers between them, are
\* as the code writes them.
THEOREM AdmissionTyped == Spec => []AdmissionTypeOK
<1> DEFINE Inv == AdmissionVarsTyped /\ AdmissionInv
<1>1. AdmissionInit => Inv
  BY AdmissionInitTyped
<1>2. ReplayTypeOK /\ Inv /\ [Next]_vars => Inv'
  BY AdmissionKeeps
<1>3. ReplayTypeOK /\ Inv => AdmissionTypeOK
  BY DEF AdmissionTypeOK, AdmissionVarsTyped
<1> HIDE DEF Inv
<1> QED BY <1>1, <1>2, <1>3, AdmissionPassesOnce, PTL DEF Spec

\* A runtime is registered as what its credential, and where they are required its
\* certificate, was issued for (verifyHello, validatePeerIdentity, upsertRuntime).
THEOREM AdmissionAsIssued == Spec => []AdmittedAsIssued
<1> DEFINE Inv == AdmissionVarsTyped /\ AdmissionInv
<1>1. AdmissionInit => Inv
  BY AdmissionInitTyped
<1>2. ReplayTypeOK /\ Inv /\ [Next]_vars => Inv'
  BY AdmissionKeeps
<1>3. Inv => AdmittedAsIssued
  BY DEF AdmissionInv
<1> HIDE DEF Inv
<1> QED BY <1>1, <1>2, <1>3, AdmissionPassesOnce, PTL DEF Spec
=============================================================================
