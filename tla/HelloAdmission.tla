--------------------------- MODULE HelloAdmission ---------------------------
(***************************************************************************)
(* Who is let in as which runtime.  The control plane issues credentials   *)
(* to users: a key pair, a row with the public key, and a client           *)
(* certificate with an identity.  A runtime is given such a bundle, opens  *)
(* a stream with the certificate and says HELLO, signed with the key.      *)
(* verifyHello, validatePeerIdentity and the registration compare what the *)
(* runtime says with the row and with the certificate.                     *)
(*                                                                         *)
(* The runtimes are external: they are configured with files of more than  *)
(* one bundle, with ids that belong to none, or with clocks that are off.  *)
(* What becomes of a runtime once its row is written is RuntimeChannel.    *)
(***************************************************************************)
EXTENDS ReplayCache

CONSTANTS
    User,      \* user ids
    Name,      \* runtime ids that the control plane did not derive from a key
    MaxKey,    \* bound: credentials issued to users or hosted runtimes
    AllowBare, \* AuthConfig.AllowBareRuntime and DebugBareRuntimeEnabled
    Address    \* whether a caller's address is in BareBootstrapIPAllowlist

ASSUME AdmissionAssumption ==
    /\ MaxKey \in Nat \ {0}
    /\ AllowBare \in BOOLEAN
    /\ Address \subseteq BOOLEAN

VARIABLES
    study,      \* bound: a behaviour is about who says HELLO, or about when
    tls,        \* the listener requires client certificates
    credential, \* runtime_credentials and the certificates, by key id
    says,       \* what each HELLO says
    admitting,  \* per handler: the runtime it is about to register
    registry    \* runtime_registry, by runtime id

admissionVars == <<study, tls, credential, says, admitting, registry>>
vars == <<replayVars, admissionVars>>

-----------------------------------------------------------------------------
(* Ids *)

\* Key ids are drawn at random; that of a bare credential is made from its runtime id,
\* and the runtime id of a self-hosted one from its key.
Drawn(n) == <<"key", n>>
BareKey(r) == <<"bare", r[2]>>
SelfHosted(k) == <<"selfhosted", k[2]>>
Named(n) == <<"named", n>>
Empty == <<"", 0>>

KeyId == {Drawn(n) : n \in 1 .. MaxKey} \cup {BareKey(Named(n)) : n \in Name}
RuntimeId == {SelfHosted(Drawn(n)) : n \in 1 .. MaxKey} \cup {Named(n) : n \in Name}

Role == {"executor", "debugger"}

\* An identity, as a certificate carries it and as a runtime is registered.
Identity(r, u, source, role) == [runtime |-> r, user |-> u, source |-> source, role |-> role]

Source == {"self_hosted", "hosted", "bare"}
IdentityType == [runtime : RuntimeId, user : User, source : Source, role : Role]

ASSUME IdentityAssumption == None \notin IdentityType

NoCredential == [status |-> "none", by |-> None, cert |-> None]
NoRuntime == [key |-> None, id |-> None, peer |-> None]
NotAdmitting == NoRuntime
Silent == [source |-> "", key |-> Empty, signed |-> Empty, runtime |-> Empty, user |-> None]

\* GetRuntimeCredential finds it.
Issued(k) == k \in KeyId /\ credential[k] # NoCredential

\* A credential as it is stored, with the certificate that was signed for it.
Signed(identity) == [status |-> "downloaded", by |-> None, cert |-> identity]

-----------------------------------------------------------------------------
\* A study of when starts with a credential and HELLOs that are as issued, and ends at
\* the cache; in that of who all is still to come, and time stands still.
BundleOf(k, u) == [source |-> "", key |-> k, signed |-> k, runtime |-> Empty, user |-> u]

AdmissionInit ==
    /\ ReplayInit
    /\ study \in {"who", "when"}
    /\ tls \in IF study = "who" THEN BOOLEAN ELSE {FALSE}
    /\ admitting = [g \in Handler |-> NotAdmitting]
    /\ registry = [r \in RuntimeId |-> NoRuntime]
    /\ IF study = "who"
       THEN /\ issued = [h \in Hello |-> now]
            /\ credential = [k \in KeyId |-> NoCredential]
            /\ says = [h \in Hello |-> Silent]
       ELSE \E u \in User :
                /\ credential = [k \in KeyId |->
                       IF k = Drawn(1)
                       THEN Signed(Identity(SelfHosted(k), u, "self_hosted", "executor"))
                       ELSE NoCredential]
                /\ says = [h \in Hello |-> BundleOf(Drawn(1), u)]

-----------------------------------------------------------------------------
(* Credentials *)

\* CreateRuntimeCredential refuses a key id that exists; a certificate that was signed
\* for a row that could not be stored is not handed out.
CreateRuntimeCredential(k, identity) ==
    /\ study = "who"
    /\ says = [h \in Hello |-> Silent]
    /\ credential[k] = NoCredential
    /\ credential' = [credential EXCEPT ![k] = Signed(identity)]
    /\ UNCHANGED <<study, tls, says, admitting, registry, replayVars>>

\* Bound: keys are drawn in their order.
NextKey(k) == \E n \in 1 .. MaxKey :
    /\ k = Drawn(n)
    /\ \A m \in 1 .. n - 1 : Issued(Drawn(m))

Issue(k, u, role) ==
    /\ NextKey(k)
    /\ CreateRuntimeCredential(k, Identity(SelfHosted(k), u, "self_hosted", role))

IssueHostedInternalRuntimeCredential(k, u, r) ==
    /\ NextKey(k)
    /\ CreateRuntimeCredential(k, Identity(r, u, "hosted", "executor"))

\* The certificate is for the CSR of the caller; nothing is signed with the key pair,
\* so the row has no public key.
BootstrapBareRuntimeCertificate(u, r, allowed) ==
    /\ AllowBare
    /\ allowed
    /\ CreateRuntimeCredential(BareKey(r), Identity(r, u, "bare", "executor"))

\* The transaction of Revoke; what follows it is RuntimeChannel.
RevokeRuntimeCredential(k) ==
    /\ study = "who"
    /\ Issued(k)
    /\ credential' = [credential EXCEPT ![k].status = "revoked"]
    /\ UNCHANGED <<study, tls, says, admitting, registry, replayVars>>

-----------------------------------------------------------------------------
(* A runtime makes up its HELLO *)

\* The files it has are of credentials that were issued, if not of one and the same.
Anything ==
    LET keys == {k \in KeyId : Issued(k)}
    IN  [source : Source \cup {""}, key : keys, signed : keys,
         runtime : RuntimeId \cup {Empty}, user : User]

\* Bound: one HELLO is made up, after the credentials it may name were issued.
Composes(h) ==
    /\ study = "who"
    /\ says = [o \in Hello |-> Silent]
    /\ \E hello \in Anything : says' = [says EXCEPT ![h] = hello]
    /\ UNCHANGED <<study, tls, credential, admitting, registry, replayVars>>

-----------------------------------------------------------------------------
(* verifyHello *)

Usable(k) == Issued(k) /\ credential[k].status = "downloaded"

\* What is checked before the cache is asked: the credential, and the signature against
\* its public key, which a bare one has not got.
SignedByUsable(s) ==
    /\ Usable(s.key)
    /\ s.key[1] = "key"
    /\ s.signed = s.key

\* The user, the source and the role are those of the credential; the runtime id is
\* what the HELLO says, as long as no certificate contradicts it.
Claimed(s) ==
    LET cert == credential[s.key].cert
    IN  Identity(IF s.runtime = Empty THEN SelfHosted(s.key) ELSE s.runtime,
                 cert.user, cert.source, cert.role)

\* A bare runtime is what it says; no credential is consulted.
ClaimedBare(s) == Identity(s.runtime, s.user, "bare", "executor")

\* What the certificates a runtime can be configured with say of it.
Certificates == {credential[k].cert : k \in {k \in KeyId : Issued(k)}}

\* With TLS the listener requires a certificate; without, a stream has no peer identity.
Peers == IF tls THEN Certificates ELSE {None}

\* Faulty: the role of the certificate is not compared.
PeerMatchesExceptRole(id, peer) ==
    peer # None => /\ peer.runtime = id.runtime
                   /\ peer.user = id.user
                   /\ peer.source = id.source

\* validatePeerIdentity: the stream is of the runtime it claims to be.
PeerMatches(id, peer) ==
    peer # None => /\ peer.runtime = id.runtime
                   /\ peer.user = id.user
                   /\ peer.source = id.source
                   /\ peer.role = id.role

\* The peer's identity is compared with what was verified.
AdmitsOrNot(g, h, key, id) ==
    \E peer \in Peers :
        admitting' = IF PeerMatches(id, peer)
                     THEN [admitting EXCEPT ![g] = [key |-> key, id |-> id, peer |-> peer]]
                     ELSE admitting

Idle(g) == verifying[g] = NotVerifying /\ admitting[g] = NotAdmitting

HelloArrives(g, i, h) ==
    /\ Idle(g)
    /\ says[h] # Silent /\ says[h].source # "bare"
    /\ Begins(g, i, h)
    /\ UNCHANGED admissionVars

\* The credential or the signature is not right, or the row cannot be read.
HelloRefused(g) ==
    /\ Abandons(g)
    /\ UNCHANGED <<study, tls, credential, says, admitting, registry>>

HelloReplayed(g) ==
    /\ verifying[g] # NotVerifying
    /\ SignedByUsable(says[verifying[g].hello])
    /\ Replayed(g)
    /\ UNCHANGED <<study, tls, credential, says, admitting, registry>>

\* The nonce is used up even if the source is found to be wrong afterwards (or the
\* name, which is not modelled).
VerifyHello(g) ==
    LET h == verifying[g].hello
        s == says[h]
    IN  /\ verifying[g] # NotVerifying
        /\ SignedByUsable(s)
        /\ Passes(g)
        /\ IF study = "who" /\ s.source \in {"", credential[s.key].cert.source}
           THEN AdmitsOrNot(g, h, s.key, Claimed(s))
           ELSE UNCHANGED admitting
        /\ UNCHANGED <<study, tls, credential, says, registry>>

\* No nonce, no signature and no credential: the debug gate and the certificate only.
\* It need not name a time.
VerifyBareHello(g, h) ==
    /\ Idle(g)
    /\ says[h] # Silent /\ says[h].source = "bare"
    /\ AllowBare /\ says[h].runtime # Empty
    /\ AdmitsOrNot(g, h, None, ClaimedBare(says[h]))
    /\ UNCHANGED <<study, tls, credential, says, registry, replayVars>>

-----------------------------------------------------------------------------
(* upsertRuntime *)

\* The keyed upserts consume the credential in the same transaction, after they have
\* compared its status, owner, role and source once more.
KeyedAdmitted(key, id) ==
    /\ Usable(key)
    /\ registry[id.runtime] = NoRuntime
    /\ LET cert == credential[key].cert
       IN  cert.user = id.user /\ cert.role = id.role /\ cert.source = id.source

\* A bare row is replaced by one of the same user.
BareAdmitted(id) ==
    LET row == registry[id.runtime]
    IN  row # NoRuntime => row.key = None /\ row.id.user = id.user

Registers(g) ==
    LET a == admitting[g]
    IN  /\ a # NotAdmitting
        /\ IF a.key = None THEN BareAdmitted(a.id) ELSE KeyedAdmitted(a.key, a.id)
        /\ registry' = [registry EXCEPT ![a.id.runtime] =
               [key |-> a.key, id |-> a.id, peer |-> a.peer]]
        /\ credential' = IF a.key = None THEN credential
                         ELSE [credential EXCEPT ![a.key].status = "consumed",
                                                 ![a.key].by = a.id.runtime]
        /\ admitting' = [admitting EXCEPT ![g] = NotAdmitting]
        /\ UNCHANGED <<study, tls, says, replayVars>>

\* ErrConflict, for one of these reasons or because the name is taken or the user has
\* a debugger already (not modelled: rows end, and names differ).
RegistrationFails(g) ==
    LET a == admitting[g]
    IN  /\ a # NotAdmitting
        /\ admitting' = [admitting EXCEPT ![g] = NotAdmitting]
        /\ UNCHANGED <<study, tls, credential, says, registry, replayVars>>

-----------------------------------------------------------------------------
\* The environment of the cache: the clock, and restarts, which end the handlers too.
ProcessRestarts(i) ==
    /\ study = "when"
    /\ Restarts(i)
    /\ UNCHANGED admissionVars

ClockTicks ==
    /\ study = "when"
    /\ TimePasses
    /\ UNCHANGED admissionVars

Issues ==
    \/ \E k \in KeyId, u \in User : \/ \E role \in Role : Issue(k, u, role)
                                   \/ \E n \in Name :
                                        IssueHostedInternalRuntimeCredential(k, u, Named(n))
    \/ \E u \in User, n \in Name, allowed \in Address :
           BootstrapBareRuntimeCertificate(u, Named(n), allowed)

Next ==
    \/ Issues
    \/ \E k \in KeyId : RevokeRuntimeCredential(k)
    \/ \E h \in Hello : Composes(h)
    \/ \E g \in Handler, h \in Hello :
           \/ \E i \in Instance : HelloArrives(g, i, h)
           \/ VerifyBareHello(g, h)
    \/ \E g \in Handler : \/ HelloRefused(g) \/ HelloReplayed(g) \/ VerifyHello(g)
                          \/ Registers(g) \/ RegistrationFails(g)
    \/ \E i \in Instance : ProcessRestarts(i)
    \/ ClockTicks

Spec == AdmissionInit /\ [][Next]_vars

-----------------------------------------------------------------------------
CredentialType ==
    [status : {"downloaded", "consumed", "revoked"}, by : RuntimeId \cup {None},
     cert : IdentityType]

HelloType ==
    [source : Source \cup {""}, key : KeyId \cup {Empty}, signed : KeyId \cup {Empty},
     runtime : RuntimeId \cup {Empty}, user : User \cup {None}]

\* A runtime that is about to be registered, and one that is.
RowType ==
    [key : KeyId \cup {None},
     id : [runtime : RuntimeId, user : User \cup {None}, source : Source, role : Role],
     peer : IdentityType \cup {None}]

AdmissionTypeOK ==
    /\ ReplayTypeOK
    /\ study \in {"who", "when"}
    /\ tls \in BOOLEAN
    /\ credential \in [KeyId -> CredentialType \cup {NoCredential}]
    /\ says \in [Hello -> HelloType]
    /\ admitting \in [Handler -> RowType \cup {NoRuntime}]
    /\ registry \in [RuntimeId -> RowType \cup {NoRuntime}]

\* A runtime is registered as what the control plane issued: the user, role and source
\* of its row are those of the credential it consumed, and, where certificates are
\* required, the row is what the certificate of its stream says, the runtime id
\* included.  (The certificate may be of another credential, of the same user.)
\* Without certificates, the runtime id of a keyed runtime is its own word.
AdmittedAsIssued ==
    \A r \in RuntimeId : registry[r] # NoRuntime =>
        LET row == registry[r]
        IN  /\ row.id.runtime = r
            /\ row.key # None =>
                   LET c == credential[row.key]
                   IN  /\ c.by = r
                       /\ Identity(r, c.cert.user, c.cert.source, c.cert.role) = row.id
            /\ tls => \E k \in KeyId : Issued(k) /\ credential[k].cert = row.id
=============================================================================
