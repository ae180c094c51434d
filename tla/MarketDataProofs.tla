-------------------------- MODULE MarketDataProofs --------------------------
(***************************************************************************)
(* The market-data tables: a writer lease stands for as long as its holder *)
(* was told; a user has one open request; and the row of a stream says     *)
(* what the tables say unless a commit overtook its recompute.  The        *)
(* coverage index implements the set of covered ticks, whatever is merged  *)
(* at the same time, and its rows stay apart.  What a caller is told of    *)
(* the candles is vouched for and misses nothing, whatever comes in while  *)
(* its answer is put together; that part is in this order: the grid and    *)
(* the years, spans and their sorting, the sweep and the join along a      *)
(* sorted sequence, coverage.go, pages, the steps of a query.              *)
(***************************************************************************)
EXTENDS MarketDataControl, Coverage, FiniteSetTheorems, WellFoundedInduction, TLAPS

-----------------------------------------------------------------------------
\* Scraper w may go by lease id of key k until then: it is the row's, or is given up.
Stands(w, k, id, until) ==
    until > now /\ id \notin given[w] =>
        /\ writer[k].owner = w
        /\ writer[k].id = id
        /\ writer[k].until >= until

AnswersStand == \A m \in waiting : m.op = "answer" => Stands(m.to, m.key, m.id, m.until)

\* A release on its way is of a lease its scraper has given up.
ReleasesGiven == \A m \in waiting : m.op = "release" => m.id \in given[m.from]

\* No row outlasts what its owner asks for: a renewal does not bring it forward.
RowsBounded ==
    \A k \in WriterKey : writer[k].owner # "nobody" =>
        writer[k].until <= now + LeaseTTL(AskedTTL[writer[k].owner])

\* HeldLeaseStands alone is not inductive: what a scraper holds was in an answer, what
\* frees a row was in a release, and a renewal must not shorten.
WriterInv == HeldLeaseStands /\ AnswersStand /\ ReleasesGiven /\ RowsBounded

LEMMA LeaseTTLTyped ==
  ASSUME NEW w \in Scraper
  PROVE  LeaseTTL(AskedTTL[w]) \in Nat
<1> DEFINE asked == AskedTTL[w]
<1>1. asked \in Nat
  BY WriterAssumption
<1>2. MinTTL \in Nat /\ MaxTTL \in Nat /\ DefaultTTL \in Nat
  <2>1. MinTTL \in Nat /\ MaxTTL \in Nat /\ DefaultTTL \in MinTTL .. MaxTTL
    BY WriterAssumption
  <2> QED BY <2>1
<1> HIDE DEF asked
<1>3. LeaseTTL(asked) \in Nat
  <2>1. CASE asked = 0
    BY <1>1, <1>2, <2>1 DEF LeaseTTL
  <2>2. CASE asked # 0 /\ asked \in 1 .. MinTTL
    BY <1>1, <1>2, <2>2 DEF LeaseTTL
  <2>3. CASE asked # 0 /\ asked \notin 1 .. MinTTL /\ asked > MaxTTL
    BY <1>1, <1>2, <2>3 DEF LeaseTTL
  <2>4. CASE asked # 0 /\ asked \notin 1 .. MinTTL /\ ~(asked > MaxTTL)
    BY <1>1, <1>2, <2>4 DEF LeaseTTL
  <2> QED BY <2>1, <2>2, <2>3, <2>4
<1> QED BY <1>3 DEF asked

LEMMA NobodyIsNoScraper == \A w \in Scraper : w # "nobody"
  BY WriterAssumption

LEMMA HeldStands ==
  HeldLeaseStands <=> \A w \in Scraper, k \in WriterKey :
                          Stands(w, k, held[w][k].id, held[w][k].until)
  BY DEF HeldLeaseStands, Stands

LEMMA WriterInitTyped == WriterInit => WriterTypeOK /\ WriterInv
<1> SUFFICES ASSUME WriterInit PROVE WriterTypeOK /\ WriterInv
  OBVIOUS
<1>1. WriterTypeOK
  BY DEF WriterInit, WriterTypeOK, NoId, NoWriter, NotHeld
<1>2. WriterInv
  BY DEF WriterInit, WriterInv, HeldLeaseStands, AnswersStand, ReleasesGiven, RowsBounded,
     NoWriter, NotHeld
<1> QED BY <1>1, <1>2

-----------------------------------------------------------------------------
(* What is on its way *)

\* Nothing of the invariant goes with the rows and the clock alone.
LEMMA StandsKept ==
  ASSUME UNCHANGED <<now, writer>>, NEW w \in Scraper, NEW k, NEW id, NEW until,
         given[w] \subseteq given'[w], Stands(w, k, id, until)
  PROVE  Stands(w, k, id, until)'
  BY DEF Stands

LEMMA RowsBoundedKept ==
  ASSUME UNCHANGED <<now, writer>>, RowsBounded
  PROVE  RowsBounded'
  BY DEF RowsBounded

LEMMA AsksForLeaseKeeps ==
  ASSUME WriterTypeOK, WriterInv, NEW w \in Scraper, NEW k \in AskedKey, AsksForLease(w, k)
  PROVE  WriterTypeOK' /\ WriterInv'
<1> DEFINE m == [op |-> "renew", from |-> w, key |-> k]
<1>1. waiting' = waiting \cup {m} /\ UNCHANGED <<now, drawn, writer, held, given>>
  BY DEF AsksForLease, Asks
<1>2. m \in Message
  BY DEF Message
<1>3. WriterTypeOK'
  BY <1>1, <1>2 DEF WriterTypeOK
<1>4. HeldLeaseStands' /\ RowsBounded'
  BY <1>1 DEF WriterInv, HeldLeaseStands, RowsBounded
<1>5. AnswersStand' /\ ReleasesGiven'
  BY <1>1 DEF WriterInv, AnswersStand, ReleasesGiven, Stands
<1> QED BY <1>3, <1>4, <1>5 DEF WriterInv

LEMMA AsksForReleaseKeeps ==
  ASSUME WriterTypeOK, WriterInv, NEW w \in Scraper, NEW k \in WriterKey, AsksForRelease(w, k)
  PROVE  WriterTypeOK' /\ WriterInv'
<1> DEFINE m == [op |-> "release", from |-> w, id |-> held[w][k].id]
<1>1. /\ waiting' = waiting \cup {m}
      /\ held' = [held EXCEPT ![w][k] = NotHeld]
      /\ given' = [given EXCEPT ![w] = @ \cup {held[w][k].id}]
      /\ UNCHANGED <<now, drawn, writer>>
  BY DEF AsksForRelease, Asks
<1>2. held[w][k].id \in Nat /\ m \in Message
  BY DEF Message, WriterTypeOK
<1>3. NotHeld \in [id : Nat, until : Nat]
  BY DEF NotHeld, NoId
<1>4. WriterTypeOK'
  BY <1>1, <1>2, <1>3 DEF WriterTypeOK
<1>5. \A v \in Scraper : given[v] \subseteq given'[v]
  BY <1>1 DEF WriterTypeOK
<1>6. HeldLeaseStands'
  <2> SUFFICES ASSUME NEW v \in Scraper, NEW l \in WriterKey
               PROVE  Stands(v, l, held[v][l].id, held[v][l].until)'
    BY DEF HeldLeaseStands, Stands
  <2>1. CASE v = w /\ l = k
    <3>1. held'[v][l].until = 0
      BY <1>1, <2>1 DEF WriterTypeOK, NotHeld
    <3> QED BY <1>1, <3>1 DEF Stands, WriterTypeOK
  <2>2. CASE ~(v = w /\ l = k)
    <3>1. held'[v][l] = held[v][l]
      BY <1>1, <2>2 DEF WriterTypeOK
    <3> QED BY <1>1, <1>5, <3>1 DEF WriterInv, HeldLeaseStands, Stands
  <2> QED BY <2>1, <2>2
<1>7. AnswersStand'
  <2> SUFFICES ASSUME NEW n \in waiting, n.op = "answer"
               PROVE  Stands(n.to, n.key, n.id, n.until)'
    BY <1>1 DEF AnswersStand
  <2>1. n.to \in Scraper
    BY DEF WriterTypeOK, Message
  <2> QED BY <1>1, <1>5, <2>1 DEF WriterInv, AnswersStand, Stands
<1>8. ReleasesGiven'
  <2> SUFFICES ASSUME NEW n \in waiting', n.op = "release"
               PROVE  n.id \in given'[n.from]
    BY DEF ReleasesGiven
  <2>1. CASE n = m
    BY <1>1, <2>1 DEF WriterTypeOK
  <2>2. CASE n \in waiting
    <3>1. n.from \in Scraper
      BY <2>2 DEF WriterTypeOK, Message
    <3> QED BY <1>5, <2>2, <3>1 DEF WriterInv, ReleasesGiven
  <2> QED BY <1>1, <2>1, <2>2
<1> QED BY <1>1, <1>4, <1>6, <1>7, <1>8, RowsBoundedKept DEF WriterInv

LEMMA HearsKeeps ==
  ASSUME WriterTypeOK, WriterInv, NEW m \in waiting, Hears(m)
  PROVE  WriterTypeOK' /\ WriterInv'
<1>1. /\ m.op = "answer"
      /\ held' = [held EXCEPT ![m.to][m.key] = [id |-> m.id, until |-> m.until]]
      /\ waiting' = waiting \ {m}
      /\ UNCHANGED <<now, drawn, writer, given>>
  BY DEF Hears
<1>2. m.to \in Scraper /\ m.key \in WriterKey /\ m.id \in Nat /\ m.until \in Nat
  BY <1>1 DEF WriterTypeOK, Message
<1>3. WriterTypeOK'
  BY <1>1, <1>2 DEF WriterTypeOK
<1>4. HeldLeaseStands'
  <2> SUFFICES ASSUME NEW w \in Scraper, NEW k \in WriterKey
               PROVE  Stands(w, k, held[w][k].id, held[w][k].until)'
    BY DEF HeldLeaseStands, Stands
  <2>1. CASE w = m.to /\ k = m.key
    <3>1. held'[w][k] = [id |-> m.id, until |-> m.until]
      BY <1>1, <1>2, <2>1 DEF WriterTypeOK
    <3>2. Stands(w, k, m.id, m.until)
      BY <1>1, <2>1 DEF WriterInv, AnswersStand
    <3> QED BY <1>1, <3>1, <3>2 DEF Stands
  <2>2. CASE ~(w = m.to /\ k = m.key)
    <3>1. held'[w][k] = held[w][k]
      BY <1>1, <1>2, <2>2 DEF WriterTypeOK
    <3> QED BY <1>1, <3>1 DEF WriterInv, HeldLeaseStands, Stands
  <2> QED BY <2>1, <2>2
<1>5. AnswersStand' /\ ReleasesGiven'
  BY <1>1 DEF WriterInv, AnswersStand, ReleasesGiven, Stands
<1> QED BY <1>1, <1>3, <1>4, <1>5, RowsBoundedKept DEF WriterInv

LEMMA LostKeeps ==
  ASSUME WriterTypeOK, WriterInv, NEW m \in waiting, Lost(m)
  PROVE  WriterTypeOK' /\ WriterInv'
<1>1. waiting' = waiting \ {m} /\ UNCHANGED <<now, drawn, writer, held, given>>
  BY DEF Lost
<1>2. WriterTypeOK'
  BY <1>1 DEF WriterTypeOK
<1>3. HeldLeaseStands' /\ RowsBounded'
  BY <1>1 DEF WriterInv, HeldLeaseStands, RowsBounded
<1>4. AnswersStand' /\ ReleasesGiven'
  BY <1>1 DEF WriterInv, AnswersStand, ReleasesGiven, Stands
<1> QED BY <1>2, <1>3, <1>4 DEF WriterInv

-----------------------------------------------------------------------------
(* What the rows become *)

\* A lease is granted to another only when the row has run out, and then nobody may go
\* by it any more; a renewal keeps the id and never brings the expiry forward, because
\* a scraper asks for one ttl all the time.
LEMMA GrantKeeps ==
  ASSUME WriterTypeOK, WriterInv, NEW m \in waiting, CreateOrRenewMarketDataWriterLease(m)
  PROVE  WriterTypeOK' /\ WriterInv'
<1> DEFINE k == Normalised(m.key)
           w == m.from
           id == RenewedId(writer[k], w)
           until == now + LeaseTTL(AskedTTL[w])
           answer == [op |-> "answer", to |-> w, key |-> k, id |-> id, until |-> until]
<1>1. /\ m.op = "renew" /\ ValidWriterKey(m.key)
      /\ Grants(writer[k], w)
      /\ writer' = [writer EXCEPT ![k] = [id |-> id, owner |-> w, until |-> until]]
      /\ drawn' = IF id > drawn THEN id ELSE drawn
      /\ waiting' = (waiting \ {m}) \cup {answer}
      /\ UNCHANGED <<now, held, given>>
  BY DEF CreateOrRenewMarketDataWriterLease
<1>2. w \in Scraper /\ k \in WriterKey
  BY <1>1 DEF WriterTypeOK, Message, WriterKey
<1>3. LeaseTTL(AskedTTL[w]) \in Nat
  BY <1>2, LeaseTTLTyped
<1>4. writer[k] \in [id : Nat, owner : Scraper \cup {"nobody"}, until : Nat]
  BY <1>2 DEF WriterTypeOK
<1>5. id \in Nat /\ until \in Nat /\ answer \in Message
  BY <1>2, <1>3, <1>4 DEF RenewedId, WriterTypeOK, Message
<1>6. WriterTypeOK'
  BY <1>1, <1>2, <1>5 DEF WriterTypeOK
<1>7. writer'[k] = [id |-> id, owner |-> w, until |-> until]
  BY <1>1, <1>2 DEF WriterTypeOK
<1>8. ASSUME NEW v \in Scraper, NEW l \in WriterKey, NEW i \in Nat, NEW t \in Nat,
             Stands(v, l, i, t)
      PROVE  Stands(v, l, i, t)'
  <2>1. CASE l # k
    BY <1>1, <1>8, <2>1 DEF Stands, WriterTypeOK
  <2>2. CASE l = k
    <3> SUFFICES ASSUME t > now, i \notin given[v]
                 PROVE  writer'[k].owner = v /\ writer'[k].id = i /\ writer'[k].until >= t
      BY <1>1, <2>2 DEF Stands
    <3>1. writer[k].owner = v /\ writer[k].id = i /\ writer[k].until >= t
      BY <1>8, <2>2 DEF Stands
    <3>2. v = w
      <4>1. writer[k] # NoWriter
        BY <1>8, <3>1, NobodyIsNoScraper DEF NoWriter
      <4>2. ~(writer[k].until <= now)
        BY <1>4, <1>8, <3>1 DEF WriterTypeOK
      <4> QED BY <1>1, <3>1, <4>1, <4>2 DEF Grants
    <3>3. until >= writer[k].until
      BY <1>2, <3>1, <3>2, NobodyIsNoScraper DEF WriterInv, RowsBounded
    <3> QED BY <1>4, <1>5, <1>7, <3>1, <3>2, <3>3 DEF RenewedId
  <2> QED BY <2>1, <2>2
<1>9. HeldLeaseStands'
  <2> SUFFICES ASSUME NEW v \in Scraper, NEW l \in WriterKey
               PROVE  Stands(v, l, held[v][l].id, held[v][l].until)'
    BY DEF HeldLeaseStands, Stands
  <2>1. held[v][l].id \in Nat /\ held[v][l].until \in Nat
    BY DEF WriterTypeOK
  <2>2. Stands(v, l, held[v][l].id, held[v][l].until)
    BY HeldStands DEF WriterInv
  <2>3. Stands(v, l, held'[v][l].id, held'[v][l].until)
    BY <1>1, <2>2
  <2> QED BY <1>1, <1>8, <2>1, <2>2 DEF Stands
<1>10. AnswersStand'
  <2> SUFFICES ASSUME NEW n \in waiting', n.op = "answer"
               PROVE  Stands(n.to, n.key, n.id, n.until)'
    BY DEF AnswersStand
  <2>1. CASE n = answer
    BY <1>5, <1>7, <2>1 DEF Stands
  <2>2. CASE n \in waiting
    <3>1. n.to \in Scraper /\ n.key \in WriterKey /\ n.id \in Nat /\ n.until \in Nat
      BY <2>2 DEF WriterTypeOK, Message
    <3> QED BY <1>8, <2>2, <3>1 DEF WriterInv, AnswersStand
  <2> QED BY <1>1, <2>1, <2>2
<1>11. ReleasesGiven'
  BY <1>1 DEF WriterInv, ReleasesGiven
<1>12. RowsBounded'
  <2> SUFFICES ASSUME NEW l \in WriterKey, writer'[l].owner # "nobody"
               PROVE  writer'[l].until <= now + LeaseTTL(AskedTTL[writer'[l].owner])
    BY <1>1 DEF RowsBounded
  <2>1. CASE l = k
    BY <1>5, <1>7, <2>1
  <2>2. CASE l # k
    BY <1>1, <2>2 DEF WriterInv, RowsBounded, WriterTypeOK
  <2> QED BY <2>1, <2>2
<1> QED BY <1>6, <1>9, <1>10, <1>11, <1>12 DEF WriterInv

\* A release frees no row but the one whose lease its scraper has given up.
LEMMA ReleaseKeeps ==
  ASSUME WriterTypeOK, WriterInv, NEW m \in waiting, ReleaseMarketDataWriterLease(m)
  PROVE  WriterTypeOK' /\ WriterInv'
<1>1. /\ m.op = "release"
      /\ writer' = [k \in WriterKey |-> IF Releases(m, k) THEN NoWriter ELSE writer[k]]
      /\ waiting' = waiting \ {m}
      /\ UNCHANGED <<now, drawn, held, given>>
  BY DEF ReleaseMarketDataWriterLease
<1>2. NoWriter \in [id : Nat, owner : Scraper \cup {"nobody"}, until : Nat]
  BY DEF NoWriter, NoId
<1>3. WriterTypeOK'
  BY <1>1, <1>2 DEF WriterTypeOK
<1>4. m.id \in given[m.from]
  BY <1>1 DEF WriterInv, ReleasesGiven
<1>5. ASSUME NEW v \in Scraper, NEW l \in WriterKey, NEW i \in Nat, NEW t \in Nat,
             Stands(v, l, i, t)
      PROVE  Stands(v, l, i, t)'
  <2>1. CASE Releases(m, l)
    BY <1>1, <1>4, <1>5, <2>1 DEF Stands, Releases
  <2>2. CASE ~Releases(m, l)
    BY <1>1, <1>5, <2>2 DEF Stands
  <2> QED BY <2>1, <2>2
<1>6. HeldLeaseStands'
  <2> SUFFICES ASSUME NEW v \in Scraper, NEW l \in WriterKey
               PROVE  Stands(v, l, held[v][l].id, held[v][l].until)'
    BY DEF HeldLeaseStands, Stands
  <2>1. held[v][l].id \in Nat /\ held[v][l].until \in Nat
    BY DEF WriterTypeOK
  <2>2. Stands(v, l, held[v][l].id, held[v][l].until)
    BY HeldStands DEF WriterInv
  <2> QED BY <1>1, <1>5, <2>1, <2>2 DEF Stands
<1>7. AnswersStand'
  <2> SUFFICES ASSUME NEW n \in waiting, n.op = "answer"
               PROVE  Stands(n.to, n.key, n.id, n.until)'
    BY <1>1 DEF AnswersStand
  <2>1. n.to \in Scraper /\ n.key \in WriterKey /\ n.id \in Nat /\ n.until \in Nat
    BY DEF WriterTypeOK, Message
  <2> QED BY <1>5, <2>1 DEF WriterInv, AnswersStand
<1>8. ReleasesGiven'
  BY <1>1 DEF WriterInv, ReleasesGiven
<1>9. RowsBounded'
  BY <1>1 DEF WriterInv, RowsBounded, NoWriter
<1> QED BY <1>3, <1>6, <1>7, <1>8, <1>9 DEF WriterInv

LEMMA TimePassesKeeps ==
  ASSUME WriterTypeOK, WriterInv, TimePasses
  PROVE  WriterTypeOK' /\ WriterInv'
<1>1. now' = now + 1 /\ UNCHANGED <<drawn, writer, waiting, held, given>>
  BY DEF TimePasses
<1>2. WriterTypeOK'
  BY <1>1 DEF WriterTypeOK
<1>3. ASSUME NEW v \in Scraper, NEW l \in WriterKey, NEW i \in Nat, NEW t \in Nat,
             Stands(v, l, i, t)
      PROVE  Stands(v, l, i, t)'
  BY <1>1, <1>3 DEF Stands, WriterTypeOK
<1>4. HeldLeaseStands'
  <2> SUFFICES ASSUME NEW v \in Scraper, NEW l \in WriterKey
               PROVE  Stands(v, l, held[v][l].id, held[v][l].until)'
    BY DEF HeldLeaseStands, Stands
  <2>1. held[v][l].id \in Nat /\ held[v][l].until \in Nat
    BY DEF WriterTypeOK
  <2>2. Stands(v, l, held[v][l].id, held[v][l].until)
    BY HeldStands DEF WriterInv
  <2> QED BY <1>1, <1>3, <2>1, <2>2 DEF Stands
<1>5. AnswersStand'
  <2> SUFFICES ASSUME NEW n \in waiting, n.op = "answer"
               PROVE  Stands(n.to, n.key, n.id, n.until)'
    BY <1>1 DEF AnswersStand
  <2>1. n.to \in Scraper /\ n.key \in WriterKey /\ n.id \in Nat /\ n.until \in Nat
    BY DEF WriterTypeOK, Message
  <2> QED BY <1>3, <2>1 DEF WriterInv, AnswersStand
<1>6. ReleasesGiven'
  BY <1>1 DEF WriterInv, ReleasesGiven
<1>7. RowsBounded'
  <2> SUFFICES ASSUME NEW k \in WriterKey, writer[k].owner # "nobody"
               PROVE  writer[k].until <= now + 1 + LeaseTTL(AskedTTL[writer[k].owner])
    BY <1>1 DEF RowsBounded
  <2>1. writer[k].owner \in Scraper /\ writer[k].until \in Nat /\ now \in Nat
    BY DEF WriterTypeOK
  <2>2. writer[k].until <= now + LeaseTTL(AskedTTL[writer[k].owner])
    BY DEF WriterInv, RowsBounded
  <2> QED BY <2>1, <2>2, LeaseTTLTyped
<1> QED BY <1>2, <1>4, <1>5, <1>6, <1>7 DEF WriterInv

LEMMA WriterKeeps ==
  ASSUME WriterTypeOK, WriterInv, [WriterNext]_writerVars
  PROVE  WriterTypeOK' /\ WriterInv'
<1>1. CASE UNCHANGED writerVars
  BY <1>1
  DEF writerVars, WriterTypeOK, WriterInv, HeldLeaseStands, AnswersStand, ReleasesGiven,
      RowsBounded, Stands
<1>2. ASSUME NEW m \in waiting, RefusesLease(m)
      PROVE  WriterTypeOK' /\ WriterInv'
  BY <1>2, LostKeeps DEF RefusesLease
<1>3. CASE WriterNext
  BY <1>2, <1>3, AsksForLeaseKeeps, AsksForReleaseKeeps, HearsKeeps, LostKeeps, GrantKeeps,
     ReleaseKeeps, TimePassesKeeps DEF WriterNext
<1> QED BY <1>1, <1>3

-----------------------------------------------------------------------------
\* What the row of a stream has to say of requests R and leases L.
Agrees(a, R, L) ==
    /\ a.desired = IF \E i \in Request : OpenLive(R[i]) THEN "running" ELSE "stopped"
    /\ (\E i \in Request : OpenLive(R[i]) /\ R[i].live) => a.live
    /\ (\E s \in Session : L[s] = "active") => a.live
    /\ a.live => \/ \E i \in Request : OpenLive(R[i]) /\ R[i].live
                 \/ \E s \in Session : L[s] \in {"active", "expired"}

\* An upsert has the lock of the stream from its second statement on.
Locks(t) == call[t].pc \in {"write", "insert", "commit"} => holder = t

\* A cancellation or an update is of a row of its scope.
Targets(t) ==
    /\ call[t].pc = "cancel" => call[t].id \in Request /\ request[call[t].id].scope = "live"
    /\ call[t].pc \in {"cancel_history", "update_history"} =>
           call[t].id \in Request /\ request[call[t].id].scope = "historical"

\* A transaction has written a live request, which nobody else has open when the
\* transaction is an upsert, and which is cancelled otherwise.
Writes(t) ==
    /\ call[t].wrote # NoRequest =>
           /\ call[t].wrote <= lastId
           /\ request[call[t].wrote].scope # "historical"
           /\ call[t].row.scope = "live"
           /\ call[t].row.status \in {"active", "cancelled"}
    /\ call[t].pc = "commit" =>
           /\ call[t].wrote # NoRequest
           /\ \A i \in Request :
                  OpenLive(request[i]) /\ request[i].user = call[t].row.user => i = call[t].wrote
    /\ call[t].pc \in {"snapshot", "apply"} /\ call[t].wrote # NoRequest =>
           call[t].row.status = "cancelled"

\* A recompute that nobody overtook has seen what its commit will leave behind.
Fresh(t) ==
    call[t].pc = "apply" =>
        /\ call[t].seen.desired # "absent"
        /\ call[t].overtaken \/ Agrees(call[t].seen, RequestsSeen(t), LeasesSeen(t))

\* An upsert that found no open request of its user is right as long as it has the
\* lock.
FoundNone(t) ==
    call[t].pc = "insert" =>
        \A i \in Request : ~(OpenLive(request[i]) /\ request[i].user = call[t].user)

\* Only an upsert that is about to commit has written an open request.
Opens(t) == OpenLive(call[t].row) => call[t].pc = "commit"

CallSound(t) ==
    Locks(t) /\ Targets(t) /\ Writes(t) /\ Fresh(t) /\ FoundNone(t) /\ Opens(t)

UndrawnAreFree == \A i \in Request : i > lastId => request[i] = NoRow

\* Neither property is inductive: what a commit makes of the tables was decided by
\* the statements before it.
RequestsInv ==
    /\ OneOpenRequest
    /\ AggregateExact
    /\ UndrawnAreFree
    /\ \A t \in Caller : CallSound(t)

LEMMA ExactAgrees ==
  AggregateExact <=> (exact /\ stream # Absent => Agrees(stream, request, lease))
  BY DEF AggregateExact, Agrees

LEMMA IdleTyped == Idle \in CallType /\ NoRow \in RowType
<1>1. NoRow \in RowType
  BY DEF NoRow, RowType
<1>2. NoStream \in StreamType
  BY DEF NoStream, StreamType
<1> QED BY <1>1, <1>2, RequestsAssumption DEF Idle, CallType, NoRequest, LeaseStatus

LEMMA RequestsInitTyped == Init => TypeOK /\ RequestsInv
<1> SUFFICES ASSUME Init PROVE TypeOK /\ RequestsInv
  OBVIOUS
<1>1. TypeOK
  BY IdleTyped, RequestsAssumption
  DEF Init, TypeOK, Request, NoRow, Absent, NoStream, StreamRow, LeaseStatus
<1>2. OneOpenRequest /\ AggregateExact /\ UndrawnAreFree
  BY DEF Init, OneOpenRequest, AggregateExact, UndrawnAreFree, OpenLive, OpenHistory, NoRow
<1>3. ASSUME NEW t \in Caller PROVE CallSound(t)
  BY <1>3
  DEF Init, CallSound, Locks, Targets, Writes, Fresh, FoundNone, Opens, OpenLive, Idle, NoRow,
      NoRequest
<1> QED BY <1>1, <1>2, <1>3 DEF RequestsInv

\* A call that moves on without changing a table is sound if its own part is.
LEMMA CallMoves ==
  ASSUME TypeOK, RequestsInv, NEW t \in Caller, NEW c \in CallType,
         UNCHANGED <<request, lease, stream, exact>>,
         lastId' \in lastId .. MaxRequest,
         call' = [call EXCEPT ![t] = c],
         holder' \in Caller \cup {None},
         \A o \in Caller \ {t} : call[o].pc \in {"write", "insert", "commit"} => holder' = holder,
         CallSound(t)'
  PROVE  TypeOK' /\ RequestsInv'
<1>1. TypeOK'
  BY RequestsAssumption DEF TypeOK
<1>2. OneOpenRequest' /\ AggregateExact'
  BY DEF RequestsInv, OneOpenRequest, AggregateExact
<1>3. UndrawnAreFree'
  <2>1. lastId \in Nat /\ lastId' \in Nat /\ lastId' >= lastId
    BY RequestsAssumption DEF TypeOK
  <2> QED BY <2>1 DEF RequestsInv, UndrawnAreFree, Request
<1>4. ASSUME NEW o \in Caller, o # t PROVE CallSound(o)'
  <2>1. CallSound(o) /\ call'[o] = call[o]
    BY <1>4 DEF RequestsInv, TypeOK
  <2>2. lastId \in Nat /\ lastId' \in Nat /\ lastId' >= lastId /\ call[o].wrote \in Nat
    BY RequestsAssumption DEF TypeOK, CallType
  <2>3. Locks(o)' /\ Targets(o)'
    BY <1>4, <2>1 DEF CallSound, Locks, Targets
  <2>4. Writes(o)'
    BY <2>1, <2>2 DEF CallSound, Writes
  <2>5. RequestsSeen(o)' = RequestsSeen(o) /\ LeasesSeen(o)' = LeasesSeen(o)
    BY <2>1 DEF RequestsSeen, LeasesSeen
  <2>6. Fresh(o)'
    BY <2>1, <2>5 DEF CallSound, Fresh, Agrees
  <2>7. FoundNone(o)' /\ Opens(o)'
    BY <2>1 DEF CallSound, FoundNone, Opens
  <2> QED BY <2>3, <2>4, <2>6, <2>7 DEF CallSound
<1> QED BY <1>1, <1>2, <1>3, <1>4 DEF RequestsInv

\* Calls begin: nothing is locked or written yet.
LEMMA BeginsKeep ==
  ASSUME TypeOK, RequestsInv, NEW t \in Caller,
         \/ \E u \in User : CreateMarketDataRequest(t, u)
         \/ \E i \in Request : CancelMarketDataRequest(t, i)
         \/ \E s \in Session : CreateOrRenewMarketDataLease(t, s) \/ ReleaseMarketDataLease(t, s)
  PROVE  TypeOK' /\ RequestsInv'
<1>0. /\ UNCHANGED <<tables, holder, exact>>
      /\ lastId' \in lastId .. MaxRequest /\ holder' \in Caller \cup {None}
  <2>1. UNCHANGED <<tables, holder, exact>>
    BY DEF CreateMarketDataRequest, CancelMarketDataRequest, CallForLease,
           CreateOrRenewMarketDataLease, ReleaseMarketDataLease
  <2>2. lastId \in 0 .. MaxRequest /\ holder \in Caller \cup {None} /\ MaxRequest \in Nat
    BY RequestsAssumption DEF TypeOK
  <2> QED BY <2>1, <2>2 DEF tables
<1> DEFINE FitToBegin(c) ==
         /\ call' = [call EXCEPT ![t] = c]
         /\ c.pc \notin {"write", "insert", "commit", "snapshot", "apply"}
         /\ c.wrote = NoRequest /\ c.row = NoRow
         /\ c.pc = "cancel" => c.id \in Request /\ request[c.id].scope = "live"
         /\ c.pc \in {"cancel_history", "update_history"} =>
                c.id \in Request /\ request[c.id].scope = "historical"
<1>1. \E c \in CallType : FitToBegin(c)
  <2> USE IdleTyped DEF NoRequest
  <2>0. Unexpired \in SUBSET Session
    BY DEF Unexpired
  <2>1. CASE \E u \in User : CreateMarketDataRequest(t, u)
    <3>1. PICK u \in User : CreateMarketDataRequest(t, u)
      BY <2>1
    <3>2. CASE \E b \in BOOLEAN :
                  call' = [call EXCEPT ![t] = [Idle EXCEPT !.pc = "stream", !.user = u,
                                                 !.live = b, !.unexpired = Unexpired]]
      <4>1. PICK b \in BOOLEAN :
                  call' = [call EXCEPT ![t] = [Idle EXCEPT !.pc = "stream", !.user = u,
                                                 !.live = b, !.unexpired = Unexpired]]
        BY <3>2
      <4>2. [Idle EXCEPT !.pc = "stream", !.user = u, !.live = b, !.unexpired = Unexpired]
               \in CallType
        BY <2>0 DEF CallType
      <4> QED BY <4>1, <4>2 DEF Idle
    <3>3. CASE call' = [call EXCEPT ![t] = [Idle EXCEPT !.pc = "insert_history", !.user = u]]
      <4>1. [Idle EXCEPT !.pc = "insert_history", !.user = u] \in CallType
        BY DEF CallType
      <4> QED BY <3>3, <4>1 DEF Idle
    <3>4. CASE \E i \in OpenHistoryOf(u) :
                  call' = [call EXCEPT ![t] = [Idle EXCEPT !.pc = "update_history",
                                                           !.user = u, !.id = i]]
      <4>1. PICK i \in OpenHistoryOf(u) :
                  call' = [call EXCEPT ![t] = [Idle EXCEPT !.pc = "update_history",
                                                           !.user = u, !.id = i]]
        BY <3>4
      <4>2. i \in Request /\ request[i].scope = "historical" /\ i \in 0 .. MaxRequest
        BY RequestsAssumption DEF OpenHistoryOf, OpenHistory, Request
      <4>3. [Idle EXCEPT !.pc = "update_history", !.user = u, !.id = i] \in CallType
        BY <4>2 DEF CallType
      <4> QED BY <4>1, <4>2, <4>3 DEF Idle
    <3> QED BY <3>1, <3>2, <3>3, <3>4 DEF CreateMarketDataRequest
  <2>2. CASE \E i \in Request : CancelMarketDataRequest(t, i)
    <3>1. PICK i \in Request : CancelMarketDataRequest(t, i)
      BY <2>2
    <3>2. request[i] \in RowType /\ i \in 0 .. MaxRequest
      BY RequestsAssumption DEF TypeOK, Request
    <3> DEFINE p == IF request[i].scope = "live" THEN "cancel" ELSE "cancel_history"
               c == [Idle EXCEPT !.pc = p, !.user = request[i].user, !.id = i,
                                 !.unexpired = Unexpired]
    <3>3. c \in CallType
      BY <2>0, <3>2 DEF CallType, RowType
    <3>4. request[i].scope \in {"live", "historical"} /\ call' = [call EXCEPT ![t] = c]
      BY <3>1, <3>2 DEF CancelMarketDataRequest, RowType
    <3>5. c.pc = p /\ c.id = i /\ c.wrote = NoRequest /\ c.row = NoRow
      BY DEF Idle
    <3>6. request[i].scope \in {"live", "historical"}
      BY <3>4
    <3>7. \/ p = "cancel" /\ request[i].scope = "live"
          \/ p = "cancel_history" /\ request[i].scope = "historical"
      BY <3>6
    <3> HIDE DEF c, p
    <3> QED BY <3>3, <3>4, <3>5, <3>7
  <2>3. ASSUME NEW s \in Session, NEW p \in {"renew", "release"}, CallForLease(t, s, p)
        PROVE  \E c \in CallType : FitToBegin(c)
    <3>1. [Idle EXCEPT !.pc = p, !.session = s, !.unexpired = Unexpired] \in CallType
      BY <2>0 DEF CallType
    <3> QED BY <2>3, <3>1 DEF CallForLease, Idle
  <2>4. CASE \E s \in Session : CreateOrRenewMarketDataLease(t, s) \/ ReleaseMarketDataLease(t, s)
    BY <2>3, <2>4 DEF CreateOrRenewMarketDataLease, ReleaseMarketDataLease
  <2> QED BY <2>1, <2>2, <2>4
<1>2. PICK c \in CallType : FitToBegin(c)
  BY <1>1
<1>3. call'[t] = c
  BY <1>2 DEF TypeOK
<1>4. CallSound(t)'
  BY <1>0, <1>2, <1>3
  DEF CallSound, Locks, Targets, Writes, Fresh, FoundNone, Opens, OpenLive, NoRow, tables
<1> QED BY <1>0, <1>2, <1>4, CallMoves DEF tables

\* The upsert takes the lock.
LEMMA UpsertStreamKeeps ==
  ASSUME TypeOK, RequestsInv, NEW t \in Caller, UpsertStream(t)
  PROVE  TypeOK' /\ RequestsInv'
<1> DEFINE c == [call[t] EXCEPT !.pc = "write"]
<1>1. c \in CallType /\ c.pc = "write" /\ c.wrote = call[t].wrote /\ c.row = call[t].row
  BY DEF TypeOK, CallType
<1>2. call' = [call EXCEPT ![t] = c] /\ call'[t] = c
  BY DEF UpsertStream, TypeOK
<1> HIDE DEF c
<1>3. /\ holder = None /\ holder' = t /\ UNCHANGED <<request, lastId, lease, stream, exact>>
      /\ call[t].pc = "stream"
  BY DEF UpsertStream, tables
<1>4. \A o \in Caller \ {t} : call[o].pc \notin {"write", "insert", "commit"}
  BY <1>3, RequestsAssumption DEF RequestsInv, CallSound, Locks
<1>5. lastId' \in lastId .. MaxRequest
  BY <1>3, RequestsAssumption DEF TypeOK
<1>6. CallSound(t)'
  BY <1>1, <1>2, <1>3 DEF RequestsInv, CallSound, Locks, Targets, Writes, Fresh, FoundNone, Opens
<1> QED BY <1>1, <1>2, <1>3, <1>4, <1>5, <1>6, CallMoves

\* An upsert that finds no request has the lock, so there is none until it inserts one.
LEMMA FindNoRequestKeeps ==
  ASSUME TypeOK, RequestsInv, NEW t \in Caller, FindNoRequest(t)
  PROVE  TypeOK' /\ RequestsInv'
<1> DEFINE c == [call[t] EXCEPT !.pc = "insert"]
<1>1. /\ c \in CallType /\ c.pc = "insert" /\ c.wrote = call[t].wrote
      /\ c.row = call[t].row /\ c.user = call[t].user
  BY DEF TypeOK, CallType
<1>2. call' = [call EXCEPT ![t] = c] /\ call'[t] = c
  BY DEF FindNoRequest, TypeOK
<1> HIDE DEF c
<1>3. /\ UNCHANGED <<request, lastId, lease, stream, holder, exact>>
      /\ call[t].pc = "write" /\ OpenRequestsOf(call[t].user) = {}
  BY DEF FindNoRequest, tables
<1>4. lastId' \in lastId .. MaxRequest /\ holder' \in Caller \cup {None}
  BY <1>3, RequestsAssumption DEF TypeOK
<1>5. FoundNone(t)'
  BY <1>1, <1>2, <1>3 DEF FoundNone, OpenRequestsOf
<1>6. CallSound(t)'
  BY <1>1, <1>2, <1>3, <1>5 DEF RequestsInv, CallSound, Locks, Targets, Writes, Fresh, Opens
<1> QED BY <1>1, <1>2, <1>3, <1>4, <1>6, CallMoves

\* What a statement keeps in the transaction when it has written a request.
LEMMA WroteTyped ==
  ASSUME TypeOK, NEW t \in Caller, NEW pc \in {"commit", "snapshot"}, NEW i \in Request,
         NEW r \in RowType, Wrote(t, pc, i, r)
  PROVE  \E c \in CallType : /\ call' = [call EXCEPT ![t] = c] /\ call'[t] = c
                              /\ c.pc = pc /\ c.wrote = i /\ c.row = r
<1> DEFINE c == [Idle EXCEPT !.pc = pc, !.wrote = i, !.row = r,
                             !.unexpired = call[t].unexpired]
<1>1. i \in 0 .. MaxRequest /\ call[t].unexpired \in SUBSET Session
  BY RequestsAssumption DEF TypeOK, CallType, Request
<1>2. c \in CallType
  BY <1>1, IdleTyped DEF CallType
<1>3. c.pc = pc /\ c.wrote = i /\ c.row = r
  BY DEF Idle
<1>4. call' = [call EXCEPT ![t] = c] /\ call'[t] = c
  BY DEF Wrote, TypeOK
<1> HIDE DEF c
<1> QED BY <1>2, <1>3, <1>4

\* The upsert finds the one open request of its user, or draws an id for a new one.
LEMMA UpsertWritesKeeps ==
  ASSUME TypeOK, RequestsInv, NEW t \in Caller, UpdateRequest(t) \/ InsertRequest(t)
  PROVE  TypeOK' /\ RequestsInv'
<1> DEFINE r == LiveRow(call[t].user, call[t].live)
<1>0. /\ UNCHANGED <<request, lease, stream, holder, exact>>
      /\ call[t].pc \in {"write", "insert"} /\ holder = t
      /\ lastId \in 0 .. MaxRequest /\ MaxRequest \in Nat
      /\ holder \in Caller \cup {None}
  BY RequestsAssumption
  DEF UpdateRequest, InsertRequest, tables, TypeOK, RequestsInv, CallSound, Locks
<1>1. r \in RowType /\ OpenLive(r) /\ r.user = call[t].user /\ r.scope = "live"
      /\ r.status = "active"
  BY DEF TypeOK, CallType, RowType, LiveRow, OpenLive
<1> HIDE DEF r
<1>2. \E i \in Request :
         /\ Wrote(t, "commit", i, r)
         /\ lastId' \in lastId .. MaxRequest /\ i <= lastId'
         /\ request[i].scope # "historical"
         /\ \A j \in Request : OpenLive(request[j]) /\ request[j].user = r.user => j = i
  <2>1. CASE UpdateRequest(t)
    <3>1. PICK i \in OpenRequestsOf(call[t].user) : Wrote(t, "commit", i, r)
      BY <2>1 DEF UpdateRequest, r
    <3>2. i \in Request /\ OpenLive(request[i]) /\ request[i].user = r.user
      BY <1>1 DEF OpenRequestsOf
    <3>3. \A j \in Request : OpenLive(request[j]) /\ request[j].user = r.user => j = i
      BY <3>2 DEF RequestsInv, OneOpenRequest
    <3>4. i <= lastId
      BY <1>0, <3>2 DEF RequestsInv, UndrawnAreFree, OpenLive, NoRow, Request
    <3>5. lastId' = lastId /\ request[i].scope # "historical"
      BY <2>1, <3>2 DEF UpdateRequest, tables, OpenLive
    <3> QED BY <1>0, <3>1, <3>2, <3>3, <3>4, <3>5
  <2>2. CASE InsertRequest(t)
    <3>1. /\ lastId' = lastId + 1 /\ lastId < MaxRequest
          /\ Wrote(t, "commit", lastId + 1, r) /\ OpenRequestsOf(call[t].user) = {}
      BY <2>2 DEF InsertRequest, IndexAdmits, r
    <3>2. lastId + 1 \in Request /\ request[lastId + 1] = NoRow
      BY <1>0, <3>1 DEF RequestsInv, UndrawnAreFree, Request
    <3>3. \A j \in Request : ~(OpenLive(request[j]) /\ request[j].user = r.user)
      BY <1>1, <3>1 DEF OpenRequestsOf
    <3> QED BY <1>0, <3>1, <3>2, <3>3 DEF NoRow
  <2> QED BY <2>1, <2>2
<1>3. PICK i \in Request :
         /\ Wrote(t, "commit", i, r)
         /\ lastId' \in lastId .. MaxRequest /\ i <= lastId'
         /\ request[i].scope # "historical"
         /\ \A j \in Request : OpenLive(request[j]) /\ request[j].user = r.user => j = i
  BY <1>2
<1>4. PICK c \in CallType : /\ call' = [call EXCEPT ![t] = c] /\ call'[t] = c
                            /\ c.pc = "commit" /\ c.wrote = i /\ c.row = r
  BY <1>1, <1>3, WroteTyped
<1>5. i # NoRequest
  BY RequestsAssumption DEF Request, NoRequest
<1>6. CallSound(t)'
  BY <1>0, <1>1, <1>3, <1>4, <1>5 DEF CallSound, Locks, Targets, Writes, Fresh, FoundNone, Opens
<1> QED BY <1>0, <1>3, <1>4, <1>6, CallMoves

\* A cancellation writes the request, unless it is cancelled already; a renewal and a
\* release write the lease.
LEMMA CancelOrLeaseKeeps ==
  ASSUME TypeOK, RequestsInv, NEW t \in Caller,
         CancelRequest(t) \/ CreateOrRenewLease(t) \/ ReleaseLease(t)
  PROVE  TypeOK' /\ RequestsInv'
<1>0. /\ UNCHANGED <<request, lastId, lease, stream, holder, exact>>
      /\ holder' \in Caller \cup {None} /\ lastId' \in lastId .. MaxRequest
  BY RequestsAssumption DEF CancelRequest, CreateOrRenewLease, ReleaseLease, tables, TypeOK
<1>1. call[t].unexpired \in SUBSET Session /\ call[t].session \in Session \cup {None}
  BY DEF TypeOK, CallType
<1>2. CASE WroteNothing(t)
  <2> DEFINE c == [Idle EXCEPT !.pc = "snapshot", !.unexpired = call[t].unexpired]
  <2>1. c \in CallType /\ c.pc = "snapshot" /\ c.wrote = NoRequest /\ c.row = NoRow
    BY <1>1, IdleTyped DEF CallType, Idle, NoRequest
  <2>2. call' = [call EXCEPT ![t] = c] /\ call'[t] = c
    BY <1>2 DEF WroteNothing, TypeOK
  <2> HIDE DEF c
  <2>3. CallSound(t)'
    BY <2>1, <2>2
    DEF CallSound, Locks, Targets, Writes, Fresh, FoundNone, Opens, OpenLive, NoRow
  <2> QED BY <1>0, <2>1, <2>2, <2>3, CallMoves
<1>3. ASSUME NEW status \in {"active", "released"}, WroteLease(t, status)
      PROVE  TypeOK' /\ RequestsInv'
  <2> DEFINE c == [Idle EXCEPT !.pc = "snapshot", !.leaseOf = call[t].session,
                               !.leaseTo = status,
                               !.unexpired = call[t].unexpired \ {call[t].session}]
  <2>1. c \in CallType /\ c.pc = "snapshot" /\ c.wrote = NoRequest /\ c.row = NoRow
    BY <1>1, IdleTyped DEF CallType, Idle, NoRequest, LeaseStatus
  <2>2. call' = [call EXCEPT ![t] = c] /\ call'[t] = c
    BY <1>3 DEF WroteLease, TypeOK
  <2> HIDE DEF c
  <2>3. CallSound(t)'
    BY <2>1, <2>2
    DEF CallSound, Locks, Targets, Writes, Fresh, FoundNone, Opens, OpenLive, NoRow
  <2> QED BY <1>0, <2>1, <2>2, <2>3, CallMoves
<1>4. ASSUME CancelRequest(t), ~WroteNothing(t)
      PROVE  TypeOK' /\ RequestsInv'
  <2> DEFINE i == call[t].id
             r == [request[i] EXCEPT !.status = "cancelled"]
  <2>1. i \in Request /\ request[i].scope = "live" /\ request[i] \in RowType
    BY <1>4 DEF CancelRequest, RequestsInv, CallSound, Targets, TypeOK
  <2>2. r \in RowType /\ r.scope = "live" /\ r.status = "cancelled"
    BY <2>1 DEF RowType
  <2>3. Wrote(t, "snapshot", i, r)
    BY <1>4 DEF CancelRequest
  <2>4. i <= lastId /\ i # NoRequest
    BY <2>1, RequestsAssumption
    DEF RequestsInv, UndrawnAreFree, NoRow, Request, TypeOK, NoRequest
  <2> HIDE DEF i, r
  <2>5. PICK c \in CallType : /\ call' = [call EXCEPT ![t] = c] /\ call'[t] = c
                              /\ c.pc = "snapshot" /\ c.wrote = i /\ c.row = r
    BY <2>1, <2>2, <2>3, WroteTyped
  <2>6. CallSound(t)'
    BY <1>0, <2>1, <2>2, <2>4, <2>5
    DEF CallSound, Locks, Targets, Writes, Fresh, FoundNone, Opens, OpenLive
  <2> QED BY <1>0, <2>5, <2>6, CallMoves
<1> QED BY <1>2, <1>3, <1>4 DEF CreateOrRenewLease, ReleaseLease

\* The recompute says what its statement sees.
LEMMA RecomputedAgrees ==
  ASSUME NEW t \in Caller
  PROVE  /\ Recomputed(t) \in StreamType /\ Recomputed(t).desired # "absent"
         /\ Agrees(Recomputed(t), RequestsSeen(t), LeasesSeen(t))
<1> DEFINE R == RequestsSeen(t)
           L == LeasesSeen(t)
           D == IF \E i \in Request : OpenLive(R[i]) THEN "running" ELSE "stopped"
           V == \/ \E i \in Request : OpenLive(R[i]) /\ R[i].live
                \/ \E s \in Session : \/ L[s] = "active"
                                      \/ L[s] = "expired" /\ s \in call[t].unexpired
<1>1. Recomputed(t) = [desired |-> D, live |-> V]
  BY DEF Recomputed
<1>2. V \in BOOLEAN /\ D \in {"running", "stopped"}
  OBVIOUS
<1>3. /\ (\E i \in Request : OpenLive(R[i]) /\ R[i].live) => V
      /\ (\E s \in Session : L[s] = "active") => V
      /\ V => \/ \E i \in Request : OpenLive(R[i]) /\ R[i].live
              \/ \E s \in Session : L[s] \in {"active", "expired"}
  OBVIOUS
<1>4. D = IF \E i \in Request : OpenLive(R[i]) THEN "running" ELSE "stopped"
  OBVIOUS
<1> HIDE DEF R, L, D, V
<1>5. Recomputed(t).desired = D /\ Recomputed(t).live = V
  BY <1>1
<1>6. Recomputed(t) \in StreamType
  BY <1>1, <1>2 DEF StreamType
<1>7. Agrees(Recomputed(t), R, L)
  BY <1>3, <1>4, <1>5 DEF Agrees
<1> QED BY <1>2, <1>5, <1>6, <1>7 DEF R, L

LEMMA RecomputeBeginsKeeps ==
  ASSUME TypeOK, RequestsInv, NEW t \in Caller, RecomputeBegins(t)
  PROVE  TypeOK' /\ RequestsInv'
<1> DEFINE a == Recomputed(t)
           c == [call[t] EXCEPT !.pc = "apply", !.seen = a, !.unexpired = {}]
<1>0. /\ UNCHANGED <<request, lastId, lease, stream, holder, exact>>
      /\ holder' \in Caller \cup {None} /\ lastId' \in lastId .. MaxRequest
      /\ call[t].pc = "snapshot"
  BY RequestsAssumption DEF RecomputeBegins, tables, TypeOK
<1>1. call' = [call EXCEPT ![t] = c] /\ call'[t] = c
  BY DEF RecomputeBegins, TypeOK
<1>2. a \in StreamType /\ a.desired # "absent" /\ Agrees(a, RequestsSeen(t), LeasesSeen(t))
  BY RecomputedAgrees
<1> HIDE DEF a
<1>3. /\ c \in CallType /\ c.pc = "apply" /\ c.seen = a
      /\ c.wrote = call[t].wrote /\ c.row = call[t].row
      /\ c.leaseOf = call[t].leaseOf /\ c.leaseTo = call[t].leaseTo
  <2>1. call[t] \in CallType
    BY DEF TypeOK
  <2> QED BY <1>2, <2>1 DEF CallType
<1> HIDE DEF c
<1>4. RequestsSeen(t)' = RequestsSeen(t) /\ LeasesSeen(t)' = LeasesSeen(t)
  BY <1>0, <1>1, <1>3 DEF RequestsSeen, LeasesSeen
<1>5. Fresh(t)'
  BY <1>1, <1>2, <1>3, <1>4 DEF Fresh, Agrees
<1>6. Locks(t)' /\ Targets(t)' /\ Writes(t)' /\ FoundNone(t)' /\ Opens(t)'
  BY <1>0, <1>1, <1>3
  DEF RequestsInv, CallSound, Locks, Targets, Writes, FoundNone, Opens
<1>7. CallSound(t)'
  BY <1>5, <1>6 DEF CallSound
<1> QED BY <1>0, <1>1, <1>3, <1>7, CallMoves

LEMMA RollbackKeeps ==
  ASSUME TypeOK, RequestsInv, NEW t \in Caller, Rollback(t)
  PROVE  TypeOK' /\ RequestsInv'
<1>0. /\ UNCHANGED <<request, lastId, lease, stream, exact>>
      /\ holder' \in Caller \cup {None} /\ lastId' \in lastId .. MaxRequest
      /\ call' = [call EXCEPT ![t] = Idle] /\ call'[t] = Idle
      /\ holder' = IF holder = t THEN None ELSE holder
  BY RequestsAssumption DEF Rollback, tables, TypeOK
<1>1. \A o \in Caller \ {t} : call[o].pc \in {"write", "insert", "commit"} => holder' = holder
  BY <1>0, RequestsAssumption DEF RequestsInv, CallSound, Locks
<1>2. CallSound(t)'
  BY <1>0
  DEF CallSound, Locks, Targets, Writes, Fresh, FoundNone, Opens, OpenLive, Idle, NoRow, NoRequest
<1> QED BY <1>0, <1>1, <1>2, IdleTyped, CallMoves

\* The rows of the history may change beside a transaction, and their calls end.
LEMMA HistoryKeeps ==
  ASSUME TypeOK, RequestsInv, UNCHANGED <<lease, stream, holder, exact>>,
         lastId' \in lastId .. MaxRequest,
         request' \in [Request -> RowType],
         \A i \in Request : request'[i] # request[i] =>
             /\ request'[i].scope = "historical" /\ i <= lastId'
             /\ request[i].scope = "historical" \/ i > lastId,
         \A i, j \in Request :
             /\ OpenHistory(request'[i]) /\ OpenHistory(request'[j])
             /\ request'[i].user = request'[j].user
             => i = j,
         call' \in [Caller -> CallType],
         \A o \in Caller : call'[o] \in {call[o], Idle}
  PROVE  TypeOK' /\ RequestsInv'
<1>0. lastId \in Nat /\ lastId' \in Nat /\ lastId' >= lastId /\ MaxRequest \in Nat
  BY RequestsAssumption DEF TypeOK
<1>1. TypeOK'
  BY <1>0 DEF TypeOK
<1>2. \A i \in Request :
         /\ OpenLive(request'[i]) <=> OpenLive(request[i])
         /\ OpenLive(request[i]) => request'[i] = request[i]
  BY DEF RequestsInv, UndrawnAreFree, OpenLive, NoRow
<1>3. OneOpenRequest'
  BY <1>2 DEF RequestsInv, OneOpenRequest
<1>4. AggregateExact'
  <2>1. AggregateExact
    BY DEF RequestsInv
  <2> QED BY <1>2, <2>1 DEF AggregateExact
<1>5. UndrawnAreFree'
  BY <1>0 DEF RequestsInv, UndrawnAreFree, Request
<1>6. ASSUME NEW o \in Caller PROVE CallSound(o)'
  <2>1. CASE call'[o] = Idle
    BY <2>1
    DEF CallSound, Locks, Targets, Writes, Fresh, FoundNone, Opens, OpenLive, Idle, NoRow,
        NoRequest
  <2>2. CASE call'[o] = call[o]
    <3>1. CallSound(o) /\ call[o].wrote \in 0 .. MaxRequest
      BY DEF RequestsInv, TypeOK, CallType
    <3>2. Locks(o)'
      BY <2>2, <3>1 DEF CallSound, Locks
    <3>3. Targets(o)'
      BY <2>2, <3>1 DEF CallSound, Targets, RequestsInv, UndrawnAreFree, NoRow
    <3>4. Writes(o)'
      BY <1>0, <1>2, <2>2, <3>1 DEF CallSound, Writes, Request, NoRequest
    <3>5. LeasesSeen(o)' = LeasesSeen(o)
      BY <2>2 DEF LeasesSeen
    <3>6. \A i \in Request :
             /\ OpenLive(RequestsSeen(o)'[i]) <=> OpenLive(RequestsSeen(o)[i])
             /\ OpenLive(RequestsSeen(o)[i]) => RequestsSeen(o)'[i] = RequestsSeen(o)[i]
      BY <1>2, <2>2 DEF RequestsSeen
    <3>7. Fresh(o)'
      BY <2>2, <3>1, <3>5, <3>6 DEF CallSound, Fresh, Agrees
    <3>8. FoundNone(o)' /\ Opens(o)'
      BY <1>2, <2>2, <3>1 DEF CallSound, FoundNone, Opens
    <3> QED BY <3>2, <3>3, <3>4, <3>7, <3>8 DEF CallSound
  <2> QED BY <2>1, <2>2
<1> QED BY <1>1, <1>3, <1>4, <1>5, <1>6 DEF RequestsInv

\* Calls and reports about a row of the history.
LEMMA HistoryActionsKeep ==
  ASSUME TypeOK, RequestsInv,
         \/ \E t \in Caller : \/ CancelHistoryRequest(t) \/ UpdateHistoryRequest(t)
                            \/ InsertHistoryRequest(t)
         \/ \E i \in Request, status \in HistoryReport :
                ReportMarketDataHistoryRequestState(i, status)
  PROVE  TypeOK' /\ RequestsInv'
<1>0. /\ request \in [Request -> RowType] /\ call \in [Caller -> CallType]
      /\ lastId \in 0 .. MaxRequest /\ MaxRequest \in Nat
  BY RequestsAssumption DEF TypeOK
\* A row of the history changes its status.
<1>1. ASSUME NEW i \in Request, request[i].scope = "historical",
             NEW status \in {"pending", "running", "verifying", "ready", "error", "cancelled"},
             request' = [request EXCEPT ![i].status = status],
             \/ OpenHistory(request[i]) \/ status = "cancelled"
                \/ OpenHistoryOf(request[i].user) \subseteq {i},
             UNCHANGED <<lastId, lease, stream, holder, exact>>,
             call' \in [Caller -> CallType],
             \A o \in Caller : call'[o] \in {call[o], Idle}
      PROVE  TypeOK' /\ RequestsInv'
  <2>1. request[i] \in RowType
    BY <1>0
  <2>2. /\ request'[i] \in RowType /\ request'[i].scope = "historical"
        /\ request'[i].user = request[i].user /\ request'[i].status = status
    BY <1>0, <1>1, <2>1 DEF RowType
  <2>3. \A j \in Request : j # i => request'[j] = request[j]
    BY <1>0, <1>1
  <2>4. request' \in [Request -> RowType]
    <3>1. request' = [j \in Request |-> request'[j]]
      BY <1>0, <1>1
    <3> QED BY <1>0, <2>2, <2>3, <3>1
  <2>5. lastId' \in lastId .. MaxRequest
    BY <1>0, <1>1
  <2>6. i <= lastId
    BY <1>0, <1>1 DEF RequestsInv, UndrawnAreFree, NoRow, Request
  <2>7. ASSUME NEW j \in Request, NEW k \in Request,
               OpenHistory(request'[j]), OpenHistory(request'[k]),
               request'[j].user = request'[k].user
        PROVE  j = k
    <3>1. OneOpenRequest
      BY DEF RequestsInv
    <3>2. ASSUME NEW m \in Request, m # i, OpenHistory(request[m]),
                 request[m].user = request[i].user, status # "cancelled"
          PROVE  FALSE
      BY <1>1, <3>1, <3>2 DEF OneOpenRequest, OpenHistoryOf
    <3>3. CASE j = i /\ k # i
      BY <2>2, <2>3, <2>7, <3>2, <3>3 DEF OpenHistory
    <3>4. CASE j # i /\ k = i
      BY <2>2, <2>3, <2>7, <3>2, <3>4 DEF OpenHistory
    <3>5. CASE j # i /\ k # i
      BY <2>3, <2>7, <3>1, <3>5 DEF OneOpenRequest
    <3> QED BY <3>3, <3>4, <3>5
  <2>8. \A j \in Request : request'[j] # request[j] =>
             /\ request'[j].scope = "historical" /\ j <= lastId'
             /\ request[j].scope = "historical" \/ j > lastId
    BY <1>1, <2>2, <2>3, <2>6
  <2> QED BY <1>1, <2>4, <2>5, <2>7, <2>8, HistoryKeeps
<1>2. ASSUME NEW t \in Caller, call' = [call EXCEPT ![t] = Idle]
      PROVE  call' \in [Caller -> CallType] /\ \A o \in Caller : call'[o] \in {call[o], Idle}
  BY <1>0, <1>2, IdleTyped
<1>3. ASSUME NEW t \in Caller, CancelHistoryRequest(t) PROVE TypeOK' /\ RequestsInv'
  <2>1. call[t].id \in Request /\ request[call[t].id].scope = "historical"
    BY <1>3 DEF CancelHistoryRequest, RequestsInv, CallSound, Targets
  <2> QED BY <1>1, <1>2, <1>3, <2>1 DEF CancelHistoryRequest
<1>4. ASSUME NEW t \in Caller, UpdateHistoryRequest(t) PROVE TypeOK' /\ RequestsInv'
  <2> DEFINE i == call[t].id
             old == request[i].status
             new == IF old = "error" THEN "pending" ELSE old
  <2>1. i \in Request /\ request[i].scope = "historical" /\ request[i] \in RowType
    BY <1>0, <1>4 DEF UpdateHistoryRequest, RequestsInv, CallSound, Targets
  <2>2. request' = [request EXCEPT ![i].status = new]
    BY <1>0, <1>4, <2>1 DEF UpdateHistoryRequest
  <2>3. call' = [call EXCEPT ![t] = Idle] /\ UNCHANGED <<lastId, lease, stream, holder, exact>>
    BY <1>4 DEF UpdateHistoryRequest
  <2>4. old \in {"none", "active", "pending", "running", "verifying", "ready", "error",
                 "cancelled"}
    BY <2>1 DEF RowType
  <2>5. CASE old \in {"none", "active"}
    <3>1. request' = request
      BY <1>0, <2>1, <2>2, <2>5 DEF RowType
    <3>2. OneOpenRequest /\ lastId' \in lastId .. MaxRequest
      BY <1>0, <2>3 DEF RequestsInv
    <3>3. \A j, k \in Request :
             /\ OpenHistory(request'[j]) /\ OpenHistory(request'[k])
             /\ request'[j].user = request'[k].user
             => j = k
      BY <3>1, <3>2 DEF OneOpenRequest
    <3> QED BY <1>0, <1>2, <2>3, <3>1, <3>2, <3>3, HistoryKeeps
  <2>6. CASE old \notin {"none", "active"}
    <3>1. new \in {"pending", "running", "verifying", "ready", "error", "cancelled"}
      BY <2>4, <2>6
    <3>2. OpenHistory(request[i]) \/ new = "cancelled"
      BY <2>1 DEF OpenHistory
    <3> HIDE DEF i, new
    <3> QED BY <1>1, <1>2, <2>1, <2>2, <2>3, <3>1, <3>2
  <2> QED BY <2>5, <2>6
<1>5. ASSUME NEW t \in Caller, InsertHistoryRequest(t) PROVE TypeOK' /\ RequestsInv'
  <2> DEFINE n == lastId + 1
             r == HistoryRow(call[t].user)
  <2>1. n \in Request /\ lastId' = n /\ lastId' \in lastId .. MaxRequest /\ n > lastId
    BY <1>0, <1>5 DEF InsertHistoryRequest, Request
  <2>2. r \in RowType /\ r.scope = "historical" /\ r.user = call[t].user
    BY <1>0 DEF HistoryRow, RowType, CallType
  <2>3. call' = [call EXCEPT ![t] = Idle] /\ UNCHANGED <<lease, stream, holder, exact>>
    BY <1>5 DEF InsertHistoryRequest
  <2>4. \/ request' = request
        \/ request' = [request EXCEPT ![n] = r] /\ OpenHistoryOf(r.user) = {}
    BY <1>5, <2>2 DEF InsertHistoryRequest
  <2> HIDE DEF n, r
  <2>5. request' \in [Request -> RowType]
    BY <1>0, <2>1, <2>2, <2>4
  <2>6. \A j \in Request : request'[j] # request[j] => j = n /\ request'[j] = r
    BY <1>0, <2>1, <2>4
  <2>7. ASSUME NEW j \in Request, NEW k \in Request,
               OpenHistory(request'[j]), OpenHistory(request'[k]),
               request'[j].user = request'[k].user
        PROVE  j = k
    <3>1. CASE request' = request
      BY <2>7, <3>1 DEF RequestsInv, OneOpenRequest
    <3>2. CASE request' = [request EXCEPT ![n] = r] /\ OpenHistoryOf(r.user) = {}
      <4>1. request'[n] = r /\ \A m \in Request : m # n => request'[m] = request[m]
        BY <1>0, <2>1, <3>2
      <4>2. \A m \in Request : ~(OpenHistory(request[m]) /\ request[m].user = r.user)
        BY <3>2 DEF OpenHistoryOf
      <4> QED BY <2>7, <4>1, <4>2 DEF RequestsInv, OneOpenRequest
    <3> QED BY <2>4, <3>1, <3>2
  <2>8. \A j \in Request : request'[j] # request[j] =>
             /\ request'[j].scope = "historical" /\ j <= lastId'
             /\ request[j].scope = "historical" \/ j > lastId
    BY <1>0, <2>1, <2>2, <2>6 DEF Request
  <2> QED BY <1>2, <2>1, <2>3, <2>5, <2>7, <2>8, HistoryKeeps
<1>6. ASSUME NEW i \in Request, NEW status \in HistoryReport,
             ReportMarketDataHistoryRequestState(i, status)
      PROVE  TypeOK' /\ RequestsInv'
  <2>1. status \in {"pending", "running", "verifying", "ready", "error", "cancelled"}
    BY RequestsAssumption
  <2>2. call' \in [Caller -> CallType] /\ \A o \in Caller : call'[o] \in {call[o], Idle}
    BY <1>0, <1>6 DEF ReportMarketDataHistoryRequestState
  <2> QED BY <1>1, <1>6, <2>1, <2>2
          DEF ReportMarketDataHistoryRequestState, UpdateHistoryRequestState
<1> QED BY <1>3, <1>4, <1>5, <1>6

LEMMA LeaseExpiresKeeps ==
  ASSUME TypeOK, RequestsInv, NEW s \in Session, LeaseExpires(s)
  PROVE  TypeOK' /\ RequestsInv'
<1>0. /\ UNCHANGED <<request, lastId, stream, holder, call, exact>>
      /\ lease[s] = "active" /\ lease' = [lease EXCEPT ![s] = "expired"]
      /\ lease \in [Session -> LeaseStatus]
  BY DEF LeaseExpires, TypeOK
<1>1. TypeOK'
  BY <1>0 DEF TypeOK, LeaseStatus
<1>2. OneOpenRequest' /\ UndrawnAreFree'
  BY <1>0 DEF RequestsInv, OneOpenRequest, UndrawnAreFree
<1>3. /\ lease'[s] = "expired"
      /\ \A r \in Session : r # s => lease'[r] = lease[r]
  BY <1>0
<1>4. AggregateExact'
  BY <1>0, <1>3 DEF RequestsInv, AggregateExact
<1>5. ASSUME NEW o \in Caller PROVE CallSound(o)'
  <2>1. CallSound(o)
    BY DEF RequestsInv
  <2>2. Locks(o)' /\ Targets(o)' /\ Writes(o)' /\ FoundNone(o)' /\ Opens(o)'
    BY <1>0, <2>1 DEF CallSound, Locks, Targets, Writes, FoundNone, Opens
  <2>3. RequestsSeen(o)' = RequestsSeen(o)
    BY <1>0 DEF RequestsSeen
  <2>4. \A r \in Session :
           \/ LeasesSeen(o)'[r] = LeasesSeen(o)[r]
           \/ LeasesSeen(o)'[r] = "expired" /\ LeasesSeen(o)[r] = "active"
    BY <1>0, <1>3 DEF LeasesSeen
  <2>5. Fresh(o)'
    BY <1>0, <2>1, <2>3, <2>4 DEF CallSound, Fresh, Agrees
  <2> QED BY <2>2, <2>5 DEF CallSound
<1> QED BY <1>1, <1>2, <1>4, <1>5 DEF RequestsInv

LEMMA ReportStreamKeeps ==
  ASSUME TypeOK, RequestsInv, NEW actual \in ActualReport, ReportMarketDataStreamState(actual)
  PROVE  TypeOK' /\ RequestsInv'
<1>0. /\ UNCHANGED <<request, lastId, lease, holder, call, exact>>
      /\ stream # Absent /\ stream' = [stream EXCEPT !.actual = actual]
  BY DEF ReportMarketDataStreamState, UpdateMarketDataStreamActualState
<1>1. /\ stream'.desired = stream.desired /\ stream'.live = stream.live
      /\ stream' \in [desired : {"absent", "running", "stopped"}, live : BOOLEAN,
                      actual : ActualReport \cup {"pending"}]
  BY <1>0 DEF TypeOK
<1>2. TypeOK'
  BY <1>0, <1>1 DEF TypeOK
<1>3. OneOpenRequest' /\ UndrawnAreFree'
  BY <1>0 DEF RequestsInv, OneOpenRequest, UndrawnAreFree
<1>4. AggregateExact'
  BY <1>0, <1>1 DEF RequestsInv, AggregateExact
<1>5. ASSUME NEW o \in Caller PROVE CallSound(o)'
  BY <1>0 DEF RequestsInv, CallSound, Locks, Targets, Writes, Fresh, FoundNone, Opens, RequestsSeen, LeasesSeen,
              Agrees
<1> QED BY <1>2, <1>3, <1>4, <1>5 DEF RequestsInv

\* The writes of a transaction become visible; the recomputes under way are overtaken.
LEMMA CommitKeeps ==
  ASSUME TypeOK, RequestsInv, NEW t \in Caller, NEW a \in StreamType, Commit(t, a),
         call[t].pc \in {"commit", "apply"}, a.desired # "absent",
         call[t].overtaken \/ Agrees(a, RequestsSeen(t), LeasesSeen(t)),
         \A o \in Caller \ {t} : call[o].pc \notin {"write", "insert", "commit"}
  PROVE  TypeOK' /\ RequestsInv'
<1> DEFINE n == call[t].wrote
           r == call[t].row
<1>0. /\ call[t] \in CallType /\ n \in 0 .. MaxRequest /\ r \in RowType
      /\ lastId \in 0 .. MaxRequest /\ MaxRequest \in Nat
      /\ call \in [Caller -> CallType]
  BY RequestsAssumption DEF TypeOK, CallType
<1>1. /\ request' = RequestsSeen(t) /\ lease' = LeasesSeen(t)
      /\ stream' = StreamRow(a, stream.actual) /\ holder' = None /\ lastId' = lastId
      /\ exact' = ~call[t].overtaken
  BY DEF Commit
<1>2. \A i \in Request : request'[i] = IF i = n THEN r ELSE request[i]
  BY <1>1 DEF RequestsSeen
<1>3. n # NoRequest => /\ n <= lastId /\ request[n].scope # "historical"
                       /\ r.scope = "live" /\ r.status \in {"active", "cancelled"}
  BY DEF RequestsInv, CallSound, Writes
<1>4. /\ call'[t] = Idle
      /\ \A o \in Caller \ {t} :
             call'[o] = IF call[o].pc = "apply" THEN [call[o] EXCEPT !.overtaken = TRUE]
                        ELSE call[o]
  BY DEF Commit
<1>5. call' \in [Caller -> CallType]
  <2>1. \A c \in CallType : [c EXCEPT !.overtaken = TRUE] \in CallType
    BY DEF CallType
  <2>2. \A o \in Caller : call'[o] \in CallType
    BY <1>0, <1>4, <2>1, IdleTyped
  <2>3. call' = [o \in Caller |-> call'[o]]
    BY DEF Commit
  <2> QED BY <2>2, <2>3
<1>6. \A i \in Request : i = n => n # NoRequest
  BY RequestsAssumption DEF Request, NoRequest
<1>7. TypeOK'
  <2>1. request' \in [Request -> RowType]
    BY <1>0, <1>1 DEF RequestsSeen, TypeOK
  <2>2. \A i \in Request :
           request'[i].scope = "live" => request'[i].status \in {"active", "cancelled"}
    BY <1>2, <1>3, <1>6 DEF TypeOK
  <2>3. lease' \in [Session -> LeaseStatus]
    BY <1>0, <1>1 DEF LeasesSeen, TypeOK, CallType
  <2>4. stream' \in [desired : {"absent", "running", "stopped"}, live : BOOLEAN,
                     actual : ActualReport \cup {"pending"}]
    BY <1>1 DEF TypeOK, StreamRow, StreamType
  <2>5. exact' \in BOOLEAN
    BY <1>1
  <2> QED BY <1>0, <1>1, <1>5, <2>1, <2>2, <2>3, <2>4, <2>5 DEF TypeOK
<1>8. OneOpenRequest'
  <2> SUFFICES ASSUME NEW i \in Request, NEW j \in Request,
                      request'[i].user = request'[j].user,
                      \/ OpenLive(request'[i]) /\ OpenLive(request'[j])
                      \/ OpenHistory(request'[i]) /\ OpenHistory(request'[j])
               PROVE  i = j
    BY DEF OneOpenRequest
  <2>1. CASE i # n /\ j # n
    BY <1>2, <2>1 DEF RequestsInv, OneOpenRequest
  <2>2. ASSUME NEW k \in Request, NEW m \in Request, k = n, m # n,
               OpenLive(request'[k]), OpenLive(request'[m]), request'[k].user = request'[m].user
        PROVE  FALSE
    <3>1. request'[k] = r /\ request'[m] = request[m] /\ n # NoRequest
      BY <1>2, <1>6, <2>2
    <3>2. call[t].pc = "commit"
      BY <2>2, <3>1 DEF RequestsInv, CallSound, Writes, OpenLive
    <3> QED BY <2>2, <3>1, <3>2 DEF RequestsInv, CallSound, Writes
  <2>3. ASSUME NEW k \in Request, k = n PROVE ~OpenHistory(request'[k])
    BY <1>2, <1>3, <1>6, <2>3 DEF OpenHistory
  <2> QED BY <2>1, <2>2, <2>3
<1>9. AggregateExact'
  <2>1. stream'.desired = a.desired /\ stream'.live = a.live
    BY <1>1 DEF StreamRow
  <2>2. exact' => Agrees(a, request', lease')
    BY <1>1
  <2> QED BY <2>1, <2>2 DEF AggregateExact, Agrees
<1>10. UndrawnAreFree'
  BY <1>0, <1>1, <1>2, <1>3, <1>6 DEF RequestsInv, UndrawnAreFree, Request
<1>11. ASSUME NEW o \in Caller PROVE CallSound(o)'
  <2>1. CASE o = t
    BY <1>4, <2>1
    DEF CallSound, Locks, Targets, Writes, Fresh, FoundNone, Opens, OpenLive, Idle, NoRow,
        NoRequest
  <2>2. CASE o # t
    <3>1. /\ CallSound(o) /\ call[o].pc \notin {"write", "insert", "commit"}
          /\ call[o] \in CallType /\ call[o].wrote \in 0 .. MaxRequest
      BY <1>0, <2>2 DEF RequestsInv, CallType
    <3>2. /\ call'[o].pc = call[o].pc /\ call'[o].id = call[o].id
          /\ call'[o].wrote = call[o].wrote /\ call'[o].row = call[o].row
          /\ call'[o].seen = call[o].seen
          /\ call[o].pc = "apply" => call'[o].overtaken
      <4>1. CASE call[o].pc = "apply"
        <5>1. call'[o] = [call[o] EXCEPT !.overtaken = TRUE]
          BY <1>4, <2>2, <4>1
        <5> QED BY <3>1, <5>1 DEF CallType
      <4>2. CASE call[o].pc # "apply"
        BY <1>4, <2>2, <4>2
      <4> QED BY <4>1, <4>2
    <3>3. Locks(o)' /\ Fresh(o)'
      BY <3>1, <3>2 DEF CallSound, Locks, Fresh
    <3>4. Targets(o)'
      BY <1>2, <1>3, <1>6, <3>1, <3>2 DEF CallSound, Targets
    <3>5. Writes(o)'
      BY <1>0, <1>1, <1>2, <1>3, <1>6, <3>1, <3>2 DEF CallSound, Writes, Request, NoRequest
    <3>6. FoundNone(o)' /\ Opens(o)'
      BY <3>1, <3>2 DEF CallSound, FoundNone, Opens
    <3> QED BY <3>3, <3>4, <3>5, <3>6 DEF CallSound
  <2> QED BY <2>1, <2>2
<1> QED BY <1>7, <1>8, <1>9, <1>10, <1>11 DEF RequestsInv

LEMMA CommitsKeep ==
  ASSUME TypeOK, RequestsInv, NEW t \in Caller, CommitUpsert(t) \/ RecomputeApplies(t)
  PROVE  TypeOK' /\ RequestsInv'
<1>1. CASE CommitUpsert(t)
  <2>1. call[t].pc = "commit" /\ Commit(t, Recomputed(t))
    BY <1>1 DEF CommitUpsert
  <2>2. \A o \in Caller \ {t} : call[o].pc \notin {"write", "insert", "commit"}
    BY <2>1 DEF RequestsInv, CallSound, Locks
  <2> QED BY <2>1, <2>2, RecomputedAgrees, CommitKeeps
<1>2. CASE RecomputeApplies(t)
  <2>1. call[t].pc = "apply" /\ holder = None /\ Commit(t, call[t].seen)
    BY <1>2 DEF RecomputeApplies
  <2>2. \A o \in Caller \ {t} : call[o].pc \notin {"write", "insert", "commit"}
    BY <2>1, RequestsAssumption DEF RequestsInv, CallSound, Locks
  <2>3. call[t].seen \in StreamType
    BY DEF TypeOK, CallType
  <2>4. call[t].overtaken \/ Agrees(call[t].seen, RequestsSeen(t), LeasesSeen(t))
    BY <2>1 DEF RequestsInv, CallSound, Fresh
  <2>5. call[t].seen.desired # "absent"
    BY <2>1 DEF RequestsInv, CallSound, Fresh
  <2> QED BY <2>1, <2>2, <2>3, <2>4, <2>5, CommitKeeps
<1> QED BY <1>1, <1>2

LEMMA RequestsKeep ==
  ASSUME TypeOK, RequestsInv, [Next]_vars
  PROVE  TypeOK' /\ RequestsInv'
<1>1. CASE UNCHANGED vars
  BY <1>1
  DEF vars, tables, TypeOK, RequestsInv, OneOpenRequest, AggregateExact, UndrawnAreFree,
      CallSound, Locks, Targets, Writes, Fresh, FoundNone, Opens, Agrees, RequestsSeen, LeasesSeen
<1>2. ASSUME NEW t \in Caller, Proceed(t) PROVE TypeOK' /\ RequestsInv'
  BY <1>2, UpsertStreamKeeps, FindNoRequestKeeps, UpsertWritesKeeps, CommitsKeep, CancelOrLeaseKeeps,
     RecomputeBeginsKeeps, HistoryActionsKeep DEF Proceed
<1>3. CASE DeadlockDetected \/ \E t \in Caller : CallFails(t)
  BY <1>3, RollbackKeeps DEF DeadlockDetected, CallFails
<1>4. CASE Next
  BY <1>2, <1>3, <1>4, BeginsKeep, HistoryActionsKeep, ReportStreamKeeps, LeaseExpiresKeeps
     DEF Next
<1> QED BY <1>1, <1>4

-----------------------------------------------------------------------------
\* A behaviour of the composition is one of either part, as far as it goes.
LEMMA ControlRefinesParts ==
  ASSUME [ControlNext]_controlVars
  PROVE  [WriterNext]_writerVars /\ [Next]_vars
  BY DEF ControlNext, controlVars

\* The rows, the messages and what scrapers hold are as the calls write them.
THEOREM WritersTyped == ControlSpec => []WriterTypeOK
<1>1. ControlInit => WriterTypeOK /\ WriterInv
  BY WriterInitTyped DEF ControlInit
<1>2. WriterTypeOK /\ WriterInv /\ [ControlNext]_controlVars => WriterTypeOK' /\ WriterInv'
  BY ControlRefinesParts, WriterKeeps
<1> QED BY <1>1, <1>2, PTL DEF ControlSpec

\* A scraper that goes by its lease until the expiry it was told is the only writer of
\* the year, whatever is delayed, lost or reordered
\* (CreateOrRenewMarketDataWriterLease, ReleaseMarketDataWriterLease).
THEOREM LeasesStand == ControlSpec => []HeldLeaseStands
<1>1. ControlInit => WriterTypeOK /\ WriterInv
  BY WriterInitTyped DEF ControlInit
<1>2. WriterTypeOK /\ WriterInv /\ [ControlNext]_controlVars => WriterTypeOK' /\ WriterInv'
  BY ControlRefinesParts, WriterKeeps
<1>3. WriterInv => HeldLeaseStands
  BY DEF WriterInv
<1> QED BY <1>1, <1>2, <1>3, PTL DEF ControlSpec

\* The tables hold what their columns allow, in every transaction's view.
THEOREM RequestsTyped == ControlSpec => []TypeOK
<1>1. ControlInit => TypeOK /\ RequestsInv
  BY RequestsInitTyped DEF ControlInit
<1>2. TypeOK /\ RequestsInv /\ [ControlNext]_controlVars => TypeOK' /\ RequestsInv'
  BY ControlRefinesParts, RequestsKeep
<1> QED BY <1>1, <1>2, PTL DEF ControlSpec

\* However calls interleave, the unique index on the live requests refuses no upsert and
\* lets none wait: it found no open request under the lock of the stream's row, and the
\* lock keeps all others from writing one (UpsertMarketDataRequest).
THEOREM InsertsUnopposed == ControlSpec => []InsertUnopposed
<1>1. ControlInit => TypeOK /\ RequestsInv
  BY RequestsInitTyped DEF ControlInit
<1>2. TypeOK /\ RequestsInv /\ [ControlNext]_controlVars => TypeOK' /\ RequestsInv'
  BY ControlRefinesParts, RequestsKeep
<1>3. RequestsInv => InsertUnopposed
  <2> SUFFICES ASSUME RequestsInv, NEW t \in Caller, call[t].pc = "insert"
               PROVE  IndexAdmits(t)
    BY DEF InsertUnopposed
  <2>1. OpenRequestsOf(call[t].user) = {}
    BY DEF RequestsInv, CallSound, FoundNone, OpenRequestsOf
  <2>2. ASSUME NEW o \in Caller \ {t}, OpenLive(call[o].row) PROVE FALSE
    BY <2>2 DEF RequestsInv, CallSound, Opens, Locks
  <2> QED BY <2>1, <2>2 DEF IndexAdmits
<1> QED BY <1>1, <1>2, <1>3, PTL DEF ControlSpec

\* The row of the stream is what the tables say, unless a commit overtook the recompute
\* that wrote it (recomputeMarketDataStreamAggregate).
THEOREM AggregateIsExact == ControlSpec => []AggregateExact
<1>1. ControlInit => TypeOK /\ RequestsInv
  BY RequestsInitTyped DEF ControlInit
<1>2. TypeOK /\ RequestsInv /\ [ControlNext]_controlVars => TypeOK' /\ RequestsInv'
  BY ControlRefinesParts, RequestsKeep
<1>3. RequestsInv => AggregateExact
  BY DEF RequestsInv
<1> QED BY <1>1, <1>2, <1>3, PTL DEF ControlSpec

-----------------------------------------------------------------------------
(* Segments *)

LEMMA YearTyped ==
  /\ Years \in Nat \ {0}
  /\ \A y \in Year : y \in Nat /\ YearStart[y] \in Nat /\ YearStart[y + 1] \in Nat
  /\ YearStart[Years] \in Nat
  BY StoreAssumption DEF Year

LEMMA SegmentTyped ==
  ASSUME NEW s \in Segment
  PROVE  /\ s.year \in Year /\ s.start \in Nat /\ s.end \in Nat
         /\ s.start < s.end
         /\ s.start \in 0 .. YearStart[Years] /\ s.end \in 0 .. YearStart[Years]
         /\ YearStart[s.year] <= s.start /\ s.end <= YearStart[s.year + 1]
         /\ Aligned(s.start) /\ Aligned(s.end)
  BY YearTyped DEF Segment

LEMMA SegmentMade ==
  ASSUME NEW y \in Year, NEW a \in 0 .. YearStart[Years], NEW e \in 0 .. YearStart[Years],
         a < e, YearStart[y] <= a, e <= YearStart[y + 1], Aligned(a), Aligned(e)
  PROVE  [year |-> y, start |-> a, end |-> e] \in Segment
  BY DEF Segment

LEMMA InTicksOf ==
  ASSUME NEW S, NEW x
  PROVE  x \in TicksOf(S) <=> \E s \in S : x \in Ticks(s)
  BY DEF TicksOf

LEMMA TicksOfUnion ==
  ASSUME NEW S, NEW R
  PROVE  TicksOf(S \cup R) = TicksOf(S) \cup TicksOf(R)
  BY DEF TicksOf

-----------------------------------------------------------------------------
(* Reports *)

Segments(b) == {b[i] : i \in DOMAIN b}

\* A report is its first segment and the rest.
LEMMA HeadAndTail ==
  ASSUME NEW b \in Seq(Segment), b # <<>>
  PROVE  /\ Head(b) \in Segment /\ Tail(b) \in Seq(Segment)
         /\ Segments(b) = {Head(b)} \cup Segments(Tail(b))
<1>1. Len(b) \in Nat /\ Len(b) >= 1 /\ DOMAIN b = 1 .. Len(b)
  OBVIOUS
<1>2. Head(b) = b[1] /\ Head(b) \in Segment /\ Tail(b) \in Seq(Segment)
  BY <1>1
<1>3. DOMAIN Tail(b) = 1 .. Len(b) - 1
  BY <1>1, <1>2
<1>4. \A i \in 1 .. Len(b) - 1 : Tail(b)[i] = b[i + 1]
  BY <1>1
<1>5. Segments(b) \subseteq {Head(b)} \cup Segments(Tail(b))
  <2> SUFFICES ASSUME NEW i \in 1 .. Len(b)
               PROVE  b[i] \in {Head(b)} \cup Segments(Tail(b))
    BY <1>1 DEF Segments
  <2>1. CASE i = 1
    BY <1>2, <2>1
  <2>2. CASE i # 1
    <3>1. i - 1 \in 1 .. Len(b) - 1 /\ b[i] = Tail(b)[i - 1]
      BY <1>1, <1>4, <2>2
    <3> QED BY <1>3, <3>1 DEF Segments
  <2> QED BY <2>1, <2>2
<1>6. {Head(b)} \cup Segments(Tail(b)) \subseteq Segments(b)
  <2>1. b[1] \in Segments(b)
    BY <1>1 DEF Segments
  <2>2. ASSUME NEW i \in 1 .. Len(b) - 1
        PROVE  Tail(b)[i] \in Segments(b)
    BY <1>1, <1>4 DEF Segments
  <2> QED BY <1>2, <1>3, <2>1, <2>2 DEF Segments
<1> QED BY <1>2, <1>5, <1>6

LEMMA SegmentsOfNone == Segments(<<>>) = {}
  BY DEF Segments

-----------------------------------------------------------------------------
(* The inductive invariant *)

Merging(t) == merge[t].pc \in {"find", "write"}

\* The row a transaction would write now.
Merged(t) == [year |-> Head(merge[t].batch).year, start |-> merge[t].start, end |-> merge[t].end]

\* A transaction has the lock of its year; its candidates are rows of that year, and
\* with the reported segment they are one span without a hole.
MergeSound(t) ==
    /\ lock[Head(merge[t].batch).year] = t
    /\ merge[t].found \subseteq {s \in store : s.year = Head(merge[t].batch).year}
    /\ Merged(t) \in Segment
    /\ Ticks(Merged(t)) = Ticks(Head(merge[t].batch)) \cup TicksOf(merge[t].found)

\* Once the loop has ended, no other row of the year touches the span.
MergeComplete(t) ==
    Touching(Head(merge[t].batch).year, merge[t].start, merge[t].end) \subseteq merge[t].found

\* A call that is idle, or waits for a lock, has found nothing yet.
MergeCallSound(t) ==
    /\ Merging(t) => MergeSound(t)
    /\ merge[t].pc = "write" => MergeComplete(t)
    /\ ~Merging(t) => merge[t].found = {}

\* RowsApart alone is not inductive: that nothing touches the merged row rests on the
\* lock, which keeps the rows of the year as the loop found them.
StoreInv == RowsApart /\ \A t \in Reporter : MergeCallSound(t)

LEMMA StoreInitTyped == StoreInit => StoreTypeOK /\ StoreInv
<1> SUFFICES ASSUME StoreInit PROVE StoreTypeOK /\ StoreInv
  OBVIOUS
<1>1. NoMerge \in MergeType
  BY YearTyped DEF NoMerge, MergeType
<1> QED BY <1>1
        DEF StoreInit, StoreTypeOK, StoreInv, RowsApart, MergeCallSound, Merging, NoMerge

\* Another call keeps what the invariant says of it as long as the rows of its year and
\* its lock are left alone.
LEMMA OthersSound ==
  ASSUME NEW o \in Reporter, merge'[o] = merge[o], MergeCallSound(o),
         Merging(o) => /\ lock'[Head(merge[o].batch).year] = o
                       /\ \A s : s.year = Head(merge[o].batch).year =>
                                     (s \in store' <=> s \in store)
  PROVE  MergeCallSound(o)'
  BY DEF MergeCallSound, Merging, MergeSound, MergeComplete, Merged, Touching

LEMMA MergeTyped ==
  ASSUME StoreTypeOK, NEW t \in Reporter
  PROVE  /\ merge[t] \in MergeType
         /\ merge[t].batch \in Seq(Segment)
         /\ merge[t].pc # "idle" => merge[t].batch # <<>>
         /\ merge[t].pc # "idle" => Head(merge[t].batch) \in Segment
<1>1. merge[t] \in MergeType
  BY DEF StoreTypeOK
<1>2. merge[t].batch \in Seq(Segment)
  BY <1>1 DEF MergeType
<1>3. merge[t].pc # "idle" => merge[t].batch # <<>>
  BY DEF StoreTypeOK
<1> QED BY <1>1, <1>2, <1>3, HeadAndTail

-----------------------------------------------------------------------------
(* Steps *)

LEMMA NoMergeTyped ==
  /\ NoMerge \in MergeType
  /\ NoMerge.pc = "idle" /\ NoMerge.batch = <<>> /\ NoMerge.found = {}
<1>1. 0 \in 0 .. YearStart[Years]
  BY YearTyped
<1> QED BY <1>1 DEF NoMerge, MergeType

\* A transaction that is to begin with the first segment of b.
Waiting(b) == [NoMerge EXCEPT !.pc = "lock", !.batch = b]

LEMMA WaitingTyped ==
  ASSUME NEW b \in Seq(Segment), b # <<>>
  PROVE  /\ Waiting(b) \in MergeType
         /\ Waiting(b).pc = "lock" /\ Waiting(b).batch = b /\ Waiting(b).found = {}
  BY NoMergeTyped DEF Waiting, MergeType

LEMMA ReportKeeps ==
  ASSUME StoreTypeOK, StoreInv, NEW t \in Reporter, ReportMarketDataCoverageSegments(t)
  PROVE  StoreTypeOK' /\ StoreInv'
<1> PICK b \in Batch : merge' = [merge EXCEPT ![t] = Waiting(b)]
  BY DEF ReportMarketDataCoverageSegments, Waiting
<1>1. UNCHANGED <<store, lock>>
  BY DEF ReportMarketDataCoverageSegments
<1>2. b \in Seq(Segment) /\ b # <<>>
  BY StoreAssumption
<1>3. /\ Waiting(b) \in MergeType
      /\ Waiting(b).pc = "lock" /\ Waiting(b).batch = b /\ Waiting(b).found = {}
  BY <1>2, WaitingTyped
<1>4. StoreTypeOK'
  BY <1>1, <1>2, <1>3 DEF StoreTypeOK
<1>5. ASSUME NEW o \in Reporter
      PROVE  MergeCallSound(o)'
  <2>1. CASE o = t
    BY <1>3, <2>1 DEF StoreTypeOK, MergeCallSound, Merging
  <2>2. CASE o # t
    <3>1. merge'[o] = merge[o]
      BY <2>2 DEF StoreTypeOK
    <3> QED BY <1>1, <3>1, OthersSound DEF StoreInv, MergeCallSound, MergeSound
  <2> QED BY <2>1, <2>2
<1> QED BY <1>1, <1>4, <1>5 DEF StoreInv, RowsApart

\* The transaction begins with the reported segment alone.
LEMMA BeginKeeps ==
  ASSUME StoreTypeOK, StoreInv, NEW t \in Reporter, BeginMerge(t)
  PROVE  StoreTypeOK' /\ StoreInv'
<1> DEFINE s == Head(merge[t].batch)
           w == [merge[t] EXCEPT !.pc = "find", !.start = s.start, !.end = s.end]
<1>1. /\ merge[t].pc = "lock" /\ lock[s.year] = Free
      /\ lock' = [lock EXCEPT ![s.year] = t]
      /\ merge' = [merge EXCEPT ![t].pc = "find", ![t].start = s.start, ![t].end = s.end]
      /\ UNCHANGED store
  BY DEF BeginMerge
<1>2. s \in Segment /\ merge[t] \in MergeType /\ merge[t].batch # <<>>
  BY <1>1, MergeTyped
<1>3. s.year \in Year /\ s.start \in 0 .. YearStart[Years] /\ s.end \in 0 .. YearStart[Years]
  BY <1>2, SegmentTyped
<1>4. merge' = [merge EXCEPT ![t] = w] /\ w \in MergeType
  BY <1>1, <1>2, <1>3 DEF MergeType, StoreTypeOK
<1>5. /\ w.batch = merge[t].batch /\ w.pc = "find" /\ w.found = {}
      /\ w.start = s.start /\ w.end = s.end
  BY <1>1, <1>2 DEF MergeType, StoreInv, MergeCallSound, Merging
<1>6. StoreTypeOK'
  BY <1>1, <1>2, <1>3, <1>4, <1>5 DEF StoreTypeOK
<1>7. merge'[t] = w /\ lock'[s.year] = t
  BY <1>1, <1>3, <1>4 DEF StoreTypeOK
<1> HIDE DEF w
<1>8. ASSUME NEW o \in Reporter
      PROVE  MergeCallSound(o)'
  <2>1. CASE o # t
    <3>1. merge'[o] = merge[o]
      BY <1>4, <2>1 DEF StoreTypeOK
    <3>2. Merging(o) => Head(merge[o].batch).year # s.year
      BY <1>1, StoreAssumption DEF StoreInv, MergeCallSound, MergeSound
    <3>3. Merging(o) => Head(merge[o].batch).year \in Year
      BY MergeTyped, SegmentTyped DEF Merging
    <3>4. Merging(o) => lock'[Head(merge[o].batch).year] = o
      BY <1>1, <1>3, <3>2, <3>3 DEF StoreInv, MergeCallSound, MergeSound, StoreTypeOK
    <3> QED BY <1>1, <3>1, <3>4, OthersSound DEF StoreInv
  <2>2. CASE o = t
    <3>1. [year |-> s.year, start |-> s.start, end |-> s.end] = s
      BY <1>2 DEF Segment
    <3>2. Merged(t)' = s
      BY <1>5, <1>7, <3>1 DEF Merged
    <3>3. TicksOf({}) = {}
      BY DEF TicksOf
    <3> QED BY <1>2, <1>5, <1>7, <2>2, <3>2, <3>3 DEF MergeCallSound, Merging, MergeSound
  <2> QED BY <2>1, <2>2
<1> QED BY <1>1, <1>6, <1>8 DEF StoreInv, RowsApart

\* A pass that finds rows widens the span by rows that touch it: no hole comes in.  A
\* pass that finds none leaves nothing of the year that touches.
LEMMA FindKeeps ==
  ASSUME StoreTypeOK, StoreInv, NEW t \in Reporter, FindCandidates(t)
  PROVE  StoreTypeOK' /\ StoreInv'
<1> DEFINE h == Head(merge[t].batch)
           new == Touching(h.year, merge[t].start, merge[t].end) \ merge[t].found
           starts == {merge[t].start} \cup {s.start : s \in new}
           ends == {merge[t].end} \cup {s.end : s \in new}
<1>1. merge[t].pc = "find" /\ UNCHANGED <<store, lock>>
  BY DEF FindCandidates
<1>2. /\ merge[t] \in MergeType /\ h \in Segment /\ merge[t].batch # <<>>
      /\ MergeSound(t)
  BY <1>1, MergeTyped DEF StoreInv, MergeCallSound, Merging
<1>3. ASSUME NEW o \in Reporter, o # t, merge'[o] = merge[o]
      PROVE  MergeCallSound(o)'
  BY <1>1, <1>3, OthersSound DEF StoreInv, MergeCallSound, MergeSound
<1>4. CASE new = {}
  <2> DEFINE w == [merge[t] EXCEPT !.pc = "write"]
  <2>1. merge' = [merge EXCEPT ![t] = w]
    BY <1>4 DEF FindCandidates, StoreTypeOK
  <2>2. /\ w \in MergeType /\ w.pc = "write" /\ w.batch = merge[t].batch
        /\ w.start = merge[t].start /\ w.end = merge[t].end /\ w.found = merge[t].found
    BY <1>2 DEF MergeType
  <2> HIDE DEF w
  <2>3. StoreTypeOK'
    BY <1>1, <1>2, <2>1, <2>2 DEF StoreTypeOK
  <2>4. merge'[t] = w /\ \A o \in Reporter \ {t} : merge'[o] = merge[o]
    BY <2>1 DEF StoreTypeOK
  <2>5. MergeSound(t)'
    BY <1>1, <1>2, <2>2, <2>4 DEF MergeSound, Merged
  <2>6. MergeComplete(t)'
    BY <1>1, <1>4, <2>2, <2>4 DEF MergeComplete, Touching
  <2>7. MergeCallSound(t)'
    BY <2>2, <2>4, <2>5, <2>6 DEF MergeCallSound, Merging
  <2> QED BY <1>1, <1>3, <2>3, <2>4, <2>7 DEF StoreInv, RowsApart
<1>5. CASE new # {}
  <2>1. PICK a \in starts, e \in ends :
            /\ \A b \in starts : a <= b
            /\ \A b \in ends : b <= e
            /\ merge' = [merge EXCEPT ![t].found = @ \cup new, ![t].start = a, ![t].end = e]
    BY <1>5 DEF FindCandidates
  <2> DEFINE w == [merge[t] EXCEPT !.found = @ \cup new, !.start = a, !.end = e]
  <2>2. \A s \in new : /\ s \in Segment /\ s \in store /\ s.year = h.year
                      /\ s.end >= merge[t].start /\ s.start <= merge[t].end
    BY DEF Touching, StoreTypeOK
  <2>3. /\ Merged(t) \in Segment /\ h.year \in Year
        /\ Merged(t).year = h.year /\ Merged(t).start = merge[t].start
        /\ Merged(t).end = merge[t].end
    BY <1>2, SegmentTyped DEF MergeSound, Merged
  <2>4. \A s \in new \cup {Merged(t)} :
            /\ s.start \in 0 .. YearStart[Years] /\ s.end \in 0 .. YearStart[Years]
            /\ s.start \in Nat /\ s.end \in Nat /\ s.start < s.end
            /\ YearStart[h.year] <= s.start /\ s.end <= YearStart[h.year + 1]
            /\ Aligned(s.start) /\ Aligned(s.end)
    <3> SUFFICES ASSUME NEW s \in new \cup {Merged(t)}
                 PROVE  /\ s.start \in 0 .. YearStart[Years] /\ s.end \in 0 .. YearStart[Years]
                        /\ s.start \in Nat /\ s.end \in Nat /\ s.start < s.end
                        /\ YearStart[h.year] <= s.start /\ s.end <= YearStart[h.year + 1]
                        /\ Aligned(s.start) /\ Aligned(s.end)
      OBVIOUS
    <3>1. s \in Segment /\ s.year = h.year
      BY <2>2, <2>3
    <3> QED BY <3>1, SegmentTyped
  <2>5. /\ \E s \in new \cup {Merged(t)} : a = s.start
        /\ \E s \in new \cup {Merged(t)} : e = s.end
    BY <2>3
  <2>6. a <= merge[t].start /\ merge[t].end <= e
    BY <2>1
  <2>7. /\ a \in 0 .. YearStart[Years] /\ e \in 0 .. YearStart[Years]
        /\ a \in Nat /\ e \in Nat
        /\ YearStart[h.year] <= a /\ e <= YearStart[h.year + 1] /\ Aligned(a) /\ Aligned(e)
    BY <2>4, <2>5
  <2>8. a < e
    BY <2>3, <2>4, <2>6, <2>7
  <2>9. [year |-> h.year, start |-> a, end |-> e] \in Segment
    BY <2>3, <2>7, <2>8, SegmentMade
  <2>10. merge' = [merge EXCEPT ![t] = w]
    BY <2>1 DEF StoreTypeOK
  <2>11. new \subseteq Segment /\ merge[t].found \subseteq Segment
    BY <1>2, <2>2 DEF MergeType
  <2>12. /\ w \in MergeType /\ w.pc = "find" /\ w.batch = merge[t].batch
         /\ w.start = a /\ w.end = e /\ w.found = merge[t].found \cup new
    BY <1>1, <1>2, <2>7, <2>11 DEF MergeType
  <2> HIDE DEF w
  <2>13. merge'[t] = w /\ \A o \in Reporter \ {t} : merge'[o] = merge[o]
    BY <2>10 DEF StoreTypeOK
  <2>14. StoreTypeOK'
    BY <1>1, <1>2, <2>10, <2>12 DEF StoreTypeOK
  <2>15. a .. e - 1 = (merge[t].start .. merge[t].end - 1) \cup TicksOf(new)
    <3>1. merge[t].start \in Nat /\ merge[t].end \in Nat
      BY <2>3, <2>4
    <3>2. ASSUME NEW x \in a .. e - 1, x \notin merge[t].start .. merge[t].end - 1
          PROVE  \E s \in new : x \in Ticks(s)
      <4>1. CASE x < merge[t].start
        <5>1. PICK s \in new : a = s.start
          BY <2>3, <2>5, <2>7, <3>1, <4>1
        <5> QED BY <2>2, <2>4, <2>7, <3>1, <4>1, <5>1 DEF Ticks
      <4>2. CASE x >= merge[t].end
        <5>1. PICK s \in new : e = s.end
          BY <2>3, <2>5, <2>7, <3>1, <4>2
        <5> QED BY <2>2, <2>4, <2>7, <3>1, <4>2, <5>1 DEF Ticks
      <4> QED BY <2>7, <3>1, <3>2, <4>1, <4>2
    <3>3. ASSUME NEW s \in new, NEW x \in Ticks(s)
          PROVE  x \in a .. e - 1
      <4>1. a <= s.start /\ s.end <= e
        BY <2>1
      <4> QED BY <2>4, <2>7, <4>1 DEF Ticks
    <3>4. \A x \in merge[t].start .. merge[t].end - 1 : x \in a .. e - 1
      BY <2>6, <2>7, <3>1
    <3> HIDE DEF new
    <3> QED BY <3>2, <3>3, <3>4, InTicksOf
  <2>16. MergeSound(t)'
    <3>1. Merged(t)' = [year |-> h.year, start |-> a, end |-> e]
      BY <2>12, <2>13 DEF Merged
    <3>2. Ticks(Merged(t)') = Ticks(h) \cup TicksOf(merge[t].found \cup new)
      <4>1. Ticks(Merged(t)') = a .. e - 1
        BY <3>1 DEF Ticks
      <4>2. Ticks(Merged(t)) = merge[t].start .. merge[t].end - 1
        BY <2>3 DEF Ticks
      <4>3. TicksOf(merge[t].found \cup new) = TicksOf(merge[t].found) \cup TicksOf(new)
        BY TicksOfUnion
      <4> QED BY <1>2, <2>15, <4>1, <4>2, <4>3 DEF MergeSound
    <3>3. w.found \subseteq {s \in store : s.year = h.year}
      BY <1>2, <2>2, <2>12 DEF MergeSound
    <3> QED BY <1>1, <1>2, <2>9, <2>12, <2>13, <3>1, <3>2, <3>3 DEF MergeSound
  <2>17. MergeCallSound(t)'
    BY <2>12, <2>13, <2>16 DEF MergeCallSound, Merging
  <2> QED BY <1>1, <1>3, <2>13, <2>14, <2>17 DEF StoreInv, RowsApart
<1> QED BY <1>4, <1>5

\* The rows of another year, and of others' candidates, stay; the merged row touches
\* none of its year that is left.
LEMMA MergeCommitKeeps ==
  ASSUME StoreTypeOK, StoreInv, NEW t \in Reporter, CommitMerge(t)
  PROVE  /\ StoreTypeOK' /\ StoreInv'
         /\ TicksOf(store') = TicksOf(store) \cup Ticks(Head(merge[t].batch))
         /\ Segments(merge'[t].batch) = Segments(Tail(merge[t].batch))
         /\ \A o \in Reporter \ {t} : merge'[o] = merge[o]
<1> DEFINE h == Head(merge[t].batch)
           rest == Tail(merge[t].batch)
           w == IF rest = <<>> THEN NoMerge ELSE Waiting(rest)
<1>1. /\ merge[t].pc = "write"
      /\ store' = (store \ merge[t].found) \cup {Merged(t)}
      /\ lock' = Unlocked(t)
      /\ merge' = [merge EXCEPT ![t] = w]
  BY DEF CommitMerge, NextSegment, Merged, Waiting
<1>2. /\ merge[t] \in MergeType /\ h \in Segment
      /\ merge[t].batch \in Seq(Segment) /\ merge[t].batch # <<>>
      /\ MergeSound(t) /\ MergeComplete(t)
  BY <1>1, MergeTyped DEF StoreInv, MergeCallSound, Merging
<1>3. rest \in Seq(Segment)
  BY <1>2, HeadAndTail
<1>4. /\ w \in MergeType /\ w.batch = rest /\ w.found = {}
      /\ w.pc = IF rest = <<>> THEN "idle" ELSE "lock"
  BY <1>3, NoMergeTyped, WaitingTyped
<1> HIDE DEF w
<1>5. merge'[t] = w /\ \A o \in Reporter \ {t} : merge'[o] = merge[o]
  BY <1>1 DEF StoreTypeOK
<1>6. lock' \in [Year -> Reporter \cup {Free}]
  BY <1>1 DEF Unlocked, StoreTypeOK
<1>7. Merged(t) \in Segment /\ Merged(t).year = h.year
  BY <1>2 DEF MergeSound, Merged
<1>8. StoreTypeOK'
  BY <1>1, <1>4, <1>5, <1>6, <1>7 DEF StoreTypeOK
<1>9. ASSUME NEW o \in Reporter, o # t
      PROVE  MergeCallSound(o)'
  <2>1. MergeCallSound(o) /\ merge'[o] = merge[o]
    BY <1>5, <1>9 DEF StoreInv
  <2>2. CASE Merging(o)
    <3>1. Head(merge[o].batch).year \in Year /\ lock[Head(merge[o].batch).year] = o
      BY <2>1, <2>2, MergeTyped, SegmentTyped DEF MergeCallSound, MergeSound, Merging
    <3>2. lock'[Head(merge[o].batch).year] = o
      BY <1>1, <1>9, <3>1 DEF Unlocked
    <3>3. Head(merge[o].batch).year # h.year
      BY <1>2, <1>9, <3>1 DEF MergeSound
    <3>4. \A s : s.year = Head(merge[o].batch).year => (s \in store' <=> s \in store)
      BY <1>1, <1>2, <1>7, <3>3 DEF MergeSound
    <3> QED BY <2>1, <3>2, <3>4, OthersSound
  <2>3. CASE ~Merging(o)
    BY <2>1, <2>3, OthersSound
  <2> QED BY <2>2, <2>3
<1>10. MergeCallSound(t)'
  BY <1>4, <1>5 DEF MergeCallSound, Merging
<1>11. RowsApart'
  <2>1. ASSUME NEW s \in store \ merge[t].found, s.year = h.year
        PROVE  s.end < Merged(t).start \/ Merged(t).end < s.start
    <3>1. s \in Segment /\ s \notin Touching(h.year, merge[t].start, merge[t].end)
      BY <1>2, <2>1 DEF MergeComplete, StoreTypeOK
    <3>2. ~(s.end >= merge[t].start /\ s.start <= merge[t].end)
      BY <2>1, <3>1 DEF Touching
    <3>3. Merged(t).start = merge[t].start /\ Merged(t).end = merge[t].end
      BY DEF Merged
    <3>4. s.start \in Nat /\ s.end \in Nat /\ Merged(t).start \in Nat /\ Merged(t).end \in Nat
      BY <1>7, <3>1, SegmentTyped
    <3> QED BY <3>2, <3>3, <3>4
  <2> SUFFICES ASSUME NEW s \in store', NEW r \in store', s # r, s.year = r.year
               PROVE  s.end < r.start \/ r.end < s.start
    BY DEF RowsApart
  <2>2. CASE s \in store \ merge[t].found /\ r \in store \ merge[t].found
    BY <2>2 DEF StoreInv, RowsApart
  <2>3. CASE s = Merged(t) /\ r \in store \ merge[t].found
    BY <1>7, <2>1, <2>3
  <2>4. CASE r = Merged(t) /\ s \in store \ merge[t].found
    BY <1>7, <2>1, <2>4
  <2> QED BY <1>1, <2>2, <2>3, <2>4
<1>12. TicksOf(store') = TicksOf(store) \cup Ticks(h)
  <2>1. TicksOf({Merged(t)}) = Ticks(Merged(t))
    BY DEF TicksOf
  <2>2. merge[t].found \subseteq store
    BY <1>2 DEF MergeSound
  <2>3. TicksOf(store) = TicksOf(store \ merge[t].found) \cup TicksOf(merge[t].found)
    <3>1. store = (store \ merge[t].found) \cup merge[t].found
      BY <2>2
    <3> QED BY <3>1, TicksOfUnion
  <2>4. TicksOf(store') = TicksOf(store \ merge[t].found) \cup Ticks(Merged(t))
    BY <1>1, <2>1, TicksOfUnion
  <2> QED BY <1>2, <2>3, <2>4 DEF MergeSound
<1>13. Segments(merge'[t].batch) = Segments(rest)
  BY <1>4, <1>5
<1> QED BY <1>5, <1>8, <1>9, <1>10, <1>11, <1>12, <1>13 DEF StoreInv

LEMMA FailsKeeps ==
  ASSUME StoreTypeOK, StoreInv, NEW t \in Reporter, MergeFails(t)
  PROVE  StoreTypeOK' /\ StoreInv'
<1>1. merge' = [merge EXCEPT ![t] = NoMerge] /\ lock' = Unlocked(t) /\ UNCHANGED store
  BY DEF MergeFails
<1>2. merge'[t] = NoMerge /\ \A o \in Reporter \ {t} : merge'[o] = merge[o]
  BY <1>1 DEF StoreTypeOK
<1>3. lock' \in [Year -> Reporter \cup {Free}]
  BY <1>1 DEF Unlocked, StoreTypeOK
<1>4. StoreTypeOK'
  BY <1>1, <1>2, <1>3, NoMergeTyped DEF StoreTypeOK
<1>5. ASSUME NEW o \in Reporter, o # t
      PROVE  MergeCallSound(o)'
  <2>1. MergeCallSound(o) /\ merge'[o] = merge[o]
    BY <1>2, <1>5 DEF StoreInv
  <2>2. Merging(o) => lock'[Head(merge[o].batch).year] = o
    <3> SUFFICES ASSUME Merging(o) PROVE lock'[Head(merge[o].batch).year] = o
      OBVIOUS
    <3>1. Head(merge[o].batch).year \in Year /\ lock[Head(merge[o].batch).year] = o
      BY <2>1, MergeTyped, SegmentTyped DEF MergeCallSound, MergeSound, Merging
    <3> QED BY <1>1, <1>5, <3>1 DEF Unlocked
  <2> QED BY <1>1, <2>1, <2>2, OthersSound
<1>6. MergeCallSound(t)'
  BY <1>2, NoMergeTyped DEF MergeCallSound, Merging
<1> QED BY <1>1, <1>4, <1>5, <1>6 DEF StoreInv, RowsApart

LEMMA StoreKeeps ==
  ASSUME StoreTypeOK, StoreInv, [StoreNext]_storeVars
  PROVE  StoreTypeOK' /\ StoreInv'
<1>1. CASE UNCHANGED storeVars
  <2>1. StoreTypeOK'
    BY <1>1 DEF storeVars, StoreTypeOK
  <2>2. \A t \in Reporter : MergeCallSound(t)'
    BY <1>1, OthersSound DEF storeVars, StoreInv, MergeCallSound, MergeSound
  <2> QED BY <1>1, <2>1, <2>2 DEF storeVars, StoreInv, RowsApart
<1>2. CASE StoreNext
  BY <1>2, ReportKeeps, BeginKeeps, FindKeeps, MergeCommitKeeps, FailsKeeps
  DEF StoreNext, StoreStep
<1> QED BY <1>1, <1>2

-----------------------------------------------------------------------------
(* The refinement *)

\* What the abstract specification takes for the ticks a call still owes.
Owes == [t \in Reporter |-> TicksOf({merge[t].batch[i] : i \in DOMAIN merge[t].batch})]

LEMMA OwesSegments == \A t \in Reporter : Owes[t] = TicksOf(Segments(merge[t].batch))
  BY DEF Owes, Segments

LEMMA OwesOthers ==
  ASSUME NEW t \in Reporter, \A o \in Reporter \ {t} : merge'[o] = merge[o]
  PROVE  Abstract!OthersOwe(t)
  BY DEF Abstract!OthersOwe

LEMMA TicksInTick ==
  ASSUME NEW S, S \subseteq Segment
  PROVE  TicksOf(S) \subseteq Tick
<1> SUFFICES ASSUME NEW s \in S, NEW x \in Ticks(s)
             PROVE  x \in Tick
  BY InTicksOf
<1>1. s.start \in Nat /\ s.end \in Nat /\ s.end \in 0 .. YearStart[Years] /\ YearStart[Years] \in Nat
  BY SegmentTyped, YearTyped
<1> QED BY <1>1 DEF Ticks, Tick

\* Every step of a call reports, merges, gives up, or changes nothing of what the
\* abstract specification knows.
LEMMA StepRefines ==
  ASSUME StoreTypeOK, StoreInv, NEW t \in Reporter, StoreStep(t)
  PROVE  \/ Abstract!Report(t) \/ Abstract!Merge(t) \/ Abstract!GiveUp(t)
         \/ UNCHANGED <<TicksOf(store), Owes>>
<1> DEFINE b == merge[t].batch
<1>1. ASSUME ReportMarketDataCoverageSegments(t)
      PROVE  Abstract!Report(t)
  <2>1. PICK c \in Batch : merge' = [merge EXCEPT ![t] = Waiting(c)]
    BY <1>1 DEF ReportMarketDataCoverageSegments, Waiting
  <2>2. c \in Seq(Segment) /\ c # <<>>
    BY StoreAssumption
  <2>3. merge'[t].batch = c
    BY <2>1, <2>2, WaitingTyped DEF StoreTypeOK
  <2>4. b = <<>>
    BY <1>1 DEF ReportMarketDataCoverageSegments, StoreTypeOK
  <2>5. TicksOf({b[i] : i \in DOMAIN b}) = {}
    BY <2>4, SegmentsOfNone DEF Segments, TicksOf
  <2>6. {c[i] : i \in DOMAIN c} \subseteq Segment
    BY <2>2
  <2>7. TicksOf({c[i] : i \in DOMAIN c}) \subseteq Tick
    BY <2>6, TicksInTick
  <2>8. UNCHANGED store
    BY <1>1 DEF ReportMarketDataCoverageSegments
  <2> HIDE DEF b
  <2> QED BY <2>3, <2>5, <2>7, <2>8 DEF Abstract!Report, TicksOf, Ticks, b
<1>2. ASSUME BeginMerge(t) \/ FindCandidates(t)
      PROVE  UNCHANGED <<TicksOf(store), Owes>>
  <2>1. UNCHANGED store /\ \A o \in Reporter : merge'[o].batch = merge[o].batch
    <3>1. \A o \in Reporter : merge[o] \in MergeType
      BY DEF StoreTypeOK
    <3>2. CASE BeginMerge(t)
      BY <3>1, <3>2 DEF BeginMerge, StoreTypeOK, MergeType
    <3>3. CASE FindCandidates(t)
      <4>1. UNCHANGED store
        BY <3>3 DEF FindCandidates
      <4>2. \/ merge' = [merge EXCEPT ![t].pc = "write"]
            \/ \E f, a, e : merge' = [merge EXCEPT ![t].found = f, ![t].start = a, ![t].end = e]
        BY <3>3 DEF FindCandidates
      <4>3. CASE merge' = [merge EXCEPT ![t].pc = "write"]
        BY <3>1, <4>1, <4>3 DEF StoreTypeOK, MergeType
      <4>4. CASE \E f, a, e : merge' = [merge EXCEPT ![t].found = f, ![t].start = a, ![t].end = e]
        <5> PICK f, a, e : merge' = [merge EXCEPT ![t].found = f, ![t].start = a, ![t].end = e]
          BY <4>4
        <5>1. \A o \in Reporter : merge'[o].batch = merge[o].batch
          BY <3>1 DEF StoreTypeOK, MergeType
        <5> QED BY <4>1, <5>1
      <4> QED BY <4>1, <4>2, <4>3, <4>4
    <3> QED BY <1>2, <3>2, <3>3
  <2> QED BY <2>1 DEF Owes, TicksOf, Ticks
<1>3. ASSUME CommitMerge(t)
      PROVE  Abstract!Merge(t)
  <2>1. b \in Seq(Segment) /\ b # <<>>
    BY <1>3, MergeTyped DEF CommitMerge
  <2>2. Segments(b) = {Head(b)} \cup Segments(Tail(b))
    BY <2>1, HeadAndTail
  <2>3. TicksOf({Head(b)}) = Ticks(Head(b))
    BY DEF TicksOf
  <2>4. TicksOf(Segments(b)) = Ticks(Head(b)) \cup TicksOf(Segments(Tail(b)))
    BY <2>2, <2>3, TicksOfUnion
  <2>5. /\ TicksOf(store') = TicksOf(store) \cup Ticks(Head(b))
        /\ Segments(merge'[t].batch) = Segments(Tail(b))
    BY <1>3, MergeCommitKeeps
  <2>6. /\ TicksOf(store)' = TicksOf(store')
        /\ Owes[t] = TicksOf(Segments(b)) /\ Owes'[t] = TicksOf(Segments(merge'[t].batch))
    BY DEF Owes, Segments, TicksOf, Ticks
  <2>7. /\ TicksOf(store) \subseteq TicksOf(store)'
        /\ TicksOf(store)' \ TicksOf(store) \subseteq Owes[t]
        /\ Owes'[t] \subseteq Owes[t]
        /\ Owes[t] \subseteq Owes'[t] \cup TicksOf(store)'
    BY <2>4, <2>5, <2>6
  <2> HIDE DEF b
  <2> QED BY <2>7 DEF Abstract!Merge, Owes
<1>4. ASSUME MergeFails(t)
      PROVE  Abstract!GiveUp(t)
  <2>1. merge'[t].batch = <<>> /\ UNCHANGED store
    BY <1>4, NoMergeTyped DEF MergeFails, StoreTypeOK
  <2>2. {merge'[t].batch[i] : i \in DOMAIN merge'[t].batch} = {}
    BY <2>1, SegmentsOfNone DEF Segments
  <2> QED BY <2>1, <2>2 DEF Abstract!GiveUp, TicksOf, Ticks
<1> QED BY <1>1, <1>2, <1>3, <1>4 DEF StoreStep

LEMMA StoreRefines ==
  ASSUME StoreTypeOK, StoreInv, [StoreNext]_storeVars
  PROVE  [Abstract!Next]_<<TicksOf(store), Owes>>
<1>1. CASE UNCHANGED storeVars
  BY <1>1 DEF storeVars, Owes, TicksOf, Ticks
<1>2. ASSUME NEW t \in Reporter, StoreStep(t)
      PROVE  Abstract!OthersOwe(t)
  <2>1. \A o \in Reporter \ {t} : merge'[o] = merge[o]
    BY <1>2 DEF StoreStep, ReportMarketDataCoverageSegments, BeginMerge, FindCandidates,
       CommitMerge, NextSegment, MergeFails, StoreTypeOK
  <2> QED BY <2>1, OwesOthers
<1>3. CASE StoreNext
  BY <1>2, <1>3, StepRefines DEF StoreNext, Abstract!Next
<1> QED BY <1>1, <1>3

LEMMA StoreInitRefines == StoreInit => Abstract!Init
<1> SUFFICES ASSUME StoreInit PROVE Abstract!Init
  OBVIOUS
<1>1. TicksOf({}) = {}
  BY DEF TicksOf
<1>2. \A t \in Reporter : {merge[t].batch[i] : i \in DOMAIN merge[t].batch} = {}
  BY NoMergeTyped, SegmentsOfNone DEF StoreInit, Segments
<1> QED BY <1>1, <1>2 DEF StoreInit, Abstract!Init

-----------------------------------------------------------------------------
\* A step beside the index leaves it alone.
LEMMA CoverageRefinesStore ==
  ASSUME [CoverageNext]_coverageVars
  PROVE  [StoreNext]_storeVars
<1>1. ASSUME NEW q \in Query, NEW w \in Window, QueryMarketDataCoverage(q, w)
      PROVE  UNCHANGED storeVars
  BY <1>1 DEF QueryMarketDataCoverage
<1>2. ASSUME NEW q \in Query, NEW w \in Window, ValidateMarketDataCoverage(q, w)
      PROVE  UNCHANGED storeVars
  BY <1>2 DEF ValidateMarketDataCoverage
<1>3. ASSUME NEW q \in Query, NEW w \in Window, QueryMarketDataKlines(q, w)
      PROVE  UNCHANGED storeVars
  BY <1>3 DEF QueryMarketDataKlines
<1>4. ASSUME NEW q \in Query, FetchYear(q) \/ FetchPage(q) \/ Return(q)
      PROVE  UNCHANGED storeVars
  BY <1>4 DEF FetchYear, FetchPage, Return
<1>5. ASSUME NEW q \in Query, AddRawCoverage(q) PROVE UNCHANGED storeVars
  BY <1>5 DEF AddRawCoverage
<1>6. ASSUME NEW q \in Query, AnswerValidation(q) \/ AnswerKlines(q)
      PROVE  UNCHANGED storeVars
  BY <1>6 DEF AnswerValidation, AnswerKlines
<1>7. ASSUME NEW t \in RawTick, RowArrives(t) PROVE UNCHANGED storeVars
  BY <1>7 DEF RowArrives
<1>8. CASE UNCHANGED coverageVars
  BY <1>8 DEF coverageVars
<1> QED BY <1>1, <1>2, <1>3, <1>4, <1>5, <1>6, <1>7, <1>8 DEF CoverageNext

\* Rows are legal segments, locks are held by calls, calls have reports
\* (mergeMarketDataCoverageSegment).
THEOREM StoreTyped == StoreSpec => []StoreTypeOK
<1>1. StoreTypeOK /\ StoreInv /\ [StoreNext]_storeVars => StoreTypeOK' /\ StoreInv'
  BY StoreKeeps
<1> QED BY <1>1, StoreInitTyped, PTL DEF StoreSpec

\* Rows of a year never overlap or touch, whatever is merged at the same time
\* (mergeMarketDataCoverageSegment).
THEOREM StoreApart == StoreSpec => []RowsApart
<1>1. StoreTypeOK /\ StoreInv /\ [StoreNext]_storeVars => StoreTypeOK' /\ StoreInv'
  BY StoreKeeps
<1>2. StoreInv => RowsApart
  BY DEF StoreInv
<1> QED BY <1>1, <1>2, StoreInitTyped, PTL DEF StoreSpec

\* The index implements the set of covered ticks: it covers what was merged and nothing
\* else, for ever, also while queries and rows come in between
\* (MergeMarketDataCoverageSegments).
THEOREM StoreImplements == CoverageSpec => MergesAreUnions
<1>1. CoverageInit => StoreTypeOK /\ StoreInv /\ Abstract!Init
  BY StoreInitTyped, StoreInitRefines DEF CoverageInit
<1>2. StoreTypeOK /\ StoreInv /\ [CoverageNext]_coverageVars => StoreTypeOK' /\ StoreInv'
  BY CoverageRefinesStore, StoreKeeps
<1>3. StoreTypeOK /\ StoreInv /\ [CoverageNext]_coverageVars => [Abstract!Next]_<<TicksOf(store), Owes>>
  BY CoverageRefinesStore, StoreRefines
<1> QED BY <1>1, <1>2, <1>3, PTL DEF CoverageSpec, MergesAreUnions, Abstract!Spec, Owes

-----------------------------------------------------------------------------
(* The grid of the candles *)

Horizon == YearStart[Years]
RowOf(t) == t - (t % Step)

\* A candle lasts at least a tick.
LEMMA GridUnit == Step \in Nat \ {0}
  BY StoreAssumption

\* Every tick belongs to the candle of one row.
LEMMA RowOnGrid ==
  ASSUME NEW t \in Nat
  PROVE  /\ RowOf(t) \in Nat /\ Aligned(RowOf(t))
         /\ RowOf(t) <= t /\ t < RowOf(t) + Step
<1>1. t % Step \in 0 .. Step - 1
  BY GridUnit
<1>2. t = Step * (t \div Step) + (t % Step) /\ t \div Step \in Int
  BY GridUnit
<1>3. RowOf(t) = Step * (t \div Step)
  BY <1>1, <1>2, GridUnit DEF RowOf
<1>4. (Step * (t \div Step)) % Step = 0
  BY <1>2, GridUnit
<1>5. t \div Step >= 0
  BY GridUnit
<1>6. RowOf(t) \in Int /\ RowOf(t) >= 0
  BY <1>2, <1>3, <1>5, GridUnit
<1>7. RowOf(t) <= t /\ t < RowOf(t) + Step
  BY <1>1, GridUnit DEF RowOf
<1>8. Aligned(RowOf(t))
  BY <1>3, <1>4 DEF Aligned
<1> QED BY <1>6, <1>7, <1>8

\* Ticks of the grid are at least a candle apart.
LEMMA GridApart ==
  ASSUME NEW a \in Nat, NEW b \in Nat, Aligned(a), Aligned(b), a < b
  PROVE  a + Step <= b
<1> DEFINE p == a \div Step
           r == b \div Step
<1>1. p \in Int /\ r \in Int
  BY GridUnit
<1>2. a = Step * p /\ b = Step * r
  BY GridUnit DEF Aligned
<1> HIDE DEF p, r
<1>3. r < p => Step * r + Step <= Step * p
  BY <1>1, GridUnit
<1>4. p < r => Step * p + Step <= Step * r
  BY <1>1, GridUnit
<1>5. p # r
  BY <1>2
<1>6. ~(r < p)
  BY <1>2, <1>3, GridUnit
<1>7. p < r
  BY <1>1, <1>5, <1>6
<1> QED BY <1>2, <1>4, <1>7

\* A part of a candle behind whole candles is what the division leaves over.
LEMMA GridRest ==
  ASSUME NEW q \in Int, NEW c \in 0 .. Step - 1
  PROVE  (Step * q + c) % Step = c
  BY GridUnit

\* Behind a point of the grid, the grid is whole candles away.
LEMMA GridSum ==
  ASSUME NEW a \in Nat, NEW b \in Nat, Aligned(a)
  PROVE  Aligned(a + b) <=> Aligned(b)
<1> DEFINE p == a \div Step
           r == b \div Step
<1>1. p \in Int /\ r \in Int
  BY GridUnit
<1>2. a = Step * p
  BY GridUnit DEF Aligned
<1>3. b = Step * r + (b % Step) /\ b % Step \in 0 .. Step - 1
  BY GridUnit
<1> HIDE DEF p, r
<1>4. a + b = Step * (p + r) + (b % Step)
  BY <1>1, <1>2, <1>3, GridUnit
<1>5. (Step * (p + r) + (b % Step)) % Step = b % Step
  <2>1. p + r \in Int
    BY <1>1
  <2> QED BY <1>3, <2>1, GridRest
<1> QED BY <1>4, <1>5 DEF Aligned

\* The candles before and after one on the grid.
LEMMA GridNext ==
  ASSUME NEW a \in Nat, Aligned(a)
  PROVE  Aligned(a + Step) /\ (a >= Step => Aligned(a - Step))
<1>1. Step % Step = 0
  BY GridUnit
<1>2. Aligned(Step)
  BY <1>1 DEF Aligned
<1>3. Aligned(a + Step)
  BY <1>2, GridSum, GridUnit
<1>4. a >= Step => Aligned(a - Step)
  <2> SUFFICES ASSUME a >= Step PROVE Aligned(a - Step)
    OBVIOUS
  <2>1. a - Step \in Nat /\ Step + (a - Step) = a
    BY GridUnit
  <2> QED BY <1>2, <2>1, GridSum, GridUnit
<1> QED BY <1>3, <1>4

\* The grid of a window that begins on the grid is the grid.
LEMMA GridFrom ==
  ASSUME NEW a \in Nat, NEW t \in Nat, Aligned(a), a <= t
  PROVE  (t - a) % Step = 0 <=> Aligned(t)
<1>1. t - a \in Nat /\ a + (t - a) = t
  OBVIOUS
<1>2. Aligned(t) <=> Aligned(t - a)
  BY <1>1, GridSum
<1> QED BY <1>2 DEF Aligned

\* The row of a tick is the one whose candle the tick is in.
LEMMA RowIs ==
  ASSUME NEW a \in Nat, NEW t \in Nat, Aligned(a), a <= t, t < a + Step
  PROVE  RowOf(t) = a
<1>1. RowOf(t) \in Nat /\ Aligned(RowOf(t)) /\ RowOf(t) <= t /\ t < RowOf(t) + Step
  BY RowOnGrid
<1>2. ~(a < RowOf(t))
  BY <1>1, GridApart, GridUnit
<1>3. ~(RowOf(t) < a)
  BY <1>1, GridApart, GridUnit
<1> QED BY <1>1, <1>2, <1>3

\* A row of the grid lies before a tick of the grid when a tick of its candle does.
LEMMA RowBefore ==
  ASSUME NEW t \in Nat, NEW b \in Nat, Aligned(b)
  PROVE  /\ RowOf(t) < b <=> t < b
         /\ t < b => RowOf(t) + Step <= b
         /\ b <= RowOf(t) <=> b <= t
<1>1. RowOf(t) \in Nat /\ Aligned(RowOf(t)) /\ RowOf(t) <= t /\ t < RowOf(t) + Step
  BY RowOnGrid
<1>2. RowOf(t) < b => RowOf(t) + Step <= b
  BY <1>1, GridApart
<1> QED BY <1>1, <1>2, GridUnit

\* A tick is in a candle of the rows if its own row is there.
LEMMA InCandles ==
  ASSUME NEW rows, rows \subseteq Nat, NEW t \in Nat
  PROVE  t \in Candles(rows) <=> RowOf(t) \in rows
<1>1. RowOf(t) \in Nat /\ Aligned(RowOf(t)) /\ RowOf(t) <= t /\ t < RowOf(t) + Step
  BY RowOnGrid
<1>2. ASSUME RowOf(t) \in rows PROVE t \in Candles(rows)
  <2>1. t \in RowOf(t) .. RowOf(t) + Step - 1
    BY <1>1, GridUnit
  <2> QED BY <1>1, <1>2, <2>1 DEF Candles
<1>3. ASSUME t \in Candles(rows) PROVE RowOf(t) \in rows
  <2>1. PICK r \in rows : Aligned(r) /\ t \in r .. r + Step - 1
    BY <1>3 DEF Candles
  <2>2. r \in Nat /\ r <= t /\ t < r + Step
    BY <2>1, GridUnit
  <2> QED BY <2>1, <2>2, RowIs
<1> QED BY <1>2, <1>3

-----------------------------------------------------------------------------
(* Least and greatest elements *)

\* Natural numbers have a least one.
LEMMA LeastOf ==
  ASSUME NEW A, A \subseteq Nat, A # {}
  PROVE  \E a \in A : \A b \in A : a <= b
<1>1. PICK a \in A : \A b \in A : ~(<<b, a>> \in OpToRel(<, Nat))
  BY NatLessThanWellFounded, WFMin
<1>2. a \in Nat /\ \A b \in A : b \in Nat
  OBVIOUS
<1>3. \A b \in A : ~(b < a)
  BY <1>1, <1>2 DEF OpToRel
<1> QED BY <1>2, <1>3

\* Numbers with a bound have a greatest one.
LEMMA GreatestOf ==
  ASSUME NEW n \in Nat, NEW A, A \subseteq 0 .. n, A # {}
  PROVE  \E a \in A : \A b \in A : b <= a
<1> DEFINE B == {n - a : a \in A}
<1>1. B \subseteq Nat /\ B # {}
  <2>1. \A a \in A : a \in Nat /\ a <= n
    OBVIOUS
  <2>2. \A a \in A : n - a \in Nat
    BY <2>1
  <2> QED BY <2>2
<1>2. PICK c \in B : \A b \in B : c <= b
  <2> HIDE DEF B
  <2> QED BY <1>1, LeastOf
<1>3. PICK a \in A : c = n - a
  OBVIOUS
<1>4. ASSUME NEW b \in A PROVE b <= a
  <2>1. n - a <= n - b
    BY <1>2, <1>3
  <2>2. a \in Int /\ b \in Int
    OBVIOUS
  <2> HIDE DEF B
  <2> QED BY <2>1, <2>2
<1> QED BY <1>3, <1>4

\* The greater of two numbers (maxTime).
LEMMA MaxOfTwo ==
  ASSUME NEW a \in Int, NEW b \in Int
  PROVE  /\ Max({a, b}) \in {a, b} /\ a <= Max({a, b}) /\ b <= Max({a, b})
         /\ Max({a, b}) = IF a <= b THEN b ELSE a
<1> DEFINE m == IF a <= b THEN b ELSE a
<1>1. m \in {a, b} /\ \A c \in {a, b} : m >= c
  OBVIOUS
<1>2. Max({a, b}) \in {a, b} /\ \A c \in {a, b} : Max({a, b}) >= c
  BY <1>1 DEF Max
<1>3. a <= Max({a, b}) /\ b <= Max({a, b})
  BY <1>2
<1> QED BY <1>2, <1>3

\* The lower of two numbers (minTime).
LEMMA MinOfTwo ==
  ASSUME NEW a \in Int, NEW b \in Int
  PROVE  /\ Min({a, b}) \in {a, b} /\ Min({a, b}) <= a /\ Min({a, b}) <= b
         /\ Min({a, b}) = IF a <= b THEN a ELSE b
<1> DEFINE m == IF a <= b THEN a ELSE b
<1>1. m \in {a, b} /\ \A c \in {a, b} : m <= c
  OBVIOUS
<1>2. Min({a, b}) \in {a, b} /\ \A c \in {a, b} : Min({a, b}) <= c
  BY <1>1 DEF Min
<1>3. Min({a, b}) <= a /\ Min({a, b}) <= b
  BY <1>2
<1> QED BY <1>2, <1>3

-----------------------------------------------------------------------------
(* Years *)

\* Years begin in their order.
LEMMA YearsGrow ==
  ASSUME NEW y \in 0 .. Years, NEW z \in 0 .. Years, y <= z
  PROVE  YearStart[y] <= YearStart[z]
<1> DEFINE bad == {x \in y .. Years : YearStart[x] < YearStart[y]}
<1>1. Years \in Nat /\ \A x \in 0 .. Years : YearStart[x] \in Nat
  BY StoreAssumption
<1>2. bad = {}
  <2> SUFFICES ASSUME bad # {} PROVE FALSE
    OBVIOUS
  <2>1. bad \subseteq Nat
    BY <1>1
  <2>2. PICK x \in bad : \A b \in bad : x <= b
    <3> HIDE DEF bad
    <3> QED BY <2>1, LeastOf
  <2>3. x \in y .. Years /\ YearStart[x] < YearStart[y] /\ x # y
    BY <1>1
  <2>4. x - 1 \in Year /\ x - 1 \in y .. Years /\ x - 1 \in 0 .. Years
    BY <1>1, <2>3 DEF Year
  <2>5. x - 1 \notin bad
    BY <2>2, <2>3
  <2>6. YearStart[x - 1] >= YearStart[y]
    BY <1>1, <2>4, <2>5
  <2>7. YearStart[x - 1] < YearStart[(x - 1) + 1]
    BY <2>4, StoreAssumption
  <2>8. (x - 1) + 1 = x /\ x \in 0 .. Years
    BY <1>1, <2>3
  <2> QED BY <1>1, <2>3, <2>4, <2>6, <2>7, <2>8
<1>3. z \in y .. Years
  BY <1>1
<1> QED BY <1>1, <1>2, <1>3

\* Every tick is in a year.
LEMMA YearFound ==
  ASSUME NEW t \in Tick
  PROVE  /\ t \in Nat /\ YearOf(t) \in Year
         /\ YearStart[YearOf(t)] <= t /\ t < YearStart[YearOf(t) + 1]
<1> DEFINE later == {x \in 0 .. Years : t < YearStart[x]}
<1>1. Years \in Nat /\ YearStart[0] = 0 /\ \A x \in 0 .. Years : YearStart[x] \in Nat
  BY StoreAssumption
<1>2. t \in Nat /\ t < YearStart[Years]
  BY <1>1 DEF Tick
<1>3. later \subseteq Nat /\ later # {}
  BY <1>1, <1>2
<1>4. PICK x \in later : \A b \in later : x <= b
  <2> HIDE DEF later
  <2> QED BY <1>3, LeastOf
<1>5. x \in 1 .. Years
  BY <1>1, <1>2
<1>6. x - 1 \in Year /\ x - 1 \in 0 .. Years /\ (x - 1) + 1 = x
  BY <1>1, <1>5 DEF Year
<1>7. x - 1 \notin later
  BY <1>4, <1>5
<1>8. YearStart[x - 1] <= t
  BY <1>1, <1>2, <1>6, <1>7
<1>9. \E y \in Year : YearStart[y] <= t /\ t < YearStart[y + 1]
  BY <1>4, <1>6, <1>8
<1> HIDE DEF later
<1> QED BY <1>2, <1>9 DEF YearOf

\* A tick is in one year only.
LEMMA YearIs ==
  ASSUME NEW t \in Tick, NEW y \in Year, YearStart[y] <= t, t < YearStart[y + 1]
  PROVE  YearOf(t) = y
<1>1. /\ t \in Nat /\ YearOf(t) \in Year
      /\ YearStart[YearOf(t)] <= t /\ t < YearStart[YearOf(t) + 1]
  BY YearFound
<1>2. Years \in Nat /\ \A x \in 0 .. Years : YearStart[x] \in Nat
  BY StoreAssumption
<1>3. \A z \in Year : z \in 0 .. Years /\ z + 1 \in 0 .. Years
  BY <1>2 DEF Year
<1>4. ~(y < YearOf(t))
  <2> SUFFICES ASSUME y < YearOf(t) PROVE FALSE
    OBVIOUS
  <2>1. y + 1 <= YearOf(t)
    BY <1>1, <1>3
  <2>2. YearStart[y + 1] <= YearStart[YearOf(t)]
    BY <1>1, <1>3, <2>1, YearsGrow
  <2> QED BY <1>1, <1>2, <1>3, <2>2
<1>5. ~(YearOf(t) < y)
  <2> SUFFICES ASSUME YearOf(t) < y PROVE FALSE
    OBVIOUS
  <2>1. YearOf(t) + 1 <= y
    BY <1>1, <1>3
  <2>2. YearStart[YearOf(t) + 1] <= YearStart[y]
    BY <1>1, <1>3, <2>1, YearsGrow
  <2> QED BY <1>1, <1>2, <1>3, <2>2
<1> QED BY <1>1, <1>3, <1>4, <1>5 DEF Year

\* Later ticks are in later years.
LEMMA YearOfGrows ==
  ASSUME NEW t \in Tick, NEW u \in Tick, t <= u
  PROVE  YearOf(t) <= YearOf(u)
<1>1. /\ t \in Nat /\ YearOf(t) \in Year
      /\ YearStart[YearOf(t)] <= t /\ t < YearStart[YearOf(t) + 1]
  BY YearFound
<1>2. /\ u \in Nat /\ YearOf(u) \in Year
      /\ YearStart[YearOf(u)] <= u /\ u < YearStart[YearOf(u) + 1]
  BY YearFound
<1>3. Years \in Nat /\ \A x \in 0 .. Years : YearStart[x] \in Nat
  BY StoreAssumption
<1>4. \A z \in Year : z \in 0 .. Years /\ z + 1 \in 0 .. Years
  BY <1>3 DEF Year
<1>5. SUFFICES ASSUME YearOf(u) < YearOf(t) PROVE FALSE
  BY <1>1, <1>2, <1>4
<1>6. YearOf(u) + 1 <= YearOf(t)
  BY <1>1, <1>2, <1>4, <1>5
<1>7. YearStart[YearOf(u) + 1] <= YearStart[YearOf(t)]
  BY <1>1, <1>2, <1>4, <1>6, YearsGrow
<1> QED BY <1>1, <1>2, <1>3, <1>4, <1>7

-----------------------------------------------------------------------------
(* Spans *)

Spans == [start : 0 .. Horizon, end : 0 .. Horizon]

\* The spans within a window.
SpansIn(a, b) == {s \in Spans : a <= s.start /\ s.start < s.end /\ s.end <= b}

\* The ticks up to the horizon.
LEMMA HorizonTyped == Horizon \in Nat /\ Tick = 0 .. Horizon - 1 /\ Tick \subseteq Nat
  BY StoreAssumption DEF Horizon, Tick

\* What a span of a window is.
LEMMA SpansInTyped ==
  ASSUME NEW a, NEW b, NEW s \in SpansIn(a, b)
  PROVE  /\ s \in Spans /\ s.start \in Nat /\ s.end \in Nat
         /\ s.start \in 0 .. Horizon /\ s.end \in 0 .. Horizon
         /\ a <= s.start /\ s.start < s.end /\ s.end <= b
         /\ s = Span(s.start, s.end)
  BY HorizonTyped DEF SpansIn, Spans, Span

\* A span that is within a window.
LEMMA SpanMade ==
  ASSUME NEW a \in Nat, NEW b \in 0 .. Horizon,
         NEW start \in Int, NEW end \in Int, start <= a, a < b, b <= end
  PROVE  Span(a, b) \in SpansIn(start, end)
<1>1. a \in 0 .. Horizon
  BY HorizonTyped
<1>2. Span(a, b) \in Spans /\ Span(a, b).start = a /\ Span(a, b).end = b
  BY <1>1 DEF Spans, Span
<1> QED BY <1>2 DEF SpansIn

\* The fields and the ticks of a span.
LEMMA SpanTicks ==
  ASSUME NEW a, NEW b
  PROVE  Span(a, b).start = a /\ Span(a, b).end = b /\ Ticks(Span(a, b)) = a .. b - 1
  BY DEF Span, Ticks

\* A set of spans has a size.
LEMMA SpansFinite ==
  ASSUME NEW S, S \subseteq Spans
  PROVE  IsFiniteSet(S) /\ Cardinality(S) \in Nat
<1> DEFINE D == 0 .. Horizon
           f == [p \in D \X D |-> [start |-> p[1], end |-> p[2]]]
<1>1. IsFiniteSet(D)
  BY HorizonTyped, FS_Interval
<1>2. f \in Surjection(D \X D, Spans)
  <2>1. f \in [D \X D -> Spans]
    BY DEF Spans
  <2>2. ASSUME NEW s \in Spans PROVE \E p \in D \X D : f[p] = s
    <3>1. <<s.start, s.end>> \in D \X D /\ s = [start |-> s.start, end |-> s.end]
      BY DEF Spans
    <3>2. f[<<s.start, s.end>>] = s
      BY <3>1
    <3> QED BY <3>1, <3>2
  <2> HIDE DEF f
  <2> QED BY <2>1, <2>2 DEF Surjection
<1>3. IsFiniteSet(D \X D)
  <2> HIDE DEF D
  <2> QED BY <1>1, FS_Product
<1>4. IsFiniteSet(Spans)
  <2> HIDE DEF D, f
  <2> QED BY <1>2, <1>3, FS_Surjection
<1> QED BY <1>4, FS_Subset, FS_CardinalityType

\* Spans that begin in order.
InOrder(s) == \A i, j \in DOMAIN s : i <= j => s[i].start <= s[j].start

\* The segments that lie before one are fewer for an earlier one: every place of the
\* sorted sequence has one segment.
LEMMA SortedIsSorted ==
  ASSUME NEW S, S \subseteq Spans
  PROVE  /\ Sorted(S) \in Seq(S)
         /\ ToSet(Sorted(S)) = S
         /\ InOrder(Sorted(S))
<1> DEFINE n == Cardinality(S)
           ahead(s) == {r \in S : Before(r, s)}
           rank == [s \in S |-> Cardinality(ahead(s))]
<1>1. IsFiniteSet(S) /\ n \in Nat
  BY SpansFinite
<1>2. \A s \in S : s.start \in Nat /\ s.end \in Nat /\ s = [start |-> s.start, end |-> s.end]
  BY HorizonTyped DEF Spans
<1>3. \A s \in S : IsFiniteSet(ahead(s)) /\ Cardinality(ahead(s)) \in Nat
  BY SpansFinite
<1>4. \A s \in S : s \notin ahead(s)
  BY <1>2 DEF Before
<1>5. ASSUME NEW s \in S, NEW r \in S, Before(r, s)
      PROVE  rank[r] < rank[s]
  <2>1. ahead(r) \subseteq ahead(s)
    <3> SUFFICES ASSUME NEW x \in S, Before(x, r) PROVE Before(x, s)
      OBVIOUS
    <3> QED BY <1>2, <1>5 DEF Before
  <2>2. r \in ahead(s) /\ r \notin ahead(r)
    BY <1>4, <1>5
  <2>3. Cardinality(ahead(r)) <= Cardinality(ahead(s))
        /\ Cardinality(ahead(r)) # Cardinality(ahead(s))
    <3> HIDE DEF ahead
    <3> QED BY <1>3, <2>1, <2>2, FS_Subset
  <2>4. Cardinality(ahead(r)) \in Nat /\ Cardinality(ahead(s)) \in Nat
    BY <1>3
  <2> HIDE DEF ahead
  <2> QED BY <2>3, <2>4
<1>6. ASSUME NEW s \in S, NEW r \in S, s # r
      PROVE  Before(r, s) \/ Before(s, r)
  BY <1>2, <1>6 DEF Before
<1>7. rank \in [S -> 0 .. n - 1]
  <2> SUFFICES ASSUME NEW s \in S PROVE Cardinality(ahead(s)) \in 0 .. n - 1
    OBVIOUS
  <2>1. ahead(s) \subseteq S /\ ahead(s) # S
    BY <1>4
  <2>2. Cardinality(ahead(s)) <= n /\ Cardinality(ahead(s)) # n
    <3> HIDE DEF ahead
    <3> QED BY <1>1, <2>1, FS_Subset
  <2>3. Cardinality(ahead(s)) \in Nat
    BY <1>3
  <2> HIDE DEF ahead, n
  <2> QED BY <1>1, <2>2, <2>3
<1>8. \A s \in S : rank[s] = Cardinality({r \in S : Before(r, s)})
  OBVIOUS
<1> HIDE DEF rank
<1>9. \A s, r \in S : rank[s] = rank[r] => s = r
  <2> SUFFICES ASSUME NEW s \in S, NEW r \in S, rank[s] = rank[r], s # r PROVE FALSE
    OBVIOUS
  <2>1. rank[s] \in Int /\ rank[r] \in Int
    BY <1>7
  <2> QED BY <1>5, <1>6, <2>1
<1>10. rank \in Surjection(S, 0 .. n - 1)
  <2>1. rank \in Injection(S, 0 .. n - 1)
    BY <1>7, <1>9 DEF Injection, IsInjective
  <2>2. IsFiniteSet(0 .. n - 1) /\ Cardinality(0 .. n - 1) = n
    BY <1>1, FS_Interval
  <2> HIDE DEF n
  <2>3. Cardinality(S) = n
    BY DEF n
  <2> QED BY <2>1, <2>2, <2>3, FS_Injection
<1>11. \A i \in 1 .. n : \E s \in S : rank[s] = i - 1
  <2> SUFFICES ASSUME NEW i \in 1 .. n PROVE \E s \in S : rank[s] = i - 1
    OBVIOUS
  <2>1. i - 1 \in 0 .. n - 1
    BY <1>1
  <2> QED BY <1>10, <2>1 DEF Surjection
<1>12. Sorted(S) = [i \in 1 .. n |-> CHOOSE s \in S : rank[s] = i - 1]
  BY <1>8 DEF Sorted
<1>13. \A i \in 1 .. n : Sorted(S)[i] \in S /\ rank[Sorted(S)[i]] = i - 1
  BY <1>11, <1>12
<1>14. Sorted(S) \in Seq(S) /\ DOMAIN Sorted(S) = 1 .. n
  BY <1>1, <1>12, <1>13
<1>15. ASSUME NEW s \in S PROVE s \in ToSet(Sorted(S))
  <2>1. rank[s] \in 0 .. n - 1
    BY <1>7
  <2>2. rank[s] + 1 \in 1 .. n /\ (rank[s] + 1) - 1 = rank[s]
    BY <1>1, <2>1
  <2>3. Sorted(S)[rank[s] + 1] = s
    BY <1>9, <1>13, <2>2
  <2> QED BY <1>14, <2>2, <2>3 DEF ToSet
<1>16. ASSUME NEW i \in 1 .. n, NEW j \in 1 .. n, i <= j
       PROVE  Sorted(S)[i].start <= Sorted(S)[j].start
  <2> DEFINE s == Sorted(S)[i]
             r == Sorted(S)[j]
  <2>1. s \in S /\ r \in S /\ rank[s] = i - 1 /\ rank[r] = j - 1
    BY <1>13
  <2>2. ~(rank[r] < rank[s])
    BY <1>1, <1>16, <2>1
  <2> HIDE DEF s, r
  <2>3. s = r \/ Before(s, r)
    BY <1>5, <1>6, <2>1, <2>2
  <2>4. s.start <= r.start
    BY <1>2, <2>1, <2>3 DEF Before
  <2> QED BY <2>4 DEF s, r
<1>17. ToSet(Sorted(S)) = S
  BY <1>13, <1>14, <1>15 DEF ToSet
<1>18. InOrder(Sorted(S))
  <2> HIDE DEF n
  <2> QED BY <1>14, <1>16 DEF InOrder
<1> QED BY <1>14, <1>17, <1>18

-----------------------------------------------------------------------------
(* Sequences of spans *)

\* What is in a sequence: nothing in the empty one.
LEMMA SetOfNone == ToSet(<<>>) = {}
  BY DEF ToSet

\* An element that is appended.
LEMMA SetOfAppend ==
  ASSUME NEW T, NEW s \in Seq(T), NEW e \in T
  PROVE  /\ Append(s, e) \in Seq(T) /\ Append(s, e) # <<>>
         /\ ToSet(Append(s, e)) = ToSet(s) \cup {e}
         /\ Last(Append(s, e)) = e
<1>1. Len(s) \in Nat /\ DOMAIN s = 1 .. Len(s)
  OBVIOUS
<1>2. Append(s, e) \in Seq(T) /\ Len(Append(s, e)) = Len(s) + 1
  OBVIOUS
<1>3. \A i \in 1 .. Len(s) : Append(s, e)[i] = s[i]
  OBVIOUS
<1>4. Append(s, e)[Len(s) + 1] = e
  OBVIOUS
<1>5. DOMAIN Append(s, e) = 1 .. Len(s) + 1
  BY <1>2
<1> DEFINE a == Append(s, e)
<1> HIDE DEF a
<1>6. 1 .. Len(s) + 1 = (1 .. Len(s)) \cup {Len(s) + 1}
  BY <1>1
<1>7. ToSet(a) = ToSet(s) \cup {e}
  BY <1>1, <1>3, <1>4, <1>5, <1>6 DEF ToSet, a
<1>8. Last(a) = e
  BY <1>2, <1>4 DEF Last, a
<1>9. a # <<>>
  BY <1>1, <1>2 DEF a
<1> QED BY <1>2, <1>7, <1>8, <1>9 DEF a

\* The first element, and the rest.
LEMMA SetOfTail ==
  ASSUME NEW T, NEW s \in Seq(T), s # <<>>
  PROVE  /\ Head(s) \in T /\ Tail(s) \in Seq(T)
         /\ ToSet(s) = {Head(s)} \cup ToSet(Tail(s))
<1>1. Len(s) \in Nat /\ Len(s) >= 1 /\ DOMAIN s = 1 .. Len(s)
  OBVIOUS
<1>2. Head(s) = s[1] /\ Head(s) \in T /\ Tail(s) \in Seq(T)
  BY <1>1
<1>3. DOMAIN Tail(s) = 1 .. Len(s) - 1
  BY <1>1, <1>2
<1>4. \A i \in 1 .. Len(s) - 1 : Tail(s)[i] = s[i + 1]
  BY <1>1
<1> DEFINE u == Tail(s)
<1> HIDE DEF u
<1>5. \A x \in ToSet(s) : x = s[1] \/ x \in ToSet(u)
  <2> SUFFICES ASSUME NEW i \in 1 .. Len(s), i # 1 PROVE s[i] \in ToSet(u)
    BY <1>1 DEF ToSet
  <2>1. i - 1 \in 1 .. Len(s) - 1 /\ (i - 1) + 1 = i
    BY <1>1
  <2>2. u[i - 1] = s[i]
    BY <1>4, <2>1 DEF u
  <2> QED BY <1>3, <2>1, <2>2 DEF ToSet, u
<1>6. s[1] \in ToSet(s)
  BY <1>1 DEF ToSet
<1>7. \A x \in ToSet(u) : x \in ToSet(s)
  <2> SUFFICES ASSUME NEW i \in 1 .. Len(s) - 1 PROVE u[i] \in ToSet(s)
    BY <1>3 DEF ToSet, u
  <2>1. i + 1 \in 1 .. Len(s)
    BY <1>1
  <2> QED BY <1>1, <1>4, <2>1 DEF ToSet, u
<1> QED BY <1>2, <1>5, <1>6, <1>7 DEF u

\* All but the last element, and the last.
LEMMA SetOfFront ==
  ASSUME NEW T, NEW s \in Seq(T), s # <<>>
  PROVE  /\ Front(s) \in Seq(T) /\ Last(s) \in T
         /\ ToSet(s) = ToSet(Front(s)) \cup {Last(s)}
<1>1. Len(s) \in Nat /\ Len(s) >= 1 /\ DOMAIN s = 1 .. Len(s)
  OBVIOUS
<1> DEFINE u == Front(s)
<1>2. u = [i \in 1 .. Len(s) - 1 |-> s[i]]
  BY <1>1 DEF Front
<1> HIDE DEF u
<1>3. \A i \in 1 .. Len(s) : s[i] \in T
  BY <1>1
<1>4. u \in Seq(T)
  BY <1>1, <1>2, <1>3
<1>5. 1 .. Len(s) = (1 .. Len(s) - 1) \cup {Len(s)}
  BY <1>1
<1>6. ToSet(s) = ToSet(u) \cup {s[Len(s)]}
  BY <1>1, <1>2, <1>5 DEF ToSet
<1>7. s[Len(s)] \in T
  BY <1>1, <1>3
<1> QED BY <1>4, <1>6, <1>7 DEF Last, u

-----------------------------------------------------------------------------
(* Loops *)

\* The loop over the segments has a state after each of them.
LEMMA SweepRuns ==
  ASSUME NEW start, NEW segments \in Seq(Spans)
  PROVE  \E acc :
            /\ acc[0] = [cursor |-> start, gaps |-> <<>>]
            /\ \A i \in 1 .. Len(segments) : acc[i] = Sweep(acc[i - 1], segments[i])
            /\ Swept(start, segments) = acc[Len(segments)]
<1> DEFINE first == [cursor |-> start, gaps |-> <<>>]
           n == Len(segments)
           upto(m) == \E g : g = [i \in 0 .. m |-> IF i = 0 THEN first ELSE Sweep(g[i - 1], segments[i])]
           bad == {m \in 0 .. n : ~upto(m)}
<1>1. n \in Nat
  OBVIOUS
<1> HIDE DEF first
<1>2. bad = {}
  <2> SUFFICES ASSUME bad # {} PROVE FALSE
    OBVIOUS
  <2>1. PICK m \in bad : \A b \in bad : m <= b
    <3>1. bad \subseteq Nat
      BY <1>1
    <3> HIDE DEF bad
    <3> QED BY <3>1, LeastOf
  <2>2. m \in 0 .. n /\ ~upto(m)
    OBVIOUS
  <2>3. m # 0
    <3> DEFINE g == [i \in 0 .. 0 |-> first]
    <3>1. g = [i \in 0 .. 0 |-> IF i = 0 THEN first ELSE Sweep(g[i - 1], segments[i])]
      OBVIOUS
    <3>2. upto(0)
      <4> HIDE DEF g
      <4> QED BY <3>1
    <3> QED BY <2>2, <3>2
  <2>4. m - 1 \in 0 .. n /\ ~(m <= m - 1)
    BY <1>1, <2>2, <2>3
  <2>5. upto(m - 1)
    BY <2>1, <2>4
  <2>6. PICK g : g = [i \in 0 .. m - 1 |-> IF i = 0 THEN first ELSE Sweep(g[i - 1], segments[i])]
    BY <2>5
  <2> DEFINE h == [i \in 0 .. m |-> IF i = m THEN Sweep(g[m - 1], segments[m]) ELSE g[i]]
  <2>7. \A i \in 0 .. m - 1 : h[i] = g[i]
    BY <2>4
  <2>8. \A i \in 0 .. m - 1 : g[i] = IF i = 0 THEN first ELSE Sweep(g[i - 1], segments[i])
    <3> HIDE DEF h
    <3> QED BY <2>6
  <2>9. \A i \in 0 .. m : h[i] = IF i = 0 THEN first ELSE Sweep(h[i - 1], segments[i])
    <3> SUFFICES ASSUME NEW i \in 0 .. m
                 PROVE  h[i] = IF i = 0 THEN first ELSE Sweep(h[i - 1], segments[i])
      OBVIOUS
    <3>1. CASE i = m
      <4>1. h[i] = Sweep(g[i - 1], segments[i]) /\ i # 0 /\ i - 1 \in 0 .. m - 1
        BY <2>2, <2>3, <3>1
      <4> HIDE DEF h
      <4> QED BY <2>7, <4>1
    <3>2. CASE i # m
      <4>1. i \in 0 .. m - 1 /\ (i # 0 => i - 1 \in 0 .. m - 1)
        BY <2>2, <3>2
      <4> HIDE DEF h
      <4> QED BY <2>7, <2>8, <4>1
    <3> QED BY <3>1, <3>2
  <2>10. h = [i \in 0 .. m |-> h[i]]
    OBVIOUS
  <2> HIDE DEF h
  <2>11. h = [i \in 0 .. m |-> IF i = 0 THEN first ELSE Sweep(h[i - 1], segments[i])]
    BY <2>9, <2>10
  <2> QED BY <2>2, <2>11
<1>3. upto(n)
  <2> HIDE DEF upto
  <2> QED BY <1>1, <1>2
<1> DEFINE acc == CHOOSE g : g = [i \in 0 .. n |-> IF i = 0 THEN first ELSE Sweep(g[i - 1], segments[i])]
<1>4. acc = [i \in 0 .. n |-> IF i = 0 THEN first ELSE Sweep(acc[i - 1], segments[i])]
  BY <1>3
<1>5. Swept(start, segments) = acc[n]
  BY DEF Swept, first
<1> HIDE DEF acc
<1>6. acc[0] = first /\ \A i \in 1 .. n : acc[i] = Sweep(acc[i - 1], segments[i])
  BY <1>1, <1>4
<1> QED BY <1>5, <1>6 DEF first

\* The join runs along its segments; the least counterexample shows it.
LEMMA JoinRuns ==
  ASSUME NEW segments \in Seq(Spans)
  PROVE  \E out :
            /\ out[0] = <<>>
            /\ \A i \in 1 .. Len(segments) : out[i] = Join(out[i - 1], segments[i])
            /\ Joined(segments) = out[Len(segments)]
<1> DEFINE n == Len(segments)
           upto(m) == \E g : g = [i \in 0 .. m |-> IF i = 0 THEN <<>> ELSE Join(g[i - 1], segments[i])]
           bad == {m \in 0 .. n : ~upto(m)}
<1>1. n \in Nat
  OBVIOUS
<1>2. bad = {}
  <2> SUFFICES ASSUME bad # {} PROVE FALSE
    OBVIOUS
  <2>1. PICK m \in bad : \A b \in bad : m <= b
    <3>1. bad \subseteq Nat
      BY <1>1
    <3> HIDE DEF bad
    <3> QED BY <3>1, LeastOf
  <2>2. m \in 0 .. n /\ ~upto(m)
    OBVIOUS
  <2>3. m # 0
    <3> DEFINE g == [i \in 0 .. 0 |-> <<>>]
    <3>1. g = [i \in 0 .. 0 |-> IF i = 0 THEN <<>> ELSE Join(g[i - 1], segments[i])]
      OBVIOUS
    <3>2. upto(0)
      <4> HIDE DEF g
      <4> QED BY <3>1
    <3> QED BY <2>2, <3>2
  <2>4. m - 1 \in 0 .. n /\ ~(m <= m - 1)
    BY <1>1, <2>2, <2>3
  <2>5. upto(m - 1)
    BY <2>1, <2>4
  <2>6. PICK g : g = [i \in 0 .. m - 1 |-> IF i = 0 THEN <<>> ELSE Join(g[i - 1], segments[i])]
    BY <2>5
  <2> DEFINE h == [i \in 0 .. m |-> IF i = m THEN Join(g[m - 1], segments[m]) ELSE g[i]]
  <2>7. \A i \in 0 .. m - 1 : h[i] = g[i]
    BY <2>4
  <2>8. \A i \in 0 .. m - 1 : g[i] = IF i = 0 THEN <<>> ELSE Join(g[i - 1], segments[i])
    <3> HIDE DEF h
    <3> QED BY <2>6
  <2>9. \A i \in 0 .. m : h[i] = IF i = 0 THEN <<>> ELSE Join(h[i - 1], segments[i])
    <3> SUFFICES ASSUME NEW i \in 0 .. m
                 PROVE  h[i] = IF i = 0 THEN <<>> ELSE Join(h[i - 1], segments[i])
      OBVIOUS
    <3>1. CASE i = m
      <4>1. h[i] = Join(g[i - 1], segments[i]) /\ i # 0 /\ i - 1 \in 0 .. m - 1
        BY <2>2, <2>3, <3>1
      <4> HIDE DEF h
      <4> QED BY <2>7, <4>1
    <3>2. CASE i # m
      <4>1. i \in 0 .. m - 1 /\ (i # 0 => i - 1 \in 0 .. m - 1)
        BY <2>2, <3>2
      <4> HIDE DEF h
      <4> QED BY <2>7, <2>8, <4>1
    <3> QED BY <3>1, <3>2
  <2>10. h = [i \in 0 .. m |-> h[i]]
    OBVIOUS
  <2> HIDE DEF h
  <2>11. h = [i \in 0 .. m |-> IF i = 0 THEN <<>> ELSE Join(h[i - 1], segments[i])]
    BY <2>9, <2>10
  <2> QED BY <2>2, <2>11
<1>3. upto(n)
  <2> HIDE DEF upto
  <2> QED BY <1>1, <1>2
<1> DEFINE out == CHOOSE g : g = [i \in 0 .. n |-> IF i = 0 THEN <<>> ELSE Join(g[i - 1], segments[i])]
<1>4. out = [i \in 0 .. n |-> IF i = 0 THEN <<>> ELSE Join(out[i - 1], segments[i])]
  BY <1>3
<1>5. Joined(segments) = out[n]
  BY DEF Joined
<1> HIDE DEF out
<1>6. out[0] = <<>> /\ \A i \in 1 .. n : out[i] = Join(out[i - 1], segments[i])
  BY <1>1, <1>4
<1> QED BY <1>5, <1>6

-----------------------------------------------------------------------------
(* Segments in a window *)

\* Nothing is covered by an empty segment, and nothing lies beyond the last year.
Proper(S) == \A s \in S : s.start \in 0 .. Horizon /\ s.end \in 0 .. Horizon /\ s.start < s.end

\* Spans of a window are proper.
LEMMA SpansAreProper ==
  ASSUME NEW a, NEW b, NEW S, S \subseteq SpansIn(a, b)
  PROVE  Proper(S) /\ S \subseteq Spans
  BY SpansInTyped DEF Proper

\* The rows of the index are proper, and on the grid.
LEMMA SegmentsAreProper ==
  ASSUME NEW S, S \subseteq Segment
  PROVE  Proper(S) /\ AllAligned(S)
  BY SegmentTyped DEF Proper, AllAligned, Horizon

\* A segment that is cut to a window keeps its ticks of the window.
LEMMA ClipCuts ==
  ASSUME NEW s, s.start \in 0 .. Horizon, s.end \in 0 .. Horizon, s.start < s.end,
         NEW a \in 0 .. Horizon, NEW b \in 0 .. Horizon, a < b
  PROVE  /\ Meets(s, a, b) =>
              /\ Clip(s, a, b) \in SpansIn(a, b)
              /\ Clip(s, a, b) \in SpansIn(s.start, s.end)
              /\ Ticks(Clip(s, a, b)) = Ticks(s) \cap (a .. b - 1)
              /\ Clip(s, a, b).start = IF s.start <= a THEN a ELSE s.start
              /\ Clip(s, a, b).end = IF s.end <= b THEN s.end ELSE b
         /\ ~Meets(s, a, b) => Ticks(s) \cap (a .. b - 1) = {}
<1> DEFINE lo == IF s.start <= a THEN a ELSE s.start
           hi == IF s.end <= b THEN s.end ELSE b
<1>1. Horizon \in Nat /\ s.start \in Nat /\ s.end \in Nat /\ a \in Nat /\ b \in Nat
  BY HorizonTyped
<1>2. Clip(s, a, b) = Span(lo, hi)
  <2>1. s.start \in Int /\ s.end \in Int /\ a \in Int /\ b \in Int
    BY <1>1
  <2>2. Max({s.start, a}) = lo
    BY <2>1, MaxOfTwo
  <2>3. Min({s.end, b}) = hi
    BY <2>1, MinOfTwo
  <2> QED BY <2>2, <2>3 DEF Clip
<1>3. ASSUME ~Meets(s, a, b) PROVE Ticks(s) \cap (a .. b - 1) = {}
  BY <1>1, <1>3 DEF Meets, Ticks
<1>4. ASSUME Meets(s, a, b)
      PROVE  /\ Span(lo, hi) \in SpansIn(a, b) /\ Span(lo, hi) \in SpansIn(s.start, s.end)
             /\ Ticks(Span(lo, hi)) = Ticks(s) \cap (a .. b - 1)
  <2>1. lo \in Nat /\ hi \in 0 .. Horizon /\ lo < hi
        /\ a <= lo /\ s.start <= lo /\ hi <= b /\ hi <= s.end
    BY <1>1, <1>4 DEF Meets
  <2>2. lo .. hi - 1 = (s.start .. s.end - 1) \cap (a .. b - 1)
    BY <1>1
  <2> HIDE DEF lo, hi
  <2> QED BY <1>1, <2>1, <2>2, SpanMade, SpanTicks DEF Ticks
<1> QED BY <1>2, <1>3, <1>4, SpanTicks

\* The segments that are cut to a window keep their ticks of the window.
LEMMA ClippedSound ==
  ASSUME NEW S, Proper(S), NEW a \in 0 .. Horizon, NEW b \in 0 .. Horizon, a < b
  PROVE  /\ Clipped(S, a, b) \subseteq SpansIn(a, b)
         /\ TicksOf(Clipped(S, a, b)) = TicksOf(S) \cap (a .. b - 1)
         /\ AllAligned(S) /\ Aligned(a) /\ Aligned(b) => AllAligned(Clipped(S, a, b))
<1>1. \A s \in S : /\ s.start \in 0 .. Horizon /\ s.end \in 0 .. Horizon /\ s.start < s.end
  BY DEF Proper
<1>2. \A x : x \in Clipped(S, a, b) <=> \E s \in S : Meets(s, a, b) /\ x = Clip(s, a, b)
  BY DEF Clipped
<1>3. Clipped(S, a, b) \subseteq SpansIn(a, b)
  BY <1>1, <1>2, ClipCuts
<1>4. ASSUME NEW t
      PROVE  t \in TicksOf(Clipped(S, a, b)) <=> t \in TicksOf(S) \cap (a .. b - 1)
  <2>1. \A s \in S : Meets(s, a, b) => (t \in Ticks(Clip(s, a, b)) <=> t \in Ticks(s) \cap (a .. b - 1))
    BY <1>1, ClipCuts
  <2>2. \A s \in S : ~Meets(s, a, b) => t \notin Ticks(s) \cap (a .. b - 1)
    BY <1>1, ClipCuts
  <2>3. t \in TicksOf(Clipped(S, a, b)) <=> \E x \in Clipped(S, a, b) : t \in Ticks(x)
    BY InTicksOf
  <2>4. t \in TicksOf(S) <=> \E s \in S : t \in Ticks(s)
    BY InTicksOf
  <2> QED BY <1>2, <2>1, <2>2, <2>3, <2>4
<1>5. ASSUME AllAligned(S), Aligned(a), Aligned(b), NEW x \in Clipped(S, a, b)
      PROVE  Aligned(x.start) /\ Aligned(x.end)
  <2>1. PICK s \in S : Meets(s, a, b) /\ x = Clip(s, a, b)
    BY <1>2
  <2>2. x.start \in {a, s.start} /\ x.end \in {b, s.end}
    BY <1>1, <2>1, ClipCuts
  <2> QED BY <1>5, <2>2 DEF AllAligned
<1> QED BY <1>3, <1>4, <1>5 DEF AllAligned

-----------------------------------------------------------------------------
(* What is missing *)

\* What a sweep adds to the gaps is what lies between the cursor and a segment.
LEMMA GapAdds ==
  ASSUME NEW start \in 0 .. Horizon, NEW end \in 0 .. Horizon,
         NEW gaps \in Seq(SpansIn(start, end)),
         NEW from \in start .. end, NEW to \in start .. end
  PROVE  /\ Gap(gaps, from, to) \in Seq(SpansIn(start, end))
         /\ TicksOf(ToSet(Gap(gaps, from, to))) = TicksOf(ToSet(gaps)) \cup (from .. to - 1)
         /\ AllAligned(ToSet(gaps)) /\ Aligned(from) /\ Aligned(to) =>
                AllAligned(ToSet(Gap(gaps, from, to)))
<1>1. Horizon \in Nat /\ start \in Nat /\ end \in Nat /\ from \in Nat /\ to \in 0 .. Horizon
  BY HorizonTyped
<1>2. CASE from < to
  <2>1. Span(from, to) \in SpansIn(start, end)
    BY <1>1, <1>2, SpanMade
  <2>2. Gap(gaps, from, to) = Append(gaps, Span(from, to))
    BY <1>2 DEF Gap
  <2>3. /\ Gap(gaps, from, to) \in Seq(SpansIn(start, end))
        /\ ToSet(Gap(gaps, from, to)) = ToSet(gaps) \cup {Span(from, to)}
    BY <2>1, <2>2, SetOfAppend
  <2>4. TicksOf({Span(from, to)}) = from .. to - 1
    BY SpanTicks DEF TicksOf
  <2>5. TicksOf(ToSet(Gap(gaps, from, to))) = TicksOf(ToSet(gaps)) \cup (from .. to - 1)
    BY <2>3, <2>4, TicksOfUnion
  <2>6. Span(from, to).start = from /\ Span(from, to).end = to
    BY SpanTicks
  <2>7. AllAligned(ToSet(gaps)) /\ Aligned(from) /\ Aligned(to) =>
            AllAligned(ToSet(gaps) \cup {Span(from, to)})
    BY <2>6 DEF AllAligned
  <2> QED BY <2>3, <2>5, <2>7
<1>3. CASE ~(from < to)
  <2>1. from .. to - 1 = {}
    BY <1>1, <1>3
  <2> QED BY <1>3, <2>1 DEF Gap
<1> QED BY <1>2, <1>3

\* Behind each segment the gaps are what the segments so far leave of the window up to
\* the cursor; no later segment begins before an earlier one, so none reaches back.
LEMMA SweptGaps ==
  ASSUME NEW start \in 0 .. Horizon, NEW end \in 0 .. Horizon, start < end,
         NEW segments \in Seq(SpansIn(start, end)), InOrder(segments)
  PROVE  LET swept == Swept(start, segments)
         IN  /\ swept.cursor \in start .. end
             /\ swept.gaps \in Seq(SpansIn(start, end))
             /\ TicksOf(ToSet(swept.gaps)) = (start .. swept.cursor - 1) \ TicksOf(ToSet(segments))
             /\ TicksOf(ToSet(segments)) \subseteq start .. swept.cursor - 1
             /\ Aligned(start) /\ AllAligned(ToSet(segments)) =>
                    Aligned(swept.cursor) /\ AllAligned(ToSet(swept.gaps))
<1> DEFINE n == Len(segments)
           T == SpansIn(start, end)
           firsts(i) == {segments[j] : j \in 1 .. i}
           sound(a, i) ==
               /\ a.cursor \in start .. end
               /\ a.gaps \in Seq(T)
               /\ TicksOf(ToSet(a.gaps)) = (start .. a.cursor - 1) \ TicksOf(firsts(i))
               /\ TicksOf(firsts(i)) \subseteq start .. a.cursor - 1
               /\ a.cursor = start \/ \E j \in 1 .. i : a.cursor = segments[j].end
               /\ Aligned(start) /\ AllAligned(ToSet(segments)) =>
                      Aligned(a.cursor) /\ AllAligned(ToSet(a.gaps))
<1>1. n \in Nat /\ DOMAIN segments = 1 .. n /\ \A i \in 1 .. n : segments[i] \in T
  OBVIOUS
<1>2. Horizon \in Nat /\ start \in Nat /\ end \in Nat
  BY HorizonTyped
<1>3. segments \in Seq(Spans)
  <2>1. T \subseteq Spans
    BY DEF SpansIn
  <2> QED BY <1>1, <2>1
<1>4. PICK acc :
         /\ acc[0] = [cursor |-> start, gaps |-> <<>>]
         /\ \A i \in 1 .. n : acc[i] = Sweep(acc[i - 1], segments[i])
         /\ Swept(start, segments) = acc[n]
  BY <1>3, SweepRuns
<1>5. sound(acc[0], 0)
  <2>1. firsts(0) = {} /\ TicksOf({}) = {}
    BY DEF TicksOf
  <2>2. acc[0].cursor = start /\ acc[0].gaps = <<>>
    BY <1>4
  <2>3. ToSet(<<>>) = {} /\ <<>> \in Seq(T)
    BY SetOfNone
  <2>4. start .. start - 1 = {} /\ start \in start .. end
    BY <1>2
  <2> HIDE DEF T
  <2> QED BY <2>1, <2>2, <2>3, <2>4 DEF AllAligned
<1>6. ASSUME NEW i \in 1 .. n, sound(acc[i - 1], i - 1)
      PROVE  sound(acc[i], i)
  <2> DEFINE a == acc[i - 1]
             s == segments[i]
  <2>1. /\ s \in T /\ s.start \in Nat /\ s.end \in 0 .. Horizon
        /\ start <= s.start /\ s.start < s.end /\ s.end <= end
    BY <1>1, SpansInTyped
  <2>2. /\ acc[i].cursor = (IF a.cursor <= s.end THEN s.end ELSE a.cursor)
        /\ acc[i].gaps = Gap(a.gaps, a.cursor, s.start)
    <3>1. acc[i] = Sweep(a, s)
      BY <1>4
    <3>2. a.cursor \in Int /\ s.end \in Int
      BY <1>2, <1>6, <2>1
    <3>3. Max({a.cursor, s.end}) = IF a.cursor <= s.end THEN s.end ELSE a.cursor
      <4> HIDE DEF a, s
      <4> QED BY <3>2, MaxOfTwo
    <3> HIDE DEF a, s
    <3> QED BY <3>1, <3>3 DEF Sweep
  <2>3. /\ a.cursor \in start .. end /\ a.gaps \in Seq(T)
        /\ TicksOf(ToSet(a.gaps)) = (start .. a.cursor - 1) \ TicksOf(firsts(i - 1))
        /\ TicksOf(firsts(i - 1)) \subseteq start .. a.cursor - 1
        /\ a.cursor = start \/ \E j \in 1 .. i - 1 : a.cursor = segments[j].end
        /\ Aligned(start) /\ AllAligned(ToSet(segments)) =>
               Aligned(a.cursor) /\ AllAligned(ToSet(a.gaps))
    BY <1>6
  <2>4. firsts(i) = firsts(i - 1) \cup {s}
    <3>1. 1 .. i = (1 .. i - 1) \cup {i}
      BY <1>1
    <3> QED BY <3>1
  <2>5. TicksOf(firsts(i)) = TicksOf(firsts(i - 1)) \cup (s.start .. s.end - 1)
    <3>1. TicksOf({s}) = s.start .. s.end - 1
      BY DEF TicksOf, Ticks
    <3> HIDE DEF firsts, s
    <3>2. TicksOf(firsts(i - 1) \cup {s}) = TicksOf(firsts(i - 1)) \cup TicksOf({s})
      BY TicksOfUnion
    <3> QED BY <2>4, <3>1, <3>2
  <2>6. \A x \in s.start .. a.cursor - 1 : x \in TicksOf(firsts(i - 1))
    <3> SUFFICES ASSUME NEW x \in s.start .. a.cursor - 1 PROVE x \in TicksOf(firsts(i - 1))
      OBVIOUS
    <3>1. a.cursor # start
      BY <1>2, <2>1, <2>3
    <3>2. PICK j \in 1 .. i - 1 : a.cursor = segments[j].end
      BY <2>3, <3>1
    <3>3. j \in 1 .. n /\ j <= i /\ segments[j] \in firsts(i - 1)
      BY <1>1
    <3>4. segments[j].start <= s.start /\ segments[j].start \in Nat
      BY <1>1, <3>3, SpansInTyped DEF InOrder
    <3>5. x \in Ticks(segments[j])
      BY <2>1, <2>3, <3>2, <3>4 DEF Ticks
    <3> HIDE DEF firsts
    <3> QED BY <3>3, <3>5, InTicksOf
  <2>7. /\ acc[i].gaps \in Seq(T)
        /\ TicksOf(ToSet(acc[i].gaps)) = TicksOf(ToSet(a.gaps)) \cup (a.cursor .. s.start - 1)
        /\ AllAligned(ToSet(a.gaps)) /\ Aligned(a.cursor) /\ Aligned(s.start) =>
               AllAligned(ToSet(acc[i].gaps))
    <3>1. s.start \in start .. end
      BY <1>2, <2>1
    <3> DEFINE g == Gap(a.gaps, a.cursor, s.start)
    <3>2. /\ g \in Seq(T)
          /\ TicksOf(ToSet(g)) = TicksOf(ToSet(a.gaps)) \cup (a.cursor .. s.start - 1)
          /\ AllAligned(ToSet(a.gaps)) /\ Aligned(a.cursor) /\ Aligned(s.start) =>
                 AllAligned(ToSet(g))
      <4> HIDE DEF a, s
      <4> QED BY <2>3, <3>1, GapAdds
    <3> QED BY <2>2, <3>2
  <2>8. s \in ToSet(segments)
    BY <1>1 DEF ToSet
  <2>9. Aligned(start) /\ AllAligned(ToSet(segments)) =>
            Aligned(acc[i].cursor) /\ AllAligned(ToSet(acc[i].gaps))
    <3> HIDE DEF a, s
    <3> QED BY <2>2, <2>3, <2>7, <2>8 DEF AllAligned
  <2>10. acc[i].cursor \in start .. end
    <3> HIDE DEF a, s
    <3> QED BY <1>2, <2>1, <2>2, <2>3
  <2>11. acc[i].cursor = start \/ \E j \in 1 .. i : acc[i].cursor = segments[j].end
    <3>1. CASE acc[i].cursor = s.end
      BY <1>1, <3>1
    <3>2. CASE acc[i].cursor = a.cursor
      <4>1. 1 .. i - 1 \subseteq 1 .. i
        BY <1>1
      <4> HIDE DEF a, s
      <4> QED BY <2>3, <3>2, <4>1
    <3> HIDE DEF a, s
    <3> QED BY <2>2, <3>1, <3>2
  <2> DEFINE A == TicksOf(firsts(i - 1))
             B == TicksOf(firsts(i))
             G == TicksOf(ToSet(a.gaps))
             c == a.cursor
             d == acc[i].cursor
             p == s.start
             r == s.end
  <2>12. B \subseteq start .. d - 1 /\ G \cup (c .. p - 1) = (start .. d - 1) \ B
    <3>1. /\ B = A \cup (p .. r - 1)
          /\ G = (start .. c - 1) \ A /\ A \subseteq start .. c - 1
          /\ \A x \in p .. c - 1 : x \in A
          /\ start \in Nat /\ c \in Nat /\ p \in Nat /\ r \in Nat /\ start <= p /\ p < r
          /\ start <= c
          /\ d = IF c <= r THEN r ELSE c
      <4> HIDE DEF a, s, firsts
      <4> QED BY <1>2, <2>1, <2>2, <2>3, <2>5, <2>6
    <3> HIDE DEF A, B, G, c, d, p, r
    <3> QED BY <3>1
  <2> HIDE DEF a, s, firsts, T
  <2> QED BY <2>7, <2>9, <2>10, <2>11, <2>12
<1> HIDE DEF sound
<1>7. \A i \in 0 .. n : sound(acc[i], i)
  <2> DEFINE bad == {i \in 0 .. n : ~sound(acc[i], i)}
  <2> SUFFICES ASSUME bad # {} PROVE FALSE
    OBVIOUS
  <2>1. bad \subseteq Nat
    BY <1>1
  <2>2. PICK i \in bad : \A b \in bad : i <= b
    <3> HIDE DEF bad
    <3> QED BY <2>1, LeastOf
  <2>3. i # 0
    BY <1>5
  <2>4. i \in 1 .. n /\ i - 1 \in 0 .. n /\ ~(i <= i - 1)
    BY <1>1, <2>3
  <2>5. sound(acc[i - 1], i - 1)
    BY <2>2, <2>4
  <2> QED BY <1>6, <2>4, <2>5
<1>8. sound(acc[n], n)
  BY <1>1, <1>7
<1>9. firsts(n) = ToSet(segments)
  BY <1>1 DEF ToSet
<1> QED BY <1>4, <1>8, <1>9 DEF sound

\* A tick of the window is missing when no segment covers it.
LEMMA MissingSound ==
  ASSUME NEW S, Proper(S),
         NEW start \in 0 .. Horizon, NEW end \in 0 .. Horizon, start < end
  PROVE  LET gaps == computeMissingSegments(start, end, S)
         IN  /\ gaps \in Seq(SpansIn(start, end))
             /\ TicksOf(ToSet(gaps)) = (start .. end - 1) \ TicksOf(S)
             /\ AllAligned(S) /\ Aligned(start) /\ Aligned(end) => AllAligned(ToSet(gaps))
<1> DEFINE C == Clipped(S, start, end)
           segments == Sorted(C)
           swept == Swept(start, segments)
<1>1. /\ C \subseteq SpansIn(start, end)
      /\ TicksOf(C) = TicksOf(S) \cap (start .. end - 1)
      /\ AllAligned(S) /\ Aligned(start) /\ Aligned(end) => AllAligned(C)
  BY ClippedSound
<1>2. segments \in Seq(C) /\ ToSet(segments) = C /\ InOrder(segments)
  BY <1>1, SpansAreProper, SortedIsSorted
<1>3. segments \in Seq(SpansIn(start, end))
  BY <1>1, <1>2
<1> HIDE DEF C, segments
<1>4. /\ swept.cursor \in start .. end
      /\ swept.gaps \in Seq(SpansIn(start, end))
      /\ TicksOf(ToSet(swept.gaps)) = (start .. swept.cursor - 1) \ TicksOf(C)
      /\ TicksOf(C) \subseteq start .. swept.cursor - 1
      /\ Aligned(start) /\ AllAligned(C) =>
             Aligned(swept.cursor) /\ AllAligned(ToSet(swept.gaps))
  BY <1>2, <1>3, SweptGaps
<1> HIDE DEF swept
<1>5. computeMissingSegments(start, end, S) = Gap(swept.gaps, swept.cursor, end)
  BY DEF computeMissingSegments, swept, segments, C
<1> DEFINE gaps == Gap(swept.gaps, swept.cursor, end)
<1>6. start \in Nat /\ end \in Nat /\ end \in start .. end
  BY HorizonTyped
<1>7. /\ gaps \in Seq(SpansIn(start, end))
      /\ TicksOf(ToSet(gaps)) = TicksOf(ToSet(swept.gaps)) \cup (swept.cursor .. end - 1)
      /\ AllAligned(ToSet(swept.gaps)) /\ Aligned(swept.cursor) /\ Aligned(end) =>
             AllAligned(ToSet(gaps))
  BY <1>4, <1>6, GapAdds
<1> HIDE DEF gaps
<1>8. TicksOf(ToSet(gaps)) = (start .. end - 1) \ TicksOf(S)
  <2> DEFINE A == TicksOf(C)
             B == TicksOf(S)
             G == TicksOf(ToSet(swept.gaps))
             H == TicksOf(ToSet(gaps))
             c == swept.cursor
  <2>1. /\ A = B \cap (start .. end - 1) /\ G = (start .. c - 1) \ A
        /\ A \subseteq start .. c - 1 /\ c \in start .. end
        /\ H = G \cup (c .. end - 1)
    BY <1>1, <1>4, <1>7
  <2> HIDE DEF A, B, G, H, c
  <2>2. H = (start .. end - 1) \ B
    BY <1>6, <2>1
  <2> QED BY <2>2 DEF H, B
<1> QED BY <1>1, <1>4, <1>5, <1>7, <1>8 DEF gaps

-----------------------------------------------------------------------------
(* Segments of one year *)

\* A year is within the horizon.
LEMMA YearBounds ==
  ASSUME NEW y \in Year
  PROVE  /\ YearStart[y] \in 0 .. Horizon /\ YearStart[y + 1] \in 0 .. Horizon
         /\ YearStart[y] < YearStart[y + 1]
<1>1. Years \in Nat /\ y \in 0 .. Years /\ y + 1 \in 0 .. Years /\ Years \in 0 .. Years
  BY StoreAssumption DEF Year
<1>2. YearStart[y] <= YearStart[Years] /\ YearStart[y + 1] <= YearStart[Years]
  BY <1>1, YearsGrow
<1> QED BY <1>1, <1>2, StoreAssumption DEF Horizon

\* A segment that is split by year keeps its ticks.
LEMMA SplitSound ==
  ASSUME NEW a, NEW b, NEW s \in SpansIn(a, b), a \in Int, b \in Int
  PROVE  /\ splitCoverageSegmentByYear(s) \subseteq SpansIn(a, b)
         /\ TicksOf(splitCoverageSegmentByYear(s)) = Ticks(s)
<1> DEFINE lo(y) == YearStart[y]
           hi(y) == YearStart[y + 1]
<1>1. /\ s.start \in 0 .. Horizon /\ s.end \in 0 .. Horizon /\ s.start < s.end
      /\ a <= s.start /\ s.end <= b /\ s.start \in Nat /\ s.end \in Nat
  BY SpansInTyped
<1>2. \A x : x \in splitCoverageSegmentByYear(s) <=>
                 \E y \in Year : Meets(s, lo(y), hi(y)) /\ x = Clip(s, lo(y), hi(y))
  BY DEF splitCoverageSegmentByYear
<1>3. \A y \in Year : lo(y) \in 0 .. Horizon /\ hi(y) \in 0 .. Horizon /\ lo(y) < hi(y)
  BY YearBounds
<1> HIDE DEF lo, hi
<1>4. ASSUME NEW y \in Year
      PROVE  /\ Meets(s, lo(y), hi(y)) =>
                  /\ Clip(s, lo(y), hi(y)) \in SpansIn(s.start, s.end)
                  /\ Ticks(Clip(s, lo(y), hi(y))) = Ticks(s) \cap (lo(y) .. hi(y) - 1)
             /\ ~Meets(s, lo(y), hi(y)) => Ticks(s) \cap (lo(y) .. hi(y) - 1) = {}
  BY <1>1, <1>3, ClipCuts
<1>5. ASSUME NEW x \in splitCoverageSegmentByYear(s) PROVE x \in SpansIn(a, b)
  <2>1. x \in SpansIn(s.start, s.end)
    BY <1>2, <1>4
  <2>2. /\ x \in Spans /\ x.start \in Nat /\ x.end \in Nat
        /\ s.start <= x.start /\ x.start < x.end /\ x.end <= s.end
    BY <2>1, SpansInTyped
  <2>3. a <= x.start /\ x.end <= b
    BY <1>1, <2>2
  <2> QED BY <2>2, <2>3 DEF SpansIn
<1>6. ASSUME NEW t \in TicksOf(splitCoverageSegmentByYear(s)) PROVE t \in Ticks(s)
  <2>1. PICK x \in splitCoverageSegmentByYear(s) : t \in Ticks(x)
    BY <1>6, InTicksOf
  <2> QED BY <1>2, <1>4, <2>1
<1>7. ASSUME NEW t \in Ticks(s) PROVE t \in TicksOf(splitCoverageSegmentByYear(s))
  <2>1. t \in Nat /\ t \in Tick
    BY <1>1, HorizonTyped DEF Ticks
  <2> DEFINE y == YearOf(t)
  <2>2. y \in Year /\ lo(y) <= t /\ t < hi(y)
    BY <2>1, YearFound DEF lo, hi
  <2> HIDE DEF y
  <2>3. lo(y) \in Nat /\ hi(y) \in Nat
    BY <1>3, <2>2, HorizonTyped
  <2>4. t \in Ticks(s) \cap (lo(y) .. hi(y) - 1)
    BY <2>1, <2>2, <2>3
  <2>5. Meets(s, lo(y), hi(y)) /\ t \in Ticks(Clip(s, lo(y), hi(y)))
    BY <1>4, <2>2, <2>4
  <2> QED BY <1>2, <2>2, <2>5, InTicksOf
<1> QED BY <1>5, <1>6, <1>7

\* A segment that lies in a year is its own part.
LEMMA SplitOfYear ==
  ASSUME NEW a, NEW b, NEW s \in SpansIn(a, b), Aligned(s.start), Aligned(s.end),
         NEW y \in Year, YearStart[y] <= s.start, s.end <= YearStart[y + 1]
  PROVE  AllAligned(splitCoverageSegmentByYear(s))
<1>1. /\ s.start \in 0 .. Horizon /\ s.end \in 0 .. Horizon /\ s.start < s.end
      /\ s.start \in Nat /\ s.end \in Nat
  BY SpansInTyped
<1>2. Years \in Nat /\ \A z \in Year : z \in 0 .. Years /\ z + 1 \in 0 .. Years
  BY StoreAssumption DEF Year
<1>3. \A x \in 0 .. Years : YearStart[x] \in Nat
  BY StoreAssumption
<1> SUFFICES ASSUME NEW z \in Year, Meets(s, YearStart[z], YearStart[z + 1])
             PROVE  /\ Aligned(Clip(s, YearStart[z], YearStart[z + 1]).start)
                    /\ Aligned(Clip(s, YearStart[z], YearStart[z + 1]).end)
  BY DEF splitCoverageSegmentByYear, AllAligned
<1>4. s.end > YearStart[z] /\ s.start < YearStart[z + 1]
  BY DEF Meets
<1>5. ~(y < z)
  <2> SUFFICES ASSUME y < z PROVE FALSE
    OBVIOUS
  <2>1. YearStart[y + 1] <= YearStart[z]
    <3>1. y + 1 <= z
      BY <1>2
    <3> QED BY <1>2, <3>1, YearsGrow
  <2> QED BY <1>1, <1>2, <1>3, <1>4, <2>1
<1>6. ~(z < y)
  <2> SUFFICES ASSUME z < y PROVE FALSE
    OBVIOUS
  <2>1. YearStart[z + 1] <= YearStart[y]
    <3>1. z + 1 <= y
      BY <1>2
    <3> QED BY <1>2, <3>1, YearsGrow
  <2> QED BY <1>1, <1>2, <1>3, <1>4, <2>1
<1>7. z = y
  BY <1>2, <1>5, <1>6
<1> DEFINE lo == YearStart[y]
           hi == YearStart[y + 1]
<1>8. lo \in 0 .. Horizon /\ hi \in 0 .. Horizon /\ lo < hi
  BY YearBounds
<1>9. lo \in Nat /\ hi \in Nat /\ lo <= s.start /\ s.end <= hi /\ Meets(s, lo, hi)
  BY <1>2, <1>3, <1>7
<1> HIDE DEF lo, hi
<1>10. /\ Clip(s, lo, hi).start = IF s.start <= lo THEN lo ELSE s.start
       /\ Clip(s, lo, hi).end = IF s.end <= hi THEN s.end ELSE hi
  BY <1>1, <1>8, <1>9, ClipCuts
<1>11. Clip(s, lo, hi).start = s.start /\ Clip(s, lo, hi).end = s.end
  BY <1>1, <1>9, <1>10
<1> QED BY <1>7, <1>11 DEF lo, hi

-----------------------------------------------------------------------------
(* Segments joined *)

\* A segment that is joined adds its ticks, and comes last.
LEMMA JoinAdds ==
  ASSUME NEW a \in Nat, NEW b \in Nat, NEW out \in Seq(SpansIn(a, b)), NEW s \in SpansIn(a, b),
         out # <<>> => Last(out).start <= s.start
  PROVE  /\ Join(out, s) \in Seq(SpansIn(a, b)) /\ Join(out, s) # <<>>
         /\ TicksOf(ToSet(Join(out, s))) = TicksOf(ToSet(out)) \cup Ticks(s)
         /\ Last(Join(out, s)).start <= s.start
         /\ AllAligned(ToSet(out)) /\ Aligned(s.start) /\ Aligned(s.end) =>
                AllAligned(ToSet(Join(out, s)))
<1> DEFINE T == SpansIn(a, b)
           widens == out # <<>> /\ YearOf(Last(out).start) = YearOf(s.start) /\ s.start <= Last(out).end
           l == Last(out)
           f == Front(out)
           e == IF l.end <= s.end THEN s.end ELSE l.end
           m == Span(l.start, e)
<1>1. /\ s.start \in Nat /\ s.end \in Nat /\ s.end \in 0 .. Horizon
      /\ a <= s.start /\ s.start < s.end /\ s.end <= b
  BY SpansInTyped
<1>2. TicksOf({s}) = Ticks(s)
  BY DEF TicksOf
<1>3. CASE ~widens
  <2>1. Join(out, s) = Append(out, s)
    BY <1>3 DEF Join
  <2>2. /\ Append(out, s) \in Seq(T) /\ Append(out, s) # <<>>
        /\ ToSet(Append(out, s)) = ToSet(out) \cup {s}
        /\ Last(Append(out, s)) = s
    BY SetOfAppend
  <2>3. TicksOf(ToSet(out) \cup {s}) = TicksOf(ToSet(out)) \cup TicksOf({s})
    BY TicksOfUnion
  <2>4. AllAligned(ToSet(out)) /\ Aligned(s.start) /\ Aligned(s.end) =>
            AllAligned(ToSet(out) \cup {s})
    BY DEF AllAligned
  <2> DEFINE j == Join(out, s)
  <2>5. j = Append(out, s)
    BY <2>1
  <2> HIDE DEF widens, T, j
  <2>6. j \in Seq(T) /\ j # <<>> /\ ToSet(j) = ToSet(out) \cup {s} /\ Last(j) = s
    BY <2>2, <2>5
  <2>7. Last(j).start <= s.start
    BY <1>1, <2>6
  <2> QED BY <1>2, <2>3, <2>4, <2>6, <2>7 DEF T, j
<1>4. CASE widens
  <2>1. f \in Seq(T) /\ l \in T /\ ToSet(out) = ToSet(f) \cup {l}
    BY <1>4, SetOfFront
  <2>2. /\ l.start \in Nat /\ l.end \in Nat /\ l.end \in 0 .. Horizon
        /\ a <= l.start /\ l.start < l.end /\ l.end <= b
    <3> HIDE DEF l
    <3> QED BY <2>1, SpansInTyped
  <2>3. l.start <= s.start /\ s.start <= l.end
    BY <1>4
  <2>4. Max({l.end, s.end}) = e
    <3>1. l.end \in Int /\ s.end \in Int
      BY <1>1, <2>2
    <3> QED BY <3>1, MaxOfTwo
  <2>5. Join(out, s) = Append(f, m)
    BY <1>4, <2>4 DEF Join
  <2> HIDE DEF l, f, widens
  <2>6. e \in 0 .. Horizon /\ l.start < e /\ e <= b
    BY <1>1, <2>2
  <2>7. m \in T /\ m.start = l.start /\ m.end = e /\ Ticks(m) = l.start .. e - 1
    <3> HIDE DEF e
    <3> QED BY <2>2, <2>6, SpanMade, SpanTicks
  <2>8. Ticks(m) = Ticks(l) \cup Ticks(s)
    <3>1. l.start .. e - 1 = (l.start .. l.end - 1) \cup (s.start .. s.end - 1)
      BY <1>1, <2>2, <2>3
    <3> QED BY <2>7, <3>1 DEF Ticks
  <2>9. m.end \in {l.end, s.end}
    BY <2>7
  <2> HIDE DEF m, e, T
  <2>10. /\ Append(f, m) \in Seq(T) /\ Append(f, m) # <<>>
         /\ ToSet(Append(f, m)) = ToSet(f) \cup {m}
         /\ Last(Append(f, m)) = m
    BY <2>1, <2>7, SetOfAppend
  <2>11. /\ TicksOf(ToSet(f) \cup {m}) = TicksOf(ToSet(f)) \cup TicksOf({m})
         /\ TicksOf(ToSet(f) \cup {l}) = TicksOf(ToSet(f)) \cup TicksOf({l})
    BY TicksOfUnion
  <2>12. TicksOf({m}) = Ticks(m) /\ TicksOf({l}) = Ticks(l)
    BY DEF TicksOf
  <2>13. AllAligned(ToSet(f) \cup {l}) /\ Aligned(s.start) /\ Aligned(s.end) =>
             AllAligned(ToSet(f) \cup {m})
    BY <2>7, <2>9 DEF AllAligned
  <2>14. TicksOf(ToSet(f) \cup {m}) = TicksOf(ToSet(f) \cup {l}) \cup Ticks(s)
    BY <2>8, <2>11, <2>12
  <2> QED BY <2>1, <2>3, <2>5, <2>7, <2>10, <2>13, <2>14 DEF T
<1> QED BY <1>3, <1>4

\* Joined segments cover what the segments cover.
LEMMA JoinedSound ==
  ASSUME NEW a \in Nat, NEW b \in Nat, NEW segments \in Seq(SpansIn(a, b)), InOrder(segments)
  PROVE  /\ ToSet(Joined(segments)) \subseteq SpansIn(a, b)
         /\ TicksOf(ToSet(Joined(segments))) = TicksOf(ToSet(segments))
         /\ AllAligned(ToSet(segments)) => AllAligned(ToSet(Joined(segments)))
<1> DEFINE n == Len(segments)
           T == SpansIn(a, b)
           firsts(i) == {segments[j] : j \in 1 .. i}
           sound(o, i) ==
               /\ o \in Seq(T)
               /\ o # <<>> => i # 0 /\ Last(o).start <= segments[i].start
               /\ TicksOf(ToSet(o)) = TicksOf(firsts(i))
               /\ AllAligned(ToSet(segments)) => AllAligned(ToSet(o))
<1>1. n \in Nat /\ DOMAIN segments = 1 .. n /\ \A i \in 1 .. n : segments[i] \in T
  OBVIOUS
<1>2. segments \in Seq(Spans)
  <2>1. T \subseteq Spans
    BY DEF SpansIn
  <2> QED BY <1>1, <2>1
<1>3. PICK out :
         /\ out[0] = <<>>
         /\ \A i \in 1 .. n : out[i] = Join(out[i - 1], segments[i])
         /\ Joined(segments) = out[n]
  BY <1>2, JoinRuns
<1>4. sound(out[0], 0)
  <2>1. firsts(0) = {}
    OBVIOUS
  <2>2. ToSet(<<>>) = {} /\ <<>> \in Seq(T)
    BY SetOfNone
  <2> HIDE DEF T
  <2> QED BY <1>3, <2>1, <2>2 DEF AllAligned
<1>5. ASSUME NEW i \in 1 .. n, sound(out[i - 1], i - 1)
      PROVE  sound(out[i], i)
  <2> DEFINE o == out[i - 1]
             s == segments[i]
  <2>1. /\ o \in Seq(T)
        /\ o # <<>> => i - 1 # 0 /\ Last(o).start <= segments[i - 1].start
        /\ TicksOf(ToSet(o)) = TicksOf(firsts(i - 1))
        /\ AllAligned(ToSet(segments)) => AllAligned(ToSet(o))
    BY <1>5
  <2>2. s \in T /\ s.start \in Nat /\ s \in ToSet(segments)
    BY <1>1, SpansInTyped DEF ToSet
  <2>3. out[i] = Join(o, s)
    BY <1>3
  <2>4. o # <<>> => Last(o).start <= s.start
    <3> SUFFICES ASSUME o # <<>> PROVE Last(o).start <= s.start
      OBVIOUS
    <3>1. Last(o).start <= segments[i - 1].start /\ i - 1 \in 1 .. n
      BY <1>1, <2>1
    <3>2. segments[i - 1].start <= s.start
      BY <1>1, <3>1 DEF InOrder
    <3>3. segments[i - 1].start \in Nat
      BY <1>1, <3>1, SpansInTyped
    <3>4. Last(o).start \in Nat
      <4> HIDE DEF o
      <4> QED BY <2>1, SetOfFront, SpansInTyped
    <3> HIDE DEF o, s
    <3> QED BY <2>2, <3>1, <3>2, <3>3, <3>4
  <2>5. firsts(i) = firsts(i - 1) \cup {s}
    <3>1. 1 .. i = (1 .. i - 1) \cup {i}
      BY <1>1
    <3> QED BY <3>1
  <2> HIDE DEF o, s, firsts
  <2>6. /\ Join(o, s) \in Seq(T) /\ Join(o, s) # <<>>
        /\ TicksOf(ToSet(Join(o, s))) = TicksOf(ToSet(o)) \cup Ticks(s)
        /\ Last(Join(o, s)).start <= s.start
        /\ AllAligned(ToSet(o)) /\ Aligned(s.start) /\ Aligned(s.end) =>
               AllAligned(ToSet(Join(o, s)))
    BY <2>1, <2>2, <2>4, JoinAdds
  <2>7. TicksOf(firsts(i - 1) \cup {s}) = TicksOf(firsts(i - 1)) \cup TicksOf({s})
    BY TicksOfUnion
  <2>8. TicksOf({s}) = Ticks(s)
    BY DEF TicksOf
  <2>9. AllAligned(ToSet(segments)) => Aligned(s.start) /\ Aligned(s.end)
    BY <2>2 DEF AllAligned
  <2>10. i # 0 /\ s = segments[i]
    BY <1>1 DEF s
  <2> HIDE DEF T
  <2>11. TicksOf(ToSet(Join(o, s))) = TicksOf(firsts(i))
    BY <2>1, <2>5, <2>6, <2>7, <2>8
  <2> QED BY <2>1, <2>3, <2>6, <2>9, <2>10, <2>11
<1> HIDE DEF sound
<1>6. \A i \in 0 .. n : sound(out[i], i)
  <2> DEFINE bad == {i \in 0 .. n : ~sound(out[i], i)}
  <2> SUFFICES ASSUME bad # {} PROVE FALSE
    OBVIOUS
  <2>1. bad \subseteq Nat
    BY <1>1
  <2>2. PICK i \in bad : \A c \in bad : i <= c
    <3> HIDE DEF bad
    <3> QED BY <2>1, LeastOf
  <2>3. i # 0
    BY <1>4
  <2>4. i \in 1 .. n /\ i - 1 \in 0 .. n /\ ~(i <= i - 1)
    BY <1>1, <2>3
  <2>5. sound(out[i - 1], i - 1)
    BY <2>2, <2>4
  <2> QED BY <1>5, <2>4, <2>5
<1>7. sound(out[n], n)
  BY <1>1, <1>6
<1>8. firsts(n) = ToSet(segments)
  BY <1>1 DEF ToSet
<1>9. /\ Joined(segments) \in Seq(T)
      /\ TicksOf(ToSet(Joined(segments))) = TicksOf(ToSet(segments))
      /\ AllAligned(ToSet(segments)) => AllAligned(ToSet(Joined(segments)))
  BY <1>3, <1>7, <1>8 DEF sound
<1>10. ToSet(Joined(segments)) \subseteq T
  <2> DEFINE j == Joined(segments)
  <2> HIDE DEF j, T
  <2>1. j \in Seq(T)
    BY <1>9 DEF j
  <2>2. ToSet(j) \subseteq T
    BY <2>1 DEF ToSet
  <2> QED BY <2>2 DEF j
<1> QED BY <1>9, <1>10

\* The merged segments of a window cover what the segments cover of it.
LEMMA QueryMerged ==
  ASSUME NEW S, Proper(S), NEW a \in 0 .. Horizon, NEW b \in 0 .. Horizon, a < b
  PROVE  LET merged == mergeCoverageForQuery(a, b, S)
         IN  /\ merged.segments \subseteq SpansIn(a, b)
             /\ TicksOf(merged.segments) = TicksOf(S) \cap (a .. b - 1)
             /\ merged.ok => AllAligned(merged.segments)
<1> DEFINE C == Clipped(S, a, b)
           parts == UNION {splitCoverageSegmentByYear(s) : s \in C}
           segments == Sorted(parts)
<1>1. a \in Nat /\ b \in Nat
  BY HorizonTyped
<1>2. C \subseteq SpansIn(a, b) /\ TicksOf(C) = TicksOf(S) \cap (a .. b - 1)
  BY ClippedSound
<1> HIDE DEF C
<1>3. \A x : x \in parts <=> \E s \in C : x \in splitCoverageSegmentByYear(s)
  OBVIOUS
<1>4. ASSUME NEW s \in C
      PROVE  /\ splitCoverageSegmentByYear(s) \subseteq SpansIn(a, b)
             /\ TicksOf(splitCoverageSegmentByYear(s)) = Ticks(s)
  <2>1. s \in SpansIn(a, b) /\ a \in Int /\ b \in Int
    BY <1>1, <1>2
  <2> QED BY <2>1, SplitSound
<1>5. mergeCoverageForQuery(a, b, S) = [ok |-> AllAligned(parts), segments |-> ToSet(Joined(segments))]
  BY DEF mergeCoverageForQuery, C
<1> HIDE DEF parts
<1>6. parts \subseteq SpansIn(a, b)
  BY <1>3, <1>4
<1>7. TicksOf(parts) = TicksOf(C)
  <2>1. ASSUME NEW t \in TicksOf(parts) PROVE t \in TicksOf(C)
    <3>1. PICK x \in parts : t \in Ticks(x)
      BY <2>1, InTicksOf
    <3>2. PICK s \in C : x \in splitCoverageSegmentByYear(s)
      BY <1>3
    <3>3. t \in TicksOf(splitCoverageSegmentByYear(s))
      BY <3>1, <3>2, InTicksOf
    <3>4. t \in Ticks(s)
      BY <1>4, <3>3
    <3> QED BY <3>4, InTicksOf
  <2>2. ASSUME NEW t \in TicksOf(C) PROVE t \in TicksOf(parts)
    <3>1. PICK s \in C : t \in Ticks(s)
      BY <2>2, InTicksOf
    <3>2. t \in TicksOf(splitCoverageSegmentByYear(s))
      BY <1>4, <3>1
    <3>3. PICK x \in splitCoverageSegmentByYear(s) : t \in Ticks(x)
      BY <3>2, InTicksOf
    <3>4. x \in parts
      BY <1>3
    <3> QED BY <3>3, <3>4, InTicksOf
  <2> QED BY <2>1, <2>2
<1>8. segments \in Seq(parts) /\ ToSet(segments) = parts /\ InOrder(segments)
  BY <1>6, SpansAreProper, SortedIsSorted
<1>9. segments \in Seq(SpansIn(a, b))
  BY <1>6, <1>8
<1> HIDE DEF segments
<1>10. /\ ToSet(Joined(segments)) \subseteq SpansIn(a, b)
       /\ TicksOf(ToSet(Joined(segments))) = TicksOf(parts)
       /\ AllAligned(parts) => AllAligned(ToSet(Joined(segments)))
  BY <1>1, <1>8, <1>9, JoinedSound
<1> DEFINE merged == mergeCoverageForQuery(a, b, S)
<1>11. (merged.ok <=> AllAligned(parts)) /\ merged.segments = ToSet(Joined(segments))
  BY <1>5
<1> HIDE DEF merged
<1> QED BY <1>2, <1>7, <1>10, <1>11 DEF merged

\* The rows of the index lie in one year each: a window of whole candles cuts none of
\* them inside a candle.
LEMMA IndexMerged ==
  ASSUME NEW S, S \subseteq Segment, NEW a \in 0 .. Horizon, NEW b \in 0 .. Horizon, a < b,
         Aligned(a), Aligned(b)
  PROVE  mergeCoverageForQuery(a, b, S).ok
<1> DEFINE C == Clipped(S, a, b)
           parts == UNION {splitCoverageSegmentByYear(s) : s \in C}
<1>1. Proper(S) /\ AllAligned(S)
  BY SegmentsAreProper
<1>2. C \subseteq SpansIn(a, b) /\ AllAligned(C)
  BY <1>1, ClippedSound
<1>3. ASSUME NEW x \in C PROVE AllAligned(splitCoverageSegmentByYear(x))
  <2>1. PICK s \in S : Meets(s, a, b) /\ x = Clip(s, a, b)
    BY DEF Clipped
  <2> HIDE DEF C
  <2>2. /\ s.start \in 0 .. Horizon /\ s.end \in 0 .. Horizon /\ s.start < s.end
        /\ s.year \in Year /\ YearStart[s.year] <= s.start /\ s.end <= YearStart[s.year + 1]
        /\ s.start \in Nat /\ s.end \in Nat
    BY <2>1, SegmentTyped DEF Horizon
  <2>3. x \in SpansIn(s.start, s.end)
    BY <2>1, <2>2, ClipCuts
  <2>4. x.start \in Nat /\ x.end \in Nat /\ s.start <= x.start /\ x.end <= s.end
    BY <2>3, SpansInTyped
  <2>5. YearStart[s.year] \in Nat /\ YearStart[s.year + 1] \in Nat
    BY <2>2, YearTyped
  <2>6. YearStart[s.year] <= x.start /\ x.end <= YearStart[s.year + 1]
    BY <2>2, <2>4, <2>5
  <2>7. Aligned(x.start) /\ Aligned(x.end)
    BY <1>2 DEF AllAligned
  <2> QED BY <2>2, <2>3, <2>6, <2>7, SplitOfYear
<1>4. AllAligned(parts)
  <2> HIDE DEF C
  <2> QED BY <1>3 DEF AllAligned
<1> DEFINE merged == mergeCoverageForQuery(a, b, S)
<1>5. merged.ok <=> AllAligned(parts)
  BY DEF mergeCoverageForQuery
<1> HIDE DEF parts, merged
<1> QED BY <1>4, <1>5 DEF merged

-----------------------------------------------------------------------------
(* Raw rows *)

\* A tick is covered by the runs of the rows when its candle has a row: a run goes from
\* the first to the last of consecutive candles.
LEMMA RunsOfRows ==
  ASSUME NEW a \in 0 .. Horizon, NEW b \in 0 .. Horizon, a < b, Aligned(a), Aligned(b),
         NEW rows, rows \subseteq Tick
  PROVE  LET found == coverageSegmentsFromKlineRows(a, b, rows)
         IN  /\ found.segments \subseteq SpansIn(a, b)
             /\ \A t : t \in TicksOf(found.segments) <=> t \in a .. b - 1 /\ RowOf(t) \in rows
             /\ found.ok => AllAligned(found.segments)
<1> DEFINE open == {t \in rows : a <= t /\ t < b /\ (t - a) % Step = 0}
           runs == {p \in open \X open :
                       /\ p[1] <= p[2] /\ p[1] - Step \notin open /\ p[2] + Step \notin open
                       /\ \A t \in p[1] .. p[2] : (t - a) % Step = 0 => t \in open}
           split(p) == splitCoverageSegmentByYear(Span(p[1], p[2] + Step))
           parts == UNION {splitCoverageSegmentByYear(Span(p[1], p[2] + Step)) : p \in runs}
<1>1. coverageSegmentsFromKlineRows(a, b, rows) = [ok |-> AllAligned(parts), segments |-> parts]
  BY DEF coverageSegmentsFromKlineRows
<1>2. Horizon \in Nat /\ a \in Nat /\ b \in Nat /\ rows \subseteq Nat /\ Step \in Nat /\ Step > 0
  BY HorizonTyped, GridUnit
<1>3. \A t : t \in open <=> t \in rows /\ a <= t /\ t < b /\ Aligned(t)
  <2> SUFFICES ASSUME NEW t \in rows, a <= t PROVE (t - a) % Step = 0 <=> Aligned(t)
    OBVIOUS
  <2>1. t \in Nat
    BY <1>2
  <2> QED BY <1>2, <2>1, GridFrom
<1>4. \A p : p \in runs <=>
          /\ p \in open \X open
          /\ p[1] <= p[2] /\ p[1] - Step \notin open /\ p[2] + Step \notin open
          /\ \A t \in p[1] .. p[2] : Aligned(t) => t \in open
  <2> SUFFICES ASSUME NEW p \in open \X open
               PROVE  \A t \in p[1] .. p[2] : (t - a) % Step = 0 <=> Aligned(t)
    OBVIOUS
  <2>1. p[1] \in Nat /\ p[2] \in Nat /\ a <= p[1]
    BY <1>2, <1>3
  <2> HIDE DEF open
  <2>2. \A t \in p[1] .. p[2] : t \in Nat /\ a <= t
    BY <1>2, <2>1
  <2> QED BY <1>2, <2>2, GridFrom
<1>5. \A x : x \in parts <=> \E p \in runs : x \in split(p)
  OBVIOUS
<1> HIDE DEF open, runs, parts
<1>6. ASSUME NEW p \in runs
      PROVE  /\ p[1] \in Nat /\ p[2] \in Nat /\ p[1] <= p[2] /\ p[1] \in open /\ p[2] \in open
             /\ Aligned(p[1]) /\ Aligned(p[2]) /\ a <= p[1] /\ p[2] + Step <= b
  <2>1. p[1] \in open /\ p[2] \in open /\ p[1] <= p[2]
    BY <1>4
  <2>2. p[1] \in Nat /\ p[2] \in Nat /\ Aligned(p[1]) /\ Aligned(p[2]) /\ a <= p[1] /\ p[2] < b
    BY <1>2, <1>3, <2>1
  <2>3. p[2] + Step <= b
    BY <1>2, <2>2, GridApart
  <2> QED BY <2>1, <2>2, <2>3
<1>7. ASSUME NEW p \in runs
      PROVE  split(p) \subseteq SpansIn(a, b) /\ TicksOf(split(p)) = p[1] .. p[2] + Step - 1
  <2>1. p[2] + Step \in 0 .. Horizon /\ p[1] < p[2] + Step
    BY <1>2, <1>6
  <2>2. Span(p[1], p[2] + Step) \in SpansIn(a, b)
    BY <1>2, <1>6, <2>1, SpanMade
  <2>3. Ticks(Span(p[1], p[2] + Step)) = p[1] .. p[2] + Step - 1
    <3>1. Ticks(Span(p[1], p[2] + Step)) = p[1] .. (p[2] + Step) - 1
      BY SpanTicks
    <3>2. (p[2] + Step) - 1 = p[2] + Step - 1
      BY <1>2, <1>6
    <3> QED BY <3>1, <3>2
  <2>4. a \in Int /\ b \in Int
    BY <1>2
  <2> QED BY <2>2, <2>3, <2>4, SplitSound
<1> HIDE DEF split
<1>8. parts \subseteq SpansIn(a, b)
  BY <1>5, <1>7
<1>9. ASSUME NEW t \in TicksOf(parts) PROVE t \in a .. b - 1 /\ RowOf(t) \in rows
  <2>1. PICK x \in parts : t \in Ticks(x)
    BY <1>9, InTicksOf
  <2>2. PICK p \in runs : x \in split(p)
    BY <1>5
  <2>3. t \in TicksOf(split(p))
    BY <2>1, <2>2, InTicksOf
  <2>4. t \in p[1] .. p[2] + Step - 1
    BY <1>7, <2>3
  <2>5. /\ p[1] \in Nat /\ p[2] \in Nat /\ Aligned(p[1]) /\ Aligned(p[2])
        /\ a <= p[1] /\ p[2] + Step <= b
    BY <1>6
  <2>6. t \in Nat /\ p[1] <= t /\ t < p[2] + Step /\ p[2] + Step \in Nat
    BY <1>2, <2>4, <2>5
  <2>7. RowOf(t) \in Nat /\ Aligned(RowOf(t))
    BY <2>6, RowOnGrid
  <2>8. p[1] <= RowOf(t)
    BY <2>5, <2>6, RowBefore
  <2>9. RowOf(t) <= p[2]
    <3>1. Aligned(p[2] + Step)
      BY <2>5, GridNext
    <3>2. RowOf(t) < p[2] + Step
      BY <2>6, <3>1, RowBefore
    <3>3. p[2] < RowOf(t) => p[2] + Step <= RowOf(t)
      BY <2>5, <2>7, GridApart
    <3> QED BY <2>5, <2>6, <2>7, <3>2, <3>3
  <2>10. RowOf(t) \in open
    BY <1>4, <2>5, <2>7, <2>8, <2>9
  <2>11. RowOf(t) \in rows
    BY <1>3, <2>10
  <2> QED BY <1>2, <2>5, <2>6, <2>11
<1>10. ASSUME NEW r \in open
       PROVE  \E p \in runs : p[1] <= r /\ r <= p[2]
  <2> DEFINE before == {c \in open : c <= r /\ \A t \in c .. r : Aligned(t) => t \in open}
             behind == {c \in open : r <= c /\ \A t \in r .. c : Aligned(t) => t \in open}
  <2>1. /\ r \in Nat /\ Aligned(r) /\ open \subseteq 0 .. Horizon /\ open \subseteq Nat
        /\ \A c \in open : a <= c /\ c < b /\ Aligned(c)
    <3>1. \A c \in open : c \in Nat /\ a <= c /\ c < b /\ Aligned(c)
      BY <1>2, <1>3
    <3>2. \A c \in open : c \in 0 .. Horizon
      BY <1>2, <3>1
    <3> QED BY <3>1, <3>2
  <2>2. r \in before /\ r \in behind
    <3>1. \A t \in r .. r : t = r
      BY <2>1
    <3>2. r <= r
      BY <2>1
    <3> QED BY <3>1, <3>2
  <2>3. PICK p1 \in before : \A c \in before : p1 <= c
    <3>1. before \subseteq Nat
      BY <2>1
    <3> HIDE DEF before
    <3> QED BY <2>2, <3>1, LeastOf
  <2>4. PICK p2 \in behind : \A c \in behind : c <= p2
    <3>1. behind \subseteq 0 .. Horizon
      BY <2>1
    <3> HIDE DEF behind
    <3> QED BY <1>2, <2>2, <3>1, GreatestOf
  <2>5. /\ p1 \in open /\ p1 <= r /\ \A t \in p1 .. r : Aligned(t) => t \in open
        /\ p2 \in open /\ r <= p2 /\ \A t \in r .. p2 : Aligned(t) => t \in open
    OBVIOUS
  <2>6. p1 \in Nat /\ p2 \in Nat /\ Aligned(p1) /\ Aligned(p2)
    BY <2>1, <2>5
  <2>7. p1 - Step \notin open
    <3> SUFFICES ASSUME p1 - Step \in open PROVE FALSE
      OBVIOUS
    <3>1. p1 - Step \in Nat /\ Aligned(p1 - Step) /\ (p1 - Step) + Step = p1
      BY <1>2, <2>1, <2>6
    <3>2. ASSUME NEW t \in p1 - Step .. r, Aligned(t) PROVE t \in open
      <4>1. t \in Nat /\ p1 - Step <= t /\ t <= r
        BY <2>1, <3>1
      <4>2. p1 - Step < t => p1 <= t
        BY <3>1, <3>2, <4>1, GridApart
      <4>3. CASE t = p1 - Step
        BY <4>3
      <4>4. CASE t # p1 - Step
        <5>1. t \in p1 .. r
          BY <2>1, <2>6, <3>1, <4>1, <4>2, <4>4
        <5> QED BY <2>5, <3>2, <5>1
      <4> QED BY <4>3, <4>4
    <3>3. p1 - Step <= r
      BY <1>2, <2>1, <2>5, <2>6
    <3>4. p1 - Step \in before
      BY <3>2, <3>3
    <3>5. p1 <= p1 - Step
      BY <2>3, <3>4
    <3> QED BY <1>2, <2>6, <3>5
  <2>8. p2 + Step \notin open
    <3> SUFFICES ASSUME p2 + Step \in open PROVE FALSE
      OBVIOUS
    <3>1. p2 + Step \in Nat /\ Aligned(p2 + Step)
      BY <2>1
    <3>2. ASSUME NEW t \in r .. p2 + Step, Aligned(t) PROVE t \in open
      <4>1. t \in Nat /\ r <= t /\ t <= p2 + Step
        BY <2>1, <3>1
      <4>2. p2 < t => p2 + Step <= t
        BY <2>6, <3>2, <4>1, GridApart
      <4>3. CASE t = p2 + Step
        BY <4>3
      <4>4. CASE t # p2 + Step
        <5>1. t \in r .. p2
          BY <2>1, <2>6, <3>1, <4>1, <4>2, <4>4
        <5> QED BY <2>5, <3>2, <5>1
      <4> QED BY <4>3, <4>4
    <3>3. r <= p2 + Step
      BY <1>2, <2>1, <2>5, <2>6
    <3>4. p2 + Step \in behind
      BY <3>2, <3>3
    <3>5. p2 + Step <= p2
      BY <2>4, <3>4
    <3> QED BY <1>2, <2>6, <3>5
  <2> HIDE DEF before, behind
  <2>9. \A t \in p1 .. p2 : Aligned(t) => t \in open
    <3> SUFFICES ASSUME NEW t \in p1 .. p2, Aligned(t) PROVE t \in open
      OBVIOUS
    <3>1. t \in p1 .. r \/ t \in r .. p2
      BY <2>1, <2>6
    <3> QED BY <2>5, <3>1
  <2> DEFINE p == <<p1, p2>>
  <2>10. p \in open \X open /\ p[1] = p1 /\ p[2] = p2
    BY <2>5
  <2>11. p1 <= p2
    BY <2>1, <2>5, <2>6
  <2> HIDE DEF p
  <2>12. p \in runs
    BY <1>4, <2>7, <2>8, <2>9, <2>10, <2>11
  <2> QED BY <2>5, <2>10, <2>12
<1>11. ASSUME NEW t \in a .. b - 1, RowOf(t) \in rows PROVE t \in TicksOf(parts)
  <2>1. t \in Nat /\ a <= t /\ t < b
    BY <1>2
  <2>2. RowOf(t) \in Nat /\ Aligned(RowOf(t)) /\ RowOf(t) <= t /\ t < RowOf(t) + Step
    BY <2>1, RowOnGrid
  <2>3. a <= RowOf(t) /\ RowOf(t) < b
    BY <1>2, <2>1, RowBefore
  <2>4. RowOf(t) \in open
    BY <1>3, <1>11, <2>2, <2>3
  <2>5. PICK p \in runs : p[1] <= RowOf(t) /\ RowOf(t) <= p[2]
    BY <1>10, <2>4
  <2>6. t \in p[1] .. p[2] + Step - 1
    BY <1>2, <1>6, <2>1, <2>2, <2>5
  <2>7. t \in TicksOf(split(p))
    BY <1>7, <2>6
  <2>8. PICK x \in split(p) : t \in Ticks(x)
    BY <2>7, InTicksOf
  <2>9. x \in parts
    BY <1>5
  <2> QED BY <2>8, <2>9, InTicksOf
<1> DEFINE found == coverageSegmentsFromKlineRows(a, b, rows)
<1>12. (found.ok <=> AllAligned(parts)) /\ found.segments = parts
  BY <1>1
<1> HIDE DEF found
<1> QED BY <1>8, <1>9, <1>11, <1>12 DEF found

\* A tick is reported missing when its candle has no row.
LEMMA ValidatedRows ==
  ASSUME NEW a \in 0 .. Horizon, NEW b \in 0 .. Horizon, a < b, Aligned(a), Aligned(b),
         NEW rows, rows \subseteq Tick
  PROVE  LET missing == ValidateKlineRows(a, b, rows)
         IN  /\ missing \in Seq(SpansIn(a, b))
             /\ \A t : t \in TicksOf(ToSet(missing)) <=> t \in a .. b - 1 /\ RowOf(t) \notin rows
<1> DEFINE grid == {t \in a .. b - 1 : (t - a) % Step = 0}
           S == {Span(t, t + Step) : t \in grid \cap rows}
<1>1. Horizon \in Nat /\ a \in Nat /\ b \in Nat /\ rows \subseteq Nat /\ Step \in Nat /\ Step > 0
  BY HorizonTyped, GridUnit
<1>2. \A t : t \in grid <=> t \in a .. b - 1 /\ Aligned(t)
  <2> SUFFICES ASSUME NEW t \in a .. b - 1 PROVE (t - a) % Step = 0 <=> Aligned(t)
    OBVIOUS
  <2>1. t \in Nat /\ a <= t
    BY <1>1
  <2> QED BY <1>1, <2>1, GridFrom
<1> HIDE DEF grid
<1>3. ASSUME NEW t \in grid \cap rows
      PROVE  t \in Nat /\ Aligned(t) /\ a <= t /\ t + Step <= b
  <2>1. t \in Nat /\ Aligned(t) /\ a <= t /\ t < b
    BY <1>1, <1>2
  <2> QED BY <1>1, <2>1, GridApart
<1>4. \A x : x \in S <=> \E t \in grid \cap rows : x = Span(t, t + Step)
  OBVIOUS
<1> HIDE DEF S
<1>5. Proper(S)
  <2> SUFFICES ASSUME NEW t \in grid \cap rows
               PROVE  t \in 0 .. Horizon /\ t + Step \in 0 .. Horizon /\ t < t + Step
    BY <1>4, SpanTicks DEF Proper
  <2> QED BY <1>1, <1>3
<1>6. ASSUME NEW t \in a .. b - 1 PROVE t \in TicksOf(S) <=> RowOf(t) \in rows
  <2>1. t \in Nat /\ a <= t /\ t < b
    BY <1>1
  <2>2. RowOf(t) \in Nat /\ Aligned(RowOf(t)) /\ RowOf(t) <= t /\ t < RowOf(t) + Step
    BY <2>1, RowOnGrid
  <2>3. ASSUME t \in TicksOf(S) PROVE RowOf(t) \in rows
    <3>1. PICK x \in S : t \in Ticks(x)
      BY <2>3, InTicksOf
    <3>2. PICK r \in grid \cap rows : x = Span(r, r + Step)
      BY <1>4
    <3>3. t \in r .. (r + Step) - 1
      <4>1. Ticks(Span(r, r + Step)) = r .. (r + Step) - 1
        BY SpanTicks
      <4> QED BY <3>1, <3>2, <4>1
    <3>4. r \in Nat /\ Aligned(r) /\ r <= t /\ t < r + Step
      BY <1>1, <1>3, <2>1, <3>3
    <3>5. RowOf(t) = r
      BY <2>1, <3>4, RowIs
    <3> QED BY <3>5
  <2>4. ASSUME RowOf(t) \in rows PROVE t \in TicksOf(S)
    <3>1. a <= RowOf(t) /\ RowOf(t) < b
      BY <1>1, <2>1, RowBefore
    <3>2. RowOf(t) \in grid \cap rows
      BY <1>1, <1>2, <2>2, <2>4, <3>1
    <3>3. t \in Ticks(Span(RowOf(t), RowOf(t) + Step))
      <4>1. t \in RowOf(t) .. (RowOf(t) + Step) - 1
        BY <1>1, <2>1, <2>2
      <4>2. Ticks(Span(RowOf(t), RowOf(t) + Step)) = RowOf(t) .. (RowOf(t) + Step) - 1
        BY SpanTicks
      <4> QED BY <4>1, <4>2
    <3>4. Span(RowOf(t), RowOf(t) + Step) \in S
      BY <1>4, <3>2
    <3> QED BY <3>3, <3>4, InTicksOf
  <2> QED BY <2>3, <2>4
<1> DEFINE missing == ValidateKlineRows(a, b, rows)
<1>7. missing = computeMissingSegments(a, b, S)
  BY DEF ValidateKlineRows, S, grid
<1> HIDE DEF missing
<1>8. /\ missing \in Seq(SpansIn(a, b))
      /\ TicksOf(ToSet(missing)) = (a .. b - 1) \ TicksOf(S)
  BY <1>5, <1>7, MissingSound
<1>9. \A t : t \in TicksOf(ToSet(missing)) <=> t \in a .. b - 1 /\ RowOf(t) \notin rows
  BY <1>6, <1>8
<1> QED BY <1>8, <1>9 DEF missing

-----------------------------------------------------------------------------
(* Pages *)

\* A set of ticks has a size.
LEMMA TicksAreFinite ==
  ASSUME NEW S, S \subseteq Tick
  PROVE  IsFiniteSet(S) /\ Cardinality(S) \in Nat
<1>1. IsFiniteSet(Tick)
  BY HorizonTyped, FS_Interval
<1> QED BY <1>1, FS_Subset, FS_CardinalityType

\* The n lowest of a set: when one is left out there are n, and all are below it.
LEMMA LowestSound ==
  ASSUME NEW n \in Nat, NEW S, S \subseteq Tick
  PROVE  /\ Lowest(n, S) \subseteq S
         /\ Cardinality(Lowest(n, S)) \in Nat /\ Cardinality(Lowest(n, S)) <= n
         /\ \A t \in S \ Lowest(n, S) :
               Cardinality(Lowest(n, S)) = n /\ \A r \in Lowest(n, S) : r < t
<1> DEFINE L == Lowest(n, S)
           below(t) == {r \in S : r < t}
<1>1. Horizon \in Nat /\ S \subseteq Nat /\ S \subseteq 0 .. Horizon
  BY HorizonTyped
<1>2. \A t : t \in L <=> t \in S /\ Cardinality(below(t)) < n
  BY DEF Lowest
<1> HIDE DEF L
<1>3. L \subseteq S /\ IsFiniteSet(L) /\ Cardinality(L) \in Nat
  <2>1. L \subseteq S /\ L \subseteq Tick
    BY <1>2
  <2> QED BY <2>1, TicksAreFinite
<1>4. \A t \in S : IsFiniteSet(below(t)) /\ Cardinality(below(t)) \in Nat
  <2> SUFFICES ASSUME NEW t \in S PROVE IsFiniteSet(below(t)) /\ Cardinality(below(t)) \in Nat
    OBVIOUS
  <2>1. below(t) \subseteq Tick
    OBVIOUS
  <2> HIDE DEF below
  <2> QED BY <2>1, TicksAreFinite
<1>5. ASSUME NEW t \in S, t \notin L, NEW r \in L PROVE r < t
  <2> SUFFICES ASSUME ~(r < t) PROVE FALSE
    OBVIOUS
  <2>1. r \in S /\ r \in Nat /\ t \in Nat /\ t <= r
    BY <1>1, <1>3, <1>5
  <2>2. below(t) \subseteq below(r)
    <3> SUFFICES ASSUME NEW x \in S, x < t PROVE x < r
      OBVIOUS
    <3>1. x \in Nat
      BY <1>1
    <3> QED BY <2>1, <3>1
  <2> HIDE DEF below
  <2>3. Cardinality(below(t)) <= Cardinality(below(r))
    BY <1>4, <2>1, <2>2, FS_Subset
  <2>4. Cardinality(below(r)) < n
    BY <1>2
  <2>5. Cardinality(below(t)) < n
    BY <1>4, <2>1, <2>3, <2>4
  <2> QED BY <1>2, <1>5, <2>5
<1>6. Cardinality(L) <= n
  <2>1. CASE L = {}
    BY <2>1, FS_EmptySet
  <2>2. CASE L # {}
    <3>1. L \subseteq 0 .. Horizon
      BY <1>1, <1>3
    <3>2. PICK m \in L : \A r \in L : r <= m
      BY <1>1, <2>2, <3>1, GreatestOf
    <3>3. L \subseteq below(m) \cup {m}
      <4> SUFFICES ASSUME NEW r \in L, r # m PROVE r \in S /\ r < m
        OBVIOUS
      <4>1. r \in S /\ r \in Nat /\ m \in Nat /\ r <= m
        BY <1>1, <1>3, <3>2
      <4> QED BY <4>1
    <3>4. m \in S /\ Cardinality(below(m)) < n
      BY <1>2
    <3>5. m \notin below(m)
      BY <1>1, <3>4
    <3> HIDE DEF below
    <3>6. /\ IsFiniteSet(below(m) \cup {m})
          /\ Cardinality(below(m) \cup {m}) = Cardinality(below(m)) + 1
      BY <1>4, <3>4, <3>5, FS_AddElement
    <3>7. Cardinality(L) <= Cardinality(below(m) \cup {m})
      BY <3>3, <3>6, FS_Subset
    <3>8. Cardinality(below(m)) \in Nat
      BY <1>4, <3>4
    <3> QED BY <1>3, <3>4, <3>6, <3>7, <3>8
  <2> QED BY <2>1, <2>2
<1>7. ASSUME NEW t \in S \ L PROVE Cardinality(L) = n
  <2>1. S \ L # {} /\ S \ L \subseteq Nat
    BY <1>1
  <2>2. PICK u \in S \ L : \A v \in S \ L : u <= v
    BY <2>1, LeastOf
  <2>3. below(u) \subseteq L
    <3> SUFFICES ASSUME NEW x \in S, x < u, x \notin L PROVE FALSE
      OBVIOUS
    <3>1. x \in Nat /\ u \in Nat /\ u <= x
      BY <1>1, <2>2
    <3> QED BY <3>1
  <2> HIDE DEF below
  <2>4. Cardinality(below(u)) <= Cardinality(L)
    BY <1>3, <2>3, FS_Subset
  <2>5. ~(Cardinality(below(u)) < n) /\ Cardinality(below(u)) \in Nat
    BY <1>2, <1>4
  <2> QED BY <1>3, <1>6, <2>4, <2>5
<1>8. \A t \in S \ L : Cardinality(L) = n /\ \A r \in L : r < t
  BY <1>5, <1>7
<1> QED BY <1>3, <1>6, <1>8 DEF L

\* A page has room for a row.
LEMMA LimitTyped ==
  ASSUME NEW w
  PROVE  /\ Limit(w) \in Nat \ {0}
         /\ KlineLimit \in Nat
         /\ w.kind = "klines" => Limit(w) = KlineLimit + 1
<1>1. PageLimit \in Nat \ {0} /\ KlineLimit \in Nat
  BY CoverageAssumption
<1> QED BY <1>1 DEF Limit

\* A page of w in the making: its rows are of earlier years, and there is room on it.
Paging(w, rows) ==
    LET gap == Head(w.gaps)
    IN  /\ gap.start \in Nat /\ gap.end \in 0 .. Horizon /\ gap.start < gap.end
        /\ w.from \in gap.start .. gap.end - 1
        /\ w.year \in Year
        /\ YearOf(w.from) <= w.year /\ w.year <= YearOf(gap.end - 1)
        /\ w.page \subseteq rows
        /\ \A r \in w.page : w.from <= r /\ r < gap.end /\ YearOf(r) < w.year
        /\ Cardinality(w.page) < Limit(w)

\* What a year adds to a page, and what it leaves out.
LEMMA FetchedSound ==
  ASSUME NEW w, raw \subseteq Tick, Paging(w, raw)
  PROVE  /\ Fetched(w) \subseteq raw /\ w.page \subseteq Fetched(w)
         /\ Cardinality(Fetched(w)) \in Nat /\ Cardinality(Fetched(w)) <= Limit(w)
         /\ \A r \in Fetched(w) : w.from <= r /\ r < Head(w.gaps).end /\ YearOf(r) <= w.year
         /\ \A r \in raw : w.from <= r /\ r < Head(w.gaps).end /\ YearOf(r) = w.year /\ r \notin Fetched(w)
                => Cardinality(Fetched(w)) = Limit(w) /\ \A f \in Fetched(w) : f < r
<1> DEFINE end == Head(w.gaps).end
           rows == {t \in Database(w.year) : w.from <= t /\ t < end}
           room == Limit(w) - Cardinality(w.page)
           L == Lowest(room, rows)
           F == Fetched(w)
<1>1. F = w.page \cup L
  BY DEF Fetched
<1>2. \A t : t \in rows <=> t \in raw /\ YearOf(t) = w.year /\ w.from <= t /\ t < end
  BY DEF Database
<1>3. /\ w.year \in Year /\ w.page \subseteq raw
      /\ \A r \in w.page : w.from <= r /\ r < end /\ YearOf(r) < w.year
      /\ Cardinality(w.page) < Limit(w)
  BY DEF Paging
<1> HIDE DEF rows, F, end
<1>4. rows \subseteq Tick /\ w.page \subseteq Tick
  BY <1>2, <1>3
<1>5. IsFiniteSet(w.page) /\ Cardinality(w.page) \in Nat
  BY <1>4, TicksAreFinite
<1>6. room \in Nat /\ Cardinality(w.page) + room = Limit(w) /\ Limit(w) \in Nat
  BY <1>3, <1>5, LimitTyped
<1> HIDE DEF room
<1>7. /\ L \subseteq rows
      /\ Cardinality(L) \in Nat /\ Cardinality(L) <= room
      /\ \A t \in rows \ L : Cardinality(L) = room /\ \A r \in L : r < t
  BY <1>4, <1>6, LowestSound
<1> HIDE DEF L
<1>8. IsFiniteSet(L)
  <2>1. L \subseteq Tick
    BY <1>4, <1>7
  <2> QED BY <2>1, TicksAreFinite
<1>9. w.year \in Int /\ Year \subseteq Int /\ \A r \in raw : r \in Nat /\ YearOf(r) \in Int
  BY <1>3, HorizonTyped, YearFound DEF Year
<1>10. w.page \cap L = {}
  <2> SUFFICES ASSUME NEW r \in w.page, r \in L PROVE FALSE
    OBVIOUS
  <2>1. YearOf(r) < w.year /\ YearOf(r) = w.year
    BY <1>2, <1>3, <1>7
  <2> QED BY <1>9, <2>1
<1>11. Cardinality(F) = Cardinality(w.page) + Cardinality(L)
  <2>1. Cardinality(w.page \cup L)
            = Cardinality(w.page) + Cardinality(L) - Cardinality(w.page \cap L)
    BY <1>5, <1>8, FS_Union
  <2>2. Cardinality(w.page \cap L) = 0
    BY <1>10, FS_EmptySet
  <2> QED BY <1>1, <1>5, <1>7, <2>1, <2>2
<1>12. F \subseteq raw /\ w.page \subseteq F
  BY <1>1, <1>2, <1>3, <1>7
<1>13. Cardinality(F) \in Nat /\ Cardinality(F) <= Limit(w)
  BY <1>5, <1>6, <1>7, <1>11
<1>14. ASSUME NEW r \in F PROVE w.from <= r /\ r < end /\ YearOf(r) <= w.year
  <2>1. CASE r \in w.page
    BY <1>3, <1>9, <2>1
  <2>2. CASE r \in L
    <3>1. YearOf(r) = w.year /\ w.from <= r /\ r < end
      BY <1>2, <1>7, <2>2
    <3> QED BY <1>9, <3>1
  <2> QED BY <1>1, <2>1, <2>2
<1>15. ASSUME NEW r \in raw, w.from <= r, r < end, YearOf(r) = w.year, r \notin F
       PROVE  Cardinality(F) = Limit(w) /\ \A f \in F : f < r
  <2>1. r \in rows \ L
    BY <1>1, <1>2, <1>15
  <2>2. Cardinality(L) = room /\ \A f \in L : f < r
    BY <1>7, <2>1
  <2>3. ASSUME NEW f \in w.page PROVE f < r
    <3>1. f \in Tick /\ r \in Tick /\ f \in Nat /\ r \in Nat
      BY <1>3, <1>9
    <3>2. ~(r <= f)
      <4> SUFFICES ASSUME r <= f PROVE FALSE
        OBVIOUS
      <4>1. YearOf(r) <= YearOf(f)
        BY <3>1, YearOfGrows
      <4> QED BY <1>3, <1>9, <1>15, <4>1
    <3> QED BY <3>1, <3>2
  <2> QED BY <1>1, <1>6, <1>11, <2>2, <2>3
<1> QED BY <1>12, <1>13, <1>14, <1>15 DEF F, end

\* Row r lies ahead of the page, or is on it, whatever year is read.
Coming(w, r) == w.from <= r /\ (YearOf(r) < w.year => r \in w.page)

\* A row that lies ahead of a page and is not on it when it ends is behind a full page.
LEMMA PageEndsBefore ==
  ASSUME NEW w, raw \subseteq Tick, Paging(w, raw), PageEnds(w),
         NEW r \in raw, Coming(w, r), r < Head(w.gaps).end, r \notin Fetched(w)
  PROVE  /\ Cardinality(Fetched(w)) = Limit(w) /\ Fetched(w) # {}
         /\ \A f \in Fetched(w) : f < r
<1> DEFINE end == Head(w.gaps).end
           F == Fetched(w)
<1>1. /\ F \subseteq raw /\ w.page \subseteq F
      /\ \A f \in F : w.from <= f /\ f < end /\ YearOf(f) <= w.year
      /\ YearOf(r) = w.year => Cardinality(F) = Limit(w) /\ \A f \in F : f < r
  BY FetchedSound DEF Coming
<1>2. Cardinality(F) = Limit(w) \/ w.year = YearOf(end - 1)
  BY DEF PageEnds
<1>3. /\ end \in 0 .. Horizon /\ w.year \in Year
      /\ Head(w.gaps).start \in Nat /\ Head(w.gaps).start < end
  BY DEF Paging
<1>4. r \notin F /\ r < end /\ (YearOf(r) < w.year => r \in w.page)
  BY DEF Coming
<1> HIDE DEF end, F
<1>5. w.year \in Int /\ \A f \in raw : f \in Tick /\ f \in Nat /\ YearOf(f) \in Int
  BY <1>3, HorizonTyped, YearFound DEF Year
<1>6. end - 1 \in Tick
  BY <1>3, HorizonTyped
<1>7. r <= end - 1 /\ YearOf(end - 1) \in Int
  <2>1. r \in Nat /\ end \in Nat
    BY <1>3, <1>5, HorizonTyped
  <2> QED BY <1>4, <1>6, <2>1, YearFound DEF Year
<1>8. YearOf(r) <= YearOf(end - 1)
  BY <1>5, <1>6, <1>7, YearOfGrows
<1>9. ~(YearOf(r) < w.year)
  BY <1>1, <1>4
<1>10. Cardinality(F) = Limit(w) /\ \A f \in F : f < r
  <2>1. CASE YearOf(r) = w.year
    BY <1>1, <2>1
  <2>2. CASE w.year < YearOf(r)
    <3>1. Cardinality(F) = Limit(w)
      BY <1>2, <1>5, <1>7, <1>8, <2>2
    <3>2. ASSUME NEW f \in F PROVE f < r
      <4>1. f \in Tick /\ f \in Nat /\ r \in Tick /\ r \in Nat /\ YearOf(f) <= w.year
            /\ YearOf(f) \in Int /\ YearOf(r) \in Int
        BY <1>1, <1>5
      <4>2. ~(r <= f)
        <5> SUFFICES ASSUME r <= f PROVE FALSE
          OBVIOUS
        <5>1. YearOf(r) <= YearOf(f)
          BY <4>1, YearOfGrows
        <5> QED BY <1>5, <2>2, <4>1, <5>1
      <4> QED BY <4>1, <4>2
    <3> QED BY <3>1, <3>2
  <2> QED BY <1>5, <1>9, <2>1, <2>2
<1>11. F # {}
  <2> SUFFICES ASSUME F = {} PROVE FALSE
    OBVIOUS
  <2>1. Cardinality(F) = 0
    BY FS_EmptySet
  <2> QED BY <1>10, <2>1, LimitTyped
<1> QED BY <1>10, <1>11 DEF F

\* A page that does not end has every row up to its year.
LEMMA PageGoesOn ==
  ASSUME NEW w, raw \subseteq Tick, Paging(w, raw), ~PageEnds(w)
  PROVE  /\ w.year + 1 \in Year /\ w.year + 1 <= YearOf(Head(w.gaps).end - 1)
         /\ Cardinality(Fetched(w)) < Limit(w)
         /\ \A r \in Fetched(w) : YearOf(r) < w.year + 1
         /\ \A r \in raw : Coming(w, r) /\ r < Head(w.gaps).end /\ YearOf(r) < w.year + 1
                               => r \in Fetched(w)
<1> DEFINE end == Head(w.gaps).end
           F == Fetched(w)
<1>1. /\ F \subseteq raw /\ w.page \subseteq F
      /\ Cardinality(F) \in Nat /\ Cardinality(F) <= Limit(w)
      /\ \A f \in F : YearOf(f) <= w.year
      /\ \A r \in raw : w.from <= r /\ r < end /\ YearOf(r) = w.year /\ r \notin F
             => Cardinality(F) = Limit(w)
  BY FetchedSound
<1>2. Cardinality(F) # Limit(w) /\ w.year # YearOf(end - 1)
  BY DEF PageEnds
<1>3. /\ end \in 0 .. Horizon /\ w.year \in Year /\ w.year <= YearOf(end - 1)
      /\ Head(w.gaps).start \in Nat /\ Head(w.gaps).start < end
  BY DEF Paging
<1> HIDE DEF end, F
<1>4. w.year \in Int /\ \A f \in raw : YearOf(f) \in Int
  BY <1>3, YearFound DEF Year
<1>5. end - 1 \in Tick
  BY <1>3, HorizonTyped
<1>6. YearOf(end - 1) \in Year /\ Years \in Nat
  BY <1>5, YearFound, StoreAssumption
<1>7. w.year + 1 \in Year /\ w.year + 1 <= YearOf(end - 1)
  BY <1>2, <1>3, <1>6 DEF Year
<1>8. Cardinality(F) < Limit(w)
  BY <1>1, <1>2, LimitTyped
<1>9. \A f \in F : YearOf(f) < w.year + 1
  BY <1>1, <1>4
<1>10. ASSUME NEW r \in raw, Coming(w, r), r < end, YearOf(r) < w.year + 1
       PROVE  r \in F
  <2>1. w.from <= r /\ (YearOf(r) < w.year => r \in F)
    BY <1>1, <1>10 DEF Coming
  <2>2. YearOf(r) < w.year \/ YearOf(r) = w.year
    BY <1>4, <1>10
  <2> QED BY <1>1, <1>2, <1>10, <2>1, <2>2
<1> QED BY <1>7, <1>8, <1>9, <1>10 DEF F, end

-----------------------------------------------------------------------------
(* The inductive invariant of the answers *)

QueryType ==
    [pc : {"idle", "fetch", "answered", "failed"}, kind : {"coverage", "validate", "klines"},
     start : 0 .. Horizon, end : 0 .. Horizon, covered : SUBSET Spans, gaps : Seq(Spans),
     from : 0 .. Horizon, year : Year, page : SUBSET Tick, rows : SUBSET Tick,
     missing : Seq(Spans), truncated : BOOLEAN, knew : SUBSET Tick]

\* What the rows and the ticks of the index say of a window; a row that hides a candle.
KnownBy(rows, ticks, a, b) == (ticks \cup Candles(rows)) \cap (a .. b - 1)
HiddenBy(rows, t) == \E r \in rows : ~Aligned(r) /\ r < t /\ t < r + Step

WindowSound(w) ==
    /\ w.start < w.end
    /\ w.knew \subseteq w.start .. w.end - 1
    /\ w.kind # "klines" => Aligned(w.start) /\ Aligned(w.end)

GapsSound(w, rows, ticks) ==
    /\ w.covered \subseteq SpansIn(w.start, w.end)
    /\ w.gaps \in Seq(SpansIn(w.start, w.end)) /\ w.gaps # <<>>
    /\ w.kind # "klines" => AllAligned(w.covered) /\ AllAligned(ToSet(w.gaps))
    /\ w.kind # "coverage" => w.covered = {} /\ w.gaps = <<Span(w.start, w.end)>>
    /\ w.kind = "coverage" => TicksOf(w.covered) \subseteq KnownBy(rows, ticks, w.start, w.end)

\* A tick that was known is covered, or hidden, or its row is still to be read or was read
\* in this gap.
OwesTick(w, rows, t) ==
    \/ t \in TicksOf(w.covered)
    \/ HiddenBy(rows, RowOf(t))
    \/ RowOf(t) \in rows /\ t \in TicksOf(ToSet(Tail(w.gaps)))
    \/ /\ RowOf(t) \in rows /\ t \in Ticks(Head(w.gaps))
       /\ RowOf(t) \in w.rows \/ Coming(w, RowOf(t))

OwedSound(w, rows) ==
    /\ w.kind = "klines" => \A t \in w.knew : t \in rows /\ Coming(w, t)
    /\ w.kind # "klines" => \A t \in w.knew : OwesTick(w, rows, t)

Vouched(w, rows, ticks) ==
    /\ w.kind = "coverage" => TicksOf(w.covered) \subseteq KnownBy(rows, ticks, w.start, w.end)
    /\ w.kind = "validate" => (w.start .. w.end - 1) \ TicksOf(ToSet(w.missing)) \subseteq Candles(rows)

Complete(w, rows) ==
    /\ w.kind # "klines" => \A t \in TicksOf(ToSet(w.missing)) \cap w.knew : HiddenBy(rows, RowOf(t))
    /\ w.kind = "klines" => \A t \in w.knew \ w.rows : w.truncated /\ \A r \in w.rows : r < t

QuerySound(w, rows, ticks) ==
    /\ w.pc = "fetch" =>
          /\ WindowSound(w) /\ GapsSound(w, rows, ticks)
          /\ Paging(w, rows) /\ w.rows \subseteq rows
          /\ OwedSound(w, rows)
    /\ w.pc = "answered" => Vouched(w, rows, ticks) /\ Complete(w, rows)

\* What is said of an answer is not inductive: it rests on what a query still owes while it
\* reads page after page.
AnswersSound ==
    /\ raw \subseteq Tick
    /\ query \in [Query -> QueryType]
    /\ \A q \in Query : QuerySound(query[q], raw, TicksOf(store))

\* A call that asks nothing is well typed.
LEMMA NoQueryTyped ==
  /\ NoQuery \in QueryType
  /\ NoQuery.pc = "idle" /\ NoQuery.kind = "coverage" /\ NoQuery.covered = {}
  /\ NoQuery.rows = {} /\ NoQuery.page = {}
<1>1. 0 \in Year /\ 0 \in 0 .. Horizon
  BY HorizonTyped, StoreAssumption DEF Year
<1>2. <<>> \in Seq(Spans)
  OBVIOUS
<1> QED BY <1>1, <1>2 DEF NoQuery, QueryType

\* More rows and more covered ticks take nothing from what holds of a query.
LEMMA SoundGrows ==
  ASSUME NEW w, NEW rows, NEW more, NEW ticks, NEW ticksMore,
         rows \subseteq more, ticks \subseteq ticksMore, QuerySound(w, rows, ticks)
  PROVE  QuerySound(w, more, ticksMore)
<1>1. \A t : HiddenBy(rows, t) => HiddenBy(more, t)
  BY DEF HiddenBy
<1>2. Candles(rows) \subseteq Candles(more)
  BY DEF Candles
<1>3. \A a, b : KnownBy(rows, ticks, a, b) \subseteq KnownBy(more, ticksMore, a, b)
  BY <1>2 DEF KnownBy
<1>4. \A t : OwesTick(w, rows, t) => OwesTick(w, more, t)
  BY <1>1 DEF OwesTick
<1>5. ASSUME w.pc = "fetch"
      PROVE  /\ WindowSound(w) /\ GapsSound(w, more, ticksMore)
             /\ Paging(w, more) /\ w.rows \subseteq more
             /\ OwedSound(w, more)
  <2>1. /\ WindowSound(w) /\ GapsSound(w, rows, ticks)
        /\ Paging(w, rows) /\ w.rows \subseteq rows
        /\ OwedSound(w, rows)
    BY <1>5 DEF QuerySound
  <2>2. GapsSound(w, more, ticksMore)
    BY <1>3, <2>1 DEF GapsSound
  <2>3. Paging(w, more)
    BY <2>1 DEF Paging
  <2>4. OwedSound(w, more)
    BY <1>4, <2>1 DEF OwedSound
  <2> QED BY <2>1, <2>2, <2>3, <2>4
<1>6. ASSUME w.pc = "answered"
      PROVE  Vouched(w, more, ticksMore) /\ Complete(w, more)
  <2>1. Vouched(w, rows, ticks) /\ Complete(w, rows)
    BY <1>6 DEF QuerySound
  <2>2. Vouched(w, more, ticksMore)
    BY <1>2, <1>3, <2>1 DEF Vouched
  <2>3. Complete(w, more)
    BY <1>1, <2>1 DEF Complete
  <2> QED BY <2>2, <2>3
<1> QED BY <1>5, <1>6 DEF QuerySound

\* At the first page of a gap the rows of all its candles lie ahead.
LEMMA NextGapSound ==
  ASSUME NEW w \in QueryType, NEW ticks, raw \subseteq Tick,
         WindowSound(w), GapsSound(w, raw, ticks),
         w.kind = "klines" => w.knew \subseteq raw,
         w.kind # "klines" => \A t \in w.knew :
            \/ t \in TicksOf(w.covered)
            \/ HiddenBy(raw, RowOf(t))
            \/ RowOf(t) \in raw /\ t \in TicksOf(ToSet(w.gaps))
  PROVE  AtNextGap(w) \in QueryType /\ QuerySound(AtNextGap(w), raw, ticks)
<1> DEFINE v == AtNextGap(w)
           gap == Head(w.gaps)
           y == YearOf(gap.start)
<1>1. /\ gap \in SpansIn(w.start, w.end) /\ Tail(w.gaps) \in Seq(SpansIn(w.start, w.end))
      /\ ToSet(w.gaps) = {gap} \cup ToSet(Tail(w.gaps))
  BY SetOfTail DEF GapsSound
<1>2. /\ gap.start \in Nat /\ gap.end \in Nat /\ gap.end \in 0 .. Horizon
      /\ w.start <= gap.start /\ gap.start < gap.end /\ gap.end <= w.end
      /\ gap.start \in 0 .. Horizon
  <2> HIDE DEF gap
  <2> QED BY <1>1, SpansInTyped
<1>3. gap.start \in Tick /\ gap.end - 1 \in Tick /\ gap.start <= gap.end - 1
  BY <1>2, HorizonTyped
<1>4. y \in Year /\ y <= YearOf(gap.end - 1)
  BY <1>3, YearFound, YearOfGrows
<1> HIDE DEF y
<1>5. v = [w EXCEPT !.pc = "fetch", !.from = gap.start, !.year = y, !.page = {}, !.rows = {}]
  BY DEF AtNextGap, y
<1> HIDE DEF v
<1>6. /\ v \in QueryType
      /\ v.pc = "fetch" /\ v.kind = w.kind /\ v.start = w.start /\ v.end = w.end
      /\ v.covered = w.covered /\ v.gaps = w.gaps /\ v.knew = w.knew
      /\ v.from = gap.start /\ v.year = y /\ v.page = {} /\ v.rows = {}
  <2> HIDE DEF gap
  <2> QED BY <1>2, <1>4, <1>5 DEF QueryType
<1>7. WindowSound(v)
  BY <1>6 DEF WindowSound
<1>8. GapsSound(v, raw, ticks)
  BY <1>6 DEF GapsSound
<1>9. Paging(v, raw)
  <2>1. Cardinality(v.page) < Limit(v)
    BY <1>6, FS_EmptySet, LimitTyped
  <2>2. Head(v.gaps) = gap
    BY <1>6
  <2>3. YearOf(v.from) <= v.year
    <3>1. YearOf(gap.start) \in Int
      BY <1>3, YearFound DEF Year
    <3> QED BY <1>6, <3>1 DEF y
  <2>4. gap.start \in gap.start .. gap.end - 1
    BY <1>2
  <2> HIDE DEF gap
  <2> QED BY <1>2, <1>4, <1>6, <2>1, <2>2, <2>3, <2>4 DEF Paging
<1>10. ASSUME NEW t \in Tick, gap.start <= t PROVE Coming(v, t)
  <2>1. YearOf(gap.start) <= YearOf(t)
    BY <1>3, <1>10, YearOfGrows
  <2>2. YearOf(gap.start) \in Int /\ YearOf(t) \in Int
    BY <1>3, YearFound DEF Year
  <2>3. ~(YearOf(t) < v.year)
    BY <1>6, <2>1, <2>2 DEF y
  <2> QED BY <1>6, <1>10, <2>3 DEF Coming
<1>11. OwedSound(v, raw)
  <2>1. ASSUME v.kind = "klines", NEW t \in v.knew PROVE t \in raw /\ Coming(v, t)
    <3>1. t \in raw /\ t \in w.start .. w.end - 1 /\ gap = Span(w.start, w.end)
      BY <1>6, <2>1 DEF WindowSound, GapsSound
    <3>2. gap.start = w.start
      BY <3>1, SpanTicks
    <3>3. w.start \in Int /\ w.end \in Int
      BY HorizonTyped DEF QueryType
    <3>4. gap.start <= t
      BY <3>1, <3>2, <3>3
    <3> QED BY <1>10, <3>1, <3>4
  <2>2. ASSUME v.kind # "klines", NEW t \in v.knew PROVE OwesTick(v, raw, t)
    <3>1. CASE t \in TicksOf(w.covered) \/ HiddenBy(raw, RowOf(t))
      BY <1>6, <3>1 DEF OwesTick
    <3>2. CASE RowOf(t) \in raw /\ t \in TicksOf(ToSet(w.gaps))
      <4>1. t \in Ticks(gap) \/ t \in TicksOf(ToSet(Tail(w.gaps)))
        BY <1>1, <3>2 DEF TicksOf
      <4>2. CASE t \in TicksOf(ToSet(Tail(w.gaps)))
        BY <1>6, <3>2, <4>2 DEF OwesTick
      <4>3. CASE t \in Ticks(gap)
        <5>1. t \in Nat /\ gap.start <= t
          BY <1>2, <4>3 DEF Ticks
        <5>2. Aligned(gap.start)
          <6>1. gap \in ToSet(w.gaps)
            BY <1>1
          <6> QED BY <1>6, <2>2, <6>1 DEF GapsSound, AllAligned
        <5>3. gap.start <= RowOf(t)
          BY <1>2, <5>1, <5>2, RowBefore
        <5>4. Coming(v, RowOf(t))
          BY <1>10, <3>2, <5>3
        <5>5. t \in Ticks(Head(v.gaps)) /\ RowOf(t) \in raw
          BY <1>6, <3>2, <4>3
        <5> QED BY <5>4, <5>5 DEF OwesTick
      <4> QED BY <4>1, <4>2, <4>3
    <3> QED BY <1>6, <2>2, <3>1, <3>2
  <2> QED BY <2>1, <2>2 DEF OwedSound
<1>12. v.rows \subseteq raw
  BY <1>6
<1>13. QuerySound(v, raw, ticks)
  BY <1>6, <1>7, <1>8, <1>9, <1>11, <1>12 DEF QuerySound
<1> QED BY <1>6, <1>13 DEF v

\* A coverage answer misses what its segments do not cover.
LEMMA AnsweredSound ==
  ASSUME NEW w \in QueryType, NEW ticks, w.kind = "coverage", WindowSound(w),
         w.covered \subseteq SpansIn(w.start, w.end),
         TicksOf(w.covered) \subseteq KnownBy(raw, ticks, w.start, w.end),
         \A t \in w.knew : t \in TicksOf(w.covered) \/ HiddenBy(raw, RowOf(t))
  PROVE  Answered(w) \in QueryType /\ QuerySound(Answered(w), raw, ticks)
<1> DEFINE v == Answered(w)
           gaps == computeMissingSegments(w.start, w.end, w.covered)
<1>1. w.start \in 0 .. Horizon /\ w.end \in 0 .. Horizon /\ w.start < w.end
  BY DEF WindowSound, QueryType
<1>2. /\ gaps \in Seq(SpansIn(w.start, w.end))
      /\ TicksOf(ToSet(gaps)) = (w.start .. w.end - 1) \ TicksOf(w.covered)
  BY <1>1, SpansAreProper, MissingSound
<1>3. v = [w EXCEPT !.pc = "answered", !.missing = gaps]
  BY DEF Answered
<1> HIDE DEF v, gaps
<1>4. gaps \in Seq(Spans)
  <2>1. SpansIn(w.start, w.end) \subseteq Spans
    BY DEF SpansIn
  <2> QED BY <1>2, <2>1
<1>5. /\ v \in QueryType
      /\ v.pc = "answered" /\ v.kind = "coverage" /\ v.start = w.start /\ v.end = w.end
      /\ v.covered = w.covered /\ v.missing = gaps /\ v.knew = w.knew
  BY <1>3, <1>4 DEF QueryType
<1>6. Vouched(v, raw, ticks)
  BY <1>5 DEF Vouched
<1>7. Complete(v, raw)
  BY <1>2, <1>5 DEF Complete
<1> QED BY <1>5, <1>6, <1>7 DEF QuerySound, v

-----------------------------------------------------------------------------
(* Questions *)

\* A window that is asked for.
LEMMA WindowTyped ==
  ASSUME NEW w \in Window
  PROVE  /\ w[1] \in 0 .. Horizon /\ w[2] \in 0 .. Horizon /\ w[1] < w[2]
         /\ w[1] \in Nat /\ w[2] \in Nat
         /\ w[1] .. w[2] - 1 \subseteq Tick
<1>1. w[1] \in Tick /\ w[2] \in 1 .. Horizon /\ w[1] < w[2]
  BY CoverageAssumption DEF Horizon
<1> QED BY <1>1, HorizonTyped

\* What the index says of a window is what its selected rows say of it.
LEMMA IndexedTicks ==
  ASSUME StoreTypeOK, NEW a \in 0 .. Horizon, NEW b \in 0 .. Horizon, a < b
  PROVE  /\ Indexed(a, b) \subseteq Segment
         /\ TicksOf(Indexed(a, b)) \cap (a .. b - 1) = TicksOf(store) \cap (a .. b - 1)
<1>1. store \subseteq Segment /\ Indexed(a, b) \subseteq store
  BY DEF StoreTypeOK, Indexed
<1>2. ASSUME NEW t \in a .. b - 1
      PROVE  t \in TicksOf(Indexed(a, b)) <=> t \in TicksOf(store)
  <2>1. ASSUME NEW s \in store, t \in Ticks(s) PROVE s \in Indexed(a, b)
    <3>1. s.start \in 0 .. Horizon /\ s.end \in 0 .. Horizon /\ s.start < s.end
      BY <1>1, SegmentTyped DEF Horizon
    <3>2. ~Meets(s, a, b) => Ticks(s) \cap (a .. b - 1) = {}
      BY <3>1, ClipCuts
    <3> QED BY <1>2, <2>1, <3>2 DEF Indexed
  <2> QED BY <1>1, <2>1, InTicksOf
<1> QED BY <1>1, <1>2

\* A question that was asked of the index, and one asked of the raw rows.
IndexQuery(a, b, covered, gaps, knew) ==
    [NoQuery EXCEPT !.start = a, !.end = b, !.covered = covered, !.gaps = gaps, !.knew = knew]

RowQuery(kind, a, b, gaps, knew) ==
    [NoQuery EXCEPT !.kind = kind, !.start = a, !.end = b, !.gaps = gaps, !.knew = knew]

\* A question of the index is well typed.
LEMMA IndexQueryTyped ==
  ASSUME NEW a \in 0 .. Horizon, NEW b \in 0 .. Horizon,
         NEW covered \in SUBSET SpansIn(a, b), NEW gaps \in Seq(SpansIn(a, b)),
         NEW knew \in SUBSET Tick
  PROVE  LET w == IndexQuery(a, b, covered, gaps, knew)
         IN  /\ w \in QueryType
             /\ w.kind = "coverage" /\ w.start = a /\ w.end = b /\ w.covered = covered
             /\ w.gaps = gaps /\ w.knew = knew
<1>1. covered \subseteq Spans /\ gaps \in Seq(Spans)
  <2>1. SpansIn(a, b) \subseteq Spans
    BY DEF SpansIn
  <2> QED BY <2>1
<1> QED BY <1>1, NoQueryTyped DEF IndexQuery, QueryType

\* A question of the raw rows is well typed.
LEMMA RowQueryTyped ==
  ASSUME NEW kind \in {"validate", "klines"},
         NEW a \in 0 .. Horizon, NEW b \in 0 .. Horizon, NEW gaps \in Seq(SpansIn(a, b)),
         NEW knew \in SUBSET Tick
  PROVE  LET w == RowQuery(kind, a, b, gaps, knew)
         IN  /\ w \in QueryType
             /\ w.kind = kind /\ w.start = a /\ w.end = b /\ w.covered = {}
             /\ w.gaps = gaps /\ w.knew = knew
<1>1. gaps \in Seq(Spans)
  <2>1. SpansIn(a, b) \subseteq Spans
    BY DEF SpansIn
  <2> QED BY <2>1
<1> QED BY <1>1, NoQueryTyped DEF RowQuery, QueryType

\* The index is read and the first gap is begun, or the answer is there.
LEMMA CoverageAsked ==
  ASSUME StoreTypeOK, AnswersSound, NEW q \in Query, NEW w \in Window,
         QueryMarketDataCoverage(q, w)
  PROVE  \E v \in QueryType : /\ QuerySound(v, raw, TicksOf(store))
                              /\ query' = [query EXCEPT ![q] = v]
<1> DEFINE a == w[1]
           b == w[2]
           merged == mergeCoverageForQuery(a, b, Indexed(a, b))
           covered == merged.segments
           gaps == computeMissingSegments(a, b, covered)
           knew == Known(a, b)
           asked == IndexQuery(a, b, covered, gaps, knew)
           ticks == TicksOf(store)
<1>1. /\ a \in 0 .. Horizon /\ b \in 0 .. Horizon /\ a < b /\ a \in Nat /\ b \in Nat
      /\ a .. b - 1 \subseteq Tick
  BY WindowTyped
<1>2. Aligned(a) /\ Aligned(b)
  BY DEF QueryMarketDataCoverage
<1>3. query' = [query EXCEPT ![q] = IF gaps = <<>> THEN Answered(asked) ELSE AtNextGap(asked)]
  <2>1. asked = [NoQuery EXCEPT !.start = a, !.end = b, !.covered = covered, !.gaps = gaps,
                                !.knew = knew]
    BY DEF IndexQuery
  <2>2. asked.gaps = gaps
    BY DEF IndexQuery, NoQuery
  <2> HIDE DEF asked
  <2> QED BY <2>1, <2>2 DEF QueryMarketDataCoverage
<1>4. raw \subseteq Tick /\ raw \subseteq Nat
  BY HorizonTyped DEF AnswersSound
<1>5. /\ Indexed(a, b) \subseteq Segment
      /\ TicksOf(Indexed(a, b)) \cap (a .. b - 1) = ticks \cap (a .. b - 1)
  BY <1>1, IndexedTicks
<1>6. knew = KnownBy(raw, ticks, a, b)
  BY DEF Known, KnownBy
<1> HIDE DEF a, b, ticks, knew
<1>7. /\ covered \subseteq SpansIn(a, b)
      /\ TicksOf(covered) = ticks \cap (a .. b - 1)
      /\ AllAligned(covered)
  <2>1. Proper(Indexed(a, b))
    BY <1>5, SegmentsAreProper
  <2>2. merged.ok
    BY <1>1, <1>2, <1>5, IndexMerged
  <2> QED BY <1>1, <1>5, <2>1, <2>2, QueryMerged
<1> HIDE DEF merged, covered
<1>8. /\ gaps \in Seq(SpansIn(a, b))
      /\ TicksOf(ToSet(gaps)) = (a .. b - 1) \ TicksOf(covered)
      /\ AllAligned(ToSet(gaps))
  BY <1>1, <1>2, <1>7, SpansAreProper, MissingSound
<1> HIDE DEF gaps
<1>9. knew \subseteq a .. b - 1 /\ knew \subseteq Tick
  BY <1>1, <1>6 DEF KnownBy
<1>10. /\ asked \in QueryType
       /\ asked.kind = "coverage" /\ asked.start = a /\ asked.end = b
       /\ asked.covered = covered /\ asked.gaps = gaps /\ asked.knew = knew
  BY <1>1, <1>7, <1>8, <1>9, IndexQueryTyped
<1> HIDE DEF asked
<1>11. WindowSound(asked)
  BY <1>1, <1>2, <1>9, <1>10 DEF WindowSound
<1>12. TicksOf(covered) \subseteq KnownBy(raw, ticks, a, b)
  BY <1>7 DEF KnownBy
<1>13. ASSUME NEW t \in knew
       PROVE  t \in TicksOf(covered) \/ (RowOf(t) \in raw /\ t \in TicksOf(ToSet(gaps)))
  <2>1. t \in a .. b - 1 /\ t \in Nat /\ (t \in ticks \/ t \in Candles(raw))
    BY <1>1, <1>6, <1>9 DEF KnownBy
  <2>2. t \in Candles(raw) => RowOf(t) \in raw
    BY <1>4, <2>1, InCandles
  <2> QED BY <1>7, <1>8, <2>1, <2>2
<1>14. CASE gaps = <<>>
  <2>1. TicksOf(ToSet(gaps)) = {}
    BY <1>14, SetOfNone DEF TicksOf
  <2>2. \A t \in asked.knew : t \in TicksOf(asked.covered) \/ HiddenBy(raw, RowOf(t))
    BY <1>10, <1>13, <2>1
  <2>3. Answered(asked) \in QueryType /\ QuerySound(Answered(asked), raw, ticks)
    BY <1>7, <1>10, <1>11, <1>12, <2>2, AnsweredSound
  <2> QED BY <1>3, <1>14, <2>3 DEF ticks
<1>15. CASE gaps # <<>>
  <2>1. GapsSound(asked, raw, ticks)
    BY <1>7, <1>8, <1>10, <1>12, <1>15 DEF GapsSound
  <2>2. AtNextGap(asked) \in QueryType /\ QuerySound(AtNextGap(asked), raw, ticks)
    BY <1>4, <1>10, <1>11, <1>13, <2>1, NextGapSound
  <2> QED BY <1>3, <1>15, <2>2 DEF ticks
<1> QED BY <1>14, <1>15

\* One gap, the window.
LEMMA OneGap ==
  ASSUME NEW a \in 0 .. Horizon, NEW b \in 0 .. Horizon, a < b
  PROVE  /\ <<Span(a, b)>> \in Seq(SpansIn(a, b)) /\ <<Span(a, b)>> # <<>>
         /\ ToSet(<<Span(a, b)>>) = {Span(a, b)}
         /\ TicksOf(ToSet(<<Span(a, b)>>)) = a .. b - 1
         /\ Aligned(a) /\ Aligned(b) => AllAligned(ToSet(<<Span(a, b)>>))
<1>1. a \in Nat /\ a \in Int /\ b \in Int /\ a <= a /\ b <= b
  BY HorizonTyped
<1>2. Span(a, b) \in SpansIn(a, b)
  BY <1>1, SpanMade
<1> DEFINE s == Span(a, b)
<1>3. s.start = a /\ s.end = b /\ Ticks(s) = a .. b - 1
  BY SpanTicks
<1> HIDE DEF s
<1>4. <<s>> \in Seq(SpansIn(a, b)) /\ <<s>> # <<>> /\ ToSet(<<s>>) = {s}
  <2>1. s \in SpansIn(a, b)
    BY <1>2 DEF s
  <2> QED BY <2>1 DEF ToSet
<1>5. TicksOf({s}) = Ticks(s)
  BY DEF TicksOf
<1>6. Aligned(a) /\ Aligned(b) => AllAligned({s})
  BY <1>3 DEF AllAligned
<1> QED BY <1>3, <1>4, <1>5, <1>6 DEF s

\* A question of the raw rows begins with the window as its one gap.
LEMMA RawAsked ==
  ASSUME AnswersSound, NEW w \in Window, NEW kind \in {"validate", "klines"},
         kind = "validate" => Aligned(w[1]) /\ Aligned(w[2]),
         NEW knew, knew \subseteq w[1] .. w[2] - 1,
         kind = "klines" => knew \subseteq raw,
         kind = "validate" => knew \subseteq Candles(raw),
         NEW ticks
  PROVE  LET v == AtNextGap(RowQuery(kind, w[1], w[2], <<Span(w[1], w[2])>>, knew))
         IN  v \in QueryType /\ QuerySound(v, raw, ticks)
<1> DEFINE a == w[1]
           b == w[2]
           gaps == <<Span(a, b)>>
           asked == RowQuery(kind, a, b, gaps, knew)
<1>1. /\ a \in 0 .. Horizon /\ b \in 0 .. Horizon /\ a < b /\ a \in Nat /\ b \in Nat
      /\ a .. b - 1 \subseteq Tick
  BY WindowTyped
<1>2. raw \subseteq Tick /\ raw \subseteq Nat
  BY HorizonTyped DEF AnswersSound
<1>3. /\ gaps \in Seq(SpansIn(a, b)) /\ gaps # <<>>
      /\ TicksOf(ToSet(gaps)) = a .. b - 1
      /\ kind = "validate" => AllAligned(ToSet(gaps))
  BY <1>1, OneGap
<1>4. gaps = <<Span(a, b)>> /\ knew \subseteq a .. b - 1
  OBVIOUS
<1>5. kind = "validate" => Aligned(a) /\ Aligned(b)
  OBVIOUS
<1> HIDE DEF a, b, gaps
<1>6. /\ asked \in QueryType
      /\ asked.kind = kind /\ asked.start = a /\ asked.end = b
      /\ asked.covered = {} /\ asked.gaps = gaps /\ asked.knew = knew
  <2>1. knew \subseteq Tick
    BY <1>1, <1>4
  <2> QED BY <1>1, <1>3, <2>1, RowQueryTyped
<1> HIDE DEF asked
<1>7. WindowSound(asked)
  BY <1>1, <1>4, <1>5, <1>6 DEF WindowSound
<1>8. GapsSound(asked, raw, ticks)
  <2>1. AllAligned({})
    BY DEF AllAligned
  <2> QED BY <1>3, <1>4, <1>6, <2>1 DEF GapsSound
<1>9. ASSUME kind = "validate", NEW t \in knew
      PROVE  RowOf(t) \in raw /\ t \in TicksOf(ToSet(gaps))
  <2>1. t \in Nat /\ t \in Candles(raw)
    BY <1>1, <1>4, <1>9
  <2> QED BY <1>2, <1>3, <1>4, <2>1, InCandles
<1>10. AtNextGap(asked) \in QueryType /\ QuerySound(AtNextGap(asked), raw, ticks)
  BY <1>2, <1>6, <1>7, <1>8, <1>9, NextGapSound
<1> QED BY <1>10 DEF asked, gaps, a, b

\* The validation asks for the whole candles of its window.
LEMMA ValidationAsked ==
  ASSUME AnswersSound, NEW q \in Query, NEW w \in Window, ValidateMarketDataCoverage(q, w)
  PROVE  \E v \in QueryType : /\ QuerySound(v, raw, TicksOf(store))
                              /\ query' = [query EXCEPT ![q] = v]
<1> DEFINE gaps == <<Span(w[1], w[2])>>
           knew == Candles(raw) \cap (w[1] .. w[2] - 1)
           asked == RowQuery("validate", w[1], w[2], gaps, knew)
<1>1. Aligned(w[1]) /\ Aligned(w[2])
  BY DEF ValidateMarketDataCoverage
<1>2. query' = [query EXCEPT ![q] = AtNextGap(asked)]
  <2>1. asked = [NoQuery EXCEPT !.kind = "validate", !.start = w[1], !.end = w[2],
                                !.gaps = gaps, !.knew = knew]
    BY DEF RowQuery
  <2> HIDE DEF asked
  <2> QED BY <2>1 DEF ValidateMarketDataCoverage
<1>3. knew \subseteq w[1] .. w[2] - 1 /\ knew \subseteq Candles(raw)
  OBVIOUS
<1> HIDE DEF knew
<1>4. AtNextGap(asked) \in QueryType /\ QuerySound(AtNextGap(asked), raw, TicksOf(store))
  BY <1>1, <1>3, RawAsked
<1> HIDE DEF asked
<1> QED BY <1>2, <1>4

\* A list of rows is asked for, of any window.
LEMMA KlinesAsked ==
  ASSUME AnswersSound, NEW q \in Query, NEW w \in Window, QueryMarketDataKlines(q, w)
  PROVE  \E v \in QueryType : /\ QuerySound(v, raw, TicksOf(store))
                              /\ query' = [query EXCEPT ![q] = v]
<1> DEFINE gaps == <<Span(w[1], w[2])>>
           knew == raw \cap (w[1] .. w[2] - 1)
           asked == RowQuery("klines", w[1], w[2], gaps, knew)
<1>1. query' = [query EXCEPT ![q] = AtNextGap(asked)]
  <2>1. asked = [NoQuery EXCEPT !.kind = "klines", !.start = w[1], !.end = w[2],
                                !.gaps = gaps, !.knew = knew]
    BY DEF RowQuery
  <2> HIDE DEF asked
  <2> QED BY <2>1 DEF QueryMarketDataKlines
<1>2. knew \subseteq w[1] .. w[2] - 1 /\ knew \subseteq raw
  OBVIOUS
<1> HIDE DEF knew
<1>3. AtNextGap(asked) \in QueryType /\ QuerySound(AtNextGap(asked), raw, TicksOf(store))
  BY <1>2, RawAsked
<1> HIDE DEF asked
<1> QED BY <1>1, <1>3

-----------------------------------------------------------------------------
(* Pages and answers *)

\* What holds of a query that reads rows.
LEMMA Fetching ==
  ASSUME AnswersSound, NEW q \in Query, query[q].pc = "fetch"
  PROVE  LET w == query[q]  gap == Head(w.gaps)
         IN  /\ w \in QueryType /\ raw \subseteq Tick /\ raw \subseteq Nat
             /\ WindowSound(w) /\ GapsSound(w, raw, TicksOf(store))
             /\ Paging(w, raw) /\ w.rows \subseteq raw /\ OwedSound(w, raw)
             /\ w.start \in 0 .. Horizon /\ w.end \in 0 .. Horizon
             /\ w.start \in Nat /\ w.end \in Nat /\ w.start < w.end
             /\ gap \in SpansIn(w.start, w.end)
             /\ gap.start \in 0 .. Horizon /\ gap.end \in 0 .. Horizon
             /\ gap.start \in Nat /\ gap.end \in Nat /\ gap.start < gap.end
             /\ w.start <= gap.start /\ gap.end <= w.end
             /\ w.kind # "klines" => Aligned(gap.start) /\ Aligned(gap.end)
             /\ w.kind # "coverage" => gap = Span(w.start, w.end)
<1> DEFINE w == query[q]
           gap == Head(w.gaps)
<1>1. /\ w \in QueryType /\ raw \subseteq Tick /\ raw \subseteq Nat
      /\ WindowSound(w) /\ GapsSound(w, raw, TicksOf(store))
      /\ Paging(w, raw) /\ w.rows \subseteq raw /\ OwedSound(w, raw)
  BY HorizonTyped DEF AnswersSound, QuerySound
<1> HIDE DEF w
<1>2. w.start \in 0 .. Horizon /\ w.end \in 0 .. Horizon /\ w.start < w.end
  BY <1>1 DEF QueryType, WindowSound
<1>3. w.start \in Nat /\ w.end \in Nat
  BY <1>2, HorizonTyped
<1>4. gap \in SpansIn(w.start, w.end) /\ gap \in ToSet(w.gaps)
  BY <1>1, SetOfTail DEF GapsSound
<1>5. w.kind # "klines" => Aligned(gap.start) /\ Aligned(gap.end)
  BY <1>1, <1>4 DEF GapsSound, AllAligned
<1>6. w.kind # "coverage" => gap = Span(w.start, w.end)
  BY <1>1 DEF GapsSound
<1> HIDE DEF gap
<1>7. /\ gap.start \in 0 .. Horizon /\ gap.end \in 0 .. Horizon
      /\ gap.start \in Nat /\ gap.end \in Nat /\ gap.start < gap.end
      /\ w.start <= gap.start /\ gap.end <= w.end
  BY <1>4, SpansInTyped
<1> QED BY <1>1, <1>2, <1>3, <1>4, <1>5, <1>6, <1>7 DEF gap, w

\* A row off the grid hides the candle that begins less than a candle behind it.
LEMMA HiddenBehind ==
  ASSUME raw \subseteq Nat, NEW m \in raw, NEW r \in Nat, Aligned(r), m < r, r < m + Step
  PROVE  HiddenBy(raw, r)
<1>1. m \in Nat
  OBVIOUS
<1>2. ~Aligned(m)
  <2> SUFFICES ASSUME Aligned(m) PROVE FALSE
    OBVIOUS
  <2>1. m + Step <= r
    BY <1>1, GridApart
  <2> QED BY <1>1, <2>1, GridUnit
<1> QED BY <1>2 DEF HiddenBy

\* The last row of a page.
LEMMA LastOfPage ==
  ASSUME NEW S, S \subseteq Tick, S # {}
  PROVE  Max(S) \in S /\ Max(S) \in Nat /\ \A t \in S : t <= Max(S)
<1>1. S \subseteq 0 .. Horizon /\ Horizon \in Nat /\ S \subseteq Nat
  BY HorizonTyped
<1>2. \E m \in S : \A t \in S : t <= m
  BY <1>1, GreatestOf
<1>3. \E m \in S : \A t \in S : m >= t
  BY <1>1, <1>2
<1>4. Max(S) \in S /\ \A t \in S : Max(S) >= t
  BY <1>3 DEF Max
<1> QED BY <1>1, <1>4

\* The next year's database is asked: what it adds to the page no longer lies ahead.
LEMMA YearFetched ==
  ASSUME AnswersSound, NEW q \in Query, FetchYear(q)
  PROVE  \E v \in QueryType : /\ QuerySound(v, raw, TicksOf(store))
                              /\ query' = [query EXCEPT ![q] = v]
<1> DEFINE w == query[q]
           gap == Head(w.gaps)
           F == Fetched(w)
           v == [w EXCEPT !.page = F, !.year = @ + 1]
           ticks == TicksOf(store)
<1>1. w.pc = "fetch" /\ ~PageEnds(w)
  BY DEF FetchYear
<1>2. query' = [query EXCEPT ![q] = v]
  BY DEF FetchYear
<1>3. /\ w \in QueryType /\ raw \subseteq Tick /\ raw \subseteq Nat
      /\ WindowSound(w) /\ GapsSound(w, raw, ticks)
      /\ Paging(w, raw) /\ w.rows \subseteq raw /\ OwedSound(w, raw)
      /\ gap.start \in Nat /\ gap.end \in Nat
      /\ w.start \in Nat /\ w.end \in Nat
      /\ w.kind # "klines" => Aligned(gap.end)
      /\ w.kind # "coverage" => gap = Span(w.start, w.end)
  BY <1>1, Fetching
<1> HIDE DEF w, ticks
<1>4. /\ F \subseteq raw
      /\ \A r \in F : w.from <= r /\ r < gap.end
  BY <1>3, FetchedSound
<1>5. /\ w.year + 1 \in Year /\ w.year + 1 <= YearOf(gap.end - 1)
      /\ Cardinality(F) < Limit(w)
      /\ \A r \in F : YearOf(r) < w.year + 1
      /\ \A r \in raw : Coming(w, r) /\ r < gap.end /\ YearOf(r) < w.year + 1 => r \in F
  BY <1>1, <1>3, PageGoesOn
<1> HIDE DEF F
<1>6. /\ v \in QueryType
      /\ v.pc = "fetch" /\ v.kind = w.kind /\ v.start = w.start /\ v.end = w.end
      /\ v.covered = w.covered /\ v.gaps = w.gaps /\ v.knew = w.knew /\ v.from = w.from
      /\ v.rows = w.rows /\ v.page = F /\ v.year = w.year + 1
  BY <1>1, <1>3, <1>4, <1>5 DEF QueryType
<1> HIDE DEF v
<1>7. WindowSound(v) /\ GapsSound(v, raw, ticks)
  BY <1>3, <1>6 DEF WindowSound, GapsSound
<1>8. Paging(v, raw)
  <2>1. Limit(v) = Limit(w)
    BY <1>6 DEF Limit
  <2>2. /\ gap.start \in Nat /\ gap.end \in 0 .. Horizon /\ gap.start < gap.end
        /\ w.from \in gap.start .. gap.end - 1
        /\ w.year \in Year /\ YearOf(w.from) <= w.year
    BY <1>3 DEF Paging
  <2>3. YearOf(w.from) <= w.year + 1
    <3>1. w.from \in Tick
      BY <1>3, <2>2, HorizonTyped
    <3>2. YearOf(w.from) \in Int /\ w.year \in Int
      BY <2>2, <3>1, YearFound DEF Year
    <3> QED BY <2>2, <3>2
  <2>4. Head(v.gaps) = gap
    BY <1>6
  <2> HIDE DEF gap
  <2> QED BY <1>4, <1>5, <1>6, <2>1, <2>2, <2>3, <2>4 DEF Paging
<1>9. ASSUME NEW r \in raw, Coming(w, r), r < gap.end PROVE Coming(v, r)
  BY <1>5, <1>6, <1>9 DEF Coming
<1>10. OwedSound(v, raw)
  <2>1. ASSUME w.kind = "klines", NEW t \in w.knew PROVE t \in raw /\ Coming(v, t)
    <3>1. t \in raw /\ Coming(w, t) /\ t \in w.start .. w.end - 1
      BY <1>3, <2>1 DEF OwedSound, WindowSound
    <3>2. gap.end = w.end
      BY <1>3, <2>1, SpanTicks
    <3>3. t < gap.end
      BY <1>3, <3>1, <3>2
    <3> QED BY <1>9, <3>1, <3>3
  <2>2. ASSUME w.kind # "klines", NEW t \in w.knew PROVE OwesTick(v, raw, t)
    <3>1. OwesTick(w, raw, t)
      BY <1>3, <2>2 DEF OwedSound
    <3>2. ASSUME RowOf(t) \in raw, t \in Ticks(gap), Coming(w, RowOf(t))
          PROVE  Coming(v, RowOf(t))
      <4>1. t \in Nat /\ t < gap.end
        BY <1>3, <3>2 DEF Ticks
      <4>2. RowOf(t) < gap.end
        BY <1>3, <2>2, <4>1, RowBefore
      <4> QED BY <1>9, <3>2, <4>2
    <3> QED BY <1>6, <3>1, <3>2 DEF OwesTick
  <2> QED BY <1>6, <2>1, <2>2 DEF OwedSound
<1>11. QuerySound(v, raw, ticks)
  BY <1>3, <1>6, <1>7, <1>8, <1>10 DEF QuerySound
<1> QED BY <1>2, <1>6, <1>11 DEF ticks

\* The next page begins a candle behind the last row: what lies in between is hidden.
LEMMA PageFetched ==
  ASSUME AnswersSound, NEW q \in Query, FetchPage(q)
  PROVE  \E v \in QueryType : /\ QuerySound(v, raw, TicksOf(store))
                              /\ query' = [query EXCEPT ![q] = v]
<1> DEFINE w == query[q]
           gap == Head(w.gaps)
           F == Fetched(w)
           next == NextPage(w)
           v == [w EXCEPT !.page = {}, !.rows = @ \cup F, !.from = next, !.year = YearOf(next)]
           ticks == TicksOf(store)
<1>1. /\ w.pc = "fetch" /\ w.kind # "klines" /\ PageEnds(w) /\ F # {} /\ next < gap.end
  BY DEF FetchPage
<1>2. query' = [query EXCEPT ![q] = v]
  BY DEF FetchPage
<1>3. /\ w \in QueryType /\ raw \subseteq Tick /\ raw \subseteq Nat
      /\ WindowSound(w) /\ GapsSound(w, raw, ticks)
      /\ Paging(w, raw) /\ w.rows \subseteq raw /\ OwedSound(w, raw)
      /\ gap.start \in Nat /\ gap.end \in Nat /\ gap.end \in 0 .. Horizon
      /\ Aligned(gap.end) /\ gap.start < gap.end
  BY <1>1, Fetching
<1> HIDE DEF w, ticks
<1>4. /\ F \subseteq raw
      /\ \A r \in F : w.from <= r /\ r < gap.end
  BY <1>3, FetchedSound
<1>5. ASSUME NEW r \in raw, Coming(w, r), r < gap.end, r \notin F
      PROVE  \A f \in F : f < r
  BY <1>1, <1>3, <1>5, PageEndsBefore
<1> DEFINE m == Max(F)
<1>6. m \in F /\ m \in Nat /\ \A f \in F : f <= m
  <2>1. F \subseteq Tick
    BY <1>3, <1>4
  <2> HIDE DEF F
  <2> QED BY <1>1, <2>1, LastOfPage
<1>7. next = m + Step
  BY DEF NextPage
<1> HIDE DEF F, m, next
<1>8. /\ w.from \in Nat /\ gap.start <= w.from
  BY <1>3 DEF Paging
<1>9. next \in gap.start .. gap.end - 1 /\ next \in Nat
  <2>1. w.from <= m
    BY <1>4, <1>6
  <2> QED BY <1>1, <1>3, <1>6, <1>7, <1>8, <2>1, GridUnit
<1>10. next \in Tick /\ gap.end - 1 \in Tick /\ next <= gap.end - 1
  BY <1>3, <1>9, HorizonTyped
<1>11. YearOf(next) \in Year /\ YearOf(next) <= YearOf(gap.end - 1)
  BY <1>10, YearFound, YearOfGrows
<1>12. /\ v \in QueryType
       /\ v.pc = "fetch" /\ v.kind = w.kind /\ v.start = w.start /\ v.end = w.end
       /\ v.covered = w.covered /\ v.gaps = w.gaps /\ v.knew = w.knew /\ v.from = next
       /\ v.rows = w.rows \cup F /\ v.page = {} /\ v.year = YearOf(next)
  <2>1. next \in 0 .. Horizon
    BY <1>9, <1>10, HorizonTyped
  <2>2. w.rows \cup F \in SUBSET Tick
    <3>1. w.rows \subseteq Tick /\ F \subseteq Tick
      BY <1>3, <1>4
    <3> QED BY <3>1
  <2> QED BY <1>1, <1>3, <1>11, <2>1, <2>2 DEF QueryType
<1> HIDE DEF v
<1>13. WindowSound(v) /\ GapsSound(v, raw, ticks)
  BY <1>3, <1>12 DEF WindowSound, GapsSound
<1>14. Paging(v, raw)
  <2>1. Cardinality(v.page) < Limit(v)
    BY <1>12, FS_EmptySet, LimitTyped
  <2>2. Head(v.gaps) = gap
    BY <1>12
  <2>3. YearOf(v.from) <= v.year
    <3>1. YearOf(next) \in Int
      BY <1>11 DEF Year
    <3> QED BY <1>12, <3>1
  <2> HIDE DEF gap
  <2> QED BY <1>3, <1>9, <1>11, <1>12, <2>1, <2>2, <2>3 DEF Paging
<1>15. ASSUME NEW t \in w.knew PROVE OwesTick(v, raw, t)
  <2>1. OwesTick(w, raw, t)
    BY <1>1, <1>3 DEF OwedSound
  <2>2. ASSUME RowOf(t) \in raw, t \in Ticks(gap), RowOf(t) \in w.rows \/ Coming(w, RowOf(t))
        PROVE  HiddenBy(raw, RowOf(t)) \/ RowOf(t) \in v.rows \/ Coming(v, RowOf(t))
    <3> SUFFICES ASSUME RowOf(t) \notin v.rows, ~Coming(v, RowOf(t))
                 PROVE  HiddenBy(raw, RowOf(t))
      OBVIOUS
    <3> DEFINE r == RowOf(t)
    <3>1. t \in Nat /\ t < gap.end
      BY <1>3, <2>2 DEF Ticks
    <3>2. r \in Nat /\ Aligned(r) /\ r < gap.end
      BY <1>3, <3>1, RowBefore, RowOnGrid
    <3>3. r \in raw /\ r \notin F /\ Coming(w, r)
      BY <1>12, <2>2
    <3>4. ~Coming(v, r)
      OBVIOUS
    <3> HIDE DEF r
    <3>5. m < r
      BY <1>5, <1>6, <3>2, <3>3
    <3>6. r < m + Step
      <4> SUFFICES ASSUME next <= r PROVE FALSE
        BY <1>6, <1>7, <1>9, <3>2
      <4>1. r \in Tick
        BY <1>3, <3>3
      <4>2. YearOf(next) <= YearOf(r)
        BY <1>10, <4>1, YearOfGrows
      <4>3. YearOf(next) \in Int /\ YearOf(r) \in Int
        BY <1>11, <4>1, YearFound DEF Year
      <4>4. ~(YearOf(r) < v.year)
        BY <1>12, <4>2, <4>3
      <4> QED BY <1>12, <3>4, <4>4 DEF Coming
    <3>7. m \in raw
      BY <1>4, <1>6
    <3>8. HiddenBy(raw, r)
      BY <1>3, <3>2, <3>5, <3>6, <3>7, HiddenBehind
    <3> QED BY <3>8 DEF r
  <2> QED BY <1>12, <2>1, <2>2 DEF OwesTick
<1>16. OwedSound(v, raw)
  BY <1>1, <1>12, <1>15 DEF OwedSound
<1>17. v.rows \subseteq raw
  BY <1>3, <1>4, <1>12
<1>18. QuerySound(v, raw, ticks)
  BY <1>12, <1>13, <1>14, <1>16, <1>17 DEF QuerySound
<1> QED BY <1>2, <1>12, <1>18 DEF ticks

\* When the rows of a gap are complete, a candle of the gap that was owed and has no row
\* among them is hidden.
LEMMA GapIsFetched ==
  ASSUME AnswersSound, NEW q \in Query, GapFetched(query[q]),
         NEW t \in query[q].knew, OwesTick(query[q], raw, t)
  PROVE  \/ t \in TicksOf(query[q].covered)
         \/ HiddenBy(raw, RowOf(t))
         \/ RowOf(t) \in raw /\ t \in TicksOf(ToSet(Tail(query[q].gaps)))
         \/ t \in Ticks(Head(query[q].gaps)) /\ RowOf(t) \in query[q].rows \cup Fetched(query[q])
<1> DEFINE w == query[q]
           gap == Head(w.gaps)
           F == Fetched(w)
           r == RowOf(t)
<1>1. /\ w.pc = "fetch" /\ w.kind # "klines" /\ PageEnds(w)
      /\ F # {} => NextPage(w) >= gap.end
  BY DEF GapFetched
<1>2. /\ raw \subseteq Tick /\ raw \subseteq Nat /\ Paging(w, raw)
      /\ gap.start \in Nat /\ gap.end \in Nat /\ Aligned(gap.end)
  BY <1>1, Fetching
<1>3. SUFFICES ASSUME r \in raw, t \in Ticks(gap), Coming(w, r), r \notin w.rows, r \notin F
               PROVE  HiddenBy(raw, r)
  BY DEF OwesTick
<1> HIDE DEF w
<1>4. t \in Nat /\ t < gap.end
  BY <1>2, <1>3 DEF Ticks
<1>5. r \in Nat /\ Aligned(r) /\ r < gap.end
  BY <1>2, <1>4, RowBefore, RowOnGrid
<1> HIDE DEF r
<1>6. F # {} /\ \A f \in F : f < r
  BY <1>1, <1>2, <1>3, <1>5, PageEndsBefore
<1>7. F \subseteq raw
  BY <1>2, FetchedSound
<1>8. NextPage(w) = Max(F) + Step
  BY DEF NextPage
<1> HIDE DEF F
<1>9. Max(F) \in F /\ Max(F) \in Nat
  <2>1. F \subseteq Tick
    BY <1>2, <1>7
  <2> QED BY <1>6, <2>1, LastOfPage
<1>10. Max(F) \in raw /\ Max(F) < r /\ r < Max(F) + Step
  BY <1>1, <1>2, <1>5, <1>6, <1>7, <1>8, <1>9, GridUnit
<1> QED BY <1>2, <1>5, <1>10, HiddenBehind


\* The rows of a gap become segments; behind the last gap they are the answer.
LEMMA RawCoverageAdded ==
  ASSUME AnswersSound, NEW q \in Query, AddRawCoverage(q)
  PROVE  \E v \in QueryType : /\ QuerySound(v, raw, TicksOf(store))
                              /\ query' = [query EXCEPT ![q] = v]
<1> DEFINE w == query[q]
           gap == Head(w.gaps)
           rest == Tail(w.gaps)
           rows == w.rows \cup Fetched(w)
           found == coverageSegmentsFromKlineRows(gap.start, gap.end, rows)
           next == [w EXCEPT !.covered = @ \cup found.segments, !.gaps = Tail(@)]
           merged == mergeCoverageForQuery(w.start, w.end, next.covered)
           last == [next EXCEPT !.covered = merged.segments, !.rows = {}, !.page = {}]
           failed == [NoQuery EXCEPT !.pc = "failed"]
           ticks == TicksOf(store)
<1>1. GapFetched(w) /\ w.kind = "coverage" /\ w.pc = "fetch"
  BY DEF AddRawCoverage, GapFetched
<1>2. query' = [query EXCEPT ![q] =
               IF ~found.ok \/ (next.gaps = <<>> /\ ~merged.ok) THEN failed
               ELSE IF next.gaps # <<>> THEN AtNextGap(next)
               ELSE Answered(last)]
  BY DEF AddRawCoverage
<1>3. /\ w \in QueryType /\ raw \subseteq Tick /\ raw \subseteq Nat
      /\ WindowSound(w) /\ GapsSound(w, raw, ticks)
      /\ Paging(w, raw) /\ w.rows \subseteq raw /\ OwedSound(w, raw)
      /\ w.start \in 0 .. Horizon /\ w.end \in 0 .. Horizon
      /\ w.start \in Nat /\ w.end \in Nat /\ w.start < w.end
      /\ gap \in SpansIn(w.start, w.end)
      /\ gap.start \in 0 .. Horizon /\ gap.end \in 0 .. Horizon
      /\ gap.start \in Nat /\ gap.end \in Nat /\ gap.start < gap.end
      /\ w.start <= gap.start /\ gap.end <= w.end
      /\ Aligned(gap.start) /\ Aligned(gap.end)
  BY <1>1, Fetching
<1>4. rows \subseteq raw /\ rows \subseteq Tick
  BY <1>3, FetchedSound
<1>5. ASSUME NEW t \in w.knew
      PROVE  \/ t \in TicksOf(w.covered)
             \/ HiddenBy(raw, RowOf(t))
             \/ RowOf(t) \in raw /\ t \in TicksOf(ToSet(rest))
             \/ t \in Ticks(gap) /\ RowOf(t) \in rows
  <2>1. OwesTick(w, raw, t)
    BY <1>1, <1>3, <1>5 DEF OwedSound
  <2> QED BY <1>1, <1>5, <2>1, GapIsFetched
<1> HIDE DEF w, ticks, rows
<1>6. /\ found.segments \subseteq SpansIn(gap.start, gap.end)
      /\ \A t : t \in TicksOf(found.segments) <=> t \in gap.start .. gap.end - 1 /\ RowOf(t) \in rows
      /\ found.ok => AllAligned(found.segments)
  <2> HIDE DEF gap
  <2> QED BY <1>3, <1>4, RunsOfRows
<1> HIDE DEF found
<1>7. found.segments \subseteq SpansIn(w.start, w.end) /\ found.segments \subseteq Spans
  <2> HIDE DEF gap
  <2> SUFFICES ASSUME NEW s \in found.segments PROVE s \in SpansIn(w.start, w.end)
    BY DEF SpansIn
  <2>1. /\ s \in Spans /\ s.start \in Nat /\ s.end \in Nat
        /\ gap.start <= s.start /\ s.start < s.end /\ s.end <= gap.end
    BY <1>6, SpansInTyped
  <2>2. w.start <= s.start /\ s.end <= w.end
    BY <1>3, <2>1
  <2> QED BY <2>1, <2>2 DEF SpansIn
<1> DEFINE covered == w.covered \cup found.segments
<1>8. /\ covered \subseteq SpansIn(w.start, w.end) /\ covered \subseteq Spans
      /\ TicksOf(covered) = TicksOf(w.covered) \cup TicksOf(found.segments)
  BY <1>3, <1>7, TicksOfUnion DEF GapsSound, QueryType
<1>9. TicksOf(covered) \subseteq KnownBy(raw, ticks, w.start, w.end)
  <2> SUFFICES ASSUME NEW t \in TicksOf(covered) PROVE t \in KnownBy(raw, ticks, w.start, w.end)
    OBVIOUS
  <2>1. CASE t \in TicksOf(w.covered)
    BY <1>1, <1>3, <2>1 DEF GapsSound
  <2>2. CASE t \in TicksOf(found.segments)
    <3>1. t \in gap.start .. gap.end - 1 /\ RowOf(t) \in raw
      BY <1>4, <1>6, <2>2
    <3>2. t \in Nat /\ t \in w.start .. w.end - 1
      <4> HIDE DEF gap
      <4> QED BY <1>3, <3>1
    <3>3. t \in Candles(raw)
      BY <1>3, <3>1, <3>2, InCandles
    <3> QED BY <3>2, <3>3 DEF KnownBy
  <2> QED BY <1>8, <2>1, <2>2
<1>10. ASSUME NEW t \in w.knew
       PROVE  \/ t \in TicksOf(covered)
              \/ HiddenBy(raw, RowOf(t))
              \/ RowOf(t) \in raw /\ t \in TicksOf(ToSet(rest))
  BY <1>5, <1>6, <1>8, <1>10 DEF Ticks
<1>11. /\ rest \in Seq(SpansIn(w.start, w.end)) /\ rest \in Seq(Spans)
       /\ ToSet(rest) \subseteq ToSet(w.gaps)
  <2>1. w.gaps \in Seq(SpansIn(w.start, w.end)) /\ w.gaps # <<>> /\ w.gaps \in Seq(Spans)
    BY <1>3 DEF GapsSound, QueryType
  <2> QED BY <2>1, SetOfTail
<1>12. /\ next \in QueryType
       /\ next.kind = "coverage" /\ next.start = w.start /\ next.end = w.end
       /\ next.covered = covered /\ next.gaps = rest /\ next.knew = w.knew
  <2> HIDE DEF rest
  <2>1. next = [w EXCEPT !.covered = covered, !.gaps = rest]
    BY <1>3 DEF rest, QueryType
  <2> HIDE DEF next, covered
  <2> QED BY <1>1, <1>3, <1>8, <1>11, <2>1 DEF QueryType
<1> HIDE DEF next, covered
<1>13. WindowSound(next)
  BY <1>1, <1>3, <1>12 DEF WindowSound
<1>14. CASE ~found.ok \/ (next.gaps = <<>> /\ ~merged.ok)
  <2>1. query' = [query EXCEPT ![q] = failed]
    <3> HIDE DEF failed, merged
    <3> QED BY <1>2, <1>14
  <2>2. failed \in QueryType /\ failed.pc = "failed"
    BY NoQueryTyped DEF QueryType
  <2>3. QuerySound(failed, raw, ticks)
    BY <2>2 DEF QuerySound
  <2> QED BY <2>1, <2>2, <2>3 DEF ticks
<1>15. CASE found.ok /\ next.gaps # <<>>
  <2>1. query' = [query EXCEPT ![q] = AtNextGap(next)]
    <3> HIDE DEF failed, merged
    <3> QED BY <1>2, <1>15
  <2>2. AllAligned(covered) /\ AllAligned(ToSet(rest))
    <3>1. AllAligned(w.covered) /\ AllAligned(ToSet(w.gaps)) /\ AllAligned(found.segments)
      BY <1>1, <1>3, <1>6, <1>15 DEF GapsSound
    <3> QED BY <1>11, <3>1 DEF AllAligned, covered
  <2> HIDE DEF rest
  <2>3. GapsSound(next, raw, ticks)
    BY <1>8, <1>9, <1>11, <1>12, <1>15, <2>2 DEF GapsSound
  <2>4. AtNextGap(next) \in QueryType /\ QuerySound(AtNextGap(next), raw, ticks)
    BY <1>3, <1>10, <1>12, <1>13, <2>3, NextGapSound
  <2> QED BY <2>1, <2>4 DEF ticks
<1>16. CASE found.ok /\ next.gaps = <<>> /\ merged.ok
  <2>1. query' = [query EXCEPT ![q] = Answered(last)]
    <3> HIDE DEF failed, merged, last
    <3> QED BY <1>2, <1>16
  <2>2. /\ merged.segments \subseteq SpansIn(w.start, w.end)
        /\ TicksOf(merged.segments) = TicksOf(covered) \cap (w.start .. w.end - 1)
    BY <1>3, <1>8, <1>12, SpansAreProper, QueryMerged
  <2>3. TicksOf(covered) \subseteq w.start .. w.end - 1
    BY <1>9 DEF KnownBy
  <2> HIDE DEF merged
  <2>4. /\ last \in QueryType
        /\ last.kind = "coverage" /\ last.start = w.start /\ last.end = w.end
        /\ last.covered = merged.segments /\ last.knew = w.knew
    <3>1. merged.segments \subseteq Spans
      BY <2>2 DEF SpansIn
    <3> QED BY <1>12, <3>1 DEF QueryType
  <2> HIDE DEF last
  <2>5. WindowSound(last)
    BY <1>12, <1>13, <2>4 DEF WindowSound
  <2>6. TicksOf(ToSet(rest)) = {}
    BY <1>12, <1>16, SetOfNone DEF TicksOf
  <2> HIDE DEF rest
  <2>7. TicksOf(last.covered) = TicksOf(covered)
    BY <2>2, <2>3, <2>4
  <2>8. \A t \in last.knew : t \in TicksOf(last.covered) \/ HiddenBy(raw, RowOf(t))
    BY <1>10, <2>4, <2>6, <2>7
  <2>9. Answered(last) \in QueryType /\ QuerySound(Answered(last), raw, ticks)
    BY <1>9, <2>2, <2>4, <2>5, <2>7, <2>8, AnsweredSound
  <2> QED BY <2>1, <2>9 DEF ticks
<1> QED BY <1>14, <1>15, <1>16

\* The candles without a row among the rows of the window are what is missing.
LEMMA ValidationAnswered ==
  ASSUME AnswersSound, NEW q \in Query, AnswerValidation(q)
  PROVE  \E v \in QueryType : /\ QuerySound(v, raw, TicksOf(store))
                              /\ query' = [query EXCEPT ![q] = v]
<1> DEFINE w == query[q]
           rows == w.rows \cup Fetched(w)
           missing == ValidateKlineRows(w.start, w.end, rows)
           v == [w EXCEPT !.pc = "answered", !.rows = rows, !.page = {}, !.gaps = <<>>,
                          !.missing = missing]
           ticks == TicksOf(store)
<1>1. GapFetched(w) /\ w.kind = "validate" /\ w.pc = "fetch"
  BY DEF AnswerValidation, GapFetched
<1>2. query' = [query EXCEPT ![q] = v]
  BY DEF AnswerValidation
<1>3. /\ w \in QueryType /\ raw \subseteq Tick /\ raw \subseteq Nat
      /\ WindowSound(w) /\ GapsSound(w, raw, ticks)
      /\ Paging(w, raw) /\ w.rows \subseteq raw /\ OwedSound(w, raw)
      /\ w.start \in 0 .. Horizon /\ w.end \in 0 .. Horizon
      /\ w.start \in Nat /\ w.end \in Nat /\ w.start < w.end
  BY <1>1, Fetching
<1>4. rows \subseteq raw /\ rows \subseteq Tick
  BY <1>3, FetchedSound
<1>5. ASSUME NEW t \in w.knew
      PROVE  HiddenBy(raw, RowOf(t)) \/ RowOf(t) \in rows
  <2>1. OwesTick(w, raw, t)
    BY <1>1, <1>3, <1>5 DEF OwedSound
  <2>2. w.covered = {} /\ w.gaps = <<Span(w.start, w.end)>>
    BY <1>1, <1>3 DEF GapsSound
  <2>3. ToSet(Tail(w.gaps)) = {}
    <3>1. Tail(w.gaps) = <<>>
      BY <2>2
    <3> QED BY <3>1, SetOfNone
  <2>4. t \notin TicksOf(w.covered) /\ t \notin TicksOf(ToSet(Tail(w.gaps)))
    BY <2>2, <2>3 DEF TicksOf
  <2> QED BY <1>1, <1>5, <2>1, <2>4, GapIsFetched
<1>6. Aligned(w.start) /\ Aligned(w.end) /\ w.knew \subseteq w.start .. w.end - 1
  BY <1>1, <1>3 DEF WindowSound
<1> HIDE DEF w, ticks, rows
<1>7. /\ missing \in Seq(SpansIn(w.start, w.end))
      /\ \A t : t \in TicksOf(ToSet(missing)) <=> t \in w.start .. w.end - 1 /\ RowOf(t) \notin rows
  BY <1>3, <1>4, <1>6, ValidatedRows
<1> HIDE DEF missing
<1>8. /\ v \in QueryType
      /\ v.pc = "answered" /\ v.kind = "validate" /\ v.start = w.start /\ v.end = w.end
      /\ v.missing = missing /\ v.knew = w.knew
  <2>1. missing \in Seq(Spans)
    <3>1. SpansIn(w.start, w.end) \subseteq Spans
      BY DEF SpansIn
    <3> QED BY <1>7, <3>1
  <2>2. <<>> \in Seq(Spans)
    OBVIOUS
  <2> QED BY <1>1, <1>3, <1>4, <2>1, <2>2 DEF QueryType
<1> HIDE DEF v
<1>9. ASSUME NEW t \in w.start .. w.end - 1, t \notin TicksOf(ToSet(missing))
      PROVE  t \in Candles(raw)
  <2>1. RowOf(t) \in rows
    BY <1>7, <1>9
  <2>2. RowOf(t) \in raw
    BY <1>4, <2>1
  <2>3. t \in Nat
    BY <1>3
  <2> QED BY <1>3, <2>2, <2>3, InCandles
<1>10. Vouched(v, raw, ticks)
  BY <1>8, <1>9 DEF Vouched
<1>11. Complete(v, raw)
  BY <1>5, <1>7, <1>8 DEF Complete
<1>12. QuerySound(v, raw, ticks)
  BY <1>8, <1>10, <1>11 DEF QuerySound
<1> QED BY <1>2, <1>8, <1>12 DEF ticks

\* A row that is left out is behind the ones in the list, and the list says it goes on.
LEMMA KlinesAnswered ==
  ASSUME AnswersSound, NEW q \in Query, AnswerKlines(q)
  PROVE  \E v \in QueryType : /\ QuerySound(v, raw, TicksOf(store))
                              /\ query' = [query EXCEPT ![q] = v]
<1> DEFINE w == query[q]
           F == Fetched(w)
           L == Lowest(KlineLimit, F)
           v == [w EXCEPT !.pc = "answered", !.rows = L,
                          !.page = {}, !.gaps = <<>>, !.truncated = Truncated(w)]
           ticks == TicksOf(store)
<1>1. w.pc = "fetch" /\ w.kind = "klines" /\ PageEnds(w)
  BY DEF AnswerKlines
<1>2. query' = [query EXCEPT ![q] = v]
  BY DEF AnswerKlines
<1>3. /\ w \in QueryType /\ raw \subseteq Tick /\ raw \subseteq Nat
      /\ WindowSound(w) /\ GapsSound(w, raw, ticks)
      /\ Paging(w, raw) /\ OwedSound(w, raw)
      /\ w.start \in Nat /\ w.end \in Nat
      /\ Head(w.gaps) = Span(w.start, w.end)
  BY <1>1, Fetching
<1>4. /\ F \subseteq raw /\ F \subseteq Tick /\ IsFiniteSet(F)
      /\ Cardinality(F) \in Nat
  BY <1>3, FetchedSound, TicksAreFinite
<1>5. Limit(w) = KlineLimit + 1 /\ KlineLimit \in Nat
  BY <1>1, LimitTyped
<1> HIDE DEF w, ticks
<1>6. ASSUME NEW r \in raw, Coming(w, r), r < w.end, r \notin F
      PROVE  Cardinality(F) = KlineLimit + 1 /\ \A f \in F : f < r
  <2>1. Head(w.gaps).end = w.end
    BY <1>3, SpanTicks
  <2> QED BY <1>1, <1>3, <1>5, <1>6, <2>1, PageEndsBefore
<1>7. Truncated(w) <=> Cardinality(F) > KlineLimit
  BY DEF Truncated
<1> HIDE DEF F
<1>8. /\ L \subseteq F /\ L \subseteq Tick
      /\ Cardinality(L) \in Nat /\ Cardinality(L) <= KlineLimit
      /\ \A t \in F \ L : Cardinality(L) = KlineLimit /\ \A r \in L : r < t
  BY <1>4, <1>5, LowestSound
<1> HIDE DEF L
<1>9. /\ v \in QueryType
      /\ v.pc = "answered" /\ v.kind = "klines" /\ v.rows = L /\ v.knew = w.knew
      /\ v.truncated = Truncated(w)
  <2>1. <<>> \in Seq(Spans) /\ Truncated(w) \in BOOLEAN
    BY DEF Truncated
  <2> QED BY <1>1, <1>3, <1>8, <2>1 DEF QueryType
<1> HIDE DEF v
<1>10. ASSUME NEW t \in w.knew, t \notin L
       PROVE  Cardinality(F) > KlineLimit /\ \A r \in L : r < t
  <2>1. t \in raw /\ Coming(w, t) /\ t \in w.start .. w.end - 1
    BY <1>1, <1>3, <1>10 DEF OwedSound, WindowSound
  <2>2. CASE t \in F
    <3>1. Cardinality(L) = KlineLimit /\ \A r \in L : r < t
      BY <1>8, <1>10, <2>2
    <3>2. L # F
      BY <1>10, <2>2
    <3>3. Cardinality(L) < Cardinality(F)
      <4>1. Cardinality(L) <= Cardinality(F) /\ (Cardinality(L) = Cardinality(F) => L = F)
        BY <1>4, <1>8, FS_Subset
      <4> QED BY <1>4, <1>8, <3>2, <4>1
    <3> QED BY <3>1, <3>3
  <2>3. CASE t \notin F
    <3>1. t < w.end
      BY <1>3, <2>1
    <3>2. Cardinality(F) = KlineLimit + 1 /\ \A f \in F : f < t
      BY <1>6, <2>1, <2>3, <3>1
    <3> QED BY <1>5, <1>8, <3>2
  <2> QED BY <2>2, <2>3
<1>11. Vouched(v, raw, ticks)
  BY <1>9 DEF Vouched
<1>12. Complete(v, raw)
  BY <1>7, <1>9, <1>10 DEF Complete
<1>13. QuerySound(v, raw, ticks)
  BY <1>9, <1>11, <1>12 DEF QuerySound
<1> QED BY <1>2, <1>9, <1>13 DEF ticks

\* A call that has returned says nothing.
LEMMA Returned ==
  ASSUME NEW q \in Query, Return(q)
  PROVE  \E v \in QueryType : /\ QuerySound(v, raw, TicksOf(store))
                              /\ query' = [query EXCEPT ![q] = v]
<1>1. QuerySound(NoQuery, raw, TicksOf(store))
  BY NoQueryTyped DEF QuerySound
<1> QED BY <1>1, NoQueryTyped DEF Return

-----------------------------------------------------------------------------
(* The answers *)

\* At first nobody has asked.
LEMMA AnswersInit == CoverageInit => AnswersSound
<1> SUFFICES ASSUME CoverageInit PROVE AnswersSound
  OBVIOUS
<1>1. raw = {} /\ query = [q \in Query |-> NoQuery]
  BY DEF CoverageInit
<1>2. \A q \in Query : query[q] = NoQuery
  BY <1>1
<1>3. QuerySound(NoQuery, raw, TicksOf(store))
  BY NoQueryTyped DEF QuerySound
<1> QED BY <1>1, <1>2, <1>3, NoQueryTyped DEF AnswersSound

\* A call moves alone, and nothing else changes with it.
LEMMA CallKeeps ==
  ASSUME AnswersSound, UNCHANGED <<storeVars, raw>>,
         NEW q \in Query,
         \E v \in QueryType : /\ QuerySound(v, raw, TicksOf(store))
                              /\ query' = [query EXCEPT ![q] = v]
  PROVE  AnswersSound'
<1>1. PICK v \in QueryType : /\ QuerySound(v, raw, TicksOf(store))
                             /\ query' = [query EXCEPT ![q] = v]
  OBVIOUS
<1>2. /\ raw \subseteq Tick /\ query \in [Query -> QueryType]
      /\ \A p \in Query : QuerySound(query[p], raw, TicksOf(store))
  BY DEF AnswersSound
<1>3. raw' = raw /\ store' = store
  BY DEF storeVars
<1>4. query' \in [Query -> QueryType]
  BY <1>1, <1>2
<1>5. \A p \in Query : query'[p] = IF p = q THEN v ELSE query[p]
  BY <1>1, <1>2
<1>6. \A p \in Query : QuerySound(query'[p], raw', TicksOf(store'))
  BY <1>1, <1>2, <1>3, <1>5
<1>7. raw' \subseteq Tick
  BY <1>2, <1>3
<1>8. AnswersSound' <=> /\ raw' \subseteq Tick
                        /\ query' \in [Query -> QueryType]
                        /\ \A p \in Query : QuerySound(query'[p], raw', TicksOf(store'))
  BY DEF AnswersSound, TicksOf, Ticks
<1> QED BY <1>4, <1>6, <1>7, <1>8

\* More rows or more of the index, and every call stays where it was.
LEMMA GrowthKeeps ==
  ASSUME AnswersSound, query' = query, raw \subseteq raw', raw' \subseteq Tick,
         TicksOf(store) \subseteq TicksOf(store')
  PROVE  AnswersSound'
<1>1. /\ query \in [Query -> QueryType]
      /\ \A p \in Query : QuerySound(query[p], raw, TicksOf(store))
  BY DEF AnswersSound
<1>2. \A p \in Query : QuerySound(query[p], raw', TicksOf(store'))
  BY <1>1, SoundGrows
<1>3. AnswersSound' <=> /\ raw' \subseteq Tick
                        /\ query' \in [Query -> QueryType]
                        /\ \A p \in Query : QuerySound(query'[p], raw', TicksOf(store'))
  BY DEF AnswersSound, TicksOf, Ticks
<1> QED BY <1>1, <1>2, <1>3

\* The index never covers less than it did.
LEMMA IndexGrows ==
  ASSUME StoreTypeOK, StoreInv, [StoreNext]_storeVars
  PROVE  TicksOf(store) \subseteq TicksOf(store')
<1>1. TicksOf(store)' = TicksOf(store')
  BY DEF TicksOf, Ticks
<1>2. CASE UNCHANGED <<TicksOf(store), Owes>>
  BY <1>1, <1>2
<1>3. CASE Abstract!Next
  <2>1. TicksOf(store) \subseteq TicksOf(store)'
    BY <1>3 DEF Abstract!Next, Abstract!Report, Abstract!Merge, Abstract!GiveUp
  <2> QED BY <1>1, <2>1
<1> QED BY <1>2, <1>3, StoreRefines

\* Every step of a query, of the index and of the rows keeps the answers sound.
LEMMA AnswersKept ==
  ASSUME StoreTypeOK, StoreInv, AnswersSound, [CoverageNext]_coverageVars
  PROVE  AnswersSound'
<1>1. ASSUME NEW q \in Query, NEW w \in Window,
             \/ QueryMarketDataCoverage(q, w)
             \/ ValidateMarketDataCoverage(q, w)
             \/ QueryMarketDataKlines(q, w)
      PROVE  AnswersSound'
  <2>1. CASE QueryMarketDataCoverage(q, w)
    <3>1. UNCHANGED <<storeVars, raw>>
      BY <2>1 DEF QueryMarketDataCoverage
    <3> QED BY <2>1, <3>1, CoverageAsked, CallKeeps
  <2>2. CASE ValidateMarketDataCoverage(q, w)
    <3>1. UNCHANGED <<storeVars, raw>>
      BY <2>2 DEF ValidateMarketDataCoverage
    <3> QED BY <2>2, <3>1, ValidationAsked, CallKeeps
  <2>3. CASE QueryMarketDataKlines(q, w)
    <3>1. UNCHANGED <<storeVars, raw>>
      BY <2>3 DEF QueryMarketDataKlines
    <3> QED BY <2>3, <3>1, KlinesAsked, CallKeeps
  <2> QED BY <1>1, <2>1, <2>2, <2>3
<1>2. ASSUME NEW q \in Query, FetchYear(q) \/ FetchPage(q) \/ Return(q)
      PROVE  AnswersSound'
  <2>1. UNCHANGED <<storeVars, raw>>
    BY <1>2 DEF FetchYear, FetchPage, Return
  <2> QED BY <1>2, <2>1, YearFetched, PageFetched, Returned, CallKeeps
<1>3. ASSUME NEW q \in Query, AddRawCoverage(q)
      PROVE  AnswersSound'
  <2>1. UNCHANGED <<storeVars, raw>>
    BY <1>3 DEF AddRawCoverage
  <2> QED BY <1>3, <2>1, RawCoverageAdded, CallKeeps
<1>4. ASSUME NEW q \in Query, AnswerValidation(q) \/ AnswerKlines(q)
      PROVE  AnswersSound'
  <2>1. UNCHANGED <<storeVars, raw>>
    BY <1>4 DEF AnswerValidation, AnswerKlines
  <2> QED BY <1>4, <2>1, ValidationAnswered, KlinesAnswered, CallKeeps
<1>5. ASSUME NEW t \in RawTick, RowArrives(t)
      PROVE  AnswersSound'
  <2>1. raw' = raw \cup {t} /\ UNCHANGED <<storeVars, query>>
    BY <1>5 DEF RowArrives
  <2>2. raw \subseteq Tick /\ t \in Tick /\ store' = store
    BY <2>1, CoverageAssumption DEF AnswersSound, storeVars
  <2> QED BY <2>1, <2>2, GrowthKeeps
<1>6. CASE StoreNext /\ UNCHANGED <<raw, query>>
  <2>1. TicksOf(store) \subseteq TicksOf(store')
    BY <1>6, IndexGrows
  <2>2. raw \subseteq Tick
    BY DEF AnswersSound
  <2> QED BY <1>6, <2>1, <2>2, GrowthKeeps
<1>7. CASE UNCHANGED coverageVars
  <2>1. raw' = raw /\ query' = query /\ store' = store /\ raw \subseteq Tick
    BY <1>7 DEF coverageVars, storeVars, AnswersSound
  <2> QED BY <2>1, GrowthKeeps
<1> QED BY <1>1, <1>2, <1>3, <1>4, <1>5, <1>6, <1>7 DEF CoverageNext

\* An answer that is sound is vouched for.
LEMMA SoundIsVouched == AnswersSound => AnswerVouchedFor
<1> SUFFICES ASSUME AnswersSound PROVE AnswerVouchedFor
  OBVIOUS
<1>1. ASSUME NEW q \in Query, query[q].pc = "answered"
      PROVE  Vouched(query[q], raw, TicksOf(store))
  BY <1>1 DEF AnswersSound, QuerySound
<1>2. ASSUME NEW w \in Answer("coverage")
      PROVE  TicksOf(w.covered) \subseteq Known(w.start, w.end)
  <2>1. PICK q \in Query : w = query[q] /\ w.pc = "answered" /\ w.kind = "coverage"
    BY DEF Answer
  <2> QED BY <1>1, <2>1 DEF Vouched, Known, KnownBy
<1>3. ASSUME NEW w \in Answer("validate")
      PROVE  Asked(w) \ Missing(w) \subseteq Candles(raw)
  <2>1. PICK q \in Query : w = query[q] /\ w.pc = "answered" /\ w.kind = "validate"
    BY DEF Answer
  <2> QED BY <1>1, <2>1 DEF Vouched, Asked, Missing
<1> QED BY <1>2, <1>3 DEF AnswerVouchedFor

\* An answer that is sound misses nothing.
LEMMA SoundIsComplete == AnswersSound => AnswerMissesNothing
<1> SUFFICES ASSUME AnswersSound PROVE AnswerMissesNothing
  OBVIOUS
<1>1. ASSUME NEW q \in Query, query[q].pc = "answered"
      PROVE  Complete(query[q], raw)
  BY <1>1 DEF AnswersSound, QuerySound
<1>2. ASSUME NEW w \in Answer("coverage") \cup Answer("validate"), NEW t \in Missing(w) \cap w.knew
      PROVE  Hidden(t - (t % Step))
  <2>1. PICK q \in Query : w = query[q] /\ w.pc = "answered" /\ w.kind # "klines"
    BY DEF Answer
  <2>2. HiddenBy(raw, RowOf(t))
    BY <1>1, <2>1 DEF Complete, Missing
  <2> QED BY <2>2 DEF Hidden, HiddenBy, RowOf
<1>3. ASSUME NEW w \in Answer("klines"), NEW t \in w.knew \ w.rows
      PROVE  w.truncated /\ \A r \in w.rows : r < t
  <2>1. PICK q \in Query : w = query[q] /\ w.pc = "answered" /\ w.kind = "klines"
    BY DEF Answer
  <2> QED BY <1>1, <2>1 DEF Complete
<1> QED BY <1>2, <1>3 DEF AnswerMissesNothing

\* A caller is told of no candle that neither the index nor a raw row vouches for, however
\* reports and rows come in while its answer is put together page by page
\* (QueryMarketDataCoverage, ValidateMarketDataCoverage, coverageWithRawFallback).
THEOREM AnswersAreVouched == CoverageSpec => []AnswerVouchedFor
<1>1. CoverageInit => StoreTypeOK /\ StoreInv /\ AnswersSound
  BY StoreInitTyped, AnswersInit DEF CoverageInit
<1>2. StoreTypeOK /\ StoreInv /\ AnswersSound /\ [CoverageNext]_coverageVars
          => StoreTypeOK' /\ StoreInv' /\ AnswersSound'
  BY CoverageRefinesStore, StoreKeeps, AnswersKept
<1> QED BY <1>1, <1>2, SoundIsVouched, PTL DEF CoverageSpec

\* A candle that was known when a call came is not called missing, unless a row off the grid
\* hides it, and a list of rows that leaves one out says that it goes on
\* (ValidateMarketDataCoverage, coverageWithRawFallback, QueryMarketDataKlines, FetchKlines).
THEOREM AnswersMissNothing == CoverageSpec => []AnswerMissesNothing
<1>1. CoverageInit => StoreTypeOK /\ StoreInv /\ AnswersSound
  BY StoreInitTyped, AnswersInit DEF CoverageInit
<1>2. StoreTypeOK /\ StoreInv /\ AnswersSound /\ [CoverageNext]_coverageVars
          => StoreTypeOK' /\ StoreInv' /\ AnswersSound'
  BY CoverageRefinesStore, StoreKeeps, AnswersKept
<1> QED BY <1>1, <1>2, SoundIsComplete, PTL DEF CoverageSpec
=============================================================================
