---------------------------- MODULE WriterLeases ----------------------------
(***************************************************************************)
(* Which scraper writes a year of a stream: the active rows of             *)
(* market_data_writer_leases.  Every call is one statement, so what may go *)
(* wrong lies between the calls: they and their answers are delayed and    *)
(* overtake one another, a caller gives up and asks again, leases run out  *)
(* while the holder still writes.                                          *)
(*                                                                         *)
(* The scrapers are external.  One clock is modelled: the code writes      *)
(* expires_at with the clock of a process and compares it with NOW() of    *)
(* the database.                                                           *)
(***************************************************************************)
EXTENDS Naturals, FiniteSets

CONSTANTS
    Scraper,   \* owner_instance_ids
    AskedKey,  \* the keys scrapers ask for, as they spell them
    AskedTTL,  \* the ttl each scraper asks for
    MinTTL, DefaultTTL, MaxTTL,
    MaxId,     \* bound: lease ids drawn in a behaviour
    MaxTime,   \* bound: the last instant
    MaxWaiting \* bound: calls and answers on their way

\* A ttl out of range is clamped, not refused.
LeaseTTL(asked) == CASE asked = 0 -> DefaultTTL
                     [] asked \in 1 .. MinTTL -> MinTTL
                     [] asked > MaxTTL -> MaxTTL
                     [] OTHER -> asked

\* Case and blanks make no difference, except for the interval.
Normalised(k) == [k EXCEPT !.spelling = "normal"]

\* A kline has an interval and nothing else has; two kinds exist for futures only.
ValidWriterKey(k) ==
    /\ k.year >= 1970
    /\ k.kind = "kline" <=> k.interval # ""
    /\ k.kind \in {"funding_rate", "open_interest"} => k.market = "futures"

WriterKey == {Normalised(k) : k \in {a \in AskedKey : ValidWriterKey(a)}}

ASSUME WriterAssumption ==
    /\ AskedKey \subseteq [market : {"spot", "futures"}, year : Nat,
                           kind : {"kline", "funding_rate", "open_interest", "orderbook"},
                           interval : {"", "1h"}, spelling : {"normal", "other"}]
    /\ AskedTTL \in [Scraper -> Nat]
    /\ "nobody" \notin Scraper
    /\ MinTTL \in Nat \ {0} /\ DefaultTTL \in MinTTL .. MaxTTL /\ MaxTTL \in Nat
    /\ MaxId \in Nat /\ MaxTime \in Nat /\ MaxWaiting \in Nat

VARIABLES
    now,     \* the time
    drawn,   \* lease ids drawn so far
    writer,  \* the active row of each key; id 0 is none
    waiting, \* the calls not served yet and the answers not received yet
    held,    \* per scraper and key: the lease its last answer told it
    given    \* per scraper: the leases it has asked to release (history)

writerVars == <<now, drawn, writer, waiting, held, given>>

NoId == 0
NoWriter == [id |-> NoId, owner |-> "nobody", until |-> 0]
NotHeld == [id |-> NoId, until |-> 0]

-----------------------------------------------------------------------------
WriterInit ==
    /\ now = 0
    /\ drawn = NoId
    /\ writer = [k \in WriterKey |-> NoWriter]
    /\ waiting = {}
    /\ held = [w \in Scraper |-> [k \in WriterKey |-> NotHeld]]
    /\ given = [w \in Scraper |-> {}]

-----------------------------------------------------------------------------
(* Scrapers call, and hear the answers, in any order and possibly never *)

Asks(m) ==
    /\ Cardinality(waiting) < MaxWaiting
    /\ waiting' = waiting \cup {m}

AsksForLease(w, k) ==
    /\ Asks([op |-> "renew", from |-> w, key |-> k])
    /\ UNCHANGED <<now, drawn, writer, held, given>>

\* It stops writing before it asks.
AsksForRelease(w, k) ==
    /\ held[w][k] # NotHeld
    /\ Asks([op |-> "release", from |-> w, id |-> held[w][k].id])
    /\ held' = [held EXCEPT ![w][k] = NotHeld]
    /\ given' = [given EXCEPT ![w] = @ \cup {held[w][k].id}]
    /\ UNCHANGED <<now, drawn, writer>>

Hears(m) ==
    /\ m.op = "answer"
    /\ held' = [held EXCEPT ![m.to][m.key] = [id |-> m.id, until |-> m.until]]
    /\ waiting' = waiting \ {m}
    /\ UNCHANGED <<now, drawn, writer, given>>

Lost(m) ==
    /\ waiting' = waiting \ {m}
    /\ UNCHANGED <<now, drawn, writer, held, given>>

-----------------------------------------------------------------------------
(* CreateOrRenewMarketDataWriterLease *)

\* The conflict is resolved in favour of the caller: the row is its own, or has run out.
Grants(row, w) == row = NoWriter \/ row.owner = w \/ row.until <= now

\* The lease keeps its id as long as it keeps its owner.
RenewedId(row, w) == IF row.owner = w THEN row.id ELSE drawn + 1

CreateOrRenewMarketDataWriterLease(m) ==
    /\ m.op = "renew"
    /\ ValidWriterKey(m.key)
    /\ LET k == Normalised(m.key)
           id == RenewedId(writer[k], m.from)
           until == now + LeaseTTL(AskedTTL[m.from])
       IN  /\ Grants(writer[k], m.from)
           /\ id <= MaxId
           /\ writer' = [writer EXCEPT ![k] = [id |-> id, owner |-> m.from, until |-> until]]
           /\ drawn' = IF id > drawn THEN id ELSE drawn
           /\ waiting' = (waiting \ {m}) \cup
                  {[op |-> "answer", to |-> m.from, key |-> k, id |-> id, until |-> until]}
    /\ UNCHANGED <<now, held, given>>

\* InvalidArgument, or FailedPrecondition: "owned by another active instance".
RefusesLease(m) ==
    /\ m.op = "renew"
    /\ ValidWriterKey(m.key) => ~Grants(writer[Normalised(m.key)], m.from)
    /\ Lost(m)

-----------------------------------------------------------------------------
(* ReleaseMarketDataWriterLease *)

\* Faulty: whichever lease the caller has is released.
ReleasesAnyOf(m, k) == writer[k].owner = m.from

Releases(m, k) == writer[k].owner = m.from /\ writer[k].id = m.id

ReleaseMarketDataWriterLease(m) ==
    /\ m.op = "release"
    /\ writer' = [k \in WriterKey |-> IF Releases(m, k) THEN NoWriter ELSE writer[k]]
    /\ waiting' = waiting \ {m}
    /\ UNCHANGED <<now, drawn, held, given>>

-----------------------------------------------------------------------------
TimePasses ==
    /\ now < MaxTime
    /\ now' = now + 1
    /\ UNCHANGED <<drawn, writer, waiting, held, given>>

WriterNext ==
    \/ \E w \in Scraper : \/ \E k \in AskedKey : AsksForLease(w, k)
                          \/ \E k \in WriterKey : AsksForRelease(w, k)
    \/ \E m \in waiting : \/ Hears(m) \/ Lost(m)
                          \/ CreateOrRenewMarketDataWriterLease(m) \/ RefusesLease(m)
                          \/ ReleaseMarketDataWriterLease(m)
    \/ TimePasses

WriterSpec == WriterInit /\ [][WriterNext]_writerVars

-----------------------------------------------------------------------------
\* Calls and answers on their way.
Message ==
    [op : {"renew"}, from : Scraper, key : AskedKey]
        \cup [op : {"release"}, from : Scraper, id : Nat]
        \cup [op : {"answer"}, to : Scraper, key : WriterKey, id : Nat, until : Nat]

WriterTypeOK ==
    /\ now \in Nat /\ drawn \in Nat
    /\ writer \in [WriterKey -> [id : Nat, owner : Scraper \cup {"nobody"}, until : Nat]]
    /\ waiting \subseteq Message
    /\ held \in [Scraper -> [WriterKey -> [id : Nat, until : Nat]]]
    /\ given \in [Scraper -> SUBSET Nat]

\* A scraper that was granted a lease, has not asked to release it and sees it
\* unexpired still owns the row, at least until then, however its calls and those of
\* others were delayed and reordered: nobody else writes the year meanwhile, and a
\* release that comes late frees nothing but the lease it names.  That holds for
\* scrapers that ask for one ttl all the time: a renewal with a shorter one brings
\* the expiry forward, and its answer may be lost.
HeldLeaseStands ==
    \A w \in Scraper, k \in WriterKey :
        held[w][k].until > now /\ held[w][k].id \notin given[w] =>
            /\ writer[k].owner = w
            /\ writer[k].id = held[w][k].id
            /\ writer[k].until >= held[w][k].until
=============================================================================
