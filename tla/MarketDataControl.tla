------------------------- MODULE MarketDataControl -------------------------
(***************************************************************************)
(* The tables of the market-data control plane that several callers write: *)
(* who wants a stream (MarketDataRequests), who may write its klines       *)
(* (WriterLeases), and what klines were stored (Coverage).  They refer to  *)
(* one another by nothing but the key of the stream, so a behaviour is     *)
(* about one of them.                                                      *)
(***************************************************************************)
EXTENDS MarketDataRequests, WriterLeases, Coverage

VARIABLE part  \* the tables the behaviour is about

controlVars == <<part, vars, writerVars, coverageVars>>

ControlInit ==
    /\ part \in {"requests", "writers", "segments"}
    /\ Init /\ WriterInit /\ CoverageInit

ControlNext ==
    \/ part = "requests" /\ Next /\ UNCHANGED <<part, writerVars, coverageVars>>
    \/ part = "writers" /\ WriterNext /\ UNCHANGED <<part, vars, coverageVars>>
    \/ part = "segments" /\ CoverageNext /\ UNCHANGED <<part, vars, writerVars>>

ControlSpec == ControlInit /\ [][ControlNext]_controlVars
=============================================================================
