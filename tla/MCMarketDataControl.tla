------------------------ MODULE MCMarketDataControl ------------------------
EXTENDS MarketDataControl, TLC

\* Users, callers and reporters are interchangeable: no definition tells one from
\* another.
CallSymmetry == Permutations(User) \cup Permutations(Caller) \cup Permutations(Reporter)

Key(kind, market, interval, spelling) ==
    [market |-> market, kind |-> kind, interval |-> interval, year |-> 2024,
     spelling |-> spelling]

\* One key in two spellings, and one that is refused.
MCAskedKey == {Key("kline", "spot", "1h", "normal"), Key("kline", "spot", "1h", "other"),
               Key("funding_rate", "spot", "", "normal")}

\* One scraper takes the default, the other asks for less than the least.
MCAskedTTL == [w \in Scraper |-> IF w = "w1" THEN 0 ELSE 1]

\* Candles of two ticks.  The second year begins on the grid, the third inside a
\* candle.
MCYearStart == [y \in 0 .. 3 |-> CASE y = 0 -> 0 [] y = 1 -> 6 [] y = 2 -> 9 [] y = 3 -> 12]

S(y, a, b) == [year |-> y, start |-> a, end |-> b]
\* The two outer candles of a year, the one that bridges them with one of the next year.
MCBatch == {<<S(0, 0, 2)>>, <<S(0, 4, 6)>>, <<S(0, 2, 4), S(1, 6, 8)>>}

MCWindow == {<<0, 8>>, <<4, 12>>}
=============================================================================
