---- MODULE MCLiveMarketData ----
(***************************************************************************)
(* One symbol, two clients, a buffer of two events: a client that is away  *)
(* for three events is too late to resume.                                 *)
(***************************************************************************)
EXTENDS LiveMarketData

CONSTANTS c1, c2, XAUUSD

MCClients == {c1, c2}
MCSymbols == <<XAUUSD>>
MCChannels == {<<"ticker", XAUUSD>>, <<"candle", XAUUSD>>}
====
