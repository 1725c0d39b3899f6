---- MODULE MCPaperEngine ----
(***************************************************************************)
(* Two openings and a closing; the money is enough for both positions.  A  *)
(* long bought at 16 is liquidated at 8, one bought at 8 is under its      *)
(* stop; a short sold at 16 takes its profit at 8, one sold at 8 is        *)
(* liquidated at 16.                                                       *)
(***************************************************************************)
EXTENDS PaperEngine, TLC

CONSTANTS o1, o2, c1, ETH

MCOpenings == {o1, o2}
MCClosings == {c1}
MCSymbols == <<ETH>>
MCFeed == ETH :> {8, 16}
Order(sym, long, coll, lev, sl, tp) ==
  [sym |-> sym, long |-> long, coll |-> coll, lev |-> lev, sl |-> sl, tp |-> tp]
MCOrders == {
  Order(ETH, TRUE, 40, 2, 9, Unset),
  Order(ETH, FALSE, 40, 2, Unset, 9)}
====
