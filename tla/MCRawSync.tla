---- MODULE MCRawSync ----
(***************************************************************************)
(* Two symbols or one, two days, two jobs whose ranges overlap, one of     *)
(* which may be forced.                                                    *)
(***************************************************************************)
EXTENDS RawSync

CONSTANTS j1, j2, EURUSD, XAUUSD

MCJobs == {j1, j2}
MCSymbols == <<EURUSD, XAUUSD>>
MCOrders == {[from |-> 1, to |-> 3, force |-> FALSE], [from |-> 2, to |-> 3, force |-> TRUE]}
====
