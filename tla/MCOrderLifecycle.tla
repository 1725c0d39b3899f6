-------------------------- MODULE MCOrderLifecycle --------------------------
(* Instances of OrderLifecycle for TLC. *)
EXTENDS OrderLifecycle, TLC

CONSTANTS c1, s1

Symmetry == Permutations(Ops)

Open(c, s)  == [kind |-> "open", cid |-> c, sym |-> s, pid |-> NoPid]
Close(c, p) == [kind |-> "close", cid |-> c, sym |-> p[1], pid |-> p]

\* One symbol, opened and closed under one key or under none.
OneSymbol == {Open(c1, s1), Open(NoId, s1), Close(c1, <<s1, 0>>)}

\* The same closing request, and its retries.
CloseOnly == {Open(NoId, s1), Close(c1, <<s1, 0>>)}
=============================================================================
