--------------------------- MODULE MCCandleIngest ---------------------------
(* Instances of CandleIngest for TLC. *)
EXTENDS CandleIngest

CONSTANTS s1, s2

\* The market closes after the first minute and opens again.
Break == {1}

\* Symbol lists, replaced by one another.
OneOfTwo == {{s1}, {s2}}
=============================================================================
