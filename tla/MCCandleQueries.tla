---- MODULE MCCandleQueries ----
(* Instance of CandleQueries for TLC. *)
EXTENDS CandleQueries

\* Nothing in Parquet, the first month, all but one minute, or every minute.
SomeHistories == {{}, 0 .. MonthLength - 1, Minutes \ {MonthLength}, Minutes}
====
