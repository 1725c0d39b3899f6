---- MODULE CandleStore ----
(***************************************************************************)
(* The CSV candle store of one symbol, its writers and its readers.        *)
(*                                                                         *)
(* Candles are kept in one file per month, and a candle or a range is      *)
(* assigned to months by the time zone its own time stamp happens to carry *)
(* (live candles: CANONICAL_TZ; everything read from a file: UTC).  Time   *)
(* is counted in minutes, a month has MonthLength of them, and a zone is   *)
(* the number of minutes by which its months start after those of UTC.  A  *)
(* candle is its minute; prices are left out.                              *)
(***************************************************************************)
EXTENDS Integers, Sequences, FiniteSets, FiniteSetsExt, SequencesExt

CONSTANTS
  Horizon,      \* bound: minutes are 0 .. Horizon - 1
  MonthLength,  \* minutes in a month
  Canonical     \* the zone CANONICAL_TZ

ASSUME CalendarAssumption ==
  /\ Horizon \in Nat /\ MonthLength \in Nat \ {0} /\ Canonical \in 0 .. MonthLength

VARIABLE files  \* month -> the minutes of its file

UTC == 0
Minutes == 0 .. Horizon - 1
Month(zone, m) == (m + MonthLength - zone) \div MonthLength
Months == 0 .. Month(UTC, Horizon) + 1

Stored == UNION {files[k] : k \in Months}

-----------------------------------------------------------------------------
(* Writers: each holds the lock of the file it rewrites *)

\* False, and nothing is written, if the file has the minute already.
AppendCandle(zone, m) ==
  files' = [files EXCEPT ![Month(zone, m)] = @ \cup {m}]

\* Mutant of Patch: the new rows replace those of the month.
PatchReplacing(zone, new) ==
  files' = [k \in Months |->
              LET rows == {m \in new : Month(zone, m) = k}
              IN  IF rows = {} THEN files[k] ELSE rows]

\* Grouped by month and merged with what is there.
Patch(zone, new) ==
  files' = [k \in Months |-> files[k] \cup {m \in new : Month(zone, m) = k}]

-----------------------------------------------------------------------------
(* Readers *)

\* The minutes in ascending order: the k-th is the one with k - 1 before it.
Sorted(minutes) ==
  [k \in 1 .. Cardinality(minutes) |->
     CHOOSE m \in minutes : Cardinality({n \in minutes : n < m}) = k - 1]

Rows(k, start, end) == Sorted({m \in files[k] : start <= m /\ m < end})

\* read_range: the files of the months from that of `start', in the zone of
\* `start', to the last one that begins before `end'.
ReadRange(zone, start, end) ==
  IF start >= end THEN << >>
  ELSE LET first == Month(zone, start)
       IN  FlattenSeq([k \in 1 .. Month(zone, end - 1) - first + 1 |->
                         Rows(first + k - 1, start, end)])

MissingCount(candles, start, end) == Max({0, end - start - Len(candles)})

\* The newest candle of the newest file, from the month of `now' backwards.
LastTimestamp(now) ==
  LET filled == {k \in 0 .. Month(Canonical, now) : files[k] # {}}
  IN  IF filled = {} THEN -1 ELSE Max(files[Max(filled)])

Between(candles) ==
  {[start |-> candles[k] + 1, end |-> candles[k + 1]] :
     k \in {j \in 1 .. Len(candles) - 1 : candles[j + 1] > candles[j] + 1}}

\* Mutant of FindGaps: the gap at the end may be empty.
FindGapsEmpty(candles, start, end) ==
  IF candles = << >> THEN {[start |-> start, end |-> end]}
  ELSE LET next == candles[Len(candles)] + 1
       IN  Between(candles) \cup {[start |-> next, end |-> end]}
           \cup (IF candles[1] > start THEN {[start |-> start, end |-> candles[1]]} ELSE {})

\* find_gaps: before the first candle, between neighbours, after the last.
FindGaps(candles, start, end) ==
  IF candles = << >> THEN {[start |-> start, end |-> end]}
  ELSE LET next == candles[Len(candles)] + 1
       IN  Between(candles)
           \cup (IF candles[1] > start THEN {[start |-> start, end |-> candles[1]]} ELSE {})
           \cup (IF next < end THEN {[start |-> next, end |-> end]} ELSE {})

Span(gap) == gap.start .. gap.end - 1
====
