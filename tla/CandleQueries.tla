---- MODULE CandleQueries ----
(***************************************************************************)
(* What the HTTP clients read while the live writer and BackfillService    *)
(* write: /broker/ohlcv (one range, from the CSV store, the fallback       *)
(* provider or both) and /api/v1/data/ohlcv (pages over the Parquet        *)
(* history and the CSV store).  A request is an operator of the state in   *)
(* which its files are read; the providers it awaits answer anything.      *)
(***************************************************************************)
EXTENDS Backfill

CONSTANTS
  MaxMissing,  \* READ_THROUGH_MAX_MISSING_MINUTES
  Limits,      \* bound: the page sizes that clients ask for
  Histories,   \* bound: minutes that Parquet may hold
  None         \* no cursor, no candle

ASSUME QueryAssumption ==
  /\ MaxMissing \in Nat /\ Limits \subseteq Nat \ {0} /\ Histories \subseteq SUBSET Minutes
  /\ None \notin Nat

-----------------------------------------------------------------------------
(* GET /broker/ohlcv *)

Reply(candles, start, end) ==
  [candles |-> candles, complete |-> MissingCount(candles, start, end) = 0, status |-> 200]

\* Read-through: the gaps of a response, if they are few, are asked of the
\* provider; what it answers is filtered per gap and merged under the candles
\* of the store.  One gap that fails makes the whole response fall back.
ReadThrough(candles, start, end, answer, failing) ==
  LET gaps == FindGaps(candles, start, end)
      missing == MissingCount(candles, start, end)
      fills == {f \in gaps \X answer : f[2] \in Span(f[1])}
  IN  IF missing = 0 \/ missing > MaxMissing \/ failing
      THEN Reply(candles, start, end)
      ELSE [candles  |-> Sorted(ToSet(candles) \cup {f[2] : f \in fills}),
            complete |-> missing = Cardinality(fills), status |-> 200]

\* get_earliest_timestamp at some earlier moment of the request, while the store
\* was the same or smaller: the frontier between the two sources.
Frontiers == Stored \cup {None}

\* resolve_source: the sources of a range never mix unless they agree.
Source(start, end, cutover, agree) ==
  IF cutover = None THEN "fallback"
  ELSE IF end <= cutover THEN "fallback"
  ELSE IF start >= cutover THEN "primary"
  ELSE IF agree THEN "mixed" ELSE "deny"

LastOf(limit, rows) == SubSeq(rows, Max({1, Len(rows) - limit + 1}), Len(rows))

\* Mutant of Stitched: the two sources are appended to each other as they come.
StitchedConcatenated(start, end, cutover, limit, answer) ==
  Reply(LastOf(limit, answer \o ReadRange(Canonical, cutover, end)), start, end)

\* stitch_candles and the cut to the newest `limit': the fallback before the
\* frontier, the store from there on, each minute once and in order.  The
\* frontier was taken before the fallback was awaited, the store is read
\* afterwards.
Stitched(start, end, cutover, limit, answer) ==
  LET before == {m \in ToSet(answer) : m < cutover}
      from   == {m \in ToSet(ReadRange(Canonical, cutover, end)) : cutover <= m}
  IN  Reply(LastOf(limit, Sorted(before \cup from)), start, end)

Refused(status) == [candles |-> << >>, complete |-> FALSE, status |-> status]

\* get_candles_with_source, for a request that names its range; without a
\* fallback provider the route decides the same (broker_routes.py:479-493).
\* What the fallback provider answers is served as it is.
FromSource(start, end, cutover, agree, provider, limit, answer) ==
  LET source == Source(start, end, cutover, agree)
  IN  IF source = "deny" THEN Refused(422)
      ELSE IF source = "primary" THEN Reply(ReadRange(Canonical, start, end), start, end)
      ELSE IF ~provider THEN Refused(503)
      ELSE IF source = "fallback" THEN Reply(answer, start, end)
      ELSE Stitched(start, end, cutover, limit, answer)

-----------------------------------------------------------------------------
(* GET /api/v1/data/ohlcv *)

FirstOf(limit, rows) == SubSeq(rows, 1, Min({limit, Len(rows)}))
After(cursor, start) == IF cursor = None THEN start ELSE cursor + 1

\* query_ohlcv: the next rows of the Parquet history.
Historical(history, start, end, limit, cursor) ==
  FirstOf(limit, Sorted({m \in history : After(cursor, start) <= m /\ m < end}))

\* Mutant of Page: the cursor is not applied to the realtime candles.
PageFromStart(history, start, end, limit, cursor) ==
  LET historical == Historical(history, start, end, limit, cursor)
      realtime == ToSet(ReadRange(UTC, start, end))
      rows == Sorted(ToSet(historical) \cup realtime)
      more == IF realtime = {} THEN Len(rows) = limit ELSE Len(rows) > limit
  IN  [candles |-> FirstOf(limit, rows), next |-> IF more THEN rows[limit] ELSE None]

\* stitch_ohlcv_mixed: a page of the history merged with the candles of the
\* store in the whole range, cut to the limit again.
Page(history, start, end, limit, cursor) ==
  LET historical == Historical(history, start, end, limit, cursor)
      realtime == ToSet(ReadRange(UTC, start, end))
      rows == Sorted(ToSet(historical)
                       \cup {m \in realtime : After(cursor, start) <= m})
      more == IF realtime = {} THEN Len(rows) = limit ELSE Len(rows) > limit
  IN  [candles |-> FirstOf(limit, rows), next |-> IF more THEN rows[limit] ELSE None]

-----------------------------------------------------------------------------
(* Properties *)

\* The provider has every minute that is asked for, or all but one.
Answers(minutes) == {minutes} \cup {minutes \ {m} : m \in minutes}

\* A response is complete exactly if it is called so, has each minute once and
\* in order, and lacks no candle that was read.
Honest(reply, kept, start, end) ==
  /\ reply.complete <=> ToSet(reply.candles) = start .. end - 1
  /\ ToSet(kept) \subseteq ToSet(reply.candles)
  /\ \A k \in 1 .. Len(reply.candles) - 1 : reply.candles[k] < reply.candles[k + 1]

\* A file of the range has a minute that is not after all those of an earlier
\* file: the writers have filed the minutes of a seam under different months.
Overlapping(start, end) ==
  \E j, k \in Months : /\ j < k
                       /\ \E m \in files[j], n \in files[k] : start <= n /\ n <= m /\ m < end

\* The candles that a stitched range has to take from the store.
Kept(start, end, cutover) ==
  IF cutover = None THEN << >> ELSE ReadRange(Canonical, Max({start, cutover}), end)

\* The store has nothing more to say of the range than what a canonical read
\* finds, seam minutes apart.
FindsItsMonths(start, end) ==
  \A m \in Stored :
    start <= m /\ m < end /\ Month(UTC, m) = Month(Canonical, m)
      => m \in ToSet(ReadRange(Canonical, start, end))

\* The responses of /broker/ohlcv are honest, whatever is written in between and
\* whatever the providers answer: repaired by read-through, one gap of several
\* failing, or stitched at a frontier that backfill has meanwhile moved.  Only
\* what comes from the store alone, or is repaired, can be out of order, where
\* its files overlap.  No response crosses the frontier of two sources that
\* disagree, and none is made up where there is no provider
\* (read_through_service.py:75-210, candle_stitching_service.py:16-154).
ResponseIsHonest ==
  \A start \in Minutes : \A end \in start + 1 .. Horizon :
    LET overlapping == Overlapping(start, end)
        kept == ReadRange(Canonical, start, end)
    IN  /\ FindsItsMonths(start, end)
        /\ \A answer \in Answers(start .. end - 1), failing \in BOOLEAN :
             \/ overlapping
             \/ Honest(ReadThrough(kept, start, end, answer, failing), kept, start, end)
        /\ \A answer \in Answers(start .. end - 1), cutover \in Frontiers,
              agree \in BOOLEAN, provider \in BOOLEAN :
             LET source == Source(start, end, cutover, agree)
                 reply == FromSource(start, end, cutover, agree, provider, end - start,
                                     Sorted(answer))
             IN  IF source = "deny" THEN reply = Refused(422)
                 ELSE IF source # "primary" /\ ~provider THEN reply = Refused(503)
                 ELSE \/ source = "primary" /\ overlapping
                      \/ Honest(reply, Kept(start, end, cutover), start, end)

\* A page has exactly the next candles of history and store, in order, however
\* the minutes are spread over both and over the files of the store, and the
\* walk goes on from its last candle.  It stops at the end, or when a full page
\* of the history holds all that is left in a store that is not empty: what
\* the history still has is then not served (mixed_ohlcv_stitcher.py:135-175).
\* The store of the pages is that of the realtime data layer, whose candles are
\* all stamped in UTC (data_routes.py:253-258).
PagesAreExact ==
  writers = {"ingest"} =>
  \A start \in Minutes : \A end \in start + 1 .. Horizon :
    \A history \in Histories, limit \in Limits, cursor \in {None} \cup start .. end - 2 :
      LET page == Page(history, start, end, limit, cursor)
          left == Sorted({m \in history \cup Stored : After(cursor, start) <= m /\ m < end})
          cut  == Historical(history, start, end, limit, cursor)
      IN  /\ page.candles = FirstOf(limit, left)
          /\ page.next # None => page.next = page.candles[limit]
          /\ page.next = None /\ Len(left) > limit =>
               /\ Len(cut) = limit /\ Stored \cap start .. end - 1 # {}
               /\ \A m \in Stored : After(cursor, start) <= m /\ m < end => m \in ToSet(cut)
====
