---- MODULE DataLayer ----
(***************************************************************************)
(* DataLayerProdService for one symbol of a CandleStore: the prefetch, the *)
(* writer loop of mode "realtime", and the gates that mark the symbol      *)
(* DEGRADED and publish the status of the data layer.  In the realtime     *)
(* modes the Ostium ingest writes; the tool that rebuilds candles from     *)
(* recorded ticks may repair the store at any time.                        *)
(*                                                                         *)
(* All these writers stamp their candles in UTC.  The processes meant are  *)
(* those without a CandleBuilder on the same store: the realtime and the   *)
(* historical data layer, and the monolith without the paper venue.        *)
(*                                                                         *)
(* The loops wake up at an arbitrary second, so the minute `now' is always *)
(* partly over: it belongs to the window of the gates, and its candle is   *)
(* not there yet.                                                          *)
(***************************************************************************)
EXTENDS CandleStore

CONSTANTS
  Day,           \* minutes in 24 hours, the window of the gates
  Closed,        \* the minutes in which the market is closed
  Prefetch,      \* prefetch_minutes
  Warmup,        \* warmup_minutes
  MaxMissing24h, \* max_missing_per_24h
  StaleMinutes   \* stale_seconds

ASSUME GateAssumption ==
  /\ Horizon > 0
  /\ Day \in Nat \ {0} /\ Warmup \in Nat \ {0} /\ Closed \subseteq Int
  /\ Prefetch \in Nat /\ MaxMissing24h \in Nat /\ StaleMinutes \in Nat

VARIABLES
  now,       \* the clock, in minutes
  live,      \* the last minute the Ostium ingest wrote
  mode,      \* write_mode; "realtime_only" stands for realtime_plus_backfill too
  pc,        \* "off", "prefetch", "writer", "fetch" (within a round), "gates"
  asked,     \* the minutes the provider is asked for
  since,     \* _service_start_ts
  degraded,  \* _degraded_reason: "no", "data", "stale", "missing"
  status,    \* data_layer_status
  counted    \* the last round of the gates could read the window

published == <<degraded, status, counted>>
vars == <<files, now, live, mode, pc, asked, since, published>>

-----------------------------------------------------------------------------
(* The surroundings *)

Tick == now < Horizon - 1 /\ now' = now + 1
        /\ UNCHANGED <<files, live, mode, pc, asked, since, published>>

\* The Ostium ingest is started in this mode only, and pauses while the market is closed.
LiveAppend(m) ==
  /\ mode = "realtime_only" /\ live < m /\ m < now /\ m \notin Closed
  /\ AppendCandle(UTC, m)
  /\ live' = m
  /\ UNCHANGED <<now, mode, pc, asked, since, published>>

\* ostium_rebuild_candles_from_ticks patches the open minutes it has ticks of.
Repair(m) ==
  /\ m < now /\ m \notin Closed \cup Stored
  /\ Patch(UTC, {m})
  /\ UNCHANGED <<now, live, mode, pc, asked, since, published>>

-----------------------------------------------------------------------------
(* _update_gate_metrics *)

NoData == LastTimestamp(now) = -1
Open == now \notin Closed
Stale == Open /\ now - LastTimestamp(now) - 1 >= StaleMinutes

\* The calendar counts whole minutes, one more than the window has.
ClosedCount == Cardinality(Closed \cap now - Day .. now)

Missing ==
  LET start == Max({0, now - Day + 1})
  IN  Max({0, Day - Len(ReadRange(UTC, start, now + 1)) - ClosedCount})

\* Mutant of Observed: the closed minutes of the window count as expected.
ObservedWithClosed == IF NoData THEN 0 ELSE Max({0, Min({Day, now - since}) - Missing})

\* observed_open_minutes_24h, from the uptime; absent without data.
Observed ==
  IF NoData THEN 0
  ELSE Max({0, Max({0, Min({Day, now - since}) - ClosedCount}) - Missing})

\* When the window cannot be read, nothing counts as missing or closed.
Uptime == IF NoData THEN 0 ELSE Min({Day, now - since})

\* Mutant of Verdict: the limit itself is too much already.
VerdictAtLimit(was, stale, missing, observed) ==
  CASE was = "no" /\ stale -> "stale"
    [] was = "no" /\ ~stale /\ Open /\ missing >= MaxMissing24h /\ observed >= Warmup -> "missing"
    [] was = "missing" /\ missing <= MaxMissing24h /\ ~stale -> "no"
    [] OTHER -> was

\* Mutant of Verdict: a degraded symbol stays degraded.
VerdictForever(was, stale, missing, observed) ==
  CASE was = "no" /\ stale -> "stale"
    [] was = "no" /\ ~stale /\ Open /\ missing > MaxMissing24h /\ observed >= Warmup -> "missing"
    [] OTHER -> was

\* What the gates make of a symbol: only one that was degraded for missing
\* minutes can become active again.
Verdict(was, stale, missing, observed) ==
  CASE was = "no" /\ stale -> "stale"
    [] was = "no" /\ ~stale /\ Open /\ missing > MaxMissing24h /\ observed >= Warmup -> "missing"
    [] was = "missing" /\ missing <= MaxMissing24h /\ ~stale -> "no"
    [] OTHER -> was

\* A count of the window that can be made, or the one of the except clause.
Count(made) ==
  IF made THEN [missing |-> Missing, observed |-> Observed]
          ELSE [missing |-> 0, observed |-> Uptime]

\* The gates look at the store as this step leaves it.
Gates(was) ==
  \E made \in BOOLEAN :
    LET count == Count(made)'
    IN  /\ counted' = made
        /\ degraded' = IF NoData' THEN was
                       ELSE Verdict(was, Stale', count.missing, count.observed)
        /\ status' = IF degraded' # "no" THEN "degraded"
                     ELSE IF count.observed < Warmup THEN "warming_up" ELSE "ready"

-----------------------------------------------------------------------------
(* The service *)

\* Mutant of Loop: the writer runs in every mode.
LoopAlwaysWrites == "writer"

Loop == IF mode = "realtime" THEN "writer" ELSE "gates"

\* The end of start(), with the startup gate if DATA_LAYER_STARTUP_GATE is set:
\* the gate publishes a status even if the provider was not available and no
\* loop runs, and when it fails the service runs on nevertheless.
Enter(loop, was) ==
  /\ pc' = loop /\ asked' = {}
  /\ Gates(was) \/ (degraded' = was /\ status' = "initializing" /\ counted' = TRUE)

\* Each start is one of a new process: only the files are left of the last.
Fresh(available) ==
  /\ pc = "off"
  /\ since' = now
  /\ UNCHANGED <<files, now, live, mode>>
  /\ \/ /\ available /\ Prefetch > 0
        /\ pc' = "prefetch" /\ asked' = Max({0, now - Prefetch}) .. now - 1
        /\ degraded' = "no" /\ status' = "initializing" /\ counted' = TRUE
     \/ available /\ Prefetch = 0 /\ Enter(Loop, "no")
     \/ ~available /\ mode = "realtime_only" /\ Enter("gates", "no")
     \/ ~available /\ mode # "realtime_only" /\ Enter("off", "no")

Start == \E available \in BOOLEAN : Fresh(available)

Stop == pc # "off" /\ pc' = "off" /\ asked' = {}
        /\ UNCHANGED <<files, now, live, mode, since, published>>

Contiguous(answer) == answer = {} \/ answer = Min(answer) .. Max(answer)

\* An answer with a hole or a duplicate degrades the symbol and is not stored.
Prefetched(answer, twice) ==
  /\ pc = "prefetch" /\ answer \subseteq asked
  /\ UNCHANGED <<now, live, mode, since>>
  /\ IF Contiguous(answer) /\ ~twice
     THEN Patch(UTC, answer) /\ Enter(Loop, "no")
     ELSE UNCHANGED files /\ Enter(Loop, "data")

\* A round of the writer loop asks for the last minute that is over.
WriterAsks ==
  /\ pc = "writer" /\ now > 0
  /\ degraded = "no" /\ LastTimestamp(now) < now - 1
  /\ pc' = "fetch" /\ asked' = {now - 1}
  /\ UNCHANGED <<files, now, live, mode, since, published>>

WriterAnswered(answer, twice) ==
  /\ pc = "fetch" /\ answer \subseteq asked
  /\ files' = IF twice \/ answer = {} THEN files
              ELSE [files EXCEPT ![Month(UTC, Max(asked))] = @ \cup answer]
  /\ UNCHANGED <<now, live, mode, since>>
  /\ pc' = "writer" /\ asked' = {}
  /\ Gates(IF twice THEN "data" ELSE "no")

\* A round with nothing to ask for, of either loop.
GatesRound ==
  /\ pc = "gates" \/ (pc = "writer" /\ (degraded # "no" \/ LastTimestamp(now) >= now - 1))
  /\ UNCHANGED <<files, now, live, mode, pc, asked, since>>
  /\ Gates(degraded)

Init ==
  /\ files = [k \in Months |-> {}]
  /\ now = 0 /\ live = -1
  /\ mode \in {"realtime", "realtime_only", "backfill_only"}
  /\ pc = "off" /\ asked = {} /\ since = 0
  /\ degraded = "no" /\ status = "initializing" /\ counted = TRUE

Answered == \E answer \in SUBSET asked : \E twice \in {FALSE, answer # {}} :
              Prefetched(answer, twice) \/ WriterAnswered(answer, twice)

Next ==
  \/ Tick \/ (\E m \in Minutes : LiveAppend(m) \/ Repair(m))
  \/ Start \/ Stop \/ Answered \/ WriterAsks \/ GatesRound

Spec == Init /\ [][Next]_vars

\* The loops come round again and the provider answers or times out.
FairSpec == Spec /\ WF_vars(GatesRound) /\ WF_vars(WriterAsks) /\ WF_vars(Answered)

-----------------------------------------------------------------------------
(* Properties *)

VariablesOK ==
  /\ files \in [Months -> SUBSET Minutes]
  /\ now \in Minutes /\ live \in -1 .. Horizon - 1 /\ since \in 0 .. now
  /\ mode \in {"realtime", "realtime_only", "backfill_only"}
  /\ pc \in {"off", "prefetch", "writer", "fetch", "gates"}
  /\ asked \subseteq 0 .. now - 1 /\ (asked # {} => pc \in {"prefetch", "fetch"})
  /\ degraded \in {"no", "data", "stale", "missing"}
  /\ status \in {"initializing", "warming_up", "ready", "degraded"} /\ counted \in BOOLEAN
  /\ pc \in {"writer", "fetch"} => mode = "realtime"

CountersOK ==
  Missing \in 0 .. Day /\ Observed \in 0 .. Day /\ Uptime \in 0 .. Day /\ ClosedCount \in 0 .. Day + 1

\* Type invariant: the writer loop runs in mode "realtime" only, where the
\* Ostium ingest does not (data_layer_prod_service.py:148-153), while prefetch
\* patches in every mode; and no counter of minutes of the gates is negative or
\* larger than its window (:327-349).
TypeOK == VariablesOK /\ CountersOK

Window == now - Day + 1 .. now - 1

\* A symbol is degraded for missing minutes only if a minute of the last day
\* that is over, and in which the market was open, has no candle
\* (data_layer_prod_service.py:327-379).
MissingIsReal ==
  [][degraded' = "missing" /\ degraded # "missing"
       => ~(Window \ Closed \subseteq Stored)']_vars

\* The data layer turns ready only when the last day has the candles of the
\* warmup, whenever it was started and however much of the day the market was
\* closed, if the round that says so could read them
\* (data_layer_prod_service.py:344-401; with the except clause of :340 it turns
\* ready on its uptime alone).
ReadyIsCovered ==
  [][status' = "ready" /\ status # "ready" /\ counted'
       => Cardinality((Window \cap Stored)') >= Warmup]_vars

\* A symbol degraded for missing minutes is active again once they are there,
\* if the service is left running (data_layer_prod_service.py:380-387).
MissingRecovers ==
  <>[](pc \notin {"off", "prefetch"} /\ Missing <= MaxMissing24h /\ ~Stale) => <>[](degraded # "missing")

\* "DEGRADED només per errors reals durant market_open", here for staleness:
\* some open minute has no candle (realtime_datalayer_estat.md:139).
StaleIsReal ==
  [][degraded' = "stale" /\ degraded # "stale"
       => ~(0 .. now - 1 \subseteq Closed \cup Stored)']_vars
====
