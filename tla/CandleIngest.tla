---------------------------- MODULE CandleIngest ----------------------------
(***************************************************************************)
(* The realtime candle writer (OstiumCandleIngestService): one asyncio     *)
(* loop polls the price source symbol by symbol, buffers the ticks it      *)
(* accepts per minute and appends every minute that is over to the candle  *)
(* store.  While the market is closed a symbol is paused; a symbol whose   *)
(* polls keep failing is degraded and polled after a backoff.              *)
(*                                                                         *)
(* The loop takes the time once, at the start of a round, and then awaits  *)
(* one fetch per symbol: time passes, PUT /symbols changes the symbols and *)
(* the process may restart between two steps.  An exception anywhere in a  *)
(* round abandons the rest of the round.                                   *)
(*                                                                         *)
(* Data kept: a tick is its timestamp (a price belongs to a timestamp), a  *)
(* candle the set of the ticks it was aggregated from; open and close are  *)
(* the first and the last of them.                                         *)
(***************************************************************************)
EXTENDS Integers, FiniteSets, FiniteSetsExt

CONSTANTS
    Syms,           \* symbols that can be configured
    Lists,          \* the symbol lists PUT /symbols may send
    Answering,      \* symbols whose price source may answer
    Minute,         \* time units in a minute
    Horizon,        \* bound: last instant of the model
    ClosedMinutes,  \* minutes in which the market is closed
    StaleSeconds,   \* stale_seconds
    PollInterval,   \* poll_interval_s, also the tolerance for the future
    BackoffBase,    \* OSTIUM_DEGRADED_BACKOFF_BASE_S
    BackoffMax,     \* OSTIUM_DEGRADED_BACKOFF_MAX_S
    MaxFailures,    \* bound: failures beyond it are not told apart
    StoreFaults,    \* BOOLEAN: an append to the store may raise
    MaxLives        \* bound: how many times the process is started

ASSUME TimeAssumption ==
    /\ Minute \in Nat \ {0} /\ Horizon \in Nat
    /\ StaleSeconds \in Nat /\ PollInterval \in Nat
ASSUME BackoffAssumption ==
    /\ BackoffBase \in Nat \ {0} /\ BackoffMax \in Nat
    /\ BackoffBase <= BackoffMax
ASSUME IngestAssumption ==
    /\ Lists \subseteq (SUBSET Syms) \ {{}} /\ Answering \subseteq Syms
    /\ MaxFailures \in Nat /\ MaxFailures >= 3
    /\ StoreFaults \in BOOLEAN /\ MaxLives \in Nat

NoTick      == -1                         \* _last_ingested_tick_ts has no entry
Times       == 0 .. Horizon + PollInterval
MinuteOf(t) == t \div Minute
Minutes     == 0 .. MinuteOf(Horizon + PollInterval)
Reasons     == {"none", "poll_failures", "stale_seconds", "missing_minutes"}

VARIABLES
    now,       \* the wall clock
    symbols,   \* self.symbols, less _stopped_symbols (always disjoint)
    paused,    \* _paused_symbols
    buffer,    \* Syms -> buffered ticks, _ticks
    last,      \* Syms -> _last_ingested_tick_ts
    failures,  \* Syms -> _consecutive_poll_failures
    reason,    \* Syms -> _degraded_reason; "none": not in _degraded_symbols
    until,     \* Syms -> _symbol_backoff_until, 0 if absent
    pc,        \* "sleep" between rounds, "poll" within one
    started,   \* now_ts, taken when the round started
    polled,    \* poll_symbols of the round
    todo,      \* those of them still to be fetched
    candles,   \* Syms -> Minutes -> ticks of the stored candle, {} if none
    lives      \* number of starts of the process

loop    == <<pc, started, polled, todo>>
health  == <<failures, reason, until>>
vars    == <<now, symbols, paused, buffer, last, health, loop, candles, lives>>

Open(m) == m \notin ClosedMinutes

(***************************************************************************)
(* Flushing the minutes that are over                                      *)
(***************************************************************************)

\* Mutant of Over: the minute still running is taken too.
OverOffByOne(s, minute) == {m \in {MinuteOf(t) : t \in buffer[s]} : m <= minute}

\* _aggregate_ticks_to_candles: the buffered minutes before the given one.
Over(s, minute) == {m \in {MinuteOf(t) : t \in buffer[s]} : m < minute}

\* Mutant of Appended: a minute already stored is written again.
AppendedAgain(s, ms) ==
    [m \in Minutes |-> IF m \in ms THEN {t \in buffer[s] : MinuteOf(t) = m}
                                   ELSE candles[s][m]]

\* append() keeps a candle that is already there.
Appended(s, ms) ==
    [m \in Minutes |-> IF m \in ms /\ candles[s][m] = {}
                       THEN {t \in buffer[s] : MinuteOf(t) = m}
                       ELSE candles[s][m]]

\* Mutant of Rest: the ticks of the current minute are dropped as well.
RestOffByOne(s, minute) == {t \in buffer[s] : MinuteOf(t) > minute}

Rest(s, minute) == {t \in buffer[s] : MinuteOf(t) >= minute}

\* _flush_closed_minutes for each of the symbols ss.
Flush(ss, minute) ==
    /\ candles' = [s \in Syms |-> IF s \in ss THEN Appended(s, Over(s, minute))
                                              ELSE candles[s]]
    /\ buffer' = [s \in Syms |-> IF s \in ss THEN Rest(s, minute)
                                             ELSE buffer[s]]

\* The same, when the append of minute m of symbol r raises: some symbols are
\* done, r keeps its ticks although its earlier minutes are stored.
FlushRaises(ss, minute) ==
    /\ StoreFaults
    /\ \E r \in ss, done \in SUBSET ss, m \in Minutes :
         /\ r \notin done
         /\ m \in Over(r, minute)
         /\ candles' = [s \in Syms |->
                IF s \in done THEN Appended(s, Over(s, minute))
                ELSE IF s = r THEN Appended(r, Over(r, m))
                ELSE candles[s]]
         /\ buffer' = [s \in Syms |-> IF s \in done THEN Rest(s, minute)
                                                    ELSE buffer[s]]
    /\ pc' = "sleep" /\ polled' = {} /\ todo' = {}

(***************************************************************************)
(* A round of the loop                                                     *)
(***************************************************************************)

\* Degraded does not stop polling; only failed polls delay the next one.
Due(s) == reason[s] # "poll_failures" \/ now >= until[s]

\* The round begins: symbols are paused or resumed, those that have just been
\* paused are flushed, and poll_symbols is fixed for the round.
StartRound ==
    /\ pc = "sleep"
    /\ started' = now
    /\ paused' = {s \in symbols : ~Open(MinuteOf(now))}
    /\ \/ /\ Flush(paused' \ paused, MinuteOf(now))
          /\ pc' = "poll"
          /\ polled' = {s \in symbols \ paused' : Due(s)}
          /\ todo' = polled'
       \/ FlushRaises(paused' \ paused, MinuteOf(now))
    /\ UNCHANGED <<now, symbols, last, health, lives>>

\* _accept_tick_timestamp: neither stale, nor of the future, nor older than
\* the last accepted tick, all with respect to the start of the round.
Accepts(s, t) ==
    /\ started - t <= StaleSeconds
    /\ started - t >= -PollInterval
    /\ t >= last[s]

\* Mutant of Buffered: the market is asked about the round, not the tick.
BufferedByRound(s, t) ==
    IF Open(MinuteOf(started)) THEN buffer[s] \cup {t} ELSE buffer[s]

\* Ticks of a minute in which the market is closed are counted and ignored.
Buffered(s, t) ==
    IF Open(MinuteOf(t)) THEN buffer[s] \cup {t} ELSE buffer[s]

\* _autorecover
Recover(s) ==
    /\ reason' = [reason EXCEPT ![s] = "none"]
    /\ until' = [until EXCEPT ![s] = 0]

\* The fetch of symbol s returns a tick with timestamp t.
PollTick(s, t) ==
    /\ pc = "poll" /\ s \in todo \cap Answering
    /\ todo' = todo \ {s}
    /\ failures' = [failures EXCEPT ![s] = 0]
    /\ IF Accepts(s, t)
       THEN /\ last' = [last EXCEPT ![s] = t]
            /\ buffer' = [buffer EXCEPT ![s] = Buffered(s, t)]
            /\ IF reason[s] \in {"poll_failures", "stale_seconds"}
               THEN Recover(s) ELSE UNCHANGED <<reason, until>>
       ELSE UNCHANGED <<last, buffer, reason, until>>
    /\ UNCHANGED <<now, symbols, paused, pc, started, polled, candles, lives>>

\* _increase_backoff, given the deadline in force.
Backoff(deadline) ==
    Min({2 * Max({deadline - started, BackoffBase}), BackoffMax})

\* The fetch fails.  While the market is open the third failure in a row
\* degrades the symbol: _mark_degraded sets the base deadline, from which
\* _increase_backoff goes on.
PollFails(s) ==
    /\ pc = "poll" /\ s \in todo
    /\ todo' = todo \ {s}
    /\ IF Open(MinuteOf(started))
       THEN LET n == Min({failures[s] + 1, MaxFailures}) IN
            /\ failures' = [failures EXCEPT ![s] = n]
            /\ IF n >= 3
               THEN LET b == Backoff(now + BackoffBase) IN
                    /\ reason' = [reason EXCEPT ![s] = "poll_failures"]
                    /\ until' = [until EXCEPT ![s] = started + b]
               ELSE UNCHANGED <<reason, until>>
       ELSE UNCHANGED health
    /\ UNCHANGED <<now, symbols, paused, buffer, last, pc, started, polled,
                   candles, lives>>

Stored(s) == {m \in Minutes : candles'[s][m] # {}}

\* No candle for longer than stale_seconds while the market is open.
IsStale(s) ==
    /\ Open(MinuteOf(now))
    /\ now - Max(Stored(s)) * Minute - Minute > StaleSeconds

\* Mutant of Verdicts: a degraded symbol may be degraded again.
VerdictsAgain(s) ==
    IF Stored(s) # {} /\ IsStale(s) THEN {"stale_seconds"} ELSE {reason[s]}

\* _update_gate_metrics: the reasons a symbol may be left with.  How many
\* minutes of the last 24 hours are missing, whether the warm-up is over and
\* whether a candle was counted in this run are left open.
Verdicts(s) ==
    IF Stored(s) = {} THEN {reason[s]}
    ELSE IF reason[s] = "none" /\ IsStale(s) THEN {"none", "stale_seconds"}
    ELSE IF reason[s] = "none" /\ Open(MinuteOf(now))
         THEN {"none", "missing_minutes"}
    ELSE IF reason[s] = "missing_minutes" /\ ~IsStale(s)
         THEN {"none", "missing_minutes"}
    ELSE {reason[s]}

\* The round ends: the polled symbols are flushed, up to the minute in which
\* the round started, and the gates of every configured symbol are updated.
FinishRound ==
    /\ pc = "poll" /\ todo = {}
    /\ \/ /\ Flush(polled, MinuteOf(started))
          /\ pc' = "sleep" /\ polled' = {} /\ todo' = {}
          /\ \E verdict \in [symbols -> Reasons] :
               /\ \A s \in symbols : verdict[s] \in Verdicts(s)
               /\ reason' = [s \in Syms |-> IF s \in symbols THEN verdict[s]
                                                             ELSE reason[s]]
       \/ FlushRaises(polled, MinuteOf(started)) /\ UNCHANGED reason
    /\ UNCHANGED <<now, symbols, paused, last, failures, until, started,
                   lives>>

(***************************************************************************)
(* The environment                                                         *)
(***************************************************************************)

\* PUT /symbols: update_symbols replaces the list; what a removed symbol has
\* buffered stays where it is.
UpdateSymbols(new) ==
    /\ new # symbols
    /\ symbols' = new
    /\ UNCHANGED <<now, paused, buffer, last, health, loop, candles, lives>>

\* The process stops or crashes and is started again with the same symbols.
Restart ==
    /\ lives < MaxLives
    /\ lives' = lives + 1
    /\ paused' = {}
    /\ buffer' = [s \in Syms |-> {}]
    /\ last' = [s \in Syms |-> NoTick]
    /\ failures' = [s \in Syms |-> 0]
    /\ reason' = [s \in Syms |-> "none"]
    /\ until' = [s \in Syms |-> 0]
    /\ pc' = "sleep" /\ started' = now /\ polled' = {} /\ todo' = {}
    /\ UNCHANGED <<now, symbols, candles>>

Elapse ==
    /\ now < Horizon
    /\ now' = now + 1
    /\ UNCHANGED <<symbols, paused, buffer, last, health, loop, candles, lives>>

Init ==
    /\ now = 0
    /\ symbols \in Lists
    /\ paused = {}
    /\ buffer = [s \in Syms |-> {}]
    /\ last = [s \in Syms |-> NoTick]
    /\ failures = [s \in Syms |-> 0]
    /\ reason = [s \in Syms |-> "none"]
    /\ until = [s \in Syms |-> 0]
    /\ pc = "sleep" /\ started = 0 /\ polled = {} /\ todo = {}
    /\ candles = [s \in Syms |-> [m \in Minutes |-> {}]]
    /\ lives = 1

Next ==
    \/ StartRound
    \/ \E s \in Syms : PollFails(s) \/ \E t \in Times : PollTick(s, t)
    \/ FinishRound
    \/ \E new \in Lists : UpdateSymbols(new)
    \/ Restart
    \/ Elapse

Spec == Init /\ [][Next]_vars

(***************************************************************************)
(* Properties                                                              *)
(***************************************************************************)

\* The variables of the service hold what their annotations say, and the three
\* dictionaries of a degradation stay in step: a deadline, within the cap of
\* OSTIUM_DEGRADED_BACKOFF_MAX_S, exists exactly for the symbols degraded for
\* failed polls.
TypeOK ==
    /\ now \in 0 .. Horizon
    /\ symbols \in SUBSET Syms /\ paused \in SUBSET Syms
    /\ buffer \in [Syms -> SUBSET Times]
    /\ last \in [Syms -> Times \cup {NoTick}]
    /\ failures \in [Syms -> 0 .. MaxFailures]
    /\ reason \in [Syms -> Reasons]
    /\ until \in [Syms -> 0 .. Horizon + BackoffMax]
    /\ \A s \in Syms : /\ until[s] # 0 <=> reason[s] = "poll_failures"
                       /\ until[s] <= now + BackoffMax
    /\ pc \in {"sleep", "poll"} /\ started \in 0 .. Horizon
    /\ polled \in SUBSET Syms /\ todo \in SUBSET polled
    /\ candles \in [Syms -> [Minutes -> SUBSET Times]]
    /\ lives \in 0 .. MaxLives \cup {1}

\* A tick the service accepted leaves the buffer only into the candle of its
\* minute, unless the minute has a candle already: neither a flush cut short
\* by an exception, a pause nor PUT /symbols loses one (a restart does).
NoTickLost ==
    [][\A s \in Syms : \A t \in buffer[s] :
         \/ t \in buffer'[s]
         \/ t \in candles'[s][MinuteOf(t)]
         \/ candles[s][MinuteOf(t)] # {}
         \/ lives' # lives]_vars

\* Whatever is polled, retried or restarted later, a stored candle stays as it
\* was written, and it is written only once its minute is over.
CandlesAreFinal ==
    [][\A s \in Syms, m \in Minutes :
         /\ candles[s][m] # {} => candles'[s][m] = candles[s][m]
         /\ candles'[s][m] # {} => (m + 1) * Minute <= now']_vars

\* No candle of a minute in which the market is closed (the frozen price of a
\* break must not become a spike, T6.9): even when the round started before
\* the break, or the source answers with a tick of the last session.
NoBreakCandles ==
    \A s \in Syms, m \in Minutes :
      candles[s][m] # {} => Open(m) /\ \A t \in candles[s][m] : MinuteOf(t) = m
=============================================================================
