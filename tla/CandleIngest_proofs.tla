------------------------ MODULE CandleIngest_proofs ------------------------
(***************************************************************************)
(* Proofs about the realtime candle writer for any symbols, lists,         *)
(* calendar, poll interval, backoff and number of restarts.                *)
(***************************************************************************)
EXTENDS CandleIngest, TLAPS

-----------------------------------------------------------------------------
(* Minutes and deadlines *)

LEMMA MinuteOfNat ==
  ASSUME NEW t \in Nat
  PROVE  MinuteOf(t) \in Nat /\ MinuteOf(t) * Minute <= t
BY TimeAssumption DEF MinuteOf

LEMMA MinuteMonotonic ==
  ASSUME NEW t \in Nat, NEW u \in Nat, t <= u
  PROVE  MinuteOf(t) <= MinuteOf(u)
BY TimeAssumption DEF MinuteOf

\* A minute before the one of u is over at u.
LEMMA MinuteOver ==
  ASSUME NEW u \in Nat, NEW m \in Nat, m < MinuteOf(u)
  PROVE  (m + 1) * Minute <= u
<1> DEFINE q == MinuteOf(u)
<1>1. q \in Nat /\ q * Minute <= u
  BY MinuteOfNat
<1> HIDE DEF q
<1>2. m + 1 <= q
  BY <1>1 DEF q
<1>3. Minute \in Nat /\ (m + 1) * Minute \in Nat /\ q * Minute \in Nat
  BY <1>1, TimeAssumption
<1>4. (m + 1) * Minute <= q * Minute
  BY <1>1, <1>2, <1>3
<1> QED BY <1>1, <1>3, <1>4

LEMMA MinuteInRange ==
  ASSUME NEW t \in Times
  PROVE  t \in Nat /\ MinuteOf(t) \in Minutes
<1>1. t \in Nat /\ Horizon + PollInterval \in Nat /\ t <= Horizon + PollInterval
  BY TimeAssumption DEF Times
<1> QED BY <1>1, MinuteOfNat, MinuteMonotonic DEF Minutes

LEMMA MinuteIsNat == \A m \in Minutes : m \in Nat
<1>1. MinuteOf(Horizon + PollInterval) \in Nat
  BY TimeAssumption, MinuteOfNat
<1> QED BY <1>1 DEF Minutes

LEMMA MinMaxOfTwo ==
  ASSUME NEW a \in Int, NEW b \in Int
  PROVE  /\ Min({a, b}) \in {a, b} /\ Min({a, b}) <= a /\ Min({a, b}) <= b
         /\ Max({a, b}) \in {a, b} /\ Max({a, b}) >= a /\ Max({a, b}) >= b
<1>1. \E x \in {a, b} : \A y \in {a, b} : x <= y
  BY DEF Min
<1>2. \E x \in {a, b} : \A y \in {a, b} : x >= y
  BY DEF Max
<1> QED BY <1>1, <1>2 DEF Min, Max

\* The backoff is above zero and within its cap.
LEMMA BackoffInRange ==
  ASSUME NEW d \in Int, started \in Nat
  PROVE  Backoff(d) \in Nat \ {0} /\ Backoff(d) <= BackoffMax
<1> DEFINE y == d - started
           x == Max({y, BackoffBase})
<1>0. y \in Int /\ BackoffBase \in Int
  BY BackoffAssumption
<1> HIDE DEF y
<1>1. x \in Int /\ x >= BackoffBase
  <2>1. x \in {y, BackoffBase} /\ x >= BackoffBase
    BY <1>0, MinMaxOfTwo
  <2> HIDE DEF x
  <2> QED BY <1>0, <2>1
<1> HIDE DEF x
<1> DEFINE z == 2 * x
           w == Min({z, BackoffMax})
<1>2. z \in Int /\ z >= 1
  BY <1>1, BackoffAssumption
<1> HIDE DEF z
<1>3. w \in {z, BackoffMax} /\ w <= BackoffMax /\ BackoffMax \in Int /\ BackoffMax >= 1
  <2>1. BackoffMax \in Int /\ BackoffMax >= 1
    BY BackoffAssumption
  <2> QED BY <1>2, <2>1, MinMaxOfTwo
<1> HIDE DEF w
<1>4. w \in Nat \ {0} /\ w <= BackoffMax
  BY <1>2, <1>3
<1> QED BY <1>4 DEF Backoff, x, y, z, w

-----------------------------------------------------------------------------
(* Flushing *)

BooksOK ==
  /\ buffer \in [Syms -> SUBSET Times]
  /\ candles \in [Syms -> [Minutes -> SUBSET Times]]

\* What a flush does to the symbol s, complete, cut short or not at all, when
\* the minutes before the given one are over.
FlushedTo(s, minute) ==
  /\ buffer'[s] \subseteq buffer[s]
  /\ candles'[s] \in [Minutes -> SUBSET Times]
  /\ \A m \in Minutes :
       \/ candles'[s][m] = candles[s][m]
       \/ candles[s][m] = {} /\ m < minute /\ candles'[s][m] = {t \in buffer[s] : MinuteOf(t) = m}
  /\ \A t \in buffer[s] :
       t \in buffer'[s] \/ t \in candles'[s][MinuteOf(t)] \/ candles[s][MinuteOf(t)] # {}

LEMMA AppendedOver ==
  ASSUME BooksOK, NEW s \in Syms, NEW minute \in Nat
  PROVE  /\ Appended(s, Over(s, minute)) \in [Minutes -> SUBSET Times]
         /\ \A m \in Minutes :
              \/ Appended(s, Over(s, minute))[m] = candles[s][m]
              \/ /\ candles[s][m] = {} /\ m < minute
                 /\ Appended(s, Over(s, minute))[m] = {t \in buffer[s] : MinuteOf(t) = m}
         /\ \A t \in buffer[s] :
              MinuteOf(t) < minute => \/ t \in Appended(s, Over(s, minute))[MinuteOf(t)]
                                      \/ candles[s][MinuteOf(t)] # {}
<1>1. buffer[s] \in SUBSET Times /\ candles[s] \in [Minutes -> SUBSET Times]
  BY DEF BooksOK
<1>2. \A t \in buffer[s] : MinuteOf(t) \in Minutes
  BY <1>1, MinuteInRange
<1>3. \A m \in Over(s, minute) : m < minute
  BY DEF Over
<1>4. \A t \in buffer[s] : MinuteOf(t) < minute => MinuteOf(t) \in Over(s, minute)
  BY DEF Over
<1> QED BY <1>1, <1>2, <1>3, <1>4 DEF Appended

LEMMA FlushIsFlushed ==
  ASSUME BooksOK, NEW ss \in SUBSET Syms, NEW minute \in Nat, Flush(ss, minute)
  PROVE  BooksOK' /\ \A s \in Syms : FlushedTo(s, minute)
<1>1. ASSUME NEW s \in Syms PROVE FlushedTo(s, minute) /\ buffer'[s] \in SUBSET Times
  <2>1. buffer[s] \in SUBSET Times /\ candles[s] \in [Minutes -> SUBSET Times]
    BY DEF BooksOK
  <2>2. CASE s \in ss
    <3>1. candles'[s] = Appended(s, Over(s, minute)) /\ buffer'[s] = Rest(s, minute)
      BY <2>2 DEF Flush
    <3>2. Rest(s, minute) \subseteq buffer[s]
      BY DEF Rest
    <3>3. \A t \in buffer[s] : t \in Rest(s, minute) \/ MinuteOf(t) < minute
      <4>1. \A t \in buffer[s] : MinuteOf(t) \in Nat
        BY <2>1, MinuteInRange, MinuteOfNat
      <4> QED BY <4>1 DEF Rest
    <3> QED BY <2>1, <3>1, <3>2, <3>3, AppendedOver DEF FlushedTo
  <2>3. CASE s \notin ss
    <3>1. candles'[s] = candles[s] /\ buffer'[s] = buffer[s]
      BY <2>3 DEF Flush
    <3> QED BY <2>1, <3>1 DEF FlushedTo
  <2> QED BY <2>2, <2>3
<1>2. BooksOK'
  <2>1. DOMAIN buffer' = Syms /\ buffer' = [s \in Syms |-> buffer'[s]]
        /\ candles' = [s \in Syms |-> candles'[s]]
    BY DEF Flush
  <2>2. buffer' \in [Syms -> SUBSET Times]
    BY <1>1, <2>1
  <2>3. candles' \in [Syms -> [Minutes -> SUBSET Times]]
    BY <1>1, <2>1 DEF FlushedTo
  <2> QED BY <2>2, <2>3 DEF BooksOK
<1> QED BY <1>1, <1>2

\* Cut short by an exception, it still keeps the ticks it has not stored.
LEMMA FlushRaisesIsFlushed ==
  ASSUME BooksOK, NEW ss \in SUBSET Syms, NEW minute \in Nat, FlushRaises(ss, minute)
  PROVE  BooksOK' /\ \A s \in Syms : FlushedTo(s, minute)
<1>1. PICK r \in ss, done \in SUBSET ss, m \in Minutes :
        /\ m \in Over(r, minute)
        /\ candles' = [s \in Syms |-> IF s \in done THEN Appended(s, Over(s, minute))
                                      ELSE IF s = r THEN Appended(r, Over(r, m))
                                      ELSE candles[s]]
        /\ buffer' = [s \in Syms |-> IF s \in done THEN Rest(s, minute) ELSE buffer[s]]
  BY DEF FlushRaises
<1>2. m \in Nat /\ m < minute
  BY <1>1, MinuteIsNat DEF Over
<1>3. ASSUME NEW s \in Syms PROVE FlushedTo(s, minute) /\ buffer'[s] \in SUBSET Times
  <2>1. buffer[s] \in SUBSET Times /\ candles[s] \in [Minutes -> SUBSET Times]
    BY DEF BooksOK
  <2>2. CASE s \in done
    <3>1. candles'[s] = Appended(s, Over(s, minute)) /\ buffer'[s] = Rest(s, minute)
      BY <1>1, <2>2
    <3>2. Rest(s, minute) \subseteq buffer[s]
      BY DEF Rest
    <3>3. \A t \in buffer[s] : t \in Rest(s, minute) \/ MinuteOf(t) < minute
      <4>1. \A t \in buffer[s] : MinuteOf(t) \in Nat
        BY <2>1, MinuteInRange, MinuteOfNat
      <4> QED BY <4>1 DEF Rest
    <3> QED BY <2>1, <3>1, <3>2, <3>3, AppendedOver DEF FlushedTo
  <2>3. CASE s \notin done /\ s = r
    <3>1. candles'[s] = Appended(s, Over(s, m)) /\ buffer'[s] = buffer[s]
      BY <1>1, <2>3
    <3>2. \A k \in Minutes :
            \/ candles'[s][k] = candles[s][k]
            \/ candles[s][k] = {} /\ k < m /\ candles'[s][k] = {t \in buffer[s] : MinuteOf(t) = k}
      BY <1>2, <3>1, AppendedOver
    <3>3. \A k \in Minutes : k < m => k < minute
      BY <1>2, MinuteIsNat
    <3>4. candles'[s] \in [Minutes -> SUBSET Times]
      BY <1>2, <3>1, AppendedOver
    <3> QED BY <2>1, <3>1, <3>2, <3>3, <3>4 DEF FlushedTo
  <2>4. CASE s \notin done /\ s # r
    <3>1. candles'[s] = candles[s] /\ buffer'[s] = buffer[s]
      BY <1>1, <2>4
    <3> QED BY <2>1, <3>1 DEF FlushedTo
  <2> QED BY <2>2, <2>3, <2>4
<1>4. BooksOK'
  <2>1. buffer' = [s \in Syms |-> buffer'[s]] /\ candles' = [s \in Syms |-> candles'[s]]
    BY <1>1
  <2>2. buffer' \in [Syms -> SUBSET Times]
    BY <1>3, <2>1
  <2>3. candles' \in [Syms -> [Minutes -> SUBSET Times]]
    BY <1>3, <2>1 DEF FlushedTo
  <2> QED BY <2>2, <2>3 DEF BooksOK
<1> QED BY <1>3, <1>4

-----------------------------------------------------------------------------
(* Types *)

RunOK ==
  /\ now \in 0 .. Horizon /\ started \in 0 .. Horizon /\ started <= now
  /\ symbols \in SUBSET Syms /\ paused \in SUBSET Syms
  /\ pc \in {"sleep", "poll"} /\ polled \in SUBSET Syms /\ todo \in SUBSET polled
  /\ last \in [Syms -> Times \cup {NoTick}] /\ failures \in [Syms -> 0 .. MaxFailures]
  /\ lives \in 0 .. MaxLives \cup {1}

HealthOK ==
  /\ reason \in [Syms -> Reasons] /\ until \in [Syms -> 0 .. Horizon + BackoffMax]
  /\ \A s \in Syms : until[s] # 0 <=> reason[s] = "poll_failures"
  /\ \A s \in Syms : until[s] <= now + BackoffMax

LEMMA TypeParts == TypeOK /\ started <= now <=> RunOK /\ HealthOK /\ BooksOK
BY DEF TypeOK, RunOK, HealthOK, BooksOK

LEMMA TypeAgain == ASSUME RunOK', HealthOK', BooksOK' PROVE TypeOK' /\ (started <= now)'
BY DEF TypeOK, RunOK, HealthOK, BooksOK

LEMMA TimeIsNat ==
  ASSUME RunOK
  PROVE  now \in Nat /\ started \in Nat /\ MinuteOf(now) \in Nat /\ MinuteOf(started) \in Nat
         /\ MinuteOf(started) <= MinuteOf(now)
<1>1. now \in Nat /\ started \in Nat /\ started <= now
  BY TimeAssumption DEF RunOK
<1> QED BY <1>1, MinuteOfNat, MinuteMonotonic

LEMMA InitTyped == ASSUME Init PROVE RunOK /\ HealthOK /\ BooksOK
<1>1. RunOK
  BY TimeAssumption, IngestAssumption DEF Init, RunOK
<1>2. HealthOK
  BY TimeAssumption, BackoffAssumption DEF Init, HealthOK, Reasons
<1>3. BooksOK
  BY DEF Init, BooksOK
<1> QED BY <1>1, <1>2, <1>3

\* Which symbols a round pauses and polls, and what it flushes before.
LEMMA StartRoundFlushes ==
  ASSUME RunOK, BooksOK, StartRound
  PROVE  BooksOK' /\ \A s \in Syms : FlushedTo(s, MinuteOf(now))
<1>1. paused' \ paused \in SUBSET Syms
  BY DEF StartRound, RunOK
<1> QED BY <1>1, TimeIsNat, FlushIsFlushed, FlushRaisesIsFlushed DEF StartRound

LEMMA FinishRoundFlushes ==
  ASSUME RunOK, BooksOK, FinishRound
  PROVE  BooksOK' /\ \A s \in Syms : FlushedTo(s, MinuteOf(started))
<1>1. polled \in SUBSET Syms
  BY DEF RunOK
<1> QED BY <1>1, TimeIsNat, FlushIsFlushed, FlushRaisesIsFlushed DEF FinishRound

LEMMA StartRoundTyped ==
  ASSUME RunOK, HealthOK, BooksOK, StartRound
  PROVE  RunOK' /\ HealthOK' /\ BooksOK'
<1>1. RunOK'
  <2>1. /\ started' = now /\ paused' = {s \in symbols : ~Open(MinuteOf(now))}
        /\ UNCHANGED <<now, symbols, last, failures, lives>>
    BY DEF StartRound, health
  <2>2. \/ pc' = "poll" /\ polled' = {s \in symbols \ paused' : Due(s)} /\ todo' = polled'
        \/ pc' = "sleep" /\ polled' = {} /\ todo' = {}
    BY DEF StartRound, FlushRaises
  <2>3. pc' \in {"sleep", "poll"} /\ polled' \in SUBSET symbols /\ todo' \in SUBSET polled'
    BY <2>2
  <2>4. now \in 0 .. Horizon /\ now <= now
    BY TimeIsNat DEF RunOK
  <2> QED BY <2>1, <2>3, <2>4 DEF RunOK
<1>2. HealthOK'
  <2>1. UNCHANGED <<now, reason, until>>
    BY DEF StartRound, health
  <2> QED BY <2>1 DEF HealthOK
<1> QED BY <1>1, <1>2, StartRoundFlushes

LEMMA PollTickTyped ==
  ASSUME RunOK, HealthOK, BooksOK, NEW s \in Syms, NEW t \in Times, PollTick(s, t)
  PROVE  RunOK' /\ HealthOK' /\ BooksOK'
<1>1. RunOK'
  <2>1. UNCHANGED <<now, symbols, paused, pc, started, polled, lives>>
    BY DEF PollTick
  <2>2. todo' \in SUBSET polled'
    BY <2>1 DEF PollTick, RunOK
  <2>3. last' \in [Syms -> Times \cup {NoTick}]
    BY DEF PollTick, RunOK
  <2>4. failures' \in [Syms -> 0 .. MaxFailures]
    BY IngestAssumption DEF PollTick, RunOK
  <2> QED BY <2>1, <2>2, <2>3, <2>4 DEF RunOK
<1>2. HealthOK'
  <2>1. now' = now
    BY DEF PollTick
  <2>2. CASE UNCHANGED <<reason, until>>
    BY <2>1, <2>2 DEF HealthOK
  <2>3. CASE Recover(s)
    <3>1. 0 <= now + BackoffMax /\ 0 \in 0 .. Horizon + BackoffMax
      BY TimeIsNat, TimeAssumption, BackoffAssumption
    <3>2. reason' \in [Syms -> Reasons]
      BY <2>3 DEF Recover, HealthOK, Reasons
    <3>3. until' \in [Syms -> 0 .. Horizon + BackoffMax]
      BY <2>3, <3>1 DEF Recover, HealthOK
    <3>4. \A r \in Syms : reason'[r] = IF r = s THEN "none" ELSE reason[r]
      BY <2>3 DEF Recover, HealthOK
    <3>5. \A r \in Syms : until'[r] = IF r = s THEN 0 ELSE until[r]
      BY <2>3 DEF Recover, HealthOK
    <3> QED BY <2>1, <3>1, <3>2, <3>3, <3>4, <3>5 DEF HealthOK
  <2> QED BY <2>2, <2>3 DEF PollTick
<1>3. BooksOK'
  <2>1. candles' = candles
    BY DEF PollTick
  <2>2. Buffered(s, t) \in SUBSET Times
    BY DEF Buffered, BooksOK
  <2>3. buffer' \in [Syms -> SUBSET Times]
    BY <2>2 DEF PollTick, BooksOK
  <2> QED BY <2>1, <2>3 DEF BooksOK
<1> QED BY <1>1, <1>2, <1>3

LEMMA PollFailsTyped ==
  ASSUME RunOK, HealthOK, BooksOK, NEW s \in Syms, PollFails(s)
  PROVE  RunOK' /\ HealthOK' /\ BooksOK'
<1> DEFINE n == Min({failures[s] + 1, MaxFailures})
           b == Backoff(now + BackoffBase)
<1>0. UNCHANGED <<now, symbols, paused, buffer, last, pc, started, polled, candles, lives>>
      /\ todo' = todo \ {s}
  BY DEF PollFails
<1>1. n \in 0 .. MaxFailures
  <2>1. failures[s] \in 0 .. MaxFailures /\ MaxFailures \in Nat
    BY IngestAssumption DEF RunOK
  <2> DEFINE c == failures[s] + 1
  <2>2. c \in Nat
    BY <2>1
  <2> HIDE DEF c
  <2>3. Min({c, MaxFailures}) \in {c, MaxFailures} /\ Min({c, MaxFailures}) <= MaxFailures
    BY <2>1, <2>2, MinMaxOfTwo
  <2>4. n = Min({c, MaxFailures})
    BY DEF c
  <2> HIDE DEF n
  <2> QED BY <2>1, <2>2, <2>3, <2>4
<1>2. b \in Nat \ {0} /\ b <= BackoffMax
  BY TimeIsNat, BackoffAssumption, BackoffInRange
<1>3. failures' \in [Syms -> 0 .. MaxFailures]
  <2>1. failures' = failures \/ failures' = [failures EXCEPT ![s] = n]
    BY DEF PollFails, health
  <2> HIDE DEF n
  <2> QED BY <1>1, <2>1 DEF RunOK
<1>4. RunOK'
  BY <1>0, <1>3 DEF RunOK
<1>5. HealthOK'
  <2>1. \/ UNCHANGED <<reason, until>>
        \/ /\ reason' = [reason EXCEPT ![s] = "poll_failures"]
           /\ until' = [until EXCEPT ![s] = started + b]
    BY DEF PollFails, health
  <2> HIDE DEF b
  <2>2. CASE UNCHANGED <<reason, until>>
    BY <1>0, <2>2 DEF HealthOK
  <2>3. CASE reason' = [reason EXCEPT ![s] = "poll_failures"]
             /\ until' = [until EXCEPT ![s] = started + b]
    <3> DEFINE u == started + b
    <3>1. u \in 0 .. Horizon + BackoffMax /\ u # 0 /\ u <= now + BackoffMax
      <4>1. started \in 0 .. Horizon /\ started <= now /\ now \in Nat
            /\ Horizon \in Nat /\ BackoffMax \in Nat
        BY TimeIsNat, TimeAssumption, BackoffAssumption DEF RunOK
      <4> QED BY <1>2, <4>1
    <3> HIDE DEF u
    <3>2. until' = [until EXCEPT ![s] = u]
      BY <2>3 DEF u
    <3>3. reason' \in [Syms -> Reasons]
      BY <2>3 DEF HealthOK, Reasons
    <3>4. until' \in [Syms -> 0 .. Horizon + BackoffMax]
      BY <3>1, <3>2 DEF HealthOK
    <3>5. \A r \in Syms : reason'[r] = IF r = s THEN "poll_failures" ELSE reason[r]
      BY <2>3 DEF HealthOK
    <3>6. \A r \in Syms : until'[r] = IF r = s THEN u ELSE until[r]
      BY <3>2 DEF HealthOK
    <3> QED BY <1>0, <3>1, <3>3, <3>4, <3>5, <3>6 DEF HealthOK
  <2> QED BY <2>1, <2>2, <2>3
<1> QED BY <1>0, <1>4, <1>5 DEF BooksOK

\* The gates only choose between reasons other than failed polls.
LEMMA VerdictsKeepPollFailures ==
  ASSUME NEW s \in Syms, NEW v \in Verdicts(s)
  PROVE  v = "poll_failures" <=> reason[s] = "poll_failures"
BY DEF Verdicts

LEMMA FinishRoundTyped ==
  ASSUME RunOK, HealthOK, BooksOK, FinishRound
  PROVE  RunOK' /\ HealthOK' /\ BooksOK'
<1>0. /\ UNCHANGED <<now, symbols, paused, last, failures, until, started, lives>>
      /\ pc' = "sleep" /\ polled' = {} /\ todo' = {}
  BY DEF FinishRound, FlushRaises
<1>1. RunOK'
  BY <1>0 DEF RunOK
<1>2. HealthOK'
  <2>1. CASE UNCHANGED reason
    BY <1>0, <2>1 DEF HealthOK
  <2>2. CASE \E verdict \in [symbols -> Reasons] :
               /\ \A s \in symbols : verdict[s] \in Verdicts(s)
               /\ reason' = [s \in Syms |-> IF s \in symbols THEN verdict[s] ELSE reason[s]]
    <3>1. PICK verdict \in [symbols -> Reasons] :
               /\ \A s \in symbols : verdict[s] \in Verdicts(s)
               /\ reason' = [s \in Syms |-> IF s \in symbols THEN verdict[s] ELSE reason[s]]
      BY <2>2
    <3>2. reason' \in [Syms -> Reasons]
      BY <3>1 DEF HealthOK
    <3>3. \A s \in Syms : reason'[s] = IF s \in symbols THEN verdict[s] ELSE reason[s]
      BY <3>1
    <3>4. \A s \in Syms : reason'[s] = "poll_failures" <=> reason[s] = "poll_failures"
      BY <3>1, <3>3, VerdictsKeepPollFailures
    <3> QED BY <1>0, <3>2, <3>4 DEF HealthOK
  <2> QED BY <2>1, <2>2 DEF FinishRound
<1> QED BY <1>1, <1>2, FinishRoundFlushes

LEMMA RestartTyped ==
  ASSUME RunOK, HealthOK, BooksOK, Restart
  PROVE  RunOK' /\ HealthOK' /\ BooksOK'
<1>1. RunOK'
  <2>1. lives' \in 0 .. MaxLives \cup {1}
    BY IngestAssumption DEF Restart, RunOK
  <2>2. now <= now /\ 0 \in 0 .. MaxFailures
    BY TimeIsNat, IngestAssumption
  <2> QED BY <2>1, <2>2 DEF Restart, RunOK
<1>2. HealthOK'
  <2>1. 0 \in 0 .. Horizon + BackoffMax /\ 0 <= now + BackoffMax
    BY TimeIsNat, TimeAssumption, BackoffAssumption
  <2> QED BY <2>1 DEF Restart, HealthOK, Reasons
<1>3. BooksOK'
  BY DEF Restart, BooksOK
<1> QED BY <1>1, <1>2, <1>3

LEMMA ElapseTyped ==
  ASSUME RunOK, HealthOK, BooksOK, Elapse
  PROVE  RunOK' /\ HealthOK' /\ BooksOK'
<1>0. UNCHANGED <<symbols, paused, buffer, last, failures, reason, until, pc, started, polled,
                  todo, candles, lives>>
  BY DEF Elapse, health, loop
<1>1. now' = now + 1 /\ now' \in 0 .. Horizon /\ started <= now'
  BY TimeAssumption DEF Elapse, RunOK
<1>2. RunOK'
  BY <1>0, <1>1 DEF RunOK
<1>3. HealthOK'
  <2>1. \A s \in Syms : until[s] \in Nat /\ until[s] <= now + BackoffMax
    BY TimeAssumption, BackoffAssumption DEF HealthOK
  <2>2. \A s \in Syms : until[s] <= now' + BackoffMax
    BY <1>1, <2>1, TimeIsNat, BackoffAssumption
  <2> QED BY <1>0, <2>2 DEF HealthOK
<1> QED BY <1>0, <1>2, <1>3 DEF BooksOK

LEMMA NextTyped ==
  ASSUME RunOK, HealthOK, BooksOK, [Next]_vars
  PROVE  RunOK' /\ HealthOK' /\ BooksOK'
<1>1. ASSUME NEW new \in Lists, UpdateSymbols(new) PROVE RunOK' /\ HealthOK' /\ BooksOK'
  <2>1. symbols' \in SUBSET Syms
    BY <1>1, IngestAssumption DEF UpdateSymbols
  <2>2. UNCHANGED <<now, paused, buffer, last, failures, reason, until, pc, started, polled,
                    todo, candles, lives>>
    BY <1>1 DEF UpdateSymbols, health, loop
  <2> QED BY <2>1, <2>2 DEF RunOK, HealthOK, BooksOK
<1>2. CASE UNCHANGED vars
  BY <1>2 DEF vars, health, loop, RunOK, HealthOK, BooksOK
<1> QED BY <1>1, <1>2, StartRoundTyped, PollTickTyped, PollFailsTyped, FinishRoundTyped,
           RestartTyped, ElapseTyped DEF Next

\* The service's dictionaries keep their types, and a backoff deadline exists,
\* within its cap, exactly for the symbols degraded for failed polls
\* (_mark_degraded, _increase_backoff, _autorecover).
THEOREM TypeCorrect == Spec => []TypeOK
<1> DEFINE Inv == RunOK /\ HealthOK /\ BooksOK
<1>1. Init => Inv
  BY InitTyped
<1>2. Inv /\ [Next]_vars => Inv'
  BY NextTyped
<1>3. Inv => TypeOK
  BY TypeParts
<1> QED BY <1>1, <1>2, <1>3, PTL DEF Spec

-----------------------------------------------------------------------------
(* What is buffered and what is stored *)

\* Only ticks of minutes in which the market is open are buffered.
BufferOpen == \A s \in Syms : \A t \in buffer[s] : Open(MinuteOf(t))

\* A stored candle is of an open minute that is over, and made of its ticks.
StoredSound ==
  \A s \in Syms, m \in Minutes :
    candles[s][m] # {} => /\ Open(m) /\ (m + 1) * Minute <= now
                          /\ \A t \in candles[s][m] : MinuteOf(t) = m

\* Stored candles stay, and none is written before its minute is over.
Final ==
  \A s \in Syms, m \in Minutes :
    /\ candles[s][m] # {} => candles'[s][m] = candles[s][m]
    /\ candles'[s][m] # {} => (m + 1) * Minute <= now'

\* What was buffered is still buffered or its minute has a candle.
Kept ==
  \A s \in Syms : \A t \in buffer[s] :
    \/ t \in buffer'[s]
    \/ t \in candles'[s][MinuteOf(t)]
    \/ candles[s][MinuteOf(t)] # {}
    \/ lives' # lives

SoundInv == RunOK /\ HealthOK /\ BooksOK /\ BufferOpen /\ StoredSound

\* A flush up to a minute not later than the current one.
LEMMA FlushIsSound ==
  ASSUME SoundInv, NEW minute \in Nat, minute <= MinuteOf(now), now' = now,
         \A s \in Syms : FlushedTo(s, minute)
  PROVE  BufferOpen' /\ StoredSound' /\ Final /\ Kept
<1>1. now \in Nat /\ MinuteOf(now) \in Nat
  BY TimeIsNat DEF SoundInv
<1>2. BufferOpen'
  BY DEF SoundInv, BufferOpen, FlushedTo
<1>3. ASSUME NEW s \in Syms, NEW m \in Minutes
      PROVE  /\ candles[s][m] # {} => candles'[s][m] = candles[s][m]
             /\ candles'[s][m] # {} => /\ Open(m) /\ (m + 1) * Minute <= now
                                       /\ \A t \in candles'[s][m] : MinuteOf(t) = m
  <2>1. CASE candles'[s][m] = candles[s][m]
    BY <2>1 DEF SoundInv, StoredSound
  <2>2. CASE /\ candles[s][m] = {} /\ m < minute
             /\ candles'[s][m] = {t \in buffer[s] : MinuteOf(t) = m}
    <3>1. m \in Nat /\ m < MinuteOf(now)
      BY <1>1, <2>2, MinuteIsNat
    <3>2. (m + 1) * Minute <= now
      BY <1>1, <3>1, MinuteOver
    <3> QED BY <2>2, <3>2 DEF SoundInv, BufferOpen
  <2> QED BY <2>1, <2>2 DEF FlushedTo
<1>4. StoredSound'
  BY <1>3 DEF StoredSound
<1>5. Final
  BY <1>3 DEF Final
<1>6. Kept
  BY DEF FlushedTo, Kept
<1> QED BY <1>2, <1>4, <1>5, <1>6

\* A step that leaves the store alone, buffers at most ticks of open minutes
\* and loses none.
LEMMA StoreStaysSound ==
  ASSUME SoundInv, candles' = candles, now' \in Nat, now <= now',
         \A s \in Syms : \A t \in buffer'[s] : t \in buffer[s] \/ Open(MinuteOf(t)),
         \A s \in Syms : buffer[s] \subseteq buffer'[s] \/ lives' # lives
  PROVE  BufferOpen' /\ StoredSound' /\ Final /\ Kept
<1>1. BufferOpen'
  BY DEF SoundInv, BufferOpen
<1>2. \A s \in Syms, m \in Minutes : candles[s][m] # {} => (m + 1) * Minute <= now'
  <2>1. \A m \in Minutes : m \in Nat /\ (m + 1) * Minute \in Nat
    BY MinuteIsNat, TimeAssumption
  <2>2. now \in Nat
    BY TimeIsNat DEF SoundInv
  <2>3. \A s \in Syms, m \in Minutes : candles[s][m] # {} => (m + 1) * Minute <= now
    BY DEF SoundInv, StoredSound
  <2>4. ASSUME NEW x \in Nat, x <= now PROVE x <= now'
    BY <2>2, <2>4
  <2> QED BY <2>1, <2>3, <2>4
<1>3. StoredSound'
  BY <1>2 DEF SoundInv, StoredSound
<1>4. Final
  BY <1>2 DEF Final
<1>5. Kept
  BY DEF Kept
<1> QED BY <1>1, <1>3, <1>4, <1>5

LEMMA StepIsSound ==
  ASSUME SoundInv, [Next]_vars
  PROVE  SoundInv' /\ Final /\ Kept
<1>1. RunOK' /\ HealthOK' /\ BooksOK'
  BY NextTyped DEF SoundInv
<1>2. now \in Nat /\ started \in Nat /\ MinuteOf(now) \in Nat /\ MinuteOf(started) \in Nat
      /\ MinuteOf(started) <= MinuteOf(now)
  BY TimeIsNat DEF SoundInv
<1>3. BufferOpen' /\ StoredSound' /\ Final /\ Kept
  <2>1. CASE StartRound
    <3>1. now' = now /\ MinuteOf(now) <= MinuteOf(now)
      BY <1>2, <2>1 DEF StartRound
    <3>2. \A s \in Syms : FlushedTo(s, MinuteOf(now))
      BY <2>1, StartRoundFlushes DEF SoundInv
    <3> QED BY <1>2, <3>1, <3>2, FlushIsSound
  <2>2. CASE FinishRound
    <3>1. now' = now
      BY <2>2 DEF FinishRound
    <3>2. \A s \in Syms : FlushedTo(s, MinuteOf(started))
      BY <2>2, FinishRoundFlushes DEF SoundInv
    <3> QED BY <1>2, <3>1, <3>2, FlushIsSound
  <2>3. ASSUME NEW s \in Syms, NEW t \in Times, PollTick(s, t)
        PROVE  BufferOpen' /\ StoredSound' /\ Final /\ Kept
    <3>1. candles' = candles /\ now' = now /\ now <= now
      BY <1>2, <2>3 DEF PollTick
    <3>2. \A r \in Syms : buffer'[r] = buffer[r] \/ (r = s /\ buffer'[r] = Buffered(s, t))
      BY <2>3 DEF PollTick, SoundInv, BooksOK
    <3>3. /\ buffer[s] \subseteq Buffered(s, t)
          /\ \A u \in Buffered(s, t) : u \in buffer[s] \/ Open(MinuteOf(u))
      BY DEF Buffered
    <3> QED BY <1>2, <3>1, <3>2, <3>3, StoreStaysSound
  <2>4. CASE UNCHANGED <<candles, buffer, now>>
    <3>1. now <= now
      BY <1>2
    <3> QED BY <1>2, <2>4, <3>1, StoreStaysSound
  <2>5. CASE Elapse
    <3>1. candles' = candles /\ buffer' = buffer /\ now' = now + 1
      BY <2>5 DEF Elapse
    <3>2. now' \in Nat /\ now <= now'
      BY <1>2, <3>1
    <3> QED BY <3>1, <3>2, StoreStaysSound
  <2>6. CASE Restart
    <3>1. candles' = candles /\ now' = now /\ now <= now
      BY <1>2, <2>6 DEF Restart
    <3>2. \A s \in Syms : buffer'[s] = {}
      BY <2>6 DEF Restart
    <3>3. lives' # lives
      <4>1. lives \in Nat /\ lives' = lives + 1
        BY <2>6, IngestAssumption DEF Restart, SoundInv, RunOK
      <4> QED BY <4>1
    <3> QED BY <1>2, <3>1, <3>2, <3>3, StoreStaysSound
  <2>7. ASSUME NEW s \in Syms, PollFails(s) PROVE UNCHANGED <<candles, buffer, now>>
    BY <2>7 DEF PollFails
  <2>8. ASSUME NEW new \in Lists, UpdateSymbols(new) PROVE UNCHANGED <<candles, buffer, now>>
    BY <2>8 DEF UpdateSymbols
  <2>9. UNCHANGED vars => UNCHANGED <<candles, buffer, now>>
    BY DEF vars
  <2> QED BY <2>1, <2>2, <2>3, <2>4, <2>5, <2>6, <2>7, <2>8, <2>9 DEF Next
<1> QED BY <1>1, <1>3 DEF SoundInv

LEMMA InitSound == ASSUME Init PROVE SoundInv
<1>1. BufferOpen /\ StoredSound
  BY DEF Init, BufferOpen, StoredSound
<1> QED BY <1>1, InitTyped DEF SoundInv

LEMMA AlwaysSound == Spec => []SoundInv
<1>1. Init => SoundInv
  BY InitSound
<1>2. SoundInv /\ [Next]_vars => SoundInv'
  BY StepIsSound
<1> QED BY <1>1, <1>2, PTL DEF Spec

\* No candle of a minute in which the market is closed, and every candle made
\* of the ticks of its own minute, whenever rounds start and end (T6.9,
\* _ingest_tick and _aggregate_ticks_to_candles).
THEOREM NoBreakIsStored == Spec => []NoBreakCandles
<1>1. SoundInv => NoBreakCandles
  BY DEF SoundInv, StoredSound, NoBreakCandles
<1> QED BY <1>1, AlwaysSound, PTL

\* A stored candle is never rewritten, and is written only once its minute is
\* over: append() keeps what is there and a flush stops before the current
\* minute.
THEOREM CandlesStay == Spec => CandlesAreFinal
<1>1. SoundInv /\ [Next]_vars => [Final]_vars
  BY StepIsSound
<1>2. [][Final]_vars => CandlesAreFinal
  BY DEF Final, CandlesAreFinal
<1>3. Spec => [][Final]_vars
  BY <1>1, AlwaysSound, PTL DEF Spec
<1> QED BY <1>2, <1>3

\* No accepted tick disappears, except with the process: flushes cut short by
\* an exception, pauses and PUT /symbols keep what is not stored.
THEOREM TicksAreKept == Spec => NoTickLost
<1>1. SoundInv /\ [Next]_vars => [Kept]_vars
  BY StepIsSound
<1>2. [][Kept]_vars => NoTickLost
  BY DEF Kept, NoTickLost
<1>3. Spec => [][Kept]_vars
  BY <1>1, AlwaysSound, PTL DEF Spec
<1> QED BY <1>2, <1>3

=============================================================================
