---- MODULE LiveMarketData ----
(***************************************************************************)
(* The live market data service on top of the WebSocket hub (paper mode).  *)
(*                                                                         *)
(* A feed puts ticks into a bounded queue and drops those that do not fit. *)
(* One loop takes them, one at a time: it broadcasts a ticker unless one   *)
(* was broadcast shortly before, gives the tick to the candle builder of   *)
(* its symbol and, when that closes a candle, appends it to the candle     *)
(* store and broadcasts it.  The broadcasts are awaited, so a slow client  *)
(* holds up the loop, and behind it the queue.                             *)
(*                                                                         *)
(* A tick is its symbol and its time; a candle is its minute.              *)
(***************************************************************************)
EXTENDS WebSocketHub, FiniteSets

CONSTANTS
  Symbols,     \* the symbols of the feed, in the order they are emitted
  QueueSize,   \* maxsize of the feed's queue
  TickerGap,   \* ticker_broadcast_ms
  MinuteLen,   \* units of time in a minute
  NoMinute,    \* the builder has had no tick
  MaxTime,     \* bound: the clock
  MaxEmits,    \* bound: rounds of the feed
  MaxBacks,    \* bound: how often the clock is set back by one
  MaxLives,    \* bound: starts of the process
  DiskFaults   \* BOOLEAN: an append to the candle store may raise

Sym == ToSet(Symbols)
Ticker(s) == <<"ticker", s>>
Candle(s) == <<"candle", s>>
Minutes == 0 .. (MaxTime \div MinuteLen)

ASSUME ChannelAssumption == {Ticker(s) : s \in Sym} \cup {Candle(s) : s \in Sym} \subseteq Channels
\* A service without symbols has no ticks and no loop to speak of.
ASSUME SymbolsAssumption == Symbols \in Seq(Sym) /\ Symbols # <<>>
ASSUME MinuteAssumption  == NoMinute \notin Nat /\ MinuteLen \in Nat \ {0}
ASSUME FeedAssumption    == QueueSize \in Nat \ {0} /\ MaxTime \in Nat /\ TickerGap \in 0 .. MaxTime
ASSUME LimitsAssumption  == {MaxEmits, MaxBacks, MaxLives} \subseteq Nat /\ DiskFaults \in BOOLEAN

VARIABLES
  clock,       \* time.time() of the last round of the feed
  backs,       \* how often it was set back
  emits,       \* rounds the feed has emitted
  queue,       \* ticks not yet taken, as [sym, time]
  loop,        \* [at, tick]: where the loop is, and with which tick
  lastTicker,  \* _last_ticker_broadcast
  builder,     \* symbol -> the minute being built
  store,       \* symbol -> minutes of the candle files
  lives,       \* starts of the process
  \* history, read by the properties only
  announced,   \* symbol -> minutes broadcast in this life, in order
  unsaved      \* symbol -> minutes whose append raised

feedVars == <<clock, backs, emits, queue>>
loopVars == <<loop, lastTicker, builder, store, announced, unsaved>>
vars == <<hubVars, feedVars, loopVars, lives>>

Minute(t) == t \div MinuteLen
Nowhere == [sym |-> Symbols[1], time |-> 0]
Waiting == [at |-> "wait", tick |-> Nowhere]

Init ==
  /\ HubInit
  /\ clock = TickerGap /\ backs = 0 /\ emits = 0 /\ queue = <<>>
  /\ loop = Waiting
  /\ lastTicker = [s \in Sym |-> 0]
  /\ builder = [s \in Sym |-> NoMinute]
  /\ store = [s \in Sym |-> {}]
  /\ announced = [s \in Sym |-> <<>>] /\ unsaved = [s \in Sym |-> {}]
  /\ lives = 1

-----------------------------------------------------------------------------
(* The clock and the feed *)

\* One round: one tick per symbol, all with the time of the round, which may
\* be earlier than the last one if the clock was set back.
Emit(t) ==
  /\ emits < MaxEmits
  /\ emits' = emits + 1
  /\ \/ t \in {clock, clock + 1} /\ t <= MaxTime /\ UNCHANGED backs
     \/ t = clock - 1 /\ backs < MaxBacks /\ backs' = backs + 1
  /\ clock' = t
  /\ LET more == queue \o [k \in 1 .. Len(Symbols) |-> [sym |-> Symbols[k], time |-> t]]
     IN  queue' = SubSeq(more, 1, IF Len(more) > QueueSize THEN QueueSize ELSE Len(more))
  /\ UNCHANGED <<hubVars, loopVars, lives>>

-----------------------------------------------------------------------------
(* The tick loop *)

\* Mutant of Closes: any other minute closes the candle, an older one too.
ClosesOnAnyOther(t) == builder[t.sym] \notin {NoMinute, Minute(t.time)}

\* A tick of a later minute closes the candle of the builder.
Closes(t) == builder[t.sym] # NoMinute /\ Minute(t.time) > builder[t.sym]

\* on_tick: a tick older than the current minute is merged into it.
Build(t) ==
  IF Closes(t)
  THEN /\ loop' = [at |-> "candle", tick |-> [t EXCEPT !.time = builder[t.sym]]]
       /\ builder' = [builder EXCEPT ![t.sym] = Minute(t.time)]
       /\ \/ /\ store' = [store EXCEPT ![t.sym] = @ \cup {builder[t.sym]}]
             /\ UNCHANGED unsaved
          \/ /\ DiskFaults
             /\ unsaved' = [unsaved EXCEPT ![t.sym] = @ \cup {builder[t.sym]}]
             /\ UNCHANGED store
  ELSE /\ loop' = Waiting
       /\ builder' = [builder EXCEPT ![t.sym] = IF @ = NoMinute THEN Minute(t.time) ELSE @]
       /\ UNCHANGED <<store, unsaved>>

TakeTick ==
  /\ loop.at = "wait" /\ queue # <<>>
  /\ queue' = Tail(queue)
  /\ LET t == Head(queue)
     IN  IF t.time - lastTicker[t.sym] < TickerGap
         THEN Build(t) /\ UNCHANGED lastTicker
         ELSE /\ lastTicker' = [lastTicker EXCEPT ![t.sym] = t.time]
              /\ loop' = [at |-> "ticker", tick |-> t]
              /\ UNCHANGED <<builder, store, unsaved>>
  /\ UNCHANGED <<hubVars, clock, backs, emits, announced, lives>>

BroadcastTicker ==
  /\ loop.at = "ticker"
  /\ Broadcast(Ticker(loop.tick.sym))
  /\ loop' = [loop EXCEPT !.at = "tickerSent"]
  /\ UNCHANGED <<feedVars, lastTicker, builder, store, announced, unsaved, lives>>

BroadcastCandle ==
  /\ loop.at = "candle"
  /\ Broadcast(Candle(loop.tick.sym))
  /\ loop' = [loop EXCEPT !.at = "candleSent"]
  /\ announced' = [announced EXCEPT ![loop.tick.sym] = Append(@, loop.tick.time)]
  /\ UNCHANGED <<feedVars, lastTicker, builder, store, unsaved, lives>>

TickerSent ==
  /\ loop.at = "tickerSent" /\ CastOver
  /\ Build(loop.tick)
  /\ UNCHANGED <<conns, subs, subscribers, buffer, lock, endpoint, log, clients>>
  /\ UNCHANGED <<feedVars, lastTicker, announced, lives>>

CandleSent ==
  /\ loop.at = "candleSent" /\ CastOver
  /\ loop' = Waiting
  /\ UNCHANGED <<conns, subs, subscribers, buffer, lock, endpoint, log, clients>>
  /\ UNCHANGED <<feedVars, lastTicker, builder, store, announced, unsaved, lives>>

SendCast(c) == CastSend(c) /\ UNCHANGED <<feedVars, loopVars, lives>>
Endpoints == EndpointStep /\ UNCHANGED <<feedVars, loopVars, lives>>

\* stop and start, or a crash: only the candle files are left.
Restart ==
  /\ lives < MaxLives
  /\ lives' = lives + 1
  /\ HubRestart
  /\ queue' = <<>> /\ loop' = Waiting
  /\ lastTicker' = [s \in Sym |-> 0]
  /\ builder' = [s \in Sym |-> NoMinute]
  /\ announced' = [s \in Sym |-> <<>>]
  /\ UNCHANGED <<clock, backs, emits, store, unsaved>>

Next ==
  \/ \E t \in 0 .. MaxTime : Emit(t)
  \/ Restart
  \/ TakeTick \/ BroadcastTicker \/ BroadcastCandle \/ TickerSent \/ CandleSent
  \/ \E c \in Clients : SendCast(c)
  \/ Endpoints

Spec == Init /\ [][Next]_vars

\* A send returns: the transport takes the message or the connection breaks.
\* asyncio.Lock serves its waiters in order, so who waits for it gets it.
FairSpec ==
  /\ Spec
  /\ WF_vars(TakeTick) /\ WF_vars(TickerSent) /\ WF_vars(CandleSent)
  /\ SF_vars(BroadcastTicker) /\ SF_vars(BroadcastCandle)
  /\ \A c \in Clients :
       /\ WF_vars(SendCast(c))
       /\ SF_vars(Serve(c) /\ UNCHANGED <<feedVars, loopVars, lives>>)

-----------------------------------------------------------------------------
(* Properties *)

Ticks == [sym : Sym, time : 0 .. MaxTime]

\* Type invariant.  The tick loop is inside a broadcast exactly while the hub
\* is sending one (live_marketdata_service.py:200-241, 272-310).
TypeOK ==
  /\ HubTypeOK
  /\ clock \in 0 .. MaxTime /\ queue \in Seq(Ticks) /\ Len(queue) <= QueueSize
  /\ loop \in [at : {"wait", "ticker", "tickerSent", "candle", "candleSent"}, tick : Ticks]
  /\ cast # NoCast <=> loop.at \in {"tickerSent", "candleSent"}
  /\ lastTicker \in [Sym -> 0 .. MaxTime]
  /\ builder \in [Sym -> Minutes \cup {NoMinute}]
  /\ store \in [Sym -> SUBSET Minutes] /\ unsaved \in [Sym -> SUBSET Minutes]

\* What the hub still has to send to a client whose connection is open: the
\* broadcast that has not reached it and the rest of its replay.
Pending(c) ==
  IF c \in up
  THEN endpoint[c].rest \cup (IF cast # NoCast /\ c \in cast.to THEN {cast.seq} ELSE {})
  ELSE {}

Stream == INSTANCE EventStream WITH
  linked <- up,
  joined <- [c \in Clients |-> IF c \in up THEN subs[c] ELSE {}],
  owed   <- [c \in Clients |-> Pending(c)]

\* The hub implements the promise of EventStream: an event published while a
\* client is subscribed is sent to it unless its connection breaks, whatever
\* happens to the other subscribers, and an accepted resume sends every later
\* event of its channels although the buffer goes on turning over meanwhile
\* (hub.py:187-209, 238-269).
PromisesKept == Stream!Spec

\* The candles of a symbol are broadcast with increasing minutes, each once,
\* even when the clock is set back, and a client that is told of one finds it
\* in the candle store, unless the append raised (candle_builder.py:86-97,
\* live_marketdata_service.py:256-270).
AnnouncementsAreTrue ==
  \A s \in Sym : \A k \in DOMAIN announced[s] :
    /\ announced[s][k] \in store[s] \cup unsaved[s]
    /\ \A n \in 1 .. k - 1 : announced[s][n] < announced[s][k]

\* The tick loop always comes back for the next tick, although it awaits every
\* send of a broadcast and waits for a lock that is held while a client is
\* told to resync (hub.py:201-204, 241-247).
LoopComesBack == []<>(loop.at = "wait")
====
