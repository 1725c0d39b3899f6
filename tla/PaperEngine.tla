---- MODULE PaperEngine ----
(***************************************************************************)
(* Paper trading: the simulated execution engine, the venue adapter in     *)
(* front of it and the risk loop beside it.                                *)
(*                                                                         *)
(* The engine itself never suspends (the adapter gives it no hub), so each *)
(* of its operations is one step.  What suspends is the price: a request   *)
(* asks for it before it calls the engine, and the risk loop asks for one  *)
(* symbol after another before it checks every position against the        *)
(* answers.  A price is therefore old when it is used, and what a closing  *)
(* request found may have been closed meanwhile by the loop.               *)
(*                                                                         *)
(* Amounts are integers: slippage is an amount added to or taken from the  *)
(* price, the profit is rounded down to a unit.                            *)
(***************************************************************************)
EXTENDS Integers, Sequences, FiniteSets, Functions

CONSTANTS
  Openings,     \* requests to open; each gives its name to the position it opens
  Closings,     \* requests to close
  Symbols,      \* the symbols of the adapter, in the order the loop asks
  Costed,       \* symbols CostModel knows
  Feed,         \* symbol -> the prices its feed may give
  Orders,       \* what clients order: [sym, long, coll, lev, sl, tp]
  Stops,        \* values a stop may be set to
  Unset,        \* no stop
  NoPosition,   \* not in _positions
  NoFill,       \* not in _trade_history
  Initial,      \* initial_balance
  Slip,         \* slippage, as an amount
  OpenBps,      \* spread and opening fee, in basis points of the notional
  CloseBps,     \* closing fee, in basis points of the notional
  Maintenance,  \* maintenance margin, in basis points of the notional
  TTL,          \* PAPER_TTL_S; 0 switches it off
  MaxNow        \* bound: the clock

Bps == 10000
Requests == Openings \cup Closings
Sym == {Symbols[k] : k \in DOMAIN Symbols}

Prices == UNION {Feed[s] : s \in Sym}

\* A position, and what the history says of one that is closed.
Held == [sym : Sym, long : BOOLEAN, coll : Nat \ {0}, lev : Nat \ {0}, open : Nat \ {0},
         last : Nat \ {0}, sl : Stops \cup {Unset}, tp : Stops \cup {Unset}, since : 0 .. MaxNow]
Reasons == {"manual", "liquidation", "stop_loss", "take_profit", "ttl"}
Fill == [reason : Reasons, net : Int]

ASSUME PriceAssumption == Prices \subseteq Nat /\ Slip \in Nat /\ \A p \in Prices : Slip < p
ASSUME RateAssumption  == {OpenBps, CloseBps, Maintenance, TTL, MaxNow, Initial} \subseteq Nat
ASSUME StopAssumption  == Stops \subseteq Nat /\ Unset \notin Nat
ASSUME OrderAssumption ==
  Orders \subseteq [sym : Sym, long : BOOLEAN, coll : Nat \ {0}, lev : Nat \ {0},
                    sl : Stops \cup {Unset}, tp : Stops \cup {Unset}]
ASSUME NamesAssumption ==
  /\ Symbols \in Seq(Sym) /\ Openings \cap Closings = {}
  /\ NoPosition \notin Held \cup Openings \cup Orders /\ NoFill \notin Fill

VARIABLES
  price,      \* symbol -> latest price of the market data service, 0 before the first tick
  now,        \* the clock
  balance,    \* _balance
  positions,  \* opening -> its position in _positions
  fills,      \* position -> its entry in _trade_history
  request,    \* request -> [at, target, what, px]: a call of a client, what it found, its price
  risk,       \* the risk loop: how many symbols it has asked for, 0 while it sleeps
  sample,     \* symbol -> the price the loop was given in this round, 0 if none
  entry       \* position -> what was paid to open it (history)

engine == <<balance, positions, fills, entry>>
vars == <<price, now, engine, request, risk, sample>>

-----------------------------------------------------------------------------
(* Arithmetic of the engine *)

Notional(p) == p.coll * p.lev
EntryCost(n) == (n * OpenBps) \div Bps
ExitCost(n) == (n * CloseBps) \div Bps

\* Slippage is always against the trader.
Adverse(px, buying) == IF buying THEN px + Slip ELSE px - Slip

Gain(p, px) == IF p.long THEN px - p.open ELSE p.open - px

\* Net profit of closing p at the price px.
Net(p, px) ==
  (Gain(p, Adverse(px, ~p.long)) * Notional(p)) \div p.open - ExitCost(Notional(p))

\* equity <= maintenance margin, without dividing by the opening price
Liquidates(p, px) ==
  (p.coll * p.open + Gain(p, px) * Notional(p)) * Bps <= Notional(p) * Maintenance * p.open

StopHit(p, px) ==
  p.sl # Unset /\ IF p.long THEN px <= p.sl ELSE px >= p.sl

TakeHit(p, px) ==
  p.tp # Unset /\ IF p.long THEN px >= p.tp ELSE px <= p.tp

-----------------------------------------------------------------------------
(* Operations of the engine *)

IsOpen(i) == positions[i] # NoPosition

\* Mutant of Close: the closing fee is recorded but not taken.
CloseForFree(S, px, reason) ==
  /\ balance' = balance + SumFunction([i \in S |->
       positions[i].coll + Net(positions[i], px[i]) + ExitCost(Notional(positions[i]))])
  /\ fills' = [i \in Openings |->
       IF i \in S THEN [reason |-> reason[i], net |-> Net(positions[i], px[i])] ELSE fills[i]]
  /\ UNCHANGED entry

\* close_position for each position of S at the price px[i]
Close(S, px, reason) ==
  /\ balance' = balance + SumFunction([i \in S |-> positions[i].coll + Net(positions[i], px[i])])
  /\ fills' = [i \in Openings |->
                 IF i \in S
                 THEN [reason |-> reason[i], net |-> Net(positions[i], px[i])]
                 ELSE fills[i]]
  /\ UNCHANGED entry

Refuses(o, px) == px = 0 \/ o.coll > balance \/ o.sym \notin Costed

OpenPosition(r, o, px) ==
  LET n == Notional(o)
      out == Adverse(px, o.long)
  IN  /\ balance' = balance - o.coll - EntryCost(n)
      /\ positions' = [positions EXCEPT ![r] =
           [sym |-> o.sym, long |-> o.long, coll |-> o.coll, lev |-> o.lev,
            open |-> out, last |-> out, sl |-> o.sl, tp |-> o.tp, since |-> now]]
      /\ entry' = [entry EXCEPT ![r] = EntryCost(n)]
      /\ UNCHANGED fills

-----------------------------------------------------------------------------
(* Requests through the adapter *)

Answer(r, answer) ==
  request' = [request EXCEPT ![r] = [at |-> answer, target |-> request[r].target,
                                     what |-> NoPosition, px |-> 0]]

AskOpen(r, o) ==
  /\ request[r].at = "new"
  /\ request' = [request EXCEPT ![r] = [at |-> "open", target |-> r, what |-> o, px |-> price[o.sym]]]
  /\ UNCHANGED <<price, now, engine, risk, sample>>

\* Mutant of RunOpen: a missing price and an empty account are not refused.
RunOpenUnpriced(r) ==
  /\ request[r].at = "open"
  /\ Answer(r, "done")
  /\ OpenPosition(r, request[r].what, request[r].px)
  /\ UNCHANGED <<price, now, risk, sample>>

RunOpen(r) ==
  /\ request[r].at = "open"
  /\ LET o == request[r].what IN
       \/ /\ Refuses(o, request[r].px)
          /\ Answer(r, "refused")
          /\ UNCHANGED engine
       \/ /\ ~Refuses(o, request[r].px)
          /\ Answer(r, "done")
          /\ OpenPosition(r, o, request[r].px)
  /\ UNCHANGED <<price, now, risk, sample>>

\* The position is looked up before its price is asked for; without a price it
\* is closed at the price it was opened at.
AskClose(r, i) ==
  /\ request[r].at = "new"
  /\ IF IsOpen(i)
     THEN request' = [request EXCEPT ![r] =
            [at |-> "close", target |-> i, what |-> NoPosition,
             px |-> IF price[positions[i].sym] > 0 THEN price[positions[i].sym]
                    ELSE positions[i].open]]
     ELSE request' = [request EXCEPT ![r].at = "refused", ![r].target = i]
  /\ UNCHANGED <<price, now, engine, risk, sample>>

\* Mutant of RunClose: a position that is gone counts as closed.
RunCloseGone(r) ==
  /\ request[r].at = "close"
  /\ Answer(r, "done")
  /\ LET i == request[r].target IN
       \/ ~IsOpen(i) /\ UNCHANGED engine
       \/ /\ IsOpen(i)
          /\ Close({i}, [j \in {i} |-> request[r].px], [j \in {i} |-> "manual"])
          /\ positions' = [positions EXCEPT ![i] = NoPosition]
  /\ UNCHANGED <<price, now, risk, sample>>

RunClose(r) ==
  /\ request[r].at = "close"
  /\ LET i == request[r].target IN
       \/ /\ ~IsOpen(i)
          /\ Answer(r, "refused")
          /\ UNCHANGED engine
       \/ /\ IsOpen(i)
          /\ Answer(r, "done")
          /\ Close({i}, [j \in {i} |-> request[r].px], [j \in {i} |-> "manual"])
          /\ positions' = [positions EXCEPT ![i] = NoPosition]
  /\ UNCHANGED <<price, now, risk, sample>>

\* Of a position that is closed these answer False and change nothing.
UpdateSl(i, s) ==
  /\ IsOpen(i)
  /\ positions' = [positions EXCEPT ![i].sl = s]
  /\ UNCHANGED <<price, now, balance, fills, entry, request, risk, sample>>

UpdateTp(i, s) ==
  /\ IsOpen(i)
  /\ positions' = [positions EXCEPT ![i].tp = s]
  /\ UNCHANGED <<price, now, balance, fills, entry, request, risk, sample>>

-----------------------------------------------------------------------------
(* The risk loop *)

\* It wakes and asks for the next symbol; a price that is missing is skipped.
RiskAsks(px) ==
  /\ risk < Len(Symbols)
  /\ px \in {price[Symbols[risk + 1]], 0}
  /\ risk' = risk + 1
  /\ sample' = [sample EXCEPT ![Symbols[risk + 1]] = px]
  /\ UNCHANGED <<price, now, engine, request>>

Priced(i) == sample[positions[i].sym] > 0
Marked(i) == IF Priced(i) THEN sample[positions[i].sym] ELSE positions[i].last
Expired(i) == TTL > 0 /\ now - positions[i].since >= TTL

\* Mutant of Verdict: the time to live is only looked at when there is a price.
VerdictIfPriced(i) ==
  IF ~Priced(i) THEN "none"
  ELSE IF Liquidates(positions[i], Marked(i)) THEN "liquidation"
  ELSE IF StopHit(positions[i], Marked(i)) THEN "stop_loss"
  ELSE IF TakeHit(positions[i], Marked(i)) THEN "take_profit"
  ELSE IF Expired(i) THEN "ttl"
  ELSE "none"

\* Liquidation of all positions comes first, then the stops, stop loss before
\* take profit, then the time to live of what is left.
Verdict(i) ==
  CASE Priced(i) /\ Liquidates(positions[i], Marked(i)) -> "liquidation"
    [] Priced(i) /\ ~Liquidates(positions[i], Marked(i)) /\ StopHit(positions[i], Marked(i)) -> "stop_loss"
    [] Priced(i) /\ ~Liquidates(positions[i], Marked(i)) /\ ~StopHit(positions[i], Marked(i))
         /\ TakeHit(positions[i], Marked(i)) -> "take_profit"
    [] OTHER -> IF Expired(i) THEN "ttl" ELSE "none"

RiskChecks ==
  /\ risk = Len(Symbols)
  /\ LET held == {i \in Openings : IsOpen(i)}
         due  == {i \in held : Verdict(i) # "none"}
     IN  /\ Close(due, [i \in due |-> Marked(i)], [i \in due |-> Verdict(i)])
         /\ positions' = [i \in Openings |->
              IF i \in due THEN NoPosition
              ELSE IF i \in held THEN [positions[i] EXCEPT !.last = Marked(i)]
              ELSE NoPosition]
  /\ risk' = 0
  /\ sample' = [s \in Sym |-> 0]
  /\ UNCHANGED <<price, now, request>>

-----------------------------------------------------------------------------
(* The market and the clock *)

Quote(s, p) ==
  /\ price[s] # p
  /\ price' = [price EXCEPT ![s] = p]
  /\ UNCHANGED <<now, engine, request, risk, sample>>

Elapse ==
  /\ now < MaxNow
  /\ now' = now + 1
  /\ UNCHANGED <<price, engine, request, risk, sample>>

Init ==
  /\ price = [s \in Sym |-> 0]
  /\ now = 0 /\ balance = Initial
  /\ positions = [i \in Openings |-> NoPosition]
  /\ fills = [i \in Openings |-> NoFill]
  /\ entry = [i \in Openings |-> 0]
  /\ request = [r \in Requests |-> [at |-> "new", target |-> NoPosition, what |-> NoPosition, px |-> 0]]
  /\ risk = 0 /\ sample = [s \in Sym |-> 0]

RequestStep ==
  \/ \E r \in Openings : (\E o \in Orders : AskOpen(r, o)) \/ RunOpen(r)
  \/ \E r \in Closings : (\E i \in Openings : AskClose(r, i)) \/ RunClose(r)
  \/ \E i \in Openings, s \in Stops : UpdateSl(i, s) \/ UpdateTp(i, s)

RiskLoop == (\E px \in Prices \cup {0} : RiskAsks(px)) \/ RiskChecks

Next ==
  \/ RequestStep
  \/ RiskLoop
  \/ \E s \in Sym : \E p \in Feed[s] : Quote(s, p)
  \/ Elapse

Spec == Init /\ [][Next]_vars

\* The loop sleeps for poll_interval_s and a fetched price arrives or fails.
FairSpec == Spec /\ WF_vars(RiskLoop)

-----------------------------------------------------------------------------
(* Properties *)

\* Type invariant.  A position is either open or in the trade history, and a
\* call that waits for its price has one or is going to be refused.
TypeOK ==
  /\ price \in [Sym -> Prices \cup {0}] /\ sample \in [Sym -> Prices \cup {0}]
  /\ now \in 0 .. MaxNow /\ balance \in Int /\ entry \in [Openings -> Nat]
  /\ risk \in 0 .. Len(Symbols)
  /\ positions \in [Openings -> Held \cup {NoPosition}] /\ fills \in [Openings -> Fill \cup {NoFill}]
  /\ request \in [Requests -> [at : {"new", "open", "close", "done", "refused"},
                               target : Openings \cup {NoPosition},
                               what : Orders \cup {NoPosition}, px : Nat]]
  /\ \A i \in Openings :
       /\ IsOpen(i) => fills[i] = NoFill
       /\ IsOpen(i) \/ fills[i] # NoFill => request[i].at = "done"
  /\ \A r \in Requests :
       /\ request[r].at = "open" =>
            r \in Openings /\ request[r].what \in Orders /\ request[r].px \in Prices \cup {0}
       /\ request[r].at = "close" =>
            r \in Closings /\ request[r].target \in Openings /\ request[r].px > 0

Account == INSTANCE PaperAccount WITH
  Ids    <- Openings,
  cash   <- balance,
  life   <- [i \in Openings |-> IF IsOpen(i) THEN "open"
                                ELSE IF fills[i] # NoFill THEN "settled" ELSE "new"],
  stake  <- [i \in Openings |-> IF IsOpen(i) THEN positions[i].coll ELSE 0],
  fee    <- entry,
  result <- [i \in Openings |-> IF fills[i] # NoFill THEN fills[i].net ELSE 0]

\* The engine implements a paper account: whatever the requests and the risk
\* loop found before their prices arrived, a position is settled once and the
\* cash moves by its collateral and the result that the history records
\* (paper_engine.py:120-138, 225-273).
AccountKept == Account!Spec

\* A client is told "closed" if and only if it was its request that closed the
\* position, not another one or the loop (paper_venue_adapter.py:141-155).
ManualClosingsAreAnswered ==
  \A i \in Openings :
    Cardinality({r \in Closings : request[r].target = i /\ request[r].at = "done"})
      = IF fills[i] # NoFill /\ fills[i].reason = "manual" THEN 1 ELSE 0

\* A position whose time to live is over is closed, even if its symbol never
\* has a price again (paper_risk_engine.py:113-127).
OverdueIsClosed == \A i \in Openings : (IsOpen(i) /\ Expired(i)) ~> ~IsOpen(i)
====
