------------------------- MODULE PaperEngine_proofs -------------------------
(***************************************************************************)
(* Proofs about paper trading for any requests, feeds, orders, rates and   *)
(* number of positions.                                                    *)
(***************************************************************************)
EXTENDS PaperEngine, FiniteSetTheorems, WellFoundedInduction, TLAPS

-----------------------------------------------------------------------------
(* Sums over finite sets *)

LEMMA LeastNat ==
  ASSUME NEW T, T \subseteq Nat, T # {}
  PROVE  \E x \in T : \A y \in T : x <= y
<1>1. PICK x \in T : \A y \in T : ~(<<y, x>> \in OpToRel(<, Nat))
  BY NatLessThanWellFounded, WFMin
<1>2. \A y \in T : ~(y < x)
  BY <1>1 DEF OpToRel
<1> QED BY <1>2

Some(s) == CHOOSE x \in s : TRUE
Small(S, n) == {s \in SUBSET S : Cardinality(s) <= n}

\* g sums f over the sets of D, one element after the other.
SumsUp(g, f, D) == g = [s \in D |-> IF s = {} THEN 0 ELSE f[Some(s)] + g[s \ {Some(s)}]]

LEMMA TakeOne ==
  ASSUME NEW s, IsFiniteSet(s), s # {}
  PROVE  /\ Some(s) \in s /\ IsFiniteSet(s \ {Some(s)})
         /\ Cardinality(s) \in Nat /\ Cardinality(s \ {Some(s)}) = Cardinality(s) - 1
         /\ Cardinality(s \ {Some(s)}) \in Nat
<1>1. Some(s) \in s
  BY DEF Some
<1>2. IsFiniteSet(s \ {Some(s)}) /\ Cardinality(s \ {Some(s)}) = Cardinality(s) - 1
  BY <1>1, FS_RemoveElement
<1> QED BY <1>1, <1>2, FS_CardinalityType

LEMMA SumsUpExists ==
  ASSUME NEW f, NEW S, IsFiniteSet(S)
  PROVE  \A n \in Nat : \E g : SumsUp(g, f, Small(S, n))
<1> DEFINE T == {n \in Nat : ~\E g : SumsUp(g, f, Small(S, n))}
<1> SUFFICES ASSUME T # {} PROVE FALSE
  OBVIOUS
<1>1. PICK m \in T : \A y \in T : m <= y
  BY LeastNat
<1>2. m \in Nat /\ ~\E g : SumsUp(g, f, Small(S, m))
  OBVIOUS
<1>3. \A s \in SUBSET S : IsFiniteSet(s) /\ Cardinality(s) \in Nat
  BY FS_Subset, FS_CardinalityType
<1>4. CASE m = 0
  <2> DEFINE g == [s \in Small(S, 0) |-> 0]
  <2>1. \A s \in Small(S, 0) : s = {}
    BY <1>3, FS_EmptySet DEF Small
  <2>2. SumsUp(g, f, Small(S, 0))
    BY <2>1 DEF SumsUp
  <2> QED BY <1>2, <1>4, <2>2
<1>5. CASE m # 0
  <2>1. m - 1 \in Nat /\ m - 1 \notin T
    BY <1>1, <1>2, <1>5
  <2>2. PICK h : SumsUp(h, f, Small(S, m - 1))
    BY <2>1
  <2> DEFINE g == [s \in Small(S, m) |-> IF s = {} THEN 0 ELSE f[Some(s)] + h[s \ {Some(s)}]]
  <2>3. ASSUME NEW s \in Small(S, m), s # {}
        PROVE  h[s \ {Some(s)}] = g[s \ {Some(s)}]
    <3> DEFINE u == s \ {Some(s)}
    <3>1. u \in SUBSET S /\ Cardinality(u) <= m - 1 /\ Cardinality(u) <= m
      BY <1>2, <1>3, <2>3, TakeOne DEF Small
    <3> HIDE DEF u
    <3>2. u \in Small(S, m - 1) /\ u \in Small(S, m)
      BY <3>1 DEF Small
    <3>3. h[u] = IF u = {} THEN 0 ELSE f[Some(u)] + h[u \ {Some(u)}]
      BY <2>2, <3>2 DEF SumsUp
    <3>4. h[u] = g[u]
      BY <3>2, <3>3
    <3> QED BY <3>4 DEF u
  <2>4. g = [s \in Small(S, m) |-> IF s = {} THEN 0 ELSE f[Some(s)] + g[s \ {Some(s)}]]
    BY <2>3
  <2> QED BY <1>2, <2>4 DEF SumsUp
<1> QED BY <1>4, <1>5

\* What the sum of the community modules is.
LEMMA SumIsSummedUp ==
  ASSUME NEW f, NEW S, S = DOMAIN f, IsFiniteSet(S)
  PROVE  \E g : SumsUp(g, f, SUBSET S) /\ SumFunction(f) = g[S]
<1> DEFINE G == CHOOSE g : g = [s \in SUBSET S |->
                 IF s = {} THEN 0 ELSE f[CHOOSE x \in s : TRUE] + g[s \ {CHOOSE x \in s : TRUE}]]
<1>1. SumFunction(f) = G[S]
  BY DEF SumFunction, SumFunctionOnSet, FoldFunctionOnSet, MapThenFoldSet
<1>2. Cardinality(S) \in Nat /\ SUBSET S = Small(S, Cardinality(S))
  BY FS_Subset, FS_CardinalityType DEF Small
<1>3. \E g : SumsUp(g, f, SUBSET S)
  BY <1>2, SumsUpExists, SMTT(30)
<1>4. SumsUp(G, f, SUBSET S)
  BY <1>3 DEF SumsUp, Some
<1> QED BY <1>1, <1>4

LEMMA SumIsInt ==
  ASSUME NEW S, IsFiniteSet(S), NEW f \in [S -> Int]
  PROVE  SumFunction(f) \in Int
<1>1. PICK g : SumsUp(g, f, SUBSET S) /\ SumFunction(f) = g[S]
  BY SumIsSummedUp
<1> DEFINE T == {n \in Nat : \E s \in SUBSET S : Cardinality(s) = n /\ g[s] \notin Int}
<1>2. ASSUME T # {} PROVE FALSE
  <2>1. PICK m \in T : \A y \in T : m <= y
    BY <1>2, LeastNat
  <2>2. PICK s \in SUBSET S : Cardinality(s) = m /\ g[s] \notin Int
    BY <2>1
  <2>3. g[s] = IF s = {} THEN 0 ELSE f[Some(s)] + g[s \ {Some(s)}]
    BY <1>1 DEF SumsUp
  <2>4. s # {} /\ IsFiniteSet(s)
    BY <2>2, <2>3, FS_Subset
  <2> DEFINE u == s \ {Some(s)}
  <2>5. u \in SUBSET S /\ Cardinality(u) = m - 1 /\ Cardinality(u) \in Nat /\ f[Some(s)] \in Int
    BY <2>2, <2>4, TakeOne
  <2>6. g[u] \in Int
    <3> HIDE DEF u
    <3>1. Cardinality(u) \notin T
      BY <2>1, <2>5
    <3> QED BY <2>5, <3>1
  <2> QED BY <2>2, <2>3, <2>4, <2>5, <2>6
<1>3. Cardinality(S) \in Nat
  BY FS_CardinalityType
<1> QED BY <1>1, <1>2, <1>3

LEMMA SumOfNothing ==
  ASSUME NEW f, DOMAIN f = {}
  PROVE  SumFunction(f) = 0
<1>1. IsFiniteSet({})
  BY FS_EmptySet
<1>2. PICK g : SumsUp(g, f, SUBSET {}) /\ SumFunction(f) = g[{}]
  BY <1>1, SumIsSummedUp
<1> QED BY <1>2 DEF SumsUp

-----------------------------------------------------------------------------
(* Amounts *)

LEMMA RatesAreNat ==
  /\ OpenBps \in Nat /\ CloseBps \in Nat /\ Maintenance \in Nat /\ TTL \in Nat /\ MaxNow \in Nat
  /\ Initial \in Nat /\ Slip \in Nat /\ Bps \in Nat \ {0}
BY RateAssumption, PriceAssumption DEF Bps

LEMMA CostsAreNat ==
  ASSUME NEW n \in Nat
  PROVE  EntryCost(n) \in Nat /\ ExitCost(n) \in Nat
<1>1. n * OpenBps \in Nat /\ n * CloseBps \in Nat
  BY RatesAreNat
<1> QED BY <1>1, RatesAreNat DEF EntryCost, ExitCost

LEMMA PricesArePositive == \A p \in Prices \cup {0} : p \in Nat /\ (p # 0 => p \in Nat \ {0} /\ p > 0)
BY PriceAssumption

\* The price paid for a position is above zero, slippage included.
LEMMA PaidPrice ==
  ASSUME NEW px \in Prices, NEW buying \in BOOLEAN
  PROVE  Adverse(px, buying) \in Nat \ {0}
<1>1. px \in Nat /\ Slip < px /\ Slip \in Nat
  BY PriceAssumption
<1> QED BY <1>1 DEF Adverse

LEMMA NetIsInt ==
  ASSUME NEW p \in Held, NEW px \in Nat
  PROVE  Net(p, px) \in Int
<1>1. p.coll \in Nat /\ p.lev \in Nat /\ p.open \in Nat \ {0}
  BY DEF Held
<1>2. Notional(p) \in Nat
  BY <1>1 DEF Notional
<1>3. Adverse(px, ~p.long) \in Int
  BY RatesAreNat DEF Adverse
<1>4. Gain(p, Adverse(px, ~p.long)) \in Int
  BY <1>1, <1>3 DEF Gain
<1>5. Gain(p, Adverse(px, ~p.long)) * Notional(p) \in Int
  BY <1>2, <1>4
<1>6. (Gain(p, Adverse(px, ~p.long)) * Notional(p)) \div p.open \in Int
  BY <1>1, <1>5
<1> QED BY <1>2, <1>6, CostsAreNat DEF Net

-----------------------------------------------------------------------------
(* Types *)

Books == {i \in Openings : IsOpen(i)}

LEMMA NothingIsNothing ==
  NoPosition \notin Held /\ NoPosition \notin Openings /\ NoPosition \notin Orders /\ NoFill \notin Fill
BY NamesAssumption

EngineOK ==
  /\ balance \in Int /\ entry \in [Openings -> Nat]
  /\ positions \in [Openings -> Held \cup {NoPosition}] /\ fills \in [Openings -> Fill \cup {NoFill}]

MarketOK ==
  /\ price \in [Sym -> Prices \cup {0}] /\ sample \in [Sym -> Prices \cup {0}]
  /\ now \in 0 .. MaxNow /\ risk \in 0 .. Len(Symbols)

Calls == [at : {"new", "open", "close", "done", "refused"}, target : Openings \cup {NoPosition},
          what : Orders \cup {NoPosition}, px : Nat]

CallOK(r) ==
  /\ request[r].at = "open" =>
       r \in Openings /\ request[r].what \in Orders /\ request[r].px \in Prices \cup {0}
  /\ request[r].at = "close" =>
       r \in Closings /\ request[r].target \in Openings /\ request[r].px > 0

LifeOK(i) ==
  /\ IsOpen(i) => fills[i] = NoFill
  /\ IsOpen(i) \/ fills[i] # NoFill => request[i].at = "done"

LEMMA TypeParts ==
  TypeOK <=> /\ EngineOK /\ MarketOK /\ request \in [Requests -> Calls]
             /\ (\A i \in Openings : LifeOK(i)) /\ (\A r \in Requests : CallOK(r))
BY DEF TypeOK, EngineOK, MarketOK, Calls, CallOK, LifeOK

LEMMA TypeAgain ==
  ASSUME EngineOK', MarketOK', request' \in [Requests -> Calls],
         \A i \in Openings : LifeOK(i)', \A r \in Requests : CallOK(r)'
  PROVE  TypeOK'
BY DEF TypeOK, EngineOK, MarketOK, Calls, CallOK, LifeOK

\* Closing settles what it closes and keeps the money an amount.
LEMMA CloseTyped ==
  ASSUME EngineOK, IsFiniteSet(Books), NEW S \in SUBSET Books,
         NEW px \in [S -> Nat], NEW reason \in [S -> Reasons], Close(S, px, reason)
  PROVE  /\ balance' \in Int /\ entry' = entry /\ fills' \in [Openings -> Fill \cup {NoFill}]
         /\ \A i \in S : fills'[i] = [reason |-> reason[i], net |-> Net(positions[i], px[i])]
                         /\ fills'[i] # NoFill
         /\ \A i \in Openings \ S : fills'[i] = fills[i]
<1>1. \A i \in S : i \in Openings /\ positions[i] \in Held
  BY DEF EngineOK, Books, IsOpen
<1>2. \A i \in S : Net(positions[i], px[i]) \in Int /\ positions[i].coll \in Int
  <2>1. \A i \in S : positions[i].coll \in Int
    BY <1>1 DEF Held
  <2> QED BY <1>1, <2>1, NetIsInt
<1>3. balance' \in Int
  <2> DEFINE f == [i \in S |-> positions[i].coll + Net(positions[i], px[i])]
  <2>1. f \in [S -> Int] /\ IsFiniteSet(S)
    BY <1>2, FS_Subset
  <2>2. balance' = balance + SumFunction(f)
    BY DEF Close
  <2> HIDE DEF f
  <2>3. SumFunction(f) \in Int
    BY <2>1, SumIsInt
  <2> QED BY <2>2, <2>3 DEF EngineOK
<1>4. \A i \in S : [reason |-> reason[i], net |-> Net(positions[i], px[i])] \in Fill
  BY <1>2 DEF Fill
<1>5. fills' = [i \in Openings |-> IF i \in S THEN [reason |-> reason[i], net |-> Net(positions[i], px[i])]
                                   ELSE fills[i]]
      /\ entry' = entry
  BY DEF Close
<1>6. fills' \in [Openings -> Fill \cup {NoFill}]
  BY <1>4, <1>5 DEF EngineOK
<1>7. \A i \in S : fills'[i] = [reason |-> reason[i], net |-> Net(positions[i], px[i])]
  BY <1>1, <1>5
<1>8. \A i \in S : fills'[i] # NoFill
  BY <1>4, <1>7, NothingIsNothing
<1>9. \A i \in Openings \ S : fills'[i] = fills[i]
  BY <1>5
<1> QED BY <1>3, <1>5, <1>6, <1>7, <1>8, <1>9

\* A position is marked at a price above zero.
LEMMA MarkedTyped ==
  ASSUME EngineOK, MarketOK, NEW i \in Books
  PROVE  /\ positions[i] \in Held /\ Marked(i) \in Nat \ {0}
         /\ Verdict(i) # "none" => Verdict(i) \in Reasons \ {"manual"}
<1>1. positions[i] \in Held
  BY DEF EngineOK, Books, IsOpen
<1>2. positions[i].sym \in Sym /\ positions[i].last \in Nat \ {0}
  BY <1>1 DEF Held
<1>3. sample[positions[i].sym] \in Prices \cup {0}
  BY <1>2 DEF MarketOK
<1>4. Marked(i) \in Nat \ {0}
  BY <1>2, <1>3, PricesArePositive DEF Marked, Priced
<1>5. Verdict(i) \in {"liquidation", "stop_loss", "take_profit", "ttl", "none"}
  BY DEF Verdict
<1> QED BY <1>1, <1>4, <1>5 DEF Reasons

LEMMA EngineStays ==
  ASSUME EngineOK, UNCHANGED engine
  PROVE  EngineOK' /\ Books' = Books /\ \A i \in Openings : IsOpen(i)' = IsOpen(i)
BY DEF EngineOK, engine, Books, IsOpen

LEMMA MarketStays ==
  ASSUME MarketOK, UNCHANGED <<price, now, risk, sample>>
  PROVE  MarketOK'
BY DEF MarketOK

LEMMA AskOpenTyped ==
  ASSUME TypeOK, NEW r \in Openings, NEW o \in Orders, AskOpen(r, o)
  PROVE  TypeOK' /\ Books' = Books
<1>1. /\ request \in [Requests -> Calls] /\ r \in Requests /\ request[r].at = "new"
      /\ request' = [request EXCEPT ![r] = [at |-> "open", target |-> r, what |-> o, px |-> price[o.sym]]]
      /\ UNCHANGED <<price, now, engine, risk, sample>>
  BY TypeParts DEF AskOpen, Requests
<1>2. price[o.sym] \in Prices \cup {0} /\ price[o.sym] \in Nat
  <2>1. o.sym \in Sym
    BY OrderAssumption
  <2>2. price \in [Sym -> Prices \cup {0}]
    BY TypeParts DEF MarketOK
  <2>3. price[o.sym] \in Prices \cup {0}
    BY <2>1, <2>2
  <2> QED BY <2>3, PricesArePositive
<1>3. [at |-> "open", target |-> r, what |-> o, px |-> price[o.sym]] \in Calls
  BY <1>2 DEF Calls
<1>4. request' \in [Requests -> Calls]
  BY <1>1, <1>3
<1>5. /\ request'[r] = [at |-> "open", target |-> r, what |-> o, px |-> price[o.sym]]
      /\ \A q \in Requests \ {r} : request'[q] = request[q]
  BY <1>1
<1>6. ASSUME NEW q \in Requests PROVE CallOK(q)'
  BY <1>2, <1>5, TypeParts DEF CallOK
<1>7. ASSUME NEW i \in Openings PROVE LifeOK(i)'
  <2>1. LifeOK(i) /\ i \in Requests /\ IsOpen(i)' = IsOpen(i) /\ fills'[i] = fills[i]
    BY <1>1, TypeParts DEF IsOpen, engine, Requests
  <2>2. CASE i = r
    BY <1>1, <2>1, <2>2 DEF LifeOK
  <2>3. CASE i # r
    BY <1>5, <2>1, <2>3 DEF LifeOK
  <2> QED BY <2>2, <2>3
<1>8. EngineOK' /\ MarketOK' /\ Books' = Books
  <2>1. EngineOK /\ MarketOK
    BY TypeParts
  <2> QED BY <1>1, <2>1, EngineStays, MarketStays
<1> QED BY <1>4, <1>6, <1>7, <1>8, TypeAgain

\* An answer leaves the other calls and the position it was about as they are.
LEMMA AnswerTyped ==
  ASSUME TypeOK, NEW r \in Requests, NEW a \in {"done", "refused"}, Answer(r, a)
  PROVE  /\ request' \in [Requests -> Calls] /\ (\A q \in Requests : CallOK(q)')
         /\ request'[r].at = a /\ request'[r].target = request[r].target
         /\ \A q \in Requests \ {r} : request'[q] = request[q]
<1>1. request \in [Requests -> Calls]
  BY TypeParts
<1>2. [at |-> a, target |-> request[r].target, what |-> NoPosition, px |-> 0] \in Calls
  BY <1>1 DEF Calls
<1>3. request' = [request EXCEPT ![r] = [at |-> a, target |-> request[r].target,
                                         what |-> NoPosition, px |-> 0]]
  BY DEF Answer
<1>4. request' \in [Requests -> Calls]
  BY <1>1, <1>2, <1>3
<1>5. /\ request'[r].at = a /\ request'[r].target = request[r].target
      /\ \A q \in Requests \ {r} : request'[q] = request[q]
  BY <1>1, <1>3
<1>6. ASSUME NEW q \in Requests PROVE CallOK(q)'
  BY <1>5, TypeParts DEF CallOK
<1> QED BY <1>4, <1>5, <1>6

\* What the engine opens is a position, paid for from the balance.
LEMMA OpenTyped ==
  ASSUME TypeOK, NEW r \in Openings, request[r].at = "open", ~Refuses(request[r].what, request[r].px),
         OpenPosition(r, request[r].what, request[r].px)
  PROVE  /\ EngineOK' /\ positions'[r] \in Held /\ (\A i \in Openings \ {r} : positions'[i] = positions[i])
         /\ fills' = fills /\ positions'[r].coll = request[r].what.coll
         /\ balance' = balance - positions'[r].coll - entry'[r]
         /\ positions'[r].coll \in Int /\ positions'[r].coll <= balance
         /\ \A i \in Openings \ {r} : entry'[i] = entry[i]
<1> DEFINE o == request[r].what
           px == request[r].px
           n == Notional(o)
           p == [sym |-> o.sym, long |-> o.long, coll |-> o.coll, lev |-> o.lev,
                 open |-> Adverse(px, o.long), last |-> Adverse(px, o.long),
                 sl |-> o.sl, tp |-> o.tp, since |-> now]
<1>1. EngineOK /\ MarketOK /\ CallOK(r) /\ r \in Requests
  BY TypeParts DEF Requests
<1>2. o \in Orders /\ px \in Prices /\ ~(o.coll > balance)
  BY <1>1 DEF CallOK, Refuses
<1>3. /\ o.sym \in Sym /\ o.long \in BOOLEAN /\ o.coll \in Nat \ {0} /\ o.lev \in Nat \ {0}
      /\ o.sl \in Stops \cup {Unset} /\ o.tp \in Stops \cup {Unset}
  BY <1>2, OrderAssumption
<1>4. Adverse(px, o.long) \in Nat \ {0}
  BY <1>2, <1>3, PaidPrice
<1>5. now \in 0 .. MaxNow
  BY <1>1 DEF MarketOK
<1>6. EntryCost(n) \in Nat
  <2>1. n \in Nat
    BY <1>3 DEF Notional
  <2> QED BY <2>1, CostsAreNat
<1>7. balance' = balance - o.coll - EntryCost(n) /\ positions' = [positions EXCEPT ![r] = p]
      /\ entry' = [entry EXCEPT ![r] = EntryCost(n)] /\ fills' = fills
  BY DEF OpenPosition
<1> HIDE DEF o, px, n
<1>8. p \in Held /\ p.coll = o.coll
  BY <1>3, <1>4, <1>5 DEF Held
<1> HIDE DEF p
<1>9. positions'[r] = p /\ (\A i \in Openings \ {r} : positions'[i] = positions[i])
      /\ positions' \in [Openings -> Held \cup {NoPosition}]
  BY <1>1, <1>7, <1>8 DEF EngineOK
<1>10. entry'[r] = EntryCost(n) /\ (\A i \in Openings \ {r} : entry'[i] = entry[i])
       /\ entry' \in [Openings -> Nat]
  BY <1>1, <1>6, <1>7 DEF EngineOK
<1>11. balance' \in Int /\ o.coll <= balance
  BY <1>1, <1>2, <1>3, <1>6, <1>7 DEF EngineOK
<1>12. EngineOK'
  BY <1>1, <1>7, <1>9, <1>10, <1>11 DEF EngineOK
<1> QED BY <1>3, <1>7, <1>8, <1>9, <1>10, <1>11, <1>12 DEF o

LEMMA RunOpenTyped ==
  ASSUME TypeOK, IsFiniteSet(Books), NEW r \in Openings, RunOpen(r)
  PROVE  TypeOK' /\ IsFiniteSet(Books)'
<1>1. /\ EngineOK /\ MarketOK /\ r \in Requests /\ request[r].at = "open"
      /\ \A i \in Openings : i \in Requests /\ LifeOK(i)
  BY TypeParts DEF Requests, RunOpen
<1>2. MarketOK'
  BY <1>1, MarketStays DEF RunOpen
<1>3. CASE Answer(r, "refused") /\ UNCHANGED engine
  <2>1. EngineOK' /\ Books' = Books /\ (\A i \in Openings : IsOpen(i)' = IsOpen(i)) /\ fills' = fills
    BY <1>1, <1>3, EngineStays DEF engine
  <2>2. ASSUME NEW i \in Openings PROVE LifeOK(i)'
    <3>1. i # r => request'[i] = request[i]
      BY <1>1, <1>3, AnswerTyped
    <3> QED BY <1>1, <2>1, <3>1 DEF LifeOK
  <2> QED BY <1>1, <1>2, <1>3, <2>1, <2>2, AnswerTyped, TypeAgain
<1>4. CASE /\ ~Refuses(request[r].what, request[r].px) /\ Answer(r, "done")
           /\ OpenPosition(r, request[r].what, request[r].px)
  <2>1. EngineOK' /\ fills' = fills /\ \A i \in Openings \ {r} : positions'[i] = positions[i]
    BY <1>1, <1>4, OpenTyped
  <2>2. request'[r].at = "done" /\ \A q \in Requests \ {r} : request'[q] = request[q]
    BY <1>1, <1>4, AnswerTyped
  <2>3. ASSUME NEW i \in Openings PROVE LifeOK(i)'
    BY <1>1, <2>1, <2>2 DEF LifeOK, IsOpen
  <2>4. IsFiniteSet(Books')
    <3>1. Books' \subseteq Books \cup {r}
      BY <2>1 DEF Books, IsOpen
    <3>2. IsFiniteSet(Books \cup {r})
      BY FS_AddElement
    <3> QED BY <3>1, <3>2, FS_Subset
  <2> QED BY <1>1, <1>2, <1>4, <2>1, <2>3, <2>4, AnswerTyped, TypeAgain
<1> QED BY <1>3, <1>4 DEF RunOpen

\* What a closing request finds, and what it is told when there is nothing.
LEMMA AskCloseTyped ==
  ASSUME TypeOK, NEW r \in Closings, NEW i \in Openings, AskClose(r, i)
  PROVE  /\ TypeOK' /\ Books' = Books /\ UNCHANGED engine
         /\ request[r].at = "new" /\ request'[r].at # "done"
         /\ \A q \in Requests \ {r} : request'[q] = request[q]
<1> DEFINE found == [at |-> "close", target |-> i, what |-> NoPosition,
                     px |-> IF price[positions[i].sym] > 0 THEN price[positions[i].sym]
                            ELSE positions[i].open]
           gone  == [request[r] EXCEPT !.at = "refused", !.target = i]
<1>1. /\ request \in [Requests -> Calls] /\ r \in Requests /\ r \notin Openings /\ request[r].at = "new"
      /\ UNCHANGED <<price, now, engine, risk, sample>> /\ EngineOK /\ MarketOK
  BY TypeParts, NamesAssumption DEF AskClose, Requests
<1>2. EngineOK' /\ MarketOK' /\ Books' = Books /\ (\A j \in Openings : IsOpen(j)' = IsOpen(j)) /\ fills' = fills
  <2>1. fills' = fills
    BY <1>1 DEF engine
  <2> QED BY <1>1, <2>1, EngineStays, MarketStays
<1>3. PICK c \in Calls : /\ request' = [request EXCEPT ![r] = c] /\ c.at \in {"close", "refused"}
                         /\ c.at = "close" => c.target \in Openings /\ c.px > 0
  <2>1. CASE IsOpen(i) /\ request' = [request EXCEPT ![r] = found]
    <3>1. positions[i] \in Held
      BY <1>1, <2>1 DEF EngineOK, IsOpen
    <3>2. positions[i].sym \in Sym /\ positions[i].open \in Nat \ {0}
      BY <3>1 DEF Held
    <3>3. price[positions[i].sym] \in Nat
      BY <1>1, <3>2, PricesArePositive DEF MarketOK
    <3>4. found.px \in Nat /\ found.px > 0
      BY <3>2, <3>3
    <3>5. found \in Calls /\ found.at = "close" /\ found.target = i
      BY <3>4 DEF Calls
    <3> HIDE DEF found
    <3> QED BY <2>1, <3>4, <3>5
  <2>2. CASE request' = [request EXCEPT ![r].at = "refused", ![r].target = i]
    <3>1. request[r] \in Calls
      BY <1>1
    <3>2. gone \in Calls /\ gone.at = "refused" /\ request' = [request EXCEPT ![r] = gone]
      BY <1>1, <2>2, <3>1 DEF Calls
    <3> HIDE DEF gone
    <3> QED BY <3>2
  <2> QED BY <2>1, <2>2 DEF AskClose
<1>4. /\ request' \in [Requests -> Calls] /\ request'[r] = c
      /\ \A q \in Requests \ {r} : request'[q] = request[q]
  BY <1>1, <1>3
<1>5. ASSUME NEW q \in Requests PROVE CallOK(q)'
  BY <1>3, <1>4, TypeParts DEF CallOK
<1>6. ASSUME NEW j \in Openings PROVE LifeOK(j)'
  <2>1. j \in Requests /\ request'[j] = request[j] /\ LifeOK(j)
    BY <1>1, <1>4, TypeParts DEF Requests
  <2> QED BY <1>2, <2>1 DEF LifeOK
<1>7. TypeOK'
  BY <1>2, <1>4, <1>5, <1>6, TypeAgain
<1> QED BY <1>1, <1>2, <1>3, <1>4, <1>7

\* The positions of S are closed, the others are where they were, maybe marked.
LEMMA ClosedTyped ==
  ASSUME TypeOK, IsFiniteSet(Books), NEW S \in SUBSET Books,
         NEW px \in [S -> Nat], NEW reason \in [S -> Reasons], Close(S, px, reason),
         positions' \in [Openings -> Held \cup {NoPosition}],
         \A i \in Openings : IsOpen(i)' <=> IsOpen(i) /\ i \notin S,
         \A i \in Openings : request'[i].at = request[i].at
  PROVE  EngineOK' /\ IsFiniteSet(Books)' /\ \A i \in Openings : LifeOK(i)'
<1>1. EngineOK /\ \A i \in Openings : LifeOK(i)
  BY TypeParts
<1>2. /\ balance' \in Int /\ entry' = entry /\ fills' \in [Openings -> Fill \cup {NoFill}]
      /\ \A i \in Openings \ S : fills'[i] = fills[i]
  BY <1>1, CloseTyped
<1>3. EngineOK'
  BY <1>1, <1>2 DEF EngineOK
<1>4. IsFiniteSet(Books')
  <2>1. Books' \subseteq Books
    BY DEF Books
  <2> QED BY <2>1, FS_Subset
<1>5. ASSUME NEW i \in Openings PROVE LifeOK(i)'
  BY <1>1, <1>2 DEF LifeOK, Books
<1> QED BY <1>3, <1>4, <1>5

LEMMA RunCloseTyped ==
  ASSUME TypeOK, IsFiniteSet(Books), NEW r \in Closings, RunClose(r)
  PROVE  TypeOK' /\ IsFiniteSet(Books)'
<1> DEFINE i == request[r].target
<1>1. /\ EngineOK /\ MarketOK /\ r \in Requests /\ r \notin Openings /\ request \in [Requests -> Calls]
      /\ request[r].at = "close" /\ (\A j \in Openings : j \in Requests /\ LifeOK(j)) /\ CallOK(r)
  BY TypeParts, NamesAssumption DEF Requests, RunClose
<1>2. MarketOK'
  BY <1>1, MarketStays DEF RunClose
<1>3. i \in Openings /\ request[r].px \in Nat
  BY <1>1 DEF CallOK, Calls
<1> HIDE DEF i
<1>4. CASE Answer(r, "refused") /\ UNCHANGED engine
  <2>1. EngineOK' /\ Books' = Books /\ (\A j \in Openings : IsOpen(j)' = IsOpen(j)) /\ fills' = fills
    BY <1>1, <1>4, EngineStays DEF engine
  <2>2. \A j \in Openings : request'[j] = request[j]
    BY <1>1, <1>4, AnswerTyped
  <2>3. ASSUME NEW j \in Openings PROVE LifeOK(j)'
    BY <1>1, <2>1, <2>2 DEF LifeOK
  <2> QED BY <1>1, <1>2, <1>4, <2>1, <2>3, AnswerTyped, TypeAgain
<1>5. CASE /\ IsOpen(i) /\ Answer(r, "done")
           /\ Close({i}, [j \in {i} |-> request[r].px], [j \in {i} |-> "manual"])
           /\ positions' = [positions EXCEPT ![i] = NoPosition]
  <2>1. \A j \in Openings : request'[j] = request[j]
    BY <1>1, <1>5, AnswerTyped
  <2>2. {i} \in SUBSET Books /\ [j \in {i} |-> request[r].px] \in [{i} -> Nat]
        /\ [j \in {i} |-> "manual"] \in [{i} -> Reasons]
    BY <1>3, <1>5 DEF Books, Reasons
  <2>3. /\ positions' \in [Openings -> Held \cup {NoPosition}]
        /\ \A j \in Openings : IsOpen(j)' <=> IsOpen(j) /\ j \notin {i}
    BY <1>1, <1>3, <1>5 DEF EngineOK, IsOpen
  <2>4. EngineOK' /\ IsFiniteSet(Books)' /\ \A j \in Openings : LifeOK(j)'
    BY <1>5, <2>1, <2>2, <2>3, ClosedTyped
  <2> QED BY <1>1, <1>2, <1>5, <2>4, AnswerTyped, TypeAgain
<1> QED BY <1>4, <1>5 DEF RunClose, i

LEMMA UpdateTyped ==
  ASSUME TypeOK, NEW i \in Openings, NEW s \in Stops, UpdateSl(i, s) \/ UpdateTp(i, s)
  PROVE  /\ TypeOK' /\ Books' = Books /\ UNCHANGED <<balance, fills, entry, request>>
         /\ \A j \in Openings : IsOpen(j)' = IsOpen(j)
         /\ \A j \in Books : positions'[j].coll = positions[j].coll
<1>1. EngineOK /\ MarketOK /\ IsOpen(i)
      /\ UNCHANGED <<price, now, balance, fills, entry, request, risk, sample>>
  BY TypeParts DEF UpdateSl, UpdateTp
<1>2. positions[i] \in Held
  BY <1>1 DEF EngineOK, IsOpen
<1>3. PICK p \in Held : positions' = [positions EXCEPT ![i] = p] /\ p.coll = positions[i].coll
  <2>1. CASE UpdateSl(i, s)
    <3> DEFINE p == [positions[i] EXCEPT !.sl = s]
    <3>1. p \in Held /\ p.coll = positions[i].coll
      BY <1>2 DEF Held
    <3>2. positions' = [positions EXCEPT ![i] = p]
      BY <2>1 DEF UpdateSl
    <3> QED BY <3>1, <3>2
  <2>2. CASE UpdateTp(i, s)
    <3> DEFINE p == [positions[i] EXCEPT !.tp = s]
    <3>1. p \in Held /\ p.coll = positions[i].coll
      BY <1>2 DEF Held
    <3>2. positions' = [positions EXCEPT ![i] = p]
      BY <2>2 DEF UpdateTp
    <3> QED BY <3>1, <3>2
  <2> QED BY <2>1, <2>2
<1>4. EngineOK' /\ positions'[i] = p /\ \A j \in Openings \ {i} : positions'[j] = positions[j]
  BY <1>1, <1>3 DEF EngineOK
<1>5. (\A j \in Openings : IsOpen(j)' = IsOpen(j)) /\ \A j \in Openings : positions'[j].coll = positions[j].coll
  BY <1>1, <1>3, <1>4, NothingIsNothing DEF IsOpen
<1>6. Books' = Books
  BY <1>5 DEF Books
<1>7. TypeOK'
  <2>1. MarketOK'
    BY <1>1, MarketStays
  <2>2. (\A j \in Openings : LifeOK(j)') /\ (\A r \in Requests : CallOK(r)')
    BY <1>1, <1>5, TypeParts DEF LifeOK, CallOK
  <2> QED BY <1>1, <1>4, <2>1, <2>2, TypeParts, TypeAgain
<1> QED BY <1>1, <1>5, <1>6, <1>7 DEF Books

LEMMA RiskAsksTyped ==
  ASSUME TypeOK, NEW px, RiskAsks(px)
  PROVE  TypeOK' /\ Books' = Books
<1>1. EngineOK /\ MarketOK /\ UNCHANGED <<price, now, engine, request>> /\ risk < Len(Symbols)
      /\ risk' = risk + 1
      /\ px \in {price[Symbols[risk + 1]], 0} /\ sample' = [sample EXCEPT ![Symbols[risk + 1]] = px]
  BY TypeParts DEF RiskAsks
<1>2. Len(Symbols) \in Nat /\ risk + 1 \in 1 .. Len(Symbols) /\ DOMAIN Symbols = 1 .. Len(Symbols)
  <2>1. Len(Symbols) \in Nat /\ DOMAIN Symbols = 1 .. Len(Symbols)
    BY NamesAssumption
  <2> QED BY <1>1, <2>1 DEF MarketOK
<1>3. Symbols[risk + 1] \in Sym
  BY <1>2 DEF Sym
<1>4. px \in Prices \cup {0}
  BY <1>1, <1>3 DEF MarketOK
<1>5. MarketOK'
  BY <1>1, <1>2, <1>3, <1>4 DEF MarketOK
<1>6. EngineOK' /\ Books' = Books /\ (\A i \in Openings : IsOpen(i)' = IsOpen(i)) /\ fills' = fills
  BY <1>1, EngineStays DEF engine
<1>7. (\A j \in Openings : LifeOK(j)') /\ (\A r \in Requests : CallOK(r)')
  BY <1>1, <1>6, TypeParts DEF LifeOK, CallOK
<1> QED BY <1>1, <1>5, <1>6, <1>7, TypeParts, TypeAgain

\* The positions that a round of the risk loop closes.
Due == {i \in Openings : IsOpen(i) /\ Verdict(i) # "none"}

\* A round of the loop closes what is due, for its own reasons, and marks the rest.
LEMMA RiskCloses ==
  ASSUME TypeOK, RiskChecks
  PROVE  /\ Close(Due, [i \in Due |-> Marked(i)], [i \in Due |-> Verdict(i)]) /\ Due \in SUBSET Books
         /\ [i \in Due |-> Marked(i)] \in [Due -> Nat]
         /\ [i \in Due |-> Verdict(i)] \in [Due -> Reasons \ {"manual"}]
         /\ positions' \in [Openings -> Held \cup {NoPosition}]
         /\ \A i \in Openings : IsOpen(i)' <=> IsOpen(i) /\ i \notin Due
         /\ \A i \in Books \ Due : positions'[i].coll = positions[i].coll
<1>1. EngineOK /\ MarketOK
  BY TypeParts
<1>2. /\ Close(Due, [i \in Due |-> Marked(i)], [i \in Due |-> Verdict(i)])
      /\ positions' = [i \in Openings |-> IF i \in Due THEN NoPosition
                                          ELSE IF i \in Books THEN [positions[i] EXCEPT !.last = Marked(i)]
                                          ELSE NoPosition]
  <2>1. {i \in {j \in Openings : IsOpen(j)} : Verdict(i) # "none"} = Due
    BY DEF Due
  <2> QED BY <2>1 DEF RiskChecks, Books
<1>3. Due \in SUBSET Books
  BY DEF Due, Books
<1>4. \A i \in Due : Marked(i) \in Nat /\ Verdict(i) \in Reasons \ {"manual"}
  <2> SUFFICES ASSUME NEW i \in Due PROVE Marked(i) \in Nat /\ Verdict(i) \in Reasons \ {"manual"}
    OBVIOUS
  <2>1. i \in Books /\ Verdict(i) # "none"
    BY DEF Due, Books
  <2> QED BY <1>1, <2>1, MarkedTyped
<1>5. ASSUME NEW i \in Books
      PROVE  /\ [positions[i] EXCEPT !.last = Marked(i)] \in Held
             /\ [positions[i] EXCEPT !.last = Marked(i)].coll = positions[i].coll
  <2>1. positions[i] \in Held /\ Marked(i) \in Nat \ {0}
    BY <1>1, MarkedTyped
  <2> QED BY <2>1 DEF Held
<1>6. positions' \in [Openings -> Held \cup {NoPosition}]
  BY <1>2, <1>5
<1>7. ASSUME NEW i \in Openings PROVE IsOpen(i)' <=> IsOpen(i) /\ i \notin Due
  <2>1. CASE i \in Due
    BY <1>2, <2>1 DEF IsOpen
  <2>2. CASE i \in Books /\ i \notin Due
    BY <1>2, <1>5, <2>2, NothingIsNothing DEF IsOpen, Books
  <2>3. CASE i \notin Books
    BY <1>2, <1>3, <2>3 DEF IsOpen, Books
  <2> QED BY <2>1, <2>2, <2>3
<1>8. \A i \in Books \ Due : positions'[i].coll = positions[i].coll
  BY <1>2, <1>5 DEF Books
<1> QED BY <1>2, <1>3, <1>4, <1>6, <1>7, <1>8

LEMMA RiskChecksTyped ==
  ASSUME TypeOK, IsFiniteSet(Books), RiskChecks
  PROVE  TypeOK' /\ IsFiniteSet(Books)'
<1>1. EngineOK /\ MarketOK
  BY TypeParts
<1>2. UNCHANGED <<price, now, request>> /\ risk' = 0 /\ sample' = [s \in Sym |-> 0]
  BY DEF RiskChecks
<1>3. MarketOK'
  <2>1. Len(Symbols) \in Nat
    BY NamesAssumption
  <2> QED BY <1>1, <1>2, <2>1 DEF MarketOK
<1>4. [i \in Due |-> Verdict(i)] \in [Due -> Reasons]
  BY RiskCloses
<1>5. EngineOK' /\ IsFiniteSet(Books)' /\ \A i \in Openings : LifeOK(i)'
  BY <1>2, <1>4, RiskCloses, ClosedTyped
<1>6. \A r \in Requests : CallOK(r)'
  BY <1>2, TypeParts DEF CallOK
<1> QED BY <1>2, <1>3, <1>5, <1>6, TypeParts, TypeAgain

LEMMA MarketTyped ==
  ASSUME TypeOK, \/ \E s \in Sym : \E q \in Feed[s] : Quote(s, q)
                 \/ Elapse
                 \/ UNCHANGED vars
  PROVE  TypeOK' /\ Books' = Books /\ UNCHANGED <<engine, request>>
<1>1. EngineOK /\ MarketOK /\ UNCHANGED <<engine, request>>
  BY TypeParts DEF Quote, Elapse, vars
<1>2. MarketOK'
  <2>1. ASSUME NEW s \in Sym, NEW q \in Feed[s], Quote(s, q) PROVE MarketOK'
    <3>1. q \in Prices
      BY DEF Prices
    <3> QED BY <1>1, <2>1, <3>1 DEF MarketOK, Quote
  <2>2. CASE Elapse
    BY <1>1, <2>2, RatesAreNat DEF MarketOK, Elapse
  <2>3. CASE UNCHANGED vars
    BY <1>1, <2>3 DEF MarketOK, vars
  <2> QED BY <2>1, <2>2, <2>3
<1>3. EngineOK' /\ Books' = Books /\ (\A i \in Openings : IsOpen(i)' = IsOpen(i)) /\ fills' = fills
  BY <1>1, EngineStays DEF engine
<1>4. (\A j \in Openings : LifeOK(j)') /\ (\A r \in Requests : CallOK(r)')
  BY <1>1, <1>3, TypeParts DEF LifeOK, CallOK
<1> QED BY <1>1, <1>2, <1>3, <1>4, TypeParts, TypeAgain

LEMMA InitTyped == ASSUME Init PROVE TypeOK /\ IsFiniteSet(Books)
<1>1. EngineOK /\ MarketOK
  <2>1. EngineOK
    BY RatesAreNat DEF Init, EngineOK
  <2>2. Len(Symbols) \in Nat /\ MaxNow \in Nat
    BY NamesAssumption, RatesAreNat
  <2> QED BY <2>1, <2>2 DEF Init, MarketOK
<1>2. request = [r \in Requests |-> [at |-> "new", target |-> NoPosition, what |-> NoPosition, px |-> 0]]
      /\ \A i \in Openings : ~IsOpen(i) /\ fills[i] = NoFill
  BY DEF Init, IsOpen
<1>3. request \in [Requests -> Calls]
  BY <1>2 DEF Calls
<1>4. \A r \in Requests : request[r].at = "new"
  BY <1>2
<1>5. (\A i \in Openings : LifeOK(i)) /\ \A r \in Requests : CallOK(r)
  BY <1>2, <1>4 DEF LifeOK, CallOK
<1>6. Books = {}
  BY <1>2 DEF Books
<1> QED BY <1>1, <1>3, <1>5, <1>6, TypeParts, FS_EmptySet

LEMMA NextTyped ==
  ASSUME TypeOK, IsFiniteSet(Books), [Next]_vars
  PROVE  TypeOK' /\ IsFiniteSet(Books)'
<1>1. CASE RequestStep
  BY <1>1, AskOpenTyped, RunOpenTyped, AskCloseTyped, RunCloseTyped, UpdateTyped DEF RequestStep
<1>2. CASE RiskLoop
  BY <1>2, RiskAsksTyped, RiskChecksTyped DEF RiskLoop
<1> QED BY <1>1, <1>2, MarketTyped DEF Next

\* Every variable keeps its type: the balance and the results stay amounts, a
\* position is open or in the history but never both, and a call that waits
\* for its price has one or is going to be refused, for any requests, feeds and
\* rates (paper_engine.py:111-323).
THEOREM TypeCorrect == Spec => []TypeOK
<1>1. Init => TypeOK /\ IsFiniteSet(Books)
  BY InitTyped
<1>2. TypeOK /\ IsFiniteSet(Books) /\ [Next]_vars => TypeOK' /\ IsFiniteSet(Books)'
  BY NextTyped
<1> QED BY <1>1, <1>2, PTL DEF Spec

-----------------------------------------------------------------------------
(* Who is told that it closed a position *)

Told(i) == {r \in Closings : request[r].target = i /\ request[r].at = "done"}
Manual(i) == fills[i] # NoFill /\ fills[i].reason = "manual"

\* Exactly one closing is told so of a position that was closed by hand, and
\* none of another.
ToldOnce(i) == IF Manual(i) THEN \E r \in Closings : Told(i) = {r} ELSE Told(i) = {}

AllTold == \A i \in Openings : ToldOnce(i)

LEMMA ToldOnceSuffices == AllTold => ManualClosingsAreAnswered
<1> SUFFICES ASSUME NEW i \in Openings, ToldOnce(i)
             PROVE  Cardinality(Told(i)) = IF Manual(i) THEN 1 ELSE 0
  BY DEF AllTold, ManualClosingsAreAnswered, Told, Manual
<1>1. CASE Manual(i)
  <2>1. PICK r : Told(i) = {r}
    BY <1>1 DEF ToldOnce
  <2> QED BY <1>1, <2>1, FS_Singleton
<1>2. CASE ~Manual(i)
  <2>1. Told(i) = {}
    BY <1>2 DEF ToldOnce
  <2> QED BY <1>2, <2>1, FS_EmptySet
<1> QED BY <1>1, <1>2

LEMMA ToldStays ==
  ASSUME NEW i \in Openings, ToldOnce(i), fills'[i] = fills[i], Told(i)' = Told(i)
  PROVE  ToldOnce(i)'
BY DEF ToldOnce, Manual

LEMMA NextTold ==
  ASSUME TypeOK, IsFiniteSet(Books), \A i \in Openings : ToldOnce(i), [Next]_vars
  PROVE  \A i \in Openings : ToldOnce(i)'
<1>1. EngineOK /\ request \in [Requests -> Calls]
      /\ \A r \in Closings : r \in Requests /\ r \notin Openings
  BY TypeParts, NamesAssumption DEF Requests
<1>2. ASSUME NEW r \in Requests, UNCHANGED fills, \A q \in Requests \ {r} : request'[q] = request[q],
             r \in Closings => request[r].at # "done" /\ request'[r].at # "done"
      PROVE  \A i \in Openings : ToldOnce(i)'
  <2> SUFFICES ASSUME NEW i \in Openings PROVE ToldOnce(i)'
    OBVIOUS
  <2>1. Told(i)' = Told(i)
    BY <1>1, <1>2 DEF Told
  <2> QED BY <1>2, <2>1, ToldStays
<1>3. ASSUME NEW r \in Openings, NEW o \in Orders, AskOpen(r, o) PROVE \A i \in Openings : ToldOnce(i)'
  <2>1. r \in Requests /\ UNCHANGED fills /\ \A q \in Requests \ {r} : request'[q] = request[q]
    BY <1>1, <1>3 DEF AskOpen, engine, Requests
  <2> QED BY <1>1, <1>2, <2>1
<1>4. ASSUME NEW r \in Openings, RunOpen(r) PROVE \A i \in Openings : ToldOnce(i)'
  <2>1. r \in Requests /\ UNCHANGED fills
    BY <1>4 DEF RunOpen, OpenPosition, engine, Requests
  <2>2. \A q \in Requests \ {r} : request'[q] = request[q]
    BY <1>1, <1>4, <2>1 DEF RunOpen, Answer
  <2> QED BY <1>1, <1>2, <2>1, <2>2
<1>5. ASSUME NEW r \in Closings, NEW i \in Openings, AskClose(r, i) PROVE \A j \in Openings : ToldOnce(j)'
  <2>1. /\ r \in Requests /\ UNCHANGED engine /\ request[r].at = "new" /\ request'[r].at # "done"
        /\ \A q \in Requests \ {r} : request'[q] = request[q]
    BY <1>1, <1>5, AskCloseTyped
  <2>2. UNCHANGED fills
    BY <2>1 DEF engine
  <2> QED BY <1>2, <2>1, <2>2
<1>6. ASSUME NEW r \in Closings, RunClose(r) PROVE \A j \in Openings : ToldOnce(j)'
  <2>0. PICK i \in Openings : i = request[r].target
    BY <1>1, <1>6, TypeParts DEF RunClose, CallOK
  <2>1. r \in Requests /\ request[r].at = "close" /\ request[r].px \in Nat
    BY <1>1, <1>6 DEF RunClose, Calls
  <2>2. CASE Answer(r, "refused") /\ UNCHANGED engine
    <3>1. UNCHANGED fills /\ request'[r].at = "refused" /\ \A q \in Requests \ {r} : request'[q] = request[q]
      BY <2>1, <2>2, AnswerTyped DEF engine
    <3> QED BY <1>2, <2>1, <3>1
  <2>3. CASE /\ IsOpen(i) /\ Answer(r, "done")
             /\ Close({i}, [j \in {i} |-> request[r].px], [j \in {i} |-> "manual"])
    <3>1. /\ request'[r].at = "done" /\ request'[r].target = i
          /\ \A q \in Requests \ {r} : request'[q] = request[q]
      BY <2>0, <2>1, <2>3, AnswerTyped
    <3>2. {i} \in SUBSET Books /\ [j \in {i} |-> request[r].px] \in [{i} -> Nat]
          /\ [j \in {i} |-> "manual"] \in [{i} -> Reasons]
      BY <2>1, <2>3 DEF Books, Reasons
    <3>3. Manual(i)' /\ \A j \in Openings \ {i} : fills'[j] = fills[j]
      <4>1. fills'[i] = [reason |-> "manual", net |-> Net(positions[i], request[r].px)] /\ fills'[i] # NoFill
            /\ \A j \in Openings \ {i} : fills'[j] = fills[j]
        BY <1>1, <2>3, <3>2, CloseTyped, ZenonT(30)
      <4> QED BY <4>1 DEF Manual
    <3>4. ~Manual(i) /\ Told(i) = {}
      <4>1. LifeOK(i)
        BY <2>1, TypeParts
      <4> QED BY <2>1, <2>3, <4>1 DEF LifeOK, Manual, ToldOnce
    <3>5. Told(i)' = {r}
      BY <1>1, <3>1, <3>4 DEF Told
    <3>6. ASSUME NEW j \in Openings, j # i PROVE Told(j)' = Told(j)
      BY <1>1, <2>1, <3>1, <3>6 DEF Told
    <3>7. ToldOnce(i)'
      BY <3>3, <3>5 DEF ToldOnce
    <3>8. ASSUME NEW j \in Openings, j # i PROVE ToldOnce(j)'
      BY <3>3, <3>6, <3>8, ToldStays
    <3> QED BY <3>7, <3>8
  <2> QED BY <1>6, <2>0, <2>2, <2>3 DEF RunClose
<1>7. CASE RiskChecks
  <2>1. request' = request
    BY <1>7 DEF RiskChecks
  <2> SUFFICES ASSUME NEW i \in Openings PROVE ToldOnce(i)'
    OBVIOUS
  <2>2. Told(i)' = Told(i)
    BY <2>1 DEF Told
  <2>3. /\ Close(Due, [j \in Due |-> Marked(j)], [j \in Due |-> Verdict(j)]) /\ Due \in SUBSET Books
        /\ [j \in Due |-> Marked(j)] \in [Due -> Nat]
        /\ [j \in Due |-> Verdict(j)] \in [Due -> Reasons \ {"manual"}]
    BY <1>7, RiskCloses
  <2>4. [j \in Due |-> Verdict(j)] \in [Due -> Reasons]
    BY <2>3
  <2>5. /\ \A j \in Due : fills'[j] = [reason |-> Verdict(j), net |-> Net(positions[j], Marked(j))]
        /\ \A j \in Openings \ Due : fills'[j] = fills[j]
    BY <1>1, <2>3, <2>4, CloseTyped
  <2>6. CASE i \in Due
    <3>1. ~Manual(i) /\ ~Manual(i)'
      <4>1. LifeOK(i) /\ IsOpen(i) /\ Verdict(i) # "manual"
        <5>1. [j \in Due |-> Verdict(j)][i] \in Reasons \ {"manual"}
          BY <2>3, <2>6
        <5> QED BY <2>3, <2>6, <5>1, TypeParts DEF Books
      <4>2. fills'[i] = [reason |-> Verdict(i), net |-> Net(positions[i], Marked(i))]
        BY <2>5, <2>6
      <4>3. fills'[i].reason = Verdict(i)
        BY <4>2
      <4> QED BY <4>1, <4>3 DEF LifeOK, Manual
    <3> QED BY <2>2, <3>1 DEF ToldOnce
  <2>7. CASE i \notin Due
    BY <2>2, <2>5, <2>7, ToldStays
  <2> QED BY <2>6, <2>7
<1>8. CASE UNCHANGED <<fills, request>>
  <2> SUFFICES ASSUME NEW i \in Openings PROVE ToldOnce(i)'
    OBVIOUS
  <2>1. Told(i)' = Told(i)
    BY <1>8 DEF Told
  <2> QED BY <1>8, <2>1, ToldStays
<1>9. ASSUME NEW i \in Openings, NEW s \in Stops, UpdateSl(i, s) \/ UpdateTp(i, s)
      PROVE  UNCHANGED <<fills, request>>
  BY <1>9 DEF UpdateSl, UpdateTp
<1>10. ASSUME NEW px, RiskAsks(px) PROVE UNCHANGED <<fills, request>>
  BY <1>10 DEF RiskAsks, engine
<1>11. ASSUME \/ \E s \in Sym : \E q \in Feed[s] : Quote(s, q)
              \/ Elapse
              \/ UNCHANGED vars
       PROVE  UNCHANGED <<fills, request>>
  BY <1>11, MarketTyped DEF engine
<1>12. CASE RequestStep
  BY <1>3, <1>4, <1>5, <1>6, <1>8, <1>9, <1>12 DEF RequestStep
<1>13. CASE RiskLoop
  BY <1>7, <1>8, <1>10, <1>13 DEF RiskLoop
<1> QED BY <1>8, <1>11, <1>12, <1>13 DEF Next

\* A client is told "closed" if and only if it was its request that closed the
\* position: the answer to a closing and the reason in the history agree
\* whatever the risk loop does between the look-up and the closing
\* (paper_venue_adapter.py:141-155).
THEOREM ClosingsAreAnswered == Spec => []ManualClosingsAreAnswered
<1>1. Init => AllTold
  <2> SUFFICES ASSUME Init, NEW i \in Openings PROVE ToldOnce(i)
    BY DEF AllTold
  <2>1. ~Manual(i) /\ \A r \in Requests : request[r].at = "new"
    BY DEF Init, Manual
  <2>2. Told(i) = {}
    BY <2>1 DEF Told, Requests
  <2> QED BY <2>1, <2>2 DEF ToldOnce
<1>2. TypeOK /\ IsFiniteSet(Books) /\ AllTold /\ [Next]_vars => AllTold'
  BY NextTold DEF AllTold
<1>3. Init => TypeOK /\ IsFiniteSet(Books)
  BY InitTyped
<1>4. TypeOK /\ IsFiniteSet(Books) /\ [Next]_vars => TypeOK' /\ IsFiniteSet(Books)'
  BY NextTyped
<1> QED BY <1>1, <1>2, <1>3, <1>4, ToldOnceSuffices, PTL DEF Spec

-----------------------------------------------------------------------------
(* The account *)

\* A sum is the same sum in the module of the account.
LEMMA SameSum ==
  ASSUME NEW f
  PROVE  Account!SumFunction(f) = SumFunction(f)
BY DEF SumFunction, SumFunctionOnSet, FoldFunctionOnSet, MapThenFoldSet,
       Account!SumFunction, Account!SumFunctionOnSet, Account!FoldFunctionOnSet, Account!MapThenFoldSet

\* What the account sees of the engine.
LifeOf == [i \in Openings |-> IF IsOpen(i) THEN "open" ELSE IF fills[i] # NoFill THEN "settled" ELSE "new"]
StakeOf == [i \in Openings |-> IF IsOpen(i) THEN positions[i].coll ELSE 0]
ResultOf == [i \in Openings |-> IF fills[i] # NoFill THEN fills[i].net ELSE 0]

LEMMA AccountStarts == Init => Account!Init
BY DEF Init, Account!Init, Account!Zero, IsOpen

LEMMA AccountStutters ==
  ASSUME UNCHANGED <<balance, fills, entry>>, \A i \in Openings : IsOpen(i)' = IsOpen(i),
         \A i \in Books : positions'[i].coll = positions[i].coll
  PROVE  UNCHANGED Account!accountVars
<1>1. UNCHANGED <<LifeOf, StakeOf, ResultOf>>
  BY DEF LifeOf, StakeOf, ResultOf, Books
<1> QED BY <1>1 DEF Account!accountVars, LifeOf, StakeOf, ResultOf

\* An opening is paid for, once.
LEMMA AccountOpens ==
  ASSUME TypeOK, NEW r \in Openings, request[r].at = "open", ~Refuses(request[r].what, request[r].px),
         OpenPosition(r, request[r].what, request[r].px)
  PROVE  Account!Open(r)
<1>1. EngineOK /\ LifeOK(r)
  BY TypeParts
<1>2. /\ positions'[r] \in Held /\ (\A i \in Openings \ {r} : positions'[i] = positions[i])
      /\ fills' = fills /\ balance' = balance - positions'[r].coll - entry'[r]
      /\ positions'[r].coll <= balance /\ \A i \in Openings \ {r} : entry'[i] = entry[i]
  BY OpenTyped
<1>3. ~IsOpen(r) /\ fills[r] = NoFill /\ IsOpen(r)' /\ \A i \in Openings \ {r} : IsOpen(i)' = IsOpen(i)
  BY <1>1, <1>2, NothingIsNothing DEF LifeOK, IsOpen
<1>4. LifeOf[r] = "new" /\ LifeOf' = [LifeOf EXCEPT ![r] = "open"]
  BY <1>2, <1>3 DEF LifeOf
<1>5. StakeOf'[r] = positions'[r].coll /\ \A i \in Openings \ {r} : StakeOf'[i] = StakeOf[i]
  BY <1>2, <1>3 DEF StakeOf
<1>6. ResultOf' = ResultOf
  BY <1>2 DEF ResultOf
<1> QED BY <1>2, <1>4, <1>5, <1>6 DEF Account!Open, Account!SameBut, LifeOf, StakeOf, ResultOf

\* What is closed is settled once, and the cash moves by its collateral and the
\* result that the history records.
LEMMA AccountSettles ==
  ASSUME TypeOK, IsFiniteSet(Books), NEW S \in SUBSET Books, S # {},
         NEW px \in [S -> Nat], NEW reason \in [S -> Reasons], Close(S, px, reason),
         \A i \in Openings : IsOpen(i)' <=> IsOpen(i) /\ i \notin S,
         \A i \in Books \ S : positions'[i].coll = positions[i].coll
  PROVE  Account!Settle(S)
<1>1. EngineOK /\ \A i \in Openings : LifeOK(i)
  BY TypeParts
<1>2. /\ entry' = entry
      /\ \A i \in S : fills'[i] = [reason |-> reason[i], net |-> Net(positions[i], px[i])]
                      /\ fills'[i] # NoFill
      /\ \A i \in Openings \ S : fills'[i] = fills[i]
  BY <1>1, CloseTyped
<1>3. \A i \in S : i \in Openings /\ IsOpen(i)
  BY DEF Books
<1>4. \A i \in S : LifeOf[i] = "open"
  BY <1>3 DEF LifeOf
<1>5. LifeOf' = [i \in Openings |-> IF i \in S THEN "settled" ELSE LifeOf[i]]
  <2> SUFFICES ASSUME NEW i \in Openings PROVE LifeOf'[i] = IF i \in S THEN "settled" ELSE LifeOf[i]
    BY DEF LifeOf
  <2>1. CASE i \in S
    BY <1>2, <2>1 DEF LifeOf
  <2>2. CASE i \notin S
    BY <1>2, <2>2 DEF LifeOf
  <2> QED BY <2>1, <2>2
<1>6. StakeOf' = [i \in Openings |-> IF i \in S THEN 0 ELSE StakeOf[i]]
  <2> SUFFICES ASSUME NEW i \in Openings PROVE StakeOf'[i] = IF i \in S THEN 0 ELSE StakeOf[i]
    BY DEF StakeOf
  <2>1. CASE i \in S
    BY <2>1 DEF StakeOf
  <2>2. CASE i \notin S
    BY <2>2 DEF StakeOf, Books
  <2> QED BY <2>1, <2>2
<1>7. \A i \in Openings \ S : ResultOf'[i] = ResultOf[i]
  BY <1>2 DEF ResultOf
<1>8. balance' = balance + Account!SumFunction([i \in S |-> StakeOf[i] + ResultOf'[i]])
  <2>1. \A i \in S : StakeOf[i] + ResultOf'[i] = positions[i].coll + Net(positions[i], px[i])
    <3> SUFFICES ASSUME NEW i \in S
                 PROVE  StakeOf[i] + ResultOf'[i] = positions[i].coll + Net(positions[i], px[i])
      OBVIOUS
    <3>1. StakeOf[i] = positions[i].coll
      BY <1>3 DEF StakeOf
    <3>2. fills'[i].net = Net(positions[i], px[i]) /\ fills'[i] # NoFill
      <4>1. fills'[i] = [reason |-> reason[i], net |-> Net(positions[i], px[i])] /\ fills'[i] # NoFill
        BY <1>2
      <4> QED BY <4>1
    <3>3. ResultOf'[i] = Net(positions[i], px[i])
      BY <1>3, <3>2 DEF ResultOf
    <3> QED BY <3>1, <3>3
  <2>2. [i \in S |-> StakeOf[i] + ResultOf'[i]] = [i \in S |-> positions[i].coll + Net(positions[i], px[i])]
    BY <2>1
  <2> QED BY <2>2, SameSum DEF Close
<1> QED BY <1>2, <1>4, <1>5, <1>6, <1>7, <1>8 DEF Account!Settle, Account!SameBut, LifeOf, StakeOf, ResultOf

LEMMA AccountSteps ==
  ASSUME TypeOK, IsFiniteSet(Books), [Next]_vars
  PROVE  [Account!Next]_(Account!accountVars)
<1>1. ASSUME UNCHANGED engine PROVE UNCHANGED Account!accountVars
  <2>1. UNCHANGED <<balance, fills, entry, positions>>
    BY <1>1 DEF engine
  <2> QED BY <2>1, AccountStutters DEF IsOpen
<1>2. ASSUME NEW r \in Openings, RunOpen(r) PROVE [Account!Next]_(Account!accountVars)
  BY <1>1, <1>2, AccountOpens DEF RunOpen, Account!Next
<1>3. ASSUME NEW r \in Closings, RunClose(r) PROVE [Account!Next]_(Account!accountVars)
  <2>1. PICK i \in Openings : i = request[r].target
    <3>1. r \in Requests /\ request[r].at = "close"
      BY <1>3 DEF RunClose, Requests
    <3> QED BY <3>1, TypeParts DEF CallOK
  <2>2. request[r].px \in Nat
    <3>1. request[r] \in Calls
      BY TypeParts DEF Requests
    <3> QED BY <3>1 DEF Calls
  <2>3. CASE /\ IsOpen(i)
             /\ Close({i}, [j \in {i} |-> request[r].px], [j \in {i} |-> "manual"])
             /\ positions' = [positions EXCEPT ![i] = NoPosition]
    <3>1. {i} \in SUBSET Books /\ [j \in {i} |-> request[r].px] \in [{i} -> Nat]
          /\ [j \in {i} |-> "manual"] \in [{i} -> Reasons]
      BY <2>2, <2>3 DEF Books, Reasons
    <3>2. positions \in [Openings -> Held \cup {NoPosition}]
      BY TypeParts DEF EngineOK
    <3>3. /\ \A j \in Openings : IsOpen(j)' <=> IsOpen(j) /\ j \notin {i}
          /\ \A j \in Books \ {i} : positions'[j].coll = positions[j].coll
      BY <2>3, <3>2 DEF IsOpen, Books
    <3>4. Account!Settle({i})
      BY <2>3, <3>1, <3>3, AccountSettles
    <3> QED BY <3>4 DEF Account!Next
  <2> QED BY <1>1, <1>3, <2>1, <2>3 DEF RunClose
<1>4. CASE RiskChecks
  <2>1. [i \in Due |-> Verdict(i)] \in [Due -> Reasons]
    BY <1>4, RiskCloses
  <2>2. CASE Due # {}
    <3>0. PICK S, px, reason :
            S = Due /\ px = [i \in Due |-> Marked(i)] /\ reason = [i \in Due |-> Verdict(i)]
      OBVIOUS
    <3>1. S \in SUBSET Books /\ px \in [S -> Nat] /\ reason \in [S -> Reasons] /\ Close(S, px, reason)
      BY <1>4, <2>1, <3>0, RiskCloses
    <3>2. /\ \A i \in Openings : IsOpen(i)' <=> IsOpen(i) /\ i \notin S
          /\ \A i \in Books \ S : positions'[i].coll = positions[i].coll
      BY <1>4, <3>0, RiskCloses
    <3>3. Account!Settle(S)
      BY <2>2, <3>0, <3>1, <3>2, AccountSettles
    <3>4. S \in SUBSET Openings
      BY <3>1 DEF Books
    <3> QED BY <3>3, <3>4 DEF Account!Next
  <2>3. CASE Due = {}
    <3>1. EngineOK /\ Close(Due, [i \in Due |-> Marked(i)], [i \in Due |-> Verdict(i)])
      BY <1>4, RiskCloses, TypeParts
    <3>2. UNCHANGED <<fills, entry>>
      BY <2>3, <3>1 DEF Close, EngineOK
    <3>3. balance' = balance
      <4> DEFINE f == [i \in Due |-> positions[i].coll + Net(positions[i], [j \in Due |-> Marked(j)][i])]
      <4>1. balance' = balance + SumFunction(f) /\ DOMAIN f = {}
        BY <2>3, <3>1 DEF Close
      <4> HIDE DEF f
      <4> QED BY <3>1, <4>1, SumOfNothing DEF EngineOK
    <3>4. (\A i \in Openings : IsOpen(i)' = IsOpen(i)) /\ \A i \in Books : positions'[i].coll = positions[i].coll
      <4>1. \A i \in Openings : IsOpen(i)' <=> IsOpen(i)
        BY <1>4, <2>3, RiskCloses
      <4>2. ASSUME NEW i \in Openings PROVE IsOpen(i)' = IsOpen(i)
        BY <4>1, Zenon DEF IsOpen
      <4> QED BY <1>4, <2>3, <4>2, RiskCloses
    <3> QED BY <3>2, <3>3, <3>4, AccountStutters
  <2> QED BY <2>2, <2>3
<1>5. ASSUME NEW i \in Openings, NEW s \in Stops, UpdateSl(i, s) \/ UpdateTp(i, s)
      PROVE  UNCHANGED Account!accountVars
  BY <1>5, UpdateTyped, AccountStutters
<1>6. ASSUME NEW r \in Openings, NEW o \in Orders, AskOpen(r, o) PROVE UNCHANGED engine
  BY <1>6 DEF AskOpen
<1>7. ASSUME NEW r \in Closings, NEW i \in Openings, AskClose(r, i) PROVE UNCHANGED engine
  BY <1>7 DEF AskClose
<1>8. ASSUME NEW px, RiskAsks(px) PROVE UNCHANGED engine
  BY <1>8 DEF RiskAsks
<1>9. ASSUME \/ \E s \in Sym : \E q \in Feed[s] : Quote(s, q)
             \/ Elapse
             \/ UNCHANGED vars
      PROVE  UNCHANGED engine
  BY <1>9, MarketTyped
<1>10. CASE RequestStep
  BY <1>1, <1>2, <1>3, <1>5, <1>6, <1>7, <1>10 DEF RequestStep
<1>11. CASE RiskLoop
  BY <1>1, <1>4, <1>8, <1>11 DEF RiskLoop
<1> QED BY <1>1, <1>9, <1>10, <1>11 DEF Next

\* The engine implements a paper account, for any requests, feeds and rates:
\* whatever the requests and the risk loop found before their prices arrived, a
\* position is settled once, by one of them, and the cash moves by its
\* collateral and by the result that the history records
\* (paper_engine.py:120-138, 225-273).
THEOREM AccountIsKept == Spec => AccountKept
<1>1. Init => TypeOK /\ IsFiniteSet(Books)
  BY InitTyped
<1>2. TypeOK /\ IsFiniteSet(Books) /\ [Next]_vars => TypeOK' /\ IsFiniteSet(Books)'
  BY NextTyped
<1>3. Init => Account!Init
  BY AccountStarts
<1>4. TypeOK /\ IsFiniteSet(Books) /\ [Next]_vars => [Account!Next]_(Account!accountVars)
  BY AccountSteps
<1> QED BY <1>1, <1>2, <1>3, <1>4, PTL DEF Spec, AccountKept, Account!Spec

=============================================================================
