---- MODULE PaperAccount ----
(***************************************************************************)
(* What a paper account promises, without prices, stops or tasks: a        *)
(* position is opened once, paid for from the cash, and settled once, by   *)
(* exactly one of those that may close it; money is neither made nor lost  *)
(* on the way.                                                             *)
(***************************************************************************)
EXTENDS Integers, Functions

CONSTANTS Ids, Initial

VARIABLES
  cash,    \* the balance
  life,    \* position -> "new", "open" or "settled"
  stake,   \* position -> collateral it holds
  fee,     \* position -> what was paid to open it
  result   \* position -> net profit or loss it was settled with

accountVars == <<cash, life, stake, fee, result>>

Zero == [i \in Ids |-> 0]
SameBut(f, S) == \A i \in Ids \ S : f'[i] = f[i]

Init ==
  /\ cash = Initial
  /\ life = [i \in Ids |-> "new"]
  /\ stake = Zero /\ fee = Zero /\ result = Zero

Open(i) ==
  /\ life[i] = "new"
  /\ life' = [life EXCEPT ![i] = "open"]
  /\ stake'[i] <= cash
  /\ cash' = cash - stake'[i] - fee'[i]
  /\ SameBut(stake, {i}) /\ SameBut(fee, {i})
  /\ UNCHANGED result

\* One round of the risk loop may settle several positions.
Settle(S) ==
  /\ S # {} /\ \A i \in S : life[i] = "open"
  /\ life' = [i \in Ids |-> IF i \in S THEN "settled" ELSE life[i]]
  /\ stake' = [i \in Ids |-> IF i \in S THEN 0 ELSE stake[i]]
  /\ SameBut(result, S)
  /\ cash' = cash + SumFunction([i \in S |-> stake[i] + result'[i]])
  /\ UNCHANGED fee

Next == (\E i \in Ids : Open(i)) \/ (\E S \in SUBSET Ids : Settle(S))

Spec == Init /\ [][Next]_accountVars
====
