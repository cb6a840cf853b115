----------------------------- MODULE Rebalance -----------------------------
(***************************************************************************)
(* _rebalance_holdings: how both research ledgers move from the shares     *)
(* they hold to target weights at given prices.  Sales come first; the     *)
(* purchases and their costs are paid out of the cash and the proceeds,    *)
(* and are scaled down together when those do not suffice.                 *)
(*                                                                         *)
(* shares, prices and targets are functions on the same symbols; a price   *)
(* of 0 is a missing, infinite or non-positive one; rate is the percentage *)
(* of a notional that fee and slippage take.  The code's shares are        *)
(* fractions: here a share is a small lot and an order is rounded down to  *)
(* whole lots, and the money unit is small enough for the costs of a lot   *)
(* to be whole.                                                            *)
(***************************************************************************)
EXTENDS Amounts

Held(shares) == {s \in DOMAIN shares : shares[s] > 0}

Worth(shares, prices) == SumOf([s \in Held(shares) |-> shares[s] * prices[s]])

CostOf(notional, rate) == (notional * rate) \div 100

(* mutant of Needed: every symbol of the ledger is priced, held or not *)
NeededAll(shares, targets) == DOMAIN shares

Needed(shares, targets) == Held(shares) \cup Held(targets)

RebalanceRaises(shares, prices, targets) == \E s \in Needed(shares, targets) : prices[s] = 0

(* Target and actual lots, in terms of the equity before any cost. *)
TargetLots(shares, cash, prices, targets) ==
    LET equity == cash + Worth(shares, prices)
    IN  [s \in Needed(shares, targets) |-> (targets[s] * equity) \div (Full * prices[s])]

(* mutant of Sold: only symbols that are still targeted are sold down *)
SoldTargeted(shares, cash, prices, targets) ==
    LET lots == TargetLots(shares, cash, prices, targets)
    IN  [s \in DOMAIN lots |-> IF targets[s] = 0 THEN 0 ELSE Most(0, shares[s] - lots[s])]

Sold(shares, cash, prices, targets) ==
    LET lots == TargetLots(shares, cash, prices, targets)
    IN  [s \in DOMAIN lots |-> Most(0, shares[s] - lots[s])]

Wanted(shares, cash, prices, targets) ==
    LET lots == TargetLots(shares, cash, prices, targets)
    IN  [s \in DOMAIN lots |-> Most(0, lots[s] - shares[s])]

Proceeds(shares, cash, prices, targets, rate) ==
    LET sale == Worth(Sold(shares, cash, prices, targets), prices)
    IN  sale - CostOf(sale, rate)

(* mutant of Bought: the purchases are scaled, but not for their own costs *)
BoughtFeeless(shares, cash, prices, targets, rate) ==
    LET wanted == Wanted(shares, cash, prices, targets)
        desired == Worth(wanted, prices)
        available == cash + Proceeds(shares, cash, prices, targets, rate)
    IN  IF desired = 0 THEN wanted
        ELSE [s \in DOMAIN wanted |-> (wanted[s] * available) \div Most(available, desired)]

Bought(shares, cash, prices, targets, rate) ==
    LET wanted == Wanted(shares, cash, prices, targets)
        desired == Worth(wanted, prices)
        available == cash + Proceeds(shares, cash, prices, targets, rate)
        asked == desired + CostOf(desired, rate)
    IN  IF desired = 0 THEN wanted
        ELSE [s \in DOMAIN wanted |-> (wanted[s] * available) \div Most(available, asked)]

Rebalanced(shares, cash, prices, targets, rate) ==
    LET sold == Sold(shares, cash, prices, targets)
        bought == Bought(shares, cash, prices, targets, rate)
        sale == Worth(sold, prices)
        purchase == Worth(bought, prices)
        available == cash + Proceeds(shares, cash, prices, targets, rate)
    IN  [shares |-> [s \in DOMAIN shares |->
                        IF s \in DOMAIN sold THEN shares[s] - sold[s] + bought[s] ELSE 0],
         cash |-> Most(0, available - purchase - CostOf(purchase, rate)),
         costs |-> CostOf(sale, rate) + CostOf(purchase, rate),
         traded |-> sale + purchase]

=============================================================================
