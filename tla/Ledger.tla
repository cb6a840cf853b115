------------------------------- MODULE Ledger -------------------------------
(***************************************************************************)
(* What both research simulations promise of their cash and share ledger:  *)
(* nothing but a trade changes it, a trade is filled at the quotes of the  *)
(* moment, neither cash nor shares are ever borrowed, and a trade takes    *)
(* from the wealth at those quotes exactly its costs, a fixed percentage   *)
(* of what was traded.                                                     *)
(***************************************************************************)
EXTENDS Amounts

CONSTANTS
    Assets,
    StartingCash   \* cash a ledger may start with

VARIABLES
    cash,
    shares,   \* lots of each asset
    quotes,   \* what a lot costs now; 0: there is no quote
    rate      \* percentage of a traded notional that costs take; never changes

Wealth(c, held) == c + SumOf([s \in Assets |-> held[s] * quotes[s]])

Costs ==
    (rate * SumOf([s \in Assets |->
        quotes[s] * Most(shares'[s] - shares[s], shares[s] - shares'[s])])) \div 100

Init ==
    /\ cash \in StartingCash
    /\ shares = [s \in Assets |-> 0]

Trade ==
    /\ cash' \in Nat
    /\ shares' \in [Assets -> Nat]
    /\ \A s \in Assets : shares'[s] # shares[s] => quotes[s] > 0
    /\ Wealth(cash', shares') + Costs = Wealth(cash, shares)

Spec == Init /\ [][Trade]_<<cash, shares>>

=============================================================================
