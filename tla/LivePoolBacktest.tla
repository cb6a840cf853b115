-------------------------- MODULE LivePoolBacktest --------------------------
(***************************************************************************)
(* run_live_pool_rotation_backtest: an equal-weight rotation of the best   *)
(* scores of a panel on a cash and share ledger.  A score of one row is    *)
(* traded at the open of a row `lag' later, every `every' rows, and every  *)
(* row is marked at the open of the next.  The runner cuts the panel to a  *)
(* window of dates first (CryptoLivePoolBacktestRunner.run).               *)
(*                                                                         *)
(* Rows are numbered from 0 within the window.  An open of 0 is missing,   *)
(* infinite or not positive; a score of 0 is missing.                      *)
(***************************************************************************)
EXTENDS Rebalance, Sequences

CONSTANTS
    Symbols,
    Panels,        \* one panel: a sequence of rows, one per calendar day
    Windows,       \* pairs of dates the runner may be asked for
    Options,       \* topN, every, lag, rate
    InitialCash    \* 1.0 in the code, here in units fine enough for the lots

RowType == [Symbols -> [open : Nat, member : BOOLEAN, score : Nat]]

ASSUME BacktestAssumption ==
    /\ IsFiniteSet(Symbols)
    /\ Panels \subseteq Seq(RowType)
    /\ \A p \in Panels : \A i \in DOMAIN p : \A s \in Symbols : p[i][s].open % 100 = 0
    /\ Windows \subseteq (Nat \ {0}) \X Nat
    /\ Options \subseteq [topN : Nat \ {0}, every : Nat \ {0}, lag : Nat, rate : 0..99]
    /\ InitialCash \in Nat \ {0}

VARIABLES
    panel,     \* the whole panel; the first three never change
    window,    \* start_date and end_date, as positions in the panel
    option,
    idx,       \* effective_idx
    phase,     \* "run", "done" or "failed"
    cash,
    shares,
    equity,    \* the wealth the next return is measured on
    returns    \* pairs of two wealths, after and before

args == <<panel, window, option>>

vars == <<args, idx, phase, cash, shares, equity, returns>>

-----------------------------------------------------------------------------
(* _slice_panel *)

First == window[1]

Last == IF window[2] <= Len(panel) THEN window[2] ELSE Len(panel)

Rows == Most(0, Last - First + 1)

Row(p, i) == p[First + i]

Opens(p, i) == [s \in Symbols |-> Row(p, i)[s].open]

-----------------------------------------------------------------------------
(* One row of the loop *)

(* mutant of SignalIdx: the score of the row it is traded in *)
SignalIdxNow(i) == i

SignalIdx(i) == i - option.lag

Rebalances(i) == SignalIdx(i) % option.every = 0

(* The best topN members; the sort does not say which of two equal scores  *)
(* comes first.                                                            *)
Rankings(p, i) ==
    LET row == Row(p, SignalIdx(i))
        members == {s \in Symbols : row[s].member}
    IN  {S \in SUBSET members :
            /\ Cardinality(S) = Least(option.topN, Cardinality(members))
            /\ \A s \in S, t \in members \ S : row[s].score >= row[t].score}

EqualWeights(S) == [s \in Symbols |-> IF s \in S THEN Full \div Cardinality(S) ELSE 0]

(* What the ledger may be after the trade of row i. *)
Traded(p, i) ==
    IF Rebalances(i)
      THEN {Rebalanced(shares, cash, Opens(p, i), EqualWeights(S), option.rate) :
              S \in {R \in Rankings(p, i) :
                       ~RebalanceRaises(shares, Opens(p, i), EqualWeights(R))}}
      ELSE {[shares |-> shares, cash |-> cash, costs |-> 0, traded |-> 0]}

TradeRaises ==
    /\ Rebalances(idx)
    /\ \E S \in Rankings(panel, idx) :
        RebalanceRaises(shares, Opens(panel, idx), EqualWeights(S))

(* mutant of MarkPrices: the mark uses the opens the trade was filled at *)
MarkPricesStale == Opens(panel, idx)

MarkPrices == Opens(panel, idx + 1)

MarkRaises(ledger) ==
    \/ \E s \in Held(ledger.shares) : MarkPrices[s] = 0
    \/ equity <= 0 \/ ledger.cash + Worth(ledger.shares, MarkPrices) <= 0

Raise ==
    /\ phase' = "failed"
    /\ UNCHANGED <<args, idx, cash, shares, equity, returns>>

Day ==
    /\ phase = "run" /\ idx < Rows - 1
    /\ \/ TradeRaises /\ Raise
       \/ \E ledger \in Traded(panel, idx) :
            IF MarkRaises(ledger) THEN Raise
            ELSE LET marked == ledger.cash + Worth(ledger.shares, MarkPrices)
                 IN  /\ cash' = ledger.cash
                     /\ shares' = ledger.shares
                     /\ equity' = marked
                     /\ returns' = Append(returns, <<marked, equity>>)
                     /\ idx' = idx + 1
                     /\ UNCHANGED <<args, phase>>

Finish ==
    /\ phase = "run" /\ idx >= Rows - 1
    /\ phase' = "done"
    /\ UNCHANGED <<args, idx, cash, shares, equity, returns>>

-----------------------------------------------------------------------------
(* The runner refuses a window without a row; without any member there is  *)
(* nothing to run.                                                         *)
Init ==
    /\ panel \in Panels
    /\ window \in Windows
    /\ option \in Options
    /\ idx = option.lag
    /\ phase = IF Rows = 0 THEN "failed"
               ELSE IF \E i \in 0..Rows - 1, s \in Symbols : Row(panel, i)[s].member THEN "run"
               ELSE "done"
    /\ cash = InitialCash
    /\ shares = [s \in Symbols |-> 0]
    /\ equity = InitialCash
    /\ returns = <<>>

Next == Day \/ Finish

Spec == Init /\ [][Next]_vars

-----------------------------------------------------------------------------
(* Properties *)

(* The wealth a return is measured on is the ledger at the very opens the  *)
(* next trade is filled at, so that returns chain and the costs of a trade *)
(* fall into the return of its own row.                                    *)
EquityIsLedger ==
    phase = "run" /\ idx < Rows => equity = cash + Worth(shares, Opens(panel, idx))

(* A trade is a function of the past: of scores and members up to the row  *)
(* of the signal, and of opens up to the row of the trade.  Whatever comes *)
(* after them, the same trades are possible.                               *)
TradesOnPastOnly ==
    [][idx' # idx =>
        \A p \in Panels :
            /\ Len(p) = Len(panel)
            /\ \A i \in 0..idx : Opens(p, i) = Opens(panel, i)
            /\ \A i \in 0..idx - option.lag : Row(p, i) = Row(panel, i)
            => \E ledger \in Traded(p, idx) : ledger.shares = shares' /\ ledger.cash = cash']_vars

(* A gap in the opens ends the backtest only when the ledger is exposed to *)
(* it: a symbol held, or one the signal selects, has no open in this row   *)
(* or in the next.                                                         *)
GapsOfOthersHarmless ==
    [][phase' = "failed" =>
        \E s \in Symbols :
            /\ s \in Held(shares) \cup (IF Rebalances(idx) THEN UNION Rankings(panel, idx) ELSE {})
            /\ 0 \in {Opens(panel, idx)[s], Opens(panel, idx + 1)[s]}]_vars

(* The backtest implements the ledger: every trade, at the opens of its    *)
(* row, takes its costs and nothing else from the wealth, nothing is ever  *)
(* borrowed, and marking changes nothing.                                  *)
L == INSTANCE Ledger WITH
        Assets <- Symbols, StartingCash <- {InitialCash}, rate <- option.rate,
        quotes <- IF phase = "run" /\ idx < Rows THEN Opens(panel, idx) ELSE [s \in Symbols |-> 0]

LedgerSpec == L!Spec

=============================================================================
