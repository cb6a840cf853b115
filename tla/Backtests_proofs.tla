--------------------------- MODULE Backtests_proofs ---------------------------
(***************************************************************************)
(* Proofs about the two simulators of the research runs.                   *)
(*                                                                         *)
(* LivePoolBacktest, for any panel, window and option: the trade of a row  *)
(* is a function of the rows before it, the wealth a return is measured on *)
(* is the ledger at the opens of the next trade, gaps it is not exposed to *)
(* are harmless, and the backtest implements the ledger.                   *)
(*                                                                         *)
(* ComboBacktest, for any history, contribution, weights and window: a day *)
(* adds exactly its contribution to what is held, and a reported window is *)
(* a part of the one simulation.                                           *)
(***************************************************************************)
EXTENDS LivePoolBacktest, ComboBacktest, Rebalance_proofs, SequenceTheorems

USE BacktestAssumption

-----------------------------------------------------------------------------
(* The position in the panel *)

(* A row is traded only after the row of its signal. *)
PositionInv ==
    /\ option \in Options
    /\ idx \in Nat
    /\ option.lag <= idx

LEMMA PositionInit == Init => PositionInv
BY DEF Init, PositionInv

LEMMA PositionStep == PositionInv /\ [Next]_vars => PositionInv'
<1> SUFFICES ASSUME PositionInv, [Next]_vars PROVE PositionInv'
  OBVIOUS
<1>1. option' = option /\ (idx' = idx \/ idx' = idx + 1)
  BY DEF Next, Day, Finish, Raise, vars, args
<1> QED BY <1>1 DEF PositionInv

LEMMA Position == Spec => []PositionInv
BY PositionInit, PositionStep, PTL DEF Spec

-----------------------------------------------------------------------------
(* The trade *)

(* Two panels that agree up to a row allow the same trades in it. *)
LEMMA TradeOfPast ==
    ASSUME PositionInv, NEW p,
           \A i \in 0..idx : Opens(p, i) = Opens(panel, i),
           \A i \in 0..idx - option.lag : Row(p, i) = Row(panel, i)
    PROVE  Traded(p, idx) = Traded(panel, idx)
<1>1. Opens(p, idx) = Opens(panel, idx)
  BY DEF PositionInv
<1>2. SignalIdx(idx) \in 0..idx - option.lag
  BY DEF PositionInv, SignalIdx
<1>3. Row(p, SignalIdx(idx)) = Row(panel, SignalIdx(idx))
  BY <1>2
<1>4. Rankings(p, idx) = Rankings(panel, idx)
  BY <1>3 DEF Rankings
<1> QED BY <1>1, <1>4, Zenon DEF Traded

LEMMA TradesOnPast ==
    ASSUME PositionInv, [Next]_vars, idx' # idx, NEW p,
           \A i \in 0..idx : Opens(p, i) = Opens(panel, i),
           \A i \in 0..idx - option.lag : Row(p, i) = Row(panel, i)
    PROVE  \E ledger \in Traded(p, idx) : ledger.shares = shares' /\ ledger.cash = cash'
<1>1. Day
  BY DEF Next, Finish, vars
<1>2. \E ledger \in Traded(panel, idx) : ledger.shares = shares' /\ ledger.cash = cash'
  BY <1>1 DEF Day, Raise
<1> QED BY <1>2, TradeOfPast

(* No trade looks ahead: whatever follows the open it is filled at, and    *)
(* whatever the scores after its signal are, the same trade is possible.   *)
THEOREM NoFutureTrades == Spec => TradesOnPastOnly
<1>1. PositionInv /\ [Next]_vars =>
        [idx' # idx =>
          \A p \in Panels :
            /\ Len(p) = Len(panel)
            /\ \A i \in 0..idx : Opens(p, i) = Opens(panel, i)
            /\ \A i \in 0..idx - option.lag : Row(p, i) = Row(panel, i)
            => \E ledger \in Traded(p, idx) : ledger.shares = shares' /\ ledger.cash = cash']_vars
  BY TradesOnPast
<1> QED BY <1>1, Position, PTL DEF Spec, TradesOnPastOnly

-----------------------------------------------------------------------------
(* The mark *)

LEMMA MarkInit == Init => EquityIsLedger
<1> SUFFICES ASSUME Init PROVE EquityIsLedger
  OBVIOUS
<1>1. Worth(shares, Opens(panel, idx)) = 0
  <2>1. \A s \in DOMAIN shares : shares[s] = 0
    BY DEF Init
  <2> QED BY <2>1, NothingHeld
<1> QED BY <1>1 DEF Init, EquityIsLedger

LEMMA MarkStep == EquityIsLedger /\ [Next]_vars => EquityIsLedger'
<1> SUFFICES ASSUME EquityIsLedger, [Next]_vars PROVE EquityIsLedger'
  OBVIOUS
<1>1. CASE phase' = phase /\ idx' = idx + 1
  <2>1. PICK ledger \in Traded(panel, idx) :
          /\ cash' = ledger.cash /\ shares' = ledger.shares
          /\ equity' = ledger.cash + Worth(ledger.shares, MarkPrices)
    BY <1>1 DEF Next, Day, Finish, Raise, vars
  <2>2. panel' = panel /\ window' = window
    BY <1>1 DEF Next, Day, Finish, Raise, args, vars
  <2>3. Opens(panel, idx)' = MarkPrices
    BY <1>1, <2>2 DEF Opens, Row, First, MarkPrices
  <2>4. equity' = cash' + Worth(shares', Opens(panel, idx)')
    BY <2>1, <2>3
  <2> QED BY <2>4, Zenon DEF EquityIsLedger
<1>2. CASE UNCHANGED vars
  BY <1>2 DEF EquityIsLedger, Worth, Held, Opens, Row, First, Rows, Last, vars, args
<1>3. CASE phase' # "run"
  BY <1>3 DEF EquityIsLedger
<1> QED BY <1>1, <1>2, <1>3 DEF Next, Day, Finish, Raise, args

(* The wealth the next return is measured on is the ledger at the opens    *)
(* the next trade is filled at.                                            *)
THEOREM EquityChains == Spec => []EquityIsLedger
BY MarkInit, MarkStep, PTL DEF Spec

-----------------------------------------------------------------------------
(* The ledger *)

LedgerInv ==
    /\ PositionInv
    /\ panel \in Panels /\ window \in Windows
    /\ cash \in Nat /\ shares \in [Symbols -> Nat] /\ equity \in Nat \ {0}

LEMMA OpensType ==
    ASSUME LedgerInv, NEW i \in Nat, i < Rows
    PROVE  Opens(panel, i) \in [Symbols -> Nat]
<1>1. panel \in Seq(RowType) /\ First \in Nat \ {0} /\ window[2] \in Nat
  BY DEF LedgerInv, First
<1>2. Len(panel) \in Nat
  BY <1>1
<1>3. First + i \in 1..Len(panel)
  BY <1>1, <1>2 DEF Rows, Last, Most
<1>4. Row(panel, i) \in RowType
  BY <1>1, <1>3 DEF Row
<1> QED BY <1>4 DEF Opens, RowType

LEMMA EqualWeightsType ==
    ASSUME NEW T \in SUBSET Symbols
    PROVE  EqualWeights(T) \in [Symbols -> Nat] /\ Held(EqualWeights(T)) \subseteq T
<1>1. ASSUME NEW s \in T PROVE Full \div Cardinality(T) \in Nat
  <2>1. Cardinality(T) \in Nat /\ Cardinality(T) # 0
    BY FS_Subset, FS_CardinalityType, FS_EmptySet
  <2> QED BY <2>1, Quotient DEF Full
<1>2. \A s \in Symbols : s \in T => EqualWeights(T)[s] = Full \div Cardinality(T)
  BY DEF EqualWeights
<1>3. \A s \in Symbols : s \notin T => EqualWeights(T)[s] = 0
  BY DEF EqualWeights
<1>4. EqualWeights(T) \in [Symbols -> Nat]
  BY <1>1 DEF EqualWeights
<1>5. DOMAIN EqualWeights(T) = Symbols
  BY DEF EqualWeights
<1> QED BY <1>3, <1>4, <1>5 DEF Held

(* What is exposed to the opens of row idx and of the next. *)
Exposed == Held(shares) \cup (IF Rebalances(idx) THEN UNION Rankings(panel, idx) ELSE {})

LEMMA ExposedSymbols == LedgerInv => Exposed \subseteq Symbols
<1> SUFFICES ASSUME LedgerInv PROVE Exposed \subseteq Symbols
  OBVIOUS
<1>1. Held(shares) \subseteq Symbols
  BY DEF LedgerInv, Held
<1>2. UNION Rankings(panel, idx) \subseteq Symbols
  BY DEF Rankings
<1> QED BY <1>1, <1>2 DEF Exposed

LEMMA TradedLedger ==
    ASSUME LedgerInv, EquityIsLedger, phase = "run", idx < Rows - 1,
           NEW ledger \in Traded(panel, idx)
    PROVE  /\ ledger.shares \in [Symbols -> Nat] /\ ledger.cash \in Nat
           /\ Held(ledger.shares) \subseteq Exposed
           /\ ledger.cash > 0 \/ \E s \in Symbols : ledger.shares[s] > 0
<1> DEFINE prices == Opens(panel, idx)
<1>1. Rows \in Nat \/ Rows \in Int
  <2>1. First \in Nat /\ window[2] \in Nat /\ Len(panel) \in Nat
    BY DEF LedgerInv, First
  <2> QED BY <2>1 DEF Rows, Last, Most
<1>2. idx \in Nat /\ idx < Rows
  BY <1>1 DEF LedgerInv, PositionInv
<1>3. prices \in [Symbols -> Nat]
  BY <1>2, OpensType
<1>4. equity = cash + Worth(shares, prices) /\ equity > 0
  BY <1>2 DEF EquityIsLedger, LedgerInv
<1>5. cash \in Nat /\ shares \in [Symbols -> Nat] /\ option.rate \in 0..99
  BY DEF LedgerInv, PositionInv
<1> HIDE DEF prices
<1>6. CASE ~Rebalances(idx)
  <2>1. ledger.shares = shares /\ ledger.cash = cash
    BY <1>6 DEF Traded
  <2>2. ASSUME \A s \in Symbols : ~(shares[s] > 0) PROVE cash > 0
    <3>1. \A s \in DOMAIN shares : shares[s] = 0
      BY <1>5, <2>2
    <3>2. Worth(shares, prices) = 0
      BY <3>1, NothingHeld
    <3> QED BY <1>4, <1>5, <3>2
  <2> QED BY <1>5, <2>1, <2>2 DEF Exposed
<1>7. CASE Rebalances(idx)
  <2>1. PICK T \in Rankings(panel, idx) :
          /\ ~RebalanceRaises(shares, prices, EqualWeights(T))
          /\ ledger = Rebalanced(shares, cash, prices, EqualWeights(T), option.rate)
    BY <1>7 DEF Traded, prices
  <2>2. T \in SUBSET Symbols
    BY DEF Rankings
  <2>3. /\ EqualWeights(T) \in [Symbols -> Nat] /\ Held(EqualWeights(T)) \subseteq T
        /\ DOMAIN EqualWeights(T) = Symbols
    BY <2>2, EqualWeightsType
  <2>4. Tradable(Symbols, shares, cash, prices, EqualWeights(T), option.rate)
    BY <1>3, <1>5, <2>1, <2>3 DEF Tradable
  <2>5. /\ ledger.shares \in [Symbols -> Nat] /\ ledger.cash \in Nat
        /\ \A s \in Symbols : ledger.shares[s] > 0 => EqualWeights(T)[s] > 0
        /\ cash + Worth(shares, prices) > 0
             => ledger.cash > 0 \/ \E s \in Symbols : ledger.shares[s] > 0
    BY <2>1, <2>4, RebalanceLeaves
  <2>6. Held(ledger.shares) \subseteq T
    BY <2>3, <2>5 DEF Held
  <2>7. T \subseteq Exposed
    BY <1>7 DEF Exposed
  <2> QED BY <1>4, <2>5, <2>6, <2>7
<1> QED BY <1>6, <1>7

LEMMA MarkType ==
    ASSUME LedgerInv, idx < Rows - 1
    PROVE  MarkPrices \in [Symbols -> Nat]
<1>1. Rows \in Int
  <2>1. First \in Nat /\ window[2] \in Nat /\ Len(panel) \in Nat
    BY DEF LedgerInv, First
  <2> QED BY <2>1 DEF Rows, Last, Most
<1>2. idx + 1 \in Nat /\ idx + 1 < Rows
  BY <1>1 DEF LedgerInv, PositionInv
<1> QED BY <1>2, OpensType DEF MarkPrices

LEMMA LedgerInit == Init => LedgerInv
<1> SUFFICES ASSUME Init PROVE LedgerInv
  OBVIOUS
<1>1. shares \in [Symbols -> Nat] /\ cash \in Nat /\ equity \in Nat \ {0}
  BY DEF Init
<1> QED BY <1>1, PositionInit DEF Init, LedgerInv

LEMMA LedgerStep == LedgerInv /\ EquityIsLedger /\ [Next]_vars => LedgerInv'
<1> SUFFICES ASSUME LedgerInv, EquityIsLedger, [Next]_vars PROVE LedgerInv'
  OBVIOUS
<1>1. PositionInv' /\ panel' = panel /\ window' = window
  <2>1. panel' = panel /\ window' = window
    BY DEF Next, Day, Finish, Raise, args, vars
  <2> QED BY <2>1, PositionStep DEF LedgerInv
<1>2. CASE UNCHANGED <<cash, shares, equity>>
  BY <1>1, <1>2 DEF LedgerInv
<1>3. ASSUME phase = "run", idx < Rows - 1, NEW ledger \in Traded(panel, idx),
             ~MarkRaises(ledger), cash' = ledger.cash, shares' = ledger.shares,
             equity' = ledger.cash + Worth(ledger.shares, MarkPrices)
      PROVE  LedgerInv'
  <2>1. ledger.shares \in [Symbols -> Nat] /\ ledger.cash \in Nat
    BY <1>3, TradedLedger
  <2>2. Worth(ledger.shares, MarkPrices) \in Nat
    <3>1. \A s \in Symbols : MarkPrices[s] \in Nat
      BY <1>3, MarkType
    <3> QED BY <2>1, <3>1, WorthNat
  <2>3. equity' \in Nat \ {0}
    BY <1>3, <2>1, <2>2 DEF MarkRaises
  <2> QED BY <1>1, <1>3, <2>1, <2>3 DEF LedgerInv
<1> QED BY <1>2, <1>3 DEF Next, Day, Finish, Raise, vars

LEMMA GapStep ==
    ASSUME LedgerInv, EquityIsLedger, [Next]_vars, phase' = "failed", ~UNCHANGED vars
    PROVE  \E s \in Symbols : s \in Exposed /\ 0 \in {Opens(panel, idx)[s], Opens(panel, idx + 1)[s]}
<1>1. /\ phase = "run" /\ idx < Rows - 1
      /\ TradeRaises \/ \E ledger \in Traded(panel, idx) : MarkRaises(ledger)
  BY DEF Next, Day, Finish, args, vars
<1>2. CASE TradeRaises
  <2>1. PICK T \in Rankings(panel, idx) :
          RebalanceRaises(shares, Opens(panel, idx), EqualWeights(T))
    BY <1>2 DEF TradeRaises
  <2>2. PICK s \in Needed(shares, EqualWeights(T)) : Opens(panel, idx)[s] = 0
    BY <2>1 DEF RebalanceRaises
  <2>3. T \in SUBSET Symbols
    BY DEF Rankings
  <2>4. s \in Held(shares) \cup T
    BY <2>3, EqualWeightsType DEF Needed
  <2>5. s \in Exposed
    BY <1>2, <2>4 DEF Exposed, TradeRaises
  <2> QED BY <2>2, <2>5, ExposedSymbols
<1>3. ASSUME NEW ledger \in Traded(panel, idx), MarkRaises(ledger)
      PROVE  \E s \in Symbols : s \in Exposed /\ Opens(panel, idx + 1)[s] = 0
  <2>1. /\ ledger.shares \in [Symbols -> Nat] /\ ledger.cash \in Nat
        /\ Held(ledger.shares) \subseteq Exposed
        /\ ledger.cash > 0 \/ \E s \in Symbols : ledger.shares[s] > 0
    BY <1>1, TradedLedger
  <2>2. MarkPrices \in [Symbols -> Nat]
    BY <1>1, MarkType
  <2>3. /\ Worth(ledger.shares, MarkPrices) \in Nat
        /\ \A s \in Symbols : ledger.shares[s] * MarkPrices[s] <= Worth(ledger.shares, MarkPrices)
    <3>1. \A s \in Symbols : MarkPrices[s] \in Nat
      BY <2>2
    <3> QED BY <2>1, <3>1, WorthNat
  <2>4. \E s \in Held(ledger.shares) : MarkPrices[s] = 0
    <3> SUFFICES ASSUME \A s \in Held(ledger.shares) : MarkPrices[s] # 0 PROVE FALSE
      OBVIOUS
    <3>1. ledger.cash + Worth(ledger.shares, MarkPrices) <= 0
      BY <1>3 DEF MarkRaises, LedgerInv
    <3>2. ledger.cash = 0 /\ Worth(ledger.shares, MarkPrices) = 0
      BY <2>1, <2>3, <3>1
    <3>3. PICK s \in Symbols : ledger.shares[s] > 0
      BY <2>1, <3>2
    <3>4. MarkPrices[s] \in Nat /\ MarkPrices[s] # 0 /\ ledger.shares[s] \in Nat
      BY <2>1, <2>2, <3>3 DEF Held
    <3>5. ledger.shares[s] * MarkPrices[s] > 0
      BY <3>3, <3>4
    <3>6. ledger.shares[s] * MarkPrices[s] <= 0
      BY <2>3, <3>2
    <3> QED BY <3>4, <3>5, <3>6
  <2> QED BY <2>1, <2>4, ExposedSymbols DEF MarkPrices
<1> QED BY <1>1, <1>2, <1>3

(* A backtest that ends early was exposed to a missing open: every other   *)
(* gap is harmless, and the ledger itself never runs out of wealth.        *)
THEOREM OnlyExposedGaps == Spec => GapsOfOthersHarmless
<1>1. LedgerInv /\ EquityIsLedger /\ [Next]_vars =>
        [phase' = "failed" =>
          \E s \in Symbols :
            /\ s \in Held(shares) \cup (IF Rebalances(idx) THEN UNION Rankings(panel, idx) ELSE {})
            /\ 0 \in {Opens(panel, idx)[s], Opens(panel, idx + 1)[s]}]_vars
  BY GapStep DEF Exposed
<1> QED BY <1>1, LedgerInit, LedgerStep, MarkInit, MarkStep, PTL
        DEF Spec, GapsOfOthersHarmless

-----------------------------------------------------------------------------
(* The refinement *)

LEMMA RoundOpens ==
    ASSUME LedgerInv, NEW i \in Nat, i < Rows
    PROVE  \A s \in Symbols : Opens(panel, i)[s] % 100 = 0
<1>1. panel \in Panels /\ panel \in Seq(RowType) /\ First \in Nat \ {0} /\ window[2] \in Nat
  BY DEF LedgerInv, First
<1>2. Len(panel) \in Nat
  BY <1>1
<1>3. First + i \in DOMAIN panel
  BY <1>1, <1>2 DEF Rows, Last, Most
<1> QED BY <1>1, <1>3 DEF Opens, Row

(* A trade takes its costs, and nothing else, from the wealth.             *)
LEMMA TradedCosts ==
    ASSUME LedgerInv, Rebalances(idx), idx < Rows, NEW ledger \in Traded(panel, idx)
    PROVE  /\ \A s \in Symbols : ledger.shares[s] # shares[s] => Opens(panel, idx)[s] > 0
           /\ ledger.cash + SumOf(Values(Symbols, ledger.shares, Opens(panel, idx)))
                + (option.rate * SumOf(Turnover(Symbols, shares, ledger.shares, Opens(panel, idx)))) \div 100
                = cash + SumOf(Values(Symbols, shares, Opens(panel, idx)))
<1> DEFINE prices == Opens(panel, idx)
<1>1. idx \in Nat /\ cash \in Nat /\ shares \in [Symbols -> Nat] /\ option.rate \in 0..99
  BY DEF LedgerInv, PositionInv
<1>2. prices \in [Symbols -> Nat] /\ \A s \in Symbols : prices[s] % 100 = 0
  BY <1>1, OpensType, RoundOpens
<1> HIDE DEF prices
<1>3. PICK T \in Rankings(panel, idx) :
        /\ ~RebalanceRaises(shares, prices, EqualWeights(T))
        /\ ledger = Rebalanced(shares, cash, prices, EqualWeights(T), option.rate)
  BY DEF Traded, prices
<1>4. EqualWeights(T) \in [Symbols -> Nat] /\ DOMAIN EqualWeights(T) = Symbols
  <2>1. T \in SUBSET Symbols
    BY DEF Rankings
  <2> QED BY <2>1, EqualWeightsType DEF EqualWeights
<1>5. Tradable(Symbols, shares, cash, prices, EqualWeights(T), option.rate)
  BY <1>1, <1>2, <1>3, <1>4 DEF Tradable
<1>6. Round(Needed(shares, EqualWeights(T)), prices)
  <2>1. Needed(shares, EqualWeights(T)) \subseteq Symbols
    BY <1>1, <1>4 DEF Needed, Held
  <2> QED BY <1>2, <2>1 DEF Round
<1> SUFFICES
      /\ \A s \in Symbols : ledger.shares[s] # shares[s] => prices[s] > 0
      /\ ledger.cash + SumOf(Values(Symbols, ledger.shares, prices))
           + (option.rate * SumOf(Turnover(Symbols, shares, ledger.shares, prices))) \div 100
           = cash + SumOf(Values(Symbols, shares, prices))
  BY DEF prices
<1> QED BY <1>2, <1>3, <1>5, <1>6, RebalanceTrades

LEMMA LedgerSpecInit == LedgerInv /\ Init => L!Init
BY DEF Init, L!Init

LEMMA LedgerSpecStep ==
    LedgerInv /\ LedgerInv' /\ [Next]_vars => [L!Trade]_<<cash, shares>>
<1> SUFFICES ASSUME LedgerInv, LedgerInv', [Next]_vars, ~UNCHANGED <<cash, shares>>
             PROVE  L!Trade
  OBVIOUS
<1>1. PICK ledger \in Traded(panel, idx) :
        /\ phase = "run" /\ idx < Rows - 1
        /\ cash' = ledger.cash /\ shares' = ledger.shares
  BY DEF Next, Day, Finish, Raise, vars
<1>2. Rebalances(idx)
  BY <1>1 DEF Traded
<1>3. idx < Rows
  <2>1. First \in Nat /\ window[2] \in Nat /\ Len(panel) \in Nat
    BY DEF LedgerInv, First
  <2>2. Rows \in Int
    BY <2>1 DEF Rows, Last, Most
  <2>3. idx \in Nat
    BY DEF LedgerInv, PositionInv
  <2> QED BY <1>1, <2>2, <2>3
<1> DEFINE Q == Opens(panel, idx)
<1> DEFINE Quotes == IF phase = "run" /\ idx < Rows THEN Q ELSE [s \in Symbols |-> 0]
<1> HIDE DEF Q
<1>4. Quotes = Q
  BY <1>1, <1>3
<1>5. /\ \A s \in Symbols : shares'[s] # shares[s] => Q[s] > 0
      /\ cash' + SumOf(Values(Symbols, shares', Q))
           + (option.rate * SumOf(Turnover(Symbols, shares, shares', Q))) \div 100
           = cash + SumOf(Values(Symbols, shares, Q))
  BY <1>1, <1>2, <1>3, TradedCosts, Zenon DEF Q
<1>6. cash' \in Nat /\ shares' \in [Symbols -> Nat]
  BY DEF LedgerInv
<1> HIDE DEF Quotes
<1>7. \A f : L!SumOf(f) = SumOf(f)
  BY DEF L!SumOf, SumOf, L!MapThenSumSet, MapThenSumSet, L!MapThenFoldSet, MapThenFoldSet
<1>8. \A a, b : L!Most(a, b) = Most(a, b)
  BY DEF L!Most, Most
<1>9. \A c, held : L!Wealth(c, held) = c + SumOf(Values(Symbols, held, Quotes))
  BY <1>7, Zenon DEF L!Wealth, Values, Quotes, Q
<1>10. L!Costs = (option.rate * SumOf(Turnover(Symbols, shares, shares', Quotes))) \div 100
  <2>1. [s \in Symbols |-> Quotes[s] * L!Most(shares'[s] - shares[s], shares[s] - shares'[s])]
          = Turnover(Symbols, shares, shares', Quotes)
    BY <1>8 DEF Turnover
  <2> QED BY <1>7, <2>1, Zenon DEF L!Costs, Quotes, Q
<1>11. /\ \A s \in Symbols : shares'[s] # shares[s] => Quotes[s] > 0
       /\ L!Wealth(cash', shares') + L!Costs = L!Wealth(cash, shares)
  BY <1>4, <1>5, <1>9, <1>10, Zenon
<1> QED BY <1>6, <1>11, Zenon DEF L!Trade, Quotes, Q

(* Every backtest is a behaviour of the abstract ledger.                   *)
THEOREM BacktestIsLedger == Spec => LedgerSpec
<1>1. LedgerInv /\ Init => L!Init
  BY LedgerSpecInit
<1>2. LedgerInv /\ LedgerInv' /\ [Next]_vars => [L!Trade]_<<cash, shares>>
  BY LedgerSpecStep
<1> QED BY <1>1, <1>2, LedgerInit, LedgerStep, MarkInit, MarkStep, PTL DEF Spec, LedgerSpec, L!Spec

-----------------------------------------------------------------------------
(* The combo simulator: parts of a contribution *)

HIDE BacktestAssumption

LEMMA WholeMultiple ==
    ASSUME NEW x \in Nat, NEW y \in Nat \ {0}, x % y = 0
    PROVE  \E q \in Nat : x = y * q
<1>1. x \div y \in Nat /\ x = y * (x \div y) + (x % y)
  BY SMT
<1>2. x = y * (x \div y)
  BY <1>1, SMT
<1> QED BY <1>1, <1>2

LEMMA WholeQuotient ==
    ASSUME NEW y \in Nat \ {0}, NEW q \in Nat
    PROVE  (y * q) \div y = q
BY SMT

(* What a day's contribution is divided into can be bought in whole parts. *)
Fine(d) ==
    /\ Contribution % (Full * d.btc) = 0
    /\ \A a \in d.up : Contribution % (Full * (Cardinality(d.up) * d.alt[a])) = 0

RunArgsInv ==
    /\ config \in Configs /\ request \in Requests
    /\ sliced \in Seq(DayType)
    /\ \A i, j \in DOMAIN sliced : i < j => sliced[i].date < sliced[j].date
    /\ \A i \in DOMAIN sliced : Fine(sliced[i])

LEMMA ConfigFacts ==
    ASSUME config \in Configs
    PROVE  /\ config.dca \in Nat \ {0} /\ config.btcWeight \in Nat /\ config.trendWeight \in Nat
           /\ config.btcWeight + config.trendWeight <= 100
           /\ config.cut \in Nat /\ config.cut <= 100 /\ config.minHistory \in Nat
           /\ Contribution \in Nat \ {0}
<1>1. config \in ConfigType /\ config.btcWeight + config.trendWeight <= 100
  BY ComboBacktestAssumption
<1>2. /\ config.dca \in Nat \ {0} /\ config.btcWeight \in Nat /\ config.trendWeight \in Nat
      /\ config.cut \in Nat /\ config.cut <= 100 /\ config.minHistory \in Nat
  BY <1>1 DEF ConfigType
<1>3. Grain \in Nat \ {0}
  BY ComboBacktestAssumption
<1>4. \A m, n \in Nat \ {0} : m * n \in Nat \ {0}
  BY SMT
<1> QED BY <1>1, <1>2, <1>3, <1>4 DEF Contribution

LEMMA DayFacts ==
    ASSUME NEW d \in DayType
    PROVE  /\ d.date \in Nat \ {0} /\ d.btc \in Nat \ {0} /\ d.alt \in [Alts -> Nat \ {0}]
           /\ d.up \in SUBSET Alts /\ IsFiniteSet(d.up)
           /\ Cardinality(d.up) \in Nat
           /\ d.up # {} => Cardinality(d.up) \in Nat \ {0}
<1>1. /\ d.date \in Nat \ {0} /\ d.btc \in Nat \ {0} /\ d.alt \in [Alts -> Nat \ {0}]
      /\ d.up \in SUBSET Alts
  BY DEF DayType
<1>2. IsFiniteSet(d.up)
  BY <1>1, ComboBacktestAssumption, FS_Subset
<1>3. Cardinality(d.up) \in Nat
  BY <1>2, FS_CardinalityType
<1>4. d.up # {} => Cardinality(d.up) # 0
  BY <1>2, FS_EmptySet
<1> QED BY <1>1, <1>2, <1>3, <1>4

(* A contribution in basis points *)
LEMMA PointsOf ==
    ASSUME config \in Configs, NEW d \in DayType, Fine(d)
    PROVE  \E u \in Nat \ {0} :
             /\ Contribution = Full * u
             /\ \A w \in Nat : Part(w) = u * w
             /\ \E q \in Nat : u = d.btc * q
             /\ \A a \in d.up : \E q \in Nat : u = Cardinality(d.up) * (d.alt[a] * q)
<1>1. Contribution \in Nat \ {0}
  BY ConfigFacts
<1>2. d.btc \in Nat \ {0}
  BY DayFacts
<1>3. \A n \in Nat \ {0} : Full * n \in Nat \ {0}
  BY SMT DEF Full
<1>4. PICK q \in Nat : Contribution = (Full * d.btc) * q
  <2>1. Full * d.btc \in Nat \ {0}
    BY <1>2, <1>3
  <2> QED BY <1>1, <2>1, WholeMultiple DEF Fine
<1> DEFINE u == d.btc * q
<1>5. u \in Nat /\ Contribution = Full * u
  <2>1. \A m, n \in Nat : m * n \in Nat /\ Full * (m * n) = (Full * m) * n
    BY SMT DEF Full
  <2> QED BY <1>2, <1>4, <2>1
<1>6. u # 0
  <2> HIDE DEF u
  <2>1. Full * 0 = 0
    BY SMT DEF Full
  <2> QED BY <1>1, <1>5, <2>1
<1>7. \A w \in Nat : Part(w) = u * w
  <2> HIDE DEF u
  <2>1. \A w \in Nat : ((10000 * u) * w) \div 10000 = u * w
    <3> SUFFICES ASSUME NEW w \in Nat PROVE ((10000 * u) * w) \div 10000 = u * w
      OBVIOUS
    <3>1. PICK v \in Nat : v = u * w
      BY <1>5, SMT
    <3>2. (10000 * u) * w = 10000 * v
      BY <1>5, <3>1, SMT
    <3>3. (10000 * v) \div 10000 = v
      BY WholeQuotient
    <3> QED BY <3>1, <3>2, <3>3
  <2> QED BY <1>5, <2>1 DEF Part, Full
<1>8. ASSUME NEW a \in d.up PROVE \E r \in Nat : u = Cardinality(d.up) * (d.alt[a] * r)
  <2> HIDE DEF u
  <2>1. Cardinality(d.up) \in Nat \ {0} /\ d.alt[a] \in Nat \ {0}
    BY DayFacts
  <2>2. PICK k \in Nat \ {0} : k = Cardinality(d.up)
    BY <2>1
  <2>3. PICK p \in Nat \ {0} : p = d.alt[a]
    BY <2>1
  <2>4. k * p \in Nat \ {0}
    BY SMT
  <2>5. PICK r \in Nat : Contribution = (Full * (k * p)) * r
    <3>1. Full * (k * p) \in Nat \ {0}
      BY <1>3, <2>4
    <3>2. Contribution % (Full * (k * p)) = 0
      BY <2>2, <2>3 DEF Fine
    <3> QED BY <1>1, <3>1, <3>2, WholeMultiple, ZenonT(30)
  <2>6. (Full * (k * p)) * r = Full * (k * (p * r))
    BY SMT DEF Full
  <2>7. PICK v \in Nat : v = k * (p * r)
    BY SMT
  <2>8. u = v
    BY <1>5, <2>5, <2>6, <2>7, SMT DEF Full
  <2> QED BY <2>2, <2>3, <2>7, <2>8
<1>9. \E r \in Nat : u = d.btc * r
  OBVIOUS
<1> HIDE DEF u
<1> QED BY <1>5, <1>6, <1>7, <1>8, <1>9

(* Whole parts are bought for exactly what they cost. *)
LEMMA WholePurchase ==
    ASSUME NEW amount, NEW price \in Nat \ {0}, NEW n \in Nat, amount = price * n
    PROVE  Buys(amount, price) \in Nat /\ Buys(amount, price) * price = amount
<1>1. Buys(amount, price) = n
  BY WholeQuotient DEF Buys
<1>2. n * price = price * n
  BY SMT
<1> QED BY <1>1, <1>2

(* The four parts of a contribution are all of it. *)
LEMMA PartsAddUp ==
    ASSUME RunArgsInv, day \in DOMAIN sliced
    PROVE  /\ BtcAlloc \in Nat /\ ExtraBtcAlloc \in Nat /\ TrendAlloc \in Nat /\ Unallocated \in Nat
           /\ BtcAlloc + ExtraBtcAlloc + TrendAlloc + Unallocated = Contribution
<1>1. today \in DayType /\ Fine(today)
  <2>1. day \in 1..Len(sliced)
    BY LenProperties DEF RunArgsInv
  <2> QED BY <2>1, ElementOfSeq DEF RunArgsInv, today
<1>2. PICK u \in Nat \ {0} : Contribution = Full * u /\ \A w \in Nat : Part(w) = u * w
  BY <1>1, PointsOf DEF RunArgsInv
<1>3. /\ config.btcWeight \in Nat /\ config.trendWeight \in Nat
      /\ config.btcWeight + config.trendWeight <= 100
      /\ config.cut \in Nat /\ config.cut <= 100
  BY ConfigFacts DEF RunArgsInv
<1>4. PICK b \in Nat, t \in Nat, c \in Nat :
        b = config.btcWeight /\ t = config.trendWeight /\ c = config.cut
  BY <1>3
<1>5. b + t <= 100 /\ c <= 100
  BY <1>3, <1>4
<1>6. /\ 100 * b \in Nat /\ 100 * (100 - b - t) \in Nat
      /\ t * (100 - c) \in Nat /\ t * 100 \in Nat /\ t * c \in Nat
  <2>1. 100 - c \in Nat /\ 100 - b - t \in Nat
    BY <1>5, SMT
  <2>2. \A m, n \in Nat : m * n \in Nat
    BY SMT
  <2> QED BY <2>1, <2>2
<1>7. /\ BtcAlloc = u * (100 * b)
      /\ Unallocated = u * (100 * (100 - b - t))
      /\ TrendAlloc = u * (t * (IF Cuts THEN 100 - c ELSE 100))
      /\ ExtraBtcAlloc = IF Cuts THEN u * (t * c) ELSE 0
  BY <1>2, <1>4, <1>6 DEF BtcAlloc, Unallocated, TrendAlloc, ExtraBtcAlloc
<1>8. PICK x \in Nat, y \in Nat, z \in Nat : x = u * b /\ y = u * t /\ z = y * c
  BY SMT
<1>9. /\ u * (100 * b) = 100 * x
      /\ u * (100 * (100 - b - t)) = 10000 * u - 100 * x - 100 * y
      /\ u * (t * (100 - c)) = 100 * y - z
      /\ u * (t * 100) = 100 * y
      /\ u * (t * c) = z
  <2>1. u * (100 * b) = 100 * (u * b)  BY SMT
  <2>2. u * (100 * (100 - b - t)) = 10000 * u - 100 * (u * b) - 100 * (u * t)  BY SMT
  <2>3. u * (t * (100 - c)) = 100 * (u * t) - (u * t) * c  BY SMT
  <2>4. u * (t * 100) = 100 * (u * t)  BY SMT
  <2>5. u * (t * c) = (u * t) * c  BY SMT
  <2> QED BY <1>8, <2>1, <2>2, <2>3, <2>4, <2>5
<1>10. \A m, n \in Nat : m * n \in Nat
  BY SMT
<1>11. /\ BtcAlloc \in Nat /\ ExtraBtcAlloc \in Nat /\ TrendAlloc \in Nat /\ Unallocated \in Nat
  BY <1>6, <1>7, <1>10
<1>12. BtcAlloc + ExtraBtcAlloc + TrendAlloc + Unallocated = 10000 * u
  <2>1. CASE Cuts
    <3>1. TrendAlloc = 100 * y - z /\ ExtraBtcAlloc = z
      BY <1>7, <1>9, <2>1
    <3> QED BY <1>7, <1>9, <3>1, SMT
  <2>2. CASE ~Cuts
    <3>1. TrendAlloc = 100 * y /\ ExtraBtcAlloc = 0
      BY <1>7, <1>9, <2>2
    <3> QED BY <1>7, <1>9, <3>1, SMT
  <2> QED BY <2>1, <2>2
<1> QED BY <1>2, <1>11, <1>12 DEF Full

(* Every purchase of a day is whole. *)
LEMMA PurchasesOfDay ==
    ASSUME RunArgsInv, day \in DOMAIN sliced
    PROVE  /\ Buys(BtcAlloc + ExtraBtcAlloc, today.btc) \in Nat
           /\ Buys(BtcAlloc + ExtraBtcAlloc, today.btc) * today.btc = BtcAlloc + ExtraBtcAlloc
           /\ today.up # {} =>
                /\ PerAlt \in Nat /\ Cardinality(today.up) * PerAlt = TrendAlloc
                /\ \A a \in today.up : /\ Buys(PerAlt, today.alt[a]) \in Nat
                                       /\ Buys(PerAlt, today.alt[a]) * today.alt[a] = PerAlt
<1>1. today \in DayType /\ Fine(today)
  <2>1. day \in 1..Len(sliced)
    BY LenProperties DEF RunArgsInv
  <2> QED BY <2>1, ElementOfSeq DEF RunArgsInv, today
<1>2. /\ today.btc \in Nat \ {0} /\ today.alt \in [Alts -> Nat \ {0}]
      /\ today.up \in SUBSET Alts
      /\ today.up # {} => Cardinality(today.up) \in Nat \ {0}
  BY <1>1, DayFacts
<1>3. PICK u \in Nat \ {0} :
        /\ \A w \in Nat : Part(w) = u * w
        /\ \E q \in Nat : u = today.btc * q
        /\ \A a \in today.up : \E q \in Nat : u = Cardinality(today.up) * (today.alt[a] * q)
  BY <1>1, PointsOf DEF RunArgsInv
<1>4. /\ config.btcWeight \in Nat /\ config.trendWeight \in Nat
      /\ config.cut \in Nat /\ config.cut <= 100
  BY ConfigFacts DEF RunArgsInv
<1>5. \A m, n \in Nat : m * n \in Nat
  BY SMT
<1>6. /\ 100 * config.btcWeight \in Nat /\ config.trendWeight * config.cut \in Nat
      /\ config.trendWeight * (100 - config.cut) \in Nat /\ config.trendWeight * 100 \in Nat
  <2>1. 100 - config.cut \in Nat
    BY <1>4, SMT
  <2> QED BY <1>4, <1>5, <2>1
<1>7. PICK v \in Nat : BtcAlloc + ExtraBtcAlloc = u * v
  <2>1. CASE Cuts
    <3>1. BtcAlloc = u * (100 * config.btcWeight)
          /\ ExtraBtcAlloc = u * (config.trendWeight * config.cut)
      BY <1>3, <1>6, <2>1 DEF BtcAlloc, ExtraBtcAlloc
    <3>2. PICK m \in Nat, n \in Nat :
            m = 100 * config.btcWeight /\ n = config.trendWeight * config.cut
      BY <1>6
    <3>3. u * m + u * n = u * (m + n) /\ m + n \in Nat
      BY SMT
    <3>4. BtcAlloc = u * m /\ ExtraBtcAlloc = u * n
      BY <3>1, <3>2
    <3>5. BtcAlloc + ExtraBtcAlloc = u * (m + n)
      BY <3>3, <3>4, Zenon
    <3> QED BY <3>3, <3>5
  <2>2. CASE ~Cuts
    <3>1. BtcAlloc = u * (100 * config.btcWeight) /\ ExtraBtcAlloc = 0
      BY <1>3, <1>6, <2>2 DEF BtcAlloc, ExtraBtcAlloc
    <3>2. BtcAlloc \in Nat
      BY <1>5, <1>6, <3>1
    <3>3. BtcAlloc + 0 = BtcAlloc
      BY <3>2
    <3> QED BY <1>6, <3>1, <3>3
  <2> QED BY <2>1, <2>2
<1>8. PICK w \in Nat : TrendAlloc = u * w
  BY <1>3, <1>6 DEF TrendAlloc
<1>9. PICK q \in Nat : u = today.btc * q
  BY <1>3
<1>10. BtcAlloc + ExtraBtcAlloc = today.btc * (q * v) /\ q * v \in Nat
  <2>1. \A m \in Nat : (m * q) * v = m * (q * v) /\ q * v \in Nat
    BY SMT
  <2> QED BY <1>2, <1>7, <1>9, <2>1
<1>11. /\ Buys(BtcAlloc + ExtraBtcAlloc, today.btc) \in Nat
       /\ Buys(BtcAlloc + ExtraBtcAlloc, today.btc) * today.btc = BtcAlloc + ExtraBtcAlloc
  BY <1>2, <1>10, WholePurchase
<1>12. ASSUME NEW a \in today.up
       PROVE  /\ PerAlt \in Nat /\ Cardinality(today.up) * PerAlt = TrendAlloc
              /\ Buys(PerAlt, today.alt[a]) \in Nat
              /\ Buys(PerAlt, today.alt[a]) * today.alt[a] = PerAlt
  <2>1. PICK k \in Nat \ {0} : k = Cardinality(today.up)
    BY <1>2
  <2>2. PICK p \in Nat \ {0} : p = today.alt[a]
    BY <1>2
  <2>3. PICK r \in Nat : u = k * (p * r)
    BY <1>3, <2>1, <2>2
  <2>4. /\ TrendAlloc = k * (p * (r * w)) /\ r * w \in Nat /\ p * (r * w) \in Nat
    <3>1. (k * (p * r)) * w = k * (p * (r * w))
      BY SMT
    <3> QED BY <1>5, <1>8, <2>3, <3>1
  <2>5. PerAlt = p * (r * w)
    BY <2>1, <2>4, WholeQuotient DEF PerAlt
  <2> QED BY <2>1, <2>2, <2>4, <2>5, WholePurchase
<1> QED BY <1>11, <1>12

-----------------------------------------------------------------------------
(* What a contribution is worth *)

HoldingsOK ==
    /\ btcUnits \in Nat /\ altUnits \in [Alts -> Nat] /\ cashHeld \in Nat

(* What the alts of units are worth one by one, and together. *)
AltValues(d, alts) == [a \in Alts |-> alts[a] * d.alt[a]]

LEMMA ValueFacts ==
    ASSUME NEW d \in DayType, NEW btc \in Nat, NEW alts \in [Alts -> Nat], NEW money \in Nat
    PROVE  /\ ValueAt(d, btc, alts, money) = btc * d.btc + SumOf(AltValues(d, alts)) + money
           /\ ValueAt(d, btc, alts, money) \in Nat
           /\ btc * d.btc \in Nat /\ SumOf(AltValues(d, alts)) \in Nat
           /\ \A a \in Alts : AltValues(d, alts)[a] \in Nat
<1>1. d.btc \in Nat \ {0} /\ d.alt \in [Alts -> Nat \ {0}]
  BY DayFacts
<1>2. \A m, n \in Nat : m * n \in Nat
  BY SMT
<1>3. \A a \in Alts : AltValues(d, alts)[a] \in Nat
  BY <1>1, <1>2 DEF AltValues
<1>4. DOMAIN AltValues(d, alts) = Alts
  BY DEF AltValues
<1>5. SumOf(AltValues(d, alts)) \in Nat
  BY <1>3, <1>4, ComboBacktestAssumption, SumNat
<1>6. btc * d.btc \in Nat
  BY <1>1, <1>2
<1>7. ValueAt(d, btc, alts, money) = btc * d.btc + SumOf(AltValues(d, alts)) + money
  BY DEF ValueAt, AltValues
<1> QED BY <1>3, <1>5, <1>6, <1>7

(* Nothing is worth nothing, and something is worth something.             *)
LEMMA WorthSomething ==
    ASSUME NEW d \in DayType, NEW btc \in Nat, NEW alts \in [Alts -> Nat], NEW money \in Nat
    PROVE  ValueAt(d, btc, alts, money) > 0 <=>
              btc > 0 \/ money > 0 \/ \E a \in Alts : alts[a] > 0
<1> DEFINE v == AltValues(d, alts)
<1>1. d.btc \in Nat \ {0} /\ d.alt \in [Alts -> Nat \ {0}]
  BY DayFacts
<1>2. /\ ValueAt(d, btc, alts, money) = btc * d.btc + SumOf(v) + money
      /\ btc * d.btc \in Nat /\ SumOf(v) \in Nat
      /\ \A a \in Alts : v[a] \in Nat
  BY ValueFacts
<1>3. DOMAIN v = Alts /\ IsFiniteSet(DOMAIN v)
  BY ComboBacktestAssumption DEF AltValues
<1>4. \A m \in Nat, n \in Nat \ {0} : (m > 0 <=> m * n > 0) /\ (m = 0 => m * n = 0)
  BY SMT
<1>5. ASSUME NEW a \in Alts, alts[a] > 0 PROVE SumOf(v) > 0
  <2>1. v[a] > 0
    BY <1>1, <1>4, <1>5 DEF AltValues
  <2> HIDE DEF v
  <2>2. v[a] <= SumOf(v)
    BY <1>2, <1>3, TermBelowSum
  <2> QED BY <1>2, <2>1, <2>2
<1>6. ASSUME \A a \in Alts : ~(alts[a] > 0) PROVE SumOf(v) = 0
  <2>1. \A a \in Alts : v[a] = 0
    <3> SUFFICES ASSUME NEW a \in Alts PROVE v[a] = 0
      OBVIOUS
    <3>1. alts[a] = 0
      BY <1>6
    <3> QED BY <1>1, <1>4, <3>1 DEF AltValues
  <2> HIDE DEF v
  <2>2. SumOf(v) = Cardinality(DOMAIN v) * 0
    BY <1>3, <2>1, SumConstant
  <2> QED BY <1>3, <2>2, FS_CardinalityType
<1>7. btc > 0 <=> btc * d.btc > 0
  BY <1>1, <1>4
<1> HIDE DEF v
<1>8. SumOf(v) > 0 <=> \E a \in Alts : alts[a] > 0
  BY <1>2, <1>5, <1>6
<1> QED BY <1>2, <1>7, <1>8

(* The trend part is spent on the alts of the day in equal shares. *)
LEMMA TrendSpent ==
    ASSUME RunArgsInv, HoldingsOK, day \in DOMAIN sliced, today.up # {},
           NEW alts, alts = [a \in Alts |-> altUnits[a] +
                               IF a \in today.up THEN Buys(PerAlt, today.alt[a]) ELSE 0]
    PROVE  /\ alts \in [Alts -> Nat]
           /\ SumOf(AltValues(today, alts)) = SumOf(AltValues(today, altUnits)) + TrendAlloc
<1>1. today \in DayType
  <2>1. day \in 1..Len(sliced)
    BY LenProperties DEF RunArgsInv
  <2> QED BY <2>1, ElementOfSeq DEF RunArgsInv, today
<1>2. today.alt \in [Alts -> Nat \ {0}] /\ today.up \in SUBSET Alts
  BY <1>1, DayFacts
<1>3. /\ PerAlt \in Nat /\ Cardinality(today.up) * PerAlt = TrendAlloc
      /\ \A a \in today.up : /\ Buys(PerAlt, today.alt[a]) \in Nat
                             /\ Buys(PerAlt, today.alt[a]) * today.alt[a] = PerAlt
  BY PurchasesOfDay
<1>4. \A a \in Alts : alts[a] \in Nat
  <2> SUFFICES ASSUME NEW a \in Alts PROVE alts[a] \in Nat
    OBVIOUS
  <2>1. altUnits[a] \in Nat
    BY DEF HoldingsOK
  <2>2. CASE a \in today.up
    BY <1>3, <2>1, <2>2
  <2>3. CASE a \notin today.up
    BY <2>1, <2>3
  <2> QED BY <2>2, <2>3
<1>5. alts \in [Alts -> Nat]
  BY <1>4
<1> DEFINE f == AltValues(today, altUnits)
           g == [a \in Alts |-> IF a \in today.up THEN PerAlt ELSE 0]
           h == AltValues(today, alts)
           e == [a \in today.up |-> g[a]]
<1>6. /\ DOMAIN f = Alts /\ DOMAIN g = Alts /\ DOMAIN h = Alts /\ DOMAIN e = today.up
      /\ IsFiniteSet(Alts) /\ IsFiniteSet(today.up)
  BY <1>1, ComboBacktestAssumption, DayFacts DEF AltValues
<1>7. \A a \in Alts : f[a] \in Nat /\ g[a] \in Nat
  <2>1. \A a \in Alts : f[a] \in Nat
    BY <1>1, ValueFacts DEF HoldingsOK
  <2> QED BY <1>3, <2>1
<1>8. \A a \in Alts : h[a] = f[a] + g[a]
  <2> SUFFICES ASSUME NEW a \in Alts PROVE h[a] = f[a] + g[a]
    OBVIOUS
  <2>1. PICK m \in Nat, p \in Nat : m = altUnits[a] /\ p = today.alt[a]
    BY <1>2 DEF HoldingsOK
  <2>2. f[a] = m * p /\ h[a] = alts[a] * p
    BY <2>1 DEF AltValues
  <2>3. CASE a \in today.up
    <3>1. PICK b \in Nat : b = Buys(PerAlt, today.alt[a])
      BY <1>3, <2>3
    <3>2. alts[a] = m + b /\ b * p = PerAlt /\ g[a] = PerAlt
      BY <1>3, <2>1, <2>3, <3>1
    <3>3. (m + b) * p = m * p + b * p
      BY SMT
    <3> QED BY <2>2, <3>2, <3>3
  <2>4. CASE a \notin today.up
    <3>1. alts[a] = m /\ g[a] = 0
      BY <2>1, <2>4
    <3>2. m * p + 0 = m * p
      BY SMT
    <3> QED BY <2>2, <3>1, <3>2
  <2> QED BY <2>3, <2>4
<1>9. \A a \in today.up : e[a] = PerAlt
  BY <1>2
<1>10. \A a \in Alts : a \notin today.up => g[a] = 0
  OBVIOUS
<1>11. SumOf(e) = SumOf(g)
  <2>1. e = [a \in today.up |-> g[a]]
    OBVIOUS
  <2> HIDE DEF e, g
  <2> QED BY <1>2, <1>6, <1>7, <1>10, <2>1, SumSupport
<1>12. SumOf(e) = TrendAlloc
  <2> HIDE DEF e, g
  <2>1. SumOf(e) = Cardinality(today.up) * PerAlt
    BY <1>3, <1>6, <1>9, SumConstant
  <2> QED BY <1>3, <2>1
<1>13. SumOf(h) = SumOf(f) + SumOf(g)
  <2> HIDE DEF f, g, h
  <2> QED BY <1>6, <1>7, <1>8, SumPlus
<1> QED BY <1>5, <1>11, <1>12, <1>13

(* A contribution is worth its amount on its day. *)
LEMMA DayGains ==
    ASSUME RunArgsInv, HoldingsOK, day \in DOMAIN sliced, Simulate
    PROVE  /\ HoldingsOK'
           /\ ValueAt(today, btcUnits', altUnits', cashHeld')
                = ValueAt(today, btcUnits, altUnits, cashHeld) + Contribution
<1>1. today \in DayType
  <2>1. day \in 1..Len(sliced)
    BY LenProperties DEF RunArgsInv
  <2> QED BY <2>1, ElementOfSeq DEF RunArgsInv, today
<1>2. /\ BtcAlloc \in Nat /\ ExtraBtcAlloc \in Nat /\ TrendAlloc \in Nat /\ Unallocated \in Nat
      /\ BtcAlloc + ExtraBtcAlloc + TrendAlloc + Unallocated = Contribution
  BY PartsAddUp
<1>3. today.btc \in Nat
  BY <1>1, DayFacts
<1>4. PICK b \in Nat : /\ b = Buys(BtcAlloc + ExtraBtcAlloc, today.btc)
                       /\ b * today.btc = BtcAlloc + ExtraBtcAlloc
  BY PurchasesOfDay
<1>5. btcUnits' = btcUnits + b
  BY <1>4 DEF Simulate
<1>6. btcUnits \in Nat /\ btcUnits' \in Nat /\ cashHeld \in Nat /\ altUnits \in [Alts -> Nat]
  BY <1>5 DEF HoldingsOK
<1>7. btcUnits' * today.btc = btcUnits * today.btc + (BtcAlloc + ExtraBtcAlloc)
  <2>1. \A m, n, p \in Nat : (m + n) * p = m * p + n * p
    BY SMT
  <2> QED BY <1>3, <1>4, <1>5, <1>6, <2>1
<1>8. /\ altUnits' \in [Alts -> Nat] /\ cashHeld' \in Nat
      /\ \/ /\ SumOf(AltValues(today, altUnits')) = SumOf(AltValues(today, altUnits)) + TrendAlloc
            /\ cashHeld' = cashHeld + Unallocated
         \/ /\ SumOf(AltValues(today, altUnits')) = SumOf(AltValues(today, altUnits))
            /\ cashHeld' = cashHeld + Unallocated + TrendAlloc
  <2>1. CASE today.up # {} /\ TrendAlloc > 0
    <3>1. /\ altUnits' = [a \in Alts |-> altUnits[a] +
                            IF a \in today.up THEN Buys(PerAlt, today.alt[a]) ELSE 0]
          /\ cashHeld' = cashHeld + Unallocated
      BY <2>1 DEF Simulate
    <3>2. /\ altUnits' \in [Alts -> Nat]
          /\ SumOf(AltValues(today, altUnits')) = SumOf(AltValues(today, altUnits)) + TrendAlloc
      BY <2>1, <3>1, TrendSpent
    <3> QED BY <1>2, <1>6, <3>1, <3>2
  <2>2. CASE ~(today.up # {} /\ TrendAlloc > 0)
    <3>1. altUnits' = altUnits /\ cashHeld' = cashHeld + Unallocated + TrendAlloc
      BY <2>2 DEF Simulate
    <3> QED BY <1>2, <1>6, <3>1
  <2> QED BY <2>1, <2>2
<1>9. /\ ValueAt(today, btcUnits, altUnits, cashHeld)
           = btcUnits * today.btc + SumOf(AltValues(today, altUnits)) + cashHeld
      /\ btcUnits * today.btc \in Nat /\ SumOf(AltValues(today, altUnits)) \in Nat
  BY <1>1, <1>6, ValueFacts, SMTT(30)
<1>10. ValueAt(today, btcUnits', altUnits', cashHeld')
         = btcUnits' * today.btc + SumOf(AltValues(today, altUnits')) + cashHeld'
  BY <1>1, <1>6, <1>8, ValueFacts, ZenonT(30)
<1>11. HoldingsOK'
  BY <1>6, <1>8 DEF HoldingsOK
<1> QED BY <1>2, <1>6, <1>7, <1>8, <1>9, <1>10, <1>11

-----------------------------------------------------------------------------
(* The simulation *)

LEMMA MinOf ==
    ASSUME NEW S, S \subseteq Nat, S # {}
    PROVE  Min(S) \in S /\ \A y \in S : Min(S) <= y
<1>1. \E x \in S : \A y \in S : x <= y
  BY LeastNatural
<1> QED BY <1>1 DEF Min

LEMMA MaxOf ==
    ASSUME NEW n \in Nat, NEW S, S \subseteq 1..n, S # {}
    PROVE  Max(S) \in S /\ \A y \in S : y <= Max(S)
<1> DEFINE T == {n - y : y \in S}
<1>1. T \subseteq Nat /\ T # {}
  <2>1. \A y \in S : n - y \in Nat
    BY SMT
  <2> QED BY <2>1
<1>2. PICK z \in T : \A t \in T : z <= t
  <2> HIDE DEF T
  <2> QED BY <1>1, LeastNatural
<1>3. PICK x \in S : z = n - x
  BY <1>2
<1>4. \A y \in S : y <= x
  <2> SUFFICES ASSUME NEW y \in S PROVE y <= x
    OBVIOUS
  <2>1. n - x <= n - y
    BY <1>2, <1>3
  <2>2. x \in Nat /\ y \in Nat
    OBVIOUS
  <2> QED BY <2>1, <2>2
<1>5. \E u \in S : \A y \in S : u >= y
  BY <1>4
<1>6. Max(S) \in S /\ \A y \in S : Max(S) >= y
  BY <1>5 DEF Max
<1> QED BY <1>6

(* A slice of a history is one: its days, in its order. *)
LEMMA SliceFacts ==
    ASSUME NEW h \in Histories, NEW w, NEW lookback, NEW s, s = Slice(h, w, lookback)
    PROVE  /\ s \in Seq(DayType)
           /\ \A i \in DOMAIN s : \E j \in DOMAIN h : s[i] = h[j]
           /\ \A i, j \in DOMAIN s : i < j => s[i].date < s[j].date
<1> DEFINE kept == {i \in DOMAIN h : /\ w.start # 0 => h[i].date >= w.start - lookback
                                     /\ w.end # 0 => h[i].date <= w.end}
<1>1. /\ h \in Seq(DayType) /\ DOMAIN h = 1..Len(h) /\ Len(h) \in Nat
      /\ \A i, j \in DOMAIN h : i < j => h[i].date < h[j].date
  BY ComboBacktestAssumption, LenProperties
<1>2. s = IF kept = {} THEN <<>> ELSE SubSeq(h, Min(kept), Max(kept))
  BY DEF Slice
<1>3. kept \subseteq 1..Len(h)
  BY <1>1
<1> HIDE DEF kept
<1>4. CASE kept = {}
  <2>1. s = <<>>
    BY <1>2, <1>4
  <2>2. s \in Seq(DayType) /\ DOMAIN s = 1..0
    BY <2>1, EmptySeq, LenProperties
  <2> QED BY <2>2
<1>5. CASE kept # {}
  <2>1. Min(kept) \in kept
    <3>1. kept \subseteq Nat
      BY <1>3, SMT
    <3> QED BY <1>5, <3>1, MinOf
  <2>2. Max(kept) \in kept
    BY <1>1, <1>3, <1>5, MaxOf
  <2>3. PICK m \in 1..Len(h), n \in 1..Len(h) : m = Min(kept) /\ n = Max(kept)
    BY <1>3, <2>1, <2>2
  <2>4. \A i \in m..n : i \in 1..Len(h) /\ h[i] \in DayType
    BY <1>1, ElementOfSeq
  <2>5. s = SubSeq(h, m, n)
    BY <1>2, <1>5, <2>3
  <2>6. /\ s \in Seq(DayType)
        /\ Len(s) = IF m <= n THEN n - m + 1 ELSE 0
        /\ \A i \in 1..(n - m + 1) : s[i] = h[m + i - 1]
    BY <2>3, <2>4, <2>5, SubSeqProperties
  <2>7. DOMAIN s = 1..Len(s)
    BY <2>6, LenProperties
  <2>8. \A i \in DOMAIN s : m + i - 1 \in 1..Len(h) /\ s[i] = h[m + i - 1]
    BY <1>1, <2>6, <2>7
  <2>9. \A i, j \in DOMAIN s : i < j => s[i].date < s[j].date
    <3> SUFFICES ASSUME NEW i \in DOMAIN s, NEW j \in DOMAIN s, i < j
                 PROVE  s[i].date < s[j].date
      OBVIOUS
    <3>1. /\ m + i - 1 \in DOMAIN h /\ m + j - 1 \in DOMAIN h
          /\ s[i] = h[m + i - 1] /\ s[j] = h[m + j - 1]
      BY <1>1, <2>8
    <3>2. m + i - 1 < m + j - 1
      BY <2>6, <2>7
    <3> QED BY <1>1, <3>1, <3>2
  <2> QED BY <1>1, <2>6, <2>8, <2>9
<1> QED BY <1>4, <1>5

LEMMA RunArgsInit == RunInit => RunArgsInv
<1> SUFFICES ASSUME RunInit PROVE RunArgsInv
  OBVIOUS
<1>1. config \in Configs /\ request \in Requests
  BY DEF RunInit
<1>2. PICK h \in Histories : sliced = Slice(h, request, config.minHistory + ExtraDays)
  BY DEF RunInit
<1>3. /\ sliced \in Seq(DayType)
      /\ \A i \in DOMAIN sliced : \E j \in DOMAIN h : sliced[i] = h[j]
      /\ \A i, j \in DOMAIN sliced : i < j => sliced[i].date < sliced[j].date
  BY <1>2, SliceFacts
<1>4. \A j \in DOMAIN h : Fine(h[j])
  BY <1>1, GrainAssumption DEF Fine, Contribution
<1>5. \A i \in DOMAIN sliced : Fine(sliced[i])
  <2> SUFFICES ASSUME NEW i \in DOMAIN sliced PROVE Fine(sliced[i])
    OBVIOUS
  <2>1. PICK j \in DOMAIN h : sliced[i] = h[j]
    BY <1>3
  <2> QED BY <1>4, <2>1
<1> QED BY <1>1, <1>3, <1>5 DEF RunArgsInv

LEMMA RunArgsStay == RunArgsInv /\ UNCHANGED runArgs => RunArgsInv'
<1> SUFFICES ASSUME RunArgsInv, UNCHANGED runArgs PROVE RunArgsInv'
  OBVIOUS
<1>1. sliced' = sliced /\ config' = config /\ request' = request
  BY DEF runArgs
<1>2. \A i \in DOMAIN sliced : Fine(sliced[i])'
  BY <1>1 DEF RunArgsInv, Fine, Contribution
<1> QED BY <1>1, <1>2 DEF RunArgsInv

HoldsSomething == btcUnits > 0 \/ cashHeld > 0 \/ \E a \in Alts : altUnits[a] > 0

(* The equity of a day is at least its contribution, and more but on the   *)
(* first day, because what is held is never worth nothing.                 *)
ValuesInv ==
    /\ portfolioValues \in Seq(Nat)
    /\ \A i \in DOMAIN portfolioValues :
         /\ portfolioValues[i] >= Contribution
         /\ i # 1 => portfolioValues[i] > Contribution
    /\ portfolioValues # <<>> => HoldsSomething

ProgressInv ==
    /\ stage \in {"simulate", "report", "done", "failed"}
    /\ stage = "simulate" => day \in DOMAIN sliced /\ Len(portfolioValues) = day - 1
    /\ stage \in {"report", "done"} => Len(portfolioValues) = Len(sliced)
    /\ stage = "failed" => portfolioValues = <<>>
    /\ stage = "done" => report = WindowReport

RunInv == RunArgsInv /\ HoldingsOK /\ ValuesInv /\ ProgressInv

LEMMA RunStart == RunInit => RunInv
<1> SUFFICES ASSUME RunInit PROVE RunInv
  OBVIOUS
<1>1. RunArgsInv
  BY RunArgsInit
<1>2. HoldingsOK
  BY DEF RunInit, HoldingsOK
<1>3. portfolioValues = <<>> /\ day = 1
      /\ stage = IF sliced = <<>> \/ Len(sliced) < config.minHistory THEN "failed" ELSE "simulate"
  BY DEF RunInit
<1>4. portfolioValues \in Seq(Nat) /\ Len(portfolioValues) = 0 /\ DOMAIN portfolioValues = {}
  <2>1. portfolioValues \in Seq(Nat) /\ Len(portfolioValues) = 0
    BY <1>3, EmptySeq
  <2> QED BY <2>1, LenProperties
<1>5. ValuesInv
  BY <1>3, <1>4 DEF ValuesInv
<1>6. stage = "simulate" => day \in DOMAIN sliced
  <2>1. sliced # <<>> => 1 \in DOMAIN sliced
    <3>1. sliced \in Seq(DayType)
      BY <1>1 DEF RunArgsInv
    <3>2. sliced # <<>> => Len(sliced) \in Nat \ {0}
      BY <3>1, EmptySeq
    <3>3. DOMAIN sliced = 1..Len(sliced) /\ Len(sliced) \in Nat
      BY <3>1, LenProperties
    <3> QED BY <3>2, <3>3
  <2> QED BY <1>3, <2>1
<1>7. ProgressInv
  BY <1>3, <1>4, <1>6 DEF ProgressInv
<1> QED BY <1>1, <1>2, <1>5, <1>7 DEF RunInv

LEMMA SimulateKeeps == RunInv /\ Simulate => RunInv'
<1> SUFFICES ASSUME RunInv, Simulate PROVE RunInv'
  OBVIOUS
<1>1. /\ RunArgsInv /\ HoldingsOK /\ ValuesInv
      /\ day \in DOMAIN sliced /\ Len(portfolioValues) = day - 1
  BY DEF RunInv, ProgressInv, Simulate
<1>2. RunArgsInv'
  BY <1>1, RunArgsStay DEF Simulate
<1>3. /\ HoldingsOK'
      /\ ValueAt(today, btcUnits', altUnits', cashHeld')
           = ValueAt(today, btcUnits, altUnits, cashHeld) + Contribution
  BY <1>1, DayGains
<1>4. /\ sliced \in Seq(DayType) /\ Len(sliced) \in Nat /\ DOMAIN sliced = 1..Len(sliced)
  BY <1>1, LenProperties DEF RunArgsInv
<1>5. today \in DayType
  BY <1>1, <1>4, ElementOfSeq DEF today
<1>6. Contribution \in Nat \ {0} /\ Contribution' = Contribution
  BY <1>1, ConfigFacts DEF RunArgsInv, Simulate, runArgs, Contribution
<1> DEFINE before == ValueAt(today, btcUnits, altUnits, cashHeld)
           value == ValueAt(today, btcUnits', altUnits', cashHeld')
<1>7. before \in Nat /\ (portfolioValues # <<>> => before > 0)
  BY <1>1, <1>5, ValueFacts, WorthSomething DEF HoldingsOK, ValuesInv, HoldsSomething
<1>8. value = before + Contribution /\ value \in Nat
  BY <1>3, <1>6, <1>7
<1>9. portfolioValues' = Append(portfolioValues, value)
  BY DEF Simulate
<1>10. HoldsSomething'
  <2>1. value > 0
    BY <1>6, <1>7, <1>8
  <2>2. btcUnits' \in Nat /\ altUnits' \in [Alts -> Nat] /\ cashHeld' \in Nat
    BY <1>3 DEF HoldingsOK
  <2>3. btcUnits' > 0 \/ cashHeld' > 0 \/ \E a \in Alts : altUnits'[a] > 0
    BY <1>5, <2>1, <2>2, WorthSomething
  <2> QED BY <2>3 DEF HoldsSomething
<1> HIDE DEF before, value
<1>11. /\ portfolioValues \in Seq(Nat) /\ DOMAIN portfolioValues = 1..Len(portfolioValues)
       /\ Len(portfolioValues) \in Nat
  BY <1>1, LenProperties DEF ValuesInv
<1>12. /\ portfolioValues' \in Seq(Nat) /\ Len(portfolioValues') = Len(portfolioValues) + 1
       /\ \A i \in 1..Len(portfolioValues) : portfolioValues'[i] = portfolioValues[i]
       /\ portfolioValues'[Len(portfolioValues) + 1] = value
  BY <1>8, <1>9, <1>11, AppendProperties
<1>13. DOMAIN portfolioValues' = 1..(Len(portfolioValues) + 1)
  BY <1>12, LenProperties
<1>14. ASSUME NEW i \in DOMAIN portfolioValues'
       PROVE  /\ portfolioValues'[i] >= Contribution
              /\ i # 1 => portfolioValues'[i] > Contribution
  <2>1. CASE i \in 1..Len(portfolioValues)
    BY <1>1, <1>11, <1>12, <2>1 DEF ValuesInv
  <2>2. CASE i = Len(portfolioValues) + 1
    <3>1. portfolioValues'[i] = before + Contribution
      BY <1>8, <1>12, <2>2
    <3>2. i # 1 => portfolioValues # <<>>
      <4> SUFFICES ASSUME portfolioValues = <<>> PROVE i = 1
        OBVIOUS
      <4>1. Len(portfolioValues) = 0
        BY EmptySeq
      <4> QED BY <2>2, <4>1
    <3> QED BY <1>6, <1>7, <3>1, <3>2
  <2> QED BY <1>11, <1>13, <2>1, <2>2
<1>15. ValuesInv'
  BY <1>6, <1>10, <1>12, <1>14 DEF ValuesInv
<1>16. /\ sliced' = sliced
       /\ \/ day < Len(sliced) /\ day' = day + 1 /\ stage' = "simulate"
          \/ ~(day < Len(sliced)) /\ stage' = "report"
  BY DEF Simulate, runArgs
<1>17. ProgressInv'
  <2>1. CASE day < Len(sliced) /\ day' = day + 1 /\ stage' = "simulate"
    <3>1. day' \in DOMAIN sliced' /\ Len(portfolioValues') = day' - 1
      BY <1>1, <1>4, <1>12, <1>16, <2>1
    <3> QED BY <2>1, <3>1 DEF ProgressInv
  <2>2. CASE ~(day < Len(sliced)) /\ stage' = "report"
    <3>1. Len(portfolioValues') = Len(sliced')
      BY <1>1, <1>4, <1>12, <1>16, <2>2
    <3> QED BY <2>2, <3>1 DEF ProgressInv
  <2> QED BY <1>16, <2>1, <2>2
<1> QED BY <1>2, <1>3, <1>15, <1>17 DEF RunInv

-----------------------------------------------------------------------------
(* The window *)

(* A window is an interval of the simulation, and what is passed on of it  *)
(* is what the simulation has there.                                       *)
IsWindow(m, n) ==
    /\ m \in Nat \ {0} /\ n \in Nat /\ m <= n /\ n <= Len(portfolioValues)
    /\ WindowDays = m..n /\ Min(WindowDays) = m
    /\ WindowEquity \in Seq(Nat) /\ Len(WindowEquity) = n - m + 1
    /\ DOMAIN WindowEquity = 1..(n - m + 1)
    /\ InitialEquity = Prior(portfolioValues, 0, m)
    /\ \A i \in 1..(n - m + 1) :
         /\ m + i - 1 \in DOMAIN portfolioValues
         /\ WindowEquity[i] = portfolioValues[m + i - 1]
         /\ Prior(WindowEquity, InitialEquity, i) = Prior(portfolioValues, 0, m + i - 1)

LEMMA WindowFacts ==
    ASSUME RunArgsInv, ValuesInv, Len(portfolioValues) = Len(sliced), WindowDays # {}
    PROVE  \E m, n \in Nat : IsWindow(m, n)
<1>1. /\ sliced \in Seq(DayType) /\ Len(sliced) \in Nat /\ DOMAIN sliced = 1..Len(sliced)
      /\ portfolioValues \in Seq(Nat) /\ DOMAIN portfolioValues = 1..Len(sliced)
      /\ \A i \in DOMAIN sliced : sliced[i].date \in Nat
      /\ \A i, j \in DOMAIN sliced : i < j => sliced[i].date < sliced[j].date
      /\ request.start \in Nat /\ request.end \in Nat
  <2>1. /\ sliced \in Seq(DayType) /\ Len(sliced) \in Nat /\ DOMAIN sliced = 1..Len(sliced)
        /\ portfolioValues \in Seq(Nat) /\ DOMAIN portfolioValues = 1..Len(sliced)
    BY LenProperties DEF RunArgsInv, ValuesInv
  <2>2. \A i \in DOMAIN sliced : sliced[i].date \in Nat
    BY <2>1, ElementOfSeq, DayFacts
  <2>3. request.start \in Nat /\ request.end \in Nat
    BY ComboBacktestAssumption DEF RunArgsInv
  <2> QED BY <2>1, <2>2, <2>3 DEF RunArgsInv
<1>2. WindowDays \subseteq 1..Len(sliced)
  BY <1>1 DEF WindowDays
<1>3. PICK m \in WindowDays : m = Min(WindowDays) /\ \A i \in WindowDays : m <= i
  <2>1. WindowDays \subseteq Nat
    BY <1>2, SMT
  <2> QED BY <2>1, MinOf
<1>4. PICK n \in WindowDays : \A i \in WindowDays : i <= n
  BY <1>1, <1>2, MaxOf
<1>5. /\ m \in Nat \ {0} /\ n \in Nat /\ m <= n /\ n <= Len(portfolioValues)
      /\ m \in 1..Len(sliced) /\ n \in 1..Len(sliced)
  BY <1>1, <1>2, <1>3, <1>4
<1>6. WindowDays = m..n
  <2>1. \A i \in WindowDays : i \in m..n
    BY <1>2, <1>3, <1>4
  <2>2. ASSUME NEW i \in m..n PROVE i \in WindowDays
    <3>1. i \in DOMAIN sliced /\ m \in DOMAIN sliced /\ n \in DOMAIN sliced
      BY <1>1, <1>5
    <3>2. sliced[m].date <= sliced[i].date /\ sliced[i].date <= sliced[n].date
      <4>1. i = m \/ m < i
        BY <1>5
      <4>2. i = n \/ i < n
        BY <1>5
      <4>3. /\ m < i => sliced[m].date < sliced[i].date
            /\ i < n => sliced[i].date < sliced[n].date
        BY <1>1, <3>1
      <4> QED BY <1>1, <3>1, <4>1, <4>2, <4>3, SMTT(30)
    <3>3. InWindow(sliced[m]) /\ InWindow(sliced[n])
      BY DEF WindowDays
    <3>4. InWindow(sliced[i])
      BY <1>1, <3>1, <3>2, <3>3, SMTT(30) DEF InWindow
    <3> QED BY <3>1, <3>4 DEF WindowDays
  <2> QED BY <2>1, <2>2
<1> DEFINE k == n - m + 1
<1>7. k \in Nat \ {0}
  BY <1>5
<1>8. Cardinality(WindowDays) = k
  <2>1. m \in Int /\ n \in Int /\ ~(m > n)
    BY <1>5
  <2> QED BY <1>6, <2>1, FS_Interval
<1>9. \A i \in 1..k : m + i - 1 \in DOMAIN portfolioValues
  BY <1>1, <1>5, SMTT(30)
<1>10. WindowEquity = [i \in 1..k |-> portfolioValues[m + i - 1]]
  BY <1>3, <1>8 DEF WindowEquity
<1>11. WindowEquity \in [1..k -> Nat]
  <2>1. \A i \in 1..k : portfolioValues[m + i - 1] \in Nat
    BY <1>1, <1>9, ElementOfSeq
  <2> HIDE DEF k
  <2> QED BY <1>10, <2>1
<1>12. WindowEquity \in Seq(Nat) /\ DOMAIN WindowEquity = 1..k /\ Len(WindowEquity) = k
  <2> HIDE DEF k
  <2>1. WindowEquity \in Seq(Nat)
    BY <1>7, <1>11, SeqDef
  <2>2. DOMAIN WindowEquity = 1..k /\ DOMAIN WindowEquity = 1..Len(WindowEquity)
        /\ Len(WindowEquity) \in Nat
    BY <1>11, <2>1, LenProperties
  <2>3. \A a, b \in Nat : 1..a = 1..b => a = b
    <3> SUFFICES ASSUME NEW a \in Nat, NEW b \in Nat, 1..a = 1..b PROVE a = b
      OBVIOUS
    <3>1. \A i \in Nat \ {0} : i <= a <=> i <= b
      <4> SUFFICES ASSUME NEW i \in Nat \ {0} PROVE i <= a <=> i <= b
        OBVIOUS
      <4>1. (i \in 1..a <=> i <= a) /\ (i \in 1..b <=> i <= b)
        BY SMT
      <4> QED BY <4>1
    <3> QED BY <3>1, SMT
  <2> QED BY <1>7, <2>1, <2>2, <2>3
<1>13. InitialEquity = Prior(portfolioValues, 0, m)
  <2>1. Min(WindowDays) > 1 <=> m # 1
    BY <1>3, <1>5
  <2> QED BY <1>3, <2>1 DEF InitialEquity, Prior
<1>14. ASSUME NEW i \in 1..k
       PROVE  /\ WindowEquity[i] = portfolioValues[m + i - 1]
              /\ Prior(WindowEquity, InitialEquity, i) = Prior(portfolioValues, 0, m + i - 1)
  <2>1. WindowEquity[i] = portfolioValues[m + i - 1]
    BY <1>10
  <2>2. CASE i = 1
    <3>1. m + i - 1 = m
      BY <1>5, <2>2
    <3> QED BY <1>13, <2>1, <2>2, <3>1 DEF Prior
  <2>3. CASE i # 1
    <3>1. i - 1 \in 1..k /\ m + (i - 1) - 1 = (m + i - 1) - 1 /\ m + i - 1 # 1
      BY <1>5, <2>3
    <3>2. WindowEquity[i - 1] = portfolioValues[(m + i - 1) - 1]
      BY <1>10, <3>1
    <3> QED BY <2>1, <2>3, <3>1, <3>2 DEF Prior
  <2> QED BY <2>2, <2>3
<1>15. IsWindow(m, n)
  BY <1>3, <1>5, <1>6, <1>9, <1>12, <1>13, <1>14 DEF IsWindow
<1> QED BY <1>5, <1>15

(* The simulation never fails on its own figures, nor does a window of it. *)
LEMMA NeverRaises ==
    ASSUME RunArgsInv, ValuesInv, Len(portfolioValues) = Len(sliced)
    PROVE  /\ ~ReturnsRaise(portfolioValues, 0)
           /\ WindowDays # {} => ~ReturnsRaise(WindowEquity, InitialEquity)
<1>1. Contribution \in Nat \ {0}
  BY ConfigFacts DEF RunArgsInv
<1>2. DOMAIN portfolioValues = 1..Len(portfolioValues) /\ Len(portfolioValues) \in Nat
  BY LenProperties DEF ValuesInv
<1>3. \A i \in DOMAIN portfolioValues :
        /\ portfolioValues[i] \in Nat /\ portfolioValues[i] >= Contribution
        /\ i # 1 => portfolioValues[i] > Contribution
  BY <1>2, ElementOfSeq DEF ValuesInv
<1> DEFINE Raises(i) == IF Prior(portfolioValues, 0, i) = 0 THEN portfolioValues[i] <= 0
                        ELSE portfolioValues[i] - Contribution <= 0 \/ portfolioValues[i] <= 0
<1>4. \A i \in DOMAIN portfolioValues : ~Raises(i)
  <2> SUFFICES ASSUME NEW i \in DOMAIN portfolioValues PROVE ~Raises(i)
    OBVIOUS
  <2>1. ~(portfolioValues[i] <= 0)
    BY <1>1, <1>3
  <2>2. CASE i = 1
    <3>1. Prior(portfolioValues, 0, i) = 0
      BY <2>2 DEF Prior
    <3> QED BY <2>1, <3>1
  <2>3. CASE i # 1
    <3>1. ~(portfolioValues[i] - Contribution <= 0)
      BY <1>1, <1>3, <2>3
    <3> QED BY <2>1, <3>1
  <2> QED BY <2>2, <2>3
<1>5. ~ReturnsRaise(portfolioValues, 0)
  BY <1>4 DEF ReturnsRaise
<1>6. ASSUME WindowDays # {} PROVE ~ReturnsRaise(WindowEquity, InitialEquity)
  <2>1. PICK m \in Nat, n \in Nat : IsWindow(m, n)
    BY <1>6, WindowFacts
  <2>2. ASSUME NEW i \in DOMAIN WindowEquity
        PROVE  /\ m + i - 1 \in DOMAIN portfolioValues
               /\ WindowEquity[i] = portfolioValues[m + i - 1]
               /\ Prior(WindowEquity, InitialEquity, i) = Prior(portfolioValues, 0, m + i - 1)
    BY <2>1 DEF IsWindow
  <2>3. ASSUME NEW i \in DOMAIN WindowEquity
        PROVE  ~(IF Prior(WindowEquity, InitialEquity, i) = 0 THEN WindowEquity[i] <= 0
                 ELSE WindowEquity[i] - Contribution <= 0 \/ WindowEquity[i] <= 0)
    <3>1. ~Raises(m + i - 1)
      BY <1>4, <2>2
    <3> QED BY <2>2, <3>1
  <2> QED BY <2>3 DEF ReturnsRaise
<1> QED BY <1>5, <1>6

LEMMA ReportKeeps == RunInv /\ Report => RunInv'
<1> SUFFICES ASSUME RunInv, Report PROVE RunInv'
  OBVIOUS
<1>1. /\ RunArgsInv /\ HoldingsOK /\ ValuesInv
      /\ stage = "report" /\ Len(portfolioValues) = Len(sliced)
  BY DEF RunInv, ProgressInv, Report
<1>2. UNCHANGED <<runArgs, day, btcUnits, altUnits, cashHeld, portfolioValues>>
  BY DEF Report
<1>3. UNCHANGED <<sliced, config, request>>
  BY <1>2 DEF runArgs
<1>4. stage' = "done" /\ report' = WindowReport
  BY <1>1, NeverRaises DEF Report
<1>5. WindowReport' = WindowReport
  BY <1>2, <1>3 DEF WindowReport, WindowDays, InWindow, WindowEquity, InitialEquity, NoReport,
                    AdjustedReturns, Prior, Contribution
<1>6. RunArgsInv' /\ HoldingsOK' /\ ValuesInv'
  BY <1>1, <1>2, <1>3, RunArgsStay DEF HoldingsOK, ValuesInv, HoldsSomething, Contribution
<1>7. ProgressInv'
  BY <1>1, <1>2, <1>3, <1>4, <1>5 DEF ProgressInv
<1> QED BY <1>6, <1>7 DEF RunInv

LEMMA RunStands == RunInv /\ UNCHANGED runVars => RunInv'
<1> SUFFICES ASSUME RunInv, UNCHANGED runVars PROVE RunInv'
  OBVIOUS
<1>1. UNCHANGED <<runArgs, day, stage, btcUnits, altUnits, cashHeld, portfolioValues, report>>
  BY DEF runVars
<1>2. UNCHANGED <<sliced, config, request>>
  BY <1>1 DEF runArgs
<1>3. WindowReport' = WindowReport
  BY <1>1, <1>2 DEF WindowReport, WindowDays, InWindow, WindowEquity, InitialEquity, NoReport,
                    AdjustedReturns, Prior, Contribution
<1>4. RunArgsInv' /\ HoldingsOK' /\ ValuesInv'
  BY <1>1, <1>2, RunArgsStay
     DEF RunInv, HoldingsOK, ValuesInv, HoldsSomething, Contribution
<1>5. ProgressInv'
  BY <1>1, <1>2, <1>3 DEF RunInv, ProgressInv
<1> QED BY <1>4, <1>5 DEF RunInv

(* What holds at every step of a simulation: the units and the cash are    *)
(* amounts, something is held from the first day on, and every day is      *)
(* worth its contribution, and after the first more than that: no day's    *)
(* wealth is ever used up, with or without its flow.                       *)
THEOREM RunInvariant == RunSpec => []RunInv
<1>1. RunInv /\ [RunNext]_runVars => RunInv'
  BY SimulateKeeps, ReportKeeps, RunStands DEF RunNext
<1> QED BY <1>1, RunStart, PTL DEF RunSpec

(* However a contribution is split in whatever regime, it is worth its     *)
(* amount on the day it is made.                                           *)
THEOREM ContributionsAreKept == RunSpec => ContributionsKeepValue
<1>1. ASSUME RunInv, [RunNext]_runVars, portfolioValues' # portfolioValues
      PROVE  portfolioValues'[day] = ValueAt(today, btcUnits, altUnits, cashHeld) + Contribution
  <2>1. Simulate
    BY <1>1 DEF RunNext, Report, runVars
  <2>2. /\ RunArgsInv /\ HoldingsOK /\ portfolioValues \in Seq(Nat)
        /\ day \in DOMAIN sliced /\ Len(portfolioValues) = day - 1
    BY <1>1, <2>1 DEF RunInv, ValuesInv, ProgressInv, Simulate
  <2>3. /\ HoldingsOK'
        /\ ValueAt(today, btcUnits', altUnits', cashHeld')
             = ValueAt(today, btcUnits, altUnits, cashHeld) + Contribution
    BY <2>1, <2>2, DayGains
  <2>4. today \in DayType /\ day \in Nat
    <3>1. sliced \in Seq(DayType) /\ DOMAIN sliced = 1..Len(sliced) /\ Len(sliced) \in Nat
      BY <2>2, LenProperties DEF RunArgsInv
    <3> QED BY <2>2, <3>1, ElementOfSeq DEF today
  <2>5. ValueAt(today, btcUnits', altUnits', cashHeld') \in Nat
    BY <2>3, <2>4, ValueFacts DEF HoldingsOK
  <2>6. portfolioValues' = Append(portfolioValues, ValueAt(today, btcUnits', altUnits', cashHeld'))
    BY <2>1 DEF Simulate
  <2>7. portfolioValues'[Len(portfolioValues) + 1] = ValueAt(today, btcUnits', altUnits', cashHeld')
    BY <2>2, <2>5, <2>6, AppendProperties
  <2>8. Len(portfolioValues) + 1 = day
    BY <2>2, <2>4
  <2> QED BY <2>3, <2>7, <2>8
<1>2. RunInv /\ [RunNext]_runVars =>
        [portfolioValues' # portfolioValues =>
           portfolioValues'[day] = ValueAt(today, btcUnits, altUnits, cashHeld) + Contribution]_runVars
  BY <1>1
<1> QED BY <1>2, RunInvariant, PTL DEF RunSpec, ContributionsKeepValue

-----------------------------------------------------------------------------
(* The profit of a window *)

ValuesOf(v, m, n) == [i \in m..n |-> v[i]]

PriorsOf(v, m, n) == [i \in m..n |-> Prior(v, 0, i)]

(* The values of an interval and the values before them differ by the last *)
(* of the ones and the first of the others.                                *)
LEMMA Telescope ==
    ASSUME NEW v \in Seq(Nat), NEW m \in Nat \ {0}, NEW n \in Nat, m <= n, n <= Len(v)
    PROVE  /\ SumOf(ValuesOf(v, m, n)) \in Nat /\ SumOf(PriorsOf(v, m, n)) \in Nat
           /\ Prior(v, 0, m) \in Nat
           /\ SumOf(ValuesOf(v, m, n)) + Prior(v, 0, m) = SumOf(PriorsOf(v, m, n)) + v[n]
<1> DEFINE P(k) == /\ SumOf(ValuesOf(v, m, k)) \in Nat /\ SumOf(PriorsOf(v, m, k)) \in Nat
                   /\ SumOf(ValuesOf(v, m, k)) + Prior(v, 0, m) = SumOf(PriorsOf(v, m, k)) + v[k]
           T == {k \in m..Len(v) : ~P(k)}
<1>1. DOMAIN v = 1..Len(v) /\ Len(v) \in Nat /\ \A i \in 1..Len(v) : v[i] \in Nat
  BY LenProperties, ElementOfSeq
<1>2. \A i \in 1..Len(v) : Prior(v, 0, i) \in Nat
  <2> SUFFICES ASSUME NEW i \in 1..Len(v) PROVE Prior(v, 0, i) \in Nat
    OBVIOUS
  <2>1. CASE i = 1
    BY <2>1 DEF Prior
  <2>2. CASE i # 1
    <3>1. i - 1 \in 1..Len(v)
      BY <1>1, <2>2
    <3> QED BY <1>1, <2>2, <3>1 DEF Prior
  <2> QED BY <2>1, <2>2
<1>3. ASSUME NEW k \in m..Len(v)
      PROVE  LET values == ValuesOf(v, m, k)
                 priors == PriorsOf(v, m, k)
             IN  /\ IsFiniteSet(m..k) /\ k \in m..k
                 /\ (m..k) \ {k} = m..(k - 1)
                 /\ SumOf(values) = v[k] + SumOf(ValuesOf(v, m, k - 1))
                 /\ SumOf(ValuesOf(v, m, k - 1)) \in Nat
                 /\ SumOf(priors) = Prior(v, 0, k) + SumOf(PriorsOf(v, m, k - 1))
                 /\ SumOf(PriorsOf(v, m, k - 1)) \in Nat
  <2> DEFINE values == ValuesOf(v, m, k)
             priors == PriorsOf(v, m, k)
  <2>1. IsFiniteSet(m..k) /\ k \in m..k
    BY FS_Interval
  <2>2. (m..k) \ {k} = m..(k - 1)
    BY SMT
  <2>3. /\ DOMAIN values = m..k /\ DOMAIN priors = m..k
        /\ \A i \in m..k : values[i] = v[i] /\ priors[i] = Prior(v, 0, i)
    BY DEF ValuesOf, PriorsOf
  <2>4. \A i \in m..k : i \in 1..Len(v)
    BY <1>1
  <2>5. \A i \in m..k : values[i] \in Nat /\ priors[i] \in Nat
    BY <1>1, <1>2, <2>3, <2>4
  <2>6. /\ [y \in (m..k) \ {k} |-> values[y]] = ValuesOf(v, m, k - 1)
        /\ [y \in (m..k) \ {k} |-> priors[y]] = PriorsOf(v, m, k - 1)
    BY <2>2, <2>3 DEF ValuesOf, PriorsOf
  <2> HIDE DEF values, priors
  <2>7. /\ SumOf(values) = values[k] + SumOf([y \in (m..k) \ {k} |-> values[y]])
        /\ SumOf([y \in (m..k) \ {k} |-> values[y]]) \in Nat
    BY <2>1, <2>3, <2>5, SumRemove
  <2>8. /\ SumOf(priors) = priors[k] + SumOf([y \in (m..k) \ {k} |-> priors[y]])
        /\ SumOf([y \in (m..k) \ {k} |-> priors[y]]) \in Nat
    BY <2>1, <2>3, <2>5, SumRemove
  <2>9. /\ SumOf(values) = v[k] + SumOf(ValuesOf(v, m, k - 1))
        /\ SumOf(ValuesOf(v, m, k - 1)) \in Nat
        /\ SumOf(priors) = Prior(v, 0, k) + SumOf(PriorsOf(v, m, k - 1))
        /\ SumOf(PriorsOf(v, m, k - 1)) \in Nat
    BY <2>1, <2>3, <2>6, <2>7, <2>8
  <2> QED BY <2>1, <2>2, <2>9 DEF values, priors
<1>4. T = {}
  <2> SUFFICES ASSUME T # {} PROVE FALSE
    OBVIOUS
  <2>1. PICK k \in T : \A i \in T : k <= i
    <3>1. T \subseteq Nat
      OBVIOUS
    <3> HIDE DEF T
    <3> QED BY <3>1, LeastNatural
  <2>2. /\ k \in m..Len(v) /\ k \in 1..Len(v) /\ m \in 1..Len(v) /\ ~P(k)
        /\ v[k] \in Nat /\ Prior(v, 0, k) \in Nat /\ Prior(v, 0, m) \in Nat
    BY <1>1, <1>2
  <2>3. /\ SumOf(ValuesOf(v, m, k)) = v[k] + SumOf(ValuesOf(v, m, k - 1))
        /\ SumOf(ValuesOf(v, m, k - 1)) \in Nat
        /\ SumOf(PriorsOf(v, m, k)) = Prior(v, 0, k) + SumOf(PriorsOf(v, m, k - 1))
        /\ SumOf(PriorsOf(v, m, k - 1)) \in Nat
    BY <1>3, <2>2
  <2>4. CASE k = m
    <3>1. m..(k - 1) = {}
      BY <2>4, SMT
    <3>2. DOMAIN ValuesOf(v, m, k - 1) = {} /\ DOMAIN PriorsOf(v, m, k - 1) = {}
      BY <3>1 DEF ValuesOf, PriorsOf
    <3>3. SumOf(ValuesOf(v, m, k - 1)) = 0 /\ SumOf(PriorsOf(v, m, k - 1)) = 0
      BY <3>2, EmptySum
    <3> QED BY <2>2, <2>3, <2>4, <3>3
  <2>5. CASE k # m
    <3>1. k - 1 \in m..Len(v) /\ k # 1
      BY <1>1, <2>2, <2>5
    <3>2. k - 1 \notin T
      BY <2>1, <2>2, SMTT(30)
    <3>3. P(k - 1)
      BY <3>1, <3>2
    <3>4. Prior(v, 0, k) = v[k - 1]
      BY <3>1 DEF Prior
    <3>5. /\ SumOf(ValuesOf(v, m, k - 1)) \in Nat /\ SumOf(PriorsOf(v, m, k - 1)) \in Nat
          /\ SumOf(ValuesOf(v, m, k - 1)) + Prior(v, 0, m) = SumOf(PriorsOf(v, m, k - 1)) + v[k - 1]
      BY <3>3
    <3>6. v[k - 1] \in Nat
      BY <2>2, <3>4
    <3>7. /\ v[k] \in Nat /\ Prior(v, 0, k) \in Nat /\ Prior(v, 0, m) \in Nat
           /\ SumOf(ValuesOf(v, m, k - 1)) \in Nat /\ SumOf(PriorsOf(v, m, k - 1)) \in Nat
      BY <2>2, <3>5
    <3> DEFINE s == SumOf(ValuesOf(v, m, k - 1))
               t == SumOf(PriorsOf(v, m, k - 1))
               x == Prior(v, 0, m)
               y == v[k - 1]
               z == v[k]
    <3> HIDE DEF P, T, s, t, x, y, z
    <3>8. s \in Nat /\ t \in Nat /\ x \in Nat /\ y \in Nat /\ z \in Nat /\ s + x = t + y
      BY <3>5, <3>6, <3>7 DEF s, t, x, y, z
    <3>9. (z + s) + x = (y + t) + z /\ z + s \in Nat /\ y + t \in Nat
      BY <3>8
    <3>10. (v[k] + SumOf(ValuesOf(v, m, k - 1))) + Prior(v, 0, m)
            = (v[k - 1] + SumOf(PriorsOf(v, m, k - 1))) + v[k]
      BY <3>9 DEF s, t, x, y, z
    <3>11. SumOf(ValuesOf(v, m, k)) + Prior(v, 0, m) = SumOf(PriorsOf(v, m, k)) + v[k]
      BY <2>3, <3>4, <3>10
    <3>12. SumOf(ValuesOf(v, m, k)) \in Nat /\ SumOf(PriorsOf(v, m, k)) \in Nat
      BY <2>3, <3>4, <3>9 DEF s, t, y, z
    <3> QED BY <2>2, <3>11, <3>12 DEF P
  <2> QED BY <2>4, <2>5
<1>5. n \in m..Len(v) /\ m \in 1..Len(v)
  BY <1>1
<1>6. P(n)
  BY <1>4, <1>5
<1> QED BY <1>2, <1>5, <1>6

LEMMA ProfitOfWindow ==
    ASSUME RunArgsInv, ValuesInv, NEW m \in Nat, NEW n \in Nat, IsWindow(m, n)
    PROVE  portfolioValues[n] - (Prior(portfolioValues, 0, m) + Contribution * (n - m + 1))
             = SumOf([i \in m..n |-> portfolioValues[i] - Contribution - Prior(portfolioValues, 0, i)])
<1> DEFINE v == portfolioValues
           c == Contribution
           k == n - m + 1
           a == ValuesOf(v, m, n)
           p == PriorsOf(v, m, n)
           q == [i \in m..n |-> c]
           b == [i \in m..n |-> Prior(v, 0, i) + c]
           f == [i \in m..n |-> v[i] - c - Prior(v, 0, i)]
<1>1. /\ m \in Nat \ {0} /\ m <= n /\ n <= Len(v) /\ v \in Seq(Nat)
  BY DEF IsWindow, ValuesInv
<1>2. c \in Nat /\ k \in Nat
  <2>1. c \in Nat
    BY ConfigFacts DEF RunArgsInv
  <2> QED BY <1>1, <2>1
<1>3. IsFiniteSet(m..n) /\ Cardinality(m..n) = k
  <2>1. m \in Int /\ n \in Int /\ ~(m > n)
    BY <1>1
  <2> QED BY <2>1, FS_Interval
<1>4. \A i \in m..n : v[i] \in Nat /\ Prior(v, 0, i) \in Nat
  <2> SUFFICES ASSUME NEW i \in m..n PROVE v[i] \in Nat /\ Prior(v, 0, i) \in Nat
    OBVIOUS
  <2>1. i \in 1..Len(v) /\ Len(v) \in Nat
    BY <1>1, LenProperties
  <2>2. v[i] \in Nat
    BY <1>1, <2>1, ElementOfSeq
  <2>3. CASE i = 1
    BY <2>2, <2>3 DEF Prior
  <2>4. CASE i # 1
    <3>1. i - 1 \in 1..Len(v)
      BY <2>1, <2>4
    <3>2. v[i - 1] \in Nat
      BY <1>1, <3>1, ElementOfSeq
    <3> QED BY <2>2, <2>4, <3>2 DEF Prior
  <2> QED BY <2>3, <2>4
<1>5. /\ SumOf(a) \in Nat /\ SumOf(p) \in Nat /\ Prior(v, 0, m) \in Nat
      /\ SumOf(a) + Prior(v, 0, m) = SumOf(p) + v[n]
  BY <1>1, Telescope
<1>6. /\ DOMAIN a = m..n /\ DOMAIN p = m..n /\ DOMAIN q = m..n /\ DOMAIN b = m..n /\ DOMAIN f = m..n
      /\ \A i \in m..n : /\ a[i] = v[i] /\ p[i] = Prior(v, 0, i) /\ q[i] = c
                         /\ b[i] = Prior(v, 0, i) + c /\ f[i] = v[i] - c - Prior(v, 0, i)
  BY DEF ValuesOf, PriorsOf
<1>7. n \in m..n /\ v[n] \in Nat
  <2>1. n \in m..n
    BY <1>1
  <2> QED BY <1>4, <2>1
<1> HIDE DEF v, c, k, a, p, q, b, f
<1>8. \A i \in m..n : /\ a[i] \in Nat /\ p[i] \in Nat /\ q[i] \in Nat /\ b[i] \in Nat
                      /\ b[i] = p[i] + q[i] /\ f[i] = a[i] - b[i]
  <2> SUFFICES ASSUME NEW i \in m..n
               PROVE  /\ a[i] \in Nat /\ p[i] \in Nat /\ q[i] \in Nat /\ b[i] \in Nat
                      /\ b[i] = p[i] + q[i] /\ f[i] = a[i] - b[i]
    OBVIOUS
  <2>1. \A x, y, z \in Nat : z + y \in Nat /\ x - y - z = x - (z + y)
    OBVIOUS
  <2>2. v[i] \in Nat /\ Prior(portfolioValues, 0, i) \in Nat
    BY <1>4 DEF v
  <2>3. v[i] - c - Prior(portfolioValues, 0, i) = v[i] - (Prior(portfolioValues, 0, i) + c)
    BY <1>2, <2>1, <2>2
  <2>4. /\ a[i] = v[i] /\ p[i] = Prior(portfolioValues, 0, i) /\ q[i] = c
        /\ b[i] = Prior(portfolioValues, 0, i) + c
        /\ f[i] = v[i] - c - Prior(portfolioValues, 0, i)
    BY <1>6 DEF v
  <2> QED BY <1>2, <2>1, <2>2, <2>3, <2>4
<1>9. SumOf(q) = k * c
  BY <1>2, <1>3, <1>6, SumConstant
<1>10. SumOf(b) = SumOf(p) + SumOf(q)
  BY <1>3, <1>6, <1>8, SumPlus
<1>11. SumOf(f) = SumOf(a) - SumOf(b)
  BY <1>3, <1>6, <1>8, SumDifference
<1>12. k * c \in Nat /\ k * c = c * k
  BY <1>2, SMT
<1>13. v[n] - (Prior(v, 0, m) + c * k) = SumOf(f)
  BY <1>5, <1>7, <1>9, <1>10, <1>11, <1>12
<1> QED BY <1>13 DEF v, c, k, f

(* A reported window is a part of the one simulation, in its returns and   *)
(* in its profit, whatever its dates, and nothing but a history that is    *)
(* too short ends a run.                                                   *)
THEOREM WindowsAreSlices == RunSpec => []WindowIsSlice
<1>1. ASSUME RunInv PROVE WindowIsSlice
  <2>1. stage = "failed" => portfolioValues = <<>>
    BY <1>1 DEF RunInv, ProgressInv
  <2>2. ASSUME stage = "done", WindowDays # {}
        PROVE  /\ \A i \in DOMAIN report.returns :
                    report.returns[i] = AdjustedReturns(portfolioValues, 0)[Min(WindowDays) + i - 1]
               /\ report.profit =
                    SumOf([i \in WindowDays |->
                             portfolioValues[i] - Contribution - Prior(portfolioValues, 0, i)])
    <3>1. RunArgsInv /\ ValuesInv /\ Len(portfolioValues) = Len(sliced) /\ report = WindowReport
      BY <1>1, <2>2 DEF RunInv, ProgressInv
    <3>2. PICK m \in Nat, n \in Nat : IsWindow(m, n)
      BY <2>2, <3>1, WindowFacts
    <3>3. /\ report.returns = AdjustedReturns(WindowEquity, InitialEquity)
          /\ report.profit = WindowEquity[Len(WindowEquity)]
                               - (InitialEquity + Contribution * Len(WindowEquity))
      BY <2>2, <3>1 DEF WindowReport
    <3>4. ASSUME NEW i \in DOMAIN report.returns
          PROVE  report.returns[i] = AdjustedReturns(portfolioValues, 0)[Min(WindowDays) + i - 1]
      <4>1. DOMAIN report.returns = DOMAIN WindowEquity
        BY <3>3 DEF AdjustedReturns
      <4>2. i \in 1..(n - m + 1)
        BY <3>2, <4>1 DEF IsWindow
      <4>3. /\ Min(WindowDays) = m /\ m + i - 1 \in DOMAIN portfolioValues
            /\ WindowEquity[i] = portfolioValues[m + i - 1]
            /\ Prior(WindowEquity, InitialEquity, i) = Prior(portfolioValues, 0, m + i - 1)
        BY <3>2, <4>2 DEF IsWindow
      <4> QED BY <3>3, <4>1, <4>3 DEF AdjustedReturns
    <3>5. WindowEquity[Len(WindowEquity)] = portfolioValues[n] /\ Len(WindowEquity) = n - m + 1
          /\ InitialEquity = Prior(portfolioValues, 0, m) /\ WindowDays = m..n
      <4>1. n - m + 1 \in 1..(n - m + 1) /\ m + (n - m + 1) - 1 = n
        BY <3>2 DEF IsWindow
      <4> QED BY <3>2, <4>1 DEF IsWindow
    <3>6. report.profit =
            portfolioValues[n] - (Prior(portfolioValues, 0, m) + Contribution * (n - m + 1))
      BY <3>3, <3>5
    <3> QED BY <3>1, <3>2, <3>4, <3>5, <3>6, ProfitOfWindow
  <2> QED BY <2>1, <2>2 DEF WindowIsSlice
<1> QED BY <1>1, RunInvariant, PTL

=============================================================================
