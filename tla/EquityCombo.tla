---------------------------- MODULE EquityCombo ----------------------------
(***************************************************************************)
(* The crypto_equity_combo profile on one account, over several cycles.    *)
(*                                                                         *)
(* evaluate_crypto_equity_combo turns the target weights of ComboStrategy  *)
(* into a decision: positions and two budgets, which the risk gate may     *)
(* take back, and in its diagnostics the exits of held symbols and the     *)
(* planned buys, which it may not.  The platform (external) sells, buys    *)
(* and saves the trade state of a symbol in separate steps and may stop    *)
(* between any two of them; then the market moves.                         *)
(*                                                                         *)
(* Positions are whole lots; money is counted in whole units, and an       *)
(* amount that is not whole is rounded down.                               *)
(***************************************************************************)
EXTENDS ComboStrategy, Sequences

CONSTANTS
    Configs,         \* configurations of the profile
    Markets,         \* what one cycle may show, see MarketType
    Accounts,        \* accounts to start from: cash and lots of each symbol
    PoolSize,        \* config["trend_pool_size"]
    AtrMultiplier,   \* config["atr_multiplier"]
    AllowEntries,    \* config["allow_new_trend_entries"]
    StoreThrough,    \* does set_symbol_trade_state_fn write the platform's state?
    MaxCycles        \* bound: evaluations of one behaviour

(* mark: the prices the account is valued at; input: what the profile      *)
(* reads; universe: universe_snapshot.                                     *)
MarketType ==
    [mark : [Symbols \cup {BTC} -> Nat \ {0}], input : InputType, universe : Seq(Symbols)]

AccountType == [cash : Nat, locked : Nat, lots : [Symbols \cup {BTC} -> Nat]]

(* Only sound configurations: what others end in is up to ComboReplay. *)
ASSUME ComboAssumption ==
    /\ IsFiniteSet(Symbols) /\ BTC \notin Symbols
    /\ Configs \subseteq ConfigType /\ \A c \in Configs : Sound(c)
    /\ Markets \subseteq MarketType
    /\ \A m \in Markets : \A s \in Symbols : m.input.view[s].price \in {None, m.mark[s]}
    /\ Accounts \subseteq AccountType
    /\ PoolSize \in Nat /\ AtrMultiplier \in Nat /\ MaxCycles \in Nat
    /\ AllowEntries \in BOOLEAN /\ StoreThrough \in BOOLEAN

VARIABLES
    config,     \* the configuration; never changes
    market,     \* what this cycle shows
    cash,       \* the quote cash available for trading
    locked,     \* quote cash that is part of the equity only; never changes
    lots,       \* lots of each symbol on the exchange
    trade,      \* the platform's trade state of each symbol
    pool,       \* its state["rotation_pool_symbols"], as a ranking
    phase,      \* "idle", or "decided" while the platform acts
    decision,   \* the last decision
    ordered,    \* what was bought for it
    cycle       \* evaluations so far

vars == <<config, market, cash, locked, lots, trade, pool, phase, decision, ordered, cycle>>

RP == INSTANCE RotationPool WITH
        RawLists <- {m.universe : m \in Markets}, MaxVersions <- 1, RefreshModes <- BOOLEAN,
        published <- <<market.universe>>, delivered <- 1, lock <- 0

NoTrade == [holding |-> FALSE, high |-> 0]

-----------------------------------------------------------------------------
(* The account: _resolve_account_metrics *)

Value(s) == lots[s] * market.mark[s]

DcaValue == Value(BTC)

TrendValue == SumOf([s \in Symbols |-> Value(s)])

Equity == cash + locked + DcaValue + TrendValue

-----------------------------------------------------------------------------
(* evaluate_crypto_equity_combo *)

in == market.input

Universe == {market.universe[i] : i \in DOMAIN market.universe}

PoolOfCycle == IF ResolvesPool(config, in) THEN RP!Resolved(config.refresh) ELSE RP!EmptyList

(* rotation_candidates: empty when the trend leg failed or was blocked. *)
Chosen == Rotation(config, in, PoolOfCycle)

Weights == TargetWeights(config, in, PoolOfCycle, Equity)

TrendPart(weights) == [s \in DOMAIN weights \ {BTC} |-> weights[s]]

BtcRatio == Weights[BTC]

(* mutant of TrendRatio: the weight meant for the leg, not what it targets *)
TrendRatioMeant == 100 * EffectiveTrend(config, in)

TrendRatio == SumOf(TrendPart(Weights))

Of(weight, amount) == (weight * amount) \div Full

(* mutant of TrendBudget: what the leg already holds is not taken off *)
TrendBudgetGross == Least(cash, Of(TrendRatio, Equity))

TrendBudget == Most(0, Least(cash, Of(TrendRatio, Equity) - TrendValue))

(* mutant of BtcBudget: the same cash backs both legs *)
BtcBudgetShared == Most(0, Least(cash, Of(BtcRatio, Equity) - DcaValue))

BtcBudget == Most(0, Least(cash - TrendBudget, Of(BtcRatio, Equity) - DcaValue))

(* get_trend_sell_reason, for quoted symbols of the universe only *)

Judged == {s \in Universe : in.view[s].price # None /\ trade[s].holding}

HighOf(s) == Most(trade[s].high, in.view[s].price)

Sells ==
    {s \in Judged :
        \/ in.view[s].ceiling = None
        \/ s \notin Chosen
        \/ in.view[s].price < in.view[s].sma60
        \/ in.view[s].price < HighOf(s) - AtrMultiplier * in.view[s].atr}

TradeAfter ==
    [s \in Symbols |->
        IF StoreThrough /\ s \in Judged /\ in.view[s].ceiling # None
          THEN [trade[s] EXCEPT !.high = HighOf(s)] ELSE trade[s]]

(* plan_trend_buys and allocate_trend_buy_budget *)

PlanRaises == \E s \in Universe : ~trade[s].holding /\ in.view[s].price = None

Eligible == {s \in Universe \cap Chosen : AllowEntries /\ ~trade[s].holding}

PlannedBuys ==
    IF TrendBudget = 0 THEN [s \in {} |-> 0]
    ELSE Split(TrendBudget, [s \in Eligible |-> Portion(config, in, Chosen, s)])

(* apply_risk_gate with max_single_weight; approved: the QPK gate's verdict *)
Passes(weights) == SumOf(weights) <= Full /\ \A s \in DOMAIN weights : weights[s] <= 3000

NoDecision ==
    [positions |-> [s \in {} |-> 0], btcBudget |-> 0, trendBudget |-> 0, sells |-> {},
     buys |-> [s \in {} |-> 0], failed |-> FALSE, pool |-> RP!EmptyList, resolved |-> FALSE,
     weights |-> [s \in {BTC} |-> 0], equity |-> 0]

DecisionOn(approved) ==
    LET open == approved /\ Passes(Weights)
    IN  [positions |-> IF open THEN Weights ELSE [s \in {} |-> 0],
         btcBudget |-> IF open THEN BtcBudget ELSE 0,
         trendBudget |-> IF open THEN TrendBudget ELSE 0,
         sells |-> Sells,
         buys |-> PlannedBuys,
         failed |-> TrendFails(config, in, PoolOfCycle),
         pool |-> PoolOfCycle,
         resolved |-> ResolvesPool(config, in),
         weights |-> Weights,
         equity |-> Equity]

Evaluate ==
    /\ phase = "idle" /\ cycle < MaxCycles
    /\ ~RaisesBeforeLegs(in) /\ ~PlanRaises
    /\ \E approved \in BOOLEAN : decision' = DecisionOn(approved)
    /\ trade' = TradeAfter
    /\ phase' = "decided"
    /\ ordered' = {}
    /\ cycle' = cycle + 1
    /\ UNCHANGED <<config, locked, market, cash, lots, pool>>

(* The exception leaves the platform without a decision. *)
EvaluateRaises ==
    /\ phase = "idle" /\ cycle < MaxCycles
    /\ RaisesBeforeLegs(in) \/ PlanRaises
    /\ trade' = IF RaisesBeforeLegs(in) THEN trade ELSE TradeAfter
    /\ decision' = NoDecision
    /\ phase' = "decided"
    /\ ordered' = {}
    /\ cycle' = cycle + 1
    /\ UNCHANGED <<config, locked, market, cash, lots, pool>>

-----------------------------------------------------------------------------
(* The platform and the market (external) *)

Sell(s) ==
    /\ phase = "decided" /\ s \in decision.sells /\ lots[s] > 0
    /\ cash' = cash + Value(s)
    /\ lots' = [lots EXCEPT ![s] = 0]
    /\ trade' = [trade EXCEPT ![s] = NoTrade]
    /\ UNCHANGED <<config, locked, market, pool, phase, decision, ordered, cycle>>

Buy(s, amount) ==
    LET n == amount \div market.mark[s]
    IN  /\ phase = "decided" /\ s \notin ordered /\ n > 0
        /\ lots' = [lots EXCEPT ![s] = @ + n]
        /\ cash' = cash - n * market.mark[s]
        /\ ordered' = ordered \cup {s}
        /\ UNCHANGED <<config, locked, market, trade, pool, phase, decision, cycle>>

(* The weakest platform: it fills the planned buys of a decision that was  *)
(* not funded too.                                                         *)
BuyTrend(s) == s \in DOMAIN decision.buys /\ Buy(s, decision.buys[s])

BuyBtc == Buy(BTC, decision.btcBudget)

SaveBuy(s) ==
    /\ phase = "decided" /\ s \in ordered
    /\ trade' = [trade EXCEPT ![s] = [holding |-> TRUE, high |-> market.mark[s]]]
    /\ UNCHANGED <<config, locked, market, cash, lots, pool, phase, decision, ordered, cycle>>

(* Only a pool that the decision reports can be recorded. *)
RecordPool ==
    /\ phase = "decided" /\ decision.resolved
    /\ pool' = decision.pool
    /\ UNCHANGED <<config, locked, market, cash, lots, trade, phase, decision, ordered, cycle>>

(* The cycle ends, or the platform restarts in it. *)
EndCycle ==
    /\ phase = "decided"
    /\ phase' = "idle"
    /\ decision' = NoDecision
    /\ ordered' = {}
    /\ UNCHANGED <<config, locked, market, cash, lots, trade, pool, cycle>>

MarketMoves ==
    /\ phase = "idle"
    /\ market' \in Markets
    /\ UNCHANGED <<config, locked, cash, lots, trade, pool, phase, decision, ordered, cycle>>

-----------------------------------------------------------------------------
(* An account to start from is one whose trade state agrees with it. *)
Init ==
    /\ config \in Configs
    /\ market \in Markets
    /\ \E a \in Accounts :
        /\ cash = a.cash
        /\ locked = a.locked
        /\ lots = a.lots
        /\ trade = [s \in Symbols |->
                      [holding |-> a.lots[s] > 0,
                       high |-> IF a.lots[s] > 0 THEN market.mark[s] ELSE 0]]
    /\ pool = RP!EmptyList
    /\ phase = "idle"
    /\ decision = NoDecision
    /\ ordered = {}
    /\ cycle = 0

Next ==
    \/ Evaluate
    \/ EvaluateRaises
    \/ \E s \in Symbols : Sell(s) \/ BuyTrend(s) \/ SaveBuy(s)
    \/ BuyBtc
    \/ RecordPool
    \/ EndCycle
    \/ MarketMoves

Spec == Init /\ [][Next]_vars

-----------------------------------------------------------------------------
(* Properties *)

(* What is left to buy of a decision: the trend buys it planned, which     *)
(* survive a rejection, and the BTC budget.                                *)
Outstanding ==
    SumOf([s \in DOMAIN decision.buys \ ordered |-> decision.buys[s]])
        + (IF BTC \in ordered THEN 0 ELSE decision.btcBudget)

(* Whatever is filled first, sold in between or lost in a restart, what is *)
(* left to buy of a decision is covered by the cash the account has: the   *)
(* two legs never count on the same money, no fill overdraws it, and a leg *)
(* above its target asks for nothing, not for less than that.              *)
BudgetsFitCash ==
    /\ Outstanding <= cash
    /\ decision.btcBudget >= 0 /\ decision.trendBudget >= 0

(* A leg that was bought for a decision is worth at most its target weight *)
(* of the equity decided on.  This holds also when a restart has lost the  *)
(* trade state of an earlier fill, so that a symbol still on the exchange  *)
(* is bought again, when the leg lost value, and when the gate rejected    *)
(* the decision.                                                           *)
LegsStayInsideTargets ==
    /\ ordered \ {BTC} # {} =>
         TrendValue <= Of(SumOf(TrendPart(decision.weights)), decision.equity)
    /\ BTC \in ordered => DcaValue <= Of(decision.weights[BTC], decision.equity)

(* The benchmark mapping and the BTC indicator row each say whether BTC is *)
(* in its regime, and they may disagree.  One of them is enough: off by    *)
(* the benchmark, the trend leg of a dynamic profile gets no more than its *)
(* reduced weight; off by the row, a complete evaluation targets and buys  *)
(* no trend symbol at all.                                                 *)
EitherRegimeCutsTrend ==
    phase = "decided" /\ decision.equity > 0 =>
        /\ config.dynamic /\ RegimeOff(in) =>
             SumOf(TrendPart(decision.weights)) <=
                100 * (IF config.dualLeg THEN 15 ELSE Of(100 * (100 - config.cut), config.trendWeight))
        /\ BtcRowOk(in) /\ ~in.btcRow.regimeOn =>
             DOMAIN decision.weights = {BTC} /\ DOMAIN decision.buys = {}

(* The trend weights of a decision carry at most the target volatility,    *)
(* weighted by symbol, and at most the maximal leverage, also when only    *)
(* one of the two caps binds and when the merge with BTC has scaled them.  *)
TrendRiskInsideTarget ==
    LET w == TrendPart(decision.weights)
    IN  /\ SumOf(w) <= 100 * config.maxLeverage
        /\ config.volScaling => WeightedVol(in, w) <= config.targetVol * Full

(* A trend leg that fails is swallowed, and the BTC leg goes on alone: no  *)
(* trend symbol is targeted, funded or bought, and BTC's target is no      *)
(* larger than its own leg asks for, so that the trend money stays cash.   *)
FailedTrendLegStaysCash ==
    decision.failed =>
        /\ DOMAIN decision.weights = {BTC}
        /\ decision.weights[BTC] <= BtcTarget(config, in, decision.equity)
        /\ decision.trendBudget = 0 /\ DOMAIN decision.buys = {}

=============================================================================
