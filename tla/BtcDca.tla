------------------------------- MODULE BtcDca -------------------------------
(***************************************************************************)
(* The standalone BTC DCA profile on one account.                          *)
(*                                                                         *)
(* evaluate_crypto_btc_dca reads the account, an indicator reading and the *)
(* z-score exit signal of the day and decides a target for BTC and a       *)
(* budget for buying it; it keeps nothing from one evaluation to the next. *)
(* The platform trades on the decision, later, in part or not at all, while *)
(* days pass, prices move and deposits arrive.                             *)
(*                                                                         *)
(* Money is counted in whole units and a fraction of it is rounded down to *)
(* a unit; ratios and multipliers are in percent.                          *)
(***************************************************************************)
EXTENDS DcaWindow

CONSTANTS
    None,          \* an input or a limit that is missing
    Deployments,   \* schedules with the parameters of the profile (ConfigType)
    Multiplier,    \* the multiplier of each regime, in percent
    Ratio(_),      \* get_dynamic_btc_target_ratio of an equity, in percent
    Readings,      \* indicator readings, those of a missing input left out
    Signals,       \* z-score exit signals
    OtherAssets,   \* the value of what else the account holds
    MaxEquity,     \* bound: the equity deposits and prices may reach
    Deposits,      \* the deposits that may arrive
    PricesMove,    \* do prices move?
    FillsVary      \* does the platform fill an order in part?

Regimes ==
    {"ordinary_dca", "ahr999_bottom", "ahr999_accumulation", "ahr999_dca", "ahr999_expensive",
     "severe_pullback", "deep_pullback", "mild_pullback", "very_expensive_overbought",
     "expensive", "normal"}

Percent == 0..100

RiskRoutes == {"risk_reduced", "risk_off"}

PositionRoutes == {"normal", "risk_on"} \cup RiskRoutes

ConfigType ==
    [base : Nat, maximum : Nat \cup {None}, reserve : Nat, minimum : Nat,
     smart : BOOLEAN, cycle : BOOLEAN, exit : BOOLEAN, outside : BOOLEAN,
     reduced : Percent, off : Percent,
     bottom : Nat, accumulation : Nat, dca : Nat,
     mild : Nat, deep : Nat, severe : Nat, shallow : Nat,
     mildGap : Nat, deepGap : Nat, expensive : Nat, veryExpensive : Nat, overbought : Nat]

ReadingType == [ahr : Nat, drawdown : Nat, gap : Int, rsi : Nat]

(* alloc: target_allocations["BTCUSDT"]; hint: target_btc_exposure.  A     *)
(* signal without a route stands for one that is missing.                  *)
SignalType ==
    [route : PositionRoutes \cup {None}, alloc : Percent \cup {None}, hint : Percent \cup {None}]

ASSUME DcaAssumption ==
    /\ None \notin Int \cup PositionRoutes \cup ReadingType
    /\ Deployments \subseteq Schedules \X ConfigType
    /\ Multiplier \in [Regimes -> Nat]
    /\ Multiplier["ordinary_dca"] = 100
    /\ \A e \in 0..MaxEquity : Ratio(e) \in Percent
    /\ Readings \subseteq ReadingType
    /\ Signals \subseteq SignalType
    /\ OtherAssets \in Nat
    /\ MaxEquity \in Nat
    /\ Deposits \subseteq Nat
    /\ PricesMove \in BOOLEAN
    /\ FillsVary \in BOOLEAN

(* A cheaper regime never has a smaller multiplier, as in the defaults of  *)
(* the profile.  Nothing in the code asks it of another configuration.     *)
CheaperBuysMore ==
    /\ Multiplier["severe_pullback"] >= Multiplier["deep_pullback"]
    /\ Multiplier["deep_pullback"] >= Multiplier["mild_pullback"]
    /\ Multiplier["mild_pullback"] >= Multiplier["normal"]
    /\ Multiplier["normal"] >= Multiplier["expensive"]
    /\ Multiplier["expensive"] >= Multiplier["very_expensive_overbought"]
    /\ Multiplier["ahr999_bottom"] >= Multiplier["ahr999_accumulation"]
    /\ Multiplier["ahr999_accumulation"] >= Multiplier["ahr999_dca"]
    /\ Multiplier["ahr999_dca"] >= Multiplier["ahr999_expensive"]

VARIABLES
    config,        \* the configuration of the profile; never changes
    btc,           \* the value of the BTC position
    cash,          \* the quote cash, all of it buying power
    decision,      \* the last decision
    phase,         \* "idle", "decided" or "done": traded on
    sinceOpening   \* history: days since the window last opened

vars == <<schedule, month, day, weekday, config, btc, cash, decision, phase, sinceOpening>>

-----------------------------------------------------------------------------
(* Sizing *)

Least(a, b) == IF a <= b THEN a ELSE b

Most(a, b) == IF a >= b THEN a ELSE b

Of(percent, amount) == (percent * amount) \div 100

(* _determine_cycle_multiplier: the AHR999 zone. *)
CycleRegime(r) ==
    IF r.ahr <= config.bottom THEN "ahr999_bottom"
    ELSE IF r.ahr <= config.accumulation THEN "ahr999_accumulation"
    ELSE IF r.ahr <= config.dca THEN "ahr999_dca"
    ELSE "ahr999_expensive"

(* _determine_multiplier: drawdown and distance from the 200 day average. *)
DrawdownRegime(r) ==
    IF r.drawdown >= config.severe THEN "severe_pullback"
    ELSE IF r.drawdown >= config.deep \/ r.gap <= -config.deepGap THEN "deep_pullback"
    ELSE IF r.drawdown >= config.mild \/ r.gap <= -config.mildGap THEN "mild_pullback"
    ELSE IF r.drawdown > config.shallow THEN "normal"
    ELSE IF r.gap >= config.veryExpensive /\ r.rsi >= config.overbought
         THEN "very_expensive_overbought"
    ELSE IF r.gap >= config.expensive THEN "expensive"
    ELSE "normal"

Regime(r) ==
    IF ~config.smart THEN "ordinary_dca"
    ELSE IF config.cycle THEN CycleRegime(r)
    ELSE DrawdownRegime(r)

Equity == btc + cash + OtherAssets

(* mutant of Investable: the reserve is investable too *)
InvestableAll == cash

Investable == Most(0, cash - config.reserve)

Requested(r) ==
    LET asked == Of(Multiplier[Regime(r)], config.base)
    IN  IF config.maximum = None THEN asked ELSE Least(asked, config.maximum)

Affordable(r) == Least(Requested(r), Investable)

(* mutant of Actionable: a plan that cash cuts short is skipped *)
ActionableInFull(r) ==
    /\ InWindow
    /\ Requested(r) > 0
    /\ Affordable(r) >= Most(config.minimum, Requested(r))

(* mutant of Actionable: the minimum itself is too little *)
ActionableAbove(r) ==
    /\ InWindow
    /\ Requested(r) > 0
    /\ Affordable(r) > config.minimum

(* No skip reason: in the window, not too expensive, enough cash. *)
Actionable(r) ==
    /\ InWindow
    /\ Requested(r) > 0
    /\ Affordable(r) >= config.minimum

-----------------------------------------------------------------------------
(* The z-score exit *)

(* _resolve_zscore_exit_context: allocations first; the configured         *)
(* exposure of a risk route overrides a bare target_btc_exposure.          *)
Exposure(x) ==
    CASE x.alloc # None -> x.alloc
      [] x.alloc = None /\ x.route = "risk_reduced" -> config.reduced
      [] x.alloc = None /\ x.route = "risk_off" -> config.off
      [] x.alloc = None /\ x.route \notin RiskRoutes /\ x.hint # None -> x.hint
      [] OTHER -> 100

(* The exit input the entrypoint refuses. *)
SignalUnavailable(x) ==
    \/ x.route \notin PositionRoutes
    \/ x.alloc # None /\ x.hint # None /\ x.alloc # x.hint
    \/ x.route = "risk_reduced" /\ Exposure(x) > config.reduced
    \/ x.route = "risk_off" /\ Exposure(x) > config.off

Applied(x) ==
    /\ config.exit
    /\ x.route \in PositionRoutes
    /\ InWindow \/ config.outside

-----------------------------------------------------------------------------
(* The decision *)

(* planned_investment; `strict' is strict_buy_window. *)
Planned(r, x, strict) ==
    IF Actionable(r) \/ (Applied(x) /\ ~strict) THEN Affordable(r) ELSE 0

(* target_values["BTCUSDT"] of build_rebalance_plan, btc when it has none. *)
PlanTarget(r, x, strict) ==
    IF Applied(x)
    THEN Of(Exposure(x), btc + Planned(r, x, strict))
    ELSE btc + Planned(r, x, strict)

(* mutant of Ceiling: the dynamic ratio without the 50% limit *)
CeilingByRatio == Of(Ratio(Equity), Equity)

Ceiling == Of(Least(Ratio(Equity), 50), Equity)

(* mutant of Target: a risk route is left to the plan *)
TargetOfPlan(r, x) == Least(PlanTarget(r, x, TRUE), Most(btc, Ceiling))

(* mutant of Target: the plan's buys outside the window come through *)
TargetLoose(r, x) ==
    LET capped == Least(PlanTarget(r, x, FALSE), Most(btc, Ceiling))
    IN  IF Applied(x) /\ x.route \in RiskRoutes THEN Least(capped, btc) ELSE capped

(* What the entrypoint makes of the plan: no accumulation above the        *)
(* ceiling, and none at all on a risk route.                               *)
Target(r, x) ==
    LET capped == Least(PlanTarget(r, x, TRUE), Most(btc, Ceiling))
    IN  IF Applied(x) /\ x.route \in RiskRoutes THEN Least(capped, btc) ELSE capped

(* max_single_weight=0.50 of the member gate. *)
Concentrated(target) == 2 * target > Equity

NoDecision ==
    [held |-> 0, equity |-> 0, target |-> 0, budget |-> 0, route |-> None,
     applied |-> FALSE, passed |-> FALSE, concentrated |-> FALSE]

(* gate: does the outer gate of quant_platform_kit approve? *)
DecisionOn(r, x, gate) ==
    LET target == Target(r, x)
        passed == gate /\ ~Concentrated(target)
    IN  [held |-> btc, equity |-> Equity, target |-> target,
         budget |-> IF passed THEN Most(0, target - btc) ELSE 0,
         route |-> x.route, applied |-> Applied(x),
         passed |-> passed, concentrated |-> Concentrated(target)]

(* The inputs the entrypoint raises on. *)
Unusable(r, x) ==
    \/ Equity = 0
    \/ config.smart /\ r = None
    \/ config.exit /\ SignalUnavailable(x)

Evaluate ==
    \E r \in Readings \cup {None}, x \in Signals, gate \in BOOLEAN :
        /\ ~Unusable(r, x)
        /\ decision' = DecisionOn(r, x, gate)
        /\ phase' = "decided"
        /\ UNCHANGED <<windowVars, config, btc, cash, sinceOpening>>

(* No decision: the platform has nothing to trade on. *)
EvaluateRaises ==
    \E r \in Readings \cup {None}, x \in Signals :
        /\ Unusable(r, x)
        /\ decision' = NoDecision
        /\ phase' = "idle"
        /\ UNCHANGED <<windowVars, config, btc, cash, sinceOpening>>

-----------------------------------------------------------------------------
(* External: the platform, the market and the calendar *)

Fills(amount) == IF FillsVary THEN 0..amount ELSE {amount}

(* The platform buys what the budget allows, ... *)
Buy ==
    /\ phase = "decided" /\ decision.budget > 0
    /\ \E spent \in Fills(Least(decision.budget, cash)) :
          /\ btc' = btc + spent
          /\ cash' = cash - spent
    /\ phase' = "done"
    /\ UNCHANGED <<windowVars, config, decision, sinceOpening>>

(* ... or sells down to a target below what it held. *)
Sell ==
    /\ phase = "decided" /\ decision.passed
    /\ decision.target < decision.held /\ decision.target < btc
    /\ \E sold \in Fills(btc - decision.target) :
          /\ btc' = btc - sold
          /\ cash' = cash + sold
    /\ phase' = "done"
    /\ UNCHANGED <<windowVars, config, decision, sinceOpening>>

PriceMoves ==
    /\ PricesMove
    /\ btc' \in {btc \div 2, 2 * btc}
    /\ btc' + cash + OtherAssets <= MaxEquity
    /\ UNCHANGED <<windowVars, config, cash, decision, phase, sinceOpening>>

Deposit ==
    /\ \E d \in Deposits : Equity + d <= MaxEquity /\ cash' = cash + d
    /\ UNCHANGED <<windowVars, config, btc, decision, phase, sinceOpening>>

LongAgo == WeekLength + 31

DayPasses ==
    /\ NextDay
    /\ sinceOpening' =
          IF Opening' THEN 0
          ELSE IF schedule.cadence # "weekly" /\ month' # month THEN LongAgo
          ELSE Least(sinceOpening + 1, LongAgo)
    /\ UNCHANGED <<config, btc, cash, decision, phase>>

Init ==
    /\ WindowInit
    /\ \E d \in Deployments : schedule = d[1] /\ config = d[2]
    /\ sinceOpening = IF Opening THEN 0 ELSE LongAgo
    /\ btc \in 0..MaxEquity
    /\ cash \in config.reserve..(MaxEquity - OtherAssets - btc)
    /\ decision = NoDecision
    /\ phase = "idle"

Next == Evaluate \/ EvaluateRaises \/ Buy \/ Sell \/ PriceMoves \/ Deposit \/ DayPasses

Spec == Init /\ [][Next]_vars

(* Days pass, the account is not missed or refused by the outer gate in    *)
(* every window, and not every order the profile asks for is lost.         *)
FairSpec ==
    /\ Spec
    /\ WF_vars(DayPasses)
    /\ SF_vars(InWindow /\ Evaluate /\ decision'.passed)
    /\ SF_vars(Buy)

-----------------------------------------------------------------------------
(* Properties *)

DecisionType ==
    [held : Nat, equity : Nat, target : Nat, budget : Nat, route : PositionRoutes \cup {None},
     applied : BOOLEAN, passed : BOOLEAN, concentrated : BOOLEAN]

(* Type invariant of the account, its calendar and the last decision. *)
TypeOK ==
    /\ WindowTypeOK
    /\ config \in ConfigType
    /\ btc \in Nat
    /\ cash \in Nat
    /\ decision \in DecisionType
    /\ phase \in {"idle", "decided", "done"}
    /\ sinceOpening \in 0..LongAgo

(* Every budget is decided within the window's width of a day on which the *)
(* window opened (in the same month, unless it is weekly), whatever the    *)
(* exit signal says: out-of-window exits never add a buy.                  *)
BuysStayInWindow ==
    [][decision' # decision /\ decision'.budget > 0 => sinceOpening < schedule.width]_vars

(* The configured reserve is never spent: not by a string of decisions, nor *)
(* by one that is traded on after prices moved.                            *)
ReserveKept == cash >= config.reserve

(* A target below the position comes from an exit, never from the ceiling; *)
(* and a risk route never leads to a buy, however small the position is    *)
(* against what the plan would have bought.                                *)
DirectionJustified ==
    /\ decision.target < decision.held => decision.applied
    /\ decision.applied /\ decision.route \in RiskRoutes => decision.budget = 0

(* The concentration gate refuses a decision only over what is held        *)
(* already: the profile never plans a buy that its own gate refuses, and   *)
(* never has a risk route's exit refused, unless it is configured to keep  *)
(* more than half.                                                         *)
GateRefusesOnlyHoldings ==
    decision.concentrated =>
        /\ 2 * decision.held > decision.equity
        /\ config.reduced <= 50 /\ config.off <= 50 =>
              ~(decision.applied /\ decision.route \in RiskRoutes)

Dearer(r, q) ==
    IF config.cycle THEN r.ahr >= q.ahr
    ELSE r.drawdown <= q.drawdown /\ r.gap >= q.gap /\ r.rsi >= q.rsi

(* On one account and one day, a dearer reading never leads to a higher    *)
(* target, through every cap, minimum and exit.                            *)
DearerBuysLess ==
    \A x \in Signals, r, q \in Readings :
        ~Unusable(r, x) /\ Dearer(r, q) => Target(r, x) <= Target(q, x)

(* An exit that was carried out in full is not asked for again: "reduces   *)
(* BTC exposure to 50 % (risk_reduced) or 25 % (risk_off)".                *)
ExitAsksOnce ==
    [][ phase = "done" /\ phase' = "decided" /\ decision.route \in RiskRoutes
        /\ btc = decision.target /\ decision'.route = decision.route /\ decision'.applied
        => decision'.target = btc ]_vars

(* With fair evaluations and fills of a cheap reading, at a standing price *)
(* and with a passive exit signal, accumulation goes on until the ceiling  *)
(* is reached or the cash above the reserve is less than a minimum buy.    *)
AccumulationSettles ==
    <>[](btc >= Ceiling \/ Investable < config.minimum)

=============================================================================
