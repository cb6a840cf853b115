--------------------------- MODULE ComboStrategy ---------------------------
(***************************************************************************)
(* The target weights of crypto_equity_combo: how much goes to the BTC leg *)
(* and to the trend leg in the regime of the day, what each leg makes of   *)
(* it, and how the two are merged.  The module has no state: the profile's *)
(* entrypoint (EquityCombo) and the point-in-time replay (ComboReplay)     *)
(* both call it.                                                           *)
(*                                                                         *)
(* Leg weights and ratios are in percent, target weights in basis points   *)
(* (percent of a percent), rounded down; volatilities and their target     *)
(* share a unit of their own.  None stands for a reading that is missing   *)
(* or not a number.                                                        *)
(***************************************************************************)
EXTENDS Amounts

CONSTANTS
    None,
    BTC,        \* the core symbol
    Symbols,    \* the trend symbols
    Ratio(_)    \* get_dynamic_btc_target_ratio of an equity, in percent

-----------------------------------------------------------------------------
(* Configuration and inputs *)

(* Numbers may be anything, cut is clamped where it is read. *)
ConfigType ==
    [btcWeight : Int, trendWeight : Int, dynamic : BOOLEAN, dualLeg : BOOLEAN, cut : 0..100,
     topN : Int, equal : BOOLEAN, volScaling : BOOLEAN, targetVol : Int,
     maxLeverage : Int, breaker : BOOLEAN, drawdown : Int, refresh : BOOLEAN]

(* What the volatility scaling asks of its settings, and weights that are  *)
(* not negative.                                                           *)
Sound(config) ==
    /\ config.btcWeight >= 0 /\ config.trendWeight >= 0
    /\ config.targetVol > 0 /\ config.maxLeverage >= 0

(* What an evaluation sees of one symbol: ceiling is the highest of sma20, *)
(* sma60 and sma200, None when a field that selection requires is missing; *)
(* score is 0 unless the relative score and the absolute momentum are      *)
(* positive.                                                               *)
ViewType ==
    [price : Nat \cup {None}, ceiling : Nat \cup {None}, sma60 : Nat, atr : Nat,
     score : Nat, vol : Nat]

(* The BTC row of the indicators; known: present, with numeric fields and  *)
(* a boolean regime.  A price of 0 stands for one that is not positive.    *)
BtcRowType == [known : BOOLEAN, regimeOn : BOOLEAN, close : Nat, sma200 : Nat]

(* benchmark_snapshot; given: it is a mapping.  slope is in permille.      *)
BenchmarkType ==
    [given : BOOLEAN, regimeOn : BOOLEAN \cup {None}, gap : Int \cup {None},
     ratio : Int \cup {None}, slope : Int \cup {None}, close : Nat \cup {None},
     ma200 : Nat \cup {None}]

(* What crypto_btc_dca reports to the combo: does its regime scale the     *)
(* target, by how much, and the exposure of an applied z-score exit.       *)
(* known is FALSE when its plan failed and it reports nothing.             *)
DcaType == [known : BOOLEAN, scales : BOOLEAN, multiplier : Nat, exposure : 0..100 \cup {None}]

(* btcPrice is the entry of BTC in the prices. *)
InputType ==
    [btcPrice : Nat \cup {None}, view : [Symbols -> ViewType], btcRow : BtcRowType,
     benchmark : BenchmarkType, dca : DcaType]

-----------------------------------------------------------------------------
(* _btc_sma200_ratio: the benchmark's gap, its ratio, or a price over an   *)
(* average, each of the benchmark if it has one.                           *)

Read(in, field) == IF in.benchmark.given THEN in.benchmark[field] ELSE None

FirstKnown(a, b) == IF a # None THEN a ELSE b

Percent(part, whole) == IF part = None \/ whole = 0 THEN None ELSE (100 * part) \div whole

Price(in) == FirstKnown(Read(in, "close"), in.btcPrice)

Average(in) == FirstKnown(Read(in, "ma200"), in.btcRow.sma200)

SmaRatio(in) ==
    IF Read(in, "gap") # None THEN 100 + Read(in, "gap")
    ELSE FirstKnown(Read(in, "ratio"), Percent(Price(in), Average(in)))

Slope(in) == Read(in, "slope")

-----------------------------------------------------------------------------
(* _extract_btc_snapshot raises unless *)
BtcRowOk(in) == in.btcRow.known /\ in.btcRow.close > 0 /\ in.btcRow.sma200 > 0

(* _resolve_dynamic_weights *)

(* Without a benchmark mapping a bad BTC row raises before the legs run.   *)
RaisesBeforeLegs(in) == ~in.benchmark.given /\ ~BtcRowOk(in)

Below(reading, level) == reading # None /\ reading < level

NotAbove(reading, level) == reading # None /\ reading <= level

RegimeOff(in) ==
    IF ~in.benchmark.given THEN ~in.btcRow.regimeOn
    ELSE IF in.benchmark.regimeOn # None THEN ~in.benchmark.regimeOn
    ELSE NotAbove(SmaRatio(in), 100)

Hard(in) ==
    /\ RegimeOff(in)
    /\ \/ SmaRatio(in) = None /\ Slope(in) = None
       \/ Below(SmaRatio(in), 97)
       \/ Below(Slope(in), -15)

Soft(in) == RegimeOff(in) \/ Below(SmaRatio(in), 105) \/ Below(Slope(in), 0)

Tier(config, in) ==
    IF ~config.dynamic THEN "risk_on"
    ELSE IF config.dualLeg
         THEN IF Hard(in) THEN "hard" ELSE IF Soft(in) THEN "soft" ELSE "risk_on"
         ELSE IF RegimeOff(in) THEN "legacy_regime_off" ELSE "risk_on"

BtcIn(config, tier) ==
    CASE tier = "hard" -> 30
      [] tier = "soft" -> 45
      [] tier = "legacy_regime_off" ->
           config.btcWeight + (config.trendWeight * config.cut) \div 100
      [] OTHER -> config.btcWeight

(* mutant of TrendIn: the cut moves weight to BTC but leaves trend *)
TrendInUncut(config, tier) ==
    CASE tier = "hard" -> 0
      [] tier = "soft" -> 15
      [] OTHER -> config.trendWeight

TrendIn(config, tier) ==
    CASE tier = "hard" -> 0
      [] tier = "soft" -> 15
      [] tier = "legacy_regime_off" -> (config.trendWeight * (100 - config.cut)) \div 100
      [] OTHER -> config.trendWeight

EffectiveBtc(config, in) == BtcIn(config, Tier(config, in))

EffectiveTrend(config, in) == TrendIn(config, Tier(config, in))

-----------------------------------------------------------------------------
(* _compute_btc_leg *)

Scaled(base, multiplier) ==
    Least(65, Least((base * Most(100, multiplier)) \div 100, 3 * base))

SmartRatio(equity, dca) ==
    LET sized == IF dca.known /\ dca.scales THEN Scaled(Ratio(equity), dca.multiplier)
                 ELSE Ratio(equity)
    IN  IF dca.known /\ dca.exposure # None THEN (sized * dca.exposure) \div 100 ELSE sized

BtcTarget(config, in, equity) == SmartRatio(equity, in.dca) * EffectiveBtc(config, in)

-----------------------------------------------------------------------------
(* _check_circuit_breaker *)

CircuitBroken(config, in) ==
    /\ config.breaker
    /\ \/ ~in.btcRow.regimeOn
       \/ 100 * (in.btcRow.sma200 - in.btcRow.close) > config.drawdown * in.btcRow.sma200

(* Does the trend leg reach the pool resolver, and cache what it returns?  *)
ResolvesPool(config, in) == BtcRowOk(in) /\ ~CircuitBroken(config, in)

-----------------------------------------------------------------------------
(* select_rotation_weights, on the pool as a ranking *)

Candidates(in, pool) ==
    {s \in DOMAIN pool :
        /\ in.view[s].score > 0 /\ in.view[s].vol > 0
        /\ in.view[s].ceiling # None /\ in.view[s].price # None
        /\ in.view[s].price > in.view[s].ceiling}

(* relative scores divide by the volatility; a tie keeps the pool's order. *)
Ahead(in, pool, s, t) ==
    LET left == in.view[s].score * in.view[t].vol
        right == in.view[t].score * in.view[s].vol
    IN  left > right \/ (left = right /\ pool[s] < pool[t])

Selected(config, in, pool) ==
    {s \in Candidates(in, pool) :
        /\ in.btcRow.regimeOn
        /\ Cardinality({t \in Candidates(in, pool) : Ahead(in, pool, t, s)}) < Most(1, config.topN)}

(* Inverse volatility: the share of s is the product of the volatilities   *)
(* of the others, over the sum of those products.                          *)
OthersVol(in, S, s) == MapThenFoldSet(LAMBDA x, y : x * y, 1, LAMBDA t : in.view[t].vol,
                                      LAMBDA T : CHOOSE t \in T : TRUE, S \ {s})

Portion(config, in, S, s) == IF config.equal THEN 1 ELSE OthersVol(in, S, s)

Portions(config, in, S) == [s \in S |-> Portion(config, in, S, s)]

Split(amount, portions) ==
    [s \in DOMAIN portions |-> (amount * portions[s]) \div SumOf(portions)]

(* The symbols the trend leg would hold. *)
Picked(config, in, pool) ==
    IF ResolvesPool(config, in) THEN Selected(config, in, pool) ELSE {}

(* _apply_volatility_scaling refuses weights or caps that are negative, and*)
(* a target volatility that is not positive, once there is something to    *)
(* scale.                                                                  *)
ScalingRaises(config, in, pool) ==
    /\ \/ EffectiveTrend(config, in) < 0
       \/ EffectiveTrend(config, in) > 0 /\ (config.targetVol <= 0 \/ config.maxLeverage < 0)
    /\ Picked(config, in, pool) # {}

(* The trend leg raises; the combo swallows the error and goes on with BTC *)
(* alone.                                                                  *)
TrendFails(config, in, pool) == ~BtcRowOk(in) \/ ScalingRaises(config, in, pool)

(* The symbols it comes to hold. *)
Rotation(config, in, pool) ==
    IF TrendFails(config, in, pool) THEN {} ELSE Picked(config, in, pool)

RawWeights(config, in, pool) ==
    Split(EffectiveTrend(config, in) * 100, Portions(config, in, Rotation(config, in, pool)))

-----------------------------------------------------------------------------
(* _apply_volatility_scaling *)

WeightedVol(in, w) == SumOf([s \in DOMAIN w |-> w[s] * in.view[s].vol])

Levered(config, weight, total) == Least(weight, (weight * config.maxLeverage * 100) \div total)

(* mutant of Limited: leverage caps the sum only when it does not scale *)
LimitedOnce(config, in, raw) ==
    LET total == SumOf(raw)
        risk == WeightedVol(in, raw)
    IN  IF total = 0 THEN raw
        ELSE [s \in DOMAIN raw |->
                IF config.volScaling /\ risk > 0
                  THEN Least(raw[s], (raw[s] * config.targetVol * Full) \div risk)
                  ELSE Levered(config, raw[s], total)]

(* Selected symbols have a positive volatility each, so the branch that    *)
(* blocks all exposure on a missing one is not reached from here.          *)
Limited(config, in, raw) ==
    LET total == SumOf(raw)
        risk == WeightedVol(in, raw)
    IN  IF total = 0 THEN raw
        ELSE [s \in DOMAIN raw |->
                IF config.volScaling /\ risk > 0
                  THEN Least(Levered(config, raw[s], total),
                             (raw[s] * config.targetVol * Full) \div risk)
                  ELSE Levered(config, raw[s], total)]

TrendWeights(config, in, pool) == Limited(config, in, RawWeights(config, in, pool))

-----------------------------------------------------------------------------
(* build_target_weights: the merge of the two legs *)

Merged(trend, btc) ==
    [s \in DOMAIN trend \cup {BTC} |-> IF s = BTC THEN btc ELSE trend[s]]

ScaledToFull(weights) ==
    LET total == SumOf(weights)
    IN  IF total > Full THEN [s \in DOMAIN weights |-> (weights[s] * Full) \div total]
        ELSE weights

TargetWeights(config, in, pool, equity) ==
    ScaledToFull(Merged(TrendWeights(config, in, pool), BtcTarget(config, in, equity)))

=============================================================================
