------------------------ MODULE ComboStrategy_proofs ------------------------
(***************************************************************************)
(* Lemmas about the target weights of crypto_equity_combo, for any symbols *)
(* and any configuration: what each leg is given, what the caps leave of   *)
(* it, and that the whole never exceeds the equity.                        *)
(***************************************************************************)
EXTENDS ComboStrategy, Rebalance_proofs

-----------------------------------------------------------------------------
(* The target weights are natural, and no more than the whole equity.      *)

(* What the proofs below assume of get_dynamic_btc_target_ratio.           *)
RatioNatural == \A e \in Nat : Ratio(e) \in Nat

VolProduct(input, s, g) == IF s = {} THEN 1 ELSE input.view[Any(s)].vol * g[Others(s)]

IsVolProduct(input, D, g) == g = [s \in SUBSET D |-> VolProduct(input, s, g)]

VolFn(input, D) == CHOOSE g : IsVolProduct(input, D, g)

LEMMA OthersVolPositive ==
    ASSUME NEW input, NEW S, IsFiniteSet(S), \A t \in S : input.view[t].vol \in Nat \ {0},
           NEW x
    PROVE  OthersVol(input, S, x) \in Nat \ {0}
<1> DEFINE D == S \ {x}
<1> DEFINE g == VolFn(input, D)
<1>1. OthersVol(input, S, x) = g[D]
  BY DEF OthersVol, MapThenFoldSet, VolFn, IsVolProduct, VolProduct, Any, Others
<1>2. IsFiniteSet(D) /\ D \subseteq S
  BY FS_Subset
<1> HIDE DEF D
<1>3. \E h : IsVolProduct(input, D, h)
  <2> DEFINE f == [t \in D |-> input.view[t].vol]
  <2>1. PICK h : IsFold("product", f, h)
    BY <1>2, FoldExists
  <2>2. \A s \in SUBSET D : Folded("product", f, s, h) = VolProduct(input, s, h)
    <3>1. \A s \in SUBSET D : s # {} => Any(s) \in D
      BY DEF Any
    <3> QED BY <3>1 DEF Folded, VolProduct
  <2>3. h = [s \in SUBSET D |-> VolProduct(input, s, h)]
    BY <2>1, <2>2 DEF IsFold
  <2> QED BY <2>3 DEF IsVolProduct
<1>4. g = [s \in SUBSET D |-> VolProduct(input, s, g)]
  BY <1>3 DEF VolFn, IsVolProduct
<1> HIDE DEF g
<1>5. \A s \in SUBSET D : g[s] = VolProduct(input, s, g)
  BY <1>4, Zenon
<1> DEFINE Good == {s \in SUBSET D : g[s] \in Nat \ {0}}
<1>6. {} \in Good
  <2>1. {} \in SUBSET D /\ g[{}] = 1
    BY <1>5 DEF VolProduct
  <2> QED BY <2>1
<1>7. ASSUME NEW s \in SUBSET D, s # {}, Others(s) \in Good PROVE s \in Good
  <2>1. g[s] = input.view[Any(s)].vol * g[Others(s)]
    BY <1>5, <1>7 DEF VolProduct
  <2>2. Any(s) \in S
    BY <1>2, <1>7 DEF Any
  <2> DEFINE a == input.view[Any(s)].vol
  <2> DEFINE b == g[Others(s)]
  <2>3. a \in Nat \ {0} /\ b \in Nat \ {0}
    BY <1>7, <2>2
  <2> HIDE DEF a, b
  <2>4. a * b \in Nat \ {0}
    BY <2>3
  <2> QED BY <1>7, <2>1, <2>4 DEF a, b
<1>8. SUBSET D \subseteq Good
  <2>1. \A s \in SUBSET D : s # {} /\ Others(s) \in Good => s \in Good
    BY <1>7
  <2> HIDE DEF Good
  <2> QED BY <1>2, <1>6, <2>1, SubsetInduction
<1> QED BY <1>1, <1>8

(* The shares of an amount, each rounded down, do not exceed it.           *)
LEMMA SplitShares ==
    ASSUME NEW amount \in Nat, NEW R, IsFiniteSet(R), NEW portions \in [R -> Nat \ {0}]
    PROVE  /\ Split(amount, portions) \in [R -> Nat]
           /\ SumOf(Split(amount, portions)) <= amount
<1> DEFINE total == SumOf(portions)
<1> DEFINE shares == Split(amount, portions)
<1>0. DOMAIN portions = R
  OBVIOUS
<1>1. total \in Nat /\ \A s \in R : portions[s] <= total
  BY <1>0, SumNat, TermBelowSum
<1>2. DOMAIN shares = R /\ \A s \in R : shares[s] = (amount * portions[s]) \div total
  BY <1>0 DEF Split
<1> HIDE DEF total, shares
<1>3. ASSUME NEW s \in R
      PROVE  shares[s] \in Nat /\ total * shares[s] <= amount * portions[s] /\ total # 0
  <2> DEFINE p == portions[s]
  <2>1. p \in Nat \ {0} /\ p <= total
    BY <1>1
  <2>2. shares[s] = (amount * p) \div total
    BY <1>2
  <2> HIDE DEF p
  <2>3. amount * p \in Nat /\ total \in Nat \ {0}
    BY <1>1, <2>1
  <2> QED BY <2>2, <2>3, Quotient DEF p
<1>4. shares \in [R -> Nat]
  <2>1. shares = [s \in R |-> shares[s]]
    BY <1>0, <1>2 DEF Split, shares
  <2> QED BY <1>3, <2>1
<1>5. CASE R = {}
  BY <1>2, <1>4, <1>5, EmptySum DEF shares
<1>6. CASE R # {}
  <2>1. total # 0
    BY <1>3, <1>6
  <2>2. \A s \in R : /\ shares[s] \in Nat /\ portions[s] \in Nat
                     /\ SumOf(portions) * shares[s] <= amount * portions[s]
    BY <1>3 DEF total
  <2>3. SumOf(shares) <= amount
    BY <1>0, <1>2, <2>1, <2>2, SharesFit DEF total
  <2> QED BY <1>4, <2>3 DEF shares
<1> QED BY <1>5, <1>6

LEMMA TierTypes ==
    ASSUME NEW config \in ConfigType, NEW tier
    PROVE  /\ BtcIn(config, tier) \in Int /\ TrendIn(config, tier) \in Int
           /\ Sound(config) => BtcIn(config, tier) \in Nat /\ TrendIn(config, tier) \in Nat
           /\ config.btcWeight >= 0 /\ config.trendWeight >= 0 => BtcIn(config, tier) \in Nat
           /\ config.trendWeight >= 0 => TrendIn(config, tier) \in Nat
<1>1. config.btcWeight \in Int /\ config.trendWeight \in Int /\ config.cut \in 0..100
  BY DEF ConfigType
<1> DEFINE w == config.trendWeight
<1> DEFINE c == config.cut
<1> DEFINE moved == (w * c) \div 100
<1> DEFINE kept == (w * (100 - c)) \div 100
<1>2. moved \in Int /\ kept \in Int /\ (w >= 0 => moved \in Nat /\ kept \in Nat)
  <2> HIDE DEF w, c
  <2>1. w \in Int /\ c \in Nat /\ 100 - c \in Nat
    BY <1>1 DEF w, c
  <2>2. w * c \in Int /\ w * (100 - c) \in Int
    BY <2>1
  <2>3. w >= 0 => w * c \in Nat /\ w * (100 - c) \in Nat
    BY <2>1
  <2>4. ASSUME NEW a \in Int PROVE a \div 100 \in Int /\ (a \in Nat => a \div 100 \in Nat)
    OBVIOUS
  <2> QED BY <2>2, <2>3, <2>4
<1> HIDE DEF moved, kept
<1>3. /\ BtcIn(config, tier) \in {30, 45, config.btcWeight + moved, config.btcWeight}
      /\ TrendIn(config, tier) \in {0, 15, kept, w}
  BY DEF BtcIn, TrendIn, moved, kept
<1> QED BY <1>1, <1>2, <1>3 DEF Sound

LEMMA SmartRatioType ==
    ASSUME RatioNatural, NEW input \in InputType, NEW e \in Nat
    PROVE  SmartRatio(e, input.dca) \in Nat
<1> DEFINE dca == input.dca
<1>1. /\ dca.multiplier \in Nat /\ (dca.exposure # None => dca.exposure \in 0..100)
      /\ Ratio(e) \in Nat
  BY DEF InputType, DcaType, RatioNatural
<1> HIDE DEF dca
<1>2. Scaled(Ratio(e), dca.multiplier) \in Nat
  <2> DEFINE r == Ratio(e)
  <2> DEFINE m == Most(100, dca.multiplier)
  <2>1. r \in Nat /\ m \in Nat
    BY <1>1 DEF Most
  <2> HIDE DEF r, m
  <2>2. r * m \in Nat
    BY <2>1
  <2>3. (r * m) \div 100 \in Nat
    BY <2>2, Quotient
  <2> QED BY <2>1, <2>3 DEF Scaled, Least, r, m
<1>3. SmartRatio(e, dca) \in Nat
  <2> DEFINE sized == IF dca.known /\ dca.scales THEN Scaled(Ratio(e), dca.multiplier) ELSE Ratio(e)
  <2>1. sized \in Nat
    BY <1>1, <1>2
  <2>2. SmartRatio(e, dca) = IF dca.known /\ dca.exposure # None THEN (sized * dca.exposure) \div 100 ELSE sized
    BY DEF SmartRatio
  <2> HIDE DEF sized
  <2>3. CASE dca.known /\ dca.exposure # None
    <3> DEFINE x == dca.exposure
    <3>1. x \in Nat
      BY <1>1, <2>3
    <3> HIDE DEF x
    <3>2. sized * x \in Nat
      BY <2>1, <3>1
    <3>3. (sized * x) \div 100 \in Nat
      BY <3>2, Quotient
    <3> QED BY <2>2, <2>3, <3>3 DEF x
  <2> QED BY <2>1, <2>2, <2>3
<1> QED BY <1>3 DEF dca

(* BTC's target has the sign of the weight its leg is given. *)
LEMMA BtcTargetType ==
    ASSUME RatioNatural, NEW config \in ConfigType, NEW input \in InputType, NEW e \in Nat
    PROVE  /\ BtcTarget(config, input, e) \in Int
           /\ EffectiveBtc(config, input) \in Int
           /\ EffectiveBtc(config, input) >= 0 => BtcTarget(config, input, e) \in Nat
<1> DEFINE ratio == SmartRatio(e, input.dca)
<1> DEFINE weight == EffectiveBtc(config, input)
<1>1. ratio \in Nat /\ weight \in Int
  BY SmartRatioType, TierTypes DEF EffectiveBtc
<1>2. BtcTarget(config, input, e) = ratio * weight
  BY DEF BtcTarget
<1> HIDE DEF ratio, weight
<1>3. ratio * weight \in Int /\ (weight >= 0 => ratio * weight \in Nat)
  BY <1>1
<1> QED BY <1>1, <1>2, <1>3 DEF weight

(* With sound settings only the BTC row makes the trend leg fail. *)
LEMMA SoundTrendLeg ==
    ASSUME NEW config \in ConfigType, Sound(config), NEW input, NEW list
    PROVE  /\ EffectiveTrend(config, input) \in Nat
           /\ TrendFails(config, input, list) <=> ~BtcRowOk(input)
<1>1. EffectiveTrend(config, input) \in Nat
  BY TierTypes DEF EffectiveTrend
<1>2. config.targetVol \in Int /\ config.maxLeverage \in Int
  BY DEF ConfigType
<1>3. ~ScalingRaises(config, input, list)
  BY <1>1, <1>2 DEF ScalingRaises, Sound
<1> QED BY <1>1, <1>3 DEF TrendFails

LEMMA RotationTypes ==
    ASSUME NEW config, NEW input \in InputType,
           NEW list, IsFiniteSet(DOMAIN list), DOMAIN list \subseteq Symbols
    PROVE  LET R == Rotation(config, input, list)
           IN  /\ R \subseteq DOMAIN list /\ IsFiniteSet(R)
               /\ \A s \in R : input.view[s].vol \in Nat
               /\ \A s \in R : Portion(config, input, R, s) \in Nat \ {0}
<1> DEFINE R == Rotation(config, input, list)
<1>1. R \subseteq Candidates(input, list)
  BY DEF Rotation, Picked, Selected
<1>2. R \subseteq DOMAIN list /\ \A s \in R : input.view[s].vol > 0
  BY <1>1 DEF Candidates
<1>3. IsFiniteSet(R)
  BY <1>2, FS_Subset
<1>4. \A s \in R : input.view[s].vol \in Nat \ {0}
  BY <1>2 DEF InputType, ViewType
<1> HIDE DEF R
<1>5. \A s \in R : Portion(config, input, R, s) \in Nat \ {0}
  BY <1>3, <1>4, OthersVolPositive DEF Portion
<1> QED BY <1>2, <1>3, <1>4, <1>5 DEF R

(* The trend leg deals out no more than its weight of the day. *)
LEMMA RawWeightsType ==
    ASSUME NEW config, NEW input \in InputType, EffectiveTrend(config, input) \in Nat,
           NEW list, IsFiniteSet(DOMAIN list), DOMAIN list \subseteq Symbols
    PROVE  LET R == Rotation(config, input, list)
               raw == RawWeights(config, input, list)
           IN  raw \in [R -> Nat] /\ SumOf(raw) <= EffectiveTrend(config, input) * 100
<1> DEFINE R == Rotation(config, input, list)
<1> DEFINE P == Portions(config, input, R)
<1> DEFINE amount == EffectiveTrend(config, input) * 100
<1>1. /\ IsFiniteSet(R)
      /\ \A s \in R : Portion(config, input, R, s) \in Nat \ {0}
  BY RotationTypes
<1>2. RawWeights(config, input, list) = Split(amount, P)
  BY DEF RawWeights
<1>3. amount \in Nat
  OBVIOUS
<1> HIDE DEF R, amount
<1>4. P \in [R -> Nat \ {0}]
  BY <1>1 DEF Portions
<1> HIDE DEF P
<1>5. Split(amount, P) \in [R -> Nat] /\ SumOf(Split(amount, P)) <= amount
  BY <1>1, <1>3, <1>4, SplitShares
<1> QED BY <1>2, <1>5 DEF R, amount

(* A weighted sum of naturals, and one that takes less of each. *)
LEMMA WeightedVolBound ==
    ASSUME NEW input, NEW R, IsFiniteSet(R), NEW v \in [R -> Nat], NEW w \in [R -> Nat],
           \A s \in R : input.view[s].vol \in Nat /\ v[s] <= w[s]
    PROVE  /\ WeightedVol(input, v) \in Nat /\ WeightedVol(input, w) \in Nat
           /\ WeightedVol(input, v) <= WeightedVol(input, w)
           /\ SumOf(v) <= SumOf(w) /\ SumOf(v) \in Nat /\ SumOf(w) \in Nat
<1> DEFINE f == [s \in R |-> v[s] * input.view[s].vol]
<1> DEFINE g == [s \in R |-> w[s] * input.view[s].vol]
<1>1. DOMAIN v = R /\ DOMAIN w = R
  OBVIOUS
<1>2. WeightedVol(input, v) = SumOf(f) /\ WeightedVol(input, w) = SumOf(g)
  BY <1>1 DEF WeightedVol
<1>3. ASSUME NEW p \in Nat, NEW q \in Nat, NEW x \in Nat, p <= q
      PROVE  p * x \in Nat /\ q * x \in Nat /\ p * x <= q * x
  BY <1>3
<1>4. \A s \in R : f[s] \in Nat /\ g[s] \in Nat /\ f[s] <= g[s]
  <2> SUFFICES ASSUME NEW s \in R PROVE f[s] \in Nat /\ g[s] \in Nat /\ f[s] <= g[s]
    OBVIOUS
  <2>1. v[s] \in Nat /\ w[s] \in Nat /\ input.view[s].vol \in Nat /\ v[s] <= w[s]
    OBVIOUS
  <2> QED BY <1>3, <2>1
<1>5. DOMAIN f = R /\ DOMAIN g = R
  OBVIOUS
<1> HIDE DEF f, g
<1>6. SumOf(f) \in Nat /\ SumOf(g) \in Nat /\ SumOf(f) <= SumOf(g)
  BY <1>4, <1>5, SumNat, SumMonotone
<1>7. SumOf(v) <= SumOf(w) /\ SumOf(v) \in Nat /\ SumOf(w) \in Nat
  BY <1>1, SumNat, SumMonotone
<1> QED BY <1>2, <1>6, <1>7

(* The two caps take their part whether one binds, both or none. *)
LEMMA LimitedCaps ==
    ASSUME NEW config, config.maxLeverage \in Nat, config.targetVol \in Nat,
           NEW input, NEW R, IsFiniteSet(R), NEW raw \in [R -> Nat], \A s \in R : input.view[s].vol \in Nat
    PROVE  LET w == Limited(config, input, raw)
           IN  /\ w \in [R -> Nat]
               /\ \A s \in R : w[s] <= raw[s]
               /\ SumOf(w) <= 100 * config.maxLeverage
               /\ config.volScaling => WeightedVol(input, w) <= config.targetVol * Full
<1> DEFINE total == SumOf(raw)
<1> DEFINE risk == WeightedVol(input, raw)
<1> DEFINE w == Limited(config, input, raw)
<1> DEFINE leverage == config.maxLeverage * 100
<1> DEFINE target == config.targetVol * Full
<1>1. total \in Nat /\ risk \in Nat /\ DOMAIN raw = R
  <2>1. \A s \in R : input.view[s].vol \in Nat /\ raw[s] <= raw[s]
    OBVIOUS
  <2> QED BY <2>1, WeightedVolBound
<1>2. leverage \in Nat /\ target \in Nat /\ leverage = 100 * config.maxLeverage
  BY DEF Full
<1> DEFINE Lev(s) == (raw[s] * leverage) \div total
<1> DEFINE Vol(s) == (raw[s] * target) \div risk
<1>3. w = IF total = 0 THEN raw
          ELSE [s \in R |-> IF config.volScaling /\ risk > 0
                              THEN Least(Least(raw[s], Lev(s)), Vol(s))
                              ELSE Least(raw[s], Lev(s))]
  <2>1. ASSUME NEW s \in R
        PROVE  /\ raw[s] * config.maxLeverage * 100 = raw[s] * leverage
               /\ raw[s] * config.targetVol * Full = raw[s] * target
    <3> DEFINE r == raw[s]
    <3> DEFINE m == config.maxLeverage
    <3> DEFINE n == config.targetVol
    <3>1. r \in Nat /\ m \in Nat /\ n \in Nat
      OBVIOUS
    <3> HIDE DEF r, m, n
    <3>2. r * m * 100 = r * (m * 100) /\ r * n * Full = r * (n * Full)
      BY <3>1 DEF Full
    <3> QED BY <3>2 DEF r, m, n
  <2>2. \A s \in R : Levered(config, raw[s], total) = Least(raw[s], Lev(s))
    BY <2>1 DEF Levered
  <2> QED BY <1>1, <2>1, <2>2 DEF Limited
<1>4. ASSUME NEW s \in R, total # 0
      PROVE  Lev(s) \in Nat /\ total * Lev(s) <= leverage * raw[s]
  <2> DEFINE r == raw[s]
  <2>1. r \in Nat
    OBVIOUS
  <2> HIDE DEF r, total, leverage
  <2>2. r * leverage \in Nat /\ r * leverage = leverage * r /\ total \in Nat \ {0}
    BY <1>1, <1>2, <1>4, <2>1
  <2> QED BY <2>2, Quotient DEF r
<1>5. ASSUME NEW s \in R, risk # 0
      PROVE  Vol(s) \in Nat /\ risk * Vol(s) <= target * raw[s]
  <2> DEFINE r == raw[s]
  <2>1. r \in Nat
    OBVIOUS
  <2> HIDE DEF r, risk, target
  <2>2. r * target \in Nat /\ r * target = target * r /\ risk \in Nat \ {0}
    BY <1>1, <1>2, <1>5, <2>1
  <2> QED BY <2>2, Quotient DEF r
<1> HIDE DEF Lev, Vol, w, total, risk, leverage, target
<1>6. ASSUME NEW m \in Nat, NEW p \in Nat, NEW q \in Nat, p <= q
      PROVE  m * p <= m * q
  BY <1>6
<1>7. ASSUME NEW s \in R
      PROVE  /\ w[s] \in Nat /\ w[s] <= raw[s]
             /\ total # 0 => total * w[s] <= leverage * raw[s]
             /\ total # 0 /\ risk # 0 /\ config.volScaling => risk * w[s] <= target * raw[s]
  <2>1. w[s] \in Nat /\ w[s] <= raw[s]
    BY <1>3, <1>4, <1>5, <1>1 DEF Least
  <2>2. total # 0 => w[s] <= Lev(s)
    BY <1>3, <1>4, <1>5, <1>1 DEF Least
  <2>3. total # 0 /\ risk # 0 /\ config.volScaling => w[s] <= Vol(s)
    BY <1>3, <1>4, <1>5, <1>1 DEF Least
  <2>4. total # 0 => total * w[s] <= total * Lev(s)
    BY <1>1, <1>4, <1>6, <2>1, <2>2
  <2>5. total # 0 /\ risk # 0 /\ config.volScaling => risk * w[s] <= risk * Vol(s)
    BY <1>1, <1>5, <1>6, <2>1, <2>3
  <2>6. /\ total * w[s] \in Nat /\ risk * w[s] \in Nat
        /\ leverage * raw[s] \in Nat /\ target * raw[s] \in Nat
    BY <1>1, <1>2, <2>1
  <2>7. /\ total # 0 => total * Lev(s) \in Nat
        /\ risk # 0 => risk * Vol(s) \in Nat
    BY <1>1, <1>4, <1>5
  <2>8. total # 0 => total * w[s] <= leverage * raw[s]
    BY <1>4, <2>4, <2>6, <2>7
  <2>9. total # 0 /\ risk # 0 /\ config.volScaling => risk * w[s] <= target * raw[s]
    BY <1>5, <2>5, <2>6, <2>7
  <2> QED BY <2>1, <2>8, <2>9
<1>8. DOMAIN w = R /\ w = [s \in R |-> w[s]]
  BY <1>3
<1>9. w \in [R -> Nat]
  BY <1>7, <1>8
<1>10. /\ WeightedVol(input, w) \in Nat /\ WeightedVol(input, w) <= risk
       /\ SumOf(w) \in Nat /\ SumOf(w) <= total
  BY <1>7, <1>9, WeightedVolBound DEF risk, total
<1>11. SumOf(w) <= leverage
  <2>1. CASE total = 0
    BY <1>1, <1>2, <1>10, <2>1
  <2>2. CASE total # 0
    BY <1>1, <1>2, <1>7, <1>8, <2>2, SharesFit DEF total
  <2> QED BY <2>1, <2>2
<1>12. ASSUME config.volScaling PROVE WeightedVol(input, w) <= target
  <2>1. CASE risk = 0
    BY <1>2, <1>10, <2>1
  <2>2. CASE total = 0
    <3>1. \A s \in R : raw[s] = 0
      BY <1>1, <2>2, TermBelowSum DEF total
    <3> DEFINE f == [s \in R |-> w[s] * input.view[s].vol]
    <3>2. \A s \in R : w[s] = 0
      BY <1>7, <3>1
    <3>3. \A s \in R : 0 * input.view[s].vol = 0
      OBVIOUS
    <3>4. DOMAIN f = R /\ \A s \in R : f[s] = 0
      BY <3>2, <3>3
    <3>5. WeightedVol(input, w) = SumOf(f)
      BY <1>8 DEF WeightedVol
    <3> HIDE DEF f
    <3>6. SumOf(f) <= 0 * SumOf(f)
      <4>1. SumOf(f) \in Nat /\ \A s \in R : 1 * f[s] <= 0 * f[s] /\ f[s] \in Nat
        BY <3>4, SumNat
      <4>2. 1 * SumOf(f) <= 0 * SumOf(f)
        BY <3>4, <4>1, SumScaled
      <4> QED BY <4>1, <4>2
    <3>7. SumOf(f) \in Nat
      BY <3>4, SumNat
    <3> QED BY <1>2, <3>5, <3>6, <3>7
  <2>3. CASE risk # 0 /\ total # 0
    <3> DEFINE f == [s \in R |-> w[s] * input.view[s].vol]
    <3> DEFINE g == [s \in R |-> raw[s] * input.view[s].vol]
    <3>1. SumOf(f) = WeightedVol(input, w) /\ SumOf(g) = risk
      BY <1>1, <1>8 DEF WeightedVol, risk
    <3>2. ASSUME NEW p \in Nat, NEW q \in Nat, NEW x \in Nat, NEW m \in Nat, NEW n \in Nat,
                 m * p <= n * q
          PROVE  /\ m * (p * x) <= n * (q * x) /\ p * x \in Nat /\ q * x \in Nat
      <4>1. m * p \in Nat /\ n * q \in Nat
        OBVIOUS
      <4>2. ASSUME NEW y \in Nat, NEW z \in Nat, y <= z PROVE y * x <= z * x
        BY <4>2
      <4>3. (m * p) * x <= (n * q) * x
        BY <3>2, <4>1, <4>2
      <4>4. (m * p) * x = m * (p * x) /\ (n * q) * x = n * (q * x)
        OBVIOUS
      <4> QED BY <4>3, <4>4
    <3>3. ASSUME NEW s \in R
          PROVE  f[s] \in Nat /\ g[s] \in Nat /\ risk * f[s] <= target * g[s]
      <4>1. input.view[s].vol \in Nat /\ raw[s] \in Nat
        OBVIOUS
      <4>2. w[s] \in Nat /\ risk * w[s] <= target * raw[s]
        BY <1>7, <1>12, <2>3
      <4> QED BY <1>1, <1>2, <3>2, <4>1, <4>2
    <3>4. DOMAIN f = R /\ DOMAIN g = R
      OBVIOUS
    <3> HIDE DEF f, g
    <3>5. SumOf(f) <= target
      BY <1>2, <2>3, <3>1, <3>3, <3>4, SharesFit
    <3> QED BY <3>1, <3>5
  <2> QED BY <2>1, <2>2, <2>3
<1> QED BY <1>2, <1>7, <1>9, <1>11, <1>12 DEF w, target

(* The merge scales all weights down together, and none up. *)
LEMMA ScaledToFullType ==
    ASSUME NEW A, IsFiniteSet(A), NEW weights \in [A -> Nat]
    PROVE  /\ ScaledToFull(weights) \in [A -> Nat]
           /\ SumOf(ScaledToFull(weights)) <= Full
           /\ \A s \in A : ScaledToFull(weights)[s] <= weights[s]
<1> DEFINE total == SumOf(weights)
<1> DEFINE down == [s \in A |-> (weights[s] * Full) \div total]
<1>1. total \in Nat /\ DOMAIN weights = A /\ Full \in Nat
  BY SumNat DEF Full
<1>2. ScaledToFull(weights) = IF total > Full THEN down ELSE weights
  BY <1>1 DEF ScaledToFull
<1> HIDE DEF total
<1>3. ASSUME total > Full
      PROVE  down \in [A -> Nat] /\ SumOf(down) <= Full /\ \A s \in A : down[s] <= weights[s]
  <2>1. ASSUME NEW s \in A
        PROVE  down[s] \in Nat /\ total * down[s] <= Full * weights[s] /\ down[s] <= weights[s]
    <3> DEFINE x == weights[s]
    <3>1. down[s] = (x * Full) \div total
      OBVIOUS
    <3>2. x \in Nat
      OBVIOUS
    <3> HIDE DEF down, x
    <3>3. x * Full = Full * x /\ Full <= total /\ total \in Nat \ {0}
      BY <1>1, <1>3, <3>2
    <3> QED BY <1>1, <3>1, <3>2, <3>3, ScaledDown DEF x
  <2>2. DOMAIN down = A /\ down \in [A -> Nat]
    BY <2>1
  <2> HIDE DEF down
  <2>3. total # 0
    BY <1>1, <1>3
  <2>4. \A s \in A : /\ down[s] \in Nat /\ weights[s] \in Nat
                     /\ total * down[s] <= Full * weights[s]
    BY <2>1
  <2>5. SumOf(down) <= Full
    BY <1>1, <2>2, <2>3, <2>4, SharesFit DEF total
  <2> QED BY <2>1, <2>2, <2>5
<1> HIDE DEF down
<1>4. total <= Full \/ total > Full
  BY <1>1
<1> QED BY <1>1, <1>2, <1>3, <1>4 DEF total

(* The trend part of target weights *)
Trend(weights) == [s \in DOMAIN weights \ {BTC} |-> weights[s]]

(* What the strategy targets under sound settings: BTC and the symbols of  *)
(* the rotation, no more than the whole equity, and for each leg no more   *)
(* than its weight of the day and its caps.                                *)
LEMMA TargetWeightsFacts ==
    ASSUME RatioNatural, BTC \notin Symbols,
           NEW config \in ConfigType, Sound(config), NEW input \in InputType,
           NEW list, IsFiniteSet(DOMAIN list), DOMAIN list \subseteq Symbols, NEW e \in Nat
    PROVE  LET w == TargetWeights(config, input, list, e)
               R == Rotation(config, input, list)
           IN  /\ R \subseteq DOMAIN list /\ IsFiniteSet(R)
               /\ w \in [R \cup {BTC} -> Nat]
               /\ SumOf(w) <= Full
               /\ w[BTC] <= BtcTarget(config, input, e)
               /\ Trend(w) \in [R -> Nat]
               /\ SumOf(Trend(w)) <= EffectiveTrend(config, input) * 100
               /\ SumOf(Trend(w)) <= 100 * config.maxLeverage
               /\ config.volScaling => WeightedVol(input, Trend(w)) <= config.targetVol * Full
<1> DEFINE R == Rotation(config, input, list)
<1> DEFINE raw == RawWeights(config, input, list)
<1> DEFINE trend == Limited(config, input, raw)
<1> DEFINE btc == BtcTarget(config, input, e)
<1> DEFINE merged == Merged(trend, btc)
<1>0. /\ config.maxLeverage \in Nat /\ config.targetVol \in Nat
      /\ EffectiveTrend(config, input) \in Nat
  BY SoundTrendLeg DEF ConfigType, Sound
<1>1. /\ R \subseteq DOMAIN list /\ IsFiniteSet(R)
      /\ \A s \in R : input.view[s].vol \in Nat
      /\ raw \in [R -> Nat] /\ SumOf(raw) <= EffectiveTrend(config, input) * 100
  BY <1>0, RotationTypes, RawWeightsType
<1>2. /\ trend \in [R -> Nat] /\ \A s \in R : trend[s] <= raw[s]
      /\ SumOf(trend) <= 100 * config.maxLeverage
      /\ config.volScaling => WeightedVol(input, trend) <= config.targetVol * Full
  <2>1. IsFiniteSet(R) /\ raw \in [R -> Nat] /\ \A s \in R : input.view[s].vol \in Nat
    BY <1>1
  <2> HIDE DEF raw, R
  <2> QED BY <1>0, <2>1, LimitedCaps
<1>3. btc \in Nat
  <2>1. EffectiveBtc(config, input) \in Nat
    BY TierTypes DEF EffectiveBtc
  <2> QED BY <2>1, BtcTargetType
<1> HIDE DEF R, raw, trend, btc
<1>4. /\ merged \in [R \cup {BTC} -> Nat]
      /\ merged[BTC] = btc /\ \A s \in R : s # BTC => merged[s] = trend[s]
  <2>1. DOMAIN trend = R
    BY <1>2
  <2> QED BY <1>2, <1>3, <2>1 DEF Merged
<1>5. IsFiniteSet(R \cup {BTC}) /\ BTC \notin R
  BY <1>1, FS_AddElement
<1> HIDE DEF merged
<1> DEFINE w == ScaledToFull(merged)
<1>6. /\ w \in [R \cup {BTC} -> Nat] /\ SumOf(w) <= Full
      /\ \A s \in R \cup {BTC} : w[s] <= merged[s]
  BY <1>4, <1>5, ScaledToFullType
<1>7. TargetWeights(config, input, list, e) = w
  BY DEF TargetWeights, TrendWeights, w, merged, trend, raw, btc
<1> HIDE DEF w
<1> DEFINE t == Trend(w)
<1>8. t \in [R -> Nat] /\ \A s \in R : t[s] = w[s]
  <2>1. DOMAIN w \ {BTC} = R
    BY <1>5, <1>6
  <2>2. t = [s \in R |-> w[s]]
    BY <2>1 DEF Trend
  <2> QED BY <1>6, <2>2
<1> HIDE DEF t
<1>9. \A s \in R : t[s] <= trend[s]
  BY <1>4, <1>5, <1>6, <1>8
<1>10. /\ SumOf(t) \in Nat /\ SumOf(trend) \in Nat /\ SumOf(raw) \in Nat
       /\ SumOf(t) <= SumOf(trend) /\ SumOf(trend) <= SumOf(raw)
       /\ WeightedVol(input, t) \in Nat /\ WeightedVol(input, trend) \in Nat
       /\ WeightedVol(input, t) <= WeightedVol(input, trend)
  <2>1. \A s \in R : input.view[s].vol \in Nat /\ t[s] <= trend[s]
    BY <1>1, <1>9
  <2>2. \A s \in R : input.view[s].vol \in Nat /\ trend[s] <= raw[s]
    BY <1>1, <1>2
  <2>3. /\ SumOf(t) \in Nat /\ SumOf(t) <= SumOf(trend)
        /\ WeightedVol(input, t) \in Nat /\ WeightedVol(input, trend) \in Nat
        /\ WeightedVol(input, t) <= WeightedVol(input, trend)
    BY <1>1, <1>2, <1>8, <2>1, WeightedVolBound
  <2>4. SumOf(trend) \in Nat /\ SumOf(raw) \in Nat /\ SumOf(trend) <= SumOf(raw)
    BY <1>1, <1>2, <2>2, WeightedVolBound
  <2> QED BY <2>3, <2>4
<1> DEFINE lev == 100 * config.maxLeverage
<1> DEFINE vol == config.targetVol * Full
<1> DEFINE leg == EffectiveTrend(config, input) * 100
<1>11. lev \in Nat /\ vol \in Nat /\ leg \in Nat
  BY <1>0 DEF Full
<1> HIDE DEF lev, vol, leg
<1>12. SumOf(t) <= leg /\ SumOf(t) <= lev
  BY <1>1, <1>2, <1>10, <1>11 DEF lev, leg
<1>13. config.volScaling => WeightedVol(input, t) <= vol
  BY <1>2, <1>10, <1>11 DEF vol
<1> QED
  BY <1>1, <1>4, <1>6, <1>7, <1>8, <1>12, <1>13 DEF t, lev, vol, leg, btc, R

(* Terms that may be negative. *)
LEMMA SumInt ==
    ASSUME NEW f, IsFiniteSet(DOMAIN f), \A x \in DOMAIN f : f[x] \in Int
    PROVE  SumOf(f) \in Int
<1> DEFINE Good == {s \in SUBSET DOMAIN f : SumFn(f)[s] \in Int}
<1>1. {} \in Good
  BY FoldUnfolds DEF Partial
<1>2. ASSUME NEW s \in SUBSET DOMAIN f, s # {}, Others(s) \in Good PROVE s \in Good
  <2>1. SumFn(f)[s] = f[Any(s)] + SumFn(f)[Others(s)]
    BY <1>2, FoldUnfolds DEF Partial
  <2>2. Any(s) \in s
    BY <1>2 DEF Any
  <2> QED BY <1>2, <2>1, <2>2
<1>3. SUBSET DOMAIN f \subseteq Good
  <2>1. \A s \in SUBSET DOMAIN f : s # {} /\ Others(s) \in Good => s \in Good
    BY <1>2
  <2> HIDE DEF Good
  <2> QED BY <1>1, <2>1, SubsetInduction
<1> QED BY <1>3, SumIsFold

LEMMA NegativeQuotient ==
    ASSUME NEW a \in Int, NEW b \in Nat \ {0}, a < 0
    PROVE  a \div b < 0
<1> DEFINE q == a \div b
<1>1. q \in Int /\ b * q <= a
  OBVIOUS
<1> HIDE DEF q
<1>2. ASSUME q >= 0 PROVE FALSE
  <2>1. b * q >= 0
    BY <1>1, <1>2
  <2> QED BY <1>1, <2>1
<1> QED BY <1>1, <1>2 DEF q

(* Unless it fails, the trend leg targets no symbol with less than nothing,*)
(* whatever its settings.                                                  *)
LEMMA TrendWeightsNatural ==
    ASSUME NEW config \in ConfigType, NEW input \in InputType,
           NEW list, IsFiniteSet(DOMAIN list), DOMAIN list \subseteq Symbols,
           ~TrendFails(config, input, list)
    PROVE  TrendWeights(config, input, list) \in [Rotation(config, input, list) -> Nat]
<1> DEFINE R == Rotation(config, input, list)
<1> DEFINE raw == RawWeights(config, input, list)
<1> DEFINE leg == EffectiveTrend(config, input)
<1>1. leg \in Int
  BY TierTypes DEF EffectiveTrend
<1>2. IsFiniteSet(R) /\ \A s \in R : input.view[s].vol \in Nat
  BY RotationTypes
<1>3. SumOf(raw) = 0 => TrendWeights(config, input, list) = raw
  BY DEF TrendWeights, Limited
<1>4. CASE R = {}
  <2>1. DOMAIN raw = {} /\ raw = [s \in DOMAIN raw |-> raw[s]]
    BY <1>4 DEF RawWeights, Split, Portions
  <2>2. raw \in [R -> Nat]
    <3> HIDE DEF raw
    <3> QED BY <1>4, <2>1
  <2> QED BY <1>3, <2>1, <2>2, EmptySum
<1>5. CASE R # {}
  <2>1. /\ leg >= 0
        /\ leg > 0 => config.targetVol > 0 /\ config.maxLeverage >= 0
    <3>1. Picked(config, input, list) # {}
      BY <1>5 DEF Rotation
    <3>2. config.targetVol \in Int /\ config.maxLeverage \in Int
      BY DEF ConfigType
    <3> QED BY <1>1, <3>1, <3>2 DEF TrendFails, ScalingRaises
  <2>2. raw \in [R -> Nat] /\ SumOf(raw) <= leg * 100
    BY <1>1, <2>1, RawWeightsType
  <2>3. SumOf(raw) \in Nat
    BY <1>2, <2>2, SumNat
  <2>4. CASE leg = 0
    <3>1. leg * 100 = 0
      BY <2>4
    <3> HIDE DEF leg, raw, R
    <3>2. SumOf(raw) = 0
      BY <2>2, <2>3, <3>1
    <3> QED BY <1>3, <2>2, <3>2 DEF R
  <2>5. CASE leg > 0
    <3>1. config.targetVol \in Nat /\ config.maxLeverage \in Nat
      BY <2>1, <2>5 DEF ConfigType
    <3> HIDE DEF raw, R
    <3>2. Limited(config, input, raw) \in [R -> Nat]
      BY <1>2, <2>2, <3>1, LimitedCaps
    <3> QED BY <3>2 DEF TrendWeights, raw, R
  <2> QED BY <1>1, <2>1, <2>4, <2>5
<1> QED BY <1>4, <1>5

(* Whatever its settings, the strategy targets BTC and symbols of the pool,*)
(* and no more than the whole equity, unless the weight of the BTC leg is  *)
(* negative and BTC's target with it.                                      *)
LEMMA TargetWeightsType ==
    ASSUME RatioNatural, BTC \notin Symbols,
           NEW config \in ConfigType, NEW input \in InputType,
           NEW list, IsFiniteSet(DOMAIN list), DOMAIN list \subseteq Symbols, NEW e \in Nat,
           ~TrendFails(config, input, list)
    PROVE  LET w == TargetWeights(config, input, list, e)
           IN  /\ DOMAIN w \subseteq DOMAIN list \cup {BTC} /\ IsFiniteSet(DOMAIN w)
               /\ \/ (\A s \in DOMAIN w : w[s] \in Nat) /\ SumOf(w) <= Full
                  \/ EffectiveBtc(config, input) < 0 /\ \E s \in DOMAIN w : w[s] < 0
<1> DEFINE R == Rotation(config, input, list)
<1> DEFINE A == R \cup {BTC}
<1> DEFINE trend == TrendWeights(config, input, list)
<1> DEFINE btc == BtcTarget(config, input, e)
<1> DEFINE merged == Merged(trend, btc)
<1> DEFINE w == ScaledToFull(merged)
<1>1. R \subseteq DOMAIN list /\ IsFiniteSet(R) /\ trend \in [R -> Nat]
  BY RotationTypes, TrendWeightsNatural
<1>2. /\ btc \in Int /\ (EffectiveBtc(config, input) >= 0 => btc \in Nat)
      /\ EffectiveBtc(config, input) \in Int
  BY BtcTargetType
<1>3. TargetWeights(config, input, list, e) = w
  BY DEF TargetWeights
<1> HIDE DEF R, trend, btc
<1>4. IsFiniteSet(A)
  BY <1>1, FS_AddElement
<1>5. /\ merged = [s \in A |-> IF s = BTC THEN btc ELSE trend[s]]
      /\ DOMAIN merged = A
  <2>1. DOMAIN trend = R
    BY <1>1
  <2> QED BY <2>1 DEF Merged
<1>6. merged[BTC] = btc /\ \A s \in A : merged[s] \in Int /\ (btc \in Nat => merged[s] \in Nat)
  BY <1>1, <1>2, <1>5
<1>7. CASE btc >= 0
  <2>1. merged \in [A -> Nat]
    BY <1>2, <1>5, <1>6, <1>7
  <2> HIDE DEF merged, A
  <2>2. w \in [A -> Nat] /\ SumOf(w) <= Full
    BY <1>4, <2>1, ScaledToFullType
  <2> QED BY <1>1, <1>3, <1>4, <2>2 DEF A
<1>8. CASE btc < 0
  <2> DEFINE total == SumOf(merged)
  <2>1. total \in Int
    <3> HIDE DEF merged, A
    <3> QED BY <1>4, <1>5, <1>6, SumInt
  <2>2. DOMAIN w = A /\ w[BTC] = IF total > Full THEN (btc * Full) \div total ELSE btc
    <3> HIDE DEF merged
    <3> QED BY <1>5, <1>6 DEF ScaledToFull
  <2>3. w[BTC] < 0
    <3> HIDE DEF w, total
    <3>1. CASE total > Full
      <4>1. btc * Full \in Int /\ btc * Full < 0 /\ total \in Nat \ {0}
        BY <1>2, <1>8, <2>1, <3>1 DEF Full
      <4> QED BY <2>2, <3>1, <4>1, NegativeQuotient
    <3> QED BY <1>8, <2>2, <3>1
  <2>4. BTC \in A
    OBVIOUS
  <2> HIDE DEF w
  <2> QED BY <1>1, <1>2, <1>3, <1>4, <1>8, <2>2, <2>3, <2>4
<1> QED BY <1>2, <1>7, <1>8

=============================================================================
