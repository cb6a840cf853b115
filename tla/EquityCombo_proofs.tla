------------------------- MODULE EquityCombo_proofs -------------------------
(***************************************************************************)
(* Proofs about EquityCombo, for any symbols, markets, accounts and        *)
(* configurations: budgets are covered by cash, legs stay inside their     *)
(* targets, and the trend leg inside its regime and its caps.              *)
(***************************************************************************)
EXTENDS EquityCombo, ComboStrategy_proofs

-----------------------------------------------------------------------------
(* The invariant *)

TypeInv ==
    /\ config \in Configs /\ market \in Markets
    /\ cash \in Nat /\ locked \in Nat
    /\ lots \in [Symbols \cup {BTC} -> Nat]
    /\ DOMAIN pool \subseteq Symbols
    /\ phase \in {"idle", "decided"}

WeightsType(w) ==
    /\ BTC \in DOMAIN w /\ DOMAIN w \subseteq Symbols \cup {BTC}
    /\ \A s \in DOMAIN w : w[s] \in Nat

(* A decision is of its types, and nothing is decided between two cycles.  *)
DecisionInv ==
    /\ DOMAIN decision.buys \subseteq Symbols
    /\ \A s \in DOMAIN decision.buys : decision.buys[s] \in Nat
    /\ decision.btcBudget \in Nat /\ decision.trendBudget \in Nat
    /\ WeightsType(decision.weights) /\ decision.equity \in Nat
    /\ DOMAIN decision.pool \subseteq Symbols
    /\ ordered \subseteq DOMAIN decision.buys \cup {BTC}
    /\ phase = "idle" => decision = NoDecision /\ ordered = {}

TrendTarget == Of(SumOf(TrendPart(decision.weights)), decision.equity)

BtcLegTarget == Of(decision.weights[BTC], decision.equity)

(* What is left to buy of the two legs *)
TrendOutstanding == SumOf([s \in DOMAIN decision.buys \ ordered |-> decision.buys[s]])

BtcOutstanding == IF BTC \in ordered THEN 0 ELSE decision.btcBudget

(* A leg fits its target with what is left to buy of it, once anything of  *)
(* it is to be bought; and that is covered by the cash.                    *)
FundsInv ==
    /\ TrendOutstanding + BtcOutstanding <= cash
    /\ DOMAIN decision.buys # {} => TrendValue + TrendOutstanding <= TrendTarget
    /\ decision.btcBudget > 0 => DcaValue + BtcOutstanding <= BtcLegTarget
    /\ BTC \in ordered => decision.btcBudget > 0

(* What a decision says of the trend leg, as long as it stands *)
LegInv == EitherRegimeCutsTrend /\ TrendRiskInsideTarget /\ FailedTrendLegStaysCash

ComboInv == TypeInv /\ DecisionInv /\ FundsInv /\ LegInv

-----------------------------------------------------------------------------
(* Types *)

LEMMA SymbolsFinite ==
    /\ IsFiniteSet(Symbols) /\ BTC \notin Symbols
    /\ \A S : S \subseteq Symbols => IsFiniteSet(S)
BY ComboAssumption, FS_Subset

LEMMA Readings ==
    ASSUME TypeInv
    PROVE  /\ in \in InputType /\ config \in ConfigType /\ Sound(config)
           /\ Universe \subseteq Symbols
           /\ market.mark \in [Symbols \cup {BTC} -> Nat \ {0}]
           /\ market.universe \in Seq(Symbols)
<1>1. market \in MarketType /\ config \in ConfigType /\ Sound(config)
  BY ComboAssumption DEF TypeInv
<1>2. market.universe \in Seq(Symbols)
  BY <1>1 DEF MarketType
<1>3. \A i \in DOMAIN market.universe : market.universe[i] \in Symbols
  BY <1>2
<1> QED BY <1>1, <1>2, <1>3 DEF MarketType, in, Universe

(* The trend symbols of lots l, at the marks of market m *)
ValueOf(l, m) == SumOf([s \in Symbols |-> l[s] * m.mark[s]])

Part(l, m, s) == l[s] * m.mark[s]

LEMMA ValueOfNat ==
    ASSUME NEW l \in [Symbols \cup {BTC} -> Nat],
           NEW m, m.mark \in [Symbols \cup {BTC} -> Nat \ {0}]
    PROVE  /\ ValueOf(l, m) \in Nat
           /\ \A s \in Symbols \cup {BTC} : l[s] * m.mark[s] \in Nat
<1> DEFINE f == [s \in Symbols |-> l[s] * m.mark[s]]
<1>1. ASSUME NEW s \in Symbols \cup {BTC} PROVE l[s] * m.mark[s] \in Nat
  <2>1. l[s] \in Nat /\ m.mark[s] \in Nat
    OBVIOUS
  <2> QED BY <2>1
<1>2. DOMAIN f = Symbols /\ \A s \in Symbols : f[s] \in Nat
  BY <1>1
<1> HIDE DEF f
<1>3. SumOf(f) \in Nat
  BY <1>2, SymbolsFinite, SumNat
<1> QED BY <1>1, <1>3 DEF ValueOf, f

LEMMA AccountTypes ==
    ASSUME TypeInv
    PROVE  TrendValue \in Nat /\ DcaValue \in Nat /\ Equity \in Nat
<1>1. /\ ValueOf(lots, market) \in Nat
      /\ lots[BTC] * market.mark[BTC] \in Nat
  BY Readings, ValueOfNat DEF TypeInv
<1>2. TrendValue \in Nat /\ DcaValue \in Nat
  BY <1>1 DEF TrendValue, DcaValue, Value, ValueOf
<1> QED BY <1>2 DEF Equity, TypeInv

LEMMA PoolOfCycleType ==
    ASSUME TypeInv
    PROVE  DOMAIN PoolOfCycle \subseteq Symbols
<1>1. DOMAIN RP!EmptyList = {}
  BY DEF RP!EmptyList
<1>2. RP!Upstream = RP!Normalized(market.universe)
  BY DEF RP!Upstream, RP!ListOf
<1>3. DOMAIN RP!Upstream \subseteq Symbols
  <2>1. DOMAIN RP!Upstream = {market.universe[i] : i \in DOMAIN market.universe}
    BY <1>2 DEF RP!Normalized
  <2> QED BY <2>1, Readings DEF Universe
<1>4. DOMAIN RP!Cached \subseteq Symbols
  BY <1>3 DEF RP!Cached, RP!Within, TypeInv
<1>5. \A n : DOMAIN RP!FirstOf(RP!Upstream, n) \subseteq Symbols
  BY <1>3 DEF RP!FirstOf, RP!Within
<1>6. DOMAIN RP!Resolved(config.refresh) \subseteq Symbols
  BY <1>3, <1>4, <1>5 DEF RP!Resolved
<1> QED BY <1>1, <1>6 DEF PoolOfCycle

LEMMA OfTypes ==
    ASSUME NEW w \in Nat, NEW e \in Nat
    PROVE  Of(w, e) \in Nat
<1>1. w * e \in Nat /\ Full \in Nat \ {0}
  BY DEF Full
<1> QED BY <1>1, Quotient DEF Of

(* What the strategy targets in this cycle *)
LEMMA WeightsOfCycle ==
    ASSUME RatioNatural, TypeInv
    PROVE  /\ WeightsType(Weights)
           /\ DOMAIN Weights = Chosen \cup {BTC} /\ Chosen \subseteq Symbols
           /\ IsFiniteSet(Chosen)
           /\ \A s \in Chosen : Portion(config, in, Chosen, s) \in Nat \ {0}
           /\ Weights[BTC] <= BtcTarget(config, in, Equity)
           /\ TrendRatio \in Nat /\ BtcRatio \in Nat
           /\ TrendPart(Weights) \in [Chosen -> Nat]
           /\ TrendRatio = SumOf(TrendPart(Weights))
           /\ TrendRatio <= EffectiveTrend(config, in) * 100
           /\ TrendRatio <= 100 * config.maxLeverage
           /\ config.volScaling =>
                WeightedVol(in, TrendPart(Weights)) <= config.targetVol * Full
<1>1. /\ BTC \notin Symbols /\ config \in ConfigType /\ Sound(config) /\ in \in InputType /\ Equity \in Nat
      /\ DOMAIN PoolOfCycle \subseteq Symbols /\ IsFiniteSet(DOMAIN PoolOfCycle)
  BY SymbolsFinite, Readings, AccountTypes, PoolOfCycleType
<1> DEFINE T == TrendPart(Weights)
<1>2. Trend(Weights) = T
  BY DEF Trend, TrendPart
<1>3. /\ Chosen \subseteq DOMAIN PoolOfCycle /\ IsFiniteSet(Chosen)
      /\ Weights \in [Chosen \cup {BTC} -> Nat]
      /\ Weights[BTC] <= BtcTarget(config, in, Equity)
      /\ T \in [Chosen -> Nat]
      /\ SumOf(T) <= EffectiveTrend(config, in) * 100
      /\ SumOf(T) <= 100 * config.maxLeverage
      /\ config.volScaling => WeightedVol(in, T) <= config.targetVol * Full
  <2> HIDE DEF T
  <2> QED BY <1>1, <1>2, TargetWeightsFacts DEF Weights, Chosen
<1>4. \A s \in Chosen : Portion(config, in, Chosen, s) \in Nat \ {0}
  BY <1>1, RotationTypes DEF Chosen
<1>5. SumOf(T) \in Nat
  <2> HIDE DEF T
  <2>1. DOMAIN T = Chosen /\ \A s \in Chosen : T[s] \in Nat
    BY <1>3
  <2> QED BY <1>3, <2>1, SumNat
<1>6. TrendRatio = SumOf(T)
  BY DEF TrendRatio
<1>7. WeightsType(Weights) /\ BtcRatio \in Nat /\ DOMAIN Weights = Chosen \cup {BTC}
  <2>1. \A s \in DOMAIN Weights : Weights[s] \in Nat
    BY <1>3
  <2> QED BY <1>1, <1>3, <2>1 DEF WeightsType, BtcRatio
<1> QED BY <1>1, <1>3, <1>4, <1>5, <1>6, <1>7

(* The two budgets, and the buys planned from one of them: together they   *)
(* are covered by the cash, and each leaves its leg inside its target.     *)
LEMMA BudgetsOfCycle ==
    ASSUME RatioNatural, TypeInv
    PROVE  /\ TrendBudget \in Nat /\ BtcBudget \in Nat
           /\ PlannedBuys \in [DOMAIN PlannedBuys -> Nat]
           /\ DOMAIN PlannedBuys \subseteq Chosen
           /\ SumOf(PlannedBuys) \in Nat /\ SumOf(PlannedBuys) <= TrendBudget
           /\ TrendBudget + BtcBudget <= cash
           /\ DOMAIN PlannedBuys # {} => TrendValue + TrendBudget <= Of(TrendRatio, Equity)
           /\ BtcBudget > 0 => DcaValue + BtcBudget <= Of(BtcRatio, Equity)
<1>1. /\ TrendRatio \in Nat /\ BtcRatio \in Nat /\ Equity \in Nat
      /\ TrendValue \in Nat /\ DcaValue \in Nat /\ cash \in Nat
  BY WeightsOfCycle, AccountTypes DEF TypeInv
<1> DEFINE t == Of(TrendRatio, Equity)
<1> DEFINE b == Of(BtcRatio, Equity)
<1>2. t \in Nat /\ b \in Nat
  BY <1>1, OfTypes
<1>3. TrendBudget = Most(0, Least(cash, t - TrendValue))
  BY DEF TrendBudget
<1>4. BtcBudget = Most(0, Least(cash - TrendBudget, b - DcaValue))
  BY DEF BtcBudget
<1> HIDE DEF t, b
<1>5. /\ TrendBudget \in Nat /\ TrendBudget <= cash
      /\ TrendBudget # 0 => TrendValue + TrendBudget <= t
  BY <1>1, <1>2, <1>3 DEF Most, Least
<1>6. /\ BtcBudget \in Nat /\ TrendBudget + BtcBudget <= cash
      /\ BtcBudget > 0 => DcaValue + BtcBudget <= b
  BY <1>1, <1>2, <1>4, <1>5 DEF Most, Least
<1>7. CASE TrendBudget = 0
  <2>1. PlannedBuys = [s \in {} |-> 0]
    BY <1>7 DEF PlannedBuys
  <2>2. DOMAIN PlannedBuys = {} /\ PlannedBuys \in [DOMAIN PlannedBuys -> Nat]
    BY <2>1
  <2>3. SumOf(PlannedBuys) = 0
    BY <2>2, EmptySum
  <2> QED BY <1>5, <1>6, <2>2, <2>3 DEF b
<1>8. CASE TrendBudget # 0
  <2> DEFINE P == [s \in Eligible |-> Portion(config, in, Chosen, s)]
  <2>1. PlannedBuys = Split(TrendBudget, P)
    BY <1>8 DEF PlannedBuys
  <2>2. Eligible \subseteq Chosen /\ IsFiniteSet(Eligible)
    BY WeightsOfCycle, FS_Subset DEF Eligible
  <2>3. P \in [Eligible -> Nat \ {0}]
    BY <2>2, WeightsOfCycle
  <2> HIDE DEF P
  <2>4. PlannedBuys \in [Eligible -> Nat] /\ SumOf(PlannedBuys) <= TrendBudget
    BY <1>5, <2>1, <2>2, <2>3, SplitShares
  <2>5. DOMAIN PlannedBuys = Eligible
    BY <2>4
  <2>6. SumOf(PlannedBuys) \in Nat
    BY <2>2, <2>4, <2>5, SumNat
  <2> QED BY <1>5, <1>6, <1>8, <2>2, <2>4, <2>5, <2>6 DEF t, b
<1> QED BY <1>7, <1>8

-----------------------------------------------------------------------------
(* What a step does to the sums *)

(* The planned buys b that are not done *)
Left(b, done) == SumOf([s \in DOMAIN b \ done |-> b[s]])

LEMMA LeftNat ==
    ASSUME NEW b, DOMAIN b \subseteq Symbols, \A s \in DOMAIN b : b[s] \in Nat, NEW done
    PROVE  Left(b, done) \in Nat
<1> DEFINE f == [s \in DOMAIN b \ done |-> b[s]]
<1>1. IsFiniteSet(DOMAIN f) /\ \A s \in DOMAIN f : f[s] \in Nat
  BY SymbolsFinite
<1> HIDE DEF f
<1>2. SumOf(f) \in Nat
  BY <1>1, SumNat
<1> QED BY <1>2 DEF Left, f

LEMMA LeftWithout ==
    ASSUME NEW b, DOMAIN b \subseteq Symbols, \A s \in DOMAIN b : b[s] \in Nat,
           NEW done, NEW s \in DOMAIN b, s \notin done
    PROVE  Left(b, done) = b[s] + Left(b, done \cup {s})
<1> DEFINE f == [x \in DOMAIN b \ done |-> b[x]]
<1> DEFINE g == [x \in DOMAIN b \ (done \cup {s}) |-> b[x]]
<1> DEFINE h == [x \in DOMAIN f \ {s} |-> f[x]]
<1>1. IsFiniteSet(DOMAIN f) /\ (\A x \in DOMAIN f : f[x] \in Nat) /\ s \in DOMAIN f /\ f[s] = b[s]
  BY SymbolsFinite
<1>2. h = g
  <2>1. DOMAIN f \ {s} = DOMAIN b \ (done \cup {s})
    OBVIOUS
  <2> QED BY <2>1
<1> HIDE DEF f, g
<1>3. SumOf(f) = f[s] + SumOf(h)
  BY <1>1, SumRemove
<1> QED BY <1>1, <1>2, <1>3 DEF Left, f, g

(* Lots of one symbol changed: what the trend symbols are worth changes by *)
(* what that one is worth.                                                 *)
LEMMA ValueMoves ==
    ASSUME NEW l \in [Symbols \cup {BTC} -> Nat], NEW k \in [Symbols \cup {BTC} -> Nat],
           NEW m, m.mark \in [Symbols \cup {BTC} -> Nat \ {0}],
           NEW s \in Symbols, \A x \in Symbols : x # s => k[x] = l[x]
    PROVE  \E rest \in Nat : /\ ValueOf(l, m) = Part(l, m, s) + rest
                             /\ ValueOf(k, m) = Part(k, m, s) + rest
<1> DEFINE f == [x \in Symbols |-> l[x] * m.mark[x]]
<1> DEFINE g == [x \in Symbols |-> k[x] * m.mark[x]]
<1> DEFINE e == [x \in DOMAIN f \ {s} |-> f[x]]
<1> DEFINE h == [x \in DOMAIN g \ {s} |-> g[x]]
<1>1. \A x \in Symbols : l[x] * m.mark[x] \in Nat /\ k[x] * m.mark[x] \in Nat
  BY ValueOfNat
<1>2. /\ DOMAIN f = Symbols /\ DOMAIN g = Symbols
      /\ \A x \in Symbols : f[x] \in Nat /\ g[x] \in Nat
      /\ \A x \in Symbols : x # s => f[x] = g[x]
      /\ f[s] = l[s] * m.mark[s] /\ g[s] = k[s] * m.mark[s]
  BY <1>1
<1>3. e = h
  <2> HIDE DEF f, g
  <2> QED BY <1>2
<1> HIDE DEF f, g, e, h
<1>4. /\ SumOf(f) = f[s] + SumOf(e) /\ SumOf(e) \in Nat
      /\ SumOf(g) = g[s] + SumOf(h)
  BY <1>2, SymbolsFinite, SumRemove DEF e, h
<1> QED BY <1>2, <1>3, <1>4 DEF ValueOf, Part, f, g

LEMMA ValueKept ==
    ASSUME NEW l, NEW k, NEW m, \A x \in Symbols : k[x] = l[x]
    PROVE  ValueOf(k, m) = ValueOf(l, m)
<1>1. [x \in Symbols |-> k[x] * m.mark[x]] = [x \in Symbols |-> l[x] * m.mark[x]]
  OBVIOUS
<1> QED BY <1>1 DEF ValueOf

-----------------------------------------------------------------------------
(* The properties, as functions of the variables they read *)

Says(ph, d, c, input) ==
    /\ ph = "decided" /\ d.equity > 0 =>
         /\ c.dynamic /\ RegimeOff(input) =>
              SumOf(TrendPart(d.weights)) <=
                 100 * (IF c.dualLeg THEN 15 ELSE Of(100 * (100 - c.cut), c.trendWeight))
         /\ BtcRowOk(input) /\ ~input.btcRow.regimeOn =>
              DOMAIN d.weights = {BTC} /\ DOMAIN d.buys = {}
    /\ SumOf(TrendPart(d.weights)) <= 100 * c.maxLeverage
    /\ c.volScaling => WeightedVol(input, TrendPart(d.weights)) <= c.targetVol * Full
    /\ d.failed =>
         /\ DOMAIN d.weights = {BTC}
         /\ d.weights[BTC] <= BtcTarget(c, input, d.equity)
         /\ d.trendBudget = 0 /\ DOMAIN d.buys = {}

LEMMA LegSays ==
    /\ LegInv <=> Says(phase, decision, config, market.input)
    /\ LegInv' <=> Says(phase', decision', config', market'.input)
BY Zenon DEF LegInv, EitherRegimeCutsTrend, TrendRiskInsideTarget, FailedTrendLegStaysCash, Says, in

Funds(d, done, money, l, m) ==
    LET trend == Left(d.buys, done)
        btc == IF BTC \in done THEN 0 ELSE d.btcBudget
    IN  /\ trend + btc <= money
        /\ DOMAIN d.buys # {} =>
             ValueOf(l, m) + trend <= Of(SumOf(TrendPart(d.weights)), d.equity)
        /\ d.btcBudget > 0 => l[BTC] * m.mark[BTC] + btc <= Of(d.weights[BTC], d.equity)
        /\ BTC \in done => d.btcBudget > 0

LEMMA FundsOf ==
    /\ FundsInv <=> Funds(decision, ordered, cash, lots, market)
    /\ FundsInv' <=> Funds(decision', ordered', cash', lots', market')
BY Zenon DEF FundsInv, Funds, TrendOutstanding, BtcOutstanding, TrendTarget, BtcLegTarget, TrendValue,
   DcaValue, Value, ValueOf, Left

-----------------------------------------------------------------------------
(* Nothing decided *)

LEMMA NoDecisionFields ==
    /\ NoDecision.buys = [s \in {} |-> 0] /\ DOMAIN NoDecision.buys = {}
    /\ NoDecision.btcBudget = 0 /\ NoDecision.trendBudget = 0
    /\ NoDecision.failed = FALSE /\ NoDecision.equity = 0
    /\ DOMAIN NoDecision.pool = {}
    /\ DOMAIN NoDecision.weights = {BTC} /\ NoDecision.weights[BTC] = 0
BY DEF NoDecision, RP!EmptyList

LEMMA NothingSaid ==
    ASSUME NEW ph, NEW c \in ConfigType, Sound(c), NEW input
    PROVE  Says(ph, NoDecision, c, input)
<1> DEFINE w == TrendPart(NoDecision.weights)
<1>1. DOMAIN w = {}
  BY NoDecisionFields DEF TrendPart
<1> HIDE DEF w
<1>2. SumOf(w) = 0
  BY <1>1, EmptySum
<1>3. WeightedVol(input, w) = 0
  <2> DEFINE f == [s \in DOMAIN w |-> w[s] * input.view[s].vol]
  <2>1. DOMAIN f = {}
    BY <1>1
  <2>2. WeightedVol(input, w) = SumOf(f)
    BY DEF WeightedVol
  <2> HIDE DEF f
  <2> QED BY <2>1, <2>2, EmptySum
<1>4. c.maxLeverage \in Nat /\ c.targetVol \in Nat
  BY DEF ConfigType, Sound
<1>5. 0 <= 100 * c.maxLeverage /\ 0 <= c.targetVol * Full
  BY <1>4 DEF Full
<1> QED BY <1>2, <1>3, <1>5, NoDecisionFields DEF Says, w

LEMMA NothingSpent ==
    ASSUME NEW money \in Nat, NEW l, NEW m
    PROVE  Funds(NoDecision, {}, money, l, m)
<1> DEFINE f == [s \in {} |-> NoDecision.buys[s]]
<1>1. SumOf(f) = 0
  BY EmptySum
<1> HIDE DEF f
<1>2. [s \in DOMAIN NoDecision.buys \ {} |-> NoDecision.buys[s]] = f
  BY NoDecisionFields DEF f
<1>3. Left(NoDecision.buys, {}) = 0
  BY <1>1, <1>2 DEF Left
<1> QED BY <1>3, NoDecisionFields DEF Funds

LEMMA Undecided ==
    ASSUME TypeInv', decision' = NoDecision, ordered' = {}
    PROVE  DecisionInv' /\ FundsInv' /\ LegInv'
<1>1. config' \in ConfigType /\ Sound(config') /\ cash' \in Nat
  BY ComboAssumption DEF TypeInv
<1>2. LegInv'
  BY <1>1, NothingSaid, LegSays
<1>3. FundsInv'
  BY <1>1, NothingSpent, FundsOf
<1>4. DecisionInv'
  BY NoDecisionFields DEF DecisionInv, WeightsType
<1> QED BY <1>2, <1>3, <1>4

-----------------------------------------------------------------------------
(* A decision *)

(* The regime caps the trend leg's weight of the day. *)
LEMMA RegimeCap ==
    ASSUME NEW c \in ConfigType, Sound(c), NEW input, c.dynamic, RegimeOff(input)
    PROVE  EffectiveTrend(c, input) <=
             (IF c.dualLeg THEN 15 ELSE Of(100 * (100 - c.cut), c.trendWeight))
<1>1. /\ c.trendWeight \in Nat /\ c.cut \in 0..100
  BY DEF ConfigType, Sound
<1>2. CASE c.dualLeg
  <2>1. Tier(c, input) \in {"hard", "soft"}
    BY <1>2 DEF Tier, Soft
  <2> QED BY <1>2, <2>1 DEF EffectiveTrend, TrendIn
<1>3. CASE ~c.dualLeg
  <2>1. Tier(c, input) = "legacy_regime_off"
    BY <1>3 DEF Tier
  <2> DEFINE w == c.trendWeight
  <2> DEFINE r == 100 - c.cut
  <2>2. EffectiveTrend(c, input) = (w * r) \div 100
    BY <2>1 DEF EffectiveTrend, TrendIn
  <2>3. Of(100 * r, w) = (100 * r * w) \div 10000
    BY DEF Of, Full
  <2>4. w \in Nat /\ r \in Nat
    BY <1>1
  <2> HIDE DEF w, r
  <2>5. 100 * r * w = 100 * (w * r) /\ w * r \in Nat
    BY <2>4
  <2>6. \A x \in Nat : (100 * x) \div 10000 = x \div 100
    OBVIOUS
  <2>7. Of(100 * r, w) = EffectiveTrend(c, input)
    BY <2>2, <2>3, <2>5, <2>6
  <2>8. (w * r) \div 100 \in Nat
    BY <2>5, Quotient
  <2> QED BY <1>3, <2>2, <2>7, <2>8 DEF w, r
<1> QED BY <1>2, <1>3

LEMMA DecisionFields ==
    ASSUME NEW approved \in BOOLEAN
    PROVE  LET d == DecisionOn(approved)
           IN  /\ d.buys = PlannedBuys /\ d.weights = Weights /\ d.equity = Equity
               /\ d.failed = TrendFails(config, in, PoolOfCycle) /\ d.pool = PoolOfCycle
               /\ d.btcBudget \in {0, BtcBudget} /\ d.trendBudget \in {0, TrendBudget}
BY DEF DecisionOn

LEMMA DecisionSays ==
    ASSUME RatioNatural, TypeInv, NEW approved \in BOOLEAN, NEW ph
    PROVE  Says(ph, DecisionOn(approved), config, in)
<1> DEFINE d == DecisionOn(approved)
<1> DEFINE t == SumOf(TrendPart(Weights))
<1>1. /\ d.buys = PlannedBuys /\ d.weights = Weights /\ d.equity = Equity
      /\ d.failed = TrendFails(config, in, PoolOfCycle)
      /\ d.btcBudget \in {0, BtcBudget} /\ d.trendBudget \in {0, TrendBudget}
  BY DecisionFields
<1>2. /\ DOMAIN Weights = Chosen \cup {BTC}
      /\ Weights[BTC] <= BtcTarget(config, in, Equity)
      /\ t = TrendRatio /\ t \in Nat
      /\ t <= EffectiveTrend(config, in) * 100
      /\ t <= 100 * config.maxLeverage
      /\ config.volScaling =>
           WeightedVol(in, TrendPart(Weights)) <= config.targetVol * Full
  BY WeightsOfCycle
<1>3. config \in ConfigType /\ Sound(config)
  BY Readings
<1> HIDE DEF d, t
<1>4. Chosen = {} => DOMAIN Weights = {BTC} /\ DOMAIN PlannedBuys = {}
  BY <1>2, BudgetsOfCycle
<1>5. ASSUME config.dynamic, RegimeOff(in)
      PROVE  t <= 100 * (IF config.dualLeg THEN 15 ELSE Of(100 * (100 - config.cut), config.trendWeight))
  <2> DEFINE cap == IF config.dualLeg THEN 15 ELSE Of(100 * (100 - config.cut), config.trendWeight)
  <2>1. EffectiveTrend(config, in) <= cap
    BY <1>3, <1>5, RegimeCap
  <2>2. EffectiveTrend(config, in) \in Nat
    BY <1>3, TierTypes DEF EffectiveTrend
  <2>3. cap \in Nat
    <3>1. config.trendWeight \in Nat /\ 100 - config.cut \in Nat
      BY <1>3 DEF ConfigType, Sound
    <3>2. 100 * (100 - config.cut) \in Nat
      BY <3>1
    <3> QED BY <3>1, <3>2, OfTypes
  <2> HIDE DEF cap
  <2>4. t <= 100 * cap
    BY <1>2, <2>1, <2>2, <2>3
  <2> QED BY <2>4 DEF cap
<1>6. ASSUME ~in.btcRow.regimeOn PROVE Chosen = {}
  BY <1>6 DEF Chosen, Rotation, Picked, Selected
<1>7. ASSUME TrendFails(config, in, PoolOfCycle)
      PROVE  Chosen = {} /\ TrendBudget = 0
  <2>1. Chosen = {}
    BY <1>7 DEF Chosen, Rotation
  <2>2. TrendRatio = 0
    <3> DEFINE f == TrendPart(Weights)
    <3>1. DOMAIN f = {}
      BY <1>2, <2>1 DEF TrendPart
    <3> HIDE DEF f
    <3>2. SumOf(f) = 0
      BY <3>1, EmptySum
    <3> QED BY <3>2 DEF TrendRatio, f
  <2>3. TrendValue \in Nat /\ Equity \in Nat /\ cash \in Nat
    BY AccountTypes DEF TypeInv
  <2>4. Of(TrendRatio, Equity) = 0
    BY <2>2, <2>3, QuotientOfZero DEF Of, Full
  <2> QED BY <2>1, <2>3, <2>4 DEF TrendBudget, Most, Least
<1>8. \A b \in {0, TrendBudget} : TrendFails(config, in, PoolOfCycle) => b = 0
  BY <1>7
<1> QED BY <1>1, <1>2, <1>4, <1>5, <1>6, <1>7, <1>8 DEF Says, d, t

LEMMA DecisionFunds ==
    ASSUME RatioNatural, TypeInv, NEW approved \in BOOLEAN
    PROVE  Funds(DecisionOn(approved), {}, cash, lots, market)
<1> DEFINE d == DecisionOn(approved)
<1> DEFINE spent == SumOf(PlannedBuys)
<1>1. /\ d.buys = PlannedBuys /\ d.weights = Weights /\ d.equity = Equity
      /\ d.btcBudget \in {0, BtcBudget}
  BY DecisionFields
<1> HIDE DEF d
<1>2. Left(d.buys, {}) = spent
  <2>1. [s \in DOMAIN PlannedBuys \ {} |-> PlannedBuys[s]] = PlannedBuys
    BY BudgetsOfCycle
  <2> QED BY <1>1, <2>1 DEF Left
<1> HIDE DEF spent
<1>3. /\ TrendBudget \in Nat /\ BtcBudget \in Nat /\ spent \in Nat /\ spent <= TrendBudget
      /\ TrendBudget + BtcBudget <= cash
      /\ DOMAIN PlannedBuys # {} => TrendValue + TrendBudget <= Of(TrendRatio, Equity)
      /\ BtcBudget > 0 => DcaValue + BtcBudget <= Of(BtcRatio, Equity)
  BY BudgetsOfCycle DEF spent
<1>4. /\ TrendRatio = SumOf(TrendPart(d.weights)) /\ BtcRatio = d.weights[BTC]
      /\ TrendRatio \in Nat /\ BtcRatio \in Nat
      /\ Equity \in Nat /\ TrendValue \in Nat /\ DcaValue \in Nat /\ cash \in Nat
  BY <1>1, WeightsOfCycle, AccountTypes DEF BtcRatio, TypeInv
<1>5. TrendValue = ValueOf(lots, market) /\ DcaValue = lots[BTC] * market.mark[BTC]
  BY DEF TrendValue, ValueOf, Value, DcaValue
<1>6. Of(TrendRatio, Equity) \in Nat /\ Of(BtcRatio, Equity) \in Nat
  BY <1>4, OfTypes
<1>7. spent + d.btcBudget <= cash
  BY <1>1, <1>3, <1>4
<1>8. DOMAIN d.buys # {} => TrendValue + spent <= Of(TrendRatio, Equity)
  BY <1>1, <1>3, <1>4, <1>6
<1>9. d.btcBudget > 0 => DcaValue + d.btcBudget <= Of(BtcRatio, Equity)
  BY <1>1, <1>3
<1> QED BY <1>1, <1>2, <1>4, <1>5, <1>7, <1>8, <1>9 DEF Funds, d

-----------------------------------------------------------------------------
(* The steps *)

(* The terms of a decision that the sums below are compared with *)
LEMMA DecidedTypes ==
    ASSUME DecisionInv
    PROVE  /\ Of(SumOf(TrendPart(decision.weights)), decision.equity) \in Nat
           /\ Of(decision.weights[BTC], decision.equity) \in Nat
           /\ decision.btcBudget \in Nat
           /\ \A done : Left(decision.buys, done) \in Nat
<1> DEFINE f == TrendPart(decision.weights)
<1>1. /\ WeightsType(decision.weights) /\ decision.equity \in Nat
      /\ decision.btcBudget \in Nat
  BY DEF DecisionInv
<1>2. IsFiniteSet(DOMAIN f) /\ \A s \in DOMAIN f : f[s] \in Nat
  BY <1>1, SymbolsFinite DEF WeightsType, TrendPart
<1> HIDE DEF f
<1>3. SumOf(f) \in Nat /\ decision.weights[BTC] \in Nat
  BY <1>1, <1>2, SumNat DEF WeightsType
<1>4. \A done : Left(decision.buys, done) \in Nat
  BY LeftNat DEF DecisionInv
<1> QED BY <1>1, <1>3, <1>4, OfTypes DEF f

LEMMA EvaluateKeeps ==
    ASSUME RatioNatural, ComboInv, Evaluate
    PROVE  ComboInv'
<1>1. PICK approved \in BOOLEAN : decision' = DecisionOn(approved)
  BY DEF Evaluate
<1>2. /\ phase' = "decided" /\ ordered' = {}
      /\ UNCHANGED <<config, locked, market, cash, lots, pool>>
  BY DEF Evaluate
<1>3. TypeInv /\ TypeInv'
  BY <1>2 DEF ComboInv, TypeInv
<1> DEFINE d == DecisionOn(approved)
<1>4. /\ d.buys = PlannedBuys /\ d.pool = PoolOfCycle
      /\ d.btcBudget \in {0, BtcBudget} /\ d.trendBudget \in {0, TrendBudget}
      /\ d.weights = Weights /\ d.equity = Equity
  BY DecisionFields
<1>5. Says("decided", d, config, market.input)
  BY <1>3, DecisionSays DEF in
<1>6. Funds(d, {}, cash, lots, market)
  BY <1>3, DecisionFunds
<1>7. decision' = d
  BY <1>1
<1> HIDE DEF d
<1>8. LegInv'
  BY <1>2, <1>5, <1>7, LegSays
<1>9. FundsInv'
  BY <1>2, <1>6, <1>7, FundsOf
<1>10. DecisionInv'
  <2>1. /\ TrendBudget \in Nat /\ BtcBudget \in Nat
        /\ DOMAIN PlannedBuys \subseteq Symbols
        /\ \A s \in DOMAIN PlannedBuys : PlannedBuys[s] \in Nat
        /\ DOMAIN PoolOfCycle \subseteq Symbols
        /\ WeightsType(Weights) /\ Equity \in Nat
    BY <1>3, BudgetsOfCycle, WeightsOfCycle, PoolOfCycleType, AccountTypes
  <2> QED BY <1>2, <1>4, <1>7, <2>1 DEF DecisionInv
<1> QED BY <1>3, <1>8, <1>9, <1>10 DEF ComboInv

(* Steps that leave no decision, or change nothing while there is none     *)
LEMMA UndecidedKeeps ==
    ASSUME ComboInv, EvaluateRaises \/ EndCycle \/ MarketMoves
    PROVE  ComboInv'
<1>1. TypeInv'
  BY DEF ComboInv, TypeInv, EvaluateRaises, EndCycle, MarketMoves
<1>2. decision' = NoDecision /\ ordered' = {}
  BY DEF ComboInv, DecisionInv, EvaluateRaises, EndCycle, MarketMoves
<1> QED BY <1>1, <1>2, Undecided DEF ComboInv

(* Steps that change no money and no lots *)
LEMMA BookkeepingKeeps ==
    ASSUME ComboInv, (\E s \in Symbols : SaveBuy(s)) \/ RecordPool \/ UNCHANGED vars
    PROVE  ComboInv'
<1>1. UNCHANGED <<config, locked, market, cash, lots, phase, decision, ordered>>
  BY DEF SaveBuy, RecordPool, vars
<1>2. TypeInv'
  BY <1>1 DEF ComboInv, DecisionInv, TypeInv, SaveBuy, RecordPool, vars
<1>3. DecisionInv'
  BY <1>1 DEF ComboInv, DecisionInv
<1>4. FundsInv'
  BY <1>1, FundsOf DEF ComboInv
<1>5. LegInv'
  BY <1>1, LegSays DEF ComboInv
<1> QED BY <1>2, <1>3, <1>4, <1>5 DEF ComboInv

(* A sale frees cash and makes the trend leg smaller. *)
LEMMA SellKeeps ==
    ASSUME ComboInv, NEW s \in Symbols, Sell(s)
    PROVE  ComboInv'
<1>1. /\ UNCHANGED <<config, locked, market, phase, decision, ordered, pool>>
      /\ cash' = cash + Value(s) /\ lots' = [lots EXCEPT ![s] = 0]
  BY DEF Sell
<1>2. /\ lots \in [Symbols \cup {BTC} -> Nat] /\ cash \in Nat
      /\ market.mark \in [Symbols \cup {BTC} -> Nat \ {0}]
  BY Readings DEF ComboInv, TypeInv
<1>3. /\ lots' \in [Symbols \cup {BTC} -> Nat] /\ lots'[BTC] = lots[BTC]
      /\ lots'[s] = 0 /\ \A x \in Symbols : x # s => lots'[x] = lots[x]
  BY <1>1, <1>2, SymbolsFinite
<1> DEFINE v == lots[s] * market.mark[s]
<1>4. v \in Nat /\ Value(s) = v
  BY <1>2, ValueOfNat DEF Value
<1>5. ValueOf(lots', market) \in Nat /\ ValueOf(lots', market) <= ValueOf(lots, market)
  <2>1. PICK rest \in Nat : /\ ValueOf(lots, market) = Part(lots, market, s) + rest
                            /\ ValueOf(lots', market) = Part(lots', market, s) + rest
    BY <1>2, <1>3, ValueMoves
  <2>2. Part(lots', market, s) = 0 /\ Part(lots, market, s) = v
    <3>1. market.mark[s] \in Nat
      BY <1>2
    <3>2. \A n \in Nat : 0 * n = 0
      OBVIOUS
    <3> QED BY <1>3, <3>1, <3>2 DEF Part
  <2> HIDE DEF v
  <2> QED BY <1>4, <2>1, <2>2
<1> HIDE DEF v
<1>6. cash' \in Nat /\ cash' >= cash
  BY <1>1, <1>2, <1>4
<1>7. TypeInv'
  BY <1>1, <1>3, <1>6 DEF ComboInv, TypeInv
<1>8. DecisionInv'
  BY <1>1 DEF ComboInv, DecisionInv
<1>9. LegInv'
  BY <1>1, LegSays DEF ComboInv
<1>10. FundsInv'
  <2> DEFINE left == Left(decision.buys, ordered)
  <2> DEFINE target == Of(SumOf(TrendPart(decision.weights)), decision.equity)
  <2> DEFINE V == ValueOf(lots, market)
  <2> DEFINE W == ValueOf(lots', market)
  <2>1. Funds(decision, ordered, cash, lots, market)
    BY FundsOf DEF ComboInv
  <2>2. left \in Nat /\ decision.btcBudget \in Nat /\ target \in Nat
    BY DecidedTypes DEF ComboInv
  <2>3. V \in Nat /\ W \in Nat /\ W <= V
    BY <1>2, <1>5, ValueOfNat
  <2>4. Funds(decision, ordered, cash', lots', market)
    <3> HIDE DEF left, target, V, W
    <3> QED BY <1>2, <1>3, <1>6, <2>1, <2>2, <2>3 DEF Funds, left, target, V, W
  <2> QED BY <1>1, <2>4, FundsOf
<1> QED BY <1>7, <1>8, <1>9, <1>10 DEF ComboInv

(* What an order for an amount costs: whole lots, and no more than it. *)
LEMMA OrderFits ==
    ASSUME TypeInv, NEW s \in Symbols \cup {BTC}, NEW amount \in Nat, Buy(s, amount)
    PROVE  \E n \in Nat :
             /\ n * market.mark[s] \in Nat /\ n * market.mark[s] <= amount
             /\ n * market.mark[s] > 0
             /\ cash' = cash - n * market.mark[s]
             /\ lots' \in [Symbols \cup {BTC} -> Nat]
             /\ Part(lots', market, s) = Part(lots, market, s) + n * market.mark[s]
             /\ \A x \in Symbols \cup {BTC} : x # s => lots'[x] = lots[x]
             /\ phase = "decided" /\ s \notin ordered /\ ordered' = ordered \cup {s}
             /\ UNCHANGED <<config, locked, market, pool, phase, decision>>
<1> DEFINE m == market.mark[s]
<1> DEFINE n == amount \div m
<1>1. m \in Nat \ {0} /\ lots \in [Symbols \cup {BTC} -> Nat]
  BY Readings DEF TypeInv
<1>2. n \in Nat /\ m * n <= amount
  <2> HIDE DEF m
  <2> QED BY <1>1, Quotient
<1>3. /\ n > 0 /\ cash' = cash - n * m /\ lots' = [lots EXCEPT ![s] = lots[s] + n]
      /\ phase = "decided" /\ s \notin ordered /\ ordered' = ordered \cup {s}
      /\ UNCHANGED <<config, locked, market, pool, phase, decision>>
  BY DEF Buy
<1> HIDE DEF n, m
<1>4. n * m \in Nat /\ n * m <= amount /\ n * m > 0
  <2>1. n * m = m * n
    BY <1>1, <1>2
  <2>2. \A a, b \in Nat : a > 0 /\ b > 0 => a * b > 0 /\ a * b \in Nat
    OBVIOUS
  <2> QED BY <1>1, <1>2, <1>3, <2>1, <2>2
<1>5. /\ lots' \in [Symbols \cup {BTC} -> Nat] /\ lots'[s] = lots[s] + n
      /\ \A x \in Symbols \cup {BTC} : x # s => lots'[x] = lots[x]
  BY <1>1, <1>2, <1>3
<1>6. Part(lots', market, s) = Part(lots, market, s) + n * m
  <2>1. lots[s] \in Nat
    BY <1>1
  <2>2. \A a, b, c \in Nat : (a + b) * c = a * c + b * c
    OBVIOUS
  <2>3. (lots[s] + n) * m = lots[s] * m + n * m
    BY <1>1, <1>2, <2>1, <2>2
  <2> QED BY <1>5, <2>3 DEF Part, m
<1> QED BY <1>2, <1>3, <1>4, <1>5, <1>6 DEF m

LEMMA BuyTrendKeeps ==
    ASSUME ComboInv, NEW s \in Symbols, BuyTrend(s)
    PROVE  ComboInv'
<1> DEFINE budget == decision.buys[s]
<1>1. s \in DOMAIN decision.buys /\ budget \in Nat /\ Buy(s, budget)
  BY DEF BuyTrend, ComboInv, DecisionInv
<1> HIDE DEF budget
<1>2. PICK n \in Nat :
        /\ n * market.mark[s] \in Nat /\ n * market.mark[s] <= budget
        /\ n * market.mark[s] > 0
        /\ cash' = cash - n * market.mark[s]
        /\ lots' \in [Symbols \cup {BTC} -> Nat]
        /\ Part(lots', market, s) = Part(lots, market, s) + n * market.mark[s]
        /\ \A x \in Symbols \cup {BTC} : x # s => lots'[x] = lots[x]
        /\ phase = "decided" /\ s \notin ordered /\ ordered' = ordered \cup {s}
        /\ UNCHANGED <<config, locked, market, pool, phase, decision>>
  BY <1>1, OrderFits DEF ComboInv
<1> DEFINE cost == n * market.mark[s]
<1> DEFINE left == Left(decision.buys, ordered)
<1> DEFINE rest == Left(decision.buys, ordered \cup {s})
<1> DEFINE btc == IF BTC \in ordered THEN 0 ELSE decision.btcBudget
<1> DEFINE target == Of(SumOf(TrendPart(decision.weights)), decision.equity)
<1> DEFINE V == ValueOf(lots, market)
<1> DEFINE W == ValueOf(lots', market)
<1>3. left = budget + rest
  BY <1>1, <1>2, LeftWithout DEF ComboInv, DecisionInv, budget
<1>4. left \in Nat /\ rest \in Nat /\ btc \in Nat /\ target \in Nat /\ cash \in Nat
  BY DecidedTypes DEF ComboInv, TypeInv
<1>5. V \in Nat /\ W = V + cost
  <2>1. /\ lots \in [Symbols \cup {BTC} -> Nat]
        /\ market.mark \in [Symbols \cup {BTC} -> Nat \ {0}]
    BY Readings DEF ComboInv, TypeInv
  <2>2. V \in Nat /\ Part(lots, market, s) \in Nat
    BY <2>1, ValueOfNat DEF Part
  <2>3. PICK others \in Nat : V = Part(lots, market, s) + others /\ W = Part(lots', market, s) + others
    <3>1. /\ lots' \in [Symbols \cup {BTC} -> Nat]
          /\ \A x \in Symbols : x # s => lots'[x] = lots[x]
      BY <1>2
    <3> QED BY <2>1, <3>1, ValueMoves
  <2>4. Part(lots', market, s) = Part(lots, market, s) + cost
    BY <1>2
  <2> HIDE DEF cost, V, W
  <2> QED BY <1>2, <2>2, <2>3, <2>4 DEF cost
<1>6. Funds(decision, ordered, cash, lots, market)
  BY FundsOf DEF ComboInv
<1>7. cost \in Nat /\ cost <= budget /\ cash' = cash - cost
  BY <1>2
<1>8. lots'[BTC] = lots[BTC] /\ BTC # s
  BY <1>2, SymbolsFinite
<1> HIDE DEF cost, left, rest, btc, target, V, W
<1>9. left + btc <= cash /\ V + left <= target
  BY <1>1, <1>6 DEF Funds, left, btc, V, target
<1>10. rest + btc <= cash' /\ cash' \in Nat /\ W + rest <= target
  BY <1>1, <1>3, <1>4, <1>5, <1>7, <1>9
<1>11. Funds(decision, ordered \cup {s}, cash', lots', market)
  BY <1>6, <1>8, <1>10 DEF Funds, rest, btc, W, target
<1>12. FundsInv'
  BY <1>2, <1>11, FundsOf
<1>13. TypeInv'
  BY <1>2, <1>10 DEF ComboInv, TypeInv
<1>14. DecisionInv'
  BY <1>1, <1>2 DEF ComboInv, DecisionInv
<1>15. LegInv'
  BY <1>2, LegSays DEF ComboInv
<1> QED BY <1>12, <1>13, <1>14, <1>15 DEF ComboInv

LEMMA BuyBtcKeeps ==
    ASSUME ComboInv, BuyBtc
    PROVE  ComboInv'
<1> DEFINE budget == decision.btcBudget
<1>1. budget \in Nat /\ Buy(BTC, budget)
  BY DEF BuyBtc, ComboInv, DecisionInv
<1> HIDE DEF budget
<1>2. PICK n \in Nat :
        /\ n * market.mark[BTC] \in Nat /\ n * market.mark[BTC] <= budget
        /\ n * market.mark[BTC] > 0
        /\ cash' = cash - n * market.mark[BTC]
        /\ lots' \in [Symbols \cup {BTC} -> Nat]
        /\ Part(lots', market, BTC) = Part(lots, market, BTC) + n * market.mark[BTC]
        /\ \A x \in Symbols \cup {BTC} : x # BTC => lots'[x] = lots[x]
        /\ phase = "decided" /\ BTC \notin ordered /\ ordered' = ordered \cup {BTC}
        /\ UNCHANGED <<config, locked, market, pool, phase, decision>>
  BY <1>1, OrderFits DEF ComboInv
<1> DEFINE cost == n * market.mark[BTC]
<1> DEFINE left == Left(decision.buys, ordered)
<1> DEFINE target == Of(decision.weights[BTC], decision.equity)
<1> DEFINE V == Part(lots, market, BTC)
<1> DEFINE W == Part(lots', market, BTC)
<1>3. Left(decision.buys, ordered \cup {BTC}) = left
  <2>1. BTC \notin DOMAIN decision.buys
    BY SymbolsFinite DEF ComboInv, DecisionInv
  <2>2. DOMAIN decision.buys \ (ordered \cup {BTC}) = DOMAIN decision.buys \ ordered
    BY <2>1
  <2> QED BY <2>2 DEF Left
<1>4. ValueOf(lots', market) = ValueOf(lots, market)
  BY <1>2, SymbolsFinite, ValueKept
<1>5. left \in Nat /\ target \in Nat /\ cash \in Nat
  BY DecidedTypes DEF ComboInv, TypeInv
<1>6. V \in Nat /\ W = V + cost
  <2>1. /\ lots \in [Symbols \cup {BTC} -> Nat]
        /\ market.mark \in [Symbols \cup {BTC} -> Nat \ {0}]
    BY Readings DEF ComboInv, TypeInv
  <2>2. V \in Nat
    BY <2>1, ValueOfNat DEF Part
  <2> QED BY <1>2, <2>2
<1>7. Funds(decision, ordered, cash, lots, market)
  BY FundsOf DEF ComboInv
<1>8. cost \in Nat /\ cost <= budget /\ cost > 0 /\ cash' = cash - cost
  BY <1>2
<1> HIDE DEF cost, left, target, V, W
<1>9. /\ left + budget <= cash /\ budget > 0 /\ V + budget <= target
  BY <1>1, <1>2, <1>7, <1>8 DEF Funds, left, V, Part, target, budget
<1>10. left + 0 <= cash' /\ cash' \in Nat /\ W + 0 <= target
  BY <1>1, <1>5, <1>6, <1>8, <1>9
<1>11. Funds(decision, ordered \cup {BTC}, cash', lots', market)
  BY <1>3, <1>4, <1>7, <1>9, <1>10 DEF Funds, left, W, Part, target, budget
<1>12. FundsInv'
  BY <1>2, <1>11, FundsOf
<1>13. TypeInv'
  BY <1>2, <1>10 DEF ComboInv, TypeInv
<1>14. DecisionInv'
  BY <1>2 DEF ComboInv, DecisionInv
<1>15. LegInv'
  BY <1>2, LegSays DEF ComboInv
<1> QED BY <1>12, <1>13, <1>14, <1>15 DEF ComboInv

LEMMA ComboNext ==
    ASSUME RatioNatural, ComboInv, [Next]_vars
    PROVE  ComboInv'
<1>1. CASE Evaluate
  BY <1>1, EvaluateKeeps
<1>2. CASE EvaluateRaises \/ EndCycle \/ MarketMoves
  BY <1>2, UndecidedKeeps
<1>3. CASE (\E s \in Symbols : SaveBuy(s)) \/ RecordPool \/ UNCHANGED vars
  BY <1>3, BookkeepingKeeps
<1>4. ASSUME NEW s \in Symbols, Sell(s) PROVE ComboInv'
  BY <1>4, SellKeeps
<1>5. ASSUME NEW s \in Symbols, BuyTrend(s) PROVE ComboInv'
  BY <1>5, BuyTrendKeeps
<1>6. CASE BuyBtc
  BY <1>6, BuyBtcKeeps
<1> QED BY <1>1, <1>2, <1>3, <1>4, <1>5, <1>6 DEF Next

LEMMA ComboStart == Init => ComboInv
<1> SUFFICES ASSUME Init PROVE ComboInv
  OBVIOUS
<1>1. PICK a \in Accounts : cash = a.cash /\ locked = a.locked /\ lots = a.lots
  BY DEF Init
<1>2. a \in AccountType
  BY ComboAssumption
<1>3. TypeInv
  BY <1>1, <1>2 DEF AccountType, Init, TypeInv, RP!EmptyList
<1>4. decision = NoDecision /\ ordered = {} /\ config \in ConfigType /\ Sound(config) /\ cash \in Nat
  BY <1>3, ComboAssumption DEF Init, TypeInv
<1>5. DecisionInv
  BY <1>4, NoDecisionFields DEF DecisionInv, WeightsType
<1>6. FundsInv /\ LegInv
  BY <1>4, NothingSaid, NothingSpent, FundsOf, LegSays
<1> QED BY <1>3, <1>5, <1>6 DEF ComboInv

(* The invariant: types; nothing is decided between two cycles; what is    *)
(* left to buy of a decision is covered by the cash and fits, with what is *)
(* held, the targets; and what a decision says of the trend leg.           *)
THEOREM ComboInvariant ==
    ASSUME RatioNatural PROVE Spec => []ComboInv
BY ComboStart, ComboNext, PTL DEF Spec

(* Whatever is filled, sold or lost in a restart, what is left to buy of a *)
(* decision is covered by the cash.                                        *)
THEOREM FundedOrders ==
    ASSUME RatioNatural PROVE Spec => []BudgetsFitCash
<1>1. ComboInv => BudgetsFitCash
  BY DEF ComboInv, FundsInv, DecisionInv, BudgetsFitCash, Outstanding, TrendOutstanding,
     BtcOutstanding
<1> QED BY <1>1, ComboInvariant, PTL

(* A leg that was bought for a decision stays inside its target weight of  *)
(* the equity decided on, also when a lost trade state lets the decision   *)
(* buy a symbol again that is still held.                                  *)
THEOREM LegsInsideTargets ==
    ASSUME RatioNatural PROVE Spec => []LegsStayInsideTargets
<1>1. ComboInv => LegsStayInsideTargets
  <2> SUFFICES ASSUME ComboInv PROVE LegsStayInsideTargets
    OBVIOUS
  <2>1. /\ TrendValue \in Nat /\ DcaValue \in Nat
        /\ TrendTarget \in Nat /\ TrendOutstanding \in Nat
    BY AccountTypes, DecidedTypes DEF ComboInv, TrendTarget, TrendOutstanding, Left
  <2>2. ASSUME ordered \ {BTC} # {} PROVE TrendValue <= TrendTarget
    <3>1. DOMAIN decision.buys # {}
      BY <2>2 DEF ComboInv, DecisionInv
    <3>2. TrendValue + TrendOutstanding <= TrendTarget
      BY <3>1 DEF ComboInv, FundsInv
    <3> QED BY <2>1, <3>2
  <2>3. ASSUME BTC \in ordered PROVE DcaValue <= BtcLegTarget
    <3>1. DcaValue + 0 <= BtcLegTarget
      BY <2>3 DEF ComboInv, FundsInv, BtcOutstanding
    <3> QED BY <2>1, <3>1
  <2> QED BY <2>2, <2>3 DEF LegsStayInsideTargets, TrendTarget, BtcLegTarget
<1> QED BY <1>1, ComboInvariant, PTL

(* Either source of the regime alone cuts the trend leg. *)
THEOREM RegimeCutsTrend ==
    ASSUME RatioNatural PROVE Spec => []EitherRegimeCutsTrend
<1>1. ComboInv => EitherRegimeCutsTrend
  BY DEF ComboInv, LegInv
<1> QED BY <1>1, ComboInvariant, PTL

(* The trend weights of a decision respect both caps, after the merge too. *)
THEOREM TrendRiskCapped ==
    ASSUME RatioNatural PROVE Spec => []TrendRiskInsideTarget
<1>1. ComboInv => TrendRiskInsideTarget
  BY DEF ComboInv, LegInv
<1> QED BY <1>1, ComboInvariant, PTL

(* A failed trend leg's money stays cash. *)
THEOREM FailedLegStaysCash ==
    ASSUME RatioNatural PROVE Spec => []FailedTrendLegStaysCash
<1>1. ComboInv => FailedTrendLegStaysCash
  BY DEF ComboInv, LegInv
<1> QED BY <1>1, ComboInvariant, PTL

=============================================================================
