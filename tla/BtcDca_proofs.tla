---------------------------- MODULE BtcDca_proofs ----------------------------
(***************************************************************************)
(* Proofs about BtcDca for every schedule, configuration, reading and      *)
(* exit signal, any prices and any deposits.                               *)
(*                                                                         *)
(* The argument is about one evaluation: TargetFacts bounds the target of  *)
(* the profile from both sides, whatever is read.  What lasts over many    *)
(* evaluations is then small: a decision that is still to be traded on     *)
(* asks for no more than the cash above the reserve (Pending), because     *)
(* only trading takes cash away and a decision is traded on once.          *)
(***************************************************************************)
EXTENDS BtcDca, TLAPS

(* A percentage of an amount is a part of it, and half of it at most below *)
(* fifty percent.                                                          *)
LEMMA OfNat ==
    ASSUME NEW p \in Nat, NEW a \in Nat
    PROVE  Of(p, a) \in Nat
  <1>1. p * a \in Nat  BY SMT
  <1>2. \A n \in Nat : n \div 100 \in Nat  BY SMT
  <1> QED BY <1>1, <1>2 DEF Of

LEMMA OfPart ==
    ASSUME NEW p \in Percent, NEW a \in Nat
    PROVE  /\ Of(p, a) \in Nat
           /\ Of(p, a) <= a
           /\ p <= 50 => 2 * Of(p, a) <= a
  <1>1. p \in Nat /\ p <= 100  BY DEF Percent
  <1>2. p * a \in Nat  BY <1>1, SMT
  <1>3. p * a <= 100 * a  BY <1>1, SMT
  <1>4. p <= 50 => p * a <= 50 * a  BY <1>1, SMT
  <1>5. \A n \in Nat : n <= 100 * a => n \div 100 <= a  BY SMT
  <1>6. \A n \in Nat : n <= 50 * a => 2 * (n \div 100) <= a  BY SMT
  <1>7. Of(p, a) \in Nat  BY OfNat, <1>1
  <1> QED BY <1>2, <1>3, <1>4, <1>5, <1>6, <1>7 DEF Of

-----------------------------------------------------------------------------
(* One evaluation *)

(* The account and the configuration an evaluation starts from. *)
AccountOK ==
    /\ config \in ConfigType
    /\ btc \in Nat
    /\ cash \in Nat
    /\ Equity <= MaxEquity

LEMMA EquityNat ==
    ASSUME AccountOK
    PROVE  Equity \in Nat /\ btc + cash <= Equity /\ btc <= Equity
  BY DcaAssumption, SMT DEF AccountOK, Equity

LEMMA AffordableFacts ==
    ASSUME AccountOK, NEW r
    PROVE  /\ Affordable(r) \in Nat
           /\ Affordable(r) <= Investable
           /\ Investable \in Nat
           /\ Investable <= cash
           /\ Investable > 0 => Investable = cash - config.reserve
  <1>1. config.reserve \in Nat /\ config.base \in Nat /\ config.maximum \in Nat \cup {None}
    BY DEF AccountOK, ConfigType
  <1>2. Regime(r) \in Regimes
    BY DEF Regime, CycleRegime, DrawdownRegime, Regimes
  <1>3. Multiplier[Regime(r)] \in Nat
    BY <1>2, DcaAssumption
  <1>4. Of(Multiplier[Regime(r)], config.base) \in Nat
    BY <1>1, <1>3, OfNat
  <1>5. Requested(r) \in Nat
    <2>1. CASE config.maximum = None  BY <2>1, <1>4 DEF Requested
    <2>2. CASE config.maximum # None
      <3>1. config.maximum \in Nat  BY <2>2, <1>1
      <3> QED BY <2>2, <3>1, <1>4, SMT DEF Requested, Least
    <2> QED BY <2>1, <2>2
  <1>6. /\ Investable \in Nat
        /\ Investable <= cash
        /\ Investable > 0 => Investable = cash - config.reserve
    BY <1>1, SMT DEF AccountOK, Investable, Most
  <1> QED BY <1>5, <1>6, SMT DEF Affordable, Least

LEMMA ExposureFacts ==
    ASSUME AccountOK, NEW x \in Signals
    PROVE  /\ Exposure(x) \in Percent
           /\ ~SignalUnavailable(x) /\ x.route \in RiskRoutes
                 => Exposure(x) <= config.reduced \/ Exposure(x) <= config.off
  <1>1. x \in SignalType  BY DcaAssumption
  <1>2. x.alloc \in Percent \cup {None} /\ x.hint \in Percent \cup {None}
    BY <1>1 DEF SignalType
  <1>3. config.reduced \in Percent /\ config.off \in Percent
    BY DEF AccountOK, ConfigType
  <1>4. 100 \in Percent  BY SMT DEF Percent
  <1>5. Exposure(x) \in Percent
    BY <1>2, <1>3, <1>4 DEF Exposure, RiskRoutes
  <1>6. ASSUME ~SignalUnavailable(x), x.route \in RiskRoutes
        PROVE  Exposure(x) <= config.reduced \/ Exposure(x) <= config.off
    <2>1. \A c \in Percent : Exposure(x) > c \/ Exposure(x) <= c
      BY <1>5, SMT DEF Percent
    <2>2. CASE x.route = "risk_reduced"
      BY <1>3, <1>6, <2>1, <2>2 DEF SignalUnavailable
    <2>3. CASE x.route = "risk_off"
      BY <1>3, <1>6, <2>1, <2>3 DEF SignalUnavailable
    <2> QED BY <1>6, <2>2, <2>3 DEF RiskRoutes
  <1> QED BY <1>5, <1>6

(* Half of the equity at most. *)
LEMMA CeilingFacts ==
    ASSUME AccountOK
    PROVE  Ceiling \in Nat /\ 2 * Ceiling <= Equity
  <1>1. Equity \in Nat  BY EquityNat
  <1>2. Equity \in 0..MaxEquity  BY <1>1, DcaAssumption, SMT DEF AccountOK
  <1>3. Ratio(Equity) \in Percent  BY <1>2, DcaAssumption
  <1>4. Least(Ratio(Equity), 50) \in Percent /\ Least(Ratio(Equity), 50) <= 50
    BY <1>3, SMT DEF Least, Percent
  <1> QED BY <1>1, <1>4, OfPart DEF Ceiling

(* The plan the entrypoint asks for, with a strict window. *)
StrictPlanned(r, x) == Planned(r, x, TRUE)

StrictTarget(r, x) == PlanTarget(r, x, TRUE)

LEMMA StrictPlan ==
    ASSUME NEW r, NEW x
    PROVE  /\ StrictPlanned(r, x) = IF Actionable(r) THEN Affordable(r) ELSE 0
           /\ StrictTarget(r, x) = IF Applied(x)
                                   THEN Of(Exposure(x), btc + StrictPlanned(r, x))
                                   ELSE btc + StrictPlanned(r, x)
           /\ Target(r, x) =
                 LET capped == Least(StrictTarget(r, x), Most(btc, Ceiling))
                 IN  IF Applied(x) /\ x.route \in RiskRoutes THEN Least(capped, btc) ELSE capped
  <1>1. Planned(r, x, TRUE) = IF Actionable(r) THEN Affordable(r) ELSE 0
    BY DEF Planned
  <1>2. PlanTarget(r, x, TRUE) = IF Applied(x)
                                 THEN Of(Exposure(x), btc + Planned(r, x, TRUE))
                                 ELSE btc + Planned(r, x, TRUE)
    BY Zenon DEF PlanTarget
  <1>3. Target(r, x) =
           LET capped == Least(PlanTarget(r, x, TRUE), Most(btc, Ceiling))
           IN  IF Applied(x) /\ x.route \in RiskRoutes THEN Least(capped, btc) ELSE capped
    BY Zenon DEF Target
  <1> QED BY Zenon, <1>1, <1>2, <1>3 DEF StrictPlanned, StrictTarget

LEMMA PlanFacts ==
    ASSUME AccountOK, NEW r, NEW x \in Signals
    PROVE  /\ StrictPlanned(r, x) \in Nat
           /\ StrictPlanned(r, x) <= Investable
           /\ StrictTarget(r, x) \in Nat
           /\ StrictTarget(r, x) <= btc + StrictPlanned(r, x)
           /\ ~Applied(x) => StrictTarget(r, x) >= btc
           /\ Applied(x) /\ Exposure(x) <= 50 => 2 * StrictTarget(r, x) <= btc + cash
  <1>1. /\ Affordable(r) \in Nat
        /\ Affordable(r) <= Investable
        /\ Investable \in Nat
        /\ Investable <= cash
    BY AffordableFacts
  <1>2. StrictPlanned(r, x) = Affordable(r) \/ StrictPlanned(r, x) = 0
    BY StrictPlan
  <1>3. StrictPlanned(r, x) \in Nat /\ StrictPlanned(r, x) <= Investable
    BY <1>1, <1>2, SMT
  <1>4. btc \in Nat /\ cash \in Nat  BY DEF AccountOK
  <1>5. PICK c \in Nat : c = btc + StrictPlanned(r, x)
    BY <1>3, <1>4, SMT
  <1>6. c <= btc + cash /\ c >= btc
    BY <1>1, <1>3, <1>4, <1>5, SMT
  <1>7. Exposure(x) \in Percent  BY ExposureFacts
  <1>8. /\ Of(Exposure(x), c) \in Nat
        /\ Of(Exposure(x), c) <= c
        /\ Exposure(x) <= 50 => 2 * Of(Exposure(x), c) <= c
    BY <1>7, OfPart
  <1>9. CASE Applied(x)
    <2>1. StrictTarget(r, x) = Of(Exposure(x), c)  BY <1>5, <1>9, StrictPlan
    <2> QED BY <1>3, <1>4, <1>5, <1>6, <1>8, <1>9, <2>1, SMT
  <1>10. CASE ~Applied(x)
    <2>1. StrictTarget(r, x) = c  BY <1>5, <1>10, StrictPlan
    <2> QED BY <1>3, <1>4, <1>5, <1>6, <1>10, <2>1, SMT
  <1> QED BY <1>9, <1>10

(* What the profile's target may be, whatever it reads. *)
LEMMA TargetFacts ==
    ASSUME AccountOK, NEW r, NEW x \in Signals
    PROVE  /\ Target(r, x) \in Nat
           /\ Target(r, x) - btc <= Investable
           /\ Target(r, x) < btc => Applied(x)
           /\ Applied(x) /\ x.route \in RiskRoutes => Target(r, x) <= btc
           /\ 2 * Target(r, x) > Equity => 2 * btc > Equity
           /\ Applied(x) /\ Exposure(x) <= 50 => 2 * Target(r, x) <= Equity
  <1>1. /\ StrictPlanned(r, x) \in Nat
        /\ StrictPlanned(r, x) <= Investable
        /\ StrictTarget(r, x) \in Nat
        /\ StrictTarget(r, x) <= btc + StrictPlanned(r, x)
        /\ ~Applied(x) => StrictTarget(r, x) >= btc
        /\ Applied(x) /\ Exposure(x) <= 50 => 2 * StrictTarget(r, x) <= btc + cash
    BY PlanFacts
  <1>2. Investable \in Nat  BY AffordableFacts
  <1>3. Ceiling \in Nat /\ 2 * Ceiling <= Equity  BY CeilingFacts
  <1>4. Equity \in Nat /\ btc + cash <= Equity  BY EquityNat
  <1>5. btc \in Nat /\ cash \in Nat  BY DEF AccountOK
  <1> DEFINE capped == Least(StrictTarget(r, x), Most(btc, Ceiling))
  <1>6. /\ capped \in Nat
        /\ capped <= StrictTarget(r, x)
        /\ capped <= btc \/ capped <= Ceiling
        /\ StrictTarget(r, x) >= btc => capped >= btc
    BY <1>1, <1>3, <1>5, SMT DEF Least, Most
  <1>7. \/ Target(r, x) = capped
        \/ Applied(x) /\ Target(r, x) = Least(capped, btc)
    BY StrictPlan
  <1>8. Applied(x) /\ x.route \in RiskRoutes => Target(r, x) = Least(capped, btc)
    BY StrictPlan
  <1> HIDE DEF capped
  <1>9. Target(r, x) \in Nat /\ Target(r, x) <= capped
    BY <1>5, <1>6, <1>7, SMT DEF Least
  <1>10. Applied(x) /\ x.route \in RiskRoutes => Target(r, x) <= btc
    BY <1>5, <1>6, <1>8, SMT DEF Least
  <1>11. Target(r, x) < btc => Applied(x)
    <2> SUFFICES ASSUME ~Applied(x) PROVE ~(Target(r, x) < btc)
      OBVIOUS
    <2>1. Target(r, x) = capped /\ capped >= btc  BY <1>1, <1>6, <1>7
    <2> QED BY <2>1, <1>5, <1>6, SMT
  <1>12. Target(r, x) - btc <= Investable
    BY <1>1, <1>2, <1>5, <1>6, <1>9, SMT
  <1>13. 2 * Target(r, x) > Equity => 2 * btc > Equity
    BY <1>3, <1>4, <1>5, <1>6, <1>9, SMT
  <1>14. Applied(x) /\ Exposure(x) <= 50 => 2 * Target(r, x) <= Equity
    <2> SUFFICES ASSUME Applied(x), Exposure(x) <= 50
                 PROVE  2 * Target(r, x) <= Equity
      OBVIOUS
    <2>1. 2 * StrictTarget(r, x) <= btc + cash  BY <1>1
    <2> QED BY <2>1, <1>1, <1>4, <1>5, <1>6, <1>9, SMT
  <1> QED BY <1>9, <1>10, <1>11, <1>12, <1>13, <1>14

(* A budget never asks for more than the cash above the reserve, whatever  *)
(* the gate says, and it is 0 when the target lies below the position.     *)
LEMMA DecisionFacts ==
    ASSUME AccountOK, NEW r, NEW x \in Signals, NEW gate \in BOOLEAN,
           NEW d, d = DecisionOn(r, x, gate), ~Unusable(r, x)
    PROVE  /\ d \in DecisionType
           /\ d.budget = 0 \/ d.budget <= cash - config.reserve
           /\ d.target < d.held => d.applied
           /\ d.applied /\ d.route \in RiskRoutes => d.budget = 0
           /\ d.concentrated => 2 * d.held > d.equity
           /\ d.concentrated /\ config.reduced <= 50 /\ config.off <= 50 =>
                 ~(d.applied /\ d.route \in RiskRoutes)
  <1> DEFINE t == Target(r, x)
  <1>1. /\ t \in Nat
        /\ t - btc <= Investable
        /\ t < btc => Applied(x)
        /\ Applied(x) /\ x.route \in RiskRoutes => t <= btc
        /\ 2 * t > Equity => 2 * btc > Equity
        /\ Applied(x) /\ Exposure(x) <= 50 => 2 * t <= Equity
    BY TargetFacts
  <1>2. btc \in Nat /\ cash \in Nat  BY DEF AccountOK
  <1>3. Equity \in Nat  BY EquityNat
  <1>4. /\ d.held = btc /\ d.equity = Equity /\ d.target = t
        /\ d.route = x.route /\ d.applied = Applied(x) /\ d.concentrated = Concentrated(t)
        /\ d.budget = Most(0, t - btc) \/ d.budget = 0
    BY DEF DecisionOn
  <1>5. d = [held |-> d.held, equity |-> d.equity, target |-> d.target, budget |-> d.budget,
             route |-> d.route, applied |-> d.applied, passed |-> d.passed,
             concentrated |-> d.concentrated]
    BY DEF DecisionOn
  <1> HIDE DEF t
  <1>6. d.budget \in Nat
    BY <1>1, <1>2, <1>4, SMT DEF Most
  <1>7. x.route \in PositionRoutes \cup {None}
    BY DcaAssumption DEF SignalType
  <1>8. d.applied \in BOOLEAN /\ d.concentrated \in BOOLEAN
    BY <1>4 DEF Applied, Concentrated
  <1>9. d.passed = (gate /\ ~Concentrated(t))
    BY DEF DecisionOn, t
  <1>10. d.passed \in BOOLEAN
    BY <1>9
  <1>11. d \in DecisionType
    BY <1>1, <1>2, <1>3, <1>4, <1>5, <1>6, <1>7, <1>8, <1>10 DEF DecisionType
  <1>12. d.budget = 0 \/ d.budget <= cash - config.reserve
    <2>1. /\ Investable \in Nat
          /\ Investable > 0 => Investable = cash - config.reserve
      BY AffordableFacts
    <2>2. config.reserve \in Nat  BY DEF AccountOK, ConfigType
    <2> QED BY <1>1, <1>2, <1>4, <2>1, <2>2, SMT DEF Most
  <1>13. d.target < d.held => d.applied
    BY <1>1, <1>4
  <1>14. d.applied /\ d.route \in RiskRoutes => d.budget = 0
    <2>1. d.applied /\ d.route \in RiskRoutes => t <= btc
      BY <1>1, <1>4
    <2>2. t <= btc => d.budget = 0
      BY <1>1, <1>2, <1>4, SMT DEF Most
    <2> QED BY <2>1, <2>2
  <1>15. d.concentrated => 2 * t > Equity
    BY <1>4 DEF Concentrated
  <1>16. d.concentrated => 2 * d.held > d.equity
    BY <1>1, <1>4, <1>15
  <1>17. ASSUME d.concentrated, config.reduced <= 50, config.off <= 50,
                d.applied, d.route \in RiskRoutes
         PROVE  FALSE
    <2>1. Applied(x) /\ x.route \in RiskRoutes
      BY <1>4, <1>17
    <2>2. ~SignalUnavailable(x)
      BY <2>1 DEF Unusable, Applied
    <2>3. Exposure(x) <= config.reduced \/ Exposure(x) <= config.off
      BY <2>1, <2>2, ExposureFacts
    <2>4. Exposure(x) \in Percent  BY ExposureFacts
    <2>5. config.reduced \in Percent /\ config.off \in Percent
      BY DEF AccountOK, ConfigType
    <2>6. Exposure(x) <= 50
      BY <1>17, <2>3, <2>4, <2>5, SMT DEF Percent
    <2>7. 2 * t <= Equity  BY <1>1, <2>1, <2>6
    <2>8. 2 * t > Equity  BY <1>15, <1>17
    <2> QED BY <1>1, <1>3, <2>7, <2>8, SMT
  <1> QED BY <1>11, <1>12, <1>13, <1>14, <1>16, <1>17

-----------------------------------------------------------------------------
(* The account *)

(* What is still to be traded on takes nothing out of the reserve. *)
Pending ==
    phase = "decided" => decision.budget = 0 \/ decision.budget <= cash - config.reserve

AccountInv ==
    /\ AccountOK
    /\ decision \in DecisionType
    /\ phase \in {"idle", "decided", "done"}
    /\ ReserveKept
    /\ Pending
    /\ DirectionJustified
    /\ GateRefusesOnlyHoldings

LEMMA NothingDecided ==
    ASSUME decision = NoDecision
    PROVE  decision \in DecisionType /\ DirectionJustified /\ GateRefusesOnlyHoldings
  <1>1. decision \in DecisionType
    BY DEF NoDecision, DecisionType
  <1>2. DirectionJustified /\ GateRefusesOnlyHoldings
    BY DEF NoDecision, DirectionJustified, GateRefusesOnlyHoldings
  <1> QED BY <1>1, <1>2

LEMMA AccountInit == Init => AccountInv
  <1> SUFFICES ASSUME Init PROVE AccountInv
    OBVIOUS
  <1>1. config \in ConfigType
    BY DcaAssumption DEF Init
  <1>2. config.reserve \in Nat  BY <1>1 DEF ConfigType
  <1>3. btc \in 0..MaxEquity /\ cash \in config.reserve..(MaxEquity - OtherAssets - btc)
    BY DEF Init
  <1>4. /\ btc \in Nat /\ cash \in Nat /\ cash >= config.reserve
        /\ btc + cash + OtherAssets <= MaxEquity
    BY <1>2, <1>3, DcaAssumption, SMT
  <1>5. decision = NoDecision /\ phase = "idle"
    BY DEF Init
  <1>6. AccountOK /\ ReserveKept
    BY <1>1, <1>4 DEF AccountOK, Equity, ReserveKept
  <1>7. Pending  BY <1>5 DEF Pending
  <1> QED BY <1>5, <1>6, <1>7, NothingDecided DEF AccountInv

(* Fills stay within the order. *)
LEMMA FillsFacts ==
    ASSUME NEW a \in Nat, NEW f \in Fills(a)
    PROVE  f \in Nat /\ f <= a
  BY SMT DEF Fills

(* The decision stands as long as the decision and the configuration do. *)
LEMMA DecisionStands ==
    ASSUME UNCHANGED <<config, decision>>, AccountInv
    PROVE  /\ decision' \in DecisionType
           /\ DirectionJustified'
           /\ GateRefusesOnlyHoldings'
  BY DEF AccountInv, DirectionJustified, GateRefusesOnlyHoldings

LEMMA AccountStep == AccountInv /\ [Next]_vars => AccountInv'
  <1> SUFFICES ASSUME AccountInv, [Next]_vars PROVE AccountInv'
    OBVIOUS
  <1>1. /\ AccountOK /\ config \in ConfigType /\ btc \in Nat /\ cash \in Nat
        /\ config.reserve \in Nat /\ OtherAssets \in Nat /\ MaxEquity \in Nat
        /\ cash >= config.reserve
        /\ btc + cash + OtherAssets <= MaxEquity
        /\ decision.target \in Nat /\ decision.budget \in Nat
    BY DcaAssumption DEF AccountInv, AccountOK, ReserveKept, Equity, ConfigType, DecisionType
  <1>2. CASE Evaluate
    <2>1. PICK r \in Readings \cup {None}, x \in Signals, gate \in BOOLEAN :
             /\ ~Unusable(r, x)
             /\ decision' = DecisionOn(r, x, gate)
             /\ phase' = "decided"
      BY <1>2 DEF Evaluate
    <2>2. UNCHANGED <<config, btc, cash>>
      BY <1>2 DEF Evaluate
    <2>3. /\ decision' \in DecisionType
          /\ decision'.budget = 0 \/ decision'.budget <= cash - config.reserve
          /\ decision'.target < decision'.held => decision'.applied
          /\ decision'.applied /\ decision'.route \in RiskRoutes => decision'.budget = 0
          /\ decision'.concentrated => 2 * decision'.held > decision'.equity
          /\ decision'.concentrated /\ config.reduced <= 50 /\ config.off <= 50 =>
                ~(decision'.applied /\ decision'.route \in RiskRoutes)
      BY <1>1, <2>1, DecisionFacts
    <2>4. AccountOK' /\ ReserveKept'
      BY <2>2 DEF AccountInv, AccountOK, Equity, ReserveKept
    <2>5. Pending'
      BY <2>2, <2>3 DEF Pending
    <2>6. DirectionJustified'
      BY <2>3 DEF DirectionJustified
    <2>7. GateRefusesOnlyHoldings'
      BY <2>2, <2>3 DEF GateRefusesOnlyHoldings
    <2> QED BY <2>1, <2>3, <2>4, <2>5, <2>6, <2>7 DEF AccountInv
  <1>3. CASE EvaluateRaises
    <2>1. decision' = NoDecision /\ phase' = "idle" /\ UNCHANGED <<config, btc, cash>>
      BY <1>3 DEF EvaluateRaises
    <2>2. decision' \in DecisionType
      BY <2>1 DEF NoDecision, DecisionType
    <2>3. DirectionJustified' /\ GateRefusesOnlyHoldings'
      BY <2>1 DEF NoDecision, DirectionJustified, GateRefusesOnlyHoldings
    <2>4. AccountOK' /\ ReserveKept' /\ Pending'
      BY <2>1 DEF AccountInv, AccountOK, Equity, ReserveKept, Pending
    <2> QED BY <2>1, <2>2, <2>3, <2>4 DEF AccountInv
  <1>4. CASE Buy
    <2>1. PICK spent \in Fills(Least(decision.budget, cash)) :
             btc' = btc + spent /\ cash' = cash - spent
      BY <1>4 DEF Buy
    <2>2. /\ phase = "decided" /\ decision.budget > 0 /\ phase' = "done"
          /\ UNCHANGED <<config, decision>>
      BY <1>4 DEF Buy
    <2>3. decision.budget <= cash - config.reserve
      BY <1>1, <2>2, SMT DEF AccountInv, Pending
    <2>4. Least(decision.budget, cash) = decision.budget
      BY <1>1, <2>3, SMT DEF Least
    <2>5. spent \in Nat /\ spent <= decision.budget
      BY <1>1, <2>1, <2>4, FillsFacts
    <2>6. /\ btc' \in Nat /\ cash' \in Nat /\ cash' >= config.reserve
          /\ btc' + cash' + OtherAssets <= MaxEquity
      BY <1>1, <2>1, <2>3, <2>5, SMT
    <2>7. AccountOK' /\ ReserveKept' /\ Pending'
      BY <1>1, <2>2, <2>6 DEF AccountOK, Equity, ReserveKept, Pending
    <2> QED BY <2>2, <2>7, DecisionStands DEF AccountInv
  <1>5. CASE Sell
    <2>1. PICK sold \in Fills(btc - decision.target) :
             btc' = btc - sold /\ cash' = cash + sold
      BY <1>5 DEF Sell
    <2>2. decision.target < btc /\ phase' = "done" /\ UNCHANGED <<config, decision>>
      BY <1>5 DEF Sell
    <2>3. btc - decision.target \in Nat /\ btc - decision.target <= btc
      BY <1>1, <2>2, SMT
    <2>4. sold \in Nat /\ sold <= btc - decision.target
      BY <2>1, <2>3, FillsFacts
    <2>5. /\ btc' \in Nat /\ cash' \in Nat /\ cash' >= config.reserve
          /\ btc' + cash' + OtherAssets <= MaxEquity
      BY <1>1, <2>1, <2>3, <2>4, SMT
    <2>6. AccountOK' /\ ReserveKept' /\ Pending'
      BY <1>1, <2>2, <2>5 DEF AccountOK, Equity, ReserveKept, Pending
    <2> QED BY <2>2, <2>6, DecisionStands DEF AccountInv
  <1>6. CASE PriceMoves
    <2>1. /\ btc' \in {btc \div 2, 2 * btc} /\ btc' + cash + OtherAssets <= MaxEquity
          /\ UNCHANGED <<config, cash, decision, phase>>
      BY <1>6 DEF PriceMoves
    <2>2. btc' \in Nat
      BY <1>1, <2>1, SMT
    <2>3. AccountOK' /\ ReserveKept' /\ Pending'
      BY <1>1, <2>1, <2>2 DEF AccountInv, AccountOK, Equity, ReserveKept, Pending
    <2> QED BY <2>1, <2>3, DecisionStands DEF AccountInv
  <1>7. CASE Deposit
    <2>1. PICK d \in Deposits : Equity + d <= MaxEquity /\ cash' = cash + d
      BY <1>7 DEF Deposit
    <2>2. UNCHANGED <<config, btc, decision, phase>>
      BY <1>7 DEF Deposit
    <2>3. d \in Nat  BY DcaAssumption
    <2>4. /\ cash' \in Nat /\ cash' >= config.reserve /\ cash' >= cash
          /\ btc + cash' + OtherAssets <= MaxEquity
      BY <1>1, <2>1, <2>3, SMT DEF Equity
    <2>5. AccountOK' /\ ReserveKept'
      BY <1>1, <2>2, <2>4 DEF AccountOK, Equity, ReserveKept
    <2>6. Pending'
      BY <1>1, <2>2, <2>4, SMT DEF AccountInv, Pending
    <2> QED BY <2>2, <2>5, <2>6, DecisionStands DEF AccountInv
  <1>8. CASE DayPasses \/ UNCHANGED vars
    <2>1. UNCHANGED <<config, btc, cash, decision, phase>>
      BY <1>8 DEF DayPasses, vars
    <2>2. AccountOK' /\ ReserveKept' /\ Pending'
      BY <2>1 DEF AccountInv, AccountOK, Equity, ReserveKept, Pending
    <2> QED BY <2>1, <2>2, DecisionStands DEF AccountInv
  <1> QED BY <1>2, <1>3, <1>4, <1>5, <1>6, <1>7, <1>8 DEF Next

THEOREM AccountInvariant == Spec => []AccountInv
<1> QED BY AccountInit, AccountStep, PTL DEF Spec

(* The reserve survives any string of decisions, late fills, deposits and  *)
(* price moves.                                                            *)
THEOREM ReserveIsKept == Spec => []ReserveKept
<1>1. AccountInv => ReserveKept  BY DEF AccountInv
<1> QED BY <1>1, AccountInvariant, PTL

(* Only an exit sells, and a risk route never buys. *)
THEOREM DirectionIsJustified == Spec => []DirectionJustified
<1>1. AccountInv => DirectionJustified  BY DEF AccountInv
<1> QED BY <1>1, AccountInvariant, PTL

(* The concentration gate refuses no planned buy and, configured at or     *)
(* below half, no exit.                                                    *)
THEOREM GateRefusesNoPlan == Spec => []GateRefusesOnlyHoldings
<1>1. AccountInv => GateRefusesOnlyHoldings  BY DEF AccountInv
<1> QED BY <1>1, AccountInvariant, PTL

-----------------------------------------------------------------------------
(* The window *)

LEMMA Wraps ==
    ASSUME NEW w \in Nat \ {0}, NEW a \in Int
    PROVE  /\ 0 <= a /\ a < w => a % w = a
           /\ -w <= a /\ a < 0 => a % w = a + w
           /\ w % w = 0
  BY SMT

(* How long ago the window opened, in the days its arithmetic counts. *)
SinceOpening ==
    IF schedule.cadence = "weekly"
    THEN sinceOpening = IF weekday >= schedule.start THEN weekday - schedule.start
                        ELSE weekday - schedule.start + WeekLength
    ELSE month \in schedule.months /\ day >= schedule.start =>
            sinceOpening <= day - schedule.start

WindowInv == WindowTypeOK /\ sinceOpening \in 0..LongAgo /\ SinceOpening

LEMMA ScheduleFacts ==
    ASSUME schedule \in Schedules
    PROVE  /\ schedule.start \in Nat /\ schedule.width \in Nat \ {0}
           /\ schedule.cadence = "weekly" =>
                 schedule.start < WeekLength /\ schedule.width <= WeekLength
           /\ schedule.cadence # "weekly" => schedule.start >= 1
  BY WindowAssumption DEF ScheduleType

LEMMA WindowStarts == Init => WindowInv
  <1> SUFFICES ASSUME Init PROVE WindowInv
    OBVIOUS
  <1>1. /\ schedule \in Schedules /\ month = 1 /\ day = 1
        /\ weekday = IF schedule.cadence = "weekly" THEN schedule.start ELSE 0
        /\ sinceOpening = IF Opening THEN 0 ELSE LongAgo
    BY DEF Init, WindowInit
  <1>2. /\ WeekLength \in Nat \ {0} /\ YearMonths \in Nat \ {0}
        /\ DaysIn \in [1..YearMonths -> Nat \ {0}]
    BY WindowAssumption
  <1>3. month \in 1..YearMonths /\ DaysIn[month] \in Nat \ {0}
    <2>1. month \in 1..YearMonths  BY <1>1, <1>2, SMT
    <2> QED BY <2>1, <1>2
  <1>4. WindowTypeOK
    BY <1>1, <1>2, <1>3, ScheduleFacts, SMT DEF WindowTypeOK
  <1>5. sinceOpening \in 0..LongAgo
    BY <1>1, <1>2, SMT DEF LongAgo
  <1>6. SinceOpening
    <2>1. CASE schedule.cadence = "weekly"
      BY <1>1, <2>1, ScheduleFacts, SMT DEF SinceOpening, Opening
    <2>2. CASE schedule.cadence # "weekly"
      BY <1>1, <2>2, ScheduleFacts, SMT DEF SinceOpening, Opening
    <2> QED BY <2>1, <2>2
  <1> QED BY <1>4, <1>5, <1>6 DEF WindowInv

LEMMA WindowPasses == WindowInv /\ DayPasses => WindowInv'
  <1> SUFFICES ASSUME WindowInv, DayPasses PROVE WindowInv'
    OBVIOUS
  <1>1. /\ schedule \in Schedules /\ month \in 1..YearMonths /\ day \in 1..DaysIn[month]
        /\ weekday \in 0..(WeekLength - 1) /\ sinceOpening \in 0..LongAgo
        /\ WeekLength \in Nat \ {0} /\ YearMonths \in Nat \ {0}
        /\ DaysIn \in [1..YearMonths -> Nat \ {0}]
    BY WindowAssumption DEF WindowInv, WindowTypeOK
  <1>2. DaysIn[month] \in Nat \ {0} /\ day \in Nat /\ month \in Nat /\ weekday \in Nat
    BY <1>1, SMT
  <1>3. /\ schedule' = schedule /\ weekday' = (weekday + 1) % WeekLength
        /\ sinceOpening' =
              IF Opening' THEN 0
              ELSE IF schedule.cadence # "weekly" /\ month' # month THEN LongAgo
              ELSE Least(sinceOpening + 1, LongAgo)
    BY DEF DayPasses, NextDay
  <1>4. weekday' = IF weekday + 1 < WeekLength THEN weekday + 1 ELSE 0
    <2>1. CASE weekday + 1 < WeekLength
      <3>1. PICK w \in Int : w = weekday + 1  BY <1>2, SMT
      <3>2. 0 <= w /\ w < WeekLength  BY <1>2, <2>1, <3>1, SMT
      <3>3. w % WeekLength = w  BY <1>1, <3>2, Wraps
      <3> QED BY <1>3, <2>1, <3>1, <3>3
    <2>2. CASE weekday + 1 = WeekLength
      <3>1. WeekLength % WeekLength = 0  BY <1>1, Wraps
      <3>2. ~(weekday + 1 < WeekLength)  BY <1>1, <2>2, SMT
      <3> QED BY <1>3, <2>2, <3>1, <3>2
    <2> QED BY <1>1, <1>2, <2>1, <2>2, SMT
  <1>5. weekday' \in 0..(WeekLength - 1)
    BY <1>1, <1>4, SMT
  <1>6. \/ day < DaysIn[month] /\ day' = day + 1 /\ month' = month
        \/ /\ day = DaysIn[month] /\ day' = 1
           /\ month' = IF month = YearMonths THEN 1 ELSE month + 1
    BY DEF DayPasses, NextDay
  <1>7. month' \in 1..YearMonths
    BY <1>1, <1>2, <1>6, SMT
  <1>8. DaysIn[month'] \in Nat \ {0}
    BY <1>1, <1>7
  <1>9. day' \in 1..DaysIn[month']
    <2>1. CASE day < DaysIn[month] /\ day' = day + 1 /\ month' = month
      BY <1>2, <1>8, <2>1, SMT
    <2>2. CASE day' = 1
      BY <1>8, <2>2, SMT
    <2> QED BY <1>6, <2>1, <2>2
  <1>10. WindowTypeOK'
    BY <1>1, <1>3, <1>5, <1>7, <1>9 DEF WindowTypeOK
  <1>11. sinceOpening' \in 0..LongAgo
    BY <1>1, <1>3, SMT DEF Least, LongAgo
  <1>12. SinceOpening'
    <2>1. ASSUME schedule.cadence = "weekly" PROVE SinceOpening'
      <3>1. Opening' <=> weekday' = schedule.start
        BY <1>3, <2>1 DEF Opening
      <3>2. sinceOpening = IF weekday >= schedule.start THEN weekday - schedule.start
                           ELSE weekday - schedule.start + WeekLength
        BY <2>1 DEF WindowInv, SinceOpening
      <3>3. sinceOpening' = IF weekday' >= schedule.start THEN weekday' - schedule.start
                            ELSE weekday' - schedule.start + WeekLength
        <4>1. schedule.start \in Nat /\ schedule.start < WeekLength
          BY <1>1, <2>1, ScheduleFacts
        <4>2. CASE Opening'
          <5>1. sinceOpening' = 0 /\ weekday' = schedule.start  BY <1>3, <3>1, <4>2
          <5> QED BY <4>1, <5>1, SMT
        <4>3. CASE ~Opening'
          <5>1. sinceOpening' = Least(sinceOpening + 1, LongAgo) /\ weekday' # schedule.start
            BY <1>3, <2>1, <3>1, <4>3
          <5>2. sinceOpening' = sinceOpening + 1
            <6>1. sinceOpening \in Nat  BY <1>1, SMT DEF LongAgo
            <6>2. sinceOpening < WeekLength
              <7>1. CASE weekday >= schedule.start
                BY <1>1, <3>2, <4>1, <7>1, SMT
              <7>2. CASE ~(weekday >= schedule.start)
                <8>1. sinceOpening = weekday - schedule.start + WeekLength
                  BY <3>2, <7>2
                <8>2. weekday < schedule.start  BY <1>2, <4>1, <7>2, SMT
                <8> QED BY <1>1, <1>2, <4>1, <8>1, <8>2, SMT
              <7> QED BY <7>1, <7>2
            <6> QED BY <1>1, <5>1, <6>1, <6>2, SMT DEF Least, LongAgo
          <5>3. CASE weekday + 1 < WeekLength
            <6>1. weekday' = weekday + 1  BY <1>4, <5>3
            <6>2. CASE weekday >= schedule.start
              <7>1. weekday' >= schedule.start
                BY <1>2, <4>1, <6>1, <6>2, SMT
              <7>2. sinceOpening = weekday - schedule.start
                BY <3>2, <6>2
              <7>3. \A a, b \in Nat : (a - b) + 1 = (a + 1) - b
                BY SMT
              <7>4. sinceOpening' = weekday' - schedule.start
                BY <1>2, <4>1, <5>2, <6>1, <7>2, <7>3
              <7> QED BY <7>1, <7>4
            <6>3. CASE weekday < schedule.start
              <7>1. ~(weekday' >= schedule.start)
                BY <1>2, <4>1, <5>1, <6>1, <6>3, SMT
              <7>2. sinceOpening = weekday - schedule.start + WeekLength
                BY <1>2, <3>2, <4>1, <6>3, SMT
              <7>3. sinceOpening' = weekday' - schedule.start + WeekLength
                <8>1. weekday \in Int /\ schedule.start \in Int /\ WeekLength \in Int
                  BY <1>1, <1>2, <4>1, SMT
                <8>2. \A a, b, c \in Int : (a - b + c) + 1 = (a + 1) - b + c
                  BY SMT
                <8> QED BY <5>2, <6>1, <7>2, <8>1, <8>2
              <7> QED BY <7>1, <7>3
            <6> QED BY <1>2, <4>1, <6>2, <6>3, SMT
          <5>4. CASE ~(weekday + 1 < WeekLength)
            <6>1. weekday' = 0 /\ weekday = WeekLength - 1
              BY <1>1, <1>2, <1>4, <5>4, SMT
            <6>2. sinceOpening = weekday - schedule.start
              BY <1>1, <1>2, <3>2, <4>1, <6>1, SMT
            <6>3. ~(weekday' >= schedule.start)
              BY <4>1, <5>1, <6>1, SMT
            <6> QED BY <1>1, <1>2, <4>1, <5>2, <6>1, <6>2, <6>3, SMT
          <5> QED BY <5>3, <5>4
        <4> QED BY <4>2, <4>3
      <3> QED BY <1>3, <2>1, <3>3 DEF SinceOpening
    <2>2. ASSUME schedule.cadence # "weekly" PROVE SinceOpening'
      <3>1. Opening' <=> month' \in schedule.months /\ day' = schedule.start
        BY <1>3, <2>2 DEF Opening
      <3>2. month \in schedule.months /\ day >= schedule.start =>
               sinceOpening <= day - schedule.start
        BY <2>2 DEF WindowInv, SinceOpening
      <3>3. ASSUME month' \in schedule.months, day' >= schedule.start
            PROVE  sinceOpening' <= day' - schedule.start
        <4>1. CASE Opening'
          BY <1>3, <3>1, <4>1, ScheduleFacts, <1>1, SMT
        <4>2. CASE ~Opening'
          <5>1. day' # schedule.start  BY <3>1, <3>3, <4>2
          <5>2. day' # 1
            BY <1>1, <2>2, <3>3, <5>1, ScheduleFacts, SMT
          <5>3. day' = day + 1 /\ month' = month  BY <1>6, <5>2
          <5>4. sinceOpening <= day - schedule.start
            BY <1>1, <1>2, <3>2, <3>3, <5>1, <5>3, ScheduleFacts, SMT
          <5>5. sinceOpening' = Least(sinceOpening + 1, LongAgo)
            BY <1>3, <4>2, <5>3
          <5> QED BY <1>1, <1>2, <5>3, <5>4, <5>5, ScheduleFacts, SMT DEF Least, LongAgo
        <4> QED BY <4>1, <4>2
      <3> QED BY <1>3, <2>2, <3>3 DEF SinceOpening
    <2> QED BY <2>1, <2>2
  <1> QED BY <1>10, <1>11, <1>12 DEF WindowInv

LEMMA WindowStep == WindowInv /\ [Next]_vars => WindowInv'
  <1>1. ASSUME WindowInv, UNCHANGED <<windowVars, sinceOpening>>
        PROVE  WindowInv'
    BY <1>1 DEF windowVars, WindowInv, WindowTypeOK, SinceOpening
  <1>2. WindowInv /\ DayPasses => WindowInv'
    BY WindowPasses
  <1> QED
    BY <1>1, <1>2 DEF Next, vars, windowVars, Evaluate, EvaluateRaises, Buy, Sell, PriceMoves, Deposit

(* In the window, the window opened less than its width ago. *)
LEMMA WindowIsRecent ==
    ASSUME WindowInv, InWindow
    PROVE  sinceOpening < schedule.width
  <1>1. /\ schedule \in Schedules /\ weekday \in 0..(WeekLength - 1)
        /\ sinceOpening \in 0..LongAgo /\ WeekLength \in Nat \ {0}
        /\ month \in 1..YearMonths /\ day \in 1..DaysIn[month] /\ SinceOpening
        /\ DaysIn \in [1..YearMonths -> Nat \ {0}]
    BY WindowAssumption DEF WindowInv, WindowTypeOK
  <1>2. CASE schedule.cadence = "weekly"
    <2>1. (weekday - schedule.start) % WeekLength < schedule.width
      BY <1>2 DEF InWindow
    <2>2. sinceOpening = IF weekday >= schedule.start THEN weekday - schedule.start
                         ELSE weekday - schedule.start + WeekLength
      BY <1>1, <1>2 DEF SinceOpening
    <2>3. sinceOpening = (weekday - schedule.start) % WeekLength
      <3>1. CASE weekday >= schedule.start
        BY <1>1, <1>2, <2>2, <3>1, ScheduleFacts, Wraps, SMT
      <3>2. CASE weekday < schedule.start
        BY <1>1, <1>2, <2>2, <3>2, ScheduleFacts, Wraps, SMT
      <3> QED BY <1>1, <3>1, <3>2, ScheduleFacts, SMT
    <2> QED BY <2>1, <2>3
  <1>3. CASE schedule.cadence # "weekly"
    <2>1. month \in schedule.months /\ day \in schedule.start..(schedule.start + schedule.width - 1)
      BY <1>3 DEF InWindow
    <2>2. day >= schedule.start => sinceOpening <= day - schedule.start
      BY <1>1, <1>3, <2>1 DEF SinceOpening
    <2> QED BY <1>1, <2>1, <2>2, ScheduleFacts, SMT
  <1> QED BY <1>2, <1>3

(* A budget comes from an actionable plan, whatever the exit signal says. *)
LEMMA BudgetIsActionable ==
    ASSUME AccountOK, NEW r, NEW x \in Signals, NEW gate \in BOOLEAN,
           DecisionOn(r, x, gate).budget > 0
    PROVE  InWindow
  <1>1. /\ StrictPlanned(r, x) \in Nat /\ StrictTarget(r, x) \in Nat
        /\ StrictTarget(r, x) <= btc + StrictPlanned(r, x)
    BY PlanFacts
  <1>2. btc \in Nat  BY DEF AccountOK
  <1>3. Target(r, x) \in Nat  BY TargetFacts
  <1>4. Ceiling \in Nat  BY CeilingFacts
  <1>5. DecisionOn(r, x, gate).budget = Most(0, Target(r, x) - btc)
        \/ DecisionOn(r, x, gate).budget = 0
    BY DEF DecisionOn
  <1>6. Target(r, x) > btc
    BY <1>2, <1>3, <1>5, SMT DEF Most
  <1> DEFINE capped == Least(StrictTarget(r, x), Most(btc, Ceiling))
  <1>7. capped \in Nat /\ capped <= StrictTarget(r, x)
    BY <1>1, <1>2, <1>4, SMT DEF Least, Most
  <1>8. Target(r, x) = capped \/ Target(r, x) = Least(capped, btc)
    BY StrictPlan
  <1> HIDE DEF capped
  <1>9. StrictTarget(r, x) > btc
    BY <1>1, <1>2, <1>3, <1>6, <1>7, <1>8, SMT DEF Least
  <1>10. StrictPlanned(r, x) # 0
    BY <1>1, <1>2, <1>9, SMT
  <1>11. Actionable(r)
    BY <1>10, StrictPlan
  <1> QED BY <1>11 DEF Actionable

LEMMA BuyStep ==
    ASSUME AccountInv, WindowInv, [Next]_vars, decision' # decision, decision'.budget > 0
    PROVE  sinceOpening < schedule.width
  <1>1. \/ Evaluate
        \/ decision' = NoDecision
        \/ UNCHANGED decision
    BY DEF Next, vars, EvaluateRaises, Buy, Sell, PriceMoves, Deposit, DayPasses
  <1>2. decision' # NoDecision
    <2> SUFFICES ASSUME decision' = NoDecision PROVE FALSE
      OBVIOUS
    <2>1. decision'.budget = 0  BY DEF NoDecision
    <2> QED BY <2>1, SMT
  <1>3. PICK r \in Readings \cup {None}, x \in Signals, gate \in BOOLEAN :
           decision' = DecisionOn(r, x, gate)
    BY <1>1, <1>2 DEF Evaluate
  <1>4. DecisionOn(r, x, gate).budget > 0
    BY <1>3
  <1>5. InWindow
    BY <1>4, BudgetIsActionable DEF AccountInv
  <1> QED BY <1>5, WindowIsRecent

(* The account and its calendar keep their types. *)
THEOREM TypeCorrect == Spec => []TypeOK
<1>1. AccountInv /\ WindowInv => TypeOK
  BY DEF AccountInv, AccountOK, WindowInv, TypeOK
<1> QED BY <1>1, AccountInvariant, WindowStarts, WindowStep, PTL DEF Spec

(* Every budget is decided less than the window's width after the window   *)
(* opened, whatever the exit signal says and whatever the calendar.        *)
THEOREM BuysInWindow == Spec => BuysStayInWindow
<1>1. AccountInv /\ WindowInv /\ [Next]_vars
      => [decision' # decision /\ decision'.budget > 0 => sinceOpening < schedule.width]_vars
  BY BuyStep
<1> QED BY <1>1, AccountInvariant, WindowStarts, WindowStep, PTL DEF Spec, BuysStayInWindow

-----------------------------------------------------------------------------
(* Two readings on one account *)

LEMMA OfMonotone ==
    ASSUME NEW p \in Nat, NEW q \in Nat, NEW a \in Nat, NEW b \in Nat, p <= q, a <= b
    PROVE  Of(p, a) <= Of(q, b)
  <1>1. p * a <= q * a  BY SMT
  <1>2. q * a <= q * b  BY SMT
  <1>3. p * a \in Nat /\ q * a \in Nat /\ q * b \in Nat  BY SMT
  <1>4. p * a <= q * b
    <2>1. \A l, m, n \in Nat : l <= m /\ m <= n => l <= n  BY SMT
    <2> QED BY <1>1, <1>2, <1>3, <2>1
  <1>5. \A m, n \in Nat : m <= n => m \div 100 <= n \div 100  BY SMT
  <1> QED BY <1>3, <1>4, <1>5 DEF Of

(* A dearer reading is never in a cheaper regime, however the thresholds   *)
(* lie to each other: what makes the one cheap makes the other cheap.      *)
LEMMA DearerRegime ==
    ASSUME CheaperBuysMore, AccountOK, NEW r \in Readings, NEW q \in Readings, Dearer(r, q)
    PROVE  Multiplier[Regime(r)] <= Multiplier[Regime(q)]
  <1>1. r \in ReadingType /\ q \in ReadingType  BY DcaAssumption
  <1>2. /\ r.ahr \in Nat /\ r.drawdown \in Nat /\ r.gap \in Int /\ r.rsi \in Nat
        /\ q.ahr \in Nat /\ q.drawdown \in Nat /\ q.gap \in Int /\ q.rsi \in Nat
    BY <1>1 DEF ReadingType
  <1>3. /\ config.bottom \in Nat /\ config.accumulation \in Nat /\ config.dca \in Nat
        /\ config.mild \in Nat /\ config.deep \in Nat /\ config.severe \in Nat
        /\ config.shallow \in Nat /\ config.mildGap \in Nat /\ config.deepGap \in Nat
        /\ config.expensive \in Nat /\ config.veryExpensive \in Nat /\ config.overbought \in Nat
    BY DEF AccountOK, ConfigType
  <1>4. \A g \in Regimes : Multiplier[g] \in Nat  BY DcaAssumption
  <1>5. CASE ~config.smart
    <2>1. Regime(r) = "ordinary_dca" /\ Regime(q) = "ordinary_dca"  BY <1>5 DEF Regime
    <2> QED BY <2>1, <1>4, SMT DEF Regimes
  <1>6. CASE config.smart /\ config.cycle
    <2>1. Regime(r) = CycleRegime(r) /\ Regime(q) = CycleRegime(q)  BY <1>6 DEF Regime
    <2>2. r.ahr >= q.ahr  BY <1>6 DEF Dearer
    <2>3. \A c \in Nat : r.ahr <= c => q.ahr <= c  BY <1>2, <2>2, SMT
    <2>4. CASE CycleRegime(q) = "ahr999_bottom"
      <3>1. CycleRegime(r) \in {"ahr999_bottom", "ahr999_accumulation", "ahr999_dca", "ahr999_expensive"}
        BY DEF CycleRegime
      <3> QED BY <1>4, <2>1, <2>4, <3>1, SMT DEF Regimes, CheaperBuysMore
    <2>5. CASE CycleRegime(q) # "ahr999_bottom"
      <3>1. r.ahr <= config.bottom => FALSE  BY <1>3, <2>3, <2>5 DEF CycleRegime
      <3>2. CASE CycleRegime(q) = "ahr999_accumulation"
        <4>1. CycleRegime(r) \in {"ahr999_accumulation", "ahr999_dca", "ahr999_expensive"}
          BY <3>1 DEF CycleRegime
        <4> QED BY <1>4, <2>1, <3>2, <4>1, SMT DEF Regimes, CheaperBuysMore
      <3>3. CASE CycleRegime(q) # "ahr999_accumulation"
        <4>1. r.ahr <= config.accumulation => FALSE
          BY <1>3, <2>3, <2>5, <3>3 DEF CycleRegime
        <4>2. CASE CycleRegime(q) = "ahr999_dca"
          <5>1. CycleRegime(r) \in {"ahr999_dca", "ahr999_expensive"}
            BY <3>1, <4>1 DEF CycleRegime
          <5> QED BY <1>4, <2>1, <4>2, <5>1, SMT DEF Regimes, CheaperBuysMore
        <4>3. CASE CycleRegime(q) # "ahr999_dca"
          <5>1. r.ahr <= config.dca => FALSE
            BY <1>3, <2>3, <2>5, <3>3, <4>3 DEF CycleRegime
          <5>2. CycleRegime(r) = "ahr999_expensive" /\ CycleRegime(q) = "ahr999_expensive"
            BY <2>5, <3>1, <3>3, <4>1, <4>3, <5>1 DEF CycleRegime
          <5> QED BY <1>4, <2>1, <5>2, SMT DEF Regimes
        <4> QED BY <4>2, <4>3
      <3> QED BY <3>2, <3>3
    <2> QED BY <2>4, <2>5
  <1>7. CASE config.smart /\ ~config.cycle
    <2>1. Regime(r) = DrawdownRegime(r) /\ Regime(q) = DrawdownRegime(q)  BY <1>7 DEF Regime
    <2>2. r.drawdown <= q.drawdown /\ r.gap >= q.gap /\ r.rsi >= q.rsi  BY <1>7 DEF Dearer
    <2> DEFINE Severe(s) == s.drawdown >= config.severe
               Deep(s) == s.drawdown >= config.deep \/ s.gap <= -config.deepGap
               Mild(s) == s.drawdown >= config.mild \/ s.gap <= -config.mildGap
               Pulled(s) == s.drawdown > config.shallow
               Overheated(s) == s.gap >= config.veryExpensive /\ s.rsi >= config.overbought
               Expensive(s) == s.gap >= config.expensive
    <2>3. /\ Severe(r) => Severe(q)
          /\ Deep(r) => Deep(q)
          /\ Mild(r) => Mild(q)
          /\ Pulled(r) => Pulled(q)
          /\ Overheated(q) => Overheated(r)
          /\ Expensive(q) => Expensive(r)
      BY <1>2, <1>3, <2>2, SMT
    <2>4. \A s : DrawdownRegime(s) =
             IF Severe(s) THEN "severe_pullback"
             ELSE IF Deep(s) THEN "deep_pullback"
             ELSE IF Mild(s) THEN "mild_pullback"
             ELSE IF Pulled(s) THEN "normal"
             ELSE IF Overheated(s) THEN "very_expensive_overbought"
             ELSE IF Expensive(s) THEN "expensive"
             ELSE "normal"
      BY DEF DrawdownRegime
    <2> HIDE DEF Severe, Deep, Mild, Pulled, Overheated, Expensive
    <2> DEFINE M(g) == Multiplier[g]
    <2>5. /\ M("severe_pullback") \in Nat /\ M("deep_pullback") \in Nat
          /\ M("mild_pullback") \in Nat /\ M("normal") \in Nat
          /\ M("expensive") \in Nat /\ M("very_expensive_overbought") \in Nat
      BY <1>4 DEF Regimes
    <2>6. /\ M("severe_pullback") >= M("deep_pullback")
          /\ M("deep_pullback") >= M("mild_pullback")
          /\ M("mild_pullback") >= M("normal")
          /\ M("normal") >= M("expensive")
          /\ M("expensive") >= M("very_expensive_overbought")
      BY DEF CheaperBuysMore
    <2>7. M(DrawdownRegime(r)) <= M(DrawdownRegime(q))
      <3>1. CASE Severe(q)
        <4>1. DrawdownRegime(q) = "severe_pullback"  BY <2>4, <3>1
        <4>2. DrawdownRegime(r) \in {"severe_pullback", "deep_pullback", "mild_pullback",
                                     "normal", "very_expensive_overbought", "expensive"}
          BY <2>4
        <4> QED BY <2>5, <2>6, <4>1, <4>2, SMT
      <3>2. CASE ~Severe(q) /\ Deep(q)
        <4>1. DrawdownRegime(q) = "deep_pullback"  BY <2>4, <3>2
        <4>2. DrawdownRegime(r) \in {"deep_pullback", "mild_pullback",
                                     "normal", "very_expensive_overbought", "expensive"}
          BY <2>3, <2>4, <3>2
        <4> QED BY <2>5, <2>6, <4>1, <4>2, SMT
      <3>3. CASE ~Severe(q) /\ ~Deep(q) /\ Mild(q)
        <4>1. DrawdownRegime(q) = "mild_pullback"  BY <2>4, <3>3
        <4>2. DrawdownRegime(r) \in {"mild_pullback",
                                     "normal", "very_expensive_overbought", "expensive"}
          BY <2>3, <2>4, <3>3
        <4> QED BY <2>5, <2>6, <4>1, <4>2, SMT
      <3>4. CASE ~Severe(q) /\ ~Deep(q) /\ ~Mild(q)
        <4>1. DrawdownRegime(r) \in {"normal", "very_expensive_overbought", "expensive"}
          BY <2>3, <2>4, <3>4
        <4>2. CASE DrawdownRegime(q) = "normal"
          BY <2>5, <2>6, <4>1, <4>2, SMT
        <4>3. CASE DrawdownRegime(q) = "expensive"
          <5>1. ~Pulled(q) /\ Expensive(q)  BY <2>4, <3>4, <4>3
          <5>2. DrawdownRegime(r) \in {"very_expensive_overbought", "expensive"}
            BY <2>3, <2>4, <3>4, <5>1
          <5> QED BY <2>5, <2>6, <4>3, <5>2, SMT
        <4>4. CASE DrawdownRegime(q) = "very_expensive_overbought"
          <5>1. ~Pulled(q) /\ Overheated(q)  BY <2>4, <3>4, <4>4
          <5>2. DrawdownRegime(r) = "very_expensive_overbought"
            BY <2>3, <2>4, <3>4, <5>1
          <5> QED BY <2>5, <4>4, <5>2, SMT
        <4>5. DrawdownRegime(q) \in {"normal", "expensive", "very_expensive_overbought"}
          BY <2>4, <3>4
        <4> QED BY <4>2, <4>3, <4>4, <4>5
      <3> QED BY <3>1, <3>2, <3>3, <3>4
    <2> QED BY <2>1, <2>7
  <1> QED BY <1>5, <1>6, <1>7

LEMMA DearerRequest ==
    ASSUME CheaperBuysMore, AccountOK, NEW r \in Readings, NEW q \in Readings, Dearer(r, q)
    PROVE  /\ Requested(r) \in Nat /\ Requested(q) \in Nat
           /\ Requested(r) <= Requested(q)
  <1> DEFINE M(s) == Multiplier[Regime(s)]
             Asked(s) == Of(M(s), config.base)
  <1>1. config.base \in Nat /\ config.maximum \in Nat \cup {None}
    BY DEF AccountOK, ConfigType
  <1>2. \A s : Regime(s) \in Regimes
    BY DEF Regime, CycleRegime, DrawdownRegime, Regimes
  <1>3. M(r) \in Nat /\ M(q) \in Nat  BY <1>2, DcaAssumption
  <1>4. M(r) <= M(q)  BY DearerRegime
  <1>5. config.base <= config.base  BY <1>1, SMT
  <1> HIDE DEF M
  <1>6. Asked(r) \in Nat /\ Asked(q) \in Nat  BY <1>1, <1>3, OfNat
  <1>7. Asked(r) <= Asked(q)  BY <1>1, <1>3, <1>4, <1>5, OfMonotone
  <1>8. \A s : Requested(s) = IF config.maximum = None THEN Asked(s)
                              ELSE Least(Asked(s), config.maximum)
    BY DEF Requested, M
  <1> HIDE DEF Asked
  <1>9. CASE config.maximum = None  BY <1>6, <1>7, <1>8, <1>9
  <1>10. CASE config.maximum # None
    <2>1. config.maximum \in Nat  BY <1>1, <1>10
    <2> QED BY <1>6, <1>7, <1>8, <1>10, <2>1, SMT DEF Least
  <1> QED BY <1>9, <1>10

(* What the plan may buy falls with what it asks for: a dearer reading     *)
(* whose buy is worth placing leaves the cheaper one's worth placing too.  *)
LEMMA DearerPlan ==
    ASSUME CheaperBuysMore, AccountOK, NEW r \in Readings, NEW q \in Readings, NEW x, Dearer(r, q)
    PROVE  StrictPlanned(r, x) <= StrictPlanned(q, x)
  <1>1. /\ Requested(r) \in Nat /\ Requested(q) \in Nat
        /\ Requested(r) <= Requested(q)
    BY DearerRequest
  <1>2. Investable \in Nat /\ Affordable(r) \in Nat /\ Affordable(q) \in Nat
    BY AffordableFacts
  <1>3. Affordable(r) <= Affordable(q)
    BY <1>1, <1>2, SMT DEF Affordable, Least
  <1>4. config.minimum \in Nat  BY DEF AccountOK, ConfigType
  <1>5. ASSUME Actionable(r) PROVE Actionable(q)
    BY <1>1, <1>2, <1>3, <1>4, <1>5, SMT DEF Actionable
  <1>6. /\ StrictPlanned(r, x) = IF Actionable(r) THEN Affordable(r) ELSE 0
        /\ StrictPlanned(q, x) = IF Actionable(q) THEN Affordable(q) ELSE 0
    BY StrictPlan
  <1> QED BY <1>2, <1>3, <1>5, <1>6, SMT

LEMMA DearerTarget ==
    ASSUME CheaperBuysMore, AccountOK, NEW r \in Readings, NEW q \in Readings,
           NEW x \in Signals, Dearer(r, q)
    PROVE  Target(r, x) <= Target(q, x)
  <1>1. btc \in Nat  BY DEF AccountOK
  <1>2. /\ StrictPlanned(r, x) \in Nat /\ StrictTarget(r, x) \in Nat
        /\ StrictPlanned(q, x) \in Nat /\ StrictTarget(q, x) \in Nat
    BY PlanFacts
  <1>3. StrictPlanned(r, x) <= StrictPlanned(q, x)  BY DearerPlan
  <1>4. StrictTarget(r, x) <= StrictTarget(q, x)
    <2>1. /\ btc + StrictPlanned(r, x) \in Nat /\ btc + StrictPlanned(q, x) \in Nat
          /\ btc + StrictPlanned(r, x) <= btc + StrictPlanned(q, x)
      BY <1>1, <1>2, <1>3, SMT
    <2>2. CASE Applied(x)
      <3>1. Exposure(x) \in Nat /\ Exposure(x) <= Exposure(x)
        BY ExposureFacts, SMT DEF Percent
      <3>2. Of(Exposure(x), btc + StrictPlanned(r, x)) <= Of(Exposure(x), btc + StrictPlanned(q, x))
        BY <2>1, <3>1, OfMonotone
      <3> QED BY <2>2, <3>2, StrictPlan
    <2>3. CASE ~Applied(x)
      BY <2>1, <2>3, StrictPlan
    <2> QED BY <2>2, <2>3
  <1>5. Ceiling \in Nat  BY CeilingFacts
  <1> DEFINE Capped(s) == Least(StrictTarget(s, x), Most(btc, Ceiling))
  <1>6. Capped(r) \in Nat /\ Capped(q) \in Nat /\ Capped(r) <= Capped(q)
    BY <1>1, <1>2, <1>4, <1>5, SMT DEF Least, Most
  <1>7. \A s \in {r, q} : Target(s, x) = IF Applied(x) /\ x.route \in RiskRoutes
                                         THEN Least(Capped(s), btc) ELSE Capped(s)
    BY StrictPlan
  <1> HIDE DEF Capped
  <1>8. Least(Capped(r), btc) <= Least(Capped(q), btc)
    BY <1>1, <1>6, SMT DEF Least
  <1> QED BY <1>6, <1>7, <1>8

(* Whatever the thresholds, caps, minimum and exit signal, on one account  *)
(* and one day a dearer reading never has the higher target, as long as    *)
(* the multipliers fall with the regime as those of the defaults do.       *)
THEOREM DearerNeverBuysMore ==
    ASSUME CheaperBuysMore PROVE Spec => []DearerBuysLess
<1>1. AccountInv => DearerBuysLess
  BY DearerTarget DEF AccountInv, DearerBuysLess
<1> QED BY <1>1, AccountInvariant, PTL

=============================================================================
