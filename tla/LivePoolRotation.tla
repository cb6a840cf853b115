-------------------------- MODULE LivePoolRotation --------------------------
(***************************************************************************)
(* The crypto_live_pool_rotation profile over many evaluation cycles.      *)
(*                                                                         *)
(* evaluate_crypto_live_pool_rotation is called once per cycle with a copy *)
(* of the platform's state and returns a decision; it is one action here,  *)
(* because nothing else touches its inputs while it runs.  Everything that *)
(* happens around it is not atomic: the platform (external) records the    *)
(* pool, fills buys, closes positions and saves the trade state of each    *)
(* symbol in separate steps, and may stop between any two of them.         *)
(*                                                                         *)
(* Prices, ATR and moving averages are small naturals; 0 stands for a      *)
(* value that is missing or not finite.                                    *)
(***************************************************************************)
EXTENDS RotationPool

CONSTANTS
    BTC,             \* the core symbol, always targeted by an open decision
    Views,           \* what one cycle may show of one symbol, see ViewType
    TopN,            \* config["rotation_top_n"]
    AtrMultipliers,  \* values of config["atr_multiplier"]; 0: not usable
    EntryPrices,     \* prices at which buys fill
    StoreThrough     \* TRUE: set_symbol_trade_state_fn writes the platform's
                     \* state; FALSE: it writes the working copy, as the
                     \* default helper does, and the update is lost

(* quoted: the symbol is a key of market_prices.  ceiling is the highest   *)
(* of sma20, sma60 and sma200, 0 when a field that selection requires is   *)
(* missing.  score is 0 unless the relative score, the absolute momentum   *)
(* and the volatility are all positive; otherwise it orders the candidates *)
(* as their relative scores do.                                            *)
ViewType ==
    [quoted : BOOLEAN, price : Nat, atr : Nat, sma60 : Nat, ceiling : Nat,
     score : Nat]

ASSUME RotationAssumption ==
    /\ BTC \notin Symbols
    /\ Views \subseteq ViewType
    /\ \A v \in Views : /\ v.price > 0 => v.quoted
                        /\ v.ceiling > 0 => v.sma60 > 0 /\ v.sma60 <= v.ceiling
    /\ TopN \in Nat
    /\ AtrMultipliers \subseteq Nat
    /\ EntryPrices \subseteq Nat \ {0}
    /\ StoreThrough \in BOOLEAN

VARIABLES
    trade,      \* the platform's trade state of each symbol
    lots,       \* buys of each symbol the exchange holds, not yet sold
    phase,      \* "idle", or "decided" while the platform acts on a decision
    decision,   \* the last decision
    ordered     \* symbols already bought for that decision

(* History variables, read by properties only. *)
VARIABLES
    tripLevel,  \* highest price + ATR gap at which the stop of the symbol
                \* fired since its trade state was last saved; 0: never
    untripped   \* TRUE once a stop that had fired did not fire at a level as low

cycleVars == <<trade, lots, phase, decision, ordered, tripLevel, untripped>>
vars == <<poolVars, cycleVars>>

TradeType == [holding : BOOLEAN, entry : Nat, high : Nat]

(* _default_symbol_state *)
NoTrade == [holding |-> FALSE, entry |-> 0, high |-> 0]

-----------------------------------------------------------------------------
(* Inputs of one evaluation *)

Inputs ==
    [view : [Symbols -> Views],   \* market_prices and derived_indicators
     regimeOn : BOOLEAN,          \* regime on and the BTC momentum fields known
     allowRefresh : RefreshModes,
     allowEntries : BOOLEAN,      \* new entries allowed and a positive budget
     atrMult : AtrMultipliers,
     approved : BOOLEAN]          \* the MEMBER risk gate keeps the decision

-----------------------------------------------------------------------------
(* select_rotation_weights: which symbols receive a weight *)

Candidates(in) ==
    {s \in DOMAIN Resolved(in.allowRefresh) :
        /\ in.view[s].score > 0
        /\ in.view[s].ceiling > 0
        /\ in.view[s].price > in.view[s].ceiling}

(* The sort is stable: a tie keeps the order of the pool. *)
Ahead(in, s, t) ==
    \/ in.view[s].score > in.view[t].score
    \/ /\ in.view[s].score = in.view[t].score
       /\ Resolved(in.allowRefresh)[s] < Resolved(in.allowRefresh)[t]

Selected(in) ==
    {s \in Candidates(in) :
        /\ in.regimeOn
        /\ \/ Cardinality({t \in Candidates(in) : Ahead(in, t, s)}) < TopN
           \/ \A t \in Candidates(in) : ~Ahead(in, t, s)}

-----------------------------------------------------------------------------
(* _resolve_held_risk_symbols *)

(* mutant of Held: a position the trade state does not know of is not held *)
HeldByState == {s \in Symbols : trade[s].holding}

(* Held in the trade state or on the exchange: one is enough. *)
Held == {s \in Symbols : trade[s].holding \/ lots[s] > 0}

(* evaluate_held_trend_stops and get_trend_sell_reason *)

(* mutant of StopInputsKnown: the trade state need not be a holding one *)
StopInputsKnownLoose(in, s) ==
    /\ in.atrMult > 0
    /\ in.view[s].price > 0
    /\ in.view[s].atr > 0
    /\ in.view[s].sma60 > 0

StopInputsKnown(in, s) ==
    /\ trade[s].holding
    /\ in.atrMult > 0
    /\ in.view[s].price > 0
    /\ in.view[s].atr > 0
    /\ in.view[s].sma60 > 0
    /\ trade[s].entry > 0
    /\ trade[s].high >= trade[s].entry

HighOf(in, s) ==
    IF in.view[s].price > trade[s].high THEN in.view[s].price ELSE trade[s].high

Gap(in, s) == in.atrMult * in.view[s].atr

SellReason(in, s) ==
    IF ~StopInputsKnown(in, s) THEN "missing_stop_input"
    ELSE IF s \notin Selected(in) THEN "rotated_out"
    ELSE IF in.view[s].price < in.view[s].sma60 THEN "below_sma60"
    ELSE IF in.view[s].price + Gap(in, s) < HighOf(in, s) THEN "atr_stop"
    ELSE "none"

StopInputBlocked(in) == \E s \in Held : ~StopInputsKnown(in, s)

Sells(in) == {s \in Held : SellReason(in, s) # "none"}

(* mutant of TradeAfter: the mark follows the price down *)
TradeAfterLast(in) ==
    [s \in Symbols |->
        IF StoreThrough /\ s \in Held /\ StopInputsKnown(in, s)
          THEN [trade[s] EXCEPT !.high = in.view[s].price]
          ELSE trade[s]]

(* What set_symbol_trade_state_fn leaves in the platform's state. *)
TradeAfter(in) ==
    [s \in Symbols |->
        IF StoreThrough /\ s \in Held /\ StopInputsKnown(in, s)
          THEN [trade[s] EXCEPT !.high = HighOf(in, s)]
          ELSE trade[s]]

-----------------------------------------------------------------------------
(* plan_trend_buys *)

(* prices[symbol] of a symbol of the universe that is not quoted *)
PlanRaises(in) ==
    /\ ~StopInputBlocked(in)
    /\ \E s \in DOMAIN Upstream : ~trade[s].holding /\ ~in.view[s].quoted

PlannedBuys(in) ==
    {s \in DOMAIN Upstream \cap Selected(in) :
        in.allowEntries /\ ~StopInputBlocked(in) /\ ~trade[s].holding}

-----------------------------------------------------------------------------
(* evaluate_crypto_live_pool_rotation *)

NoDecision ==
    [pool |-> EmptyList, version |-> 0, sells |-> {}, blocked |-> FALSE,
     positions |-> {}, funded |-> FALSE, buys |-> {}]

(* mutant of Open: an incomplete stop input alone closes the decision *)
OpenDespiteSells(in) == ~StopInputBlocked(in) /\ in.approved

(* The decision keeps its positions and its budgets. *)
Open(in) == ~StopInputBlocked(in) /\ Sells(in) = {} /\ in.approved

(* mutant of DecisionOn: the stamp is read from the state that came in *)
DecisionOnStale(in) ==
    [pool      |-> Resolved(in.allowRefresh),
     version   |-> lock,
     sells     |-> Sells(in),
     blocked   |-> StopInputBlocked(in),
     positions |-> IF Open(in) THEN {BTC} \cup (Selected(in) \ Sells(in)) ELSE {},
     funded    |-> Open(in),
     buys      |-> PlannedBuys(in)]

DecisionOn(in) ==
    [pool      |-> Resolved(in.allowRefresh),
     version   |-> delivered,
     sells     |-> Sells(in),
     blocked   |-> StopInputBlocked(in),
     positions |-> IF Open(in) THEN {BTC} \cup (Selected(in) \ Sells(in)) ELSE {},
     funded    |-> Open(in),
     buys      |-> PlannedBuys(in)]

Level(in, s) == in.view[s].price + Gap(in, s)

Evaluate ==
    /\ phase = "idle"
    /\ \E in \in Inputs :
        /\ ~PlanRaises(in)
        /\ decision' = DecisionOn(in)
        /\ trade' = TradeAfter(in)
        /\ tripLevel' = [s \in Symbols |->
             IF s \in Held /\ SellReason(in, s) = "atr_stop" /\ Level(in, s) > tripLevel[s]
               THEN Level(in, s) ELSE tripLevel[s]]
        /\ untripped' =
             \/ untripped
             \/ \E s \in Held : Level(in, s) <= tripLevel[s] /\ SellReason(in, s) = "none"
    /\ phase' = "decided"
    /\ ordered' = {}
    /\ UNCHANGED <<poolVars, lots>>

(* The KeyError leaves the caller without a decision; high water marks     *)
(* written through the platform's setter before it are kept.               *)
EvaluateRaises ==
    /\ phase = "idle"
    /\ \E in \in Inputs : PlanRaises(in) /\ trade' = TradeAfter(in)
    /\ UNCHANGED <<poolVars, lots, phase, decision, ordered, tripLevel, untripped>>

-----------------------------------------------------------------------------
(* The pipeline and the platform (external) *)

PublishList == Publish /\ UNCHANGED cycleVars

DeliverList == phase = "idle" /\ Deliver /\ UNCHANGED cycleVars

(* The pool and its stamp are carried from the decision's diagnostics into *)
(* the state of the next cycle.                                            *)
RecordPool ==
    /\ phase = "decided"
    /\ pool' = decision.pool
    /\ lock' = decision.version
    /\ UNCHANGED <<published, delivered, cycleVars>>

(* The weakest platform: it buys what the decision plans, once, funded or  *)
(* not.                                                                    *)
Fill(s) ==
    /\ phase = "decided"
    /\ s \in decision.buys \ ordered
    /\ lots' = [lots EXCEPT ![s] = @ + 1]
    /\ ordered' = ordered \cup {s}
    /\ UNCHANGED <<poolVars, trade, phase, decision, tripLevel, untripped>>

(* The trade state of a fill; its highest price may not have been set yet. *)
SaveFill(s) ==
    /\ phase = "decided"
    /\ s \in ordered
    /\ lots[s] > 0
    /\ \E price \in EntryPrices : \E high \in {0, price} :
         trade' = [trade EXCEPT ![s] = [holding |-> TRUE, entry |-> price, high |-> high]]
    /\ tripLevel' = [tripLevel EXCEPT ![s] = 0]
    /\ UNCHANGED <<poolVars, lots, phase, decision, ordered, untripped>>

(* A position is closed, for a sell reason or by hand. *)
Exit(s) ==
    /\ lots[s] > 0
    /\ lots' = [lots EXCEPT ![s] = 0]
    /\ UNCHANGED <<poolVars, trade, phase, decision, ordered, tripLevel, untripped>>

SaveExit(s) ==
    /\ lots[s] = 0
    /\ trade[s].holding
    /\ trade' = [trade EXCEPT ![s] = NoTrade]
    /\ tripLevel' = [tripLevel EXCEPT ![s] = 0]
    /\ UNCHANGED <<poolVars, lots, phase, decision, ordered, untripped>>

(* The cycle ends, or the platform restarts in the middle of it. *)
EndCycle ==
    /\ phase = "decided"
    /\ phase' = "idle"
    /\ decision' = NoDecision
    /\ ordered' = {}
    /\ UNCHANGED <<poolVars, trade, lots, tripLevel, untripped>>

-----------------------------------------------------------------------------
Init ==
    /\ PoolInit
    /\ trade = [s \in Symbols |-> NoTrade]
    /\ lots = [s \in Symbols |-> 0]
    /\ phase = "idle"
    /\ decision = NoDecision
    /\ ordered = {}
    /\ tripLevel = [s \in Symbols |-> 0]
    /\ untripped = FALSE

Next ==
    \/ PublishList
    \/ DeliverList
    \/ Evaluate
    \/ EvaluateRaises
    \/ RecordPool
    \/ \E s \in Symbols : Fill(s) \/ SaveFill(s) \/ Exit(s) \/ SaveExit(s)
    \/ EndCycle

Spec == Init /\ [][Next]_vars

-----------------------------------------------------------------------------
(* Properties *)

DecisionTypeOK ==
    /\ IsRanking(decision.pool)
    /\ decision.version \in 0..Len(published)
    /\ decision.sells \subseteq Symbols
    /\ decision.blocked \in BOOLEAN
    /\ decision.positions \subseteq Symbols \cup {BTC}
    /\ decision.funded \in BOOLEAN
    /\ decision.buys \subseteq Symbols

(* Type invariant of the profile and of the platform around it. *)
TypeOK ==
    /\ PoolTypeOK
    /\ trade \in [Symbols -> TradeType]
    /\ lots \in [Symbols -> Nat]
    /\ phase \in {"idle", "decided"}
    /\ DecisionTypeOK
    /\ ordered \subseteq Symbols
    /\ tripLevel \in [Symbols -> Nat]
    /\ untripped \in BOOLEAN

(* No symbol is bought on top of a position: neither a restart between a   *)
(* fill and the trade state it should have saved, nor a pool that drops    *)
(* and readmits the symbol, nor stops that fire and clear again make an    *)
(* evaluation plan a buy of a symbol the exchange still holds.             *)
NoPyramiding == \A s \in Symbols : lots[s] <= 1

(* The trade state of s says what it needs to for its stop to be evaluated. *)
Reconciled(s) ==
    /\ trade[s].holding
    /\ trade[s].entry > 0
    /\ trade[s].high >= trade[s].entry

AuthorityStep ==
    ( /\ phase = "idle" /\ phase' = "decided"
      /\ decision'.positions # {} \/ decision'.funded \/ decision'.buys # {} )
    => \A s \in Symbols : lots[s] > 0 => Reconciled(s)

(* A decision keeps positions or budgets only when every position on the   *)
(* exchange has a trade state of its own that says so, with an entry price *)
(* and a high water mark at or above it: after a restart in the middle of  *)
(* a fill nothing is targeted or funded, not even BTC, until the books     *)
(* agree again.                                                            *)
AuthorityNeedsReconciledBooks == [][AuthorityStep]_vars

(* A decision that reports an exit, or could not evaluate one, opens       *)
(* nothing: no position (BTC and the healthy candidates included), no      *)
(* budget; and when it could not evaluate one it plans no buy either.      *)
ExitsCloseTheDecision ==
    /\ decision.sells # {} => decision.positions = {} /\ ~decision.funded
    /\ decision.blocked => decision.sells # {} /\ decision.buys = {}

(* Once the ATR stop of a symbol has fired, it fires (or the symbol has    *)
(* another sell reason) at every later evaluation whose price plus ATR gap *)
(* is no higher, until the platform saves a new trade state: what is lost  *)
(* of the working copy never un-fires a stop.                              *)
StopStaysTripped == ~untripped

=============================================================================
