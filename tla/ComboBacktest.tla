--------------------------- MODULE ComboBacktest ---------------------------
(***************************************************************************)
(* The combo backtest with daily contributions (_combo_simulation) and the *)
(* runner that reports a window of it (CryptoEquityComboBacktestRunner).   *)
(*                                                                         *)
(* The runner cuts the history to the window and a lookback before it,     *)
(* simulates what is left, and then reports returns and accounting of the  *)
(* window only, starting from the equity of the day before the window.     *)
(*                                                                         *)
(* Coins and money are counted in parts, Grain parts each, fine enough for *)
(* what a contribution is divided into and buys to be whole.  A return is  *)
(* a pair: the wealth without the day's contribution, and the wealth it    *)
(* came from.                                                              *)
(***************************************************************************)
EXTENDS Amounts, Sequences

CONSTANTS
    Alts,
    Histories,   \* histories: sequences of days in order
    Configs,     \* dca, weights, dynamic, cut, minHistory
    Requests,    \* [start, end] of a window; 0: not given
    ExtraDays,   \* bound: lookback beyond min_history_days, 5 in the code
    Grain

DayType ==
    [date : Nat \ {0}, btc : Nat \ {0}, below : BOOLEAN, alt : [Alts -> Nat \ {0}],
     up : SUBSET Alts]

ConfigType ==
    [dca : Nat \ {0}, btcWeight : 0..100, trendWeight : 0..100, dynamic : BOOLEAN,
     cut : 0..100, minHistory : Nat]

(* The matrix of closes is sorted by date, one row for each.               *)
ASSUME ComboBacktestAssumption ==
    /\ IsFiniteSet(Alts)
    /\ Histories \subseteq Seq(DayType)
    /\ \A h \in Histories : \A i, j \in DOMAIN h : i < j => h[i].date < h[j].date
    /\ Configs \subseteq {c \in ConfigType : c.btcWeight + c.trendWeight <= 100}
    /\ Requests \subseteq [start : Nat, end : Nat]
    /\ ExtraDays \in Nat /\ Grain \in Nat \ {0}

(* The code's shares are fractions; here every purchase is in whole parts. *)
ASSUME GrainAssumption ==
    \A c \in Configs, h \in Histories : \A i \in DOMAIN h :
        /\ (c.dca * Grain) % (Full * h[i].btc) = 0
        /\ \A a \in h[i].up :
              (c.dca * Grain) % (Full * (Cardinality(h[i].up) * h[i].alt[a])) = 0

VARIABLES
    sliced,           \* the history that is simulated; the first three never change
    config,
    request,
    day,              \* the day in turn
    stage,            \* "simulate", "report", "done" or "failed"
    btcUnits,
    altUnits,
    cashHeld,
    portfolioValues,
    report            \* what the runner keeps of the run

runArgs == <<sliced, config, request>>

runVars == <<runArgs, day, stage, btcUnits, altUnits, cashHeld, portfolioValues, report>>

(* _slice_history: the days from the lookback before the window to its end,*)
(* which follow each other.                                                *)
Slice(history, w, lookback) ==
    LET kept == {i \in DOMAIN history :
                    /\ w.start # 0 => history[i].date >= w.start - lookback
                    /\ w.end # 0 => history[i].date <= w.end}
    IN  IF kept = {} THEN <<>> ELSE SubSeq(history, Min(kept), Max(kept))

-----------------------------------------------------------------------------
(* One day of _combo_simulation *)

today == sliced[day]

Cuts == config.dynamic /\ today.below

Contribution == config.dca * Grain

(* A part of the contribution, in basis points. *)
Part(weight) == (Contribution * weight) \div Full

TrendAlloc == Part(config.trendWeight * (IF Cuts THEN 100 - config.cut ELSE 100))

(* mutant of ExtraBtcAlloc: a part of the weight that is left, not of the whole *)
ExtraBtcAllocOfRest ==
    IF Cuts THEN Part((config.trendWeight * (100 - config.cut) * config.cut) \div 100) ELSE 0

ExtraBtcAlloc == IF Cuts THEN Part(config.trendWeight * config.cut) ELSE 0

BtcAlloc == Part(100 * config.btcWeight)

Unallocated == Part(100 * (100 - config.btcWeight - config.trendWeight))

Buys(amount, price) == amount \div price

PerAlt == TrendAlloc \div Cardinality(today.up)

(* What units and cash are worth at the prices of a day. *)
ValueAt(d, btc, alts, money) ==
    btc * d.btc + SumOf([a \in Alts |-> alts[a] * d.alt[a]]) + money

Simulate ==
    /\ stage = "simulate"
    /\ btcUnits' = btcUnits + Buys(BtcAlloc + ExtraBtcAlloc, today.btc)
    /\ IF today.up # {} /\ TrendAlloc > 0
         THEN /\ altUnits' = [a \in Alts |-> altUnits[a] +
                    IF a \in today.up THEN Buys(PerAlt, today.alt[a]) ELSE 0]
              /\ cashHeld' = cashHeld + Unallocated
         ELSE /\ cashHeld' = cashHeld + Unallocated + TrendAlloc
              /\ UNCHANGED altUnits
    /\ portfolioValues' = Append(portfolioValues, ValueAt(today, btcUnits', altUnits', cashHeld'))
    /\ IF day < Len(sliced) THEN day' = day + 1 /\ UNCHANGED stage
                            ELSE stage' = "report" /\ UNCHANGED day
    /\ UNCHANGED <<runArgs, report>>

-----------------------------------------------------------------------------
(* _cashflow_adjusted_returns with flows at the end of each day, _cashflow_*)
(* accounting_metrics, and the runner's choice of what to pass to them     *)

(* Raises when a wealth, with or without its flow, is not positive.  A     *)
(* first period without wealth before it returns nothing.                  *)
Prior(values, initial, i) == IF i = 1 THEN initial ELSE values[i - 1]

ReturnsRaise(values, initial) ==
    \E i \in DOMAIN values :
        IF Prior(values, initial, i) = 0 THEN values[i] <= 0
        ELSE values[i] - Contribution <= 0 \/ values[i] <= 0

AdjustedReturns(values, initial) ==
    [i \in DOMAIN values |->
        IF Prior(values, initial, i) = 0 THEN <<1, 1>>
        ELSE <<values[i] - Contribution, Prior(values, initial, i)>>]

InWindow(d) ==
    /\ request.start # 0 => d.date >= request.start
    /\ request.end # 0 => d.date <= request.end

WindowDays == {i \in DOMAIN sliced : InWindow(sliced[i])}

WindowEquity == [i \in 1..Cardinality(WindowDays) |-> portfolioValues[Min(WindowDays) + i - 1]]

(* mutant of InitialEquity: every window starts from nothing *)
InitialEquityZero == 0

InitialEquity == IF Min(WindowDays) > 1 THEN portfolioValues[Min(WindowDays) - 1] ELSE 0

NoReport ==
    [returns |-> <<>>, initial |-> 0, ending |-> 0, contributions |-> 0, profit |-> 0]

WindowReport ==
    IF WindowDays = {} THEN NoReport
    ELSE LET contributions == Contribution * Len(WindowEquity)
             ending == WindowEquity[Len(WindowEquity)]
         IN  [returns |-> AdjustedReturns(WindowEquity, InitialEquity),
              initial |-> InitialEquity,
              ending |-> ending,
              contributions |-> contributions,
              profit |-> ending - (InitialEquity + contributions)]

(* run_combo_backtest computes the returns of the whole simulation first.  *)
Report ==
    /\ stage = "report"
    /\ IF \/ ReturnsRaise(portfolioValues, 0)
          \/ WindowDays # {} /\ ReturnsRaise(WindowEquity, InitialEquity)
         THEN stage' = "failed" /\ UNCHANGED report
         ELSE stage' = "done" /\ report' = WindowReport
    /\ UNCHANGED <<runArgs, day, btcUnits, altUnits, cashHeld, portfolioValues>>

-----------------------------------------------------------------------------
(* An empty slice is refused, and one that is too short too. *)
RunInit ==
    /\ config \in Configs
    /\ request \in Requests
    /\ \E h \in Histories : sliced = Slice(h, request, config.minHistory + ExtraDays)
    /\ day = 1
    /\ stage = IF sliced = <<>> \/ Len(sliced) < config.minHistory THEN "failed" ELSE "simulate"
    /\ btcUnits = 0
    /\ altUnits = [a \in Alts |-> 0]
    /\ cashHeld = 0
    /\ portfolioValues = <<>>
    /\ report = NoReport

RunNext == Simulate \/ Report

RunSpec == RunInit /\ [][RunNext]_runVars

-----------------------------------------------------------------------------
(* Properties *)

(* A contribution is worth its amount on the day it is made, no more and   *)
(* no less, however it is split in whatever regime: the equity of a day is *)
(* what was held before, at the day's prices, plus the contribution.       *)
ContributionsKeepValue ==
    [][portfolioValues' # portfolioValues =>
        portfolioValues'[day] = ValueAt(today, btcUnits, altUnits, cashHeld) + Contribution]_runVars

(* A reported window is a part of the one simulation: its returns are that *)
(* part of the simulation's returns, its first return too, the simulation  *)
(* never fails on its own figures, and its profit is what the days of the  *)
(* window gained without their contributions.                              *)
WindowIsSlice ==
    /\ stage = "failed" => portfolioValues = <<>>
    /\ stage = "done" /\ WindowDays # {} =>
        /\ \A i \in DOMAIN report.returns :
             report.returns[i] = AdjustedReturns(portfolioValues, 0)[Min(WindowDays) + i - 1]
        /\ report.profit =
             SumOf([i \in WindowDays |-> portfolioValues[i] - Contribution - Prior(portfolioValues, 0, i)])

=============================================================================
