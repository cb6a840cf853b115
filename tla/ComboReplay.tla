---------------------------- MODULE ComboReplay ----------------------------
(***************************************************************************)
(* run_crypto_equity_combo_replay: the combo's own target weights, replayed*)
(* day by day on data a caller supplies.  A signal is computed from the    *)
(* closes of its day and from snapshots that were available by then; it is *)
(* filled at the open of the next day, with costs; what is held is marked  *)
(* at that day's close.  The rotation state is carried from day to day.    *)
(*                                                                         *)
(* Dates are numbers.  A price of 0 is missing, infinite or not positive;  *)
(* opens come in hundreds, so that the cost of a lot is whole.  Options of *)
(* the strategy are of the type it computes with; a string in the place of *)
(* a number is left out.                                                   *)
(***************************************************************************)
EXTENDS ComboStrategy, Rebalance, Sequences

CONSTANTS
    Snapshots,   \* sequences of ComboSignalSnapshot
    Tables,      \* OHLC tables
    Settings,    \* strategy options, initial cash, cost rate, initial state
    PoolSize     \* config["trend_pool_size"]

Assets == Symbols \cup {BTC}

Sources == {"indicators", "universe", "benchmark"}

SnapshotType ==
    [date : Nat, source : [Sources -> [asOf : Nat, available : Nat]], universe : Seq(Assets),
     view : [Symbols -> ViewType], close : [Symbols -> Nat], btcRow : BtcRowType,
     benchmark : BenchmarkType, dca : DcaType]

SettingsType ==
    [config : ConfigType, cash : Nat, rate : 0..99, pool : Seq(Symbols), poolAsOf : Nat]

ASSUME ReplayAssumption ==
    /\ IsFiniteSet(Symbols) /\ BTC \notin Symbols
    /\ Snapshots \subseteq Seq(SnapshotType)
    /\ \A t \in Tables : t \in [DOMAIN t -> [Assets -> [open : Nat, close : Nat]]]
    /\ \A t \in Tables : \A date \in DOMAIN t : \A s \in Assets : t[date][s].open % 100 = 0
    /\ Settings \subseteq SettingsType
    /\ PoolSize \in Nat

VARIABLES
    snapshots,  \* the argument of the same name; these three never change
    ohlc,
    setting,
    day,        \* the snapshot in turn
    phase,      \* "start", "signal", "execute", "done" or "failed"
    failure,    \* which check raised
    cash,
    shares,     \* holdings
    pool,       \* state["rotation_pool_symbols"], as a ranking
    targets,    \* target_values of the day
    equity,     \* signal_total_equity of the day
    records     \* daily_records

args == <<snapshots, ohlc, setting>>

vars == <<args, day, phase, failure, cash, shares, pool, targets, equity, records>>

snapshot == snapshots[day]

universe == {snapshot.universe[i] : i \in DOMAIN snapshot.universe}

RP == INSTANCE RotationPool WITH
        RawLists <- {}, MaxVersions <- 1, RefreshModes <- BOOLEAN,
        published <- <<snapshot.universe>>, delivered <- 1, lock <- 0

NoTargets == [s \in {} |-> 0]

Raise(what) ==
    /\ phase' = "failed"
    /\ failure' = what
    /\ UNCHANGED <<args, day, cash, shares, pool, targets, equity, records>>

-----------------------------------------------------------------------------
(* The validation of the arguments *)

(* mutant of Consecutive: the days need only be in order *)
ConsecutiveSorted ==
    \A i \in 1..Len(snapshots) - 1 : snapshots[i].date < snapshots[i + 1].date

Consecutive ==
    \A i \in DOMAIN snapshots : snapshots[i].date = snapshots[1].date + i - 1

(* _validate_snapshot *)
ValidSnapshot(s) ==
    /\ \A from \in Sources :
        /\ s.source[from].asOf <= s.source[from].available
        /\ s.source[from].available <= s.date
    /\ s.universe # <<>>
    /\ \A i, j \in DOMAIN s.universe : s.universe[i] = s.universe[j] => i = j
    /\ BTC \notin {s.universe[i] : i \in DOMAIN s.universe}
    /\ s.benchmark.given /\ s.benchmark.regimeOn # None

(* _validate_state *)
ValidState ==
    LET cached == {setting.pool[i] : i \in DOMAIN setting.pool}
    IN  /\ cached # {} /\ Cardinality(cached) = Len(setting.pool)
        /\ setting.poolAsOf < snapshots[1].date
        /\ cached \subseteq {snapshots[1].universe[i] : i \in DOMAIN snapshots[1].universe}

ValidArguments ==
    /\ snapshots # <<>> /\ setting.cash > 0
    /\ Consecutive
    /\ \A i \in DOMAIN snapshots :
        /\ ValidSnapshot(snapshots[i])
        /\ {snapshots[i].date, snapshots[i].date + 1} \subseteq DOMAIN ohlc
    /\ ValidState

Start ==
    /\ phase = "start"
    /\ IF ValidArguments
         THEN /\ phase' = "signal"
              /\ UNCHANGED <<args, day, failure, cash, shares, pool, targets, equity, records>>
         ELSE Raise("arguments")

-----------------------------------------------------------------------------
(* The signal of the day.  It is a function of the table, so that one can  *)
(* ask what another table would have made of it.                           *)

(* mutant of SignalClose: the close of the day of the fill *)
SignalCloseNext(table, s) == table[snapshot.date + 1][s].close

SignalClose(table, s) == table[snapshot.date][s].close

SignalSymbols == {BTC} \cup universe \cup Held(shares)

IndicatorClose(s) == IF s = BTC THEN snapshot.btcRow.close ELSE snapshot.close[s]

(* _normalise_indicator_map: of the BTC row it asks less than the strategy,*)
(* which needs a positive average too.                                     *)
IndicatorsValid(table) ==
    LET asOf == snapshot.source["indicators"].asOf
    IN  /\ asOf \in DOMAIN table
        /\ snapshot.btcRow.known
        /\ \A s \in universe : snapshot.view[s].ceiling # None
        /\ \A s \in universe \cup {BTC} :
            IndicatorClose(s) > 0 /\ IndicatorClose(s) = table[asOf][s].close

SignalEquity(table) ==
    cash + SumOf([s \in Held(shares) |-> shares[s] * SignalClose(table, s)])

StrategyInput(table) ==
    [btcPrice |-> SignalClose(table, BTC),
     view |-> [s \in Symbols |->
        [snapshot.view[s] EXCEPT !.price =
            IF s \in SignalSymbols THEN SignalClose(table, s) ELSE None]],
     btcRow |-> snapshot.btcRow, benchmark |-> snapshot.benchmark, dca |-> snapshot.dca]

PoolFrom(table) ==
    IF ResolvesPool(setting.config, StrategyInput(table))
      THEN RP!Resolved(setting.config.refresh) ELSE RP!EmptyList

TargetsFrom(table) ==
    TargetWeights(setting.config, StrategyInput(table), PoolFrom(table), SignalEquity(table))

(* What is made of the targets of the strategy. *)
TargetFailure(weights) ==
    IF ~(DOMAIN weights \subseteq universe \cup {BTC}) THEN "unknown symbol"
    ELSE IF \E s \in DOMAIN weights : weights[s] < 0 THEN "negative weight"
    ELSE IF SumOf(weights) > Full THEN "gross exposure"
    ELSE IF ~snapshot.dca.known THEN "dca"
    ELSE "none"

(* A price that is missing, then the indicators, then the equity, then the *)
(* strategy's metadata, then its targets.                                  *)
SignalFailure ==
    IF \E s \in SignalSymbols : SignalClose(ohlc, s) = 0 THEN "data"
    ELSE IF ~IndicatorsValid(ohlc) THEN "data"
    ELSE IF SignalEquity(ohlc) <= 0 THEN "signal equity"
    ELSE IF TrendFails(setting.config, StrategyInput(ohlc), PoolFrom(ohlc)) THEN "trend leg"
    ELSE TargetFailure(TargetsFrom(ohlc))

Signal ==
    /\ phase = "signal"
    /\ IF SignalFailure # "none"
         THEN Raise(SignalFailure)
         ELSE /\ phase' = "execute"
              /\ targets' = TargetsFrom(ohlc)
              /\ equity' = SignalEquity(ohlc)
              /\ pool' = IF ResolvesPool(setting.config, StrategyInput(ohlc))
                           THEN PoolFrom(ohlc) ELSE pool
              /\ UNCHANGED <<args, day, failure, cash, shares, records>>

-----------------------------------------------------------------------------
(* The fill at the next open and the mark at its close *)

effective == snapshot.date + 1

(* Quoted also for a target of zero, not only for what will be traded. *)
Executed == Held(shares) \cup DOMAIN targets

(* mutant of ExecutionOpen: the fill takes place at the prices of the signal *)
ExecutionOpenStale ==
    [s \in Assets |-> IF s \in Executed THEN ohlc[snapshot.date][s].close ELSE 0]

ExecutionOpen ==
    [s \in Assets |-> IF s \in Executed THEN ohlc[effective][s].open ELSE 0]

TargetSeries == [s \in Assets |-> IF s \in DOMAIN targets THEN targets[s] ELSE 0]

Filled == Rebalanced(shares, cash, ExecutionOpen, TargetSeries, setting.rate)

PretradeEquity == cash + Worth(shares, ExecutionOpen)

TradeCosts(after) ==
    SumOf([s \in Assets |->
        CostOf(ExecutionOpen[s] * Most(after[s] - shares[s], shares[s] - after[s]),
               setting.rate)])

ExecutionClose == [s \in Assets |-> ohlc[effective][s].close]

EndingEquity(filled) == filled.cash + Worth(filled.shares, ExecutionClose)

ExecuteFailure(filled) ==
    IF filled.cash + Worth(filled.shares, ExecutionOpen) + filled.costs # PretradeEquity
      THEN "reconcile"
    ELSE IF filled.cash < 0 THEN "overdraft"
    ELSE IF TradeCosts(filled.shares) # filled.costs THEN "trade costs"
    ELSE IF \E s \in Held(filled.shares) : ExecutionClose[s] = 0 THEN "data"
    ELSE IF EndingEquity(filled) <= 0 THEN "ending equity"
    ELSE "none"

DailyRecord(filled) ==
    [date |-> snapshot.date, signalEquity |-> equity, targets |-> targets,
     pretrade |-> PretradeEquity, costs |-> filled.costs, ending |-> EndingEquity(filled)]

Fill(filled) ==
    IF ExecuteFailure(filled) # "none"
      THEN Raise(ExecuteFailure(filled))
      ELSE /\ shares' = filled.shares
           /\ cash' = filled.cash
           /\ records' = Append(records, DailyRecord(filled))
           /\ targets' = NoTargets
           /\ IF day < Len(snapshots)
                THEN phase' = "signal" /\ day' = day + 1
                ELSE phase' = "done" /\ UNCHANGED day
           /\ UNCHANGED <<args, failure, pool, equity>>

Execute ==
    /\ phase = "execute"
    /\ IF \E s \in Executed : ExecutionOpen[s] = 0 THEN Raise("data") ELSE Fill(Filled)

-----------------------------------------------------------------------------
Init ==
    /\ snapshots \in Snapshots
    /\ ohlc \in Tables
    /\ setting \in Settings
    /\ day = 1
    /\ phase = "start"
    /\ failure = "none"
    /\ cash = setting.cash
    /\ shares = [s \in Assets |-> 0]
    /\ pool = RP!Normalized(setting.pool)
    /\ targets = NoTargets
    /\ equity = 0
    /\ records = <<>>

Next == Start \/ Signal \/ Execute

Spec == Init /\ [][Next]_vars

-----------------------------------------------------------------------------
(* Properties *)

(* Only what the caller supplies ends a replay.  The trend leg fails on a  *)
(* BTC average or a setting that nothing checked before, and a target is   *)
(* negative for a negative weight; for no arguments does the replay refuse *)
(* its own work: the strategy targets the universe only and no more than   *)
(* the whole equity, the ledger reconciles and is never overdrawn, the     *)
(* costs of the trades are those of the rebalance, wealth stays positive.  *)
RefusesArgumentsOnly ==
    LET config == setting.config
    IN  /\ failure \in {"none", "arguments", "data", "dca", "trend leg", "negative weight"}
        /\ failure = "trend leg" =>
             \/ snapshot.btcRow.sma200 = 0
             \/ config.trendWeight < 0 \/ config.targetVol <= 0 \/ config.maxLeverage < 0
        /\ failure = "negative weight" => config.btcWeight < 0 \/ config.trendWeight < 0

(* A target is a function of the past: whatever the prices after the day   *)
(* of the signal had been, the same targets would have come out of it.     *)
NoLookAhead ==
    [][phase = "signal" /\ phase' = "execute" =>
        \A table \in Tables :
            (/\ DOMAIN table = DOMAIN ohlc
             /\ \A date \in DOMAIN ohlc : date <= snapshot.date => table[date] = ohlc[date])
            => targets' = TargetsFrom(table)]_vars

(* No wealth appears or disappears between two days: the equity a signal   *)
(* is sized on is the one the day before was closed with.                  *)
DaysChain ==
    /\ \A i \in 1..Len(records) - 1 : records[i + 1].signalEquity = records[i].ending
    /\ phase = "execute" /\ records # <<>> => equity = records[Len(records)].ending

(* After a fill everything held was targeted by the signal before it, a    *)
(* symbol that left the universe too is gone, and no position is worth     *)
(* more than its weight of the equity before the trade.                    *)
HoldsOnlyTargets ==
    phase \in {"signal", "done"} /\ records # <<>> =>
        LET last == records[Len(records)]
        IN  \A s \in Held(shares) :
                /\ s \in DOMAIN last.targets
                /\ shares[s] * ohlc[last.date + 1][s].open <= (last.targets[s] * last.pretrade) \div Full

(* The replay implements the ledger: every fill, at the open of the day    *)
(* after the signal, takes its costs and nothing else from the wealth, and *)
(* nothing is ever borrowed.                                               *)
L == INSTANCE Ledger WITH
        StartingCash <- {s.cash : s \in Settings},
        rate <- setting.rate,
        quotes <- IF phase = "execute" THEN [s \in Assets |-> ohlc[effective][s].open]
                                       ELSE [s \in Assets |-> 0]

LedgerSpec == L!Spec

=============================================================================
