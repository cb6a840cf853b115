------------------------- MODULE ComboReplay_proofs -------------------------
(***************************************************************************)
(* Proofs about ComboReplay, for any snapshots, tables and settings: the   *)
(* targets of a day are a function of the past, days chain, only arguments *)
(* are refused, what is held was targeted, and the replay implements the   *)
(* abstract ledger.                                                        *)
(***************************************************************************)
EXTENDS ComboReplay, ComboStrategy_proofs

-----------------------------------------------------------------------------
(* The arguments *)

ArgsInv ==
    /\ snapshots \in Snapshots /\ ohlc \in Tables /\ setting \in Settings
    /\ day \in Nat \ {0}
    /\ phase = "start" => day = 1
    /\ phase \in {"signal", "execute", "done"} => ValidArguments /\ day \in DOMAIN snapshots

LEMMA ArgsInit == Init => ArgsInv
BY DEF Init, ArgsInv

StateOf(given, cached, first) ==
    LET symbols == {cached[i] : i \in DOMAIN cached}
    IN  /\ symbols # {} /\ Cardinality(symbols) = Len(cached)
        /\ given.poolAsOf < first.date
        /\ symbols \subseteq {first.universe[i] : i \in DOMAIN first.universe}

LEMMA ValidArgumentsStay == ValidArguments /\ UNCHANGED args => ValidArguments'
<1> SUFFICES ASSUME ValidArguments, UNCHANGED args PROVE ValidArguments'
  OBVIOUS
<1>1. snapshots' = snapshots /\ ohlc' = ohlc /\ setting' = setting
  BY DEF args
<1>2. ValidState' = ValidState
  <2>1. ValidState = StateOf(setting, setting.pool, snapshots[1])
    BY DEF ValidState, StateOf
  <2>2. ValidState' = StateOf(setting', setting'.pool, snapshots'[1])
    BY DEF ValidState, StateOf
  <2> QED BY <1>1, <2>1, <2>2, Zenon
<1>3. Consecutive' = Consecutive
  BY <1>1 DEF Consecutive
<1>4. ASSUME NEW i \in DOMAIN snapshots PROVE ValidSnapshot(snapshots[i])
  BY DEF ValidArguments
<1>5. \A i \in DOMAIN snapshots' : ValidSnapshot(snapshots'[i])
  BY <1>1, <1>4, Zenon
<1>6. /\ snapshots' # <<>> /\ setting'.cash > 0
      /\ \A i \in DOMAIN snapshots' : {snapshots'[i].date, snapshots'[i].date + 1} \subseteq DOMAIN ohlc'
  BY <1>1, Zenon DEF ValidArguments
<1> QED BY <1>2, <1>3, <1>5, <1>6, Zenon DEF ValidArguments

LEMMA ArgsStep == ArgsInv /\ [Next]_vars => ArgsInv'
<1> SUFFICES ASSUME ArgsInv, [Next]_vars PROVE ArgsInv'
  OBVIOUS
<1>1. UNCHANGED args
  BY DEF Next, Start, Signal, Execute, Fill, Raise, vars
<1>2. ValidArguments => ValidArguments'
  BY <1>1, ValidArgumentsStay
<1>3. snapshots \in Seq(SnapshotType)
  BY ReplayAssumption DEF ArgsInv
<1>4. CASE Start
  <2>1. ValidArguments => day \in DOMAIN snapshots
    BY <1>3, <1>4 DEF Start, ArgsInv, ValidArguments
  <2> QED BY <1>1, <1>2, <1>4, <2>1 DEF Start, Raise, args, ArgsInv
<1>5. CASE Signal
  BY <1>1, <1>2, <1>5 DEF Signal, Raise, args, ArgsInv
<1>6. CASE Execute
  <2>1. CASE UNCHANGED day
    BY <1>1, <1>2, <1>6, <2>1 DEF Execute, Fill, Raise, args, ArgsInv
  <2>2. CASE day < Len(snapshots) /\ day' = day + 1
    <3>1. day' \in DOMAIN snapshots /\ day' \in Nat \ {0} /\ phase' # "start"
      BY <1>3, <1>6, <2>2 DEF Execute, Fill, Raise, ArgsInv
    <3> QED BY <1>1, <1>2, <1>6, <3>1 DEF Execute, args, ArgsInv
  <2> QED BY <1>6, <2>1, <2>2 DEF Execute, Fill, Raise
<1>7. CASE UNCHANGED vars
  BY <1>1, <1>2, <1>7 DEF vars, args, ArgsInv
<1> QED BY <1>4, <1>5, <1>6, <1>7 DEF Next

LEMMA Args == Spec => []ArgsInv
BY ArgsInit, ArgsStep, PTL DEF Spec

RowType == [Assets -> [open : Nat, close : Nat]]

(* What the validation of the arguments leaves for a day of the replay.    *)
LEMMA OnADay ==
    ASSUME ArgsInv, phase \in {"signal", "execute", "done"}
    PROVE  /\ snapshot \in SnapshotType /\ ValidSnapshot(snapshot)
           /\ universe \subseteq Symbols /\ universe # {}
           /\ snapshot.date \in Nat /\ effective = snapshot.date + 1
           /\ snapshot.date \in DOMAIN ohlc /\ effective \in DOMAIN ohlc
           /\ ohlc[snapshot.date] \in RowType /\ ohlc[effective] \in RowType
           /\ \A s \in Assets : ohlc[effective][s].open % 100 = 0
<1>1. ValidArguments /\ day \in DOMAIN snapshots /\ snapshots \in Seq(SnapshotType)
  BY ReplayAssumption DEF ArgsInv
<1>2. snapshot \in SnapshotType
  BY <1>1 DEF snapshot
<1>3. /\ ValidSnapshot(snapshot)
      /\ snapshot.date \in DOMAIN ohlc /\ snapshot.date + 1 \in DOMAIN ohlc
  BY <1>1 DEF ValidArguments, snapshot
<1>4. snapshot.date \in Nat /\ snapshot.universe \in Seq(Assets)
  BY <1>2 DEF SnapshotType
<1>5. universe \subseteq Symbols /\ universe # {}
  <2>1. /\ snapshot.universe # <<>> /\ BTC \notin universe
    BY <1>3 DEF ValidSnapshot, universe
  <2>2. universe \subseteq Assets
    BY <1>4 DEF universe
  <2>3. snapshot.universe[1] \in universe
    <3>1. 1 \in DOMAIN snapshot.universe
      BY <1>4, <2>1
    <3> QED BY <3>1 DEF universe
  <2> QED BY <2>1, <2>2, <2>3 DEF Assets
<1>6. ohlc \in Tables
  BY DEF ArgsInv
<1>7. ohlc[snapshot.date] \in RowType /\ ohlc[snapshot.date + 1] \in RowType
  BY <1>3, <1>6, ReplayAssumption DEF RowType
<1>8. \A s \in Assets : ohlc[snapshot.date + 1][s].open % 100 = 0
  BY <1>3, <1>6, ReplayAssumption
<1> QED BY <1>2, <1>3, <1>4, <1>5, <1>7, <1>8 DEF effective

-----------------------------------------------------------------------------
(* The signal looks at one row of the table *)

InputOn(row) ==
    [btcPrice |-> row[BTC].close,
     view |-> [s \in Symbols |->
        [snapshot.view[s] EXCEPT !.price =
            IF s \in SignalSymbols THEN row[s].close ELSE None]],
     btcRow |-> snapshot.btcRow, benchmark |-> snapshot.benchmark, dca |-> snapshot.dca]

EquityOn(row) == cash + SumOf([s \in Held(shares) |-> shares[s] * row[s].close])

LEMMA SignalRow ==
    ASSUME NEW table
    PROVE  /\ StrategyInput(table) = InputOn(table[snapshot.date])
           /\ SignalEquity(table) = EquityOn(table[snapshot.date])
BY DEF StrategyInput, SignalEquity, SignalClose, InputOn, EquityOn

LEMMA SameRowSameTargets ==
    ASSUME NEW table, table[snapshot.date] = ohlc[snapshot.date]
    PROVE  TargetsFrom(table) = TargetsFrom(ohlc)
<1>1. StrategyInput(table) = StrategyInput(ohlc) /\ SignalEquity(table) = SignalEquity(ohlc)
  BY SignalRow, Zenon
<1>2. PoolFrom(table) = PoolFrom(ohlc)
  BY <1>1, Zenon DEF PoolFrom
<1> QED BY <1>1, <1>2, Zenon DEF TargetsFrom

LEMMA SignalOfPast ==
    ASSUME ArgsInv, [Next]_vars, phase = "signal", phase' = "execute",
           NEW table, DOMAIN table = DOMAIN ohlc,
           \A date \in DOMAIN ohlc : date <= snapshot.date => table[date] = ohlc[date]
    PROVE  targets' = TargetsFrom(table)
<1>1. targets' = TargetsFrom(ohlc)
  BY DEF Next, Start, Signal, Execute, Raise, vars
<1>2. table[snapshot.date] = ohlc[snapshot.date]
  BY OnADay
<1> QED BY <1>1, <1>2, SameRowSameTargets

(* No look-ahead, for any tables: other prices after the day of a signal   *)
(* would have given the same targets.                                      *)
THEOREM TargetsOfPast == Spec => NoLookAhead
<1>1. ArgsInv /\ [Next]_vars =>
        [phase = "signal" /\ phase' = "execute" =>
          \A table \in Tables :
            (/\ DOMAIN table = DOMAIN ohlc
             /\ \A date \in DOMAIN ohlc : date <= snapshot.date => table[date] = ohlc[date])
            => targets' = TargetsFrom(table)]_vars
  BY SignalOfPast
<1> QED BY <1>1, Args, PTL DEF Spec, NoLookAhead

-----------------------------------------------------------------------------
(* Days chain *)

LastRecord == records[Len(records)]

ChainInv ==
    /\ DOMAIN shares = Assets
    /\ \E T : records \in Seq(T)
    /\ DaysChain
    /\ phase = "start" => records = <<>>
    /\ phase = "signal" /\ records # <<>> => SignalEquity(ohlc) = LastRecord.ending

LEMMA ChainInit == Init => ChainInv
<1> SUFFICES ASSUME Init PROVE ChainInv
  OBVIOUS
<1>1. records = <<>> /\ <<>> \in Seq({}) /\ Len(<<>>) = 0
  BY DEF Init
<1> QED BY <1>1 DEF Init, ChainInv, DaysChain

(* The next signal is sized on what the fill before it was closed with.    *)
LEMMA NextSignal ==
    /\ ArgsInv /\ ArgsInv' /\ UNCHANGED args /\ phase = "execute"
    /\ DOMAIN Filled.shares = Assets /\ shares' = Filled.shares /\ cash' = Filled.cash
    /\ phase' = "signal" /\ day' = day + 1
    => SignalEquity(ohlc)' = EndingEquity(Filled)
<1> SUFFICES ASSUME ArgsInv, ArgsInv', UNCHANGED args, phase = "execute",
                    DOMAIN Filled.shares = Assets, shares' = Filled.shares, cash' = Filled.cash,
                    phase' = "signal", day' = day + 1
             PROVE  SignalEquity(ohlc)' = EndingEquity(Filled)
  OBVIOUS
<1>1. snapshot'.date = effective
  <2>1. /\ day \in DOMAIN snapshots /\ day + 1 \in DOMAIN snapshots /\ Consecutive
        /\ snapshots \in Seq(SnapshotType)
    BY ReplayAssumption DEF ArgsInv, ValidArguments, args
  <2>2. /\ snapshots[day].date = snapshots[1].date + day - 1
        /\ snapshots[day + 1].date = snapshots[1].date + (day + 1) - 1
    BY <2>1 DEF Consecutive
  <2>3. snapshots[1].date \in Nat /\ day \in Nat
    <3>1. 1 \in DOMAIN snapshots
      BY <2>1
    <3>2. snapshots[1] \in SnapshotType
      BY <2>1, <3>1
    <3> QED BY <3>2 DEF SnapshotType, ArgsInv
  <2>4. snapshots[day + 1].date = snapshots[day].date + 1
    BY <2>2, <2>3
  <2> QED BY <2>4 DEF snapshot, effective, args
<1>2. SignalEquity(ohlc)' = Filled.cash + SumOf([s \in Held(Filled.shares) |->
                               Filled.shares[s] * ohlc[effective][s].close])
  BY <1>1, Zenon DEF SignalEquity, SignalClose, args
<1>3. Held(Filled.shares) \subseteq Assets
  BY DEF Held
<1>4. \A s \in Held(Filled.shares) : ExecutionClose[s] = ohlc[effective][s].close
  BY <1>3 DEF ExecutionClose
<1>5. [s \in Held(Filled.shares) |-> Filled.shares[s] * ohlc[effective][s].close]
        = [s \in Held(Filled.shares) |-> Filled.shares[s] * ExecutionClose[s]]
  BY <1>4
<1> QED BY <1>2, <1>5, Zenon DEF EndingEquity, Worth

LEMMA ChainStep == ArgsInv /\ ArgsInv' /\ ChainInv /\ [Next]_vars => ChainInv'
<1> SUFFICES ASSUME ArgsInv, ArgsInv', ChainInv, [Next]_vars PROVE ChainInv'
  OBVIOUS
<1>1. PICK T : records \in Seq(T)
  BY DEF ChainInv
<1>2. CASE UNCHANGED vars
  BY <1>2 DEF vars, args, ChainInv, DaysChain, LastRecord, SignalEquity, SignalClose, snapshot
<1>3. CASE Start
  <2>1. UNCHANGED <<records, shares>> /\ phase' # "execute"
    BY <1>3 DEF Start, Raise
  <2>2. records = <<>> /\ phase' # "start"
    BY <1>3 DEF Start, Raise, ChainInv
  <2> QED BY <2>1, <2>2 DEF ChainInv, DaysChain
<1>4. CASE Signal
  <2>1. UNCHANGED <<records, shares>> /\ phase' \notin {"start", "signal"}
    BY <1>4 DEF Signal, Raise
  <2>2. phase' = "execute" => equity' = SignalEquity(ohlc)
    BY <1>4 DEF Signal, Raise
  <2> QED BY <1>4, <2>1, <2>2 DEF ChainInv, DaysChain, LastRecord, Signal
<1>5. CASE Execute
  <2>0. phase = "execute" /\ UNCHANGED args
    BY <1>5 DEF Execute, Fill, Raise
  <2>1. CASE phase' = "failed" /\ UNCHANGED <<shares, records>>
    BY <2>1 DEF ChainInv, DaysChain
  <2>2. CASE ExecuteFailure(Filled) = "none" /\ Fill(Filled)
    <3>1. DOMAIN Filled.shares = Assets
      BY DEF Filled, Rebalanced, ChainInv
    <3>2. phase' \in {"signal", "done"} /\ shares' = Filled.shares /\ cash' = Filled.cash
      BY <2>2 DEF Fill, Raise
    <3>3. phase' = "signal" => day' = day + 1
      BY <2>2 DEF Fill, Raise
    <3> DEFINE r == DailyRecord(Filled)
    <3>4. r.signalEquity = equity /\ r.ending = EndingEquity(Filled)
      BY DEF DailyRecord
    <3> HIDE DEF r
    <3>5. /\ records' \in Seq(T \cup {r}) /\ Len(records') = Len(records) + 1
          /\ records' # <<>> /\ Len(records) \in Nat
          /\ records'[Len(records) + 1] = r
          /\ \A i \in 1..Len(records) : records'[i] = records[i]
      <4>1. records' = Append(records, r)
        BY <2>2 DEF Fill, r
      <4>2. records \in Seq(T \cup {r})
        BY <1>1
      <4> QED BY <4>1, <4>2
    <3>6. DaysChain'
      <4>1. \A i \in 1..Len(records) - 1 : records[i + 1].signalEquity = records[i].ending
        BY DEF ChainInv, DaysChain
      <4>2. records # <<>> => equity = records[Len(records)].ending
        BY <2>0 DEF ChainInv, DaysChain
      <4>3. ASSUME NEW i \in 1..Len(records') - 1
            PROVE  records'[i + 1].signalEquity = records'[i].ending
        <5>1. CASE i = Len(records)
          <6>1. i \in 1..Len(records) /\ records # <<>>
            BY <3>5, <4>3, <5>1
          <6> QED BY <3>4, <3>5, <4>2, <5>1, <6>1
        <5>2. CASE i # Len(records)
          <6>1. i \in 1..Len(records) - 1 /\ i \in 1..Len(records) /\ i + 1 \in 1..Len(records)
            BY <3>5, <4>3, <5>2
          <6> QED BY <3>5, <4>1, <6>1
        <5> QED BY <5>1, <5>2
      <4> QED BY <3>2, <4>3 DEF DaysChain
    <3>7. phase' = "signal" => SignalEquity(ohlc)' = LastRecord'.ending
      <4> SUFFICES ASSUME phase' = "signal" PROVE SignalEquity(ohlc)' = LastRecord'.ending
        OBVIOUS
      <4>1. SignalEquity(ohlc)' = EndingEquity(Filled)
        BY <2>0, <3>1, <3>2, <3>3, NextSignal, Zenon
      <4> QED BY <3>4, <3>5, <4>1 DEF LastRecord
    <3> QED BY <3>1, <3>2, <3>5, <3>6, <3>7 DEF ChainInv
  <2> QED BY <1>5, <2>1, <2>2 DEF Execute, Fill, Raise
<1> QED BY <1>2, <1>3, <1>4, <1>5 DEF Next

LEMMA Chain == Spec => [](ArgsInv /\ ChainInv)
BY ArgsInit, ArgsStep, ChainInit, ChainStep, PTL DEF Spec

(* Days chain, for any replay: what a signal is sized on is the equity the *)
(* fill before it was closed with.                                         *)
THEOREM EveryDayChains == Spec => []DaysChain
BY Chain, PTL DEF ChainInv

-----------------------------------------------------------------------------
(* The ledger *)

LEMMA PositiveWorth ==
    ASSUME NEW S, IsFiniteSet(S), NEW c \in Nat, NEW held \in [S -> Nat],
           NEW prices, \A s \in S : prices[s] \in Nat, \A s \in Held(held) : prices[s] # 0,
           c > 0 \/ \E s \in S : held[s] > 0
    PROVE  c + Worth(held, prices) \in Nat /\ c + Worth(held, prices) > 0
<1> DEFINE w == Worth(held, prices)
<1>1. w \in Nat /\ \A s \in S : held[s] * prices[s] <= w
  BY WorthNat
<1> HIDE DEF w
<1>2. CASE c > 0
  BY <1>1, <1>2 DEF w
<1>3. ASSUME NEW s \in S, held[s] > 0 PROVE c + w > 0
  <2>1. s \in Held(held) /\ prices[s] \in Nat \ {0} /\ held[s] \in Nat
    BY <1>3 DEF Held
  <2>2. held[s] * prices[s] > 0
    BY <1>3, <2>1
  <2>3. held[s] * prices[s] \in Nat /\ held[s] * prices[s] <= w
    BY <1>1, <2>1
  <2> QED BY <1>1, <2>2, <2>3
<1> QED BY <1>1, <1>2, <1>3 DEF w

LedgerInv ==
    /\ cash \in Nat /\ shares \in [Assets -> Nat]
    /\ phase = "start" => cash = setting.cash
    /\ phase \in {"signal", "execute"} => cash > 0 \/ \E s \in Assets : shares[s] > 0
    /\ phase = "execute" => DOMAIN targets \subseteq Assets /\ \A s \in DOMAIN targets : targets[s] \in Nat
    /\ phase # "failed" => failure = "none"
    /\ RefusesArgumentsOnly
    /\ HoldsOnlyTargets

(* RefusesArgumentsOnly of a failure, a configuration and a BTC average.   *)
Blamed(what, config, sma200) ==
    /\ what \in {"none", "arguments", "data", "dca", "trend leg", "negative weight"}
    /\ what = "trend leg" =>
         \/ sma200 = 0
         \/ config.trendWeight < 0 \/ config.targetVol <= 0 \/ config.maxLeverage < 0
    /\ what = "negative weight" => config.btcWeight < 0 \/ config.trendWeight < 0

LEMMA BlamedNow ==
    /\ RefusesArgumentsOnly <=> Blamed(failure, setting.config, snapshot.btcRow.sma200)
    /\ RefusesArgumentsOnly' <=> Blamed(failure', setting'.config, snapshot'.btcRow.sma200)
BY Zenon DEF RefusesArgumentsOnly, Blamed

LEMMA BlamedOnData ==
    ASSUME NEW what \in {"none", "arguments", "data", "dca"}, NEW config, NEW sma200
    PROVE  Blamed(what, config, sma200)
BY DEF Blamed

LEMMA FiniteAssets == IsFiniteSet(Assets) /\ IsFiniteSet(Symbols) /\ BTC \notin Symbols
BY ReplayAssumption, FS_AddElement DEF Assets

LEMMA SettingTypes ==
    ASSUME ArgsInv
    PROVE  /\ setting.config \in ConfigType /\ setting.cash \in Nat /\ setting.rate \in 0..99
BY ReplayAssumption DEF ArgsInv, SettingsType

LEMMA InputTypes ==
    ASSUME ArgsInv, phase = "signal", shares \in [Assets -> Nat]
    PROVE  StrategyInput(ohlc) \in InputType
<1> DEFINE row == ohlc[snapshot.date]
<1>1. snapshot \in SnapshotType /\ row \in RowType /\ universe \subseteq Symbols
  BY OnADay
<1>2. StrategyInput(ohlc) = InputOn(row)
  BY SignalRow
<1> HIDE DEF row
<1>3. SignalSymbols \subseteq Assets
  BY <1>1 DEF SignalSymbols, Held, Assets
<1>4. \A s \in Assets : row[s].close \in Nat
  BY <1>1 DEF RowType
<1>5. BTC \in Assets
  BY DEF Assets
<1>6. \A s \in Symbols :
        [snapshot.view[s] EXCEPT !.price = IF s \in SignalSymbols THEN row[s].close ELSE None]
          \in ViewType
  <2>1. \A s \in Symbols : snapshot.view[s] \in ViewType
    BY <1>1 DEF SnapshotType
  <2>2. \A s \in Symbols : (IF s \in SignalSymbols THEN row[s].close ELSE None) \in Nat \cup {None}
    BY <1>3, <1>4
  <2> QED BY <2>1, <2>2 DEF ViewType
<1>7. /\ snapshot.btcRow \in BtcRowType /\ snapshot.benchmark \in BenchmarkType
      /\ snapshot.dca \in DcaType
  BY <1>1 DEF SnapshotType
<1> QED BY <1>2, <1>4, <1>5, <1>6, <1>7 DEF InputOn, InputType

LEMMA PoolTypes ==
    ASSUME ArgsInv, phase = "signal"
    PROVE  DOMAIN PoolFrom(ohlc) \subseteq universe
<1>1. DOMAIN RP!EmptyList = {}
  BY DEF RP!EmptyList
<1>2. DOMAIN RP!Upstream = universe
  BY DEF RP!Upstream, RP!ListOf, RP!Normalized, universe
<1>3. universe # {}
  BY OnADay
<1>4. DOMAIN RP!Cached \subseteq universe
  BY <1>2, <1>3 DEF RP!Cached, RP!Within
<1>5. \A n : DOMAIN RP!FirstOf(RP!Upstream, n) \subseteq universe
  BY <1>2 DEF RP!FirstOf, RP!Within
<1>6. DOMAIN RP!Resolved(setting.config.refresh) \subseteq universe
  BY <1>2, <1>4, <1>5 DEF RP!Resolved
<1> QED BY <1>1, <1>6 DEF PoolFrom

LEMMA EquityType ==
    ASSUME ArgsInv, LedgerInv, phase = "signal"
    PROVE  /\ SignalEquity(ohlc) \in Nat
           /\ (\A s \in SignalSymbols : SignalClose(ohlc, s) # 0) => SignalEquity(ohlc) > 0
<1> DEFINE row == ohlc[snapshot.date]
<1> DEFINE closes == [s \in Assets |-> row[s].close]
<1>1. row \in RowType
  BY OnADay
<1>2. SignalEquity(ohlc) = EquityOn(row)
  BY SignalRow
<1>3. \A s \in Held(shares) : closes[s] = SignalClose(ohlc, s)
  BY DEF LedgerInv, Held, SignalClose
<1> HIDE DEF row
<1>4. [s \in Held(shares) |-> shares[s] * row[s].close] = [s \in Held(shares) |-> shares[s] * closes[s]]
  BY DEF LedgerInv, Held
<1>5. EquityOn(row) = cash + Worth(shares, closes)
  BY <1>4, Zenon DEF EquityOn, Worth
<1>6. \A s \in Assets : closes[s] \in Nat
  BY <1>1 DEF RowType
<1> HIDE DEF closes
<1>7. Worth(shares, closes) \in Nat
  BY <1>6, FiniteAssets, WorthNat DEF LedgerInv
<1>8. ASSUME \A s \in SignalSymbols : SignalClose(ohlc, s) # 0
      PROVE  SignalEquity(ohlc) > 0
  <2>1. \A s \in Held(shares) : closes[s] # 0
    BY <1>3, <1>8 DEF SignalSymbols
  <2> QED BY <1>2, <1>5, <1>6, <2>1, FiniteAssets, PositiveWorth DEF LedgerInv
<1> QED BY <1>2, <1>5, <1>7, <1>8 DEF LedgerInv

(* Indicators the replay takes fail the trend leg over the BTC average or  *)
(* over a setting.                                                         *)
LEMMA TrendLegChecks ==
    ASSUME ArgsInv, phase = "signal", IndicatorsValid(ohlc),
           TrendFails(setting.config, StrategyInput(ohlc), PoolFrom(ohlc))
    PROVE  Blamed("trend leg", setting.config, snapshot.btcRow.sma200)
<1> DEFINE config == setting.config
<1> DEFINE input == StrategyInput(ohlc)
<1>1. input.btcRow = snapshot.btcRow
  BY DEF StrategyInput
<1>2. snapshot.btcRow.sma200 \in Nat
  BY OnADay DEF SnapshotType, BtcRowType
<1>3. config \in ConfigType
  BY SettingTypes
<1> HIDE DEF config, input
<1>4. CASE ~BtcRowOk(input)
  <2>1. snapshot.btcRow.known /\ snapshot.btcRow.close > 0
    BY DEF IndicatorsValid, IndicatorClose
  <2> QED BY <1>1, <1>2, <1>4, <2>1 DEF BtcRowOk, Blamed
<1>5. CASE ScalingRaises(config, input, PoolFrom(ohlc))
  <2>1. /\ EffectiveTrend(config, input) \in Int
        /\ config.trendWeight >= 0 => EffectiveTrend(config, input) \in Nat
        /\ config.trendWeight \in Int
    BY <1>3, TierTypes DEF EffectiveTrend, ConfigType
  <2>2. EffectiveTrend(config, input) < 0 => config.trendWeight < 0
    BY <2>1
  <2> QED BY <1>5, <2>2 DEF ScalingRaises, Blamed, config
<1> QED BY <1>4, <1>5 DEF TrendFails, config, input

(* The targets of a trend leg that did not fail are natural, or one of     *)
(* them is negative because a weight is.                                   *)
LEMMA TargetChecks ==
    ASSUME RatioNatural, ArgsInv, LedgerInv, phase = "signal",
           ~TrendFails(setting.config, StrategyInput(ohlc), PoolFrom(ohlc))
    PROVE  LET w == TargetsFrom(ohlc)
           IN  /\ DOMAIN w \subseteq Assets
               /\ \/ (\A s \in DOMAIN w : w[s] \in Nat) /\ TargetFailure(w) \in {"none", "dca"}
                  \/ /\ TargetFailure(w) = "negative weight"
                     /\ setting.config.btcWeight < 0 \/ setting.config.trendWeight < 0
<1> DEFINE w == TargetsFrom(ohlc)
<1> DEFINE config == setting.config
<1>1. universe \subseteq Symbols /\ IsFiniteSet(universe)
  BY OnADay, FiniteAssets, FS_Subset
<1>2. /\ DOMAIN w \subseteq universe \cup {BTC} /\ IsFiniteSet(DOMAIN w)
      /\ \/ (\A s \in DOMAIN w : w[s] \in Nat) /\ SumOf(w) <= Full
         \/ EffectiveBtc(config, StrategyInput(ohlc)) < 0 /\ \E s \in DOMAIN w : w[s] < 0
  <2>1. IsFiniteSet(DOMAIN PoolFrom(ohlc)) /\ DOMAIN PoolFrom(ohlc) \subseteq universe
    BY <1>1, PoolTypes, FS_Subset
  <2>2. StrategyInput(ohlc) \in InputType /\ SignalEquity(ohlc) \in Nat
    BY InputTypes, EquityType DEF LedgerInv
  <2>3. RatioNatural /\ BTC \notin Symbols /\ config \in ConfigType
    BY SettingTypes, FiniteAssets
  <2>4. DOMAIN PoolFrom(ohlc) \subseteq Symbols
    BY <1>1, <2>1
  <2>5. /\ DOMAIN w \subseteq DOMAIN PoolFrom(ohlc) \cup {BTC} /\ IsFiniteSet(DOMAIN w)
        /\ \/ (\A s \in DOMAIN w : w[s] \in Nat) /\ SumOf(w) <= Full
           \/ EffectiveBtc(config, StrategyInput(ohlc)) < 0 /\ \E s \in DOMAIN w : w[s] < 0
    BY <2>1, <2>2, <2>3, <2>4, TargetWeightsType, SMTT(30) DEF TargetsFrom
  <2> QED BY <2>1, <2>5
<1>3. EffectiveBtc(config, StrategyInput(ohlc)) < 0 => config.btcWeight < 0 \/ config.trendWeight < 0
  <2>1. /\ config \in ConfigType /\ config.btcWeight \in Int /\ config.trendWeight \in Int
    BY SettingTypes DEF ConfigType
  <2>2. ASSUME config.btcWeight >= 0 /\ config.trendWeight >= 0
        PROVE  EffectiveBtc(config, StrategyInput(ohlc)) \in Nat
    BY <2>1, <2>2, TierTypes DEF EffectiveBtc
  <2> HIDE DEF config
  <2> QED BY <2>1, <2>2
<1>4. DOMAIN w \subseteq Assets
  BY <1>1, <1>2 DEF Assets
<1> HIDE DEF w, config
<1>5. CASE (\A s \in DOMAIN w : w[s] \in Nat) /\ SumOf(w) <= Full
  <2>1. SumOf(w) \in Nat
    BY <1>2, <1>5, SumNat
  <2>2. ~(SumOf(w) > Full) /\ \A s \in DOMAIN w : ~(w[s] < 0)
    BY <1>5, <2>1 DEF Full
  <2>3. TargetFailure(w) \in {"none", "dca"}
    BY <1>2, <2>2 DEF TargetFailure
  <2> QED BY <1>4, <1>5, <2>3 DEF w
<1>6. CASE EffectiveBtc(config, StrategyInput(ohlc)) < 0 /\ \E s \in DOMAIN w : w[s] < 0
  <2>1. TargetFailure(w) = "negative weight"
    BY <1>2, <1>6 DEF TargetFailure
  <2> QED BY <1>3, <1>4, <1>6, <2>1 DEF w, config
<1> QED BY <1>2, <1>5, <1>6

(* Of a signal the caller's data and settings and the dca leg can be       *)
(* refused, and nothing else.                                              *)
LEMMA SignalChecks ==
    ASSUME RatioNatural, ArgsInv, LedgerInv, phase = "signal"
    PROVE  /\ Blamed(SignalFailure, setting.config, snapshot.btcRow.sma200)
           /\ SignalFailure = "none" =>
                /\ DOMAIN TargetsFrom(ohlc) \subseteq Assets
                /\ \A s \in DOMAIN TargetsFrom(ohlc) : TargetsFrom(ohlc)[s] \in Nat
<1> DEFINE w == TargetsFrom(ohlc)
<1> DEFINE Fails == TrendFails(setting.config, StrategyInput(ohlc), PoolFrom(ohlc))
<1>1. (\A s \in SignalSymbols : SignalClose(ohlc, s) # 0) => ~(SignalEquity(ohlc) <= 0)
  BY EquityType
<1>2. \/ SignalFailure = "data"
      \/ SignalFailure = "trend leg" /\ IndicatorsValid(ohlc) /\ Fails
      \/ SignalFailure = TargetFailure(w) /\ ~Fails
  BY <1>1, Zenon DEF SignalFailure
<1>3. CASE SignalFailure = "data"
  BY <1>3, BlamedOnData
<1>4. CASE SignalFailure = "trend leg" /\ IndicatorsValid(ohlc) /\ Fails
  BY <1>4, TrendLegChecks
<1>5. CASE SignalFailure = TargetFailure(w) /\ ~Fails
  <2>1. /\ DOMAIN w \subseteq Assets
        /\ \/ (\A s \in DOMAIN w : w[s] \in Nat) /\ TargetFailure(w) \in {"none", "dca"}
           \/ /\ TargetFailure(w) = "negative weight"
              /\ setting.config.btcWeight < 0 \/ setting.config.trendWeight < 0
    BY <1>5, TargetChecks, Zenon
  <2> HIDE DEF w
  <2>2. Blamed(SignalFailure, setting.config, snapshot.btcRow.sma200)
    BY <1>5, <2>1 DEF Blamed
  <2>3. SignalFailure = "none" => \A s \in DOMAIN w : w[s] \in Nat
    BY <1>5, <2>1
  <2> QED BY <2>1, <2>2, <2>3 DEF w
<1> QED BY <1>2, <1>3, <1>4, <1>5

(* The fill is a rebalance of priced symbols.                              *)
LEMMA FillTradable ==
    ASSUME ArgsInv, LedgerInv, phase = "execute", \A s \in Executed : ExecutionOpen[s] # 0
    PROVE  /\ Tradable(Assets, shares, cash, ExecutionOpen, TargetSeries, setting.rate)
           /\ Round(Needed(shares, TargetSeries), ExecutionOpen)
           /\ Needed(shares, TargetSeries) \subseteq Executed
           /\ Executed \subseteq Assets
           /\ \A s \in Executed : ExecutionOpen[s] = ohlc[effective][s].open
<1>1. ohlc[effective] \in RowType /\ \A s \in Assets : ohlc[effective][s].open % 100 = 0
  BY OnADay
<1>2. /\ shares \in [Assets -> Nat] /\ cash \in Nat
      /\ DOMAIN targets \subseteq Assets /\ \A s \in DOMAIN targets : targets[s] \in Nat
  BY DEF LedgerInv
<1>3. Executed \subseteq Assets
  BY <1>2 DEF Executed, Held
<1>4. \A s \in Executed : ExecutionOpen[s] = ohlc[effective][s].open
  BY <1>3 DEF ExecutionOpen
<1>5. ExecutionOpen \in [Assets -> Nat]
  BY <1>1 DEF ExecutionOpen, RowType
<1>6. TargetSeries \in [Assets -> Nat]
  BY <1>2 DEF TargetSeries
<1>7. Needed(shares, TargetSeries) \subseteq Executed
  BY <1>2 DEF Needed, Held, Executed, TargetSeries
<1>8. ~RebalanceRaises(shares, ExecutionOpen, TargetSeries)
  BY <1>7 DEF RebalanceRaises
<1>9. Round(Needed(shares, TargetSeries), ExecutionOpen)
  BY <1>1, <1>3, <1>4, <1>7 DEF Round
<1> QED BY <1>2, <1>3, <1>4, <1>5, <1>6, <1>7, <1>8, <1>9, SettingTypes, FiniteAssets DEF Tradable

(* Of a fill nothing but a missing close can be refused.                   *)
LEMMA FillChecks ==
    ASSUME ArgsInv, LedgerInv, phase = "execute", \A s \in Executed : ExecutionOpen[s] # 0
    PROVE  /\ ExecuteFailure(Filled) \in {"none", "data"}
           /\ Filled.shares \in [Assets -> Nat] /\ Filled.cash \in Nat
           /\ Filled.cash > 0 \/ \E s \in Assets : Filled.shares[s] > 0
           /\ \A s \in Held(Filled.shares) :
                /\ s \in DOMAIN targets
                /\ Filled.shares[s] * ohlc[effective][s].open <= (targets[s] * PretradeEquity) \div Full
<1>1. /\ Tradable(Assets, shares, cash, ExecutionOpen, TargetSeries, setting.rate)
      /\ Round(Needed(shares, TargetSeries), ExecutionOpen)
      /\ Needed(shares, TargetSeries) \subseteq Executed /\ Executed \subseteq Assets
      /\ \A s \in Executed : ExecutionOpen[s] = ohlc[effective][s].open
  BY FillTradable
<1>2. /\ shares \in [Assets -> Nat] /\ cash \in Nat
      /\ cash > 0 \/ \E s \in Assets : shares[s] > 0
      /\ \A s \in Assets : ExecutionOpen[s] \in Nat
      /\ \A s \in Held(shares) : ExecutionOpen[s] # 0
  BY <1>1 DEF LedgerInv, Tradable, Executed
<1>3. /\ Filled.shares \in [Assets -> Nat] /\ Filled.cash \in Nat /\ Filled.costs \in Nat
      /\ \A s \in Assets :
           /\ Filled.shares[s] > 0 => TargetSeries[s] > 0 /\ ExecutionOpen[s] > 0
           /\ Filled.shares[s] * ExecutionOpen[s] <= (TargetSeries[s] * PretradeEquity) \div Full
      /\ Filled.cash + Worth(Filled.shares, ExecutionOpen) + Filled.costs = PretradeEquity
      /\ PretradeEquity > 0 => Filled.cash > 0 \/ \E s \in Assets : Filled.shares[s] > 0
  BY <1>1, RebalanceLeaves DEF Filled, PretradeEquity
<1>4. PretradeEquity > 0
  BY <1>2, FiniteAssets, PositiveWorth DEF PretradeEquity
<1>5. TradeCosts(Filled.shares) = Filled.costs
  <2> DEFINE turnover == Turnover(Assets, shares, Filled.shares, ExecutionOpen)
  <2>1. Filled.costs = SumOf(OneByOne(Assets, turnover, setting.rate))
    BY <1>1, CostsOfTrades DEF Filled
  <2>2. OneByOne(Assets, turnover, setting.rate)
          = [s \in Assets |->
               CostOf(ExecutionOpen[s] * Most(Filled.shares[s] - shares[s],
                                              shares[s] - Filled.shares[s]), setting.rate)]
    BY DEF OneByOne, Turnover
  <2> QED BY <2>1, <2>2, Zenon DEF TradeCosts
<1>6. (\A s \in Held(Filled.shares) : ExecutionClose[s] # 0) => ~(EndingEquity(Filled) <= 0)
  <2> SUFFICES ASSUME \A s \in Held(Filled.shares) : ExecutionClose[s] # 0
               PROVE  ~(EndingEquity(Filled) <= 0)
    OBVIOUS
  <2>1. \A s \in Assets : ExecutionClose[s] \in Nat
    BY OnADay DEF ExecutionClose, RowType
  <2>2. Filled.cash + Worth(Filled.shares, ExecutionClose) \in Nat
        /\ Filled.cash + Worth(Filled.shares, ExecutionClose) > 0
    BY <1>3, <1>4, <2>1, FiniteAssets, PositiveWorth
  <2> QED BY <2>2 DEF EndingEquity
<1>7. ExecuteFailure(Filled) \in {"none", "data"}
  BY <1>3, <1>5, <1>6 DEF ExecuteFailure
<1>8. ASSUME NEW s \in Held(Filled.shares)
      PROVE  /\ s \in DOMAIN targets
             /\ Filled.shares[s] * ohlc[effective][s].open <= (targets[s] * PretradeEquity) \div Full
  <2>1. s \in Assets /\ Filled.shares[s] > 0
    BY <1>3, <1>8 DEF Held
  <2>2. TargetSeries[s] > 0
    BY <1>3, <2>1
  <2>3. s \in DOMAIN targets /\ TargetSeries[s] = targets[s]
    BY <2>1, <2>2 DEF TargetSeries
  <2>4. s \in Executed
    BY <2>3 DEF Executed
  <2> QED BY <1>1, <1>3, <2>1, <2>3, <2>4
<1> QED BY <1>3, <1>4, <1>7, <1>8

(* HoldsOnlyTargets of a holding, a table and the last record.             *)
HeldWereTargets(held, table, last) ==
    \A s \in Held(held) :
        /\ s \in DOMAIN last.targets
        /\ held[s] * table[last.date + 1][s].open <= (last.targets[s] * last.pretrade) \div Full

LEMMA HoldsNow ==
    HoldsOnlyTargets <=>
        (phase \in {"signal", "done"} /\ records # <<>> =>
            HeldWereTargets(shares, ohlc, records[Len(records)]))
BY Zenon DEF HoldsOnlyTargets, HeldWereTargets

LEMMA LedgerInit == Init => LedgerInv
<1> SUFFICES ASSUME Init PROVE LedgerInv
  OBVIOUS
<1>1. cash \in Nat /\ shares \in [Assets -> Nat]
  BY ArgsInit, SettingTypes DEF Init
<1>2. RefusesArgumentsOnly
  BY BlamedNow, BlamedOnData DEF Init
<1> QED BY <1>1, <1>2 DEF Init, LedgerInv, HoldsOnlyTargets

LEMMA LedgerStep ==
    ASSUME RatioNatural
    PROVE  ArgsInv /\ ChainInv /\ ChainInv' /\ LedgerInv /\ [Next]_vars => LedgerInv'
<1> SUFFICES ASSUME ArgsInv, ChainInv, ChainInv', LedgerInv, [Next]_vars PROVE LedgerInv'
  OBVIOUS
<1>1. UNCHANGED args /\ ohlc' = ohlc /\ setting' = setting
  BY DEF Next, Start, Signal, Execute, Fill, Raise, vars, args
<1>2. /\ cash \in Nat /\ shares \in [Assets -> Nat]
      /\ phase = "start" => cash = setting.cash
      /\ phase \in {"signal", "execute"} => cash > 0 \/ \E s \in Assets : shares[s] > 0
      /\ phase = "execute" =>
           DOMAIN targets \subseteq Assets /\ \A s \in DOMAIN targets : targets[s] \in Nat
      /\ phase # "failed" => failure = "none"
  BY DEF LedgerInv
<1>3. phase \in {"signal", "done"} /\ records # <<>> =>
        HeldWereTargets(shares, ohlc, records[Len(records)])
  BY HoldsNow DEF LedgerInv
<1>0. Blamed(failure, setting.config, snapshot.btcRow.sma200)
  BY BlamedNow DEF LedgerInv
<1>4. SUFFICES
        /\ cash' \in Nat /\ shares' \in [Assets -> Nat]
        /\ phase' = "start" => cash' = setting'.cash
        /\ phase' \in {"signal", "execute"} => cash' > 0 \/ \E s \in Assets : shares'[s] > 0
        /\ phase' = "execute" =>
             DOMAIN targets' \subseteq Assets /\ \A s \in DOMAIN targets' : targets'[s] \in Nat
        /\ phase' # "failed" => failure' = "none"
        /\ Blamed(failure', setting'.config, snapshot'.btcRow.sma200)
        /\ phase' \in {"signal", "done"} /\ records' # <<>> =>
             HeldWereTargets(shares', ohlc', records'[Len(records')])
  <2>1. HoldsOnlyTargets' <=>
          (phase' \in {"signal", "done"} /\ records' # <<>> =>
             HeldWereTargets(shares', ohlc', records'[Len(records')]))
    BY Zenon DEF HoldsOnlyTargets, HeldWereTargets
  <2> QED BY <1>2, <2>1, BlamedNow, Zenon DEF LedgerInv
<1>5. CASE UNCHANGED vars
  <2>1. UNCHANGED <<phase, failure, cash, shares, targets, records>> /\ snapshot' = snapshot
    BY <1>5 DEF vars, args, snapshot
  <2> QED BY <1>0, <1>1, <1>2, <1>3, <2>1
<1>6. CASE Start
  <2>1. UNCHANGED <<cash, shares, records>> /\ records = <<>> /\ phase = "start"
    BY <1>6 DEF Start, Raise, ChainInv
  <2>2. /\ phase' \in {"signal", "failed"} /\ (phase' = "signal" => cash > 0)
        /\ failure' \in {"none", "arguments"} /\ (phase' = "signal" => failure' = "none")
    BY <1>2, <1>6, <2>1 DEF Start, Raise, ValidArguments
  <2> QED BY <1>2, <2>1, <2>2, BlamedOnData
<1>7. CASE Signal
  <2>1. UNCHANGED <<cash, shares, records>> /\ phase = "signal"
    BY <1>7 DEF Signal, Raise
  <2> DEFINE w == TargetsFrom(ohlc)
  <2>2. /\ Blamed(SignalFailure, setting.config, snapshot.btcRow.sma200)
        /\ SignalFailure = "none" => DOMAIN w \subseteq Assets /\ \A s \in DOMAIN w : w[s] \in Nat
    BY <2>1, SignalChecks, Zenon
  <2>3. \/ phase' = "execute" /\ targets' = w /\ failure' = failure /\ SignalFailure = "none"
        \/ phase' = "failed" /\ failure' = SignalFailure /\ snapshot' = snapshot
    BY <1>7 DEF Signal, Raise, args, snapshot
  <2> HIDE DEF w
  <2>4. phase' = "execute" =>
          DOMAIN targets' \subseteq Assets /\ \A s \in DOMAIN targets' : targets'[s] \in Nat
    BY <2>2, <2>3
  <2>5. /\ phase' \in {"execute", "failed"} /\ (phase' = "execute" => failure' = "none")
        /\ Blamed(failure', setting'.config, snapshot'.btcRow.sma200)
    <3>1. CASE phase' = "execute" /\ failure' = failure
      BY <1>2, <2>1, <3>1, BlamedOnData
    <3>2. CASE phase' = "failed" /\ failure' = SignalFailure /\ snapshot' = snapshot
      BY <1>1, <2>2, <3>2
    <3> QED BY <2>3, <3>1, <3>2
  <2> QED BY <1>2, <2>1, <2>4, <2>5
<1>8. CASE Execute
  <2>1. CASE Raise("data")
    <3>1. UNCHANGED <<cash, shares>> /\ phase' = "failed" /\ failure' = "data"
      BY <2>1 DEF Raise
    <3> QED BY <1>2, <3>1, BlamedOnData
  <2>2. CASE (\A s \in Executed : ExecutionOpen[s] # 0) /\ Fill(Filled)
    <3>1. /\ ExecuteFailure(Filled) \in {"none", "data"}
          /\ Filled.shares \in [Assets -> Nat] /\ Filled.cash \in Nat
          /\ Filled.cash > 0 \/ \E s \in Assets : Filled.shares[s] > 0
          /\ \A s \in Held(Filled.shares) :
               /\ s \in DOMAIN targets
               /\ Filled.shares[s] * ohlc[effective][s].open <= (targets[s] * PretradeEquity) \div Full
      BY <1>8, <2>2, FillChecks DEF Execute
    <3>2. CASE Raise("data")
      <4>1. UNCHANGED <<cash, shares>> /\ phase' = "failed" /\ failure' = "data"
        BY <3>2 DEF Raise
      <4> QED BY <1>2, <4>1, BlamedOnData
    <3>3. CASE ExecuteFailure(Filled) = "none"
      <4> DEFINE r == DailyRecord(Filled)
      <4>1. /\ shares' = Filled.shares /\ cash' = Filled.cash /\ failure' = failure
            /\ phase' \in {"signal", "done"}
            /\ records' = Append(records, r)
        BY <2>2, <3>3 DEF Fill
      <4>2. r.date = snapshot.date /\ r.targets = targets /\ r.pretrade = PretradeEquity
        BY DEF DailyRecord
      <4> HIDE DEF r
      <4>3. records'[Len(records')] = r
        <5>1. PICK T : records \in Seq(T)
          BY DEF ChainInv
        <5>2. records \in Seq(T \cup {r})
          BY <5>1
        <5> QED BY <4>1, <5>2
      <4>4. HeldWereTargets(shares', ohlc', r)
        <5>1. ohlc'[r.date + 1] = ohlc[effective]
          BY <1>1, <4>2 DEF effective
        <5> HIDE DEF r
        <5> QED BY <3>1, <4>1, <4>2, <5>1, Zenon DEF HeldWereTargets
      <4>5. HeldWereTargets(shares', ohlc', records'[Len(records')])
        BY <4>3, <4>4, Zenon
      <4>6. cash' \in Nat /\ shares' \in [Assets -> Nat]
            /\ (cash' > 0 \/ \E s \in Assets : shares'[s] > 0)
        BY <3>1, <4>1
      <4>7. /\ phase' \notin {"start", "execute"} /\ failure' = "none"
            /\ Blamed(failure', setting'.config, snapshot'.btcRow.sma200)
        BY <1>2, <1>8, <4>1, BlamedOnData DEF Execute
      <4> QED BY <4>5, <4>6, <4>7, Zenon
    <3> QED BY <2>2, <3>1, <3>2, <3>3 DEF Fill
  <2> QED BY <1>8, <2>1, <2>2 DEF Execute
<1> QED BY <1>5, <1>6, <1>7, <1>8 DEF Next

LEMMA LedgerAlways ==
    ASSUME RatioNatural PROVE Spec => [](ArgsInv /\ ChainInv /\ LedgerInv)
BY ArgsInit, ArgsStep, ChainInit, ChainStep, LedgerInit, LedgerStep, PTL DEF Spec

(* For no arguments does a replay refuse its own work: it ends early over  *)
(* data, a leg that reports nothing, a BTC average or a setting only.      *)
THEOREM OnlyArgumentsRefused ==
    ASSUME RatioNatural PROVE Spec => []RefusesArgumentsOnly
BY LedgerAlways, PTL DEF LedgerInv

(* What is held after a fill was targeted by its signal, and is worth no   *)
(* more than its weight.                                                   *)
THEOREM OnlyTargetsHeld ==
    ASSUME RatioNatural PROVE Spec => []HoldsOnlyTargets
BY LedgerAlways, PTL DEF LedgerInv

-----------------------------------------------------------------------------
(* The refinement *)

LEMMA LedgerSpecInit == ArgsInv /\ Init => L!Init
BY DEF Init, L!Init, ArgsInv

LEMMA LedgerSpecStep ==
    ArgsInv /\ LedgerInv /\ LedgerInv' /\ [Next]_vars => [L!Trade]_<<cash, shares>>
<1> SUFFICES ASSUME ArgsInv, LedgerInv, LedgerInv', [Next]_vars, ~UNCHANGED <<cash, shares>>
             PROVE  L!Trade
  OBVIOUS
<1>1. phase = "execute" /\ (\A s \in Executed : ExecutionOpen[s] # 0)
      /\ shares' = Filled.shares /\ cash' = Filled.cash
  BY DEF Next, Start, Signal, Execute, Fill, Raise, vars
<1> DEFINE Q == [s \in Assets |-> ohlc[effective][s].open]
<1> DEFINE Quotes == IF phase = "execute" THEN Q ELSE [s \in Assets |-> 0]
<1>2. Q \in [Assets -> Nat]
  BY <1>1, OnADay DEF RowType
<1>3. /\ Tradable(Assets, shares, cash, ExecutionOpen, TargetSeries, setting.rate)
      /\ Round(Needed(shares, TargetSeries), ExecutionOpen)
      /\ Needed(shares, TargetSeries) \subseteq Executed /\ Executed \subseteq Assets
      /\ \A s \in Executed : ExecutionOpen[s] = ohlc[effective][s].open
  BY <1>1, FillTradable
<1>4. \A s \in Needed(shares, TargetSeries) : Q[s] = ExecutionOpen[s]
  BY <1>3
<1> HIDE DEF Q
<1>5. Quotes = Q
  BY <1>1
<1>6. /\ \A s \in Assets : shares'[s] # shares[s] => Q[s] > 0
      /\ cash' + SumOf(Values(Assets, shares', Q))
           + (setting.rate * SumOf(Turnover(Assets, shares, shares', Q))) \div 100
           = cash + SumOf(Values(Assets, shares, Q))
  <2>1. /\ \A s \in Assets : Filled.shares[s] # shares[s] => Q[s] > 0
        /\ Filled.cash + SumOf(Values(Assets, Filled.shares, Q))
             + (setting.rate * SumOf(Turnover(Assets, shares, Filled.shares, Q))) \div 100
             = cash + SumOf(Values(Assets, shares, Q))
    BY <1>2, <1>3, <1>4, RebalanceTrades DEF Filled
  <2> QED BY <1>1, <2>1
<1>7. cash' \in Nat /\ shares' \in [Assets -> Nat]
  BY DEF LedgerInv
<1> HIDE DEF Quotes
<1>8. \A f : L!SumOf(f) = SumOf(f)
  BY DEF L!SumOf, SumOf, L!MapThenSumSet, MapThenSumSet, L!MapThenFoldSet, MapThenFoldSet
<1>9. \A a, b : L!Most(a, b) = Most(a, b)
  BY DEF L!Most, Most
<1>10. \A c, held : L!Wealth(c, held) = c + SumOf(Values(Assets, held, Quotes))
  BY <1>8, Zenon DEF L!Wealth, Values, Quotes, Q
<1>11. L!Costs = (setting.rate * SumOf(Turnover(Assets, shares, shares', Quotes))) \div 100
  <2>1. [s \in Assets |-> Quotes[s] * L!Most(shares'[s] - shares[s], shares[s] - shares'[s])]
          = Turnover(Assets, shares, shares', Quotes)
    BY <1>9 DEF Turnover
  <2> QED BY <1>8, <2>1, Zenon DEF L!Costs, Quotes, Q
<1>12. /\ \A s \in Assets : shares'[s] # shares[s] => Quotes[s] > 0
       /\ L!Wealth(cash', shares') + L!Costs = L!Wealth(cash, shares)
  BY <1>5, <1>6, <1>10, <1>11, Zenon
<1> QED BY <1>7, <1>12, Zenon DEF L!Trade, Quotes, Q

(* Every replay is a behaviour of the abstract ledger.                     *)
THEOREM ReplayIsLedger ==
    ASSUME RatioNatural PROVE Spec => LedgerSpec
<1>1. Init => L!Init
  BY ArgsInit, LedgerSpecInit
<1>2. ArgsInv /\ LedgerInv /\ LedgerInv' /\ [Next]_vars => [L!Trade]_<<cash, shares>>
  BY LedgerSpecStep
<1> QED BY <1>1, <1>2, LedgerAlways, PTL DEF Spec, LedgerSpec, L!Spec

=============================================================================
