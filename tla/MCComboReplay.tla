--------------------------- MODULE MCComboReplay ---------------------------
(* Model values for ComboReplay: two trend symbols, up to three days of    *)
(* signals on prices of 100 to 400 a lot, tables that miss a price or      *)
(* differ after a day, snapshots that fail each validation.                *)
EXTENDS ComboReplay

CONSTANTS eth, sol

MCSymbols == {eth, sol}

(* The dynamic ratio in steps, over equities scaled down. *)
MCRatio(e) == IF e < 2000 THEN 40 ELSE 60

Of3(b, e, s) == [x \in MCSymbols \cup {BTC} |-> IF x = BTC THEN b ELSE IF x = eth THEN e ELSE s]

Row(bo, bc, eo, ec, so, sc) ==
    [x \in MCSymbols \cup {BTC} |-> [open |-> Of3(bo, eo, so)[x], close |-> Of3(bc, ec, sc)[x]]]

Base ==
    <<Row(200, 200, 100, 100, 100, 100), Row(200, 200, 100, 200, 100, 100),
      Row(100, 200, 200, 100, 200, 200), Row(200, 100, 100, 300, 200, 200),
      Row(100, 100, 400, 400, 100, 200)>>

MCTables ==
    { Base,
      [Base EXCEPT ![3][BTC].open = 200, ![3][eth].open = 400, ![3][eth].close = 400, ![4][BTC].close = 300],
      [Base EXCEPT ![4][eth].open = 300, ![4][sol].open = 100, ![4][eth].close = 100],
      [Base EXCEPT ![3][sol].open = 0],
      [Base EXCEPT ![4][eth].close = 0, ![4][BTC].open = 0],
      [d \in 1..3 |-> Base[d]] }

View(ceiling, sma60, score, vol) ==
    [price |-> None, ceiling |-> ceiling, sma60 |-> sma60, atr |-> 100, score |-> score, vol |-> vol]

Rising == View(90, 80, 2, 2)
Rising2 == View(90, 80, 1, 4)
Sinking == View(400, 300, 1, 2)
NoView == View(None, 80, 1, 2)

Plain == [known |-> TRUE, scales |-> FALSE, multiplier |-> 100, exposure |-> None]
Cheap == [known |-> TRUE, scales |-> TRUE, multiplier |-> 300, exposure |-> None]
Leaving == [known |-> TRUE, scales |-> FALSE, multiplier |-> 100, exposure |-> 0]
NoPlan == [known |-> FALSE, scales |-> FALSE, multiplier |-> 0, exposure |-> None]

Bench(on) ==
    [given |-> TRUE, regimeOn |-> on, gap |-> None, ratio |-> None, slope |-> None,
     close |-> None, ma200 |-> None]

From(asOf, available) == [asOf |-> asOf, available |-> available]

(* What day d shows when everything about it is available the same day. *)
Day(d, e, s, on, dca, symbols) ==
    [date |-> d, source |-> [from \in Sources |-> From(d, d)], universe |-> symbols,
     view |-> [x \in MCSymbols |-> IF x = eth THEN e ELSE s],
     close |-> [x \in MCSymbols |-> Base[d][x].close],
     btcRow |-> [known |-> TRUE, regimeOn |-> on, close |-> Base[d][BTC].close, sma200 |-> 150],
     benchmark |-> Bench(on), dca |-> dca]

First(dca) == Day(2, Rising, Rising2, TRUE, dca, <<eth, sol>>)
Second == Day(3, Rising, Rising, TRUE, Cheap, <<sol>>)
Blocked == Day(3, Rising, Rising2, FALSE, Plain, <<sol, eth>>)
Third == Day(4, Sinking, Rising, TRUE, Leaving, <<eth>>)
(* Indicators of the day before, published the same day as the signal. *)
Late == [First(Plain) EXCEPT !.source["indicators"] = From(1, 2),
                             !.close = [x \in MCSymbols |-> Base[1][x].close],
                             !.btcRow.close = Base[1][BTC].close]
(* A day on which the trend leg picks nothing, whatever its settings. *)
Idle == Day(2, Sinking, Sinking, TRUE, Plain, <<eth, sol>>)
(* A row that passes the replay's checks and fails the trend leg's. *)
Unaveraged == [Second EXCEPT !.btcRow.sma200 = 0]

MCSnapshots ==
    { <<First(Plain), Second, Third>>, <<First(Cheap), Blocked, Third>>, <<Late, Second>>,
      <<First(Plain), Third>>, <<First(NoPlan)>>, <<>>, <<Second, First(Plain)>>,
      <<[First(Plain) EXCEPT !.source["benchmark"] = From(3, 3)]>>,
      <<[First(Plain) EXCEPT !.universe = <<eth, BTC>>]>>,
      <<[First(Plain) EXCEPT !.btcRow.close = 300]>>, <<First(Plain), Unaveraged>>,
      <<Idle, Second>>,
      <<Day(2, NoView, Rising, TRUE, Plain, <<eth, sol>>)>> }

Default ==
    [btcWeight |-> 30, trendWeight |-> 70, dynamic |-> TRUE, dualLeg |-> FALSE, cut |-> 50,
     topN |-> 2, equal |-> FALSE, volScaling |-> FALSE, targetVol |-> 2, maxLeverage |-> 100,
     breaker |-> FALSE, drawdown |-> 30, refresh |-> TRUE]

Setting(config, money, rate, cached) ==
    [config |-> config, cash |-> money, rate |-> rate, pool |-> cached, poolAsOf |-> 1]

MCSettings ==
    LET All == [Default EXCEPT !.btcWeight = 100, !.trendWeight = 100, !.dynamic = FALSE]
        Frozen == [Default EXCEPT !.refresh = FALSE, !.breaker = TRUE, !.equal = TRUE]
        Scaled2 == [Default EXCEPT !.dualLeg = TRUE, !.volScaling = TRUE, !.topN = 1]
        Unsound == { [Default EXCEPT !.targetVol = 0], [Default EXCEPT !.maxLeverage = -1],
                     [Default EXCEPT !.trendWeight = -20], [Default EXCEPT !.btcWeight = -80],
                     [Default EXCEPT !.btcWeight = -100, !.trendWeight = 300, !.maxLeverage = 300,
                                     !.dynamic = FALSE] }
    IN  { Setting(c, money, rate, cached) :
            c \in {Default, All, Frozen, Scaled2}, money \in {900, 2400}, rate \in {0, 10},
            cached \in {<<eth>>, <<sol, eth>>} }
          \cup {Setting(c, 900, 10, <<eth>>) : c \in Unsound}
          \cup {Setting(Default, 0, 0, <<eth>>), Setting(Default, 900, 0, <<eth, eth>>)}

=============================================================================
