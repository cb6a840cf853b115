--------------------------- MODULE MCEquityCombo ---------------------------
(* Model values for EquityCombo: two trend symbols, accounts of about 100  *)
(* units, and markets in which the two regime sources disagree, readings   *)
(* go missing and prices move between 5, 10 and 20.                        *)
EXTENDS EquityCombo

CONSTANTS eth, sol

MCSymbols == {eth, sol}

(* The dynamic ratio in steps, over equities scaled down. *)
MCRatio(e) == IF e < 90 THEN 40 ELSE 60

Default ==
    [btcWeight |-> 30, trendWeight |-> 70, dynamic |-> TRUE, dualLeg |-> FALSE, cut |-> 50,
     topN |-> 2, equal |-> FALSE, volScaling |-> TRUE, targetVol |-> 4, maxLeverage |-> 100,
     breaker |-> TRUE, drawdown |-> 30, refresh |-> TRUE]

DualLeg == [Default EXCEPT !.dualLeg = TRUE, !.targetVol = 1, !.breaker = FALSE]

(* Weights a caller may configure although they sum to more than one. *)
Overweight ==
    [Default EXCEPT !.btcWeight = 100, !.trendWeight = 100, !.dynamic = FALSE, !.equal = TRUE,
                    !.targetVol = 20, !.refresh = FALSE]

Capped == [Default EXCEPT !.maxLeverage = 40, !.topN = 1, !.cut = 20, !.targetVol = 2]

MCConfigs == {Default, DualLeg, Overweight, Capped}

View(price, ceiling, sma60, score, vol) ==
    [price |-> price, ceiling |-> ceiling, sma60 |-> sma60, atr |-> 2, score |-> score, vol |-> vol]

Row(known, on, close) == [known |-> known, regimeOn |-> on, close |-> close, sma200 |-> 9]

Bench(given, on, gap, slope) ==
    [given |-> given, regimeOn |-> on, gap |-> gap, ratio |-> None, slope |-> slope,
     close |-> None, ma200 |-> None]

Plain == [known |-> TRUE, scales |-> FALSE, multiplier |-> 100, exposure |-> None]
Cheap == [known |-> TRUE, scales |-> TRUE, multiplier |-> 300, exposure |-> None]
Exiting == [known |-> TRUE, scales |-> TRUE, multiplier |-> 150, exposure |-> 25]
NoPlan == [known |-> FALSE, scales |-> FALSE, multiplier |-> 0, exposure |-> None]

Market(eView, eMark, sView, sMark, row, bench, dca, universe) ==
    [mark |-> [s \in MCSymbols \cup {BTC} |->
                  IF s = eth THEN eMark ELSE IF s = sol THEN sMark ELSE 10],
     input |-> [btcPrice |-> 10, view |-> [s \in MCSymbols |-> IF s = eth THEN eView ELSE sView],
                btcRow |-> row, benchmark |-> bench, dca |-> dca],
     universe |-> universe]

Leading == View(10, 9, 8, 2, 2)
Trailing == View(10, 9, 8, 1, 4)
Fallen == View(5, 9, 8, 1, 4)
Doubled == View(20, 12, 10, 4, 2)
Unquoted == View(None, 9, 8, 1, 2)
NoRow == View(10, None, 0, 0, 0)

OnBench == Bench(TRUE, TRUE, None, None)
OffBench == [Bench(TRUE, None, None, None) EXCEPT !.close = 9, !.ma200 = 9]

MCMarkets ==
    { Market(Leading, 10, Trailing, 10, Row(TRUE, TRUE, 12), OnBench, Plain, <<eth, sol>>),
      Market(Doubled, 20, Fallen, 5, Row(TRUE, TRUE, 12), OnBench, Cheap, <<sol, eth>>),
      Market(Fallen, 5, Leading, 10, Row(TRUE, TRUE, 12), Bench(TRUE, None, 2, -1), Exiting, <<eth, sol>>),
      Market(Leading, 10, Trailing, 10, Row(TRUE, TRUE, 12), OffBench, Plain, <<sol, sol>>),
      Market(Leading, 10, Trailing, 10, Row(TRUE, FALSE, 9), OnBench, NoPlan, <<eth, sol>>),
      Market(Leading, 10, Trailing, 10, Row(FALSE, FALSE, 0), OnBench, Cheap, <<eth, sol>>),
      Market(Leading, 10, Unquoted, 10, Row(TRUE, TRUE, 12), Bench(TRUE, None, -2, -20), Plain, <<eth, sol>>),
      Market(NoRow, 10, Trailing, 10, Row(TRUE, TRUE, 6), Bench(FALSE, None, None, None), Plain, <<sol, eth>>),
      Market(Leading, 10, Trailing, 10, Row(FALSE, FALSE, 0), Bench(FALSE, None, None, None), Plain, <<eth>>) }

Account(money, held, b, e, s) ==
    [cash |-> money, locked |-> held, lots |-> [x \in MCSymbols \cup {BTC} |->
                                 IF x = BTC THEN b ELSE IF x = eth THEN e ELSE s]]

MCAccounts == {Account(100, 0, 0, 0, 0), Account(25, 20, 0, 2, 2), Account(10, 90, 0, 0, 0)}

=============================================================================
