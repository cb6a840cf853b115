-------------------------- MODULE MCComboBacktest --------------------------
(* Model values for ComboBacktest: two alts, prices of 1, 2 and 4, days    *)
(* missing from a history, and windows that start before, at, inside and   *)
(* after it.                                                               *)
EXTENDS ComboBacktest

CONSTANTS sol, dot

MCAlts == {sol, dot}

At(date, btc, below, s, d, up) ==
    [date |-> date, btc |-> btc, below |-> below,
     alt |-> [a \in MCAlts |-> IF a = sol THEN s ELSE d], up |-> up]

MCHistories ==
    { << At(11, 2, FALSE, 2, 1, {}), At(12, 1, TRUE, 1, 2, {sol}), At(13, 4, FALSE, 4, 1, {sol, dot}),
         At(14, 2, TRUE, 2, 4, {dot}), At(15, 1, TRUE, 1, 1, {}), At(16, 4, FALSE, 4, 2, {dot}) >>,
      << At(11, 1, TRUE, 1, 1, {sol, dot}), At(13, 2, TRUE, 4, 4, {}), At(14, 4, FALSE, 1, 4, {sol}),
         At(16, 1, FALSE, 1, 1, {dot}) >>,
      << At(12, 4, FALSE, 1, 1, {}) >> }

Combo(btc, trend, dynamic, cut) ==
    [dca |-> 200, btcWeight |-> btc, trendWeight |-> trend, dynamic |-> dynamic, cut |-> cut,
     minHistory |-> 2]

MCConfigs == {Combo(30, 70, TRUE, 50), Combo(30, 70, FALSE, 50), Combo(20, 40, TRUE, 100),
              Combo(0, 0, TRUE, 50), Combo(60, 40, TRUE, 25)}

MCRequests == [start : {0, 10, 12, 14, 16, 18}, end : {0, 11, 13, 14, 17}]

=============================================================================
