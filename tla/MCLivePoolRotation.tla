------------------------- MODULE MCLivePoolRotation -------------------------
(* Model values for LivePoolRotation: two symbols, a list of both and a    *)
(* list that drops one, and the views a cycle can show of a symbol.        *)
EXTENDS LivePoolRotation

CONSTANTS eth, sol

MCSymbols == {eth, sol}

MCRawLists == {<<eth, sol>>, <<sol>>}

View(quoted, price, atr, sma60, ceiling, score) ==
    [quoted |-> quoted, price |-> price, atr |-> atr, sma60 |-> sma60,
     ceiling |-> ceiling, score |-> score]

(* Inputs go missing: a symbol without ATR, a symbol that is not quoted. *)
GappyViews ==
    { View(TRUE, 4, 1, 1, 2, 2),    \* leading, above every average
      View(TRUE, 3, 0, 1, 1, 1),    \* trailing, no ATR
      View(FALSE, 0, 1, 1, 1, 1) }  \* not quoted

(* Prices fall from a high of 5 to an entry at 3 through the ATR stop, and *)
(* below the average that keeps a symbol a candidate, or are not quoted.   *)
FallingViews ==
    { View(TRUE, 5, 1, 1, 2, 2),
      View(TRUE, 3, 1, 1, 1, 2),
      View(TRUE, 3, 1, 1, 1, 1),
      View(TRUE, 1, 1, 2, 2, 2),
      View(FALSE, 0, 1, 1, 1, 1) }

=============================================================================
