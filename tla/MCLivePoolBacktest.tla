------------------------- MODULE MCLivePoolBacktest -------------------------
(* Model values for LivePoolBacktest: three symbols that enter and leave   *)
(* the universe, tie on scores, miss opens while held and while not, on    *)
(* panels that agree up to a row and differ after it.                      *)
EXTENDS LivePoolBacktest

CONSTANTS eth, sol, bnb

MCSymbols == {eth, sol, bnb}

Cell(open, member, score) == [open |-> open, member |-> member, score |-> score]

RowOf(e, s, b) == [x \in MCSymbols |-> IF x = eth THEN e ELSE IF x = sol THEN s ELSE b]

Base ==
    << RowOf(Cell(100, TRUE, 3), Cell(200, TRUE, 2), Cell(100, TRUE, 1)),
       RowOf(Cell(200, TRUE, 1), Cell(100, TRUE, 3), Cell(0, FALSE, 0)),
       RowOf(Cell(100, TRUE, 2), Cell(200, TRUE, 2), Cell(100, FALSE, 0)),
       RowOf(Cell(200, FALSE, 0), Cell(200, TRUE, 1), Cell(200, TRUE, 4)),
       RowOf(Cell(100, TRUE, 1), Cell(100, FALSE, 0), Cell(300, TRUE, 2)),
       RowOf(Cell(300, TRUE, 1), Cell(200, TRUE, 2), Cell(100, TRUE, 3)) >>

MCPanels ==
    { Base,
      [Base EXCEPT ![3] = RowOf(Cell(100, TRUE, 1), Cell(200, TRUE, 2), Cell(100, TRUE, 5))],
      [Base EXCEPT ![2][eth].score = 5, ![4][sol].open = 100],
      [Base EXCEPT ![3][eth].open = 0, ![5][bnb].open = 0],
      [Base EXCEPT ![4] = RowOf(Cell(200, FALSE, 0), Cell(200, FALSE, 0), Cell(200, FALSE, 0)),
                   ![6][sol].open = 0],
      [i \in 1..2 |-> RowOf(Cell(100, FALSE, 1), Cell(100, FALSE, 1), Cell(0, FALSE, 1))] }

MCWindows == {<<1, 9>>, <<2, 6>>, <<3, 5>>, <<6, 6>>, <<7, 9>>}

MCOptions == [topN : 1..3, every : {1, 2}, lag : 0..2, rate : {0, 10}]

=============================================================================
