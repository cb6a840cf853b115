--------------------------- MODULE MCRotationPool ---------------------------
(* Model values for RotationPool: three symbols and five lists, among them *)
(* the empty one, one with a repeat, two that disagree on an order and two *)
(* that have no symbol in common.                                          *)
EXTENDS RotationPool

CONSTANTS eth, sol, bnb

MCSymbols == {eth, sol, bnb}

MCRawLists ==
    {<<>>, <<eth, sol, bnb>>, <<sol, eth>>, <<bnb, eth, bnb, sol>>, <<bnb>>}

=============================================================================
