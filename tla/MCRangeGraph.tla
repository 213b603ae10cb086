---------------------------- MODULE MCRangeGraph ----------------------------
(* RangeGraph for TLC: two columns, the first with four rows. *)
EXTENDS RangeGraph

MCCells == {<<1, 1>>, <<1, 2>>, <<1, 3>>, <<1, 4>>, <<2, 1>>}

\* A column, a row, and rectangles below and above MinCells.
MCReads ==
    {{CellId(2, 1)},
     {RangeId(1, 1, 1, 5)},
     {RangeId(1, 1, 2, 4)},
     {RangeId(1, 2, 1, 2)},
     {RangeId(1, 1, 3, 4), CellId(2, 1)}}

MCPeriod == <<<<1, 3>>, <<1, 4>>, <<0, 0>>>>
=============================================================================
