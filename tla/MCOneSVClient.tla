---------------------------- MODULE MCOneSVClient ----------------------------
(***************************************************************************)
(* Small instances of OneSVClient.  The PRF tables combine rows of select  *)
(* values with a proper median, rows the filters reject and rows whose     *)
(* median occurs twice, with offsets wider than a partition.               *)
(***************************************************************************)
EXTENDS OneSVClient

CONSTANTS
  Rows,        \* rows of select values to choose from
  RowChoices,  \* set of functions from HintIds to DOMAIN Rows
  Seeds        \* seeds of the offset tables and of the dummy stream

MCLowerFilter == 7
MCUpperFilter == 9

(* Two partitions: two valid rows, a repeated median, a filtered row. *)
MCRows2 == << <<7, 9>>, <<9, 8>>, <<8, 8>>, <<3, 8>> >>

(* Four partitions: valid rows, then a filtered and a repeated one. *)
MCRows4 == << <<3, 8, 9, 14>>, <<9, 7, 14, 8>>, <<8, 9, 3, 7>>,
              <<3, 4, 8, 9>>, <<8, 9, 9, 14>> >>

(* The row of every hint: the rows are dealt out with a stride and a start *)
(* of their own in every choice.                                           *)
Dealt(stride, start) ==
  [h \in HintIds |-> 1 + ((stride * h + start + (h \div 3))
                            % Cardinality(DOMAIN Rows))]
MCSomeChoices == {Dealt(a, b) : a \in 1 .. 5, b \in 0 .. 3}
MCFewChoices  == {Dealt(a, b) : a \in 1 .. 3, b \in {0, 2}}

MCPrfTables ==
  {[v |-> [h \in HintIds |-> [k \in Parts |-> Rows[c[h]][k + 1]]],
    r |-> [h \in HintIds |-> [k \in Parts |-> (5 * h + 3 * k + s * (h + k + 1)) % 16]],
    d |-> [n \in 0 .. DummyPeriod - 1 |-> (7 * n + s + (n \div 3)) % 16]] :
      c \in RowChoices, s \in Seeds}

MCGarbage == {[id |-> 0, part |-> 0, offset |-> 0],
              [id |-> M + 1, part |-> PartNum, offset |-> PartSize - 1]}
=============================================================================
