--------------------------- MODULE MCTableClient ----------------------------
(***************************************************************************)
(* Short and long cells and headers for TableClient.                       *)
(***************************************************************************)
EXTENDS TableClient

TwoCells == {[len |-> 1, left |-> TRUE], [len |-> 4, left |-> FALSE]}
\* Over two columns, over one and beyond, over none.
SomeHeaders ==
  {[label |-> 2, start |-> 0, end |-> 2], [label |-> 1, start |-> 1, end |-> 3],
   [label |-> 9, start |-> 1, end |-> 2], [label |-> 1, start |-> 2, end |-> 0]}
=============================================================================
