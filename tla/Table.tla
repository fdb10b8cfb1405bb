-------------------------------- MODULE Table --------------------------------
(***************************************************************************)
(* b2g-info/table.cpp: the tables that b2g-info prints, as values.  A      *)
(* table is a sequence of rows and one header over several columns; the    *)
(* operators below are the methods that change one, and the layout that    *)
(* print_with_indent() gives it.                                           *)
(***************************************************************************)
EXTENDS Integers, Sequences, FiniteSetsExt

\* The start and the end of the header of a table without one.
Absent == -1

\* Table::Table()
EmptyTable == [rows |-> <<>>, label |-> 0, start |-> Absent, end |-> Absent]

StartRow(t) ==
  [t EXCEPT !.rows = Append(@, [delimiter |-> FALSE, cells |-> <<>>])]

AddDelimiter(t) ==
  [t EXCEPT !.rows = Append(@, [delimiter |-> TRUE, cells |-> <<>>])]

\* A label of so many characters over the columns start..end-1, from 0.
MultiColHeader(t, label, start, end) ==
  [rows |-> t.rows, label |-> label, start |-> start, end |-> end]

\* add() asserts that there is a row.
HasRow(t) == t.rows # <<>>

\* Mistake: the first row gets all the cells.
AddToFirstRow(t, cell) == [t EXCEPT !.rows[1].cells = Append(@, cell)]

\* The cell goes to the last row, be it a delimiter.
AddCell(t, cell) == [t EXCEPT !.rows[Len(t.rows)].cells = Append(@, cell)]

-----------------------------------------------------------------------------
(***************************************************************************)
(* print_with_indent().  Columns count from 0; cell.len is the length of a *)
(* text, cell.left whether it is set to the left of its column.            *)
(***************************************************************************)
Rows(t) == {t.rows[r] : r \in 1..Len(t.rows)}

Columns(t) == Max({Len(row.cells) : row \in Rows(t)} \cup {0})

\* Mistake: the width of a column is that of its heading.
WidthOfFirst(t, i) ==
  IF Len(t.rows[1].cells) > i THEN t.rows[1].cells[i + 1].len ELSE 0

Width(t, i) ==
  Max({row.cells[i + 1].len : row \in {r \in Rows(t) : Len(r.cells) > i}})

AssertsHold(t) ==
  /\ t.start = Absent <=> t.end = Absent
  /\ t.start < Columns(t)
  /\ t.end <= Columns(t)

\* The characters of the columns first..last, a blank after each.
Through(t, first, last) ==
  MapThenSumSet(LAMBDA i : Width(t, i) + 1, first..last)

\* The place of the first bar of the header, and the characters between it
\* and the second.
FirstBar(t) == Through(t, 0, t.start - 1)
LastColumn(t) == IF t.end - 1 > t.start THEN t.end - 1 ELSE t.start

\* Mistake: only one of the two bars is taken off the width.
BetweenWithOneBar(t) ==
  Through(t, t.start, LastColumn(t) - 1) + Width(t, LastColumn(t)) - 1

Between(t) ==
  Through(t, t.start, LastColumn(t) - 1) + Width(t, LastColumn(t)) - 2
Spaces(t) == Max({Between(t) - t.label, 0})
SecondBar(t) ==
  FirstBar(t) + 1 + (Spaces(t) + 1) \div 2 + t.label + Spaces(t) \div 2

\* The length of the delimiters.
TableWidth(t) == Through(t, 0, Columns(t) - 1) - 1

\* printf("%*s") fills a field up to the width of its column, and a longer
\* text overflows it; a blank follows each cell but the last.
Field(t, row, i) == Max({Width(t, i), row.cells[i + 1].len})
FieldAt(t, row, i) == MapThenSumSet(LAMBDA j : Field(t, row, j) + 1, 0..i - 1)
TextAt(t, row, i) ==
  FieldAt(t, row, i) +
    (IF row.cells[i + 1].left THEN 0
     ELSE Field(t, row, i) - row.cells[i + 1].len)
=============================================================================
