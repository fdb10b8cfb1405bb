----------------------------- MODULE TableClient -----------------------------
(***************************************************************************)
(* Any client of Table: it calls the methods in any order table.h allows,  *)
(* that is, with a row before the first cell, and prints it once.         *)
(***************************************************************************)
EXTENDS Table

CONSTANTS
  Cells,   \* the cells to add
  Headers, \* the headers to set: label, start and end
  MaxRows, \* the rows of a table (a bound of the model)
  MaxCells \* the cells of a row (a bound of the model)

ASSUME TableClientAssumption ==
  /\ Cells \subseteq [len : 0..127, left : BOOLEAN]
  /\ Headers \subseteq [label : Nat, start : Nat, end : Nat]
  /\ MaxRows \in Nat /\ MaxCells \in Nat

VARIABLES
  sheet, \* the table
  stage  \* "building", "printed" or "aborted"

clientVars == <<sheet, stage>>

ClientInit == sheet = EmptyTable /\ stage = "building"

NewRow ==
  /\ stage = "building" /\ Len(sheet.rows) < MaxRows
  /\ sheet' = StartRow(sheet)
  /\ UNCHANGED stage

Delimit ==
  /\ stage = "building" /\ Len(sheet.rows) < MaxRows
  /\ sheet' = AddDelimiter(sheet)
  /\ UNCHANGED stage

Add(cell) ==
  /\ stage = "building" /\ HasRow(sheet)
  /\ Len(sheet.rows[Len(sheet.rows)].cells) < MaxCells
  /\ sheet' = AddCell(sheet, cell)
  /\ UNCHANGED stage

SetHeader(h) ==
  /\ stage = "building" /\ sheet.start = Absent
  /\ sheet' = MultiColHeader(sheet, h.label, h.start, h.end)
  /\ UNCHANGED stage

LayOut ==
  /\ stage = "building"
  /\ stage' = IF AssertsHold(sheet) THEN "printed" ELSE "aborted"
  /\ UNCHANGED sheet

ClientNext ==
  \/ NewRow \/ Delimit \/ LayOut
  \/ \E cell \in Cells : Add(cell)
  \/ \E h \in Headers : SetHeader(h)

ClientSpec == ClientInit /\ [][ClientNext]_clientVars

-----------------------------------------------------------------------------
Printed == stage = "printed"
TextRows == {row \in Rows(sheet) : ~row.delimiter}

\* The cells of a column stand below each other, apart from the columns
\* beside it, whatever the lengths of the texts: all texts of column i lie
\* between the same two places, and delimiters reach to the end of the last
\* column (table.cpp:120-138, 184-191).
Aligned ==
  Printed =>
    /\ \A r1, r2 \in TextRows : \A i \in 1..Len(r1.cells), j \in 1..Len(r2.cells) :
         LET end1 == TextAt(sheet, r1, i - 1) + r1.cells[i].len
             start2 == TextAt(sheet, r2, j - 1)
         IN /\ i < j => end1 < start2
            /\ i = j /\ r1.cells[i].left /\ r2.cells[j].left =>
                 TextAt(sheet, r1, i - 1) = start2
            /\ i = j /\ ~r1.cells[i].left /\ ~r2.cells[j].left =>
                 end1 = start2 + r2.cells[j].len
    /\ \A r \in TextRows : \A i \in 1..Len(r.cells) :
         TextAt(sheet, r, i - 1) + r.cells[i].len <= TableWidth(sheet)

\* The bars of a header that is not too long for its columns stand over the
\* first character of the first of them and the last of the last; a label
\* that is too long is printed all the same; and the asserts are all the
\* header needs: the columns it reads the widths of are columns of the table
\* (table.cpp:141-169).
HeaderSpansItsColumns ==
  Printed /\ sheet.start # Absent =>
    /\ sheet.start..LastColumn(sheet) \subseteq 0..Columns(sheet) - 1
    /\ LET end == Through(sheet, 0, LastColumn(sheet) - 1)
                    + Width(sheet, LastColumn(sheet)) - 1
       IN IF SecondBar(sheet) - FirstBar(sheet) - 1 > sheet.label
          THEN SecondBar(sheet) = end
          ELSE /\ SecondBar(sheet) = FirstBar(sheet) + 1 + sheet.label
               /\ SecondBar(sheet) >= end
=============================================================================
