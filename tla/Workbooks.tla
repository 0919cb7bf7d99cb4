------------------------------ MODULE Workbooks ------------------------------
(***************************************************************************)
(* What the seed command reads off the LCGPA workbooks, as the sequence of *)
(* upserts it makes (apps/seed/management/commands/seed_lcgpa.py).         *)
(*                                                                         *)
(* A row is a sequence of cells, a cell is a string and "" an empty cell.  *)
(* The Arabic and English wordings of a header are one header cell here:   *)
(* "segment", "etimad", "date", or the year a column is for.               *)
(***************************************************************************)
EXTENDS Integers, SequencesExt

CONSTANTS
  YearHeaders,  \* the header cells that name a year
  Decimals,     \* the cells _dec can read as a number
  TooWide       \* the cells that overflow the column they are for

(* An upsert: the row's unique key and the defaults written to it.         *)
Upsert(table, code, scope, value) ==
  [key |-> <<table, code, scope>>, value |-> value]

Cell(row, c) == IF c \in DOMAIN row THEN row[c] ELSE ""

(* The last column under that header, or 0.                                *)
ColumnOf(headers, name) ==
  LET cols == {c \in DOMAIN headers : headers[c] = name}
  IN  IF cols = {} THEN 0 ELSE CHOOSE c \in cols : \A k \in cols : k <= c

-----------------------------------------------------------------------------
(* Appendix B: sectors in column 2, scores in column 3; header rows and    *)
(* text have no score.                                                     *)
Sectors(rows) ==
  FoldLeft(LAMBDA out, row :
             IF Cell(row, 2) \in {"", "Sector"} \/ Cell(row, 3) \notin Decimals THEN out
             ELSE Append(out, Upsert("sector", Cell(row, 2), "", Cell(row, 3))),
           << >>, rows)

(* A Mandatory List sheet: a title, one header row and the products.  The  *)
(* segment is written once for merged cells and filled forward.            *)
Commodities(sheet) ==
  LET segmentCol == ColumnOf(sheet.headers, "segment")
      etimadCol  == ColumnOf(sheet.headers, "etimad")
      Read(acc, row) ==
        LET segment == IF Cell(row, segmentCol) = "" THEN acc.segment
                       ELSE Cell(row, segmentCol)
            code == Cell(row, etimadCol)
        IN  [segment |-> segment,
             out |-> IF code = "" THEN acc.out
                     ELSE Append(acc.out, Upsert("commodity", code, sheet.title, segment))]
  IN  IF etimadCol = 0 THEN << >>
      ELSE FoldLeft(Read, [segment |-> "", out |-> << >>], sheet.rows).out

(* A row that holds the Etimad heading starts a new table: the map of the  *)
(* columns is rebuilt from it.                                             *)
HeaderColumns(acc, row) ==
  [etimad |-> ColumnOf(row, "etimad"),
   years |-> {c \in DOMAIN row : row[c] \in YearHeaders},
   header |-> row, out |-> acc.out]

(* Mutant: an empty cell is a threshold too.                               *)
ProductRowUnread(acc, row) ==
  LET code == Cell(row, acc.etimad)
      Take(out, c) ==
        IF c \in acc.years
        THEN Append(out, Upsert("threshold", code, acc.header[c], Cell(row, c))) ELSE out
  IN  IF acc.etimad = 0 \/ acc.years = {} \/ code = "" THEN acc
      ELSE [acc EXCEPT !.out = FoldLeft(Take, @, [c \in DOMAIN row |-> c])]

(* A row of products: one threshold per year column that holds a number.   *)
ProductRow(acc, row) ==
  LET code == Cell(row, acc.etimad)
      Take(out, c) ==
        IF c \in acc.years /\ Cell(row, c) \in Decimals
        THEN Append(out, Upsert("threshold", code, acc.header[c], Cell(row, c))) ELSE out
  IN  IF acc.etimad = 0 \/ acc.years = {} \/ code = "" THEN acc
      ELSE [acc EXCEPT !.out = FoldLeft(Take, @, [c \in DOMAIN row |-> c])]

(* The minimum percentages: several tables in one sheet.                   *)
Thresholds(rows) ==
  FoldLeft(LAMBDA acc, row : IF ColumnOf(row, "etimad") # 0 THEN HeaderColumns(acc, row)
                             ELSE ProductRow(acc, row),
           [etimad |-> 0, years |-> {}, header |-> << >>, out |-> << >>],
           rows).out

-----------------------------------------------------------------------------
(* handle: the workbooks in order, a missing one is skipped.  The template *)
(* may be there without its sheet "Appendix B".                            *)
Missing == "missing"
NoSheet == "no sheet"

Row == Seq(STRING)

Sheet == [title : STRING, headers : Row, rows : Seq(Row)]

Listing == [vat : STRING, score : STRING]

(* What openpyxl can load; the vendors of the whitelist are in the code.   *)
(* Whether the directory of the workbooks is there is kept beside them.    *)
IsBook(book) ==
  /\ book.found \in BOOLEAN
  /\ book.sectors = Missing \/ book.sectors = NoSheet \/ book.sectors \in Seq(Row)
  /\ book.mandatory = Missing \/ book.mandatory \in Seq(Sheet)
  /\ book.thresholds = Missing \/ book.thresholds \in Seq(Seq(Row))
  /\ book.whitelist \in Seq(Listing) \ {<< >>}

Plan(book) ==
  (IF book.sectors = Missing \/ book.sectors = NoSheet THEN << >> ELSE Sectors(book.sectors))
  \o (IF book.mandatory = Missing THEN << >>
      ELSE FoldLeft(LAMBDA out, sheet : out \o Commodities(sheet), << >>, book.mandatory))
  \o (IF book.thresholds = Missing THEN << >>
      ELSE FoldLeft(LAMBDA out, rows : out \o Thresholds(rows), << >>, book.thresholds))
  \o [i \in DOMAIN book.whitelist |->
        Upsert("whitelist", book.whitelist[i].vat, "", book.whitelist[i].score)]

(* The load raises before it writes anything: CommandError when there is   *)
(* no directory, KeyError when there is no sheet.                          *)
Raises(book) == ~book.found \/ book.sectors = NoSheet

(* The database takes the row: a longer text, or a number of more digits   *)
(* than the column has, is a DataError.                                    *)
Fits(upsert) == upsert.key[2] \notin TooWide /\ upsert.value \notin TooWide

(* What is left under a key after a whole plan: its last upsert.           *)
Final(plan, key) ==
  plan[CHOOSE i \in DOMAIN plan : /\ plan[i].key = key
                                  /\ \A j \in DOMAIN plan : plan[j].key = key => j <= i].value
==============================================================================
