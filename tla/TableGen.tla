------------------------------ MODULE TableGen ------------------------------
(***************************************************************************)
(* The table generator (internal/tablegen): CSV templates, checked JSON    *)
(* data and typed readers for the tables a project declares.               *)
(*                                                                         *)
(*   tables  the marked structs, [name, kind, file, json, key, fields]:    *)
(*           kind "table" or "object", key the option or ""                *)
(*   fields  [name, csv, type, title, required, unique, min] in order:     *)
(*           type "int", "string" or "other", min a number or NoMin        *)
(*   csv     the files of configs/table, a function to sequences of rows   *)
(* A cell is Empty, <<"num", n>>, <<"text", t>>, or the heading of a       *)
(* field: <<"csv", f>>, <<"title", f>>, <<"type", f>>, <<"rule", r>>.      *)
(***************************************************************************)
EXTENDS Integers, Sequences, Functions, FiniteSets, Ordered

Empty == <<>>
NoMin == -1000

FieldsOf(table) == Range(table.fields)

Key(table) ==
    IF table.key = "" /\ table.kind = "table" THEN table.fields[1].name ELSE table.key

(* the generated readers take the first field when the key names none *)
KeyField(table) ==
    LET named == {f \in FieldsOf(table) : f.name = Key(table)}
    IN  IF named = {} THEN table.fields[1] ELSE CHOOSE f \in named : TRUE

(***************************************************************************)
(* The template: four rows, of which all but the first may be missing from *)
(* a file that is read.                                                    *)
(***************************************************************************)
Rule(f) ==
    LET rules == (IF f.required THEN <<"required">> ELSE <<>>) \o (IF f.unique THEN <<"unique">> ELSE <<>>)
                 \o (IF f.min # NoMin THEN <<"min">> ELSE <<>>)
    IN  IF rules = <<>> THEN Empty ELSE <<"rule", rules>>
Title(f) == IF f.title = "" THEN Empty ELSE <<"text", f.title>>
Type(f) == <<"text", f.type>>

HeadRows(table) ==
    LET Row(Cell(_)) == [i \in DOMAIN table.fields |-> Cell(table.fields[i])]
    IN  <<Row(LAMBDA f : <<"csv", f.csv>>), Row(Title), Row(Type), Row(Rule)>>

sameRow(row, head) == Len(row) >= Len(head) /\ SubSeq(row, 1, Len(head)) = head

csvDataStart(rows, table) ==
    LET heads == Tail(HeadRows(table))
        start[n \in 0..Len(heads)] ==
            IF n = 0 THEN 2
            ELSE LET at == start[n - 1]
                 IN  IF at <= Len(rows) /\ sameRow(rows[at], heads[n]) THEN at + 1 ELSE at
    IN  start[Len(heads)]

(* a file is read as a whole, and refused when its rows differ in length *)
Ragged(rows) == \E row \in Range(rows) : Len(row) # Len(rows[1])

isEmptyRow(row) == \A i \in DOMAIN row : row[i] = Empty

DataRows(rows, start) == Select(SubSeq(rows, start, Len(rows)), LAMBDA row : ~isEmptyRow(row))

(***************************************************************************)
(* Cells.                                                                  *)
(***************************************************************************)
zeroValue(f) == IF f.type = "int" THEN <<"num", 0>> ELSE Empty

BadCell(f, cell) ==
    \/ cell = Empty /\ f.required
    \/ cell # Empty /\ f.type = "int" /\ cell[1] # "num"

parseCell(f, cell) == IF cell = Empty THEN zeroValue(f) ELSE cell

(* the cell of a field: the last column with its name, when there is one *)
CellOf(header, row, f) ==
    LET columns == {i \in DOMAIN header : header[i] = <<"csv", f.csv>>}
        last == CHOOSE i \in columns : \A j \in columns : j <= i
    IN  IF columns = {} THEN "absent" ELSE IF last > Len(row) THEN Empty ELSE row[last]

Parsed(table, header, row) ==
    [name \in {f.name : f \in {g \in FieldsOf(table) : \E i \in DOMAIN header : header[i] = <<"csv", g.csv>>}} |->
        LET f == CHOOSE g \in FieldsOf(table) : g.name = name
        IN  parseCell(f, CellOf(header, row, f))]

readCSVRecords(rows, table) ==
    IF rows = <<>> THEN <<>>
    ELSE LET data == DataRows(rows, csvDataStart(rows, table))
         IN  [i \in DOMAIN data |-> Parsed(table, rows[1], data[i])]

BadCells(rows, table) ==
    rows # <<>> /\ \E row \in Range(DataRows(rows, csvDataStart(rows, table))) : \E f \in FieldsOf(table) :
        (\E i \in DOMAIN rows[1] : rows[1][i] = <<"csv", f.csv>>) /\ BadCell(f, CellOf(rows[1], row, f))

(* a key is unique only when a tag says so too *)
FaultyBadRows(rows, table) ==
    LET records == readCSVRecords(rows, table)
    IN  \E f \in FieldsOf(table) :
           \/ /\ f.unique
              /\ \E i, j \in DOMAIN records :
                    i # j /\ f.name \in DOMAIN records[i] /\ records[i][f.name] = records[j][f.name]
           \/ f.min # NoMin /\ f.type = "int" /\ \E i \in DOMAIN records :
                 f.name \in DOMAIN records[i] /\ records[i][f.name][2] < f.min

BadRows(rows, table) ==
    LET records == readCSVRecords(rows, table)
    IN  \E f \in FieldsOf(table) :
           \/ /\ f.unique \/ (table.kind = "table" /\ f.name = Key(table))
              /\ \E i, j \in DOMAIN records :
                    i # j /\ f.name \in DOMAIN records[i] /\ records[i][f.name] = records[j][f.name]
           \/ f.min # NoMin /\ f.type = "int" /\ \E i \in DOMAIN records :
                 f.name \in DOMAIN records[i] /\ records[i][f.name][2] < f.min

(* without a file in configs/table there is no data to convert *)
NoData(source) == DOMAIN source.csv = {}

Rejected(source) ==
    ~NoData(source) /\ \E table \in source.tables :
        \/ table.file \notin DOMAIN source.csv
        \/ Ragged(source.csv[table.file])
        \/ BadCells(source.csv[table.file], table)
        \/ BadRows(source.csv[table.file], table)

Payload(source, table) ==
    LET records == readCSVRecords(source.csv[table.file], table)
    IN  IF table.kind = "object" THEN SubSeq(records, 1, IF records = <<>> THEN 0 ELSE 1) ELSE records

(* what the generated Go file registers and reads *)
Go(source) == {[name |-> t.name, json |-> t.json, key |-> KeyField(t).name, table |-> t] : t \in source.tables}

(***************************************************************************)
(* The generated reader of a CSV file skips head rows by its own rule: it  *)
(* looks at their first cells only.                                        *)
(***************************************************************************)
convertRecords(table, rows) ==
    IF rows = <<>> THEN <<>>
    ELSE LET first == table.fields[1]
             Required(cell) == cell # Empty /\ cell[1] = "rule" /\ "required" \in Range(cell[2])
             Skip(start, Heads(_)) == IF start <= Len(rows) /\ Heads(rows[start][1]) THEN start + 1 ELSE start
             titled == Skip(2, LAMBDA cell : cell = Title(first))
             typed  == Skip(titled, LAMBDA cell : cell = Type(first))
             data   == DataRows(rows, Skip(typed, Required))
         IN  [i \in DOMAIN data |-> Parsed(table, rows[1], data[i])]

(***************************************************************************)
(* What the game loads is what the table's author wrote: every row and no  *)
(* heading, under a key of its own, within the limits of the tags; and the *)
(* generated reader of the CSV file sees the same rows.                    *)
(***************************************************************************)
Loads(source, data) ==
    \A table \in source.tables :
        LET rows    == source.csv[table.file]
            records == data[<<table.json>>]
            key     == KeyField(table).name
            written == Select(Tail(rows), LAMBDA row :
                          ~isEmptyRow(row) /\ \A head \in Range(HeadRows(table)) : row # head)
        IN  /\ table.kind = "table" => Len(records) = Len(written)
            /\ \A i \in DOMAIN records : \A f \in FieldsOf(table) :
                  /\ records[i][f.name] = (IF CellOf(rows[1], written[i], f) = Empty THEN zeroValue(f)
                                           ELSE CellOf(rows[1], written[i], f))
                  /\ f.required => records[i][f.name] # Empty
                  /\ f.min # NoMin /\ f.type = "int" => records[i][f.name][2] >= f.min
            /\ \A i, j \in DOMAIN records : i # j => records[i][key] # records[j][key]
            /\ table.kind = "table" => convertRecords(table, rows) = records
=============================================================================
