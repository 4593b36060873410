---------------------------- MODULE MCConversion ----------------------------
(***************************************************************************)
(* Small transfers between every pair of engines, in three families: the     *)
(* values a column can hold, the names a column can have, and the keys a     *)
(* change is located by.                                                    *)
(***************************************************************************)
EXTENDS Transfer, TLC

Col(name, type, pk, nullable) == [name |-> name, type |-> type, pk |-> pk, nullable |-> nullable]
Tab == <<"t">>
IdName(from) == IF from = "mongodb" THEN ID ELSE <<"i", "d">>
C1 == <<"c">>
C2 == <<"d">>
TransferOf(from, to, family, table, columns, rs) ==
  [from |-> from, to |-> to, family |-> family, table |-> table, cols |-> columns, rows |-> rs,
   east |-> FALSE, changes |-> family = "keys"]

-----------------------------------------------------------------------------
(* Values. *)

Texts == {<<"a">>, <<BS, "n">>, <<BS, "N">>, <<TAB, "a">>, <<LF>>, <<CR, BS>>}
PgValues(u) ==
  CASE u = "int4" -> Small [] u = "int8" -> {<<"0">>, <<"big">>, <<"huge">>}
    [] u \in {"float8"} -> {<<"0">>, <<"frac">>} [] u = "numeric" -> {<<"frac">>, <<"huge">>}
    [] u = "bool" -> {<<"true">>, <<"false">>} [] u \in {"text", "hstore"} -> Texts
    [] u = "uuid" -> {<<"uuid">>} [] u \in {"json", "jsonb"} -> {<<"object">>, <<"array">>, <<"0">>, <<"a">>}
    [] u = "bytea" -> {<<"f", "f">>} [] u = "date" -> {<<"day">>} [] u = "timestamptz" -> {<<"instant">>}
    [] u = "time" -> {<<"time">>} [] u = "_int4" -> {<<"array">>}
MysqlValues(u) ==
  CASE u = "tinyint1" -> {<<"true">>, <<"false">>} [] u = "int" -> Small
    [] u = "bigint" -> {<<"0">>, <<"big">>, <<"huge">>} [] u \in {"float", "double"} -> {<<"0">>, <<"frac">>}
    [] u = "decimal" -> {<<"frac">>, <<"huge">>} [] u = "varchar" -> Texts [] u = "blob" -> {<<"f", "f">>}
    [] u = "date" -> {<<"day">>} [] u = "datetime" -> {<<"instant">>} [] u = "time" -> {<<"time">>}
    [] u = "json" -> {<<"object">>, <<"array">>, <<"0">>, <<"a">>} [] u = "geometry" -> {<<"object">>}

\* <<>>: NULL.
PgCells == UNION {{[type |-> pgUdtToCanonical[u], v |-> v] : v \in PgValues(u) \cup {<<>>}} : u \in DOMAIN pgUdtToCanonical}
MysqlCells == UNION {{[type |-> mysqlTypeToCanonical[u], v |-> v] : v \in MysqlValues(u) \cup {<<>>}} : u \in DOMAIN mysqlTypeToCanonical}

Bson ==
  {Null, J("number", <<"0">>), J("number", <<"big">>), J("number", <<"frac">>), J("boolean", <<"false">>),
   J("string", <<"a">>), J("string", <<LF>>), J("Date", <<"instant">>), J("array", <<"array">>), J("object", <<"object">>),
   J("ObjectId", <<"hex">>), J("Decimal128", <<"frac">>), J("Long", <<"huge">>), J("Binary", <<"f", "f">>)}
\* The types the sample of a field saw, and a document's value, which it need not have seen.
BsonCells == [seen : {{x, y} : x, y \in Bson}, v : Bson]

KeyTypes == {"int", "string", "uuid"}
SqlCells ==
  UNION {{[TransferOf(from, to, "cells", Tab,
      <<Col(IdName(from), key, TRUE, FALSE), Col(C1, cell.type, FALSE, TRUE)>>,
      1 :> <<IF key = "int" THEN <<"1">> ELSE <<key>>, cell.v>>) EXCEPT !.east = east] :
    to \in Engine, key \in KeyTypes, cell \in IF from = "postgres" THEN PgCells ELSE MysqlCells, east \in BOOLEAN} :
    from \in Sql}

KeyValue(type) == IF type = "objectid" THEN J("ObjectId", <<"hex">>) ELSE J("string", <<"a">>)
MongoCells ==
  {TransferOf("mongodb", to, "cells", Tab,
     <<Col(ID, key, TRUE, FALSE), Col(C1, ResolveType(cell.seen), FALSE, Null \in cell.seen)>>,
     1 :> <<KeyValue(key), cell.v>>) :
    to \in Engine, key \in {"objectid", "string"}, cell \in BsonCells}

-----------------------------------------------------------------------------
(* Names. *)

FieldName ==
  {<<"a">>, <<"a", "_", "b">>, <<"a", ".", "b">>, <<"a", " ", "b">>, <<"1", "a">>, <<"a", "a", "a", "a">>,
   <<"a", "a", "a", "a", "a">>, <<"a", "a", "a", "a", "b">>, ID, PK}
NameOf(from) ==
  CASE from = "mongodb" -> FieldName \ {ID}
    [] from = "postgres" -> {n \in FieldName : Len(n) <= PgLimit}
    [] from = "mysql" -> {n \in FieldName : Len(n) <= MysqlLimit}
IntOf(from, v) == IF from = "mongodb" THEN J("number", v) ELSE v
Scalar(from) == IF from = "mongodb" THEN "objectid" ELSE "uuid"
NamedCases ==
  UNION {{TransferOf(from, to, "names", table,
     <<Col(IdName(from), Scalar(from), TRUE, FALSE), Col(n, "int", FALSE, TRUE), Col(m, "int", FALSE, TRUE)>>,
     1 :> <<IF from = "mongodb" THEN J("ObjectId", <<"hex">>) ELSE <<"uuid">>, IntOf(from, <<"0">>), IntOf(from, <<"1">>)>>) :
    to \in Engine, table \in {Tab, <<"t", ".", "x">>}, n, m \in NameOf(from)} : from \in Engine}

-----------------------------------------------------------------------------
(* Keys: rows 1 and 2 under a key of 0 to 2 columns. *)

KeyCols(from, n) ==
  IF from = "mongodb" THEN <<Col(ID, IF n = 1 THEN "string" ELSE "objectid", TRUE, FALSE)>>
  ELSE SubSeq(<<Col(<<"k">>, "int", n > 0, FALSE), Col(<<"l">>, "uuid", n > 1, FALSE)>>, 1, IF n > 1 THEN 2 ELSE 1)
KeyVals(from, n, r) ==
  LET k == IF r = 1 THEN "0" ELSE "1" IN
  IF from = "mongodb" THEN <<J(IF n = 1 THEN "string" ELSE "ObjectId", <<k>>)>>
  ELSE SubSeq(<< <<k>>, <<"uuid">> >>, 1, IF n > 1 THEN 2 ELSE 1)
KeyCases ==
  {TransferOf(from, to, "keys", Tab, Append(KeyCols(from, n), Col(C1, "int", FALSE, TRUE)),
     [r \in RowId |-> Append(KeyVals(from, n, r), IntOf(from, <<"0">>))]) : from, to \in Engine, n \in 0..2}

MCCase == SqlCells \cup MongoCells \cup {c \in NamedCases : c.cols[2].name # c.cols[3].name} \cup KeyCases
=============================================================================
