------------------------------ MODULE Dialect -------------------------------
(***************************************************************************)
(* What the engines call things: canonical types (types.ts), the types of   *)
(* the readers and of the DDL generators, identifiers, column lists and     *)
(* whether a CREATE TABLE is accepted.  A name is a sequence of characters. *)
(***************************************************************************)
EXTENDS Integers, Sequences, FiniteSets, SequencesExt

CONSTANTS PgLimit,     \* the longest Postgres identifier: 63
          MysqlLimit   \* the longest MySQL identifier: 64

ASSUME DialectAssumption == PgLimit \in Nat \ {0} /\ MysqlLimit \in Nat \ {0}

Engine == {"mongodb", "postgres", "mysql"}
Sql == {"postgres", "mysql"}

CanonicalType ==
  {"string", "int", "long", "float", "double", "decimal", "boolean", "date", "timestamp", "time",
   "binary", "uuid", "objectid", "json", "jsonb", "array", "mixed", "null", "unknown"}

-----------------------------------------------------------------------------
(* Types of a source's columns. *)

pgUdtToCanonical ==
  [int4 |-> "int", int8 |-> "long", float8 |-> "double", numeric |-> "decimal", bool |-> "boolean",
   text |-> "string", uuid |-> "uuid", json |-> "json", jsonb |-> "jsonb", bytea |-> "binary",
   date |-> "date", timestamptz |-> "timestamp", time |-> "time", _int4 |-> "array", hstore |-> "string"]

mysqlTypeToCanonical ==
  [tinyint1 |-> "boolean", int |-> "int", bigint |-> "long", float |-> "float", double |-> "double",
   decimal |-> "decimal", varchar |-> "string", blob |-> "binary", date |-> "date",
   datetime |-> "timestamp", time |-> "time", json |-> "json", geometry |-> "unknown"]

\* A value the Mongo driver returned: an integral number is an int, however large.
canonicalBsonType(x) ==
  CASE x.is = "null" -> "null"
    [] x.is = "number" -> IF x.v = <<"frac">> THEN "double" ELSE "int"
    [] x.is = "boolean" -> "boolean"
    [] x.is = "string" -> "string"
    [] x.is = "Date" -> "timestamp"
    [] x.is = "array" -> "array"
    [] x.is = "ObjectId" -> "objectid"
    [] x.is = "Decimal128" -> "decimal"
    [] x.is = "Long" -> "long"
    [] x.is = "Binary" -> "binary"
    [] OTHER -> "jsonb"

\* The type of a field from the values of the sample; nullable when one of them is null.
ResolveType(sample) ==
  LET nonNull == {canonicalBsonType(x) : x \in sample} \ {"null"} IN
  IF nonNull = {} THEN "null"
  ELSE IF Cardinality(nonNull) = 1 THEN CHOOSE t \in nonNull : TRUE ELSE "mixed"

-----------------------------------------------------------------------------
(* Types of a destination's columns. *)

Text == {"string", "mixed", "null", "unknown"}
Json == {"json", "jsonb", "array"}

canonicalToPgType(t) ==
  CASE t \in Text -> "TEXT" [] t = "int" -> "INTEGER" [] t = "long" -> "BIGINT"
    [] t = "float" -> "REAL" [] t = "double" -> "DOUBLE PRECISION" [] t = "decimal" -> "NUMERIC"
    [] t = "boolean" -> "BOOLEAN" [] t = "date" -> "DATE" [] t = "timestamp" -> "TIMESTAMPTZ"
    [] t = "time" -> "TIME" [] t = "binary" -> "BYTEA" [] t = "uuid" -> "UUID"
    [] t = "objectid" -> "VARCHAR(24)" [] t \in Json -> "JSONB"

canonicalToMysqlType(t) ==
  CASE t \in Text -> "TEXT" [] t = "int" -> "INT" [] t = "long" -> "BIGINT"
    [] t = "float" -> "FLOAT" [] t = "double" -> "DOUBLE" [] t = "decimal" -> "DECIMAL(65,10)"
    [] t = "boolean" -> "TINYINT(1)" [] t = "date" -> "DATE" [] t = "timestamp" -> "DATETIME(6)"
    [] t = "time" -> "TIME" [] t = "binary" -> "LONGBLOB" [] t = "uuid" -> "VARCHAR(36)"
    [] t = "objectid" -> "VARCHAR(24)" [] t \in Json -> "JSON"

SqlType(engine, t) == IF engine = "postgres" THEN canonicalToPgType(t) ELSE canonicalToMysqlType(t)

-----------------------------------------------------------------------------
(* Identifiers. *)

Truncate(name, limit) == SubSeq(name, 1, IF Len(name) > limit THEN limit ELSE Len(name))

\* trim: blanks at the ends.
Trim(name) ==
  LET solid == {i \in DOMAIN name : name[i] # " "} IN
  IF solid = {} THEN <<>>
  ELSE SubSeq(name, CHOOSE i \in solid : \A j \in solid : i <= j, CHOOSE i \in solid : \A j \in solid : i >= j)

sqlIdent(name) ==
  LET s == Trim([i \in DOMAIN name |-> IF name[i] \in {".", "$"} THEN "_" ELSE name[i]]) IN
  Truncate(IF s = <<>> THEN <<"_", "f", "i", "e", "l", "d">> ELSE s, PgLimit)

Digits == {"0", "1", "2"}
mysqlIdent(name) ==
  LET s == [i \in DOMAIN name |-> IF name[i] \in {".", "$", " ", "-"} THEN "_" ELSE name[i]] IN
  Truncate(IF s # <<>> /\ s[1] \in Digits THEN <<"_">> \o s ELSE s, MysqlLimit)

Ident(engine, name) == IF engine = "postgres" THEN sqlIdent(name) ELSE mysqlIdent(name)

\* Mutant of ColumnList: names that have become equal stay equal.
ColumnListPlain(engine, names) == [i \in DOMAIN names |-> Ident(engine, names[i])]

\* pgColumnList, mysqlColumnList: a name already in the list gets underscores.
ColumnList(engine, names) ==
  LET Fresh[name \in Seq(STRING), seen \in SUBSET Seq(STRING)] ==
        IF name \in seen THEN Fresh[Append(name, "_"), seen] ELSE name IN
  FoldLeft(LAMBDA list, name : Append(list, Fresh[Ident(engine, name), ToSet(list)]), <<>>, names)

\* The server shortens a long quoted Postgres name, and refuses a long MySQL name.
Known(engine, name) == IF engine = "postgres" THEN Truncate(name, PgLimit) ELSE name
NameAllowed(engine, name) == name # <<>> /\ (engine = "mysql" => Len(name) <= MysqlLimit)

\* MySQL asks for a key length it is not given when a key column is text or a blob.
KeyAllowed(engine, t) == engine = "postgres" \/ SqlType(engine, t) \notin {"TEXT", "LONGBLOB", "JSON"}

\* Is the CREATE TABLE of buildCreateTable or buildMysqlCreateTable accepted?
TableCreated(engine, table, cols) ==
  LET list == ColumnList(engine, [i \in DOMAIN cols |-> cols[i].name]) IN
  /\ NameAllowed(engine, Ident(engine, table))
  /\ \A i \in DOMAIN list : NameAllowed(engine, list[i])
  /\ \A i, j \in DOMAIN list : Known(engine, list[i]) = Known(engine, list[j]) => i = j
  /\ \A i \in DOMAIN cols : cols[i].pk => KeyAllowed(engine, cols[i].type)
=============================================================================
