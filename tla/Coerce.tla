------------------------------- MODULE Coerce -------------------------------
(***************************************************************************)
(* What becomes of one value: the JavaScript value the source's driver       *)
(* returns, the mapper's coercion, the writer's encoding, and what the       *)
(* destination's column makes of it.  A value is [is, v]: its JavaScript     *)
(* type, with "json" for a string that holds JSON text, and what it stands   *)
(* for: a token, or the characters of a text.                                *)
(***************************************************************************)
EXTENDS Dialect

J(is, v) == [is |-> is, v |-> v]
Null == J("null", <<>>)
Rejected == J("rejected", <<>>)   \* the destination refuses the row

Small == {<<"0">>, <<"1">>}
Integral == Small \cup {<<"big">>, <<"huge">>, <<"rounded">>}   \* big: beyond 32 bits; huge: beyond 2^53
Numeric == Integral \cup {<<"frac">>}

\* Number(v) and String(v); what has no such form is garbled.
AsNumber(x) == J("number", IF x.v = <<"huge">> /\ x.is # "number" THEN <<"rounded">>
                           ELSE IF x.v \in Numeric THEN x.v ELSE <<"NaN">>)
AsString(x) == IF x.is \in {"string", "json"} THEN x
               ELSE J("string", IF x.is \in {"object", "array", "Date", "Buffer"} THEN <<"garbled">> ELSE x.v)
AsJson(x) == J("json", IF x.is \in {"Buffer", "Binary"} THEN <<"garbled">> ELSE x.v)
AsHex(x) == J("string", x.v)
AsBuffer(x) == J("Buffer", x.v)
AsDate(x) == IF x.is = "Date" THEN x ELSE IF x.is \in {"string", "number"} THEN J("Date", x.v) ELSE Null
Truth(x) == IF x.v \in {<<"0">>, <<"false">>} THEN FALSE ELSE TRUE
AsBoolean(x) == J("boolean", IF Truth(x) THEN <<"true">> ELSE <<"false">>)
AsBit(x) == J("number", IF Truth(x) THEN <<"1">> ELSE <<"0">>)
IsText(x) == x.is \in {"string", "json"}
IsObject(x) == x.is \notin {"string", "json", "number", "boolean", "null"}

-----------------------------------------------------------------------------
(* The drivers: what a column of type t with value v is read as. *)

ReadPostgres(t, v) ==
  CASE t \in {"int", "float", "double"} -> J("number", v)
    [] t \in {"long", "decimal", "string", "uuid", "time"} -> J("string", v)
    [] t = "boolean" -> J("boolean", v)
    [] t \in {"date", "timestamp"} -> J("Date", v)
    [] t = "binary" -> J("Buffer", v)
    [] t = "array" -> J("array", v)
    [] OTHER -> J(CASE v = <<"object">> -> "object" [] v = <<"array">> -> "array"
                    [] v \in Numeric -> "number" [] OTHER -> "string", v)

\* A BIGINT comes as a number.
ReadMysql(t, v) ==
  CASE t \in {"int", "float", "double"} -> J("number", v)
    [] t = "long" -> J("number", IF v = <<"huge">> THEN <<"rounded">> ELSE v)
    [] t = "boolean" -> J("number", IF v = <<"true">> THEN <<"1">> ELSE <<"0">>)
    [] t \in {"decimal", "string", "time"} -> J("string", v)
    [] t \in {"date", "timestamp"} -> J("Date", v)
    [] t = "binary" -> J("Buffer", v)
    [] OTHER -> J(CASE v = <<"object">> -> "object" [] v = <<"array">> -> "array"
                    [] v \in Numeric -> "number" [] OTHER -> "string", v)

-----------------------------------------------------------------------------
(* The mappers. *)

mongoToPgCoerce(t, x) ==
  IF x.is = "null" THEN Null
  ELSE CASE t \in Text -> IF IsText(x) THEN x ELSE IF x.is \in {"number", "boolean"} THEN AsString(x) ELSE AsJson(x)
         [] t \in {"int", "long", "decimal"} -> IF x.is = "number" THEN x ELSE AsString(x)
         [] t \in {"float", "double"} ->   \* valueOf
              IF x.is = "Date" THEN J("number", <<"big">>) ELSE IF IsObject(x) THEN AsJson(x) ELSE x
         [] t = "boolean" -> AsBoolean(x)
         [] t \in {"date", "timestamp"} ->
              IF x.is \in {"Date", "number"} THEN J("string", x.v) ELSE IF IsText(x) THEN x ELSE Null
         [] t = "time" -> AsString(x)
         [] t = "binary" -> IF x.is \in {"Binary", "Buffer"} THEN AsBuffer(x) ELSE AsJson(x)
         [] t \in {"uuid", "objectid"} -> IF IsText(x) THEN x ELSE AsHex(x)
         [] t \in Json -> AsJson(x)

mongoToMysqlCoerce(t, x) ==
  IF x.is = "null" THEN Null
  ELSE IF x.is = "ObjectId" THEN AsHex(x)
  ELSE CASE t \in {"objectid", "uuid"} -> AsString(x)
         [] t \in Text -> IF IsText(x) THEN x ELSE IF IsObject(x) THEN AsJson(x) ELSE AsString(x)
         [] t = "int" -> IF x.v = <<"frac">> THEN J("number", <<"0">>) ELSE AsNumber(x)
         [] t \in {"long", "float", "double"} -> AsNumber(x)
         [] t = "decimal" -> AsString(x)
         [] t = "boolean" -> AsBit(x)
         [] t \in {"date", "timestamp"} -> AsDate(x)
         [] t = "binary" -> AsBuffer(x)
         [] t \in Json -> IF IsText(x) THEN x ELSE AsJson(x)
         [] OTHER -> IF IsObject(x) THEN AsJson(x) ELSE AsString(x)

mysqlToMongoCoerce(t, x) ==
  IF x.is = "null" THEN Null
  ELSE CASE t = "boolean" -> AsBoolean(x)
         [] t \in {"int", "float", "double"} -> AsNumber(x)
         [] t = "long" -> J("Long", x.v)
         [] t = "decimal" -> J("Decimal128", x.v)
         [] t \in {"date", "timestamp"} -> AsDate(x)
         [] t = "binary" -> IF x.is = "Buffer" \/ IsText(x) THEN AsBuffer(x) ELSE Null
         [] t \in {"string", "uuid", "objectid"} -> AsString(x)
         [] OTHER -> x

mysqlToPgCoerce(t, x) ==
  IF x.is = "null" THEN Null
  ELSE CASE t = "boolean" -> AsBoolean(x)
         [] t \in Json -> IF IsText(x) THEN x ELSE AsJson(x)
         [] t = "binary" -> IF x.is = "Buffer" \/ IsText(x) THEN AsBuffer(x) ELSE Null
         [] t = "date" -> IF x.is = "Date" THEN J("utcday", x.v) ELSE IF IsText(x) THEN x ELSE Null
         [] t = "timestamp" -> IF x.is \in {"Date", "number"} THEN J("string", x.v) ELSE IF IsText(x) THEN x ELSE Null
         [] t \in {"int", "long"} -> IF x.is = "number" \/ IsText(x) THEN x ELSE AsNumber(x)
         [] t \in {"float", "double"} -> AsNumber(x)
         [] t \in Text \ {"string"} -> IF IsObject(x) THEN AsJson(x) ELSE AsString(x)
         [] OTHER -> AsString(x)

pgToMongoCoerce(t, x) ==
  IF x.is = "null" THEN Null
  ELSE CASE t \in {"int", "float", "double"} -> AsNumber(x)
         [] t = "long" -> IF x.v \in Small THEN AsNumber(x) ELSE J("Long", x.v)
         [] t = "decimal" -> J("Decimal128", x.v)
         [] t = "boolean" -> AsBoolean(x)
         [] t \in {"date", "timestamp"} -> AsDate(x)
         [] t = "binary" -> J("Binary", x.v)
         [] t \in Json -> IF t = "array" /\ x.is # "array" THEN J("array", x.v) ELSE x
         [] OTHER -> AsString(x)

\* Mutant of pgToMysqlCoerce: JSON columns get the parsed value.
pgToMysqlCoerceParsed(t, x) ==
  IF x.is = "null" THEN Null
  ELSE CASE t = "boolean" -> AsBit(x)
         [] t \in Json \cup Text -> AsString(x)
         [] t = "binary" -> AsBuffer(x)
         [] t \in {"date", "timestamp"} -> AsDate(x)
         [] t \in {"int", "long", "float", "double"} -> AsNumber(x)
         [] OTHER -> AsString(x)

pgToMysqlCoerce(t, x) ==
  IF x.is = "null" THEN Null
  ELSE CASE t = "boolean" -> AsBit(x)
         [] t \in Json -> IF IsText(x) THEN x ELSE AsJson(x)
         [] t = "binary" -> IF x.is = "Buffer" \/ IsText(x) THEN AsBuffer(x) ELSE Null
         [] t \in {"date", "timestamp"} -> AsDate(x)
         [] t \in {"int", "long", "float", "double"} -> AsNumber(x)
         [] t \in Text \ {"string"} -> IF IsObject(x) THEN AsJson(x) ELSE AsString(x)
         [] OTHER -> AsString(x)

\* The mapper buildPlanForPair takes for a pair; IdentityMapper for one engine.
CoerceTo(from, to, t, x) ==
  CASE from = to -> x
    [] from = "mongodb" /\ to = "postgres" -> mongoToPgCoerce(t, x)
    [] from = "mongodb" /\ to = "mysql" -> mongoToMysqlCoerce(t, x)
    [] from = "mysql" /\ to = "mongodb" -> mysqlToMongoCoerce(t, x)
    [] from = "mysql" /\ to = "postgres" -> mysqlToPgCoerce(t, x)
    [] from = "postgres" /\ to = "mongodb" -> pgToMongoCoerce(t, x)
    [] from = "postgres" /\ to = "mysql" -> pgToMysqlCoerce(t, x)

-----------------------------------------------------------------------------
(* COPY's text format. *)

BS == "\\"
TAB == "\t"
LF == "\n"
CR == "\r"

Replace(s, c, by) == FlattenSeq([i \in DOMAIN s |-> IF s[i] = c THEN by ELSE <<s[i]>>])


escapeCopyText(s) ==
  Replace(Replace(Replace(Replace(s, BS, <<BS, BS>>), TAB, <<BS, "t">>), LF, <<BS, "n">>), CR, <<BS, "r">>)

\* A field of a COPY line: its form, and its characters on the wire.
encodeField(x) ==
  CASE x.is = "null" -> J("text", <<BS, "N">>)
    [] x.is = "Buffer" -> J("text", escapeCopyText(<<BS, BS, "x">> \o x.v))
    [] x.is = "Date" -> J("iso", escapeCopyText(x.v))
    [] IsObject(x) /\ x.is \notin {"Buffer", "Date", "utcday"} -> J("json", escapeCopyText(AsJson(x).v))
    [] OTHER -> J(x.is, escapeCopyText(x.v))

\* Postgres: the characters a field stands for, <<"?">> when the line is broken.
Unescaped(s) ==
  LET Of == [t |-> TAB, n |-> LF, r |-> CR]
      Step(acc, c) ==
        IF acc.esc THEN [out |-> Append(acc.out, IF c \in DOMAIN Of THEN Of[c] ELSE c), esc |-> FALSE]
        ELSE IF c = BS THEN [acc EXCEPT !.esc = TRUE] ELSE [acc EXCEPT !.out = Append(@, c)] IN
  IF \E i \in DOMAIN s : s[i] \in {TAB, LF, CR} THEN <<"?">>
  ELSE FoldLeft(Step, [out |-> <<>>, esc |-> FALSE], s).out

\* byteain: hex after a backslash and an x, else each doubled backslash is one.
Bytea(s) ==
  IF Len(s) > 1 /\ s[1] = BS /\ s[2] = "x" THEN SubSeq(s, 3, Len(s)) ELSE Unescaped(s)

-----------------------------------------------------------------------------
(* The columns of the destinations. *)

\* The local midnight of a date column, as the day of its UTC time.
UtcDay(v, east) == IF v = <<"day">> /\ east THEN <<"daybefore">> ELSE v

\* BSON keeps a Date as the instant it is.
StoreMongo(x, east) == IF x.is = "Date" THEN J("Date", UtcDay(x.v, east)) ELSE x

StorePostgres(type, f, east) ==
  LET v == IF f.is = "text" /\ f.v = <<BS, "N">> THEN <<>> ELSE Unescaped(f.v)
      Accept(ok) == IF ok THEN J("stored", v) ELSE Rejected IN
  IF f.is = "text" /\ f.v = <<BS, "N">> THEN Null
  ELSE IF v = <<"?">> THEN Rejected
  ELSE CASE type = "TEXT" -> J("stored", v)
         [] type = "TIME" -> Accept(v = <<"time">>)
         [] type = "UUID" -> Accept(v = <<"uuid">>)
         [] type = "VARCHAR(24)" -> Accept(f.is # "json")
         [] type = "INTEGER" -> Accept(v \in Small /\ f.is # "json")
         [] type = "BIGINT" -> Accept(v \in Integral /\ f.is # "json")
         [] type \in {"REAL", "DOUBLE PRECISION", "NUMERIC"} -> Accept(v \in Numeric /\ f.is # "json")
         [] type = "BOOLEAN" -> Accept(v \in {<<"true">>, <<"false">>, <<"0">>, <<"1">>})
         [] type = "DATE" -> IF v \in {<<"instant">>, <<"day">>}
                             THEN J("stored", UtcDay(v, east /\ f.is \in {"iso", "utcday"})) ELSE Rejected
         [] type = "TIMESTAMPTZ" -> Accept(v \in {<<"instant">>, <<"day">>})
         [] type = "BYTEA" -> J("stored", Bytea(v))
         [] type = "JSONB" -> Accept(f.is \in {"json", "number", "boolean"})

\* encodeValue, the driver's escaping, and the column in strict mode.
StoreMysql(type, y) ==
  LET x == IF y.is \in {"Buffer", "Date", "null"} \/ ~IsObject(y) THEN y ELSE AsJson(y)
      Accept(ok) == IF ok THEN J("stored", x.v) ELSE Rejected IN
  IF x.is = "null" THEN Null
  ELSE CASE type \in {"TEXT", "VARCHAR(36)", "LONGBLOB"} -> J("stored", x.v)
         [] type = "TIME" -> Accept(x.v = <<"time">>)
         [] type = "VARCHAR(24)" -> Accept(x.is # "json")
         [] type = "INT" -> Accept(x.v \in Small /\ x.is # "json")
         [] type = "BIGINT" -> Accept(x.v \in Integral /\ x.is # "json")
         [] type \in {"FLOAT", "DOUBLE", "DECIMAL(65,10)"} -> Accept(x.v \in Numeric /\ x.is # "json")
         [] type = "TINYINT(1)" -> Accept(x.is = "boolean" \/ x.v \in Small)
         [] type \in {"DATE", "DATETIME(6)"} -> Accept(x.is = "Date")
         [] type = "JSON" -> Accept(x.is \in {"json", "number", "boolean"})

\* A value x a writer is given for a column of canonical type t.
Store(engine, t, x, east) ==
  CASE engine = "mongodb" -> StoreMongo(x, east)
    [] engine = "postgres" -> StorePostgres(canonicalToPgType(t), encodeField(x), east)
    [] engine = "mysql" -> StoreMysql(canonicalToMysqlType(t), x)
=============================================================================
