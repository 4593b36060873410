------------------------------ MODULE Transfer ------------------------------
(***************************************************************************)
(* One table or collection on its way between two engines: its schema is     *)
(* inferred and translated, the destination created, its rows mapped and     *)
(* written, perhaps twice (a job that is run again), and then its changes    *)
(* are applied one by one, as a CDC sync does, without a mapper.             *)
(***************************************************************************)
EXTENDS Coerce

CONSTANTS Case,         \* what is transferred: see CaseOK
          RowId,        \* the rows a table can have
          MaxCopies,    \* bound: how often the rows are copied
          MaxChanges    \* bound: changes of the source, and redeliveries of one

ID == <<"_", "i", "d">>
PK == <<"p", "k">>
Generated == J("ObjectId", <<"generated">>)

\* Its inferred columns, its rows, whether the workers' clock is east of UTC, and whether changes follow.
\* A collection's documents have one _id each, which is its key.
CaseOK(c) ==
  /\ {c.from, c.to} \subseteq Engine /\ c.family \in {"cells", "names", "keys"}
  /\ c.east \in BOOLEAN /\ c.changes \in BOOLEAN
  /\ \A i \in DOMAIN c.cols : c.cols[i].type \in CanonicalType /\ {c.cols[i].pk, c.cols[i].nullable} \subseteq BOOLEAN
  /\ DOMAIN c.rows \subseteq RowId
  /\ c.from = "mongodb" =>
       /\ \E i \in DOMAIN c.cols : c.cols[i].name = ID
       /\ \A i \in DOMAIN c.cols : c.cols[i].pk <=> c.cols[i].name = ID
       /\ \A i, j \in DOMAIN c.cols : c.cols[i].name = c.cols[j].name => i = j
       /\ \A r \in DOMAIN c.rows, i \in DOMAIN c.cols :
            LET x == c.rows[r][i] IN x = J(x.is, x.v) /\ x # Generated /\ x.is # "rejected"
       /\ \A q, r \in DOMAIN c.rows, i \in DOMAIN c.cols :
            c.cols[i].name = ID /\ q # r => c.rows[q][i].v # c.rows[r][i].v
ASSUME TransferAssumption ==
  IsFiniteSet(RowId) /\ MaxCopies \in Nat /\ MaxChanges \in Nat /\ \A c \in Case : CaseOK(c)

VARIABLES
  case,      \* what is transferred
  rows,      \* the source: for each row the values its driver returns, by column name
  created,   \* the destination: "no", "yes", or "failed" when its creation was refused
  dest,      \* its rows or documents, each with the source row it was written for
  copies, changes,
  last       \* the last change event

transferVars == <<case, rows, created, dest, copies, changes, last>>

cols == case.cols
names == [i \in DOMAIN cols |-> cols[i].name]
list == ColumnList(case.to, names)
Pk == {i \in DOMAIN cols : cols[i].pk}

\* A field, and the fields of f with those of g that f does not have.
Field(n, x) == [m \in {n} |-> x]
Over(f, g) == [n \in DOMAIN f \cup DOMAIN g |-> IF n \in DOMAIN f THEN f[n] ELSE g[n]]

NoChange == [op |-> "none", row |-> 1, doc |-> <<>>]

(* The variables have their types; a value the destination refuses is in no row of it, and a
   destination that could not be created holds nothing. *)
TransferTypeOK ==
  /\ DOMAIN rows \subseteq RowId
  /\ created \in {"no", "yes", "failed"} /\ (created # "yes" => dest = <<>>)
  /\ \A i \in DOMAIN dest : dest[i].row \in RowId /\ \A n \in DOMAIN dest[i].fields : dest[i].fields[n] # Rejected
  /\ copies \in 0..MaxCopies /\ changes \in 0..MaxChanges
  /\ last.op \in {"none", "insert", "update", "delete"}

\* SELECT * or find(), as the driver returns it.
Read(c, r) ==
  [n \in {c.cols[i].name : i \in DOMAIN c.cols} |->
    LET i == CHOOSE i \in DOMAIN c.cols : c.cols[i].name = n IN
    IF c.from = "mongodb" THEN c.rows[r][i]
    ELSE IF c.rows[r][i] = <<>> THEN Null
    ELSE IF c.from = "postgres" THEN ReadPostgres(c.cols[i].type, c.rows[r][i])
    ELSE ReadMysql(c.cols[i].type, c.rows[r][i])]

TransferInit ==
  /\ case \in Case
  /\ rows = [r \in DOMAIN case.rows |-> Read(case, r)]
  /\ created = "no" /\ dest = <<>> /\ copies = 0 /\ changes = 0 /\ last = NoChange

-----------------------------------------------------------------------------
(* mapRecord. *)

Coerced(i, rec) == CoerceTo(case.from, case.to, cols[i].type, rec[cols[i].name])
By(name, rec, which) ==
  [n \in {name[i] : i \in which} |-> Coerced(CHOOSE i \in which : name[i] = n, rec)]

\* The pk subdocument: the key's values, in the order of the columns.
PkOf(rec) == J("object", FlattenSeq([i \in DOMAIN cols |-> IF cols[i].pk THEN rec[cols[i].name].v ELSE <<>>]))
KeyFields(rec) ==
  CASE Cardinality(Pk) > 1 -> Over(Field(ID, Generated), Field(PK, PkOf(rec)))
    [] Cardinality(Pk) = 1 /\ case.from = "postgres" -> Field(ID, Coerced(CHOOSE i \in Pk : TRUE, rec))
    [] Cardinality(Pk) = 1 /\ case.from # "postgres" -> Field(ID, AsString(rec[cols[CHOOSE i \in Pk : TRUE].name]))
    [] OTHER -> Field(ID, Generated)

\* The fields besides the key; MySQL's composite key columns stay among them.
Body == IF case.from = "mysql" /\ Cardinality(Pk) > 1 THEN DOMAIN cols ELSE DOMAIN cols \ Pk
\* Between SQL engines the fields keep the source's names.
SqlRecord(rec) == By(names, rec, DOMAIN cols)

\* Columns that are assigned later win over the key's fields.
MapRecord(rec) ==
  IF case.from = case.to THEN rec
  ELSE CASE case.to = "mongodb" -> Over(By(names, rec, Body), KeyFields(rec))
         [] case.from = "mongodb" -> By(list, rec, DOMAIN cols)
         [] OTHER -> SqlRecord(rec)

\* A document as MongoDB keeps it; one that was read from there is BSON already.
Document(out) ==
  IF case.from = "mongodb" THEN out ELSE [n \in DOMAIN out |-> StoreMongo(out[n], case.east)]

-----------------------------------------------------------------------------
(* writer.init and writer.writeBatch. *)

vars1 == <<case, rows, copies, changes, last>>

InitDestination ==
  /\ created = "no"
  /\ created' = IF case.to = "mongodb" \/ TableCreated(case.to, case.table, cols) THEN "yes" ELSE "failed"
  /\ UNCHANGED <<vars1, dest>>

\* PostgresToMongoMapper names the key's columns to the writer, MysqlToMongoMapper does not.
KeyColumnsNamed == case.from = "postgres" /\ Cardinality(Pk) > 1
UniqueIndex == case.to = "mongodb" /\ KeyColumnsNamed

FieldOf(fields, n) == IF n \in DOMAIN fields THEN fields[n] ELSE Null

\* E11000.
Duplicate(docs, fields) ==
  \E i \in DOMAIN docs :
    \/ fields[ID] # Generated /\ docs[i].fields[ID].v = fields[ID].v
    \/ UniqueIndex /\ FieldOf(docs[i].fields, PK) = FieldOf(fields, PK)

InsertMany(docs) ==
  LET Insert(acc, r) ==
        LET f == Document(MapRecord(rows[r])) IN
        IF Duplicate(acc, f) THEN acc ELSE Append(acc, [row |-> r, fields |-> f]) IN
  FoldLeft(Insert, docs, SetToSeq(DOMAIN rows))

\* A row as the statement names its columns; what the record does not have is NULL.
SqlRow(out) ==
  [n \in {list[i] : i \in DOMAIN cols} |->
    LET i == CHOOSE i \in DOMAIN cols : list[i] = n IN
    Store(case.to, cols[i].type, FieldOf(out, n), case.east)]

SameKey(f, g) == Pk # {} /\ \A i \in Pk : f[list[i]] = g[list[i]]
TableFound == Known(case.to, case.table) = Ident(case.to, case.table)

\* COPY, or one INSERT of many rows: all of them or none.
InsertRows(docs) ==
  LET order == SetToSeq(DOMAIN rows)
      new == [i \in DOMAIN order |-> [row |-> order[i], fields |-> SqlRow(MapRecord(rows[order[i]]))]]
      all == docs \o new IN
  IF /\ TableFound
     /\ \A i \in DOMAIN new : /\ \A n \in DOMAIN new[i].fields : new[i].fields[n] # Rejected
                              /\ \A k \in DOMAIN cols : cols[k].nullable \/ new[i].fields[list[k]] # Null
     /\ \A i, j \in DOMAIN all : i # j => ~SameKey(all[i].fields, all[j].fields)
  THEN all ELSE docs

\* Mutant of WriteBatch: whether or not the destination could be created.
WriteBatchRegardless ==
  /\ created # "no" /\ copies = 0 /\ copies' = 1
  /\ dest' = IF case.to = "mongodb" THEN InsertMany(dest) ELSE InsertRows(dest)
  /\ UNCHANGED <<case, rows, created, changes, last>>

WriteBatch ==
  /\ created = "yes" /\ copies < MaxCopies /\ copies' = copies + 1
  /\ changes = 0 /\ (case.changes \/ copies = 0)
  /\ dest' = IF case.to = "mongodb" THEN InsertMany(dest) ELSE InsertRows(dest)
  /\ UNCHANGED <<case, rows, created, changes, last>>

-----------------------------------------------------------------------------
(* applyChange: the key and the document as the source has them. *)

KeyOf(doc) == [n \in {cols[i].name : i \in Pk} |-> doc[n]]
First(set) == CHOOSE i \in set : \A j \in set : i <= j

\* deleteOne and replaceOne with upsert.
ApplyMongo(e) ==
  LET doc == Document(e.doc)
      key == KeyOf(doc)
      found == {i \in DOMAIN dest : \A n \in DOMAIN key : FieldOf(dest[i].fields, n).v = key[n].v}
      fresh == Over(doc, Field(ID, Generated)) IN
  IF e.op = "delete" THEN IF found = {} THEN dest ELSE RemoveAt(dest, First(found))
  ELSE IF found = {} THEN IF Duplicate(dest, fresh) THEN dest ELSE Append(dest, [row |-> e.row, fields |-> fresh])
  ELSE [dest EXCEPT ![First(found)] = [row |-> e.row, fields |-> Over(doc, Field(ID, @.fields[ID]))]]

\* pgVal, encodeValue: a value as a parameter of a statement.
StoreParameter(i, x) ==
  IF case.to = "mysql" THEN StoreMysql(canonicalToMysqlType(cols[i].type), x)
  ELSE IF x.is = "Buffer" THEN J("stored", x.v)
  ELSE LET p == IF x.is # "Date" /\ IsObject(x) THEN AsJson(x) ELSE x IN
       IF x.is = "null" THEN Null
       ELSE StorePostgres(canonicalToPgType(cols[i].type), J(p.is, escapeCopyText(p.v)), FALSE)

\* The statement names its columns as the event does, and the values are its parameters.
ColumnOf(n) == CHOOSE i \in DOMAIN cols : Known(case.to, list[i]) = Known(case.to, n)
StoredFields(e) == [n \in DOMAIN e.doc |-> StoreParameter(ColumnOf(n), e.doc[n])]

\* A statement without a key is no SQL, but for MySQL's INSERT.
Unkeyed(e) == Pk = {} /\ (case.to = "postgres" \/ e.op = "delete")

\* ON CONFLICT and ON DUPLICATE KEY assign the columns the event carries.
Given(e, n) == {m \in DOMAIN e.doc : list[ColumnOf(m)] = n}
Assigned(e, old) ==
  [n \in ToSet(list) |->
    IF Given(e, n) = {} THEN FieldOf(old, n) ELSE StoredFields(e)[CHOOSE m \in Given(e, n) : TRUE]]

\* DELETE, and INSERT with its upsert; a statement that fails changes nothing.
ApplySql(e) ==
  LET known == /\ TableFound
               /\ \A n \in DOMAIN e.doc : \E i \in DOMAIN cols : Known(case.to, list[i]) = Known(case.to, n)
      found == {d \in DOMAIN dest : \A i \in Pk : dest[d].fields[list[i]] = StoredFields(e)[cols[i].name]} IN
  IF ~known \/ Unkeyed(e) THEN dest
  ELSE IF e.op = "delete" THEN IF found = {} THEN dest ELSE RemoveAt(dest, First(found))
  ELSE IF \E n \in DOMAIN e.doc : StoredFields(e)[n] = Rejected THEN dest
  ELSE IF Pk # {} /\ found # {} THEN [dest EXCEPT ![First(found)].fields = Assigned(e, @)]
  ELSE Append(dest, [row |-> e.row, fields |-> Assigned(e, <<>>)])

\* Mutant of ApplyChange: an update inserts.
ApplyChangeInsert(e) ==
  IF e.op # "delete" THEN dest' = Append(dest, [row |-> e.row, fields |-> e.doc])
  ELSE dest' = IF case.to = "mongodb" THEN ApplyMongo(e) ELSE ApplySql(e)

ApplyChange(e) == dest' = IF case.to = "mongodb" THEN ApplyMongo(e) ELSE ApplySql(e)

\* A row of the source is inserted, changed in a column that is no key, or deleted.
Change(op, r) ==
  /\ case.changes /\ copies > 0 /\ changes < MaxChanges /\ changes' = changes + 1
  /\ CASE op = "insert" -> r \notin DOMAIN rows /\ rows' = Over(Field(r, Read(case, r)), rows)
       [] op = "update" -> r \in DOMAIN rows /\ \E i \in DOMAIN cols \ Pk :
                             rows' = [rows EXCEPT ![r][cols[i].name].v = IF @ = <<"0">> THEN <<"1">> ELSE <<"0">>]
       [] op = "delete" -> r \in DOMAIN rows /\ rows' = [q \in DOMAIN rows \ {r} |-> rows[q]]
  /\ last' = [op |-> op, row |-> r, doc |-> IF op = "delete" THEN rows[r] ELSE rows'[r]]
  /\ ApplyChange(last')
  /\ UNCHANGED <<case, created, copies>>

\* The worker died before its cursor was saved.
Redeliver ==
  /\ last.op # "none" /\ changes < MaxChanges /\ changes' = changes + 1
  /\ ApplyChange(last)
  /\ UNCHANGED <<case, rows, created, copies, last>>

TransferNext ==
  \/ InitDestination \/ WriteBatch \/ Redeliver
  \/ \E op \in {"insert", "update", "delete"}, r \in RowId : r \in DOMAIN case.rows /\ Change(op, r)

TransferSpec == TransferInit /\ [][TransferNext]_transferVars

-----------------------------------------------------------------------------
(* What was copied: the value of column i of row r, where the destination keeps it. *)
Kept(i, fields) ==
  CASE case.to # "mongodb" -> FieldOf(fields, list[i])
    [] case.to = "mongodb" /\ case.from # "mongodb" /\ Pk = {i} -> FieldOf(fields, ID)
    [] OTHER -> FieldOf(fields, cols[i].name)

Same(i, x, y) ==
  \/ x.v = y.v
  \/ cols[i].type = "boolean" /\ x.v # <<>> /\ Truth(x) = Truth(y)
\* What the source holds; ReadMysql and ReadPostgres may have rounded it already.
Held(i, r) == IF case.from = "mongodb" THEN case.rows[r][i] ELSE J("held", case.rows[r][i])
Faithful(i, r) == \E d \in DOMAIN dest : dest[d].row = r /\ Same(i, Kept(i, dest[d].fields), Held(i, r))

CopiedCase == created = "yes" /\ copies = 1 /\ changes = 0

-----------------------------------------------------------------------------
(* Lossy by what the code does: the bytes that COPY escapes twice, a JSON text that is
   passed on as if it were JSON, integers wider than their column or than a double, and
   a day that is east of its UTC time. *)
Lossy(i, x) ==
  LET t == cols[i].type IN
  \/ case.to = "postgres" /\ t = "binary"
  \/ case.from \in Sql /\ case.to \in Sql /\ t \in Json /\ x.v = <<"a">>
  \/ case.from = "mysql" /\ t = "long" /\ x.v = <<"huge">>
  \/ case.to = "mysql" /\ case.from # "mysql" /\ t = "long" /\ x.v = <<"huge">>
  \/ case.from \in Sql /\ case.to \in {"postgres", "mongodb"} /\ t = "date" /\ case.east
  \/ case.from = "mongodb" /\ case.to \in Sql /\ ((t = "int" /\ x.v = <<"big">>) \/ (t = "mixed" /\ x.is = "Binary"))

\* The sample of a Mongo field saw the type of the value, so the column was made for it.
Foreseen(i, x) ==
  case.from # "mongodb" \/ canonicalBsonType(x) \in {cols[i].type, "null"} \/ cols[i].type = "mixed"


\* The name a column's value is written under is its own; a key written to _id is overwritten by
\* a column of that name.
NameKept(i) ==
  CASE case.to = "mongodb" -> case.from = "mongodb" \/ ~cols[i].pk \/ \A j \in DOMAIN cols : names[j] # ID
    [] case.to # "mongodb" /\ case.from = "mongodb" -> TRUE
    [] OTHER -> list[i] = names[i]

(* A column arrives under the name its table was created with: always from MongoDB, whose mapper
   uses the created names, and from SQL to SQL only when neither the column's name nor the table's
   had to be changed. *)
ColumnsCarried ==
  case.family = "names" =>
    /\ created = "failed" => \E i \in DOMAIN cols : Len(Ident(case.to, names[i])) = IF case.to = "mysql" THEN MysqlLimit ELSE PgLimit
    /\ CopiedCase => \A i \in DOMAIN cols :
         Faithful(i, 1) <=> NameKept(i) /\ (case.to # "mongodb" => TableFound)

\* The source's change events and the destination's rows name a row alike.
KeysAgree ==
  /\ Pk # {} /\ (case.from = "mongodb" /\ case.to # "mongodb" => cols[1].type # "objectid")
  /\ case.to = "mongodb" => case.from = "mongodb"

(* However often the rows are copied and a change is delivered, a destination whose keys agree with
   the source's holds each row of the source once, as it is now. *)
Mirrors ==
  case.family = "keys" /\ KeysAgree /\ created = "yes" /\ copies > 0 =>
    /\ Len(dest) = Cardinality(DOMAIN rows)
    /\ \A r \in DOMAIN rows : \E d \in DOMAIN dest : dest[d].row = r /\
         \A i \in DOMAIN cols : Same(i, Kept(i, dest[d].fields), rows[r][cols[i].name])

(* The contract of ChangeEvent (types.ts): the key of a change locates the row of the destination
   that the copy made, so no row of the source is there twice. *)
Located ==
  case.family = "keys" /\ Pk # {} /\ created = "yes" /\ copies = 1 =>
    \A d, e \in DOMAIN dest : dest[d].row = dest[e].row => d = e
=============================================================================
