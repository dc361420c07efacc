---------------------------- MODULE RecordQuery ----------------------------
(***************************************************************************)
(* The query builder of src/src/index/query.rs: a query is compiled to an  *)
(* SQL statement with "?" placeholders and a list of parameters, and       *)
(* SQLite binds the one to the other by position.                          *)
(*                                                                         *)
(* A statement is what SQLite makes of its text: the conditions in their   *)
(* order, the ORDER BY terms and the form of the LIMIT clause.  Text is a  *)
(* sequence of code points.  SQLite itself (comparison of values, NULL,    *)
(* LIKE, sorting, LIMIT and OFFSET) is external.                           *)
(***************************************************************************)
EXTENDS Integers, SequencesExt

CONSTANTS
  Tables,     \* contents of the table: sets of items
  Asked       \* the queries asked of it

VARIABLES table, query, answer

queryVars == <<table, query, answer>>

-----------------------------------------------------------------------------
(* JSON values; a "big" number is an integer beyond the i64 range.         *)
Json(type, n, s) == [type |-> type, n |-> n, s |-> s]
JNull    == Json("null", 0, <<>>)
JBool(n) == Json("bool", n, <<>>)
JInt(n)  == Json("int", n, <<>>)
JBig(n)  == Json("big", n, <<>>)
JText(s) == Json("text", 0, s)

(* SQLite values, ordered by class (NULL, numbers, text) first.            *)
Sql(class, n, s) == [class |-> class, n |-> n, s |-> s]
SqlNull   == Sql(0, 0, <<>>)
Number(n) == Sql(1, n, <<>>)
Text(s)   == Sql(2, 0, s)

Digits(n) == <<48 + n>>
BigDigits(n) == <<49, 56, 48 + n>>
Huge == 1000

(* json_to_sqlite_value: what a value in a query is bound as.              *)
ToSqlite(v) ==
  CASE v.type = "null" -> SqlNull
    [] v.type \in {"bool", "int"} -> Number(v.n)
    [] v.type = "big" -> Text(BigDigits(v.n))
    [] v.type = "text" -> Text(v.s)

(* json_extract: what SQLite finds in a record; a big number is a REAL.    *)
Extracted(v) ==
  CASE v.type = "null" -> SqlNull
    [] v.type \in {"bool", "int"} -> Number(v.n)
    [] v.type = "big" -> Number(Huge + v.n)
    [] v.type = "text" -> Text(v.s)

TextBefore(s, t) ==
  \E i \in 1..Len(t) :
    /\ \A j \in 1..(i - 1) : j <= Len(s) /\ s[j] = t[j]
    /\ i > Len(s) \/ s[i] < t[i]

SqlBefore(a, b) ==
  \/ a.class < b.class
  \/ a.class = b.class /\ a.class = 1 /\ a.n < b.n
  \/ a.class = b.class /\ a.class = 2 /\ TextBefore(a.s, b.s)

AsText(v) == IF v.class = 1 THEN Digits(v.n) ELSE v.s

-----------------------------------------------------------------------------
(* LIKE takes the ASCII letters in either case, everything else as it is.  *)
Fold(c) == IF c \in 65..90 THEN c + 32 ELSE c
Folded(s) == [i \in DOMAIN s |-> Fold(s[i])]

(* LIKE, with or without "\" as the escape character.  from[i] are the     *)
(* places of s from which on the rest matches pattern[i] and what follows. *)
AnyText == 37
AnyChar == 95
Escape  == 92

Like(pattern, escaping, s) ==
  LET from[i \in 1..(Len(pattern) + 2)] ==
        IF i > Len(pattern) THEN {Len(s) + 1}
        ELSE IF escaping /\ pattern[i] = Escape /\ i < Len(pattern)
          THEN {j \in 1..Len(s) : Fold(s[j]) = Fold(pattern[i + 1]) /\ j + 1 \in from[i + 2]}
        ELSE IF pattern[i] = AnyText
          THEN {j \in 1..(Len(s) + 1) : \E k \in from[i + 1] : j <= k}
        ELSE {j \in 1..Len(s) : /\ pattern[i] = AnyChar \/ Fold(pattern[i]) = Fold(s[j])
                               /\ j + 1 \in from[i + 1]}
  IN 1 \in from[1]

(* escape_like_literal.                                                    *)
EscapeLikeLiteral(s) ==
  FlattenSeq([i \in DOMAIN s |->
    IF s[i] \in {AnyText, AnyChar, Escape} THEN <<Escape, s[i]>> ELSE <<s[i]>>])

-----------------------------------------------------------------------------
(* A JSON path as it was given: blank, "$" with something else than "." or *)
(* "[" behind it (junk), a stray character, letters and marks in an order  *)
(* only SQLite objects to ("a..b", broken), or a good path to a field with *)
(* or without its "$" (dollar, plain, bracket).                            *)
Path(form, field) == [form |-> form, field |-> field]
BadPath == Path("blank", 0)

(* normalize_json_path and validate_json_path.                             *)
NormalizeJsonPath(path) ==
  IF path.form \in {"blank", "junk", "stray"} THEN BadPath
  ELSE Path(IF path.form = "broken" THEN "broken" ELSE "dollar", path.field)

PathParam(path) == Text(<<36, NormalizeJsonPath(path).field>>)

-----------------------------------------------------------------------------
(* QueryBuilder: new, did, where_json, order_by, limit, offset and         *)
(* include_deleted each set one field.  0 is no DID; None is no limit.     *)
None == -1
Columns == {"indexed_at", "uri", "did"}

NewQuery(collection) ==
  [collection |-> collection, did |-> 0, wheres |-> <<>>, orders |-> <<>>,
   limit |-> None, offset |-> None, deleted |-> FALSE]

WhereJson(q, path, op, v) ==
  [q EXCEPT !.wheres = Append(@, [path |-> path, op |-> op, value |-> v])]

(* order_by: the name of a canonical column, or else a JSON path.          *)
OrderBy(q, field, path, desc) ==
  [q EXCEPT !.orders =
    Append(@, [term |-> IF field \in Columns THEN field ELSE "json", path |-> path,
               desc |-> desc])]

(* What a table and a query can hold.                                      *)
JsonValues ==
  {JNull} \cup [type : {"bool"}, n : 0..1, s : {<<>>}]
          \cup [type : {"int", "big"}, n : Int, s : {<<>>}]
          \cup [type : {"text"}, n : {0}, s : Seq(Nat)]

Stored == [uri : Nat, did : Nat, collection : Seq(Nat), at : Int, deleted : BOOLEAN,
           rating : JsonValues]

Paths   == [form : {"blank", "junk", "stray", "broken", "dollar", "plain", "bracket"}, field : Nat]
Ops     == {"eq", "ne", "gt", "gte", "lt", "lte", "contains", "like"}
Clauses == [path : Paths, op : Ops, value : JsonValues]
Terms   == [term : Columns \cup {"json"}, path : Paths, desc : BOOLEAN]
Queries == [collection : Seq(Nat), did : Nat, wheres : Seq(Clauses), orders : Seq(Terms),
            limit : Nat \cup {None}, offset : Nat \cup {None}, deleted : BOOLEAN]

ASSUME QueryAssumption ==
  /\ \A items \in Tables : items \subseteq Stored /\ IsFiniteSet(items)
  /\ Asked \subseteq Queries

-----------------------------------------------------------------------------
(* A faulty variant of Test: "!=" never holds of NULL.                     *)
TestUnequal(w) ==
  CASE w.op = "eq" -> IF w.value = JNull THEN "IS NULL" ELSE "="
    [] w.op = "ne" -> IF w.value = JNull THEN "IS NOT NULL" ELSE "!="
    [] OTHER -> w.op

(* The condition a where clause becomes.                                   *)
Test(w) ==
  CASE w.op = "eq" -> IF w.value = JNull THEN "IS NULL" ELSE "="
    [] w.op = "ne" -> IF w.value = JNull THEN "IS NOT NULL" ELSE "IS NOT"
    [] OTHER -> w.op

(* The placeholders of a condition and of the other parts.                 *)
Holes(test) ==
  CASE test = "is_deleted = 0" -> 0
    [] test \in {"collection", "did", "IS NULL", "IS NOT NULL"} -> 1
    [] OTHER -> 2

WhereParams(w) ==
  CASE Holes(Test(w)) = 1 -> <<PathParam(w.path)>>
    [] Holes(Test(w)) = 2 ->
         <<PathParam(w.path),
           IF w.op = "contains" /\ w.value.type = "text"
           THEN Text(EscapeLikeLiteral(w.value.s)) ELSE ToSqlite(w.value)>>

OrderParams(o) == IF o.term = "json" THEN <<PathParam(o.path)>> ELSE <<>>

(* The parameters of all the conditions, and of all the sort terms.        *)
WhereValues(q) == FlattenSeq([i \in DOMAIN q.wheres |-> WhereParams(q.wheres[i])])
OrderValues(q) == FlattenSeq([i \in DOMAIN q.orders |-> OrderParams(q.orders[i])])

(* A faulty variant of TailParams: OFFSET before LIMIT.                    *)
TailParamsSwapped(q) ==
  (IF q.offset = None THEN <<>> ELSE <<Number(q.offset)>>)
  \o (IF q.limit = None THEN <<>> ELSE <<Number(q.limit)>>)

TailParams(q) ==
  (IF q.limit = None THEN <<>> ELSE <<Number(q.limit)>>)
  \o (IF q.offset = None THEN <<>> ELSE <<Number(q.offset)>>)

LimitClause(q) ==
  CASE q.limit # None /\ q.offset # None -> "LIMIT ? OFFSET ?"
    [] q.limit # None /\ q.offset = None -> "LIMIT ?"
    [] q.limit = None /\ q.offset # None -> "LIMIT -1 OFFSET ?"
    [] OTHER -> ""

(* The errors of build_sql.                                                *)
Rejected(q) ==
  \/ q.collection = <<>>
  \/ \E i \in DOMAIN q.wheres : NormalizeJsonPath(q.wheres[i].path) = BadPath
  \/ \E i \in DOMAIN q.orders : /\ q.orders[i].term = "json"
                                /\ NormalizeJsonPath(q.orders[i].path) = BadPath

BuildSql(q) ==
  [where |-> <<"collection">>
             \o (IF q.deleted THEN <<>> ELSE <<"is_deleted = 0">>)
             \o (IF q.did = 0 THEN <<>> ELSE <<"did">>)
             \o [i \in DOMAIN q.wheres |-> Test(q.wheres[i])],
   order |-> [i \in DOMAIN q.orders |-> [term |-> q.orders[i].term, desc |-> q.orders[i].desc]],
   tail |-> LimitClause(q),
   params |-> <<Text(q.collection)>>
              \o (IF q.did = 0 THEN <<>> ELSE <<Text(<<q.did>>)>>)
              \o WhereValues(q) \o OrderValues(q) \o TailParams(q)]

-----------------------------------------------------------------------------
(* The k-th placeholder takes the k-th parameter.                          *)
HolesBefore(tests, k) ==
  Cardinality({hole \in (1..(k - 1)) \X (1..2) : hole[2] <= Holes(tests[hole[1]])})

RatingField == 1

At(item, path) ==
  IF path = Text(<<36, RatingField>>) THEN Extracted(item.rating) ELSE SqlNull

(* One condition of the WHERE clause on one row; NULL counts as false.     *)
Holds(test, a, item) ==
  LET left == At(item, a[1])
      known == left # SqlNull /\ a[2] # SqlNull
  IN CASE test = "is_deleted = 0" -> ~item.deleted
       [] test = "collection" -> Text(item.collection) = a[1]
       [] test = "did" -> Text(<<item.did>>) = a[1]
       [] test = "IS NULL" -> left = SqlNull
       [] test = "IS NOT NULL" -> left # SqlNull
       [] test = "=" -> known /\ left = a[2]
       [] test = "!=" -> known /\ left # a[2]
       [] test = "IS NOT" -> left # a[2]
       [] test = "gt" -> known /\ SqlBefore(a[2], left)
       [] test = "gte" -> known /\ ~SqlBefore(left, a[2])
       [] test = "lt" -> known /\ SqlBefore(left, a[2])
       [] test = "lte" -> known /\ ~SqlBefore(a[2], left)
       [] test = "contains" -> known /\ Like(<<AnyText>> \o AsText(a[2]) \o <<AnyText>>,
                                             TRUE, AsText(left))
       [] test = "like" -> known /\ Like(AsText(a[2]), FALSE, AsText(left))

Selected(stmt, item) ==
  \A k \in DOMAIN stmt.where :
    LET n == HolesBefore(stmt.where, k)
    IN Holds(stmt.where[k], [i \in 1..2 |-> IF n + i <= Len(stmt.params)
                                            THEN stmt.params[n + i] ELSE SqlNull], item)

(* The value a row is sorted by; the parameters of the ORDER BY terms come *)
(* behind those of the WHERE clause.                                       *)
SortValue(stmt, k, item) ==
  LET paths == {j \in 1..k : stmt.order[j].term = "json"}
      n     == HolesBefore(stmt.where, Len(stmt.where) + 1) + Cardinality(paths)
  IN CASE stmt.order[k].term = "indexed_at" -> Number(item.at)
       [] stmt.order[k].term = "uri" -> Text(<<item.uri>>)
       [] stmt.order[k].term = "did" -> Text(<<item.did>>)
       [] stmt.order[k].term = "json" -> At(item, stmt.params[n])

SortsBefore(stmt, a, b) ==
  \E k \in DOMAIN stmt.order :
    /\ \A j \in 1..(k - 1) : SortValue(stmt, j, a) = SortValue(stmt, j, b)
    /\ IF stmt.order[k].desc THEN SqlBefore(SortValue(stmt, k, b), SortValue(stmt, k, a))
                             ELSE SqlBefore(SortValue(stmt, k, a), SortValue(stmt, k, b))

(* LIMIT and OFFSET take the last parameters.                              *)
Page(stmt, rows) ==
  LET last   == Len(stmt.params)
      limit  == CASE stmt.tail = "LIMIT ? OFFSET ?" -> stmt.params[last - 1].n
                  [] stmt.tail = "LIMIT ?" -> stmt.params[last].n
                  [] OTHER -> Len(rows)
      offset == IF stmt.tail \in {"LIMIT ? OFFSET ?", "LIMIT -1 OFFSET ?"}
                THEN stmt.params[last].n ELSE 0
  IN SubSeq(rows, offset + 1, IF offset + limit <= Len(rows) THEN offset + limit ELSE Len(rows))

(* query_raw: the results SQLite may return; rows that sort alike may come *)
(* in any order.                                                           *)
Answers(stmt, items) ==
  {Page(stmt, rows) : rows \in
     {s \in SetToSeqs({item \in items : Selected(stmt, item)}) :
        \A i \in 1..(Len(s) - 1) : ~SortsBefore(stmt, s[i + 1], s[i])}}

-----------------------------------------------------------------------------
NoAnswer == [kind |-> "none", rows |-> <<>>]

(* SQLite reads a path when a row comes to it, and fails there.            *)
Broken(path) == NormalizeJsonPath(path).form = "broken"

Unreadable(q) ==
  \/ \E i \in DOMAIN q.wheres : Broken(q.wheres[i].path)
  \/ \E i \in DOMAIN q.orders : q.orders[i].term = "json" /\ Broken(q.orders[i].path)

(* The rows that the other conditions leave, all of which come to it.      *)
Passing(q, items) ==
  LET readable == [q EXCEPT !.wheres = SelectSeq(@, LAMBDA w : ~Broken(w.path))]
  IN {item \in items : Selected(BuildSql(readable), item)}

QueryInit ==
  /\ table = {}
  /\ query = NewQuery(<<>>)
  /\ answer = NoAnswer

(* execute.                                                                *)
Execute(items, q) ==
  /\ table' = items /\ query' = q
  /\ \/ /\ Rejected(q) \/ (Unreadable(q) /\ items # {} /\ q.limit # 0)
        /\ answer' = [kind |-> "error", rows |-> <<>>]
     \/ /\ ~Rejected(q) /\ Unreadable(q)
        /\ q.limit = 0 \/ Passing(q, items) = {}
        /\ answer' = [kind |-> "rows", rows |-> <<>>]
     \/ /\ ~Rejected(q) /\ ~Unreadable(q)
        /\ \E found \in Answers(BuildSql(q), items) :
             answer' = [kind |-> "rows", rows |-> found]

QueryNext == /\ answer.kind = "none"
             /\ \E items \in Tables, q \in Asked : Execute(items, q)

-----------------------------------------------------------------------------
(* What the documentation of QueryOp promises, on the JSON values, with    *)
(* one exception: it speaks of literal substrings (query.rs:26), while     *)
(* "contains" by LIKE does not tell ASCII letters of either case apart.    *)
JsonBefore(v, w) ==
  \/ v.type = w.type /\ v.type \in {"bool", "int"} /\ v.n < w.n
  \/ v.type = w.type /\ v.type = "text" /\ TextBefore(v.s, w.s)

Within(part, s) ==
  \E k \in 0..(Len(s) - Len(part)) : SubSeq(s, k + 1, k + Len(part)) = part

Promised(op, v, w) ==
  CASE op = "eq" -> v = w
    [] op = "ne" -> v # w
    [] op = "gt" -> JsonBefore(w, v)
    [] op = "gte" -> v # JNull /\ (v = w \/ JsonBefore(w, v))
    [] op = "lt" -> JsonBefore(v, w)
    [] op = "lte" -> v # JNull /\ (v = w \/ JsonBefore(v, w))
    [] op = "contains" -> v # JNull /\ Within(Folded(w.s), Folded(v.s))
    [] op = "like" -> v # JNull /\ Like(w.s, FALSE, v.s)

FieldOf(item, path) == IF path.field = RatingField THEN item.rating ELSE JNull

(* A path that cannot be read selects nothing.                             *)
Wanted(q, item) ==
  /\ ~Unreadable(q)
  /\ item.collection = q.collection
  /\ q.deleted \/ ~item.deleted
  /\ q.did \in {0, item.did}
  /\ \A i \in DOMAIN q.wheres :
       Promised(q.wheres[i].op, FieldOf(item, q.wheres[i].path), q.wheres[i].value)

(* Values the promise covers: of one type, or missing, and within i64.     *)
LikeWithLike(v, op, w) ==
  /\ v.type # "big" /\ w.type # "big"
  /\ v.type \in {w.type, "null"} \/ w.type = "null"
  /\ op \in {"contains", "like"} => v.type \in {"text", "null"} /\ w.type = "text"

Covered(q, items) ==
  \A item \in items : \A i \in DOMAIN q.wheres :
    LikeWithLike(FieldOf(item, q.wheres[i].path), q.wheres[i].op, q.wheres[i].value)

(* The value a reader of the query expects a row to be sorted by.          *)
KeyOf(o, item) ==
  CASE o.term = "indexed_at" -> JInt(item.at)
    [] o.term = "uri" -> JText(<<item.uri>>)
    [] o.term = "did" -> JText(<<item.did>>)
    [] o.term = "json" -> FieldOf(item, o.path)

InOrder(q, a, b) ==
  \A k \in DOMAIN q.orders :
    \/ \E j \in 1..(k - 1) : KeyOf(q.orders[j], a) # KeyOf(q.orders[j], b)
    \/ IF q.orders[k].desc THEN ~JsonBefore(KeyOf(q.orders[k], a), KeyOf(q.orders[k], b))
                           ELSE ~JsonBefore(KeyOf(q.orders[k], b), KeyOf(q.orders[k], a))

(* The statement SQLite runs, with its parameters bound by position, gives *)
(* what the query asked for: rows that satisfy every clause in the sense   *)
(* of their JSON values, wildcards taken literally by "contains" (but for  *)
(* the case of ASCII letters), missing fields unequal to every value, in   *)
(* the order asked for, and as many of them as the page has.  Values of    *)
(* different types, which SQLite compares by type, and integers beyond     *)
(* i64, bound as text, are left out.                                       *)
AnswersAsAsked ==
  LET rows   == answer.rows
      wanted == {item \in table : Wanted(query, item)}
      skip   == IF query.offset = None THEN 0 ELSE query.offset
      left   == IF Cardinality(wanted) > skip THEN Cardinality(wanted) - skip ELSE 0
  IN answer.kind = "rows" /\ Covered(query, table) =>
       /\ \A i \in DOMAIN rows : rows[i] \in wanted
       /\ \A i, j \in DOMAIN rows : i < j => rows[i] # rows[j] /\ InOrder(query, rows[i], rows[j])
       /\ Len(rows) = IF query.limit = None \/ query.limit > left THEN left ELSE query.limit
=============================================================================
