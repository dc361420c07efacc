------------------------------ MODULE MCSkybase ------------------------------
(* Instances of Skybase for TLC.                                           *)
EXTENDS Skybase

Posts == Collection
Rating == Path("plain", RatingField)
DollarRating == Path("dollar", RatingField)
Missing == Path("bracket", 2)

A == <<97>>
CapitalA == <<65>>
Percent == <<37>>
Backslash == <<92>>

(* Three records: two with every pair of ratings, one maybe deleted.       *)
Item(u, d, at, deleted, rating) ==
  [uri |-> u, did |-> d, collection |-> Posts, at |-> at, deleted |-> deleted, rating |-> rating]

Ratings == {JNull, JBool(1), JInt(1), JInt(2), JBig(1), JText(CapitalA), JText(A \o Percent),
            JText(Backslash \o A)}

SomeTables ==
  {{Item(1, 1, 5, FALSE, r), Item(2, 2, 5, FALSE, s), Item(3, 1, 6, deleted, t)} :
     r \in Ratings, s \in Ratings, t \in {JNull, JInt(1), JText(A)}, deleted \in BOOLEAN}

(* One clause of every operator; two clauses; sorted pages; odd queries.   *)
Filters ==
  {WhereJson(NewQuery(Posts), Rating, op, v) :
     op \in {"eq", "ne", "gt", "gte", "lt", "lte", "contains", "like"},
     v \in {JNull, JBool(1), JInt(1), JBig(1), JText(Percent), JText(A), JText(Backslash)}}

Twice ==
  {WhereJson(WhereJson(NewQuery(Posts), Rating, op, v), DollarRating, op2, w) :
     op \in {"eq", "ne"}, v \in {JNull, JInt(2)},
     op2 \in {"lte", "contains"}, w \in {JInt(2), JText(A)}}

Sorted ==
  {OrderBy(OrderBy(q, a[1], Rating, a[2]), b[1], DollarRating, b[2]) :
     q \in {NewQuery(Posts), WhereJson(NewQuery(Posts), Rating, "ne", JNull),
            WhereJson(NewQuery(Posts), DollarRating, "gte", JInt(1))},
     a \in {<<"rating", TRUE>>, <<"indexed_at", FALSE>>},
     b \in {<<"rating", FALSE>>, <<"uri", TRUE>>}}

SortedPages ==
  {[q EXCEPT !.limit = l, !.offset = o] :
     q \in Sorted, l \in {None, 0, 1, 2}, o \in {None, 1, 2}}

Odd ==
  {NewQuery(<<>>),
   WhereJson(NewQuery(Posts), Path("junk", RatingField), "eq", JNull),
   OrderBy(NewQuery(Posts), "rating", Path("stray", RatingField), TRUE),
   [OrderBy(NewQuery(Posts), "rating", Path("broken", RatingField), TRUE) EXCEPT !.limit = 0],
   WhereJson(WhereJson(NewQuery(Posts), Path("broken", RatingField), "ne", JInt(1)),
             Rating, "eq", JInt(2)),
   [NewQuery(Posts) EXCEPT !.did = 1],
   [NewQuery(Posts) EXCEPT !.did = 1, !.deleted = TRUE],
   WhereJson([NewQuery(Posts) EXCEPT !.did = 1], Missing, "ne", JInt(1))}

SomeQueries == Filters \cup Twice \cup SortedPages \cup Odd

(* Hosts with and without a scheme, a path and a query of their own, which *)
(* may end in a mark or in a longer name that ends like a parameter's.     *)
Host == <<"host", 0>>
Own(kind) == <<kind, 9>>

SomeEndpoints ==
  {scheme \o <<Host>> \o path \o tail :
     scheme \in {<<>>, <<Scheme>>}, path \in {<<>>, <<Slash>>, <<Slash, <<"text", 0>>>>},
     tail \in {<<>>, <<Query>>, <<Query, Own("wantedCollections")>>,
               <<Query, Own("cursor"), Amp>>, <<Query, Own("other"), Amp, Own("wantedDids")>>,
               <<Query, <<"text", 0>>, Own("cursor")>>}}

(* Lists of the AppView up to four entries.                                *)
SomeLists == UNION {[1..n -> {"good", "bad"}] : n \in 0..4}
=============================================================================
