--------------------------- MODULE Skybase_proofs ---------------------------
(***************************************************************************)
(* Proofs about Skybase and the parts it composes.  The subscriber of the  *)
(* bus comes first, then the paged reader, the types of all parts and what *)
(* they keep of their own specifications, and then, part by part, dates,   *)
(* AppView reads, subscription URLs, link facets and the query builder.    *)
(***************************************************************************)
EXTENDS Skybase, RecordStore_proofs, PdsRepoClient_proofs, FiniteSetTheorems,
        WellFoundedInduction

(* What the application believes of u, once it has read its backlog.       *)
Followed(u) ==
  /\ LastSays(backlog, u, rows[u])
  /\ u \notin UrisOf(backlog) /\ ~lagged /\ ~dirty => Agrees(view[u], rows[u])

SubscriberOK ==
  /\ subscribed \in BOOLEAN /\ lagged \in BOOLEAN /\ dirty \in BOOLEAN
  /\ backlog \in Seq(Note) /\ Len(backlog) <= Ring
  /\ view \in [Uris -> Row]

(* The inductive invariant of the subscriber, besides that of the store.   *)
FeedInv ==
  /\ SubscriberOK
  /\ subscribed => \A u \in Uris \ (suspect \cup Owed) : Followed(u)

StoreAndFeed == StoreInv /\ ToldInv /\ FeedInv

-----------------------------------------------------------------------------
(* A step of the store that sends nothing: what is settled after it was    *)
(* settled before it, with the same row.                                   *)
Quiet ==
  /\ Sending = {}
  /\ \A u \in Uris \ (suspect' \cup Owed') : u \notin suspect \cup Owed /\ rows'[u] = rows[u]

LEMMA SameQuiet ==
  ASSUME UNCHANGED <<rows, outbox, suspect>>
  PROVE  Quiet
BY DEF Quiet, Sending, Owed

LEMMA OweQuiet ==
  ASSUME StoreInv, NEW w \in Writers, NEW u \in Uris, NEW r, NEW note, note.uri = u,
         Idle(w), Owe(w, u, note), rows' = [rows EXCEPT ![u] = r]
  PROVE  Quiet
<1>1. outbox \in [Writers -> Seq(Note)] /\ rows \in [Uris -> Row] /\ outbox[w] = <<>>
  BY DEF StoreInv, TypeOK, Idle
<1>2. outbox'[w] = <<note>> /\ \A v \in Writers \ {w} : outbox'[v] = outbox[v]
  BY <1>1 DEF Owe
<1>3. \A v \in Writers : outbox[v] # <<>> => outbox'[v] = outbox[v]
  BY <1>1, <1>2
<1>4. Sending = {}
  BY <1>3 DEF Sending
<1>5. UrisOf(outbox'[w]) = {u} /\ UrisOf(outbox[w]) = {}
  BY <1>1, <1>2, OneSaid, EmptySaid
<1>6. Owed' = Owed \cup {u}
  BY <1>2, <1>5 DEF Owed
<1>7. suspect \subseteq suspect' \cup {u}
  BY DEF Owe
<1>8. \A x \in Uris \ {u} : rows'[x] = rows[x]
  BY <1>1
<1> QED BY <1>4, <1>6, <1>7, <1>8 DEF Quiet

LEMMA CommitQuiet ==
  ASSUME StoreInv, ToldInv, CommitBatch
  PROVE  Quiet
<1> DEFINE notes == tx.upserts \o tx.deletes
           owner == lock
<1>1. /\ lock # Nobody /\ rows' = tx.rows
      /\ outbox' = [outbox EXCEPT ![owner] = notes]
      /\ suspect \subseteq suspect' \cup UrisOf(notes)
  BY DEF CommitBatch
<1>2. /\ tx \in Tx /\ outbox \in [Writers -> Seq(Note)] /\ owner \in Writers
      /\ tx.upserts \in Seq(Note) /\ tx.deletes \in Seq(Note)
  BY <1>1 DEF StoreInv, TypeOK, Tx
<1>3. outbox'[owner] = notes /\ \A v \in Writers \ {owner} : outbox'[v] = outbox[v]
  BY <1>1, <1>2
<1>4. outbox[owner] = <<>> /\ \A u \in Uris : TxTold(u)
  BY <1>1 DEF ToldInv, BatchTold
<1>5. UrisOf(notes) = UrisOf(tx.upserts) \cup UrisOf(tx.deletes)
  BY <1>2, SaidAfterConcat
<1> HIDE DEF notes, owner
<1>6. \A v \in Writers : outbox[v] # <<>> => outbox'[v] = outbox[v]
  BY <1>3, <1>4
<1>7. Sending = {}
  BY <1>6 DEF Sending
<1>8. Owed \cup UrisOf(notes) \subseteq Owed'
  <2>1. UrisOf(outbox[owner]) = {} /\ UrisOf(outbox'[owner]) = UrisOf(notes)
    BY <1>3, <1>4, EmptySaid
  <2>2. ASSUME NEW v \in Writers, NEW u \in UrisOf(outbox[v])
        PROVE  u \in UrisOf(outbox'[v])
    <3>1. v # owner
      BY <2>1, <2>2
    <3> QED BY <1>3, <3>1
  <2> QED BY <1>2, <2>1, <2>2 DEF Owed
<1>9. \A u \in Uris : u \notin UrisOf(notes) => rows'[u] = rows[u]
  BY <1>1, <1>4, <1>5 DEF TxTold
<1> QED BY <1>1, <1>7, <1>8, <1>9 DEF Quiet

(* Only publish_upsert and publish_delete are not quiet.                   *)
LEMMA StoreQuiet ==
  ASSUME StoreInv, ToldInv, Next
  PROVE  Quiet \/ \E w \in Writers : Publish(w)
<1>1. rows \in [Uris -> Row]
  BY DEF StoreInv, TypeOK
<1>2. ASSUME NEW w \in Writers, NEW u \in Uris, NEW c \in Cids, NEW t \in Times,
             UpsertRecord(w, u, c, t)
      PROVE  Quiet
  <2>1. rows' = [rows EXCEPT ![u] = UpsertRow(rows[u], c, t)] /\ Idle(w)
    BY <1>2 DEF UpsertRecord
  <2>2. CASE UpsertAccepted(rows[u], t)
    <3>1. Owe(w, u, UpsertNote(u, c, t)) /\ UpsertNote(u, c, t).uri = u
      BY <1>2, <2>2, NotesSayRows DEF UpsertRecord
    <3> QED BY <2>1, <3>1, OweQuiet
  <2>3. CASE ~UpsertAccepted(rows[u], t)
    <3>1. UNCHANGED <<outbox, suspect>>
      BY <1>2, <2>3 DEF UpsertRecord
    <3>2. UpsertRow(rows[u], c, t) = rows[u]
      BY <2>3 DEF UpsertRow
    <3>3. UNCHANGED rows
      BY <1>1, <2>1, <3>2
    <3> QED BY <3>1, <3>3, SameQuiet
  <2> QED BY <2>2, <2>3
<1>3. ASSUME NEW w \in Writers, NEW u \in Uris, NEW t \in Times, SoftDeleteRecord(w, u, t)
      PROVE  Quiet
  <2>1. rows' = [rows EXCEPT ![u] = DeleteRow(rows[u], t)] /\ Idle(w)
    BY <1>3 DEF SoftDeleteRecord
  <2>2. CASE DeleteAccepted(rows[u], t)
    <3>1. Owe(w, u, DeleteNote(u)) /\ DeleteNote(u).uri = u
      BY <1>3, <2>2, NotesSayRows DEF SoftDeleteRecord
    <3> QED BY <2>1, <3>1, OweQuiet
  <2>3. CASE ~DeleteAccepted(rows[u], t)
    <3>1. UNCHANGED <<outbox, suspect>>
      BY <1>3, <2>3 DEF SoftDeleteRecord
    <3>2. DeleteRow(rows[u], t) = rows[u]
      BY <2>3 DEF DeleteRow
    <3>3. UNCHANGED rows
      BY <1>1, <2>1, <3>2
    <3> QED BY <3>1, <3>3, SameQuiet
  <2> QED BY <2>2, <2>3
<1>4. ASSUME NEW w \in Writers, NEW u \in Uris, SoftDeleteUnversioned(w, u)
      PROVE  Quiet
  <2>1. /\ rows' = [rows EXCEPT ![u] = DeleteRowUnversioned(rows[u])]
        /\ Idle(w) /\ Owe(w, u, DeleteNote(u))
    BY <1>4 DEF SoftDeleteUnversioned
  <2> QED BY <2>1, NotesSayRows, OweQuiet
<1>5. ASSUME NEW w \in Writers, NEW u \in Uris, HardDeleteRecord(w, u)
      PROVE  Quiet
  <2>1. /\ rows' = [rows EXCEPT ![u] = Absent]
        /\ Idle(w) /\ Owe(w, u, DeleteNote(u))
    BY <1>5 DEF HardDeleteRecord
  <2> QED BY <2>1, NotesSayRows, OweQuiet
<1>6. ASSUME \/ \E w \in Writers, c \in Cursors : SetCursor(w, c)
             \/ \E w \in Writers, c \in Cursors \cup {0} : BeginBatch(w, c)
             \/ \E u \in Uris, c \in Cids, t \in Times : BatchUpsert(u, c, t)
             \/ \E u \in Uris, t \in Times : BatchDelete(u, t)
             \/ \E t \in Times : BatchSkip(t)
             \/ AbortBatch
      PROVE  Quiet
  <2>1. UNCHANGED <<rows, outbox, suspect>>
    BY <1>6 DEF SetCursor, BeginBatch, BatchUpsert, BatchDelete, BatchSkip, AbortBatch
  <2> QED BY <2>1, SameQuiet
<1> QED BY <1>2, <1>3, <1>4, <1>5, <1>6, CommitQuiet DEF Next

(* What a subscriber follows it still follows when nothing of its own      *)
(* changed.                                                                *)
LEMMA QuietFollowed ==
  ASSUME FeedInv, Quiet, UNCHANGED feedVars
  PROVE  FeedInv'
<1>1. SubscriberOK'
  BY DEF FeedInv, SubscriberOK, feedVars
<1>2. UNCHANGED subscribed
  BY DEF feedVars
<1>3. ASSUME subscribed, NEW u \in Uris \ (suspect' \cup Owed')
      PROVE  Followed(u)'
  <2>1. u \notin suspect \cup Owed /\ rows'[u] = rows[u]
    BY DEF Quiet
  <2>2. Followed(u)
    BY <1>3, <2>1 DEF FeedInv
  <2> QED BY <2>1, <2>2 DEF Followed, feedVars
<1> QED BY <1>1, <1>2, <1>3 DEF FeedInv

(* publish_upsert or publish_delete: the notification goes to the ring,    *)
(* and what it settles it settles with the row.                            *)
LEMMA PublishFollowed ==
  ASSUME StoreInv, ToldInv, FeedInv, NEW w \in Writers, Publish(w), StoreStep
  PROVE  FeedInv'
<1> DEFINE h == Head(outbox[w])
<1>1. /\ outbox \in [Writers -> Seq(Note)] /\ outbox[w] \in Seq(Note) /\ outbox[w] # <<>>
      /\ outbox' = [outbox EXCEPT ![w] = Tail(outbox[w])]
      /\ UNCHANGED <<rows, suspect>>
  BY DEF StoreInv, TypeOK, Publish
<1>2. /\ h \in Note
      /\ outbox'[w] = Tail(outbox[w]) /\ outbox'[w] # outbox[w]
      /\ \A v \in Writers \ {w} : outbox'[v] = outbox[v]
  <2>1. Len(Tail(outbox[w])) # Len(outbox[w]) /\ h \in Note
    BY <1>1, HeadTailProperties, LenProperties
  <2> QED BY <1>1, <2>1
<1>3. Sending = {w}
  BY <1>1, <1>2 DEF Sending
<1>4. /\ UrisOf(outbox[w]) = UrisOf(outbox'[w]) \cup {h.uri}
      /\ \A row : LastSays(outbox[w], h.uri, row) /\ h.uri \notin UrisOf(outbox'[w])
                    => Agrees(Seen(h), row)
  BY <1>1, <1>2, SaidAfterTail
<1>5. UNCHANGED <<subscribed, dirty, view>>
  BY DEF StoreStep
<1>6. IF subscribed THEN Broadcast(h) ELSE UNCHANGED <<backlog, lagged>>
  BY <1>3 DEF StoreStep
<1> HIDE DEF h
<1>7. /\ SubscriberOK /\ Ring \in Nat \ {0}
      /\ subscribed => \A u \in Uris \ (suspect \cup Owed) : Followed(u)
  BY FeedAssumption DEF FeedInv
<1>8. CASE ~subscribed
  <2>1. SubscriberOK'
    BY <1>5, <1>6, <1>7, <1>8 DEF SubscriberOK
  <2> QED BY <1>5, <1>8, <2>1 DEF FeedInv
<1>9. CASE subscribed
  <2> DEFINE kept == IF Len(backlog) < Ring THEN backlog ELSE Tail(backlog)
  <2>1. /\ backlog \in Seq(Note) /\ Len(backlog) \in Nat /\ Len(backlog) <= Ring
        /\ lagged \in BOOLEAN
    BY <1>7, LenProperties DEF SubscriberOK
  <2>2. /\ kept \in Seq(Note) /\ Len(kept) < Ring
        /\ \A u, row : LastSays(backlog, u, row) => LastSays(kept, u, row)
        /\ UrisOf(kept) \subseteq UrisOf(backlog)
        /\ ~lagged' => kept = backlog /\ ~lagged
        /\ lagged' \in BOOLEAN
        /\ backlog' = Append(kept, h)
    <3>1. CASE Len(backlog) < Ring
      BY <1>6, <1>9, <2>1, <3>1 DEF Broadcast
    <3>2. CASE ~(Len(backlog) < Ring)
      <4>1. backlog # <<>>
        BY <1>7, <2>1, <3>2
      <4>2. Tail(backlog) \in Seq(Note) /\ Len(Tail(backlog)) = Len(backlog) - 1
        BY <2>1, <4>1, HeadTailProperties
      <4>3. /\ UrisOf(Tail(backlog)) \subseteq UrisOf(backlog)
            /\ \A u, row : LastSays(backlog, u, row) => LastSays(Tail(backlog), u, row)
        BY <2>1, <4>1, SaidAfterTail
      <4>4. kept = Tail(backlog)
        BY <3>2
      <4>5. Len(Tail(backlog)) < Ring
        BY <1>7, <2>1, <4>2
      <4>6. backlog' = Append(Tail(backlog), h) /\ lagged' = TRUE
        BY <1>6, <1>9, <3>2 DEF Broadcast
      <4> HIDE DEF kept
      <4> QED BY <4>2, <4>3, <4>4, <4>5, <4>6
    <3> QED BY <3>1, <3>2
  <2> HIDE DEF kept
  <2>3. /\ UrisOf(backlog') = UrisOf(kept) \cup {h.uri}
        /\ \A u, row : LastSays(kept, u, row) /\ h.uri # u => LastSays(backlog', u, row)
        /\ \A row : Agrees(Seen(h), row) => LastSays(backlog', h.uri, row)
    BY <1>2, <2>2, SaidAfterAppend
  <2>4. SubscriberOK'
    <3>1. backlog' \in Seq(Note) /\ Len(backlog') = Len(kept) + 1
      BY <1>2, <2>2, AppendProperties
    <3>2. Len(kept) \in Nat
      BY <2>2, LenProperties
    <3>3. Len(backlog') <= Ring
      BY <1>7, <2>2, <3>1, <3>2
    <3> QED BY <1>5, <1>7, <2>2, <3>1, <3>3 DEF SubscriberOK
  <2>5. ASSUME NEW u \in Uris \ (suspect \cup Owed'), u # h.uri
        PROVE  Followed(u)'
    <3>1. u \notin Owed
      <4>1. \A v \in Writers : u \in UrisOf(outbox[v]) => u \in UrisOf(outbox'[v])
        BY <1>2, <1>4, <2>5
      <4> QED BY <2>5, <4>1 DEF Owed
    <3>2. Followed(u)
      BY <1>7, <1>9, <2>5, <3>1
    <3>3. LastSays(backlog', u, rows'[u])
      <4>1. LastSays(kept, u, rows[u])
        BY <2>2, <3>2 DEF Followed
      <4> QED BY <1>1, <2>3, <2>5, <4>1
    <3>4. u \notin UrisOf(backlog') /\ ~lagged' /\ ~dirty' => Agrees(view'[u], rows'[u])
      BY <1>1, <1>5, <2>2, <2>3, <3>2 DEF Followed
    <3> QED BY <3>3, <3>4 DEF Followed
  <2>6. ASSUME NEW u \in Uris \ (suspect \cup Owed'), u = h.uri
        PROVE  Followed(u)'
    <3>1. Told(u)
      BY DEF ToldInv, AllTold
    <3>2. LastSays(outbox[w], u, rows[u]) /\ u \notin UrisOf(outbox'[w])
      BY <2>6, <3>1 DEF Told, Owed
    <3>3. Agrees(Seen(h), rows'[u])
      BY <1>1, <1>4, <2>6, <3>2
    <3>4. LastSays(backlog', u, rows'[u]) /\ u \in UrisOf(backlog')
      BY <2>3, <2>6, <3>3
    <3> QED BY <3>4 DEF Followed
  <2> QED BY <1>1, <2>4, <2>5, <2>6 DEF FeedInv
<1> QED BY <1>8, <1>9

(* A step of the store under a subscriber.                                 *)
LEMMA StoreStepFollowed ==
  ASSUME StoreAndFeed, StoreStep
  PROVE  StoreAndFeed'
<1>1. StoreInv /\ ToldInv /\ FeedInv /\ Next
  BY DEF StoreAndFeed, StoreStep
<1>2. StoreInv' /\ ToldInv'
  BY <1>1, StoreKept, ToldKept
<1>3. ASSUME Quiet
      PROVE  FeedInv'
  <2>1. UNCHANGED feedVars
    BY <1>3 DEF StoreStep, Quiet, feedVars
  <2> QED BY <1>1, <1>3, <2>1, QuietFollowed
<1>4. FeedInv'
  BY <1>1, <1>3, StoreQuiet, PublishFollowed
<1> QED BY <1>2, <1>4 DEF StoreAndFeed

-----------------------------------------------------------------------------
LEMMA JoinedTwo ==
  ASSUME NEW a, NEW b
  PROVE  LET s == <<a>> \o <<b>>
         IN /\ s \in Seq({a, b}) /\ Len(s) = 2 /\ s[1] = a /\ s[2] = b
            /\ s \o <<>> = s
<1> DEFINE x == <<a>>
           y == <<b>>
<1>1. /\ x \in Seq({a, b}) /\ Len(x) = 1 /\ x[1] = a
      /\ y \in Seq({a, b}) /\ Len(y) = 1 /\ y[1] = b
  OBVIOUS
<1> HIDE DEF x, y
<1>2. /\ x \o y \in Seq({a, b}) /\ Len(x \o y) = Len(x) + Len(y)
      /\ \A i \in 1..(Len(x) + Len(y)) : (x \o y)[i] = IF i <= Len(x) THEN x[i] ELSE y[i - Len(x)]
  <2> DEFINE S == {a, b}
  <2>1. x \in Seq(S) /\ y \in Seq(S)
    BY <1>1
  <2> HIDE DEF S
  <2>2. /\ x \o y \in Seq(S) /\ Len(x \o y) = Len(x) + Len(y)
        /\ \A i \in 1..(Len(x) + Len(y)) : (x \o y)[i] = IF i <= Len(x) THEN x[i] ELSE y[i - Len(x)]
    BY <2>1, ConcatProperties
  <2> QED BY <2>2 DEF S
<1>3. Len(x) + Len(y) = 2 /\ 1 \in 1..2 /\ 2 \in 1..2 /\ 2 - Len(x) = 1 /\ 1 <= Len(x) /\ ~(2 <= Len(x))
  BY <1>1
<1>4. (x \o y)[1] = a /\ (x \o y)[2] = b
  BY <1>1, <1>2, <1>3
<1>5. (x \o y) \o <<>> = x \o y
  BY <1>2, ConcatEmptySeq
<1> QED BY <1>2, <1>3, <1>4, <1>5 DEF x, y

AsksForLive(stmt) ==
  /\ stmt.where = <<"collection">> \o <<"is_deleted = 0">>
  /\ Len(stmt.params) \in Nat \ {0} /\ stmt.params[1] = Text(Collection)

(* A statement with these conditions selects the live records, whatever    *)
(* its other parameters are.                                               *)
LEMMA LiveSelected ==
  ASSUME NEW stmt, NEW item, item.collection = Collection,
         AsksForLive(stmt)
  PROVE  Selected(stmt, item) <=> ~item.deleted
<1>1. Len(stmt.where) = 2 /\ DOMAIN stmt.where = 1..2
      /\ stmt.where[1] = "collection" /\ stmt.where[2] = "is_deleted = 0"
  <2> DEFINE s == <<"collection">> \o <<"is_deleted = 0">>
  <2>1. /\ s \in Seq({"collection", "is_deleted = 0"}) /\ Len(s) = 2
        /\ s[1] = "collection" /\ s[2] = "is_deleted = 0"
    BY JoinedTwo
  <2>2. stmt.where = s
    BY DEF AsksForLive
  <2> HIDE DEF s
  <2>3. DOMAIN s = 1..2
    BY <2>1, LenProperties
  <2> QED BY <2>1, <2>2, <2>3
<1>2. HolesBefore(stmt.where, 1) = 0
  <2>1. {hole \in (1..(1 - 1)) \X (1..2) : hole[2] <= Holes(stmt.where[hole[1]])} = {}
    OBVIOUS
  <2> QED BY <2>1, FS_EmptySet DEF HolesBefore
<1> DEFINE args(n) == [i \in 1..2 |-> IF n + i <= Len(stmt.params)
                                      THEN stmt.params[n + i] ELSE SqlNull]
<1>3. args(0)[1] = Text(Collection)
  <2>1. args(0)[1] = IF 0 + 1 <= Len(stmt.params) THEN stmt.params[0 + 1] ELSE SqlNull
    OBVIOUS
  <2>2. Len(stmt.params) \in Nat \ {0} /\ stmt.params[1] = Text(Collection)
    BY Zenon DEF AsksForLive
  <2>3. 0 + 1 = 1 /\ 1 <= Len(stmt.params)
    BY <2>2
  <2> HIDE DEF args
  <2> QED BY <2>1, <2>2, <2>3
<1> HIDE DEF args
<1>4. Holds("collection", args(0), item)
  BY <1>3 DEF Holds
<1>5. \A a : Holds("is_deleted = 0", a, item) <=> ~item.deleted
  BY DEF Holds
<1>6. Selected(stmt, item)
        <=> \A k \in 1..2 : Holds(stmt.where[k], args(HolesBefore(stmt.where, k)), item)
  BY <1>1 DEF Selected, args
<1>7. (\A k \in 1..2 : Holds(stmt.where[k], args(HolesBefore(stmt.where, k)), item))
        <=> ~item.deleted
  <2>1. \A k \in 1..2 : k = 1 \/ k = 2
    OBVIOUS
  <2>2. 1 \in 1..2 /\ 2 \in 1..2
    OBVIOUS
  <2> QED BY <1>1, <1>2, <1>4, <1>5, <2>1, <2>2
<1> QED BY <1>6, <1>7

(* A query of all records, without filters, order or pages, selects the    *)
(* live ones: the only parameter is bound to the only placeholder.         *)
LEMMA EverythingSelects ==
  ASSUME NEW item, item.collection = Collection
  PROVE  Selected(BuildSql(Everything), item) <=> ~item.deleted
<1> DEFINE q == Everything
           stmt == BuildSql(q)
<1>1. /\ q.collection = Collection /\ q.did = 0 /\ q.wheres = <<>> /\ q.orders = <<>>
      /\ q.limit = None /\ q.offset = None /\ q.deleted = FALSE
  BY DEF Everything, NewQuery
<1> HIDE DEF q
<1> DEFINE tests  == [i \in DOMAIN q.wheres |-> Test(q.wheres[i])]
<1>2. tests = <<>>
  BY <1>1
<1>3. /\ stmt.where = <<"collection">> \o (IF q.deleted THEN <<>> ELSE <<"is_deleted = 0">>)
                      \o (IF q.did = 0 THEN <<>> ELSE <<"did">>) \o tests
      /\ stmt.params = <<Text(q.collection)>> \o (IF q.did = 0 THEN <<>> ELSE <<Text(<<q.did>>)>>)
                       \o WhereValues(q) \o OrderValues(q) \o TailParams(q)
  BY DEF BuildSql
<1> HIDE DEF stmt, tests
<1>4. WhereValues(q) = <<>> /\ OrderValues(q) = <<>>
  <2>1. FlattenSeq(<<>>) = <<>>
    BY DEF FlattenSeq
  <2>2. /\ [i \in DOMAIN q.wheres |-> WhereParams(q.wheres[i])] = <<>>
        /\ [i \in DOMAIN q.orders |-> OrderParams(q.orders[i])] = <<>>
    BY <1>1
  <2>3. /\ FlattenSeq([i \in DOMAIN q.wheres |-> WhereParams(q.wheres[i])]) = <<>>
        /\ FlattenSeq([i \in DOMAIN q.orders |-> OrderParams(q.orders[i])]) = <<>>
    BY <2>1, <2>2
  <2>4. WhereValues(q) = <<>>
    BY <2>3, Zenon DEF WhereValues
  <2>5. OrderValues(q) = <<>>
    BY <2>3, Zenon DEF OrderValues
  <2> QED BY <2>4, <2>5
<1>5. TailParams(q) = <<>>
  <2>1. <<>> \o <<>> = <<>>
    BY ConcatEmptySeq
  <2> QED BY <1>1, <2>1 DEF TailParams
<1>6. stmt.where = <<"collection">> \o <<"is_deleted = 0">> \o <<>> \o <<>>
  BY <1>1, <1>2, <1>3
<1>7. stmt.params = <<Text(Collection)>> \o <<>> \o <<>> \o <<>> \o <<>>
  BY <1>1, <1>2, <1>3, <1>4, <1>5
<1>8. Len(stmt.params) = 1 /\ stmt.params[1] = Text(Collection)
  <2> DEFINE s == <<Text(Collection)>>
  <2>1. s \in Seq({Text(Collection)}) /\ Len(s) = 1 /\ s[1] = Text(Collection)
    OBVIOUS
  <2> HIDE DEF s
  <2>2. s \o <<>> = s
    BY <2>1, ConcatEmptySeq
  <2>3. stmt.params = s
    BY <1>7, <2>2 DEF s
  <2> QED BY <2>1, <2>3
<1>9. stmt.where = <<"collection">> \o <<"is_deleted = 0">>
  <2> DEFINE s == <<"collection">> \o <<"is_deleted = 0">>
  <2>1. s \o <<>> = s
    BY JoinedTwo
  <2>2. stmt.where = s \o <<>> \o <<>>
    BY <1>6
  <2> HIDE DEF s
  <2>3. stmt.where = s
    BY <2>1, <2>2
  <2> QED BY <2>3 DEF s
<1>10. AsksForLive(stmt)
  <2>1. Len(stmt.params) \in Nat \ {0} /\ stmt.params[1] = Text(Collection)
    BY <1>8
  <2> QED BY <1>9, <2>1, Zenon DEF AsksForLive
<1>11. Selected(stmt, item) <=> ~item.deleted
  BY <1>10, LiveSelected
<1> QED BY <1>11 DEF stmt, q

(* So its answer is what get_record shows of every URI.                    *)
LEMMA SnapshotShowsRows ==
  ASSUME StoreInv, NEW u \in Uris
  PROVE  LET seen == IF \E item \in Items : item.uri = u /\ Selected(BuildSql(Everything), item)
                     THEN rows[u] ELSE Absent
         IN seen \in Row /\ Agrees(seen, rows[u])
<1>1. rows[u] \in Row /\ Absent \in Row
  BY AbsentOK DEF StoreInv, TypeOK, RowOK
<1>2. \A item \in Items : Selected(BuildSql(Everything), item) <=> ~item.deleted
  <2> SUFFICES ASSUME NEW item \in Items
               PROVE  Selected(BuildSql(Everything), item) <=> ~item.deleted
    OBVIOUS
  <2>1. item.collection = Collection
    BY DEF Items
  <2> QED BY <2>1, EverythingSelects
<1>3. (\E item \in Items : item.uri = u /\ ~item.deleted) <=> Visible(rows[u])
  <2>1. ASSUME NEW item \in Items, item.uri = u
        PROVE  rows[u].state # "absent" /\ (item.deleted <=> rows[u].state = "deleted")
    <3>1. PICK v \in {v \in Uris : rows[v].state # "absent"} :
            item.uri = v /\ item.deleted = (rows[v].state = "deleted")
      BY DEF Items
    <3> QED BY <2>1, <3>1
  <2>2. rows[u].state # "absent" => \E item \in Items : item.uri = u
    <3> SUFFICES ASSUME rows[u].state # "absent" PROVE \E item \in Items : item.uri = u
      OBVIOUS
    <3> DEFINE it == [uri |-> u, did |-> 1, collection |-> Collection, at |-> rows[u].at,
                      deleted |-> rows[u].state = "deleted", rating |-> JNull]
    <3>1. it \in Items /\ it.uri = u
      BY DEF Items
    <3> QED BY <3>1
  <2>3. rows[u].state \in {"absent", "live", "deleted"}
    BY <1>1 DEF Row, RowStates
  <2> QED BY <2>1, <2>2, <2>3 DEF Visible
<1>4. (\E item \in Items : item.uri = u /\ Selected(BuildSql(Everything), item)) <=> Visible(rows[u])
  BY <1>2, <1>3
<1> QED BY <1>1, <1>4 DEF Agrees

-----------------------------------------------------------------------------
(* The subscriber's own steps.                                             *)
LEMMA SubscribeFollowed ==
  ASSUME FeedInv, Subscribe \/ Unsubscribe
  PROVE  FeedInv'
<1>1. /\ backlog' = <<>> /\ lagged' = FALSE /\ dirty' \in BOOLEAN /\ subscribed' \in BOOLEAN
      /\ subscribed' => dirty'
      /\ UNCHANGED view
  BY DEF Subscribe, Unsubscribe
<1>2. <<>> \in Seq(Note) /\ Len(<<>>) = 0 /\ Ring \in Nat
  BY FeedAssumption
<1>3. SubscriberOK'
  <2>1. lagged' \in BOOLEAN /\ view' \in [Uris -> Row]
    BY <1>1 DEF FeedInv, SubscriberOK
  <2>2. backlog' \in Seq(Note) /\ Len(backlog') <= Ring
    BY <1>1, <1>2
  <2> QED BY <1>1, <2>1, <2>2 DEF SubscriberOK
<1>4. \A u : LastSays(backlog', u, rows'[u])
  BY <1>1, EmptySaid, NothingSaid
<1>5. subscribed' => \A u : Followed(u)'
  BY <1>1, <1>4 DEF Followed
<1> QED BY <1>3, <1>5 DEF FeedInv

LEMMA SnapshotFollowed ==
  ASSUME StoreInv, FeedInv, Snapshot
  PROVE  FeedInv'
<1>1. /\ UNCHANGED <<rows, outbox, suspect, subscribed, backlog, lagged>>
      /\ dirty' = FALSE
  BY DEF Snapshot, vars
<1>2. \A u \in Uris : view'[u] \in Row /\ Agrees(view'[u], rows[u])
  BY SnapshotShowsRows DEF Snapshot
<1>3. view' \in [Uris -> Row]
  <2>1. view' = [u \in Uris |-> view'[u]]
    BY DEF Snapshot
  <2> QED BY <1>2, <2>1
<1>4. SubscriberOK'
  BY <1>1, <1>3 DEF FeedInv, SubscriberOK
<1>5. ASSUME subscribed, NEW u \in Uris \ (suspect \cup Owed)
      PROVE  Followed(u)'
  <2>1. Followed(u)
    BY <1>5 DEF FeedInv
  <2> QED BY <1>1, <1>2, <2>1 DEF Followed
<1>6. UNCHANGED Owed
  BY <1>1 DEF Owed
<1> QED BY <1>1, <1>4, <1>5, <1>6 DEF FeedInv

LEMMA ReceiveFollowed ==
  ASSUME FeedInv, Receive
  PROVE  FeedInv'
<1> DEFINE h == Head(backlog)
<1>1. UNCHANGED <<rows, outbox, suspect, subscribed>> /\ UNCHANGED Owed
  BY DEF Receive, vars, Owed
<1>2. CASE lagged /\ lagged' = FALSE /\ dirty' = TRUE /\ UNCHANGED <<backlog, view>>
  <2>1. SubscriberOK'
    BY <1>1, <1>2 DEF FeedInv, SubscriberOK
  <2>2. ASSUME subscribed, NEW u \in Uris \ (suspect \cup Owed)
        PROVE  Followed(u)'
    BY <1>1, <1>2, <2>2 DEF FeedInv, Followed
  <2> QED BY <1>1, <2>1, <2>2 DEF FeedInv
<1>3. CASE /\ ~lagged /\ backlog # <<>>
           /\ view' = [view EXCEPT ![h.uri] = Seen(h)]
           /\ backlog' = Tail(backlog)
           /\ UNCHANGED <<lagged, dirty>>
  <2>1. /\ backlog \in Seq(Note) /\ view \in [Uris -> Row] /\ Len(backlog) \in Nat
        /\ Len(backlog) <= Ring /\ Ring \in Nat
    BY LenProperties, FeedAssumption DEF FeedInv, SubscriberOK
  <2>2. h \in Note /\ backlog' \in Seq(Note) /\ Len(backlog') = Len(backlog) - 1
    BY <1>3, <2>1, HeadTailProperties
  <2>3. /\ UrisOf(backlog) = UrisOf(backlog') \cup {h.uri}
        /\ \A u, row : LastSays(backlog, u, row) => LastSays(backlog', u, row)
        /\ \A row : LastSays(backlog, h.uri, row) /\ h.uri \notin UrisOf(backlog')
                      => Agrees(Seen(h), row)
    BY <1>3, <2>1, SaidAfterTail
  <2> HIDE DEF h
  <2>4. Seen(h) \in Row /\ h.uri \in Uris
    BY <2>2, SeenOK
  <2>5. view' \in [Uris -> Row] /\ view'[h.uri] = Seen(h) /\ \A u \in Uris \ {h.uri} : view'[u] = view[u]
    BY <1>3, <2>1, <2>4
  <2>6. SubscriberOK'
    <3>1. Len(backlog') <= Ring
      BY <2>1, <2>2
    <3> QED BY <1>1, <1>3, <2>2, <2>5, <3>1 DEF FeedInv, SubscriberOK
  <2>7. ASSUME subscribed, NEW u \in Uris \ (suspect \cup Owed)
        PROVE  Followed(u)'
    <3>1. Followed(u)
      BY <2>7 DEF FeedInv
    <3>2. LastSays(backlog', u, rows'[u])
      BY <1>1, <2>3, <3>1 DEF Followed
    <3>3. ASSUME u \notin UrisOf(backlog'), ~lagged', ~dirty'
          PROVE  Agrees(view'[u], rows'[u])
      <4>1. CASE u = h.uri
        BY <1>1, <2>3, <2>5, <3>1, <3>3, <4>1 DEF Followed
      <4>2. CASE u # h.uri
        BY <1>1, <1>3, <2>3, <2>5, <3>1, <3>3, <4>2 DEF Followed
      <4> QED BY <4>1, <4>2
    <3> QED BY <3>2, <3>3 DEF Followed
  <2> QED BY <1>1, <2>6, <2>7 DEF FeedInv
<1> QED BY <1>2, <1>3 DEF Receive

(* Steps that leave the store and the subscriber alone.                    *)
LEMMA RestFollowed ==
  ASSUME StoreAndFeed, UNCHANGED <<vars, feedVars>>
  PROVE  StoreAndFeed'
<1>1. UNCHANGED vars /\ UNCHANGED feedVars /\ StoreInv /\ ToldInv /\ FeedInv
  BY DEF StoreAndFeed
<1>2. StoreInv' /\ ToldInv'
  BY <1>1, StoreKept, ToldKept
<1>3. UNCHANGED <<rows, outbox, suspect>>
  BY <1>1 DEF vars
<1>4. Quiet
  BY <1>3, SameQuiet
<1>5. FeedInv'
  BY <1>1, <1>4, QuietFollowed
<1> QED BY <1>2, <1>5 DEF StoreAndFeed

LEMMA FeedStart == FeedInit => StoreAndFeed
<1> SUFFICES ASSUME FeedInit PROVE StoreAndFeed
  OBVIOUS
<1>1. StoreInv /\ ToldInv
  BY StoreInit, ToldInit DEF FeedInit
<1>2. <<>> \in Seq(Note) /\ Len(<<>>) = 0 /\ Ring \in Nat
  BY FeedAssumption
<1>3. Absent \in Row
  BY AbsentOK DEF RowOK
<1>4. SubscriberOK
  <2>1. backlog \in Seq(Note) /\ Len(backlog) <= Ring
    BY <1>2 DEF FeedInit
  <2>2. subscribed \in BOOLEAN /\ lagged \in BOOLEAN /\ dirty \in BOOLEAN /\ view \in [Uris -> Row]
    BY <1>3 DEF FeedInit
  <2> QED BY <2>1, <2>2 DEF SubscriberOK
<1> QED BY <1>1, <1>4 DEF StoreAndFeed, FeedInv, FeedInit

LEMMA FeedKept ==
  ASSUME StoreAndFeed, [SkybaseNext]_skybaseVars
  PROVE  StoreAndFeed'
<1>1. StoreInv /\ ToldInv /\ FeedInv
  BY DEF StoreAndFeed
<1>2. ASSUME UNCHANGED vars, FeedInv'
      PROVE  StoreAndFeed'
  BY <1>1, <1>2, StoreKept, ToldKept DEF StoreAndFeed
<1>3. CASE StoreStep
  BY <1>3, StoreStepFollowed
<1>4. CASE Subscribe \/ Unsubscribe
  <2>1. UNCHANGED vars
    BY <1>4 DEF Subscribe, Unsubscribe
  <2> QED BY <1>1, <1>2, <1>4, <2>1, SubscribeFollowed
<1>5. CASE Snapshot
  <2>1. UNCHANGED vars
    BY <1>5 DEF Snapshot
  <2> QED BY <1>1, <1>2, <1>5, <2>1, SnapshotFollowed
<1>6. CASE Receive
  <2>1. UNCHANGED vars
    BY <1>6 DEF Receive
  <2> QED BY <1>1, <1>2, <1>6, <2>1, ReceiveFollowed
<1>7. CASE BeginReading \/ ReadPage
  <2>1. UNCHANGED <<vars, feedVars>>
    BY <1>7 DEF BeginReading, ReadPage
  <2> QED BY <2>1, RestFollowed
<1>8. CASE UNCHANGED storeAll
  BY <1>8, RestFollowed DEF storeAll
<1>9. SubscriberStep \/ ReaderStep \/ UNCHANGED storeAll
  BY DEF SkybaseNext, skybaseVars
<1> QED BY <1>3, <1>4, <1>5, <1>6, <1>7, <1>8, <1>9 DEF SubscriberStep, ReaderStep

LEMMA FeedInvariance == SkybaseSpec => []StoreAndFeed
<1>1. SkybaseInit => StoreAndFeed
  BY FeedStart DEF SkybaseInit
<1>2. StoreAndFeed /\ [SkybaseNext]_skybaseVars => StoreAndFeed'
  BY FeedKept
<1> QED BY <1>1, <1>2, PTL DEF SkybaseSpec

-----------------------------------------------------------------------------
(* A subscriber that has read all it was sent and has queried after it     *)
(* subscribed and after each loss it was told of agrees with get_record on *)
(* every URI for which nothing is owed and whose notifications were sent   *)
(* in the order of the writes: for a ring of any capacity, any number of   *)
(* threads, and batches of any length.                                     *)
THEOREM SubscriberCatchesUp == SkybaseSpec => []CaughtUpAgrees
<1>1. StoreAndFeed => CaughtUpAgrees
  BY EmptySaid DEF StoreAndFeed, FeedInv, Followed, CaughtUpAgrees, CaughtUp
<1> QED BY <1>1, FeedInvariance, PTL
-----------------------------------------------------------------------------
(* The URIs with a row, in the table and in a transaction, are finitely    *)
(* many, however many there could be.                                      *)
HeldIn(table_) == {u \in Uris : table_[u].state # "absent"}

FiniteTable == IsFiniteSet(HeldIn(rows)) /\ IsFiniteSet(HeldIn(tx.rows))

LEMMA HeldAfterWrite ==
  ASSUME NEW f \in [Uris -> Row], NEW u \in Uris, NEW r, IsFiniteSet(HeldIn(f))
  PROVE  IsFiniteSet(HeldIn([f EXCEPT ![u] = r]))
<1> DEFINE g == [f EXCEPT ![u] = r]
<1>1. HeldIn(g) \in SUBSET (HeldIn(f) \cup {u})
  BY DEF HeldIn
<1>2. IsFiniteSet(HeldIn(f) \cup {u})
  BY FS_AddElement
<1> QED BY <1>1, <1>2, FS_Subset

LEMMA NothingHeld == IsFiniteSet(HeldIn([u \in Uris |-> Absent]))
<1>1. HeldIn([u \in Uris |-> Absent]) = {}
  BY DEF HeldIn, Absent
<1> QED BY <1>1, FS_EmptySet

LEMMA FiniteKept ==
  ASSUME StoreInv, FiniteTable, [Next]_vars
  PROVE  FiniteTable'
<1>1. /\ rows \in [Uris -> Row] /\ tx \in Tx /\ tx.rows \in [Uris -> Row]
      /\ IsFiniteSet(HeldIn(rows)) /\ IsFiniteSet(HeldIn(tx.rows))
  BY DEF StoreInv, TypeOK, Tx, FiniteTable
<1>2. ASSUME NEW u \in Uris, NEW r, rows' = [rows EXCEPT ![u] = r], UNCHANGED tx
      PROVE  FiniteTable'
  <2>1. IsFiniteSet(HeldIn([rows EXCEPT ![u] = r]))
    BY <1>1, HeldAfterWrite
  <2> QED BY <1>1, <1>2, <2>1 DEF FiniteTable, HeldIn
<1>3. ASSUME NEW u \in Uris, NEW r, tx'.rows = [tx.rows EXCEPT ![u] = r], UNCHANGED rows
      PROVE  FiniteTable'
  <2>1. IsFiniteSet(HeldIn([tx.rows EXCEPT ![u] = r]))
    BY <1>1, HeldAfterWrite
  <2> QED BY <1>1, <1>3, <2>1 DEF FiniteTable, HeldIn
<1>4. ASSUME rows' = rows \/ rows' = tx.rows, tx'.rows = rows \/ tx'.rows = tx.rows \/ tx' = NoTx
      PROVE  FiniteTable'
  <2>1. NoTx.rows = [u \in Uris |-> Absent]
    BY DEF NoTx
  <2>2. IsFiniteSet(HeldIn(NoTx.rows))
    BY <2>1, NothingHeld
  <2> QED BY <1>1, <1>4, <2>2 DEF FiniteTable, HeldIn
<1>5. ASSUME NEW w \in Writers, NEW u \in Uris,
             \/ \E c \in Cids, t \in Times : UpsertRecord(w, u, c, t)
             \/ \E t \in Times : SoftDeleteRecord(w, u, t)
             \/ SoftDeleteUnversioned(w, u)
             \/ HardDeleteRecord(w, u)
      PROVE  FiniteTable'
  <2>1. UNCHANGED tx /\ \E r : rows' = [rows EXCEPT ![u] = r]
    BY <1>5 DEF UpsertRecord, SoftDeleteRecord, SoftDeleteUnversioned, HardDeleteRecord
  <2> QED BY <1>2, <2>1
<1>6. ASSUME NEW u \in Uris, NEW c \in Cids, NEW t \in Times, BatchUpsert(u, c, t)
      PROVE  FiniteTable'
  <2>1. UNCHANGED rows /\ tx'.rows = [tx.rows EXCEPT ![u] = UpsertRow(tx.rows[u], c, t)]
    BY <1>1, <1>6 DEF BatchUpsert, Tx
  <2> QED BY <1>3, <2>1
<1>7. ASSUME NEW u \in Uris, NEW t \in Times, BatchDelete(u, t)
      PROVE  FiniteTable'
  <2>1. UNCHANGED rows /\ tx'.rows = [tx.rows EXCEPT ![u] = DeleteRow(tx.rows[u], t)]
    BY <1>1, <1>7 DEF BatchDelete, Tx
  <2> QED BY <1>3, <2>1
<1>8. ASSUME NEW w \in Writers, NEW c \in Cursors \cup {0}, BeginBatch(w, c)
      PROVE  FiniteTable'
  <2>1. rows' = rows /\ tx'.rows = rows
    BY <1>8 DEF BeginBatch, NoTx
  <2> QED BY <1>4, <2>1
<1>9. ASSUME NEW t \in Times, BatchSkip(t)
      PROVE  FiniteTable'
  <2>1. rows' = rows /\ tx'.rows = tx.rows
    BY <1>1, <1>9 DEF BatchSkip, Tx
  <2> QED BY <1>4, <2>1
<1>10. CASE CommitBatch \/ AbortBatch
  <2>1. (rows' = rows \/ rows' = tx.rows) /\ tx' = NoTx
    BY <1>10 DEF CommitBatch, AbortBatch
  <2> QED BY <1>4, <2>1
<1>11. CASE \/ UNCHANGED vars
            \/ \E w \in Writers : Publish(w)
            \/ \E w \in Writers, c \in Cursors : SetCursor(w, c)
  <2>1. rows' = rows /\ tx' = tx
    BY <1>11 DEF vars, Publish, SetCursor
  <2> QED BY <1>4, <2>1
<1> QED BY <1>5, <1>6, <1>7, <1>8, <1>9, <1>10, <1>11 DEF Next

-----------------------------------------------------------------------------
(* The order in which a paged read sees the records.                       *)
LEMMA FlatPair ==
  ASSUME NEW s, Len(s) = 2, s[1] = <<>>, s[2] = <<>>
  PROVE  FlattenSeq(s) = <<>>
<1> DEFINE f == [i \in 1..2 |-> <<>>]
           flatten[i \in 1..Len(s)] == IF i = 1 THEN s[i] ELSE flatten[i - 1] \o s[i]
<1>1. f = [i \in 1..Len(s) |-> IF i = 1 THEN s[i] ELSE f[i - 1] \o s[i]]
  <2>1. \A i \in 1..2 : i = 1 \/ (i = 2 /\ i - 1 = 1)
    OBVIOUS
  <2>2. f[1] = <<>> /\ f[2] = <<>> /\ <<>> \o <<>> = <<>>
    BY ConcatEmptySeq
  <2>3. \A i \in 1..2 : f[i] = IF i = 1 THEN s[i] ELSE f[i - 1] \o s[i]
    BY <2>1, <2>2
  <2>4. f = [i \in 1..2 |-> f[i]]
    OBVIOUS
  <2> HIDE DEF f
  <2> QED BY <2>3, <2>4
<1>2. flatten = [i \in 1..Len(s) |-> IF i = 1 THEN s[i] ELSE flatten[i - 1] \o s[i]]
  BY <1>1
<1>3. FlattenSeq(s) = flatten[Len(s)]
  BY DEF FlattenSeq
<1> HIDE DEF flatten
<1>4. 1 \in 1..Len(s) /\ 2 \in 1..Len(s) /\ 2 # 1 /\ 2 - 1 = 1
  OBVIOUS
<1>5. \A i \in 1..Len(s) : flatten[i] = IF i = 1 THEN s[i] ELSE flatten[i - 1] \o s[i]
  BY <1>2
<1>6. flatten[1] = <<>>
  BY <1>4, <1>5
<1>7. flatten[2] = <<>> \o <<>>
  BY <1>4, <1>5, <1>6
<1> QED BY <1>3, <1>7, ConcatEmptySeq

LEMMA AppendedTwo ==
  ASSUME NEW a, NEW b
  PROVE  LET s == Append(Append(<<>>, a), b)
         IN Len(s) = 2 /\ DOMAIN s = 1..2 /\ s[1] = a /\ s[2] = b
<1> DEFINE S == {a, b}
           x == Append(<<>>, a)
           s == Append(x, b)
<1>1. <<>> \in Seq(S) /\ Len(<<>>) = 0 /\ a \in S /\ b \in S
  OBVIOUS
<1> HIDE DEF S
<1>2. x \in Seq(S) /\ Len(x) = 1 /\ x[1] = a
  BY <1>1, AppendProperties
<1> HIDE DEF x
<1>3. s \in Seq(S) /\ Len(s) = Len(x) + 1 /\ s[Len(x) + 1] = b
      /\ \A i \in 1..Len(x) : s[i] = x[i]
  <2>1. b \in S /\ x \in Seq(S)
    BY <1>1, <1>2
  <2> QED BY <2>1, AppendProperties
<1>4. DOMAIN s = 1..2
  BY <1>2, <1>3, LenProperties
<1>5. Len(s) = 2 /\ s[2] = b /\ s[1] = a
  BY <1>2, <1>3
<1> QED BY <1>3, <1>4, <1>5 DEF x

(* What NextPage is compiled to, with n records read.                      *)
ReadsNext(stmt, n) ==
  /\ stmt.where = <<"collection">> \o <<"is_deleted = 0">>
  /\ DOMAIN stmt.order = 1..2
  /\ stmt.order[1] = [term |-> "indexed_at", desc |-> FALSE]
  /\ stmt.order[2] = [term |-> "uri", desc |-> FALSE]
  /\ stmt.tail = "LIMIT ? OFFSET ?"
  /\ stmt.params = <<Text(Collection)>> \o (<<Number(1)>> \o <<Number(n)>>)

LEMMA NextPageStatement ==
  ASSUME pages \in Seq(Uris)
  PROVE  ReadsNext(BuildSql(NextPage), Len(pages))
<1> DEFINE q == NextPage
           stmt == BuildSql(q)
           n == Len(pages)
           t1 == [term |-> "indexed_at", path |-> BadPath, desc |-> FALSE]
           t2 == [term |-> "uri", path |-> BadPath, desc |-> FALSE]
<1>1. /\ q.collection = Collection /\ q.did = 0 /\ q.wheres = <<>>
      /\ q.orders = Append(Append(<<>>, t1), t2)
      /\ q.limit = 1 /\ q.offset = n /\ q.deleted = FALSE
  BY DEF NextPage, OrderBy, NewQuery, Columns
<1>2. Len(q.orders) = 2 /\ DOMAIN q.orders = 1..2 /\ q.orders[1] = t1 /\ q.orders[2] = t2
  <2> HIDE DEF t1, t2
  <2>1. LET s == Append(Append(<<>>, t1), t2)
        IN Len(s) = 2 /\ DOMAIN s = 1..2 /\ s[1] = t1 /\ s[2] = t2
    BY AppendedTwo
  <2> QED BY <1>1, <2>1
<1>3. n \in Nat /\ n # None /\ 1 # None
  BY LenProperties DEF None
<1> HIDE DEF q, n
<1> DEFINE tests  == [i \in DOMAIN q.wheres |-> Test(q.wheres[i])]
<1>4. tests = <<>>
  BY <1>1
<1>5. /\ stmt.where = <<"collection">> \o (IF q.deleted THEN <<>> ELSE <<"is_deleted = 0">>)
                      \o (IF q.did = 0 THEN <<>> ELSE <<"did">>) \o tests
      /\ stmt.order = [i \in DOMAIN q.orders |-> [term |-> q.orders[i].term, desc |-> q.orders[i].desc]]
      /\ stmt.tail = LimitClause(q)
      /\ stmt.params = <<Text(q.collection)>> \o (IF q.did = 0 THEN <<>> ELSE <<Text(<<q.did>>)>>)
                       \o WhereValues(q) \o OrderValues(q) \o TailParams(q)
  BY DEF BuildSql
<1> HIDE DEF stmt, tests
<1>6. WhereValues(q) = <<>>
  <2>1. FlattenSeq(<<>>) = <<>>
    BY DEF FlattenSeq
  <2>2. [i \in DOMAIN q.wheres |-> WhereParams(q.wheres[i])] = <<>>
    BY <1>1
  <2>3. FlattenSeq([i \in DOMAIN q.wheres |-> WhereParams(q.wheres[i])]) = <<>>
    BY <2>1, <2>2
  <2> QED BY <2>3, Zenon DEF WhereValues
<1>7. OrderValues(q) = <<>>
  <2> DEFINE s == [i \in DOMAIN q.orders |-> OrderParams(q.orders[i])]
  <2>1. OrderParams(t1) = <<>> /\ OrderParams(t2) = <<>>
    BY DEF OrderParams
  <2>2. Len(s) = 2 /\ s[1] = <<>> /\ s[2] = <<>>
    BY <1>2, <2>1
  <2>3. FlattenSeq(s) = <<>>
    <3> HIDE DEF s
    <3> QED BY <2>2, FlatPair
  <2> QED BY <2>3, Zenon DEF OrderValues
<1>8. TailParams(q) = <<Number(1)>> \o <<Number(n)>>
  BY <1>1, <1>3 DEF TailParams
<1>9. stmt.where = <<"collection">> \o <<"is_deleted = 0">>
  <2>1. stmt.where = <<"collection">> \o <<"is_deleted = 0">> \o <<>> \o <<>>
    BY <1>1, <1>4, <1>5
  <2> DEFINE s == <<"collection">> \o <<"is_deleted = 0">>
  <2>2. s \o <<>> = s
    BY JoinedTwo
  <2> HIDE DEF s
  <2>3. stmt.where = s \o <<>> \o <<>>
    BY <2>1 DEF s
  <2>4. stmt.where = s
    BY <2>2, <2>3
  <2> QED BY <2>4 DEF s
<1>10. stmt.params = <<Text(Collection)>> \o (<<Number(1)>> \o <<Number(n)>>)
  <2> DEFINE s == <<Text(Collection)>>
             t == <<Number(1)>> \o <<Number(n)>>
  <2>1. s \o <<>> = s
    <3>1. s \in Seq({Text(Collection)})
      OBVIOUS
    <3> HIDE DEF s
    <3> QED BY <3>1, ConcatEmptySeq
  <2>2. stmt.params = s \o <<>> \o <<>> \o <<>> \o t
    BY <1>1, <1>5, <1>6, <1>7, <1>8
  <2> HIDE DEF s, t
  <2>3. stmt.params = s \o t
    BY <2>1, <2>2
  <2> QED BY <2>3 DEF s, t
<1>11. DOMAIN stmt.order = 1..2 /\ stmt.order[1] = [term |-> "indexed_at", desc |-> FALSE]
       /\ stmt.order[2] = [term |-> "uri", desc |-> FALSE]
  <2>1. stmt.order = [i \in 1..2 |-> [term |-> q.orders[i].term, desc |-> q.orders[i].desc]]
    BY <1>2, <1>5
  <2>2. 1 \in 1..2 /\ 2 \in 1..2
    OBVIOUS
  <2>3. stmt.order[1] = [term |-> q.orders[1].term, desc |-> q.orders[1].desc]
    BY <2>1, <2>2
  <2>4. stmt.order[2] = [term |-> q.orders[2].term, desc |-> q.orders[2].desc]
    BY <2>1, <2>2
  <2>5. t1.term = "indexed_at" /\ t1.desc = FALSE /\ t2.term = "uri" /\ t2.desc = FALSE
    OBVIOUS
  <2>6. DOMAIN stmt.order = 1..2
    BY <2>1
  <2> HIDE DEF t1, t2
  <2> QED BY <1>2, <2>3, <2>4, <2>5, <2>6
<1>12. stmt.tail = "LIMIT ? OFFSET ?"
  BY <1>1, <1>3, <1>5 DEF LimitClause
<1> QED BY <1>9, <1>10, <1>11, <1>12 DEF ReadsNext, stmt, q, n

(* LIMIT 1 OFFSET n: one row behind the first n, if there is one.          *)
LEMMA PageOfOne ==
  ASSUME NEW stmt, NEW n \in Nat, NEW S, NEW s \in Seq(S),
         ReadsNext(stmt, n)
  PROVE  /\ Len(stmt.params) = 3 /\ stmt.params[1] = Text(Collection)
         /\ n < Len(s) => Page(stmt, s) = <<s[n + 1]>>
         /\ n >= Len(s) => Page(stmt, s) = <<>>
<1> DEFINE x == <<Text(Collection)>>
           y == <<Number(1)>> \o <<Number(n)>>
           V == {Text(Collection), Number(1), Number(n)}
<1>1. x \in Seq(V) /\ Len(x) = 1 /\ x[1] = Text(Collection)
  OBVIOUS
<1>2. y \in Seq(V) /\ Len(y) = 2 /\ y[1] = Number(1) /\ y[2] = Number(n)
  <2>1. /\ y \in Seq({Number(1), Number(n)}) /\ Len(y) = 2 /\ y[1] = Number(1) /\ y[2] = Number(n)
    BY JoinedTwo
  <2>2. {Number(1), Number(n)} \subseteq V
    OBVIOUS
  <2> HIDE DEF y, V
  <2>3. y \in Seq(V)
    BY <2>1, <2>2, SeqMonotonic
  <2> QED BY <2>1, <2>3
<1>3. stmt.params = x \o y
  BY DEF ReadsNext
<1> HIDE DEF x, y, V
<1>4. /\ Len(x \o y) = Len(x) + Len(y)
      /\ \A i \in 1..(Len(x) + Len(y)) : (x \o y)[i] = IF i <= Len(x) THEN x[i] ELSE y[i - Len(x)]
  BY <1>1, <1>2, ConcatProperties
<1>5. /\ Len(stmt.params) = 3 /\ stmt.params[1] = Text(Collection)
      /\ stmt.params[2] = Number(1) /\ stmt.params[3] = Number(n)
  <2>1. Len(x) + Len(y) = 3
    BY <1>1, <1>2
  <2>2. \A i \in 1..3 : stmt.params[i] = IF i <= 1 THEN x[i] ELSE y[i - 1]
    BY <1>1, <1>3, <1>4, <2>1
  <2>3. /\ 1 \in 1..3 /\ 2 \in 1..3 /\ 3 \in 1..3 /\ 2 - 1 = 1 /\ 3 - 1 = 2
        /\ 1 <= 1 /\ ~(2 <= 1) /\ ~(3 <= 1)
    OBVIOUS
  <2> QED BY <1>1, <1>2, <1>3, <1>4, <2>1, <2>2, <2>3
<1>6. stmt.params[Len(stmt.params) - 1].n = 1 /\ stmt.params[Len(stmt.params)].n = n
  <2>1. Len(stmt.params) - 1 = 2
    BY <1>5
  <2> QED BY <1>5, <2>1 DEF Number, Sql
<1>7. Len(s) \in Nat
  BY LenProperties
<1>8. Page(stmt, s) = SubSeq(s, n + 1, IF n + 1 <= Len(s) THEN n + 1 ELSE Len(s))
  BY <1>6 DEF Page, ReadsNext
<1>9. ASSUME n < Len(s)
      PROVE  Page(stmt, s) = <<s[n + 1]>>
  <2>1. n + 1 <= Len(s) /\ n + 1 \in 1..Len(s) /\ n + 1 \in Int
    BY <1>7, <1>9
  <2> DEFINE m == n + 1
             p == SubSeq(s, m, m)
  <2>2. Page(stmt, s) = p
    BY <1>8, <2>1
  <2>3. \A i \in m..m : s[i] \in S
    BY <2>1, ElementOfSeq
  <2>4. m \in Int /\ m <= m /\ m - m + 1 = 1
    BY <2>1
  <2> HIDE DEF m
  <2>5. p \in Seq(S) /\ Len(p) = 1 /\ \A i \in 1..(m - m + 1) : p[i] = s[m + i - 1]
    BY <2>3, <2>4, SubSeqProperties
  <2>6. p[1] = s[m]
    <3>1. 1 \in 1..(m - m + 1) /\ m + 1 - 1 = m
      BY <2>4
    <3> QED BY <2>5, <3>1
  <2> HIDE DEF p
  <2>7. p = <<s[m]>>
    <3>1. s[m] \in S
      BY <2>3, <2>4
    <3> DEFINE t == <<s[m]>>
    <3>2. t \in Seq(S) /\ Len(t) = 1 /\ t[1] = s[m]
      BY <3>1
    <3> HIDE DEF t
    <3>3. \A i \in 1..1 : p[i] = t[i]
      BY <2>6, <3>2
    <3>4. p = t
      BY <2>5, <3>2, <3>3, SeqEqual
    <3> QED BY <3>4 DEF t
  <2> QED BY <2>2, <2>7 DEF m
<1>10. ASSUME n >= Len(s)
       PROVE  Page(stmt, s) = <<>>
  <2>1. ~(n + 1 <= Len(s)) /\ Len(s) < n + 1 /\ n + 1 \in Int /\ Len(s) \in Int
    BY <1>7, <1>10
  <2>2. Page(stmt, s) = SubSeq(s, n + 1, Len(s))
    BY <1>8, <2>1
  <2> QED BY <2>1, <2>2, SubSeqEmpty
<1> QED BY <1>5, <1>9, <1>10

(* The order of the records that are read: by time, then by URI.           *)
Before(v, u) == rows[v].at < rows[u].at \/ (rows[v].at = rows[u].at /\ v < u)

LEMMA OneLetter ==
  ASSUME NEW u \in Nat, NEW v \in Nat
  PROVE  TextBefore(<<u>>, <<v>>) <=> u < v
<1>1. Len(<<u>>) = 1 /\ Len(<<v>>) = 1 /\ <<u>>[1] = u /\ <<v>>[1] = v
  OBVIOUS
<1>2. \A i \in 1..1 : i = 1 /\ 1..(i - 1) = {}
  OBVIOUS
<1> QED BY <1>1, <1>2 DEF TextBefore

LEMMA SortedByTimeThenUri ==
  ASSUME NEW stmt, NEW a \in Items, NEW b \in Items, rows \in [Uris -> Row],
         NEW n, ReadsNext(stmt, n)
  PROVE  SortsBefore(stmt, a, b) <=> Before(a.uri, b.uri)
<1>1. /\ a.uri \in Uris /\ a.at = rows[a.uri].at /\ b.uri \in Uris /\ b.at = rows[b.uri].at
  BY DEF Items
<1>2. /\ a.uri \in Nat /\ b.uri \in Nat /\ a.at \in Nat /\ b.at \in Nat
  BY <1>1, FeedAssumption DEF Row
<1>3. \A item : /\ SortValue(stmt, 1, item) = Number(item.at)
                /\ SortValue(stmt, 2, item) = Text(<<item.uri>>)
  <2>1. stmt.order[1].term = "indexed_at" /\ stmt.order[2].term = "uri"
    <3>1. /\ stmt.order[1] = [term |-> "indexed_at", desc |-> FALSE]
          /\ stmt.order[2] = [term |-> "uri", desc |-> FALSE]
      BY Zenon DEF ReadsNext
    <3> QED BY <3>1
  <2> QED BY <2>1 DEF SortValue
<1>4. SqlBefore(Number(a.at), Number(b.at)) <=> a.at < b.at
  BY <1>2 DEF SqlBefore, Number, Sql
<1>5. Number(a.at) = Number(b.at) <=> a.at = b.at
  BY DEF Number, Sql
<1>6. SqlBefore(Text(<<a.uri>>), Text(<<b.uri>>)) <=> a.uri < b.uri
  <2>1. SqlBefore(Text(<<a.uri>>), Text(<<b.uri>>)) <=> TextBefore(<<a.uri>>, <<b.uri>>)
    BY DEF SqlBefore, Text, Sql
  <2> QED BY <1>2, <2>1, OneLetter
<1>7. ~stmt.order[1].desc /\ ~stmt.order[2].desc /\ DOMAIN stmt.order = 1..2
  <2>1. /\ stmt.order[1] = [term |-> "indexed_at", desc |-> FALSE]
        /\ stmt.order[2] = [term |-> "uri", desc |-> FALSE]
        /\ DOMAIN stmt.order = 1..2
    BY Zenon DEF ReadsNext
  <2> QED BY <2>1
<1>8. SortsBefore(stmt, a, b) <=>
        \/ SqlBefore(SortValue(stmt, 1, a), SortValue(stmt, 1, b))
        \/ /\ SortValue(stmt, 1, a) = SortValue(stmt, 1, b)
           /\ SqlBefore(SortValue(stmt, 2, a), SortValue(stmt, 2, b))
  <2>1. \A k \in 1..2 : k = 1 \/ k = 2
    OBVIOUS
  <2>2. 1 \in 1..2 /\ 2 \in 1..2 /\ 1..(1 - 1) = {} /\ 1..(2 - 1) = {1}
    OBVIOUS
  <2>3. SortsBefore(stmt, a, b) <=>
          \E k \in 1..2 :
            /\ \A j \in 1..(k - 1) : SortValue(stmt, j, a) = SortValue(stmt, j, b)
            /\ SqlBefore(SortValue(stmt, k, a), SortValue(stmt, k, b))
    BY <1>7, <2>1 DEF SortsBefore
  <2> QED BY <2>1, <2>2, <2>3
<1> QED BY <1>1, <1>3, <1>4, <1>5, <1>6, <1>8 DEF Before

(* What is bad somewhere up to a bound but not at 0 is bad first at some   *)
(* n > 0: the form in which these proofs do induction.                     *)
LEMMA FirstBad ==
  ASSUME NEW bound \in Nat, NEW bad \in SUBSET (0..bound), bad # {}, 0 \notin bad
  PROVE  \E n \in 1..bound : n \in bad /\ \A m \in 0..(n - 1) : m \notin bad
<1>1. PICK n \in bad : \A m \in bad : <<m, n>> \notin OpToRel(<, Nat)
  <2>1. bad \subseteq Nat
    OBVIOUS
  <2> QED BY <2>1, NatLessThanWellFounded, WFMin
<1>2. n \in 1..bound
  OBVIOUS
<1>3. ASSUME NEW m \in 0..(n - 1)
      PROVE  m \notin bad
  <2>1. m \in Nat /\ n \in Nat /\ m < n
    BY <1>2
  <2>2. <<m, n>> \in OpToRel(<, Nat)
    BY <2>1 DEF OpToRel
  <2> QED BY <1>1, <2>2
<1> QED BY <1>2, <1>3

(* The live records in front of that of u.                                 *)
Ahead(u) == {v \in Uris : Visible(rows[v]) /\ Before(v, u)}

LEMMA BeforeOrders ==
  ASSUME rows \in [Uris -> Row]
  PROVE  /\ \A u \in Uris : ~Before(u, u)
         /\ \A u, v, w \in Uris : Before(u, v) /\ Before(v, w) => Before(u, w)
         /\ \A u, v \in Uris : u # v => Before(u, v) \/ Before(v, u)
<1>1. \A u \in Uris : rows[u].at \in Nat /\ u \in Nat
  BY FeedAssumption DEF Row
<1> QED BY <1>1 DEF Before

(* In a list of all live records in which each stands before the next, the *)
(* k-th has k - 1 in front of it.                                          *)
LEMMA RankInList ==
  ASSUME rows \in [Uris -> Row], NEW m \in Nat, NEW t \in [1..m -> Uris],
         \A i \in 1..m : Visible(rows[t[i]]),
         \A u \in Uris : Visible(rows[u]) => \E i \in 1..m : t[i] = u,
         \A i \in 1..(m - 1) : Before(t[i], t[i + 1]),
         NEW k \in 1..m
  PROVE  IsFiniteSet(Ahead(t[k])) /\ Cardinality(Ahead(t[k])) = k - 1
<1> USE BeforeOrders
<1>1. ASSUME NEW i \in 1..m, NEW j \in 1..m, i < j
      PROVE  Before(t[i], t[j])
  <2> DEFINE bad == {d \in 0..(m - i) : d > 0 /\ ~Before(t[i], t[i + d])}
  <2>1. m - i \in Nat /\ bad \in SUBSET (0..(m - i)) /\ 0 \notin bad
    OBVIOUS
  <2>2. ASSUME bad # {}
        PROVE  FALSE
    <3>1. PICK d \in 1..(m - i) : d \in bad /\ \A e \in 0..(d - 1) : e \notin bad
      <4> HIDE DEF bad
      <4> QED BY <2>1, <2>2, FirstBad
    <3>2. d - 1 \in 0..(d - 1) /\ d - 1 \in 0..(m - i) /\ i + (d - 1) \in 1..(m - 1)
          /\ i + (d - 1) + 1 = i + d /\ i + d \in 1..m
      OBVIOUS
    <3>3. Before(t[i + (d - 1)], t[i + d])
      BY <3>2
    <3>4. CASE d = 1
      <4>1. i + (d - 1) = i
        BY <3>4
      <4> QED BY <3>1, <3>3, <4>1
    <3>5. CASE d # 1
      <4>1. d - 1 > 0
        BY <3>5
      <4>2. Before(t[i], t[i + (d - 1)])
        BY <3>1, <3>2, <4>1
      <4>3. t[i] \in Uris /\ t[i + (d - 1)] \in Uris /\ t[i + d] \in Uris
        BY <3>2
      <4>4. Before(t[i], t[i + d])
        BY <3>3, <4>2, <4>3
      <4> QED BY <3>1, <4>4
    <3> QED BY <3>4, <3>5
  <2>3. j - i \in 0..(m - i) /\ j - i > 0 /\ i + (j - i) = j
    BY <1>1
  <2> QED BY <2>2, <2>3
<1> DEFINE ahead == Ahead(t[k])
           f == [i \in 1..(k - 1) |-> t[i]]
<1>2. \A i \in 1..(k - 1) : i \in 1..m /\ i < k
  OBVIOUS
<1>3. f \in [1..(k - 1) -> ahead] /\ \A i \in 1..(k - 1) : f[i] = t[i]
  BY <1>1, <1>2 DEF Ahead
<1>4. \A i, j \in 1..(k - 1) : f[i] = f[j] => i = j
  <2> SUFFICES ASSUME NEW i \in 1..(k - 1), NEW j \in 1..(k - 1), t[i] = t[j], i # j
               PROVE  FALSE
    BY <1>3
  <2>1. i < j \/ j < i
    OBVIOUS
  <2>2. t[i] \in Uris /\ Before(t[i], t[i])
    BY <1>1, <1>2, <2>1
  <2> QED BY <2>2
<1>5. ASSUME NEW v \in ahead
      PROVE  \E i \in 1..(k - 1) : f[i] = v
  <2>1. v \in Uris /\ Visible(rows[v]) /\ Before(v, t[k])
    BY DEF Ahead
  <2>2. PICK i \in 1..m : t[i] = v
    BY <2>1
  <2>3. ~(k <= i)
    <3>1. ~Before(t[k], v)
      BY <2>1
    <3>2. k # i
      BY <2>1, <2>2
    <3> QED BY <1>1, <2>2, <3>1, <3>2
  <2>4. i \in 1..(k - 1)
    BY <2>3
  <2> QED BY <1>3, <2>2, <2>4
<1> HIDE DEF f, ahead
<1>6. f \in Bijection(1..(k - 1), ahead)
  BY <1>3, <1>4, <1>5 DEF Bijection, Injection, Surjection, IsInjective
<1>7. ExistsBijection(1..(k - 1), ahead)
  BY <1>6 DEF ExistsBijection
<1>8. IsFiniteSet(1..(k - 1)) /\ Cardinality(1..(k - 1)) = k - 1
  <2>1. 1 \in Int /\ k - 1 \in Int
    OBVIOUS
  <2>2. Cardinality(1..(k - 1)) = IF 1 > k - 1 THEN 0 ELSE k - 1 - 1 + 1
    BY <2>1, FS_Interval
  <2> QED BY <2>1, <2>2, FS_Interval
<1> QED BY <1>7, <1>8, FS_Bijection DEF ahead

LEMMA AheadFinite ==
  ASSUME FiniteTable, NEW u
  PROVE  IsFiniteSet(Ahead(u)) /\ Cardinality(Ahead(u)) \in Nat
<1>1. Ahead(u) \in SUBSET HeldIn(rows)
  BY DEF Ahead, HeldIn, Visible
<1> QED BY <1>1, FS_Subset, FS_CardinalityType DEF FiniteTable

(* The rows there are, one item each.                                      *)
LEMMA ItemsOfRows ==
  ASSUME StoreInv, FiniteTable
  PROVE  /\ IsFiniteSet(Items)
         /\ \A a \in Items : /\ a.uri \in Uris /\ a.collection = Collection
                             /\ ~a.deleted <=> Visible(rows[a.uri])
         /\ \A a, b \in Items : a.uri = b.uri => a = b
         /\ \A u \in Uris : Visible(rows[u]) => \E a \in Items : a.uri = u
<1> DEFINE item(u) == [uri |-> u, did |-> 1, collection |-> Collection, at |-> rows[u].at,
                       deleted |-> rows[u].state = "deleted", rating |-> JNull]
           f == [u \in HeldIn(rows) |-> item(u)]
<1>1. Items = {item(u) : u \in HeldIn(rows)}
  BY DEF Items, HeldIn
<1>2. \A u : item(u).uri = u /\ item(u).collection = Collection
             /\ (item(u).deleted <=> rows[u].state = "deleted")
  OBVIOUS
<1> HIDE DEF item
<1>3. f \in [HeldIn(rows) -> Items] /\ \A a \in Items : \E u \in HeldIn(rows) : f[u] = a
  BY <1>1
<1>4. IsFiniteSet(Items)
  <2>1. f \in Surjection(HeldIn(rows), Items)
    BY <1>3 DEF Surjection
  <2> QED BY <2>1, FS_Surjection DEF FiniteTable
<1>5. \A u \in HeldIn(rows) : u \in Uris /\ (rows[u].state # "deleted" <=> Visible(rows[u]))
  <2>1. \A u \in Uris : rows[u].state \in {"absent", "live", "deleted"}
    BY DEF StoreInv, TypeOK, Row, RowStates
  <2> QED BY <2>1 DEF HeldIn, Visible
<1>6. \A u \in Uris : Visible(rows[u]) => u \in HeldIn(rows)
  BY DEF HeldIn, Visible
<1>7. \A a \in Items : /\ a.uri \in Uris /\ a.collection = Collection
                       /\ ~a.deleted <=> Visible(rows[a.uri])
  BY <1>1, <1>2, <1>5
<1>8. \A a, b \in Items : a.uri = b.uri => a = b
  BY <1>1, <1>2
<1>9. \A u \in Uris : Visible(rows[u]) => \E a \in Items : a.uri = u
  BY <1>1, <1>2, <1>6
<1> QED BY <1>4, <1>7, <1>8, <1>9

(* A page has the record with as many in front of it as have been read; it *)
(* is empty when there is no such record, nor one with more.               *)
PageBrings(page) ==
  \/ /\ page = <<>>
     /\ \A u \in Uris : Visible(rows[u]) => Cardinality(Ahead(u)) < Len(pages)
  \/ \E item : /\ page = <<item>> /\ item.uri \in Uris /\ Visible(rows[item.uri])
               /\ Cardinality(Ahead(item.uri)) = Len(pages)

LEMMA NextPageBrings ==
  ASSUME StoreInv, FiniteTable, pages \in Seq(Uris),
         NEW page \in Answers(BuildSql(NextPage), Items)
  PROVE  PageBrings(page)
<1> DEFINE stmt == BuildSql(NextPage)
           n == Len(pages)
           found == {item \in Items : Selected(stmt, item)}
           m == Cardinality(found)
<1>1. ReadsNext(stmt, n) /\ n \in Nat
  BY NextPageStatement, LenProperties
<1>2. page \in Answers(stmt, Items)
  OBVIOUS
<1>3. rows \in [Uris -> Row]
  BY DEF StoreInv, TypeOK
<1> HIDE DEF stmt, n
<1>4. PICK s \in SetToSeqs(found) : /\ page = Page(stmt, s)
                                    /\ \A i \in 1..(Len(s) - 1) : ~SortsBefore(stmt, s[i + 1], s[i])
  BY <1>2 DEF Answers
<1>5. AsksForLive(stmt)
  <2>1. <<>> \in Seq({})
    OBVIOUS
  <2>2. Len(stmt.params) = 3 /\ stmt.params[1] = Text(Collection)
    BY <1>1, <2>1, PageOfOne
  <2>3. stmt.where = <<"collection">> \o <<"is_deleted = 0">>
    BY <1>1, Zenon DEF ReadsNext
  <2>4. Len(stmt.params) \in Nat \ {0}
    BY <2>2
  <2> QED BY <2>2, <2>3, <2>4, Zenon DEF AsksForLive
<1>6. /\ \A a \in found : a \in Items /\ a.uri \in Uris /\ Visible(rows[a.uri])
      /\ \A u \in Uris : Visible(rows[u]) => \E a \in found : a.uri = u
  <2>1. \A a \in Items : Selected(stmt, a) <=> Visible(rows[a.uri])
    BY <1>5, ItemsOfRows, LiveSelected
  <2> QED BY <2>1, ItemsOfRows
<1>7. IsFiniteSet(found) /\ m \in Nat
  <2>1. found \in SUBSET Items
    OBVIOUS
  <2> HIDE DEF found
  <2> QED BY <2>1, ItemsOfRows, FS_Subset, FS_CardinalityType
<1> HIDE DEF found
<1>8. s \in [1..m -> found] /\ \A i, j \in 1..m : i # j => s[i] # s[j]
  BY <1>4 DEF SetToSeqs
<1>9. \A a \in found : \E i \in 1..m : s[i] = a
  <2>1. s \in Injection(1..m, found)
    BY <1>8 DEF Injection, IsInjective
  <2>2. Cardinality(1..m) = m
    BY <1>7, FS_Interval
  <2>3. s \in Surjection(1..m, found)
    BY <1>7, <2>1, <2>2, FS_Injection
  <2> QED BY <2>3 DEF Surjection
<1> HIDE DEF m
<1>10. s \in Seq(found) /\ Len(s) = m
  BY <1>7, <1>8
<1> DEFINE t == [i \in 1..m |-> s[i].uri]
<1>11. t \in [1..m -> Uris] /\ \A i \in 1..m : t[i] = s[i].uri /\ Visible(rows[t[i]])
  BY <1>6, <1>8
<1>12. \A u \in Uris : Visible(rows[u]) => \E i \in 1..m : t[i] = u
  BY <1>6, <1>9, <1>11
<1>13. ASSUME NEW i \in 1..(m - 1)
       PROVE  Before(t[i], t[i + 1])
  <2>1. i \in 1..m /\ i + 1 \in 1..m /\ i # i + 1
    BY <1>7
  <2>2. s[i] \in Items /\ s[i + 1] \in Items /\ s[i] # s[i + 1]
    BY <1>6, <1>8, <2>1
  <2>3. ~SortsBefore(stmt, s[i + 1], s[i])
    BY <1>4, <1>10, <1>13
  <2>4. ~Before(s[i + 1].uri, s[i].uri)
    BY <1>1, <1>3, <2>2, <2>3, SortedByTimeThenUri
  <2>5. s[i].uri # s[i + 1].uri
    BY <2>2, ItemsOfRows
  <2>6. t[i] = s[i].uri /\ t[i + 1] = s[i + 1].uri /\ t[i] \in Uris /\ t[i + 1] \in Uris
    BY <1>11, <2>1
  <2> QED BY <1>3, <2>4, <2>5, <2>6, BeforeOrders
<1>14. \A k \in 1..m : Cardinality(Ahead(t[k])) = k - 1
  <2> HIDE DEF t
  <2> QED BY <1>3, <1>7, <1>11, <1>12, <1>13, RankInList
<1>15. CASE n < Len(s)
  <2>1. page = <<s[n + 1]>>
    BY <1>1, <1>4, <1>10, <1>15, PageOfOne
  <2>2. n + 1 \in 1..m
    BY <1>1, <1>7, <1>10, <1>15
  <2>3. s[n + 1].uri = t[n + 1] /\ s[n + 1].uri \in Uris /\ Visible(rows[s[n + 1].uri])
    BY <1>11, <2>2
  <2>4. Cardinality(Ahead(s[n + 1].uri)) = n
    BY <1>1, <1>14, <2>2, <2>3
  <2> QED BY <2>1, <2>3, <2>4 DEF PageBrings, n
<1>16. CASE ~(n < Len(s))
  <2>1. n >= Len(s) /\ n >= m
    BY <1>1, <1>7, <1>10, <1>16
  <2>2. page = <<>>
    BY <1>1, <1>4, <1>10, <2>1, PageOfOne
  <2>3. ASSUME NEW u \in Uris, Visible(rows[u])
        PROVE  Cardinality(Ahead(u)) < n
    <3>1. PICK i \in 1..m : t[i] = u
      BY <1>12, <2>3
    <3>2. Cardinality(Ahead(u)) = i - 1
      BY <1>14, <3>1
    <3> QED BY <1>1, <1>7, <2>1, <3>2
  <2> QED BY <2>2, <2>3 DEF PageBrings, n
<1> QED BY <1>15, <1>16

LEMMA RanksDiffer ==
  ASSUME StoreInv, FiniteTable, NEW u \in Uris, NEW v \in Uris, u # v,
         Visible(rows[u]), Visible(rows[v])
  PROVE  Cardinality(Ahead(u)) # Cardinality(Ahead(v))
<1>1. rows \in [Uris -> Row]
  BY DEF StoreInv, TypeOK
<1>2. ASSUME NEW a \in Uris, NEW b \in Uris, Visible(rows[a]), Before(a, b)
      PROVE  Cardinality(Ahead(a)) # Cardinality(Ahead(b))
  <2>1. a \notin Ahead(a)
    BY <1>1, BeforeOrders DEF Ahead
  <2>2. Ahead(a) \cup {a} \in SUBSET Ahead(b)
    BY <1>1, <1>2, BeforeOrders DEF Ahead
  <2>3. /\ IsFiniteSet(Ahead(a)) /\ Cardinality(Ahead(a)) \in Nat
        /\ IsFiniteSet(Ahead(b)) /\ Cardinality(Ahead(b)) \in Nat
    BY AheadFinite
  <2>4. Cardinality(Ahead(a) \cup {a}) = Cardinality(Ahead(a)) + 1
    BY <2>1, <2>3, FS_AddElement
  <2>5. Cardinality(Ahead(a) \cup {a}) <= Cardinality(Ahead(b))
    BY <2>2, <2>3, FS_Subset
  <2> QED BY <2>3, <2>4, <2>5
<1> QED BY <1>1, <1>2, BeforeOrders

(* How often u is among the URIs read, when x is read next.                *)
Reads(list_, u) == Cardinality({i \in DOMAIN list_ : list_[i] = u})

LEMMA ReadsAfter ==
  ASSUME NEW p \in Seq(Uris), NEW x \in Uris, NEW u \in Uris
  PROVE  /\ Reads(p, u) \in Nat
         /\ p \o <<x>> \in Seq(Uris) /\ Len(p \o <<x>>) = Len(p) + 1
         /\ Reads(p \o <<x>>, u) = IF x = u THEN Reads(p, u) + 1 ELSE Reads(p, u)
<1> DEFINE y == <<x>>
           q == p \o y
           n == Len(p)
           at == {i \in DOMAIN p : p[i] = u}
<1>1. y \in Seq(Uris) /\ Len(y) = 1 /\ y[1] = x
  OBVIOUS
<1> HIDE DEF y
<1>2. n \in Nat /\ DOMAIN p = 1..n
  BY LenProperties
<1>3. /\ q \in Seq(Uris) /\ Len(q) = n + 1
      /\ \A i \in 1..(n + 1) : q[i] = IF i <= n THEN p[i] ELSE y[i - n]
  <2>1. /\ q \in Seq(Uris) /\ Len(q) = Len(p) + Len(y)
        /\ \A i \in 1..(Len(p) + Len(y)) : q[i] = IF i <= Len(p) THEN p[i] ELSE y[i - Len(p)]
    BY <1>1, ConcatProperties
  <2> HIDE DEF q
  <2> QED BY <1>1, <2>1
<1>4. DOMAIN q = 1..(n + 1)
  BY <1>3, LenProperties
<1> HIDE DEF q
<1>5. (\A i \in 1..n : i \in 1..(n + 1) /\ q[i] = p[i]) /\ n + 1 \in 1..(n + 1) /\ q[n + 1] = x
  <2>1. n + 1 - n = 1 /\ n + 1 \in 1..(n + 1) /\ ~(n + 1 <= n)
    BY <1>2
  <2>2. \A i \in 1..n : i \in 1..(n + 1) /\ i <= n
    BY <1>2
  <2> QED BY <1>1, <1>3, <2>1, <2>2
<1>6. IsFiniteSet(at) /\ Cardinality(at) \in Nat /\ n + 1 \notin at
  <2>1. at \in SUBSET (1..n)
    BY <1>2
  <2>2. IsFiniteSet(1..n)
    BY <1>2, FS_Interval
  <2>3. n + 1 \notin 1..n
    BY <1>2
  <2> HIDE DEF at, n
  <2> QED BY <2>1, <2>2, <2>3, FS_Subset, FS_CardinalityType
<1>7. {i \in DOMAIN q : q[i] = u} = IF x = u THEN at \cup {n + 1} ELSE at
  <2>1. \A i \in 1..(n + 1) : i = n + 1 \/ i \in 1..n
    BY <1>2
  <2> QED BY <1>2, <1>4, <1>5, <2>1
<1>8. Cardinality(at \cup {n + 1}) = Cardinality(at) + 1
  BY <1>6, FS_AddElement
<1> QED BY <1>3, <1>6, <1>7, <1>8 DEF Reads, q, y

-----------------------------------------------------------------------------
(* A record that was there unchanged all the time has been read once when  *)
(* its rank has been passed, if none came; and has not been passed when it *)
(* has not been read, if none went.                                        *)
Awaited(u) ==
  /\ went = {} /\ TimesRead(u) = 0 => Len(pages) <= Cardinality(Ahead(u))
  /\ came = {} /\ TimesRead(u) # 0 => TimesRead(u) = 1 /\ Cardinality(Ahead(u)) < Len(pages)

ReaderOK ==
  /\ reading \in {"idle", "pages", "done"} /\ pages \in Seq(Uris)
  /\ came \subseteq Uris /\ went \subseteq Uris

(* The inductive invariant of the reader, besides that of the store.       *)
ReaderInv ==
  /\ ReaderOK
  /\ reading = "pages" => \A u \in Uris \ (came \cup went) :
       IF Visible(rows[u]) THEN Awaited(u) ELSE TimesRead(u) = 0
  /\ PagesMissForCause

LEMMA ReaderRests ==
  ASSUME ReaderInv, UNCHANGED <<rows, readVars>>
  PROVE  ReaderInv'
<1>1. UNCHANGED <<reading, pages, came, went>>
  BY DEF readVars
<1>2. \A u : UNCHANGED Ahead(u)
  BY DEF Ahead, Before
<1>3. \A u : UNCHANGED TimesRead(u)
  BY <1>1 DEF TimesRead
<1>4. \A u : Awaited(u)' <=> Awaited(u)
  BY <1>1, <1>2, <1>3 DEF Awaited
<1>5. ReaderOK'
  BY <1>1 DEF ReaderInv, ReaderOK
<1>6. PagesMissForCause'
  BY <1>1, <1>3 DEF ReaderInv, PagesMissForCause
<1> QED BY <1>1, <1>3, <1>4, <1>5, <1>6 DEF ReaderInv

(* Writers at work between two pages.                                      *)
LEMMA StoreStepUnderReader ==
  ASSUME ReaderInv, StoreStep, FiniteTable, FiniteTable', rows' \in [Uris -> Row]
  PROVE  ReaderInv'
<1>1. UNCHANGED <<reading, pages>>
  BY DEF StoreStep
<1>2. \A u : UNCHANGED TimesRead(u)
  BY <1>1 DEF TimesRead
<1>3. ReaderOK
  BY DEF ReaderInv
<1>4. CASE reading = "idle"
  <2>1. UNCHANGED <<came, went>>
    BY <1>4 DEF StoreStep
  <2>2. ReaderOK'
    BY <1>1, <1>3, <2>1 DEF ReaderOK
  <2> QED BY <1>1, <1>4, <2>2 DEF ReaderInv, PagesMissForCause
<1>5. CASE reading # "idle"
  <2>1. /\ came' = came \cup {u \in Uris : Visible(rows'[u]) /\ rows'[u] # rows[u]}
        /\ went' = went \cup {u \in Uris : Visible(rows[u]) /\ rows'[u] # rows[u]}
    BY <1>5 DEF StoreStep
  <2>2. ReaderOK'
    BY <1>1, <1>3, <2>1 DEF ReaderOK
  <2>3. ASSUME NEW u \in Uris \ (came' \cup went')
        PROVE  /\ u \in Uris \ (came \cup went)
               /\ Visible(rows'[u]) <=> Visible(rows[u])
               /\ Visible(rows[u]) => rows'[u] = rows[u]
    BY <2>1, <2>3
  <2>4. (came' = {} => came = {}) /\ (went' = {} => went = {})
    BY <2>1
  <2>5. ASSUME reading = "pages", NEW u \in Uris \ (came' \cup went')
        PROVE  IF Visible(rows'[u]) THEN Awaited(u)' ELSE TimesRead(u)' = 0
    <3>1. CASE ~Visible(rows'[u])
      <4>1. TimesRead(u) = 0
        BY <2>3, <2>5, <3>1 DEF ReaderInv
      <4> QED BY <1>2, <3>1, <4>1
    <3>2. CASE Visible(rows'[u])
      <4>1. Awaited(u) /\ rows'[u] = rows[u]
        BY <2>3, <2>5, <3>2 DEF ReaderInv
      <4>2. /\ IsFiniteSet(Ahead(u)) /\ Cardinality(Ahead(u)) \in Nat
            /\ IsFiniteSet(Ahead(u)') /\ Cardinality(Ahead(u)') \in Nat
        <5>1. IsFiniteSet(Ahead(u)) /\ Cardinality(Ahead(u)) \in Nat
          BY AheadFinite
        <5>2. Ahead(u)' \in SUBSET HeldIn(rows')
          BY DEF Ahead, HeldIn, Visible
        <5>3. IsFiniteSet(HeldIn(rows'))
          BY DEF FiniteTable, HeldIn
        <5>4. IsFiniteSet(Ahead(u)') /\ Cardinality(Ahead(u)') \in Nat
          BY <5>2, <5>3, FS_Subset, FS_CardinalityType
        <5> QED BY <5>1, <5>4
      <4>3. Len(pages) \in Nat
        BY <1>3, LenProperties DEF ReaderOK
      <4>4. went' = {} => Cardinality(Ahead(u)) <= Cardinality(Ahead(u)')
        <5> SUFFICES ASSUME went' = {} PROVE Cardinality(Ahead(u)) <= Cardinality(Ahead(u)')
          OBVIOUS
        <5>1. \A v \in Uris : Visible(rows[v]) => rows'[v] = rows[v]
          BY <2>1
        <5>2. Ahead(u) \in SUBSET Ahead(u)'
          BY <4>1, <5>1 DEF Ahead, Before
        <5> QED BY <4>2, <5>2, FS_Subset
      <4>5. came' = {} => Cardinality(Ahead(u)') <= Cardinality(Ahead(u))
        <5> SUFFICES ASSUME came' = {} PROVE Cardinality(Ahead(u)') <= Cardinality(Ahead(u))
          OBVIOUS
        <5>1. \A v \in Uris : Visible(rows'[v]) => rows'[v] = rows[v]
          BY <2>1
        <5>2. Ahead(u)' \in SUBSET Ahead(u)
          BY <4>1, <5>1 DEF Ahead, Before
        <5> QED BY <4>2, <5>2, FS_Subset
      <4>6. went' = {} /\ TimesRead(u)' = 0 => Len(pages') <= Cardinality(Ahead(u)')
        BY <1>1, <1>2, <2>4, <4>1, <4>2, <4>3, <4>4 DEF Awaited
      <4>7. came' = {} /\ TimesRead(u)' # 0
              => TimesRead(u)' = 1 /\ Cardinality(Ahead(u)') < Len(pages')
        BY <1>1, <1>2, <2>4, <4>1, <4>2, <4>3, <4>5 DEF Awaited
      <4>8. Awaited(u)'
        BY <4>6, <4>7 DEF Awaited
      <4> QED BY <3>2, <4>8
    <3> QED BY <3>1, <3>2
  <2>6. PagesMissForCause'
    <3> SUFFICES ASSUME reading' = "done", NEW u \in Uris \ (came' \cup went')
                 PROVE  IF Visible(rows'[u]) THEN /\ TimesRead(u)' = 0 => went' # {}
                                                  /\ TimesRead(u)' > 1 => came' # {}
                                             ELSE TimesRead(u)' = 0
      BY DEF PagesMissForCause
    <3>1. IF Visible(rows[u]) THEN /\ TimesRead(u) = 0 => went # {}
                                   /\ TimesRead(u) > 1 => came # {}
                              ELSE TimesRead(u) = 0
      BY <1>1, <2>3 DEF ReaderInv, PagesMissForCause
    <3> QED BY <1>2, <2>3, <2>4, <3>1
  <2> QED BY <1>1, <2>2, <2>5, <2>6 DEF ReaderInv
<1> QED BY <1>4, <1>5

LEMMA BeginReadingBegins ==
  ASSUME StoreInv, FiniteTable, BeginReading
  PROVE  ReaderInv'
<1>1. /\ reading' = "pages" /\ pages' = <<>> /\ came' = {} /\ went' = {}
      /\ UNCHANGED rows
  BY DEF BeginReading, vars
<1>2. \A u : TimesRead(u)' = 0
  <2>1. \A u : {i \in DOMAIN pages' : pages'[i] = u} = {}
    BY <1>1
  <2> QED BY <2>1, FS_EmptySet DEF TimesRead
<1>3. Len(pages') = 0 /\ pages' \in Seq(Uris)
  BY <1>1
<1>4. \A u : Cardinality(Ahead(u)') \in Nat
  <2>1. \A u : UNCHANGED Ahead(u)
    BY <1>1 DEF Ahead, Before
  <2> QED BY <2>1, AheadFinite
<1>5. \A u : Awaited(u)'
  BY <1>2, <1>3, <1>4 DEF Awaited
<1>6. ReaderOK'
  BY <1>1, <1>3 DEF ReaderOK
<1> QED BY <1>1, <1>2, <1>5, <1>6 DEF ReaderInv, PagesMissForCause

LEMMA ReadPageReads ==
  ASSUME StoreInv, FiniteTable, ReaderInv, ReadPage
  PROVE  ReaderInv'
<1>1. /\ reading = "pages" /\ UNCHANGED <<rows, came, went>>
      /\ pages \in Seq(Uris) /\ ReaderOK
      /\ \A u \in Uris \ (came \cup went) :
           IF Visible(rows[u]) THEN Awaited(u) ELSE TimesRead(u) = 0
  BY DEF ReadPage, vars, ReaderInv, ReaderOK
<1>2. PICK page \in Answers(BuildSql(NextPage), Items) :
        /\ pages' = pages \o [i \in DOMAIN page |-> page[i].uri]
        /\ reading' = IF page = <<>> THEN "done" ELSE "pages"
  BY DEF ReadPage
<1>3. PageBrings(page)
  BY <1>1, NextPageBrings
<1>4. Len(pages) \in Nat /\ \A u : Cardinality(Ahead(u)) \in Nat
  BY <1>1, LenProperties, AheadFinite
<1>5. CASE /\ page = <<>>
           /\ \A u \in Uris : Visible(rows[u]) => Cardinality(Ahead(u)) < Len(pages)
  <2>1. [i \in DOMAIN page |-> page[i].uri] = <<>>
    BY <1>5
  <2>2. reading' = "done" /\ pages' = pages
    BY <1>1, <1>2, <1>5, <2>1, ConcatEmptySeq
  <2>3. ReaderOK'
    BY <1>1, <2>2 DEF ReaderOK
  <2>4. \A u : UNCHANGED TimesRead(u)
    BY <2>2 DEF TimesRead
  <2>5. ASSUME NEW u \in Uris \ (came \cup went), Visible(rows[u])
        PROVE  (TimesRead(u) = 0 => went # {}) /\ (TimesRead(u) > 1 => came # {})
    BY <1>1, <1>4, <1>5, <2>5 DEF Awaited
  <2>6. PagesMissForCause'
    BY <1>1, <2>4, <2>5 DEF PagesMissForCause
  <2> QED BY <2>2, <2>3, <2>6 DEF ReaderInv
<1>6. ASSUME NEW item, page = <<item>>, item.uri \in Uris, Visible(rows[item.uri]),
             Cardinality(Ahead(item.uri)) = Len(pages)
      PROVE  ReaderInv'
  <2> DEFINE x == item.uri
  <2>1. [i \in DOMAIN page |-> page[i].uri] = <<x>> /\ page # <<>>
    BY <1>6
  <2>2. reading' = "pages" /\ pages' = pages \o <<x>>
    BY <1>2, <2>1
  <2> HIDE DEF x
  <2>3. x \in Uris /\ Visible(rows[x]) /\ Cardinality(Ahead(x)) = Len(pages)
    BY <1>6 DEF x
  <2>4. pages' \in Seq(Uris) /\ Len(pages') = Len(pages) + 1
    <3>1. \A u \in Uris : pages \o <<x>> \in Seq(Uris) /\ Len(pages \o <<x>>) = Len(pages) + 1
      BY <1>1, <2>3, ReadsAfter
    <3> QED BY <2>2, <2>3, <3>1
  <2>5. \A u \in Uris : /\ TimesRead(u) \in Nat
                        /\ TimesRead(u)' = IF x = u THEN TimesRead(u) + 1 ELSE TimesRead(u)
    <3> SUFFICES ASSUME NEW u \in Uris
                 PROVE  /\ TimesRead(u) \in Nat
                        /\ TimesRead(u)' = IF x = u THEN TimesRead(u) + 1 ELSE TimesRead(u)
      OBVIOUS
    <3>1. TimesRead(u) = Reads(pages, u)
      BY DEF TimesRead, Reads
    <3>2. TimesRead(u)' = Reads(pages \o <<x>>, u)
      BY <2>2 DEF TimesRead, Reads
    <3> QED BY <1>1, <2>3, <3>1, <3>2, ReadsAfter
  <2>6. \A u : UNCHANGED Ahead(u)
    BY <1>1 DEF Ahead, Before
  <2>7. ReaderOK'
    BY <1>1, <2>2, <2>4 DEF ReaderOK
  <2>8. ASSUME NEW u \in Uris \ (came \cup went)
        PROVE  IF Visible(rows[u]) THEN Awaited(u)' ELSE TimesRead(u)' = 0
    <3>1. CASE ~Visible(rows[u])
      <4>1. TimesRead(u) = 0 /\ x # u
        BY <1>1, <2>3, <3>1
      <4> QED BY <2>5, <3>1, <4>1
    <3>2. CASE Visible(rows[u])
      <4>1. Awaited(u) /\ Cardinality(Ahead(u)) \in Nat /\ TimesRead(u) \in Nat
        BY <1>1, <1>4, <2>5, <3>2
      <4>2. x # u => Cardinality(Ahead(u)) # Len(pages)
        BY <2>3, <3>2, RanksDiffer
      <4>3. went' = {} /\ TimesRead(u)' = 0 => Len(pages') <= Cardinality(Ahead(u)')
        BY <1>1, <1>4, <2>4, <2>5, <2>6, <4>1, <4>2 DEF Awaited
      <4>4. came' = {} /\ TimesRead(u)' # 0
              => TimesRead(u)' = 1 /\ Cardinality(Ahead(u)') < Len(pages')
        BY <1>1, <1>4, <2>3, <2>4, <2>5, <2>6, <4>1, <4>2 DEF Awaited
      <4>5. Awaited(u)'
        BY <4>3, <4>4 DEF Awaited
      <4> QED BY <3>2, <4>5
    <3> QED BY <3>1, <3>2
  <2>9. PagesMissForCause'
    BY <2>2 DEF PagesMissForCause
  <2> QED BY <1>1, <2>2, <2>7, <2>8, <2>9 DEF ReaderInv
<1> QED BY <1>3, <1>5, <1>6 DEF PageBrings

-----------------------------------------------------------------------------
(* The parts that rest on one another: the store, its subscriber and its   *)
(* reader.                                                                 *)
StoreSide == StoreAndFeed /\ FiniteTable /\ ReaderInv

LEMMA StoreSideStart == SkybaseInit => StoreSide
<1> SUFFICES ASSUME SkybaseInit PROVE StoreSide
  OBVIOUS
<1>1. FeedInit
  BY DEF SkybaseInit
<1>2. StoreAndFeed
  BY <1>1, FeedStart
<1>3. FiniteTable
  <2>1. rows = [u \in Uris |-> Absent] /\ tx.rows = [u \in Uris |-> Absent]
    BY <1>1 DEF FeedInit, Init, NoTx
  <2> QED BY <2>1, NothingHeld DEF FiniteTable
<1>4. ReaderInv
  <2>1. reading = "idle" /\ pages = <<>> /\ came = {} /\ went = {}
    BY <1>1 DEF FeedInit
  <2>2. ReaderOK
    BY <2>1 DEF ReaderOK
  <2> QED BY <2>1, <2>2 DEF ReaderInv, PagesMissForCause
<1> QED BY <1>2, <1>3, <1>4 DEF StoreSide

LEMMA StoreSideKept ==
  ASSUME StoreSide, [SkybaseNext]_skybaseVars
  PROVE  StoreSide'
<1>1. /\ StoreAndFeed /\ StoreInv /\ FiniteTable /\ ReaderInv
      /\ SubscriberStep \/ ReaderStep \/ UNCHANGED storeAll
  BY DEF StoreSide, StoreAndFeed, SkybaseNext, skybaseVars
<1>2. StoreAndFeed' /\ rows' \in [Uris -> Row]
  <2>1. StoreAndFeed'
    BY <1>1, FeedKept
  <2> QED BY <2>1 DEF StoreAndFeed, StoreInv, TypeOK
<1>3. [Next]_vars
  BY <1>1 DEF SubscriberStep, ReaderStep, StoreStep, Subscribe, Unsubscribe, Snapshot, Receive,
              BeginReading, ReadPage, storeAll
<1>4. FiniteTable'
  BY <1>1, <1>3, FiniteKept
<1>5. CASE StoreStep
  <2>1. ReaderInv'
    BY <1>1, <1>2, <1>4, <1>5, StoreStepUnderReader
  <2> QED BY <1>2, <1>4, <2>1 DEF StoreSide
<1>6. CASE BeginReading \/ ReadPage
  <2>1. ReaderInv'
    BY <1>1, <1>6, BeginReadingBegins, ReadPageReads
  <2> QED BY <1>2, <1>4, <2>1 DEF StoreSide
<1>7. CASE Subscribe \/ Unsubscribe \/ Snapshot \/ Receive \/ UNCHANGED storeAll
  <2>1. UNCHANGED <<rows, readVars>>
    BY <1>7 DEF Subscribe, Unsubscribe, Snapshot, Receive, storeAll, vars
  <2>2. ReaderInv'
    BY <1>1, <2>1, ReaderRests
  <2> QED BY <1>2, <1>4, <2>2 DEF StoreSide
<1> QED BY <1>1, <1>5, <1>6, <1>7 DEF SubscriberStep, ReaderStep

LEMMA StoreSideInvariance == SkybaseSpec => []StoreSide
BY StoreSideStart, StoreSideKept, PTL DEF SkybaseSpec

(* A record that is there, unchanged, while the records are read page by   *)
(* page is missed only if another went away meanwhile, and read twice only *)
(* if another came: for any number of threads, records and pages.          *)
THEOREM PagingMissesForCause == SkybaseSpec => []PagesMissForCause
<1>1. StoreSide => PagesMissForCause
  BY DEF StoreSide, ReaderInv
<1> QED BY <1>1, StoreSideInvariance, PTL

-----------------------------------------------------------------------------
(* Seen from one part, an application's behaviour is one of the part: the  *)
(* store and the PDS client keep what is proved of them alone.             *)
THEOREM PartsKeepTheirSpecs == SkybaseSpec => Spec /\ PdsSpec
<1>1. SkybaseInit => Init /\ PdsInit
  BY DEF SkybaseInit, FeedInit
<1>2. [SkybaseNext]_skybaseVars => [Next]_vars
  BY DEF SkybaseNext, skybaseVars, storeAll, SubscriberStep, ReaderStep, StoreStep, Subscribe,
         Unsubscribe, Snapshot, Receive, BeginReading, ReadPage
<1>3. [SkybaseNext]_skybaseVars => [PdsNext]_pdsVars
  BY DEF SkybaseNext, skybaseVars
<1> QED BY <1>1, <1>2, <1>3, PTL DEF SkybaseSpec, Spec, PdsSpec

(* A paged read of the AppView ends with its last page.                    *)
AppViewOK ==
  /\ limit \in 1..MaxPageLimit /\ turn \in 0..MaxPages
  /\ ending \in {"not begun", "none"} => turn < MaxPages

LEMMA AppViewStart == AppViewInit => AppViewOK
<1> SUFFICES ASSUME AppViewInit PROVE AppViewOK
  OBVIOUS
<1>1. MaxPages \in Nat \ {0} /\ MaxPageLimit \in Nat \ {0}
  BY AppViewAssumption
<1>2. limit = 1 /\ turn = 0
  BY DEF AppViewInit
<1>3. limit \in 1..MaxPageLimit /\ turn \in 0..MaxPages /\ turn < MaxPages
  BY <1>1, <1>2
<1> QED BY <1>3 DEF AppViewOK

LEMMA AppViewKept ==
  ASSUME AppViewOK, [AppViewNext]_appviewVars
  PROVE  AppViewOK'
<1>1. MaxPages \in Nat \ {0} /\ MaxPageLimit \in Nat \ {0} /\ turn \in 0..MaxPages
  BY AppViewAssumption DEF AppViewOK
<1>2. ASSUME NEW l, NEW n \in PageLimits, NEW drops, Paginate(l, n, drops)
      PROVE  AppViewOK'
  <2>1. n \in Nat
    BY AppViewAssumption
  <2>2. Clamped(n) \in 1..MaxPageLimit
    BY <1>1, <2>1 DEF Clamped
  <2> QED BY <1>2, <2>2 DEF Paginate, AppViewOK
<1>3. CASE PageFails
  BY <1>1, <1>3 DEF PageFails, AppViewOK
<1>4. CASE PageArrives
  <2>1. PICK count, cursor_ : /\ turn' = turn + 1 /\ ending = "none" /\ UNCHANGED limit
                              /\ ending' = AfterPage(count, cursor_)
    BY <1>4 DEF PageArrives
  <2>2. turn + 1 \in 0..MaxPages
    BY <1>1, <2>1 DEF AppViewOK
  <2>3. ending' \in {"not begun", "none"} => turn + 1 # MaxPages
    BY <2>1 DEF AfterPage
  <2>4. turn' = turn + 1 /\ (turn + 1 # MaxPages => turn + 1 < MaxPages)
    BY <1>1, <2>1, <2>2
  <2>5. limit' \in 1..MaxPageLimit
    BY <2>1 DEF AppViewOK
  <2> QED BY <2>2, <2>3, <2>4, <2>5 DEF AppViewOK
<1>5. CASE UNCHANGED appviewVars
  BY <1>5 DEF appviewVars, AppViewOK
<1> QED BY <1>2, <1>3, <1>4, <1>5 DEF AppViewNext, FetchFollows, FetchFollowers, FetchFollowRecords

(* The counter of the mock server is the number of open connections, which *)
(* are finitely many.                                                      *)
OpenConns == {c \in Conns : conns[c] \in InLoop}

ConnPlaces == {"away", "accepted", "gone"} \cup InLoop

MockOK == MockTypeOK /\ IsFiniteSet(OpenConns)

LEMMA MockStart == MockInit => MockOK
<1> SUFFICES ASSUME MockInit PROVE MockOK
  OBVIOUS
<1>1. OpenConns = {}
  BY DEF MockInit, OpenConns, InLoop
<1>2. \A c \in Conns : Len(commands[c]) <= Slots
  <2>1. Len(<<>>) <= Slots
    BY MockAssumption
  <2> QED BY <2>1 DEF MockInit
<1>3. commands \in [Conns -> Seq(Command)]
  BY DEF MockInit
<1>4. conns \in [Conns -> ConnPlaces]
  BY DEF MockInit, ConnPlaces
<1>5. /\ accepting \in BOOLEAN /\ stopping \in BOOLEAN /\ dropped \in BOOLEAN
      /\ behind \subseteq Conns /\ active = 0 /\ total \in Nat /\ given \in 0..MaxFrames
  <2>1. accepting \in BOOLEAN /\ stopping \in BOOLEAN /\ dropped \in BOOLEAN
    BY DEF MockInit
  <2>2. behind \subseteq Conns /\ active = 0 /\ total = 0 /\ given = 0
    BY DEF MockInit
  <2>3. 0 \in 0..MaxFrames
    BY MockAssumption
  <2> QED BY <2>1, <2>2, <2>3
<1>6. IsFiniteSet(OpenConns) /\ active = Cardinality(OpenConns)
  BY <1>1, <1>5, FS_EmptySet
<1> QED BY <1>2, <1>3, <1>4, <1>5, <1>6 DEF MockOK, MockTypeOK, OpenConns, ConnPlaces

(* A connection comes into its loop, moves in it, or leaves it.            *)
LEMMA ConnMoves ==
  ASSUME MockOK, NEW c \in Conns, NEW place \in ConnPlaces,
         conns' = [conns EXCEPT ![c] = place]
  PROVE  /\ conns' \in [Conns -> ConnPlaces]
         /\ IsFiniteSet(OpenConns')
         /\ conns[c] \notin InLoop /\ place \in InLoop => Cardinality(OpenConns') = active + 1
         /\ conns[c] \in InLoop /\ place \notin InLoop => Cardinality(OpenConns') = active - 1
         /\ (conns[c] \in InLoop <=> place \in InLoop) => Cardinality(OpenConns') = active
<1>1. /\ conns \in [Conns -> ConnPlaces]
      /\ IsFiniteSet(OpenConns) /\ active = Cardinality(OpenConns)
  BY DEF MockOK, MockTypeOK, OpenConns, ConnPlaces
<1>2. conns'[c] = place /\ \A d \in Conns \ {c} : conns'[d] = conns[d]
  BY <1>1
<1>3. OpenConns' = IF place \in InLoop THEN OpenConns \cup {c} ELSE OpenConns \ {c}
  BY <1>2 DEF OpenConns
<1>4. c \in OpenConns <=> conns[c] \in InLoop
  BY DEF OpenConns
<1>5. conns' \in [Conns -> ConnPlaces]
  BY <1>1
<1> QED BY <1>1, <1>3, <1>4, <1>5, FS_AddElement, FS_RemoveElement

(* A command goes to every task; a full ring loses its oldest.             *)
LEMMA GiveFits ==
  ASSUME MockOK, NEW command \in Command, Give(command)
  PROVE  /\ commands' \in [Conns -> Seq(Command)] /\ \A c \in Conns : Len(commands'[c]) <= Slots
         /\ behind' \subseteq Conns
<1>1. /\ \A c \in Conns : commands[c] \in Seq(Command) /\ Len(commands[c]) <= Slots
      /\ Slots \in Nat \ {0} /\ behind \subseteq Conns
  BY MockAssumption DEF MockOK, MockTypeOK
<1> DEFINE full == {c \in Listening : Len(commands[c]) = Slots}
           next(c) == IF c \notin Listening THEN commands[c]
                      ELSE Append(IF c \in full THEN Tail(commands[c]) ELSE commands[c], command)
<1>2. commands' = [c \in Conns |-> next(c)] /\ behind' = behind \cup full
  BY DEF Give
<1>3. ASSUME NEW c \in Conns
      PROVE  next(c) \in Seq(Command) /\ Len(next(c)) <= Slots
  <2>1. commands[c] \in Seq(Command) /\ Len(commands[c]) \in Nat /\ Len(commands[c]) <= Slots
    BY <1>1, LenProperties
  <2>2. CASE c \in full
    <3>1. commands[c] # <<>> /\ Len(commands[c]) = Slots /\ c \in Listening
      BY <1>1, <2>2
    <3>2. Tail(commands[c]) \in Seq(Command) /\ Len(Tail(commands[c])) = Len(commands[c]) - 1
      BY <2>1, <3>1, HeadTailProperties
    <3>3. next(c) = Append(Tail(commands[c]), command)
      BY <2>2, <3>1
    <3> HIDE DEF next
    <3>4. next(c) \in Seq(Command) /\ Len(next(c)) = Len(Tail(commands[c])) + 1
      BY <3>2, <3>3, AppendProperties
    <3> QED BY <1>1, <2>1, <3>2, <3>4
  <2>3. CASE c \notin full /\ c \in Listening
    <3>1. Len(commands[c]) # Slots
      BY <2>3
    <3>2. next(c) = Append(commands[c], command)
      BY <2>3
    <3> HIDE DEF next
    <3>3. next(c) \in Seq(Command) /\ Len(next(c)) = Len(commands[c]) + 1
      BY <2>1, <3>2, AppendProperties
    <3> QED BY <1>1, <2>1, <3>1, <3>3
  <2>4. CASE c \notin Listening
    BY <2>1, <2>4
  <2> QED BY <2>2, <2>3, <2>4
<1>4. full \subseteq Conns
  BY DEF Listening
<1> HIDE DEF full, next
<1> QED BY <1>1, <1>2, <1>3, <1>4


LEMMA MockKept ==
  ASSUME MockOK, [MockNext]_mockVars
  PROVE  MockOK'
<1>1. /\ conns \in [Conns -> ConnPlaces]
      /\ accepting \in BOOLEAN /\ stopping \in BOOLEAN /\ dropped \in BOOLEAN
      /\ behind \subseteq Conns /\ total \in Nat /\ given \in 0..MaxFrames /\ MaxFrames \in Nat
      /\ IsFiniteSet(OpenConns) /\ active = Cardinality(OpenConns)
      /\ commands \in [Conns -> Seq(Command)] /\ \A c \in Conns : Len(commands[c]) <= Slots
      /\ Slots \in Nat \ {0}
  BY MockAssumption DEF MockOK, MockTypeOK, OpenConns, ConnPlaces
<1>2. ASSUME UNCHANGED commands \/ \E c \in Conns : commands' = [commands EXCEPT ![c] = <<>>]
      PROVE  commands' \in [Conns -> Seq(Command)] /\ \A c \in Conns : Len(commands'[c]) <= Slots
  <2>1. CASE UNCHANGED commands
    BY <1>1, <2>1
  <2>2. ASSUME NEW c \in Conns, commands' = [commands EXCEPT ![c] = <<>>]
        PROVE  commands' \in [Conns -> Seq(Command)] /\ \A d \in Conns : Len(commands'[d]) <= Slots
    <3>1. <<>> \in Seq(Command) /\ Len(<<>>) <= Slots
      BY <1>1
    <3>2. commands' \in [Conns -> Seq(Command)]
      BY <1>1, <2>2, <3>1
    <3>3. \A d \in Conns : commands'[d] = commands[d] \/ commands'[d] = <<>>
      BY <1>1, <2>2
    <3> QED BY <1>1, <3>1, <3>2, <3>3
  <2> QED BY <1>2, <2>1, <2>2
<1>3. ASSUME /\ accepting' \in BOOLEAN /\ stopping' \in BOOLEAN /\ dropped' \in BOOLEAN
             /\ behind' \subseteq Conns /\ total' \in Nat /\ given' \in 0..MaxFrames,
             conns' \in [Conns -> ConnPlaces],
             IsFiniteSet(OpenConns'), active' = Cardinality(OpenConns'),
             commands' \in [Conns -> Seq(Command)] /\ \A c \in Conns : Len(commands'[c]) <= Slots
      PROVE  MockOK'
  BY <1>3 DEF MockOK, MockTypeOK, OpenConns, ConnPlaces
<1>4. ASSUME UNCHANGED <<conns, active>>
      PROVE  /\ conns' \in [Conns -> ConnPlaces]
             /\ IsFiniteSet(OpenConns') /\ active' = Cardinality(OpenConns')
  <2>1. UNCHANGED OpenConns
    BY <1>4 DEF OpenConns
  <2> QED BY <1>1, <1>4, <2>1
<1>5. ASSUME NEW c \in Conns, AcceptConn(c)
      PROVE  MockOK'
  <2>1. /\ conns[c] = "away" /\ conns' = [conns EXCEPT ![c] = "accepted"] /\ total' \in Nat
        /\ UNCHANGED <<loop, commands, behind, active, given>>
    BY <1>1, <1>5 DEF AcceptConn
  <2>2. /\ conns' \in [Conns -> ConnPlaces]
        /\ IsFiniteSet(OpenConns') /\ active' = Cardinality(OpenConns')
    BY <1>1, <2>1, ConnMoves DEF ConnPlaces, InLoop
  <2> QED BY <1>1, <1>2, <1>3, <2>1, <2>2 DEF loop
<1>6. ASSUME NEW c \in Conns, HandshakeDone(c)
      PROVE  MockOK'
  <2>1. /\ conns[c] = "accepted" /\ conns' = [conns EXCEPT ![c] = "open"] /\ active' = active + 1
        /\ UNCHANGED <<loop, commands, behind, total, given>>
    BY <1>1, <1>6 DEF HandshakeDone
  <2>2. /\ conns' \in [Conns -> ConnPlaces]
        /\ IsFiniteSet(OpenConns') /\ active' = Cardinality(OpenConns')
    BY <1>1, <2>1, ConnMoves DEF ConnPlaces, InLoop
  <2> QED BY <1>1, <1>2, <1>3, <2>1, <2>2 DEF loop
<1>7. ASSUME NEW c \in Conns, HandshakeFails(c)
      PROVE  MockOK'
  <2>1. /\ conns[c] = "accepted" /\ conns' = [conns EXCEPT ![c] = "gone"]
        /\ commands' = [commands EXCEPT ![c] = <<>>] /\ behind' = behind \ {c}
        /\ UNCHANGED <<loop, active, total, given>>
    BY <1>1, <1>7 DEF HandshakeFails
  <2>2. /\ conns' \in [Conns -> ConnPlaces]
        /\ IsFiniteSet(OpenConns') /\ active' = Cardinality(OpenConns')
    BY <1>1, <2>1, ConnMoves DEF ConnPlaces, InLoop
  <2> QED BY <1>1, <1>2, <1>3, <2>1, <2>2 DEF loop
<1>8. ASSUME NEW c \in Conns, conns[c] \in InLoop, Leave(c)
      PROVE  MockOK'
  <2>1. /\ conns' = [conns EXCEPT ![c] = "gone"] /\ active' = active - 1
        /\ commands' = [commands EXCEPT ![c] = <<>>] /\ behind' = behind \ {c}
        /\ UNCHANGED <<loop, total, given>>
    BY <1>8 DEF Leave
  <2>2. /\ conns' \in [Conns -> ConnPlaces]
        /\ IsFiniteSet(OpenConns') /\ active' = Cardinality(OpenConns')
    BY <1>1, <1>8, <2>1, ConnMoves DEF ConnPlaces, InLoop
  <2> QED BY <1>1, <1>2, <1>3, <2>1, <2>2 DEF loop
<1>9. ASSUME NEW c \in Conns, ReadCommand(c)
      PROVE  MockOK'
  <2>1. CASE behind' = behind \ {c} /\ UNCHANGED <<loop, conns, commands, active, total, given>>
    BY <1>1, <1>2, <1>3, <1>4, <2>1 DEF loop
  <2>2. ASSUME commands[c] # <<>>, commands' = [commands EXCEPT ![c] = Tail(commands[c])],
               conns[c] = "open", NEW place \in {"sending", "closing"},
               conns' = [conns EXCEPT ![c] = place], UNCHANGED <<loop, behind, active, total, given>>
        PROVE  MockOK'
    <3>1. commands[c] \in Seq(Command) /\ Len(commands[c]) \in Nat /\ Len(commands[c]) <= Slots
      BY <1>1, LenProperties
    <3>2. Tail(commands[c]) \in Seq(Command) /\ Len(Tail(commands[c])) = Len(commands[c]) - 1
      BY <2>2, <3>1, HeadTailProperties
    <3>3. Len(Tail(commands[c])) <= Slots
      BY <1>1, <3>1, <3>2
    <3>4. commands' \in [Conns -> Seq(Command)]
      BY <1>1, <2>2, <3>2
    <3>5. \A d \in Conns : Len(commands'[d]) <= Slots
      BY <1>1, <2>2, <3>3
    <3>6. place \in ConnPlaces /\ place \in InLoop /\ conns[c] \in InLoop
      BY <2>2 DEF ConnPlaces, InLoop
    <3>7. /\ conns' \in [Conns -> ConnPlaces]
          /\ IsFiniteSet(OpenConns') /\ active' = Cardinality(OpenConns')
      BY <2>2, <3>6, ConnMoves
    <3> QED BY <1>1, <1>3, <2>2, <3>4, <3>5, <3>7 DEF loop
  <2>3. CASE conns[c] = "open" /\ Leave(c)
    BY <1>8, <2>3 DEF InLoop
  <2>4. \/ behind' = behind \ {c} /\ UNCHANGED <<loop, conns, commands, active, total, given>>
        \/ /\ commands[c] # <<>> /\ commands' = [commands EXCEPT ![c] = Tail(commands[c])]
           /\ conns[c] = "open"
           /\ \E place \in {"sending", "closing"} : conns' = [conns EXCEPT ![c] = place]
           /\ UNCHANGED <<loop, behind, active, total, given>>
        \/ conns[c] = "open" /\ Leave(c)
    BY <1>9 DEF ReadCommand
  <2> QED BY <2>1, <2>2, <2>3, <2>4
<1>15. ASSUME NEW c \in Conns, PingArrives(c) \/ FrameSent(c)
       PROVE  MockOK'
  <2>1. PICK place \in {"open", "sending"} :
          /\ conns[c] \in {"open", "sending"} /\ conns' = [conns EXCEPT ![c] = place]
          /\ UNCHANGED <<loop, commands, behind, active, total, given>>
    BY <1>15 DEF PingArrives, FrameSent
  <2>2. /\ conns' \in [Conns -> ConnPlaces]
        /\ IsFiniteSet(OpenConns') /\ active' = Cardinality(OpenConns')
    BY <1>1, <2>1, ConnMoves DEF ConnPlaces, InLoop
  <2> QED BY <1>1, <1>2, <1>3, <2>1, <2>2 DEF loop
<1>16. ASSUME NEW c \in Conns, CloseSent(c) \/ ClientLeaves(c)
       PROVE  MockOK'
  <2>1. conns[c] \in InLoop /\ Leave(c)
    BY <1>16 DEF CloseSent, ClientLeaves, InLoop
  <2> QED BY <1>8, <2>1
<1>10. CASE AcceptFails \/ AcceptLoopEnds
  <2>1. /\ accepting' = FALSE
        /\ UNCHANGED <<stopping, dropped, conns, commands, behind, active, total, given>>
    BY <1>10 DEF AcceptFails, AcceptLoopEnds
  <2> QED BY <1>1, <1>2, <1>3, <1>4, <2>1
<1>11. ASSUME NEW command \in Command, Give(command),
              given' \in 0..MaxFrames, stopping' \in BOOLEAN, dropped' \in BOOLEAN,
              UNCHANGED <<accepting, conns, active, total>>
       PROVE  MockOK'
  <2>1. /\ commands' \in [Conns -> Seq(Command)] /\ \A c \in Conns : Len(commands'[c]) <= Slots
        /\ behind' \subseteq Conns
    BY <1>11, GiveFits
  <2> QED BY <1>1, <1>3, <1>4, <1>11, <2>1
<1>12. ASSUME NEW command \in Command, EmitCommand(command)
       PROVE  MockOK'
  <2>1. /\ Give(command) /\ given < MaxFrames /\ given' = given + 1
        /\ UNCHANGED <<loop, conns, active, total>>
    BY <1>12 DEF EmitCommand
  <2>2. given' \in 0..MaxFrames
    BY <1>1, <2>1
  <2> QED BY <1>1, <1>11, <2>1, <2>2 DEF loop
<1>13. CASE Shutdown \/ DropServer
  <2>1. "abort" \in Command
    BY DEF Command
  <2>2. CASE Shutdown
    <3>1. /\ Give("abort") /\ given < MaxFrames /\ given' = given + 1
          /\ UNCHANGED <<accepting, dropped, conns, active, total>>
      BY <2>2 DEF Shutdown
    <3>2. given' \in 0..MaxFrames
      BY <1>1, <3>1
    <3>3. stopping' \in BOOLEAN
      BY <2>2 DEF Shutdown
    <3>4. dropped' \in BOOLEAN
      BY <1>1, <3>1
    <3> QED BY <1>11, <2>1, <3>1, <3>2, <3>3, <3>4
  <2>3. CASE DropServer
    <3>1. Give("abort") /\ UNCHANGED <<accepting, conns, active, total, given>>
      BY <2>3 DEF DropServer
    <3>2. dropped' \in BOOLEAN /\ stopping' \in BOOLEAN
      BY <2>3 DEF DropServer
    <3>3. given' \in 0..MaxFrames
      BY <1>1, <3>1
    <3> QED BY <1>11, <2>1, <3>1, <3>2, <3>3
  <2> QED BY <1>13, <2>2, <2>3
<1>14. CASE UNCHANGED mockVars
  BY <1>1, <1>2, <1>3, <1>4, <1>14 DEF mockVars
<1> QED BY <1>5, <1>6, <1>7, <1>9, <1>10, <1>12, <1>13, <1>14, <1>15, <1>16 DEF MockNext

(* The variables of the feed, the PDS client and the mock server stay in   *)
(* their sets: no ring outgrows its capacity and the mock server's counter *)
(* is the number of open connections; and a paged read of the AppView asks *)
(* for no more than its pages.                                             *)
THEOREM SkybaseTypeCorrect == SkybaseSpec => []SkybaseTypeOK
<1> DEFINE Others == activity \in Activities /\ AppViewOK /\ MockOK
<1>1. SkybaseInit => Others
  BY AppViewStart, MockStart DEF SkybaseInit
<1>2. Others /\ [SkybaseNext]_skybaseVars => Others'
  <2> SUFFICES ASSUME Others, [SkybaseNext]_skybaseVars PROVE Others'
    OBVIOUS
  <2>1. UNCHANGED activity /\ [AppViewNext]_appviewVars /\ [MockNext]_mockVars
    BY DEF SkybaseNext, skybaseVars
  <2> QED BY <2>1, AppViewKept, MockKept
<1>3. StoreSide /\ PdsTypeOK /\ Others => SkybaseTypeOK
  BY DEF SkybaseTypeOK, FeedTypeOK, StoreSide, StoreAndFeed, FeedInv, SubscriberOK, ReaderInv, ReaderOK,
         AppViewOK, MockOK
<1>4. SkybaseSpec => []Others
  BY <1>1, <1>2, PTL DEF SkybaseSpec
<1>5. SkybaseSpec => []PdsTypeOK
  BY PartsKeepTheirSpecs, PdsTypeCorrect, PTL
<1> HIDE DEF Others
<1> QED BY <1>3, <1>4, <1>5, StoreSideInvariance, PTL

-----------------------------------------------------------------------------
(* The calendar.  The day of the era on which a year begins, in March, and *)
(* the day of the year on which a month does.                              *)
YearStart(y)   == 365 * y + y \div 4 - y \div 100
MonthStart(mp) == (153 * mp + 2) \div 5
MonthAt(doy)   == (5 * doy + 2) \div 153
MonthOf(mp)    == IF mp < 10 THEN mp + 3 ELSE mp - 9

(* The year found for a day of the era is the one it falls in; the last    *)
(* day of the era is the leap day of its last year.                        *)
YearEnd(y)      == IF y = 399 THEN 146097 ELSE YearStart(y + 1)
FallsIn(doe, y) == YearStart(y) <= doe /\ doe < YearEnd(y)

LEMMA YearFound ==
  ASSUME NEW doe \in Int, 0 <= doe, doe <= 146096
  PROVE  YearOfEra(doe) \in 0..399 /\ FallsIn(doe, YearOfEra(doe))
<1>1. PICK a \in Int : a = doe \div 1460 /\ 1460 * a <= doe /\ doe < 1460 * a + 1460
  OBVIOUS
<1>2. PICK c \in Int : c = doe \div 36524 /\ 36524 * c <= doe /\ doe < 36524 * c + 36524
  OBVIOUS
<1>3. PICK e \in Int : e = doe \div 146096 /\ 146096 * e <= doe /\ doe < 146096 * e + 146096
  OBVIOUS
<1>4. PICK n \in Int : n = doe - a + c - e
  OBVIOUS
<1>5. PICK y \in Int : y = n \div 365 /\ 365 * y <= n /\ n < 365 * y + 365
  OBVIOUS
<1>6. YearOfEra(doe) = y
  BY <1>1, <1>2, <1>3, <1>4, <1>5 DEF YearOfEra
<1>7. 0 <= y /\ y <= 399
  BY <1>1, <1>2, <1>3, <1>4, <1>5
<1>8. PICK q \in Int : q = y \div 4 /\ 4 * q <= y /\ y < 4 * q + 4
  OBVIOUS
<1>9. PICK h \in Int : h = y \div 100 /\ 100 * h <= y /\ y < 100 * h + 100
  OBVIOUS
<1>10. PICK r \in Int : r = (y + 1) \div 4 /\ 4 * r <= y + 1 /\ y + 1 < 4 * r + 4
  OBVIOUS
<1>11. PICK g \in Int : g = (y + 1) \div 100 /\ 100 * g <= y + 1 /\ y + 1 < 100 * g + 100
  OBVIOUS
<1>12. YearStart(y) = 365 * y + q - h /\ YearStart(y + 1) = 365 * (y + 1) + r - g
  BY <1>8, <1>9, <1>10, <1>11 DEF YearStart
<1>13. 365 * y + q - h <= doe
  BY <1>1, <1>2, <1>3, <1>4, <1>5, <1>7, <1>8, <1>9
<1>14. doe < 365 * (y + 1) + r - g \/ doe = 146096
  BY <1>1, <1>2, <1>3, <1>4, <1>5, <1>7, <1>10, <1>11
<1>15. doe = 146096 => y = 399
  BY <1>1, <1>2, <1>3, <1>4, <1>5
<1>16. YearOfEra(doe) \in 0..399
  BY <1>6, <1>7
<1>17. YearStart(y) <= doe /\ doe < YearEnd(y)
  BY <1>12, <1>13, <1>14, <1>15 DEF YearEnd
<1> QED BY <1>6, <1>16, <1>17 DEF FallsIn

LEMMA YearLength ==
  ASSUME NEW y \in Int, 0 <= y, y <= 399
  PROVE  /\ YearStart(y) \in Int /\ 0 <= YearStart(y) /\ YearStart(y) <= 145731
         /\ YearEnd(y) \in Int /\ YearEnd(y) <= 146097
         /\ YearEnd(y) - YearStart(y) = IF Leap(y + 1) THEN 366 ELSE 365
         /\ y = 0 <=> YearStart(y) = 0
         /\ y = 399 => YearStart(y) = 145731
BY SMTT(20) DEF YearStart, YearEnd, Leap

(* A day falls in one year only.                                           *)
LEMMA YearsApart ==
  ASSUME NEW a \in Int, 0 <= a, a <= 399, NEW b \in Int, 0 <= b, b <= 399, a < b
  PROVE  YearEnd(a) <= YearStart(b)
BY SMTT(20) DEF YearStart, YearEnd

LEMMA OneYear ==
  ASSUME NEW doe \in Int,
         NEW a \in Int, 0 <= a, a <= 399, FallsIn(doe, a),
         NEW b \in Int, 0 <= b, b <= 399, FallsIn(doe, b)
  PROVE  a = b
BY YearsApart, YearLength, SMTT(20) DEF FallsIn

(* The months of the year that begins in March.                            *)
MonthLength(mp) == IF mp = 11 THEN 29 ELSE IF mp \in {1, 3, 6, 8} THEN 30 ELSE 31

LEMMA MonthGoesOn ==
  ASSUME NEW doy \in Int, 0 <= doy, doy <= 364
  PROVE  /\ MonthAt(doy) \in 0..11 /\ MonthAt(doy + 1) \in {MonthAt(doy), MonthAt(doy) + 1}
         /\ MonthAt(doy + 1) = MonthAt(doy) =>
              doy - MonthStart(MonthAt(doy)) + 1 < MonthLength(MonthAt(doy))
         /\ MonthAt(doy + 1) = MonthAt(doy) + 1 =>
              /\ MonthAt(doy) # 11
              /\ doy + 1 = MonthStart(MonthAt(doy + 1))
              /\ doy - MonthStart(MonthAt(doy)) + 1 = MonthLength(MonthAt(doy))
BY SMTT(20) DEF MonthAt, MonthStart, MonthLength

LEMMA MonthEnds ==
  /\ MonthAt(0) = 0 /\ MonthStart(0) = 0
  /\ MonthAt(364) = 11 /\ MonthAt(365) = 11 /\ MonthStart(11) = 337
BY DEF MonthAt, MonthStart

LEMMA MonthDays ==
  ASSUME NEW mp \in 0..11, NEW y \in Int
  PROVE  DaysIn(y, MonthOf(mp)) =
           IF mp = 11 THEN IF Leap(y) THEN 29 ELSE 28 ELSE MonthLength(mp)
BY DEF DaysIn, MonthOf, MonthLength

(* A date by its year since March, its month and its day.                  *)
DateAt(y, mp, d) ==
  [y |-> IF MonthOf(mp) <= 2 THEN y + 1 ELSE y, m |-> MonthOf(mp), d |-> d]

LEMMA DateFound ==
  ASSUME NEW era \in Int, NEW doe \in Int, 0 <= doe, doe <= 146096,
         NEW y \in Int, 0 <= y, y <= 399, FallsIn(doe, y),
         NEW doy \in Int, doy = doe - YearStart(y)
  PROVE  DateOfEra(era, doe)
           = DateAt(y + era * 400, MonthAt(doy), doy - MonthStart(MonthAt(doy)) + 1)
<1>1. YearOfEra(doe) = y
  <2>1. PICK x \in Int : x = YearOfEra(doe) /\ 0 <= x /\ x <= 399 /\ FallsIn(doe, x)
    BY YearFound
  <2>2. x = y
    BY <2>1, OneYear
  <2> QED BY <2>1, <2>2
<1>2. doe - (365 * y + y \div 4 - y \div 100) = doy
  BY DEF YearStart
<1> QED BY <1>1, <1>2 DEF DateOfEra, DateAt, MonthOf, MonthAt, MonthStart

(* The three ways on: the next day of a month, the first of the next one,  *)
(* and the first of March behind the last of February.                     *)
LEMMA SameMonth ==
  ASSUME NEW y \in Int, NEW mp \in 0..11, NEW d \in Int, d < MonthLength(mp),
         mp = 11 /\ ~Leap(y + 1) => d < 28
  PROVE  DayAfter(DateAt(y, mp, d)) = DateAt(y, mp, d + 1)
<1>1. MonthOf(11) = 2 /\ MonthOf(mp) \in 1..12
  BY DEF MonthOf
<1>2. d < DaysIn(DateAt(y, mp, d).y, MonthOf(mp))
  <2>1. DateAt(y, mp, d).y \in Int /\ (mp = 11 => DateAt(y, mp, d).y = y + 1)
    BY <1>1 DEF DateAt
  <2>2. mp = 11 => MonthLength(mp) = 29
    BY DEF MonthLength
  <2> QED BY <2>1, <2>2, MonthDays
<1>3. DateAt(y, mp, d).d = d /\ DateAt(y, mp, d).m = MonthOf(mp)
  BY DEF DateAt
<1>4. [DateAt(y, mp, d) EXCEPT !.d = @ + 1] = DateAt(y, mp, d + 1)
  BY DEF DateAt
<1> QED BY <1>2, <1>3, <1>4 DEF DayAfter

LEMMA NextMonth ==
  ASSUME NEW y \in Int, NEW mp \in 0..10
  PROVE  DayAfter(DateAt(y, mp, MonthLength(mp))) = DateAt(y, mp + 1, 1)
<1> DEFINE end == DateAt(y, mp, MonthLength(mp))
<1>1. end.d = MonthLength(mp) /\ end.m = MonthOf(mp) /\ end.y = IF MonthOf(mp) <= 2 THEN y + 1 ELSE y
  BY DEF DateAt
<1>2. ~(end.d < DaysIn(end.y, end.m))
  <2>1. end.y \in Int /\ mp \in 0..11 /\ mp # 11 /\ MonthLength(mp) \in Int
    BY <1>1 DEF MonthLength
  <2>2. DaysIn(end.y, end.m) = MonthLength(mp)
    BY <1>1, <2>1, MonthDays
  <2> QED BY <1>1, <2>1, <2>2
<1>3. MonthOf(mp) \in 1..12 /\ (mp = 9 <=> MonthOf(mp) = 12)
  BY DEF MonthOf
<1>4. CASE mp = 9
  <2>1. MonthOf(mp) = 12 /\ MonthOf(mp + 1) = 1
    BY <1>4 DEF MonthOf
  <2>2. DayAfter(end) = [y |-> y + 1, m |-> 1, d |-> 1]
    BY <1>1, <1>2, <2>1 DEF DayAfter
  <2> QED BY <2>1, <2>2 DEF DateAt
<1>5. CASE mp # 9
  <2>1. /\ MonthOf(mp) < 12 /\ MonthOf(mp + 1) = MonthOf(mp) + 1
        /\ MonthOf(mp) <= 2 <=> MonthOf(mp + 1) <= 2
    BY <1>5 DEF MonthOf
  <2>2. DayAfter(end) = [y |-> end.y, m |-> end.m + 1, d |-> 1]
    BY <1>1, <1>2, <2>1 DEF DayAfter
  <2>3. [y |-> end.y, m |-> end.m + 1, d |-> 1] = DateAt(y, mp + 1, 1)
    BY <2>1 DEF DateAt
  <2> QED BY <2>2, <2>3
<1> QED BY <1>4, <1>5

LEMMA NextYear ==
  ASSUME NEW y \in Int, NEW d \in Int, d = IF Leap(y + 1) THEN 29 ELSE 28
  PROVE  DayAfter(DateAt(y, 11, d)) = DateAt(y + 1, 0, 1)
<1>1. MonthOf(11) = 2 /\ MonthOf(0) = 3
  BY DEF MonthOf
<1>2. DateAt(y, 11, d) = [y |-> y + 1, m |-> 2, d |-> d]
  BY <1>1 DEF DateAt
<1>3. DaysIn(y + 1, 2) = d
  BY DEF DaysIn
<1>4. DayAfter([y |-> y + 1, m |-> 2, d |-> d]) = [y |-> y + 1, m |-> 3, d |-> 1]
  BY <1>3 DEF DayAfter
<1> QED BY <1>1, <1>2, <1>4 DEF DateAt

(* The arithmetic goes from each day to the calendar's next one.           *)
LEMMA WithinYear ==
  ASSUME NEW era \in Int, NEW doe \in Int, 0 <= doe, doe < 146096,
         NEW y \in Int, 0 <= y, y <= 399, FallsIn(doe, y), FallsIn(doe + 1, y)
  PROVE  DateOfEra(era, doe + 1) = DayAfter(DateOfEra(era, doe))
<1>1. PICK start \in Int : start = YearStart(y)
  BY YearLength
<1>2. PICK doy \in Int, on \in Int, next \in Int :
        doy = doe - start /\ next = doe + 1 /\ on = next - start /\ on = doy + 1
  OBVIOUS
<1>3. /\ 0 <= doy /\ doy <= 364 /\ (~Leap(y + 1) => doy < 364)
      /\ 0 <= next /\ next <= 146096
  <2>1. doy + 1 < IF Leap(y + 1) THEN 366 ELSE 365
    BY <1>1, <1>2, YearLength DEF FallsIn
  <2> QED BY <1>1, <1>2, <2>1 DEF FallsIn
<1>4. Leap(y + era * 400 + 1) <=> Leap(y + 1)
  BY DEF Leap
<1> DEFINE mp == MonthAt(doy)
           nx == MonthAt(on)
           d  == doy - MonthStart(mp) + 1
           e  == on - MonthStart(nx) + 1
           u  == y + era * 400
<1>5. DateOfEra(era, doe) = DateAt(u, mp, d)
  BY <1>1, <1>2, DateFound
<1>6. DateOfEra(era, next) = DateAt(u, nx, e)
  BY <1>1, <1>2, <1>3, DateFound
<1>7. /\ mp \in 0..11 /\ nx \in {mp, mp + 1}
      /\ nx = mp => d < MonthLength(mp)
      /\ nx = mp + 1 => mp # 11 /\ on = MonthStart(nx) /\ d = MonthLength(mp)
  BY <1>2, <1>3, MonthGoesOn
<1>8. d \in Int /\ u \in Int /\ MonthStart(nx) \in Int
  BY <1>7 DEF MonthStart
<1>9. CASE nx = mp
  <2>1. mp = 11 /\ ~Leap(u + 1) => d < 28
    BY <1>3, <1>4, MonthEnds
  <2>2. e = d + 1
    BY <1>2, <1>8, <1>9
  <2> HIDE DEF mp, nx, d, e, u
  <2> QED BY <1>2, <1>5, <1>6, <1>7, <1>8, <1>9, <2>1, <2>2, SameMonth
<1>10. CASE nx = mp + 1
  <2>1. mp \in 0..10 /\ d = MonthLength(mp) /\ e = 1
    BY <1>7, <1>8, <1>10
  <2> HIDE DEF mp, nx, d, e, u
  <2> QED BY <1>2, <1>5, <1>6, <1>8, <1>10, <2>1, NextMonth
<1> QED BY <1>7, <1>9, <1>10

LEMMA IntoNextYear ==
  ASSUME NEW era \in Int, NEW doe \in Int, 0 <= doe, doe < 146096,
         NEW y \in Int, 0 <= y, y < 399, FallsIn(doe, y), doe + 1 = YearEnd(y)
  PROVE  DateOfEra(era, doe + 1) = DayAfter(DateOfEra(era, doe))
<1> DEFINE u == y + era * 400
<1>1. FallsIn(doe + 1, y + 1) /\ YearStart(y + 1) = doe + 1
  BY YearLength DEF FallsIn, YearEnd
<1>2. PICK doy \in Int : doy = doe - YearStart(y) /\ doy = IF Leap(y + 1) THEN 365 ELSE 364
  BY YearLength
<1>3. Leap(u + 1) <=> Leap(y + 1)
  BY DEF Leap
<1>4. MonthAt(doy) = 11 /\ doy - MonthStart(11) + 1 = IF Leap(u + 1) THEN 29 ELSE 28
  BY <1>2, <1>3, MonthEnds
<1>5. DateOfEra(era, doe) = DateAt(u, 11, IF Leap(u + 1) THEN 29 ELSE 28)
  BY <1>2, <1>4, DateFound
<1>6. u + 1 = y + 1 + era * 400 /\ u \in Int
  OBVIOUS
<1>7. DateOfEra(era, doe + 1) = DateAt(u + 1, 0, 1)
  <2>1. y + 1 \in Int /\ 0 <= y + 1 /\ y + 1 <= 399 /\ doe + 1 - YearStart(y + 1) = 0
    BY <1>1
  <2>2. DateOfEra(era, doe + 1)
          = DateAt(y + 1 + era * 400, MonthAt(0), 0 - MonthStart(MonthAt(0)) + 1)
    BY <1>1, <2>1, DateFound
  <2> QED BY <1>6, <2>2, MonthEnds
<1> HIDE DEF u
<1> QED BY <1>5, <1>6, <1>7, NextYear

LEMMA IntoNextEra ==
  ASSUME NEW era \in Int
  PROVE  DateOfEra(era + 1, 0) = DayAfter(DateOfEra(era, 146096))
<1> DEFINE u == 399 + era * 400
<1>1. YearStart(399) = 145731 /\ YearEnd(399) = 146097 /\ YearStart(0) = 0 /\ YearEnd(0) = 365
  BY DEF YearStart, YearEnd
<1>2. FallsIn(146096, 399) /\ FallsIn(0, 0)
  BY <1>1 DEF FallsIn
<1>3. Leap(u + 1) /\ u \in Int
  BY DEF Leap
<1>4. DateOfEra(era, 146096) = DateAt(u, 11, 29)
  <2>1. 365 = 146096 - YearStart(399)
    BY <1>1
  <2>2. DateOfEra(era, 146096) = DateAt(u, MonthAt(365), 365 - MonthStart(MonthAt(365)) + 1)
    BY <1>2, <2>1, DateFound
  <2> QED BY <2>2, MonthEnds
<1>5. DateOfEra(era + 1, 0) = DateAt(u + 1, 0, 1)
  <2>1. 0 = 0 - YearStart(0)
    BY <1>1
  <2>2. DateOfEra(era + 1, 0)
          = DateAt(0 + (era + 1) * 400, MonthAt(0), 0 - MonthStart(MonthAt(0)) + 1)
    BY <1>2, <2>1, DateFound
  <2>3. 0 + (era + 1) * 400 = u + 1
    OBVIOUS
  <2> QED BY <2>2, <2>3, MonthEnds
<1> HIDE DEF u
<1> QED BY <1>3, <1>4, <1>5, NextYear

LEMMA DateGoesOn ==
  ASSUME NEW era \in Int, NEW doe \in Int, 0 <= doe, doe < 146096
  PROVE  DateOfEra(era, doe + 1) = DayAfter(DateOfEra(era, doe))
<1>1. PICK y \in Int : 0 <= y /\ y <= 399 /\ FallsIn(doe, y)
  BY YearFound
<1>2. CASE doe + 1 < YearEnd(y)
  <2>1. FallsIn(doe + 1, y)
    BY <1>1, <1>2, YearLength DEF FallsIn
  <2> QED BY <1>1, <2>1, WithinYear
<1>3. CASE ~(doe + 1 < YearEnd(y))
  <2>1. doe + 1 = YearEnd(y)
    BY <1>1, <1>3, YearLength DEF FallsIn
  <2>2. y # 399
    BY <2>1 DEF YearEnd
  <2> QED BY <1>1, <2>1, <2>2, IntoNextYear
<1> QED BY <1>2, <1>3

LEMMA UnixDateGoesOn ==
  ASSUME NEW n \in Int, 0 <= n
  PROVE  UnixDate(n + 1) = DayAfter(UnixDate(n)) /\ SystemDate(n) = UnixDate(n)
<1>1. PICK era \in Int, doe \in Int :
        /\ era = (n + 719468) \div 146097 /\ doe = n + 719468 - era * 146097
        /\ 0 <= doe /\ doe < 146097
  OBVIOUS
<1>2. UnixDate(n) = DateOfEra(era, doe)
  BY <1>1 DEF UnixDate
<1>3. SystemDate(n) = DateOfEra(era, doe)
  <2>1. n + 719468 >= 0
    OBVIOUS
  <2> QED BY <1>1, <2>1 DEF SystemDate
<1>4. CASE doe < 146096
  <2>1. (n + 1 + 719468) \div 146097 = era /\ n + 1 + 719468 - era * 146097 = doe + 1
    BY <1>1, <1>4
  <2>2. UnixDate(n + 1) = DateOfEra(era, doe + 1)
    BY <2>1 DEF UnixDate
  <2> QED BY <1>1, <1>2, <1>3, <1>4, <2>2, DateGoesOn
<1>5. CASE doe = 146096
  <2>1. (n + 1 + 719468) \div 146097 = era + 1 /\ n + 1 + 719468 - (era + 1) * 146097 = 0
    BY <1>1, <1>5
  <2>2. UnixDate(n + 1) = DateOfEra(era + 1, 0)
    BY <2>1 DEF UnixDate
  <2> QED BY <1>2, <1>3, <1>5, <2>2, IntoNextEra
<1> QED BY <1>1, <1>4, <1>5

(* The clock, for any second of a day.                                     *)
LEMMA ClockCounts ==
  ASSUME NEW s \in Int, 0 <= s, s < 86400
  PROVE  LET t == TimeOfDay(s)
         IN t.h * 3600 + t.m * 60 + t.s = s /\ t.h < 24 /\ t.m < 60 /\ t.s < 60
<1>1. PICK h \in Int : h = s \div 3600 /\ 3600 * h <= s /\ s < 3600 * h + 3600
  OBVIOUS
<1>2. PICK r \in Int : r = s % 3600 /\ r = s - 3600 * h
  BY <1>1
<1>3. PICK m \in Int : m = r \div 60 /\ 60 * m <= r /\ r < 60 * m + 60
  OBVIOUS
<1>4. PICK q \in Int : q = s % 60 /\ 0 <= q /\ q < 60 /\ q = s - 60 * (s \div 60)
  OBVIOUS
<1>5. s \div 60 = 60 * h + m
  BY <1>1, <1>2, <1>3
<1>6. q = s - 3600 * h - 60 * m
  BY <1>4, <1>5
<1>7. TimeOfDay(s) = [h |-> h, m |-> m, s |-> q]
  BY <1>1, <1>2, <1>3, <1>4 DEF TimeOfDay
<1> QED BY <1>1, <1>2, <1>3, <1>4, <1>6, <1>7

DatesInv == day \in Nat /\ DatesCount

LEMMA DatesBegin == DateInit => DatesInv
<1> SUFFICES ASSUME DateInit PROVE DatesInv
  OBVIOUS
<1>1. day = 0 /\ date = [y |-> 1970, m |-> 1, d |-> 1]
  BY DEF DateInit
<1>2. FallsIn(719468 - 4 * 146097, 369)
  BY DEF FallsIn, YearStart, YearEnd
<1>3. PICK doe \in Int : doe = 719468 - 4 * 146097 /\ doe = 135080
  OBVIOUS
<1>4. YearStart(369) = 134774 /\ MonthAt(306) = 10 /\ MonthStart(10) = 306
  BY DEF YearStart, MonthAt, MonthStart
<1>5. 306 = doe - YearStart(369)
  BY <1>3, <1>4
<1>6. DateOfEra(4, doe) = DateAt(369 + 4 * 400, MonthAt(306), 306 - MonthStart(MonthAt(306)) + 1)
  BY <1>2, <1>3, <1>5, DateFound
<1>7. DateOfEra(4, doe) = [y |-> 1970, m |-> 1, d |-> 1]
  BY <1>4, <1>6 DEF DateAt, MonthOf
<1>8. (0 + 719468) \div 146097 = 4 /\ 0 + 719468 - 4 * 146097 = doe
  BY <1>3
<1>9. UnixDate(0) = DateOfEra(4, doe)
  BY <1>8 DEF UnixDate
<1> QED BY <1>1, <1>7, <1>9, UnixDateGoesOn, ClockCounts DEF DatesInv, DatesCount

LEMMA DatesGoOn == DatesInv /\ [Tomorrow]_dateVars => DatesInv'
<1> SUFFICES ASSUME DatesInv, [Tomorrow]_dateVars PROVE DatesInv'
  OBVIOUS
<1>1. CASE Tomorrow
  <2>1. day \in Nat /\ day' = day + 1 /\ date' = DayAfter(date) /\ UnixDate(day) = date
    BY <1>1 DEF Tomorrow, DatesInv, DatesCount
  <2>2. UnixDate(day') = date' /\ SystemDate(day') = date' /\ day' \in Nat
    BY <2>1, UnixDateGoesOn
  <2> QED BY <2>2 DEF DatesInv, DatesCount
<1>2. CASE UNCHANGED dateVars
  BY <1>2 DEF dateVars, DatesInv, DatesCount
<1> QED BY <1>1, <1>2

(* Both timestamps of every day from 1970 on, however far away, are the    *)
(* date the calendar counts up to.                                         *)
THEOREM DatesAreRight == SkybaseSpec => []DatesCount
<1>1. SkybaseInit => DatesInv
  BY DatesBegin DEF SkybaseInit
<1>2. DatesInv /\ [SkybaseNext]_skybaseVars => DatesInv'
  <2>1. [SkybaseNext]_skybaseVars => [Tomorrow]_dateVars
    BY DEF SkybaseNext, skybaseVars
  <2> QED BY <2>1, DatesGoOn
<1>3. DatesInv => DatesCount
  BY DEF DatesInv
<1> QED BY <1>1, <1>2, <1>3, PTL DEF SkybaseSpec

-----------------------------------------------------------------------------
(* What a page brings exists, place by place, and grows with the page.     *)
KeptBy(g, a, b) ==
  \A k \in (a - 1)..b :
    g[k] = IF k < a THEN <<>>
           ELSE IF list[k] = "good" THEN Append(g[k - 1], k) ELSE g[k - 1]

LEMMA KeptExists ==
  ASSUME NEW a \in Nat \ {0}, NEW w \in Nat
  PROVE  \E g \in [(a - 1)..(a - 1 + w) -> Seq(Nat)] : KeptBy(g, a, a - 1 + w)
<1> DEFINE Up(n) == \E g \in [(a - 1)..(a - 1 + n) -> Seq(Nat)] : KeptBy(g, a, a - 1 + n)
           bad == {n \in 0..w : ~Up(n)}
<1>1. Up(0)
  <2> DEFINE g == [k \in (a - 1)..(a - 1) |-> <<>>]
  <2>1. <<>> \in Seq(Nat)
    OBVIOUS
  <2>2. g \in [(a - 1)..(a - 1) -> Seq(Nat)] /\ a - 1 + 0 = a - 1
    BY <2>1
  <2>3. \A k \in (a - 1)..(a - 1) : k < a /\ g[k] = <<>>
    OBVIOUS
  <2> HIDE DEF g
  <2> QED BY <2>2, <2>3 DEF KeptBy
<1>2. ASSUME NEW n \in 1..w, Up(n - 1)
      PROVE  Up(n)
  <2>1. PICK b \in Nat : b = a - 1 + n /\ b - 1 = a - 1 + (n - 1) /\ a <= b
    OBVIOUS
  <2>2. PICK g \in [(a - 1)..(b - 1) -> Seq(Nat)] : KeptBy(g, a, b - 1)
    BY <1>2, <2>1
  <2> DEFINE x == IF list[b] = "good" THEN Append(g[b - 1], b) ELSE g[b - 1]
  <2>3. b - 1 \in (a - 1)..(b - 1) /\ g[b - 1] \in Seq(Nat)
    BY <2>1
  <2>4. x \in Seq(Nat)
    BY <2>3, AppendProperties
  <2> DEFINE h == [k \in (a - 1)..b |-> IF k = b THEN x ELSE g[k]]
  <2> HIDE DEF x
  <2>5. \A k \in (a - 1)..b : k = b \/ k \in (a - 1)..(b - 1)
    BY <2>1
  <2>6. h \in [(a - 1)..b -> Seq(Nat)]
    BY <2>4, <2>5
  <2>7. b \in (a - 1)..b /\ \A k \in (a - 1)..(b - 1) : k \in (a - 1)..b /\ k # b
    BY <2>1
  <2>8. h[b] = x /\ \A k \in (a - 1)..(b - 1) : h[k] = g[k]
    BY <2>7
  <2> HIDE DEF h
  <2>9. ASSUME NEW k \in (a - 1)..b
        PROVE  h[k] = IF k < a THEN <<>>
                      ELSE IF list[k] = "good" THEN Append(h[k - 1], k) ELSE h[k - 1]
    <3>1. CASE k = b
      BY <2>1, <2>3, <2>8, <3>1 DEF x
    <3>2. CASE k # b /\ k < a
      <4>1. k \in (a - 1)..(b - 1)
        BY <2>5, <3>2
      <4> QED BY <2>2, <2>8, <3>2, <4>1 DEF KeptBy
    <3>3. CASE k # b /\ ~(k < a)
      <4>1. k \in (a - 1)..(b - 1) /\ k - 1 \in (a - 1)..(b - 1)
        BY <2>1, <2>5, <3>3
      <4> QED BY <2>2, <2>8, <3>3, <4>1 DEF KeptBy
    <3> QED BY <3>1, <3>2, <3>3
  <2> QED BY <2>1, <2>6, <2>9 DEF KeptBy
<1> HIDE DEF Up
<1>3. bad = {}
  <2> SUFFICES ASSUME bad # {} PROVE FALSE
    OBVIOUS
  <2>1. bad \in SUBSET (0..w) /\ 0 \notin bad
    BY <1>1
  <2>2. PICK n \in 1..w : n \in bad /\ \A m \in 0..(n - 1) : m \notin bad
    <3> HIDE DEF bad
    <3> QED BY <2>1, FirstBad
  <2>3. n - 1 \in 0..(n - 1) /\ n - 1 \in 0..w
    OBVIOUS
  <2> QED BY <1>2, <2>2, <2>3
<1>4. Up(w)
  BY <1>3
<1> QED BY <1>4 DEF Up

LEMMA KeptOnce ==
  ASSUME NEW a \in Nat \ {0}, NEW b \in Nat, NEW c \in Nat, a - 1 <= b, b <= c,
         NEW g, KeptBy(g, a, b), NEW h, KeptBy(h, a, c)
  PROVE  g[b] = h[b]
<1> DEFINE bad == {n \in 0..(b - a + 1) : g[a - 1 + n] # h[a - 1 + n]}
<1>1. bad = {}
  <2> SUFFICES ASSUME bad # {} PROVE FALSE
    OBVIOUS
  <2>1. a - 1 \in (a - 1)..b /\ a - 1 \in (a - 1)..c /\ a - 1 < a /\ a - 1 + 0 = a - 1
    OBVIOUS
  <2>2. g[a - 1] = <<>> /\ h[a - 1] = <<>>
    BY <2>1 DEF KeptBy
  <2>3. b - a + 1 \in Nat /\ bad \in SUBSET (0..(b - a + 1)) /\ 0 \notin bad
    BY <2>1, <2>2
  <2>4. PICK n \in 1..(b - a + 1) : n \in bad /\ \A m \in 0..(n - 1) : m \notin bad
    <3> HIDE DEF bad
    <3> QED BY <2>3, FirstBad
  <2>5. n - 1 \in 0..(n - 1) /\ n - 1 \in 0..(b - a + 1) /\ a - 1 + (n - 1) = a - 1 + n - 1
    BY <2>3
  <2>6. g[a - 1 + n - 1] = h[a - 1 + n - 1] /\ g[a - 1 + n] # h[a - 1 + n]
    BY <2>4, <2>5
  <2>7. PICK k \in Nat : k = a - 1 + n /\ k \in (a - 1)..b /\ k \in (a - 1)..c /\ ~(k < a)
    OBVIOUS
  <2>8. g[k - 1] = h[k - 1] /\ g[k] # h[k]
    BY <2>6, <2>7
  <2> QED BY <2>7, <2>8 DEF KeptBy
<1>2. b - a + 1 \in 0..(b - a + 1) /\ a - 1 + (b - a + 1) = b
  OBVIOUS
<1> QED BY <1>1, <1>2

LEMMA UsableBy ==
  ASSUME NEW a \in Nat \ {0}, NEW b \in Nat, a - 1 <= b
  PROVE  \E g \in [(a - 1)..b -> Seq(Nat)] : KeptBy(g, a, b) /\ g[b] = Usable(a, b)
<1> DEFINE kept[k \in (a - 1)..b] ==
        IF k < a THEN <<>>
        ELSE IF list[k] = "good" THEN Append(kept[k - 1], k) ELSE kept[k - 1]
<1>1. PICK w \in Nat : b = a - 1 + w
  <2>1. b - a + 1 \in Nat /\ b = a - 1 + (b - a + 1)
    OBVIOUS
  <2> QED BY <2>1
<1>2. PICK g \in [(a - 1)..b -> Seq(Nat)] : KeptBy(g, a, b)
  BY <1>1, KeptExists
<1>3. g = [k \in (a - 1)..b |->
             IF k < a THEN <<>>
             ELSE IF list[k] = "good" THEN Append(g[k - 1], k) ELSE g[k - 1]]
  BY <1>2 DEF KeptBy
<1>4. kept = [k \in (a - 1)..b |->
                IF k < a THEN <<>>
                ELSE IF list[k] = "good" THEN Append(kept[k - 1], k) ELSE kept[k - 1]]
  BY <1>3
<1>5. Usable(a, b) = kept[b]
  BY DEF Usable
<1> HIDE DEF kept
<1>6. KeptBy(kept, a, b)
  BY <1>4 DEF KeptBy
<1>7. g[b] = kept[b]
  BY <1>2, <1>6, KeptOnce
<1> QED BY <1>2, <1>5, <1>7

LEMMA UsableGrows ==
  ASSUME NEW a \in Nat \ {0}
  PROVE  /\ Usable(a, a - 1) = <<>>
         /\ \A b \in Nat : a <= b =>
              Usable(a, b) = IF list[b] = "good" THEN Append(Usable(a, b - 1), b)
                                                 ELSE Usable(a, b - 1)
         /\ \A b \in Nat : a - 1 <= b => Usable(a, b) \in Seq(Nat)
<1>1. Usable(a, a - 1) = <<>>
  <2>1. PICK b \in Nat : b = a - 1 /\ a - 1 <= b
    OBVIOUS
  <2>2. PICK g \in [(a - 1)..b -> Seq(Nat)] : KeptBy(g, a, b) /\ g[b] = Usable(a, b)
    BY <2>1, UsableBy
  <2>3. b \in (a - 1)..b /\ b < a
    BY <2>1
  <2> QED BY <2>1, <2>2, <2>3 DEF KeptBy
<1>2. ASSUME NEW b \in Nat, a <= b
      PROVE  Usable(a, b) = IF list[b] = "good" THEN Append(Usable(a, b - 1), b)
                                                ELSE Usable(a, b - 1)
  <2>1. PICK e \in Nat : e = b - 1 /\ a - 1 <= e /\ e <= b /\ a - 1 <= b
    BY <1>2
  <2>2. PICK g \in [(a - 1)..b -> Seq(Nat)] : KeptBy(g, a, b) /\ g[b] = Usable(a, b)
    BY <2>1, UsableBy
  <2>3. PICK h \in [(a - 1)..e -> Seq(Nat)] : KeptBy(h, a, e) /\ h[e] = Usable(a, e)
    BY <2>1, UsableBy
  <2>4. h[e] = g[e]
    <3> DEFINE other == g
    <3>1. KeptBy(other, a, b) /\ KeptBy(h, a, e) /\ e \in Nat /\ a - 1 <= e /\ e <= b
      BY <2>1, <2>2, <2>3
    <3> HIDE DEF other
    <3>2. h[e] = other[e]
      BY <3>1, KeptOnce
    <3> QED BY <3>2 DEF other
  <2>5. b \in (a - 1)..b /\ ~(b < a)
    BY <1>2
  <2> QED BY <2>1, <2>2, <2>3, <2>4, <2>5 DEF KeptBy
<1>3. ASSUME NEW b \in Nat, a - 1 <= b
      PROVE  Usable(a, b) \in Seq(Nat)
  <2>1. PICK g \in [(a - 1)..b -> Seq(Nat)] : KeptBy(g, a, b) /\ g[b] = Usable(a, b)
    BY <1>3, UsableBy
  <2>2. b \in (a - 1)..b
    BY <1>3
  <2> QED BY <2>1, <2>2
<1> QED BY <1>1, <1>2, <1>3

(* Two stretches bring what both bring together; one without bad entries   *)
(* brings all its entries.                                                 *)
LEMMA AppendBehind ==
  ASSUME NEW s \in Seq(Nat), NEW t \in Seq(Nat), NEW x \in Nat
  PROVE  s \o Append(t, x) = Append(s \o t, x)
OBVIOUS

LEMMA UsableJoins ==
  ASSUME NEW a \in Nat \ {0}, NEW b \in Nat, NEW w \in Nat, a - 1 <= b
  PROVE  Usable(a, b) \o Usable(b + 1, b + w) = Usable(a, b + w)
<1> DEFINE bad == {n \in 0..w : Usable(a, b) \o Usable(b + 1, b + n) # Usable(a, b + n)}
<1>1. bad = {}
  <2> SUFFICES ASSUME bad # {} PROVE FALSE
    OBVIOUS
  <2>1. b + 1 \in Nat \ {0} /\ b + 0 = b /\ b + 0 = b + 1 - 1 /\ Usable(a, b) \in Seq(Nat)
    BY UsableGrows
  <2>2. 0 \notin bad
    <3>1. Usable(b + 1, b + 0) = <<>>
      BY <2>1, UsableGrows
    <3>2. Usable(a, b) \o <<>> = Usable(a, b)
      BY <2>1
    <3> QED BY <2>1, <3>1, <3>2
  <2>3. PICK n \in 1..w : n \in bad /\ \A m \in 0..(n - 1) : m \notin bad
    <3>1. bad \in SUBSET (0..w)
      OBVIOUS
    <3> HIDE DEF bad
    <3> QED BY <2>2, <3>1, FirstBad
  <2>4. PICK c \in Nat : c = b + n /\ c - 1 = b + (n - 1) /\ c - 1 \in Nat /\ b + 1 <= c /\ a <= c
    OBVIOUS
  <2>5. n - 1 \in 0..(n - 1) /\ n - 1 \in 0..w
    OBVIOUS
  <2>6. /\ Usable(a, b) \o Usable(b + 1, c - 1) = Usable(a, c - 1)
        /\ Usable(a, b) \o Usable(b + 1, c) # Usable(a, c)
    BY <2>3, <2>4, <2>5
  <2>7. /\ Usable(b + 1, c) = IF list[c] = "good" THEN Append(Usable(b + 1, c - 1), c)
                                                  ELSE Usable(b + 1, c - 1)
        /\ Usable(a, c) = IF list[c] = "good" THEN Append(Usable(a, c - 1), c)
                                              ELSE Usable(a, c - 1)
        /\ Usable(b + 1, c - 1) \in Seq(Nat)
    <3>1. PICK d \in Nat \ {0} : d = b + 1 /\ d <= c /\ d - 1 <= c - 1
      BY <2>4
    <3>2. /\ Usable(d, c) = IF list[c] = "good" THEN Append(Usable(d, c - 1), c)
                                               ELSE Usable(d, c - 1)
          /\ Usable(d, c - 1) \in Seq(Nat)
      BY <2>4, <3>1, UsableGrows
    <3>3. Usable(a, c) = IF list[c] = "good" THEN Append(Usable(a, c - 1), c)
                                             ELSE Usable(a, c - 1)
      BY <2>4, UsableGrows
    <3> QED BY <3>1, <3>2, <3>3
  <2>8. Usable(a, b) \o Append(Usable(b + 1, c - 1), c)
          = Append(Usable(a, b) \o Usable(b + 1, c - 1), c)
    BY <2>1, <2>7, AppendBehind
  <2> QED BY <2>6, <2>7, <2>8
<1>2. w \in 0..w
  OBVIOUS
<1> QED BY <1>1, <1>2

LEMMA UsableWhole ==
  ASSUME NEW b \in Nat, NEW w \in Nat,
         \A k \in (b + 1)..(b + w) : list[k] = "good"
  PROVE  Len(Usable(b + 1, b + w)) = w
<1> DEFINE bad == {n \in 0..w : Len(Usable(b + 1, b + n)) # n}
<1>1. bad = {}
  <2> SUFFICES ASSUME bad # {} PROVE FALSE
    OBVIOUS
  <2>1. b + 1 \in Nat \ {0} /\ b + 0 = b + 1 - 1
    OBVIOUS
  <2>2. 0 \notin bad
    <3>1. Usable(b + 1, b + 0) = <<>>
      BY <2>1, UsableGrows
    <3> QED BY <3>1
  <2>3. PICK n \in 1..w : n \in bad /\ \A m \in 0..(n - 1) : m \notin bad
    <3>1. bad \in SUBSET (0..w)
      OBVIOUS
    <3> HIDE DEF bad
    <3> QED BY <2>2, <3>1, FirstBad
  <2>4. PICK c \in Nat : c = b + n /\ c - 1 = b + (n - 1) /\ c - 1 \in Nat /\ b + 1 <= c /\ c <= b + w
    OBVIOUS
  <2>5. n - 1 \in 0..(n - 1) /\ n - 1 \in 0..w
    OBVIOUS
  <2>6. Len(Usable(b + 1, c - 1)) = n - 1 /\ Len(Usable(b + 1, c)) # n
    BY <2>3, <2>4, <2>5
  <2>7. list[c] = "good"
    BY <2>4
  <2>8. Usable(b + 1, c) = Append(Usable(b + 1, c - 1), c) /\ Usable(b + 1, c - 1) \in Seq(Nat)
    <3>1. PICK d \in Nat \ {0} : d = b + 1 /\ d <= c /\ d - 1 <= c - 1
      BY <2>4
    <3>2. Usable(d, c) = Append(Usable(d, c - 1), c) /\ Usable(d, c - 1) \in Seq(Nat)
      BY <2>4, <2>7, <3>1, UsableGrows
    <3> QED BY <3>1, <3>2
  <2>9. Len(Append(Usable(b + 1, c - 1), c)) = n - 1 + 1
    BY <2>6, <2>8
  <2> QED BY <2>6, <2>8, <2>9
<1>2. w \in 0..w
  OBVIOUS
<1> QED BY <1>1, <1>2

-----------------------------------------------------------------------------
(* The inductive invariant of the paged reads: what has been collected is  *)
(* what the list has up to the cursor, and a read that has ended has a     *)
(* cause.                                                                  *)
ReadInv ==
  /\ list \in Seq({"good", "bad"}) /\ filters \in BOOLEAN
  /\ position \in Nat /\ 1 <= position /\ position <= Len(list) + 1
  /\ (ending = "not begun" => position = 1 /\ items = <<>>)
  /\ items = Usable(1, position - 1)
  /\ ~filters => Len(items) = position - 1
  /\ ending \notin {"not begun", "none"} =>
       \/ ending = "error" \/ turn = MaxPages \/ position - 1 = Len(list)
       \/ Usable(began, position - 1) = <<>>

SameUsable == \A a, b : Usable(a, b)' = Usable(a, b)

LEMMA SameListSameUsable == list' = list => SameUsable
BY DEF Usable, SameUsable

LEMMA ReadStarts == AppViewInit => ReadInv
<1> SUFFICES ASSUME AppViewInit PROVE ReadInv
  OBVIOUS
<1>1. /\ list = <<>> /\ filters = TRUE /\ position = 1 /\ items = <<>>
      /\ ending = "not begun"
  BY DEF AppViewInit
<1>2. <<>> \in Seq({"good", "bad"}) /\ Len(<<>>) = 0
  OBVIOUS
<1>3. Usable(1, 1 - 1) = <<>>
  <2>1. 1 \in Nat \ {0}
    OBVIOUS
  <2> QED BY <2>1, UsableGrows
<1>4. list \in Seq({"good", "bad"}) /\ position \in Nat /\ 1 <= position
      /\ position <= Len(list) + 1
  <2>1. list \in Seq({"good", "bad"}) /\ Len(list) = 0
    BY <1>1, <1>2
  <2>2. position = 1
    BY <1>1
  <2> QED BY <2>1, <2>2
<1>5. items = Usable(1, position - 1)
  BY <1>1, <1>3
<1>6. filters \in BOOLEAN /\ (~filters => Len(items) = position - 1)
  BY <1>1
<1> QED BY <1>1, <1>4, <1>5, <1>6 DEF ReadInv

LEMMA PageReadOn ==
  ASSUME ReadInv, PageArrives
  PROVE  ReadInv'
<1>1. PICK size \in 0..limit, more \in BOOLEAN :
        LET last == position + size - 1
            page == Usable(position, last)
        IN /\ last <= Len(list) /\ (last < Len(list) => more)
           /\ Decodes(position, last)
           /\ items' = items \o page
           /\ turn' = turn + 1
           /\ began' = position /\ position' = last + 1
           /\ ending' = AfterPage(Len(page), more)
  BY DEF PageArrives
<1>2. /\ ending = "none" /\ list' = list /\ filters' = filters /\ limit' = limit
      /\ list \in Seq({"good", "bad"}) /\ filters \in BOOLEAN /\ Len(list) \in Nat
      /\ items = Usable(1, position - 1) /\ (~filters => Len(items) = position - 1)
  BY DEF PageArrives, ReadInv
<1>3. PICK b \in Nat : b = position - 1 /\ position = b + 1 /\ b <= Len(list) /\ b + 1 \in Nat \ {0}
  BY <1>2 DEF ReadInv
<1>4. PICK w \in Nat : w = size
  OBVIOUS
<1>5. PICK c \in Nat : c = b + w /\ position + size - 1 = c /\ c <= Len(list) /\ b <= c
  BY <1>1, <1>3, <1>4
<1>6. /\ (c < Len(list) => more) /\ Decodes(b + 1, c)
      /\ items' = Usable(1, b) \o Usable(b + 1, c)
      /\ turn' = turn + 1 /\ began' = b + 1 /\ position' = c + 1
      /\ ending' = AfterPage(Len(Usable(b + 1, c)), more)
  BY <1>1, <1>2, <1>3, <1>5
<1>7. items' = Usable(1, c)
  <2>1. 1 \in Nat \ {0} /\ 1 - 1 <= b
    OBVIOUS
  <2> QED BY <1>5, <1>6, <2>1, UsableJoins
<1>8. Usable(1, b) \in Seq(Nat) /\ Usable(b + 1, c) \in Seq(Nat)
  <2>1. PICK d \in Nat \ {0} : d = b + 1 /\ d - 1 <= c
    BY <1>5
  <2>2. Usable(d, c) \in Seq(Nat)
    BY <2>1, UsableGrows
  <2>3. 1 \in Nat \ {0} /\ 1 - 1 <= b
    OBVIOUS
  <2>4. Usable(1, b) \in Seq(Nat)
    BY <2>3, UsableGrows
  <2> QED BY <2>1, <2>2, <2>4
<1>9. ~filters => Len(items') = c
  <2> SUFFICES ASSUME ~filters PROVE Len(items') = c
    OBVIOUS
  <2>1. \A k \in (b + 1)..(b + w) : list[k] = "good"
    BY <1>5, <1>6 DEF Decodes
  <2>2. Len(Usable(b + 1, b + w)) = w
    BY <2>1, UsableWhole
  <2>3. Len(Usable(1, b)) = b
    BY <1>2, <1>3
  <2>4. Len(Usable(1, b) \o Usable(b + 1, c)) = Len(Usable(1, b)) + Len(Usable(b + 1, c))
    BY <1>8
  <2> QED BY <1>5, <1>6, <2>2, <2>3, <2>4
<1>10. SameUsable
  BY <1>2, SameListSameUsable
<1>11. /\ position' \in Nat /\ 1 <= position' /\ position' <= Len(list) + 1
       /\ position' - 1 = c /\ ending' # "not begun"
  BY <1>2, <1>5, <1>6 DEF AfterPage
<1>12. items' = Usable(1, position - 1)'
  BY <1>7, <1>10, <1>11 DEF SameUsable
<1>13. ending' \notin {"not begun", "none"} =>
         turn' = MaxPages \/ c = Len(list) \/ Usable(b + 1, c) = <<>>
  <2>1. CASE Len(Usable(b + 1, c)) = 0
    <3>1. \A s \in Seq(Nat) : Len(s) = 0 => s = <<>>
      BY EmptySeq
    <3> QED BY <1>8, <2>1, <3>1
  <2>2. CASE ~more
    <3>1. ~(c < Len(list))
      BY <1>6, <2>2
    <3>2. c = Len(list)
      BY <1>2, <1>5, <3>1
    <3> QED BY <3>2
  <2>3. CASE Len(Usable(b + 1, c)) # 0 /\ more
    BY <1>6, <2>3 DEF AfterPage
  <2> QED BY <2>1, <2>2, <2>3
<1>14. Usable(began, position - 1)' = Usable(b + 1, c)
  BY <1>6, <1>10, <1>11 DEF SameUsable
<1> QED BY <1>2, <1>9, <1>11, <1>12, <1>13, <1>14 DEF ReadInv

NothingBefore == Usable(1, 0) = <<>>

LEMMA NothingIsBefore == NothingBefore
<1>1. 1 \in Nat \ {0} /\ 1 - 1 = 0
  OBVIOUS
<1> QED BY <1>1, UsableGrows DEF NothingBefore

LEMMA ReadGoesOn ==
  ASSUME ReadInv, [AppViewNext]_appviewVars
  PROVE  ReadInv'
<1>1. ASSUME NEW l \in Lists, NEW n, NEW drops \in BOOLEAN, Paginate(l, n, drops)
      PROVE  ReadInv'
  <2>1. /\ list' = l /\ filters' = drops /\ ending' = "none"
        /\ position' = 1 /\ items' = <<>>
    BY <1>1 DEF Paginate, ReadInv
  <2>2. l \in Seq({"good", "bad"}) /\ Len(l) \in Nat
    BY AppViewAssumption
  <2>3. NothingBefore'
    BY NothingIsBefore, PTL
  <2>4. items' = Usable(1, position - 1)'
    BY <2>1, <2>3 DEF NothingBefore
  <2>5. ~filters' => Len(items') = position' - 1
    BY <2>1
  <2>6. position' \in Nat /\ 1 <= position' /\ position' <= Len(list') + 1
    BY <2>1, <2>2
  <2> QED BY <1>1, <2>1, <2>2, <2>4, <2>5, <2>6 DEF ReadInv
<1>2. CASE PageFails
  <2>1. /\ ending' = "error" /\ UNCHANGED <<list, filters, position, began, items>>
    BY <1>2 DEF PageFails
  <2>2. SameUsable
    BY <2>1, SameListSameUsable
  <2> QED BY <2>1, <2>2 DEF ReadInv, SameUsable
<1>3. CASE PageArrives
  BY <1>3, PageReadOn
<1>4. CASE UNCHANGED appviewVars
  <2>1. UNCHANGED <<list, filters, position, began, turn, items, ending>>
    BY <1>4 DEF appviewVars
  <2>2. SameUsable
    BY <2>1, SameListSameUsable
  <2> QED BY <2>1, <2>2 DEF ReadInv, SameUsable
<1>5. TRUE \in BOOLEAN /\ FALSE \in BOOLEAN
  OBVIOUS
<1> QED BY <1>1, <1>2, <1>3, <1>4, <1>5
        DEF AppViewNext, FetchFollows, FetchFollowers, FetchFollowRecords

LEMMA ReadInvSuffices == ReadInv => ReadEndsForCause
<1> SUFFICES ASSUME ReadInv PROVE ReadEndsForCause
  OBVIOUS
<1>1. items = Usable(1, position - 1) /\ (~filters => Len(items) = position - 1)
  BY DEF ReadInv
<1>2. position - 1 = Len(list) => items = Usable(1, Len(list))
  BY <1>1
<1> QED BY <1>1, <1>2 DEF ReadInv, ReadEndsForCause

(* A paged read of the AppView brings the usable entries in their order,   *)
(* each once, and all of them unless a page failed, the pages ran out or   *)
(* nothing in the last one could be used: for any list, page limit and     *)
(* number of pages.                                                        *)
THEOREM ReadsEndForCause == SkybaseSpec => []ReadEndsForCause
<1>1. SkybaseInit => ReadInv
  BY ReadStarts DEF SkybaseInit
<1>2. ReadInv /\ [SkybaseNext]_skybaseVars => ReadInv'
  <2>1. [SkybaseNext]_skybaseVars => [AppViewNext]_appviewVars
    BY DEF SkybaseNext, skybaseVars
  <2> QED BY <2>1, ReadGoesOn
<1> QED BY <1>1, <1>2, ReadInvSuffices, PTL DEF SkybaseSpec

-----------------------------------------------------------------------------
(* A function that starts with e and goes on by G, a function of its last  *)
(* value and the place, exists and stays in S where G does.                *)
StaysIn(S, G, w) == \A x \in S, n \in 1..w : G[<<x, n>>] \in S

HasRecursion(S, e, G, w) ==
  \E f \in [0..w -> S] : \A k \in 0..w : f[k] = IF k = 0 THEN e ELSE G[<<f[k - 1], k>>]

LEMMA Recursion ==
  ASSUME NEW S, NEW e \in S, NEW G, NEW w \in Nat, StaysIn(S, G, w)
  PROVE  HasRecursion(S, e, G, w)
<1> DEFINE Step(f, k) == IF k = 0 THEN e ELSE G[<<f[k - 1], k>>]
           Up(n) == \E f \in [0..n -> S] : \A k \in 0..n : f[k] = Step(f, k)
           bad == {n \in 0..w : ~Up(n)}
<1>1. 0 \notin bad
  <2> DEFINE f == [k \in 0..0 |-> e]
  <2>1. f \in [0..0 -> S] /\ \A k \in 0..0 : f[k] = Step(f, k)
    OBVIOUS
  <2> HIDE DEF f
  <2> QED BY <2>1
<1>2. ASSUME NEW n \in 1..w, Up(n - 1)
      PROVE  Up(n)
  <2>1. PICK f \in [0..(n - 1) -> S] : \A k \in 0..(n - 1) : f[k] = Step(f, k)
    BY <1>2
  <2> DEFINE g == [k \in 0..n |-> IF k = n THEN G[<<f[n - 1], n>>] ELSE f[k]]
  <2>2. n - 1 \in 0..(n - 1) /\ n \in 0..n /\ n # 0
    OBVIOUS
  <2>3. \A k \in 0..(n - 1) : k \in 0..n /\ k # n
    OBVIOUS
  <2>4. g[n] = G[<<f[n - 1], n>>] /\ \A k \in 0..(n - 1) : g[k] = f[k]
    BY <2>2, <2>3
  <2>5. f[n - 1] \in S /\ G[<<f[n - 1], n>>] \in S
    BY <2>2 DEF StaysIn
  <2>6. \A k \in 0..n : k = n \/ k \in 0..(n - 1)
    OBVIOUS
  <2>7. g \in [0..n -> S]
    BY <2>5, <2>6
  <2> HIDE DEF g
  <2>8. ASSUME NEW k \in 0..n
        PROVE  g[k] = Step(g, k)
    <3>1. CASE k = n
      BY <2>2, <2>4, <3>1
    <3>2. CASE k \in 0..(n - 1) /\ k # 0
      <4>1. k - 1 \in 0..(n - 1)
        BY <3>2
      <4> QED BY <2>1, <2>4, <3>2, <4>1
    <3>3. CASE k = 0
      <4>1. 0 \in 0..(n - 1)
        OBVIOUS
      <4> QED BY <2>1, <2>4, <3>3, <4>1
    <3> QED BY <2>6, <3>1, <3>2, <3>3
  <2> HIDE DEF Step
  <2> QED BY <2>7, <2>8
<1>3. bad = {}
  <2> SUFFICES ASSUME bad # {} PROVE FALSE
    OBVIOUS
  <2>1. bad \in SUBSET (0..w)
    OBVIOUS
  <2>2. PICK n \in 1..w : n \in bad /\ \A m \in 0..(n - 1) : m \notin bad
    <3> HIDE DEF bad
    <3> QED BY <1>1, <2>1, FirstBad
  <2>3. n - 1 \in 0..(n - 1) /\ n - 1 \in 0..w
    OBVIOUS
  <2>4. Up(n - 1) /\ ~Up(n)
    <3> HIDE DEF Up
    <3> QED BY <2>2, <2>3
  <2> HIDE DEF Up, bad
  <2> QED BY <1>2, <2>4
<1>4. Up(w)
  <2>1. w \in 0..w
    OBVIOUS
  <2> HIDE DEF Up
  <2> QED BY <1>3, <2>1
<1> QED BY <1>4 DEF HasRecursion

-----------------------------------------------------------------------------
(* What a server takes from a URL, place by place.                         *)
Token == TokenKinds \X Nat

Heard(s, j) ==
  /\ j > 1
  /\ \/ s[j - 1] = Amp /\ \E i \in 1..(j - 2) : s[i][1] = "query"
     \/ s[j - 1] = Query /\ \A i \in 1..(j - 2) : s[i][1] # "query"

Taken(s, kind) == {s[j][2] : j \in {x \in 1..Len(s) : s[x][1] = kind /\ Heard(s, x)}}

LEMMA HasBefore ==
  ASSUME NEW T, NEW s \in Seq(T), NEW n \in 0..Len(s), NEW kind
  PROVE  Has(SubSeq(s, 1, n), kind) <=> \E i \in 1..n : s[i][1] = kind
<1>1. /\ Len(SubSeq(s, 1, n)) = n /\ SubSeq(s, 1, n) \in Seq(T)
      /\ \A i \in 1..n : SubSeq(s, 1, n)[i] = s[i]
  BY SMT
<1>2. DOMAIN SubSeq(s, 1, n) = 1..n
  BY <1>1
<1> HIDE DEF Has
<1> QED BY <1>1, <1>2 DEF Has

LEMMA ReceivedPlaces ==
  ASSUME NEW T, NEW s \in Seq(T), NEW kind
  PROVE  Received(s, kind) = Taken(s, kind)
<1>1. DOMAIN s = 1..Len(s) /\ Len(s) \in Nat
  OBVIOUS
<1>2. ASSUME NEW j \in 1..Len(s), j > 1
      PROVE  \A k : Has(SubSeq(s, 1, j - 2), k) <=> \E i \in 1..(j - 2) : s[i][1] = k
  <2>1. j - 2 \in 0..Len(s)
    BY <1>1, <1>2
  <2> QED BY <2>1, HasBefore
<1>3. \A j \in 1..Len(s) :
        (/\ j > 1
         /\ \/ s[j - 1] = Amp /\ Has(SubSeq(s, 1, j - 2), "query")
            \/ s[j - 1] = Query /\ ~Has(SubSeq(s, 1, j - 2), "query")) <=> Heard(s, j)
  BY <1>2 DEF Heard
<1>4. {j \in DOMAIN s :
         /\ s[j][1] = kind
         /\ j > 1
         /\ \/ s[j - 1] = Amp /\ Has(SubSeq(s, 1, j - 2), "query")
            \/ s[j - 1] = Query /\ ~Has(SubSeq(s, 1, j - 2), "query")}
        = {x \in 1..Len(s) : s[x][1] = kind /\ Heard(s, x)}
  BY <1>1, <1>3
<1> QED BY <1>4 DEF Received, Taken

(* A scheme in front and a slash behind change nothing of it.              *)
LEMMA SchemeInFront ==
  ASSUME NEW e, WellFormed(e), NEW s, s = <<Scheme>> \o e
  PROVE  /\ WellFormed(s) /\ Len(s) = Len(e) + 1 /\ s[1] = Scheme
         /\ \A kind \in Kinds \cup {"query", "slash"} : Has(s, kind) <=> Has(e, kind)
         /\ \A kind \in Kinds : Received(s, kind) = Received(e, kind)
<1>1. /\ e \in Seq(Token) /\ Len(e) \in Nat /\ DOMAIN e = 1..Len(e)
      /\ Scheme \in Token /\ <<Scheme>> \in Seq(Token) /\ Len(<<Scheme>>) = 1
  <2>1. e \in Seq(Token)
    BY DEF WellFormed, Token
  <2>2. Scheme \in Token
    BY DEF Token, Scheme, TokenKinds
  <2> HIDE DEF Token, Scheme
  <2> QED BY <2>1, <2>2
<1> HIDE DEF Token, Scheme
<1>2. /\ s \in Seq(Token) /\ Len(s) = Len(e) + 1 /\ s[1] = Scheme
      /\ \A i \in 1..Len(e) : s[i + 1] = e[i]
  BY <1>1, ConcatProperties
<1>3. DOMAIN s = 1..Len(s) /\ Len(s) \in Nat
  BY <1>2
<1>4. \A j \in 1..Len(s) : j = 1 \/ (j - 1 \in 1..Len(e) /\ s[j] = e[j - 1])
  <2> TAKE j \in 1..Len(s)
  <2>1. CASE j # 1
    <3>1. j - 1 \in 1..Len(e) /\ j - 1 + 1 = j
      BY <1>1, <1>2, <2>1
    <3> QED BY <1>2, <3>1
  <2> QED BY <2>1
<1>5. Scheme[1] = "scheme" /\ Scheme[2] = 0 /\ Scheme # Amp /\ Scheme # Query
  BY DEF Scheme, Amp, Query
<1>6. \A kind \in Kinds \cup {"query", "slash"} : Has(s, kind) <=> Has(e, kind)
  <2> TAKE kind \in Kinds \cup {"query", "slash"}
  <2>1. kind # "scheme"
    BY DEF Kinds
  <2>2. \A i \in 1..Len(e) : i + 1 \in 1..Len(s)
    BY <1>1, <1>2
  <2>3. ASSUME NEW j \in 1..Len(s), s[j][1] = kind
        PROVE  \E i \in 1..Len(e) : e[i][1] = kind
    <3>1. j # 1
      BY <1>2, <1>5, <2>1, <2>3
    <3> QED BY <1>4, <2>3, <3>1
  <2>4. ASSUME NEW i \in 1..Len(e), e[i][1] = kind
        PROVE  \E j \in 1..Len(s) : s[j][1] = kind
    BY <1>2, <2>2, <2>4
  <2> QED BY <1>1, <1>3, <2>3, <2>4 DEF Has
<1>7. \A j \in 1..Len(e) : Heard(s, j + 1) <=> Heard(e, j)
  <2> TAKE j \in 1..Len(e)
  <2>1. CASE j = 1
    <3>1. s[j + 1 - 1] = Scheme
      BY <1>2, <2>1
    <3> QED BY <1>5, <2>1, <3>1 DEF Heard
  <2>2. CASE j # 1
    <3>1. j - 1 \in 1..Len(e) /\ j + 1 - 1 = j - 1 + 1 /\ j > 1 /\ j + 1 > 1
      BY <1>1, <2>2
    <3>2. s[j + 1 - 1] = e[j - 1]
      BY <1>2, <3>1
    <3>3. (\E i \in 1..(j + 1 - 2) : s[i][1] = "query")
            <=> \E i \in 1..(j - 2) : e[i][1] = "query"
      <4>1. ASSUME NEW i \in 1..(j - 2), e[i][1] = "query"
            PROVE  \E k \in 1..(j + 1 - 2) : s[k][1] = "query"
        <5>1. i \in 1..Len(e) /\ i + 1 \in 1..(j + 1 - 2)
          BY <1>1
        <5> QED BY <1>2, <4>1, <5>1
      <4>2. ASSUME NEW k \in 1..(j + 1 - 2), s[k][1] = "query"
            PROVE  \E i \in 1..(j - 2) : e[i][1] = "query"
        <5>1. k \in 1..Len(s) /\ k # 1
          BY <1>1, <1>2, <1>5, <4>2
        <5>2. k - 1 \in 1..(j - 2) /\ s[k] = e[k - 1]
          BY <1>4, <5>1
        <5> QED BY <4>2, <5>2
      <4> QED BY <4>1, <4>2
    <3> QED BY <3>1, <3>2, <3>3 DEF Heard
  <2> QED BY <2>1, <2>2
<1>8. \A kind \in Kinds : Taken(s, kind) = Taken(e, kind)
  <2> TAKE kind \in Kinds
  <2>1. ASSUME NEW j \in 1..Len(e), e[j][1] = kind, Heard(e, j)
        PROVE  e[j][2] \in Taken(s, kind)
    <3>1. j + 1 \in 1..Len(s) /\ s[j + 1] = e[j]
      BY <1>1, <1>2
    <3> QED BY <1>7, <2>1, <3>1 DEF Taken
  <2>2. ASSUME NEW j \in 1..Len(s), s[j][1] = kind, Heard(s, j)
        PROVE  s[j][2] \in Taken(e, kind)
    <3>1. j # 1
      BY <2>2 DEF Heard
    <3>2. j - 1 \in 1..Len(e) /\ s[j] = e[j - 1] /\ j - 1 + 1 = j
      BY <1>4, <3>1
    <3> QED BY <1>7, <2>2, <3>2 DEF Taken
  <2> QED BY <2>1, <2>2 DEF Taken
<1>9. \A kind \in Kinds : Received(s, kind) = Received(e, kind)
  BY <1>1, <1>2, <1>8, ReceivedPlaces
<1>10. WellFormed(s)
  <2>1. ASSUME NEW j \in 1..Len(s)
        PROVE  /\ s[j][1] \in {"scheme", "query", "amp"} => s[j][2] = 0
               /\ s[j][1] = "amp" => \E i \in 1..(j - 1) : s[i] = Query
               /\ s[j] = Query => \A i \in 1..(j - 1) : s[i] # Query
    <3>1. CASE j = 1
      BY <1>2, <1>5, <3>1
    <3>2. CASE j # 1
      <4>1. j - 1 \in 1..Len(e) /\ s[j] = e[j - 1]
        BY <1>4, <3>2
      <4>2. /\ s[j][1] \in {"scheme", "query", "amp"} => s[j][2] = 0
            /\ s[j][1] = "amp" => \E i \in 1..(j - 1 - 1) : e[i] = Query
            /\ s[j] = Query => \A i \in 1..(j - 1 - 1) : e[i] # Query
        BY <1>1, <4>1 DEF WellFormed
      <4>3. \A i \in 1..(j - 1 - 1) : i \in 1..Len(e) /\ i + 1 \in 1..(j - 1)
        BY <1>1, <4>1
      <4>4. \A i \in 1..(j - 1) : i = 1 \/ (i - 1 \in 1..(j - 1 - 1) /\ s[i] = e[i - 1])
        BY <1>1, <1>2, <1>4
      <4> QED BY <1>2, <1>5, <4>2, <4>3, <4>4
    <3> QED BY <3>1, <3>2
  <2> QED BY <1>2, <1>3, <2>1 DEF WellFormed, Token
<1> QED BY <1>2, <1>6, <1>9, <1>10

LEMMA SlashBehind ==
  ASSUME NEW e, WellFormed(e), NEW s, s = Append(e, Slash)
  PROVE  /\ WellFormed(s) /\ Len(s) = Len(e) + 1 /\ (e # <<>> => s[1] = e[1])
         /\ \A kind \in Kinds \cup {"query"} : Has(s, kind) <=> Has(e, kind)
         /\ \A kind \in Kinds : Received(s, kind) = Received(e, kind)
<1>1. e \in Seq(Token) /\ Len(e) \in Nat /\ DOMAIN e = 1..Len(e) /\ Slash \in Token
  <2>1. e \in Seq(Token)
    BY DEF WellFormed, Token
  <2>2. Slash \in Token
    BY DEF Token, Slash, TokenKinds
  <2> HIDE DEF Token, Slash
  <2> QED BY <2>1, <2>2
<1> HIDE DEF Token, Slash
<1>2. /\ s \in Seq(Token) /\ Len(s) = Len(e) + 1 /\ s[Len(e) + 1] = Slash
      /\ \A i \in 1..Len(e) : s[i] = e[i]
  BY <1>1, AppendProperties
<1>3. DOMAIN s = 1..Len(s) /\ Len(s) \in Nat /\ \A i \in 1..Len(e) : i \in 1..Len(s)
  BY <1>1, <1>2
<1>4. \A j \in 1..Len(s) : j = Len(e) + 1 \/ (j \in 1..Len(e) /\ s[j] = e[j])
  BY <1>1, <1>2
<1>5. Slash[1] = "slash" /\ Slash # Amp /\ Slash # Query
  BY DEF Slash, Amp, Query
<1>6. \A kind \in Kinds \cup {"query"} : Has(s, kind) <=> Has(e, kind)
  <2> TAKE kind \in Kinds \cup {"query"}
  <2>1. kind # "slash"
    BY DEF Kinds
  <2>2. ASSUME NEW j \in 1..Len(s), s[j][1] = kind
        PROVE  \E i \in 1..Len(e) : e[i][1] = kind
    <3>1. j # Len(e) + 1
      BY <1>2, <1>5, <2>1, <2>2
    <3> QED BY <1>4, <2>2, <3>1
  <2>3. ASSUME NEW i \in 1..Len(e), e[i][1] = kind
        PROVE  \E j \in 1..Len(s) : s[j][1] = kind
    BY <1>2, <1>3, <2>3
  <2> QED BY <1>1, <1>3, <2>2, <2>3 DEF Has
<1>7. \A j \in 1..Len(e) : Heard(s, j) <=> Heard(e, j)
  <2> TAKE j \in 1..Len(e)
  <2>1. j > 1 => j - 1 \in 1..Len(e)
    BY <1>1
  <2>2. \A i \in 1..(j - 2) : i \in 1..Len(e)
    BY <1>1
  <2> QED BY <1>2, <2>1, <2>2 DEF Heard
<1>8. \A kind \in Kinds : Taken(s, kind) = Taken(e, kind)
  <2> TAKE kind \in Kinds
  <2>1. \A j \in 1..Len(s) : s[j][1] = kind => j \in 1..Len(e)
    <3>1. kind # "slash"
      BY DEF Kinds
    <3> QED BY <1>2, <1>4, <1>5, <3>1
  <2>2. {x \in 1..Len(s) : s[x][1] = kind /\ Heard(s, x)}
          = {x \in 1..Len(e) : e[x][1] = kind /\ Heard(e, x)}
    BY <1>2, <1>3, <1>7, <2>1
  <2>3. \A x \in {y \in 1..Len(e) : e[y][1] = kind /\ Heard(e, y)} : s[x][2] = e[x][2]
    BY <1>2
  <2> QED BY <2>2, <2>3 DEF Taken
<1>9. \A kind \in Kinds : Received(s, kind) = Received(e, kind)
  BY <1>1, <1>2, <1>8, ReceivedPlaces
<1>10. WellFormed(s)
  <2>1. ASSUME NEW j \in 1..Len(s)
        PROVE  /\ s[j][1] \in {"scheme", "query", "amp"} => s[j][2] = 0
               /\ s[j][1] = "amp" => \E i \in 1..(j - 1) : s[i] = Query
               /\ s[j] = Query => \A i \in 1..(j - 1) : s[i] # Query
    <3>1. CASE j = Len(e) + 1
      BY <1>2, <1>5, <3>1
    <3>2. CASE j # Len(e) + 1
      <4>1. j \in 1..Len(e) /\ s[j] = e[j] /\ \A i \in 1..(j - 1) : i \in 1..Len(e) /\ s[i] = e[i]
        BY <1>1, <1>2, <1>4, <3>2
      <4> QED BY <1>1, <4>1 DEF WellFormed
    <3> QED BY <3>1, <3>2
  <2> QED BY <1>2, <1>3, <2>1 DEF WellFormed, Token
<1>11. e # <<>> => s[1] = e[1]
  <2>1. e # <<>> => 1 \in 1..Len(e)
    BY <1>1
  <2> QED BY <1>2, <2>1
<1> QED BY <1>2, <1>6, <1>9, <1>10, <1>11

(* The values of a list of parameters, by kind.                            *)
Values(params, kind) == {params[p][2] : p \in {x \in 1..Len(params) : params[x][1] = kind}}

LEMMA ValuesOfBoth ==
  ASSUME NEW T, NEW x \in Seq(T), NEW y \in Seq(T), NEW kind
  PROVE  Values(x \o y, kind) = Values(x, kind) \cup Values(y, kind)
<1>1. /\ Len(x) \in Nat /\ Len(y) \in Nat /\ Len(x \o y) = Len(x) + Len(y)
      /\ \A i \in 1..Len(x) : (x \o y)[i] = x[i]
      /\ \A i \in 1..Len(y) : (x \o y)[Len(x) + i] = y[i]
  <2>1. /\ Len(x) \in Nat /\ Len(y) \in Nat /\ Len(x \o y) = Len(x) + Len(y)
        /\ \A i \in 1..Len(x) : (x \o y)[i] = x[i]
    BY ConcatProperties
  <2>2. ASSUME NEW i \in 1..Len(y)
        PROVE  (x \o y)[Len(x) + i] = y[i]
    <3>1. Len(x) + i \in 1..(Len(x) + Len(y)) /\ ~(Len(x) + i <= Len(x))
          /\ Len(x) + i - Len(x) = i
      BY <2>1
    <3>2. (x \o y)[Len(x) + i] = y[Len(x) + i - Len(x)]
      BY <3>1, ConcatProperties
    <3> QED BY <3>1, <3>2
  <2> QED BY <2>1, <2>2
<1> DEFINE s == x \o y
<1>2. /\ Len(s) = Len(x) + Len(y)
      /\ \A i \in 1..Len(x) : s[i] = x[i] /\ i \in 1..Len(s)
      /\ \A i \in 1..Len(y) : s[Len(x) + i] = y[i] /\ Len(x) + i \in 1..Len(s)
  BY <1>1
<1> HIDE DEF s
<1>3. \A i \in 1..Len(s) : i \in 1..Len(x) \/ \E k \in 1..Len(y) : i = Len(x) + k
  <2> TAKE i \in 1..Len(s)
  <2>1. CASE i <= Len(x)
    BY <1>1, <2>1
  <2>2. CASE ~(i <= Len(x))
    <3>1. i - Len(x) \in 1..Len(y) /\ i = Len(x) + (i - Len(x))
      BY <1>1, <1>2, <2>2
    <3> QED BY <3>1
  <2> QED BY <2>1, <2>2
<1>4. Values(s, kind) \subseteq Values(x, kind) \cup Values(y, kind)
  <2> SUFFICES ASSUME NEW i \in 1..Len(s), s[i][1] = kind
               PROVE  s[i][2] \in Values(x, kind) \cup Values(y, kind)
    BY DEF Values
  <2>1. CASE i \in 1..Len(x)
    BY <1>2, <2>1 DEF Values
  <2>2. CASE \E k \in 1..Len(y) : i = Len(x) + k
    BY <1>2, <2>2 DEF Values
  <2> QED BY <1>3, <2>1, <2>2
<1>5. Values(x, kind) \subseteq Values(s, kind)
  <2> SUFFICES ASSUME NEW i \in 1..Len(x), x[i][1] = kind PROVE x[i][2] \in Values(s, kind)
    BY DEF Values
  <2> QED BY <1>2 DEF Values
<1>6. Values(y, kind) \subseteq Values(s, kind)
  <2> SUFFICES ASSUME NEW i \in 1..Len(y), y[i][1] = kind PROVE y[i][2] \in Values(s, kind)
    BY DEF Values
  <2> QED BY <1>2 DEF Values
<1> QED BY <1>4, <1>5, <1>6 DEF s

LEMMA ValuesOfOneMore ==
  ASSUME NEW T, NEW x \in Seq(T), NEW p \in T, NEW kind
  PROVE  Values(Append(x, p), kind) = Values(x, kind) \cup (IF p[1] = kind THEN {p[2]} ELSE {})
<1> DEFINE s == Append(x, p)
<1>1. /\ Len(x) \in Nat /\ Len(s) = Len(x) + 1 /\ s[Len(x) + 1] = p
      /\ \A i \in 1..Len(x) : s[i] = x[i]
  BY AppendProperties
<1> HIDE DEF s
<1>2. /\ Len(x) + 1 \in 1..Len(s)
      /\ \A i \in 1..Len(x) : i \in 1..Len(s)
      /\ \A i \in 1..Len(s) : i = Len(x) + 1 \/ i \in 1..Len(x)
  BY <1>1
<1>3. Values(s, kind) = Values(x, kind) \cup (IF p[1] = kind THEN {p[2]} ELSE {})
  <2>1. ASSUME NEW i \in 1..Len(s), s[i][1] = kind
        PROVE  s[i][2] \in Values(x, kind) \cup (IF p[1] = kind THEN {p[2]} ELSE {})
    BY <1>1, <1>2, <2>1 DEF Values
  <2>2. ASSUME NEW i \in 1..Len(x), x[i][1] = kind
        PROVE  x[i][2] \in Values(s, kind)
    BY <1>1, <1>2, <2>2 DEF Values
  <2>3. ASSUME p[1] = kind
        PROVE  p[2] \in Values(s, kind)
    BY <1>1, <1>2, <2>3 DEF Values
  <2>4. Values(s, kind) \subseteq Values(x, kind) \cup (IF p[1] = kind THEN {p[2]} ELSE {})
    <3> SUFFICES ASSUME NEW v \in Values(s, kind)
                 PROVE  v \in Values(x, kind) \cup (IF p[1] = kind THEN {p[2]} ELSE {})
      OBVIOUS
    <3>1. PICK i \in 1..Len(s) : s[i][1] = kind /\ v = s[i][2]
      BY DEF Values
    <3> QED BY <2>1, <3>1
  <2>5. \A v \in Values(x, kind) : v \in Values(s, kind)
    <3> TAKE v \in Values(x, kind)
    <3>1. PICK i \in 1..Len(x) : x[i][1] = kind /\ v = x[i][2]
      BY DEF Values
    <3> QED BY <2>2, <3>1
  <2> HIDE DEF Values
  <2> QED BY <2>3, <2>4, <2>5
<1> QED BY <1>3 DEF s

(* What is added carries the values given for its kind, blank ones not.    *)
Param == Kinds \X Nat

NamedBy(f, kind, values) ==
  \A k \in 0..Len(values) :
    f[k] = IF k = 0 THEN <<>>
           ELSE IF values[k] = 0 THEN f[k - 1] ELSE Append(f[k - 1], <<kind, values[k]>>)

LEMMA NamedExists ==
  ASSUME NEW kind \in Kinds, NEW values \in Seq(Nat)
  PROVE  \E f \in [0..Len(values) -> Seq(Param)] : NamedBy(f, kind, values)
<1> DEFINE G == [a \in Seq(Param) \X (1..Len(values)) |->
                   IF values[a[2]] = 0 THEN a[1] ELSE Append(a[1], <<kind, values[a[2]]>>)]
<1>1. Len(values) \in Nat /\ <<>> \in Seq(Param)
  OBVIOUS
<1>2. \A i \in 1..Len(values) : <<kind, values[i]>> \in Param
  BY DEF Param
<1>3. \A x \in Seq(Param), n \in 1..Len(values) :
        G[<<x, n>>] = IF values[n] = 0 THEN x ELSE Append(x, <<kind, values[n]>>)
  OBVIOUS
<1> HIDE DEF G
<1>4. \A x \in Seq(Param), n \in 1..Len(values) : G[<<x, n>>] \in Seq(Param)
  BY <1>2, <1>3, AppendProperties
<1>5. HasRecursion(Seq(Param), <<>>, G, Len(values))
  BY <1>1, <1>4, Recursion DEF StaysIn
<1>6. PICK f \in [0..Len(values) -> Seq(Param)] :
        \A k \in 0..Len(values) : f[k] = IF k = 0 THEN <<>> ELSE G[<<f[k - 1], k>>]
  BY <1>5 DEF HasRecursion
<1>7. ASSUME NEW k \in 1..Len(values)
      PROVE  f[k] = IF values[k] = 0 THEN f[k - 1] ELSE Append(f[k - 1], <<kind, values[k]>>)
  <2>1. k - 1 \in 0..Len(values) /\ k \in 0..Len(values) /\ k # 0
    BY <1>1
  <2>2. f[k - 1] \in Seq(Param)
    BY <2>1
  <2>3. f[k] = G[<<f[k - 1], k>>]
    BY <1>6, <2>1
  <2> QED BY <1>3, <2>2, <2>3
<1>8. \A k \in 0..Len(values) : k = 0 \/ k \in 1..Len(values)
  BY <1>1
<1> QED BY <1>6, <1>7, <1>8 DEF NamedBy

LEMMA NamedCarries ==
  ASSUME NEW kind \in Kinds, NEW values \in Seq(Nat),
         NEW f \in [0..Len(values) -> Seq(Param)], NamedBy(f, kind, values),
         NEW k
  PROVE  Values(f[Len(values)], k) = IF k = kind THEN ToSet(values) \ {0} ELSE {}
<1> DEFINE Upto(j) == {values[i] : i \in 1..j} \ {0}
           Fits(j) == Values(f[j], k) = IF k = kind THEN Upto(j) ELSE {}
           bad == {j \in 0..Len(values) : ~Fits(j)}
<1>1. Len(values) \in Nat /\ DOMAIN values = 1..Len(values)
  OBVIOUS
<1>2. Fits(0)
  <2>1. f[0] = <<>>
    BY <1>1 DEF NamedBy
  <2>2. Values(<<>>, k) = {}
    BY DEF Values
  <2>3. Upto(0) = {}
    OBVIOUS
  <2> HIDE DEF Values
  <2> QED BY <2>1, <2>2, <2>3
<1>3. ASSUME NEW n \in 1..Len(values), Fits(n - 1)
      PROVE  Fits(n)
  <2>1. n - 1 \in 0..Len(values) /\ n \in 0..Len(values) /\ n # 0
    BY <1>1
  <2>2. f[n - 1] \in Seq(Param)
    BY <2>1
  <2>3. f[n] = IF values[n] = 0 THEN f[n - 1] ELSE Append(f[n - 1], <<kind, values[n]>>)
    BY <2>1 DEF NamedBy
  <2>4. Upto(n) = Upto(n - 1) \cup ({values[n]} \ {0})
    <3>1. \A i \in 1..n : i = n \/ i \in 1..(n - 1)
      OBVIOUS
    <3>2. n \in 1..n /\ \A i \in 1..(n - 1) : i \in 1..n
      OBVIOUS
    <3> QED BY <3>1, <3>2
  <2> HIDE DEF Upto
  <2>5. CASE values[n] = 0
    BY <1>3, <2>3, <2>4, <2>5
  <2>6. CASE values[n] # 0
    <3>1. <<kind, values[n]>> \in Param /\ <<kind, values[n]>>[1] = kind
          /\ <<kind, values[n]>>[2] = values[n]
      BY <2>1 DEF Param
    <3>2. Values(f[n], k)
            = Values(f[n - 1], k) \cup (IF kind = k THEN {values[n]} ELSE {})
      BY <2>2, <2>3, <2>6, <3>1, ValuesOfOneMore
    <3> QED BY <1>3, <2>4, <2>6, <3>2
  <2> QED BY <2>5, <2>6
<1>4. bad = {}
  <2> SUFFICES ASSUME bad # {} PROVE FALSE
    OBVIOUS
  <2> HIDE DEF Fits
  <2>1. bad \in SUBSET (0..Len(values)) /\ 0 \notin bad
    BY <1>2
  <2>2. PICK n \in 1..Len(values) : n \in bad /\ \A m \in 0..(n - 1) : m \notin bad
    <3> HIDE DEF bad
    <3> QED BY <1>1, <2>1, FirstBad
  <2>3. n - 1 \in 0..(n - 1) /\ n - 1 \in 0..Len(values)
    BY <1>1
  <2> QED BY <1>3, <2>2, <2>3
<1>5. Fits(Len(values))
  <2> HIDE DEF Fits
  <2> QED BY <1>1, <1>4
<1>6. ToSet(values) = {values[i] : i \in 1..Len(values)}
  BY <1>1 DEF ToSet
<1> QED BY <1>5, <1>6

LEMMA AddedCarries ==
  ASSUME NEW tokens, NEW kind \in Kinds, NEW values \in Seq(Nat)
  PROVE  /\ Added(tokens, kind, values) \in Seq(Param)
         /\ \A k : Values(Added(tokens, kind, values), k)
                     = IF k = kind /\ ~Has(tokens, kind) THEN ToSet(values) \ {0} ELSE {}
<1> DEFINE named[k \in 0..Len(values)] ==
        IF k = 0 THEN <<>>
        ELSE IF values[k] = 0 THEN named[k - 1] ELSE Append(named[k - 1], <<kind, values[k]>>)
<1>1. PICK f \in [0..Len(values) -> Seq(Param)] : NamedBy(f, kind, values)
  BY NamedExists
<1>2. f = [k \in 0..Len(values) |->
             IF k = 0 THEN <<>>
             ELSE IF values[k] = 0 THEN f[k - 1] ELSE Append(f[k - 1], <<kind, values[k]>>)]
  BY <1>1 DEF NamedBy
<1>3. named = [k \in 0..Len(values) |->
                 IF k = 0 THEN <<>>
                 ELSE IF values[k] = 0 THEN named[k - 1]
                      ELSE Append(named[k - 1], <<kind, values[k]>>)]
  BY <1>2
<1>4. Added(tokens, kind, values) = IF Has(tokens, kind) THEN <<>> ELSE named[Len(values)]
  BY DEF Added
<1> HIDE DEF named
<1>5. named \in [0..Len(values) -> Seq(Param)]
  <2>1. named = f
    <3> DEFINE bad == {j \in 0..Len(values) : named[j] # f[j]}
    <3>1. Len(values) \in Nat /\ DOMAIN named = 0..Len(values) /\ DOMAIN f = 0..Len(values)
      BY <1>3
    <3>2. NamedBy(named, kind, values)
      BY <1>3 DEF NamedBy
    <3>3. bad = {}
      <4> SUFFICES ASSUME bad # {} PROVE FALSE
        OBVIOUS
      <4>1. bad \in SUBSET (0..Len(values)) /\ 0 \notin bad
        BY <1>1, <3>1, <3>2 DEF NamedBy
      <4>2. PICK n \in 1..Len(values) : n \in bad /\ \A m \in 0..(n - 1) : m \notin bad
        <5> HIDE DEF bad
        <5> QED BY <3>1, <4>1, FirstBad
      <4>3. n - 1 \in 0..(n - 1) /\ n - 1 \in 0..Len(values) /\ n \in 0..Len(values) /\ n # 0
        BY <3>1
      <4>4. named[n - 1] = f[n - 1] /\ named[n] # f[n]
        BY <4>2, <4>3
      <4> QED BY <1>1, <3>2, <4>3, <4>4 DEF NamedBy
    <3>4. named = [j \in 0..Len(values) |-> named[j]] /\ f = [j \in 0..Len(values) |-> f[j]]
      BY <1>3
    <3> QED BY <3>3, <3>4
  <2> QED BY <2>1
<1>6. NamedBy(named, kind, values)
  BY <1>3 DEF NamedBy
<1>7. Len(values) \in 0..Len(values) /\ <<>> \in Seq(Param)
  OBVIOUS
<1>8. \A k : Values(named[Len(values)], k) = IF k = kind THEN ToSet(values) \ {0} ELSE {}
  BY <1>5, <1>6, NamedCarries
<1>9. \A k : Values(<<>>, k) = {}
  BY DEF Values
<1>10. Added(tokens, kind, values) \in Seq(Param)
  BY <1>4, <1>5, <1>7
<1> HIDE DEF Values
<1> QED BY <1>4, <1>8, <1>9, <1>10

LEMMA HalfOfEven ==
  ASSUME NEW p \in Nat
  PROVE  /\ (2 * p + 1) % 2 = 1 /\ (2 * p + 1 + 1) \div 2 = p + 1
         /\ (2 * p) % 2 = 0
OBVIOUS

(* The parameters stand in their order, an ampersand between two.          *)
LEMMA JoinedPlaces ==
  ASSUME NEW params \in Seq(Param), params # <<>>, NEW joined, joined = Joined(params)
  PROVE  /\ Len(params) \in Nat \ {0}
         /\ joined \in Seq(Token) /\ Len(joined) = 2 * Len(params) - 1
         /\ \A p \in 1..Len(params) : joined[2 * p - 1] = params[p]
         /\ \A p \in 1..(Len(params) - 1) : joined[2 * p] = Amp
         /\ \A k \in 1..Len(joined) : \/ \E p \in 1..Len(params) : k = 2 * p - 1
                                      \/ \E p \in 1..(Len(params) - 1) : k = 2 * p
<1>1. PICK m \in Nat \ {0} : m = Len(params)
  BY EmptySeq
<1>2. joined = [k \in 1..(2 * m - 1) |-> IF k % 2 = 1 THEN params[(k + 1) \div 2] ELSE Amp]
  BY <1>1 DEF Joined
<1>3. ASSUME NEW p \in 1..m
      PROVE  joined[2 * p - 1] = params[p]
  <2>1. PICK q \in Nat : p = q + 1 /\ 2 * p - 1 = 2 * q + 1 /\ 2 * q + 1 \in 1..(2 * m - 1)
    <3>1. p - 1 \in Nat /\ p = p - 1 + 1 /\ 2 * p - 1 = 2 * (p - 1) + 1
          /\ 2 * (p - 1) + 1 \in 1..(2 * m - 1)
      OBVIOUS
    <3> QED BY <3>1
  <2>2. (2 * q + 1) % 2 = 1 /\ (2 * q + 1 + 1) \div 2 = q + 1
    BY HalfOfEven
  <2>3. joined[2 * q + 1] = params[q + 1]
    BY <1>2, <2>1, <2>2
  <2> QED BY <2>1, <2>3
<1>4. ASSUME NEW p \in 1..(m - 1)
      PROVE  joined[2 * p] = Amp
  <2>1. p \in Nat /\ 2 * p \in 1..(2 * m - 1)
    OBVIOUS
  <2>2. (2 * p) % 2 = 0
    BY <2>1, HalfOfEven
  <2> QED BY <1>2, <2>1, <2>2
<1>5. ASSUME NEW k \in 1..(2 * m - 1)
      PROVE  (\E p \in 1..m : k = 2 * p - 1) \/ (\E p \in 1..(m - 1) : k = 2 * p)
  <2>1. PICK a \in Int : k = 2 * a \/ k = 2 * a - 1
    <3>1. PICK b \in Int : b = k \div 2 /\ 2 * b <= k /\ k < 2 * b + 2
      OBVIOUS
    <3>2. (k = 2 * b \/ k = 2 * (b + 1) - 1) /\ b + 1 \in Int
      BY <3>1
    <3> QED BY <3>2
  <2>2. CASE k = 2 * a
    <3>1. a \in 1..(m - 1)
      BY <2>2
    <3> QED BY <2>2, <3>1
  <2>3. CASE k = 2 * a - 1
    <3>1. a \in 1..m
      BY <2>3
    <3> QED BY <2>3, <3>1
  <2> QED BY <2>1, <2>2, <2>3
<1>6. \A k \in 1..(2 * m - 1) : joined[k] \in Token
  <2> TAKE k \in 1..(2 * m - 1)
  <2>1. Param \subseteq Token /\ Amp \in Token
    BY DEF Param, Token, TokenKinds, Amp
  <2>2. ASSUME NEW p \in 1..m
        PROVE  params[p] \in Param
    BY <1>1
  <2> QED BY <1>3, <1>4, <1>5, <2>1, <2>2
<1>7. joined \in Seq(Token) /\ Len(joined) = 2 * m - 1
  <2>1. 2 * m - 1 \in Nat /\ DOMAIN joined = 1..(2 * m - 1)
    BY <1>2
  <2>2. joined = [k \in 1..(2 * m - 1) |-> joined[k]]
    BY <1>2
  <2>3. joined \in [1..(2 * m - 1) -> Token]
    BY <1>6, <2>2
  <2> QED BY <2>1, <2>3
<1> QED BY <1>1, <1>3, <1>4, <1>5, <1>7

LEMMA QueryToken ==
  ASSUME NEW tokens, WellFormed(tokens), NEW j \in 1..Len(tokens)
  PROVE  tokens[j][1] = "query" <=> tokens[j] = Query
<1>1. tokens \in Seq(TokenKinds \X Nat) /\ j \in DOMAIN tokens
  BY DEF WellFormed
<1>2. tokens[j] \in TokenKinds \X Nat
  BY <1>1
<1>3. tokens[j] = <<tokens[j][1], tokens[j][2]>>
  BY <1>2
<1>4. tokens[j][1] = "query" => tokens[j][2] = 0
  BY <1>1 DEF WellFormed
<1> QED BY <1>3, <1>4 DEF Query

(* What a URL is once parameters are behind it: o is the place before the  *)
(* first of them, a mark whether the URL ended in one or not.              *)
Extended(s, base, params, o) ==
  /\ s \in Seq(Token) /\ o \in Nat /\ Len(base) <= o /\ Len(s) = o + (2 * Len(params) - 1)
  /\ \A i \in 1..Len(base) : s[i] = base[i]
  /\ \/ s[o] = Query /\ \A i \in 1..(o - 1) : s[i][1] # "query"
     \/ s[o] = Amp /\ \E i \in 1..(o - 1) : s[i][1] = "query"
  /\ \A i \in 1..o : i \in 1..Len(base) \/ i = o
  /\ \A k \in 1..(2 * Len(params) - 1) : s[o + k] = Joined(params)[k]

LEMMA AttachedExtends ==
  ASSUME NEW base, WellFormed(base), base # <<>>, NEW params \in Seq(Param), params # <<>>
  PROVE  \E o : Extended(Attached(base, params), base, params, o)
<1> DEFINE joined == Joined(params)
           mark == IF Has(base, "query") THEN Amp ELSE Query
           open == base[Len(base)] \in {Query, Amp}
           front == base \o (IF open THEN <<>> ELSE <<mark>>)
           s == front \o joined
<1>1. base \in Seq(Token) /\ Len(base) \in Nat \ {0} /\ DOMAIN base = 1..Len(base)
  <2>1. base \in Seq(Token)
    BY DEF WellFormed, Token
  <2> QED BY <2>1, EmptySeq
<1>2. joined \in Seq(Token) /\ Len(joined) = 2 * Len(params) - 1 /\ Len(params) \in Nat \ {0}
  BY JoinedPlaces
<1>3. Attached(base, params) = s
  <2>1. Attached(base, params) = (base \o (IF open THEN <<>> ELSE <<mark>>)) \o joined
    BY DEF Attached
  <2> QED BY <2>1
<1>4. mark \in Token /\ Amp \in Token /\ Query \in Token
  BY DEF Token, TokenKinds, Amp, Query
<1>5. /\ \A j \in 1..Len(base) : base[j][1] = "query" <=> base[j] = Query
      /\ Has(base, "query") <=> \E j \in 1..Len(base) : base[j][1] = "query"
  BY <1>1, QueryToken DEF Has
<1> DEFINE o == Len(front)
<1>6. /\ front \in Seq(Token) /\ o \in Nat /\ Len(base) <= o
      /\ \A i \in 1..Len(base) : front[i] = base[i]
      /\ \A i \in 1..o : i \in 1..Len(base) \/ i = o
      /\ \/ front[o] = Query /\ \A i \in 1..(o - 1) : front[i][1] # "query"
         \/ front[o] = Amp /\ \E i \in 1..(o - 1) : front[i][1] = "query"
  <2>1. CASE open
    <3>1. base \o <<>> = base
      BY <1>1
    <3>2. front = base /\ o = Len(base)
      BY <2>1, <3>1
    <3> HIDE DEF front, o
    <3>5. /\ front \in Seq(Token) /\ o \in Nat /\ Len(base) <= o
          /\ \A i \in 1..Len(base) : front[i] = base[i]
          /\ \A i \in 1..o : i \in 1..Len(base) \/ i = o
      <4>1. o \in Nat /\ o = Len(base) /\ front = base /\ base \in Seq(Token)
        BY <1>1, <3>2
      <4>2. Len(base) <= o /\ \A i \in 1..o : i \in 1..Len(base)
        BY <4>1
      <4>3. \A i \in 1..Len(base) : front[i] = base[i]
        BY <4>1
      <4> QED BY <4>1, <4>2, <4>3
    <3>3. CASE base[Len(base)] = Query
      <4>1. Len(base) \in DOMAIN base /\ \A j \in 1..(Len(base) - 1) : j \in 1..Len(base)
        BY <1>1
      <4>2. \A j \in 1..(Len(base) - 1) : base[j] # Query
        BY <3>3, <4>1 DEF WellFormed
      <4>3. \A j \in 1..(Len(base) - 1) : base[j][1] # "query"
        BY <1>5, <4>1, <4>2
      <4>4. front[o] = Query /\ \A i \in 1..(o - 1) : front[i][1] # "query"
        BY <3>2, <3>3, <4>3
      <4> QED BY <3>5, <4>4
    <3>4. CASE base[Len(base)] = Amp
      <4>1. PICK j \in 1..(Len(base) - 1) : base[j] = Query
        <5>1. Len(base) \in DOMAIN base /\ base[Len(base)][1] = "amp"
          BY <1>1, <3>4 DEF Amp
        <5> QED BY <5>1 DEF WellFormed
      <4>2. base[j][1] = "query"
        BY <4>1 DEF Query
      <4>3. front[o] = Amp /\ j \in 1..(o - 1) /\ front[j][1] = "query"
        BY <3>2, <3>4, <4>1, <4>2
      <4> QED BY <3>5, <4>3
    <3> QED BY <2>1, <3>3, <3>4
  <2>2. CASE ~open
    <3>1. front = base \o <<mark>> /\ <<mark>> \in Seq(Token) /\ Len(<<mark>>) = 1
      BY <1>4, <2>2
    <3> HIDE DEF mark, front
    <3>2. front \in Seq(Token) /\ Len(front) = Len(base) + 1
          /\ \A i \in 1..Len(base) : front[i] = base[i]
      BY <1>1, <3>1, ConcatProperties
    <3>3. front[Len(base) + 1] = mark
      <4>1. front = Append(base, mark)
        BY <1>1, <1>4, <3>1
      <4> QED BY <1>1, <1>4, <4>1, AppendProperties
    <3>4. o = Len(base) + 1 /\ o - 1 = Len(base) /\ o \in Nat
      BY <1>1, <3>2
    <3>5. front[o] = mark
      BY <3>3, <3>4
    <3>6. \A i \in 1..o : i \in 1..Len(base) \/ i = o
      BY <1>1, <3>4
    <3> HIDE DEF o
    <3>7. CASE Has(base, "query")
      <4>1. mark = Amp
        BY <3>7 DEF mark
      <4>2. PICK j \in 1..Len(base) : base[j][1] = "query"
        BY <1>5, <3>7
      <4>3. j \in 1..(o - 1) /\ front[j][1] = "query"
        BY <3>2, <3>4, <4>2
      <4>4. Len(base) <= o
        BY <1>1, <3>4
      <4> QED BY <3>2, <3>4, <3>5, <3>6, <4>1, <4>3, <4>4
    <3>8. CASE ~Has(base, "query")
      <4>1. mark = Query
        BY <3>8 DEF mark
      <4>2. \A i \in 1..(o - 1) : front[i][1] # "query"
        BY <1>5, <3>2, <3>4, <3>8
      <4>3. Len(base) <= o
        BY <1>1, <3>4
      <4> QED BY <3>2, <3>4, <3>5, <3>6, <4>1, <4>2, <4>3
    <3> QED BY <3>7, <3>8
  <2> QED BY <2>1, <2>2
<1> HIDE DEF front, joined
<1>7. /\ s \in Seq(Token) /\ Len(s) = o + Len(joined)
      /\ \A i \in 1..o : s[i] = front[i]
      /\ \A k \in 1..Len(joined) : s[o + k] = joined[k]
  <2>0. front \in Seq(Token) /\ joined \in Seq(Token)
    BY <1>2, <1>6
  <2>1. /\ s \in Seq(Token) /\ Len(s) = o + Len(joined) /\ Len(joined) \in Nat
        /\ \A i \in 1..o : s[i] = front[i]
    BY <2>0, ConcatProperties
  <2>2. ASSUME NEW k \in 1..Len(joined)
        PROVE  s[o + k] = joined[k]
    <3>1. o + k \in 1..(o + Len(joined)) /\ ~(o + k <= o) /\ o + k - o = k
      BY <1>6, <2>1
    <3>2. s[o + k] = joined[o + k - o]
      BY <2>0, <3>1, ConcatProperties
    <3> QED BY <3>1, <3>2
  <2> QED BY <2>1, <2>2
<1> HIDE DEF s, o
<1>8. \A i \in 1..Len(base) : i \in 1..o
  BY <1>1, <1>6
<1>9. o \in 1..o /\ \A i \in 1..(o - 1) : i \in 1..o
  BY <1>1, <1>6
<1>10. \/ s[o] = Query /\ \A i \in 1..(o - 1) : s[i][1] # "query"
       \/ s[o] = Amp /\ \E i \in 1..(o - 1) : s[i][1] = "query"
  BY <1>6, <1>7, <1>9
<1>11. Extended(s, base, params, o)
  BY <1>2, <1>6, <1>7, <1>8, <1>10 DEF Extended, joined
<1> QED BY <1>3, <1>11

LEMMA ExtendedCarries ==
  ASSUME NEW base, WellFormed(base), base # <<>>, NEW params \in Seq(Param), params # <<>>,
         NEW s, NEW o, Extended(s, base, params, o)
  PROVE  /\ s[1] = base[1]
         /\ \A kind \in Kinds : Received(s, kind) = Received(base, kind) \cup Values(params, kind)
<1>1. base \in Seq(Token) /\ Len(base) \in Nat \ {0} /\ DOMAIN base = 1..Len(base)
  <2>1. base \in Seq(Token)
    BY DEF WellFormed, Token
  <2> QED BY <2>1, EmptySeq
<1>2. /\ Len(params) \in Nat \ {0}
      /\ \A p \in 1..Len(params) : s[o + (2 * p - 1)] = params[p]
      /\ \A p \in 1..(Len(params) - 1) : s[o + 2 * p] = Amp
      /\ \A k \in 1..(2 * Len(params) - 1) : \/ \E p \in 1..Len(params) : k = 2 * p - 1
                                             \/ \E p \in 1..(Len(params) - 1) : k = 2 * p
  <2> DEFINE joined == Joined(params)
  <2>1. /\ Len(params) \in Nat \ {0} /\ Len(joined) = 2 * Len(params) - 1
        /\ \A p \in 1..Len(params) : joined[2 * p - 1] = params[p]
        /\ \A p \in 1..(Len(params) - 1) : joined[2 * p] = Amp
        /\ \A k \in 1..Len(joined) : \/ \E p \in 1..Len(params) : k = 2 * p - 1
                                     \/ \E p \in 1..(Len(params) - 1) : k = 2 * p
    BY JoinedPlaces
  <2>2. \A k \in 1..(2 * Len(params) - 1) : s[o + k] = joined[k]
    BY DEF Extended
  <2> HIDE DEF joined
  <2>3. \A p \in 1..Len(params) : 2 * p - 1 \in 1..(2 * Len(params) - 1)
    BY <2>1
  <2>4. \A p \in 1..(Len(params) - 1) : 2 * p \in 1..(2 * Len(params) - 1)
    BY <2>1
  <2> QED BY <2>1, <2>2, <2>3, <2>4
<1>3. /\ s \in Seq(Token) /\ o \in Nat \ {0} /\ Len(base) <= o
      /\ Len(s) = o + (2 * Len(params) - 1)
      /\ \A i \in 1..Len(base) : s[i] = base[i]
      /\ \A i \in 1..o : i \in 1..Len(base) \/ i = o
  BY <1>1 DEF Extended
<1>4. \/ s[o] = Query /\ \A i \in 1..(o - 1) : s[i][1] # "query"
      \/ s[o] = Amp /\ \E i \in 1..(o - 1) : s[i][1] = "query"
  BY DEF Extended
<1>5. Heard(s, o + 1)
  <2>1. PICK j \in Nat : j = o + 1 /\ j > 1 /\ j - 1 = o /\ j - 2 = o - 1
    BY <1>3
  <2>2. Heard(s, j)
    BY <1>4, <2>1 DEF Heard
  <2> QED BY <2>1, <2>2
<1>6. PICK q \in 1..o : s[q][1] = "query"
  <2>1. Query[1] = "query"
    BY DEF Query
  <2>2. o \in 1..o /\ \A i \in 1..(o - 1) : i \in 1..o
    BY <1>3
  <2> QED BY <1>4, <2>1, <2>2
<1>7. \A j \in 1..Len(base) : j \in 1..Len(s) /\ (Heard(s, j) <=> Heard(base, j))
  <2> TAKE j \in 1..Len(base)
  <2>1. j \in 1..Len(s)
    BY <1>1, <1>2, <1>3
  <2>2. j > 1 => j - 1 \in 1..Len(base)
    BY <1>1
  <2>3. \A i \in 1..(j - 2) : i \in 1..Len(base)
    BY <1>1
  <2> QED BY <1>3, <2>1, <2>2, <2>3 DEF Heard
<1>8. ASSUME NEW p \in 1..Len(params)
      PROVE  o + (2 * p - 1) \in 1..Len(s) /\ Heard(s, o + (2 * p - 1))
  <2>1. o + (2 * p - 1) \in 1..Len(s)
    BY <1>2, <1>3
  <2>2. CASE p = 1
    <3>1. o + (2 * p - 1) = o + 1
      BY <1>3, <2>2
    <3> QED BY <1>5, <2>1, <3>1
  <2>3. CASE p # 1
    <3>1. PICK d \in 1..(Len(params) - 1) : p = d + 1
      <4>1. p - 1 \in 1..(Len(params) - 1) /\ p = p - 1 + 1
        BY <1>2, <2>3
      <4> QED BY <4>1
    <3>2. s[o + 2 * d] = Amp
      BY <1>2
    <3>3. PICK j \in Nat : j = o + (2 * p - 1) /\ j - 1 = o + 2 * d /\ j > 1 /\ q \in 1..(j - 2)
      <4>1. /\ o + (2 * p - 1) \in Nat /\ o + (2 * p - 1) - 1 = o + 2 * d
            /\ o + (2 * p - 1) > 1
        BY <1>2, <1>3, <3>1
      <4>2. q \in 1..(o + (2 * p - 1) - 2)
        BY <1>2, <1>3, <3>1
      <4> DEFINE z == o + (2 * p - 1)
      <4>3. z \in Nat /\ z - 1 = o + 2 * d /\ z > 1 /\ q \in 1..(z - 2) /\ z = o + (2 * p - 1)
        BY <1>2, <1>3, <4>1, <4>2
      <4> HIDE DEF z
      <4> QED BY <4>3
    <3>4. Heard(s, j)
      BY <1>6, <3>2, <3>3 DEF Heard
    <3> QED BY <2>1, <3>3, <3>4
  <2> QED BY <2>2, <2>3
<1>9. ASSUME NEW j \in 1..Len(s)
      PROVE  \/ j \in 1..Len(base)
             \/ s[j] \in {Query, Amp}
             \/ \E p \in 1..Len(params) : j = o + (2 * p - 1)
  <2>1. CASE j <= o
    <3>1. j \in 1..o
      BY <1>3, <2>1
    <3> QED BY <1>3, <1>4, <3>1
  <2>2. CASE ~(j <= o)
    <3>1. PICK k \in 1..(2 * Len(params) - 1) : j = o + k
      <4>1. j - o \in 1..(2 * Len(params) - 1) /\ j = o + (j - o)
        BY <1>2, <1>3, <2>2
      <4> QED BY <4>1
    <3>2. CASE \E p \in 1..Len(params) : k = 2 * p - 1
      BY <3>1, <3>2
    <3>3. CASE \E p \in 1..(Len(params) - 1) : k = 2 * p
      BY <1>2, <3>1, <3>3
    <3> QED BY <1>2, <3>2, <3>3
  <2> QED BY <2>1, <2>2
<1>10. ASSUME NEW kind \in Kinds
       PROVE  Received(s, kind) = Received(base, kind) \cup Values(params, kind)
  <2>1. Received(s, kind) = Taken(s, kind) /\ Received(base, kind) = Taken(base, kind)
    BY <1>1, <1>3, ReceivedPlaces
  <2>2. Query[1] # kind /\ Amp[1] # kind
    BY DEF Kinds, Query, Amp
  <2>3. ASSUME NEW j \in 1..Len(s), s[j][1] = kind, Heard(s, j)
        PROVE  s[j][2] \in Taken(base, kind) \cup Values(params, kind)
    <3>1. CASE j \in 1..Len(base)
      BY <1>3, <1>7, <2>3, <3>1 DEF Taken
    <3>2. CASE \E p \in 1..Len(params) : j = o + (2 * p - 1)
      BY <1>2, <2>3, <3>2 DEF Values
    <3> QED BY <1>9, <2>2, <2>3, <3>1, <3>2
  <2>4. ASSUME NEW j \in 1..Len(base), base[j][1] = kind, Heard(base, j)
        PROVE  base[j][2] \in Taken(s, kind)
    BY <1>3, <1>7, <2>4 DEF Taken
  <2>5. ASSUME NEW p \in 1..Len(params), params[p][1] = kind
        PROVE  params[p][2] \in Taken(s, kind)
    BY <1>2, <1>8, <2>5 DEF Taken
  <2>6. \A v \in Taken(s, kind) : v \in Taken(base, kind) \cup Values(params, kind)
    <3> TAKE v \in Taken(s, kind)
    <3>1. PICK j \in 1..Len(s) : s[j][1] = kind /\ Heard(s, j) /\ v = s[j][2]
      BY DEF Taken
    <3> QED BY <2>3, <3>1
  <2>7. \A v \in Taken(base, kind) : v \in Taken(s, kind)
    <3> TAKE v \in Taken(base, kind)
    <3>1. PICK j \in 1..Len(base) : base[j][1] = kind /\ Heard(base, j) /\ v = base[j][2]
      BY DEF Taken
    <3> QED BY <2>4, <3>1
  <2>8. \A v \in Values(params, kind) : v \in Taken(s, kind)
    <3> TAKE v \in Values(params, kind)
    <3>1. PICK p \in 1..Len(params) : params[p][1] = kind /\ v = params[p][2]
      BY DEF Values
    <3> QED BY <2>5, <3>1
  <2> QED BY <2>1, <2>6, <2>7, <2>8
<1>11. 1 \in 1..Len(base)
  BY <1>1
<1> QED BY <1>3, <1>10, <1>11

LEMMA AttachedCarries ==
  ASSUME NEW base, WellFormed(base), base # <<>>, NEW params \in Seq(Param)
  PROVE  /\ Attached(base, params)[1] = base[1]
         /\ \A kind \in Kinds : Received(Attached(base, params), kind)
                                  = Received(base, kind) \cup Values(params, kind)
<1>1. CASE params = <<>>
  <2>1. Attached(base, params) = base /\ \A kind : Values(params, kind) = {}
    BY <1>1 DEF Attached, Values
  <2> QED BY <2>1
<1>2. CASE params # <<>>
  BY <1>2, AttachedExtends, ExtendedCarries
<1> QED BY <1>1, <1>2

(* With the scheme and the path an endpoint is asked for what it asks.     *)
LEMMA BaseCarries ==
  ASSUME NEW e, WellFormed(e), NEW base, base = WithPath(WithScheme(e)), e # <<>>
  PROVE  /\ WellFormed(base) /\ base # <<>> /\ base[1] = Scheme
         /\ \A kind \in Kinds : Has(base, kind) <=> Has(e, kind)
         /\ \A kind \in Kinds : Received(base, kind) = Received(e, kind)
<1> DEFINE s == WithScheme(e)
<1>1. /\ WellFormed(s) /\ s # <<>> /\ s[1] = Scheme
      /\ \A kind \in Kinds : Has(s, kind) <=> Has(e, kind)
      /\ \A kind \in Kinds : Received(s, kind) = Received(e, kind)
  <2>1. CASE e[1][1] = "scheme"
    <3>1. s = e
      BY <2>1 DEF WithScheme
    <3>2. e[1] = Scheme
      <4>1. e \in Seq(TokenKinds \X Nat) /\ 1 \in DOMAIN e
        BY EmptySeq DEF WellFormed
      <4>2. e[1] \in TokenKinds \X Nat /\ e[1][2] = 0
        BY <2>1, <4>1 DEF WellFormed
      <4>3. e[1] = <<e[1][1], e[1][2]>>
        BY <4>2
      <4> QED BY <2>1, <4>2, <4>3 DEF Scheme
    <3> QED BY <3>1, <3>2
  <2>2. CASE e[1][1] # "scheme"
    <3>1. s = <<Scheme>> \o e
      BY <2>2 DEF WithScheme
    <3>2. /\ WellFormed(s) /\ Len(s) = Len(e) + 1 /\ s[1] = Scheme
          /\ \A kind \in Kinds \cup {"query", "slash"} : Has(s, kind) <=> Has(e, kind)
          /\ \A kind \in Kinds : Received(s, kind) = Received(e, kind)
      BY <3>1, SchemeInFront
    <3>3. s # <<>>
      <4>1. Len(e) \in Nat
        BY DEF WellFormed
      <4> QED BY <3>2, <4>1
    <3> QED BY <3>2, <3>3
  <2> QED BY <2>1, <2>2
<1>2. base = IF Has(s, "slash") \/ Has(s, "query") THEN s ELSE Append(s, Slash)
  BY DEF WithPath
<1> HIDE DEF s
<1>3. CASE base = Append(s, Slash)
  <2>1. /\ WellFormed(base) /\ Len(base) = Len(s) + 1 /\ base[1] = s[1]
        /\ \A kind \in Kinds \cup {"query"} : Has(base, kind) <=> Has(s, kind)
        /\ \A kind \in Kinds : Received(base, kind) = Received(s, kind)
    <3>1. PICK t : t = s
      OBVIOUS
    <3>2. WellFormed(t) /\ t # <<>> /\ base = Append(t, Slash)
      BY <1>1, <1>3, <3>1
    <3>3. /\ WellFormed(base) /\ Len(base) = Len(t) + 1 /\ (t # <<>> => base[1] = t[1])
          /\ \A kind \in Kinds \cup {"query"} : Has(base, kind) <=> Has(t, kind)
          /\ \A kind \in Kinds : Received(base, kind) = Received(t, kind)
      BY <3>2, SlashBehind
    <3> QED BY <3>1, <3>2, <3>3
  <2>2. base # <<>>
    <3>1. Len(s) \in Nat
      BY <1>1 DEF WellFormed
    <3> QED BY <2>1, <3>1
  <2> QED BY <1>1, <2>1, <2>2
<1> QED BY <1>1, <1>2, <1>3

(* A parameter whose name an endpoint has nowhere is not taken from it.     *)
LEMMA OnlyWhatItHas ==
  ASSUME NEW e, WellFormed(e)
  PROVE  \A kind \in Kinds : ~Has(e, kind) => Received(e, kind) = {}
<1> SUFFICES ASSUME NEW kind \in Kinds, ~Has(e, kind)
             PROVE  Received(e, kind) = {}
  OBVIOUS
<1>1. e \in Seq(Token) /\ DOMAIN e = 1..Len(e)
  BY DEF WellFormed, Token
<1>2. Received(e, kind) = Taken(e, kind)
  BY <1>1, ReceivedPlaces
<1>3. \A j \in 1..Len(e) : e[j][1] # kind
  BY <1>1 DEF Has
<1> QED BY <1>2, <1>3 DEF Taken

LEMMA BuildCarries ==
  ASSUME NEW e, WellFormed(e), e # <<>>, NEW cs \in Seq(Nat), NEW ds \in Seq(Nat), NEW c \in Nat,
         NEW s, s = BuildSubscriptionUrlFull(e, cs, ds, c)
  PROVE  /\ s[1] = Scheme
         /\ Received(s, "wantedCollections")
              = IF Has(e, "wantedCollections") THEN Received(e, "wantedCollections")
                ELSE ToSet(cs) \ {0}
         /\ Received(s, "wantedDids")
              = IF Has(e, "wantedDids") THEN Received(e, "wantedDids") ELSE ToSet(ds) \ {0}
         /\ Received(s, "cursor")
              = IF Has(e, "cursor") THEN Received(e, "cursor") ELSE ToSet(<<c>>) \ {0}
<1> DEFINE base == WithPath(WithScheme(e))
           a == Added(base, "wantedCollections", cs)
           b == Added(base, "wantedDids", ds)
           d == Added(base, "cursor", <<c>>)
<1>1. s = Attached(base, a \o b \o d)
  BY DEF BuildSubscriptionUrlFull
<1>2. /\ WellFormed(base) /\ base # <<>> /\ base[1] = Scheme
      /\ \A kind \in Kinds : Has(base, kind) <=> Has(e, kind)
      /\ \A kind \in Kinds : Received(base, kind) = Received(e, kind)
  BY BaseCarries
<1>3. "wantedCollections" \in Kinds /\ "wantedDids" \in Kinds /\ "cursor" \in Kinds
  BY DEF Kinds
<1>4. <<c>> \in Seq(Nat)
  OBVIOUS
<1>5. /\ a \in Seq(Param)
      /\ \A k : Values(a, k) = IF k = "wantedCollections" /\ ~Has(base, "wantedCollections")
                               THEN ToSet(cs) \ {0} ELSE {}
  BY <1>3, AddedCarries
<1>6. /\ b \in Seq(Param)
      /\ \A k : Values(b, k) = IF k = "wantedDids" /\ ~Has(base, "wantedDids")
                               THEN ToSet(ds) \ {0} ELSE {}
  BY <1>3, AddedCarries
<1>7. /\ d \in Seq(Param)
      /\ \A k : Values(d, k) = IF k = "cursor" /\ ~Has(base, "cursor")
                               THEN ToSet(<<c>>) \ {0} ELSE {}
  BY <1>3, <1>4, AddedCarries
<1> HIDE DEF base, a, b, d
<1>8. a \o b \in Seq(Param) /\ a \o b \o d \in Seq(Param) /\ d \in Seq(Param)
  BY <1>5, <1>6, <1>7, ConcatProperties
<1>9. \A k : Values(a \o b \o d, k) = Values(a, k) \cup Values(b, k) \cup Values(d, k)
  <2> TAKE k
  <2>1. Values(a \o b \o d, k) = Values(a \o b, k) \cup Values(d, k)
    <3>1. PICK x \in Seq(Param) : x = a \o b
      BY <1>8
    <3>2. Values(x \o d, k) = Values(x, k) \cup Values(d, k)
      BY <1>8, ValuesOfBoth
    <3> QED BY <3>1, <3>2
  <2>2. Values(a \o b, k) = Values(a, k) \cup Values(b, k)
    BY <1>5, <1>6, ValuesOfBoth
  <2> QED BY <2>1, <2>2
<1>10. /\ s[1] = base[1]
       /\ \A kind \in Kinds : Received(s, kind)
                                = Received(base, kind) \cup Values(a \o b \o d, kind)
  <2>1. WellFormed(base) /\ base # <<>>
    BY <1>2
  <2>2. PICK x \in Seq(Param) : x = a \o b \o d
    BY <1>8
  <2>3. /\ Attached(base, x)[1] = base[1]
        /\ \A kind \in Kinds : Received(Attached(base, x), kind)
                                 = Received(base, kind) \cup Values(x, kind)
    BY <2>1, AttachedCarries
  <2> QED BY <1>1, <2>2, <2>3
<1>11. \A kind \in Kinds : ~Has(e, kind) => Received(e, kind) = {}
  BY OnlyWhatItHas
<1>12. Received(s, "wantedCollections")
         = Received(e, "wantedCollections") \cup
           (IF Has(e, "wantedCollections") THEN {} ELSE ToSet(cs) \ {0})
  BY <1>2, <1>3, <1>5, <1>6, <1>7, <1>9, <1>10
<1>13. Received(s, "wantedDids")
         = Received(e, "wantedDids") \cup (IF Has(e, "wantedDids") THEN {} ELSE ToSet(ds) \ {0})
  BY <1>2, <1>3, <1>5, <1>6, <1>7, <1>9, <1>10
<1>14. Received(s, "cursor")
         = Received(e, "cursor") \cup (IF Has(e, "cursor") THEN {} ELSE ToSet(<<c>>) \ {0})
  BY <1>2, <1>3, <1>5, <1>6, <1>7, <1>9, <1>10
<1> QED BY <1>2, <1>3, <1>10, <1>11, <1>12, <1>13, <1>14

-----------------------------------------------------------------------------
(* The inductive invariant of the builder.                                 *)
UrlInv ==
  /\ DOMAIN config = {"endpoint", "collections", "dids", "cursor"}
  /\ config.endpoint = <<>> \/ config.endpoint \in Endpoints
  /\ config.collections \in Seq(Nat) /\ config.dids \in Seq(Nat) /\ config.cursor \in Nat
  /\ config.endpoint = <<>> => url = <<>>
  /\ UrlCarries

LEMMA UrlStarts == UrlInit => UrlInv
<1> SUFFICES ASSUME UrlInit PROVE UrlInv
  OBVIOUS
<1>1. <<>> \in Seq(Nat) /\ 0 \in Nat
  OBVIOUS
<1> QED BY <1>1 DEF UrlInit, UrlInv, UrlCarries

LEMMA StillUnbuilt == url' = <<>> => UrlCarries'
BY DEF UrlCarries

LEMMA UrlGoesOn ==
  ASSUME UrlInv, [UrlNext]_urlVars
  PROVE  UrlInv'
<1>1. ASSUME NEW e \in Endpoints, NewConfig(e)
      PROVE  UrlInv'
  <2>1. /\ DOMAIN config' = {"endpoint", "collections", "dids", "cursor"}
        /\ config'.endpoint = e /\ config'.collections = config.collections
        /\ config'.dids = config.dids /\ config'.cursor = config.cursor /\ url' = <<>>
    BY <1>1 DEF NewConfig, UrlInv
  <2> QED BY <2>1, StillUnbuilt DEF UrlInv
<1>2. ASSUME NEW names \in Seq(Nat), Building,
             config' = [config EXCEPT !.collections = names], UNCHANGED url
      PROVE  UrlInv'
  <2>1. /\ DOMAIN config' = {"endpoint", "collections", "dids", "cursor"}
        /\ config'.endpoint = config.endpoint /\ config'.collections = names
        /\ config'.dids = config.dids /\ config'.cursor = config.cursor /\ url' = <<>>
    BY <1>2 DEF Building, UrlInv
  <2> QED BY <2>1, StillUnbuilt DEF UrlInv
<1>3. ASSUME NEW names \in Seq(Nat), Building,
             config' = [config EXCEPT !.dids = names], UNCHANGED url
      PROVE  UrlInv'
  <2>1. /\ DOMAIN config' = {"endpoint", "collections", "dids", "cursor"}
        /\ config'.endpoint = config.endpoint /\ config'.collections = config.collections
        /\ config'.dids = names /\ config'.cursor = config.cursor /\ url' = <<>>
    BY <1>3 DEF Building, UrlInv
  <2> QED BY <2>1, StillUnbuilt DEF UrlInv
<1>4. ASSUME NEW name \in Names
      PROVE  /\ WithCollection(name) => UrlInv'
             /\ WithDid(name) => UrlInv'
  <2>1. name \in Nat
    BY UrlAssumption
  <2>2. Append(config.collections, name) \in Seq(Nat) /\ Append(config.dids, name) \in Seq(Nat)
    BY <2>1, AppendProperties DEF UrlInv
  <2>3. ASSUME WithCollection(name)
        PROVE  UrlInv'
    <3>1. /\ Building /\ UNCHANGED url
          /\ config' = [config EXCEPT !.collections = Append(config.collections, name)]
      BY <2>3 DEF WithCollection, Room
    <3> QED BY <1>2, <2>2, <3>1
  <2>4. ASSUME WithDid(name)
        PROVE  UrlInv'
    <3>1. /\ Building /\ UNCHANGED url
          /\ config' = [config EXCEPT !.dids = Append(config.dids, name)]
      BY <2>4 DEF WithDid, Room
    <3> QED BY <1>3, <2>2, <3>1
  <2> QED BY <2>3, <2>4
<1>5. ASSUME NEW name \in Names, NEW other \in Names
      PROVE  /\ WithCollections(<<name, other>>) => UrlInv'
             /\ WithDids(<<name, other>>) => UrlInv'
  <2>1. name \in Nat /\ other \in Nat
    BY UrlAssumption
  <2>2. PICK names \in Seq(Nat) : names = <<name, other>>
    <3>1. <<name, other>> \in Seq(Nat)
      BY <2>1
    <3> QED BY <3>1
  <2>3. WithCollections(names) => UrlInv'
    BY <1>2, <2>2 DEF WithCollections, Room
  <2>4. WithDids(names) => UrlInv'
    BY <1>3, <2>2 DEF WithDids, Room
  <2> QED BY <2>2, <2>3, <2>4
<1>6. ASSUME NEW time \in {0, 1}, WithReplayFrom(time)
      PROVE  UrlInv'
  <2>1. /\ DOMAIN config' = {"endpoint", "collections", "dids", "cursor"}
        /\ config'.endpoint = config.endpoint /\ config'.collections = config.collections
        /\ config'.dids = config.dids /\ config'.cursor = time /\ url' = <<>>
    BY <1>6 DEF WithReplayFrom, Building, UrlInv
  <2>2. time \in Nat
    OBVIOUS
  <2> QED BY <2>1, <2>2, StillUnbuilt DEF UrlInv
<1>7. CASE BuildUrl
  <2>1. /\ config' = config /\ config.endpoint # <<>>
        /\ url' = BuildSubscriptionUrlFull(config.endpoint, config.collections, config.dids,
                                           config.cursor)
    BY <1>7 DEF BuildUrl, Building
  <2>2. config.endpoint \in Endpoints
    BY <2>1 DEF UrlInv
  <2>3. WellFormed(config.endpoint)
    BY <2>2, UrlAssumption
  <2>4. /\ url'[1] = Scheme
        /\ Received(url', "wantedCollections")
             = IF Has(config.endpoint, "wantedCollections")
               THEN Received(config.endpoint, "wantedCollections")
               ELSE ToSet(config.collections) \ {0}
        /\ Received(url', "wantedDids")
             = IF Has(config.endpoint, "wantedDids") THEN Received(config.endpoint, "wantedDids")
               ELSE ToSet(config.dids) \ {0}
        /\ Received(url', "cursor")
             = IF Has(config.endpoint, "cursor") THEN Received(config.endpoint, "cursor")
               ELSE ToSet(<<config.cursor>>) \ {0}
    BY <2>1, <2>3, BuildCarries DEF UrlInv
  <2>5. \A kind \in Kinds : ~Has(config.endpoint, kind) => Received(config.endpoint, kind) = {}
    BY <2>3, OnlyWhatItHas
  <2>6. UrlCarries'
    <3>1. "wantedCollections" \in Kinds /\ "wantedDids" \in Kinds /\ "cursor" \in Kinds
      BY DEF Kinds
    <3> QED BY <2>1, <2>4, <2>5, <3>1 DEF UrlCarries, Masked
  <2> QED BY <2>1, <2>6 DEF UrlInv
<1>8. CASE UNCHANGED urlVars
  <2>1. config' = config /\ url' = url
    BY <1>8 DEF urlVars
  <2> QED BY <2>1 DEF UrlInv, UrlCarries
<1> QED BY <1>1, <1>4, <1>5, <1>6, <1>7, <1>8 DEF UrlNext

(* The server is asked for what was configured, whatever query the         *)
(* endpoint brings and however it ends: for any well-formed endpoints,     *)
(* names and number of builder calls.                                      *)
THEOREM UrlsCarry == SkybaseSpec => []UrlCarries
<1>1. SkybaseInit => UrlInv
  BY UrlStarts DEF SkybaseInit
<1>2. UrlInv /\ [SkybaseNext]_skybaseVars => UrlInv'
  <2>1. [SkybaseNext]_skybaseVars => [UrlNext]_urlVars
    BY DEF SkybaseNext, skybaseVars
  <2> QED BY <2>1, UrlGoesOn
<1>3. UrlInv => UrlCarries
  BY DEF UrlInv
<1> QED BY <1>1, <1>2, <1>3, PTL DEF SkybaseSpec

-----------------------------------------------------------------------------
(* The bytes of a text grow by the width of each token.                    *)
CountedBy(f, s) ==
  \A k \in 0..Len(s) : f[k] = IF k = 0 THEN 0 ELSE f[k - 1] + Width(s[k])

LEMMA WidthSome == ASSUME NEW token PROVE Width(token) \in Nat
BY DEF Width

LEMMA BytesBy ==
  ASSUME NEW T, NEW s \in Seq(T)
  PROVE  \E f \in [0..Len(s) -> Nat] : CountedBy(f, s) /\ Bytes(s) = f[Len(s)]
<1> DEFINE G == [a \in Nat \X (1..Len(s)) |-> a[1] + Width(s[a[2]])]
           upTo[n \in 0..Len(s)] == IF n = 0 THEN 0 ELSE upTo[n - 1] + Width(s[n])
<1>1. Len(s) \in Nat
  OBVIOUS
<1>2. \A x \in Nat, n \in 1..Len(s) : G[<<x, n>>] = x + Width(s[n])
  OBVIOUS
<1>3. \A x \in Nat, n \in 1..Len(s) : G[<<x, n>>] \in Nat
  <2> TAKE x \in Nat, n \in 1..Len(s)
  <2>1. Width(s[n]) \in Nat
    BY WidthSome
  <2> QED BY <1>2, <2>1
<1> HIDE DEF G
<1>4. HasRecursion(Nat, 0, G, Len(s))
  BY <1>1, <1>3, Recursion DEF StaysIn
<1>5. PICK f \in [0..Len(s) -> Nat] :
        \A k \in 0..Len(s) : f[k] = IF k = 0 THEN 0 ELSE G[<<f[k - 1], k>>]
  BY <1>4 DEF HasRecursion
<1>6. ASSUME NEW k \in 1..Len(s)
      PROVE  f[k] = f[k - 1] + Width(s[k])
  <2>1. k - 1 \in 0..Len(s) /\ k \in 0..Len(s) /\ k # 0
    BY <1>1
  <2>2. f[k - 1] \in Nat /\ f[k] = G[<<f[k - 1], k>>]
    BY <1>5, <2>1
  <2> QED BY <1>2, <2>2
<1>7. CountedBy(f, s)
  <2>1. \A k \in 0..Len(s) : k = 0 \/ k \in 1..Len(s)
    BY <1>1
  <2> QED BY <1>5, <1>6, <2>1 DEF CountedBy
<1>8. f = [n \in 0..Len(s) |-> IF n = 0 THEN 0 ELSE f[n - 1] + Width(s[n])]
  BY <1>7 DEF CountedBy
<1>9. upTo = [n \in 0..Len(s) |-> IF n = 0 THEN 0 ELSE upTo[n - 1] + Width(s[n])]
  BY <1>8
<1>10. Bytes(s) = upTo[Len(s)]
  BY DEF Bytes
<1> HIDE DEF upTo
<1> DEFINE bad == {k \in 0..Len(s) : upTo[k] # f[k]}
<1>11. bad = {}
  <2> SUFFICES ASSUME bad # {} PROVE FALSE
    OBVIOUS
  <2>1. bad \in SUBSET (0..Len(s)) /\ 0 \notin bad
    BY <1>1, <1>8, <1>9
  <2>2. PICK n \in 1..Len(s) : n \in bad /\ \A m \in 0..(n - 1) : m \notin bad
    <3> HIDE DEF bad
    <3> QED BY <1>1, <2>1, FirstBad
  <2>3. n - 1 \in 0..(n - 1) /\ n - 1 \in 0..Len(s) /\ n \in 0..Len(s) /\ n # 0
    BY <1>1
  <2>4. upTo[n - 1] = f[n - 1] /\ upTo[n] # f[n]
    BY <2>2, <2>3
  <2> QED BY <1>8, <1>9, <2>3, <2>4
<1>12. Len(s) \in 0..Len(s)
  BY <1>1
<1> QED BY <1>7, <1>10, <1>11, <1>12

LEMMA BytesOfNone == Bytes(<<>>) = 0
<1>1. <<>> \in Seq(Tokens) /\ Len(<<>>) = 0
  OBVIOUS
<1>2. PICK f \in [0..Len(<<>>) -> Nat] : CountedBy(f, <<>>) /\ Bytes(<<>>) = f[Len(<<>>)]
  BY <1>1, BytesBy
<1>3. 0 \in 0..Len(<<>>)
  BY <1>1
<1> QED BY <1>1, <1>2, <1>3 DEF CountedBy

LEMMA BytesOfOneMore ==
  ASSUME NEW T, NEW s \in Seq(T), NEW t \in T
  PROVE  Bytes(s) \in Nat /\ Bytes(Append(s, t)) = Bytes(s) + Width(t)
<1> DEFINE n == Len(s)
           r == Append(s, t)
<1>1. /\ n \in Nat /\ r \in Seq(T) /\ Len(r) = n + 1 /\ r[n + 1] = t
      /\ \A i \in 1..n : r[i] = s[i]
  BY AppendProperties
<1>2. PICK f \in [0..Len(s) -> Nat] : CountedBy(f, s) /\ Bytes(s) = f[Len(s)]
  BY BytesBy
<1> HIDE DEF r
<1>3. PICK g \in [0..Len(r) -> Nat] : CountedBy(g, r) /\ Bytes(r) = g[Len(r)]
  BY <1>1, BytesBy
<1> DEFINE bad == {k \in 0..n : f[k] # g[k]}
<1>4. bad = {}
  <2> SUFFICES ASSUME bad # {} PROVE FALSE
    OBVIOUS
  <2>1. 0 \in 0..Len(s) /\ 0 \in 0..Len(r)
    BY <1>1
  <2>2. bad \in SUBSET (0..n) /\ 0 \notin bad
    BY <1>2, <1>3, <2>1 DEF CountedBy
  <2>3. PICK k \in 1..n : k \in bad /\ \A m \in 0..(k - 1) : m \notin bad
    <3> HIDE DEF bad, n
    <3> QED BY <1>1, <2>2, FirstBad
  <2>4. /\ k - 1 \in 0..(k - 1) /\ k - 1 \in 0..n /\ k \in 0..Len(s) /\ k \in 0..Len(r)
        /\ k # 0 /\ r[k] = s[k]
    BY <1>1
  <2>5. f[k - 1] = g[k - 1] /\ f[k] # g[k]
    BY <2>3, <2>4
  <2>6. f[k] = f[k - 1] + Width(s[k])
    BY <1>2, <2>4 DEF CountedBy
  <2>7. g[k] = g[k - 1] + Width(r[k])
    BY <1>3, <2>4 DEF CountedBy
  <2> QED BY <2>4, <2>5, <2>6, <2>7
<1>5. n \in 0..n /\ n + 1 \in 0..Len(r) /\ n + 1 # 0 /\ n + 1 - 1 = n
  BY <1>1
<1>6. g[n + 1] = g[n + 1 - 1] + Width(r[n + 1])
  BY <1>3, <1>5 DEF CountedBy
<1>7. g[n] = f[n] /\ f[n] \in Nat
  BY <1>2, <1>4, <1>5
<1> QED BY <1>1, <1>2, <1>3, <1>5, <1>6, <1>7 DEF r

(* The bytes before a place, and of a part of the text.                    *)
LEMMA OneFurther ==
  ASSUME NEW T, NEW s \in Seq(T), NEW a \in Nat \ {0}, NEW b \in Nat, a <= b + 1, b + 1 <= Len(s)
  PROVE  /\ SubSeq(s, a, b) \in Seq(T)
         /\ SubSeq(s, a, b + 1) = Append(SubSeq(s, a, b), s[b + 1])
<1>1. Len(s) \in Nat /\ s[b + 1] \in T
  OBVIOUS
<1>2. SubSeq(s, a, b) \in Seq(T) /\ Len(SubSeq(s, a, b)) = b - a + 1
      /\ \A i \in 1..(b - a + 1) : SubSeq(s, a, b)[i] = s[a + i - 1]
  BY <1>1, SubSeqProperties
<1>3. SubSeq(s, a, b + 1) \in Seq(T) /\ Len(SubSeq(s, a, b + 1)) = b + 1 - a + 1
      /\ \A i \in 1..(b + 1 - a + 1) : SubSeq(s, a, b + 1)[i] = s[a + i - 1]
  BY <1>1, SubSeqProperties
<1> DEFINE x == SubSeq(s, a, b)
           y == SubSeq(s, a, b + 1)
           z == Append(x, s[b + 1])
<1> HIDE DEF x, y
<1>4. /\ z \in Seq(T) /\ Len(z) = Len(x) + 1 /\ z[Len(x) + 1] = s[b + 1]
      /\ \A i \in 1..Len(x) : z[i] = x[i]
  BY <1>1, <1>2, AppendProperties DEF x
<1> HIDE DEF z
<1>5. Len(y) = Len(z) /\ y \in Seq(T) /\ Len(z) = b + 1 - a + 1 /\ Len(x) = b - a + 1
  BY <1>2, <1>3, <1>4 DEF x, y
<1>6. ASSUME NEW i \in 1..Len(z)
      PROVE  y[i] = z[i]
  <2>1. y[i] = s[a + i - 1]
    BY <1>3, <1>5 DEF y
  <2>2. CASE i = Len(x) + 1
    <3>1. a + i - 1 = b + 1
      BY <1>5, <2>2
    <3> QED BY <1>4, <2>1, <2>2, <3>1
  <2>3. CASE i # Len(x) + 1
    <3>1. i \in 1..Len(x) /\ i \in 1..(b - a + 1)
      BY <1>5, <2>3
    <3> QED BY <1>2, <1>4, <2>1, <3>1 DEF x
  <2> QED BY <2>2, <2>3
<1>7. y = z
  BY <1>4, <1>5, <1>6, SeqEqual
<1> QED BY <1>2, <1>7 DEF x, y, z

LEMMA BytesSome ==
  ASSUME NEW T, NEW s \in Seq(T)
  PROVE  Bytes(s) \in Nat
<1>1. PICK f \in [0..Len(s) -> Nat] : CountedBy(f, s) /\ Bytes(s) = f[Len(s)]
  BY BytesBy
<1>2. Len(s) \in 0..Len(s)
  OBVIOUS
<1> QED BY <1>1, <1>2

LEMMA PartBytes ==
  ASSUME NEW T, NEW s \in Seq(T), NEW a \in Nat, NEW b \in Nat, a <= b, b <= Len(s)
  PROVE  /\ Bytes(SubSeq(s, 1, a)) \in Nat /\ Bytes(SubSeq(s, a + 1, b)) \in Nat
         /\ Bytes(SubSeq(s, 1, b)) = Bytes(SubSeq(s, 1, a)) + Bytes(SubSeq(s, a + 1, b))
<1> DEFINE Whole(n) == Bytes(SubSeq(s, 1, n))
           Part(n) == Bytes(SubSeq(s, a + 1, n))
           bad == {d \in 0..(b - a) : Whole(a + d) # Whole(a) + Part(a + d)}
<1>1. Len(s) \in Nat /\ b - a \in Nat
  OBVIOUS
<1>2. ASSUME NEW c \in Nat, NEW n \in Nat, n <= Len(s)
      PROVE  Bytes(SubSeq(s, c + 1, n)) \in Nat
  <2>1. \A i \in (c + 1)..n : s[i] \in T
    BY <1>2
  <2>2. SubSeq(s, c + 1, n) \in Seq(T)
    BY <2>1, SubSeqProperties
  <2> QED BY <2>2, BytesSome
<1>3. \A n \in Nat : n <= Len(s) => Whole(n) \in Nat /\ Part(n) \in Nat
  <2> TAKE n \in Nat
  <2>1. 0 + 1 = 1
    OBVIOUS
  <2> QED BY <1>2, <2>1
<1>4. 0 \notin bad
  <2>1. SubSeq(s, a + 1, a) = <<>>
    BY SubSeqEmpty
  <2>2. Part(a) = 0
    BY <2>1, BytesOfNone
  <2> HIDE DEF Whole, Part
  <2>3. Whole(a) \in Nat /\ a + 0 = a
    BY <1>1, <1>3
  <2> QED BY <2>2, <2>3
<1>5. ASSUME NEW n \in Nat, a <= n, n + 1 <= b, Whole(n) = Whole(a) + Part(n)
      PROVE  Whole(n + 1) = Whole(a) + Part(n + 1)
  <2>1. n + 1 <= Len(s) /\ n <= Len(s) /\ s[n + 1] \in T /\ a <= Len(s)
    BY <1>1, <1>5
  <2>2. /\ SubSeq(s, 1, n) \in Seq(T)
        /\ SubSeq(s, 1, n + 1) = Append(SubSeq(s, 1, n), s[n + 1])
    BY <2>1, OneFurther
  <2>3. /\ SubSeq(s, a + 1, n) \in Seq(T)
        /\ SubSeq(s, a + 1, n + 1) = Append(SubSeq(s, a + 1, n), s[n + 1])
    <3>1. a + 1 \in Nat \ {0} /\ a + 1 <= n + 1
      BY <1>5
    <3> QED BY <2>1, <3>1, OneFurther
  <2>4. Whole(n + 1) = Whole(n) + Width(s[n + 1])
    BY <2>1, <2>2, BytesOfOneMore
  <2>5. Part(n + 1) = Part(n) + Width(s[n + 1])
    BY <2>1, <2>3, BytesOfOneMore
  <2> HIDE DEF Whole, Part
  <2>6. Whole(a) \in Nat /\ Part(n) \in Nat /\ Width(s[n + 1]) \in Nat
    BY <1>3, <2>1, WidthSome
  <2> QED BY <1>5, <2>4, <2>5, <2>6
<1> HIDE DEF Whole, Part
<1>6. bad = {}
  <2> SUFFICES ASSUME bad # {} PROVE FALSE
    OBVIOUS
  <2>1. PICK d \in 1..(b - a) : d \in bad /\ \A m \in 0..(d - 1) : m \notin bad
    <3>1. bad \in SUBSET (0..(b - a))
      OBVIOUS
    <3> HIDE DEF bad
    <3> QED BY <1>1, <1>4, <3>1, FirstBad
  <2>2. d - 1 \in 0..(d - 1) /\ d - 1 \in 0..(b - a)
    OBVIOUS
  <2>3. PICK n \in Nat : n = a + (d - 1) /\ n + 1 = a + d /\ a <= n /\ n + 1 <= b
    OBVIOUS
  <2>4. Whole(n) = Whole(a) + Part(n) /\ Whole(n + 1) # Whole(a) + Part(n + 1)
    BY <2>1, <2>2, <2>3
  <2> QED BY <1>5, <2>3, <2>4
<1>7. b - a \in 0..(b - a) /\ a + (b - a) = b
  OBVIOUS
<1>8. Whole(b) = Whole(a) + Part(b)
  BY <1>6, <1>7
<1>9. Whole(a) \in Nat /\ Part(b) \in Nat
  BY <1>1, <1>3
<1> QED BY <1>8, <1>9 DEF Whole, Part

(* Trimming stops at the first token from behind that is not cut off.      *)
LEMMA TrimmedTo ==
  ASSUME NEW T, NEW ref \in Seq(T)
  PROVE  \E n \in 0..Len(ref) : /\ Trimmed(ref) = SubSeq(ref, 1, n) /\ ~CutOff(ref, n)
                                /\ n < Len(ref) => CutOff(ref, n + 1)
<1> DEFINE G == [a \in Nat \X (1..Len(ref)) |-> IF CutOff(ref, a[2]) THEN a[1] ELSE a[2]]
           upTo[n \in 0..Len(ref)] == IF CutOff(ref, n) THEN upTo[n - 1] ELSE n
<1>1. Len(ref) \in Nat
  OBVIOUS
<1>2. \A x \in Nat, n \in 1..Len(ref) : G[<<x, n>>] = IF CutOff(ref, n) THEN x ELSE n
  OBVIOUS
<1> HIDE DEF G
<1>3. \A x \in Nat, n \in 1..Len(ref) : G[<<x, n>>] \in Nat
  <2>1. \A n \in 1..Len(ref) : n \in Nat
    BY <1>1
  <2> QED BY <1>2, <2>1
<1>4. HasRecursion(Nat, 0, G, Len(ref))
  BY <1>1, <1>3, Recursion DEF StaysIn
<1>5. PICK f \in [0..Len(ref) -> Nat] :
        \A k \in 0..Len(ref) : f[k] = IF k = 0 THEN 0 ELSE G[<<f[k - 1], k>>]
  BY <1>4 DEF HasRecursion
<1>6. ASSUME NEW k \in 0..Len(ref)
      PROVE  f[k] = IF CutOff(ref, k) THEN f[k - 1] ELSE k
  <2>1. CASE k = 0
    <3>1. ~CutOff(ref, 0)
      BY DEF CutOff
    <3> QED BY <1>5, <2>1, <3>1
  <2>2. CASE k # 0
    <3>1. k - 1 \in 0..Len(ref) /\ k \in 1..Len(ref)
      BY <1>1, <2>2
    <3>2. f[k - 1] \in Nat /\ f[k] = G[<<f[k - 1], k>>]
      BY <1>5, <2>2, <3>1
    <3> QED BY <1>2, <3>1, <3>2
  <2> QED BY <2>1, <2>2
<1>7. f = [n \in 0..Len(ref) |-> IF CutOff(ref, n) THEN f[n - 1] ELSE n]
  BY <1>6
<1>8. upTo = [n \in 0..Len(ref) |-> IF CutOff(ref, n) THEN upTo[n - 1] ELSE n]
  BY <1>7
<1>9. Trimmed(ref) = SubSeq(ref, 1, upTo[Len(ref)])
  BY DEF Trimmed
<1> HIDE DEF upTo
<1>10. \A n \in 0..Len(ref) : upTo[n] = IF CutOff(ref, n) THEN upTo[n - 1] ELSE n
  BY <1>8
<1> DEFINE Fits(n) == /\ upTo[n] \in 0..n /\ ~CutOff(ref, upTo[n])
                      /\ upTo[n] < n => CutOff(ref, upTo[n] + 1)
           bad == {n \in 0..Len(ref) : ~Fits(n)}
<1>11. Fits(0)
  <2>1. 0 \in 0..Len(ref) /\ ~CutOff(ref, 0)
    BY <1>1 DEF CutOff
  <2>2. upTo[0] = 0
    BY <1>10, <2>1
  <2> QED BY <2>1, <2>2
<1>12. ASSUME NEW n \in 1..Len(ref), Fits(n - 1)
       PROVE  Fits(n)
  <2>1. n \in 0..Len(ref) /\ n - 1 \in 0..Len(ref) /\ n - 1 + 1 = n
    BY <1>1
  <2>2. CASE ~CutOff(ref, n)
    <3>1. upTo[n] = n
      BY <1>10, <2>1, <2>2
    <3> QED BY <2>1, <2>2, <3>1
  <2>3. CASE CutOff(ref, n)
    <3>1. upTo[n] = upTo[n - 1]
      BY <1>10, <2>1, <2>3
    <3>2. upTo[n] \in 0..n /\ (upTo[n] < n => upTo[n] < n - 1 \/ upTo[n] = n - 1)
      BY <1>12, <3>1
    <3>3. upTo[n] = n - 1 => upTo[n] + 1 = n
      BY <2>1
    <3> QED BY <1>12, <2>3, <3>1, <3>2, <3>3
  <2> QED BY <2>2, <2>3
<1> HIDE DEF Fits
<1>13. bad = {}
  <2> SUFFICES ASSUME bad # {} PROVE FALSE
    OBVIOUS
  <2>1. bad \in SUBSET (0..Len(ref)) /\ 0 \notin bad
    BY <1>11
  <2>2. PICK n \in 1..Len(ref) : n \in bad /\ \A m \in 0..(n - 1) : m \notin bad
    <3> HIDE DEF bad
    <3> QED BY <1>1, <2>1, FirstBad
  <2>3. n - 1 \in 0..(n - 1) /\ n - 1 \in 0..Len(ref)
    BY <1>1
  <2> QED BY <1>12, <2>2, <2>3
<1>14. Len(ref) \in 0..Len(ref)
  BY <1>1
<1>15. Fits(Len(ref))
  BY <1>13, <1>14
<1> QED BY <1>9, <1>15 DEF Fits

(* The least and the greatest number of a bounded set.                     *)
LEMMA LeastIsThere ==
  ASSUME NEW bound \in Nat, NEW S \in SUBSET (0..bound), S # {}
  PROVE  Min(S) \in S /\ \A x \in S : Min(S) <= x
<1>1. \E m \in S : \A x \in S : m <= x
  <2>1. CASE 0 \in S
    BY <2>1
  <2>2. CASE 0 \notin S
    <3>1. PICK n \in 1..bound : n \in S /\ \A m \in 0..(n - 1) : m \notin S
      BY <2>2, FirstBad
    <3>2. \A x \in S : n <= x
      BY <3>1
    <3> QED BY <3>1, <3>2
  <2> QED BY <2>1, <2>2
<1> QED BY <1>1 DEF Min

LEMMA GreatestIsThere ==
  ASSUME NEW bound \in Nat, NEW S \in SUBSET (0..bound), S # {}
  PROVE  Max(S) \in S /\ \A x \in S : x <= Max(S)
<1> DEFINE R == {y \in 0..bound : bound - y \in S}
<1>1. \A x \in S : bound - x \in R
  OBVIOUS
<1>2. R \in SUBSET (0..bound) /\ R # {}
  BY <1>1
<1>3. Min(R) \in R /\ \A y \in R : Min(R) <= y
  <2> HIDE DEF R
  <2> QED BY <1>2, LeastIsThere
<1>4. PICK m : m \in R /\ \A y \in R : m <= y
  BY <1>3
<1>5. bound - m \in S /\ \A x \in S : x <= bound - m
  BY <1>1, <1>4
<1>6. \E z \in S : \A x \in S : z >= x
  BY <1>5
<1>7. Max(S) \in S /\ \A x \in S : Max(S) >= x
  BY <1>6 DEF Max
<1> QED BY <1>7

LEMMA PartOfPart ==
  ASSUME NEW T, NEW s \in Seq(T), NEW k \in Nat \ {0}, NEW m \in Nat, m <= Len(s),
         NEW n \in Nat, k + n - 1 <= m
  PROVE  /\ SubSeq(SubSeq(s, k, m), 1, n) = SubSeq(s, k, k + n - 1)
         /\ SubSeq(s, k, k + n - 1) \in Seq(T) /\ Len(SubSeq(s, k, k + n - 1)) = n
         /\ \A i \in 1..n : SubSeq(s, k, k + n - 1)[i] = s[k + i - 1]
<1> DEFINE w == SubSeq(s, k, m)
<1>1. Len(s) \in Nat /\ k + n - 1 \in Nat
  OBVIOUS
<1>2. /\ w \in Seq(T) /\ Len(w) = IF k <= m THEN m - k + 1 ELSE 0
      /\ \A i \in 1..(m - k + 1) : w[i] = s[k + i - 1]
  <2>1. \A i \in k..m : s[i] \in T
    BY <1>1
  <2> QED BY <2>1, SubSeqProperties
<1> HIDE DEF w
<1> DEFINE x == SubSeq(w, 1, n)
           y == SubSeq(s, k, k + n - 1)
<1>3. \A i \in 1..n : i \in 1..(m - k + 1) /\ w[i] \in T /\ w[i] = s[k + i - 1]
  <2>1. \A i \in 1..n : i \in 1..(m - k + 1) /\ k + i - 1 \in 1..Len(s)
    BY <1>1
  <2>2. \A i \in 1..n : s[k + i - 1] \in T
    BY <2>1
  <2> QED BY <1>2, <2>1, <2>2
<1>4. x \in Seq(T) /\ Len(x) = n /\ \A i \in 1..n : x[i] = w[i]
  <2>1. /\ x \in Seq(T) /\ Len(x) = IF 1 <= n THEN n - 1 + 1 ELSE 0
        /\ \A i \in 1..(n - 1 + 1) : x[i] = w[1 + i - 1]
    BY <1>3, SubSeqProperties
  <2> HIDE DEF x
  <2>2. \A i \in 1..n : i \in 1..(n - 1 + 1) /\ 1 + i - 1 = i
    OBVIOUS
  <2> QED BY <2>1, <2>2
<1>5. y \in Seq(T) /\ Len(y) = n /\ \A i \in 1..n : y[i] = s[k + i - 1]
  <2>1. \A i \in k..(k + n - 1) : s[i] \in T
    BY <1>1
  <2>2. /\ y \in Seq(T) /\ Len(y) = IF k <= k + n - 1 THEN k + n - 1 - k + 1 ELSE 0
        /\ \A i \in 1..(k + n - 1 - k + 1) : y[i] = s[k + i - 1]
    BY <1>1, <2>1, SubSeqProperties
  <2> HIDE DEF y
  <2> QED BY <2>2
<1> HIDE DEF x, y
<1>6. x = y
  BY <1>3, <1>4, <1>5, SeqEqual
<1> QED BY <1>5, <1>6 DEF w, x, y

(* A match ends where the printable characters do.                         *)
LEMMA MatchStops ==
  ASSUME text \in Seq(Tokens), NEW k \in 1..(Len(text) - 1),
         Printable(text[k]), Printable(text[k + 1])
  PROVE  /\ MatchEnd(k) \in (k + 1)..Len(text)
         /\ \A n \in k..MatchEnd(k) : Printable(text[n])
         /\ MatchEnd(k) < Len(text) => ~Printable(text[MatchEnd(k) + 1])
<1> DEFINE S == {j \in k..Len(text) : \A n \in k..j : Printable(text[n])}
<1>1. Len(text) \in Nat
  OBVIOUS
<1>2. k + 1 \in S
  <2>1. \A n \in k..(k + 1) : n = k \/ n = k + 1
    OBVIOUS
  <2> QED BY <1>1, <2>1
<1>3. S \in SUBSET (0..Len(text)) /\ S # {}
  BY <1>1, <1>2
<1>4. MatchEnd(k) = Max(S)
  BY DEF MatchEnd
<1>5. Max(S) \in S /\ \A x \in S : x <= Max(S)
  <2> HIDE DEF S
  <2> QED BY <1>1, <1>3, GreatestIsThere
<1>6. PICK m : m = Max(S)
  OBVIOUS
<1>7. m \in S /\ k + 1 <= m
  BY <1>2, <1>5, <1>6
<1>8. ASSUME m < Len(text), Printable(text[m + 1])
      PROVE  FALSE
  <2>1. m + 1 \in k..Len(text)
    BY <1>1, <1>7, <1>8
  <2>2. \A n \in k..(m + 1) : n = m + 1 \/ n \in k..m
    BY <1>7
  <2>3. m + 1 \in S
    BY <1>7, <1>8, <2>1, <2>2
  <2>4. m + 1 <= m
    BY <1>5, <1>6, <2>3
  <2> QED BY <1>7, <2>4
<1> QED BY <1>1, <1>4, <1>6, <1>7, <1>8

LEMMA StartIsThere ==
  ASSUME text \in Seq(Tokens), NEW i \in 1..(Len(text) + 1), Starts(i) # {}
  PROVE  /\ Min(Starts(i)) \in i..(Len(text) - 1) /\ text[Min(Starts(i))] = "link"
         /\ Printable(text[Min(Starts(i)) + 1])
<1>1. Len(text) \in Nat
  OBVIOUS
<1>2. Starts(i) \in SUBSET (0..Len(text))
  BY <1>1 DEF Starts
<1>3. Min(Starts(i)) \in Starts(i)
  BY <1>1, <1>2, LeastIsThere
<1> QED BY <1>3 DEF Starts

FacetSet == [start : Nat, end : Nat]

Upto(n) == Bytes(SubSeq(text, 1, n))

LEMMA UptoGrows ==
  ASSUME text \in Seq(Tokens), NEW a \in Nat, NEW b \in Nat, a <= b, b <= Len(text)
  PROVE  Upto(a) \in Nat /\ Upto(b) \in Nat /\ Upto(a) <= Upto(b)
<1>1. /\ Upto(a) \in Nat /\ Bytes(SubSeq(text, a + 1, b)) \in Nat
      /\ Upto(b) = Upto(a) + Bytes(SubSeq(text, a + 1, b))
  BY PartBytes DEF Upto
<1> QED BY <1>1

LEMMA LinkIsFit ==
  ASSUME text \in Seq(Tokens), NEW k \in 1..(Len(text) - 1), text[k] = "link",
         Printable(text[k + 1]), NEW m, m = MatchEnd(k),
         NEW ref, ref = Trimmed(SubSeq(text, k, m)), HasHost(k, ref)
  PROVE  /\ Link(k, ref) \in FacetSet /\ FacetFits(Link(k, ref))
         /\ Upto(k - 1) = Link(k, ref).start /\ Link(k, ref).end <= Upto(m)
<1> DEFINE w == SubSeq(text, k, m)
<1>1. Len(text) \in Nat /\ Printable(text[k])
  BY DEF Printable
<1>2. /\ m \in (k + 1)..Len(text) /\ \A n \in k..m : Printable(text[n])
      /\ m < Len(text) => ~Printable(text[m + 1])
  BY <1>1, MatchStops
<1>3. /\ w \in Seq(Tokens) /\ Len(w) = m - k + 1
      /\ \A i \in 1..(m - k + 1) : w[i] = text[k + i - 1]
  <2>1. \A i \in k..m : text[i] \in Tokens
    BY <1>1, <1>2
  <2> QED BY <1>2, <2>1, SubSeqProperties
<1> HIDE DEF w
<1>4. PICK n \in 0..Len(w) : /\ ref = SubSeq(w, 1, n) /\ ~CutOff(w, n)
                             /\ n < Len(w) => CutOff(w, n + 1)
  BY <1>3, TrimmedTo DEF w
<1>5. n \in Nat /\ k \in Nat \ {0} /\ m \in Nat /\ m <= Len(text) /\ k + n - 1 <= m
  BY <1>1, <1>2, <1>3
<1>6. PICK b \in Nat : b = k + n - 1
  BY <1>5
<1>7. /\ ref = SubSeq(text, k, b) /\ ref \in Seq(Tokens) /\ Len(ref) = n
      /\ \A i \in 1..n : ref[i] = text[k + i - 1]
  <2>1. /\ SubSeq(w, 1, n) = SubSeq(text, k, k + n - 1)
        /\ SubSeq(text, k, k + n - 1) \in Seq(Tokens) /\ Len(SubSeq(text, k, k + n - 1)) = n
        /\ \A i \in 1..n : SubSeq(text, k, k + n - 1)[i] = text[k + i - 1]
    BY <1>5, PartOfPart DEF w
  <2> QED BY <1>4, <1>6, <2>1
<1>8. n > 1 /\ b <= m /\ k <= b /\ b <= Len(text)
  BY <1>5, <1>6, <1>7 DEF HasHost
<1>9. PICK a \in Nat : a = k - 1 /\ a + 1 = k /\ a <= b /\ a <= Len(text)
  <2>1. k - 1 \in Nat /\ k - 1 + 1 = k /\ k - 1 <= b /\ k - 1 <= Len(text)
    BY <1>5, <1>8
  <2> QED BY <2>1
<1>10. /\ Upto(a) \in Nat /\ Bytes(ref) \in Nat /\ Upto(b) = Upto(a) + Bytes(ref)
       /\ Upto(b) <= Upto(m)
  <2>1. ref = SubSeq(text, a + 1, b)
    BY <1>7, <1>9
  <2>2. /\ Upto(a) \in Nat /\ Bytes(ref) \in Nat /\ Upto(b) = Upto(a) + Bytes(ref)
    <3>1. a <= b /\ b <= Len(text)
      BY <1>8, <1>9
    <3>2. /\ Bytes(SubSeq(text, 1, a)) \in Nat /\ Bytes(SubSeq(text, a + 1, b)) \in Nat
          /\ Bytes(SubSeq(text, 1, b))
               = Bytes(SubSeq(text, 1, a)) + Bytes(SubSeq(text, a + 1, b))
      BY <3>1, PartBytes
    <3> QED BY <2>1, <3>2 DEF Upto
  <2>3. Upto(b) <= Upto(m)
    BY <1>5, <1>8, UptoGrows
  <2> QED BY <2>2, <2>3
<1>11. Link(k, ref) = [start |-> Upto(a), end |-> Upto(b)]
  BY <1>9, <1>10 DEF Link, Upto
<1>12. a \in PlaceAt(Upto(a)) /\ b \in PlaceAt(Upto(b))
  BY <1>1, <1>8, <1>9 DEF PlaceAt, Upto
<1>13. Head(ref) = "link" /\ \A i \in DOMAIN ref : Printable(ref[i])
  <2>1. DOMAIN ref = 1..n /\ 1 \in 1..n /\ Head(ref) = ref[1]
    BY <1>7, <1>8
  <2>2. ref[1] = text[k]
    <3>1. k + 1 - 1 = k
      BY <1>5
    <3> QED BY <1>7, <2>1, <3>1
  <2>3. \A i \in 1..n : k + i - 1 \in k..m
    BY <1>5
  <2> QED BY <1>2, <1>7, <2>1, <2>2, <2>3
<1>14. Last(ref) = w[n] /\ Last(ref) # "dot" /\ (Last(ref) = "close" => ~UnbalancedClosing(ref))
  <2>1. n \in 1..n /\ n \in 1..(m - k + 1) /\ n > 0
    BY <1>5, <1>8
  <2>2. ref[n] = w[n] /\ Last(ref) = ref[n]
    BY <1>3, <1>7, <2>1 DEF Last
  <2> QED BY <1>4, <2>1, <2>2 DEF CutOff
<1>15. ASSUME b < Len(text)
       PROVE  \/ text[b + 1] \in {"space", "wide", "dot"}
              \/ text[b + 1] = "close" /\ UnbalancedClosing(Append(ref, "close"))
  <2>1. CASE n = Len(w)
    <3>1. b = m
      BY <1>3, <1>5, <1>6, <2>1
    <3> QED BY <1>2, <1>15, <3>1 DEF Printable
  <2>2. CASE n < Len(w)
    <3>1. CutOff(w, n + 1)
      BY <1>4, <2>2
    <3>2. n + 1 \in 1..(m - k + 1) /\ k + (n + 1) - 1 = b + 1
      BY <1>3, <1>5, <1>6, <2>2
    <3>3. w[n + 1] = text[b + 1]
      BY <1>3, <3>2
    <3>4. SubSeq(w, 1, n + 1) = Append(ref, w[n + 1])
      <4>1. 1 \in Nat \ {0} /\ 1 <= n + 1 /\ n + 1 <= Len(w)
        BY <1>3, <1>5, <3>2
      <4> QED BY <1>3, <1>4, <1>5, <4>1, OneFurther
    <3> QED BY <3>1, <3>3, <3>4 DEF CutOff
  <2> QED BY <1>3, <1>4, <2>1, <2>2
<1>16. ASSUME NEW f, f = [start |-> Upto(a), end |-> Upto(b)]
       PROVE  FacetFits(f)
  <2>1. f.start = Upto(a) /\ f.end = Upto(b) /\ ref = SubSeq(text, a + 1, b)
    BY <1>7, <1>9, <1>16
  <2>2. Len(ref) > 1
    BY <1>7, <1>8
  <2> QED BY <1>12, <1>13, <1>14, <1>15, <2>1, <2>2 DEF FacetFits
<1>17. Upto(b) \in Nat
  BY <1>10
<1> QED BY <1>9, <1>10, <1>11, <1>16, <1>17 DEF FacetSet

-----------------------------------------------------------------------------
(* The links from a place on, as those from the place behind the next.     *)
FromBy(f, i) ==
  IF Starts(i) = {} THEN <<>>
  ELSE LET k   == Min(Starts(i))
           ref == Trimmed(SubSeq(text, k, MatchEnd(k)))
       IN (IF HasHost(k, ref) THEN <<Link(k, ref)>> ELSE <<>>) \o f[MatchEnd(k) + 1]

(* The facets of a part of the text behind its first lo bytes.             *)
Arranged(s, lo) ==
  /\ s \in Seq(FacetSet)
  /\ \A j \in 1..Len(s) : /\ lo <= s[j].start /\ FacetFits(s[j])
                          /\ j > 1 => s[j - 1].end <= s[j].start

LEMMA ArrangedBehind ==
  ASSUME NEW f \in FacetSet, FacetFits(f), NEW lo \in Nat, NEW hi \in Nat,
         lo <= f.start, f.end <= hi, lo <= hi, NEW s, Arranged(s, hi)
  PROVE  Arranged(<<f>> \o s, lo)
<1>1. <<f>> \in Seq(FacetSet) /\ Len(<<f>>) = 1 /\ s \in Seq(FacetSet) /\ Len(s) \in Nat
      /\ f.start \in Nat /\ f.end \in Nat
  BY DEF Arranged, FacetSet
<1> DEFINE r == <<f>> \o s
<1>2. /\ r \in Seq(FacetSet) /\ Len(r) = 1 + Len(s) /\ r[1] = f
      /\ \A j \in 1..Len(s) : r[1 + j] = s[j]
  <2>1. /\ r \in Seq(FacetSet) /\ Len(r) = 1 + Len(s) /\ r[1] = f
    BY <1>1, ConcatProperties
  <2>2. ASSUME NEW j \in 1..Len(s)
        PROVE  r[1 + j] = s[j]
    <3>1. 1 + j \in 1..(1 + Len(s)) /\ ~(1 + j <= 1) /\ 1 + j - 1 = j
      BY <1>1
    <3>2. r[1 + j] = s[1 + j - 1]
      BY <1>1, <3>1, ConcatProperties
    <3> QED BY <3>1, <3>2
  <2> QED BY <2>1, <2>2
<1> HIDE DEF r
<1>3. ASSUME NEW j \in 1..Len(r)
      PROVE  /\ lo <= r[j].start /\ FacetFits(r[j])
             /\ j > 1 => r[j - 1].end <= r[j].start
  <2>1. CASE j = 1
    BY <1>2, <2>1
  <2>2. CASE j # 1
    <3>1. PICK x \in 1..Len(s) : j = 1 + x /\ j - 1 = x
      <4>1. j - 1 \in 1..Len(s) /\ j = 1 + (j - 1)
        BY <1>1, <1>2, <2>2
      <4> QED BY <4>1
    <3>2. /\ hi <= s[x].start /\ FacetFits(s[x])
          /\ x > 1 => s[x - 1].end <= s[x].start
      BY DEF Arranged
    <3>3. r[j] = s[x] /\ s[x] \in FacetSet /\ s[x].start \in Nat
      <4>1. r[j] = s[x]
        BY <1>2, <3>1
      <4>2. s[x] \in FacetSet
        BY <1>1
      <4> QED BY <4>1, <4>2 DEF FacetSet
    <3>4. r[j - 1].end <= r[j].start
      <4>1. CASE x = 1
        <5>1. r[j - 1] = f
          BY <1>2, <3>1, <4>1
        <5> QED BY <1>1, <3>2, <3>3, <5>1
      <4>2. CASE x # 1
        <5>1. x > 1 /\ x - 1 \in 1..Len(s) /\ j - 1 = 1 + (x - 1)
          BY <1>1, <3>1, <4>2
        <5>2. r[j - 1] = s[x - 1]
          BY <1>2, <5>1
        <5> QED BY <3>2, <3>3, <5>1, <5>2
      <4> QED BY <4>1, <4>2
    <3> QED BY <3>2, <3>3, <3>4
  <2> QED BY <2>1, <2>2
<1>4. Arranged(r, lo)
  BY <1>2, <1>3 DEF Arranged
<1> QED BY <1>4 DEF r

(* The next link and what is behind it.                                    *)
LEMMA FromFits ==
  ASSUME text \in Seq(Tokens), NEW i \in 1..(Len(text) + 1), NEW f,
         \A j \in (i + 1)..(Len(text) + 1) : Arranged(f[j], Upto(j - 1))
  PROVE  Arranged(FromBy(f, i), Upto(i - 1))
<1>1. Len(text) \in Nat
  OBVIOUS
<1>2. CASE Starts(i) = {}
  <2>1. FromBy(f, i) = <<>>
    BY <1>2 DEF FromBy
  <2>2. <<>> \in Seq(FacetSet) /\ Len(<<>>) = 0
    OBVIOUS
  <2> QED BY <2>1, <2>2 DEF Arranged
<1>3. CASE Starts(i) # {}
  <2> DEFINE q == Min(Starts(i))
  <2>1. q \in i..(Len(text) - 1) /\ text[q] = "link" /\ Printable(text[q + 1])
    BY <1>3, StartIsThere
  <2> HIDE DEF q
  <2>2. PICK k \in 1..(Len(text) - 1) : k = q /\ i <= k
    BY <1>1, <2>1
  <2>3. PICK m : m = MatchEnd(k)
    OBVIOUS
  <2>4. m \in (k + 1)..Len(text)
    <3>1. Printable(text[k]) /\ Printable(text[k + 1])
      BY <2>1, <2>2 DEF Printable
    <3> QED BY <2>3, <3>1, MatchStops
  <2>5. PICK ref : ref = Trimmed(SubSeq(text, k, m))
    OBVIOUS
  <2>6. FromBy(f, i) = (IF HasHost(k, ref) THEN <<Link(k, ref)>> ELSE <<>>) \o f[m + 1]
    BY <1>3, <2>2, <2>3, <2>5 DEF FromBy, q
  <2>7. Arranged(f[m + 1], Upto(m))
    <3>1. m + 1 \in (i + 1)..(Len(text) + 1)
      BY <1>1, <2>2, <2>4
    <3>2. PICK j \in (i + 1)..(Len(text) + 1) : j = m + 1
      BY <3>1
    <3>3. j - 1 = m
      BY <2>4, <3>2
    <3>4. Arranged(f[j], Upto(j - 1))
      OBVIOUS
    <3> QED BY <3>2, <3>3, <3>4
  <2>8. PICK a \in Nat : a = i - 1
    OBVIOUS
  <2>12. /\ a <= k - 1 /\ k - 1 \in Nat /\ m \in Nat
         /\ k - 1 <= m /\ m <= Len(text) /\ k - 1 <= Len(text)
    BY <1>1, <2>2, <2>4, <2>8
  <2>9. /\ Upto(a) \in Nat /\ Upto(m) \in Nat /\ Upto(k - 1) \in Nat
        /\ Upto(a) <= Upto(k - 1) /\ Upto(k - 1) <= Upto(m)
    BY <2>12, UptoGrows
  <2>10. CASE HasHost(k, ref)
    <3>1. /\ Link(k, ref) \in FacetSet /\ FacetFits(Link(k, ref))
          /\ Upto(k - 1) = Link(k, ref).start /\ Link(k, ref).end <= Upto(m)
      BY <2>1, <2>2, <2>3, <2>5, <2>10, LinkIsFit
    <3>2. PICK l \in FacetSet : l = Link(k, ref)
      BY <3>1
    <3>3. Arranged(<<l>> \o f[m + 1], Upto(a))
      <4>1. Upto(a) <= l.start /\ l.end <= Upto(m) /\ Upto(a) <= Upto(m) /\ FacetFits(l)
        BY <2>9, <3>1, <3>2
      <4> QED BY <2>7, <2>9, <4>1, ArrangedBehind
    <3> QED BY <2>6, <2>8, <2>10, <3>2, <3>3
  <2>11. CASE ~HasHost(k, ref)
    <3>1. PICK s : s = f[m + 1]
      OBVIOUS
    <3>2. s \in Seq(FacetSet)
      BY <2>7, <3>1 DEF Arranged
    <3>3. <<>> \o s = s
      BY <3>2
    <3>4. ASSUME NEW j \in 1..Len(s)
          PROVE  Upto(a) <= s[j].start
      <4>1. Upto(m) <= s[j].start /\ s[j] \in FacetSet
        BY <2>7, <3>1, <3>2 DEF Arranged
      <4> QED BY <2>9, <4>1 DEF FacetSet
    <3>5. Arranged(s, Upto(a))
      BY <2>7, <3>1, <3>4 DEF Arranged
    <3> QED BY <2>6, <2>8, <2>11, <3>1, <3>3, <3>5
  <2> QED BY <2>10, <2>11
<1> QED BY <1>2, <1>3

(* What FromBy takes of a function lies behind the place.                  *)
LEMMA FromLooksAhead ==
  ASSUME text \in Seq(Tokens), NEW i \in 1..(Len(text) + 1), NEW f, NEW g,
         \A j \in (i + 1)..(Len(text) + 1) : f[j] = g[j]
  PROVE  FromBy(f, i) = FromBy(g, i)
<1>1. Len(text) \in Nat
  OBVIOUS
<1>2. CASE Starts(i) = {}
  BY <1>2 DEF FromBy
<1>3. CASE Starts(i) # {}
  <2> DEFINE q == Min(Starts(i))
  <2>1. q \in i..(Len(text) - 1) /\ text[q] = "link" /\ Printable(text[q + 1])
    BY <1>3, StartIsThere
  <2> HIDE DEF q
  <2>2. PICK k \in 1..(Len(text) - 1) : k = q /\ i <= k
    BY <1>1, <2>1
  <2>3. PICK m : m = MatchEnd(k)
    OBVIOUS
  <2>4. m \in (k + 1)..Len(text)
    <3>1. Printable(text[k]) /\ Printable(text[k + 1])
      BY <2>1, <2>2 DEF Printable
    <3> QED BY <2>3, <3>1, MatchStops
  <2>5. m + 1 \in (i + 1)..(Len(text) + 1)
    BY <1>1, <2>2, <2>4
  <2>6. f[m + 1] = g[m + 1]
    BY <2>5
  <2> QED BY <1>3, <2>2, <2>3, <2>6 DEF FromBy, q
<1> QED BY <1>2, <1>3

LEMMA LinksFrom ==
  ASSUME text \in Seq(Tokens)
  PROVE  \E f : f = [i \in 1..(Len(text) + 1) |-> FromBy(f, i)]
<1> DEFINE L == Len(text)
           Up(d) == \E f : \A i \in (L + 1 - d)..(L + 1) : f[i] = FromBy(f, i)
           bad == {d \in 0..L : ~Up(d)}
<1>1. L \in Nat
  OBVIOUS
<1> HIDE DEF L
<1>2. Up(0)
  <2> DEFINE f == [i \in 1..(L + 1) |-> FromBy(<<>>, L + 1)]
  <2>1. L + 1 \in 1..(L + 1) /\ L + 1 - 0 = L + 1
    BY <1>1
  <2>2. f[L + 1] = FromBy(<<>>, L + 1)
    BY <2>1
  <2> HIDE DEF f
  <2>3. FromBy(<<>>, L + 1) = FromBy(f, L + 1)
    <3>1. \A j \in (L + 1 + 1)..(L + 1) : FALSE
      BY <1>1
    <3>2. \A j \in (L + 1 + 1)..(L + 1) : <<>>[j] = f[j]
      BY <3>1
    <3> QED BY <2>1, <3>2, FromLooksAhead DEF L
  <2>4. \A i \in (L + 1 - 0)..(L + 1) : i = L + 1
    BY <1>1
  <2> QED BY <2>2, <2>3, <2>4
<1>3. ASSUME NEW d \in 1..L, Up(d - 1)
      PROVE  Up(d)
  <2>1. PICK a \in 1..(L + 1) : a = L + 1 - d /\ a + 1 = L + 1 - (d - 1)
    <3>1. L + 1 - d \in 1..(L + 1) /\ L + 1 - d + 1 = L + 1 - (d - 1)
      BY <1>1
    <3> QED BY <3>1
  <2>2. PICK f : \A i \in (a + 1)..(L + 1) : f[i] = FromBy(f, i)
    BY <1>3, <2>1
  <2> DEFINE g == [i \in a..(L + 1) |-> IF i = a THEN FromBy(f, a) ELSE f[i]]
  <2>3. a \in a..(L + 1) /\ \A i \in (a + 1)..(L + 1) : i \in a..(L + 1) /\ i # a
    BY <1>1
  <2>4. g[a] = FromBy(f, a) /\ \A i \in (a + 1)..(L + 1) : g[i] = f[i]
    BY <2>3
  <2> HIDE DEF g
  <2>5. ASSUME NEW i \in a..(L + 1)
        PROVE  FromBy(f, i) = FromBy(g, i)
    <3>1. \A j \in (i + 1)..(L + 1) : f[j] = g[j]
      BY <1>1, <2>4
    <3>2. i \in 1..(L + 1)
      BY <1>1
    <3> QED BY <3>1, <3>2, FromLooksAhead DEF L
  <2>6. ASSUME NEW i \in a..(L + 1)
        PROVE  g[i] = FromBy(g, i)
    <3>1. CASE i = a
      BY <2>4, <2>5, <3>1
    <3>2. CASE i # a
      <4>1. i \in (a + 1)..(L + 1)
        BY <1>1, <3>2
      <4> QED BY <2>2, <2>4, <2>5, <4>1
    <3> QED BY <3>1, <3>2
  <2> QED BY <2>1, <2>6
<1> HIDE DEF Up
<1>4. bad = {}
  <2> SUFFICES ASSUME bad # {} PROVE FALSE
    OBVIOUS
  <2>1. bad \in SUBSET (0..L) /\ 0 \notin bad
    BY <1>2
  <2>2. PICK n \in 1..L : n \in bad /\ \A m \in 0..(n - 1) : m \notin bad
    <3> HIDE DEF bad
    <3> QED BY <1>1, <2>1, FirstBad
  <2>3. n - 1 \in 0..(n - 1) /\ n - 1 \in 0..L
    BY <1>1
  <2> QED BY <1>3, <2>2, <2>3
<1>5. Up(L)
  <2>1. L \in 0..L
    BY <1>1
  <2> QED BY <1>4, <2>1
<1>6. PICK f : \A i \in 1..(L + 1) : f[i] = FromBy(f, i)
  <2>1. L + 1 - L = 1
    BY <1>1
  <2> QED BY <1>5, <2>1 DEF Up
<1> DEFINE g == [i \in 1..(L + 1) |-> f[i]]
<1>7. \A i \in 1..(L + 1) : g[i] = f[i]
  OBVIOUS
<1>8. ASSUME NEW i \in 1..(L + 1)
      PROVE  FromBy(f, i) = FromBy(g, i)
  <2>1. \A j \in (i + 1)..(L + 1) : j \in 1..(L + 1)
    BY <1>1
  <2> HIDE DEF g
  <2> QED BY <1>7, <2>1, FromLooksAhead DEF L
<1>9. g = [i \in 1..(L + 1) |-> FromBy(g, i)]
  <2>1. \A i \in 1..(L + 1) : f[i] = FromBy(g, i)
    BY <1>6, <1>8
  <2>2. PICK h : h = g
    OBVIOUS
  <2>3. [i \in 1..(L + 1) |-> f[i]] = [i \in 1..(L + 1) |-> FromBy(h, i)]
    <3> HIDE DEF g
    <3> QED BY <2>1, <2>2
  <2> QED BY <2>2, <2>3
<1> QED BY <1>9 DEF L

LEMMA LinksExtracted ==
  ASSUME text \in Seq(Tokens)
  PROVE  Arranged(ExtractLinks, 0)
<1> DEFINE L == Len(text)
           from[i \in 1..(Len(text) + 1)] ==
             IF Starts(i) = {} THEN <<>>
             ELSE LET k   == Min(Starts(i))
                      ref == Trimmed(SubSeq(text, k, MatchEnd(k)))
                  IN (IF HasHost(k, ref) THEN <<Link(k, ref)>> ELSE <<>>) \o from[MatchEnd(k) + 1]
<1>1. L \in Nat
  OBVIOUS
<1>2. PICK f : f = [i \in 1..(Len(text) + 1) |-> FromBy(f, i)]
  BY LinksFrom
<1>3. f = [i \in 1..(Len(text) + 1) |->
             IF Starts(i) = {} THEN <<>>
             ELSE LET k   == Min(Starts(i))
                      ref == Trimmed(SubSeq(text, k, MatchEnd(k)))
                  IN (IF HasHost(k, ref) THEN <<Link(k, ref)>> ELSE <<>>) \o f[MatchEnd(k) + 1]]
  BY <1>2 DEF FromBy
<1>4. from = [i \in 1..(Len(text) + 1) |->
                IF Starts(i) = {} THEN <<>>
                ELSE LET k   == Min(Starts(i))
                         ref == Trimmed(SubSeq(text, k, MatchEnd(k)))
                     IN (IF HasHost(k, ref) THEN <<Link(k, ref)>> ELSE <<>>) \o from[MatchEnd(k) + 1]]
  BY <1>3
<1>5. ExtractLinks = from[1]
  BY DEF ExtractLinks
<1> HIDE DEF from
<1>6. \A i \in 1..(L + 1) : from[i] = FromBy(from, i)
  <2>1. from = [i \in 1..(Len(text) + 1) |-> FromBy(from, i)]
    BY <1>4 DEF FromBy
  <2> QED BY <2>1
<1> HIDE DEF L
<1> DEFINE Fits(d) == Arranged(from[L + 1 - d], Upto(L - d))
           bad == {d \in 0..L : ~Fits(d)}
<1>7. bad = {}
  <2> SUFFICES ASSUME bad # {} PROVE FALSE
    OBVIOUS
  <2>1. PICK n \in 0..L : n \in bad /\ \A m \in bad : n <= m
    <3>1. bad \in SUBSET (0..L) /\ bad # {}
      OBVIOUS
    <3>2. Min(bad) \in bad /\ \A x \in bad : Min(bad) <= x
      <4> HIDE DEF bad
      <4> QED BY <1>1, <3>1, LeastIsThere
    <3>3. Min(bad) \in 0..L
      <4> HIDE DEF bad
      <4> QED BY <3>1, <3>2
    <3> HIDE DEF bad
    <3> QED BY <3>2, <3>3
  <2>7. PICK i \in 1..(L + 1) : i = L + 1 - n
    <3>1. L + 1 - n \in 1..(L + 1)
      BY <1>1
    <3> QED BY <3>1
  <2>2. i = L + 1 - n /\ i - 1 = L - n
    BY <1>1, <2>7
  <2>3. ASSUME NEW j \in (i + 1)..(L + 1)
        PROVE  Arranged(from[j], Upto(j - 1))
    <3>1. PICK d \in 0..L : d = L + 1 - j
      <4>1. L + 1 - j \in 0..L
        BY <1>1, <2>2
      <4> QED BY <4>1
    <3>3. d < n /\ L + 1 - d = j /\ L - d = j - 1
      BY <1>1, <2>2, <3>1
    <3>2. d \notin bad
      <4>1. ~(n <= d)
        BY <1>1, <3>3
      <4> QED BY <2>1, <4>1
    <3> QED BY <3>2, <3>3
  <2>4. Arranged(FromBy(from, i), Upto(i - 1))
    BY <2>3, FromFits DEF L
  <2>5. from[i] = FromBy(from, i)
    BY <1>6
  <2>6. Fits(n)
    BY <2>2, <2>4, <2>5
  <2> QED BY <2>1, <2>6
<1>8. Arranged(from[1], Upto(0))
  <2>1. L \in 0..L /\ L + 1 - L = 1 /\ L - L = 0
    BY <1>1
  <2>2. Fits(L)
    <3> HIDE DEF Fits
    <3> QED BY <1>7, <2>1
  <2> QED BY <2>1, <2>2
<1>9. Upto(0) = 0
  <2>1. SubSeq(text, 1, 0) = <<>>
    BY SubSeqEmpty
  <2> QED BY <2>1, BytesOfNone DEF Upto
<1> QED BY <1>5, <1>8, <1>9

(* The facets are those of the text, and a text is made of tokens.         *)
LinkInv == text \in Seq(Tokens) /\ LinksFit

LinksOfText == text \in Seq(Tokens) /\ facets = ExtractLinks

LEMMA LinksOfTextFit == LinksOfText => LinkInv
<1> SUFFICES ASSUME LinksOfText PROVE LinkInv
  OBVIOUS
<1>1. text \in Seq(Tokens) /\ Arranged(facets, 0)
  BY LinksExtracted DEF LinksOfText
<1>2. DOMAIN facets = 1..Len(facets)
  BY <1>1 DEF Arranged
<1> QED BY <1>1, <1>2 DEF LinkInv, LinksFit, Arranged

LEMMA LinksStart == LinkInit => LinkInv
<1> SUFFICES ASSUME LinkInit PROVE LinkInv
  OBVIOUS
<1>1. text \in Seq(Tokens) /\ DOMAIN facets = {}
  BY DEF LinkInit
<1> QED BY <1>1 DEF LinkInv, LinksFit

LEMMA LinksGoOn == LinkInv /\ [LinkNext]_linkVars => LinkInv'
<1> SUFFICES ASSUME LinkInv, [LinkNext]_linkVars PROVE LinkInv'
  OBVIOUS
<1>1. ASSUME NEW token \in Tokens, Type(token)
      PROVE  LinksOfText'
  <2>1. text' \in Seq(Tokens)
    BY <1>1, AppendProperties DEF Type, LinkInv
  <2> QED BY <1>1, <2>1 DEF Type, LinksOfText
<1>2. LinksOfText' => LinkInv'
  BY LinksOfTextFit, PTL
<1>3. CASE UNCHANGED linkVars
  <2>1. text' = text /\ facets' = facets
    BY <1>3 DEF linkVars
  <2> QED BY <2>1 DEF LinkInv, LinksFit, FacetFits, PlaceAt
<1> QED BY <1>1, <1>2, <1>3 DEF LinkNext

(* Link facets are in order and apart, begin and end between characters,   *)
(* and leave out of a link only what punctuation and brackets call for:    *)
(* for texts of any length.                                                *)
THEOREM LinksAreFit == SkybaseSpec => []LinksFit
<1>1. SkybaseInit => LinkInv
  BY LinksStart DEF SkybaseInit
<1>2. LinkInv /\ [SkybaseNext]_skybaseVars => LinkInv'
  <2>1. [SkybaseNext]_skybaseVars => [LinkNext]_linkVars
    BY DEF SkybaseNext, skybaseVars
  <2> QED BY <2>1, LinksGoOn
<1>3. LinkInv => LinksFit
  BY DEF LinkInv
<1> QED BY <1>1, <1>2, <1>3, PTL DEF SkybaseSpec

-----------------------------------------------------------------------------
(* SQLite's order of values is a total one.                                *)
Numerals == {Number(n) : n \in Int}
Texts == {Text(s) : s \in Seq(Int)}
Sqls  == {SqlNull} \cup Numerals \cup Texts

(* Texts differ at a first place, or one goes on where the other ends.     *)
LEMMA TextTotal ==
  ASSUME NEW s \in Seq(Int), NEW t \in Seq(Int), s # t
  PROVE  TextBefore(s, t) \/ TextBefore(t, s)
<1> DEFINE Same(i) == i <= Len(s) /\ i <= Len(t) /\ s[i] = t[i]
           bad == {i \in 0..(Len(s) + 1) : i # 0 /\ ~Same(i)}
<1>1. bad \in SUBSET (0..(Len(s) + 1)) /\ 0 \notin bad /\ Len(s) + 1 \in bad /\ Len(s) + 1 \in Nat
  OBVIOUS
<1>2. PICK n \in 1..(Len(s) + 1) : n \in bad /\ \A m \in 0..(n - 1) : m \notin bad
  <2> HIDE DEF bad
  <2> QED BY <1>1, FirstBad
<1>3. ~Same(n) /\ \A j \in 1..(n - 1) : Same(j)
  <2>1. \A j \in 1..(n - 1) : j \in 0..(n - 1) /\ j \in 0..(Len(s) + 1) /\ j # 0
    OBVIOUS
  <2> HIDE DEF Same
  <2> QED BY <1>2, <2>1
<1>4. n - 1 <= Len(s) /\ n - 1 <= Len(t)
  <2>1. CASE n = 1
    BY <2>1
  <2>2. CASE n # 1
    <3>1. n - 1 \in 1..(n - 1)
      BY <2>2
    <3> QED BY <1>3, <3>1
  <2> QED BY <2>1, <2>2
<1>5. \A j \in 1..(n - 1) : j <= Len(s) /\ j <= Len(t) /\ s[j] = t[j] /\ t[j] = s[j]
  BY <1>3
<1> HIDE DEF bad
<1>6. ASSUME n <= Len(t), n > Len(s) \/ s[n] < t[n]
      PROVE  TextBefore(s, t)
  <2>1. n \in 1..Len(t)
    BY <1>6
  <2> HIDE DEF Same
  <2> QED BY <1>5, <1>6, <2>1 DEF TextBefore
<1>7. ASSUME n <= Len(s), n > Len(t) \/ t[n] < s[n]
      PROVE  TextBefore(t, s)
  <2>1. n \in 1..Len(s)
    BY <1>7
  <2> HIDE DEF Same
  <2> QED BY <1>5, <1>7, <2>1 DEF TextBefore
<1>8. CASE n <= Len(s) /\ n <= Len(t)
  <2>1. s[n] \in Int /\ t[n] \in Int /\ s[n] # t[n]
    BY <1>3, <1>8
  <2>2. s[n] < t[n] \/ t[n] < s[n]
    BY <2>1
  <2> QED BY <1>6, <1>7, <1>8, <2>2
<1>9. CASE n > Len(s) /\ n > Len(t)
  <2>1. Len(s) = Len(t) /\ Len(s) = n - 1
    BY <1>4, <1>9
  <2>2. \A j \in 1..Len(s) : s[j] = t[j]
    BY <1>5, <2>1
  <2>3. s = [j \in 1..Len(s) |-> s[j]] /\ t = [j \in 1..Len(t) |-> t[j]]
    OBVIOUS
  <2>4. s = t
    BY <2>1, <2>2, <2>3
  <2> QED BY <2>4
<1>10. n > Len(s) \/ n <= Len(s)
  OBVIOUS
<1>11. n > Len(t) \/ n <= Len(t)
  OBVIOUS
<1> QED BY <1>6, <1>7, <1>8, <1>9, <1>10, <1>11

LEMMA TextStrict ==
  ASSUME NEW s \in Seq(Int)
  PROVE  ~TextBefore(s, s)
BY DEF TextBefore

LEMMA TextTransitive ==
  ASSUME NEW s \in Seq(Int), NEW t \in Seq(Int), NEW u \in Seq(Int),
         TextBefore(s, t), TextBefore(t, u)
  PROVE  TextBefore(s, u)
<1>1. PICK i \in 1..Len(t) :
        /\ \A j \in 1..(i - 1) : j <= Len(s) /\ s[j] = t[j]
        /\ i > Len(s) \/ s[i] < t[i]
  BY DEF TextBefore
<1>2. PICK k \in 1..Len(u) :
        /\ \A j \in 1..(k - 1) : j <= Len(t) /\ t[j] = u[j]
        /\ k > Len(t) \/ t[k] < u[k]
  BY DEF TextBefore
<1>3. CASE i < k
  <2>1. i \in 1..(k - 1) /\ i \in 1..Len(u) /\ t[i] = u[i]
    BY <1>2, <1>3
  <2>2. \A j \in 1..(i - 1) : j \in 1..(k - 1) /\ j <= Len(s) /\ s[j] = u[j]
    BY <1>1, <1>2, <1>3
  <2> QED BY <1>1, <2>1, <2>2 DEF TextBefore
<1>4. CASE k < i
  <2>1. k \in 1..(i - 1) /\ k <= Len(s) /\ s[k] = t[k] /\ t[k] < u[k]
    BY <1>1, <1>2, <1>4
  <2>2. \A j \in 1..(k - 1) : j \in 1..(i - 1) /\ j <= Len(s) /\ s[j] = u[j]
    BY <1>1, <1>2, <1>4
  <2> QED BY <1>2, <2>1, <2>2 DEF TextBefore
<1>5. CASE i = k
  <2>1. t[i] < u[i] /\ t[i] \in Int /\ u[i] \in Int
    BY <1>1, <1>2, <1>5
  <2>2. i > Len(s) \/ s[i] < u[i]
    <3>1. CASE i <= Len(s)
      <4>1. s[i] \in Int /\ s[i] < t[i]
        BY <1>1, <3>1
      <4> QED BY <2>1, <4>1
    <3> QED BY <3>1
  <2>3. \A j \in 1..(i - 1) : j <= Len(s) /\ s[j] = u[j]
    BY <1>1, <1>2, <1>5
  <2> QED BY <1>2, <1>5, <2>2, <2>3 DEF TextBefore
<1> QED BY <1>3, <1>4, <1>5

(* A value of SQLite is what its class says.                               *)
LEMMA SqlShape ==
  ASSUME NEW a \in Sqls
  PROVE  /\ a.class \in 0..2 /\ a.n \in Int /\ a.s \in Seq(Int)
         /\ a.class = 0 => a = SqlNull
         /\ a.class = 1 => a = Number(a.n)
         /\ a.class = 2 => a = Text(a.s)
<1>1. CASE a = SqlNull
  <2>1. <<>> \in Seq(Int)
    OBVIOUS
  <2> QED BY <1>1, <2>1 DEF SqlNull, Sql
<1>2. CASE a \in Numerals
  <2>1. PICK n \in Int : a = Number(n)
    BY <1>2 DEF Numerals
  <2> QED BY <2>1 DEF Number, Sql
<1>3. CASE a \in Texts
  <2>1. PICK s \in Seq(Int) : a = Text(s)
    BY <1>3 DEF Texts
  <2> QED BY <2>1 DEF Text, Sql
<1> QED BY <1>1, <1>2, <1>3 DEF Sqls

LEMMA SqlTotal ==
  ASSUME NEW a \in Sqls, NEW b \in Sqls, a # b
  PROVE  SqlBefore(a, b) \/ SqlBefore(b, a)
<1>1. a.class = b.class \/ a.class < b.class \/ b.class < a.class
  BY SqlShape
<1>2. CASE a.class = b.class /\ a.class = 2
  <2>1. a.s # b.s /\ a.s \in Seq(Int) /\ b.s \in Seq(Int)
    BY <1>2, SqlShape
  <2> QED BY <1>2, <2>1, TextTotal DEF SqlBefore
<1>3. CASE a.class = b.class /\ a.class = 1
  <2>1. a.n # b.n /\ a.n \in Int /\ b.n \in Int
    BY <1>3, SqlShape
  <2> QED BY <1>3, <2>1 DEF SqlBefore
<1>4. CASE a.class = b.class /\ a.class = 0
  BY <1>4, SqlShape
<1>5. CASE a.class # b.class
  BY <1>1, <1>5 DEF SqlBefore
<1> QED BY <1>2, <1>3, <1>4, <1>5, SqlShape

LEMMA SqlTransitive ==
  ASSUME NEW a \in Sqls, NEW b \in Sqls, NEW c \in Sqls, SqlBefore(a, b), SqlBefore(b, c)
  PROVE  SqlBefore(a, c)
<1>1. /\ a.class \in 0..2 /\ b.class \in 0..2 /\ c.class \in 0..2
      /\ a.n \in Int /\ b.n \in Int /\ c.n \in Int
      /\ a.s \in Seq(Int) /\ b.s \in Seq(Int) /\ c.s \in Seq(Int)
  BY SqlShape
<1>2. CASE a.class = 2 /\ b.class = 2 /\ c.class = 2
  <2>1. TextBefore(a.s, b.s) /\ TextBefore(b.s, c.s)
    BY <1>2 DEF SqlBefore
  <2> QED BY <1>1, <1>2, <2>1, TextTransitive DEF SqlBefore
<1>3. CASE ~(a.class = 2 /\ b.class = 2 /\ c.class = 2)
  BY <1>1, <1>3 DEF SqlBefore
<1> QED BY <1>2, <1>3

LEMMA SqlStrict == \A a \in Sqls : ~SqlBefore(a, a)
BY SqlShape, TextStrict DEF SqlBefore

(* A value between two others is on the far side of one of them.           *)
LEMMA SqlBetween ==
  ASSUME NEW a \in Sqls, NEW b \in Sqls, NEW c \in Sqls, SqlBefore(c, a)
  PROVE  SqlBefore(c, b) \/ SqlBefore(b, a)
BY SqlTotal, SqlTransitive

-----------------------------------------------------------------------------
(* The order of ORDER BY: rows that are not out of order pairwise, one     *)
(* after the other, are not out of order anywhere.                         *)
Sortable(stmt, T) ==
  /\ DOMAIN stmt.order = 1..Len(stmt.order) /\ Len(stmt.order) \in Nat
  /\ \A k \in DOMAIN stmt.order : /\ stmt.order[k].desc \in BOOLEAN
                                  /\ \A x \in T : SortValue(stmt, k, x) \in Sqls

LEMMA SortsBetween ==
  ASSUME NEW stmt, NEW T, Sortable(stmt, T), NEW a \in T, NEW b \in T, NEW c \in T,
         SortsBefore(stmt, c, a)
  PROVE  SortsBefore(stmt, c, b) \/ SortsBefore(stmt, b, a)
<1> DEFINE V(k, x) == SortValue(stmt, k, x)
           m == Len(stmt.order)
<1>1. PICK k \in 1..m :
        /\ \A j \in 1..(k - 1) : V(j, c) = V(j, a)
        /\ IF stmt.order[k].desc THEN SqlBefore(V(k, a), V(k, c)) ELSE SqlBefore(V(k, c), V(k, a))
  BY DEF SortsBefore, Sortable
<1>2. m \in Nat /\ DOMAIN stmt.order = 1..m
  BY DEF Sortable
<1>3. \A j \in 1..m : /\ V(j, a) \in Sqls /\ V(j, b) \in Sqls /\ V(j, c) \in Sqls
                      /\ stmt.order[j].desc \in BOOLEAN
  BY DEF Sortable
<1> HIDE DEF V, m
<1>4. CASE \A j \in 1..(k - 1) : V(j, b) = V(j, a)
  <2>1. \A j \in 1..(k - 1) : V(j, c) = V(j, b)
    BY <1>1, <1>4
  <2>2. CASE stmt.order[k].desc
    <3>1. SqlBefore(V(k, a), V(k, b)) \/ SqlBefore(V(k, b), V(k, c))
      BY <1>1, <1>3, <2>2, SqlBetween
    <3> QED BY <1>2, <1>4, <2>1, <2>2, <3>1 DEF SortsBefore, V
  <2>3. CASE ~stmt.order[k].desc
    <3>1. SqlBefore(V(k, c), V(k, b)) \/ SqlBefore(V(k, b), V(k, a))
      BY <1>1, <1>3, <2>3, SqlBetween
    <3> QED BY <1>2, <1>4, <2>1, <2>3, <3>1 DEF SortsBefore, V
  <2> QED BY <2>2, <2>3
<1>5. CASE \E j \in 1..(k - 1) : V(j, b) # V(j, a)
  <2> DEFINE bad == {j \in 0..(k - 1) : j # 0 /\ V(j, b) # V(j, a)}
  <2>1. bad \in SUBSET (0..(k - 1)) /\ 0 \notin bad /\ bad # {} /\ k - 1 \in Nat
    BY <1>5, <1>2
  <2>2. PICK n \in 1..(k - 1) : n \in bad /\ \A j \in 0..(n - 1) : j \notin bad
    <3> HIDE DEF bad
    <3> QED BY <2>1, FirstBad
  <2>3. V(n, b) # V(n, a) /\ \A j \in 1..(n - 1) : V(j, b) = V(j, a)
    <3>1. \A j \in 1..(n - 1) : j \in 0..(n - 1) /\ j \in 0..(k - 1) /\ j # 0
      BY <1>2
    <3> QED BY <2>2, <3>1
  <2>4. n \in 1..m /\ V(n, c) = V(n, a) /\ \A j \in 1..(n - 1) : V(j, c) = V(j, b)
    <3>1. n \in 1..m /\ \A j \in 1..(n - 1) : j \in 1..(k - 1)
      BY <1>2
    <3> QED BY <1>1, <2>3, <3>1
  <2>5. SqlBefore(V(n, b), V(n, a)) \/ SqlBefore(V(n, a), V(n, b))
    BY <1>3, <2>3, <2>4, SqlTotal
  <2>6. SqlBefore(V(n, b), V(n, a)) \/ SqlBefore(V(n, c), V(n, b))
    BY <2>4, <2>5
  <2>7. SqlBefore(V(n, a), V(n, b)) \/ SqlBefore(V(n, b), V(n, c))
    BY <2>4, <2>5
  <2>8. CASE stmt.order[n].desc
    BY <1>2, <2>3, <2>4, <2>7, <2>8 DEF SortsBefore, V
  <2>9. CASE ~stmt.order[n].desc
    BY <1>2, <2>3, <2>4, <2>6, <2>9 DEF SortsBefore, V
  <2> QED BY <2>8, <2>9
<1> QED BY <1>4, <1>5

LEMMA SortedThroughout ==
  ASSUME NEW stmt, NEW T, Sortable(stmt, T), NEW s \in Seq(T),
         \A i \in 1..(Len(s) - 1) : ~SortsBefore(stmt, s[i + 1], s[i])
  PROVE  \A i, j \in 1..Len(s) : i < j => ~SortsBefore(stmt, s[j], s[i])
<1> SUFFICES ASSUME NEW i \in 1..Len(s), NEW j \in 1..Len(s), i < j, SortsBefore(stmt, s[j], s[i])
             PROVE  FALSE
  OBVIOUS
<1> DEFINE bad == {d \in 0..(Len(s) - i) : d # 0 /\ SortsBefore(stmt, s[i + d], s[i])}
<1>1. bad \in SUBSET (0..(Len(s) - i)) /\ 0 \notin bad /\ Len(s) - i \in Nat
  OBVIOUS
<1>2. j - i \in bad
  <2>1. j - i \in 0..(Len(s) - i) /\ j - i # 0 /\ i + (j - i) = j
    OBVIOUS
  <2> QED BY <2>1
<1>3. PICK n \in 1..(Len(s) - i) : n \in bad /\ \A d \in 0..(n - 1) : d \notin bad
  <2> HIDE DEF bad
  <2> QED BY <1>1, <1>2, FirstBad
<1>4. /\ i + n \in 1..Len(s) /\ i + n - 1 \in 1..(Len(s) - 1) /\ (i + n - 1) + 1 = i + n
      /\ i + (n - 1) = i + n - 1 /\ n - 1 \in 0..(n - 1) /\ n - 1 \in 0..(Len(s) - i)
      /\ i + n - 1 \in 1..Len(s)
  OBVIOUS
<1>5. SortsBefore(stmt, s[i + n], s[i]) /\ ~SortsBefore(stmt, s[i + n], s[i + n - 1])
  BY <1>3, <1>4
<1>6. s[i] \in T /\ s[i + n] \in T /\ s[i + n - 1] \in T
  BY <1>4
<1>7. SortsBefore(stmt, s[i + n - 1], s[i])
  BY <1>5, <1>6, SortsBetween
<1>8. n - 1 # 0
  BY <1>4, <1>5, <1>7
<1>9. n - 1 \in bad
  BY <1>4, <1>7, <1>8
<1> QED BY <1>3, <1>4, <1>9

-----------------------------------------------------------------------------
(* FlattenSeq, place by place: the k-th part begins behind off[k - 1].     *)
FlatBy(off, parts) ==
  LET flat == FlattenSeq(parts)
  IN /\ off[0] = 0 /\ Len(flat) = off[Len(parts)]
     /\ \A k \in 1..Len(parts) : /\ off[k] = off[k - 1] + Len(parts[k])
                                 /\ off[k] <= Len(flat)
                                 /\ \A j \in 1..Len(parts[k]) : flat[off[k - 1] + j] = parts[k][j]

(* One sequence behind another, place by place.                            *)
LEMMA ConcatPlaces ==
  ASSUME NEW T, NEW x \in Seq(T), NEW y \in Seq(T)
  PROVE  /\ x \o y \in Seq(T) /\ Len(x) \in Nat /\ Len(y) \in Nat /\ Len(x \o y) = Len(x) + Len(y)
         /\ \A i \in 1..Len(x) : (x \o y)[i] = x[i]
         /\ \A i \in 1..Len(y) : (x \o y)[Len(x) + i] = y[i]
<1>1. /\ Len(x) \in Nat /\ Len(y) \in Nat /\ Len(x \o y) = Len(x) + Len(y)
      /\ \A i \in 1..Len(x) : (x \o y)[i] = x[i]
  BY ConcatProperties
<1>2. ASSUME NEW i \in 1..Len(y)
      PROVE  (x \o y)[Len(x) + i] = y[i]
  <2>1. Len(x) + i \in 1..(Len(x) + Len(y)) /\ ~(Len(x) + i <= Len(x)) /\ Len(x) + i - Len(x) = i
    BY <1>1
  <2>2. (x \o y)[Len(x) + i] = y[Len(x) + i - Len(x)]
    BY <2>1, ConcatProperties
  <2> QED BY <2>1, <2>2
<1>3. x \o y \in Seq(T)
  BY ConcatProperties
<1> QED BY <1>1, <1>2, <1>3

(* The sequences that join the first parts, one by one: f[i] joins i of    *)
(* them.                                                                   *)
JoinedBy(f, parts) ==
  \A i \in 1..Len(parts) : f[i] = IF i = 1 THEN parts[i] ELSE f[i - 1] \o parts[i]

LEMMA JoinedExists ==
  ASSUME NEW T, NEW parts \in Seq(Seq(T))
  PROVE  \E f \in [1..Len(parts) -> Seq(T)] : JoinedBy(f, parts)
<1> DEFINE N == Len(parts)
           G == [a \in Seq(T) \X (1..N) |-> a[1] \o parts[a[2]]]
<1>1. N \in Nat /\ <<>> \in Seq(T) /\ \A k \in 1..N : parts[k] \in Seq(T)
  OBVIOUS
<1>2. \A x \in Seq(T), n \in 1..N : G[<<x, n>>] = x \o parts[n]
  OBVIOUS
<1>3. \A x \in Seq(T), n \in 1..N : G[<<x, n>>] \in Seq(T)
  BY <1>1, <1>2, ConcatProperties
<1> HIDE DEF G, N
<1>4. HasRecursion(Seq(T), <<>>, G, N)
  BY <1>1, <1>3, Recursion DEF StaysIn
<1>5. PICK f \in [0..N -> Seq(T)] :
        \A k \in 0..N : f[k] = IF k = 0 THEN <<>> ELSE G[<<f[k - 1], k>>]
  BY <1>4 DEF HasRecursion
<1> DEFINE g == [k \in 1..N |-> f[k]]
<1>6. ASSUME NEW k \in 1..N
      PROVE  g[k] \in Seq(T) /\ g[k] = IF k = 1 THEN parts[k] ELSE g[k - 1] \o parts[k]
  <2>1. k \in 0..N /\ k - 1 \in 0..N /\ k # 0 /\ 0 \in 0..N
    BY <1>1
  <2>2. f[k] = f[k - 1] \o parts[k] /\ f[k] \in Seq(T)
    <3>1. f[k - 1] \in Seq(T) /\ f[k] = G[<<f[k - 1], k>>]
      BY <1>5, <2>1
    <3> QED BY <1>2, <2>1, <3>1
  <2>3. CASE k = 1
    <3>1. f[k - 1] = <<>>
      <4>1. k - 1 = 0
        BY <2>3
      <4>2. f[k - 1] = IF k - 1 = 0 THEN <<>> ELSE G[<<f[k - 1 - 1], k - 1>>]
        BY <1>5, <2>1
      <4> QED BY <4>1, <4>2
    <3>2. <<>> \o parts[k] = parts[k]
      BY <1>1, ConcatEmptySeq
    <3>3. f[k] = parts[k]
      BY <2>2, <3>1, <3>2
    <3> QED BY <2>2, <2>3, <3>3
  <2>4. CASE k # 1
    <3>1. k - 1 \in 1..N
      BY <1>1, <2>4
    <3>2. g[k] = f[k] /\ g[k - 1] = f[k - 1]
      BY <3>1
    <3> HIDE DEF g
    <3> QED BY <2>2, <2>4, <3>2
  <2> QED BY <2>3, <2>4
<1>7. g \in [1..N -> Seq(T)]
  BY <1>6
<1> HIDE DEF g
<1> QED BY <1>6, <1>7 DEF JoinedBy, N

LEMMA JoinedIsFlat ==
  ASSUME NEW T, NEW parts \in Seq(Seq(T)), parts # <<>>
  PROVE  \E f \in [1..Len(parts) -> Seq(T)] :
           JoinedBy(f, parts) /\ FlattenSeq(parts) = f[Len(parts)]
<1> DEFINE flatten[i \in 1..Len(parts)] == IF i = 1 THEN parts[i] ELSE flatten[i - 1] \o parts[i]
<1>1. PICK f \in [1..Len(parts) -> Seq(T)] : JoinedBy(f, parts)
  BY JoinedExists
<1>2. f = [i \in 1..Len(parts) |-> IF i = 1 THEN parts[i] ELSE f[i - 1] \o parts[i]]
  BY <1>1 DEF JoinedBy
<1>3. flatten = [i \in 1..Len(parts) |-> IF i = 1 THEN parts[i] ELSE flatten[i - 1] \o parts[i]]
  BY <1>2
<1>4. Len(parts) # 0 /\ Len(parts) \in Nat
  OBVIOUS
<1>5. FlattenSeq(parts) = flatten[Len(parts)]
  BY <1>4 DEF FlattenSeq
<1> HIDE DEF flatten
<1> DEFINE bad == {i \in 0..Len(parts) : i # 0 /\ flatten[i] # f[i]}
<1>6. bad = {}
  <2> SUFFICES ASSUME bad # {} PROVE FALSE
    OBVIOUS
  <2>1. bad \in SUBSET (0..Len(parts)) /\ 0 \notin bad
    OBVIOUS
  <2>2. PICK n \in 1..Len(parts) : n \in bad /\ \A m \in 0..(n - 1) : m \notin bad
    <3> HIDE DEF bad
    <3> QED BY <1>4, <2>1, FirstBad
  <2>3. flatten[n] # f[n]
    BY <2>2
  <2>4. CASE n = 1
    BY <1>2, <1>3, <2>3, <2>4
  <2>5. CASE n # 1
    <3>1. n - 1 \in 0..(n - 1) /\ n - 1 \in 0..Len(parts) /\ n - 1 # 0
      BY <1>4, <2>5
    <3>2. flatten[n - 1] = f[n - 1]
      BY <2>2, <3>1
    <3>3. flatten[n] = flatten[n - 1] \o parts[n]
      BY <1>3, <2>5
    <3>4. f[n] = f[n - 1] \o parts[n]
      BY <1>2, <2>5
    <3> QED BY <2>3, <3>2, <3>3, <3>4
  <2> QED BY <2>4, <2>5
<1>7. flatten[Len(parts)] = f[Len(parts)]
  <2>1. Len(parts) \in 0..Len(parts)
    BY <1>4
  <2> QED BY <1>4, <1>6, <2>1
<1> QED BY <1>1, <1>5, <1>7

LEMMA FlatPlaces ==
  ASSUME NEW T, NEW parts \in Seq(Seq(T))
  PROVE  FlattenSeq(parts) \in Seq(T) /\ \E off \in [0..Len(parts) -> Nat] : FlatBy(off, parts)
<1> DEFINE N == Len(parts)
<1>1. N \in Nat /\ \A k \in 1..N : parts[k] \in Seq(T) /\ Len(parts[k]) \in Nat
  OBVIOUS
<1>2. CASE parts = <<>>
  <2>1. FlattenSeq(parts) = <<>> /\ Len(parts) = 0
    BY <1>2 DEF FlattenSeq
  <2> DEFINE off == [k \in 0..0 |-> 0]
  <2>2. off \in [0..Len(parts) -> Nat] /\ off[0] = 0
    BY <2>1
  <2> HIDE DEF off
  <2>3. FlatBy(off, parts)
    BY <2>1, <2>2 DEF FlatBy
  <2> QED BY <2>1, <2>2, <2>3
<1>3. CASE parts # <<>>
  <2>1. PICK f \in [1..N -> Seq(T)] : JoinedBy(f, parts) /\ FlattenSeq(parts) = f[N]
    BY <1>3, JoinedIsFlat
  <2> DEFINE off == [k \in 0..N |-> IF k = 0 THEN 0 ELSE Len(f[k])]
  <2>2. /\ off \in [0..N -> Nat] /\ off[0] = 0
        /\ \A k \in 1..N : off[k] = Len(f[k]) /\ off[k - 1] \in Nat
    <3>1. \A k \in 1..N : k - 1 = 0 \/ k - 1 \in 1..N
      BY <1>1
    <3>2. \A k \in 1..N : f[k] \in Seq(T) /\ Len(f[k]) \in Nat
      <4> HIDE DEF N
      <4>1. \A k \in 1..N : f[k] \in Seq(T)
        BY <2>1
      <4> QED BY <4>1, LenProperties
    <3> QED BY <1>1, <3>1, <3>2
  <2> HIDE DEF off, N
  <2>3. ASSUME NEW k \in 1..N
        PROVE  /\ off[k] = off[k - 1] + Len(parts[k])
               /\ \A j \in 1..Len(parts[k]) : f[k][off[k - 1] + j] = parts[k][j]
               /\ k # 1 => \A i \in 1..off[k - 1] : f[k][i] = f[k - 1][i]
    <3>1. CASE k = 1
      <4>1. f[k] = parts[k]
        BY <2>1, <3>1 DEF JoinedBy, N
      <4>3. off[k - 1] = 0 /\ off[k] = Len(f[k])
        <5>1. k - 1 = 0
          BY <3>1
        <5> QED BY <2>2, <5>1
      <4>2. \A j \in 1..Len(parts[k]) : 0 + j = j
        BY <1>1
      <4> QED BY <1>1, <3>1, <4>1, <4>2, <4>3
    <3>2. CASE k # 1
      <4>1. k - 1 \in 1..N
        BY <1>1, <3>2
      <4>2. f[k] = f[k - 1] \o parts[k] /\ f[k - 1] \in Seq(T) /\ parts[k] \in Seq(T)
        BY <1>1, <2>1, <3>2, <4>1 DEF JoinedBy, N
      <4>3. off[k] = Len(f[k]) /\ off[k - 1] = Len(f[k - 1])
        BY <2>2, <4>1
      <4> DEFINE x == f[k - 1]
                 y == parts[k]
      <4>4. x \in Seq(T) /\ y \in Seq(T) /\ f[k] = x \o y /\ off[k - 1] = Len(x)
            /\ off[k] = Len(f[k])
        BY <4>2, <4>3
      <4> HIDE DEF x, y
      <4>5. /\ off[k] = off[k - 1] + Len(y)
            /\ \A i \in 1..off[k - 1] : f[k][i] = x[i]
            /\ \A j \in 1..Len(y) : f[k][off[k - 1] + j] = y[j]
        BY <4>4, ConcatPlaces
      <4> QED BY <4>5 DEF x, y
    <3> QED BY <3>1, <3>2
  <2> DEFINE Holding(n) ==
               \A k \in 1..n : /\ off[k] <= off[n]
                               /\ \A j \in 1..Len(parts[k]) : f[n][off[k - 1] + j] = parts[k][j]
             bad == {n \in 0..N : n # 0 /\ ~Holding(n)}
  <2>4. bad = {}
    <3> SUFFICES ASSUME bad # {} PROVE FALSE
      OBVIOUS
    <3>1. bad \in SUBSET (0..N) /\ 0 \notin bad
      OBVIOUS
    <3>2. PICK n \in 1..N : n \in bad /\ \A m \in 0..(n - 1) : m \notin bad
      <4> HIDE DEF bad
      <4> QED BY <1>1, <3>1, FirstBad
    <3>3. ~Holding(n)
      BY <3>2
    <3>4. n # 1 => Holding(n - 1) /\ n - 1 \in 1..N
      <4>1. n # 1 => n - 1 \in 0..(n - 1) /\ n - 1 \in 0..N /\ n - 1 # 0 /\ n - 1 \in 1..N
        BY <1>1
      <4> HIDE DEF Holding
      <4> QED BY <3>2, <4>1
    <3>5. ASSUME NEW k \in 1..n
          PROVE  /\ off[k] <= off[n]
                 /\ \A j \in 1..Len(parts[k]) : f[n][off[k - 1] + j] = parts[k][j]
      <4>1. CASE k = n
        <5>1. off[n] \in Nat
          BY <2>2
        <5> QED BY <2>3, <4>1, <5>1
      <4>2. CASE k # n
        <5>1. n # 1 /\ k \in 1..(n - 1) /\ k \in 1..N /\ n - 1 \in 1..N
          BY <1>1, <4>2
        <5>2. /\ off[k] <= off[n - 1] /\ off[k] = off[k - 1] + Len(parts[k])
              /\ \A j \in 1..Len(parts[k]) : f[n - 1][off[k - 1] + j] = parts[k][j]
          BY <2>3, <3>4, <5>1
        <5>3. /\ off[k] \in Nat /\ off[k - 1] \in Nat /\ off[n] \in Nat /\ off[n - 1] \in Nat
              /\ Len(parts[k]) \in Nat /\ Len(parts[n]) \in Nat
          <6>1. k \in 0..N /\ k - 1 \in 0..N /\ n \in 0..N /\ n - 1 \in 0..N
            BY <1>1, <5>1
          <6> QED BY <1>1, <2>2, <5>1, <6>1
        <5>4. off[n - 1] <= off[n]
          <6> DEFINE c == off[n - 1]
                     d == off[n]
                     l == Len(parts[n])
          <6>1. d = c + l /\ c \in Nat /\ l \in Nat
            BY <2>3, <5>3
          <6> HIDE DEF c, d, l
          <6>2. c <= d
            BY <6>1
          <6> QED BY <6>2 DEF c, d
        <5>5. ASSUME NEW j \in 1..Len(parts[k])
              PROVE  f[n][off[k - 1] + j] = parts[k][j]
          <6>1. off[k - 1] + j \in 1..off[n - 1]
            <7> DEFINE a == off[k - 1]
                       b == off[k]
                       c == off[n - 1]
                       l == Len(parts[k])
            <7>1. a \in Nat /\ b \in Nat /\ c \in Nat /\ l \in Nat /\ b <= c /\ b = a + l
                  /\ j \in 1..l
              BY <5>2, <5>3
            <7> HIDE DEF a, b, c, l
            <7>2. a + j \in 1..c
              <8>1. j \in Nat /\ 1 <= j /\ j <= l
                BY <7>1
              <8>2. a + j <= a + l
                BY <7>1, <8>1
              <8>3. a + l <= c /\ a + j \in Nat /\ 1 <= a + j
                BY <7>1, <8>1
              <8> QED BY <7>1, <8>1, <8>2, <8>3
            <7> QED BY <7>2 DEF a, b, c, l
          <6>2. f[n][off[k - 1] + j] = f[n - 1][off[k - 1] + j]
            BY <2>3, <5>1, <6>1
          <6> QED BY <5>2, <6>2
        <5>6. off[k] <= off[n]
          <6> DEFINE b == off[k]
                     c == off[n - 1]
                     d == off[n]
          <6>1. b \in Nat /\ c \in Nat /\ d \in Nat /\ b <= c /\ c <= d
            BY <5>2, <5>3, <5>4
          <6> HIDE DEF b, c, d
          <6>2. b <= d
            BY <6>1
          <6> QED BY <6>2 DEF b, d
        <5> QED BY <5>5, <5>6
      <4> QED BY <4>1, <4>2
    <3> QED BY <3>3, <3>5
  <2>5. N \in 1..N /\ N # 0
    BY <1>1, <1>3 DEF N
  <2>6. Holding(N)
    <3>1. N \in 0..N
      BY <1>1
    <3> HIDE DEF Holding
    <3> QED BY <2>4, <2>5, <3>1
  <2>7. Len(FlattenSeq(parts)) = off[N] /\ FlattenSeq(parts) \in Seq(T)
    BY <2>1, <2>2, <2>5
  <2>8. FlatBy(off, parts)
    BY <2>1, <2>2, <2>3, <2>6, <2>7 DEF FlatBy, N
  <2> QED BY <2>2, <2>7, <2>8 DEF N
<1> QED BY <1>2, <1>3

-----------------------------------------------------------------------------
(* LIKE, place by place from the end of the pattern.                       *)
LikeAt(pattern, escaping, s, i, next, second) ==
  IF i > Len(pattern) THEN {Len(s) + 1}
  ELSE IF escaping /\ pattern[i] = Escape /\ i < Len(pattern)
    THEN {j \in 1..Len(s) : Fold(s[j]) = Fold(pattern[i + 1]) /\ j + 1 \in second}
  ELSE IF pattern[i] = AnyText
    THEN {j \in 1..(Len(s) + 1) : \E k \in next : j <= k}
  ELSE {j \in 1..Len(s) : /\ pattern[i] = AnyChar \/ Fold(pattern[i]) = Fold(s[j])
                         /\ j + 1 \in next}

LikeFrom(f, pattern, escaping, s) ==
  \A i \in 1..(Len(pattern) + 2) : f[i] = LikeAt(pattern, escaping, s, i, f[i + 1], f[i + 2])

(* There is a function that is what Like's recursion says, at every place. *)
LEMMA LikeExists ==
  ASSUME NEW pattern \in Seq(Int), NEW escaping \in BOOLEAN, NEW s \in Seq(Int)
  PROVE  \E f : /\ f = [i \in 1..(Len(pattern) + 2) |-> f[i]]
                /\ LikeFrom(f, pattern, escaping, s)
<1> DEFINE L == Len(pattern)
           S == SUBSET (1..(Len(s) + 1))
           P == S \X S
           F(i, a, b) == LikeAt(pattern, escaping, s, i, a, b)
           e == <<{Len(s) + 1}, {Len(s) + 1}>>
           G == [a \in P \X (1..L) |-> <<F(L + 1 - a[2], a[1][1], a[1][2]), a[1][1]>>]
<1>1. L \in Nat /\ Len(s) \in Nat /\ {Len(s) + 1} \in S
  OBVIOUS
<1>2. \A i, a, b : F(i, a, b) \in S
  <2> TAKE i, a, b
  <2>1. \A C : {j \in 1..Len(s) : j \in C} \in S /\ {j \in 1..(Len(s) + 1) : j \in C} \in S
    BY <1>1
  <2>2. {j \in 1..Len(s) : Fold(s[j]) = Fold(pattern[i + 1]) /\ j + 1 \in b} \in S
    BY <1>1
  <2>3. {j \in 1..(Len(s) + 1) : \E k \in a : j <= k} \in S
    OBVIOUS
  <2>4. {j \in 1..Len(s) : /\ pattern[i] = AnyChar \/ Fold(pattern[i]) = Fold(s[j])
                          /\ j + 1 \in a} \in S
    BY <1>1
  <2> HIDE DEF S
  <2> QED BY <1>1, <2>2, <2>3, <2>4 DEF LikeAt
<1> HIDE DEF S, F
<1>3. \A a \in P, n \in 1..L : G[<<a, n>>] = <<F(L + 1 - n, a[1], a[2]), a[1]>>
  OBVIOUS
<1>4. \A a \in P, n \in 1..L : G[<<a, n>>] \in P
  BY <1>2, <1>3
<1>5. e \in P
  BY <1>1
<1> HIDE DEF G, P, L, e
<1>6. HasRecursion(P, e, G, L)
  BY <1>1, <1>4, <1>5, Recursion DEF StaysIn
<1>7. PICK r \in [0..L -> P] : \A k \in 0..L : r[k] = IF k = 0 THEN e ELSE G[<<r[k - 1], k>>]
  BY <1>6 DEF HasRecursion
<1> DEFINE f == [i \in 1..(L + 2) |-> IF i = L + 2 THEN {Len(s) + 1} ELSE r[L + 1 - i][1]]
<1>8. f[L + 2] = {Len(s) + 1} /\ \A k \in 0..L : f[L + 1 - k] = r[k][1]
  <2>1. L + 2 \in 1..(L + 2)
    BY <1>1
  <2>2. ASSUME NEW k \in 0..L
        PROVE  f[L + 1 - k] = r[k][1]
    <3>1. L + 1 - k \in 1..(L + 2) /\ L + 1 - k # L + 2 /\ L + 1 - (L + 1 - k) = k
      BY <1>1
    <3> QED BY <3>1
  <2> QED BY <2>1, <2>2
<1>9. f = [i \in 1..(L + 2) |-> f[i]]
  OBVIOUS
<1> HIDE DEF f
<1>10. \A k \in 0..L : r[k][2] = f[L + 2 - k]
  <2> TAKE k \in 0..L
  <2>1. CASE k = 0
    <3>1. r[0] = e
      <4>1. 0 \in 0..L
        BY <1>1
      <4> QED BY <1>7, <4>1
    <3>2. e[2] = {Len(s) + 1} /\ L + 2 - k = L + 2
      BY <1>1, <2>1 DEF e
    <3> QED BY <1>8, <2>1, <3>1, <3>2
  <2>2. CASE k # 0
    <3>1. k \in 1..L /\ k - 1 \in 0..L /\ L + 1 - (k - 1) = L + 2 - k
      BY <1>1, <2>2
    <3>2. r[k - 1] \in P /\ r[k] = G[<<r[k - 1], k>>]
      BY <1>7, <2>2, <3>1
    <3>3. r[k][2] = r[k - 1][1]
      BY <1>3, <3>1, <3>2
    <3>4. f[L + 1 - (k - 1)] = r[k - 1][1]
      BY <1>8, <3>1
    <3> QED BY <3>1, <3>3, <3>4
  <2> QED BY <2>1, <2>2
<1>11. ASSUME NEW i \in 1..(L + 2)
       PROVE  f[i] = F(i, f[i + 1], f[i + 2])
  <2>1. CASE i > L
    <3>1. F(i, f[i + 1], f[i + 2]) = {Len(s) + 1}
      BY <2>1 DEF F, LikeAt, L
    <3>2. i = L + 1 \/ i = L + 2
      BY <1>1, <2>1
    <3>3. f[L + 1] = {Len(s) + 1}
      <4>1. 0 \in 0..L /\ L + 1 - 0 = L + 1
        BY <1>1
      <4>2. r[0] = e /\ f[L + 1 - 0] = r[0][1]
        BY <1>7, <1>8, <4>1
      <4> QED BY <4>1, <4>2 DEF e
    <3> QED BY <1>8, <3>1, <3>2, <3>3
  <2>2. CASE ~(i > L)
    <3>1. PICK k \in 1..L : k = L + 1 - i
      BY <1>1, <2>2
    <3>2. /\ k \in 0..L /\ k - 1 \in 0..L /\ k # 0 /\ L + 1 - k = i
          /\ L + 1 - (k - 1) = i + 1 /\ L + 2 - (k - 1) = i + 2
      BY <1>1, <3>1
    <3>3. r[k - 1] \in P /\ r[k] = G[<<r[k - 1], k>>]
      BY <1>7, <3>2
    <3>4. r[k][1] = F(L + 1 - k, r[k - 1][1], r[k - 1][2])
      BY <1>3, <3>3
    <3>5. f[L + 1 - k] = r[k][1] /\ f[L + 1 - (k - 1)] = r[k - 1][1]
          /\ r[k - 1][2] = f[L + 2 - (k - 1)]
      BY <1>8, <1>10, <3>2
    <3> QED BY <3>2, <3>4, <3>5
  <2> QED BY <2>1, <2>2
<1> QED BY <1>9, <1>11 DEF LikeFrom, F, L

LEMMA LikeBy ==
  ASSUME NEW pattern \in Seq(Int), NEW escaping \in BOOLEAN, NEW s \in Seq(Int)
  PROVE  \E f : LikeFrom(f, pattern, escaping, s) /\ (Like(pattern, escaping, s) <=> 1 \in f[1])
<1> DEFINE from[i \in 1..(Len(pattern) + 2)] ==
             IF i > Len(pattern) THEN {Len(s) + 1}
             ELSE IF escaping /\ pattern[i] = Escape /\ i < Len(pattern)
               THEN {j \in 1..Len(s) : Fold(s[j]) = Fold(pattern[i + 1]) /\ j + 1 \in from[i + 2]}
             ELSE IF pattern[i] = AnyText
               THEN {j \in 1..(Len(s) + 1) : \E k \in from[i + 1] : j <= k}
             ELSE {j \in 1..Len(s) : /\ pattern[i] = AnyChar \/ Fold(pattern[i]) = Fold(s[j])
                                    /\ j + 1 \in from[i + 1]}
           E(f) == [i \in 1..(Len(pattern) + 2) |->
             IF i > Len(pattern) THEN {Len(s) + 1}
             ELSE IF escaping /\ pattern[i] = Escape /\ i < Len(pattern)
               THEN {j \in 1..Len(s) : Fold(s[j]) = Fold(pattern[i + 1]) /\ j + 1 \in f[i + 2]}
             ELSE IF pattern[i] = AnyText
               THEN {j \in 1..(Len(s) + 1) : \E k \in f[i + 1] : j <= k}
             ELSE {j \in 1..Len(s) : /\ pattern[i] = AnyChar \/ Fold(pattern[i]) = Fold(s[j])
                                    /\ j + 1 \in f[i + 1]}]
<1>1. PICK g : /\ g = [i \in 1..(Len(pattern) + 2) |-> g[i]]
               /\ LikeFrom(g, pattern, escaping, s)
  BY LikeExists
<1>2. g = E(g)
  <2>1. [i \in 1..(Len(pattern) + 2) |-> g[i]] = [i \in 1..(Len(pattern) + 2) |->
           LikeAt(pattern, escaping, s, i, g[i + 1], g[i + 2])]
    BY <1>1 DEF LikeFrom
  <2>2. g = [i \in 1..(Len(pattern) + 2) |-> LikeAt(pattern, escaping, s, i, g[i + 1], g[i + 2])]
    BY <1>1, <2>1
  <2> QED BY <2>2, Zenon DEF LikeAt
<1>3. from = E(from)
  BY <1>2, Zenon
<1>4. Like(pattern, escaping, s) <=> 1 \in from[1]
  BY Zenon DEF Like
<1> HIDE DEF from
<1>5. LikeFrom(from, pattern, escaping, s)
  <2> SUFFICES ASSUME NEW i \in 1..(Len(pattern) + 2)
               PROVE  from[i] = LikeAt(pattern, escaping, s, i, from[i + 1], from[i + 2])
    BY DEF LikeFrom
  <2> QED BY <1>3 DEF LikeAt
<1> QED BY <1>4, <1>5

(* The places of s from which on the rest of part, behind i, is there.     *)
Rest(part, s, i) ==
  {j \in 1..(Len(s) + 1) : /\ j + (Len(part) - i) <= Len(s) + 1
                           /\ \A x \in 1..(Len(part) - i) : s[j + x - 1] = part[i + x]}

(* The rest is there one letter further on, where the letter is.           *)
LEMMA RestStep ==
  ASSUME NEW part \in Seq(Int), NEW s \in Seq(Int), NEW k \in 1..Len(part)
  PROVE  Rest(part, s, k - 1) = {j \in 1..Len(s) : s[j] = part[k] /\ j + 1 \in Rest(part, s, k)}
<1> DEFINE n == Len(s)
           m == Len(part)
<1>1. n \in Nat /\ m \in Nat /\ k \in 1..m
  OBVIOUS
<1> HIDE DEF n, m
<1>2. ASSUME NEW j \in Rest(part, s, k - 1)
      PROVE  j \in 1..n /\ s[j] = part[k] /\ j + 1 \in Rest(part, s, k)
  <2>1. /\ j \in 1..(n + 1) /\ j + (m - (k - 1)) <= n + 1
        /\ \A x \in 1..(m - (k - 1)) : s[j + x - 1] = part[(k - 1) + x]
    BY DEF Rest, n, m
  <2>2. j \in 1..n /\ 1 \in 1..(m - (k - 1)) /\ j + 1 - 1 = j /\ (k - 1) + 1 = k
        /\ j + 1 \in 1..(n + 1) /\ j + 1 + (m - k) <= n + 1
    BY <1>1, <2>1
  <2>3. s[j] = part[k]
    <3>1. s[j + 1 - 1] = part[(k - 1) + 1]
      BY <2>1, <2>2
    <3> QED BY <2>2, <3>1
  <2>4. ASSUME NEW x \in 1..(m - k)
        PROVE  s[j + 1 + x - 1] = part[k + x]
    <3>1. x + 1 \in 1..(m - (k - 1)) /\ j + (x + 1) - 1 = j + 1 + x - 1 /\ (k - 1) + (x + 1) = k + x
      BY <1>1, <2>2
    <3>2. s[j + (x + 1) - 1] = part[(k - 1) + (x + 1)]
      BY <2>1, <3>1
    <3> QED BY <3>1, <3>2
  <2> QED BY <2>2, <2>3, <2>4 DEF Rest, n, m
<1>3. ASSUME NEW j \in 1..n, s[j] = part[k], j + 1 \in Rest(part, s, k)
      PROVE  j \in Rest(part, s, k - 1)
  <2>1. /\ j + 1 + (m - k) <= n + 1
        /\ \A x \in 1..(m - k) : s[j + 1 + x - 1] = part[k + x]
    BY <1>3 DEF Rest, n, m
  <2>2. j \in 1..(n + 1) /\ j + (m - (k - 1)) <= n + 1
    BY <1>1, <2>1
  <2>3. ASSUME NEW x \in 1..(m - (k - 1))
        PROVE  s[j + x - 1] = part[(k - 1) + x]
    <3>1. CASE x = 1
      <4>1. j + x - 1 = j /\ (k - 1) + x = k
        BY <1>1, <3>1
      <4> QED BY <1>3, <4>1
    <3>2. CASE x # 1
      <4>1. PICK y \in 1..(m - k) : y = x - 1
        BY <1>1, <3>2
      <4>2. j + 1 + y - 1 = j + x - 1 /\ k + y = (k - 1) + x
        BY <1>1, <4>1
      <4>3. s[j + 1 + y - 1] = part[k + y]
        BY <2>1
      <4> QED BY <4>2, <4>3
    <3> QED BY <3>1, <3>2
  <2> QED BY <2>2, <2>3 DEF Rest, n, m
<1>4. \A j \in Rest(part, s, k - 1) : j \in 1..(n + 1)
  BY DEF Rest, n
<1> QED BY <1>2, <1>3 DEF n

(* A text is within another where all of it is the rest.                   *)
LEMMA WithinRest ==
  ASSUME NEW part \in Seq(Int), NEW s \in Seq(Int)
  PROVE  Within(part, s) <=> Rest(part, s, 0) # {}
<1> DEFINE n == Len(s)
           m == Len(part)
<1>1. n \in Nat /\ m \in Nat /\ m - 0 = m
  OBVIOUS
<1> HIDE DEF n, m
<1>2. ASSUME NEW k \in 0..(n - m)
      PROVE  /\ k + 1 \in 1..(n + 1) /\ k + 1 + m <= n + 1
             /\ SubSeq(s, k + 1, k + m) = part
                  <=> \A x \in 1..m : s[(k + 1) + x - 1] = part[x]
  <2>1. /\ SubSeq(s, k + 1, k + m) \in Seq(Int)
        /\ Len(SubSeq(s, k + 1, k + m)) = m
        /\ \A x \in 1..m : SubSeq(s, k + 1, k + m)[x] = s[(k + 1) + x - 1]
    <3>1. k + 1 \in 1..(n + 1) /\ k + m \in k..n /\ (k + m) - (k + 1) + 1 = m
      BY <1>1
    <3>2. SubSeq(s, k + 1, k + m) = [x \in 1..m |-> s[(k + 1) + x - 1]]
      BY <1>1, <3>1
    <3>3. \A x \in 1..m : s[(k + 1) + x - 1] \in Int
      <4> TAKE x \in 1..m
      <4>1. (k + 1) + x - 1 \in 1..n
        BY <1>1
      <4> QED BY <4>1 DEF n
    <3> HIDE DEF n, m
    <3>4. [x \in 1..m |-> s[(k + 1) + x - 1]] \in Seq(Int)
      BY <1>1, <3>3
    <3>5. Len([x \in 1..m |-> s[(k + 1) + x - 1]]) = m
      BY <1>1, <3>4
    <3> QED BY <3>2, <3>4, <3>5
  <2>2. SubSeq(s, k + 1, k + m) = part
         <=> \A x \in 1..m : SubSeq(s, k + 1, k + m)[x] = part[x]
    <3> DEFINE t == SubSeq(s, k + 1, k + m)
    <3>1. t \in Seq(Int) /\ Len(t) = Len(part)
      BY <2>1 DEF m
    <3> HIDE DEF t
    <3>2. t = part <=> \A x \in 1..Len(t) : t[x] = part[x]
      BY <3>1, SeqEqual
    <3> QED BY <2>1, <3>1, <3>2 DEF t, m
  <2>3. k + 1 \in 1..(n + 1) /\ k + 1 + m <= n + 1
    BY <1>1
  <2> QED BY <2>1, <2>2, <2>3
<1>3. ASSUME NEW j \in Rest(part, s, 0)
      PROVE  Within(part, s)
  <2>1. /\ j \in 1..(n + 1) /\ j + (m - 0) <= n + 1
        /\ \A x \in 1..(m - 0) : s[j + x - 1] = part[0 + x]
    BY DEF Rest, n, m
  <2>2. PICK k \in 0..(n - m) : k = j - 1
    BY <1>1, <2>1
  <2>3. k + 1 = j /\ \A x \in 1..m : 0 + x = x
    BY <1>1, <2>1, <2>2
  <2>4. \A x \in 1..m : s[(k + 1) + x - 1] = part[x]
    BY <1>1, <2>1, <2>3
  <2>5. SubSeq(s, k + 1, k + m) = part
    BY <1>2, <2>4
  <2> QED BY <2>5 DEF Within, n, m
<1>4. ASSUME Within(part, s)
      PROVE  Rest(part, s, 0) # {}
  <2>1. PICK k \in 0..(n - m) : SubSeq(s, k + 1, k + m) = part
    BY <1>4 DEF Within, n, m
  <2>2. /\ k + 1 \in 1..(n + 1) /\ k + 1 + m <= n + 1
        /\ \A x \in 1..m : s[(k + 1) + x - 1] = part[x]
    BY <1>2, <2>1
  <2>3. k + 1 + (m - 0) <= n + 1 /\ \A x \in 1..(m - 0) : s[(k + 1) + x - 1] = part[0 + x]
    <3>1. \A x \in 1..m : 0 + x = x
      BY <1>1
    <3> QED BY <1>1, <2>2, <3>1
  <2>4. k + 1 \in Rest(part, s, 0)
    BY <2>2, <2>3 DEF Rest, n, m
  <2> QED BY <2>4
<1> QED BY <1>3, <1>4

(* A text is escaped letter by letter, and stays a text.                   *)
LEMMA Letters ==
  ASSUME NEW s \in Seq(Int)
  PROVE  LET parts == [i \in DOMAIN s |->
               IF s[i] \in {AnyText, AnyChar, Escape} THEN <<Escape, s[i]>> ELSE <<s[i]>>]
         IN parts \in Seq(Seq(Int)) /\ Len(parts) = Len(s)
<1> DEFINE P(i) == IF s[i] \in {AnyText, AnyChar, Escape} THEN <<Escape, s[i]>> ELSE <<s[i]>>
           parts == [i \in 1..Len(s) |-> P(i)]
<1>1. ASSUME NEW i \in 1..Len(s)
      PROVE  P(i) \in Seq(Int)
  <2>1. s[i] \in Int /\ Escape \in Int
    BY DEF Escape
  <2>2. <<Escape, s[i]>> \in Seq(Int) /\ <<s[i]>> \in Seq(Int)
    BY <2>1
  <2> QED BY <2>2
<1> HIDE DEF P
<1>2. parts \in Seq(Seq(Int)) /\ Len(parts) = Len(s) /\ DOMAIN s = 1..Len(s)
  BY <1>1
<1> QED BY <1>2 DEF P

LEMMA EscapedType ==
  ASSUME NEW s \in Seq(Int)
  PROVE  EscapeLikeLiteral(s) \in Seq(Int)
BY Letters, FlatPlaces DEF EscapeLikeLiteral

LEMMA ConcatInts ==
  \A x, y \in Seq(Int) :
    /\ x \o y \in Seq(Int) /\ Len(x \o y) = Len(x) + Len(y)
    /\ \A i \in 1..Len(x) : (x \o y)[i] = x[i]
    /\ \A i \in 1..Len(y) : (x \o y)[Len(x) + i] = y[i]
<1> TAKE x, y \in Seq(Int)
<1> DEFINE T == Int
<1>1. x \in Seq(T) /\ y \in Seq(T)
  OBVIOUS
<1> HIDE DEF T
<1>2. /\ x \o y \in Seq(T) /\ Len(x \o y) = Len(x) + Len(y)
      /\ \A i \in 1..Len(x) : (x \o y)[i] = x[i]
      /\ \A i \in 1..Len(y) : (x \o y)[Len(x) + i] = y[i]
  BY <1>1, ConcatPlaces
<1> QED BY <1>2 DEF T

(* A pattern between two wildcards, place by place.                        *)
LEMMA Framed ==
  ASSUME NEW x \in Seq(Int), NEW c \in Int
  PROVE  LET p == <<c>> \o x \o <<c>>
         IN /\ p \in Seq(Int) /\ Len(p) = Len(x) + 2 /\ Len(x) \in Nat
            /\ p[1] = c /\ p[Len(x) + 2] = c /\ \A i \in 1..Len(x) : p[i + 1] = x[i]
<1> DEFINE one == <<c>>
           y == one \o x
           p == y \o one
<1>1. one \in Seq(Int) /\ Len(one) = 1 /\ one[1] = c
  OBVIOUS
<1> HIDE DEF one
<1>2. /\ y \in Seq(Int) /\ Len(x) \in Nat /\ Len(y) = 1 + Len(x) /\ y[1] = c
      /\ \A i \in 1..Len(x) : y[1 + i] = x[i]
  <2>1. 1 \in 1..Len(one)
    BY <1>1
  <2>3. Len(x) \in Nat
    OBVIOUS
  <2>2. /\ y \in Seq(Int) /\ Len(y) = Len(one) + Len(x)
        /\ \A i \in 1..Len(one) : y[i] = one[i]
        /\ \A i \in 1..Len(x) : y[Len(one) + i] = x[i]
    BY <1>1, ConcatInts
  <2> HIDE DEF y
  <2> QED BY <1>1, <2>1, <2>2, <2>3
<1> HIDE DEF y
<1>3. /\ p \in Seq(Int) /\ Len(p) = Len(y) + 1 /\ p[Len(y) + 1] = c
      /\ \A i \in 1..Len(y) : p[i] = y[i]
  <2>1. 1 \in 1..Len(one)
    BY <1>1
  <2>2. /\ p \in Seq(Int) /\ Len(p) = Len(y) + Len(one)
        /\ \A i \in 1..Len(y) : p[i] = y[i]
        /\ \A i \in 1..Len(one) : p[Len(y) + i] = one[i]
    BY <1>1, <1>2, ConcatInts
  <2> HIDE DEF p
  <2> QED BY <1>1, <2>1, <2>2
<1> HIDE DEF p
<1>4. Len(p) = Len(x) + 2 /\ p[1] = c /\ p[Len(x) + 2] = c
  <2>1. 1 \in 1..Len(y) /\ Len(y) + 1 = Len(x) + 2
    BY <1>2
  <2> QED BY <1>2, <1>3, <2>1
<1>5. \A i \in 1..Len(x) : p[i + 1] = x[i]
  <2> TAKE i \in 1..Len(x)
  <2>1. i + 1 \in 1..Len(y) /\ 1 + i = i + 1
    BY <1>2
  <2> QED BY <1>2, <1>3, <2>1
<1> QED BY <1>2, <1>3, <1>4, <1>5 DEF p, y, one

LEMMA FoldedType ==
  ASSUME NEW s \in Seq(Int)
  PROVE  /\ Folded(s) \in Seq(Int) /\ Len(Folded(s)) = Len(s)
         /\ \A i \in 1..Len(s) : Folded(s)[i] = Fold(s[i])
<1> DEFINE t == [i \in 1..Len(s) |-> Fold(s[i])]
<1>1. \A i \in 1..Len(s) : Fold(s[i]) \in Int
  BY DEF Fold
<1> HIDE DEF t
<1>2. Folded(s) = t
  BY DEF Folded, t
<1>3. t \in Seq(Int) /\ Len(t) = Len(s) /\ \A i \in 1..Len(s) : t[i] = Fold(s[i])
  BY <1>1 DEF t
<1> QED BY <1>2, <1>3

(* What "contains" makes of a text matches exactly the texts it is in, in  *)
(* either case: wildcards in it stand for themselves.                      *)
LEMMA Contained ==
  ASSUME NEW part \in Seq(Int), NEW s \in Seq(Int)
  PROVE  Like(<<AnyText>> \o EscapeLikeLiteral(part) \o <<AnyText>>, TRUE, s) 
           <=> Within(Folded(part), Folded(s))
<1> DEFINE P == Folded(part)
           S == Folded(s)
           special == {AnyText, AnyChar, Escape}
           Piece(i) == IF part[i] \in special THEN <<Escape, part[i]>> ELSE <<part[i]>>
           parts == [i \in DOMAIN part |-> Piece(i)]
           esc == EscapeLikeLiteral(part)
           p == <<AnyText>> \o esc \o <<AnyText>>
           m == Len(part)
           n == Len(s)
           M == Len(esc)
           L == Len(p)
<1>1. /\ parts \in Seq(Seq(Int)) /\ Len(parts) = m /\ esc = FlattenSeq(parts) /\ esc \in Seq(Int)
      /\ \A i \in 1..m : parts[i] = Piece(i)
  <2>1. parts \in Seq(Seq(Int)) /\ Len(parts) = m
    BY Letters
  <2>2. esc = FlattenSeq(parts)
    BY DEF EscapeLikeLiteral
  <2>3. DOMAIN part = 1..m
    OBVIOUS
  <2> QED BY <2>1, <2>2, <2>3, EscapedType
<1> HIDE DEF parts, esc
<1>2. PICK off \in [0..m -> Nat] : FlatBy(off, parts)
  BY <1>1, FlatPlaces
<1>3. AnyText \in Int
  BY DEF AnyText
<1>4. /\ p \in Seq(Int) /\ L = M + 2 /\ M \in Nat
      /\ p[1] = AnyText /\ p[M + 2] = AnyText /\ \A i \in 1..M : p[i + 1] = esc[i]
  BY <1>1, <1>3, Framed
<1> HIDE DEF p
<1>5. PICK f : LikeFrom(f, p, TRUE, s) /\ (Like(p, TRUE, s) <=> 1 \in f[1])
  BY <1>4, LikeBy
<1>6. m \in Nat /\ n \in Nat /\ Len(p) = L /\ Len(s) = n /\ Len(part) = m
  OBVIOUS
<1>7. /\ off[0] = 0 /\ off[m] = M
      /\ \A k \in 1..m : /\ off[k] = off[k - 1] + Len(parts[k]) /\ off[k] <= M
                         /\ \A j \in 1..Len(parts[k]) : esc[off[k - 1] + j] = parts[k][j]
  BY <1>1, <1>2 DEF FlatBy
<1>15. /\ P \in Seq(Int) /\ Len(P) = m /\ \A i \in 1..m : P[i] = Fold(part[i])
       /\ S \in Seq(Int) /\ Len(S) = n /\ \A j \in 1..n : S[j] = Fold(s[j])
  BY FoldedType
<1> HIDE DEF m, n, M, L, P, S
<1>8. \A i \in 1..(L + 2) : f[i] = LikeAt(p, TRUE, s, i, f[i + 1], f[i + 2])
  BY <1>5, <1>6 DEF LikeFrom
<1>9. f[M + 3] = {n + 1}
  <2>1. M + 3 \in 1..(L + 2) /\ M + 3 > L
    BY <1>4
  <2> QED BY <1>6, <1>8, <2>1 DEF LikeAt
<1>10. f[M + 2] = 1..(n + 1)
  <2>1. M + 2 \in 1..(L + 2) /\ ~(M + 2 > L) /\ M + 2 + 1 = M + 3 /\ p[M + 2] # Escape
    BY <1>4 DEF AnyText, Escape
  <2>2. f[M + 2] = {j \in 1..(n + 1) : \E k \in {n + 1} : j <= k}
    <3>1. f[M + 2] = LikeAt(p, TRUE, s, M + 2, f[M + 2 + 1], f[M + 2 + 2])
      BY <1>8, <2>1
    <3>2. f[M + 2 + 1] = {n + 1}
      BY <1>9, <2>1
    <3> QED BY <1>4, <1>6, <2>1, <3>1, <3>2 DEF LikeAt
  <2>3. \A j \in 1..(n + 1) : j <= n + 1
    BY <1>6
  <2> QED BY <2>2, <2>3
<1>11. ASSUME NEW k \in 1..m, f[off[k] + 2] = Rest(P, S, k)
       PROVE  f[off[k - 1] + 2] = Rest(P, S, k - 1)
  <2> DEFINE a == off[k - 1] + 2
  <2>1. /\ k \in 0..m /\ k - 1 \in 0..m /\ off[k - 1] \in Nat /\ off[k] \in Nat
        /\ off[k] = off[k - 1] + Len(parts[k]) /\ off[k] <= M /\ parts[k] = Piece(k)
        /\ part[k] \in Int
        /\ \A j \in 1..Len(parts[k]) : esc[off[k - 1] + j] = parts[k][j]
    <3>1. k \in 0..m /\ k - 1 \in 0..m
      BY <1>6
    <3>2. off[k - 1] \in Nat /\ off[k] \in Nat
      BY <1>2, <3>1
    <3>3. part[k] \in Int
      BY DEF m
    <3> HIDE DEF Piece
    <3> QED BY <1>1, <1>7, <3>1, <3>2, <3>3
  <2>2. Rest(P, S, k - 1) = {j \in 1..n : Fold(s[j]) = Fold(part[k]) /\ j + 1 \in Rest(P, S, k)}
    <3>1. k \in 1..Len(P) /\ P[k] = Fold(part[k])
      BY <1>15
    <3>2. Rest(P, S, k - 1) = {j \in 1..Len(S) : S[j] = P[k] /\ j + 1 \in Rest(P, S, k)}
      <4>1. P \in Seq(Int) /\ S \in Seq(Int)
        BY <1>15
      <4> QED BY <3>1, <4>1, RestStep
    <3>3. Len(S) = n /\ \A j \in 1..n : S[j] = Fold(s[j])
      BY <1>15
    <3> QED BY <3>1, <3>2, <3>3
  <2>3. CASE part[k] \in special
    <3>1. parts[k] = <<Escape, part[k]>>
      BY <2>1, <2>3
    <3>2. Len(parts[k]) = 2 /\ parts[k][1] = Escape /\ parts[k][2] = part[k]
      BY <3>1
    <3>3. off[k] = off[k - 1] + 2 /\ esc[off[k - 1] + 1] = Escape /\ esc[off[k - 1] + 2] = part[k]
      BY <2>1, <3>2
    <3>4. /\ off[k - 1] + 1 \in 1..M /\ off[k - 1] + 2 \in 1..M
          /\ off[k - 1] + 1 + 1 = a /\ off[k - 1] + 2 + 1 = a + 1 /\ a + 2 = off[k] + 2
          /\ a \in 1..(L + 2) /\ ~(a > L) /\ a < L
      <4> DEFINE o == off[k - 1]
                 e == off[k]
      <4>1. o \in Nat /\ e \in Nat /\ M \in Nat /\ e <= M /\ L = M + 2 /\ a = o + 2 /\ e = o + 2
        BY <1>4, <2>1, <3>3
      <4> HIDE DEF o, e, a
      <4>2. /\ o + 1 \in 1..M /\ o + 2 \in 1..M
            /\ o + 1 + 1 = a /\ o + 2 + 1 = a + 1 /\ a + 2 = e + 2
            /\ a \in 1..(L + 2) /\ ~(a > L) /\ a < L
        BY <4>1
      <4> QED BY <4>2 DEF o, e
    <3>5. p[a] = Escape /\ p[a + 1] = part[k]
      <4>1. /\ p[off[k - 1] + 1 + 1] = esc[off[k - 1] + 1]
            /\ p[off[k - 1] + 2 + 1] = esc[off[k - 1] + 2]
        BY <1>4, <3>4
      <4> QED BY <3>3, <3>4, <4>1
    <3>6. f[a] = LikeAt(p, TRUE, s, a, f[a + 1], f[a + 2])
      BY <1>8, <3>4
    <3>7. f[a + 2] = Rest(P, S, k)
      BY <1>11, <3>4
    <3> HIDE DEF a
    <3>8. f[a] = {j \in 1..n : Fold(s[j]) = Fold(part[k]) /\ j + 1 \in Rest(P, S, k)}
      BY <1>6, <3>4, <3>5, <3>6, <3>7 DEF LikeAt
    <3> QED BY <2>2, <3>8 DEF a
  <2>4. CASE part[k] \notin special
    <3>1. parts[k] = <<part[k]>>
      BY <2>1, <2>4
    <3>2. Len(parts[k]) = 1 /\ parts[k][1] = part[k]
      BY <3>1
    <3>3. off[k] = off[k - 1] + 1 /\ esc[off[k - 1] + 1] = part[k]
      <4>1. 1 \in 1..Len(parts[k])
        BY <3>2
      <4>2. esc[off[k - 1] + 1] = parts[k][1]
        BY <2>1, <4>1
      <4> QED BY <2>1, <3>2, <4>2
    <3>4. /\ off[k - 1] + 1 \in 1..M /\ off[k - 1] + 1 + 1 = a /\ a + 1 = off[k] + 2
          /\ a \in 1..(L + 2) /\ ~(a > L)
      <4> DEFINE o == off[k - 1]
                 e == off[k]
      <4>1. o \in Nat /\ e \in Nat /\ M \in Nat /\ e <= M /\ L = M + 2 /\ a = o + 2 /\ e = o + 1
        BY <1>4, <2>1, <3>3
      <4> HIDE DEF o, e, a
      <4>2. /\ o + 1 \in 1..M /\ o + 1 + 1 = a /\ a + 1 = e + 2
            /\ a \in 1..(L + 2) /\ ~(a > L)
        BY <4>1
      <4> QED BY <4>2 DEF o, e
    <3>5. p[a] = part[k]
      <4>1. p[off[k - 1] + 1 + 1] = esc[off[k - 1] + 1]
        BY <1>4, <3>4
      <4> QED BY <3>3, <3>4, <4>1
    <3>6. f[a] = LikeAt(p, TRUE, s, a, f[a + 1], f[a + 2])
      BY <1>8, <3>4
    <3>7. f[a + 1] = Rest(P, S, k)
      BY <1>11, <3>4
    <3> HIDE DEF a
    <3>8. f[a] = {j \in 1..n : /\ p[a] = AnyChar \/ Fold(p[a]) = Fold(s[j])
                               /\ j + 1 \in Rest(P, S, k)}
      BY <1>6, <2>4, <3>4, <3>5, <3>6, <3>7 DEF LikeAt
    <3>9. \A j \in 1..n : (p[a] = AnyChar \/ Fold(p[a]) = Fold(s[j])) <=> Fold(s[j]) = Fold(part[k])
      BY <2>4, <3>5
    <3> QED BY <2>2, <3>8, <3>9 DEF a
  <2> QED BY <2>3, <2>4
<1>12. f[off[m] + 2] = Rest(P, S, m)
  <2>1. m - m = 0 /\ 1..0 = {} /\ \A j \in 1..(n + 1) : j + 0 <= n + 1
    BY <1>6
  <2>2. Rest(P, S, m) = 1..(n + 1)
    BY <1>6, <1>15, <2>1 DEF Rest
  <2> QED BY <1>7, <1>10, <2>2
<1>13. f[2] = Rest(P, S, 0)
  <2> DEFINE bad == {d \in 0..m : f[off[m - d] + 2] # Rest(P, S, m - d)}
  <2>1. bad = {}
    <3> SUFFICES ASSUME bad # {} PROVE FALSE
      OBVIOUS
    <3>1. m - 0 = m
      BY <1>6
    <3>2. bad \in SUBSET (0..m) /\ 0 \notin bad
      BY <1>12, <3>1
    <3>3. PICK d \in 1..m : d \in bad /\ \A c \in 0..(d - 1) : c \notin bad
      <4> HIDE DEF bad
      <4> QED BY <1>6, <3>2, FirstBad
    <3>4. PICK k \in 1..m : k = m - (d - 1)
      BY <1>6
    <3>5. d - 1 \in 0..(d - 1) /\ d - 1 \in 0..m /\ k - 1 = m - d
      BY <1>6, <3>4
    <3>6. f[off[k] + 2] = Rest(P, S, k) /\ f[off[k - 1] + 2] # Rest(P, S, k - 1)
      BY <3>3, <3>4, <3>5
    <3> QED BY <1>11, <3>6
  <2>2. m \in 0..m /\ m - m = 0
    BY <1>6
  <2>3. f[off[0] + 2] = Rest(P, S, 0)
    BY <2>1, <2>2
  <2> QED BY <1>7, <2>3
<1>14. 1 \in f[1] <=> Rest(P, S, 0) # {}
  <2>1. 1 \in 1..(L + 2) /\ ~(1 > L) /\ 1 + 1 = 2 /\ p[1] # Escape
    BY <1>4 DEF AnyText, Escape
  <2>2. f[1] = {j \in 1..(n + 1) : \E k \in Rest(P, S, 0) : j <= k}
    <3>1. f[1] = LikeAt(p, TRUE, s, 1, f[1 + 1], f[1 + 2])
      BY <1>8, <2>1
    <3>2. f[1 + 1] = Rest(P, S, 0)
      BY <1>13, <2>1
    <3> QED BY <1>4, <1>6, <2>1, <3>1, <3>2 DEF LikeAt
  <2>3. \A k \in Rest(P, S, 0) : 1 <= k
    BY <1>6, <1>15 DEF Rest
  <2>4. 1 \in 1..(n + 1)
    BY <1>6
  <2> QED BY <2>2, <2>3, <2>4
<1>16. Within(P, S) <=> Rest(P, S, 0) # {}
  BY <1>15, WithinRest
<1> QED BY <1>5, <1>14, <1>16 DEF p, esc, P, S

-----------------------------------------------------------------------------
(* Placeholders are counted condition by condition.                        *)
LEMMA HolesNext ==
  ASSUME NEW tests, NEW k \in Nat \ {0}
  PROVE  /\ HolesBefore(tests, 1) = 0 /\ HolesBefore(tests, k) \in Nat
         /\ Holes(tests[k]) \in 0..2
         /\ HolesBefore(tests, k + 1) = HolesBefore(tests, k) + Holes(tests[k])
<1> DEFINE H(n) == {hole \in (1..(n - 1)) \X (1..2) : hole[2] <= Holes(tests[hole[1]])}
<1>1. \A n : HolesBefore(tests, n) = Cardinality(H(n))
  BY DEF HolesBefore
<1>2. H(1) = {}
  OBVIOUS
<1>3. Holes(tests[k]) \in 0..2
  BY DEF Holes
<1>4. IsFiniteSet(H(k))
  <2>1. IsFiniteSet(1..(k - 1)) /\ IsFiniteSet(1..2)
    <3>1. k - 1 \in Int /\ 1 \in Int /\ 2 \in Int
      OBVIOUS
    <3>2. \A a, b \in Int : IsFiniteSet(a..b)
      BY FS_Interval
    <3> QED BY <3>1, <3>2
  <2>2. IsFiniteSet((1..(k - 1)) \X (1..2))
    BY <2>1, FS_Product
  <2>3. H(k) \subseteq (1..(k - 1)) \X (1..2)
    OBVIOUS
  <2> QED BY <2>2, <2>3, FS_Subset
<1>5. \A hole : hole \in H(k + 1) <=>
        \/ hole \in H(k)
        \/ hole = <<k, 1>> /\ 1 <= Holes(tests[k])
        \/ hole = <<k, 2>> /\ 2 <= Holes(tests[k])
  <2> TAKE hole
  <2>1. ASSUME hole \in H(k + 1)
        PROVE  \/ hole \in H(k)
               \/ hole = <<k, 1>> /\ 1 <= Holes(tests[k])
               \/ hole = <<k, 2>> /\ 2 <= Holes(tests[k])
    <3>1. PICK i \in 1..(k + 1 - 1), j \in 1..2 : hole = <<i, j>>
      BY <2>1
    <3>2. j <= Holes(tests[i])
      BY <2>1, <3>1
    <3>3. i = k \/ i \in 1..(k - 1)
      OBVIOUS
    <3>4. j = 1 \/ j = 2
      OBVIOUS
    <3> QED BY <3>1, <3>2, <3>3, <3>4
  <2>2. ASSUME hole \in H(k)
        PROVE  hole \in H(k + 1)
    <3>1. PICK i \in 1..(k - 1), j \in 1..2 : hole = <<i, j>>
      BY <2>2
    <3>2. j <= Holes(tests[i]) /\ i \in 1..(k + 1 - 1)
      BY <2>2, <3>1
    <3> QED BY <3>1, <3>2
  <2>3. ASSUME NEW j \in 1..2, hole = <<k, j>>, j <= Holes(tests[k])
        PROVE  hole \in H(k + 1)
    <3>1. k \in 1..(k + 1 - 1)
      OBVIOUS
    <3> QED BY <2>3, <3>1
  <2> QED BY <2>1, <2>2, <2>3
<1>6. <<k, 1>> \notin H(k) /\ <<k, 2>> \notin H(k) /\ <<k, 1>> # <<k, 2>>
  OBVIOUS
<1> HIDE DEF H
<1>7. Cardinality(H(k)) \in Nat
  BY <1>4, FS_CardinalityType
<1>8. HolesBefore(tests, 1) = 0
  BY <1>1, <1>2, FS_EmptySet
<1>9. Cardinality(H(k + 1)) = Cardinality(H(k)) + Holes(tests[k])
  <2>1. CASE Holes(tests[k]) = 0
    <3>1. H(k + 1) = H(k)
      BY <1>5, <2>1
    <3> QED BY <1>7, <2>1, <3>1
  <2>2. CASE Holes(tests[k]) = 1
    <3>1. H(k + 1) = H(k) \cup {<<k, 1>>}
      BY <1>5, <2>2
    <3> QED BY <1>4, <1>6, <2>2, <3>1, FS_AddElement
  <2>3. CASE Holes(tests[k]) = 2
    <3> DEFINE one == H(k) \cup {<<k, 1>>}
    <3>1. H(k + 1) = one \cup {<<k, 2>>}
      BY <1>5, <2>3
    <3>2. IsFiniteSet(one) /\ Cardinality(one) = Cardinality(H(k)) + 1 /\ <<k, 2>> \notin one
      BY <1>4, <1>6, FS_AddElement
    <3> HIDE DEF one
    <3>3. Cardinality(one \cup {<<k, 2>>}) = Cardinality(one) + 1
      BY <3>2, FS_AddElement
    <3> QED BY <1>7, <2>3, <3>1, <3>2, <3>3
  <2> QED BY <1>3, <2>1, <2>2, <2>3
<1> QED BY <1>1, <1>3, <1>7, <1>8, <1>9

-----------------------------------------------------------------------------
(* The values of a query are values of SQLite.                             *)
LEMMA JsonCases ==
  ASSUME NEW v \in JsonValues
  PROVE  \/ v = JNull
         \/ /\ v.type \in {"bool", "int", "big"} /\ v.n \in Int /\ v.s = <<>>
            /\ v = Json(v.type, v.n, <<>>)
         \/ v.type = "text" /\ v.n = 0 /\ v.s \in Seq(Int) /\ v = Json("text", 0, v.s)
<1>1. CASE v \in [type : {"bool"}, n : 0..1, s : {<<>>}]
  BY <1>1 DEF Json
<1>2. CASE v \in [type : {"int", "big"}, n : Int, s : {<<>>}]
  BY <1>2 DEF Json
<1>3. CASE v \in [type : {"text"}, n : {0}, s : Seq(Nat)]
  <2>1. v.s \in Seq(Int)
    <3>1. v.s \in Seq(Nat) /\ Nat \subseteq Int
      BY <1>3
    <3> QED BY <3>1, SeqMonotonic
  <2> QED BY <1>3, <2>1 DEF Json
<1> QED BY <1>1, <1>2, <1>3 DEF JsonValues

LEMMA SqlMembers ==
  /\ SqlNull \in Sqls
  /\ \A n \in Int : Number(n) \in Sqls
  /\ \A s \in Seq(Int) : Text(s) \in Sqls
BY DEF Sqls, Numerals, Texts

LEMMA NatTexts == Seq(Nat) \subseteq Seq(Int)
<1>1. Nat \subseteq Int
  OBVIOUS
<1> QED BY <1>1, SeqMonotonic

LEMMA BoundType ==
  ASSUME NEW v \in JsonValues
  PROVE  ToSqlite(v) \in Sqls /\ Extracted(v) \in Sqls
<1>1. CASE v = JNull
  <2>1. v.type = "null"
    BY <1>1 DEF JNull, Json
  <2> QED BY <2>1, SqlMembers DEF ToSqlite, Extracted
<1>2. CASE v.type \in {"bool", "int"} /\ v.n \in Int
  BY <1>2, SqlMembers DEF ToSqlite, Extracted
<1>3. CASE v.type = "big" /\ v.n \in Int
  <2>1. BigDigits(v.n) \in Seq(Int) /\ Huge + v.n \in Int
    BY <1>3 DEF BigDigits, Huge
  <2> QED BY <1>3, <2>1, SqlMembers DEF ToSqlite, Extracted
<1>4. CASE v.type = "text" /\ v.s \in Seq(Int)
  BY <1>4, SqlMembers DEF ToSqlite, Extracted
<1> QED BY <1>1, <1>2, <1>3, <1>4, JsonCases

(* A path that is accepted is bound as its field.                          *)
GoodPath(path) == NormalizeJsonPath(path) # BadPath

LEMMA PathBound ==
  ASSUME NEW path \in Paths
  PROVE  /\ PathParam(path) \in Sqls
         /\ GoodPath(path) => PathParam(path) = Text(<<36, path.field>>)
<1>1. path.field \in Nat
  BY DEF Paths
<1>2. NormalizeJsonPath(path).field \in Nat
  BY <1>1 DEF NormalizeJsonPath, BadPath, Path
<1>3. <<36, NormalizeJsonPath(path).field>> \in Seq(Int)
  BY <1>2
<1>4. GoodPath(path) => NormalizeJsonPath(path).field = path.field
  BY DEF GoodPath, NormalizeJsonPath, Path
<1> QED BY <1>3, <1>4, SqlMembers DEF PathParam

(* A clause has one or two parameters, as many as its condition has        *)
(* placeholders.                                                           *)
LEMMA WhereBound ==
  ASSUME NEW w \in Clauses
  PROVE  /\ WhereParams(w) \in Seq(Sqls) /\ Len(WhereParams(w)) = Holes(Test(w))
         /\ Holes(Test(w)) \in {1, 2} /\ WhereParams(w)[1] = PathParam(w.path)
         /\ Holes(Test(w)) = 2 => WhereParams(w)[2] =
              (IF w.op = "contains" /\ w.value.type = "text"
               THEN Text(EscapeLikeLiteral(w.value.s)) ELSE ToSqlite(w.value))
<1> DEFINE second == IF w.op = "contains" /\ w.value.type = "text"
                     THEN Text(EscapeLikeLiteral(w.value.s)) ELSE ToSqlite(w.value)
<1>1. w.path \in Paths /\ w.op \in Ops /\ w.value \in JsonValues
  BY DEF Clauses
<1>2. second \in Sqls
  <2>1. CASE w.op = "contains" /\ w.value.type = "text"
    <3>1. w.value.s \in Seq(Int)
      <4>1. JNull.type # "text"
        BY DEF JNull, Json
      <4> QED BY <1>1, <2>1, <4>1, JsonCases
    <3> QED BY <2>1, <3>1, EscapedType, SqlMembers
  <2> QED BY <1>1, <2>1, BoundType
<1>3. PathParam(w.path) \in Sqls
  BY <1>1, PathBound
<1>4. Holes(Test(w)) \in {1, 2}
  BY <1>1 DEF Ops, Test, Holes
<1> HIDE DEF second
<1>5. CASE Holes(Test(w)) = 1
  <2>1. WhereParams(w) = <<PathParam(w.path)>>
    BY <1>5 DEF WhereParams
  <2> QED BY <1>3, <1>5, <2>1
<1>6. CASE Holes(Test(w)) = 2
  <2>1. WhereParams(w) = <<PathParam(w.path), second>>
    BY <1>6 DEF WhereParams, second
  <2> QED BY <1>2, <1>3, <1>6, <2>1 DEF second
<1> QED BY <1>4, <1>5, <1>6

-----------------------------------------------------------------------------
(* The conditions and the parameters of a compiled query, by their places. *)
Tests == {"collection", "is_deleted = 0", "did", "IS NULL", "IS NOT NULL", "=", "IS NOT"} \cup Ops

FixedTests(q) == 1 + (IF q.deleted THEN 0 ELSE 1) + (IF q.did = 0 THEN 0 ELSE 1)

(* z is x with y behind it.                                                *)
Behind(z, x, y) ==
  /\ Len(z) = Len(x) + Len(y) /\ Len(x) \in Nat /\ Len(y) \in Nat
  /\ \A i \in 1..Len(x) : z[i] = x[i]
  /\ \A i \in 1..Len(y) : z[Len(x) + i] = y[i]

LEMMA ConcatBehind ==
  ASSUME NEW T, NEW x \in Seq(T), NEW y \in Seq(T)
  PROVE  x \o y \in Seq(T) /\ Behind(x \o y, x, y)
BY ConcatPlaces DEF Behind

(* The conditions of a statement: the collection, the two optional ones,   *)
(* and then one for each clause.                                           *)
WhereShape(tests, q) ==
  /\ tests \in Seq(Tests) /\ Len(tests) = FixedTests(q) + Len(q.wheres)
  /\ tests[1] = "collection"
  /\ ~q.deleted => tests[2] = "is_deleted = 0"
  /\ q.did # 0 => tests[FixedTests(q)] = "did"
  /\ \A i \in 1..Len(q.wheres) : tests[FixedTests(q) + i] = Test(q.wheres[i])

LEMMA Single ==
  ASSUME NEW T, NEW x \in T
  PROVE  <<>> \in Seq(T) /\ <<x>> \in Seq(T)
OBVIOUS

LEMMA WhereCompiled ==
  ASSUME NEW q \in Queries
  PROVE  WhereShape(BuildSql(q).where, q)
<1> DEFINE a == <<"collection">>
           b == IF q.deleted THEN <<>> ELSE <<"is_deleted = 0">>
           c == IF q.did = 0 THEN <<>> ELSE <<"did">>
           d == [i \in DOMAIN q.wheres |-> Test(q.wheres[i])]
           x == a \o b
           y == x \o c
           z == y \o d
<1>1. BuildSql(q).where = z
  BY DEF BuildSql
<1>0. "collection" \in Tests /\ "is_deleted = 0" \in Tests /\ "did" \in Tests
  BY DEF Tests
<1>2. /\ Len(a) = 1 /\ a[1] = "collection"
      /\ Len(b) = (IF q.deleted THEN 0 ELSE 1) /\ (~q.deleted => b[1] = "is_deleted = 0")
      /\ Len(c) = (IF q.did = 0 THEN 0 ELSE 1) /\ (q.did # 0 => c[1] = "did")
  OBVIOUS
<1>21. a \in Seq(Tests) /\ b \in Seq(Tests) /\ c \in Seq(Tests)
  <2>1. <<>> \in Seq(Tests) /\ <<"collection">> \in Seq(Tests)
    BY <1>0, Single
  <2>2. <<"is_deleted = 0">> \in Seq(Tests) /\ <<"did">> \in Seq(Tests)
    BY <1>0, Single
  <2>3. (b = <<>> \/ b = <<"is_deleted = 0">>) /\ (c = <<>> \/ c = <<"did">>)
        /\ a = <<"collection">>
    OBVIOUS
  <2> HIDE DEF b, c, a
  <2> QED BY <2>1, <2>2, <2>3
<1>3. /\ d \in Seq(Tests) /\ Len(d) = Len(q.wheres)
      /\ \A i \in 1..Len(q.wheres) : d[i] = Test(q.wheres[i])
  <2>1. q.wheres \in Seq(Clauses)
    BY DEF Queries
  <2>2. \A w \in Clauses : Test(w) \in Tests
    BY DEF Clauses, Ops, Tests, Test
  <2>3. DOMAIN q.wheres = 1..Len(q.wheres) /\ Len(q.wheres) \in Nat
    BY <2>1
  <2> QED BY <2>1, <2>2, <2>3
<1> HIDE DEF a, b, c, d
<1>40. x \in Seq(Tests) /\ Behind(x, a, b)
  BY <1>21, ConcatBehind
<1>4. /\ Len(x) = Len(a) + Len(b) /\ Len(a) \in Nat /\ Len(b) \in Nat
      /\ \A i \in 1..Len(a) : x[i] = a[i]
      /\ \A i \in 1..Len(b) : x[Len(a) + i] = b[i]
  BY <1>40 DEF Behind
<1> HIDE DEF x
<1>50. y \in Seq(Tests) /\ Behind(y, x, c)
  BY <1>21, <1>40, ConcatBehind
<1>5. /\ Len(y) = Len(x) + Len(c) /\ Len(x) \in Nat /\ Len(c) \in Nat
      /\ \A i \in 1..Len(x) : y[i] = x[i]
      /\ \A i \in 1..Len(c) : y[Len(x) + i] = c[i]
  BY <1>50 DEF Behind
<1> HIDE DEF y
<1>60. z \in Seq(Tests) /\ Behind(z, y, d)
  BY <1>3, <1>50, ConcatBehind
<1>6. /\ Len(z) = Len(y) + Len(d) /\ Len(y) \in Nat /\ Len(d) \in Nat
      /\ \A i \in 1..Len(y) : z[i] = y[i]
      /\ \A i \in 1..Len(d) : z[Len(y) + i] = d[i]
  BY <1>60 DEF Behind
<1> HIDE DEF z
<1>7. /\ Len(a) = 1 /\ Len(x) = 1 + Len(b) /\ Len(y) = Len(x) + Len(c) /\ Len(z) = Len(y) + Len(d)
      /\ Len(b) \in Nat /\ Len(c) \in Nat /\ Len(y) = FixedTests(q)
  BY <1>2, <1>4, <1>5, <1>6 DEF FixedTests
<1>71. Len(b) = (IF q.deleted THEN 0 ELSE 1) /\ Len(c) = (IF q.did = 0 THEN 0 ELSE 1)
  BY <1>2
<1>8. z[1] = "collection"
  <2>1. 1 \in 1..Len(a) /\ 1 \in 1..Len(x) /\ 1 \in 1..Len(y)
    BY <1>7
  <2> QED BY <1>2, <1>4, <1>5, <1>6, <2>1
<1>9. ASSUME ~q.deleted
      PROVE  z[2] = "is_deleted = 0"
  <2>1. 1 \in 1..Len(b) /\ Len(a) + 1 = 2 /\ 2 \in 1..Len(x) /\ 2 \in 1..Len(y)
    BY <1>7, <1>71, <1>9
  <2>2. x[2] = b[1]
    BY <1>4, <2>1
  <2> QED BY <1>2, <1>5, <1>6, <1>9, <2>1, <2>2
<1>10. ASSUME q.did # 0
       PROVE  z[FixedTests(q)] = "did"
  <2>1. 1 \in 1..Len(c) /\ Len(x) + 1 = FixedTests(q) /\ FixedTests(q) \in 1..Len(y)
    BY <1>7, <1>71, <1>10
  <2>2. y[Len(x) + 1] = c[1]
    BY <1>5, <2>1
  <2> QED BY <1>2, <1>6, <1>10, <2>1, <2>2
<1>11. \A i \in 1..Len(q.wheres) : z[FixedTests(q) + i] = Test(q.wheres[i])
  BY <1>3, <1>6, <1>7
<1>12. Len(z) = FixedTests(q) + Len(q.wheres)
  BY <1>3, <1>6, <1>7
<1>13. WhereShape(z, q)
  BY <1>60, <1>8, <1>9, <1>10, <1>11, <1>12 DEF WhereShape
<1> QED BY <1>1, <1>13

(* The parameters of a statement: those of the fixed conditions, of the    *)
(* clauses, of the ORDER BY terms and of LIMIT and OFFSET.                 *)
FixedParams(q) == IF q.did = 0 THEN 1 ELSE 2

ParamShape(params, q) ==
  LET w == WhereValues(q)
      o == OrderValues(q)
      t == TailParams(q)
  IN /\ params \in Seq(Sqls) /\ Len(params) = FixedParams(q) + Len(w) + Len(o) + Len(t)
     /\ params[1] = Text(q.collection)
     /\ q.did # 0 => params[2] = Text(<<q.did>>)
     /\ \A i \in 1..Len(w) : params[FixedParams(q) + i] = w[i]
     /\ \A i \in 1..Len(o) : params[FixedParams(q) + Len(w) + i] = o[i]
     /\ \A i \in 1..Len(t) : params[FixedParams(q) + Len(w) + Len(o) + i] = t[i]

LEMMA TailBound ==
  ASSUME NEW q \in Queries
  PROVE  /\ TailParams(q) \in Seq(Sqls)
         /\ Len(TailParams(q))
              = (IF q.limit = None THEN 0 ELSE 1) + (IF q.offset = None THEN 0 ELSE 1)
         /\ q.limit # None => TailParams(q)[1] = Number(q.limit)
         /\ q.offset # None => TailParams(q)[Len(TailParams(q))] = Number(q.offset)
<1> DEFINE a == IF q.limit = None THEN <<>> ELSE <<Number(q.limit)>>
           b == IF q.offset = None THEN <<>> ELSE <<Number(q.offset)>>
           t == a \o b
<1>1. /\ q.limit = None \/ q.limit \in Int
      /\ q.offset = None \/ q.offset \in Int
  BY DEF Queries
<1>2. /\ a \in Seq(Sqls) /\ Len(a) = (IF q.limit = None THEN 0 ELSE 1)
      /\ q.limit # None => a[1] = Number(q.limit)
  <2>1. q.limit # None => Number(q.limit) \in Sqls
    BY <1>1, SqlMembers
  <2> QED BY <2>1
<1>3. /\ b \in Seq(Sqls) /\ Len(b) = (IF q.offset = None THEN 0 ELSE 1)
      /\ q.offset # None => b[1] = Number(q.offset)
  <2>1. q.offset # None => Number(q.offset) \in Sqls
    BY <1>1, SqlMembers
  <2> QED BY <2>1
<1>4. TailParams(q) = t
  BY DEF TailParams
<1> HIDE DEF a, b
<1>50. t \in Seq(Sqls) /\ Behind(t, a, b)
  BY <1>2, <1>3, ConcatBehind
<1>5. /\ Len(t) = Len(a) + Len(b) /\ Len(a) \in Nat /\ Len(b) \in Nat
      /\ \A i \in 1..Len(a) : t[i] = a[i]
      /\ \A i \in 1..Len(b) : t[Len(a) + i] = b[i]
  BY <1>50 DEF Behind
<1> HIDE DEF t
<1>6. q.limit # None => t[1] = Number(q.limit)
  <2>1. q.limit # None => 1 \in 1..Len(a)
    BY <1>2
  <2> QED BY <1>2, <1>5, <2>1
<1>7. q.offset # None => t[Len(t)] = Number(q.offset)
  <2>1. q.offset # None => 1 \in 1..Len(b) /\ Len(t) = Len(a) + 1
    BY <1>2, <1>3, <1>5
  <2> QED BY <1>3, <1>5, <2>1
<1>8. Len(t) = (IF q.limit = None THEN 0 ELSE 1) + (IF q.offset = None THEN 0 ELSE 1)
  BY <1>2, <1>3, <1>5
<1> QED BY <1>4, <1>50, <1>6, <1>7, <1>8

(* An ORDER BY term has a parameter if it is a JSON path.                  *)
OrderBound(o) ==
  /\ OrderParams(o) \in Seq(Sqls) /\ Len(OrderParams(o)) = (IF o.term = "json" THEN 1 ELSE 0)
  /\ o.term = "json" => OrderParams(o)[1] = PathParam(o.path)

LEMMA OrderIsBound ==
  ASSUME NEW o \in Terms
  PROVE  OrderBound(o)
<1>1. PathParam(o.path) \in Sqls
  BY PathBound DEF Terms
<1> QED BY <1>1 DEF OrderBound, OrderParams

(* The parameters of the clauses, and of the terms, one by one.            *)
WhereParts(q) == [i \in DOMAIN q.wheres |-> WhereParams(q.wheres[i])]
OrderParts(q) == [i \in DOMAIN q.orders |-> OrderParams(q.orders[i])]

LEMMA PartsBound ==
  ASSUME NEW q \in Queries
  PROVE  /\ WhereParts(q) \in Seq(Seq(Sqls)) /\ Len(WhereParts(q)) = Len(q.wheres)
         /\ \A i \in 1..Len(q.wheres) : WhereParts(q)[i] = WhereParams(q.wheres[i])
         /\ OrderParts(q) \in Seq(Seq(Sqls)) /\ Len(OrderParts(q)) = Len(q.orders)
         /\ \A i \in 1..Len(q.orders) : OrderParts(q)[i] = OrderParams(q.orders[i])
         /\ WhereValues(q) = FlattenSeq(WhereParts(q)) /\ OrderValues(q) = FlattenSeq(OrderParts(q))
<1>1. q.wheres \in Seq(Clauses) /\ q.orders \in Seq(Terms)
  BY DEF Queries
<1>2. /\ DOMAIN q.wheres = 1..Len(q.wheres) /\ Len(q.wheres) \in Nat
      /\ DOMAIN q.orders = 1..Len(q.orders) /\ Len(q.orders) \in Nat
  BY <1>1
<1>3. \A i \in 1..Len(q.wheres) : WhereParams(q.wheres[i]) \in Seq(Sqls)
  BY <1>1, WhereBound
<1>4. \A i \in 1..Len(q.orders) : OrderParams(q.orders[i]) \in Seq(Sqls)
  BY <1>1, OrderIsBound DEF OrderBound
<1>5. WhereParts(q) \in Seq(Seq(Sqls)) /\ Len(WhereParts(q)) = Len(q.wheres)
  BY <1>2, <1>3 DEF WhereParts
<1>6. OrderParts(q) \in Seq(Seq(Sqls)) /\ Len(OrderParts(q)) = Len(q.orders)
  BY <1>2, <1>4 DEF OrderParts
<1>7. /\ \A i \in 1..Len(q.wheres) : WhereParts(q)[i] = WhereParams(q.wheres[i])
      /\ \A i \in 1..Len(q.orders) : OrderParts(q)[i] = OrderParams(q.orders[i])
  BY <1>2 DEF WhereParts, OrderParts
<1>8. WhereValues(q) = FlattenSeq(WhereParts(q)) /\ OrderValues(q) = FlattenSeq(OrderParts(q))
  BY Zenon DEF WhereValues, OrderValues, WhereParts, OrderParts
<1> QED BY <1>5, <1>6, <1>7, <1>8

LEMMA ParamsCompiled ==
  ASSUME NEW q \in Queries
  PROVE  ParamShape(BuildSql(q).params, q)
<1> DEFINE a == <<Text(q.collection)>>
           b == IF q.did = 0 THEN <<>> ELSE <<Text(<<q.did>>)>>
           w == WhereValues(q)
           o == OrderValues(q)
           t == TailParams(q)
           x == a \o b
           y == x \o w
           z == y \o o
           p == z \o t
<1>1. BuildSql(q).params = p
  BY DEF BuildSql
<1>2. q.collection \in Seq(Int) /\ q.did \in Nat
  BY NatTexts DEF Queries
<1>3. /\ a \in Seq(Sqls) /\ Len(a) = 1 /\ a[1] = Text(q.collection)
      /\ b \in Seq(Sqls) /\ Len(b) = (IF q.did = 0 THEN 0 ELSE 1)
      /\ q.did # 0 => b[1] = Text(<<q.did>>)
  <2>1. Text(q.collection) \in Sqls /\ Text(<<q.did>>) \in Sqls
    <3>1. <<q.did>> \in Seq(Int)
      BY <1>2
    <3> QED BY <1>2, <3>1, SqlMembers
  <2> QED BY <2>1
<1>4. w \in Seq(Sqls) /\ o \in Seq(Sqls) /\ t \in Seq(Sqls)
  BY PartsBound, FlatPlaces, TailBound
<1> HIDE DEF a, b, w, o, t
<1>50. x \in Seq(Sqls) /\ Behind(x, a, b)
  BY <1>3, ConcatBehind
<1>5. /\ Len(x) = Len(a) + Len(b) /\ Len(a) \in Nat /\ Len(b) \in Nat
      /\ \A i \in 1..Len(a) : x[i] = a[i]
      /\ \A i \in 1..Len(b) : x[Len(a) + i] = b[i]
  BY <1>50 DEF Behind
<1> HIDE DEF x
<1>60. y \in Seq(Sqls) /\ Behind(y, x, w)
  BY <1>4, <1>50, ConcatBehind
<1>6. /\ Len(y) = Len(x) + Len(w) /\ Len(x) \in Nat /\ Len(w) \in Nat
      /\ \A i \in 1..Len(x) : y[i] = x[i]
      /\ \A i \in 1..Len(w) : y[Len(x) + i] = w[i]
  BY <1>60 DEF Behind
<1> HIDE DEF y
<1>70. z \in Seq(Sqls) /\ Behind(z, y, o)
  BY <1>4, <1>60, ConcatBehind
<1>7. /\ Len(z) = Len(y) + Len(o) /\ Len(y) \in Nat /\ Len(o) \in Nat
      /\ \A i \in 1..Len(y) : z[i] = y[i]
      /\ \A i \in 1..Len(o) : z[Len(y) + i] = o[i]
  BY <1>70 DEF Behind
<1> HIDE DEF z
<1>80. p \in Seq(Sqls) /\ Behind(p, z, t)
  BY <1>4, <1>70, ConcatBehind
<1>8. /\ Len(p) = Len(z) + Len(t) /\ Len(z) \in Nat /\ Len(t) \in Nat
      /\ \A i \in 1..Len(z) : p[i] = z[i]
      /\ \A i \in 1..Len(t) : p[Len(z) + i] = t[i]
  BY <1>80 DEF Behind
<1> HIDE DEF p
<1>9. /\ Len(w) \in Nat /\ Len(o) \in Nat /\ Len(t) \in Nat
      /\ Len(x) = FixedParams(q) /\ Len(y) = FixedParams(q) + Len(w)
      /\ Len(z) = FixedParams(q) + Len(w) + Len(o)
      /\ FixedParams(q) \in 1..2
  BY <1>3, <1>4, <1>5, <1>6, <1>7 DEF FixedParams
<1>10. p[1] = Text(q.collection)
  <2>1. 1 \in 1..Len(a) /\ 1 \in 1..Len(x) /\ 1 \in 1..Len(y) /\ 1 \in 1..Len(z)
    BY <1>3, <1>9
  <2> QED BY <1>3, <1>5, <1>6, <1>7, <1>8, <2>1
<1>11. ASSUME q.did # 0
       PROVE  p[2] = Text(<<q.did>>)
  <2>1. 1 \in 1..Len(b) /\ Len(a) + 1 = 2 /\ 2 \in 1..Len(x) /\ 2 \in 1..Len(y) /\ 2 \in 1..Len(z)
    BY <1>3, <1>9, <1>11 DEF FixedParams
  <2>2. x[2] = b[1]
    BY <1>5, <2>1
  <2> QED BY <1>3, <1>6, <1>7, <1>8, <1>11, <2>1, <2>2
<1>12. ASSUME NEW i \in 1..Len(w)
       PROVE  p[FixedParams(q) + i] = w[i]
  <2>1. FixedParams(q) + i \in 1..Len(y) /\ FixedParams(q) + i \in 1..Len(z)
    BY <1>9
  <2> QED BY <1>6, <1>7, <1>8, <1>9, <2>1
<1>13. ASSUME NEW i \in 1..Len(o)
       PROVE  p[FixedParams(q) + Len(w) + i] = o[i]
  <2>1. FixedParams(q) + Len(w) + i \in 1..Len(z)
    BY <1>9
  <2> QED BY <1>7, <1>8, <1>9, <2>1
<1>14. Len(p) = FixedParams(q) + Len(w) + Len(o) + Len(t)
  BY <1>8, <1>9
<1>15. ParamShape(p, q)
  BY <1>8, <1>80, <1>9, <1>10, <1>11, <1>12, <1>13, <1>14 DEF ParamShape, w, o, t
<1> QED BY <1>1, <1>15

-----------------------------------------------------------------------------
(* The parameters each condition takes.                                    *)
LEMMA HolesAt ==
  ASSUME NEW tests, NEW k \in Nat, k # 0, NEW n, HolesBefore(tests, k) = n
  PROVE  HolesBefore(tests, k + 1) = n + Holes(tests[k])
<1>1. k \in Nat \ {0}
  OBVIOUS
<1> QED BY <1>1, HolesNext

(* The fixed conditions take the fixed parameters.                         *)
LEMMA FixedHoles ==
  ASSUME NEW q \in Queries, NEW tests, WhereShape(tests, q)
  PROVE  /\ HolesBefore(tests, 1) = 0 /\ HolesBefore(tests, FixedTests(q) + 1) = FixedParams(q)
         /\ q.did # 0 => HolesBefore(tests, FixedTests(q)) = 1
<1>1. HolesBefore(tests, 1) = 0
  <2>1. 1 \in Nat \ {0}
    OBVIOUS
  <2> QED BY <2>1, HolesNext
<1>2. Holes("collection") = 1 /\ Holes("did") = 1 /\ Holes("is_deleted = 0") = 0
  BY DEF Holes
<1>3. q.deleted \in BOOLEAN /\ q.did \in Nat
  BY DEF Queries
<1>4. HolesBefore(tests, 1 + 1) = 0 + Holes(tests[1])
  BY <1>1, HolesAt
<1>5. HolesBefore(tests, 2) = 1
  <2>1. tests[1] = "collection"
    BY DEF WhereShape
  <2>2. Holes(tests[1]) = 1
    BY <1>2, <2>1
  <2> QED BY <1>4, <2>2
<1>6. HolesBefore(tests, 2 + 1) = 1 + Holes(tests[2])
  BY <1>5, HolesAt
<1> DEFINE F == 2 + (IF q.deleted THEN 0 ELSE 1)
<1>7. HolesBefore(tests, F) = 1 /\ F \in Nat /\ F # 0
  <2>1. CASE q.deleted
    BY <1>5, <2>1
  <2>2. CASE ~q.deleted
    <3>1. tests[2] = "is_deleted = 0"
      BY <2>2 DEF WhereShape
    <3>2. Holes(tests[2]) = 0
      BY <1>2, <3>1
    <3> QED BY <1>6, <2>2, <3>2
  <2> QED BY <1>3, <2>1, <2>2
<1>8. FixedTests(q) = F - (IF q.did = 0 THEN 1 ELSE 0)
  BY <1>3 DEF FixedTests
<1> HIDE DEF F
<1>9. CASE q.did = 0
  <2>1. FixedTests(q) + 1 = F
    BY <1>7, <1>8, <1>9
  <2> QED BY <1>1, <1>7, <1>9, <2>1 DEF FixedParams
<1>10. CASE q.did # 0
  <2>1. FixedTests(q) = F
    BY <1>7, <1>8, <1>10
  <2>2. tests[F] = "did"
    BY <1>10, <2>1 DEF WhereShape
  <2>3. Holes(tests[F]) = 1
    BY <1>2, <2>2
  <2>4. HolesBefore(tests, F + 1) = 1 + Holes(tests[F])
    BY <1>7, HolesAt
  <2>5. HolesBefore(tests, F + 1) = 2
    BY <2>3, <2>4
  <2> QED BY <1>1, <1>7, <1>10, <2>1, <2>5 DEF FixedParams
<1> QED BY <1>9, <1>10

(* As many placeholders precede a clause as parameters do.                 *)
LEMMA ClauseHoles ==
  ASSUME NEW q \in Queries, NEW tests, WhereShape(tests, q),
         NEW off \in [0..Len(q.wheres) -> Nat], FlatBy(off, WhereParts(q))
  PROVE  \A i \in 0..Len(q.wheres) :
           HolesBefore(tests, FixedTests(q) + 1 + i) = FixedParams(q) + off[i]
<1> DEFINE N == Len(q.wheres)
           F == FixedTests(q)
           P == FixedParams(q)
           bad == {i \in 0..N : HolesBefore(tests, F + 1 + i) # P + off[i]}
<1>1. N \in Nat /\ F \in Nat /\ P \in Nat /\ \A i \in 1..N : q.wheres[i] \in Clauses
  BY DEF Queries, FixedTests, FixedParams
<1>2. /\ off[0] = 0
      /\ \A i \in 1..N : off[i] = off[i - 1] + Len(WhereParts(q)[i])
  BY PartsBound DEF FlatBy
<1>3. \A i \in 1..N : Len(WhereParts(q)[i]) = Holes(tests[F + i]) /\ Holes(tests[F + i]) \in Nat
  <2> TAKE i \in 1..N
  <2>1. tests[F + i] = Test(q.wheres[i])
    BY DEF WhereShape
  <2>2. WhereParts(q)[i] = WhereParams(q.wheres[i])
    BY PartsBound
  <2>3. /\ Holes(Test(q.wheres[i])) \in {1, 2}
        /\ Len(WhereParams(q.wheres[i])) = Holes(Test(q.wheres[i]))
    BY <1>1, WhereBound
  <2> QED BY <2>1, <2>2, <2>3
<1> HIDE DEF N, F, P
<1>4. bad = {}
  <2> SUFFICES ASSUME bad # {} PROVE FALSE
    OBVIOUS
  <2>1. bad \in SUBSET (0..N) /\ 0 \notin bad
    <3>1. F + 1 + 0 = F + 1 /\ P + off[0] = P
      BY <1>1, <1>2
    <3>2. HolesBefore(tests, F + 1) = P
      BY FixedHoles DEF F, P
    <3> QED BY <3>1, <3>2
  <2>2. PICK n \in 1..N : n \in bad /\ \A m \in 0..(n - 1) : m \notin bad
    <3> HIDE DEF bad
    <3> QED BY <1>1, <2>1, FirstBad
  <2>3. /\ n - 1 \in 0..(n - 1) /\ n - 1 \in 0..N /\ n \in 0..N
        /\ F + 1 + (n - 1) = F + n /\ F + 1 + n = (F + n) + 1
        /\ F + n \in Nat /\ F + n # 0
    BY <1>1
  <2>4. HolesBefore(tests, F + n) = P + off[n - 1]
    BY <2>2, <2>3
  <2>5. HolesBefore(tests, (F + n) + 1) = (P + off[n - 1]) + Holes(tests[F + n])
    BY <2>3, <2>4, HolesAt
  <2>6. off[n] = off[n - 1] + Holes(tests[F + n]) /\ off[n - 1] \in Nat /\ off[n] \in Nat
    <3>1. off[n - 1] \in Nat /\ off[n] \in Nat
      BY <2>3 DEF N
    <3>2. off[n] = off[n - 1] + Len(WhereParts(q)[n]) /\ Len(WhereParts(q)[n]) = Holes(tests[F + n])
      BY <1>2, <1>3
    <3> QED BY <3>1, <3>2
  <2>7. HolesBefore(tests, F + 1 + n) = P + off[n]
    <3> DEFINE h == Holes(tests[F + n])
               o == off[n - 1]
               e == off[n]
    <3>1. h \in Nat /\ o \in Nat /\ e = o + h /\ HolesBefore(tests, F + 1 + n) = (P + o) + h
      BY <1>3, <2>3, <2>5, <2>6
    <3>2. HolesBefore(tests, F + 1 + n) = P + e
      <4> HIDE DEF h, o, e
      <4> QED BY <1>1, <3>1
    <3> QED BY <3>2
  <2> QED BY <2>2, <2>7
<1> QED BY <1>4 DEF N, F, P

(* What SQLite binds to the k-th condition.                                *)
Args(stmt, k) ==
  LET n == HolesBefore(stmt.where, k)
  IN [i \in 1..2 |-> IF n + i <= Len(stmt.params) THEN stmt.params[n + i] ELSE SqlNull]

LEMMA SelectedByArgs ==
  ASSUME NEW stmt, NEW item
  PROVE  Selected(stmt, item)
           <=> \A k \in DOMAIN stmt.where : Holds(stmt.where[k], Args(stmt, k), item)
BY DEF Selected, Args

Second(w) == IF w.op = "contains" /\ w.value.type = "text"
             THEN Text(EscapeLikeLiteral(w.value.s)) ELSE ToSqlite(w.value)

(* The fixed conditions are bound to the collection and to the DID.        *)
LEMMA FixedArgs ==
  ASSUME NEW q \in Queries
  PROVE  /\ Args(BuildSql(q), 1)[1] = Text(q.collection)
         /\ q.did # 0 => Args(BuildSql(q), FixedTests(q))[1] = Text(<<q.did>>)
<1> DEFINE stmt == BuildSql(q)
<1>1. WhereShape(stmt.where, q)
  BY WhereCompiled
<1>2. ParamShape(stmt.params, q)
  BY ParamsCompiled
<1>3. /\ Len(WhereValues(q)) \in Nat /\ Len(OrderValues(q)) \in Nat /\ Len(TailParams(q)) \in Nat
  <2>1. WhereValues(q) \in Seq(Sqls) /\ OrderValues(q) \in Seq(Sqls) /\ TailParams(q) \in Seq(Sqls)
    BY PartsBound, FlatPlaces, TailBound
  <2> QED BY <2>1
<1>4. /\ stmt.params[1] = Text(q.collection) /\ (q.did # 0 => stmt.params[2] = Text(<<q.did>>))
      /\ Len(stmt.params) >= FixedParams(q) /\ Len(stmt.params) \in Nat
  BY <1>2, <1>3 DEF ParamShape, FixedParams
<1> HIDE DEF stmt
<1>5. Args(stmt, 1)[1] = Text(q.collection)
  <2>1. HolesBefore(stmt.where, 1) = 0 /\ 0 + 1 = 1 /\ 1 <= Len(stmt.params)
    BY <1>1, <1>4, FixedHoles DEF FixedParams
  <2> QED BY <1>4, <2>1 DEF Args
<1>6. ASSUME q.did # 0
      PROVE  Args(stmt, FixedTests(q))[1] = Text(<<q.did>>)
  <2>1. HolesBefore(stmt.where, FixedTests(q)) = 1 /\ 1 + 1 = 2 /\ 2 <= Len(stmt.params)
    BY <1>1, <1>4, <1>6, FixedHoles DEF FixedParams
  <2> QED BY <1>4, <1>6, <2>1 DEF Args
<1> QED BY <1>5, <1>6 DEF stmt

(* A clause is bound to its own path and value.                            *)
LEMMA ClauseArgs ==
  ASSUME NEW q \in Queries, NEW c \in 1..Len(q.wheres)
  PROVE  LET a == Args(BuildSql(q), FixedTests(q) + c)
             w == q.wheres[c]
         IN a[1] = PathParam(w.path) /\ (Holes(Test(w)) = 2 => a[2] = Second(w))
<1> DEFINE stmt == BuildSql(q)
           w == q.wheres[c]
           P == FixedParams(q)
           parts == WhereParts(q)
           N == Len(q.wheres)
<1>1. WhereShape(stmt.where, q) /\ ParamShape(stmt.params, q)
  BY WhereCompiled, ParamsCompiled
<1>2. /\ parts \in Seq(Seq(Sqls)) /\ Len(parts) = N /\ parts[c] = WhereParams(w)
      /\ WhereValues(q) = FlattenSeq(parts)
  BY PartsBound
<1>3. FlattenSeq(parts) \in Seq(Sqls) /\ \E off \in [0..N -> Nat] : FlatBy(off, parts)
  BY <1>2, FlatPlaces
<1>4. PICK off \in [0..N -> Nat] : FlatBy(off, parts)
  BY <1>3
<1>5. w \in Clauses /\ N \in Nat /\ c \in 1..N /\ P \in Nat /\ FixedTests(q) \in Nat
  BY DEF Queries, FixedParams, FixedTests
<1>6. /\ Len(parts[c]) = Holes(Test(w)) /\ Holes(Test(w)) \in {1, 2}
      /\ parts[c][1] = PathParam(w.path)
      /\ Holes(Test(w)) = 2 => parts[c][2] = Second(w)
  BY <1>2, <1>5, WhereBound DEF Second
<1> DEFINE o == off[c - 1]
           e == off[c]
           v == WhereValues(q)
<1>7. /\ e = o + Len(parts[c]) /\ e <= Len(v)
      /\ \A j \in 1..Len(parts[c]) : v[o + j] = parts[c][j]
  BY <1>2, <1>4, <1>5 DEF FlatBy
<1>8. HolesBefore(stmt.where, FixedTests(q) + c) = P + o /\ o \in Nat /\ e \in Nat
  <2>1. c - 1 \in 0..N /\ c \in 0..N /\ FixedTests(q) + 1 + (c - 1) = FixedTests(q) + c
    BY <1>5
  <2>2. HolesBefore(stmt.where, FixedTests(q) + 1 + (c - 1)) = FixedParams(q) + off[c - 1]
    BY <1>1, <1>4, <2>1, ClauseHoles
  <2> QED BY <1>4, <2>1, <2>2
<1>9. /\ v \in Seq(Sqls) /\ Len(v) \in Nat /\ Len(stmt.params) \in Nat
      /\ P + Len(v) <= Len(stmt.params)
      /\ \A i \in 1..Len(v) : stmt.params[P + i] = v[i]
  <2>1. v \in Seq(Sqls) /\ OrderValues(q) \in Seq(Sqls) /\ TailParams(q) \in Seq(Sqls)
    BY PartsBound, FlatPlaces, TailBound
  <2>2. Len(v) \in Nat /\ Len(OrderValues(q)) \in Nat /\ Len(TailParams(q)) \in Nat
    BY <2>1
  <2> QED BY <1>1, <1>5, <2>1, <2>2 DEF ParamShape
<1> HIDE DEF stmt, w, P, parts, N, o, e, v
<1>10. ASSUME NEW i \in 1..Len(parts[c])
       PROVE  Args(stmt, FixedTests(q) + c)[i] = parts[c][i]
  <2>1. /\ o + i \in 1..Len(v) /\ (P + o) + i = P + (o + i)
        /\ (P + o) + i <= Len(stmt.params) /\ i \in 1..2
    <3> DEFINE m == Len(parts[c])
    <3>1. m \in {1, 2} /\ i \in 1..m /\ e = o + m /\ e <= Len(v)
      BY <1>6, <1>7
    <3> HIDE DEF m
    <3>2. P \in Nat /\ o \in Nat /\ Len(v) \in Nat /\ Len(stmt.params) \in Nat
          /\ P + Len(v) <= Len(stmt.params)
      BY <1>5, <1>8, <1>9
    <3> QED BY <3>1, <3>2
  <2>2. stmt.params[P + (o + i)] = parts[c][i]
    BY <1>7, <1>9, <2>1
  <2> QED BY <1>8, <2>1, <2>2 DEF Args
<1>11. Args(stmt, FixedTests(q) + c)[1] = PathParam(w.path)
  <2>1. 1 \in 1..Len(parts[c])
    BY <1>6
  <2> QED BY <1>6, <1>10, <2>1
<1>12. Holes(Test(w)) = 2 => Args(stmt, FixedTests(q) + c)[2] = Second(w)
  <2>1. Holes(Test(w)) = 2 => 2 \in 1..Len(parts[c])
    BY <1>6
  <2> QED BY <1>6, <1>10, <2>1
<1> QED BY <1>11, <1>12 DEF stmt, w

-----------------------------------------------------------------------------
(* SQLite's answer on the values bound and extracted is the answer on the  *)
(* JSON values, as far as the promise goes.                                *)
IsNull(v)    == v = JNull /\ v.type = "null" /\ Extracted(v) = SqlNull /\ ToSqlite(v) = SqlNull
IsNumber(v)  == /\ v.type \in {"bool", "int"} /\ v.n \in Int /\ v = Json(v.type, v.n, <<>>)
                /\ Extracted(v) = Number(v.n) /\ ToSqlite(v) = Number(v.n)
IsText(v)    == /\ v.type = "text" /\ v.s \in Seq(Int) /\ v = Json("text", 0, v.s)
                /\ Extracted(v) = Text(v.s) /\ ToSqlite(v) = Text(v.s)

LEMMA ValueCases ==
  ASSUME NEW v \in JsonValues, v.type # "big"
  PROVE  IsNull(v) \/ IsNumber(v) \/ IsText(v)
<1>1. CASE v = JNull
  <2>1. v.type = "null"
    BY <1>1 DEF JNull, Json
  <2> QED BY <1>1, <2>1 DEF IsNull, Extracted, ToSqlite
<1>2. CASE v.type \in {"bool", "int"} /\ v.n \in Int /\ v.s = <<>> /\ v = Json(v.type, v.n, <<>>)
  <2>1. Extracted(v) = Number(v.n) /\ ToSqlite(v) = Number(v.n)
    BY <1>2 DEF Extracted, ToSqlite
  <2> QED BY <1>2, <2>1 DEF IsNumber
<1>3. CASE v.type = "text" /\ v.n = 0 /\ v.s \in Seq(Int) /\ v = Json("text", 0, v.s)
  <2>1. Extracted(v) = Text(v.s) /\ ToSqlite(v) = Text(v.s)
    BY <1>3 DEF Extracted, ToSqlite
  <2> QED BY <1>3, <2>1 DEF IsText
<1> QED BY <1>1, <1>2, <1>3, JsonCases

(* Values are equal if and only if what they carry is.                     *)
LEMMA Apart ==
  /\ \A n, m : (Number(n) = Number(m) <=> n = m) /\ Number(n).class = 1 /\ Number(n).n = n
  /\ \A s, t : (Text(s) = Text(t) <=> s = t) /\ Text(s).class = 2 /\ Text(s).s = s
  /\ SqlNull.class = 0
BY DEF Number, Text, SqlNull, Sql

(* SQLite and JSON agree on values of one type, or missing, within i64.    *)
Comparable(v, u) ==
  /\ v.type # "big" /\ u.type # "big"
  /\ v.type \in {u.type, "null"} \/ u.type = "null"

Agree(v, u) ==
  LET e == Extracted(v)
      b == ToSqlite(u)
  IN /\ e \in Sqls /\ b \in Sqls
     /\ e = SqlNull <=> v = JNull
     /\ b = SqlNull <=> u = JNull
     /\ e = b <=> v = u
     /\ e # SqlNull /\ b # SqlNull => /\ SqlBefore(e, b) <=> JsonBefore(v, u)
                                      /\ SqlBefore(b, e) <=> JsonBefore(u, v)
     /\ v = JNull \/ u = JNull => ~JsonBefore(v, u) /\ ~JsonBefore(u, v)

LEMMA ValuesAgree ==
  ASSUME NEW v \in JsonValues, NEW u \in JsonValues, Comparable(v, u)
  PROVE  Agree(v, u)
<1>1. Extracted(v) \in Sqls /\ ToSqlite(u) \in Sqls
  BY BoundType
<1>2. JNull.type = "null"
  BY DEF JNull, Json
<1>3. CASE IsNull(v) /\ IsNull(u)
  BY <1>1, <1>2, <1>3 DEF IsNull, Agree, JsonBefore
<1>4. CASE IsNull(v) /\ IsNumber(u)
  <2>1. Number(u.n) # SqlNull /\ u # JNull /\ v # u
    BY <1>2, <1>4, Apart DEF IsNull, IsNumber
  <2> QED BY <1>1, <1>4, <2>1 DEF IsNull, IsNumber, Agree, JsonBefore
<1>5. CASE IsNull(v) /\ IsText(u)
  <2>1. Text(u.s) # SqlNull /\ u # JNull /\ v # u
    BY <1>2, <1>5, Apart DEF IsNull, IsText
  <2> QED BY <1>1, <1>5, <2>1 DEF IsNull, IsText, Agree, JsonBefore
<1>6. CASE IsNumber(v) /\ IsNull(u)
  <2>1. Number(v.n) # SqlNull /\ v # JNull /\ v # u
    BY <1>2, <1>6, Apart DEF IsNull, IsNumber
  <2> QED BY <1>1, <1>6, <2>1 DEF IsNull, IsNumber, Agree, JsonBefore
<1>7. CASE IsText(v) /\ IsNull(u)
  <2>1. Text(v.s) # SqlNull /\ v # JNull /\ v # u
    BY <1>2, <1>7, Apart DEF IsNull, IsText
  <2> QED BY <1>1, <1>7, <2>1 DEF IsNull, IsText, Agree, JsonBefore
<1>8. CASE IsNumber(v) /\ IsNumber(u)
  <2>1. v.type = u.type /\ v.type \in {"bool", "int"} /\ v # JNull /\ u # JNull
    BY <1>2, <1>8 DEF IsNumber, Comparable
  <2>2. v = u <=> v.n = u.n
    BY <1>8, <2>1 DEF IsNumber
  <2>3. Number(v.n) # SqlNull /\ Number(u.n) # SqlNull /\ (Number(v.n) = Number(u.n) <=> v.n = u.n)
    BY Apart
  <2>4. /\ SqlBefore(Number(v.n), Number(u.n)) <=> v.n < u.n
        /\ SqlBefore(Number(u.n), Number(v.n)) <=> u.n < v.n
    BY Apart DEF SqlBefore
  <2>5. (JsonBefore(v, u) <=> v.n < u.n) /\ (JsonBefore(u, v) <=> u.n < v.n)
    BY <2>1 DEF JsonBefore
  <2>6. Extracted(v) = Number(v.n) /\ ToSqlite(u) = Number(u.n)
    BY <1>8 DEF IsNumber
  <2> QED BY <1>1, <2>1, <2>2, <2>3, <2>4, <2>5, <2>6 DEF Agree
<1>9. CASE IsText(v) /\ IsText(u)
  <2>1. v.type = "text" /\ u.type = "text" /\ v # JNull /\ u # JNull
    BY <1>2, <1>9 DEF IsText
  <2>2. v = u <=> v.s = u.s
    BY <1>9 DEF IsText
  <2>3. Text(v.s) # SqlNull /\ Text(u.s) # SqlNull /\ (Text(v.s) = Text(u.s) <=> v.s = u.s)
    BY Apart
  <2>4. /\ SqlBefore(Text(v.s), Text(u.s)) <=> TextBefore(v.s, u.s)
        /\ SqlBefore(Text(u.s), Text(v.s)) <=> TextBefore(u.s, v.s)
    BY Apart DEF SqlBefore
  <2>5. (JsonBefore(v, u) <=> TextBefore(v.s, u.s)) /\ (JsonBefore(u, v) <=> TextBefore(u.s, v.s))
    BY <2>1 DEF JsonBefore
  <2>6. Extracted(v) = Text(v.s) /\ ToSqlite(u) = Text(u.s)
    BY <1>9 DEF IsText
  <2> QED BY <1>1, <2>1, <2>2, <2>3, <2>4, <2>5, <2>6 DEF Agree
<1>10. CASE (IsNumber(v) /\ IsText(u)) \/ (IsText(v) /\ IsNumber(u))
  BY <1>10 DEF IsNumber, IsText, Comparable
<1> QED BY <1>3, <1>4, <1>5, <1>6, <1>7, <1>8, <1>9, <1>10, ValueCases DEF Comparable

(* A path finds its field.                                                 *)
LEMMA FieldFound ==
  ASSUME NEW path \in Paths, GoodPath(path), NEW item \in Stored
  PROVE  /\ FieldOf(item, path) \in JsonValues
         /\ At(item, PathParam(path)) = Extracted(FieldOf(item, path))
<1>1. PathParam(path) = Text(<<36, path.field>>) /\ path.field \in Nat
  BY PathBound DEF Paths
<1>2. Text(<<36, path.field>>) = Text(<<36, RatingField>>) <=> path.field = RatingField
  <2>1. <<36, path.field>> = <<36, RatingField>> <=> path.field = RatingField
    OBVIOUS
  <2> QED BY <2>1, Apart
<1>3. Extracted(JNull) = SqlNull
  BY DEF Extracted, JNull, Json
<1>4. item.rating \in JsonValues /\ JNull \in JsonValues
  BY DEF Stored, JsonValues
<1> QED BY <1>1, <1>2, <1>3, <1>4 DEF At, FieldOf

(* A condition bound to its own parameters holds as QueryOp promises.      *)
LEMMA HoldsAsPromised ==
  ASSUME NEW w \in Clauses, GoodPath(w.path), NEW item \in Stored, NEW a,
         a[1] = PathParam(w.path), Holes(Test(w)) = 2 => a[2] = Second(w),
         LikeWithLike(FieldOf(item, w.path), w.op, w.value)
  PROVE  Holds(Test(w), a, item) <=> Promised(w.op, FieldOf(item, w.path), w.value)
<1> DEFINE v == FieldOf(item, w.path)
           u == w.value
           e == Extracted(v)
           b == ToSqlite(u)
<1>1. w.path \in Paths /\ w.op \in Ops /\ u \in JsonValues
  BY DEF Clauses
<1>2. v \in JsonValues /\ At(item, a[1]) = e
  BY <1>1, FieldFound
<1>3. /\ Comparable(v, u)
      /\ w.op \in {"contains", "like"} => v.type \in {"text", "null"} /\ u.type = "text"
  BY DEF LikeWithLike, Comparable
<1> HIDE DEF v
<1>4. Agree(v, u)
  BY <1>1, <1>2, <1>3, ValuesAgree
<1>5. /\ e \in Sqls /\ b \in Sqls
      /\ e = SqlNull <=> v = JNull
      /\ b = SqlNull <=> u = JNull
      /\ e = b <=> v = u
      /\ e # SqlNull /\ b # SqlNull => (SqlBefore(e, b) <=> JsonBefore(v, u))
      /\ e # SqlNull /\ b # SqlNull => (SqlBefore(b, e) <=> JsonBefore(u, v))
      /\ v = JNull \/ u = JNull => ~JsonBefore(v, u) /\ ~JsonBefore(u, v)
  BY <1>4 DEF Agree
<1> HIDE DEF u, e, b
<1>6. ~(SqlBefore(e, b) /\ SqlBefore(b, e)) /\ (e = b => ~SqlBefore(e, b))
      /\ (e # b => SqlBefore(e, b) \/ SqlBefore(b, e))
  BY <1>5, SqlStrict, SqlTransitive, SqlTotal
<1>7. w.op # "contains" => Second(w) = b
  BY DEF Second, b, u
<1>8. CASE w.op = "eq"
  <2>1. CASE u = JNull
    <3>1. Test(w) = "IS NULL"
      BY <1>8, <2>1 DEF Test, u
    <3> QED BY <1>2, <1>5, <1>8, <2>1, <3>1 DEF Holds, Promised, u, v
  <2>2. CASE u # JNull
    <3>1. Test(w) = "=" /\ Holes("=") = 2
      BY <1>8, <2>2 DEF Test, Holes, u
    <3>2. a[2] = b
      BY <1>7, <1>8, <3>1
    <3>3. Holds("=", a, item) <=> (e # SqlNull /\ b # SqlNull) /\ e = b
      BY <1>2, <3>2 DEF Holds
    <3>4. Promised("eq", v, u) <=> v = u
      BY DEF Promised
    <3> QED BY <1>5, <1>8, <2>2, <3>1, <3>3, <3>4 DEF v, u
  <2> QED BY <2>1, <2>2
<1>9. CASE w.op = "ne"
  <2>1. CASE u = JNull
    <3>1. Test(w) = "IS NOT NULL"
      BY <1>9, <2>1 DEF Test, u
    <3> QED BY <1>2, <1>5, <1>9, <2>1, <3>1 DEF Holds, Promised, u, v
  <2>2. CASE u # JNull
    <3>1. Test(w) = "IS NOT" /\ Holes("IS NOT") = 2
      BY <1>9, <2>2 DEF Test, Holes, u
    <3>2. a[2] = b
      BY <1>7, <1>9, <3>1
    <3>3. Holds("IS NOT", a, item) <=> e # b
      BY <1>2, <3>2 DEF Holds
    <3>4. Promised("ne", v, u) <=> v # u
      BY DEF Promised
    <3> QED BY <1>5, <1>9, <3>1, <3>3, <3>4 DEF v, u
  <2> QED BY <2>1, <2>2
<1>10. ASSUME w.op \notin {"eq", "ne"}
       PROVE  Test(w) = w.op /\ Holes(Test(w)) = 2
  BY <1>1, <1>10 DEF Test, Holes, Ops
<1>11. CASE w.op = "gt"
  <2>1. a[2] = b /\ Test(w) = "gt"
    BY <1>7, <1>10, <1>11
  <2>2. Holds("gt", a, item) <=> (e # SqlNull /\ b # SqlNull) /\ SqlBefore(b, e)
    BY <1>2, <2>1 DEF Holds
  <2>3. Promised("gt", v, u) <=> JsonBefore(u, v)
    BY DEF Promised
  <2> QED BY <1>5, <1>11, <2>1, <2>2, <2>3 DEF v, u
<1>12. CASE w.op = "gte"
  <2>1. a[2] = b /\ Test(w) = "gte"
    BY <1>7, <1>10, <1>12
  <2>2. Holds("gte", a, item) <=> (e # SqlNull /\ b # SqlNull) /\ ~SqlBefore(e, b)
    BY <1>2, <2>1 DEF Holds
  <2>3. Promised("gte", v, u) <=> v # JNull /\ (v = u \/ JsonBefore(u, v))
    BY DEF Promised
  <2> QED BY <1>5, <1>6, <1>12, <2>1, <2>2, <2>3 DEF v, u
<1>13. CASE w.op = "lt"
  <2>1. a[2] = b /\ Test(w) = "lt"
    BY <1>7, <1>10, <1>13
  <2>2. Holds("lt", a, item) <=> (e # SqlNull /\ b # SqlNull) /\ SqlBefore(e, b)
    BY <1>2, <2>1 DEF Holds
  <2>3. Promised("lt", v, u) <=> JsonBefore(v, u)
    BY DEF Promised
  <2> QED BY <1>5, <1>13, <2>1, <2>2, <2>3 DEF v, u
<1>14. CASE w.op = "lte"
  <2>1. a[2] = b /\ Test(w) = "lte"
    BY <1>7, <1>10, <1>14
  <2>2. Holds("lte", a, item) <=> (e # SqlNull /\ b # SqlNull) /\ ~SqlBefore(b, e)
    BY <1>2, <2>1 DEF Holds
  <2>3. Promised("lte", v, u) <=> v # JNull /\ (v = u \/ JsonBefore(v, u))
    BY DEF Promised
  <2> QED BY <1>5, <1>6, <1>14, <2>1, <2>2, <2>3 DEF v, u
<1>15. ASSUME u.type = "text"
       PROVE  IsText(u) /\ b = Text(u.s) /\ b # SqlNull
  <2>1. IsText(u)
    BY <1>1, <1>3, <1>15, ValueCases DEF Comparable, IsNull, IsNumber
  <2> QED BY <2>1, Apart DEF IsText, b
<1>16. ASSUME v.type \in {"text", "null"}
       PROVE  v = JNull \/ (IsText(v) /\ v # JNull /\ e = Text(v.s))
  <2>1. JNull.type = "null"
    BY DEF JNull, Json
  <2>2. IsNull(v) \/ IsText(v)
    BY <1>2, <1>3, <1>16, ValueCases DEF Comparable, IsNumber
  <2> QED BY <2>1, <2>2 DEF IsNull, IsText, e
<1>17. \A s : AsText(Text(s)) = s
  BY DEF AsText, Text, Sql
<1>18. CASE w.op = "contains"
  <2>1. Test(w) = "contains" /\ u.type = "text" /\ v.type \in {"text", "null"}
    BY <1>3, <1>10, <1>18
  <2>2. a[2] = Text(EscapeLikeLiteral(u.s))
    BY <1>10, <1>18, <2>1 DEF Second, u
  <2>3. a[2] # SqlNull /\ AsText(a[2]) = EscapeLikeLiteral(u.s)
    BY <1>17, <2>2, Apart
  <2>4. Promised("contains", v, u) <=> v # JNull /\ Within(Folded(u.s), Folded(v.s))
    BY DEF Promised
  <2>5. CASE v = JNull
    <3>1. ~Holds("contains", a, item)
      BY <1>2, <1>5, <2>5 DEF Holds
    <3> QED BY <1>18, <2>1, <2>4, <2>5, <3>1 DEF v, u
  <2>6. CASE IsText(v) /\ v # JNull /\ e = Text(v.s)
    <3>1. e # SqlNull /\ AsText(e) = v.s
      BY <1>17, <2>6, Apart
    <3>2. Holds("contains", a, item)
            <=> Like(<<AnyText>> \o EscapeLikeLiteral(u.s) \o <<AnyText>>, TRUE, v.s)
      BY <1>2, <2>3, <3>1 DEF Holds
    <3>3. Holds("contains", a, item) <=> Within(Folded(u.s), Folded(v.s))
      <4>1. u.s \in Seq(Int) /\ v.s \in Seq(Int)
        BY <1>15, <2>1, <2>6 DEF IsText
      <4> QED BY <3>2, <4>1, Contained
    <3> QED BY <1>18, <2>1, <2>4, <2>6, <3>3 DEF v, u
  <2> QED BY <1>16, <2>1, <2>5, <2>6
<1>19. CASE w.op = "like"
  <2>1. Test(w) = "like" /\ u.type = "text" /\ v.type \in {"text", "null"}
    BY <1>3, <1>10, <1>19
  <2>2. a[2] = Text(u.s) /\ a[2] # SqlNull
    BY <1>7, <1>10, <1>15, <1>19, <2>1
  <2>3. AsText(a[2]) = u.s
    BY <1>17, <2>2
  <2>4. Promised("like", v, u) <=> v # JNull /\ Like(u.s, FALSE, v.s)
    BY DEF Promised
  <2>5. CASE v = JNull
    <3>1. ~Holds("like", a, item)
      BY <1>2, <1>5, <2>5 DEF Holds
    <3> QED BY <1>19, <2>1, <2>4, <2>5, <3>1 DEF v, u
  <2>6. CASE IsText(v) /\ v # JNull /\ e = Text(v.s)
    <3>1. e # SqlNull /\ AsText(e) = v.s
      BY <1>17, <2>6, Apart
    <3>2. Holds("like", a, item) <=> Like(u.s, FALSE, v.s)
      BY <1>2, <2>2, <2>3, <3>1 DEF Holds
    <3> QED BY <1>19, <2>1, <2>4, <2>6, <3>2 DEF v, u
  <2> QED BY <1>16, <2>1, <2>5, <2>6
<1> QED BY <1>1, <1>8, <1>9, <1>11, <1>12, <1>13, <1>14, <1>18, <1>19 DEF Ops

-----------------------------------------------------------------------------
(* The WHERE clause selects what the query wants.                          *)
LEMMA ClauseSelects ==
  ASSUME NEW q \in Queries, ~Rejected(q), NEW item \in Stored, NEW i \in 1..Len(q.wheres),
         LikeWithLike(FieldOf(item, q.wheres[i].path), q.wheres[i].op, q.wheres[i].value)
  PROVE  Holds(BuildSql(q).where[FixedTests(q) + i], Args(BuildSql(q), FixedTests(q) + i), item)
           <=> Promised(q.wheres[i].op, FieldOf(item, q.wheres[i].path), q.wheres[i].value)
<1> DEFINE w == q.wheres[i]
           a == Args(BuildSql(q), FixedTests(q) + i)
<1>1. w \in Clauses /\ GoodPath(w.path)
  <2>1. q.wheres \in Seq(Clauses)
    BY DEF Queries
  <2>2. i \in DOMAIN q.wheres /\ w \in Clauses
    BY <2>1
  <2> QED BY <2>2 DEF Rejected, GoodPath
<1>2. BuildSql(q).where[FixedTests(q) + i] = Test(w)
  BY WhereCompiled DEF WhereShape
<1>3. a[1] = PathParam(w.path) /\ (Holes(Test(w)) = 2 => a[2] = Second(w))
  BY ClauseArgs
<1> HIDE DEF a
<1>4. Holds(Test(w), a, item) <=> Promised(w.op, FieldOf(item, w.path), w.value)
  BY <1>1, <1>3, HoldsAsPromised
<1> QED BY <1>2, <1>4 DEF a

LEMMA FixedSelect ==
  ASSUME NEW q \in Queries, NEW item \in Stored
  PROVE  LET stmt == BuildSql(q)
         IN /\ Holds(stmt.where[1], Args(stmt, 1), item) <=> item.collection = q.collection
            /\ ~q.deleted => (Holds(stmt.where[2], Args(stmt, 2), item) <=> ~item.deleted)
            /\ q.did # 0 => (Holds(stmt.where[FixedTests(q)], Args(stmt, FixedTests(q)), item)
                               <=> q.did = item.did)
<1> DEFINE stmt == BuildSql(q)
<1>1. WhereShape(stmt.where, q)
  BY WhereCompiled
<1>2. Args(stmt, 1)[1] = Text(q.collection)
      /\ (q.did # 0 => Args(stmt, FixedTests(q))[1] = Text(<<q.did>>))
  BY FixedArgs
<1> HIDE DEF stmt
<1>3. Holds(stmt.where[1], Args(stmt, 1), item) <=> item.collection = q.collection
  <2>1. stmt.where[1] = "collection"
    BY <1>1 DEF WhereShape
  <2>2. Holds("collection", Args(stmt, 1), item) <=> Text(item.collection) = Args(stmt, 1)[1]
    BY DEF Holds
  <2> QED BY <1>2, <2>1, <2>2, Apart
<1>4. ASSUME ~q.deleted
      PROVE  Holds(stmt.where[2], Args(stmt, 2), item) <=> ~item.deleted
  <2>1. stmt.where[2] = "is_deleted = 0"
    BY <1>1, <1>4 DEF WhereShape
  <2>2. Holds("is_deleted = 0", Args(stmt, 2), item) <=> ~item.deleted
    BY DEF Holds
  <2> QED BY <2>1, <2>2
<1>5. ASSUME q.did # 0
      PROVE  Holds(stmt.where[FixedTests(q)], Args(stmt, FixedTests(q)), item) <=> q.did = item.did
  <2> DEFINE a == Args(stmt, FixedTests(q))
  <2>1. stmt.where[FixedTests(q)] = "did"
    BY <1>1, <1>5 DEF WhereShape
  <2>2. a[1] = Text(<<q.did>>)
    BY <1>2, <1>5
  <2> HIDE DEF a
  <2>3. Holds("did", a, item) <=> Text(<<item.did>>) = a[1]
    BY DEF Holds
  <2>4. <<item.did>> = <<q.did>> <=> q.did = item.did
    OBVIOUS
  <2> QED BY <2>1, <2>2, <2>3, <2>4, Apart DEF a
<1> QED BY <1>3, <1>4, <1>5 DEF stmt

LEMMA SelectedAsWanted ==
  ASSUME NEW q \in Queries, ~Rejected(q), ~Unreadable(q), NEW item \in Stored,
         \A i \in DOMAIN q.wheres :
           LikeWithLike(FieldOf(item, q.wheres[i].path), q.wheres[i].op, q.wheres[i].value)
  PROVE  Selected(BuildSql(q), item) <=> Wanted(q, item)
<1> DEFINE stmt == BuildSql(q)
           F == FixedTests(q)
           N == Len(q.wheres)
           Passes(k) == Holds(stmt.where[k], Args(stmt, k), item)
           Meant(i) == Promised(q.wheres[i].op, FieldOf(item, q.wheres[i].path), q.wheres[i].value)
<1>1. Selected(stmt, item) <=> \A k \in DOMAIN stmt.where : Passes(k)
  BY SelectedByArgs
<1>2. DOMAIN q.wheres = 1..N /\ N \in Nat /\ q.deleted \in BOOLEAN /\ q.did \in Nat
  <2>1. q.wheres \in Seq(Clauses)
    BY DEF Queries
  <2> QED BY <2>1 DEF Queries
<1>3. DOMAIN stmt.where = 1..(F + N)
  <2>1. WhereShape(stmt.where, q)
    BY WhereCompiled
  <2> HIDE DEF stmt
  <2>2. stmt.where \in Seq(Tests) /\ Len(stmt.where) = F + N
    BY <2>1 DEF WhereShape
  <2> QED BY <2>2
<1>4. F = 1 + (IF q.deleted THEN 0 ELSE 1) + (IF q.did = 0 THEN 0 ELSE 1)
  BY DEF FixedTests
<1>5. /\ Passes(1) <=> item.collection = q.collection
      /\ ~q.deleted => (Passes(2) <=> ~item.deleted)
      /\ q.did # 0 => (Passes(F) <=> q.did = item.did)
  BY FixedSelect
<1>6. \A i \in 1..N : Passes(F + i) <=> Meant(i)
  BY <1>2, ClauseSelects
<1>7. Wanted(q, item) <=> /\ item.collection = q.collection
                          /\ q.deleted \/ ~item.deleted
                          /\ q.did = 0 \/ q.did = item.did
                          /\ \A i \in 1..N : Meant(i)
  BY <1>2 DEF Wanted
<1> HIDE DEF stmt, F, N, Passes, Meant
<1>8. ASSUME \A k \in 1..(F + N) : Passes(k)
      PROVE  /\ item.collection = q.collection
             /\ q.deleted \/ ~item.deleted
             /\ q.did = 0 \/ q.did = item.did
             /\ \A i \in 1..N : Meant(i)
  <2>1. 1 \in 1..(F + N) /\ (~q.deleted => 2 \in 1..(F + N)) /\ F \in 1..(F + N)
        /\ \A i \in 1..N : F + i \in 1..(F + N)
    BY <1>2, <1>4
  <2> QED BY <1>5, <1>6, <1>8, <2>1
<1>9. ASSUME item.collection = q.collection,
             q.deleted \/ ~item.deleted,
             q.did = 0 \/ q.did = item.did,
             \A i \in 1..N : Meant(i)
      PROVE  \A k \in 1..(F + N) : Passes(k)
  <2> TAKE k \in 1..(F + N)
  <2>1. \/ k = 1
        \/ k = 2 /\ ~q.deleted
        \/ k = F /\ q.did # 0
        \/ k - F \in 1..N /\ F + (k - F) = k
    BY <1>2, <1>4
  <2> QED BY <1>5, <1>6, <1>9, <2>1
<1> QED BY <1>1, <1>3, <1>7, <1>8, <1>9 DEF stmt

-----------------------------------------------------------------------------
(* The ORDER BY terms take their own parameters, behind the conditions'.   *)
JsonTerms(q, k) == {j \in 1..k : q.orders[j].term = "json"}

(* As many parameters precede a term as JSON terms do.                     *)
LEMMA TermsCounted ==
  ASSUME NEW q \in Queries, NEW off \in [0..Len(q.orders) -> Nat], FlatBy(off, OrderParts(q))
  PROVE  \A k \in 0..Len(q.orders) : off[k] = Cardinality(JsonTerms(q, k))
<1> DEFINE M == Len(q.orders)
           bad == {k \in 0..M : off[k] # Cardinality(JsonTerms(q, k))}
<1>1. M \in Nat /\ \A k \in 1..M : q.orders[k] \in Terms
  BY DEF Queries
<1>2. off[0] = 0 /\ \A k \in 1..M : off[k] = off[k - 1] + Len(OrderParts(q)[k])
  BY PartsBound DEF FlatBy
<1>3. \A k \in 1..M : Len(OrderParts(q)[k]) = (IF q.orders[k].term = "json" THEN 1 ELSE 0)
  BY <1>1, PartsBound, OrderIsBound DEF OrderBound
<1>4. ASSUME NEW k \in 1..M
      PROVE  /\ IsFiniteSet(JsonTerms(q, k - 1)) /\ k \notin JsonTerms(q, k - 1)
             /\ q.orders[k].term = "json" => JsonTerms(q, k) = JsonTerms(q, k - 1) \cup {k}
             /\ q.orders[k].term # "json" => JsonTerms(q, k) = JsonTerms(q, k - 1)
  <2>1. IsFiniteSet(1..(k - 1))
    <3>1. k - 1 \in Int /\ 1 \in Int
      OBVIOUS
    <3>2. \A a, b \in Int : IsFiniteSet(a..b)
      BY FS_Interval
    <3> QED BY <3>1, <3>2
  <2>2. JsonTerms(q, k - 1) \subseteq 1..(k - 1)
    BY DEF JsonTerms
  <2>3. 1..k = (1..(k - 1)) \cup {k}
    BY <1>1
  <2> QED BY <2>1, <2>2, <2>3, FS_Subset DEF JsonTerms
<1>5. Cardinality(JsonTerms(q, 0)) = 0
  <2>1. JsonTerms(q, 0) = {}
    BY DEF JsonTerms
  <2> QED BY <2>1, FS_EmptySet
<1> HIDE DEF M
<1>6. bad = {}
  <2> SUFFICES ASSUME bad # {} PROVE FALSE
    OBVIOUS
  <2>1. bad \in SUBSET (0..M) /\ 0 \notin bad
    BY <1>2, <1>5
  <2>2. PICK n \in 1..M : n \in bad /\ \A m \in 0..(n - 1) : m \notin bad
    <3> HIDE DEF bad
    <3> QED BY <1>1, <2>1, FirstBad
  <2>3. n - 1 \in 0..(n - 1) /\ n - 1 \in 0..M /\ n \in 0..M
    BY <1>1
  <2>4. off[n - 1] = Cardinality(JsonTerms(q, n - 1)) /\ off[n] # Cardinality(JsonTerms(q, n))
    BY <2>2, <2>3
  <2>5. off[n] = off[n - 1] + (IF q.orders[n].term = "json" THEN 1 ELSE 0) /\ off[n - 1] \in Nat
    BY <1>2, <1>3, <2>3 DEF M
  <2>6. Cardinality(JsonTerms(q, n))
          = Cardinality(JsonTerms(q, n - 1)) + (IF q.orders[n].term = "json" THEN 1 ELSE 0)
    <3>1. CASE q.orders[n].term = "json"
      <4>1. JsonTerms(q, n) = JsonTerms(q, n - 1) \cup {n}
        BY <1>4, <3>1
      <4> QED BY <1>4, <3>1, <4>1, FS_AddElement
    <3>2. CASE q.orders[n].term # "json"
      <4>1. JsonTerms(q, n) = JsonTerms(q, n - 1)
        BY <1>4, <3>2
      <4> QED BY <2>4, <2>5, <3>2, <4>1
    <3> QED BY <3>1, <3>2
  <2> QED BY <2>4, <2>5, <2>6
<1> QED BY <1>6 DEF M

-----------------------------------------------------------------------------
(* The ORDER BY terms are those of the query.                              *)
LEMMA OrderCompiled ==
  ASSUME NEW q \in Queries
  PROVE  LET order == BuildSql(q).order
         IN /\ DOMAIN order = 1..Len(q.orders) /\ Len(order) = Len(q.orders)
            /\ Len(q.orders) \in Nat
            /\ DOMAIN q.orders = 1..Len(q.orders)
            /\ \A k \in 1..Len(q.orders) :
                 /\ order[k].term = q.orders[k].term /\ order[k].desc = q.orders[k].desc
                 /\ q.orders[k] \in Terms /\ order[k].desc \in BOOLEAN
<1>1. q.orders \in Seq(Terms)
  BY DEF Queries
<1>2. DOMAIN q.orders = 1..Len(q.orders) /\ Len(q.orders) \in Nat
      /\ \A k \in 1..Len(q.orders) : q.orders[k] \in Terms
  BY <1>1
<1> DEFINE order == [i \in 1..Len(q.orders) |->
                       [term |-> q.orders[i].term, desc |-> q.orders[i].desc]]
<1>3. BuildSql(q).order = order
  BY <1>2 DEF BuildSql
<1>4. DOMAIN order = 1..Len(q.orders) /\ Len(order) = Len(q.orders)
  BY <1>2
<1>5. \A k \in 1..Len(q.orders) : /\ order[k].term = q.orders[k].term
                                  /\ order[k].desc = q.orders[k].desc
  OBVIOUS
<1>6. \A k \in 1..Len(q.orders) : q.orders[k].desc \in BOOLEAN
  BY <1>2 DEF Terms
<1> HIDE DEF order
<1> QED BY <1>2, <1>3, <1>4, <1>5, <1>6

(* A JSON term is bound to its own path.                                   *)
LEMMA TermParam ==
  ASSUME NEW q \in Queries, NEW k \in 1..Len(q.orders), q.orders[k].term = "json"
  PROVE  LET stmt == BuildSql(q)
             n == HolesBefore(stmt.where, Len(stmt.where) + 1) + Cardinality(JsonTerms(q, k))
         IN stmt.params[n] = PathParam(q.orders[k].path)
<1> DEFINE stmt == BuildSql(q)
           P == FixedParams(q)
           N == Len(q.wheres)
           M == Len(q.orders)
           v == WhereValues(q)
           s == OrderValues(q)
           F == FixedTests(q)
<1>1. WhereShape(stmt.where, q) /\ ParamShape(stmt.params, q)
  BY WhereCompiled, ParamsCompiled
<1>2. /\ WhereParts(q) \in Seq(Seq(Sqls)) /\ Len(WhereParts(q)) = N /\ v = FlattenSeq(WhereParts(q))
      /\ OrderParts(q) \in Seq(Seq(Sqls)) /\ Len(OrderParts(q)) = M /\ s = FlattenSeq(OrderParts(q))
      /\ OrderParts(q)[k] = OrderParams(q.orders[k])
  BY PartsBound
<1>3. /\ v \in Seq(Sqls) /\ s \in Seq(Sqls)
      /\ \E off \in [0..N -> Nat] : FlatBy(off, WhereParts(q))
      /\ \E off \in [0..M -> Nat] : FlatBy(off, OrderParts(q))
  BY <1>2, FlatPlaces
<1>4. PICK off \in [0..N -> Nat] : FlatBy(off, WhereParts(q))
  BY <1>3
<1>5. PICK out \in [0..M -> Nat] : FlatBy(out, OrderParts(q))
  BY <1>3
<1>6. N \in Nat /\ M \in Nat /\ P \in Nat /\ F \in Nat /\ Len(v) \in Nat /\ Len(s) \in Nat
      /\ Len(TailParams(q)) \in Nat /\ q.orders[k] \in Terms
  <2>1. TailParams(q) \in Seq(Sqls) /\ q.wheres \in Seq(Clauses) /\ q.orders \in Seq(Terms)
    BY TailBound DEF Queries
  <2> QED BY <1>3, <2>1 DEF FixedParams, FixedTests
<1>7. HolesBefore(stmt.where, Len(stmt.where) + 1) = P + Len(v)
  <2>1. Len(stmt.where) + 1 = F + 1 + N /\ N \in 0..N
    <3>1. Len(stmt.where) = F + N
      BY <1>1 DEF WhereShape
    <3> HIDE DEF stmt, F, N
    <3> QED BY <1>6, <3>1
  <2>2. HolesBefore(stmt.where, F + 1 + N) = P + off[N]
    BY <1>1, <1>4, <2>1, ClauseHoles
  <2>3. off[N] = Len(v)
    BY <1>2, <1>4 DEF FlatBy
  <2> QED BY <2>1, <2>2, <2>3
<1>8. out[k] = Cardinality(JsonTerms(q, k))
  <2>1. k \in 0..M
    BY <1>6
  <2> QED BY <1>5, <2>1, TermsCounted
<1>9. Len(OrderParams(q.orders[k])) = 1 /\ OrderParams(q.orders[k])[1] = PathParam(q.orders[k].path)
  BY <1>6, OrderIsBound DEF OrderBound
<1>10. /\ out[k] = out[k - 1] + 1 /\ out[k] <= Len(s)
       /\ s[out[k - 1] + 1] = PathParam(q.orders[k].path)
  <2>1. /\ out[k] = out[k - 1] + Len(OrderParts(q)[k]) /\ out[k] <= Len(s)
        /\ \A j \in 1..Len(OrderParts(q)[k]) : s[out[k - 1] + j] = OrderParts(q)[k][j]
    BY <1>2, <1>5 DEF FlatBy
  <2>2. 1 \in 1..Len(OrderParts(q)[k]) /\ Len(OrderParts(q)[k]) = 1
    BY <1>2, <1>9
  <2> QED BY <1>2, <1>9, <2>1, <2>2
<1>11. out[k - 1] \in Nat
  <2>1. k - 1 \in 0..M
    BY <1>6
  <2> QED BY <1>5, <2>1
<1>12. \A i \in 1..Len(s) : stmt.params[P + Len(v) + i] = s[i]
  BY <1>1 DEF ParamShape
<1> DEFINE o == out[k - 1]
           e == out[k]
<1>13. e = o + 1 /\ e <= Len(s) /\ s[o + 1] = PathParam(q.orders[k].path) /\ o \in Nat
       /\ e = Cardinality(JsonTerms(q, k))
  BY <1>8, <1>10, <1>11
<1> HIDE DEF stmt, o, e, s, v, P
<1>14. stmt.params[P + Len(v) + e] = PathParam(q.orders[k].path)
  <2>1. e \in 1..Len(s)
    BY <1>6, <1>13
  <2> QED BY <1>12, <1>13, <2>1
<1> QED BY <1>7, <1>13, <1>14 DEF stmt

(* A row is sorted by what SQLite extracts of the expected key.            *)
LEMMA SortedByKey ==
  ASSUME NEW q \in Queries, ~Rejected(q), NEW k \in 1..Len(q.orders), NEW item \in Stored
  PROVE  /\ KeyOf(q.orders[k], item) \in JsonValues
         /\ SortValue(BuildSql(q), k, item) = Extracted(KeyOf(q.orders[k], item))
         /\ SortValue(BuildSql(q), k, item) \in Sqls
<1> DEFINE stmt == BuildSql(q)
           o == q.orders[k]
           key == KeyOf(o, item)
<1>1. /\ o \in Terms /\ stmt.order[k].term = o.term /\ k \in DOMAIN q.orders
      /\ \A j \in 1..Len(q.orders) : stmt.order[j].term = q.orders[j].term
      /\ Len(q.orders) \in Nat
  BY OrderCompiled
<1>2. o.term \in {"indexed_at", "uri", "did", "json"} /\ o.path \in Paths
  BY <1>1 DEF Terms, Columns
<1>3. item.at \in Int /\ item.uri \in Nat /\ item.did \in Nat
  BY DEF Stored
<1> HIDE DEF stmt
<1>4. CASE o.term = "indexed_at"
  <2>1. key = JInt(item.at) /\ SortValue(stmt, k, item) = Number(item.at)
    BY <1>1, <1>4 DEF KeyOf, SortValue
  <2>2. JInt(item.at) \in JsonValues /\ Extracted(JInt(item.at)) = Number(item.at)
    BY <1>3 DEF JsonValues, JInt, Json, Extracted
  <2> QED BY <2>1, <2>2, BoundType DEF stmt
<1>5. ASSUME NEW n \in Nat
      PROVE  JText(<<n>>) \in JsonValues /\ Extracted(JText(<<n>>)) = Text(<<n>>)
  <2>1. <<n>> \in Seq(Nat)
    OBVIOUS
  <2>2. JText(<<n>>).type = "text" /\ JText(<<n>>).s = <<n>>
    BY DEF JText, Json
  <2> QED BY <2>1, <2>2 DEF JsonValues, JText, Json, Extracted
<1>6. CASE o.term = "uri"
  <2>1. key = JText(<<item.uri>>) /\ SortValue(stmt, k, item) = Text(<<item.uri>>)
    BY <1>1, <1>6 DEF KeyOf, SortValue
  <2> QED BY <1>3, <1>5, <2>1, BoundType DEF stmt
<1>7. CASE o.term = "did"
  <2>1. key = JText(<<item.did>>) /\ SortValue(stmt, k, item) = Text(<<item.did>>)
    BY <1>1, <1>7 DEF KeyOf, SortValue
  <2> QED BY <1>3, <1>5, <2>1, BoundType DEF stmt
<1>8. CASE o.term = "json"
  <2>1. GoodPath(o.path)
    BY <1>1, <1>8 DEF Rejected, GoodPath
  <2> DEFINE n == HolesBefore(stmt.where, Len(stmt.where) + 1) + Cardinality(JsonTerms(q, k))
  <2>2. stmt.params[n] = PathParam(o.path)
    BY <1>8, TermParam DEF stmt
  <2>3. {j \in 1..k : stmt.order[j].term = "json"} = JsonTerms(q, k)
    <3>1. \A j \in 1..k : j \in 1..Len(q.orders)
      BY <1>1
    <3> QED BY <1>1, <3>1 DEF JsonTerms
  <2>4. SortValue(stmt, k, item) = At(item, stmt.params[n])
    BY <1>1, <1>8, <2>3 DEF SortValue
  <2>5. key = FieldOf(item, o.path)
    BY <1>8 DEF KeyOf
  <2> HIDE DEF n
  <2> QED BY <1>2, <2>1, <2>2, <2>4, <2>5, FieldFound, BoundType DEF stmt
<1> QED BY <1>2, <1>4, <1>6, <1>7, <1>8

(* SQLite orders what it extracts as the JSON values are ordered.          *)
LEMMA ExtractedOrder ==
  ASSUME NEW v \in JsonValues, NEW u \in JsonValues, JsonBefore(v, u)
  PROVE  SqlBefore(Extracted(v), Extracted(u))
<1>1. CASE v.type = u.type /\ v.type \in {"bool", "int"} /\ v.n < u.n
  <2>1. Extracted(v) = Number(v.n) /\ Extracted(u) = Number(u.n)
    BY <1>1 DEF Extracted
  <2> QED BY <1>1, <2>1, Apart DEF SqlBefore
<1>2. CASE v.type = u.type /\ v.type = "text" /\ TextBefore(v.s, u.s)
  <2>1. Extracted(v) = Text(v.s) /\ Extracted(u) = Text(u.s)
    BY <1>2 DEF Extracted
  <2> QED BY <1>2, <2>1, Apart DEF SqlBefore
<1> QED BY <1>1, <1>2 DEF JsonBefore

(* Rows that do not sort the wrong way are in the order asked for.         *)
LEMMA OrderKept ==
  ASSUME NEW q \in Queries, ~Rejected(q), NEW a \in Stored, NEW b \in Stored,
         ~SortsBefore(BuildSql(q), b, a)
  PROVE  InOrder(q, a, b)
<1> DEFINE stmt == BuildSql(q)
           K(k, x) == KeyOf(q.orders[k], x)
           M == Len(q.orders)
<1>1. /\ DOMAIN stmt.order = 1..M /\ M \in Nat /\ DOMAIN q.orders = 1..M
      /\ \A k \in 1..M : stmt.order[k].desc = q.orders[k].desc
  BY OrderCompiled
<1>2. \A k \in 1..M, x \in Stored :
        K(k, x) \in JsonValues /\ SortValue(stmt, k, x) = Extracted(K(k, x))
  BY SortedByKey
<1> HIDE DEF stmt, K, M
<1>3. ASSUME NEW k \in 1..M, \A j \in 1..(k - 1) : K(j, a) = K(j, b)
      PROVE  IF q.orders[k].desc THEN ~JsonBefore(K(k, a), K(k, b))
                                 ELSE ~JsonBefore(K(k, b), K(k, a))
  <2>1. \A j \in 1..(k - 1) : SortValue(stmt, j, b) = SortValue(stmt, j, a)
    <3>1. \A j \in 1..(k - 1) : j \in 1..M
      BY <1>1
    <3> QED BY <1>2, <1>3, <3>1
  <2>2. ~(IF q.orders[k].desc THEN SqlBefore(SortValue(stmt, k, a), SortValue(stmt, k, b))
                              ELSE SqlBefore(SortValue(stmt, k, b), SortValue(stmt, k, a)))
    BY <1>1, <2>1 DEF SortsBefore, stmt
  <2>3. /\ JsonBefore(K(k, a), K(k, b)) => SqlBefore(SortValue(stmt, k, a), SortValue(stmt, k, b))
        /\ JsonBefore(K(k, b), K(k, a)) => SqlBefore(SortValue(stmt, k, b), SortValue(stmt, k, a))
    BY <1>2, ExtractedOrder
  <2> QED BY <2>2, <2>3
<1> QED BY <1>1, <1>3 DEF InOrder, K

-----------------------------------------------------------------------------
(* LIMIT and OFFSET take the parameters meant for them.                    *)
Skip(q) == IF q.offset = None THEN 0 ELSE q.offset

PageSize(q, n) ==
  LET left == IF n > Skip(q) THEN n - Skip(q) ELSE 0
  IN IF q.limit = None \/ q.limit > left THEN left ELSE q.limit

(* The last parameters are those of LIMIT and OFFSET.                      *)
LEMMA TailTaken ==
  ASSUME NEW q \in Queries
  PROVE  LET params == BuildSql(q).params
             last   == Len(params)
         IN /\ q.limit # None /\ q.offset # None => params[last - 1] = Number(q.limit)
            /\ q.limit # None /\ q.offset = None => params[last] = Number(q.limit)
            /\ q.offset # None => params[last] = Number(q.offset)
<1> DEFINE params == BuildSql(q).params
           t == TailParams(q)
           w == WhereValues(q)
           o == OrderValues(q)
           last == Len(params)
           b == FixedParams(q) + Len(w) + Len(o)
<1>1. ParamShape(params, q)
  BY ParamsCompiled
<1>2. Len(w) \in Nat /\ Len(o) \in Nat /\ FixedParams(q) \in Nat
  <2>1. w \in Seq(Sqls) /\ o \in Seq(Sqls)
    BY PartsBound, FlatPlaces
  <2> QED BY <2>1 DEF FixedParams
<1>3. /\ Len(t) = (IF q.limit = None THEN 0 ELSE 1) + (IF q.offset = None THEN 0 ELSE 1)
      /\ q.limit # None => t[1] = Number(q.limit)
      /\ q.offset # None => t[Len(t)] = Number(q.offset)
  BY TailBound
<1> HIDE DEF params
<1>4. /\ last = b + Len(t) /\ \A i \in 1..Len(t) : params[b + i] = t[i]
  BY <1>1 DEF ParamShape
<1>5. b \in Nat
  BY <1>2
<1> HIDE DEF b, t, last
<1>6. CASE q.limit # None /\ q.offset # None
  <2>1. last - 1 = b + 1 /\ last = b + Len(t) /\ 1 \in 1..Len(t) /\ Len(t) \in 1..Len(t)
    BY <1>3, <1>4, <1>5, <1>6
  <2> QED BY <1>3, <1>4, <1>6, <2>1 DEF params, last
<1>7. CASE q.limit # None /\ q.offset = None
  <2>1. last = b + 1 /\ 1 \in 1..Len(t)
    BY <1>3, <1>4, <1>5, <1>7
  <2> QED BY <1>3, <1>4, <1>7, <2>1 DEF params, last
<1>8. CASE q.limit = None /\ q.offset # None
  <2>1. last = b + Len(t) /\ Len(t) \in 1..Len(t)
    BY <1>3, <1>4, <1>5, <1>8
  <2> QED BY <1>3, <1>4, <1>8, <2>1 DEF params, last
<1>9. CASE q.limit = None /\ q.offset = None
  BY <1>9
<1> QED BY <1>6, <1>7, <1>8, <1>9

(* A page skips and takes as many rows as the query says.                  *)
LEMMA PageTaken ==
  ASSUME NEW q \in Queries, NEW T, NEW s \in Seq(T)
  PROVE  LET page == Page(BuildSql(q), s)
         IN /\ Len(page) = PageSize(q, Len(s)) /\ DOMAIN page = 1..Len(page) /\ Len(page) \in Nat
            /\ \A i \in 1..Len(page) : Skip(q) + i \in 1..Len(s) /\ page[i] = s[Skip(q) + i]
<1> DEFINE stmt == BuildSql(q)
           n == Len(s)
           last == Len(stmt.params)
           most == CASE stmt.tail = "LIMIT ? OFFSET ?" -> stmt.params[last - 1].n
                     [] stmt.tail = "LIMIT ?" -> stmt.params[last].n
                     [] OTHER -> n
           off == IF stmt.tail \in {"LIMIT ? OFFSET ?", "LIMIT -1 OFFSET ?"}
                  THEN stmt.params[last].n ELSE 0
           stop == IF off + most <= n THEN off + most ELSE n
<1>1. Page(stmt, s) = SubSeq(s, off + 1, stop)
  BY DEF Page
<1>2. stmt.tail = LimitClause(q)
  BY DEF BuildSql
<1>3. /\ q.limit # None /\ q.offset # None => stmt.params[last - 1] = Number(q.limit)
      /\ q.limit # None /\ q.offset = None => stmt.params[last] = Number(q.limit)
      /\ q.offset # None => stmt.params[last] = Number(q.offset)
  BY TailTaken
<1>30. \A m : Number(m).n = m
  BY Apart
<1>4. (q.limit = None \/ q.limit \in Nat) /\ (q.offset = None \/ q.offset \in Nat) /\ n \in Nat
  BY DEF Queries
<1> HIDE DEF stmt, last, n
<1>5. most = (IF q.limit = None THEN n ELSE q.limit) /\ off = Skip(q)
  <2>1. CASE q.limit # None /\ q.offset # None
    <3>1. stmt.tail = "LIMIT ? OFFSET ?"
      BY <1>2, <2>1 DEF LimitClause
    <3>2. stmt.params[last - 1].n = q.limit /\ stmt.params[last].n = q.offset
      BY <1>3, <1>30, <2>1
    <3>3. most = stmt.params[last - 1].n /\ off = stmt.params[last].n
      BY <3>1
    <3> QED BY <2>1, <3>2, <3>3 DEF Skip
  <2>2. CASE q.limit # None /\ q.offset = None
    <3>1. stmt.tail = "LIMIT ?"
      BY <1>2, <2>2 DEF LimitClause
    <3>2. stmt.params[last].n = q.limit
      BY <1>3, <1>30, <2>2
    <3>3. most = stmt.params[last].n /\ off = 0
      BY <3>1
    <3> QED BY <2>2, <3>2, <3>3 DEF Skip
  <2>3. CASE q.limit = None /\ q.offset # None
    <3>1. stmt.tail = "LIMIT -1 OFFSET ?"
      BY <1>2, <2>3 DEF LimitClause
    <3>2. stmt.params[last].n = q.offset
      BY <1>3, <1>30, <2>3
    <3>3. most = n /\ off = stmt.params[last].n
      BY <3>1
    <3> QED BY <2>3, <3>2, <3>3 DEF Skip
  <2>4. CASE q.limit = None /\ q.offset = None
    <3>1. stmt.tail = ""
      BY <1>2, <2>4 DEF LimitClause
    <3> QED BY <2>4, <3>1 DEF Skip
  <2> QED BY <2>1, <2>2, <2>3, <2>4
<1> HIDE DEF most, off
<1>6. off \in Nat /\ most \in Nat
  BY <1>4, <1>5 DEF Skip
<1>7. PageSize(q, n) = IF off >= n THEN 0 ELSE stop - off
  BY <1>4, <1>5, <1>6 DEF PageSize
<1>8. stop \in Nat /\ stop <= n /\ (off >= n => stop = n)
  BY <1>4, <1>6
<1> HIDE DEF stop
<1> DEFINE page == SubSeq(s, off + 1, stop)
<1>9. /\ Len(page) = (IF off + 1 <= stop THEN stop - off ELSE 0) /\ DOMAIN page = 1..Len(page)
      /\ Len(page) \in Nat /\ \A i \in 1..Len(page) : page[i] = s[off + i]
  <2>1. off + 1 \in Int /\ stop \in Int
    BY <1>6, <1>8
  <2>2. page = [i \in 1..(stop - (off + 1) + 1) |-> s[off + 1 + i - 1]]
    BY <2>1 DEF SubSeq
  <2>3. \A i \in 1..(stop - (off + 1) + 1) : off + 1 + i - 1 = off + i
    BY <1>6
  <2> QED BY <1>6, <1>8, <2>2, <2>3
<1> HIDE DEF page
<1>10. Len(page) = PageSize(q, n)
  <2>1. stop >= off \/ off >= n
    BY <1>4, <1>6, <1>8 DEF stop
  <2> QED BY <1>4, <1>6, <1>7, <1>8, <1>9, <2>1
<1>11. \A i \in 1..Len(page) : off + i \in 1..n
  BY <1>4, <1>6, <1>8, <1>9
<1> QED BY <1>1, <1>5, <1>9, <1>10, <1>11 DEF n, stmt, page

-----------------------------------------------------------------------------
(* The rows of a result are the answer the query asked for.                *)
RightRows(q, held, found) ==
  LET wanted == {item \in held : Wanted(q, item)}
  IN /\ \A i \in DOMAIN found : found[i] \in wanted
     /\ \A i, j \in DOMAIN found : i < j => found[i] # found[j] /\ InOrder(q, found[i], found[j])
     /\ Len(found) = PageSize(q, Cardinality(wanted))

(* SetToSeqs arranges the elements of a finite set, each of them once.     *)
LEMMA Arranges ==
  ASSUME NEW S, IsFiniteSet(S), NEW s \in SetToSeqs(S)
  PROVE  /\ s \in Seq(S) /\ Len(s) = Cardinality(S) /\ Len(s) \in Nat
         /\ \A i, j \in 1..Len(s) : i # j => s[i] # s[j]
<1> DEFINE N == Cardinality(S)
<1>1. N \in Nat
  BY FS_CardinalityType
<1> HIDE DEF N
<1>2. s \in [1..N -> S] /\ \A i, j \in 1..N : i # j => s[i] # s[j]
  BY DEF SetToSeqs, N
<1>3. s \in Seq(S) /\ Len(s) = N
  BY <1>1, <1>2
<1> QED BY <1>1, <1>2, <1>3 DEF N

LEMMA OrderIsSortable ==
  ASSUME NEW q \in Queries, ~Rejected(q), NEW T, T \subseteq Stored
  PROVE  Sortable(BuildSql(q), T)
<1>1. /\ DOMAIN BuildSql(q).order = 1..Len(q.orders) /\ Len(BuildSql(q).order) = Len(q.orders)
      /\ Len(q.orders) \in Nat /\ \A k \in 1..Len(q.orders) : BuildSql(q).order[k].desc \in BOOLEAN
  BY OrderCompiled
<1>2. \A k \in 1..Len(q.orders), x \in T : SortValue(BuildSql(q), k, x) \in Sqls
  BY SortedByKey
<1> QED BY <1>1, <1>2 DEF Sortable

(* Every result SQLite may return has the right rows.                      *)
LEMMA RowsAreRight ==
  ASSUME NEW q \in Queries, ~Rejected(q), ~Unreadable(q), NEW held, held \subseteq Stored, IsFiniteSet(held),
         Covered(q, held), NEW found \in Answers(BuildSql(q), held)
  PROVE  RightRows(q, held, found)
<1> DEFINE stmt == BuildSql(q)
           chosen == {item \in held : Selected(stmt, item)}
           wanted == {item \in held : Wanted(q, item)}
<1>1. chosen = wanted
  <2>1. \A item \in held : Selected(stmt, item) <=> Wanted(q, item)
    BY SelectedAsWanted DEF Covered
  <2> QED BY <2>1
<1>2. IsFiniteSet(wanted) /\ wanted \subseteq Stored
  BY FS_Subset
<1>3. PICK s \in SetToSeqs(chosen) :
        /\ \A i \in 1..(Len(s) - 1) : ~SortsBefore(stmt, s[i + 1], s[i])
        /\ found = Page(stmt, s)
  BY DEF Answers
<1> HIDE DEF chosen, wanted
<1>4. /\ s \in Seq(wanted) /\ Len(s) = Cardinality(wanted) /\ Len(s) \in Nat
      /\ \A i, j \in 1..Len(s) : i # j => s[i] # s[j]
  BY <1>1, <1>2, <1>3, Arranges
<1>5. Sortable(stmt, wanted)
  BY <1>2, OrderIsSortable
<1>6. \A i, j \in 1..Len(s) : i < j => ~SortsBefore(stmt, s[j], s[i])
  <2> HIDE DEF stmt
  <2> QED BY <1>3, <1>4, <1>5, SortedThroughout
<1>7. \A i, j \in 1..Len(s) : i < j => InOrder(q, s[i], s[j])
  <2> TAKE i, j \in 1..Len(s)
  <2> HAVE i < j
  <2>1. s[i] \in Stored /\ s[j] \in Stored
    BY <1>2, <1>4
  <2> QED BY <1>6, <2>1, OrderKept
<1>8. /\ Len(found) = PageSize(q, Len(s)) /\ DOMAIN found = 1..Len(found) /\ Len(found) \in Nat
      /\ \A i \in 1..Len(found) : Skip(q) + i \in 1..Len(s) /\ found[i] = s[Skip(q) + i]
  BY <1>3, <1>4, PageTaken
<1>9. ASSUME NEW i \in DOMAIN found
      PROVE  found[i] \in wanted
  <2>1. Skip(q) + i \in 1..Len(s) /\ found[i] = s[Skip(q) + i]
    BY <1>8
  <2> QED BY <1>4, <2>1
<1>10. ASSUME NEW i \in DOMAIN found, NEW j \in DOMAIN found, i < j
       PROVE  found[i] # found[j] /\ InOrder(q, found[i], found[j])
  <2> DEFINE m == Skip(q) + i
             n == Skip(q) + j
  <2>1. m \in 1..Len(s) /\ found[i] = s[m] /\ n \in 1..Len(s) /\ found[j] = s[n]
    BY <1>8
  <2>2. m < n /\ m # n
    <3>1. Skip(q) \in Nat
      BY DEF Skip, Queries
    <3> QED BY <1>8, <1>10, <3>1
  <2> HIDE DEF m, n
  <2> QED BY <1>4, <1>7, <2>1, <2>2
<1> QED BY <1>4, <1>8, <1>9, <1>10 DEF RightRows, wanted

(* Nothing is right where a path cannot be read.                           *)
LEMMA NothingIsRight ==
  ASSUME NEW q \in Queries, Unreadable(q), NEW held
  PROVE  RightRows(q, held, <<>>)
<1>1. {item \in held : Wanted(q, item)} = {}
  BY DEF Wanted
<1>2. Cardinality({}) = 0
  BY FS_EmptySet
<1>3. Skip(q) \in Nat /\ q.limit \in Nat \cup {None}
  BY DEF Skip, Queries
<1>4. PageSize(q, 0) = 0
  BY <1>3 DEF PageSize
<1> QED BY <1>1, <1>2, <1>4 DEF RightRows

LEMMA AnswerRight ==
  AnswersAsAsked <=> (answer.kind = "rows" /\ Covered(query, table)
                        => RightRows(query, table, answer.rows))
BY DEF AnswersAsAsked, RightRows, PageSize, Skip

LEMMA QueryStarts == QueryInit => AnswersAsAsked
BY DEF QueryInit, NoAnswer, AnswersAsAsked

LEMMA QueryGoesOn == AnswersAsAsked /\ [QueryNext]_queryVars => AnswersAsAsked'
<1> SUFFICES ASSUME AnswersAsAsked, [QueryNext]_queryVars PROVE AnswersAsAsked'
  OBVIOUS
<1>1. ASSUME NEW held \in Tables, NEW q \in Asked, Execute(held, q)
      PROVE  AnswersAsAsked'
  <2>1. /\ table' = held /\ query' = q /\ q \in Queries
        /\ held \subseteq Stored /\ IsFiniteSet(held)
    BY <1>1, QueryAssumption DEF Execute
  <2>2. CASE answer'.kind = "error"
    BY <2>2 DEF AnswersAsAsked
  <2>3. CASE answer'.kind # "error"
    <3>1. \E found : /\ answer' = [kind |-> "rows", rows |-> found]
                     /\ Covered(q, held) => RightRows(q, held, found)
      <4>1. CASE Unreadable(q)
        <5>1. answer' = [kind |-> "rows", rows |-> <<>>]
          BY <1>1, <2>3, <4>1 DEF Execute
        <5> QED BY <2>1, <4>1, <5>1, NothingIsRight
      <4>2. CASE ~Unreadable(q)
        <5>1. ~Rejected(q)
          BY <1>1, <2>3, <4>2 DEF Execute
        <5>2. PICK found \in Answers(BuildSql(q), held) : answer' = [kind |-> "rows", rows |-> found]
          BY <1>1, <2>3, <4>2, <5>1 DEF Execute
        <5>3. Covered(q, held) => RightRows(q, held, found)
          BY <2>1, <4>2, <5>1, RowsAreRight
        <5> QED BY <5>2, <5>3
      <4> QED BY <4>1, <4>2
    <3>2. PICK found : /\ answer' = [kind |-> "rows", rows |-> found]
                       /\ Covered(q, held) => RightRows(q, held, found)
      BY <3>1
    <3>3. answer'.rows = found
      BY <3>2
    <3>4. (answer.kind = "rows" /\ Covered(query, table)
             => RightRows(query, table, answer.rows))'
      BY <2>1, <3>2, <3>3 DEF Covered, RightRows
    <3>5. (AnswersAsAsked <=> (answer.kind = "rows" /\ Covered(query, table)
                                 => RightRows(query, table, answer.rows)))'
      BY AnswerRight, PTL
    <3> QED BY <3>4, <3>5
  <2> QED BY <2>2, <2>3
<1>2. CASE UNCHANGED queryVars
  BY <1>2 DEF queryVars, AnswersAsAsked
<1> QED BY <1>1, <1>2 DEF QueryNext

(* The statement a query is compiled to, with its parameters bound by      *)
(* position, answers it as asked, for tables and queries of any size, and  *)
(* "contains" asks for a text up to the case of ASCII letters.             *)
THEOREM QueriesAnswerAsAsked == SkybaseSpec => []AnswersAsAsked
<1>1. SkybaseInit => AnswersAsAsked
  BY QueryStarts DEF SkybaseInit
<1>2. AnswersAsAsked /\ [SkybaseNext]_skybaseVars => AnswersAsAsked'
  <2>1. [SkybaseNext]_skybaseVars => [QueryNext]_queryVars
    BY DEF SkybaseNext, skybaseVars
  <2> QED BY <2>1, QueryGoesOn
<1> QED BY <1>1, <1>2, PTL DEF SkybaseSpec
=============================================================================
