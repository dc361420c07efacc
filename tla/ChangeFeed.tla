----------------------------- MODULE ChangeFeed -----------------------------
(***************************************************************************)
(* What an application sees of the record store: the broadcast bus of      *)
(* src/src/index/broadcast.rs and the queries of src/src/index/query.rs,   *)
(* over the threads of RecordStore.                                        *)
(*                                                                         *)
(* A subscriber queries all records once it has subscribed, and again      *)
(* whenever the bus tells it that it lagged; otherwise it folds the        *)
(* notifications into its view.  A reader pages through the records in     *)
(* order.  What applications do is external: the code offers the calls.    *)
(*                                                                         *)
(* The bus is a ring (a tokio broadcast channel, external): a notification *)
(* that finds it full overwrites the oldest, and a receiver that had not   *)
(* read that one is told at its next receive.                              *)
(***************************************************************************)
EXTENDS RecordStore, RecordQuery

CONSTANT Ring   \* capacity of the bus

ASSUME FeedAssumption == Uris \subseteq Nat \ {0} /\ Ring \in Nat \ {0}

VARIABLES
  subscribed,   \* whether the application holds a receiver
  backlog,      \* the notifications the receiver has still to read
  lagged,       \* whether one it had not read has been overwritten
  dirty,        \* whether the application owes itself a query
  view,         \* URI -> what it believes
  reading,      \* the paged read: not begun, under way, or done
  pages,        \* the URIs the pages so far have had
  came, went    \* URIs whose rows appeared or went since it began

feedVars == <<subscribed, backlog, lagged, dirty, view>>
readVars == <<reading, pages, came, went>>

-----------------------------------------------------------------------------
Collection == <<112>>

Items ==
  {[uri |-> u, did |-> 1, collection |-> Collection, at |-> rows[u].at,
    deleted |-> rows[u].state = "deleted", rating |-> JNull] :
     u \in {v \in Uris : rows[v].state # "absent"}}

Everything == NewQuery(Collection)

(* One record, from the oldest on, behind those that have been read.       *)
NextPage ==
  [OrderBy(OrderBy(NewQuery(Collection), "indexed_at", BadPath, FALSE), "uri", BadPath, FALSE)
     EXCEPT !.limit = 1, !.offset = Len(pages)]

FeedInit ==
  /\ Init
  /\ subscribed = FALSE /\ backlog = <<>> /\ lagged = FALSE /\ dirty = FALSE
  /\ view = [u \in Uris |-> Absent]
  /\ reading = "idle" /\ pages = <<>> /\ came = {} /\ went = {}

-----------------------------------------------------------------------------
(* BroadcastBus::publish to the receiver, if there is one.  A faulty       *)
(* variant overwrites without a word.                                      *)
BroadcastSilently(note) ==
  /\ backlog' = IF Len(backlog) < Ring THEN Append(backlog, note)
                                       ELSE Append(Tail(backlog), note)
  /\ UNCHANGED lagged

Broadcast(note) ==
  IF Len(backlog) < Ring
  THEN backlog' = Append(backlog, note) /\ UNCHANGED lagged
  ELSE backlog' = Append(Tail(backlog), note) /\ lagged' = TRUE

(* The threads that send a notification in this step.                      *)
Sending == {w \in Writers : outbox[w] # <<>> /\ outbox'[w] # outbox[w]}

(* A step of the store.                                                    *)
StoreStep ==
  /\ Next
  /\ IF subscribed /\ Sending # {}
     THEN \E w \in Sending : Broadcast(Head(outbox[w]))
     ELSE UNCHANGED <<backlog, lagged>>
  /\ came' = IF reading = "idle" THEN came
             ELSE came \cup {u \in Uris : Visible(rows'[u]) /\ rows'[u] # rows[u]}
  /\ went' = IF reading = "idle" THEN went
             ELSE went \cup {u \in Uris : Visible(rows[u]) /\ rows'[u] # rows[u]}
  /\ UNCHANGED <<subscribed, dirty, view, reading, pages>>

(* subscribe: a new receiver gets what is published from now on.           *)
Subscribe ==
  /\ ~subscribed
  /\ subscribed' = TRUE /\ dirty' = TRUE /\ backlog' = <<>> /\ lagged' = FALSE
  /\ UNCHANGED <<vars, view, readVars>>

(* The receiver is dropped.                                                *)
Unsubscribe ==
  /\ subscribed
  /\ subscribed' = FALSE /\ dirty' = FALSE /\ backlog' = <<>> /\ lagged' = FALSE
  /\ UNCHANGED <<vars, view, readVars>>

(* A query of all records, under the mutex.                                *)
Snapshot ==
  /\ dirty /\ lock = Nobody
  /\ dirty' = FALSE
  /\ view' = [u \in Uris |-> IF \E item \in Items : item.uri = u /\ Selected(BuildSql(Everything), item)
                             THEN rows[u] ELSE Absent]
  /\ UNCHANGED <<vars, subscribed, backlog, lagged, readVars>>

(* recv: the loss is reported before what is left is handed out.           *)
Receive ==
  /\ subscribed
  /\ \/ lagged /\ lagged' = FALSE /\ dirty' = TRUE /\ UNCHANGED <<backlog, view>>
     \/ /\ ~lagged /\ backlog # <<>>
        /\ view' = [view EXCEPT ![Head(backlog).uri] = Seen(Head(backlog))]
        /\ backlog' = Tail(backlog)
        /\ UNCHANGED <<lagged, dirty>>
  /\ UNCHANGED <<vars, subscribed, readVars>>

-----------------------------------------------------------------------------
BeginReading ==
  /\ reading # "pages"
  /\ reading' = "pages" /\ pages' = <<>> /\ came' = {} /\ went' = {}
  /\ UNCHANGED <<vars, feedVars>>

(* One page; the first empty one is the last.                              *)
ReadPage ==
  /\ reading = "pages" /\ lock = Nobody
  /\ \E page \in Answers(BuildSql(NextPage), Items) :
       /\ pages' = pages \o [i \in DOMAIN page |-> page[i].uri]
       /\ reading' = IF page = <<>> THEN "done" ELSE "pages"
  /\ UNCHANGED <<vars, feedVars, came, went>>

(* The steps of an application that subscribes, and of one that pages.     *)
SubscriberStep == StoreStep \/ Subscribe \/ Unsubscribe \/ Snapshot \/ Receive
ReaderStep == StoreStep \/ BeginReading \/ ReadPage

-----------------------------------------------------------------------------
(* Every variable stays in its set; the ring keeps its capacity.           *)
FeedTypeOK ==
  /\ subscribed \in BOOLEAN /\ lagged \in BOOLEAN /\ dirty \in BOOLEAN
  /\ backlog \in Seq(Note) /\ Len(backlog) <= Ring
  /\ view \in [Uris -> Row]
  /\ reading \in {"idle", "pages", "done"} /\ pages \in Seq(Uris)
  /\ came \subseteq Uris /\ went \subseteq Uris

CaughtUp == subscribed /\ backlog = <<>> /\ ~lagged /\ ~dirty

(* A subscriber that has read all there is to read agrees with get_record, *)
(* however often it fell behind the ring, subscribed anew or queried while *)
(* notifications were on their way, on every URI for which none is owed    *)
(* and whose last ones were sent in the order of the writes.               *)
CaughtUpAgrees ==
  CaughtUp => \A u \in Uris \ (suspect \cup Owed) : Agrees(view[u], rows[u])

TimesRead(u) == Cardinality({i \in DOMAIN pages : pages[i] = u})

(* Paging by LIMIT and OFFSET with writers at work: a row that was there   *)
(* and unchanged all the time is missed only if another one went away, and *)
(* read twice only if another one came.                                    *)
PagesMissForCause ==
  reading = "done" => \A u \in Uris \ (came \cup went) :
    IF Visible(rows[u]) THEN /\ TimesRead(u) = 0 => went # {}
                             /\ TimesRead(u) > 1 => came # {}
                        ELSE TimesRead(u) = 0
=============================================================================
