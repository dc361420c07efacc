-------------------------- MODULE JetstreamConsumer --------------------------
(***************************************************************************)
(* The firehose consumer of src/src/ingest/consumer.rs with the cursor of  *)
(* src/src/ingest/cursor.rs: a reader task that keeps a connection to the  *)
(* Jetstream server and puts commits into a bounded channel, and a worker  *)
(* task that takes them out and writes them to the record store.           *)
(*                                                                         *)
(* The server's history is "log"; the time_us of an event is its place in  *)
(* it, and cursor 0 is no cursor.  An event is an upsert or a delete of a  *)
(* wanted record, an upsert that lost its payload ("hollow"), or one that  *)
(* never reaches the store ("skip": heartbeats, identity and account       *)
(* events, commits the edge filter rejects).                               *)
(*                                                                         *)
(* "handled", "refused", "overtaken", "tail", "atStop" and "dropped" are   *)
(* observations.                                                           *)
(***************************************************************************)
EXTENDS RecordRows, SequencesExt

CONSTANTS
  Uris,         \* record URIs
  Rec,          \* the one payload token
  Capacity,     \* channel_capacity
  BatchSizes,   \* the batch_size settings to start from
  NoCursor,     \* initial_cursor: None
  Configured,   \* initial_cursor: NoCursor or a time
  StoreFaults,  \* whether a store call may fail
  MaxLog,       \* bound on the server's history
  MaxDrops,     \* bound on connection failures
  MaxStops      \* bound on crashes, aborts and stops

ASSUME ConsumerAssumption ==
  /\ Cids = {Rec}
  /\ NoCursor \notin Nat
  /\ Configured \in Nat \cup {NoCursor}
  /\ StoreFaults \in BOOLEAN
  /\ Capacity \in Nat \ {0}
  /\ BatchSizes \subseteq Nat \ {0}
  /\ MaxLog \in Nat /\ MaxDrops \in Nat /\ MaxStops \in Nat

VARIABLES
  log,        \* the server's history
  batch,      \* batch_size
  reader,     \* what the reader task is doing
  next,       \* the place in log the connection has reached; before it
              \* stands, the cursor asked for
  hand,       \* the commit the reader is sending, 0 when none
  chan,       \* the channel
  worker,     \* what the worker task is doing
  buf,        \* the commits the worker has taken
  mem,        \* CursorTracker's watermark
  disk,       \* the persisted cursor
  rows,       \* the record table
  cancelled,  \* the cancellation token
  drops, stops,
  handled,    \* commits the store has taken
  refused,    \* commits counted in sync_errors
  overtaken,  \* URIs with a commit first written after a later one
  tail,       \* end of the history at the last subscription without cursor,
              \* or the configured cursor
  atStop,     \* commits the worker's side held when the token was cancelled
  dropped     \* commits behind the watermark of a consumer started again

(* What neither task changes.                                              *)
environment == <<log, batch, cancelled, drops, stops, atStop, dropped>>
readerVars  == <<reader, next, hand>>
workerVars  == <<worker, buf>>
storeVars   == <<disk, rows, handled, refused, overtaken>>
vars == <<environment, readerVars, chan, workerVars, mem, storeVars, tail>>

-----------------------------------------------------------------------------
Event == [kind : {"upsert", "delete", "hollow"}, uri : Uris] \cup [kind : {"skip"}]

Wanted(i)  == log[i].kind # "skip"
Commits    == {i \in DOMAIN log : Wanted(i)}
Later(a, b) == IF a >= b THEN a ELSE b

(* The last time of a sequence of commits.                                 *)
Newest(is) == CHOOSE i \in Range(is) : \A j \in Range(is) : i >= j

(* The commits between the connection and the store, oldest first.         *)
Pipeline == buf \o chan \o (IF hand = 0 THEN <<>> ELSE <<hand>>)

(* CursorTracker::from_option of a new consumer.                           *)
InitialCursor == IF Configured = NoCursor THEN 0 ELSE Configured

ReaderStates == {"connect", "dial", "stream", "done"}
WorkerStates == {"wait", "apply", "advance", "drain", "drainApply", "drainAdvance",
                 "flush", "flushAdvance", "closing", "done", "down"}

Init ==
  /\ log = <<>>
  /\ batch \in BatchSizes
  /\ reader = "connect" /\ next = 1 /\ hand = 0
  /\ chan = <<>>
  /\ worker = "wait" /\ buf = <<>>
  /\ mem = InitialCursor
  /\ disk = 0
  /\ rows = [u \in Uris |-> Absent]
  /\ cancelled = FALSE
  /\ drops = 0 /\ stops = 0
  /\ handled = {} /\ refused = {} /\ overtaken = {} /\ tail = InitialCursor
  /\ atStop = {} /\ dropped = {}

(* The server's history grows.                                             *)
Emit(e) ==
  /\ Len(log) < MaxLog
  /\ log' = Append(log, e)
  /\ UNCHANGED <<batch, cancelled, drops, stops, atStop, dropped, readerVars,
                 chan, workerVars, mem, storeVars, tail>>

-----------------------------------------------------------------------------
(* run_reader_reconnect_loop.                                              *)

(* The watermark goes into the URL; the worker may move it while the       *)
(* reader waits for the connection.                                        *)
Dial ==
  /\ reader = "connect"
  /\ reader' = "dial" /\ next' = mem
  /\ UNCHANGED <<environment, hand, chan, workerVars, mem, storeVars, tail>>

(* connect_async succeeds.  The server replays from the cursor, which it   *)
(* may or may not include; a subscription without cursor gets what comes   *)
(* after it.                                                               *)
Connect ==
  /\ reader = "dial"
  /\ reader' = "stream"
  /\ IF next = 0 THEN next' = Len(log) + 1 /\ tail' = Len(log)
                 ELSE next' \in {next, next + 1} /\ UNCHANGED tail
  /\ UNCHANGED <<environment, hand, chan, workerVars, mem, storeVars>>

(* A connection attempt fails, or the connection is lost: closed, failed,  *)
(* silent for the watchdog's time, or not answering a ping; after the      *)
(* backoff the reader connects again.  A reader inside tx.send(..).await   *)
(* notices nothing.                                                        *)
Disconnect ==
  /\ reader \in {"dial", "stream"} /\ hand = 0
  /\ drops < MaxDrops
  /\ reader' = "connect" /\ next' = 1
  /\ drops' = drops + 1
  /\ UNCHANGED <<log, batch, cancelled, stops, atStop, dropped, hand, chan,
                 workerVars, mem, storeVars, tail>>

(* One frame.  A wanted commit goes to the channel; anything else moves    *)
(* the watermark at once.                                                  *)
Receive ==
  /\ reader = "stream" /\ hand = 0
  /\ next <= Len(log)
  /\ next' = next + 1
  /\ IF Wanted(next) THEN hand' = next /\ UNCHANGED mem
                     ELSE mem' = Later(mem, next) /\ UNCHANGED hand
  /\ UNCHANGED <<environment, reader, chan, workerVars, storeVars, tail>>

(* Faulty variants of Send: a channel without bound; a send that drops the *)
(* commit when there is no room.                                           *)
SendUnbounded ==
  /\ hand # 0 /\ worker # "done"
  /\ chan' = Append(chan, hand) /\ hand' = 0
  /\ UNCHANGED <<environment, reader, next, workerVars, mem, storeVars, tail>>
SendOrDrop ==
  /\ hand # 0 /\ worker # "done"
  /\ chan' = IF Len(chan) < Capacity THEN Append(chan, hand) ELSE chan
  /\ hand' = 0
  /\ UNCHANGED <<environment, reader, next, workerVars, mem, storeVars, tail>>

(* tx.send(commit).await: waits for room, fails once the worker is gone.   *)
Send ==
  /\ hand # 0
  /\ worker # "done" /\ Len(chan) < Capacity
  /\ chan' = Append(chan, hand)
  /\ hand' = 0
  /\ UNCHANGED <<environment, reader, next, workerVars, mem, storeVars, tail>>

SendFails ==
  /\ hand # 0 /\ worker = "done"
  /\ reader' = "done" /\ next' = 1 /\ hand' = 0
  /\ UNCHANGED <<environment, chan, workerVars, mem, storeVars, tail>>

(* A faulty variant of ReaderStops: the token is seen only between two     *)
(* connections.                                                            *)
ReaderStopsLate ==
  /\ cancelled
  /\ reader = "connect"
  /\ reader' = "done" /\ next' = 1
  /\ UNCHANGED <<environment, hand, chan, workerVars, mem, storeVars, tail>>

(* Every select of the loop but the send watches the token.                *)
ReaderStops ==
  /\ cancelled
  /\ reader \in {"connect", "dial", "stream"} /\ hand = 0
  /\ reader' = "done" /\ next' = 1
  /\ UNCHANGED <<environment, hand, chan, workerVars, mem, storeVars, tail>>

-----------------------------------------------------------------------------
(* run_storage_sync_worker.                                                *)
Single == batch <= 1

(* rx.recv(), or rx.recv_many() up to batch_size.                          *)
Take ==
  LET n == IF batch <= Len(chan) THEN batch ELSE Len(chan)
  IN /\ worker = "wait" /\ chan # <<>>
     /\ buf' = SubSeq(chan, 1, n)
     /\ chan' = SubSeq(chan, n + 1, Len(chan))
     /\ worker' = "apply"
     /\ UNCHANGED <<environment, readerVars, mem, storeVars, tail>>

(* The channel is closed and empty.                                        *)
WorkerEnds ==
  /\ worker = "wait" /\ chan = <<>> /\ reader = "done"
  /\ worker' = "done"
  /\ UNCHANGED <<environment, readerVars, chan, buf, mem, storeVars, tail>>

(* Faulty variants: a worker that leaves its loop without draining; one    *)
(* that gathers the newest commit first.                                   *)
BeginNoDrain ==
  /\ worker = "wait" /\ cancelled
  /\ worker' = "closing"
  /\ UNCHANGED <<environment, readerVars, chan, buf, mem, storeVars, tail>>
DrainNewestFirst ==
  /\ worker = "drain" /\ chan # <<>>
  /\ buf' = <<Head(chan)>> \o buf
  /\ chan' = Tail(chan)
  /\ worker' = IF Single THEN "drainApply" ELSE "drain"
  /\ UNCHANGED <<environment, readerVars, mem, storeVars, tail>>

(* The token is cancelled: what try_recv still finds is applied one by one *)
(* or, in batch mode, gathered for a last flush.                           *)
BeginDrain ==
  /\ worker = "wait" /\ cancelled
  /\ worker' = "drain"
  /\ UNCHANGED <<environment, readerVars, chan, buf, mem, storeVars, tail>>

DrainOne ==
  /\ worker = "drain" /\ chan # <<>>
  /\ buf' = Append(buf, Head(chan))
  /\ chan' = Tail(chan)
  /\ worker' = IF Single THEN "drainApply" ELSE "drain"
  /\ UNCHANGED <<environment, readerVars, mem, storeVars, tail>>

(* try_recv found nothing.  The receiver is still there until the worker   *)
(* returns, so a send in between succeeds and its commit is never read.    *)
DrainEnds ==
  /\ worker = "drain" /\ chan = <<>>
  /\ worker' = IF buf = <<>> THEN "closing" ELSE "flush"
  /\ UNCHANGED <<environment, readerVars, chan, buf, mem, storeVars, tail>>

WorkerReturns ==
  /\ worker = "closing"
  /\ worker' = "done"
  /\ chan' = <<>>
  /\ UNCHANGED <<environment, readerVars, buf, mem, storeVars, tail>>

AfterApply == CASE worker \in {"apply", "advance"} -> "wait"
                [] worker \in {"drainApply", "drainAdvance"} -> "drain"
                [] worker \in {"flush", "flushAdvance"} -> "closing"
ToAdvance  == CASE worker = "apply" -> "advance"
                [] worker = "drainApply" -> "drainAdvance"
                [] worker = "flush" -> "flushAdvance"

-----------------------------------------------------------------------------
(* The write of one commit to the record table.                            *)
Written(table, i) ==
  CASE log[i].kind = "upsert" -> [table EXCEPT ![log[i].uri] = UpsertRow(@, Rec, i)]
    [] log[i].kind = "delete" -> [table EXCEPT ![log[i].uri] = DeleteRow(@, i)]
    [] OTHER -> table

(* The writes of a sequence of commits, one after the other.               *)
WrittenAll(table, is) ==
  LET after[n \in 0..Len(is)] == IF n = 0 THEN table ELSE Written(after[n - 1], is[n])
  IN after[Len(is)]

(* A commit with its payload: only these are written.                      *)
Whole(i) == log[i].kind # "hollow"

(* The URIs of those of a sequence of commits, written in this order, that *)
(* are new to the store although a later commit of their URI is not.       *)
Overtaken(is) ==
  LET before(k) == handled \cup {i \in {is[l] : l \in 1..(k - 1)} : Whole(i)}
      late(k)   == /\ Whole(is[k]) /\ is[k] \notin before(k)
                   /\ \E j \in before(k) : j > is[k] /\ log[j].uri = log[is[k]].uri
  IN {log[is[k]].uri : k \in {k \in DOMAIN is : late(k)}}

Applying == worker \in {"apply", "drainApply", "flush"}

(* apply_single_commit, as far as the store call.  A hollow commit is      *)
(* refused before it.                                                      *)
ApplySingle ==
  /\ Applying /\ Single
  /\ Whole(buf[1])
  /\ rows' = Written(rows, buf[1])
  /\ handled' = handled \cup {buf[1]}
  /\ overtaken' = overtaken \cup Overtaken(buf)
  /\ worker' = ToAdvance
  /\ UNCHANGED <<environment, readerVars, chan, buf, mem, disk, refused, tail>>

RefuseSingle ==
  /\ Applying /\ Single
  /\ StoreFaults \/ ~Whole(buf[1])
  /\ refused' = refused \cup {buf[1]}
  /\ buf' = <<>>
  /\ worker' = AfterApply
  /\ UNCHANGED <<environment, readerVars, chan, mem, disk, rows, handled,
                 overtaken, tail>>

(* flush_commit_batch: one transaction for the rows and the newest time    *)
(* of the batch, hollow commits counted in but not written.                *)
ApplyBatch ==
  LET hollow == {i \in Range(buf) : ~Whole(i)}
  IN /\ Applying /\ ~Single
     /\ rows' = WrittenAll(rows, buf)
     /\ disk' = Newest(buf)
     /\ handled' = handled \cup (Range(buf) \ hollow)
     /\ refused' = refused \cup hollow
     /\ overtaken' = overtaken \cup Overtaken(buf)
     /\ worker' = ToAdvance
     /\ UNCHANGED <<environment, readerVars, chan, buf, mem, tail>>

RefuseBatch ==
  /\ Applying /\ ~Single
  /\ StoreFaults
  /\ refused' = refused \cup Range(buf)
  /\ buf' = <<>>
  /\ worker' = AfterApply
  /\ UNCHANGED <<environment, readerVars, chan, mem, disk, rows, handled,
                 overtaken, tail>>

(* A faulty variant of Advance: the watermark is persisted and not the     *)
(* commit's own time.                                                      *)
AdvanceSavesWatermark ==
  LET time == Later(mem, Newest(buf))
  IN /\ worker \in {"advance", "drainAdvance", "flushAdvance"}
     /\ mem' = time
     /\ disk' = time
     /\ buf' = <<>>
     /\ worker' = AfterApply
     /\ UNCHANGED <<environment, readerVars, chan, rows, handled, refused, overtaken, tail>>

(* cursor.update and, in single mode, store.set_cursor, whose error is     *)
(* ignored.                                                                *)
Advance ==
  /\ worker \in {"advance", "drainAdvance", "flushAdvance"}
  /\ mem' = Later(mem, Newest(buf))
  /\ IF Single THEN disk' = buf[1] \/ (StoreFaults /\ disk' = disk) ELSE UNCHANGED disk
  /\ buf' = <<>>
  /\ worker' = AfterApply
  /\ UNCHANGED <<environment, readerVars, chan, rows, handled, refused,
                 overtaken, tail>>

-----------------------------------------------------------------------------
(* JetstreamConsumerHandle::stop, or the handle dropped.                   *)
Stop ==
  /\ ~cancelled /\ worker # "down" /\ stops < MaxStops
  /\ cancelled' = TRUE
  /\ stops' = stops + 1
  /\ atStop' = Range(buf \o chan)
  /\ UNCHANGED <<log, batch, drops, dropped, readerVars, chan, workerVars, mem,
                 storeVars, tail>>

(* The process dies between any two steps.                                 *)
Crash ==
  /\ worker # "down" /\ stops < MaxStops
  /\ stops' = stops + 1
  /\ reader' = "done" /\ next' = 1 /\ hand' = 0 /\ chan' = <<>>
  /\ worker' = "down" /\ buf' = <<>>
  /\ mem' = InitialCursor
  /\ cancelled' = FALSE /\ atStop' = {}
  /\ UNCHANGED <<log, batch, drops, dropped, storeVars, tail>>

(* JetstreamConsumerHandle::abort: the tasks end at an await, which the    *)
(* worker has only where it waits; the tracker stays with the consumer.    *)
Abort ==
  /\ worker \in {"wait", "done"} /\ stops < MaxStops
  /\ ~(worker = "done" /\ reader = "done")
  /\ stops' = stops + 1
  /\ reader' = "done" /\ next' = 1 /\ hand' = 0 /\ chan' = <<>>
  /\ worker' = "down"
  /\ cancelled' = FALSE /\ atStop' = {}
  /\ UNCHANGED <<log, batch, drops, dropped, buf, mem, storeVars, tail>>

Settled == handled \cup refused

(* Wanted commits up to a cursor that have not been settled.               *)
Behind(time) == {i \in Commits : tail < i /\ i <= time} \ Settled

Ended == reader = "done" /\ worker \in {"done", "down"}

(* JetstreamConsumer::start and the head of run, on a new consumer or on   *)
(* the one that ended: without initial_cursor and with the tracker at 0    *)
(* the persisted cursor is taken over, unless reading it fails.            *)
Start(fresh) ==
  LET start == IF fresh THEN InitialCursor ELSE mem
  IN /\ Ended
     /\ reader' = "connect" /\ next' = 1 /\ hand' = 0
     /\ chan' = <<>> /\ worker' = "wait" /\ buf' = <<>>
     /\ \/ mem' = IF Configured = NoCursor /\ start = 0 THEN disk ELSE start
        \/ StoreFaults /\ mem' = start
     /\ cancelled' = FALSE /\ atStop' = {}
     /\ dropped' = IF fresh THEN dropped ELSE dropped \cup Behind(mem)
     /\ UNCHANGED <<log, batch, drops, stops, storeVars, tail>>

Reader == Dial \/ Connect \/ Receive \/ Send \/ SendFails \/ ReaderStops
Worker == \/ Take \/ WorkerEnds \/ BeginDrain \/ DrainOne \/ DrainEnds \/ WorkerReturns
          \/ ApplySingle \/ RefuseSingle \/ ApplyBatch \/ RefuseBatch \/ Advance
Restart == Start(TRUE) \/ Start(FALSE)

Next ==
  \/ \E e \in Event : Emit(e)
  \/ Reader \/ Worker
  \/ Disconnect
  \/ Stop \/ Crash \/ Abort
  \/ Restart

(* Both tasks are scheduled, and somebody starts an ended consumer again.  *)
Fairness == WF_vars(Reader) /\ WF_vars(Worker) /\ WF_vars(Restart)

Spec == Init /\ [][Next]_vars
FairSpec == Spec /\ Fairness

-----------------------------------------------------------------------------
(* Every variable stays in its set.                                        *)
TypeOK ==
  /\ log \in Seq(Event) /\ batch \in BatchSizes
  /\ reader \in ReaderStates /\ next \in Nat /\ hand \in {0} \cup Commits
  /\ chan \in Seq(Commits) /\ Len(chan) <= Capacity
  /\ worker \in WorkerStates /\ buf \in Seq(Commits)
  /\ mem \in Nat /\ disk \in {0} \cup Commits
  /\ rows \in [Uris -> Row]
  /\ cancelled \in BOOLEAN
  /\ drops \in 0..MaxDrops /\ stops \in 0..MaxStops
  /\ handled \in SUBSET Commits /\ refused \in SUBSET Commits
  /\ tail \in Nat /\ atStop \in SUBSET Commits /\ dropped \in SUBSET Commits

(* No silent loss: a restart resumes at the persisted cursor, so every     *)
(* wanted commit up to it, since the last subscription without a cursor,   *)
(* has been written or counted in sync_errors, unless the same consumer    *)
(* was started again behind its own watermark.                             *)
CheckpointCovered == Behind(disk) \subseteq dropped

(* A reconnection resumes at the watermark, which heartbeats and filtered  *)
(* commits push past commits that are still queued: while the worker runs, *)
(* each wanted commit up to it is settled or on its way to the store, with *)
(* the same exception.                                                     *)
WatermarkCovered ==
  worker \notin {"closing", "done", "down"} =>
    Behind(mem) \subseteq Range(Pipeline) \cup dropped

(* The last commit of u the store has taken.                               *)
LastHandled(u) ==
  LET own == {i \in handled : log[i].uri = u}
  IN IF own = {} THEN 0 ELSE CHOOSE i \in own : \A j \in own : i >= j

(* Replays change nothing: however reconnections and restarts have         *)
(* repeated commits, the row of a URI is what its newest commit written so *)
(* far made it, if the store first met the URI's commits in their order.   *)
ReplaysConverge ==
  \A u \in Uris \ overtaken :
    LET last == LastHandled(u)
    IN IF last # 0 /\ log[last].kind = "upsert" THEN rows[u] = Live(Rec, last)
                                               ELSE ~Visible(rows[u])

(* And it does meet them in their order, unless one of them was refused or *)
(* passed over by a subscription without a cursor or a watermark ahead of  *)
(* it.                                                                     *)
OrderKept ==
  \A u \in overtaken :
    \E i \in Commits : log[i].uri = u /\ (i \in refused \cup dropped \/ i <= tail)

(* A clean stop flushes: once the worker has returned, every commit that   *)
(* had reached its side of the channel when the token was cancelled is     *)
(* settled.                                                                *)
StopFlushes == worker = "done" => atStop \subseteq Settled

(* Shutdown ends: neither task can keep the other from returning.          *)
StopEnds == cancelled ~> Ended \/ ~cancelled

(* At least once: after the last connection failure and the last restart,  *)
(* every wanted commit since the last subscription without a cursor is     *)
(* settled, with the exception above.                                      *)
EventuallySettled == <>[](Behind(Len(log)) \subseteq dropped)

-----------------------------------------------------------------------------
(* Claims of the documentation that the code does not keep.                *)

(* cursor.rs:4, the watermark prevents missing events across               *)
(* reconnections: no wanted commit behind the newest one written is        *)
(* forgotten, from the first one received on.                              *)
NoneMissed ==
  \A i \in Commits : (\E j \in handled : j < i) /\ i <= disk
                        => i \in Settled \cup Range(Pipeline)

(* CHANGELOG.md:102, the persisted cursor resumes seamlessly across        *)
(* restarts: no well-formed wanted commit up to it has gone unwritten.     *)
SeamlessResume ==
  \A i \in Commits :
    tail < i /\ i <= disk /\ log[i].kind # "hollow" => i \in handled
=============================================================================
