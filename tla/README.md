# skybase: a TLA+ model

`skybase` is a library that follows the AT Protocol firehose, keeps the records
it wants in an embedded SQLite table, tells subscribers about changes, and
writes to a user's own repository and to the chat service. This directory holds
TLA+ modules translated from its source, configurations that check them with
TLC, and proofs that TLAPS checks. Paths below are relative to the repository.

## The system

| Component | State | Operations | Talks to |
|---|---|---|---|
| Record store, `src/index/store.rs` | table `records`, cursor in `_skybase_meta`, connection mutex | single upsert, three deletes, batch in a transaction, cursor | bus (after the mutex is released) |
| Broadcast bus, `src/index/broadcast.rs` | ring of notifications, one place per subscriber | publish, subscribe | subscribers |
| Jetstream consumer, `src/ingest/consumer.rs`, `cursor.rs` | connection, bounded channel, worker buffer, watermark | run (reader task and worker task), stop, abort, join | server, store |
| Frame parser, `src/ingest/events.rs` | none | classify a frame | consumer, streamer |
| Streamer, `src/ingest/streamer.rs` | cursor in memory, bounded channel, connection | reader loop that hands commits to the application, resumption | server |
| Backoff, `src/ingest/backoff.rs` | failures, next delay | next delay, reset | both reader loops |
| TID generator, `src/repo/tid.rs` | `last_val` | next_tid, decode | repository client |
| Repository client, `src/repo/client.rs` | shared DPoP nonce cache | create, put, get, delete, upload, each with one nonce retry | the user's PDS |
| Chat client, `src/chat/client.rs` | tokens behind a read-write lock | requests with one refresh and retry | chat service, PDS |
| Query builder, `src/index/query.rs` | clauses of one query | SQL text and parameters, paging | store |
| AppView client, `src/appview.rs` | none | read-only calls, paging | AppView |
| Facade, `src/lib.rs` | configuration, the store | builds the above | all |
| Mock server, `src/ingest/mock.rs` | connections, command ring | emit, close, abort, shutdown | consumer and streamer under test |
| Lexicon types, wire types, errors | none | link facets, timestamps, serde | |

What is hard in it: threads that share one store but publish outside its lock;
a transaction that may roll back; two tasks around a bounded channel with
cancellation, abort and crash between any two steps; two cursors (in memory,
moved by the reader and the worker; on disk, moved by the worker) that decide
where a reconnection or a restart resumes; replays; a lock-free counter on an
unreliable clock; a streamer that moves its cursor before it hands a commit
over; a ring that overwrites what a slow subscriber has not read; and, in the
clients, retries against state that other requests change. `PROJECT.json` lists each of these at its line under
"hazards", with the properties that watch it.

What makes each part correct: the table converges to the newest write whatever
the order of arrival; subscribers and table agree; nothing the cursors pass is
lost without being counted, nothing replayed changes anything, shutdown ends and
flushes; TIDs strictly increase, sort as strings, and stay near the clock; of the
requests that meet an expired token one refreshes, the others wait for it, and
none is carried out twice; a streamer that is interrupted anywhere and resumed
leaves no hole; a subscriber that lagged and queried again agrees with the table;
a nonce stays with its server and one retry is enough; a query answers what its
clauses say.

## Modules

`RecordRows` is one row and the four conditional SQL statements on it. The row
keeps its state (absent, live, tombstone), `indexed_at`, and a token for the
payload columns, which are always written together. `RecordStore` and
`JetstreamConsumer` both extend it.

`RecordStore` is the store with its callers. A thread of the program is a
member of `Writers`. A single-row call is one action, because the connection
mutex covers its only statement; a batch (`apply_operations_batch`, which also
serves `upsert_records_batch` and `soft_delete_records_batch`) is `BeginBatch`,
one `BatchUpsert`, `BatchDelete` or `BatchSkip` per operation, and `CommitBatch`
or `AbortBatch`. The notifications a call owes are in `outbox` when the mutex is
released, and `Publish` sends one. `issued` (the newest upsert and delete
handled), `mirror` (what a subscriber that misses nothing believes) and
`suspect` are observations.

`JetstreamConsumer` is the reader task (`Dial`, which reads the watermark for the
URL, `Connect`, by when the worker may have moved it, to `ReaderStops`), the channel,
the worker task (`Take` to `Advance`, with the drain after cancellation), the
handle (`Stop`, `Abort`), `Crash`, and `Start`. A commit is applied in two steps,
the store call and the cursor update, so that a crash may fall between. The
worker's states stand for the places of its loop: `apply`, `drainApply` and
`flush` before the store call, the matching `...Advance` states after it,
`closing` between the last `try_recv` and the drop of the receiver.
The server's history is a sequence and an event's time is its place in it: the
server gives every event its own increasing `time_us`. It replays from a cursor
inclusively or exclusively, as it likes.

`TidGenerator` is `next_tid` with one action for each atomic operation, and the
base-32 functions. A relaxed load or a failed exchange shows any value the
counter has held that is no older than what the thread saw before.

`ChatSession` is the chat client's shared `AuthState` and the requests that use
it. A request goes through `send_request` (`Attempt`, `AttemptAnswered`,
`CheckRefresh`, `Retry`, `RetryAnswered`) and `refresh_session_or_relogin` (the
actions from `AlreadyRefreshed` to `LoginAnswered`, with the write lock held
from `StartRefresh` or `StartLogin` to the stored answer or the error). Sessions
are numbers, in the order the server issues them; the code compares tokens for
equality and the server never issues the same one twice. A call and its answer
travel separately, so that the server may act on a call whose sender has timed
out or has been dropped by its caller (`Cancel`). `Failure` stands for every
outcome that the code treats like a lost connection, the failing statuses and
unreadable answers included. `carried` and `hit` are observations.

`JetstreamStreamer` is the storage-free reader loop and the application behind
it. `JetstreamFrames` classifies a frame as `parse_jetstream_frame` does, check
by check, and `Backoff` is the delay between connections; the streamer extends
both. Its steps are the awaits of the loop: `Connect`, `Receive`, `Send`, `Wake`,
`Returns`. The server's history has a time for each entry that may lag behind
those of earlier entries, and the time a commit carries may also be missing. The
application takes commits from the bounded channel, keeps the newest time it has
had (`saved`), and after a crash, a cancellation or a dropped receiver starts
again from it through `resolve_resume_cursor` (`Restart`). `skipped`, `got`,
`barren` and `lost` are observations.

`GapFreeFeed` is what such a feed promises: the application gets the history in
order for the first time, no commit ahead of one it has not yet had unless that
one is gone for good, and in the end all of it. `JetstreamStreamer!ImplementsFeed`
is the refinement, with `emitted` the commits of the history, `delivered` the
ones taken and `gone` the ones the server had when a subscription was made without
a cursor while the watermark was still 0 (the first one, or a reconnection before
any frame has moved it), or outside the server's retention when the application
resumes.

`PdsRepoClient` is the write client: one action for each of the five calls, up
to the point where the arguments are accepted, then the loop of
`send_with_nonce_retry_content_type` (`Dispatch`, `Answer`, `ReadBody`) with the
nonce cache that all calls share. The servers (`Serve`, `Rotate`) accept only
their current nonce and may leave it out of any answer. `carried` and `excused`
are observations.

`RecordQuery` compiles a query to conditions, placeholders and parameters in
the order of the code, binds them by position and evaluates the statement as
SQLite does: `LIKE` takes ASCII letters of either case for the same, and a path
that passes `validate_json_path` but is none to SQLite (`a..b`, `a[`) is an error
once a row gets as far as to be read with it. `Promised` is what the documentation
of `QueryOp` says of each operator, up to the case of ASCII letters. `ChangeFeed` puts an application on top of `RecordStore`: a subscriber
that folds the notifications of the ring into its view and queries again when it
lagged, and a reader that pages by `OFFSET`.

`AppViewReads` is `paginate` with its three callers, `MockJetstream` the mock
server's tasks and command ring, where a task that writes a frame reads nothing until
its client takes it, `SubscriptionUrl` the builder methods of both
configurations and the URL made of them, `LinkFacets` and `CivilDate` the two
algorithms of the lexicon types (`hosted` is the URL parser's verdict, which is free
for any link that has something behind it). `Skybase` extends these modules and
`ChangeFeed`, `PdsRepoClient`: its `activity` says which part a behaviour is
about. The parts share no state in the program either, so that their
interleavings would show nothing.

Each `MC...` module extends its specification and defines the sets its
configuration needs. The `..._proofs` modules hold the theorems about one
specification each, `Skybase_proofs` those about its parts as well. Definitions called faulty variants are what a plausible mistake
would make of the definition after them; each property of a passing run fails
when the variant listed under "mutants" takes its place.

## Runs

| Run | Instance | Shows |
|---|---|---|
| `store` | 1 URI, 2 payloads, 2 threads, times 1..3 of which 3 is out of range, batches of up to 3 | `TypeOK`, `LwwConverges`, `MirrorAgrees`, `NoClobber` |
| `store_barrier` | 1 thread | `DeleteBarrier` is violated |
| `store_mirror` | 1 thread | `BatchNotifiesInOrder` is violated |
| `consumer` | 2 URIs, history of 3, channel of 1, batch sizes 1 and 2, one lost connection, one stop, abort or crash, failing store calls | `TypeOK`, `CheckpointCovered`, `WatermarkCovered`, `ReplaysConverge`, `OrderKept`, `StopFlushes` |
| `consumer_live` | 1 URI, history of 2, the rest as above, with fairness | `StopEnds`, `EventuallySettled` |
| `consumer_missed` | no stops, no failing store calls | `NoneMissed` is violated |
| `consumer_restart` | one stop, no failing store calls | `SeamlessResume` is violated |
| `tid` | 3 threads, clock readings 0, 2, 3, 4 of 2 bits, 2 values per microsecond, counter up to 9, 6 TIDs | `TypeOK`, `StrictlyIncreasing`, `NearSomeClock`, `SortableStrings` |
| `chat` | 2 requests, with fairness | `TypeOK`, `SingleFlight`, `CarriedOnce`, `FailsForCause`, `TokensAdvance`, `RetryIsNewer`, `RequestsEnd` |
| `chat_refresh` | 1 request | `RefreshTokenSuffices` is violated |
| `streamer` | history of 3 out of five kinds of entry, one of them late, channel of 1, overlap 1, retention 2, two failed connections, one crash, stop or receiver dropped, three starting points, with fairness | `TypeOK`, `ReplayBounded`, `DelayFits`, `StopEnds`, `ImplementsFeed` |
| `skybase`, feed and paging | 2 URIs, 1 thread, times 1 and 2, single calls and batches of 1, ring of 1 | `CaughtUpAgrees`, `PagesMissForCause` |
| `skybase`, queries | 3 records with every pair of 8 ratings, 292 queries | `AnswersAsAsked` |
| `skybase`, PDS | 2 calls, 2 servers with 2 nonces each | `CarriedOnce`, `NonceStaysHome`, `FailsForCause` |
| `skybase`, AppView | lists of up to 4, pages of 1 or 2, 3 pages | `ReadEndsForCause` |
| `skybase`, URLs | 36 endpoints, 3 names, 3 parts | `UrlCarries` |
| `skybase`, mock server | 2 connections, ring of 2, 3 commands, with fairness | `ActivitiesEnd` |
| `skybase`, texts and dates | texts of 5 tokens, days up to 2100-04 | `LinksFit`, `DatesCount` |

`skybase` is one run; its `SkybaseTypeOK` joins the type invariants of the feed,
the PDS client and the mock server with the bounds of an AppView read, and
`ActivitiesEnd` says of a PDS call that it comes to its last request, of an AppView
read that it ends, and of a mock server that is dropped that it stops listening and
keeps only connections that wait for their clients.

Bounds. The properties of `store` speak of one URI at a time and no statement
looks at another row, so one URI is enough; three operations in a batch are the
fewest that write, delete and write again; two threads are the fewest that can
publish in the other order than they wrote. In `consumer`, three events are the
fewest that put one commit into the worker's hands, one into the channel and a
heartbeat after both, with two URIs so that a commit in between may be somebody
else's; a channel of one place makes the reader wait. In `tid`, the counter
saturates within the bound, one clock reading wraps to 0, and three threads let
two of them fail against the same exchange. In `chat`, each request makes
at most two chat calls and two calls to the account's server, so nothing else
needs a bound; two requests are the fewest of which one finds that the other has
refreshed. In `streamer`, three entries are the fewest of which one is with the
application, one in the channel and one late behind both; two failed
connections in a row rewind the cursor twice and reach the delay's cap; the
overlap of 1 (5 seconds in the code) equals the lateness: a longer one would
only replay more, and a shorter one would not cover the late entry. In
`skybase`, a ring of one place is full after one notification; two calls are the
fewest of which one changes the nonce under the other, two servers the fewest to
mix up, and two nonces the fewest of which one is old; three records tell the
sort orders, ties included, from each other; and the days pass the leap day of
2000 and the missing one of 2100. `CHECK_DEADLOCK FALSE` is set where the bounded inputs run out
(history, TIDs, requests); the store never stops.

Fairness. `JetstreamConsumer!FairSpec` assumes that the runtime schedules both
tasks (weak fairness of `Reader` and of `Worker`), that a connection attempt ends
(`connect_async` has no timeout here, though it gives way to a stop), and that the application
starts an ended consumer again (weak fairness of `Restart`), without which
nothing more would be written. Connection failures, stops, crashes and the
server's events are never required to happen. The worker's `select!` picks a ready branch at
random, so a cancelled worker may go on taking commits for a while; with a
finite history this ends. `ChatSession!FairSpec` assumes weak fairness of each
request's steps once it has begun: the runtime polls it, the HTTP timeouts of 10
and 15 seconds end every wait for an answer, and tokio's lock is handed on first
come, first served, of which weak fairness is enough here, as each of finitely
many requests takes it once. `JetstreamStreamer!FairSpec` assumes that the
runtime polls the task (`Streamer`), that a connection attempt ends, for which
the code has no timeout of its own, that the application reads its channel (`Take`), and that it starts an ended
streamer again (`Restart`). Failures, stops and entries are never required.
`Skybase!SkybaseFairness` assumes that the runtime polls a PDS call that has something
to send (`Dispatch`), that a page of the AppView comes or fails, for which that
client has a timeout of 1.5 seconds (`appview.rs:111`), that the mock server's accept
loop sees its shutdown, and, with strong fairness, that a task of the mock server
takes a command that is there again and again, as `select!` picks a ready branch at
random. Nothing is assumed of those the code waits for without a timeout: the PDS
(both clients of `repo/client.rs:44-47` and `63-66` are built without one) may never
answer, and a client of the mock server may never finish its handshake (`mock.rs:104`)
or take a frame (`mock.rs:117`). `ActivitiesEnd` allows for these waits and no others.

## What the checks found

Five statements of the documentation do not hold; the details, with the quoted
lines, are under "findings" in `PROJECT.json`.

1. `README.md:200`, the soft-delete barrier: a delete that finds no row leaves
   no tombstone and a delete that finds a tombstone does not advance it, so an
   older upsert that arrives afterwards is live.
2. `src/index/store.rs:338`, exact arrival order: a batch publishes its
   upserts before its deletes.
3. `src/ingest/cursor.rs:4`, no missed events: until the first commit has been
   applied a reconnection subscribes without a cursor.
4. `CHANGELOG.md:102`, seamless resumption: the same consumer started again
   keeps a watermark that is ahead of commits it has dropped.
5. `src/chat/client.rs:112`, automatic session refresh: a refresh token without
   stored credentials is never used.

Three more are kept up to an exception that the property names, so that no run refutes
them:

- `src/index/query.rs:26-29`, "literal substring matching": `LIKE` (`query.rs:230`)
  takes ASCII letters of either case for the same, so that a record that holds "A" is
  found for "a". `Promised` compares the folded texts.
- `src/ingest/mock.rs:274`, `disconnect_all` terminates all active connections: a task
  that waits for its client to take a frame (`mock.rs:117`) reads no abort.
  `ActivitiesEnd` excepts these tasks, and those in the handshake.
- `src/ingest/consumer.rs:305` and `streamer.rs:123`, "not already present": the test is
  for `cursor=` anywhere in the text, so that an endpoint with `?precursor=1` makes
  the configured cursor disappear and the server start at the live end; the same goes
  for the other two parameters. `UrlCarries` excepts such endpoints (`Masked`).

What holds is stated so that the five cases are visible in it: `MirrorAgrees`
leaves out URIs about which two threads owed notifications at once or which a
batch upserted after deleting them; `CheckpointCovered` and `EventuallySettled`
start at the last subscription without a cursor (or at the configured cursor) and
count refused commits as settled, and they except the commits that were behind the watermark of a
consumer when it was started again (`dropped`; a new consumer, which
`Skybase::start_consumer` makes at every call, drops none).

## Proofs

| Theorem | States |
|---|---|
| `StoreTypeCorrect`, `StoreConverges`, `StoreNeverClobbers`, `StoreMirrored` | `TypeOK`, `LwwConverges`, `NoClobber`, `MirrorAgrees` of `RecordStore` |
| `TidTypeCorrect`, `TidsIncrease`, `TidsNearClock`, `TidsSort` | `TypeOK`, `StrictlyIncreasing`, `NearSomeClock`, `SortableStrings` of `TidGenerator` |
| `PdsTypeCorrect`, `PdsNonceStaysHome`, `PdsCarriedOnce`, `PdsFailsForCause` | `PdsTypeOK`, `NonceStaysHome`, `CarriedOnce`, `FailsForCause` of `PdsRepoClient` |
| `StreamerTypeCorrect`, `StreamerReplayBounded`, `StreamerDelayFits` | `TypeOK`, `ReplayBounded`, `DelayFits` of `JetstreamStreamer` |
| `StreamerIsFeed` | the safety part of `ImplementsFeed`: each step of `JetstreamStreamer` is one of `GapFreeFeed` or none |
| `ConsumerTypeCorrect`, `CheckpointNeverAhead`, `WatermarkNeverAhead`, `ReplaysAlwaysConverge`, `OrderAlwaysKept`, `StopAlwaysFlushes` | `TypeOK`, `CheckpointCovered`, `WatermarkCovered`, `ReplaysConverge`, `OrderKept`, `StopFlushes` of `JetstreamConsumer` |
| `FeedHasNoHoles` | what the steps of `GapFreeFeed` come to: the application has no holes |
| `SessionTypeCorrect`, `RefreshIsSingleFlight`, `StoredTokenAdvances`, `RetryTokenIsLater`, `RequestsCarriedOnce`, `RequestsFailForCause` | `TypeOK`, `SingleFlight`, `TokensAdvance`, `RetryIsNewer`, `CarriedOnce`, `FailsForCause` of `ChatSession` |
| `PartsKeepTheirSpecs` | `Skybase` behaves as `RecordStore` and as `PdsRepoClient` say: their theorems are theorems of `Skybase` |
| `SkybaseTypeCorrect`, `SubscriberCatchesUp`, `PagingMissesForCause`, `ReadsEndForCause`, `UrlsCarry`, `LinksAreFit`, `DatesAreRight`, `QueriesAnswerAsAsked` | `SkybaseTypeOK`, `CaughtUpAgrees`, `PagesMissForCause`, `ReadEndsForCause`, `UrlCarries`, `LinksFit`, `DatesCount`, `AnswersAsAsked` of `Skybase` |

They hold for every value of the constants under the named assumptions of the
modules: any number of URIs, payloads, threads, times, clock readings, requests,
servers, nonces, connections, pages and crashes, any overlap, ring, configured
cursor and channel, and batches, histories, texts, lists, tables, clauses
and sort terms of any number and length. Four of the assumptions say more than what set a constant is from.
`StreamerAssumption`: no entry is filed later than the overlap, and the overlap
is not longer than the server's retention. `TidAssumption` and
`PlacesAssumption`: the clock part leaves the counter room, and the digits of the
largest value fit the places of a string. `UrlAssumption`: an endpoint is a URL
with one question mark at most and ampersands behind it only.

Induction. The library's induction theorems take an operator as a parameter, which no
installed prover can instantiate. The proofs use instead that a non-empty set of
naturals has a least element (`FirstBad`, from the well-foundedness of the
naturals): the set is that of the places where a claim fails. `Recursion` shows
in the same way that a function defined from its value one place earlier exists,
with the step from one value to the next given as a function (`HasRecursion`).

`RecordStore`: `LwwConverges` is not inductive, for a commit replaces the table
by the transaction's working copy. `StoreInv` adds that the working copy
converges as the table does (`TxOK`), and that it is nowhere older than the
table (`TxAhead`), which is true only because the mutex keeps everyone else out
between `BeginBatch` and `CommitBatch`. The argument is made once per row
(`UpsertOK`, `DeleteOK`, `DeleteUnversionedOK`) and lifted to the table
(`OneRowStep`) and to the working copy (`OneTxStep`); `StoreStep` puts the
actions together and gives `NoClobber` as well. `MirrorAgrees` rests on
`ToldInv`: what an outbox says last about a URI that only one thread owes is the
row as it is (`AllTold`), and what an open batch has collected says last what its
working copy has (`BatchTold`).

`TidGenerator`: `StrictlyIncreasing` needs to know that `last` is the newest and
largest TID (`LastIsNewest`), that no thread believes in a value that was never
reached (`CurrentBehind`), and that a candidate is a clock reading
(`CandidateFromClock`). An exchange succeeds only against `last` itself, and
`NextValGrows` does the rest. For `SortableStrings`, a value is its quotient by
each power of the base in turn (`Shifted`); the strings of two values first
differ where the quotients do, and there the digit decides. A string is decoded
to the value it was made from because each quotient comes back with its digit.

`ChatSession`: `SessionInv` adds to the type invariant that only a request that
waits for it is given an answer (`AnswersAwaited`), that a session on its way to
the holder of the lock is later than the stored one (`AnswersNewer`), and that
no request has used a later token than the stored one (`UsedBehind`); the type
invariant itself rests on `AnswersNewer`. `CarryInv` counts chat calls: one that
may still be carried out excludes every other of the same request and excludes
that the request has been carried out already, and an answer "expired" excludes
both, which is what makes the retry safe.

`PdsRepoClient`: `PdsTypeInv` adds to the types what each place of a call
implies (`PlacesOK`: a call that may be sent again has an attempt left).
`NonceStaysHome` needs the same of the cache, the servers and the answers on
their way (`NoncesHome`). `CarriedInv` ties the count to the answer a call has or
waits to read. `CauseInv` is the argument for the single retry: a call nobody got
in the way of finds, once it has been challenged, the server's current nonce in
the cache, and sends it (`Prepared`), so that it is not challenged again.

`JetstreamStreamer`: `StreamerInv` follows a commit that is not lost from the
server to the application. There is no hole in the channel (`ChanOK`) nor before
the commit being sent (`HandOK`); what a connection has passed or left out is in
one of the two or with the application (`StreamOK`); and so is what the next
connection or the next streamer would leave out (`ResumeOK`). The last one is why
the overlap works: an entry filed an overlap behind another came before it
(`Behind`), so that what the rewound cursor leaves out had been received before
the frame that moved the watermark. A first connection is not rewound, and needs
that its cursor is an overlap behind the clock (`CursorsOK`). `ReplayBounded`
follows from `StreamOK` and the bound of `saved` against the watermark. That the
steps are those of the feed follows from `ChanOK` at the head of the channel.
`DelayFits` counts failures since the last frame that parsed (`BackoffInv`): the
delay is what that many doublings make of the first one, up to the cap (`Grown`).

`JetstreamConsumer`: `ConsumerInv` is about the commits that are still to be
settled (`Open`). In the worker's hands, in the channel and in the reader's hand
they are in order and without a hole (`BufOrder`, `ChanOrder`, `HandOrder`), and
none that the connection or the watermark has passed is anywhere else
(`StreamOrder`, `MarkOrder`). Hence a batch that is settled leaves nothing open
behind its newest commit (`BufIsBehind`), which is all that persisting its time
needs (`CheckpointOK`), whatever else has been delivered twice. Receiving a
heartbeat keeps `MarkOrder` because `StreamOrder` holds before it. `CursorsOK`
keeps both cursors behind what the server has yet to emit, or within the
configured cursor, and a connection in the making behind the watermark; `StopOK` says where the commits are that the worker's
side had at a stop. Two more invariants are about the table. `TableOK` ties each
row to the commits handled so far: a batch is written commit by commit, and what
writing it does to a row depends only on which commits of the URI have been met,
not on how often. `OrderInv` says that every commit still to be settled comes
later than all that are settled (`SettledOK`), which is why the store first meets
them in order.

`GapFreeFeed`: that there are no holes is inductive once it is known that the
history grows at its end only.

`Skybase`: each step is a step of one part, or none, for each of the others, so that
the invariants of the store and of the PDS client carry over
(`PartsKeepTheirSpecs`).
The subscriber needs `FeedInv`: for a URI about which nothing is owed, the last
notification in the backlog has the row as it is, or there is none and the view
has it, unless the ring overran (`Followed`). A step of the store is either quiet,
in that what is settled after it was settled before it with the same row
(`Quiet`), or sends one notification.
The paged reader needs `ReaderInv`: while no record goes, one that has stayed as
it was and has not been read has at least as many records ahead of it as the
reader has read; while none comes, one that has been read was read once, and has
fewer ahead of it (`Awaited`).
An AppView read has the usable entries up to its cursor (`ReadInv`).
For dates, a day falls into the year of its era that the estimate of the code
names (`YearStart`, `FallsIn`), and the next day is one place further in the same
month, or at the start of the next month, year or era.
A subscription URL keeps its scheme in front and its slash behind
(`SchemeInFront`, `SlashBehind`), and what each builder call and each attached
parameter adds is what the server receives of its kind (`AddedCarries`,
`ExtendedCarries`).
Link facets are fit one by one (`LinkIsFit`), as bytes add up place by place
(`PartBytes`) and trimming stops at the first place that may end a link
(`TrimmedTo`), and together, since a search begins where the last link ended
(`LinksFrom`).
A query is answered once, so that `AnswersAsAsked` is inductive as it stands and
the proof is about the data. The placeholders in front of a clause are counted,
and they are as many as the parameters in front of its own (`ClauseHoles`,
`TermsCounted`, from where `FlattenSeq` puts each part, `FlatPlaces`); so each
clause meets its own path and value (`ClauseArgs`, `TermParam`) and holds as
`QueryOp` promises (`HoldsAsPromised`). For `contains`, the places from which the
escaped pattern matches are those from which the text itself is there, up to the
case of ASCII letters (`Contained`, from the pattern's end on). SQLite's order is total, so that rows no
two neighbours of which are out of order are in order throughout
(`SortedThroughout`), and JSON values that are ordered are extracted to values
that are (`ExtractedOrder`).

Only model-checked is what needs ENABLED: `StopEnds` (of the consumer and of the
streamer), `EventuallySettled`,
`RequestsEnd`, `ActivitiesEnd` and the liveness part of `ImplementsFeed`. Every
other property of a passing run is a theorem. No theorem is about the five
violated properties.

## What the model shows that no document speaks of

- `streamer.rs:261`: the cursor is rewound at every connection but the first
  attempt. When the first attempt after a resumption fails, the overlap is taken
  twice; `ReplayBounded` has `2 * Rewind` for that reason. A configured cursor
  smaller than the overlap saturates to 0, which the URL leaves out: the
  reconnection starts at the live end. The instances start from larger ones.
- `streamer.rs:270`: a connection attempt has no timeout and does not see the
  token.
- `streamer.rs:300`: a send that waits for room sees neither the token nor a
  dropped connection; a dropped receiver is noticed at the next commit only.
- `streamer.rs:45`: only applications call `resolve_resume_cursor`; the consumer
  does not rewind.
- A commit without `time_us` is accepted and carries the time 0 (`events.rs`).
- A `cursor=` parameter of the endpoint URL pins the cursor for every connection,
  and each one replays from there.
- `backoff.rs:101`: the jitter is applied behind the cap, so that a delay may
  exceed it (36 s for a cap of 30 s).
- `client.rs:561`: the check for a fresh nonce sees that the cache has one, not
  that this answer brought it.
- A write whose answer cannot be read is reported as failed though it has been
  carried out: `CarriedOnce` says "at most once", and the converse of its second
  part does not hold.
- `appview.rs:196`: a failed page and a page of which nothing is usable end a
  read as the end of the list does.
- `query.rs:313`: a number beyond `i64` is bound as text, which SQLite sorts
  behind every number.
- `mock.rs:331`: the mock server is `Clone`, and dropping any clone shuts it down.

## Not modelled

Power failure (`synchronous = NORMAL` may then lose the last transactions, rows
and cursor together); events without `time_us` and frames that do not parse in
the consumer (the streamer has both); a second process on the same database;
statistics; endpoints with a scheme other than `ws` and `wss`, or with a trailing
`&` and no query; the path `$` alone, for which SQLite takes the whole record, and
three of the six canonical sort
columns, which sort as the others do; URLs with characters that are not ASCII,
which the pattern for links does not match; AppView reads that ask once; the
chat methods around `send_request`, among them the lookup of a conversation, which
reads the first 50 and then creates one; replacing the facade's store; the wire
types. The tokio ring and channels, SQLite, the regular expressions and the
servers are modelled from how the code uses them.

## Plan

1. An abstract last-writer-wins register, implemented by `RecordStore`, and
   `GapFreeFeed` with its exceptions, implemented by `JetstreamConsumer`.
2. The chat methods around `send_request` and the reads that ask once.
