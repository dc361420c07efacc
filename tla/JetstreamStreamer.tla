-------------------------- MODULE JetstreamStreamer --------------------------
(***************************************************************************)
(* The storage-free streamer of src/src/ingest/streamer.rs: one task that  *)
(* keeps a connection to the Jetstream server, follows the time of the     *)
(* frames with a CursorTracker, and hands the commits to an application    *)
(* through a bounded channel.  The application keeps the time of the       *)
(* commits it has handled and, after a crash or a stop, starts a new       *)
(* streamer from it through resolve_resume_cursor.                         *)
(*                                                                         *)
(* The server's history is "log".  An entry has the time the server files  *)
(* it under, which may be behind that of earlier entries by the overlap    *)
(* the code rewinds by, and the frame the server sends for it.             *)
(*                                                                         *)
(* "got", "barren" and "lost" are observations.                            *)
(***************************************************************************)
EXTENDS Backoff, JetstreamFrames, Sequences

CONSTANTS
  Sent,         \* the frames the server sends, each with how far behind the
                \* clock it files the entry
  Base,         \* the time before the first entry
  Rewind,       \* CURSOR_REWIND_OVERLAP_US
  Retention,    \* MAX_JETSTREAM_REPLAY_WINDOW_US
  FarFuture,    \* a time years ahead
  Initial, Cap, \* INITIAL_BACKOFF, MAX_BACKOFF
  Capacity,     \* of the application's channel
  NoCursor,     \* config.cursor: None
  Setups,       \* what an application starts with: config.cursor and the
                \* cursor its endpoint URL carries, each possibly NoCursor
  MaxLog,       \* bound on the server's history
  MaxDrops,     \* bound on failed connections
  MaxStops      \* bound on crashes, stops and receivers dropped

ASSUME StreamerAssumption ==
  /\ Rewind \in Nat /\ Retention \in Nat /\ Rewind <= Retention
  /\ Sent \subseteq [frame : Frame, late : 0..Rewind]
  /\ Base \in Nat /\ Base > 2 * Rewind + Retention
  /\ FarFuture \in Nat /\ FarFuture > Base + MaxLog + Rewind
  /\ Initial \in Nat /\ Cap \in Nat
  /\ Capacity \in Nat \ {0}
  /\ NoCursor \notin Nat
  /\ Setups \subseteq [config : (Rewind + 1)..(Base - Rewind) \cup {0, NoCursor},
                      pin : 1..(Base - Rewind) \cup {NoCursor}]
  /\ MaxLog \in Nat /\ MaxDrops \in Nat /\ MaxStops \in Nat

VARIABLES
  log,        \* the server's history
  pin,        \* the cursor in the endpoint URL
  config,     \* config.cursor
  phase,      \* what the streamer task is doing
  tried,      \* has_connected_once
  next,       \* the place in log the connection has reached
  skipped,    \* the places the subscription left out
  hand,       \* the commit the task is sending, 0 when none
  tracker,    \* CursorTracker's watermark
  backoff,    \* BackoffManager
  pause,      \* the delay being slept, 0 when none
  chan,       \* the application's channel
  receiver,   \* whether the application still holds the receiver
  saved,      \* the time the application has kept, 0 when none
  cancelled,  \* the cancellation token
  drops, stops,
  got,        \* the places of the commits the application has had
  barren,     \* connections since the last frame that parsed
  lost        \* places no subscription is bound to bring any more

wire    == <<phase, tried, next, skipped, hand>>
app     == <<chan, receiver, saved, got>>
bounded == <<drops, stops>>
vars == <<log, pin, config, wire, tracker, backoff, pause, app, cancelled,
          bounded, barren, lost>>

-----------------------------------------------------------------------------
Entry == [frame : Frame, time : Nat]

Kind(i) == ParseFrame(log[i].frame)

(* JetstreamEvent::time_us.                                                *)
TimeUs(i) == CASE log[i].frame.stamp = "sound" -> log[i].time
               [] log[i].frame.stamp = "none" -> 0
               [] log[i].frame.stamp = "far" -> FarFuture

Commits == {i \in DOMAIN log : Kind(i) = "commit"}

Now == Base + Len(log)

(* with_cursor.                                                            *)
WithCursor(cursor) == IF cursor = 0 THEN NoCursor ELSE cursor

(* A faulty variant of ResumeCursor: no overlap.                           *)
ResumeCursorExact(time) ==
  IF time = 0 THEN NoCursor ELSE WithCursor(Greatest(time, Now - Retention))

(* resolve_resume_cursor.                                                  *)
ResumeCursor(time) ==
  IF time = 0 THEN NoCursor
  ELSE WithCursor(Greatest(Greatest(time - Rewind, 0), Now - Retention))

(* A faulty variant of ActiveCursor: a reconnection starts at the          *)
(* configured cursor again.                                                *)
ActiveCursorAgain == config

(* The cursor of the next connection: the watermark, on the first one as   *)
(* it is and later rewound.                                                *)
ActiveCursor ==
  IF tracker = 0 THEN config
  ELSE IF tried THEN Greatest(tracker - Rewind, 0) ELSE tracker

(* build_subscription_url_full: a cursor in the endpoint stays, and 0 is   *)
(* left out.                                                               *)
UrlCursor ==
  IF pin # NoCursor THEN pin
  ELSE IF ActiveCursor = 0 THEN NoCursor ELSE ActiveCursor

Init ==
  /\ log = <<>>
  /\ \E setup \in Setups : config = WithCursor(setup.config) /\ pin = setup.pin
  /\ phase = "connect" /\ tried = FALSE
  /\ next = 1 /\ skipped = {} /\ hand = 0
  /\ tracker = IF config = NoCursor THEN 0 ELSE config
  /\ backoff = NewBackoff(Initial, Cap) /\ pause = 0
  /\ chan = <<>> /\ receiver = TRUE /\ saved = 0
  /\ cancelled = FALSE
  /\ drops = 0 /\ stops = 0
  /\ got = {} /\ barren = 0 /\ lost = {}

(* The server's history grows.                                             *)
Emit(sent) ==
  /\ Len(log) < MaxLog
  /\ log' = Append(log, [frame |-> sent.frame, time |-> Now + 1 - sent.late])
  /\ UNCHANGED <<pin, config, wire, tracker, backoff, pause, app, cancelled,
                 bounded, barren, lost>>

-----------------------------------------------------------------------------
(* connect_async: the server goes through its history leaving out what is  *)
(* before the cursor, and goes on with what comes in; without a cursor it  *)
(* leaves out all it has.                                                  *)
Connect ==
  /\ phase = "connect"
  /\ phase' = "stream" /\ tried' = TRUE /\ next' = 1
  /\ IF UrlCursor = NoCursor
     THEN skipped' = DOMAIN log /\ lost' = IF tracker = 0 THEN DOMAIN log ELSE lost
     ELSE /\ \/ skipped' = {i \in DOMAIN log : log[i].time < UrlCursor}
             \/ skipped' = {i \in DOMAIN log : log[i].time <= UrlCursor}
          /\ UNCHANGED lost
  /\ UNCHANGED <<log, pin, config, hand, tracker, backoff, pause, app, cancelled,
                 bounded, barren>>

Lose ==
  /\ drops < MaxDrops
  /\ drops' = drops + 1
  /\ phase' = "sleep" /\ tried' = TRUE
  /\ next' = 1 /\ skipped' = {}
  /\ pause' \in Delays(backoff)
  /\ backoff' = AfterFailure(backoff)
  /\ barren' = barren + 1
  /\ UNCHANGED <<log, pin, config, hand, tracker, app, cancelled, stops, lost>>

(* The connection attempt fails.                                           *)
ConnectFails == phase = "connect" /\ Lose

(* The connection ends: a close frame, an error, silence for read_timeout, *)
(* or a keepalive ping that cannot be sent.                                *)
Disconnect == phase = "stream" /\ hand = 0 /\ ~cancelled /\ Lose

(* The delay is over.                                                      *)
Wake ==
  /\ phase = "sleep" /\ ~cancelled
  /\ phase' = "connect" /\ pause' = 0
  /\ UNCHANGED <<log, pin, config, tried, next, skipped, hand, tracker, backoff,
                 app, cancelled, bounded, barren, lost>>

(* What the subscription has still to bring.                               *)
Ahead == {i \in DOMAIN log : i >= next /\ i \notin skipped}

(* A frame: one that does not parse is ignored; any other moves the        *)
(* watermark and resets the backoff, and a commit goes to the channel.     *)
Receive ==
  /\ phase = "stream" /\ hand = 0 /\ ~cancelled
  /\ \E i \in Ahead :
       /\ \A j \in Ahead : i <= j
       /\ next' = i + 1
       /\ IF Kind(i) = "discarded" THEN UNCHANGED <<tracker, backoff, barren>>
          ELSE /\ tracker' = Greatest(tracker, TimeUs(i))
               /\ backoff' = Reset(backoff)
               /\ barren' = 0
       /\ hand' = IF Kind(i) = "commit" THEN i ELSE 0
  /\ UNCHANGED <<log, pin, config, phase, tried, skipped, pause, app, cancelled,
                 bounded, lost>>

(* A faulty variant of Send: a channel without a bound.                    *)
SendUnbounded ==
  /\ hand # 0 /\ receiver
  /\ chan' = Append(chan, hand)
  /\ hand' = 0
  /\ UNCHANGED <<log, pin, config, phase, tried, next, skipped, tracker, backoff,
                 pause, receiver, saved, got, cancelled, bounded, barren, lost>>

(* tx.send(commit).await.                                                  *)
Send ==
  /\ hand # 0 /\ receiver
  /\ Len(chan) < Capacity
  /\ chan' = Append(chan, hand)
  /\ hand' = 0
  /\ UNCHANGED <<log, pin, config, phase, tried, next, skipped, tracker, backoff,
                 pause, receiver, saved, got, cancelled, bounded, barren, lost>>

(* The receiver is gone: the task returns.                                 *)
SendFails ==
  /\ hand # 0 /\ ~receiver
  /\ hand' = 0 /\ phase' = "done"
  /\ UNCHANGED <<log, pin, config, tried, next, skipped, tracker, backoff, pause,
                 app, cancelled, bounded, barren, lost>>

(* A faulty variant of Returns: the sleep does not watch the token.        *)
ReturnsAwake ==
  /\ cancelled
  /\ phase \in {"connect", "stream"} /\ hand = 0
  /\ phase' = "done" /\ pause' = 0
  /\ UNCHANGED <<log, pin, config, tried, next, skipped, hand, tracker, backoff,
                 app, cancelled, bounded, barren, lost>>

(* The token is seen at the head of the loop, on an idle connection and in *)
(* the sleep, but not by a send that waits for room.                       *)
Returns ==
  /\ cancelled
  /\ phase \in {"connect", "stream", "sleep"} /\ hand = 0
  /\ phase' = "done" /\ pause' = 0
  /\ UNCHANGED <<log, pin, config, tried, next, skipped, hand, tracker, backoff,
                 app, cancelled, bounded, barren, lost>>

-----------------------------------------------------------------------------
(* The application takes a commit, handles it and keeps its time.          *)
Take ==
  /\ chan # <<>>
  /\ chan' = Tail(chan)
  /\ got' = got \cup {Head(chan)}
  /\ saved' = Greatest(saved, TimeUs(Head(chan)))
  /\ UNCHANGED <<log, pin, config, wire, tracker, backoff, pause, receiver,
                 cancelled, bounded, barren, lost>>

StopBounded == stops < MaxStops /\ stops' = stops + 1

Cancel ==
  /\ ~cancelled /\ phase # "down"
  /\ StopBounded
  /\ cancelled' = TRUE
  /\ UNCHANGED <<log, pin, config, wire, tracker, backoff, pause, app, drops,
                 barren, lost>>

DropReceiver ==
  /\ receiver /\ phase # "down"
  /\ StopBounded
  /\ receiver' = FALSE /\ chan' = <<>>
  /\ UNCHANGED <<log, pin, config, wire, tracker, backoff, pause, saved, got,
                 cancelled, drops, barren, lost>>

Crash ==
  /\ phase # "down"
  /\ StopBounded
  /\ phase' = "down" /\ hand' = 0 /\ chan' = <<>> /\ pause' = 0
  /\ UNCHANGED <<log, pin, config, tried, next, skipped, tracker, backoff, receiver,
                 saved, got, cancelled, drops, barren, lost>>

(* A new streamer, resumed from the time kept; what is older than the      *)
(* server's retention by then is out of reach.  An application that has    *)
(* kept no time starts as it did the first time.                           *)
Restart ==
  LET cursor  == IF saved = 0 THEN config ELSE ResumeCursor(saved)
      expired == {i \in DOMAIN log : log[i].time <= Now - Retention}
  IN /\ phase \in {"done", "down"}
     /\ config' = cursor
     /\ tracker' = IF cursor = NoCursor THEN 0 ELSE cursor
     /\ lost' = IF saved # 0 /\ saved - Rewind < Now - Retention
                THEN lost \cup expired ELSE lost
     /\ phase' = "connect" /\ tried' = FALSE
     /\ next' = 1 /\ skipped' = {} /\ hand' = 0
     /\ backoff' = NewBackoff(Initial, Cap) /\ pause' = 0
     /\ chan' = <<>> /\ receiver' = TRUE /\ cancelled' = FALSE
     /\ barren' = 0
     /\ UNCHANGED <<log, pin, saved, drops, stops, got>>

Streamer == Connect \/ Wake \/ Receive \/ Send \/ SendFails \/ Returns

Next ==
  \/ \E sent \in Sent : Emit(sent)
  \/ Streamer
  \/ ConnectFails \/ Disconnect
  \/ Take
  \/ Cancel \/ DropReceiver \/ Crash \/ Restart

(* The task is scheduled, connection attempts end, the application goes on *)
(* reading, and somebody starts an ended streamer again.                   *)
Fairness == WF_vars(Streamer) /\ WF_vars(Take) /\ WF_vars(Restart)

Spec == Init /\ [][Next]_vars
FairSpec == Spec /\ Fairness

-----------------------------------------------------------------------------
(* Every variable stays in its set; the channel keeps its bound.           *)
TypeOK ==
  /\ log \in Seq(Entry) /\ \A i \in DOMAIN log : Kind(i) \in Parsed
  /\ pin \in Nat \cup {NoCursor} /\ config \in Nat \cup {NoCursor}
  /\ phase \in {"connect", "stream", "sleep", "done", "down"} /\ tried \in BOOLEAN
  /\ next \in Nat /\ skipped \subseteq DOMAIN log
  /\ hand \in Commits \cup {0} /\ (hand # 0 => phase = "stream")
  /\ tracker \in Nat
  /\ backoff \in [initial : Nat, max : Nat, delay : Nat, failures : Nat]
  /\ pause \in Nat /\ (pause # 0 <=> phase = "sleep")
  /\ chan \in Seq(Commits) /\ Len(chan) <= Capacity
  /\ receiver \in BOOLEAN /\ saved \in Nat /\ cancelled \in BOOLEAN
  /\ drops \in 0..MaxDrops /\ stops \in 0..MaxStops
  /\ got \subseteq Commits /\ barren \in Nat /\ lost \subseteq DOMAIN log

(* A commit handed over again is not older than two overlaps before the    *)
(* newest one the application has had: the cursor it resumes with is       *)
(* rewound once, and once more when the first attempt to connect fails,    *)
(* but neither more attempts nor late entries pull it further back.  An    *)
(* endpoint URL with a cursor of its own replays from there each time.     *)
ReplayBounded ==
  hand \in got /\ pin = NoCursor => log[hand].time >= saved - 2 * Rewind

(* The powers of two, as far as connections can fail.                      *)
TwoTo[n \in 0..MaxDrops] == IF n = 0 THEN 1 ELSE 2 * TwoTo[n - 1]

(* The delay slept is the one the number of connections since the last     *)
(* frame that parsed calls for: doubled for each from the initial one up   *)
(* to the cap, give or take the jitter, and never below the floor.         *)
DelayFits ==
  LET initial == Greatest(Initial, Floor)
      base    == Least(initial * TwoTo[barren - 1], Greatest(Cap, initial))
  IN pause # 0 => /\ pause >= Floor
                  /\ 100 * pause \in (100 - Jitter) * base..(100 + Jitter) * base

(* The streamer stops: once the token is cancelled the task returns, if    *)
(* the application reads its channel or gives it up.                       *)
StopEnds == cancelled ~> phase \in {"done", "down"}

(* The streamer implements the feed.  The watermark moves before a commit  *)
(* is handed over and the next subscription starts near it; still, what    *)
(* the application has had, however often the connection, the streamer or  *)
(* the application failed and however late an entry came, is the history   *)
(* without a gap, but for what a subscription passed over that was made    *)
(* without a cursor while the watermark was still 0, be it the first or    *)
(* not, and what has expired on the server; and when they stop failing it  *)
(* gets the rest.                                                          *)
Feed == INSTANCE GapFreeFeed
        WITH emitted <- Commits, delivered <- got, gone <- Commits \cap lost,
             listening <- receiver
ImplementsFeed == Feed!FeedSpec
=============================================================================
