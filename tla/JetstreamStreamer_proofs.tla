---------------------- MODULE JetstreamStreamer_proofs ----------------------
(***************************************************************************)
(* What holds of JetstreamStreamer for any history, overlap, retention and *)
(* channel: its types, the bound on replays, that each of its steps is one *)
(* of GapFreeFeed or none at all, and the delays between its attempts.     *)
(***************************************************************************)
EXTENDS JetstreamStreamer, TLAPS, WellFoundedInduction

Piped  == {chan[k] : k \in DOMAIN chan}
Held   == got \cup Piped \cup {hand}
Wanted == Commits \ lost

(* The time of an entry lags behind its place by an overlap at most.       *)
Stamped == \A i \in DOMAIN log : log[i].time \in (Base + i - Rewind)..(Base + i)

(* The cursors are behind the clock, and the one in use not much behind    *)
(* the one kept; a first connection starts further back than entries yet   *)
(* to come can be filed.                                                   *)
CursorsOK ==
  /\ pin \in (1..(Base - Rewind)) \cup {NoCursor}
  /\ tracker = 0 => config = NoCursor
  /\ tracker = 0 \/ tracker > Rewind
  /\ tracker <= Now /\ saved <= Now /\ saved <= tracker + Rewind
  /\ saved = 0 => config = NoCursor \/ config \in (Rewind + 1)..(Base - Rewind)
  /\ ~tried => tracker <= Now - Rewind
  /\ \A i \in Piped \cup {hand} : i # 0 => TimeUs(i) <= tracker

PhasesOK ==
  /\ phase \in {"stream", "sleep"} => tried
  /\ next \in 1..(Len(log) + 1)
  /\ chan # <<>> => receiver

(* No hole in the channel, nor between it and the commit being sent.       *)
ChanOK ==
  \A k \in DOMAIN chan : \A j \in Wanted :
    j < chan[k] => j \in got \/ \E m \in 1..(k - 1) : chan[m] = j

HandOK ==
  hand # 0 /\ receiver => \A j \in Wanted : j < hand => j \in got \cup Piped

(* What a connection has passed or left out is on its way, and what it has *)
(* still ahead of it is not old.                                           *)
StreamOK ==
  phase = "stream" =>
    /\ receiver => \A j \in Wanted : j < next \/ j \in skipped => j \in Held
    /\ pin = NoCursor => \A i \in (DOMAIN log \ skipped) \cup {hand} :
         i # 0 /\ (i >= next \/ i = hand) => log[i].time >= tracker - Rewind

(* What a later connection, or a later streamer, will leave out is with    *)
(* the application or on its way.                                          *)
ResumeOK ==
  /\ \A j \in Wanted : log[j].time <= saved - Rewind => j \in got
  /\ ~tried => \A j \in Wanted : log[j].time <= tracker => j \in got
  /\ tried /\ receiver /\ phase # "down" =>
       \A j \in Wanted : log[j].time <= tracker - Rewind => j \in Held

StreamerInv ==
  TypeOK /\ Stamped /\ CursorsOK /\ PhasesOK /\ ChanOK /\ HandOK /\ StreamOK /\ ResumeOK

-----------------------------------------------------------------------------
(* A parsed frame is of one of the four kinds; one that is not discarded   *)
(* tells the time of its entry or none.                                    *)
LEMMA ParserTotal == \A f \in Frame : ParseFrame(f) \in Parsed
BY DEF Frame, ParseFrame, Salvaged, Parsed

LEMMA StampsKept ==
  ASSUME TypeOK, NEW i \in DOMAIN log
  PROVE  /\ log[i].frame \in Frame /\ log[i].time \in Nat
         /\ TimeUs(i) \in Nat
         /\ Kind(i) # "discarded" => TimeUs(i) \in {0, log[i].time}
<1>1. log[i] \in Entry
  BY DEF TypeOK
<1>2. log[i].frame \in Frame /\ log[i].time \in Nat
  BY <1>1 DEF Entry
<1>3. log[i].frame.stamp \in {"none", "sound", "far"}
  BY <1>2 DEF Frame
<1>4. Kind(i) # "discarded" => log[i].frame.stamp # "far"
  BY DEF Kind, ParseFrame
<1>5. FarFuture \in Nat
  BY StreamerAssumption
<1> QED
  BY <1>2, <1>3, <1>4, <1>5 DEF TimeUs

(* The delays.                                                             *)
BackoffType == [initial : Nat, max : Nat, delay : Nat, failures : Nat]

LEMMA NewBackoffType == NewBackoff(Initial, Cap) \in BackoffType
BY StreamerAssumption, BackoffAssumption DEF NewBackoff, Greatest, BackoffType

LEMMA AfterFailureType == \A b \in BackoffType : AfterFailure(b) \in BackoffType
<1> TAKE b \in BackoffType
<1>1. Least(2 * b.delay, b.max) \in Nat /\ b.failures + 1 \in Nat
  BY DEF BackoffType, Least
<1> QED
  BY <1>1 DEF AfterFailure, BackoffType

LEMMA ResetType == \A b \in BackoffType : Reset(b) \in BackoffType
BY DEF Reset, BackoffType

LEMMA DelaysType == \A b \in BackoffType : Delays(b) \subseteq Nat \ {0}
<1> SUFFICES ASSUME NEW b \in BackoffType, NEW offset \in Drawn
             PROVE  Jittered(b.delay, offset) \in Nat \ {0}
  BY DEF Delays
<1>1. Floor \in Nat \ {0} /\ b.delay \in Nat
  BY BackoffAssumption DEF BackoffType
<1>2. offset \in Int
  BY BackoffAssumption DEF Jitter, Least
<1>3. (b.delay * offset) \div 100 \in Int /\ (b.delay * (-offset)) \div 100 \in Int
  BY <1>1, <1>2
<1> QED
  BY <1>1, <1>2, <1>3 DEF Jittered, Greatest

(* The cursors.                                                            *)
LEMMA ResumeCursorType ==
  ASSUME TypeOK, saved # 0
  PROVE  /\ ResumeCursor(saved) \in Nat
         /\ ResumeCursor(saved) = Greatest(saved - Rewind, Now - Retention)
         /\ ResumeCursor(saved) > Rewind
<1>1. /\ saved \in Nat /\ Rewind \in Nat /\ Retention \in Nat /\ Base \in Nat
      /\ Base > 2 * Rewind + Retention /\ Len(log) \in Nat
  BY StreamerAssumption DEF TypeOK
<1>2. Now - Retention \in Nat /\ Now - Retention > Rewind
  BY <1>1 DEF Now
<1> HIDE DEF Now
<1> QED
  BY <1>1, <1>2 DEF ResumeCursor, WithCursor, Greatest

-----------------------------------------------------------------------------
(* Every step keeps every variable in its set.                             *)
LEMMA TypeInit == Init => TypeOK
<1> SUFFICES ASSUME Init PROVE TypeOK
  OBVIOUS
<1>1. PICK setup \in Setups : config = WithCursor(setup.config) /\ pin = setup.pin
  BY DEF Init
<1>2. config \in Nat \cup {NoCursor} /\ pin \in Nat \cup {NoCursor}
  BY <1>1, StreamerAssumption DEF WithCursor
<1>3. tracker \in Nat
  BY <1>2 DEF Init
<1>4. log = <<>> /\ chan = <<>>
  BY DEF Init
<1>5. log \in Seq(Entry) /\ DOMAIN log = {}
  BY <1>4
<1>6. chan \in Seq(Commits) /\ Len(chan) = 0
  BY <1>4
<1>7. 0 <= Capacity /\ 0 \in 0..MaxDrops /\ 0 \in 0..MaxStops
  BY StreamerAssumption
<1>8. backoff \in BackoffType
  BY NewBackoffType DEF Init
<1> HIDE DEF Commits
<1> QED
  BY <1>2, <1>3, <1>5, <1>6, <1>7, <1>8 DEF Init, TypeOK, BackoffType

LEMMA TypeStep == TypeOK /\ [Next]_vars => TypeOK'
<1> SUFFICES ASSUME TypeOK, [Next]_vars PROVE TypeOK'
  OBVIOUS
<1>a. /\ Rewind \in Nat /\ Retention \in Nat /\ Base \in Nat /\ Capacity \in Nat
      /\ MaxDrops \in Nat /\ MaxStops \in Nat
  BY StreamerAssumption
<1>1. ASSUME NEW sent \in Sent, Emit(sent) PROVE TypeOK'
  <2>1. sent.frame \in Frame /\ sent.late \in 0..Rewind
    BY StreamerAssumption
  <2>2. Now + 1 - sent.late \in Nat
    BY <2>1, StreamerAssumption DEF Now, TypeOK
  <2>3. PICK entry \in Entry : log' = Append(log, entry)
    BY <1>1, <2>1, <2>2 DEF Emit, Entry
  <2>4. /\ log' \in Seq(Entry) /\ DOMAIN log \subseteq DOMAIN log'
        /\ \A i \in DOMAIN log : log'[i] = log[i]
    BY <2>3 DEF TypeOK
  <2>5. \A i \in DOMAIN log' : Kind(i)' \in Parsed
    <3> SUFFICES ASSUME NEW i \in DOMAIN log' PROVE Kind(i)' \in Parsed
      OBVIOUS
    <3>1. log'[i] \in Entry
      BY <2>4
    <3>2. log'[i].frame \in Frame
      BY <3>1 DEF Entry
    <3> QED
      BY <3>2, ParserTotal DEF Kind
  <2>6. Commits \subseteq Commits'
    BY <2>4 DEF Commits, Kind
  <2>7. chan \in Seq(Commits')
    BY <2>6 DEF TypeOK
  <2> QED
    BY <1>1, <2>4, <2>5, <2>6, <2>7 DEF Emit, TypeOK, wire, app, bounded
<1>2. CASE Connect
  BY <1>2 DEF Connect, TypeOK, Commits, Kind, app, bounded
<1>3. CASE ConnectFails \/ Disconnect
  <2>1. Lose /\ phase # "sleep" /\ hand = 0
    BY <1>3 DEF ConnectFails, Disconnect, TypeOK
  <2>2. AfterFailure(backoff) \in BackoffType /\ Delays(backoff) \subseteq Nat \ {0}
    BY AfterFailureType, DelaysType DEF TypeOK, BackoffType
  <2>3. /\ drops' \in 0..MaxDrops /\ barren' \in Nat
        /\ pause' \in Nat \ {0} /\ backoff' \in BackoffType
    BY <2>1, <2>2, <1>a DEF Lose, TypeOK
  <2> QED
    BY <2>1, <2>3 DEF Lose, TypeOK, Commits, Kind, app, BackoffType
<1>4. CASE Wake
  BY <1>4 DEF Wake, TypeOK, Commits, Kind, app, bounded
<1>5. CASE Receive
  <2>1. PICK i \in Ahead :
          /\ next' = i + 1
          /\ IF Kind(i) = "discarded" THEN UNCHANGED <<tracker, backoff, barren>>
             ELSE /\ tracker' = Greatest(tracker, TimeUs(i))
                  /\ backoff' = Reset(backoff)
                  /\ barren' = 0
          /\ hand' = IF Kind(i) = "commit" THEN i ELSE 0
    BY <1>5 DEF Receive
  <2>2. i \in DOMAIN log /\ i \in Nat
    BY DEF Ahead, TypeOK
  <2>3. tracker' \in Nat /\ backoff' \in BackoffType /\ barren' \in Nat
    <3>1. /\ tracker \in Nat /\ backoff \in BackoffType /\ barren \in Nat
          /\ TimeUs(i) \in Nat /\ Reset(backoff) \in BackoffType
      BY <2>2, StampsKept, ResetType DEF TypeOK, BackoffType
    <3>2. Greatest(tracker, TimeUs(i)) \in Nat
      BY <3>1 DEF Greatest
    <3> QED
      BY <2>1, <3>1, <3>2
  <2>4. hand' \in Commits \cup {0} /\ next' \in Nat
    BY <2>1, <2>2 DEF Commits
  <2> QED
    BY <1>5, <2>3, <2>4 DEF Receive, TypeOK, Commits, Kind, app, bounded, BackoffType
<1>6. CASE Send
  <2>1. hand \in Commits /\ chan \in Seq(Commits)
    BY <1>6 DEF Send, TypeOK
  <2>2. chan' \in Seq(Commits) /\ Len(chan') <= Capacity
    BY <1>6, <2>1, <1>a DEF Send
  <2> QED
    BY <1>6, <2>2 DEF Send, TypeOK, Commits, Kind, bounded
<1>7. CASE SendFails
  BY <1>7 DEF SendFails, TypeOK, Commits, Kind, app, bounded
<1>8. CASE Returns
  BY <1>8 DEF Returns, TypeOK, Commits, Kind, app, bounded
<1>9. CASE Take
  <2>1. /\ Head(chan) \in Commits /\ Tail(chan) \in Seq(Commits)
        /\ Len(Tail(chan)) <= Capacity
    BY <1>9, <1>a DEF Take, TypeOK
  <2>2. TimeUs(Head(chan)) \in Nat
    BY <2>1, StampsKept DEF Commits
  <2>3. saved' \in Nat
    BY <1>9, <2>2 DEF Take, TypeOK, Greatest
  <2> QED
    BY <1>9, <2>1, <2>3 DEF Take, TypeOK, Commits, Kind, wire, bounded
<1>10. CASE Cancel \/ DropReceiver \/ Crash
  <2>1. stops' \in 0..MaxStops
    <3>1. StopBounded
      BY <1>10 DEF Cancel, DropReceiver, Crash
    <3>2. stops \in 0..MaxStops
      BY DEF TypeOK
    <3> QED
      BY <1>a, <3>1, <3>2 DEF StopBounded
  <2>2. chan' = chan \/ chan' = <<>>
    BY <1>10 DEF Cancel, DropReceiver, Crash, app
  <2>3. chan' \in Seq(Commits) /\ Len(chan') <= Capacity
    <3>1. <<>> \in Seq(Commits) /\ Len(<<>>) <= Capacity
      BY <1>a
    <3>2. chan \in Seq(Commits) /\ Len(chan) <= Capacity
      BY DEF TypeOK
    <3> QED
      BY <2>2, <3>1, <3>2, Zenon
  <2>4. CASE Cancel
    BY <2>4, <2>1, <2>3 DEF Cancel, TypeOK, Commits, Kind, wire, app
  <2>5. CASE DropReceiver
    BY <2>5, <2>1, <2>3 DEF DropReceiver, TypeOK, Commits, Kind, wire
  <2>6. CASE Crash
    BY <2>6, <2>1, <2>3 DEF Crash, TypeOK, Commits, Kind
  <2> QED
    BY <1>10, <2>4, <2>5, <2>6
<1>11. CASE Restart
  <2>1. config' \in Nat \cup {NoCursor}
    BY <1>11, ResumeCursorType DEF Restart, TypeOK
  <2>2. tracker' \in Nat
    BY <1>11, <2>1 DEF Restart
  <2>3. lost' \subseteq DOMAIN log
    BY <1>11 DEF Restart, TypeOK
  <2>4. chan' \in Seq(Commits) /\ Len(chan') <= Capacity
    BY <1>11, <1>a DEF Restart
  <2> QED
    BY <1>11, <2>1, <2>2, <2>3, <2>4, NewBackoffType
    DEF Restart, TypeOK, Commits, Kind, BackoffType
<1>12. CASE UNCHANGED vars
  BY <1>12 DEF vars, TypeOK, Commits, Kind, wire, app, bounded
<1> QED
  BY <1>1, <1>2, <1>3, <1>4, <1>5, <1>6, <1>7, <1>8, <1>9, <1>10, <1>11, <1>12
  DEF Next, Streamer

(* The streamer's variables stay in their sets, and its channel within its *)
(* bound.                                                                  *)
THEOREM StreamerTypeCorrect == Spec => []TypeOK
BY TypeInit, TypeStep, PTL DEF Spec

-----------------------------------------------------------------------------
(* Facts about the history that most steps use.                            *)
Numbered ==
  /\ Rewind \in Nat /\ Retention \in Nat /\ Rewind <= Retention
  /\ Base \in Nat /\ Base > 2 * Rewind + Retention /\ NoCursor \notin Nat
  /\ Len(log) \in Nat /\ DOMAIN log = 1..Len(log) /\ Now = Base + Len(log)
  /\ \A i \in DOMAIN log : log[i].time \in Nat
  /\ Commits \subseteq 1..Len(log) /\ Wanted = Commits \ lost
  /\ got \subseteq Commits /\ lost \subseteq 1..Len(log) /\ skipped \subseteq 1..Len(log)
  /\ Len(chan) \in Nat /\ DOMAIN chan = 1..Len(chan)
  /\ \A k \in DOMAIN chan : chan[k] \in Commits
  /\ hand \in Commits \cup {0} /\ (hand # 0 => phase = "stream")
  /\ tracker \in Nat /\ saved \in Nat /\ next \in Nat
  /\ tried \in BOOLEAN /\ receiver \in BOOLEAN

LEMMA Numbers == TypeOK => Numbered
<1> SUFFICES ASSUME TypeOK PROVE Numbered
  OBVIOUS
<1>1. /\ log \in Seq(Entry) /\ chan \in Seq(Commits)
      /\ got \subseteq Commits /\ lost \subseteq DOMAIN log /\ skipped \subseteq DOMAIN log
      /\ hand \in Commits \cup {0} /\ (hand # 0 => phase = "stream")
      /\ tracker \in Nat /\ saved \in Nat /\ next \in Nat
      /\ tried \in BOOLEAN /\ receiver \in BOOLEAN
  BY DEF TypeOK
<1>2. Len(log) \in Nat /\ DOMAIN log = 1..Len(log)
  BY <1>1
<1>3. /\ Len(chan) \in Nat /\ DOMAIN chan = 1..Len(chan)
      /\ \A k \in DOMAIN chan : chan[k] \in Commits
  BY <1>1
<1>4. Commits \subseteq DOMAIN log
  BY DEF Commits
<1>5. \A i \in DOMAIN log : log[i].time \in Nat
  BY StampsKept
<1> QED
  BY <1>1, <1>2, <1>3, <1>4, <1>5, StreamerAssumption DEF Numbered, Wanted, Now

LEMMA SameHistory ==
  ASSUME log' = log
  PROVE  /\ Commits' = Commits /\ Now' = Now
         /\ \A i : TimeUs(i)' = TimeUs(i)
         /\ Stamped => Stamped'
BY DEF Commits, Kind, Now, TimeUs, Stamped

LEMMA CommitTimes ==
  ASSUME TypeOK, NEW i \in Commits
  PROVE  TimeUs(i) \in {0, log[i].time}
BY StampsKept DEF Commits

(* An entry a whole overlap older than another comes before it.            *)
LEMMA Behind ==
  ASSUME TypeOK, Stamped, NEW i \in DOMAIN log, NEW j \in DOMAIN log,
         log[j].time <= log[i].time - Rewind
  PROVE  j <= i
<1>1. log[j].time \in (Base + j - Rewind)..(Base + j) /\ log[i].time \in (Base + i - Rewind)..(Base + i)
  BY DEF Stamped
<1>2. Base \in Nat /\ Rewind \in Nat /\ i \in Nat /\ j \in Nat
  BY Numbers DEF Numbered
<1> QED
  BY <1>1, <1>2

LEMMA PipedKept == chan' = chan => Piped' = Piped
BY DEF Piped

-----------------------------------------------------------------------------
(* The invariant holds at the start and is kept by every step.             *)
LEMMA InvInit == Init => StreamerInv
<1> SUFFICES ASSUME Init PROVE StreamerInv
  OBVIOUS
<1>1. TypeOK /\ Numbered
  BY TypeInit, Numbers
<1>2. log = <<>> /\ Len(log) = 0 /\ chan = <<>> /\ DOMAIN chan = {}
  BY DEF Init
<1>3. Now = Base /\ Wanted = {} /\ Piped = {}
  BY <1>1, <1>2 DEF Numbered, Piped
<1>4. PICK setup \in Setups : config = WithCursor(setup.config) /\ pin = setup.pin
  BY DEF Init
<1>5. /\ setup.config \in ((Rewind + 1)..(Base - Rewind)) \cup {0, NoCursor}
      /\ setup.pin \in (1..(Base - Rewind)) \cup {NoCursor}
  BY StreamerAssumption
<1>6. config = NoCursor \/ config \in (Rewind + 1)..(Base - Rewind)
  BY <1>4, <1>5 DEF WithCursor
<1>7. CursorsOK
  <2>1. \/ tracker = 0 /\ config = NoCursor
        \/ tracker = config /\ config \in (Rewind + 1)..(Base - Rewind)
    <3>1. tracker = IF config = NoCursor THEN 0 ELSE config
      BY DEF Init
    <3> QED
      BY <1>6, <3>1
  <2>2. saved = 0 /\ hand = 0
    BY DEF Init
  <2> QED
    BY <1>1, <1>2, <1>3, <1>4, <1>5, <1>6, <2>1, <2>2 DEF CursorsOK, Numbered
<1>8. Stamped /\ PhasesOK /\ ChanOK /\ HandOK /\ StreamOK /\ ResumeOK
  BY <1>1, <1>2, <1>3
  DEF Init, Stamped, PhasesOK, ChanOK, HandOK, StreamOK, ResumeOK, Numbered
<1> QED
  BY <1>1, <1>7, <1>8 DEF StreamerInv

(* A new entry is filed after all cursors by less than an overlap.         *)
LEMMA InvEmit ==
  ASSUME StreamerInv, TypeOK', NEW sent \in Sent, Emit(sent)
  PROVE  StreamerInv'
<1>1. TypeOK /\ Numbered /\ Stamped /\ CursorsOK /\ PhasesOK
  BY Numbers DEF StreamerInv
<1>2. UNCHANGED <<pin, config, phase, tried, next, skipped, hand, tracker, chan,
                  receiver, saved, got, lost>>
  BY DEF Emit, wire, app
<1>3. PICK n \in Nat : n = Len(log) + 1
  BY <1>1 DEF Numbered
<1>4. sent.late \in 0..Rewind
  BY StreamerAssumption
<1>5. PICK entry : /\ log' = Append(log, entry)
                   /\ entry.time = Now + 1 - sent.late
  BY DEF Emit
<1>6. /\ Len(log') = n /\ DOMAIN log' = 1..n
      /\ \A i \in DOMAIN log : log'[i] = log[i]
      /\ log'[n] = entry
  <2>1. log \in Seq(Entry)
    BY <1>1 DEF TypeOK
  <2> QED
    BY <1>3, <1>5, <2>1
<1>7. Now' = Now + 1 /\ Now' = Base + n
  BY <1>1, <1>3, <1>6 DEF Now, Numbered
<1>8. log'[n].time \in (Base + n - Rewind)..(Base + n) /\ log'[n].time \in Nat
  <2>1. Base \in Nat /\ Rewind \in Nat /\ Now \in Nat /\ Now + 1 = Base + n
    BY <1>1, <1>3 DEF Numbered
  <2>2. log'[n].time = Now + 1 - sent.late
    BY <1>5, <1>6
  <2>3. PICK late \in 0..Rewind : late = sent.late
    BY <1>4
  <2>4. /\ Now + 1 - late \in (Base + n - Rewind)..(Base + n)
        /\ Now + 1 - late \in Nat
    BY <2>1, <2>3, StreamerAssumption
  <2> QED
    BY <2>2, <2>3, <2>4
<1>9. Stamped'
  <2>1. DOMAIN log' = DOMAIN log \cup {n}
    BY <1>1, <1>3, <1>6 DEF Numbered
  <2> QED
    BY <1>1, <1>6, <1>8, <2>1 DEF Stamped
<1>10. Commits' \subseteq Commits \cup {n}
  BY <1>1, <1>3, <1>6 DEF Commits, Kind, Numbered
<1>11. Wanted' \subseteq Wanted \cup {n}
  BY <1>2, <1>10 DEF Wanted
<1>12. \A i \in Commits : TimeUs(i)' = TimeUs(i)
  BY <1>6 DEF Commits, TimeUs
<1>13. /\ Piped' = Piped /\ Held' = Held
       /\ Piped \subseteq Commits /\ hand \in Commits \cup {0}
  BY <1>1, <1>2 DEF Piped, Held, Numbered
<1>14. n \notin 1..Len(log) /\ \A i \in 1..Len(log) : i < n
  BY <1>1, <1>3 DEF Numbered
<1>15. CursorsOK'
  <2>1. \A i \in Piped \cup {hand} : i # 0 => TimeUs(i)' <= tracker
    BY <1>1, <1>12, <1>13 DEF CursorsOK
  <2>2. tracker <= Now' /\ saved <= Now' /\ (~tried => tracker <= Now' - Rewind)
    <3>1. tracker <= Now /\ saved <= Now /\ (~tried => tracker <= Now - Rewind)
      BY <1>1 DEF CursorsOK
    <3>2. tracker \in Nat /\ saved \in Nat /\ Now \in Nat /\ Rewind \in Nat
      BY <1>1 DEF Numbered
    <3> QED
      BY <1>7, <3>1, <3>2
  <2> QED
    BY <1>1, <1>2, <1>13, <2>1, <2>2 DEF CursorsOK
<1>16. PhasesOK'
  BY <1>1, <1>2, <1>3, <1>6 DEF PhasesOK, Numbered
<1>17. ChanOK'
  <2>1. \A k \in DOMAIN chan : chan[k] < n
    BY <1>1, <1>14 DEF Numbered
  <2>2. SUFFICES ASSUME NEW k \in DOMAIN chan, NEW j \in Wanted', j < chan[k]
                 PROVE  j \in got \/ \E m \in 1..(k - 1) : chan[m] = j
    BY <1>2 DEF ChanOK
  <2>3. j # n
    <3>1. chan[k] \in 1..Len(log) /\ Len(log) \in Nat /\ chan[k] < n
      BY <1>1, <2>1 DEF Numbered
    <3> QED
      BY <2>2, <3>1
  <2> QED
    BY <1>11, <2>2, <2>3 DEF StreamerInv, ChanOK
<1>18. HandOK'
  BY <1>1, <1>2, <1>3, <1>11, <1>13 DEF HandOK, StreamerInv, Numbered
<1>19. StreamOK'
  <2>1. next <= n /\ n \notin skipped
    BY <1>1, <1>3 DEF PhasesOK, Numbered
  <2>2. log'[n].time >= tracker - Rewind
    BY <1>1, <1>7, <1>8 DEF CursorsOK, Numbered
  <2>3. ASSUME phase = "stream", receiver, NEW j \in Wanted', j < next \/ j \in skipped
        PROVE  j \in Held
    <3>1. j # n
      <4>1. next \in Nat
        BY <1>1 DEF Numbered
      <4> QED
        BY <2>1, <2>3, <4>1
    <3> QED
      BY <1>11, <2>3, <3>1 DEF StreamerInv, StreamOK
  <2>4. ASSUME phase = "stream", pin = NoCursor,
               NEW i \in (DOMAIN log' \ skipped) \cup {hand}, i # 0, i >= next \/ i = hand
        PROVE  log'[i].time >= tracker - Rewind
    <3>1. CASE i = n
      BY <3>1, <2>2
    <3>2. CASE i \in DOMAIN log
      BY <3>2, <2>4, <1>6 DEF StreamerInv, StreamOK
    <3>3. i \in DOMAIN log \/ i = n
      BY <1>1, <1>3, <1>6, <2>4 DEF Numbered
    <3> QED
      BY <3>1, <3>2, <3>3
  <2> QED
    BY <1>2, <1>13, <2>3, <2>4 DEF StreamOK
<1>20. ResumeOK'
  <2>1. /\ log'[n].time > saved - Rewind /\ log'[n].time > tracker - Rewind
        /\ ~tried => log'[n].time > tracker
    BY <1>1, <1>7, <1>8 DEF CursorsOK, Numbered
  <2>2. \A j \in Wanted' : j = n \/ (j \in Wanted /\ log'[j] = log[j])
    <3>1. Wanted \subseteq DOMAIN log
      BY <1>1 DEF Numbered
    <3>2. \A j \in Wanted : log'[j] = log[j]
      BY <1>6, <3>1
    <3> QED
      BY <1>11, <3>2
  <2>3. ASSUME NEW j \in Wanted' PROVE
          /\ log'[j].time <= saved - Rewind => j \in Wanted /\ log[j].time <= saved - Rewind
          /\ log'[j].time <= tracker - Rewind => j \in Wanted /\ log[j].time <= tracker - Rewind
          /\ ~tried /\ log'[j].time <= tracker => j \in Wanted /\ log[j].time <= tracker
    <3>1. saved - Rewind \in Int /\ tracker - Rewind \in Int /\ tracker \in Int
      BY <1>1 DEF Numbered
    <3> QED
      BY <2>1, <2>2, <1>8, <3>1
  <2> QED
    BY <1>2, <1>13, <2>3 DEF ResumeOK, StreamerInv
<1> QED
  BY <1>9, <1>15, <1>16, <1>17, <1>18, <1>19, <1>20 DEF StreamerInv
(* A connection leaves out only what is on its way already.                *)
LEMMA InvConnect ==
  ASSUME StreamerInv, TypeOK', Connect
  PROVE  StreamerInv'
<1>1. TypeOK /\ Numbered /\ Stamped /\ CursorsOK /\ PhasesOK
  BY Numbers DEF StreamerInv
<1>2. /\ UNCHANGED <<log, pin, config, hand, tracker, chan, receiver, saved, got>>
      /\ phase = "connect" /\ phase' = "stream" /\ tried' = TRUE /\ next' = 1
  BY DEF Connect, app
<1>3. /\ Commits' = Commits /\ Now' = Now /\ Stamped'
      /\ \A i : TimeUs(i)' = TimeUs(i)
  BY <1>1, <1>2, SameHistory
<1>4. hand = 0 /\ Piped' = Piped /\ Held' = Held
  BY <1>1, <1>2, PipedKept DEF Numbered, Held
<1>5. lost \subseteq lost'
  BY <1>1 DEF Connect, Numbered
<1>6. Wanted' \subseteq Wanted
  BY <1>3, <1>5 DEF Wanted
<1>7. CursorsOK'
  BY <1>1, <1>2, <1>3, <1>4 DEF CursorsOK
<1>8. PhasesOK'
  BY <1>1, <1>2 DEF PhasesOK, Numbered
<1>9. ChanOK' /\ HandOK'
  BY <1>2, <1>4, <1>6 DEF ChanOK, HandOK, StreamerInv
<1>10. ResumeOK'
  <2>1. ASSUME NEW j \in Wanted, receiver, log[j].time <= tracker - Rewind
        PROVE  j \in Held
    <3>1. CASE tried
      BY <2>1, <3>1, <1>2 DEF StreamerInv, ResumeOK
    <3>2. CASE ~tried
      <4>1. log[j].time <= tracker
        BY <2>1, <1>1 DEF Numbered
      <4> QED
        BY <2>1, <3>2, <4>1 DEF StreamerInv, ResumeOK, Held
    <3> QED
      BY <3>1, <3>2
  <2> QED
    BY <1>2, <1>4, <1>6, <2>1 DEF ResumeOK, StreamerInv
<1>11. StreamOK'
  <2>1. CASE UrlCursor = NoCursor
    <3>1. tracker = 0
      BY <2>1, <1>1 DEF UrlCursor, ActiveCursor, CursorsOK, Numbered, Greatest
    <3>2. skipped' = DOMAIN log /\ lost' = DOMAIN log
      BY <2>1, <3>1 DEF Connect
    <3>3. Wanted' = {}
      BY <3>2, <1>1, <1>3 DEF Wanted, Numbered
    <3> QED
      BY <1>2, <1>4, <3>2, <3>3 DEF StreamOK
  <2>2. CASE UrlCursor # NoCursor /\ pin # NoCursor
    <3>1. pin \in 1..(Base - Rewind) /\ UrlCursor = pin
      BY <2>2, <1>1 DEF UrlCursor, CursorsOK
    <3>2. \A i \in DOMAIN log : log[i].time > pin
      BY <3>1, <1>1 DEF Stamped, Numbered
    <3>3. skipped' = {}
      BY <2>2, <3>1, <3>2, <1>1 DEF Connect, Numbered
    <3>4. \A j \in Wanted' : ~ j < 1
      BY <1>1, <1>6 DEF Numbered
    <3> QED
      BY <1>2, <2>2, <3>3, <3>4 DEF StreamOK
  <2>3. CASE UrlCursor # NoCursor /\ pin = NoCursor
    <3>1. tracker # 0
      BY <2>3, <1>1 DEF UrlCursor, ActiveCursor, CursorsOK
    <3>2. UrlCursor = IF tried THEN tracker - Rewind ELSE tracker
      BY <2>3, <3>1, <1>1 DEF UrlCursor, ActiveCursor, CursorsOK, Numbered, Greatest
    <3>3. \A i \in DOMAIN log :
            /\ i \in skipped' => log[i].time <= UrlCursor
            /\ i \notin skipped' => log[i].time >= UrlCursor
      <4>1. UrlCursor \in Int
        BY <3>2, <1>1 DEF Numbered
      <4> QED
        BY <2>3, <4>1, <1>1 DEF Connect, Numbered
    <3>4. ASSUME receiver, NEW j \in Wanted', j \in skipped' PROVE j \in Held
      <4>1. j \in Wanted /\ log[j].time <= UrlCursor
        BY <1>1, <1>6, <3>3, <3>4 DEF Numbered
      <4> QED
        BY <4>1, <3>2, <3>4, <1>2 DEF StreamerInv, ResumeOK, Held
    <3>5. \A i \in DOMAIN log \ skipped' : log[i].time >= tracker - Rewind
      BY <3>2, <3>3, <1>1 DEF Numbered
    <3>6. \A j \in Wanted' : ~ j < 1
      BY <1>1, <1>6 DEF Numbered
    <3> QED
      BY <1>2, <1>4, <3>4, <3>5, <3>6 DEF StreamOK
  <2> QED
    BY <2>1, <2>2, <2>3
<1> QED
  BY <1>3, <1>7, <1>8, <1>9, <1>10, <1>11 DEF StreamerInv

(* A connection that ends, a delay, a stop and a crash move no cursor.     *)
LEMMA InvQuiet ==
  ASSUME StreamerInv, TypeOK',
         ConnectFails \/ Disconnect \/ Wake \/ SendFails \/ Returns
         \/ Cancel \/ DropReceiver \/ Crash \/ UNCHANGED vars
  PROVE  StreamerInv'
<1>1. TypeOK /\ Numbered /\ Stamped /\ CursorsOK /\ PhasesOK
  BY Numbers DEF StreamerInv
<1>2. UNCHANGED <<log, pin, config, tracker, saved, got, lost>>
  BY DEF ConnectFails, Disconnect, Lose, Wake, SendFails, Returns, Cancel, DropReceiver,
         Crash, vars, wire, app
<1>3. /\ Commits' = Commits /\ Now' = Now /\ Stamped'
      /\ \A i : TimeUs(i)' = TimeUs(i)
  BY <1>1, <1>2, SameHistory
<1>4. Wanted' = Wanted
  BY <1>2, <1>3 DEF Wanted
<1>5. \/ UNCHANGED <<chan, receiver>>
      \/ chan' = <<>> /\ (receiver' = FALSE \/ (receiver' = receiver /\ phase' = "down"))
  BY DEF ConnectFails, Disconnect, Lose, Wake, SendFails, Returns, Cancel, DropReceiver,
         Crash, vars, wire, app
<1>6. /\ hand' = hand \/ (hand' = 0 /\ (receiver' = FALSE \/ phase' = "down"))
      /\ tried' = tried \/ (tried' = TRUE /\ phase # "down")
      /\ phase' = "down" \/ (phase = "down" <=> phase' = "down")
      /\ phase' = phase \/ phase' # "stream"
      /\ phase' \in {"stream", "sleep"} => tried'
      /\ next' = next \/ next' = 1
      /\ phase' = "stream" => next' = next /\ skipped' = skipped
  <2>1. CASE ConnectFails \/ Disconnect
    BY <2>1, <1>1 DEF ConnectFails, Disconnect, Lose, Numbered
  <2>2. CASE Wake \/ Returns
    BY <2>2, <1>1 DEF Wake, Returns, PhasesOK, Numbered
  <2>3. CASE SendFails
    BY <2>3, <1>1 DEF SendFails, PhasesOK, Numbered, app
  <2>4. CASE Cancel \/ DropReceiver
    BY <2>4, <1>1 DEF Cancel, DropReceiver, PhasesOK, Numbered, wire
  <2>5. CASE Crash \/ UNCHANGED vars
    BY <2>5, <1>1 DEF Crash, vars, wire, PhasesOK, Numbered
  <2> QED
    BY <2>1, <2>2, <2>3, <2>4, <2>5
<1>7. Piped' = Piped \/ (Piped' = {} /\ DOMAIN chan' = {})
  BY <1>5 DEF Piped
<1>8. CursorsOK'
  BY <1>1, <1>2, <1>3, <1>6, <1>7 DEF CursorsOK, Numbered
<1>9. PhasesOK'
  BY <1>1, <1>2, <1>5, <1>6 DEF PhasesOK, Numbered
<1>10. ChanOK'
  BY <1>2, <1>4, <1>5 DEF ChanOK, StreamerInv
<1>11. receiver' /\ phase' # "down" => receiver /\ Piped' = Piped /\ hand' = hand /\ Held' = Held
  BY <1>2, <1>5, <1>6 DEF Piped, Held, Numbered
<1>12. HandOK'
  <2>1. hand' # 0 => phase' = "stream"
    BY DEF TypeOK
  <2> QED
    BY <1>2, <1>4, <1>6, <1>11, <2>1 DEF HandOK, StreamerInv
<1>13. StreamOK'
  BY <1>2, <1>4, <1>6, <1>11 DEF StreamOK, StreamerInv
<1>14. ResumeOK'
  <2>1. ASSUME NEW j \in Wanted, receiver', phase' # "down", log[j].time <= tracker - Rewind
        PROVE  j \in Held
    <3>1. CASE tried
      BY <2>1, <3>1, <1>6, <1>11 DEF StreamerInv, ResumeOK
    <3>2. CASE ~tried
      <4>1. log[j].time <= tracker
        BY <2>1, <1>1 DEF Numbered
      <4> QED
        BY <2>1, <3>2, <4>1 DEF StreamerInv, ResumeOK, Held
    <3> QED
      BY <3>1, <3>2
  <2> QED
    BY <1>2, <1>4, <1>6, <1>11, <2>1 DEF ResumeOK, StreamerInv
<1> QED
  BY <1>3, <1>8, <1>9, <1>10, <1>12, <1>13, <1>14 DEF StreamerInv
(* A frame moves the watermark; what an overlap behind it is out of reach  *)
(* of the next connection came before the frame.                           *)
LEMMA InvReceive ==
  ASSUME StreamerInv, TypeOK', Receive
  PROVE  StreamerInv'
<1>1. TypeOK /\ Numbered /\ Stamped /\ CursorsOK /\ PhasesOK
  BY Numbers DEF StreamerInv
<1>2. /\ UNCHANGED <<log, pin, config, phase, tried, skipped, chan, receiver, saved, got, lost>>
      /\ phase = "stream" /\ hand = 0 /\ tried
  BY <1>1 DEF Receive, app, PhasesOK
<1>3. /\ Commits' = Commits /\ Now' = Now /\ Stamped'
      /\ \A i : TimeUs(i)' = TimeUs(i)
  BY <1>1, <1>2, SameHistory
<1>4. Wanted' = Wanted /\ Piped' = Piped
  BY <1>2, <1>3, PipedKept DEF Wanted
<1>5. PICK i \in Ahead :
        /\ \A j \in Ahead : i <= j
        /\ next' = i + 1
        /\ tracker' = tracker \/ (Kind(i) # "discarded" /\ tracker' = Greatest(tracker, TimeUs(i)))
        /\ Kind(i) = "commit" => tracker' = Greatest(tracker, TimeUs(i))
        /\ hand' = IF Kind(i) = "commit" THEN i ELSE 0
  BY DEF Receive
<1>6. /\ i \in DOMAIN log /\ i \in Nat \ {0} /\ i >= next /\ i \notin skipped
      /\ log[i].time \in Nat
  BY <1>1 DEF Ahead, Numbered
<1>7. /\ tracker' \in Nat /\ tracker' >= tracker
      /\ tracker' = tracker \/ tracker' = log[i].time
      /\ Kind(i) = "commit" => TimeUs(i) <= tracker'
  <2>1. TimeUs(i) \in Nat /\ (Kind(i) # "discarded" => TimeUs(i) \in {0, log[i].time})
    BY <1>1, <1>6, StampsKept
  <2>2. tracker \in Nat
    BY <1>1 DEF Numbered
  <2> QED
    BY <1>5, <2>1, <2>2 DEF Greatest
<1>8. log[i].time \in (Base + i - Rewind)..(Base + i)
  BY <1>1, <1>6 DEF Stamped
<1>9. \A j \in Wanted : j < i \/ j \in skipped => j < next \/ j \in skipped
  BY <1>1, <1>5, <1>6 DEF Ahead, Numbered
<1>10. receiver => \A j \in Wanted : j < i \/ j \in skipped => j \in got \cup Piped
  <2>1. \A j \in Wanted : j # 0
    BY <1>1 DEF Numbered
  <2> QED
    BY <1>2, <1>9, <2>1 DEF StreamerInv, StreamOK, Held
<1>11. i \in Wanted => hand' = i
  BY <1>1, <1>5 DEF Wanted, Commits
<1>12. CursorsOK'
  <2>1. tracker' <= Now /\ (tracker' = 0 => tracker = 0) /\ (tracker' = 0 \/ tracker' > Rewind)
    <3>1. tracker <= Now /\ (tracker = 0 \/ tracker > Rewind)
      BY <1>1 DEF CursorsOK
    <3>2. /\ tracker \in Nat /\ Base \in Nat /\ Rewind \in Nat /\ Now \in Nat
          /\ Base > 2 * Rewind /\ i <= Len(log) /\ Now = Base + Len(log) /\ Len(log) \in Nat
      BY <1>1, <1>6 DEF Numbered
    <3>3. log[i].time <= Now /\ log[i].time > Rewind
      BY <1>6, <1>8, <3>2
    <3> QED
      BY <1>7, <3>1, <3>2, <3>3
  <2>2. saved <= tracker' + Rewind
    <3>1. saved <= tracker + Rewind
      BY <1>1 DEF CursorsOK
    <3>2. saved \in Nat /\ Rewind \in Nat /\ tracker \in Nat
      BY <1>1 DEF Numbered
    <3>3. tracker' \in Nat /\ tracker' >= tracker
      BY <1>7
    <3>4. \A a, b, c, d \in Nat : a <= b + c /\ d >= b => a <= d + c
      OBVIOUS
    <3> QED
      BY <3>1, <3>2, <3>3, <3>4
  <2>3. \A k \in Piped \cup {hand'} : k # 0 => TimeUs(k) <= tracker'
    <3>1. \A k \in Piped : k # 0 => TimeUs(k) <= tracker /\ TimeUs(k) \in Nat
      BY <1>1, StampsKept DEF CursorsOK, Piped, Numbered
    <3>2. \A k \in Piped : k # 0 => TimeUs(k) <= tracker'
      BY <3>1, <1>1, <1>7 DEF Numbered
    <3>3. hand' # 0 => TimeUs(hand') <= tracker'
      BY <1>5, <1>7
    <3> QED
      BY <3>2, <3>3
  <2> QED
    BY <1>1, <1>2, <1>3, <1>4, <2>1, <2>2, <2>3 DEF CursorsOK
<1>13. PhasesOK'
  BY <1>1, <1>2, <1>5, <1>6 DEF PhasesOK, Numbered
<1>14. ChanOK'
  BY <1>2, <1>4 DEF ChanOK, StreamerInv
<1>15. HandOK'
  BY <1>2, <1>4, <1>5, <1>10 DEF HandOK
<1>16. receiver => \A j \in Wanted : j < i + 1 \/ j \in skipped => j \in Held'
  BY <1>1, <1>2, <1>4, <1>6, <1>10, <1>11 DEF Held, Numbered
<1>17. StreamOK'
  <2>1. ASSUME pin = NoCursor, NEW k \in DOMAIN log \ skipped, k >= i
        PROVE  log[k].time >= tracker' - Rewind
    <3>1. /\ k \in Nat /\ k >= next /\ k # 0 /\ log[k].time \in Nat
          /\ log[k].time \in (Base + k - Rewind)..(Base + k)
      BY <1>1, <1>6, <2>1 DEF Numbered, Stamped
    <3>2. log[k].time >= tracker - Rewind
      BY <1>2, <2>1, <3>1 DEF StreamerInv, StreamOK
    <3>3. Base \in Nat /\ Rewind \in Nat /\ tracker \in Nat
      BY <1>1 DEF Numbered
    <3> QED
      BY <1>6, <1>7, <1>8, <2>1, <3>1, <3>2, <3>3
  <2>2. ASSUME pin = NoCursor, NEW k \in (DOMAIN log \ skipped) \cup {hand'}, k # 0,
               k >= i + 1 \/ k = hand'
        PROVE  k \in DOMAIN log \ skipped /\ k >= i
    BY <1>1, <1>5, <1>6, <2>2 DEF Numbered
  <2> QED
    BY <1>2, <1>4, <1>5, <1>16, <2>1, <2>2 DEF StreamOK
<1>18. ResumeOK'
  <2>1. ASSUME receiver, NEW j \in Wanted, log[j].time <= tracker' - Rewind
        PROVE  j \in Held'
    <3>1. CASE tracker' = tracker
      <4>1. j \in Held /\ j # 0
        BY <1>1, <1>2, <2>1, <3>1 DEF StreamerInv, ResumeOK, Numbered
      <4> QED
        BY <1>2, <1>4, <4>1 DEF Held
    <3>2. CASE tracker' = log[i].time
      <4>1. j \in DOMAIN log
        BY <1>1 DEF Numbered
      <4>2. j <= i
        BY <1>1, <1>6, <2>1, <3>2, <4>1, Behind
      <4>3. j < i + 1
        BY <1>1, <1>6, <4>1, <4>2 DEF Numbered
      <4> QED
        BY <1>16, <2>1, <4>3
    <3> QED
      BY <1>7, <3>1, <3>2
  <2> QED
    BY <1>2, <1>4, <2>1 DEF ResumeOK, StreamerInv
<1> QED
  BY <1>3, <1>12, <1>13, <1>14, <1>15, <1>17, <1>18 DEF StreamerInv

(* The commit being sent goes behind the ones in the channel.              *)
LEMMA InvSend ==
  ASSUME StreamerInv, TypeOK', Send
  PROVE  StreamerInv'
<1>1. TypeOK /\ Numbered /\ Stamped /\ CursorsOK /\ PhasesOK
  BY Numbers DEF StreamerInv
<1>2. /\ UNCHANGED <<log, pin, config, phase, tried, next, skipped, tracker, receiver,
                     saved, got, lost>>
      /\ hand # 0 /\ receiver /\ hand' = 0
  BY DEF Send
<1>3. /\ Commits' = Commits /\ Now' = Now /\ Stamped'
      /\ \A i : TimeUs(i)' = TimeUs(i)
  BY <1>1, <1>2, SameHistory
<1>4. Wanted' = Wanted
  BY <1>2, <1>3 DEF Wanted
<1>5. PICK n \in Nat : n = Len(chan) + 1
  BY <1>1 DEF Numbered
<1>6. /\ DOMAIN chan' = 1..n /\ chan'[n] = hand
      /\ \A k \in DOMAIN chan : chan'[k] = chan[k]
  <2>1. chan \in Seq(Commits)
    BY <1>1 DEF TypeOK
  <2> QED
    BY <1>5, <2>1 DEF Send
<1>7. DOMAIN chan = 1..(n - 1) /\ DOMAIN chan' = DOMAIN chan \cup {n}
  BY <1>1, <1>5, <1>6 DEF Numbered
<1>8. Piped' = Piped \cup {hand}
  BY <1>6, <1>7 DEF Piped
<1>9. Held \subseteq Held'
  BY <1>2, <1>8 DEF Held
<1>10. CursorsOK'
  BY <1>1, <1>2, <1>3, <1>8 DEF CursorsOK
<1>11. PhasesOK'
  BY <1>1, <1>2 DEF PhasesOK
<1>12. ChanOK'
  <2>1. ASSUME NEW j \in Wanted, j < hand
        PROVE  j \in got \/ \E m \in 1..(n - 1) : chan'[m] = j
    BY <1>2, <1>6, <1>7, <2>1 DEF StreamerInv, HandOK, Piped
  <2>2. ASSUME NEW k \in DOMAIN chan, NEW j \in Wanted, j < chan[k]
        PROVE  j \in got \/ \E m \in 1..(k - 1) : chan'[m] = j
    <3>1. 1..(k - 1) \subseteq DOMAIN chan
      BY <1>5, <1>7
    <3> QED
      BY <1>6, <2>2, <3>1 DEF StreamerInv, ChanOK
  <2> QED
    BY <1>2, <1>4, <1>6, <1>7, <2>1, <2>2 DEF ChanOK
<1>13. HandOK'
  BY <1>2 DEF HandOK
<1>14. StreamOK'
  BY <1>1, <1>2, <1>4, <1>9 DEF StreamOK, StreamerInv, Numbered
<1>15. ResumeOK'
  BY <1>2, <1>4, <1>9 DEF ResumeOK, StreamerInv
<1> QED
  BY <1>3, <1>10, <1>11, <1>12, <1>13, <1>14, <1>15 DEF StreamerInv
(* What the application has had when it keeps a time is the history up to  *)
(* the commit it keeps the time of.                                        *)
LEMMA InvTake ==
  ASSUME StreamerInv, TypeOK', Take
  PROVE  StreamerInv'
<1>1. TypeOK /\ Numbered /\ Stamped /\ CursorsOK /\ PhasesOK
  BY Numbers DEF StreamerInv
<1>2. UNCHANGED <<log, pin, config, phase, tried, next, skipped, hand, tracker, receiver, lost>>
  BY DEF Take, wire
<1>3. /\ Commits' = Commits /\ Now' = Now /\ Stamped'
      /\ \A i : TimeUs(i)' = TimeUs(i)
  BY <1>1, <1>2, SameHistory
<1>4. Wanted' = Wanted
  BY <1>2, <1>3 DEF Wanted
<1>5. PICK h \in Commits :
        /\ 1 \in DOMAIN chan /\ chan[1] = h /\ got' = got \cup {h}
        /\ saved' = Greatest(saved, TimeUs(h))
        /\ Len(chan') = Len(chan) - 1 /\ DOMAIN chan' = 1..(Len(chan) - 1)
        /\ \A k \in DOMAIN chan' : chan'[k] = chan[k + 1]
  <2>1. chan \in Seq(Commits) /\ chan # <<>>
    BY <1>1 DEF Take, TypeOK
  <2>2. /\ 1 \in DOMAIN chan /\ Head(chan) = chan[1] /\ Head(chan) \in Commits
        /\ Len(Tail(chan)) = Len(chan) - 1 /\ DOMAIN Tail(chan) = 1..(Len(chan) - 1)
        /\ \A k \in DOMAIN Tail(chan) : Tail(chan)[k] = chan[k + 1]
    BY <2>1
  <2> QED
    BY <2>2 DEF Take
<1>6. /\ h \in DOMAIN log /\ h # 0 /\ TimeUs(h) \in {0, log[h].time}
      /\ TimeUs(h) <= tracker /\ log[h].time \in Nat
  <2>1. h \in Piped
    BY <1>5 DEF Piped
  <2> QED
    BY <1>1, <2>1, CommitTimes DEF Numbered, CursorsOK
<1>7. Piped = Piped' \cup {h}
  <2>1. \A k \in DOMAIN chan : k = 1 \/ (k - 1 \in DOMAIN chan' /\ (k - 1) + 1 = k)
    BY <1>1, <1>5 DEF Numbered
  <2>2. \A k \in DOMAIN chan' : k + 1 \in DOMAIN chan
    BY <1>1, <1>5 DEF Numbered
  <2>3. \A i \in Piped : i = h \/ i \in Piped'
    BY <1>5, <2>1 DEF Piped
  <2>4. \A i \in Piped' : i \in Piped
    BY <1>5, <2>2 DEF Piped
  <2>5. h \in Piped
    BY <1>5 DEF Piped
  <2> QED
    BY <2>3, <2>4, <2>5
<1>8. got' \cup Piped' = got \cup Piped /\ Held' = Held
  BY <1>2, <1>5, <1>7 DEF Held
<1>9. receiver
  BY <1>1 DEF Take, PhasesOK
<1>10. saved' \in Nat /\ saved' >= saved /\ (saved' = saved \/ saved' = log[h].time)
       /\ (saved' = saved \/ saved' <= tracker)
  BY <1>1, <1>5, <1>6 DEF Greatest, Numbered
<1>11. CursorsOK'
  <2>1. saved' <= Now /\ saved' <= tracker + Rewind
    <3>1. saved <= Now /\ saved <= tracker + Rewind /\ tracker <= Now
      BY <1>1 DEF CursorsOK
    <3>2. tracker \in Nat /\ Now \in Nat /\ Rewind \in Nat
      BY <1>1 DEF Numbered
    <3> QED
      BY <1>10, <3>1, <3>2
  <2>2. saved' = 0 => saved = 0
    BY <1>1, <1>10 DEF Numbered
  <2> QED
    BY <1>1, <1>2, <1>3, <1>7, <2>1, <2>2 DEF CursorsOK
<1>12. PhasesOK'
  BY <1>1, <1>2, <1>9 DEF PhasesOK
<1>13. \A j \in Wanted : j < h => j \in got
  BY <1>5 DEF StreamerInv, ChanOK
<1>14. ChanOK'
  <2>1. SUFFICES ASSUME NEW k \in DOMAIN chan', NEW j \in Wanted, j < chan'[k], j \notin got'
                 PROVE  \E m \in 1..(k - 1) : chan'[m] = j
    BY <1>4 DEF ChanOK
  <2>2. k \in Nat /\ k + 1 \in DOMAIN chan /\ chan'[k] = chan[k + 1]
    BY <1>1, <1>5 DEF Numbered
  <2>3. PICK m \in 1..k : chan[m] = j
    <3>1. j \in got \/ \E m \in 1..((k + 1) - 1) : chan[m] = j
      BY <2>1, <2>2 DEF StreamerInv, ChanOK
    <3> QED
      BY <2>1, <2>2, <3>1, <1>5
  <2>4. m # 1
    BY <1>5, <2>1, <2>3
  <2>5. m - 1 \in 1..(k - 1) /\ m - 1 \in DOMAIN chan' /\ (m - 1) + 1 = m
    BY <1>1, <1>5, <2>2, <2>3, <2>4 DEF Numbered
  <2>6. chan'[m - 1] = j
    BY <1>5, <2>3, <2>5
  <2> QED
    BY <2>5, <2>6
<1>15. HandOK'
  BY <1>2, <1>4, <1>8 DEF HandOK, StreamerInv
<1>16. StreamOK'
  BY <1>2, <1>4, <1>8 DEF StreamOK, StreamerInv
<1>17. ResumeOK'
  <2>1. ASSUME NEW j \in Wanted, log[j].time <= saved' - Rewind PROVE j \in got'
    <3>1. CASE saved' = saved
      BY <1>5, <2>1, <3>1 DEF StreamerInv, ResumeOK
    <3>2. CASE saved' = log[h].time
      <4>1. j \in DOMAIN log /\ j \in Nat /\ h \in Nat
        BY <1>1 DEF Numbered
      <4>2. j <= h
        BY <1>1, <1>6, <2>1, <3>2, <4>1, Behind
      <4> QED
        BY <1>5, <1>13, <4>1, <4>2
    <3> QED
      BY <1>10, <3>1, <3>2
  <2>2. got \subseteq got'
    BY <1>5
  <2> QED
    BY <1>2, <1>4, <1>8, <2>1, <2>2 DEF ResumeOK, StreamerInv
<1> QED
  BY <1>3, <1>11, <1>12, <1>14, <1>15, <1>16, <1>17 DEF StreamerInv

(* A streamer resumes an overlap behind the time kept, or where the        *)
(* server's history begins.                                                *)
LEMMA InvRestart ==
  ASSUME StreamerInv, TypeOK', Restart
  PROVE  StreamerInv'
<1>1. TypeOK /\ Numbered /\ Stamped /\ CursorsOK /\ PhasesOK
  BY Numbers DEF StreamerInv
<1>2. /\ UNCHANGED <<log, pin, saved, got>>
      /\ phase' = "connect" /\ tried' = FALSE /\ next' = 1 /\ hand' = 0 /\ chan' = <<>>
  BY DEF Restart
<1>3. /\ Commits' = Commits /\ Now' = Now /\ Stamped'
      /\ \A i : TimeUs(i)' = TimeUs(i)
  BY <1>1, <1>2, SameHistory
<1>4. lost \subseteq lost' /\ Wanted' \subseteq Wanted
  BY <1>3 DEF Restart, Wanted
<1>5. DOMAIN chan' = {} /\ Piped' = {}
  BY <1>2 DEF Piped
<1>6. /\ saved <= Now /\ saved \in Nat /\ Now \in Nat /\ Now >= Base
      /\ Rewind \in Nat /\ Retention \in Nat /\ Rewind <= Retention
      /\ Base \in Nat /\ Base > 2 * Rewind + Retention
  BY <1>1 DEF CursorsOK, Numbered
<1>7. CASE saved = 0
  <2>1. config' = config /\ tracker' = IF config = NoCursor THEN 0 ELSE config
    BY <1>7 DEF Restart
  <2>2. config = NoCursor \/ config \in (Rewind + 1)..(Base - Rewind)
    BY <1>1, <1>7 DEF CursorsOK
  <2>3. \/ tracker' = 0 /\ config' = NoCursor
        \/ tracker' \in (Rewind + 1)..(Base - Rewind)
    BY <2>1, <2>2
  <2>4. PICK t \in Nat : tracker' = t /\ t <= Base - Rewind /\ (t = 0 \/ t > Rewind)
    BY <2>3, <1>6
  <2>5. CursorsOK'
    <3>1. pin \in (1..(Base - Rewind)) \cup {NoCursor}
      BY <1>1 DEF CursorsOK
    <3>2. t <= Now /\ t <= Now - Rewind /\ saved <= t + Rewind
      BY <1>6, <1>7, <2>4
    <3>3. \A i \in Piped' \cup {hand'} : i = 0
      BY <1>2, <1>5
    <3>4. t = 0 => config' = NoCursor
      BY <1>6, <2>3, <2>4
    <3> QED
      BY <1>2, <1>3, <1>6, <2>1, <2>2, <2>4, <3>1, <3>2, <3>3, <3>4 DEF CursorsOK
  <2>6. \A j \in Wanted : ~ log[j].time <= t
    <3> SUFFICES ASSUME NEW j \in Wanted PROVE log[j].time > t
      BY <2>4, <1>1 DEF Numbered
    <3>1. j \in Nat \ {0} /\ log[j].time \in (Base + j - Rewind)..(Base + j)
      BY <1>1 DEF Stamped, Numbered
    <3> QED
      BY <1>6, <2>4, <3>1
  <2> QED
    BY <1>2, <1>3, <1>4, <1>5, <1>6, <2>4, <2>5, <2>6, <1>1
    DEF StreamerInv, PhasesOK, ChanOK, HandOK, StreamOK, ResumeOK, Numbered
<1>8. CASE saved # 0
  <2>1. /\ ResumeCursor(saved) \in Nat /\ ResumeCursor(saved) > Rewind
        /\ ResumeCursor(saved) = Greatest(saved - Rewind, Now - Retention)
    BY <1>1, <1>8, ResumeCursorType
  <2>2. tracker' = ResumeCursor(saved)
    <3>1. ResumeCursor(saved) # NoCursor
      BY <2>1, <1>1 DEF Numbered
    <3> QED
      BY <1>8, <3>1 DEF Restart
  <2>3. PICK t \in Nat : t = tracker' /\ t = Greatest(saved - Rewind, Now - Retention)
    BY <2>1, <2>2
  <2>4. CursorsOK'
    <3>1. pin \in (1..(Base - Rewind)) \cup {NoCursor}
      BY <1>1 DEF CursorsOK
    <3>2. t > Rewind
      BY <2>1, <2>2, <2>3
    <3>3. t <= Now /\ t <= Now - Rewind /\ saved <= t + Rewind /\ t # 0
      BY <1>6, <2>3, <3>2 DEF Greatest
    <3>4. \A i \in Piped' \cup {hand'} : i = 0
      BY <1>2, <1>5
    <3> QED
      BY <1>2, <1>3, <1>6, <1>8, <2>3, <3>1, <3>2, <3>3, <3>4 DEF CursorsOK
  <2>5. ASSUME NEW j \in Wanted', log[j].time <= t PROVE j \in got
    <3>1. CASE saved - Rewind < Now - Retention
      <4>1. t = Now - Retention
        BY <2>3, <3>1, <1>6 DEF Greatest
      <4>2. j \in DOMAIN log /\ log[j].time <= Now - Retention
        BY <1>1, <1>4, <2>5, <4>1 DEF Numbered
      <4>3. j \in lost'
        BY <1>8, <3>1, <4>2 DEF Restart
      <4> QED
        BY <4>3, <2>5 DEF Wanted
    <3>2. CASE saved - Rewind >= Now - Retention
      <4>1. t = saved - Rewind
        BY <2>3, <3>2, <1>6 DEF Greatest
      <4> QED
        BY <1>4, <2>5, <4>1 DEF StreamerInv, ResumeOK
    <3> QED
      BY <1>6, <3>1, <3>2
  <2> QED
    BY <1>2, <1>3, <1>4, <1>5, <1>6, <2>3, <2>4, <2>5, <1>1
    DEF StreamerInv, PhasesOK, ChanOK, HandOK, StreamOK, ResumeOK, Numbered
<1> QED
  BY <1>7, <1>8

LEMMA InvStep == StreamerInv /\ [Next]_vars => StreamerInv'
<1> SUFFICES ASSUME StreamerInv, [Next]_vars PROVE StreamerInv'
  OBVIOUS
<1>1. TypeOK'
  BY TypeStep DEF StreamerInv
<1>2. CASE \E sent \in Sent : Emit(sent)
  BY <1>1, <1>2, InvEmit
<1>3. CASE Connect
  BY <1>1, <1>3, InvConnect
<1>4. CASE Receive
  BY <1>1, <1>4, InvReceive
<1>5. CASE Send
  BY <1>1, <1>5, InvSend
<1>6. CASE Take
  BY <1>1, <1>6, InvTake
<1>7. CASE Restart
  BY <1>1, <1>7, InvRestart
<1>8. CASE ConnectFails \/ Disconnect \/ Wake \/ SendFails \/ Returns
           \/ Cancel \/ DropReceiver \/ Crash \/ UNCHANGED vars
  BY <1>1, <1>8, InvQuiet
<1> QED
  BY <1>2, <1>3, <1>4, <1>5, <1>6, <1>7, <1>8 DEF Next, Streamer

LEMMA InvAlways == Spec => []StreamerInv
BY InvInit, InvStep, PTL DEF Spec

-----------------------------------------------------------------------------
(* For any overlap, retention, channel and number of failures, a commit    *)
(* handed over again is at most two overlaps behind the newest one the     *)
(* application has had (resolve_resume_cursor and the rewound cursor of a  *)
(* reconnection).                                                          *)
THEOREM StreamerReplayBounded == Spec => []ReplayBounded
<1>1. StreamerInv => ReplayBounded
  <2> SUFFICES ASSUME StreamerInv, hand \in got, pin = NoCursor
               PROVE  log[hand].time >= saved - 2 * Rewind
    BY DEF ReplayBounded
  <2>1. Numbered /\ CursorsOK /\ StreamOK
    BY Numbers DEF StreamerInv
  <2>2. hand # 0 /\ hand \in DOMAIN log /\ phase = "stream"
    BY <2>1 DEF Numbered
  <2>3. log[hand].time >= tracker - Rewind
    BY <2>1, <2>2 DEF StreamOK
  <2>4. saved <= tracker + Rewind
    BY <2>1 DEF CursorsOK
  <2>5. tracker \in Nat /\ Rewind \in Nat /\ saved \in Nat /\ log[hand].time \in Nat
    BY <2>1, <2>2 DEF Numbered
  <2> QED
    BY <2>3, <2>4, <2>5
<1> QED
  BY <1>1, InvAlways, PTL

-----------------------------------------------------------------------------
(* Each step is one of the feed, or none.                                  *)
LEMMA FeedStep == StreamerInv /\ [Next]_vars => [Feed!FeedNext]_(Feed!feedVars)
<1> SUFFICES ASSUME StreamerInv, [Next]_vars PROVE [Feed!FeedNext]_(Feed!feedVars)
  OBVIOUS
<1>1. TypeOK /\ Numbered /\ Stamped /\ CursorsOK /\ PhasesOK
  BY Numbers DEF StreamerInv
<1>2. log' = log => Commits' = Commits
  BY SameHistory
<1>3. ASSUME NEW sent \in Sent, Emit(sent) PROVE Feed!EmitNext
  <2>1. UNCHANGED <<got, lost, receiver>>
    BY <1>3 DEF Emit, app
  <2>2. log \in Seq(Entry)
    BY <1>1 DEF TypeOK
  <2>3. PICK n \in Nat : n = Len(log) + 1
    BY <1>1 DEF Numbered
  <2>4. DOMAIN log' = 1..n /\ \A i \in DOMAIN log : log'[i] = log[i]
    BY <1>3, <2>2, <2>3 DEF Emit
  <2>5. Commits \subseteq Commits' /\ Commits' \subseteq Commits \cup {n}
    BY <1>1, <2>3, <2>4 DEF Commits, Kind, Numbered
  <2>6. n \notin lost /\ \A j \in Commits : j < n
    BY <1>1, <2>3 DEF Numbered
  <2>7. Commits' \cap lost' = Commits \cap lost
    BY <2>1, <2>5, <2>6
  <2> QED
    BY <2>1, <2>3, <2>5, <2>6, <2>7 DEF Feed!EmitNext
<1>4. CASE Connect
  <2>1. UNCHANGED <<log, got, receiver>> /\ lost \subseteq lost'
    BY <1>1, <1>4 DEF Connect, app, Numbered
  <2> QED
    BY <1>2, <2>1 DEF Feed!FeedNext, Feed!Lost, Feed!Lose
<1>5. CASE Restart
  <2>1. UNCHANGED <<log, got>> /\ lost \subseteq lost' /\ receiver' = TRUE
    BY <1>5 DEF Restart
  <2> QED
    BY <1>2, <2>1 DEF Feed!FeedNext, Feed!Resume, Feed!Lose
<1>6. CASE DropReceiver
  <2>1. UNCHANGED <<log, got, lost>> /\ receiver' = FALSE
    BY <1>6 DEF DropReceiver
  <2> QED
    BY <1>2, <2>1 DEF Feed!FeedNext, Feed!Stop
<1>7. CASE Take
  <2>1. UNCHANGED <<log, lost, receiver>> /\ receiver
    BY <1>1, <1>7 DEF Take, wire, PhasesOK
  <2>2. PICK h \in Commits : 1 \in DOMAIN chan /\ chan[1] = h /\ got' = got \cup {h}
    <3>1. chan \in Seq(Commits) /\ chan # <<>>
      BY <1>1, <1>7 DEF Take, TypeOK
    <3>2. 1 \in DOMAIN chan /\ Head(chan) = chan[1] /\ Head(chan) \in Commits
      BY <3>1
    <3> QED
      BY <1>7, <3>2 DEF Take
  <2>3. \A j \in Wanted : j < h => j \in got
    BY <2>2 DEF StreamerInv, ChanOK
  <2>4. Feed!NoGapBefore(h)
    BY <2>3 DEF Feed!NoGapBefore, Wanted
  <2>5. CASE h \in got
    BY <1>2, <2>1, <2>2, <2>5 DEF Feed!feedVars
  <2>6. CASE h \notin got
    <3>1. Feed!HandOver(h)
      BY <1>2, <2>1, <2>2, <2>4, <2>6 DEF Feed!HandOver
    <3>2. Feed!Deliver \/ Feed!DeliverLate
      BY <2>2, <3>1 DEF Feed!Deliver, Feed!DeliverLate
    <3> QED
      BY <3>2 DEF Feed!FeedNext
  <2> QED
    BY <2>5, <2>6
<1>8. CASE ConnectFails \/ Disconnect \/ Wake \/ Receive \/ Send \/ SendFails \/ Returns
           \/ Cancel \/ Crash \/ UNCHANGED vars
  <2>1. UNCHANGED <<log, got, lost, receiver>>
    BY <1>8 DEF ConnectFails, Disconnect, Lose, Wake, Receive, Send, SendFails, Returns,
                Cancel, Crash, vars, wire, app
  <2> QED
    BY <1>2, <2>1 DEF Feed!feedVars
<1>9. (\E sent \in Sent : Emit(sent)) => Feed!FeedNext
  BY <1>3 DEF Feed!FeedNext
<1> QED
  BY <1>4, <1>5, <1>6, <1>7, <1>8, <1>9 DEF Next, Streamer

(* For any overlap, retention, channel and number of failures, every step  *)
(* of the streamer, the server and the application is one of the feed      *)
(* without gaps or none of its steps: what run_jetstream_streamer hands    *)
(* over leaves no hole.                                                    *)
THEOREM StreamerIsFeed == Spec => Feed!FeedInit /\ [][Feed!FeedNext]_(Feed!feedVars)
<1>1. Init => Feed!FeedInit
  BY DEF Init, Feed!FeedInit, Commits
<1> QED
  BY <1>1, FeedStep, InvAlways, PTL DEF Spec

-----------------------------------------------------------------------------
(* The powers of two exist and are positive, which takes an induction over *)
(* the failures: the first place where it went wrong is led to its         *)
(* contradiction.                                                          *)
LEMMA FirstFailing ==
  ASSUME NEW bound \in Nat, NEW bad \in SUBSET (0..bound), bad # {}, 0 \notin bad
  PROVE  \E n \in 1..bound : n \in bad /\ n - 1 \in 0..bound /\ n - 1 \notin bad
<1>1. PICK n \in bad : \A m \in bad : <<m, n>> \notin OpToRel(<, Nat)
  <2>1. bad \subseteq Nat
    OBVIOUS
  <2> QED BY <2>1, NatLessThanWellFounded, WFMin
<1>2. n \in 1..bound
  OBVIOUS
<1>3. n - 1 \in Nat /\ n \in Nat /\ n - 1 < n /\ n - 1 \in 0..bound
  BY <1>2
<1>4. <<n - 1, n>> \in OpToRel(<, Nat)
  BY <1>3 DEF OpToRel
<1> QED BY <1>1, <1>2, <1>3, <1>4

Doubling(f, n) == f[0] = 1 /\ \A k \in 1..n : f[k] = 2 * f[k - 1]

LEMMA DoublingExists ==
  ASSUME NEW w \in Nat
  PROVE  \E f \in [0..w -> Nat \ {0}] : Doubling(f, w)
<1> DEFINE Up(n) == \E f \in [0..n -> Nat \ {0}] : Doubling(f, n)
           bad == {n \in 0..w : ~Up(n)}
<1>1. Up(0)
  <2> DEFINE f == [k \in 0..0 |-> 1]
  <2>1. f \in [0..0 -> Nat \ {0}] /\ f[0] = 1 /\ 1..0 = {}
    OBVIOUS
  <2> HIDE DEF f
  <2> QED BY <2>1 DEF Doubling
<1>2. ASSUME NEW n \in 1..w, Up(n - 1)
      PROVE  Up(n)
  <2>1. PICK f \in [0..(n - 1) -> Nat \ {0}] : Doubling(f, n - 1)
    BY <1>2
  <2> DEFINE g == [k \in 0..n |-> IF k = n THEN 2 * f[n - 1] ELSE f[k]]
  <2>2. n - 1 \in 0..(n - 1) /\ n \in 0..n /\ n \in Nat /\ n # 0
    OBVIOUS
  <2>3. \A k \in 0..(n - 1) : k \in 0..n /\ k # n
    OBVIOUS
  <2>4. g[n] = 2 * f[n - 1] /\ \A k \in 0..(n - 1) : g[k] = f[k]
    BY <2>2, <2>3
  <2>5. f[n - 1] \in Nat \ {0} /\ 2 * f[n - 1] \in Nat \ {0}
    BY <2>2
  <2>6. \A k \in 0..n : k = n \/ k \in 0..(n - 1)
    OBVIOUS
  <2>7. g \in [0..n -> Nat \ {0}]
    BY <2>5, <2>6
  <2> HIDE DEF g
  <2>8. 0 \in 0..(n - 1) /\ g[0] = 1
    BY <2>1, <2>2, <2>4 DEF Doubling
  <2>9. ASSUME NEW k \in 1..n
        PROVE  g[k] = 2 * g[k - 1]
    <3>1. CASE k = n
      BY <2>2, <2>4, <3>1
    <3>2. CASE k # n
      <4>1. k - 1 \in 0..(n - 1) /\ k \in 0..(n - 1) /\ k \in 1..(n - 1)
        BY <3>2
      <4> QED BY <2>1, <2>4, <4>1 DEF Doubling
    <3> QED BY <3>1, <3>2
  <2> QED BY <2>7, <2>8, <2>9 DEF Doubling
<1> HIDE DEF Up
<1>3. bad = {}
  <2> SUFFICES ASSUME bad # {} PROVE FALSE
    OBVIOUS
  <2>1. bad \in SUBSET (0..w) /\ 0 \notin bad
    BY <1>1
  <2>2. PICK n \in 1..w : n \in bad /\ n - 1 \in 0..w /\ n - 1 \notin bad
    <3> HIDE DEF bad
    <3> QED BY <2>1, FirstFailing
  <2> QED BY <1>2, <2>2
<1>4. w \in 0..w
  OBVIOUS
<1>5. Up(w)
  BY <1>3, <1>4
<1> QED BY <1>5 DEF Up

LEMMA PowersOfTwo ==
  /\ TwoTo \in [0..MaxDrops -> Nat \ {0}]
  /\ TwoTo[0] = 1 /\ \A n \in 1..MaxDrops : TwoTo[n] = 2 * TwoTo[n - 1]
<1>1. MaxDrops \in Nat
  BY StreamerAssumption
<1>2. PICK f \in [0..MaxDrops -> Nat \ {0}] : Doubling(f, MaxDrops)
  BY <1>1, DoublingExists
<1>3. \A n \in 0..MaxDrops : n = 0 \/ n \in 1..MaxDrops
  BY <1>1
<1>4. f = [n \in 0..MaxDrops |-> f[n]]
  OBVIOUS
<1>5. \A n \in 0..MaxDrops : f[n] = IF n = 0 THEN 1 ELSE 2 * f[n - 1]
  BY <1>2, <1>3 DEF Doubling
<1>6. f = [n \in 0..MaxDrops |-> IF n = 0 THEN 1 ELSE 2 * f[n - 1]]
  BY <1>4, <1>5
<1>7. TwoTo = [n \in 0..MaxDrops |-> IF n = 0 THEN 1 ELSE 2 * TwoTo[n - 1]]
  BY <1>6 DEF TwoTo
<1>8. \A n \in 0..MaxDrops : TwoTo[n] = IF n = 0 THEN 1 ELSE 2 * TwoTo[n - 1]
  BY <1>7
<1>9. 0 \in 0..MaxDrops /\ \A n \in 1..MaxDrops : n \in 0..MaxDrops /\ n # 0
  BY <1>1
<1>10. TwoTo[0] = 1 /\ \A n \in 1..MaxDrops : TwoTo[n] = 2 * TwoTo[n - 1]
  BY <1>8, <1>9
<1> DEFINE bad == {n \in 0..MaxDrops : TwoTo[n] \notin Nat \ {0}}
<1>11. bad = {}
  <2> SUFFICES ASSUME bad # {} PROVE FALSE
    OBVIOUS
  <2>1. bad \in SUBSET (0..MaxDrops) /\ 0 \notin bad
    BY <1>10
  <2>2. PICK n \in 1..MaxDrops : n \in bad /\ n - 1 \in 0..MaxDrops /\ n - 1 \notin bad
    <3> HIDE DEF bad
    <3> QED BY <1>1, <2>1, FirstFailing
  <2>3. TwoTo[n - 1] \in Nat \ {0} /\ TwoTo[n] = 2 * TwoTo[n - 1]
    BY <1>10, <2>2
  <2> QED BY <2>2, <2>3
<1>12. TwoTo \in [0..MaxDrops -> Nat \ {0}]
  BY <1>7, <1>11
<1> QED BY <1>10, <1>12

(* The state of the backoff is a function of the failures since the last   *)
(* frame that parsed; the delay slept was taken one failure earlier.       *)
First == Greatest(Initial, Floor)
Most  == Greatest(Cap, First)

Grown(b, n) ==
  b.initial = First /\ b.max = Most /\ b.delay = Least(First * TwoTo[n], Most)

BackoffInv ==
  /\ barren \in Nat /\ drops \in 0..MaxDrops /\ barren <= drops
  /\ Grown(backoff, barren)
  /\ pause # 0 => barren # 0
  /\ DelayFits

LEMMA Times == \A a, b, c \in Nat : b <= c => a * b \in Nat /\ a * c \in Nat /\ a * b <= a * c
<1> TAKE a, b, c \in Nat
<1> HAVE b <= c
<1>1. c - b \in Nat /\ c = b + (c - b)
  OBVIOUS
<1>2. a * (c - b) \in Nat /\ a * b \in Nat /\ a * c \in Nat
  BY <1>1
<1>3. a * c = a * b + a * (c - b)
  BY <1>1
<1> QED BY <1>2, <1>3

LEMMA JitterAround ==
  ASSUME NEW base \in Nat, base >= Floor, NEW offset \in Drawn
  PROVE  /\ Jittered(base, offset) \in Nat /\ Jittered(base, offset) >= Floor
         /\ 100 * Jittered(base, offset) \in (100 - Jitter) * base..(100 + Jitter) * base
<1>1. Floor \in Nat \ {0} /\ Jitter \in 0..100 /\ offset \in (-Jitter)..Jitter
  BY BackoffAssumption DEF Jitter, Least
<1> HIDE DEF Jitter
<1> DEFINE by == IF offset >= 0 THEN offset ELSE -offset
           q  == (base * by) \div 100
<1>2. by \in Nat /\ by <= Jitter /\ Jitter \in Nat
  BY <1>1
<1>3. base * by \in Nat /\ base * Jitter \in Nat /\ base * by <= base * Jitter
  BY <1>2, Times
<1>4. Jittered(base, offset) = Greatest(Floor, IF offset >= 0 THEN base + q ELSE base - q)
  BY <1>1 DEF Jittered
<1> HIDE DEF by
<1>5. q \in Nat /\ 100 * q <= base * by
  BY <1>3
<1> HIDE DEF q
<1>6. /\ (100 - Jitter) * base = 100 * base - base * Jitter
      /\ (100 + Jitter) * base = 100 * base + base * Jitter
  BY <1>1
<1>7. 100 * q <= base * Jitter
  BY <1>3, <1>5
<1>8. ASSUME NEW x \in Int, x = base + q \/ x = base - q
      PROVE  /\ Greatest(Floor, x) \in Nat /\ Greatest(Floor, x) >= Floor
             /\ 100 * Greatest(Floor, x) \in (100 * base - base * Jitter)..(100 * base + base * Jitter)
  BY <1>1, <1>3, <1>5, <1>7, <1>8 DEF Greatest
<1>9. base + q \in Int /\ base - q \in Int
  BY <1>5
<1> QED BY <1>4, <1>6, <1>8, <1>9

LEMMA BackoffStep == TypeOK /\ BackoffInv /\ [Next]_vars => BackoffInv'
<1> SUFFICES ASSUME TypeOK, BackoffInv, [Next]_vars PROVE BackoffInv'
  OBVIOUS
<1>1. /\ First \in Nat /\ Most \in Nat /\ First >= Floor /\ Most >= First
      /\ Floor \in Nat \ {0} /\ MaxDrops \in Nat
  BY StreamerAssumption, BackoffAssumption DEF First, Most, Greatest
<1>2. First * TwoTo[0] = First
  BY <1>1, PowersOfTwo
<1>3. Grown(NewBackoff(Initial, Cap), 0)
  BY <1>1, <1>2 DEF NewBackoff, First, Most, Least, Grown
<1>4. /\ barren \in Nat /\ drops \in 0..MaxDrops /\ barren <= drops
      /\ Grown(backoff, barren)
      /\ pause # 0 => barren # 0
      /\ DelayFits
  BY DEF BackoffInv
<1>5. DelayFits = (pause # 0 => 
        /\ pause >= Floor
        /\ 100 * pause \in (100 - Jitter) * Least(First * TwoTo[barren - 1], Most)
                          ..(100 + Jitter) * Least(First * TwoTo[barren - 1], Most))
  BY DEF DelayFits, First, Most
<1> HIDE DEF First, Most
<1>6. ASSUME pause' = pause \/ pause' = 0, UNCHANGED <<barren, backoff, drops>>
      PROVE  BackoffInv'
  BY <1>4, <1>6 DEF BackoffInv, DelayFits
<1>7. ASSUME pause' = 0, barren' = 0, drops' = drops, Grown(backoff', 0)
      PROVE  BackoffInv'
  BY <1>4, <1>7 DEF BackoffInv, DelayFits
<1>8. CASE ConnectFails \/ Disconnect
  <2>1. Lose
    BY <1>8 DEF ConnectFails, Disconnect
  <2>2. drops < MaxDrops /\ barren \in 0..MaxDrops /\ barren + 1 \in 1..MaxDrops
    BY <1>1, <1>4, <2>1 DEF Lose
  <2> DEFINE power == First * TwoTo[barren]
             base  == Least(power, Most)
  <2>3. /\ TwoTo[barren] \in Nat \ {0} /\ TwoTo[barren + 1] = 2 * TwoTo[barren]
        /\ barren + 1 - 1 = barren
    BY <2>2, PowersOfTwo
  <2>4. power \in Nat /\ power >= First /\ First * TwoTo[barren + 1] = 2 * power
    <3>1. First * 1 <= First * TwoTo[barren] /\ First * TwoTo[barren] \in Nat
      BY <1>1, <2>3, Times
    <3> QED BY <1>1, <2>3, <3>1
  <2> HIDE DEF power
  <2>5. base \in Nat /\ base >= Floor /\ Least(2 * base, Most) = Least(2 * power, Most)
    BY <1>1, <2>4 DEF Least
  <2>6. backoff.delay = base /\ backoff.max = Most /\ backoff.initial = First
    BY <1>4 DEF power, Grown
  <2> HIDE DEF base
  <2>7. backoff'.initial = First /\ backoff'.max = Most /\ backoff'.delay = Least(2 * power, Most)
    BY <2>1, <2>5, <2>6 DEF Lose, AfterFailure, TypeOK
  <2>8. PICK offset \in Drawn : pause' = Jittered(base, offset)
    BY <2>1, <2>6 DEF Lose, Delays
  <2>9. pause' >= Floor /\ 100 * pause' \in (100 - Jitter) * base..(100 + Jitter) * base
    BY <2>5, <2>8, JitterAround
  <2>10. barren' = barren + 1 /\ drops' = drops + 1
    BY <2>1 DEF Lose
  <2>11. /\ barren' \in Nat /\ drops' \in 0..MaxDrops /\ barren' <= drops' /\ barren' # 0
         /\ barren' - 1 = barren
    BY <1>1, <1>4, <2>2, <2>10
  <2>12. DelayFits'
    BY <2>9, <2>11 DEF DelayFits, First, Most, base, power
  <2>13. Grown(backoff, barren)'
    BY <2>4, <2>7, <2>10 DEF Grown, First, Most
  <2> QED BY <2>11, <2>12, <2>13 DEF BackoffInv, First, Most
<1>9. CASE Receive
  <2>1. PICK i \in Ahead :
          IF Kind(i) = "discarded" THEN UNCHANGED <<tracker, backoff, barren>>
          ELSE backoff' = Reset(backoff) /\ barren' = 0
    BY <1>9 DEF Receive
  <2>2. drops' = drops /\ pause' = pause /\ pause = 0
    BY <1>9 DEF Receive, TypeOK, bounded
  <2>3. Grown(Reset(backoff), 0)
    <3>1. Least(First * TwoTo[0], Most) = First
      BY <1>1, <1>2 DEF Least
    <3> QED BY <1>4, <3>1 DEF Reset, Grown, TypeOK
  <2> QED BY <1>6, <1>7, <2>1, <2>2, <2>3
<1>10. CASE Restart
  BY <1>3, <1>7, <1>10 DEF Restart
<1>11. CASE \E sent \in Sent : Emit(sent)
  BY <1>6, <1>11 DEF Emit, bounded
<1>12. CASE Connect \/ Wake \/ Send \/ SendFails \/ Returns
  BY <1>6, <1>12 DEF Connect, Wake, Send, SendFails, Returns, bounded
<1>13. CASE Take \/ Cancel \/ DropReceiver \/ Crash
  BY <1>6, <1>13 DEF Take, Cancel, DropReceiver, Crash, bounded
<1>14. CASE UNCHANGED vars
  BY <1>6, <1>14 DEF vars, bounded
<1> QED
  BY <1>8, <1>9, <1>10, <1>11, <1>12, <1>13, <1>14 DEF Next, Streamer

LEMMA BackoffInit == Init => BackoffInv
<1> SUFFICES ASSUME Init PROVE BackoffInv
  OBVIOUS
<1>1. /\ First \in Nat /\ Most \in Nat /\ First >= Floor /\ Most >= First /\ MaxDrops \in Nat
  BY StreamerAssumption, BackoffAssumption DEF First, Most, Greatest
<1>2. First * TwoTo[0] = First
  BY <1>1, PowersOfTwo
<1>3. Grown(NewBackoff(Initial, Cap), 0)
  BY <1>1, <1>2 DEF NewBackoff, First, Most, Least, Grown
<1>4. pause = 0 /\ barren = 0 /\ drops = 0 /\ backoff = NewBackoff(Initial, Cap)
  BY DEF Init
<1> HIDE DEF First, Most
<1> QED BY <1>1, <1>3, <1>4 DEF BackoffInv, DelayFits

(* The delay slept is the initial one doubled for each connection lost     *)
(* since a frame last parsed, up to the cap, give or take the jitter, and  *)
(* never below the floor.                                                  *)
THEOREM StreamerDelayFits == Spec => []DelayFits
<1>1. BackoffInv => DelayFits
  BY DEF BackoffInv
<1> QED BY <1>1, BackoffInit, BackoffStep, TypeInit, TypeStep, PTL DEF Spec
=============================================================================
