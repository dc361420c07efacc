---------------------- MODULE JetstreamConsumer_proofs ----------------------
(***************************************************************************)
(* What holds of JetstreamConsumer for any history, channel, batch size,   *)
(* configured cursor and number of failures: no commit behind one of the   *)
(* two cursors is lost unseen, the store meets the commits in their order  *)
(* and replays change nothing, and a clean stop flushes.                   *)
(***************************************************************************)
EXTENDS JetstreamConsumer, SequenceTheorems, WellFoundedInduction, TLAPS

Alive     == worker \notin {"closing", "done", "down"}
Advancing == worker \in {"advance", "drainAdvance", "flushAdvance"}

(* The commits somebody still has to settle.                               *)
Open == {i \in Commits : tail < i} \ (Settled \cup dropped)
Held == Range(buf) \cup Range(chan) \cup {hand}

ConsumerTypes ==
  /\ log \in Seq(Event) /\ batch \in Nat \ {0}
  /\ reader \in ReaderStates /\ next \in Nat /\ hand \in {0} \cup Commits
  /\ chan \in Seq(Commits) /\ buf \in Seq(Commits)
  /\ worker \in WorkerStates /\ cancelled \in BOOLEAN
  /\ mem \in Nat /\ disk \in {0} \cup Commits /\ tail \in Nat

(* What the worker has in its hands in each of its states.                 *)
BufOK ==
  /\ worker \in {"wait", "closing", "done"} => buf = <<>>
  /\ worker = "drain" /\ Single => buf = <<>>
  /\ Applying \/ Advancing => buf # <<>> /\ (Single => Len(buf) = 1)
  /\ Advancing => Range(buf) \subseteq Settled

(* Entries yet to come are after both the watermark and the connection, or *)
(* before the configured cursor; a connection in the making asks for what  *)
(* the watermark was.                                                      *)
CursorsOK ==
  /\ mem <= Len(log) \/ mem <= tail
  /\ next <= Len(log) + 1 \/ next <= tail + 1
  /\ InitialCursor <= mem /\ InitialCursor <= tail
  /\ tail <= Len(log) \/ tail = InitialCursor
  /\ reader = "dial" => InitialCursor <= next /\ next <= mem
  /\ reader = "stream" => next # 0

(* No hole in what is on its way to the store, and nothing behind the      *)
(* connection or the watermark that is not on its way.                     *)
BufOrder ==
  \A k \in DOMAIN buf : \A j \in Open :
    j < buf[k] => \E m \in 1..(k - 1) : buf[m] = j
ChanOrder ==
  \A k \in DOMAIN chan : \A j \in Open :
    j < chan[k] => j \in Range(buf) \/ \E m \in 1..(k - 1) : chan[m] = j
HandOrder   == hand # 0 => \A j \in Open : j < hand => j \in Range(buf) \cup Range(chan)
StreamOrder == reader = "stream" => \A j \in Open : j < next => j \in Held
MarkOrder   == \A j \in Open : j <= mem => j \in Held

OrderOK == Alive => BufOrder /\ ChanOrder /\ HandOrder /\ StreamOrder /\ MarkOrder

CheckpointOK == \A j \in Open : j > disk

(* Where the commits are that the worker's side had at the stop.           *)
StopOK ==
  /\ worker \in {"drain", "drainApply", "drainAdvance", "flush", "flushAdvance", "closing"}
       => cancelled
  /\ worker = "done" => chan = <<>>
  /\ worker \in {"closing", "done"} => atStop \subseteq Settled
  /\ worker \in {"flush", "flushAdvance"} => atStop \subseteq Settled \cup Range(buf)
  /\ Alive => atStop \subseteq Settled \cup Range(buf) \cup Range(chan)

ConsumerInv ==
  ConsumerTypes /\ BufOK /\ CursorsOK /\ OrderOK /\ CheckpointOK /\ StopOK

-----------------------------------------------------------------------------
(* Sequences.                                                              *)
LEMMA RangeMembers ==
  ASSUME NEW S, NEW s \in Seq(S)
  PROVE  /\ Len(s) \in Nat /\ DOMAIN s = 1..Len(s) /\ Range(s) \subseteq S
         /\ \A k \in 1..Len(s) : s[k] \in S /\ s[k] \in Range(s)
         /\ \A e \in Range(s) : \E k \in 1..Len(s) : s[k] = e
BY DEF Range

LEMMA RangeEmpty == Range(<<>>) = {}
BY DEF Range

LEMMA RangeAppend ==
  ASSUME NEW S, NEW s \in Seq(S), NEW e \in S
  PROVE  /\ Append(s, e) \in Seq(S) /\ Len(Append(s, e)) = Len(s) + 1
         /\ \A k \in 1..Len(s) : Append(s, e)[k] = s[k]
         /\ Append(s, e)[Len(s) + 1] = e
         /\ Range(Append(s, e)) = Range(s) \cup {e}
<1> DEFINE t == Append(s, e)
<1>1. /\ t \in Seq(S) /\ Len(t) = Len(s) + 1
      /\ \A k \in 1..Len(s) : t[k] = s[k]
      /\ t[Len(s) + 1] = e
  BY AppendProperties
<1> HIDE DEF t
<1>2. Len(s) \in Nat
  OBVIOUS
<1>3. \A x \in Range(t) : x \in Range(s) \cup {e}
  <2> TAKE x \in Range(t)
  <2>1. PICK k \in 1..Len(t) : t[k] = x
    BY <1>1, RangeMembers
  <2>2. k \in 1..Len(s) \/ k = Len(s) + 1
    BY <1>1, <1>2
  <2> QED
    BY <1>1, <2>1, <2>2, RangeMembers
<1>4. \A x \in Range(s) : x \in Range(t)
  <2> TAKE x \in Range(s)
  <2>1. PICK k \in 1..Len(s) : s[k] = x
    BY RangeMembers
  <2>2. k \in 1..Len(t) /\ t[k] = x
    BY <1>1, <1>2, <2>1
  <2> QED
    BY <1>1, <2>2, RangeMembers
<1>5. e \in Range(t)
  <2>1. Len(s) + 1 \in 1..Len(t)
    BY <1>1, <1>2
  <2> QED
    BY <1>1, <2>1, RangeMembers
<1> QED
  BY <1>1, <1>3, <1>4, <1>5 DEF t

(* The first n elements and the rest.                                      *)
LEMMA Split ==
  ASSUME NEW S, NEW s \in Seq(S), NEW n \in 0..Len(s)
  PROVE  LET a == SubSeq(s, 1, n)
             b == SubSeq(s, n + 1, Len(s))
         IN
         /\ a \in Seq(S) /\ Len(a) = n /\ \A k \in 1..n : a[k] = s[k]
         /\ b \in Seq(S) /\ Len(b) = Len(s) - n
         /\ \A k \in 1..(Len(s) - n) : b[k] = s[k + n]
         /\ Range(s) = Range(a) \cup Range(b)
<1> DEFINE a == SubSeq(s, 1, n)
           b == SubSeq(s, n + 1, Len(s))
<1>1. Len(s) \in Nat /\ n \in Nat /\ n <= Len(s) /\ \A k \in 1..Len(s) : s[k] \in S
  OBVIOUS
<1>2. a \in Seq(S) /\ Len(a) = n /\ \A k \in 1..n : a[k] = s[k]
  <2>1. \A k \in 1..n : s[k] \in S
    BY <1>1
  <2>2. /\ a \in Seq(S) /\ Len(a) = IF 1 <= n THEN n - 1 + 1 ELSE 0
        /\ \A k \in 1..(n - 1 + 1) : a[k] = s[1 + k - 1]
    BY <1>1, <2>1, SubSeqProperties
  <2> QED
    BY <1>1, <2>2
<1>3. b \in Seq(S) /\ Len(b) = Len(s) - n /\ \A k \in 1..(Len(s) - n) : b[k] = s[k + n]
  <2>1. \A k \in (n + 1)..Len(s) : s[k] \in S
    BY <1>1
  <2>2. /\ b \in Seq(S) /\ Len(b) = IF n + 1 <= Len(s) THEN Len(s) - (n + 1) + 1 ELSE 0
        /\ \A k \in 1..(Len(s) - (n + 1) + 1) : b[k] = s[(n + 1) + k - 1]
    BY <1>1, <2>1, SubSeqProperties
  <2> QED
    BY <1>1, <2>2
<1> HIDE DEF a, b
<1>4. \A x \in Range(s) : x \in Range(a) \cup Range(b)
  <2> TAKE x \in Range(s)
  <2>1. PICK k \in 1..Len(s) : s[k] = x
    BY RangeMembers
  <2>2. CASE k <= n
    <3>1. k \in 1..Len(a) /\ a[k] = x
      BY <1>1, <1>2, <2>1, <2>2
    <3>2. \A i \in 1..Len(a) : a[i] \in Range(a)
      BY <1>2, RangeMembers
    <3> QED
      BY <3>1, <3>2
  <2>3. CASE k > n
    <3>1. k - n \in 1..Len(b)
      BY <1>1, <1>3, <2>1, <2>3
    <3>2. b[k - n] = s[(k - n) + n]
      BY <1>3, <3>1
    <3>3. (k - n) + n = k
      BY <1>1
    <3>4. b[k - n] = x
      BY <2>1, <3>2, <3>3
    <3>5. \A i \in DOMAIN b : b[i] \in Range(b)
      BY DEF Range
    <3>6. DOMAIN b = 1..Len(b)
      BY <1>3
    <3> QED
      BY <3>1, <3>4, <3>5, <3>6
  <2> QED
    BY <1>1, <2>1, <2>2, <2>3
<1>5. \A x \in Range(a) : x \in Range(s)
  <2> TAKE x \in Range(a)
  <2>1. PICK k \in 1..Len(a) : a[k] = x
    BY <1>2, RangeMembers
  <2>2. k \in 1..Len(s) /\ s[k] = x
    BY <1>1, <1>2, <2>1
  <2> QED
    BY <2>2, RangeMembers
<1>6. \A x \in Range(b) : x \in Range(s)
  <2> TAKE x \in Range(b)
  <2>1. PICK k \in 1..Len(b) : b[k] = x
    BY <1>3, RangeMembers
  <2>2. k + n \in 1..Len(s) /\ s[k + n] = x
    BY <1>1, <1>3, <2>1
  <2> QED
    BY <2>2, RangeMembers
<1> QED
  BY <1>2, <1>3, <1>4, <1>5, <1>6 DEF a, b

(* A set of numbers that has a bound and is not empty has a largest one.   *)
LEMMA LeastNumber ==
  ASSUME NEW T, T \subseteq Nat, T # {}
  PROVE  \E x \in T : \A y \in T : x <= y
<1>1. PICK x \in T : \A y \in T : ~ (<<y, x>> \in OpToRel(<, Nat))
  BY NatLessThanWellFounded, WFMin
<1>2. \A y \in T : ~ (y < x)
  <2> TAKE y \in T
  <2>1. <<y, x>> \notin OpToRel(<, Nat)
    BY <1>1
  <2> QED
    BY <2>1 DEF OpToRel
<1> QED
  BY <1>2

LEMMA Largest ==
  ASSUME NEW bound \in Nat, NEW T \in SUBSET (0..bound), T # {}
  PROVE  \E x \in T : \A y \in T : x >= y
<1> DEFINE U == {n \in Nat : \A y \in T : y <= n}
<1>1. PICK x \in U : \A n \in U : x <= n
  <2>1. bound \in U
    OBVIOUS
  <2> QED BY <2>1, LeastNumber
<1>2. x \in T
  <2> SUFFICES ASSUME x \notin T PROVE FALSE
    OBVIOUS
  <2>1. \A y \in T : y \in Nat /\ y <= x /\ y # x
    BY <1>1
  <2>2. x # 0
    <3>1. PICK y \in T : TRUE
      OBVIOUS
    <3>2. y \in Nat /\ y <= x /\ y # x
      BY <2>1
    <3> QED BY <1>1, <3>2
  <2>3. x - 1 \in U
    BY <1>1, <2>1, <2>2
  <2> QED BY <1>1, <2>3
<1> QED BY <1>1, <1>2

LEMMA NewestOf ==
  ASSUME NEW S, S \subseteq Nat, NEW bound \in Nat, \A e \in S : e <= bound,
         NEW s \in Seq(S), s # <<>>
  PROVE  Newest(s) \in Range(s) /\ \A e \in Range(s) : Newest(s) >= e
<1>1. /\ Range(s) \subseteq Nat /\ Range(s) # {}
      /\ \A e \in Range(s) : e <= bound
  <2>1. 1 \in 1..Len(s)
    OBVIOUS
  <2> QED
    BY <2>1, RangeMembers
<1> DEFINE T == {n \in Nat : \A e \in Range(s) : e <= n}
<1>2. PICK x \in T : \A y \in T : x <= y
  <2>1. bound \in T
    BY <1>1
  <2> QED
    BY <2>1, LeastNumber
<1>3. x \in Range(s)
  <2> SUFFICES ASSUME x \notin Range(s) PROVE FALSE
    OBVIOUS
  <2>1. x \in Nat /\ \A e \in Range(s) : e \in Nat /\ e <= x /\ e # x
    BY <1>1
  <2>2. x - 1 \in Nat /\ \A e \in Range(s) : e <= x - 1
    BY <1>1, <2>1
  <2>3. x - 1 \in T
    BY <2>2
  <2> QED
    BY <1>2, <2>1, <2>3
<1>4. \E i \in Range(s) : \A j \in Range(s) : i >= j
  BY <1>1, <1>3
<1> QED
  BY <1>4 DEF Newest

-----------------------------------------------------------------------------
(* The initial states and the steps.                                       *)
LEMMA CommitNumbers ==
  ASSUME ConsumerTypes
  PROVE  /\ Len(log) \in Nat /\ DOMAIN log = 1..Len(log)
         /\ Commits \subseteq 1..Len(log) /\ Commits \subseteq Nat /\ 0 \notin Commits
         /\ Open \subseteq Commits
BY DEF ConsumerTypes, Commits, Open

(* What is settled and what is open depends on few variables.              *)
LEMMA Unsettled ==
  ASSUME UNCHANGED <<log, tail, dropped, handled, refused>>
  PROVE  Commits' = Commits /\ Settled' = Settled /\ Open' = Open
BY DEF Commits, Wanted, Settled, Open

LEMMA InitInv == ASSUME Init PROVE ConsumerInv
<1> USE RangeEmpty DEF Init
<1>1. Len(log) = 0 /\ log \in Seq(Event) /\ Commits = {} /\ Open = {}
  BY DEF Commits, Open
<1>2. InitialCursor \in Nat
  BY ConsumerAssumption DEF InitialCursor
<1>3. ConsumerTypes
  <2>1. batch \in Nat \ {0}
    BY ConsumerAssumption
  <2>2. chan \in Seq(Commits) /\ buf \in Seq(Commits)
    OBVIOUS
  <2>3. reader \in ReaderStates /\ worker \in WorkerStates /\ cancelled \in BOOLEAN
    BY DEF ReaderStates, WorkerStates
  <2>4. next \in Nat \ {0} /\ hand = 0 /\ disk = 0 /\ mem \in Nat /\ tail \in Nat
    BY <1>2
  <2> QED
    BY <1>1, <2>1, <2>2, <2>3, <2>4 DEF ConsumerTypes
<1>4. BufOK
  BY DEF BufOK, Applying, Advancing
<1>5. CursorsOK
  BY <1>1, <1>2 DEF CursorsOK
<1>6. OrderOK
  BY <1>1 DEF OrderOK, BufOrder, ChanOrder, HandOrder, StreamOrder, MarkOrder
<1>7. CheckpointOK /\ StopOK
  BY <1>1 DEF CheckpointOK, StopOK, Alive
<1> QED
  BY <1>3, <1>4, <1>5, <1>6, <1>7 DEF ConsumerInv

LEMMA EmitStep ==
  ASSUME ConsumerInv, NEW e \in Event, Emit(e)
  PROVE  ConsumerInv'
<1> DEFINE n == Len(log) + 1
<1> USE DEF ConsumerInv
<1>1. /\ UNCHANGED <<batch, reader, next, hand, chan, worker, buf, mem, disk, cancelled,
                     handled, refused, tail, atStop, dropped>>
      /\ log' = Append(log, e)
  BY DEF Emit, readerVars, workerVars, storeVars
<1>2. /\ log' \in Seq(Event) /\ Len(log') = n
      /\ \A k \in 1..Len(log) : log'[k] = log[k]
  BY <1>1 DEF ConsumerTypes
<1>3. Commits \subseteq Commits' /\ Commits' \subseteq Commits \cup {n}
  <2>1. DOMAIN log = 1..Len(log) /\ DOMAIN log' = 1..n /\ Len(log) \in Nat
    BY <1>2 DEF ConsumerTypes
  <2> QED
    BY <1>2, <2>1 DEF Commits, Wanted
<1>4. ConsumerTypes'
  <2>1. chan \in Seq(Commits') /\ buf \in Seq(Commits')
    BY <1>3 DEF ConsumerTypes
  <2> QED
    BY <1>1, <1>2, <1>3, <2>1 DEF ConsumerTypes
<1>5. \A j \in Open' : j \in Open \/ (j = n /\ n > tail)
  BY <1>1, <1>3 DEF Open, Settled
<1>6. n \in Nat /\ Commits \subseteq Nat /\ \A j \in Commits : j < n
  <2>1. Len(log) \in Nat /\ Commits \subseteq 1..Len(log)
    BY CommitNumbers
  <2> QED
    BY <2>1
<1>7. BufOK' /\ StopOK'
  BY <1>1 DEF BufOK, Single, Applying, Advancing, StopOK, Alive, Settled
<1>8. CursorsOK'
  BY <1>1, <1>2, <1>6 DEF CursorsOK, ConsumerTypes, InitialCursor
<1>9. CheckpointOK'
  <2>1. disk < n
    BY <1>6 DEF ConsumerTypes
  <2> QED
    BY <1>1, <1>5, <1>6, <2>1 DEF CheckpointOK
<1>10. OrderOK'
  <2> SUFFICES ASSUME Alive
               PROVE  (BufOrder /\ ChanOrder /\ HandOrder /\ StreamOrder /\ MarkOrder)'
    BY <1>1 DEF OrderOK, Alive
  <2>1. Held' = Held
    BY <1>1 DEF Held
  <2>2. ~(n < hand) /\ (\A k \in DOMAIN buf : ~(n < buf[k]))
                    /\ \A k \in DOMAIN chan : ~(n < chan[k])
    <3>1. \A k \in DOMAIN buf : buf[k] \in Commits
      BY DEF ConsumerTypes
    <3>2. \A k \in DOMAIN chan : chan[k] \in Commits
      BY DEF ConsumerTypes
    <3>3. hand = 0 \/ hand \in Commits
      BY DEF ConsumerTypes
    <3>4. \A c \in Commits : ~(n < c)
      BY <1>6
    <3>5. ~(n < 0)
      BY <1>6
    <3> HIDE DEF n
    <3>6. ~(n < hand)
      BY <3>3, <3>4, <3>5
    <3> QED
      BY <3>1, <3>2, <3>4, <3>6
  <2>3. BufOrder' /\ ChanOrder' /\ HandOrder'
    BY <1>1, <1>5, <2>2 DEF OrderOK, BufOrder, ChanOrder, HandOrder
  <2>4. n > tail => ~(n < next) /\ ~(n <= mem)
    BY <1>6 DEF CursorsOK, ConsumerTypes
  <2>5. StreamOrder' /\ MarkOrder'
    BY <1>1, <1>5, <2>1, <2>4 DEF OrderOK, StreamOrder, MarkOrder
  <2> QED
    BY <2>3, <2>5
<1> QED
  BY <1>4, <1>7, <1>8, <1>9, <1>10

LEMMA DialStep == ASSUME ConsumerInv, Dial PROVE ConsumerInv'
<1> USE DEF ConsumerInv
<1>1. /\ UNCHANGED <<log, batch, hand, chan, worker, buf, mem, disk, cancelled,
                     handled, refused, tail, atStop, dropped>>
      /\ reader' = "dial" /\ next' = mem
  BY DEF Dial, environment, workerVars, storeVars
<1>2. Commits' = Commits /\ Settled' = Settled /\ Open' = Open /\ Len(log) \in Nat
  BY <1>1, Unsettled, CommitNumbers
<1>3. ConsumerTypes'
  BY <1>1, <1>2 DEF ConsumerTypes, ReaderStates
<1>4. BufOK' /\ StopOK' /\ CheckpointOK'
  BY <1>1, <1>2 DEF BufOK, Single, Applying, Advancing, StopOK, Alive, CheckpointOK
<1>5. CursorsOK'
  <2>1. mem \in Nat /\ tail \in Nat /\ InitialCursor' = InitialCursor
    BY DEF ConsumerTypes, InitialCursor
  <2> QED
    BY <1>1, <1>2, <2>1 DEF CursorsOK
<1>6. OrderOK'
  BY <1>1, <1>2
  DEF OrderOK, Alive, BufOrder, ChanOrder, HandOrder, StreamOrder, MarkOrder, Held
<1> QED
  BY <1>3, <1>4, <1>5, <1>6

LEMMA ConnectStep == ASSUME ConsumerInv, Connect PROVE ConsumerInv'
<1> USE DEF ConsumerInv
<1>1. /\ UNCHANGED <<log, batch, hand, chan, worker, buf, mem, disk, cancelled,
                     handled, refused, atStop, dropped>>
      /\ reader = "dial" /\ reader' = "stream"
      /\ \/ next = 0 /\ next' = Len(log) + 1 /\ tail' = Len(log)
         \/ next # 0 /\ next' \in {next, next + 1} /\ tail' = tail
  BY DEF Connect, environment, workerVars, storeVars
<1>2. /\ Len(log) \in Nat /\ Commits \subseteq 1..Len(log) /\ mem \in Nat /\ tail \in Nat
      /\ next \in Nat /\ next' \in Nat /\ tail' \in Nat /\ next <= mem
  BY <1>1, CommitNumbers DEF ConsumerTypes, CursorsOK
<1>3. Commits' = Commits
  BY <1>1 DEF Commits, Wanted
<1>4. next = 0 => Open' = {}
  <2>1. \A i \in Commits : ~(Len(log) < i)
    BY <1>2
  <2> QED
    BY <1>1, <1>3, <2>1 DEF Open
<1>5. next # 0 => Open' = Open
  BY <1>1, <1>3 DEF Open, Settled
<1>6. ConsumerTypes'
  BY <1>1, <1>2, <1>3 DEF ConsumerTypes, ReaderStates
<1>7. BufOK' /\ StopOK'
  BY <1>1 DEF BufOK, Single, Applying, Advancing, StopOK, Alive, Settled
<1>8. CursorsOK'
  <2>1. InitialCursor \in Nat /\ InitialCursor' = InitialCursor
    BY ConsumerAssumption DEF InitialCursor
  <2>2. mem' = mem /\ Len(log') = Len(log) /\ InitialCursor <= mem /\ reader' # "dial"
        /\ (mem <= Len(log) \/ mem <= tail) /\ InitialCursor <= tail
        /\ (tail <= Len(log) \/ tail = InitialCursor)
    BY <1>1 DEF CursorsOK
  <2>3. CASE next = 0
    <3>1. next' = Len(log) + 1 /\ tail' = Len(log)
      BY <1>1, <2>3
    <3>2. InitialCursor = 0
      BY <1>1, <1>2, <2>1, <2>3 DEF CursorsOK
    <3>3. tail <= Len(log)
      BY <1>2, <3>2 DEF CursorsOK
    <3>4. mem <= Len(log)
      BY <1>2, <2>2, <3>3
    <3> QED
      BY <1>2, <2>1, <2>2, <3>1, <3>2, <3>4 DEF CursorsOK
  <2>4. CASE next # 0
    <3>1. PICK t \in Nat : t = next' /\ t <= mem + 1
      BY <1>1, <1>2, <2>4
    <3>2. t <= Len(log) + 1 \/ t <= tail + 1
      BY <1>2, <2>2, <3>1
    <3>3. next' # 0
      BY <1>1, <1>2, <2>4
    <3> QED
      BY <1>1, <2>1, <2>2, <2>4, <3>1, <3>2, <3>3 DEF CursorsOK
  <2> QED
    BY <2>3, <2>4
<1>9. CheckpointOK'
  BY <1>1, <1>4, <1>5 DEF CheckpointOK
<1>10. OrderOK'
  <2>1. CASE next = 0
    BY <1>4, <2>1 DEF OrderOK, BufOrder, ChanOrder, HandOrder, StreamOrder, MarkOrder
  <2>2. CASE next # 0
    <3> SUFFICES ASSUME Alive
                 PROVE  (BufOrder /\ ChanOrder /\ HandOrder /\ StreamOrder /\ MarkOrder)'
      BY <1>1 DEF OrderOK, Alive
    <3>1. Open' = Open /\ Held' = Held
      BY <1>1, <1>5, <2>2 DEF Held
    <3>2. (BufOrder /\ ChanOrder /\ HandOrder /\ MarkOrder)'
      BY <1>1, <3>1 DEF OrderOK, BufOrder, ChanOrder, HandOrder, MarkOrder
    <3>3. \A j \in Nat : j < next' => j <= mem
      BY <1>1, <1>2, <2>2
    <3>4. StreamOrder'
      BY <1>2, <3>1, <3>3, CommitNumbers DEF OrderOK, MarkOrder, StreamOrder
    <3> QED
      BY <3>2, <3>4
  <2> QED
    BY <2>1, <2>2
<1> QED
  BY <1>6, <1>7, <1>8, <1>9, <1>10

(* A connection that ends takes nothing with it.                           *)
LEMMA ReaderLeaves ==
  ASSUME ConsumerInv, Disconnect \/ ReaderStops \/ SendFails
  PROVE  ConsumerInv'
<1> USE DEF ConsumerInv
<1>1. /\ UNCHANGED <<log, batch, chan, worker, buf, mem, disk, cancelled,
                     handled, refused, tail, atStop, dropped>>
      /\ reader' \in {"connect", "done"} /\ next' = 1 /\ hand' = 0
      /\ hand = 0 \/ worker = "done"
  BY DEF Disconnect, ReaderStops, SendFails, environment, workerVars, storeVars
<1>2. Commits' = Commits /\ Settled' = Settled /\ Open' = Open /\ Len(log) \in Nat
  BY <1>1, Unsettled, CommitNumbers
<1>3. ConsumerTypes'
  BY <1>1, <1>2 DEF ConsumerTypes, ReaderStates
<1>4. BufOK' /\ StopOK'
  BY <1>1, <1>2 DEF BufOK, Single, Applying, Advancing, StopOK, Alive
<1>5. CursorsOK' /\ CheckpointOK'
  BY <1>1, <1>2 DEF CursorsOK, CheckpointOK, InitialCursor
<1>6. OrderOK'
  <2> SUFFICES ASSUME Alive
               PROVE  (BufOrder /\ ChanOrder /\ HandOrder /\ StreamOrder /\ MarkOrder)'
    BY <1>1 DEF OrderOK, Alive
  <2>1. hand = 0 /\ Held' = Held
    BY <1>1 DEF Alive, Held
  <2> QED
    BY <1>1, <1>2, <2>1 DEF OrderOK, BufOrder, ChanOrder, HandOrder, StreamOrder, MarkOrder
<1> QED
  BY <1>3, <1>4, <1>5, <1>6

LEMMA ReceiveStep == ASSUME ConsumerInv, Receive PROVE ConsumerInv'
<1> USE DEF ConsumerInv
<1>1. /\ UNCHANGED <<log, batch, reader, chan, worker, buf, disk, cancelled,
                     handled, refused, tail, atStop, dropped>>
      /\ reader = "stream" /\ hand = 0 /\ next <= Len(log) /\ next' = next + 1
      /\ \/ Wanted(next) /\ hand' = next /\ mem' = mem
         \/ ~Wanted(next) /\ mem' = Later(mem, next) /\ hand' = hand
  BY DEF Receive, environment, workerVars, storeVars
<1>2. Commits' = Commits /\ Settled' = Settled /\ Open' = Open
  BY <1>1, Unsettled
<1>3. /\ Len(log) \in Nat /\ next \in 1..Len(log) /\ mem \in Nat /\ tail \in Nat
      /\ Open \subseteq Nat /\ Open \subseteq Commits /\ 0 \notin Commits
      /\ Wanted(next) <=> next \in Commits
  <2>1. /\ Len(log) \in Nat /\ DOMAIN log = 1..Len(log)
        /\ Commits \subseteq Nat /\ 0 \notin Commits /\ Open \subseteq Commits
    BY CommitNumbers
  <2> QED
    BY <1>1, <2>1 DEF ConsumerTypes, CursorsOK, Commits
<1>4. mem' \in Nat /\ mem <= mem' /\ (mem' = mem \/ mem' = next)
  BY <1>1, <1>3 DEF Later
<1>5. ConsumerTypes'
  BY <1>1, <1>2, <1>3, <1>4 DEF ConsumerTypes
<1>6. BufOK' /\ StopOK' /\ CheckpointOK'
  BY <1>1, <1>2 DEF BufOK, Single, Applying, Advancing, StopOK, Alive, CheckpointOK
<1>7. CursorsOK'
  <2>1. InitialCursor \in Nat /\ InitialCursor' = InitialCursor
    BY ConsumerAssumption DEF InitialCursor
  <2> QED
    BY <1>1, <1>3, <1>4, <2>1 DEF CursorsOK
<1>8. OrderOK'
  <2> SUFFICES ASSUME Alive
               PROVE  (BufOrder /\ ChanOrder /\ HandOrder /\ StreamOrder /\ MarkOrder)'
    BY <1>1 DEF OrderOK, Alive
  <2>1. BufOrder' /\ ChanOrder'
    BY <1>1, <1>2 DEF OrderOK, BufOrder, ChanOrder
  <2>2. \A j \in Open : j < next => j \in Range(buf) \cup Range(chan)
    BY <1>1, <1>3 DEF OrderOK, StreamOrder, Held
  <2>3. \A j \in Open : j <= mem => j \in Range(buf) \cup Range(chan)
    BY <1>1, <1>3 DEF OrderOK, MarkOrder, Held
  <2>4. HandOrder'
    BY <1>1, <1>2, <2>2 DEF HandOrder
  <2>5. \A j \in Open : j < next + 1 => j < next \/ j = hand'
    BY <1>1, <1>3
  <2>6. StreamOrder'
    BY <1>1, <1>2, <2>2, <2>5 DEF StreamOrder, Held
  <2>7. \A j \in Open : j <= mem' => j <= mem \/ j < next
    <3>1. \A j \in Open : j = next => mem' = mem
      BY <1>1, <1>3
    <3> QED
      BY <1>3, <1>4, <3>1
  <2>8. MarkOrder'
    BY <1>1, <1>2, <2>2, <2>3, <2>7 DEF MarkOrder, Held
  <2> QED
    BY <2>1, <2>4, <2>6, <2>8
<1> QED
  BY <1>5, <1>6, <1>7, <1>8

LEMMA SendStep == ASSUME ConsumerInv, Send PROVE ConsumerInv'
<1> USE DEF ConsumerInv
<1>1. /\ UNCHANGED <<log, batch, reader, next, worker, buf, mem, disk, cancelled,
                     handled, refused, tail, atStop, dropped>>
      /\ hand # 0 /\ worker # "done" /\ chan' = Append(chan, hand) /\ hand' = 0
  BY DEF Send, environment, workerVars, storeVars
<1>2. /\ Commits' = Commits /\ Settled' = Settled /\ Open' = Open
      /\ Open \subseteq Commits /\ 0 \notin Commits
  BY <1>1, Unsettled, CommitNumbers
<1>3. chan \in Seq(Commits) /\ hand \in Commits /\ Len(chan) \in Nat
  BY <1>1 DEF ConsumerTypes
<1>4. /\ chan' \in Seq(Commits) /\ Len(chan') = Len(chan) + 1
      /\ \A k \in 1..Len(chan) : chan'[k] = chan[k]
      /\ chan'[Len(chan) + 1] = hand
      /\ Range(chan') = Range(chan) \cup {hand}
  BY <1>1, <1>3, RangeAppend
<1>5. ConsumerTypes'
  BY <1>1, <1>2, <1>4 DEF ConsumerTypes
<1>6. BufOK' /\ StopOK' /\ CheckpointOK' /\ CursorsOK'
  BY <1>1, <1>2, <1>4 DEF BufOK, Single, Applying, Advancing, StopOK, Alive, CheckpointOK,
                          CursorsOK, InitialCursor
<1>7. OrderOK'
  <2> SUFFICES ASSUME Alive
               PROVE  (BufOrder /\ ChanOrder /\ HandOrder /\ StreamOrder /\ MarkOrder)'
    BY <1>1 DEF OrderOK, Alive
  <2>1. Held \subseteq Held'
    BY <1>1, <1>4 DEF Held
  <2>2. BufOrder' /\ HandOrder' /\ StreamOrder' /\ MarkOrder'
    BY <1>1, <1>2, <2>1 DEF OrderOK, BufOrder, HandOrder, StreamOrder, MarkOrder
  <2>3. ASSUME NEW k \in 1..(Len(chan) + 1), NEW j \in Open, j < chan'[k]
        PROVE  j \in Range(buf) \/ \E m \in 1..(k - 1) : chan'[m] = j
    <3>1. CASE k \in 1..Len(chan)
      <4>1. j < chan[k]
        BY <1>4, <2>3, <3>1
      <4>2. j \in Range(buf) \/ \E m \in 1..(k - 1) : chan[m] = j
        BY <1>3, <3>1, <4>1 DEF OrderOK, ChanOrder
      <4>3. \A m \in 1..(k - 1) : chan'[m] = chan[m]
        BY <1>3, <1>4, <3>1
      <4> QED
        BY <4>2, <4>3
    <3>2. CASE k = Len(chan) + 1
      <4>1. j \in Range(buf) \/ j \in Range(chan)
        BY <1>1, <1>4, <2>3, <3>2 DEF OrderOK, HandOrder
      <4>2. CASE j \in Range(chan)
        <5>1. PICK m \in 1..Len(chan) : chan[m] = j
          BY <1>3, <4>2, RangeMembers
        <5>2. m \in 1..(k - 1) /\ chan'[m] = j
          BY <1>3, <1>4, <3>2, <5>1
        <5> QED
          BY <5>2
      <4> QED
        BY <4>1, <4>2
    <3> QED
      BY <1>3, <3>1, <3>2
  <2>4. ChanOrder'
    <3>1. DOMAIN chan' = 1..(Len(chan) + 1)
      BY <1>4
    <3> QED
      BY <1>1, <1>2, <2>3, <3>1 DEF ChanOrder
  <2> QED
    BY <2>2, <2>4
<1> QED
  BY <1>5, <1>6, <1>7

-----------------------------------------------------------------------------
(* The worker.                                                             *)
LEMMA TakeStep == ASSUME ConsumerInv, Take PROVE ConsumerInv'
<1> USE DEF ConsumerInv
<1>1. /\ UNCHANGED <<log, batch, reader, next, hand, mem, disk, cancelled,
                     handled, refused, tail, atStop, dropped>>
      /\ worker = "wait" /\ worker' = "apply" /\ chan # <<>> /\ buf = <<>>
  BY DEF Take, BufOK, environment, readerVars, storeVars
<1>2. chan \in Seq(Commits) /\ Len(chan) \in Nat \ {0}
  BY <1>1 DEF ConsumerTypes
<1>3. PICK n \in 1..Len(chan) :
        /\ buf' = SubSeq(chan, 1, n) /\ chan' = SubSeq(chan, n + 1, Len(chan))
        /\ Single => n = 1
  <2> DEFINE n == IF batch <= Len(chan) THEN batch ELSE Len(chan)
  <2>1. n \in 1..Len(chan) /\ (Single => n = 1)
    BY <1>2 DEF ConsumerTypes, Single
  <2> QED
    BY <2>1 DEF Take
<1>4. n \in 0..Len(chan) /\ n \in Nat /\ n # 0
  BY <1>2, <1>3
<1>5. /\ buf' \in Seq(Commits) /\ Len(buf') = n /\ \A k \in 1..n : buf'[k] = chan[k]
      /\ chan' \in Seq(Commits) /\ Len(chan') = Len(chan) - n
      /\ \A k \in 1..(Len(chan) - n) : chan'[k] = chan[k + n]
      /\ Range(chan) = Range(buf') \cup Range(chan')
  BY <1>2, <1>3, <1>4, Split
<1>6. Commits' = Commits /\ Settled' = Settled /\ Open' = Open
  BY <1>1, Unsettled
<1>7. ConsumerTypes'
  BY <1>1, <1>5, <1>6 DEF ConsumerTypes, WorkerStates
<1>8. BufOK'
  <2>1. buf' # <<>> /\ (Single => Len(buf') = 1)
    BY <1>3, <1>4, <1>5
  <2> QED
    BY <1>1, <2>1 DEF BufOK, Single, Applying, Advancing
<1>9. CheckpointOK' /\ CursorsOK'
  BY <1>1, <1>6 DEF CheckpointOK, CursorsOK, InitialCursor
<1>10. Range(buf) \cup Range(chan) = Range(buf') \cup Range(chan')
  BY <1>1, <1>5, RangeEmpty
<1>11. StopOK'
  BY <1>1, <1>6, <1>10 DEF StopOK, Alive
<1>12. OrderOK'
  <2>1. Alive /\ Range(buf) = {}
    BY <1>1, RangeEmpty DEF Alive
  <2>2. \A k \in 1..Len(chan) : \A j \in Open :
          j < chan[k] => \E m \in 1..(k - 1) : chan[m] = j
    BY <1>2, <2>1 DEF OrderOK, ChanOrder
  <2>3. BufOrder'
    <3>1. SUFFICES ASSUME NEW k \in 1..n, NEW j \in Open, j < buf'[k]
                   PROVE  \E m \in 1..(k - 1) : buf'[m] = j
      <4>1. DOMAIN buf' = 1..n
        BY <1>5
      <4> QED
        BY <1>6, <4>1 DEF BufOrder
    <3>2. k \in 1..Len(chan) /\ j < chan[k]
      BY <1>4, <1>5, <3>1
    <3>3. PICK m \in 1..(k - 1) : chan[m] = j
      BY <2>2, <3>2
    <3>4. m \in 1..n
      BY <1>4
    <3> QED
      BY <1>5, <3>3, <3>4
  <2>4. ChanOrder'
    <3>1. SUFFICES ASSUME NEW k \in 1..(Len(chan) - n), NEW j \in Open, j < chan'[k]
                   PROVE  j \in Range(buf') \/ \E m \in 1..(k - 1) : chan'[m] = j
      <4>1. DOMAIN chan' = 1..(Len(chan) - n)
        BY <1>5
      <4> QED
        BY <1>6, <4>1 DEF ChanOrder
    <3>2. k + n \in 1..Len(chan) /\ j < chan[k + n]
      BY <1>2, <1>4, <1>5, <3>1
    <3>3. PICK m \in 1..(k + n - 1) : chan[m] = j
      BY <2>2, <3>2
    <3>4. CASE m <= n
      <4>1. m \in 1..Len(buf') /\ buf'[m] = j
        BY <1>4, <1>5, <3>3, <3>4
      <4>2. \A i \in 1..Len(buf') : buf'[i] \in Range(buf')
        BY <1>5, RangeMembers
      <4> QED
        BY <4>1, <4>2
    <3>5. CASE m > n
      <4>1. m - n \in 1..(k - 1) /\ m - n \in 1..(Len(chan) - n) /\ (m - n) + n = m
        BY <1>2, <1>4, <3>5
      <4>2. chan'[m - n] = chan[(m - n) + n]
        BY <1>5, <4>1
      <4> QED
        BY <3>3, <4>1, <4>2
    <3> QED
      BY <1>4, <3>4, <3>5
  <2>5. Held' = Held
    BY <1>1, <1>10 DEF Held
  <2>6. HandOrder' /\ StreamOrder' /\ MarkOrder'
    BY <1>1, <1>6, <1>10, <2>1, <2>5 DEF OrderOK, HandOrder, StreamOrder, MarkOrder
  <2> QED
    BY <2>3, <2>4, <2>6 DEF OrderOK
<1> QED
  BY <1>7, <1>8, <1>9, <1>11, <1>12

(* A sequence is its head and its tail.                                    *)
LEMMA HeadAndTail ==
  ASSUME NEW S, NEW s \in Seq(S), s # <<>>
  PROVE  /\ Head(s) \in S /\ Head(s) = s[1] /\ Len(s) \in Nat /\ 1 \in 1..Len(s)
         /\ Tail(s) \in Seq(S) /\ Len(Tail(s)) = Len(s) - 1
         /\ \A k \in 1..(Len(s) - 1) : Tail(s)[k] = s[k + 1]
         /\ Range(s) = {Head(s)} \cup Range(Tail(s))
<1> DEFINE t == Tail(s)
<1>1. /\ Head(s) \in S /\ Head(s) = s[1] /\ Len(s) \in Nat /\ 1 \in 1..Len(s)
      /\ t \in Seq(S) /\ Len(t) = Len(s) - 1
      /\ \A k \in 1..(Len(s) - 1) : t[k] = s[k + 1]
  OBVIOUS
<1> HIDE DEF t
<1>2. \A x \in Range(s) : x = s[1] \/ x \in Range(t)
  <2> TAKE x \in Range(s)
  <2>1. PICK k \in 1..Len(s) : s[k] = x
    BY RangeMembers
  <2>2. CASE k # 1
    <3>1. k - 1 \in 1..Len(t) /\ k - 1 \in 1..(Len(s) - 1) /\ (k - 1) + 1 = k
      BY <1>1, <2>2
    <3>2. t[k - 1] = x
      BY <1>1, <2>1, <3>1
    <3>3. \A i \in 1..Len(t) : t[i] \in Range(t)
      BY <1>1, RangeMembers
    <3> QED
      BY <3>1, <3>2, <3>3
  <2> QED
    BY <2>1, <2>2
<1>3. \A x \in Range(t) : x \in Range(s)
  <2> TAKE x \in Range(t)
  <2>1. PICK k \in 1..Len(t) : t[k] = x
    BY <1>1, RangeMembers
  <2>2. k + 1 \in 1..Len(s) /\ s[k + 1] = x
    BY <1>1, <2>1
  <2> QED
    BY <2>2, RangeMembers
<1>4. s[1] \in Range(s)
  BY <1>1, RangeMembers
<1> QED
  BY <1>1, <1>2, <1>3, <1>4 DEF t

LEMMA DrainStep == ASSUME ConsumerInv, DrainOne PROVE ConsumerInv'
<1> DEFINE h == Head(chan)
<1> USE DEF ConsumerInv
<1>1. /\ UNCHANGED <<log, batch, reader, next, hand, mem, disk, cancelled,
                     handled, refused, tail, atStop, dropped>>
      /\ worker = "drain" /\ worker' = (IF Single THEN "drainApply" ELSE "drain")
      /\ chan # <<>> /\ buf' = Append(buf, h) /\ chan' = Tail(chan)
      /\ Single => buf = <<>>
  BY DEF DrainOne, BufOK, environment, readerVars, storeVars
<1>2. chan \in Seq(Commits) /\ buf \in Seq(Commits) /\ Len(buf) \in Nat
  BY DEF ConsumerTypes
<1>3. /\ h \in Commits /\ h = chan[1] /\ Len(chan) \in Nat /\ 1 \in 1..Len(chan)
      /\ chan' \in Seq(Commits) /\ Len(chan') = Len(chan) - 1
      /\ \A k \in 1..(Len(chan) - 1) : chan'[k] = chan[k + 1]
      /\ Range(chan) = {h} \cup Range(chan')
  BY <1>1, <1>2, HeadAndTail
<1>4. /\ buf' \in Seq(Commits) /\ Len(buf') = Len(buf) + 1
      /\ \A k \in 1..Len(buf) : buf'[k] = buf[k]
      /\ buf'[Len(buf) + 1] = h
      /\ Range(buf') = Range(buf) \cup {h}
  BY <1>1, <1>2, <1>3, RangeAppend
<1> HIDE DEF h
<1>5. Commits' = Commits /\ Settled' = Settled /\ Open' = Open
  BY <1>1, Unsettled
<1>6. ConsumerTypes'
  BY <1>1, <1>3, <1>4, <1>5 DEF ConsumerTypes, WorkerStates
<1>7. BufOK'
  <2>1. buf' # <<>> /\ (Single => Len(buf') = 1)
    BY <1>1, <1>2, <1>4
  <2> QED
    BY <1>1, <2>1 DEF BufOK, Single, Applying, Advancing
<1>8. CheckpointOK' /\ CursorsOK'
  BY <1>1, <1>5 DEF CheckpointOK, CursorsOK, InitialCursor
<1>9. Range(buf) \cup Range(chan) = Range(buf') \cup Range(chan')
  BY <1>3, <1>4
<1>10. StopOK'
  BY <1>1, <1>5, <1>9 DEF StopOK, Alive
<1>11. OrderOK'
  <2>1. Alive
    BY <1>1 DEF Alive
  <2>2. \A k \in 1..Len(chan) : \A j \in Open :
          j < chan[k] => j \in Range(buf) \/ \E m \in 1..(k - 1) : chan[m] = j
    BY <1>2, <2>1 DEF OrderOK, ChanOrder
  <2>3. BufOrder'
    <3>1. SUFFICES ASSUME NEW k \in 1..(Len(buf) + 1), NEW j \in Open, j < buf'[k]
                   PROVE  \E m \in 1..(k - 1) : buf'[m] = j
      <4>1. DOMAIN buf' = 1..(Len(buf) + 1)
        BY <1>4
      <4> QED
        BY <1>5, <4>1 DEF BufOrder
    <3>2. CASE k \in 1..Len(buf)
      <4>1. PICK m \in 1..(k - 1) : buf[m] = j
        BY <1>2, <1>4, <2>1, <3>1, <3>2 DEF OrderOK, BufOrder
      <4>2. m \in 1..Len(buf)
        BY <1>2, <3>2
      <4> QED
        BY <1>4, <4>1, <4>2
    <3>3. CASE k = Len(buf) + 1
      <4>1. j < chan[1]
        BY <1>3, <1>4, <3>1, <3>3
      <4>2. j \in Range(buf)
        BY <1>3, <2>2, <4>1
      <4>3. PICK m \in 1..Len(buf) : buf[m] = j
        BY <1>2, <4>2, RangeMembers
      <4>4. m \in 1..(k - 1)
        BY <1>2, <3>3
      <4> QED
        BY <1>4, <4>3, <4>4
    <3> QED
      BY <1>2, <3>2, <3>3
  <2>4. ChanOrder'
    <3>1. SUFFICES ASSUME NEW k \in 1..(Len(chan) - 1), NEW j \in Open, j < chan'[k]
                   PROVE  j \in Range(buf') \/ \E m \in 1..(k - 1) : chan'[m] = j
      <4>1. DOMAIN chan' = 1..(Len(chan) - 1)
        BY <1>3
      <4> QED
        BY <1>5, <4>1 DEF ChanOrder
    <3>2. k + 1 \in 1..Len(chan) /\ j < chan[k + 1] /\ (k + 1) - 1 = k
      BY <1>3, <3>1
    <3>3. j \in Range(buf) \/ \E m \in 1..k : chan[m] = j
      BY <2>2, <3>2
    <3>4. ASSUME NEW m \in 1..k, chan[m] = j, m # 1
          PROVE  \E i \in 1..(k - 1) : chan'[i] = j
      <4>1. m - 1 \in 1..(k - 1) /\ m - 1 \in 1..(Len(chan) - 1) /\ (m - 1) + 1 = m
        BY <1>3, <3>4
      <4>2. chan'[m - 1] = chan[(m - 1) + 1]
        BY <1>3, <4>1
      <4> QED
        BY <3>4, <4>1, <4>2
    <3> QED
      BY <1>3, <1>4, <3>3, <3>4
  <2>5. Held' = Held
    BY <1>1, <1>9 DEF Held
  <2>6. HandOrder' /\ StreamOrder' /\ MarkOrder'
    BY <1>1, <1>5, <1>9, <2>1, <2>5 DEF OrderOK, HandOrder, StreamOrder, MarkOrder
  <2> QED
    BY <2>3, <2>4, <2>6 DEF OrderOK
<1> QED
  BY <1>6, <1>7, <1>8, <1>10, <1>11

(* The worker's steps that move no commit.                                 *)
LEMMA WorkerMoves ==
  ASSUME ConsumerInv, WorkerEnds \/ BeginDrain \/ DrainEnds \/ WorkerReturns
  PROVE  ConsumerInv'
<1> USE DEF ConsumerInv
<1>1. /\ UNCHANGED <<log, batch, reader, next, hand, buf, mem, disk, cancelled,
                     handled, refused, tail, atStop, dropped>>
      /\ \/ worker = "wait" /\ worker' = "done" /\ chan = <<>> /\ chan' = chan
         \/ worker = "wait" /\ worker' = "drain" /\ cancelled /\ chan' = chan
         \/ /\ worker = "drain" /\ chan = <<>> /\ chan' = chan
            /\ worker' = IF buf = <<>> THEN "closing" ELSE "flush"
         \/ worker = "closing" /\ worker' = "done" /\ chan' = <<>>
  BY DEF WorkerEnds, BeginDrain, DrainEnds, WorkerReturns, environment, readerVars, storeVars
<1>2. Commits' = Commits /\ Settled' = Settled /\ Open' = Open
  BY <1>1, Unsettled
<1>3. ConsumerTypes'
  <2>1. chan' \in Seq(Commits)
    <3>1. <<>> \in Seq(Commits)
      OBVIOUS
    <3> QED
      BY <1>1, <3>1 DEF ConsumerTypes
  <2> QED
    BY <1>1, <1>2, <2>1 DEF ConsumerTypes, WorkerStates
<1>4. BufOK'
  BY <1>1 DEF BufOK, Single, Applying, Advancing
<1>5. CheckpointOK' /\ CursorsOK'
  BY <1>1, <1>2 DEF CheckpointOK, CursorsOK, InitialCursor
<1>6. StopOK'
  BY <1>1, <1>2, RangeEmpty DEF StopOK, Alive, BufOK
<1>7. OrderOK'
  <2> SUFFICES ASSUME Alive'
               PROVE  (BufOrder /\ ChanOrder /\ HandOrder /\ StreamOrder /\ MarkOrder)'
    BY DEF OrderOK
  <2>1. Alive /\ chan' = chan
    BY <1>1 DEF Alive
  <2>2. Held' = Held
    BY <1>1, <2>1 DEF Held
  <2> QED
    BY <1>1, <1>2, <2>1, <2>2
    DEF OrderOK, BufOrder, ChanOrder, HandOrder, StreamOrder, MarkOrder
<1> QED
  BY <1>3, <1>4, <1>5, <1>6, <1>7

(* Whatever of the worker's commits is settled is behind every open one.   *)
LEMMA BufIsBehind ==
  ASSUME ConsumerTypes, BufOrder, NEW T, T \subseteq Open, T \cap Range(buf) = {}
  PROVE  \A c \in Range(buf) : \A j \in T : j > c
<1> TAKE c \in Range(buf)
<1> TAKE j \in T
<1>1. buf \in Seq(Commits)
  BY DEF ConsumerTypes
<1>2. PICK k \in 1..Len(buf) : buf[k] = c
  BY <1>1, RangeMembers
<1>3. j \in Nat /\ c \in Nat
  <2>1. Open \subseteq Nat /\ Commits \subseteq Nat
    BY CommitNumbers
  <2> QED
    BY <1>1, <2>1, RangeMembers
<1>4. j # c
  OBVIOUS
<1>5. ~(j < c)
  <2> SUFFICES ASSUME j < c PROVE FALSE
    OBVIOUS
  <2>1. PICK m \in 1..(k - 1) : buf[m] = j
    BY <1>1, <1>2 DEF BufOrder
  <2>2. m \in 1..Len(buf)
    BY <1>1
  <2>3. j \in Range(buf)
    BY <1>1, <2>1, <2>2, RangeMembers
  <2> QED
    BY <2>3
<1> QED
  BY <1>3, <1>4, <1>5

(* The newest of the worker's commits is one of them.                      *)
LEMMA NewestHeld ==
  ASSUME ConsumerTypes, buf # <<>>
  PROVE  Newest(buf) \in Range(buf) /\ Range(buf) \subseteq Commits
<1>1. buf \in Seq(Commits) /\ Len(log) \in Nat /\ Commits \subseteq 1..Len(log)
  BY CommitNumbers DEF ConsumerTypes
<1>2. Commits \subseteq Nat /\ \A e \in Commits : e <= Len(log)
  BY <1>1
<1> QED
  BY <1>1, <1>2, NewestOf, RangeMembers

(* The store takes the worker's commits.                                   *)
LEMMA ApplyStep == ASSUME ConsumerInv, ApplySingle \/ ApplyBatch PROVE ConsumerInv'
<1> USE DEF ConsumerInv
<1>1. /\ UNCHANGED <<log, batch, reader, next, hand, chan, buf, mem, cancelled,
                     tail, atStop, dropped>>
      /\ Applying /\ worker' = ToAdvance /\ buf # <<>>
      /\ Settled' = Settled \cup Range(buf)
      /\ disk' = disk \/ disk' = Newest(buf)
  <2>1. Applying => buf # <<>> /\ (Single => Len(buf) = 1)
    BY DEF BufOK
  <2>2. CASE ApplySingle
    <3>1. Range(buf) = {buf[1]}
      <4>1. DOMAIN buf = {1}
        BY <2>1, <2>2 DEF ApplySingle, ConsumerTypes
      <4> QED
        BY <4>1 DEF Range
    <3> QED
      BY <2>1, <2>2, <3>1 DEF ApplySingle, Settled, environment, readerVars
  <2>3. CASE ApplyBatch
    BY <2>1, <2>3 DEF ApplyBatch, Settled, environment, readerVars
  <2> QED
    BY <2>2, <2>3
<1>2. Commits' = Commits /\ Open' \subseteq Open /\ Open' \cap Range(buf) = {}
  BY <1>1 DEF Commits, Wanted, Open
<1>3. /\ Applying' = FALSE /\ Advancing' /\ worker' \in WorkerStates /\ Alive
      /\ worker' # "wait" /\ worker' # "drain" /\ worker' # "closing" /\ worker' # "done"
      /\ worker' = "flushAdvance" <=> worker = "flush"
      /\ worker' = "drainAdvance" <=> worker = "drainApply"
      /\ worker' # "drainApply" /\ worker' # "flush"
  BY <1>1 DEF Applying, Advancing, WorkerStates, ToAdvance, Alive
<1>4. Newest(buf) \in Range(buf) /\ Range(buf) \subseteq Commits
  BY <1>1, NewestHeld
<1>5. ConsumerTypes'
  BY <1>1, <1>2, <1>3, <1>4 DEF ConsumerTypes
<1>6. BufOK'
  BY <1>1, <1>3 DEF BufOK, Single
<1>7. CursorsOK'
  BY <1>1 DEF CursorsOK, InitialCursor
<1>8. StopOK'
  BY <1>1, <1>3 DEF StopOK, Alive
<1>9. CheckpointOK'
  <2>1. \A j \in Open' : j > Newest(buf)
    BY <1>2, <1>3, <1>4, BufIsBehind DEF OrderOK
  <2> QED
    BY <1>1, <1>2, <2>1 DEF CheckpointOK
<1>10. OrderOK'
  <2>1. Held' = Held
    BY <1>1 DEF Held
  <2> QED
    BY <1>1, <1>2, <1>3, <2>1
    DEF OrderOK, BufOrder, ChanOrder, HandOrder, StreamOrder, MarkOrder
<1> QED
  BY <1>5, <1>6, <1>7, <1>8, <1>9, <1>10

(* The worker lets go of commits that are settled.                         *)
LEMMA ReleaseStep ==
  ASSUME ConsumerInv, RefuseSingle \/ RefuseBatch \/ Advance
  PROVE  ConsumerInv'
<1> USE DEF ConsumerInv
<1>1. /\ UNCHANGED <<log, batch, reader, next, hand, chan, cancelled, tail, atStop, dropped>>
      /\ Applying \/ Advancing
      /\ worker' = AfterApply /\ buf # <<>> /\ buf' = <<>>
      /\ Settled' = Settled \cup Range(buf)
      /\ mem' = mem \/ mem' = Later(mem, Newest(buf))
      /\ disk' = disk \/ disk' \in Range(buf)
  <2>1. (Applying \/ Advancing) => buf # <<>> /\ (Single => Len(buf) = 1)
    BY DEF BufOK
  <2>2. Single /\ (Applying \/ Advancing) => Range(buf) = {buf[1]}
    <3> SUFFICES ASSUME Single, Applying \/ Advancing PROVE Range(buf) = {buf[1]}
      OBVIOUS
    <3>1. DOMAIN buf = {1}
      BY <2>1 DEF ConsumerTypes
    <3> QED
      BY <3>1 DEF Range
  <2>3. CASE RefuseSingle
    BY <2>1, <2>2, <2>3 DEF RefuseSingle, Settled, environment, readerVars
  <2>4. CASE RefuseBatch
    BY <2>1, <2>4 DEF RefuseBatch, Settled, environment, readerVars
  <2>5. CASE Advance
    <3>1. Advancing /\ Range(buf) \subseteq Settled
      BY <2>5 DEF Advance, Advancing, BufOK
    <3>2. Settled' = Settled
      BY <2>5 DEF Advance, Settled
    <3> QED
      BY <2>1, <2>2, <2>5, <3>1, <3>2 DEF Advance, environment, readerVars
  <2> QED
    BY <2>3, <2>4, <2>5
<1>2. Commits' = Commits /\ Open' \subseteq Open /\ Open' \cap Range(buf) = {}
  BY <1>1 DEF Commits, Wanted, Open
<1>3. /\ Applying' = FALSE /\ Advancing' = FALSE /\ worker' \in WorkerStates /\ Alive
      /\ worker' \in {"wait", "drain", "closing"}
      /\ worker' = "closing" => worker \in {"flush", "flushAdvance"}
      /\ worker' = "drain" => worker \in {"drainApply", "drainAdvance"}
  BY <1>1 DEF Applying, Advancing, WorkerStates, AfterApply, Alive
<1>4. Newest(buf) \in Range(buf) /\ Range(buf) \subseteq Commits
  BY <1>1, NewestHeld
<1>5. /\ Len(log) \in Nat /\ Commits \subseteq 1..Len(log) /\ mem \in Nat /\ tail \in Nat
      /\ Open \subseteq Nat
  BY CommitNumbers DEF ConsumerTypes
<1>6. /\ mem' \in Nat /\ mem <= mem'
      /\ mem' = mem \/ (mem' = Newest(buf) /\ mem' <= Len(log))
  <2>1. PICK c \in Commits : c = Newest(buf)
    BY <1>4
  <2>2. c \in Nat /\ c <= Len(log)
    BY <1>5
  <2> QED
    BY <1>1, <1>5, <2>1, <2>2 DEF Later
<1>7. \A c \in Range(buf) : \A j \in Open' : j > c
  BY <1>2, <1>3, BufIsBehind DEF OrderOK
<1>8. ConsumerTypes'
  <2>1. <<>> \in Seq(Commits)
    OBVIOUS
  <2> QED
    BY <1>1, <1>2, <1>3, <1>4, <1>6, <2>1 DEF ConsumerTypes
<1>9. BufOK'
  BY <1>1, <1>3 DEF BufOK
<1>10. CursorsOK'
  <2>1. InitialCursor \in Nat /\ InitialCursor' = InitialCursor
    BY ConsumerAssumption DEF InitialCursor
  <2>2. InitialCursor <= mem'
    BY <1>5, <1>6, <2>1 DEF CursorsOK
  <2>3. reader = "dial" => next <= mem'
    BY <1>5, <1>6 DEF CursorsOK, ConsumerTypes
  <2>4. mem' <= Len(log) \/ mem' <= tail
    BY <1>1, <1>6 DEF CursorsOK
  <2> QED
    BY <1>1, <2>1, <2>2, <2>3, <2>4 DEF CursorsOK
<1>11. StopOK'
  BY <1>1, <1>3 DEF StopOK, Alive
<1>12. CheckpointOK'
  BY <1>1, <1>2, <1>7 DEF CheckpointOK
<1>13. OrderOK'
  <2>1. Range(buf') = {}
    BY <1>1, RangeEmpty
  <2>2. \A j \in Open' : j \in Open /\ j \notin Range(buf) /\ j \in Nat
    BY <1>2, <1>5
  <2>3. BufOrder'
    BY <1>1 DEF BufOrder
  <2>4. ChanOrder' /\ HandOrder'
    BY <1>1, <1>3, <2>2 DEF OrderOK, ChanOrder, HandOrder
  <2>5. StreamOrder'
    BY <1>1, <1>3, <2>2 DEF OrderOK, StreamOrder, Held
  <2>6. \A j \in Open' : j <= mem' => j <= mem
    <3> TAKE j \in Open'
    <3>1. ~(j <= Newest(buf))
      <4>1. j > Newest(buf) /\ j \in Nat
        BY <1>4, <1>7, <2>2
      <4>2. Newest(buf) \in Nat
        <5>1. Newest(buf) \in Commits /\ Commits \subseteq Nat
          BY <1>4, <1>5
        <5> QED
          BY <5>1
      <4> QED
        BY <4>1, <4>2
    <3> QED
      BY <1>6, <3>1
  <2>7. MarkOrder'
    BY <1>1, <1>3, <2>2, <2>6 DEF OrderOK, MarkOrder, Held
  <2> QED
    BY <2>3, <2>4, <2>5, <2>7 DEF OrderOK
<1> QED
  BY <1>8, <1>9, <1>10, <1>11, <1>12, <1>13

-----------------------------------------------------------------------------
(* The end of a consumer and the next one.                                 *)
LEMMA StopStep == ASSUME ConsumerInv, Stop PROVE ConsumerInv'
<1> USE DEF ConsumerInv
<1>1. /\ UNCHANGED <<log, batch, reader, next, hand, chan, worker, buf, mem, disk,
                     handled, refused, tail, dropped>>
      /\ ~cancelled /\ worker # "down" /\ cancelled' = TRUE
      /\ atStop' = Range(buf \o chan)
  BY DEF Stop, readerVars, workerVars, storeVars
<1>2. Commits' = Commits /\ Settled' = Settled /\ Open' = Open
  BY <1>1, Unsettled
<1>3. atStop' = Range(buf) \cup Range(chan)
  <2>1. buf \in Seq(Commits) /\ chan \in Seq(Commits)
    BY DEF ConsumerTypes
  <2> QED
    BY <1>1, <2>1, RangeConcatenation
<1>4. ConsumerTypes'
  BY <1>1, <1>2 DEF ConsumerTypes
<1>5. BufOK' /\ CursorsOK' /\ CheckpointOK'
  BY <1>1, <1>2 DEF BufOK, Single, Applying, Advancing, CursorsOK, CheckpointOK, InitialCursor
<1>6. StopOK'
  BY <1>1, <1>2, <1>3, RangeEmpty DEF StopOK, Alive, BufOK
<1>7. OrderOK'
  BY <1>1, <1>2
  DEF OrderOK, Alive, BufOrder, ChanOrder, HandOrder, StreamOrder, MarkOrder, Held
<1> QED
  BY <1>4, <1>5, <1>6, <1>7

LEMMA DownStep == ASSUME ConsumerInv, Crash \/ Abort PROVE ConsumerInv'
<1> USE DEF ConsumerInv
<1>1. /\ UNCHANGED <<log, batch, disk, handled, refused, tail, dropped>>
      /\ reader' = "done" /\ next' = 1 /\ hand' = 0 /\ chan' = <<>> /\ worker' = "down"
      /\ buf' = <<>> \/ buf' = buf
      /\ mem' = InitialCursor \/ mem' = mem
      /\ cancelled' = FALSE
  BY DEF Crash, Abort, storeVars
<1>2. /\ Commits' = Commits /\ Settled' = Settled /\ Open' = Open /\ Len(log) \in Nat
      /\ InitialCursor \in Nat /\ InitialCursor' = InitialCursor
  BY <1>1, Unsettled, CommitNumbers, ConsumerAssumption DEF InitialCursor
<1>3. ConsumerTypes'
  <2>1. <<>> \in Seq(Commits)
    OBVIOUS
  <2>2. buf' \in Seq(Commits) /\ chan' \in Seq(Commits) /\ mem' \in Nat
    BY <1>1, <1>2, <2>1 DEF ConsumerTypes
  <2>3. reader' \in ReaderStates /\ worker' \in WorkerStates /\ cancelled' \in BOOLEAN
    BY <1>1 DEF ReaderStates, WorkerStates
  <2>4. next' \in Nat
    BY <1>1
  <2> QED
    BY <1>1, <1>2, <2>2, <2>3, <2>4 DEF ConsumerTypes
<1>4. BufOK' /\ StopOK' /\ OrderOK' /\ CheckpointOK'
  BY <1>1, <1>2 DEF BufOK, Applying, Advancing, StopOK, OrderOK, Alive, CheckpointOK
<1>5. CursorsOK'
  <2>1. InitialCursor <= mem' /\ (mem' <= Len(log) \/ mem' <= tail)
    BY <1>1, <1>2 DEF CursorsOK, ConsumerTypes
  <2> QED
    BY <1>1, <1>2, <2>1 DEF CursorsOK
<1> QED
  BY <1>3, <1>4, <1>5

(* A new consumer resumes at the persisted or the configured cursor, one   *)
(* that is started again at its watermark, and everything open is ahead.   *)
LEMMA StartStep == ASSUME ConsumerInv, NEW fresh \in BOOLEAN, Start(fresh) PROVE ConsumerInv'
<1> USE DEF ConsumerInv
<1>1. /\ UNCHANGED <<log, batch, disk, handled, refused, tail>>
      /\ reader' = "connect" /\ next' = 1 /\ hand' = 0 /\ chan' = <<>> /\ buf' = <<>>
      /\ worker' = "wait" /\ cancelled' = FALSE /\ atStop' = {}
      /\ dropped \subseteq dropped'
  BY DEF Start, storeVars
<1>2. \/ mem' = InitialCursor
      \/ mem' = mem /\ Behind(mem) \subseteq dropped'
      \/ mem' = disk /\ InitialCursor = 0
  BY DEF Start, InitialCursor
<1>3. Commits' = Commits /\ Settled' = Settled /\ Open' \subseteq Open
  BY <1>1 DEF Commits, Wanted, Settled, Open
<1>4. /\ Len(log) \in Nat /\ Commits \subseteq 1..Len(log) /\ tail \in Nat /\ mem \in Nat
      /\ InitialCursor \in Nat /\ InitialCursor' = InitialCursor
      /\ Open \subseteq Nat
  BY CommitNumbers, ConsumerAssumption DEF ConsumerTypes, InitialCursor
<1>5. disk \in Nat /\ disk <= Len(log)
  BY <1>4 DEF ConsumerTypes
<1>6. ConsumerTypes'
  <2>1. mem' \in Nat
    BY <1>2, <1>4, <1>5
  <2>2. <<>> \in Seq(Commits)
    OBVIOUS
  <2>3. reader' \in ReaderStates /\ worker' \in WorkerStates /\ cancelled' \in BOOLEAN
    BY <1>1 DEF ReaderStates, WorkerStates
  <2>4. buf' \in Seq(Commits) /\ chan' \in Seq(Commits) /\ next' \in Nat
    BY <1>1, <2>2
  <2> QED
    BY <1>1, <1>3, <2>1, <2>3, <2>4 DEF ConsumerTypes
<1>7. BufOK' /\ StopOK' /\ CheckpointOK'
  BY <1>1, <1>3 DEF BufOK, Applying, Advancing, StopOK, CheckpointOK, Alive
<1>8. CursorsOK'
  <2>1. InitialCursor <= mem' /\ (mem' <= Len(log) \/ mem' <= tail)
    BY <1>2, <1>4, <1>5 DEF CursorsOK
  <2> QED
    BY <1>1, <1>4, <2>1 DEF CursorsOK
<1>9. OrderOK'
  <2>1. ASSUME NEW j \in Open' PROVE ~(j <= mem')
    <3>1. j \in Open /\ j \in Nat /\ tail < j /\ j \in Commits /\ j \notin Settled /\ j \notin dropped'
      BY <1>1, <1>3, <1>4 DEF Open
    <3>2. CASE mem' = InitialCursor
      BY <1>4, <3>1, <3>2 DEF CursorsOK
    <3>3. CASE mem' = mem /\ Behind(mem) \subseteq dropped'
      BY <3>1, <3>3 DEF Behind
    <3>4. CASE mem' = disk
      BY <1>5, <3>1, <3>4 DEF CheckpointOK
    <3> QED
      BY <1>2, <3>2, <3>3, <3>4
  <2> QED
    BY <1>1, <2>1 DEF OrderOK, BufOrder, ChanOrder, HandOrder, StreamOrder, MarkOrder
<1> QED
  BY <1>6, <1>7, <1>8, <1>9

LEMMA ConsumerStep == ASSUME ConsumerInv, [Next]_vars PROVE ConsumerInv'
<1>1. CASE \E e \in Event : Emit(e)
  BY <1>1, EmitStep
<1>2. CASE Reader
  BY <1>2, DialStep, ConnectStep, ReceiveStep, SendStep, ReaderLeaves DEF Reader
<1>3. CASE Worker
  BY <1>3, TakeStep, DrainStep, WorkerMoves, ApplyStep, ReleaseStep DEF Worker
<1>4. CASE Disconnect
  BY <1>4, ReaderLeaves
<1>5. CASE Stop \/ Crash \/ Abort
  BY <1>5, StopStep, DownStep
<1>6. CASE Restart
  BY <1>6, StartStep DEF Restart
<1>7. CASE UNCHANGED vars
  <2>1. UNCHANGED <<log, batch, reader, next, hand, chan, worker, buf, mem, disk,
                    cancelled, handled, refused, tail, atStop, dropped>>
    BY <1>7 DEF vars, environment, readerVars, workerVars, storeVars
  <2>2. Commits' = Commits /\ Settled' = Settled /\ Open' = Open
    BY <2>1, Unsettled
  <2>3. ConsumerTypes' /\ BufOK' /\ CursorsOK'
    BY <2>1, <2>2 DEF ConsumerInv, ConsumerTypes, BufOK, Single, Applying, Advancing,
                      CursorsOK, InitialCursor
  <2>4. OrderOK' /\ CheckpointOK' /\ StopOK'
    BY <2>1, <2>2 DEF ConsumerInv, OrderOK, Alive, BufOrder, ChanOrder, HandOrder,
                      StreamOrder, MarkOrder, Held, CheckpointOK, StopOK
  <2> QED
    BY <2>3, <2>4 DEF ConsumerInv
<1> QED
  BY <1>1, <1>2, <1>3, <1>4, <1>5, <1>6, <1>7 DEF Next

LEMMA Invariance == Spec => []ConsumerInv
<1>1. Init => ConsumerInv
  BY InitInv
<1>2. ConsumerInv /\ [Next]_vars => ConsumerInv'
  BY ConsumerStep
<1> QED
  BY <1>1, <1>2, PTL DEF Spec

-----------------------------------------------------------------------------
(* The record table.  What a row is worth against the commits the store    *)
(* has taken: it is no older than any upsert of its URI, and it is there   *)
(* because of one of its URI's commits.                                    *)
RowFits(row, H, u) ==
  /\ \A i \in H : log[i].uri = u /\ log[i].kind = "upsert" => row.state # "absent" /\ row.at >= i
  /\ row.state # "absent" => row.at \in H /\ log[row.at].uri = u
  /\ row.state = "live" => log[row.at].kind = "upsert" /\ row.cid = Rec
  /\ row.state = "deleted" => log[row.at].kind = "delete"

(* The newest of its URI's commits has made it what it is.                 *)
Converged(row, H, u) ==
  \A i \in H :
    log[i].uri = u /\ (\A j \in H : log[j].uri = u => i >= j)
      => IF log[i].kind = "upsert" THEN row = Live(Rec, i) ELSE ~Visible(row)

Fits(table, H, O) ==
  \A u \in Uris : RowFits(table[u], H, u) /\ (u \notin O => Converged(table[u], H, u))

Taken(H) == H \subseteq Commits /\ \A i \in H : Whole(i)

TableOK == rows \in [Uris -> Row] /\ Taken(handled) /\ Fits(rows, handled, overtaken)

LEMMA CommitEvents ==
  ASSUME ConsumerTypes, NEW i \in Commits
  PROVE  /\ i \in Nat \ {0} /\ log[i].uri \in Uris
         /\ log[i].kind \in {"upsert", "delete", "hollow"}
         /\ Whole(i) <=> log[i].kind # "hollow"
<1>1. i \in 1..Len(log) /\ i \in Nat \ {0}
  BY CommitNumbers
<1>2. log[i] \in Event /\ log[i].kind # "skip"
  BY <1>1 DEF ConsumerTypes, Commits, Wanted
<1> QED BY <1>1, <1>2 DEF Event, Whole

(* The write of a commit, on its row.                                      *)
WrittenRow(row, i) == IF log[i].kind = "upsert" THEN UpsertRow(row, Rec, i) ELSE DeleteRow(row, i)

LEMMA WriteRow ==
  ASSUME ConsumerTypes, NEW H, Taken(H), NEW i \in Commits, Whole(i),
         NEW row \in Row, RowFits(row, H, log[i].uri)
  PROVE  LET r == WrittenRow(row, i)
             u == log[i].uri
         IN
         /\ r \in Row /\ RowFits(r, H \cup {i}, u)
         /\ /\ Converged(row, H, u)
            /\ i \in H \/ ~ \E j \in H : j > i /\ log[j].uri = u
            => Converged(r, H \cup {i}, u)
<1> DEFINE r == WrittenRow(row, i)
           u == log[i].uri
<1>1. /\ i \in Nat /\ u \in Uris /\ log[i].kind \in {"upsert", "delete"}
      /\ \A j \in H : j \in Nat /\ log[j].kind \in {"upsert", "delete"}
  BY CommitEvents DEF Taken
<1>2. /\ row.at \in Nat /\ row.state \in {"absent", "live", "deleted"} /\ Rec \in Cids
      /\ \A j \in H : log[j].uri = u /\ log[j].kind = "upsert" => row.state # "absent" /\ row.at >= j
      /\ row.state # "absent" => row.at \in H /\ log[row.at].uri = u
      /\ row.state = "live" => log[row.at].kind = "upsert" /\ row.cid = Rec
      /\ row.state = "deleted" => log[row.at].kind = "delete"
  BY ConsumerAssumption DEF RowFits, Row, RowStates
<1>3. CASE log[i].kind = "upsert" /\ UpsertAccepted(row, i)
  <2>1. r = Live(Rec, i)
    BY <1>3 DEF WrittenRow, UpsertRow
  <2>2. r \in Row /\ r.state = "live" /\ r.at = i /\ r.cid = Rec
    BY <1>1, <1>2, <2>1 DEF Live, Row, RowStates
  <2>3. row.state = "absent" \/ i >= row.at
    BY <1>3 DEF UpsertAccepted
  <2>4. \A j \in H : log[j].uri = u /\ log[j].kind = "upsert" => i >= j
    BY <1>1, <1>2, <2>3
  <2>5. RowFits(r, H \cup {i}, u)
    BY <1>1, <1>3, <2>2, <2>4 DEF RowFits
  <2>6. ASSUME Converged(row, H, u), i \in H \/ ~ \E j \in H : j > i /\ log[j].uri = u
        PROVE  Converged(r, H \cup {i}, u)
    <3> SUFFICES ASSUME NEW m \in H \cup {i}, log[m].uri = u,
                        \A j \in H \cup {i} : log[j].uri = u => m >= j
                 PROVE  IF log[m].kind = "upsert" THEN r = Live(Rec, m) ELSE ~Visible(r)
      BY DEF Converged
    <3>1. m >= i
      OBVIOUS
    <3>2. CASE m = i
      BY <1>3, <2>1, <3>2
    <3>3. CASE m # i
      <4>1. m \in H /\ m > i
        BY <1>1, <3>1, <3>3
      <4>2. i \in H
        BY <2>6, <4>1
      <4>3. row.state # "absent" /\ row.at = i
        BY <1>1, <1>2, <1>3, <2>3, <4>2
      <4>4. row.state = "live" /\ row.cid = Rec
        BY <1>2, <1>3, <4>3
      <4>5. log[m].kind = "delete"
        BY <1>1, <2>4, <4>1
      <4>6. ~Visible(row)
        BY <2>6, <4>1, <4>5 DEF Converged
      <4> QED BY <4>4, <4>6 DEF Visible
    <3> QED BY <3>2, <3>3
  <2> QED BY <2>2, <2>5, <2>6
<1>4. CASE log[i].kind = "delete" /\ DeleteAccepted(row, i)
  <2>1. r = [row EXCEPT !.state = "deleted", !.at = i] /\ row.state = "live" /\ i >= row.at
    BY <1>4 DEF WrittenRow, DeleteRow, DeleteAccepted
  <2>2. r \in Row /\ r.state = "deleted" /\ r.at = i
    BY <1>1, <2>1 DEF Row, RowStates
  <2>3. \A j \in H : log[j].uri = u /\ log[j].kind = "upsert" => i >= j
    BY <1>1, <1>2, <2>1
  <2>4. RowFits(r, H \cup {i}, u)
    BY <1>1, <1>4, <2>2, <2>3 DEF RowFits
  <2>5. ASSUME Converged(row, H, u), i \in H \/ ~ \E j \in H : j > i /\ log[j].uri = u
        PROVE  Converged(r, H \cup {i}, u)
    <3> SUFFICES ASSUME NEW m \in H \cup {i}, log[m].uri = u,
                        \A j \in H \cup {i} : log[j].uri = u => m >= j
                 PROVE  log[m].kind # "upsert" /\ ~Visible(r)
      BY DEF Converged
    <3>1. ~Visible(r)
      BY <2>2 DEF Visible
    <3>2. m >= i
      OBVIOUS
    <3>3. ASSUME log[m].kind = "upsert" PROVE FALSE
      <4>1. m \in H /\ i >= m
        BY <1>4, <2>3, <3>3
      <4>2. m = i
        BY <1>1, <3>2, <4>1
      <4> QED BY <1>4, <3>3, <4>2
    <3> QED BY <3>1, <3>3
  <2> QED BY <2>2, <2>4, <2>5
<1>5. CASE /\ ~(log[i].kind = "upsert" /\ UpsertAccepted(row, i))
           /\ ~(log[i].kind = "delete" /\ DeleteAccepted(row, i))
  <2>1. r = row
    BY <1>1, <1>5 DEF WrittenRow, UpsertRow, DeleteRow
  <2>2. log[i].kind = "upsert" => row.state # "absent" /\ row.at > i
    BY <1>1, <1>2, <1>5 DEF UpsertAccepted
  <2>3. log[i].kind = "delete" => row.state # "live" \/ row.at > i
    BY <1>1, <1>2, <1>5 DEF DeleteAccepted
  <2>4. RowFits(row, H \cup {i}, u)
    BY <1>1, <1>2, <2>2 DEF RowFits
  <2>5. ASSUME Converged(row, H, u), i \in H \/ ~ \E j \in H : j > i /\ log[j].uri = u
        PROVE  Converged(row, H \cup {i}, u)
    <3>1. CASE i \in H
      <4>1. H \cup {i} = H
        BY <3>1
      <4> QED BY <2>5, <4>1
    <3>2. CASE i \notin H
      <4>1. \A j \in H : log[j].uri = u => ~(j > i)
        BY <2>5, <3>2
      <4>2. row.state # "absent" => ~(row.at > i)
        BY <1>2, <4>1
      <4>3. log[i].kind = "delete" /\ row.state # "live"
        BY <1>1, <2>2, <2>3, <4>2
      <4> SUFFICES ASSUME NEW m \in H \cup {i}, log[m].uri = u,
                          \A j \in H \cup {i} : log[j].uri = u => m >= j
                   PROVE  log[m].kind # "upsert" /\ ~Visible(row)
        BY DEF Converged
      <4>4. m >= i
        OBVIOUS
      <4>5. m = i
        BY <1>1, <4>1, <4>4
      <4> QED BY <4>3, <4>5 DEF Visible
    <3> QED BY <3>1, <3>2
  <2> QED BY <2>1, <2>4, <2>5
<1> QED BY <1>1, <1>3, <1>4, <1>5

(* Another commit of the same or of another URI.                           *)
LEMMA OtherUri ==
  ASSUME NEW H, NEW i, NEW u, log[i].uri # u, NEW row, RowFits(row, H, u)
  PROVE  /\ RowFits(row, H \cup {i}, u)
         /\ Converged(row, H, u) => Converged(row, H \cup {i}, u)
<1>1. RowFits(row, H \cup {i}, u)
  BY DEF RowFits
<1>2. Converged(row, H, u) => Converged(row, H \cup {i}, u)
  BY DEF Converged
<1> QED BY <1>1, <1>2

(* The write of one commit.  O2 has its URI if it comes too late.          *)
LEMMA WriteOne ==
  ASSUME ConsumerTypes, NEW H, Taken(H), NEW i \in Commits, NEW table \in [Uris -> Row],
         NEW O, NEW O2, Fits(table, H, O), O \subseteq O2,
         Whole(i) /\ i \notin H /\ (\E j \in H : j > i /\ log[j].uri = log[i].uri)
           => log[i].uri \in O2
  PROVE  LET H2 == H \cup {k \in {i} : Whole(k)}
         IN Written(table, i) \in [Uris -> Row] /\ Taken(H2) /\ Fits(Written(table, i), H2, O2)
<1> DEFINE H2 == H \cup {k \in {i} : Whole(k)}
           t == Written(table, i)
           u == log[i].uri
<1>1. u \in Uris /\ log[i].kind \in {"upsert", "delete", "hollow"} /\ (Whole(i) <=> log[i].kind # "hollow")
  BY CommitEvents
<1>2. Taken(H2)
  BY DEF Taken
<1>3. CASE ~Whole(i)
  <2>1. t = table /\ H2 = H
    BY <1>1, <1>3 DEF Written
  <2> QED BY <1>2, <2>1 DEF Fits
<1>4. CASE Whole(i)
  <2>1. t = [table EXCEPT ![u] = WrittenRow(table[u], i)] /\ H2 = H \cup {i}
    BY <1>1, <1>4 DEF Written, WrittenRow
  <2>2. table[u] \in Row /\ RowFits(table[u], H, u) /\ (u \notin O => Converged(table[u], H, u))
    BY <1>1 DEF Fits
  <2>3. /\ WrittenRow(table[u], i) \in Row /\ RowFits(WrittenRow(table[u], i), H \cup {i}, u)
        /\ /\ Converged(table[u], H, u)
           /\ i \in H \/ ~ \E j \in H : j > i /\ log[j].uri = u
           => Converged(WrittenRow(table[u], i), H \cup {i}, u)
    BY <1>4, <2>2, WriteRow
  <2>4. t \in [Uris -> Row] /\ t[u] = WrittenRow(table[u], i) /\ \A v \in Uris \ {u} : t[v] = table[v]
    BY <1>1, <2>1, <2>3
  <2>5. u \notin O2 => Converged(t[u], H \cup {i}, u)
    BY <1>4, <2>2, <2>3, <2>4
  <2>6. ASSUME NEW v \in Uris, v # u
        PROVE  RowFits(t[v], H \cup {i}, v) /\ (v \notin O2 => Converged(t[v], H \cup {i}, v))
    <3>1. RowFits(table[v], H, v) /\ (v \notin O2 => Converged(table[v], H, v))
      BY DEF Fits
    <3>2. t[v] = table[v]
      BY <2>4, <2>6
    <3> HIDE DEF t
    <3> QED BY <2>6, <3>1, <3>2, OtherUri
  <2>7. Fits(t, H \cup {i}, O2)
    <3> HIDE DEF t
    <3>1. RowFits(t[u], H \cup {i}, u)
      BY <2>3, <2>4
    <3> QED BY <2>5, <2>6, <3>1 DEF Fits
  <2> QED BY <1>2, <2>1, <2>4, <2>7
<1> QED BY <1>3, <1>4


-----------------------------------------------------------------------------
(* What holds of 0, and with every n of n + 1, holds up to a bound.  (Least *)
(* counterexample; bad is the set of those it does not hold of.)           *)
LEMMA NoneBad ==
  ASSUME NEW bound \in Nat, NEW bad \in SUBSET (0..bound), 0 \notin bad,
         \A n \in 1..bound : n \in bad => n - 1 \in bad
  PROVE  bad = {}
<1> SUFFICES ASSUME bad # {} PROVE FALSE
  OBVIOUS
<1>1. PICK n \in bad : \A m \in bad : n <= m
  BY LeastNumber, bad \subseteq Nat
<1>2. n \in 1..bound
  BY <1>1
<1>3. n - 1 \in bad
  BY <1>1, <1>2
<1> QED BY <1>1, <1>2, <1>3

(* The tables a sequence of commits is written through.                    *)
LEMMA WrittenThrough ==
  ASSUME NEW table, NEW is, Len(is) \in Nat
  PROVE  \E f : /\ f[0] = table
                /\ \A n \in 1..Len(is) : f[n] = Written(f[n - 1], is[n])
                /\ f[Len(is)] = WrittenAll(table, is)
<1> DEFINE Step(f, n) == IF n = 0 THEN table ELSE Written(f[n - 1], is[n])
           after == CHOOSE f : f = [n \in 0..Len(is) |-> Step(f, n)]
           bad == {n \in 0..Len(is) : ~ \E f : f = [k \in 0..n |-> Step(f, k)]}
<1>1. 0 \notin bad
  <2> DEFINE f == [k \in 0..0 |-> table]
  <2>1. f = [k \in 0..0 |-> Step(f, k)]
    OBVIOUS
  <2> QED BY <2>1
<1>2. ASSUME NEW n \in 1..Len(is), n - 1 \notin bad
      PROVE  n \notin bad
  <2>1. n - 1 \in 0..Len(is) /\ n \in Nat /\ n # 0
    OBVIOUS
  <2>2. PICK f : f = [k \in 0..(n - 1) |-> Step(f, k)]
    BY <1>2, <2>1
  <2> DEFINE g == [k \in 0..n |-> IF k = n THEN Written(f[n - 1], is[n]) ELSE f[k]]
  <2>3. \A k \in 0..(n - 1) : g[k] = f[k] /\ f[k] = Step(f, k)
    <3>1. \A k \in 0..(n - 1) : k \in 0..n /\ k # n
      BY <2>1
    <3> QED BY <2>2, <3>1
  <2>4. ASSUME NEW k \in 0..n
        PROVE  g[k] = Step(g, k)
    <3>1. CASE k = n
      <4>1. g[n] = Written(f[n - 1], is[n]) /\ n - 1 \in 0..(n - 1)
        BY <2>1
      <4> QED BY <2>1, <2>3, <3>1, <4>1
    <3>2. CASE k # n /\ k # 0
      <4>1. k \in 0..(n - 1) /\ k - 1 \in 0..(n - 1)
        BY <2>1, <3>2
      <4> QED BY <2>3, <3>2, <4>1
    <3>3. CASE k = 0
      <4>1. 0 \in 0..(n - 1)
        BY <2>1
      <4> QED BY <2>3, <3>3, <4>1
    <3> QED BY <3>1, <3>2, <3>3
  <2>5. g = [k \in 0..n |-> Step(g, k)]
    <3>1. g = [k \in 0..n |-> g[k]]
      OBVIOUS
    <3> HIDE DEF g, Step
    <3> QED BY <2>4, <3>1
  <2> HIDE DEF g
  <2> QED BY <2>5
<1>3. bad = {}
  <2>1. bad \in SUBSET (0..Len(is))
    OBVIOUS
  <2> HIDE DEF bad
  <2> QED BY <1>1, <1>2, <2>1, NoneBad
<1>4. \E f : f = [k \in 0..Len(is) |-> Step(f, k)]
  <2>1. Len(is) \in 0..Len(is)
    OBVIOUS
  <2> QED BY <1>3, <2>1
<1>5. after = [n \in 0..Len(is) |-> Step(after, n)]
  BY <1>4
<1>6. WrittenAll(table, is) = after[Len(is)]
  BY DEF WrittenAll
<1> HIDE DEF after
<1>7. after[0] = table
  BY <1>5
<1>8. \A n \in 1..Len(is) : after[n] = Written(after[n - 1], is[n])
  BY <1>5
<1> QED BY <1>6, <1>7, <1>8

(* What the store has taken before the k-th commit of a sequence, and which *)
(* of the sequence come too late.                                          *)
Before(is, k) == handled \cup {i \in {is[l] : l \in 1..(k - 1)} : Whole(i)}
Late(is, k) ==
  /\ Whole(is[k]) /\ is[k] \notin Before(is, k)
  /\ \E j \in Before(is, k) : j > is[k] /\ log[j].uri = log[is[k]].uri

LEMMA LateOvertaken ==
  ASSUME NEW is
  PROVE  Overtaken(is) = {log[is[k]].uri : k \in {k \in DOMAIN is : Late(is, k)}}
BY DEF Overtaken, Late, Before

LEMMA BeforeNext ==
  ASSUME NEW is, NEW n \in Nat \ {0}
  PROVE  Before(is, n + 1) = Before(is, n) \cup {i \in {is[n]} : Whole(i)}
<1>1. 1..(n + 1 - 1) = 1..(n - 1) \cup {n}
  OBVIOUS
<1> QED BY <1>1 DEF Before

(* A transaction writes the commits of a sequence one after the other.     *)
LEMMA WriteAll ==
  ASSUME ConsumerTypes, TableOK, NEW is \in Seq(Commits)
  PROVE  LET H2 == handled \cup {i \in Range(is) : Whole(i)}
         IN /\ WrittenAll(rows, is) \in [Uris -> Row] /\ Taken(H2)
            /\ Fits(WrittenAll(rows, is), H2, overtaken \cup Overtaken(is))
<1> DEFINE O == overtaken \cup Overtaken(is)
           H2 == handled \cup {i \in Range(is) : Whole(i)}
<1>1. /\ Len(is) \in Nat /\ DOMAIN is = 1..Len(is)
      /\ \A n \in 1..Len(is) : is[n] \in Commits
      /\ Range(is) = {is[n] : n \in 1..Len(is)}
  BY DEF Range
<1>2. PICK f : /\ f[0] = rows
               /\ \A n \in 1..Len(is) : f[n] = Written(f[n - 1], is[n])
               /\ f[Len(is)] = WrittenAll(rows, is)
  BY <1>1, WrittenThrough
<1> DEFINE Good(n) == /\ f[n] \in [Uris -> Row] /\ Taken(Before(is, n + 1))
                      /\ Fits(f[n], Before(is, n + 1), O)
           bad == {n \in 0..Len(is) : ~Good(n)}
<1>3. Good(0)
  <2>1. Before(is, 0 + 1) = handled
    <3>1. 1..(0 + 1 - 1) = {}
      OBVIOUS
    <3> QED BY <3>1 DEF Before
  <2>2. Fits(rows, handled, O)
    BY DEF TableOK, Fits
  <2> QED BY <1>2, <2>1, <2>2 DEF TableOK
<1>4. ASSUME NEW n \in 1..Len(is), Good(n - 1)
      PROVE  Good(n)
  <2>1. n \in Nat \ {0} /\ (n - 1) + 1 = n /\ is[n] \in Commits /\ n \in DOMAIN is
    BY <1>1
  <2>2. Late(is, n) => log[is[n]].uri \in O
    BY <2>1, LateOvertaken
  <2> DEFINE H == Before(is, n)
             table == f[n - 1]
             i == is[n]
  <2>3. table \in [Uris -> Row] /\ Taken(H) /\ Fits(table, H, O)
    BY <1>4, <2>1
  <2>4. Whole(i) /\ i \notin H /\ (\E j \in H : j > i /\ log[j].uri = log[i].uri)
          => log[i].uri \in O
    BY <2>2 DEF Late
  <2>5. f[n] = Written(table, i) /\ Before(is, n + 1) = H \cup {k \in {i} : Whole(k)}
    BY <1>2, <2>1, BeforeNext
  <2>6. i \in Commits /\ O \subseteq O
    BY <2>1
  <2> HIDE DEF H, table, i, O
  <2>7. LET G == H \cup {k \in {i} : Whole(k)}
        IN Written(table, i) \in [Uris -> Row] /\ Taken(G) /\ Fits(Written(table, i), G, O)
    BY <2>3, <2>4, <2>6, WriteOne
  <2> QED BY <2>5, <2>7
<1>5. bad = {}
  <2>1. bad \in SUBSET (0..Len(is)) /\ 0 \notin bad
    BY <1>3
  <2>2. \A n \in 1..Len(is) : n \in bad => n - 1 \in bad
    <3> SUFFICES ASSUME NEW n \in 1..Len(is), n \in bad PROVE n - 1 \in bad
      OBVIOUS
    <3>1. n - 1 \in 0..Len(is)
      BY <1>1
    <3> HIDE DEF Good
    <3> QED BY <1>4, <3>1
  <2> HIDE DEF bad
  <2> QED BY <1>1, <2>1, <2>2, NoneBad
<1>6. Good(Len(is))
  <2>1. Len(is) \in 0..Len(is)
    BY <1>1
  <2> HIDE DEF Good
  <2> QED BY <1>5, <2>1
<1>7. Before(is, Len(is) + 1) = H2
  <2>1. 1..(Len(is) + 1 - 1) = 1..Len(is)
    BY <1>1
  <2> QED BY <1>1, <2>1 DEF Before
<1> QED BY <1>2, <1>6, <1>7


-----------------------------------------------------------------------------
(* The steps on the table.                                                 *)
LEMMA SameTable ==
  ASSUME TableOK, UNCHANGED <<log, rows, handled, overtaken>>
  PROVE  TableOK'
BY DEF TableOK, Fits, RowFits, Converged, Taken, Whole, Commits, Wanted

LEMMA EmitTable ==
  ASSUME ConsumerInv, TableOK, NEW e \in Event, Emit(e)
  PROVE  TableOK' /\ Commits \subseteq Commits'
<1>1. /\ log' = Append(log, e) /\ UNCHANGED <<rows, handled, overtaken>>
      /\ log \in Seq(Event) /\ Len(log) \in Nat /\ Commits \subseteq 1..Len(log)
  BY CommitNumbers DEF Emit, storeVars, ConsumerInv, ConsumerTypes
<1>2. /\ \A i \in 1..Len(log) : log'[i] = log[i]
      /\ DOMAIN log' = 1..(Len(log) + 1) /\ DOMAIN log = 1..Len(log)
  BY <1>1, AppendProperties
<1>3. Commits \subseteq Commits'
  BY <1>1, <1>2 DEF Commits, Wanted
<1>4. \A i \in handled : log'[i] = log[i]
  BY <1>1, <1>2 DEF TableOK, Taken
<1>5. Taken(handled)'
  BY <1>1, <1>3, <1>4 DEF TableOK, Taken, Whole
<1>6. ASSUME NEW u \in Uris
      PROVE  (RowFits(rows[u], handled, u) /\ (u \notin overtaken => Converged(rows[u], handled, u)))'
  <2>1. RowFits(rows[u], handled, u) /\ (u \notin overtaken => Converged(rows[u], handled, u))
    BY DEF TableOK, Fits
  <2>2. rows[u].state \in {"absent", "live", "deleted"}
    BY DEF TableOK, Row, RowStates
  <2>3. rows[u].state # "absent" => log'[rows[u].at] = log[rows[u].at]
    BY <1>4, <2>1 DEF RowFits
  <2>4. RowFits(rows[u], handled, u)'
    BY <1>1, <1>4, <2>1, <2>2, <2>3 DEF RowFits
  <2>5. u \notin overtaken => Converged(rows[u], handled, u)'
    BY <1>1, <1>4, <2>1 DEF Converged
  <2> QED BY <1>1, <2>4, <2>5
<1> QED BY <1>1, <1>3, <1>5, <1>6 DEF TableOK, Fits

LEMMA OneCommit ==
  ASSUME ConsumerInv, Applying \/ Advancing, Single
  PROVE  /\ Len(buf) = 1 /\ DOMAIN buf = {1} /\ Range(buf) = {buf[1]} /\ buf[1] \in Commits
<1>1. Len(buf) = 1 /\ buf \in Seq(Commits)
  BY DEF ConsumerInv, ConsumerTypes, BufOK
<1>2. DOMAIN buf = {1} /\ buf[1] \in Commits
  BY <1>1
<1> QED BY <1>1, <1>2 DEF Range

LEMMA ApplyTable ==
  ASSUME ConsumerInv, TableOK, ApplySingle \/ ApplyBatch
  PROVE  TableOK'
<1> DEFINE H2 == handled \cup {i \in Range(buf) : Whole(i)}
           O2 == overtaken \cup Overtaken(buf)
<1>1. rows' = WrittenAll(rows, buf) /\ handled' = H2 /\ overtaken' = O2 /\ log' = log
  <2>1. CASE ApplySingle
    <3>1. Len(buf) = 1 /\ Range(buf) = {buf[1]} /\ Whole(buf[1])
      BY <2>1, OneCommit DEF ApplySingle
    <3>2. PICK f : /\ f[0] = rows
                   /\ \A n \in 1..Len(buf) : f[n] = Written(f[n - 1], buf[n])
                   /\ f[Len(buf)] = WrittenAll(rows, buf)
      BY <3>1, WrittenThrough
    <3>3. f[1] = Written(f[0], buf[1])
      BY <3>1, <3>2
    <3>4. WrittenAll(rows, buf) = Written(rows, buf[1])
      BY <3>1, <3>2, <3>3
    <3> QED BY <2>1, <3>1, <3>4 DEF ApplySingle, environment
  <2>2. CASE ApplyBatch
    BY <2>2 DEF ApplyBatch, environment
  <2> QED BY <2>1, <2>2
<1>2. /\ WrittenAll(rows, buf) \in [Uris -> Row] /\ Taken(H2)
      /\ Fits(WrittenAll(rows, buf), H2, O2)
  BY WriteAll DEF ConsumerInv, ConsumerTypes
<1> HIDE DEF H2, O2
<1>3. rows' \in [Uris -> Row] /\ Taken(handled') /\ Fits(rows', handled', overtaken')
  BY <1>1, <1>2
<1>4. Taken(handled)'
  BY <1>1, <1>3 DEF Taken, Commits, Wanted, Whole
<1>5. Fits(rows, handled, overtaken)'
  BY <1>1, <1>3 DEF Fits, RowFits, Converged
<1> QED BY <1>3, <1>4, <1>5 DEF TableOK

(* Which variables a step that is neither an entry of the history nor a    *)
(* write leaves alone.                                                     *)
LEMMA Elsewhere ==
  ASSUME [Next]_vars
  PROVE  \/ \E e \in Event : Emit(e)
         \/ ApplySingle \/ ApplyBatch
         \/ UNCHANGED <<log, rows, handled, overtaken>>
<1>1. Reader => UNCHANGED <<log, rows, handled, overtaken>>
  BY DEF Reader, Dial, Connect, Receive, Send, SendFails, ReaderStops, environment, storeVars
<1>2. Worker => ApplySingle \/ ApplyBatch \/ UNCHANGED <<log, rows, handled, overtaken>>
  <2>1. Take \/ WorkerEnds \/ BeginDrain \/ DrainOne => UNCHANGED <<log, rows, handled, overtaken>>
    BY DEF Take, WorkerEnds, BeginDrain, DrainOne, environment, storeVars
  <2>2. DrainEnds \/ WorkerReturns => UNCHANGED <<log, rows, handled, overtaken>>
    BY DEF DrainEnds, WorkerReturns, environment, storeVars
  <2>3. RefuseSingle \/ RefuseBatch \/ Advance => UNCHANGED <<log, rows, handled, overtaken>>
    BY DEF RefuseSingle, RefuseBatch, Advance, environment
  <2> QED BY <2>1, <2>2, <2>3 DEF Worker
<1>3. Disconnect \/ Stop \/ Crash \/ Abort => UNCHANGED <<log, rows, handled, overtaken>>
  BY DEF Disconnect, Stop, Crash, Abort, storeVars
<1>4. Restart => UNCHANGED <<log, rows, handled, overtaken>>
  BY DEF Restart, Start, storeVars
<1>5. UNCHANGED vars => UNCHANGED <<log, rows, handled, overtaken>>
  BY DEF vars, environment, storeVars
<1> QED BY <1>1, <1>2, <1>3, <1>4, <1>5 DEF Next

LEMMA TableInit == ASSUME Init PROVE TableOK
<1>1. handled = {} /\ Absent \in Row /\ Absent.state = "absent"
  BY DEF Init, Absent, Row, RowStates
<1>2. \A u \in Uris : rows[u] = Absent
  BY DEF Init
<1>3. \A u \in Uris : RowFits(rows[u], handled, u) /\ Converged(rows[u], handled, u)
  BY <1>1, <1>2 DEF RowFits, Converged
<1> QED BY <1>1, <1>3 DEF Init, TableOK, Taken, Fits

LEMMA TableInvariance == Spec => [](ConsumerInv /\ TableOK)
<1>1. Init => ConsumerInv /\ TableOK
  BY InitInv, TableInit
<1>2. ConsumerInv /\ TableOK /\ [Next]_vars => ConsumerInv' /\ TableOK'
  BY ConsumerStep, Elsewhere, EmitTable, ApplyTable, SameTable
<1> QED BY <1>1, <1>2, PTL DEF Spec

-----------------------------------------------------------------------------
(* The order in which the store meets the commits: none that is still open *)
(* is behind one that is settled.                                          *)
SettledOK == \A j \in Settled : \A c \in Open : c > j

OrderInv == SettledOK /\ OrderKept

(* A URI that was overtaken before stays excused.                          *)
LEMMA ExcuseStays ==
  ASSUME ConsumerInv, OrderKept, Commits \subseteq Commits',
         \A i \in Commits : log'[i] = log[i],
         refused \subseteq refused', dropped \subseteq dropped',
         tail' = tail \/ tail' = Len(log)
  PROVE  \A u \in overtaken :
           \E i \in Commits' : log'[i].uri = u /\ (i \in refused' \cup dropped' \/ i <= tail')
<1> SUFFICES ASSUME NEW u \in overtaken
             PROVE  \E i \in Commits' : log'[i].uri = u /\ (i \in refused' \cup dropped' \/ i <= tail')
  OBVIOUS
<1>1. PICK i \in Commits : log[i].uri = u /\ (i \in refused \cup dropped \/ i <= tail)
  BY DEF OrderKept
<1>2. i \in Nat /\ i <= Len(log)
  BY CommitNumbers DEF ConsumerInv
<1>3. i <= tail => i <= tail'
  BY <1>2
<1> QED BY <1>1, <1>3

(* Nothing is settled, and nothing comes to be open.                       *)
LEMMA QuietOrder ==
  ASSUME ConsumerInv, OrderInv, UNCHANGED <<log, handled, refused, overtaken>>,
         dropped \subseteq dropped', tail' = tail \/ tail' = Len(log)
  PROVE  OrderInv'
<1>1. Commits' = Commits /\ Settled' = Settled
  BY DEF Commits, Wanted, Settled
<1>2. \A i \in Commits : i <= Len(log) /\ i \in Nat /\ Len(log) \in Nat
  BY CommitNumbers DEF ConsumerInv
<1>3. Open' \subseteq Open
  <2>1. CASE tail' = tail
    BY <1>1, <2>1 DEF Open
  <2>2. CASE tail' = Len(log)
    <3>1. \A i \in Commits : ~(tail' < i)
      BY <1>2, <2>2
    <3> QED BY <1>1, <3>1 DEF Open
  <2> QED BY <2>1, <2>2
<1>4. SettledOK'
  BY <1>1, <1>3 DEF OrderInv, SettledOK
<1>5. OrderKept'
  BY <1>1, ExcuseStays DEF OrderInv, OrderKept
<1> QED BY <1>4, <1>5 DEF OrderInv

LEMMA EmitOrder ==
  ASSUME ConsumerInv, TableOK, OrderInv, NEW e \in Event, Emit(e), refused \subseteq Commits
  PROVE  OrderInv'
<1> DEFINE n == Len(log) + 1
<1>1. /\ log' = Append(log, e) /\ UNCHANGED <<handled, refused, overtaken, dropped, tail>>
      /\ log \in Seq(Event) /\ Len(log) \in Nat /\ Commits \subseteq 1..Len(log)
  BY CommitNumbers DEF Emit, storeVars, ConsumerInv, ConsumerTypes
<1>2. /\ \A i \in 1..Len(log) : log'[i] = log[i]
      /\ DOMAIN log' = 1..n /\ DOMAIN log = 1..Len(log)
  BY <1>1, AppendProperties
<1>3. Commits \subseteq Commits' /\ Commits' \subseteq Commits \cup {n}
  BY <1>1, <1>2 DEF Commits, Wanted
<1>4. Settled' = Settled /\ Open' \subseteq Open \cup {n}
  BY <1>1, <1>3 DEF Settled, Open
<1>5. \A j \in Settled : n > j
  <2>1. Settled \subseteq Commits
    BY DEF Settled, TableOK, Taken
  <2> QED BY <1>1, <2>1
<1> HIDE DEF n
<1>6. SettledOK'
  BY <1>4, <1>5 DEF OrderInv, SettledOK
<1>7. \A i \in Commits : log'[i] = log[i]
  BY <1>1, <1>2
<1>8. OrderKept'
  BY <1>1, <1>3, <1>7, ExcuseStays DEF OrderInv, OrderKept
<1> QED BY <1>6, <1>8 DEF OrderInv

(* What the worker settles is behind what stays open.                      *)
LEMMA SettleBuf ==
  ASSUME ConsumerInv, SettledOK, Alive, UNCHANGED <<log, tail, dropped>>,
         Settled' = Settled \cup Range(buf)
  PROVE  SettledOK' /\ Commits' = Commits
<1>1. Commits' = Commits /\ Open' \subseteq Open /\ Open' \cap Range(buf) = {}
  BY DEF Commits, Wanted, Open
<1>2. \A c \in Range(buf) : \A j \in Open' : j > c
  BY <1>1, BufIsBehind DEF ConsumerInv, OrderOK
<1> QED BY <1>1, <1>2 DEF SettledOK

(* A commit that comes too late was not open any more.                     *)
LEMMA LateExcused ==
  ASSUME ConsumerInv, TableOK, SettledOK, Alive, NEW u \in Overtaken(buf)
  PROVE  \E i \in Commits : log[i].uri = u /\ (i \in refused \cup dropped \/ i <= tail)
<1>1. /\ buf \in Seq(Commits) /\ DOMAIN buf = 1..Len(buf) /\ Len(buf) \in Nat
      /\ tail \in Nat /\ Commits \subseteq Nat
  BY CommitNumbers DEF ConsumerInv, ConsumerTypes
<1>2. PICK k \in 1..Len(buf) : Late(buf, k) /\ u = log[buf[k]].uri
  BY <1>1, LateOvertaken
<1>3. buf[k] \in Commits
  BY <1>1
<1>4. PICK i \in Commits : i = buf[k]
  BY <1>3
<1>5. /\ Whole(i) /\ i \notin Before(buf, k)
      /\ \E j \in Before(buf, k) : j > i /\ log[j].uri = u
  BY <1>2, <1>4 DEF Late
<1>6. i \notin handled /\ \A m \in 1..(k - 1) : buf[m] # i
  BY <1>5 DEF Before
<1>7. i \notin Open
  <2> SUFFICES ASSUME i \in Open PROVE FALSE
    OBVIOUS
  <2>1. PICK j \in Before(buf, k) : j > i
    BY <1>5
  <2>2. CASE j \in handled
    <3>1. i > j
      BY <2>2 DEF SettledOK, Settled
    <3>2. j \in Nat /\ i \in Nat
      BY <1>1, <2>2 DEF TableOK, Taken
    <3> QED BY <2>1, <3>1, <3>2
  <2>3. CASE j \notin handled
    <3>1. PICK l \in 1..(k - 1) : buf[l] = j
      BY <2>3 DEF Before
    <3>2. l \in 1..Len(buf) /\ l \in Nat /\ k \in Nat /\ l < k
      BY <1>1
    <3>3. buf[l] \in Commits
      BY <1>1, <3>2
    <3>4. i < buf[l]
      BY <1>1, <2>1, <3>1, <3>3
    <3>5. PICK m \in 1..(l - 1) : buf[m] = i
      BY <1>1, <3>2, <3>4 DEF ConsumerInv, OrderOK, BufOrder
    <3>6. m \in 1..(k - 1)
      BY <3>2
    <3> QED BY <1>6, <3>5, <3>6
  <2> QED BY <2>2, <2>3
<1>8. i \in refused \cup dropped \/ ~(tail < i)
  BY <1>6, <1>7 DEF Open, Settled
<1>9. i \in refused \cup dropped \/ i <= tail
  BY <1>1, <1>8
<1> QED BY <1>2, <1>4, <1>9

LEMMA ApplyOrder ==
  ASSUME ConsumerInv, TableOK, OrderInv, ApplySingle \/ ApplyBatch
  PROVE  OrderInv'
<1>1. /\ UNCHANGED <<log, tail, dropped>> /\ Applying /\ Alive
      /\ refused \subseteq refused'
      /\ overtaken' = overtaken \cup Overtaken(buf)
      /\ Settled' = Settled \cup Range(buf)
  <2>1. Applying => Alive
    BY DEF Applying, Alive
  <2>2. CASE ApplySingle
    <3>1. Range(buf) = {buf[1]}
      BY <2>2, OneCommit DEF ApplySingle
    <3> QED BY <2>1, <2>2, <3>1 DEF ApplySingle, environment, Settled
  <2>3. CASE ApplyBatch
    BY <2>1, <2>3 DEF ApplyBatch, environment, Settled
  <2> QED BY <2>2, <2>3
<1>2. SettledOK' /\ Commits' = Commits
  BY <1>1, SettleBuf DEF OrderInv
<1>3. \A u \in overtaken :
        \E i \in Commits' : log'[i].uri = u /\ (i \in refused' \cup dropped' \/ i <= tail')
  BY <1>1, <1>2, ExcuseStays DEF OrderInv
<1>4. \A u \in Overtaken(buf) :
        \E i \in Commits' : log'[i].uri = u /\ (i \in refused' \cup dropped' \/ i <= tail')
  BY <1>1, <1>2, LateExcused DEF OrderInv
<1> QED BY <1>1, <1>2, <1>3, <1>4 DEF OrderInv, OrderKept

LEMMA ReleaseOrder ==
  ASSUME ConsumerInv, OrderInv, RefuseSingle \/ RefuseBatch \/ Advance
  PROVE  OrderInv'
<1>1. /\ UNCHANGED <<log, tail, dropped, overtaken>> /\ Alive
      /\ refused \subseteq refused'
      /\ Settled' = Settled \cup Range(buf)
  <2>1. (Applying \/ Advancing) => Alive
    BY DEF Applying, Advancing, Alive
  <2>2. CASE RefuseSingle
    <3>1. Range(buf) = {buf[1]}
      BY <2>2, OneCommit DEF RefuseSingle
    <3> QED BY <2>1, <2>2, <3>1 DEF RefuseSingle, environment, Settled
  <2>3. CASE RefuseBatch
    BY <2>1, <2>3 DEF RefuseBatch, environment, Settled
  <2>4. CASE Advance
    <3>1. Advancing /\ Range(buf) \subseteq Settled
      BY <2>4 DEF Advance, Advancing, ConsumerInv, BufOK
    <3> QED BY <2>1, <2>4, <3>1 DEF Advance, environment, Settled
  <2> QED BY <2>2, <2>3, <2>4
<1>2. SettledOK' /\ Commits' = Commits
  BY <1>1, SettleBuf DEF OrderInv
<1>3. OrderKept'
  BY <1>1, <1>2, ExcuseStays DEF OrderInv, OrderKept
<1> QED BY <1>2, <1>3 DEF OrderInv


LEMMA OrderStep ==
  ASSUME ConsumerInv, TableOK, OrderInv, refused \subseteq Commits, [Next]_vars
  PROVE  OrderInv'
<1>1. CASE \E e \in Event : Emit(e)
  BY <1>1, EmitOrder
<1>2. CASE Reader
  <2>1. /\ UNCHANGED <<log, handled, refused, overtaken, dropped>>
        /\ tail' = tail \/ tail' = Len(log)
    BY <1>2 DEF Reader, Dial, Connect, Receive, Send, SendFails, ReaderStops, environment, storeVars
  <2> QED BY <2>1, QuietOrder
<1>3. CASE Take \/ WorkerEnds \/ BeginDrain \/ DrainOne \/ DrainEnds \/ WorkerReturns
  <2>1. UNCHANGED <<log, handled, refused, overtaken, dropped, tail>>
    BY <1>3 DEF Take, WorkerEnds, BeginDrain, DrainOne, DrainEnds, WorkerReturns,
                environment, storeVars
  <2> QED BY <2>1, QuietOrder
<1>4. CASE ApplySingle \/ ApplyBatch
  BY <1>4, ApplyOrder
<1>5. CASE RefuseSingle \/ RefuseBatch \/ Advance
  BY <1>5, ReleaseOrder
<1>6. CASE Disconnect \/ Stop \/ Crash \/ Abort
  <2>1. UNCHANGED <<log, handled, refused, overtaken, dropped, tail>>
    BY <1>6 DEF Disconnect, Stop, Crash, Abort, storeVars
  <2> QED BY <2>1, QuietOrder
<1>7. CASE Restart
  <2>1. UNCHANGED <<log, handled, refused, overtaken, tail>> /\ dropped \subseteq dropped'
    BY <1>7 DEF Restart, Start, storeVars
  <2> QED BY <2>1, QuietOrder
<1>8. CASE UNCHANGED vars
  <2>1. UNCHANGED <<log, handled, refused, overtaken, dropped, tail>>
    BY <1>8 DEF vars, environment, storeVars
  <2> QED BY <2>1, QuietOrder
<1> QED BY <1>1, <1>2, <1>3, <1>4, <1>5, <1>6, <1>7, <1>8 DEF Next, Worker

-----------------------------------------------------------------------------
(* The bounds and sets that ConsumerTypes and TableOK leave out.           *)
BoundsOK ==
  /\ Len(chan) <= Capacity /\ batch \in BatchSizes
  /\ drops \in 0..MaxDrops /\ stops \in 0..MaxStops
  /\ refused \in SUBSET Commits /\ atStop \in SUBSET Commits /\ dropped \in SUBSET Commits

(* The channel of the next state is no longer than the channel, or has     *)
(* room for one more.                                                      *)
LEMMA ChanBound ==
  ASSUME ConsumerInv, BoundsOK, [Next]_vars
  PROVE  Len(chan') <= Capacity
<1>1. /\ chan \in Seq(Commits) /\ Len(chan) \in Nat /\ Capacity \in Nat \ {0}
      /\ Len(chan) <= Capacity /\ hand \in {0} \cup Commits /\ batch \in Nat \ {0}
  BY ConsumerAssumption DEF ConsumerInv, ConsumerTypes, BoundsOK
<1>2. CASE chan' = chan
  BY <1>1, <1>2
<1>3. CASE chan' = <<>>
  <2>1. Len(<<>>) = 0
    OBVIOUS
  <2> QED BY <1>1, <1>3, <2>1
<1>4. CASE Send
  <2>1. chan' = Append(chan, hand) /\ hand \in Commits /\ Len(chan) < Capacity
    BY <1>1, <1>4 DEF Send
  <2>2. Len(chan') = Len(chan) + 1
    BY <1>1, <2>1, AppendProperties
  <2> QED BY <1>1, <2>1, <2>2
<1>5. CASE Take
  <2> DEFINE n == IF batch <= Len(chan) THEN batch ELSE Len(chan)
  <2>1. chan' = SubSeq(chan, n + 1, Len(chan))
    BY <1>5 DEF Take
  <2>2. n \in 0..Len(chan)
    BY <1>1
  <2> HIDE DEF n
  <2>3. Len(chan') = Len(chan) - n
    BY <1>1, <2>1, <2>2, Split
  <2> QED BY <1>1, <2>2, <2>3
<1>6. CASE DrainOne
  <2>1. chan' = Tail(chan) /\ chan # <<>>
    BY <1>6 DEF DrainOne
  <2>2. Len(chan') = Len(chan) - 1
    BY <1>1, <2>1, HeadTailProperties
  <2> QED BY <1>1, <2>2
<1>7. \/ chan' = chan \/ chan' = <<>> \/ Send \/ Take \/ DrainOne
  <2>1. Reader => chan' = chan \/ Send
    BY DEF Reader, Dial, Connect, Receive, SendFails, ReaderStops
  <2>2. WorkerEnds \/ BeginDrain \/ DrainEnds \/ WorkerReturns => chan' = chan \/ chan' = <<>>
    BY DEF WorkerEnds, BeginDrain, DrainEnds, WorkerReturns
  <2>3. ApplySingle \/ ApplyBatch \/ RefuseSingle \/ RefuseBatch \/ Advance => chan' = chan
    BY DEF ApplySingle, ApplyBatch, RefuseSingle, RefuseBatch, Advance
  <2>4. Disconnect \/ Stop \/ Crash \/ Abort \/ Restart => chan' = chan \/ chan' = <<>>
    BY DEF Disconnect, Stop, Crash, Abort, Restart, Start
  <2>5. (\E e \in Event : Emit(e)) \/ UNCHANGED vars => chan' = chan
    BY DEF Emit, vars
  <2> QED BY <2>1, <2>2, <2>3, <2>4, <2>5 DEF Next, Worker
<1> QED BY <1>2, <1>3, <1>4, <1>5, <1>6, <1>7

LEMMA BoundsStep ==
  ASSUME ConsumerInv, BoundsOK, [Next]_vars
  PROVE  BoundsOK'
<1>1. Len(chan') <= Capacity
  BY ChanBound
<1>2. ASSUME UNCHANGED <<log, batch, refused>>, drops' \in 0..MaxDrops, stops' \in 0..MaxStops,
             atStop' \in SUBSET Commits, dropped' \in SUBSET Commits
      PROVE  BoundsOK'
  <2>1. Commits' = Commits
    BY <1>2 DEF Commits, Wanted
  <2> QED BY <1>1, <1>2, <2>1 DEF BoundsOK
<1>3. /\ drops \in 0..MaxDrops /\ stops \in 0..MaxStops /\ MaxDrops \in Nat /\ MaxStops \in Nat
      /\ refused \in SUBSET Commits /\ atStop \in SUBSET Commits /\ dropped \in SUBSET Commits
      /\ batch \in BatchSizes /\ chan \in Seq(Commits) /\ buf \in Seq(Commits)
  BY ConsumerAssumption DEF ConsumerInv, ConsumerTypes, BoundsOK
<1>4. CASE UNCHANGED <<log, batch, refused, drops, stops, atStop, dropped>>
  BY <1>2, <1>3, <1>4
<1>5. ASSUME NEW e \in Event, Emit(e)
      PROVE  BoundsOK'
  <2>1. Commits \subseteq Commits'
    <3>1. log' = Append(log, e) /\ log \in Seq(Event)
      BY <1>5 DEF Emit, ConsumerInv, ConsumerTypes
    <3>2. \A i \in DOMAIN log : i \in DOMAIN log' /\ log'[i] = log[i]
      BY <3>1
    <3> QED BY <3>2 DEF Commits, Wanted
  <2> QED BY <1>1, <1>3, <1>5, <2>1 DEF Emit, storeVars, BoundsOK
<1>6. CASE Reader
  BY <1>4, <1>6 DEF Reader, Dial, Connect, Receive, Send, SendFails, ReaderStops, environment, storeVars
<1>7. CASE Take \/ WorkerEnds \/ BeginDrain \/ DrainOne \/ DrainEnds \/ WorkerReturns
  BY <1>4, <1>7 DEF Take, WorkerEnds, BeginDrain, DrainOne, DrainEnds, WorkerReturns,
                    environment, storeVars
<1>8. CASE ApplySingle \/ RefuseSingle \/ ApplyBatch \/ RefuseBatch \/ Advance
  <2>1. UNCHANGED <<log, batch, drops, stops, atStop, dropped>>
    BY <1>8 DEF ApplySingle, RefuseSingle, ApplyBatch, RefuseBatch, Advance, environment
  <2>2. Range(buf) \subseteq Commits
    BY <1>3, RangeMembers
  <2>3. refused' \in SUBSET Commits
    <3>1. CASE RefuseSingle
      BY <1>3, <3>1, OneCommit DEF RefuseSingle
    <3>2. CASE ApplyBatch \/ RefuseBatch
      BY <1>3, <2>2, <3>2 DEF ApplyBatch, RefuseBatch
    <3>3. CASE ApplySingle \/ Advance
      BY <1>3, <3>3 DEF ApplySingle, Advance
    <3> QED BY <1>8, <3>1, <3>2, <3>3
  <2>4. Commits' = Commits
    BY <2>1 DEF Commits, Wanted
  <2> QED BY <1>1, <1>3, <2>1, <2>3, <2>4 DEF BoundsOK
<1>9. CASE Disconnect
  <2>1. drops' = drops + 1 /\ drops < MaxDrops
        /\ UNCHANGED <<log, batch, refused, stops, atStop, dropped>>
    BY <1>9 DEF Disconnect, storeVars
  <2>2. drops' \in 0..MaxDrops
    BY <1>3, <2>1
  <2> QED BY <1>2, <1>3, <2>1, <2>2
<1>10. CASE Stop \/ Crash \/ Abort
  <2>1. /\ stops' = stops + 1 /\ stops < MaxStops
        /\ UNCHANGED <<log, batch, refused, drops, dropped>>
        /\ atStop' = Range(buf \o chan) \/ atStop' = {}
    BY <1>10 DEF Stop, Crash, Abort, storeVars
  <2>2. stops' \in 0..MaxStops
    BY <1>3, <2>1
  <2>3. Range(buf \o chan) \subseteq Commits
    <3>1. buf \o chan \in Seq(Commits)
      BY <1>3, ConcatProperties
    <3> HIDE <1>3
    <3> QED BY <3>1, RangeMembers
  <2> QED BY <1>2, <1>3, <2>1, <2>2, <2>3
<1>11. ASSUME NEW fresh \in BOOLEAN, Start(fresh)
       PROVE  BoundsOK'
  <2>1. /\ UNCHANGED <<log, batch, refused, drops, stops>> /\ atStop' = {}
        /\ dropped' = IF fresh THEN dropped ELSE dropped \cup Behind(mem)
    BY <1>11 DEF Start, storeVars
  <2>2. Behind(mem) \subseteq Commits
    BY DEF Behind
  <2>3. dropped' \in SUBSET Commits
    BY <1>3, <2>1, <2>2
  <2> QED BY <1>2, <1>3, <2>1, <2>3
<1>12. CASE UNCHANGED vars
  BY <1>4, <1>12 DEF vars, environment, storeVars
<1> QED
  BY <1>5, <1>6, <1>7, <1>8, <1>9, <1>10, <1>11, <1>12 DEF Next, Worker, Restart

LEMMA BoundsInit == ASSUME Init PROVE BoundsOK
BY ConsumerAssumption DEF Init, BoundsOK

LEMMA OrderInit == ASSUME Init PROVE OrderInv
BY DEF Init, OrderInv, SettledOK, OrderKept, Settled

LEMMA FullInvariance == Spec => [](ConsumerInv /\ TableOK /\ BoundsOK /\ OrderInv)
<1>1. Init => ConsumerInv /\ TableOK /\ BoundsOK /\ OrderInv
  BY InitInv, TableInit, BoundsInit, OrderInit
<1>2. BoundsOK => refused \subseteq Commits
  BY DEF BoundsOK
<1>3. ConsumerInv /\ TableOK /\ BoundsOK /\ OrderInv /\ [Next]_vars => BoundsOK' /\ OrderInv'
  BY <1>2, BoundsStep, OrderStep
<1> QED BY <1>1, <1>3, TableInvariance, PTL DEF Spec


-----------------------------------------------------------------------------
(* Whatever the history, the failures and the restarts, no commit at or    *)
(* behind the persisted cursor is lost without being counted: the worker   *)
(* (consumer.rs:735-835) persists a time only after the store call of its  *)
(* commit and of every earlier one it had to settle.                       *)
THEOREM CheckpointNeverAhead == Spec => []CheckpointCovered
<1>1. ConsumerInv => CheckpointCovered
  <2> SUFFICES ASSUME ConsumerInv, NEW i \in Behind(disk) PROVE i \in dropped
    BY DEF CheckpointCovered
  <2>1. i \in Commits /\ tail < i /\ i <= disk /\ i \notin Settled
    BY DEF Behind
  <2>2. disk \in Nat /\ i \in Nat
    <3>1. Commits \subseteq Nat
      BY CommitNumbers DEF ConsumerInv
    <3> QED
      BY <2>1, <3>1 DEF ConsumerInv, ConsumerTypes
  <2>3. i \notin Open
    BY <2>1, <2>2 DEF ConsumerInv, CheckpointOK
  <2> QED
    BY <2>1, <2>3 DEF Open
<1> QED
  BY <1>1, Invariance, PTL

(* A reconnection resumes at the watermark, which heartbeats and filtered  *)
(* commits advance past commits still queued (consumer.rs:608-636): each   *)
(* commit up to it is settled or on its way, whatever the capacity.        *)
THEOREM WatermarkNeverAhead == Spec => []WatermarkCovered
<1>1. ConsumerInv => WatermarkCovered
  <2> SUFFICES ASSUME ConsumerInv, Alive, NEW i \in Behind(mem), i \notin dropped
               PROVE  i \in Range(Pipeline)
    BY DEF WatermarkCovered, Alive
  <2>1. i \in Commits /\ tail < i /\ i <= mem /\ i \notin Settled
    BY DEF Behind
  <2>2. i \in Held /\ i # 0
    <3>1. i \in Open
      BY <2>1 DEF Open
    <3>2. 0 \notin Commits
      BY CommitNumbers DEF ConsumerInv
    <3> QED
      BY <2>1, <3>1, <3>2 DEF ConsumerInv, OrderOK, MarkOrder
  <2> DEFINE last == IF hand = 0 THEN <<>> ELSE <<hand>>
  <2>3. buf \in Seq(Commits) /\ chan \in Seq(Commits) /\ last \in Seq(Commits)
    <3>1. hand # 0 => <<hand>> \in Seq(Commits)
      BY DEF ConsumerInv, ConsumerTypes
    <3>2. <<>> \in Seq(Commits)
      OBVIOUS
    <3> QED
      BY <3>1, <3>2 DEF ConsumerInv, ConsumerTypes
  <2>4. hand # 0 => hand \in Range(last)
    BY DEF Range
  <2> HIDE DEF last
  <2>5. buf \o chan \in Seq(Commits) /\ Range(buf \o chan) = Range(buf) \cup Range(chan)
    BY <2>3, RangeConcatenation
  <2> DEFINE both == buf \o chan
  <2>6. Range(both \o last) = Range(both) \cup Range(last)
    <3>1. both \in Seq(Commits)
      BY <2>5
    <3> HIDE DEF both
    <3> QED
      BY <2>3, <3>1, RangeConcatenation
  <2>7. Pipeline = both \o last
    BY DEF Pipeline, last
  <2> QED
    BY <2>2, <2>4, <2>5, <2>6, <2>7 DEF Held
<1> QED
  BY <1>1, Invariance, PTL

(* A clean stop flushes what the worker and the channel had                *)
(* (consumer.rs:697-702, 716-722), in both modes and with failing calls.   *)
THEOREM StopAlwaysFlushes == Spec => []StopFlushes
<1>1. ConsumerInv => StopFlushes
  BY DEF ConsumerInv, StopOK, StopFlushes
<1> QED
  BY <1>1, Invariance, PTL

(* Every variable stays in its set: the channel keeps its capacity, the    *)
(* persisted cursor is 0 or the time of a commit, and what is counted is   *)
(* counted once for a commit of the history.                               *)
THEOREM ConsumerTypeCorrect == Spec => []TypeOK
<1>1. ConsumerInv /\ TableOK /\ BoundsOK => TypeOK
  BY DEF ConsumerInv, ConsumerTypes, TableOK, Taken, BoundsOK, TypeOK
<1> QED BY <1>1, FullInvariance, PTL

(* Replays change nothing (the ON CONFLICT condition with time_us as the   *)
(* time of the row): however reconnections, restarts and failing calls     *)
(* repeat commits, one by one or in batches of any size, the row of a URI  *)
(* is what its newest commit written so far made it, if the store first    *)
(* met the URI's commits in their order.                                   *)
THEOREM ReplaysAlwaysConverge == Spec => []ReplaysConverge
<1>1. ConsumerInv /\ TableOK => ReplaysConverge
  <2> SUFFICES ASSUME ConsumerInv, TableOK, NEW u \in Uris \ overtaken
               PROVE  LET last == LastHandled(u)
                      IN IF last # 0 /\ log[last].kind = "upsert" THEN rows[u] = Live(Rec, last)
                                                                 ELSE ~Visible(rows[u])
    BY DEF ReplaysConverge
  <2> DEFINE own == {i \in handled : log[i].uri = u}
             last == LastHandled(u)
  <2>1. RowFits(rows[u], handled, u) /\ Converged(rows[u], handled, u)
    BY DEF TableOK, Fits
  <2>2. own \subseteq 1..Len(log) /\ own \in SUBSET (0..Len(log)) /\ Len(log) \in Nat
    BY CommitNumbers DEF ConsumerInv, TableOK, Taken
  <2>3. CASE own = {}
    <3>1. last = 0
      BY <2>3 DEF LastHandled
    <3>2. ~Visible(rows[u])
      BY <2>1, <2>3 DEF RowFits, Visible
    <3> QED BY <3>1, <3>2
  <2>4. CASE own # {}
    <3>1. \E i \in own : \A j \in own : i >= j
      BY <2>2, <2>4, Largest
    <3>2. last \in own /\ \A j \in own : last >= j
      BY <2>4, <3>1 DEF LastHandled
    <3>3. last # 0
      BY <2>2, <3>2
    <3> HIDE DEF last
    <3>4. last \in handled /\ log[last].uri = u /\ \A j \in handled : log[j].uri = u => last >= j
      BY <3>2
    <3>5. IF log[last].kind = "upsert" THEN rows[u] = Live(Rec, last) ELSE ~Visible(rows[u])
      BY <2>1, <3>4 DEF Converged
    <3> QED BY <3>3, <3>5 DEF last
  <2> QED BY <2>3, <2>4
<1> QED BY <1>1, TableInvariance, PTL

(* And the store does meet them in their order: commits leave the channel  *)
(* in the order of the history, and a reconnection or a restart never      *)
(* skips one, short of a refused commit, a subscription without a cursor   *)
(* or a watermark ahead of it.                                             *)
THEOREM OrderAlwaysKept == Spec => []OrderKept
<1>1. OrderInv => OrderKept
  BY DEF OrderInv
<1> QED BY <1>1, FullInvariance, PTL
=============================================================================
