----------------------------- MODULE TidGenerator -----------------------------
(***************************************************************************)
(* The lock-free generator of record keys of src/src/repo/tid.rs: threads  *)
(* read the wall clock, load the last value issued, and try to replace it  *)
(* by a larger one with compare_exchange_weak until one attempt succeeds.  *)
(*                                                                         *)
(* The clock is not monotonic, a weak compare-exchange may fail although   *)
(* the value is the expected one, and the loads are Relaxed: they return   *)
(* any value the location has held, no older than one the thread saw.      *)
(***************************************************************************)
EXTENDS Integers, Sequences

CONSTANTS
  Threads,
  Clocks,     \* what SystemTime may read, in microseconds
  TimeMod,    \* the clock is cut to 53 bits: 2^53
  Ticks,      \* values per microsecond: 2^10
  MaxVal,     \* u64::MAX
  Base,       \* the 32 digits of the string
  Width,      \* its 13 places
  MaxCalls    \* bound on the TIDs issued

ASSUME TidAssumption ==
  /\ Clocks \subseteq Nat
  /\ TimeMod \in Nat \ {0}
  /\ Ticks \in Nat \ {0}
  /\ MaxVal \in Nat
  /\ TimeMod * Ticks <= MaxVal
  /\ Base \in Nat \ {0, 1}
  /\ Width \in Nat
  /\ MaxCalls \in Nat

VARIABLES
  last,       \* last_val
  tids,       \* the values issued, in the order of their compare-exchange
  running,    \* the threads inside next_tid
  candidate,  \* thread -> candidate_base of its call
  current     \* thread -> what it believes last_val to be

vars == <<last, tids, running, candidate, current>>

-----------------------------------------------------------------------------
CandidateBase(now) == (now % TimeMod) * Ticks

(* Faulty variants the run catches: an overflow, an increment of a whole   *)
(* microsecond; below, a store without compare.                            *)
NextValOverflows(base, cur) == IF base > cur THEN base ELSE cur + 1
NextValSkips(base, cur) ==
  IF base > cur THEN base ELSE IF cur + Ticks < MaxVal THEN cur + Ticks ELSE MaxVal

(* The next value: the clock's if it is ahead, or else one more, stuck at  *)
(* u64::MAX (saturating_add).                                              *)
NextVal(base, cur) ==
  IF base > cur THEN base ELSE IF cur < MaxVal THEN cur + 1 ELSE MaxVal

(* A value and what is left of it each time a digit has been taken off.    *)
Shifted(v) ==
  LET rest[k \in 0..Width] == IF k = 0 THEN v ELSE rest[k - 1] \div Base IN rest

(* The digits of the longest value fit the places: 64 bits, 13 times 5.    *)
ASSUME PlacesAssumption == Shifted(MaxVal)[Width] = 0

(* encode_tid_base32: the digits, taken off from the last place to the     *)
(* first.  A faulty variant fills the places from the first on.            *)
EncodeReversed(v) == [i \in 1..Width |-> Shifted(v)[i - 1] % Base]

Encode(v) == [i \in 1..Width |-> Shifted(v)[Width - i] % Base]

(* decode_tid_timestamp_us: the microseconds, or -1 when the reserved top  *)
(* bit is set.                                                             *)
Decode(digits) ==
  LET place[i \in 0..Width] == IF i = 0 THEN 0 ELSE place[i - 1] * Base + digits[i]
      v == place[Width]
  IN IF v >= TimeMod * Ticks THEN -1 ELSE v \div Ticks

-----------------------------------------------------------------------------
(* What a Relaxed load of last_val may return to a thread that has seen    *)
(* the value "old".                                                        *)
Loads(old) == {v \in {0} \cup {tids[i] : i \in DOMAIN tids} : v >= old}

Init ==
  /\ last = 0
  /\ tids = <<>>
  /\ running = {}
  /\ candidate = [t \in Threads |-> 0]
  /\ current = [t \in Threads |-> 0]

(* next_tid up to the loop.                                                *)
Begin(t, now) ==
  /\ t \notin running
  /\ Len(tids) < MaxCalls
  /\ running' = running \cup {t}
  /\ candidate' = [candidate EXCEPT ![t] = CandidateBase(now)]
  /\ \E v \in Loads(current[t]) : current' = [current EXCEPT ![t] = v]
  /\ UNCHANGED <<last, tids>>

ExchangeBlindly(t) ==
  LET val == NextVal(candidate[t], current[t])
  IN /\ t \in running
     /\ Len(tids) < MaxCalls
     /\ last' = val
     /\ tids' = Append(tids, val)
     /\ running' = running \ {t}
     /\ current' = [current EXCEPT ![t] = val]
     /\ UNCHANGED candidate

(* The compare-exchange succeeds and the call returns.                     *)
Exchange(t) ==
  LET val == NextVal(candidate[t], current[t])
  IN /\ t \in running
     /\ Len(tids) < MaxCalls
     /\ current[t] = last
     /\ last' = val
     /\ tids' = Append(tids, val)
     /\ running' = running \ {t}
     /\ current' = [current EXCEPT ![t] = val]
     /\ UNCHANGED candidate

(* It fails, perhaps spuriously, and reports some value of last_val.       *)
Retry(t) ==
  /\ t \in running
  /\ \E v \in Loads(current[t]) : current' = [current EXCEPT ![t] = v]
  /\ UNCHANGED <<last, tids, running, candidate>>

Next ==
  \E t \in Threads :
    \/ \E now \in Clocks : Begin(t, now)
    \/ Exchange(t)
    \/ Retry(t)

Spec == Init /\ [][Next]_vars

-----------------------------------------------------------------------------
(* Every variable stays in its set: all the values fit a u64, and what the *)
(* clock gives leaves the top bit clear.                                   *)
TypeOK ==
  /\ last \in 0..MaxVal
  /\ tids \in Seq(0..MaxVal) /\ Len(tids) <= MaxCalls
  /\ running \in SUBSET Threads
  /\ candidate \in [Threads -> 0..(TimeMod * Ticks - 1)]
  /\ current \in [Threads -> 0..MaxVal]

(* TIDs are strictly increasing in the order they are issued, so no two    *)
(* are the same, whatever the clocks, the threads and the stale loads do:  *)
(* only a counter stuck at u64::MAX repeats itself.                        *)
StrictlyIncreasing ==
  \A i, j \in DOMAIN tids :
    i < j => tids[i] < tids[j] \/ (tids[i] = MaxVal /\ tids[j] = MaxVal)

(* The strings sort as the values do and decode to the microseconds they   *)
(* were made from: the 13 places hold all 64 bits, and a counter that runs *)
(* ahead of the clock carries into the time without touching the top bit.  *)
Less(a, b) ==
  \E k \in 1..Width : a[k] < b[k] /\ \A m \in 1..(k - 1) : a[m] = b[m]

SortableStrings ==
  /\ \A i, j \in DOMAIN tids : tids[i] < tids[j] => Less(Encode(tids[i]), Encode(tids[j]))
  /\ \A i \in DOMAIN tids :
       Decode(Encode(tids[i])) = IF tids[i] < TimeMod * Ticks THEN tids[i] \div Ticks ELSE -1

(* The time in a TID is one some clock showed, give or take the TIDs there *)
(* are: a clock that stands still or jumps back makes the generator run    *)
(* ahead of it by no more than one value per TID, never behind it.         *)
NearSomeClock ==
  \A i \in DOMAIN tids :
    \E now \in Clocks : CandidateBase(now) <= tids[i] /\ tids[i] <= CandidateBase(now) + i
=============================================================================
