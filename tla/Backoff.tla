------------------------------- MODULE Backoff -------------------------------
(***************************************************************************)
(* The reconnect delays of src/src/ingest/backoff.rs, in milliseconds: an  *)
(* exponential base with a cap, a jitter in percent around it, a floor,    *)
(* and a reset.                                                            *)
(***************************************************************************)
EXTENDS Integers

CONSTANTS
  Floor,    \* MIN_BACKOFF_FLOOR_MS
  Percent,  \* the jitter asked for
  Drawn     \* the jitter offsets the pseudo-random generator may draw

Least(a, b)    == IF a <= b THEN a ELSE b
Greatest(a, b) == IF a >= b THEN a ELSE b

(* with_jitter.                                                            *)
Jitter == Least(Percent, 100)

ASSUME BackoffAssumption ==
  /\ Floor \in Nat \ {0}
  /\ Percent \in Nat
  /\ Drawn \subseteq -Jitter..Jitter

(* BackoffManager::new.                                                    *)
NewBackoff(initial, max) ==
  LET safe == Greatest(initial, Floor)
  IN [initial |-> safe, max |-> Greatest(max, safe), delay |-> safe, failures |-> 0]

-----------------------------------------------------------------------------
(* A faulty variant of AfterFailure: the cap is forgotten.                 *)
AfterFailureUncapped(b) == [b EXCEPT !.failures = @ + 1, !.delay = 2 * @]

(* next_backoff: the state it leaves and the delays it may return.  The    *)
(* jitter is taken of the base and not capped again.                       *)
AfterFailure(b) == [b EXCEPT !.failures = @ + 1, !.delay = Least(2 * @, b.max)]

Jittered(base, offset) ==
  Greatest(Floor, IF offset >= 0 THEN base + (base * offset) \div 100
                                 ELSE base - (base * (-offset)) \div 100)

Delays(b) == {Jittered(b.delay, offset) : offset \in Drawn}

(* reset, on every frame that parses.                                      *)
Reset(b) == [b EXCEPT !.failures = 0, !.delay = b.initial]
=============================================================================
