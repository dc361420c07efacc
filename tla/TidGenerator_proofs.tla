------------------------ MODULE TidGenerator_proofs ------------------------
(***************************************************************************)
(* Proofs about TidGenerator: the values stay in a u64, they are strictly  *)
(* increasing, and each is near the clock it was made from, for any number *)
(* of threads and whatever the clock does; and their strings sort as they  *)
(* do and decode to the time in them, for any base and number of places    *)
(* that hold a u64.                                                        *)
(***************************************************************************)
EXTENDS TidGenerator, SequenceTheorems, WellFoundedInduction, TLAPS

(* The last value issued is the one in last_val, and the largest.          *)
LastIsNewest ==
  /\ last = IF tids = <<>> THEN 0 ELSE tids[Len(tids)]
  /\ \A i \in DOMAIN tids : tids[i] <= last

(* No thread believes in a value that was never reached.                   *)
CurrentBehind == \A t \in Threads : current[t] <= last

(* A thread inside next_tid holds the value of some clock reading.         *)
CandidateFromClock ==
  \A t \in running : \E now \in Clocks : candidate[t] = CandidateBase(now)

(* The inductive invariant.                                                *)
TidInv ==
  /\ TypeOK
  /\ LastIsNewest
  /\ CurrentBehind
  /\ CandidateFromClock
  /\ StrictlyIncreasing
  /\ NearSomeClock

-----------------------------------------------------------------------------
(* The masked clock, shifted, leaves the top bit clear.                    *)
LEMMA CandidateRange ==
  ASSUME NEW now \in Clocks
  PROVE  CandidateBase(now) \in 0..(TimeMod * Ticks - 1)
<1> DEFINE r == now % TimeMod
<1>1. now \in Nat /\ TimeMod \in Nat \ {0} /\ Ticks \in Nat \ {0}
  BY TidAssumption
<1>2. r \in 0..(TimeMod - 1)
  BY <1>1
<1> HIDE DEF r
<1>3. r * Ticks \in Nat /\ TimeMod * Ticks \in Nat
  BY <1>1, <1>2
<1>4. r * Ticks + Ticks = (r + 1) * Ticks
  BY <1>1, <1>2
<1>5. (r + 1) * Ticks <= TimeMod * Ticks
  <2>1. TimeMod = (r + 1) + (TimeMod - (r + 1)) /\ TimeMod - (r + 1) \in Nat
    BY <1>1, <1>2
  <2>2. TimeMod * Ticks = (r + 1) * Ticks + (TimeMod - (r + 1)) * Ticks
    BY <1>1, <1>2, <2>1
  <2>3. (TimeMod - (r + 1)) * Ticks \in Nat
    BY <1>1, <2>1
  <2> QED BY <1>1, <1>2, <2>2, <2>3
<1> QED BY <1>1, <1>3, <1>4, <1>5 DEF CandidateBase, r

(* The next value is a u64, not below the last one, and equal to it only   *)
(* at the top.                                                             *)
LEMMA NextValGrows ==
  ASSUME NEW base \in 0..(TimeMod * Ticks - 1), NEW cur \in 0..MaxVal
  PROVE  /\ NextVal(base, cur) \in 0..MaxVal
         /\ NextVal(base, cur) >= cur
         /\ NextVal(base, cur) > cur \/ (cur = MaxVal /\ NextVal(base, cur) = MaxVal)
<1>1. MaxVal \in Nat /\ TimeMod * Ticks \in Nat /\ TimeMod * Ticks <= MaxVal
  BY TidAssumption
<1> QED BY <1>1 DEF NextVal

(* A load shows 0 or a value issued, which is at most the last one.        *)
LEMMA LoadsBehind ==
  ASSUME TypeOK, LastIsNewest, NEW old, NEW v \in Loads(old)
  PROVE  v \in 0..MaxVal /\ v <= last
<1>1. CASE v = 0
  BY <1>1, TidAssumption DEF TypeOK
<1>2. CASE v # 0
  <2>1. PICK i \in DOMAIN tids : v = tids[i]
    BY <1>2 DEF Loads
  <2>2. tids \in Seq(0..MaxVal)
    BY DEF TypeOK
  <2>3. v \in 0..MaxVal
    BY <2>1, <2>2, ElementOfSeq, LenProperties
  <2>4. v <= last
    BY <2>1 DEF LastIsNewest
  <2> QED BY <2>3, <2>4
<1> QED BY <1>1, <1>2

-----------------------------------------------------------------------------
(* The initial state.                                                      *)
LEMMA TidInit == Init => TidInv
<1> SUFFICES ASSUME Init PROVE TidInv
  OBVIOUS
<1>1. MaxVal \in Nat /\ MaxCalls \in Nat /\ TimeMod * Ticks - 1 \in Nat
  BY TidAssumption
<1>2. DOMAIN tids = {} /\ Len(tids) = 0 /\ tids \in Seq(0..MaxVal)
  BY DEF Init
<1>3. TypeOK
  BY <1>1, <1>2 DEF Init, TypeOK
<1>4. LastIsNewest /\ CurrentBehind
  BY <1>2 DEF Init, LastIsNewest, CurrentBehind
<1>5. CandidateFromClock
  BY DEF Init, CandidateFromClock
<1>6. StrictlyIncreasing /\ NearSomeClock
  BY <1>2 DEF StrictlyIncreasing, NearSomeClock
<1> QED BY <1>3, <1>4, <1>5, <1>6 DEF TidInv

(* A thread enters: it reads the clock and loads a value.                  *)
LEMMA TidBegin ==
  ASSUME TidInv, NEW t \in Threads, NEW now \in Clocks, Begin(t, now)
  PROVE  TidInv'
<1>1. PICK v \in Loads(current[t]) : current' = [current EXCEPT ![t] = v]
  BY DEF Begin
<1>2. v \in 0..MaxVal /\ v <= last
  BY LoadsBehind DEF TidInv
<1>3. CandidateBase(now) \in 0..(TimeMod * Ticks - 1)
  BY CandidateRange
<1>4. TypeOK'
  BY <1>1, <1>2, <1>3 DEF TidInv, TypeOK, Begin
<1>5. LastIsNewest' /\ StrictlyIncreasing' /\ NearSomeClock'
  BY DEF TidInv, Begin, LastIsNewest, StrictlyIncreasing, NearSomeClock
<1>6. CurrentBehind'
  BY <1>1, <1>2 DEF TidInv, TypeOK, Begin, CurrentBehind
<1>7. CandidateFromClock'
  BY DEF TidInv, TypeOK, Begin, CandidateFromClock
<1> QED BY <1>4, <1>5, <1>6, <1>7 DEF TidInv

(* A thread fails to exchange and loads a value again.                     *)
LEMMA TidRetry ==
  ASSUME TidInv, NEW t \in Threads, Retry(t)
  PROVE  TidInv'
<1>1. PICK v \in Loads(current[t]) : current' = [current EXCEPT ![t] = v]
  BY DEF Retry
<1>2. v \in 0..MaxVal /\ v <= last
  BY LoadsBehind DEF TidInv
<1>3. TypeOK'
  BY <1>1, <1>2 DEF TidInv, TypeOK, Retry
<1>4. LastIsNewest' /\ StrictlyIncreasing' /\ NearSomeClock' /\ CandidateFromClock'
  BY DEF TidInv, Retry, LastIsNewest, StrictlyIncreasing, NearSomeClock, CandidateFromClock
<1>5. CurrentBehind'
  BY <1>1, <1>2 DEF TidInv, TypeOK, Retry, CurrentBehind
<1> QED BY <1>3, <1>4, <1>5 DEF TidInv

(* A thread exchanges: what it believed is last_val itself, so its value   *)
(* is above all values issued.                                             *)
LEMMA TidExchange ==
  ASSUME TidInv, NEW t \in Threads, Exchange(t)
  PROVE  TidInv'
<1> DEFINE val == NextVal(candidate[t], last)
           n == Len(tids)
<1>1. /\ t \in running /\ n < MaxCalls /\ current[t] = last
      /\ last' = val /\ tids' = Append(tids, val)
      /\ running' = running \ {t} /\ candidate' = candidate
      /\ current' = [current EXCEPT ![t] = val]
  BY DEF Exchange
<1>2. last \in 0..MaxVal /\ candidate[t] \in 0..(TimeMod * Ticks - 1)
  BY DEF TidInv, TypeOK
<1>3. /\ val \in 0..MaxVal /\ val >= last
      /\ val > last \/ (last = MaxVal /\ val = MaxVal)
  BY <1>2, NextValGrows
<1>4. /\ tids \in Seq(0..MaxVal) /\ n \in Nat /\ DOMAIN tids = 1..n
      /\ tids' \in Seq(0..MaxVal) /\ Len(tids') = n + 1 /\ DOMAIN tids' = 1..(n + 1)
      /\ tids'[n + 1] = val /\ \A i \in 1..n : tids'[i] = tids[i] /\ tids[i] \in 0..MaxVal
  <2>1. tids \in Seq(0..MaxVal)
    BY DEF TidInv, TypeOK
  <2>2. n \in Nat /\ DOMAIN tids = 1..n /\ \A i \in 1..n : tids[i] \in 0..MaxVal
    BY <2>1, LenProperties, ElementOfSeq
  <2>3. /\ tids' \in Seq(0..MaxVal) /\ Len(tids') = n + 1
        /\ \A i \in 1..n : tids'[i] = tids[i]
        /\ tids'[n + 1] = val
    BY <1>1, <1>3, <2>1, AppendProperties
  <2>4. DOMAIN tids' = 1..(n + 1)
    BY <2>3, LenProperties
  <2> QED BY <2>1, <2>2, <2>3, <2>4
<1>5. PICK now \in Clocks : candidate[t] = CandidateBase(now)
  BY <1>1 DEF TidInv, CandidateFromClock
<1>6. \A i \in 1..n : tids[i] <= last
  BY <1>4 DEF TidInv, LastIsNewest
<1>7. last = IF n = 0 THEN 0 ELSE tids[n]
  BY <1>4 DEF TidInv, LastIsNewest
<1> HIDE DEF val, n
<1>8. TypeOK'
  <2>1. MaxCalls \in Nat
    BY TidAssumption
  <2>2. n + 1 <= MaxCalls
    BY <1>1, <1>4, <2>1
  <2> QED BY <1>1, <1>3, <1>4, <2>2 DEF TidInv, TypeOK
<1>9. LastIsNewest'
  <2>1. tids' # <<>> /\ last' = tids'[Len(tids')]
    BY <1>1, <1>4
  <2>2. \A i \in 1..(n + 1) : tids'[i] <= val
    BY <1>2, <1>3, <1>4, <1>6
  <2> QED BY <1>1, <1>4, <2>1, <2>2 DEF LastIsNewest
<1>10. CurrentBehind'
  BY <1>1, <1>2, <1>3 DEF TidInv, TypeOK, CurrentBehind
<1>11. CandidateFromClock'
  BY <1>1 DEF TidInv, CandidateFromClock
<1>12. StrictlyIncreasing'
  <2> SUFFICES ASSUME NEW i \in 1..(n + 1), NEW j \in 1..(n + 1), i < j
               PROVE  tids'[i] < tids'[j] \/ (tids'[i] = MaxVal /\ tids'[j] = MaxVal)
    BY <1>4 DEF StrictlyIncreasing
  <2>1. CASE j <= n
    <3>1. tids[i] < tids[j] \/ (tids[i] = MaxVal /\ tids[j] = MaxVal)
      BY <1>4, <2>1 DEF TidInv, StrictlyIncreasing
    <3> QED BY <1>4, <2>1, <3>1
  <2>2. CASE j = n + 1
    <3>1. i \in 1..n /\ tids'[i] = tids[i] /\ tids'[j] = val
      BY <1>4, <2>2
    <3>2. CASE val > last
      BY <1>2, <1>3, <1>4, <1>6, <3>1, <3>2
    <3>3. CASE last = MaxVal /\ val = MaxVal
      <4>1. tids[i] <= MaxVal /\ tids[i] \in 0..MaxVal
        BY <1>4, <3>1
      <4>2. MaxVal \in Nat
        BY TidAssumption
      <4> QED BY <3>1, <3>3, <4>1, <4>2
    <3> QED BY <1>3, <3>2, <3>3
  <2> QED BY <1>4, <2>1, <2>2
<1>13. NearSomeClock'
  <2> SUFFICES ASSUME NEW i \in 1..(n + 1)
               PROVE  \E c \in Clocks : /\ CandidateBase(c) <= tids'[i]
                                        /\ tids'[i] <= CandidateBase(c) + i
    BY <1>4 DEF NearSomeClock
  <2>1. CASE i \in 1..n
    BY <1>4, <2>1 DEF TidInv, NearSomeClock
  <2>2. CASE i = n + 1
    <3>1. \A c \in Clocks : CandidateBase(c) \in Nat
      BY CandidateRange
    <3>2. CASE candidate[t] > last
      <4>1. val = candidate[t]
        BY <3>2 DEF val, NextVal
      <4> QED BY <1>4, <1>5, <2>2, <3>1, <4>1
    <3>3. CASE ~(candidate[t] > last)
      <4>1. val \in {last, last + 1}
        <5>1. MaxVal \in Nat
          BY TidAssumption
        <5> QED BY <1>2, <3>3, <5>1 DEF val, NextVal
      <4>2. CASE n = 0
        <5>1. last = 0 /\ CandidateBase(now) = 0
          BY <1>2, <1>5, <1>7, <3>1, <3>3, <4>2
        <5> QED BY <1>4, <2>2, <4>1, <4>2, <5>1
      <4>3. CASE n # 0
        <5>1. PICK c \in Clocks : CandidateBase(c) <= last /\ last <= CandidateBase(c) + n
          BY <1>4, <1>7, <4>3 DEF TidInv, NearSomeClock
        <5>2. CandidateBase(c) <= val /\ val <= CandidateBase(c) + (n + 1)
          BY <1>2, <1>4, <3>1, <4>1, <5>1
        <5> QED BY <1>4, <2>2, <5>2
      <4> QED BY <4>2, <4>3
    <3> QED BY <3>2, <3>3
  <2> QED BY <1>4, <2>1, <2>2
<1> QED BY <1>8, <1>9, <1>10, <1>11, <1>12, <1>13 DEF TidInv

(* TidInv is an invariant.                                                 *)
LEMMA TidInvariance == Spec => []TidInv
<1>1. TidInv /\ [Next]_vars => TidInv'
  <2> SUFFICES ASSUME TidInv, [Next]_vars PROVE TidInv'
    OBVIOUS
  <2>1. ASSUME NEW t \in Threads, NEW now \in Clocks, Begin(t, now) PROVE TidInv'
    BY <2>1, TidBegin
  <2>2. ASSUME NEW t \in Threads, Exchange(t) PROVE TidInv'
    BY <2>2, TidExchange
  <2>3. ASSUME NEW t \in Threads, Retry(t) PROVE TidInv'
    BY <2>3, TidRetry
  <2>4. CASE UNCHANGED vars
    BY <2>4 DEF vars, TidInv, TypeOK, LastIsNewest, CurrentBehind, CandidateFromClock,
                StrictlyIncreasing, NearSomeClock
  <2> QED BY <2>1, <2>2, <2>3, <2>4 DEF Next
<1> QED BY <1>1, TidInit, PTL DEF Spec

-----------------------------------------------------------------------------
(* What is bad somewhere up to a bound but not at 0 is bad first at some   *)
(* n > 0: the form in which these proofs do induction.                     *)
LEMMA FirstBad ==
  ASSUME NEW bound \in Nat, NEW bad \in SUBSET (0..bound), bad # {}, 0 \notin bad
  PROVE  \E n \in 1..bound : n \in bad /\ \A m \in 0..(n - 1) : m \notin bad
<1>1. PICK n \in bad : \A m \in bad : <<m, n>> \notin OpToRel(<, Nat)
  <2>1. bad \subseteq Nat
    OBVIOUS
  <2> QED BY <2>1, NatLessThanWellFounded, WFMin
<1>2. n \in 1..bound
  OBVIOUS
<1>3. ASSUME NEW m \in 0..(n - 1)
      PROVE  m \notin bad
  <2>1. m \in Nat /\ n \in Nat /\ m < n
    BY <1>2
  <2>2. <<m, n>> \in OpToRel(<, Nat)
    BY <2>1 DEF OpToRel
  <2> QED BY <1>1, <2>2
<1> QED BY <1>2, <1>3

(* A function that starts with e and goes on by G, a function of its last  *)
(* value and the place, exists and stays in S where G does.                *)
StaysIn(S, G, w) == \A x \in S, n \in 1..w : G[<<x, n>>] \in S

HasRecursion(S, e, G, w) ==
  \E f \in [0..w -> S] : \A k \in 0..w : f[k] = IF k = 0 THEN e ELSE G[<<f[k - 1], k>>]

LEMMA Recursion ==
  ASSUME NEW S, NEW e \in S, NEW G, NEW w \in Nat, StaysIn(S, G, w)
  PROVE  HasRecursion(S, e, G, w)
<1> DEFINE Step(f, k) == IF k = 0 THEN e ELSE G[<<f[k - 1], k>>]
           Up(n) == \E f \in [0..n -> S] : \A k \in 0..n : f[k] = Step(f, k)
           bad == {n \in 0..w : ~Up(n)}
<1>1. 0 \notin bad
  <2> DEFINE f == [k \in 0..0 |-> e]
  <2>1. f \in [0..0 -> S] /\ \A k \in 0..0 : f[k] = Step(f, k)
    OBVIOUS
  <2> HIDE DEF f
  <2> QED BY <2>1
<1>2. ASSUME NEW n \in 1..w, Up(n - 1)
      PROVE  Up(n)
  <2>1. PICK f \in [0..(n - 1) -> S] : \A k \in 0..(n - 1) : f[k] = Step(f, k)
    BY <1>2
  <2> DEFINE g == [k \in 0..n |-> IF k = n THEN G[<<f[n - 1], n>>] ELSE f[k]]
  <2>2. n - 1 \in 0..(n - 1) /\ n \in 0..n /\ n # 0
    OBVIOUS
  <2>3. \A k \in 0..(n - 1) : k \in 0..n /\ k # n
    OBVIOUS
  <2>4. g[n] = G[<<f[n - 1], n>>] /\ \A k \in 0..(n - 1) : g[k] = f[k]
    BY <2>2, <2>3
  <2>5. f[n - 1] \in S /\ G[<<f[n - 1], n>>] \in S
    BY <2>2 DEF StaysIn
  <2>6. \A k \in 0..n : k = n \/ k \in 0..(n - 1)
    OBVIOUS
  <2>7. g \in [0..n -> S]
    BY <2>5, <2>6
  <2> HIDE DEF g
  <2>8. ASSUME NEW k \in 0..n
        PROVE  g[k] = Step(g, k)
    <3>1. CASE k = n
      BY <2>2, <2>4, <3>1
    <3>2. CASE k \in 0..(n - 1) /\ k # 0
      <4>1. k - 1 \in 0..(n - 1)
        BY <3>2
      <4> QED BY <2>1, <2>4, <3>2, <4>1
    <3>3. CASE k = 0
      <4>1. 0 \in 0..(n - 1)
        OBVIOUS
      <4> QED BY <2>1, <2>4, <3>3, <4>1
    <3> QED BY <2>6, <3>1, <3>2, <3>3
  <2> HIDE DEF Step
  <2> QED BY <2>7, <2>8
<1>3. bad = {}
  <2> SUFFICES ASSUME bad # {} PROVE FALSE
    OBVIOUS
  <2>1. bad \in SUBSET (0..w)
    OBVIOUS
  <2>2. PICK n \in 1..w : n \in bad /\ \A m \in 0..(n - 1) : m \notin bad
    <3> HIDE DEF bad
    <3> QED BY <1>1, <2>1, FirstBad
  <2>3. n - 1 \in 0..(n - 1) /\ n - 1 \in 0..w
    OBVIOUS
  <2>4. Up(n - 1) /\ ~Up(n)
    <3> HIDE DEF Up
    <3> QED BY <2>2, <2>3
  <2> HIDE DEF Up, bad
  <2> QED BY <1>2, <2>4
<1>4. Up(w)
  <2>1. w \in 0..w
    OBVIOUS
  <2> HIDE DEF Up
  <2> QED BY <1>3, <2>1
<1> QED BY <1>4 DEF HasRecursion

(* Quotients keep the order, and with equal quotients the remainders do.   *)
LEMMA Quotients ==
  ASSUME NEW x \in Nat, NEW y \in Nat, NEW b \in Nat \ {0}
  PROVE  /\ x \div b \in Nat /\ x % b \in 0..(b - 1)
         /\ x = b * (x \div b) + (x % b)
         /\ x <= y => x \div b <= y \div b
         /\ (x < y /\ x \div b = y \div b) => x % b < y % b
<1> DEFINE p == x \div b
           q == y \div b
           r == x % b
           s == y % b
<1>1. p \in Nat /\ q \in Nat /\ r \in 0..(b - 1) /\ s \in 0..(b - 1)
  OBVIOUS
<1>2. x = b * p + r /\ y = b * q + s
  OBVIOUS
<1> HIDE DEF p, q, r, s
<1>3. b * p \in Nat /\ b * q \in Nat
  BY <1>1
<1>4. ASSUME x <= y, p > q
      PROVE  FALSE
  <2>1. PICK d \in Nat : p = q + 1 + d
    <3>1. p - q - 1 \in Nat
      BY <1>1, <1>4
    <3> QED BY <1>1, <3>1
  <2>2. b * p = b * q + b + b * d /\ b * d \in Nat
    BY <1>1, <2>1
  <2> QED BY <1>1, <1>2, <1>3, <1>4, <2>2
<1>5. x <= y => p <= q
  BY <1>1, <1>4
<1>6. x < y /\ p = q => r < s
  BY <1>1, <1>2, <1>3
<1> QED BY <1>1, <1>2, <1>5, <1>6 DEF p, q, r, s

(* What is left of a value after each digit.                               *)
LEMMA ShiftedProperties ==
  ASSUME NEW v \in Nat
  PROVE  /\ Shifted(v) \in [0..Width -> Nat]
         /\ Shifted(v)[0] = v
         /\ \A k \in 1..Width : Shifted(v)[k] = Shifted(v)[k - 1] \div Base
<1>1. Base \in Nat \ {0} /\ Width \in Nat
  BY TidAssumption
<1> DEFINE rest == CHOOSE f : f = [k \in 0..Width |-> IF k = 0 THEN v ELSE f[k - 1] \div Base]
           G == [p \in Nat \X Nat |-> p[1] \div Base]
<1>2. ASSUME NEW x \in Nat, NEW k \in Nat
      PROVE  G[<<x, k>>] = x \div Base /\ G[<<x, k>>] \in Nat
  <2>1. x \div Base \in Nat
    BY <1>1, Quotients
  <2>2. <<x, k>> \in Nat \X Nat
    OBVIOUS
  <2> QED BY <2>1, <2>2
<1> HIDE DEF G
<1>3. \A x \in Nat, n \in 1..Width : G[<<x, n>>] \in Nat
  <2>1. \A n \in 1..Width : n \in Nat
    OBVIOUS
  <2> QED BY <1>2, <2>1
<1>4. PICK f \in [0..Width -> Nat] :
        \A k \in 0..Width : f[k] = IF k = 0 THEN v ELSE G[<<f[k - 1], k>>]
  <2>1. StaysIn(Nat, G, Width)
    BY <1>3 DEF StaysIn
  <2>2. HasRecursion(Nat, v, G, Width)
    BY <1>1, <2>1, Recursion
  <2> QED BY <2>2 DEF HasRecursion
<1>5. f = [k \in 0..Width |-> IF k = 0 THEN v ELSE f[k - 1] \div Base]
  <2>1. \A k \in 0..Width : k # 0 => k - 1 \in 0..Width /\ k \in Nat
    BY <1>1
  <2>2. \A k \in 0..Width : k # 0 => G[<<f[k - 1], k>>] = f[k - 1] \div Base
    BY <1>2, <2>1
  <2>3. f = [k \in 0..Width |-> f[k]]
    OBVIOUS
  <2> QED BY <1>4, <2>2, <2>3
<1>6. rest = [k \in 0..Width |-> IF k = 0 THEN v ELSE rest[k - 1] \div Base]
  BY <1>5
<1>7. Shifted(v) = rest
  BY DEF Shifted
<1> HIDE DEF rest
<1>8. \A k \in 0..Width : rest[k] = IF k = 0 THEN v ELSE rest[k - 1] \div Base
  BY <1>6
<1>9. 0 \in 0..Width /\ \A k \in 1..Width : k \in 0..Width /\ k # 0
  BY <1>1
<1>10. rest[0] = v /\ \A k \in 1..Width : rest[k] = rest[k - 1] \div Base
  BY <1>8, <1>9
<1>11. \A k \in 0..Width : rest[k] \in Nat
  <2> DEFINE bad == {k \in 0..Width : rest[k] \notin Nat}
  <2>1. 0 \notin bad
    BY <1>10
  <2>2. bad \in SUBSET (0..Width)
    OBVIOUS
  <2>3. ASSUME bad # {}
        PROVE  FALSE
    <3>1. PICK n \in 1..Width : n \in bad /\ \A m \in 0..(n - 1) : m \notin bad
      <4> HIDE DEF bad
      <4> QED BY <1>1, <2>1, <2>2, <2>3, FirstBad
    <3>2. n - 1 \in 0..(n - 1) /\ n - 1 \in 0..Width
      BY <1>1
    <3>3. rest[n - 1] \in Nat
      BY <3>1, <3>2
    <3>4. rest[n] \in Nat
      BY <1>1, <1>10, <3>3, Quotients
    <3> QED BY <3>1, <3>4
  <2> QED BY <2>3
<1>12. rest \in [0..Width -> Nat]
  BY <1>6, <1>11
<1> QED BY <1>7, <1>10, <1>12

(* What is left of a value is never more than what is left of a larger one.*)
LEMMA ShiftedKeepsOrder ==
  ASSUME NEW v \in Nat, NEW w \in Nat, v <= w, NEW k \in 0..Width
  PROVE  Shifted(v)[k] <= Shifted(w)[k]
<1> DEFINE bad == {n \in 0..Width : ~(Shifted(v)[n] <= Shifted(w)[n])}
<1>1. Base \in Nat \ {0} /\ Width \in Nat
  BY TidAssumption
<1>2. 0 \notin bad
  BY ShiftedProperties
<1>3. ASSUME bad # {}
      PROVE  FALSE
  <2>1. bad \in SUBSET (0..Width)
    OBVIOUS
  <2>2. PICK n \in 1..Width : n \in bad /\ \A m \in 0..(n - 1) : m \notin bad
    <3> HIDE DEF bad
    <3> QED BY <1>1, <1>2, <1>3, <2>1, FirstBad
  <2>3. n - 1 \in 0..(n - 1) /\ n - 1 \in 0..Width
    BY <1>1
  <2>4. Shifted(v)[n - 1] <= Shifted(w)[n - 1]
    BY <2>2, <2>3
  <2>5. Shifted(v)[n - 1] \in Nat /\ Shifted(w)[n - 1] \in Nat
    BY <2>3, ShiftedProperties
  <2>6. /\ Shifted(v)[n] = Shifted(v)[n - 1] \div Base
        /\ Shifted(w)[n] = Shifted(w)[n - 1] \div Base
    BY ShiftedProperties
  <2>7. Shifted(v)[n - 1] \div Base <= Shifted(w)[n - 1] \div Base
    BY <1>1, <2>4, <2>5, Quotients
  <2> QED BY <2>2, <2>6, <2>7
<1> QED BY <1>3

(* Nothing is left of a u64 after the last place.                          *)
LEMMA NothingLeft ==
  ASSUME NEW v \in 0..MaxVal
  PROVE  Shifted(v)[Width] = 0
<1>1. MaxVal \in Nat /\ Width \in 0..Width /\ v \in Nat /\ v <= MaxVal
  BY TidAssumption
<1>2. Shifted(v)[Width] <= Shifted(MaxVal)[Width]
  BY <1>1, ShiftedKeepsOrder
<1>3. Shifted(v)[Width] \in Nat
  BY <1>1, ShiftedProperties
<1> QED BY <1>2, <1>3, PlacesAssumption

(* The digit in each place.                                                *)
LEMMA Digits ==
  ASSUME NEW v \in Nat, NEW i \in 1..Width
  PROVE  /\ Encode(v)[i] = Shifted(v)[Width - i] % Base
         /\ Encode(v)[i] \in 0..(Base - 1)
         /\ Shifted(v)[Width - i] = Base * Shifted(v)[Width - (i - 1)] + Encode(v)[i]
<1>1. Base \in Nat \ {0} /\ Width \in Nat
  BY TidAssumption
<1> DEFINE k == Width - (i - 1)
           x == Shifted(v)[Width - i]
<1>2. k \in 1..Width /\ k - 1 = Width - i /\ Width - i \in 0..Width
  BY <1>1
<1>3. Shifted(v)[k] = Shifted(v)[k - 1] \div Base
  BY <1>2, ShiftedProperties
<1>4. Encode(v)[i] = x % Base
  BY DEF Encode
<1>5. x \in Nat /\ Shifted(v)[k] = x \div Base
  BY <1>2, <1>3, ShiftedProperties
<1>6. x % Base \in 0..(Base - 1) /\ x = Base * (x \div Base) + (x % Base)
  <2> HIDE DEF x
  <2> QED BY <1>1, <1>5, Quotients
<1> QED BY <1>4, <1>5, <1>6

(* The strings of two values differ first at a place where the smaller     *)
(* value has the smaller digit.                                            *)
LEMMA StringsSort ==
  ASSUME NEW v \in 0..MaxVal, NEW w \in 0..MaxVal, v < w
  PROVE  Less(Encode(v), Encode(w))
<1>1. Base \in Nat \ {0} /\ Width \in Nat /\ MaxVal \in Nat
  BY TidAssumption
<1>2. v \in Nat /\ w \in Nat /\ v <= w
  BY <1>1
<1> DEFINE differ == {i \in 0..Width : Shifted(v)[Width - i] # Shifted(w)[Width - i]}
<1>3. 0 \notin differ
  <2>1. Shifted(v)[Width - 0] = 0 /\ Shifted(w)[Width - 0] = 0
    BY <1>1, NothingLeft
  <2> QED BY <2>1
<1>4. differ # {}
  <2>1. Width \in 0..Width /\ Width - Width = 0
    BY <1>1
  <2>2. Shifted(v)[Width - Width] # Shifted(w)[Width - Width]
    BY <1>2, <2>1, ShiftedProperties
  <2> QED BY <2>1, <2>2
<1>5. PICK k \in 1..Width : k \in differ /\ \A m \in 0..(k - 1) : m \notin differ
  <2>1. differ \in SUBSET (0..Width)
    OBVIOUS
  <2> HIDE DEF differ
  <2> QED BY <1>1, <1>3, <1>4, <2>1, FirstBad
<1>6. \A m \in 0..(k - 1) : Shifted(v)[Width - m] = Shifted(w)[Width - m]
  <2>1. \A m \in 0..(k - 1) : m \in 0..Width
    BY <1>1
  <2> QED BY <1>5, <2>1
<1>7. \A m \in 1..(k - 1) : Encode(v)[m] = Encode(w)[m]
  <2>1. \A m \in 1..(k - 1) : m \in 1..Width /\ m \in 0..(k - 1)
    BY <1>1
  <2> QED BY <1>2, <1>6, <2>1, Digits
<1>8. Encode(v)[k] < Encode(w)[k]
  <2> DEFINE x == Shifted(v)[Width - k]
             y == Shifted(w)[Width - k]
             q == Shifted(v)[Width - (k - 1)]
  <2>1. Width - k \in 0..Width /\ Width - (k - 1) \in 0..Width /\ k - 1 \in 0..(k - 1)
    BY <1>1
  <2>2. x \in Nat /\ y \in Nat /\ q \in Nat /\ x <= y /\ x # y
    BY <1>2, <1>5, <2>1, ShiftedKeepsOrder, ShiftedProperties
  <2>3. q = Shifted(w)[Width - (k - 1)]
    BY <1>6, <2>1
  <2>4. x = Base * q + Encode(v)[k] /\ y = Base * q + Encode(w)[k]
    BY <1>2, <2>3, Digits
  <2>5. Encode(v)[k] \in Nat /\ Encode(w)[k] \in Nat
    BY <1>1, <1>2, Digits
  <2> HIDE DEF x, y, q
  <2>6. Base * q \in Nat
    BY <1>1, <2>2
  <2> QED BY <2>2, <2>4, <2>5, <2>6
<1> QED BY <1>7, <1>8 DEF Less

(* Reading a string from its first place to its last gives what the value  *)
(* was shifted to, from the last shift to the first.                       *)
LEMMA Decoded ==
  ASSUME NEW v \in 0..MaxVal
  PROVE  Decode(Encode(v)) = IF v >= TimeMod * Ticks THEN -1 ELSE v \div Ticks
<1>1. Base \in Nat \ {0} /\ Width \in Nat /\ MaxVal \in Nat /\ v \in Nat
  BY TidAssumption
<1> DEFINE digits == Encode(v)
           Place(f, i) == IF i = 0 THEN 0 ELSE f[i - 1] * Base + digits[i]
           place == CHOOSE f : f = [i \in 0..Width |-> Place(f, i)]
           back == [i \in 0..Width |-> Shifted(v)[Width - i]]
<1>2. Shifted(v)[Width - 0] = 0
  BY <1>1, NothingLeft
<1>3. ASSUME NEW i \in 1..Width
      PROVE  Shifted(v)[Width - i] = Shifted(v)[Width - (i - 1)] * Base + digits[i]
  <2>1. Width - (i - 1) \in 0..Width
    BY <1>1
  <2>2. Shifted(v)[Width - (i - 1)] \in Nat
    BY <1>1, <2>1, ShiftedProperties
  <2>3. Shifted(v)[Width - i] = Base * Shifted(v)[Width - (i - 1)] + digits[i]
    BY <1>1, Digits
  <2> HIDE DEF digits
  <2> QED BY <1>1, <2>2, <2>3
<1> HIDE DEF digits
<1>4. ASSUME NEW i \in 0..Width
      PROVE  back[i] = Place(back, i)
  <2>1. CASE i = 0
    BY <1>2, <2>1
  <2>2. CASE i # 0
    <3>1. i \in 1..Width /\ i - 1 \in 0..Width
      BY <1>1, <2>2
    <3>2. back[i] = Shifted(v)[Width - i] /\ back[i - 1] = Shifted(v)[Width - (i - 1)]
      BY <3>1
    <3> HIDE DEF back
    <3> QED BY <1>3, <2>2, <3>1, <3>2
  <2> QED BY <2>1, <2>2
<1>5. back = [i \in 0..Width |-> Place(back, i)]
  <2>1. back = [i \in 0..Width |-> back[i]]
    OBVIOUS
  <2> HIDE DEF back, Place
  <2> QED BY <1>4, <2>1
<1>6. place = [i \in 0..Width |-> Place(place, i)]
  <2> HIDE DEF back
  <2> QED BY <1>5
<1> HIDE DEF place
<1>7. \A i \in 0..Width : place[i] = Place(place, i)
  <2> HIDE DEF Place
  <2> QED BY <1>6
<1>8. place[Width] = v
  <2> DEFINE bad == {i \in 0..Width : place[i] # back[i]}
  <2>1. 0 \notin bad
    <3>1. 0 \in 0..Width
      BY <1>1
    <3> QED BY <1>4, <1>7, <3>1
  <2>2. ASSUME bad # {}
        PROVE  FALSE
    <3>1. bad \in SUBSET (0..Width)
      OBVIOUS
    <3>2. PICK n \in 1..Width : n \in bad /\ \A m \in 0..(n - 1) : m \notin bad
      <4> HIDE DEF bad
      <4> QED BY <1>1, <2>1, <2>2, <3>1, FirstBad
    <3>3. n \in 0..Width /\ n # 0 /\ n - 1 \in 0..(n - 1) /\ n - 1 \in 0..Width
      BY <1>1
    <3>4. place[n - 1] = back[n - 1]
      BY <3>2, <3>3
    <3>5. place[n] = back[n]
      <4>1. place[n] = Place(place, n) /\ back[n] = Place(back, n)
        BY <1>4, <1>7, <3>3
      <4> HIDE DEF back
      <4> QED BY <3>3, <3>4, <4>1
    <3> QED BY <3>2, <3>5
  <2>3. Width \in 0..Width /\ back[Width] = Shifted(v)[0]
    BY <1>1
  <2>4. place[Width] = back[Width]
    BY <2>2, <2>3
  <2>5. Shifted(v)[0] = v
    BY <1>1, ShiftedProperties
  <2> QED BY <2>3, <2>4, <2>5
<1>9. Decode(digits) = IF place[Width] >= TimeMod * Ticks THEN -1 ELSE place[Width] \div Ticks
  BY DEF Decode, place
<1> QED BY <1>8, <1>9 DEF digits

-----------------------------------------------------------------------------
(* next_tid never leaves u64, and what it takes from the clock leaves the  *)
(* top bit clear.                                                          *)
THEOREM TidTypeCorrect == Spec => []TypeOK
<1>1. TidInv => TypeOK
  BY DEF TidInv
<1> QED BY <1>1, TidInvariance, PTL

(* The TIDs of concurrent next_tid calls strictly increase in the order of *)
(* their compare-exchange, for any clock and any stale or spurious answer. *)
THEOREM TidsIncrease == Spec => []StrictlyIncreasing
<1>1. TidInv => StrictlyIncreasing
  BY DEF TidInv
<1> QED BY <1>1, TidInvariance, PTL

(* The strings of any two TIDs sort as their values, and each decodes to   *)
(* the microseconds it was made from: encode_tid_base32 and                *)
(* decode_tid_timestamp_us, whatever the base and the number of places,    *)
(* as long as the longest u64 fits them.                                   *)
THEOREM TidsSort == Spec => []SortableStrings
<1>1. TidInv => SortableStrings
  <2> SUFFICES ASSUME TidInv PROVE SortableStrings
    OBVIOUS
  <2>1. \A i \in DOMAIN tids : tids[i] \in 0..MaxVal
    <3>1. tids \in Seq(0..MaxVal)
      BY DEF TidInv, TypeOK
    <3> QED BY <3>1, ElementOfSeq, LenProperties
  <2>2. \A i, j \in DOMAIN tids :
          tids[i] < tids[j] => Less(Encode(tids[i]), Encode(tids[j]))
    BY <2>1, StringsSort
  <2>3. ASSUME NEW i \in DOMAIN tids
        PROVE  Decode(Encode(tids[i]))
                 = IF tids[i] < TimeMod * Ticks THEN tids[i] \div Ticks ELSE -1
    <3>1. tids[i] \in 0..MaxVal /\ MaxVal \in Nat /\ TimeMod * Ticks \in Nat
      BY <2>1, TidAssumption
    <3>2. (tids[i] >= TimeMod * Ticks) = ~(tids[i] < TimeMod * Ticks)
      BY <3>1
    <3>3. Decode(Encode(tids[i]))
            = IF tids[i] >= TimeMod * Ticks THEN -1 ELSE tids[i] \div Ticks
      BY <3>1, Decoded
    <3> QED BY <3>2, <3>3
  <2> QED BY <2>2, <2>3 DEF SortableStrings
<1> QED BY <1>1, TidInvariance, PTL

(* The time in the i-th TID is one some next_tid call read, or up to i     *)
(* values after it.                                                        *)
THEOREM TidsNearClock == Spec => []NearSomeClock
<1>1. TidInv => NearSomeClock
  BY DEF TidInv
<1> QED BY <1>1, TidInvariance, PTL
=============================================================================
