------------------------- MODULE GapFreeFeed_proofs -------------------------
(***************************************************************************)
(* What the steps of GapFreeFeed come to, whatever the server's history.   *)
(***************************************************************************)
EXTENDS GapFreeFeed, TLAPS

(* What the application has is a part of the history without holes: all    *)
(* that is ahead of a commit it has is with it too, or gone for good.      *)
NoHoles == \A i \in delivered : NoGapBefore(i)

NoHolesInv ==
  /\ emitted \subseteq Nat
  /\ delivered \cup gone \subseteq emitted
  /\ NoHoles

LEMMA NoHolesStep == NoHolesInv /\ [FeedNext]_feedVars => NoHolesInv'
<1> SUFFICES ASSUME NoHolesInv, [FeedNext]_feedVars PROVE NoHolesInv'
  OBVIOUS
<1> USE DEF NoHolesInv, NoHoles, NoGapBefore
<1>1. CASE EmitNext
  <2>1. emitted' \subseteq Nat /\ (delivered \cup gone)' \subseteq emitted'
    BY <1>1 DEF EmitNext
  <2>2. ASSUME NEW i \in delivered, NEW j \in emitted', j < i PROVE j \in delivered \cup gone
    <3>1. i \in emitted /\ i \in Nat /\ j \in Nat
      BY <2>1, <2>2
    <3>2. j \in emitted
      BY <1>1, <2>2, <3>1 DEF EmitNext
    <3> QED
      BY <2>2, <3>2
  <2> QED
    BY <1>1, <2>1, <2>2 DEF EmitNext
<1>2. ASSUME NEW i \in emitted, HandOver(i) PROVE NoHolesInv'
  BY <1>2 DEF HandOver
<1>3. CASE Lose
  BY <1>3 DEF Lose
<1>4. CASE Stop
  BY <1>4 DEF Stop
<1>5. CASE UNCHANGED feedVars
  BY <1>5 DEF feedVars
<1> QED
  BY <1>1, <1>2, <1>3, <1>4, <1>5 DEF FeedNext, Deliver, DeliverLate, Lost, Resume

(* However a feed is interrupted and resumed, what the application has had *)
(* has no holes but for what is gone.                                      *)
THEOREM FeedHasNoHoles == FeedSpec => []NoHoles
<1>1. FeedInit => NoHolesInv
  BY DEF FeedInit, NoHolesInv, NoHoles
<1>2. NoHolesInv => NoHoles
  BY DEF NoHolesInv
<1> QED
  BY <1>1, <1>2, NoHolesStep, PTL DEF FeedSpec
=============================================================================
