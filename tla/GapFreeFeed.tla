---------------------------- MODULE GapFreeFeed ----------------------------
(***************************************************************************)
(* What a resumable feed promises the application that listens to it: the  *)
(* commits come one by one, none for the first time before the ones ahead  *)
(* of it unless those are gone for good, and while the application listens *)
(* the feed goes on until it has them all.  A commit may come again.       *)
(***************************************************************************)
EXTENDS Naturals

VARIABLES
  emitted,      \* the commits so far, numbered in their order
  delivered,    \* the ones the application has had
  gone,         \* the ones no subscription brings any more
  listening     \* whether the application listens

feedVars == <<emitted, delivered, gone, listening>>

FeedInit ==
  /\ emitted = {} /\ delivered = {} /\ gone = {}
  /\ listening = TRUE

(* The server's history grows at its end.                                  *)
EmitNext ==
  /\ emitted \subseteq emitted'
  /\ \A i \in emitted' \ emitted : i \in Nat /\ \A j \in emitted : j < i
  /\ UNCHANGED <<delivered, gone, listening>>

(* Every commit ahead of i is with the application or gone.               *)
NoGapBefore(i) == \A j \in emitted : j < i => j \in delivered \cup gone

HandOver(i) ==
  /\ listening
  /\ i \notin delivered /\ NoGapBefore(i)
  /\ delivered' = delivered \cup {i}
  /\ UNCHANGED <<emitted, gone, listening>>

Deliver == \E i \in emitted \ gone : HandOver(i)

(* One that was on its way when the server let go of it.                   *)
DeliverLate == \E i \in emitted \cap gone : HandOver(i)

(* Commits expire on the server, or a subscription passes them over.       *)
Lose ==
  /\ gone \subseteq gone' /\ gone' \subseteq emitted
  /\ UNCHANGED <<emitted, delivered>>

Lost == Lose /\ UNCHANGED listening
Resume == Lose /\ listening' = TRUE
Stop == listening' = FALSE /\ UNCHANGED <<emitted, delivered, gone>>

FeedNext == EmitNext \/ Deliver \/ DeliverLate \/ Lost \/ Resume \/ Stop

FeedSpec == FeedInit /\ [][FeedNext]_feedVars /\ WF_feedVars(Deliver)
=============================================================================
