------------------------- MODULE MCJetstreamStreamer -------------------------
(* Instances of JetstreamStreamer for TLC.                                 *)
EXTENDS JetstreamStreamer

Good == [json |-> TRUE, stamp |-> "sound", kind |-> "commit", did |-> "good",
         commit |-> "good", op |-> "known"]

(* A commit, on time or late; one without a time; one years ahead; one of  *)
(* an operation nobody knows, which only tells the time.                   *)
OnTime(frame) == [frame |-> frame, late |-> 0]

SomeSent == {OnTime(Good), [OnTime(Good) EXCEPT !.late = 1],
             OnTime([Good EXCEPT !.stamp = "none"]), OnTime([Good EXCEPT !.stamp = "far"]),
             OnTime([Good EXCEPT !.op = "unknown"])}

SomeSetups == {[config |-> 0, pin |-> NoCursor], [config |-> 2, pin |-> NoCursor],
               [config |-> NoCursor, pin |-> 2]}
Extremes == {-20, 20}
=============================================================================
