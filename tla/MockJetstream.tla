---------------------------- MODULE MockJetstream ----------------------------
(***************************************************************************)
(* The Jetstream server that src/src/ingest/mock.rs offers to tests: an    *)
(* accept loop, one task per connection, and a broadcast channel of        *)
(* commands (text frames, close, abort) that all tasks read.               *)
(*                                                                         *)
(* The channel is a ring (external): a task that falls behind loses the    *)
(* oldest commands, and goes on with what is left.  A task that writes to  *)
(* its client waits until the client takes it, without a timeout, and does *)
(* not read its commands meanwhile.                                        *)
(***************************************************************************)
EXTENDS Naturals, Sequences, FiniteSets

CONSTANTS
  Conns,      \* connections clients make
  Slots,      \* capacity of the command channel, 1024
  MaxFrames   \* bound on the commands given

ASSUME MockAssumption == Slots \in Nat \ {0} /\ MaxFrames \in Nat

VARIABLES
  accepting,   \* whether the accept loop runs
  stopping,    \* whether shutdown has told it to end
  dropped,     \* whether the server has been dropped
  conns,       \* connection -> where its task is
  commands,    \* connection -> commands it has not read
  behind,      \* connections that have lost commands since their last read
  active,      \* active_connections
  total,       \* total_connections
  given        \* commands given so far

mockVars == <<accepting, stopping, dropped, conns, commands, behind, active, total, given>>
loop == <<accepting, stopping, dropped>>

Command == {"text", "close", "abort"}

(* The loop of a connection's task: it selects ("open"), or it writes a    *)
(* frame or a close frame.                                                 *)
InLoop == {"open", "sending", "closing"}

(* A task has its receiver from the moment its connection is accepted.     *)
Listening == {c \in Conns : conns[c] \in InLoop \cup {"accepted"}}

MockInit ==
  /\ accepting = TRUE /\ stopping = FALSE /\ dropped = FALSE
  /\ conns = [c \in Conns |-> "away"]
  /\ commands = [c \in Conns |-> <<>>] /\ behind = {}
  /\ active = 0 /\ total = 0 /\ given = 0

-----------------------------------------------------------------------------
(* listener.accept: the select may take it even when shutdown has been     *)
(* called.                                                                 *)
AcceptConn(c) ==
  /\ accepting /\ conns[c] = "away"
  /\ conns' = [conns EXCEPT ![c] = "accepted"]
  /\ total' = total + 1
  /\ UNCHANGED <<loop, commands, behind, active, given>>

(* listener.accept fails: that was the last connection.                    *)
AcceptFails ==
  /\ accepting
  /\ accepting' = FALSE
  /\ UNCHANGED <<stopping, dropped, conns, commands, behind, active, total, given>>

AcceptLoopEnds ==
  /\ accepting /\ stopping
  /\ accepting' = FALSE
  /\ UNCHANGED <<stopping, dropped, conns, commands, behind, active, total, given>>

HandshakeDone(c) ==
  /\ conns[c] = "accepted"
  /\ conns' = [conns EXCEPT ![c] = "open"]
  /\ active' = active + 1
  /\ UNCHANGED <<loop, commands, behind, total, given>>

HandshakeFails(c) ==
  /\ conns[c] = "accepted"
  /\ conns' = [conns EXCEPT ![c] = "gone"]
  /\ commands' = [commands EXCEPT ![c] = <<>>] /\ behind' = behind \ {c}
  /\ UNCHANGED <<loop, active, total, given>>

(* The loop of a connection's task is left, whatever the reason.           *)
Leave(c) ==
  /\ conns' = [conns EXCEPT ![c] = "gone"]
  /\ commands' = [commands EXCEPT ![c] = <<>>] /\ behind' = behind \ {c}
  /\ active' = active - 1
  /\ UNCHANGED <<loop, total, given>>

(* The select takes a command: a lag is passed over, a text and a close    *)
(* frame are to be sent, an abort ends the connection, and so does the end *)
(* of the channel.                                                         *)
ReadCommand(c) ==
  /\ conns[c] = "open"
  /\ \/ /\ c \in behind
        /\ behind' = behind \ {c}
        /\ UNCHANGED <<loop, conns, commands, active, total, given>>
     \/ /\ c \notin behind /\ commands[c] # <<>> /\ Head(commands[c]) # "abort"
        /\ conns' = [conns EXCEPT ![c] = IF Head(commands[c]) = "text" THEN "sending" ELSE "closing"]
        /\ commands' = [commands EXCEPT ![c] = Tail(@)]
        /\ UNCHANGED <<loop, behind, active, total, given>>
     \/ /\ c \notin behind /\ commands[c] # <<>> /\ Head(commands[c]) = "abort"
        /\ Leave(c)
     \/ /\ c \notin behind /\ commands[c] = <<>> /\ dropped /\ ~accepting
        /\ Leave(c)

(* The select takes a ping, which is to be answered.                       *)
PingArrives(c) ==
  /\ conns[c] = "open"
  /\ conns' = [conns EXCEPT ![c] = "sending"]
  /\ UNCHANGED <<loop, commands, behind, active, total, given>>

(* The client takes what the task writes.                                  *)
FrameSent(c) ==
  /\ conns[c] = "sending"
  /\ conns' = [conns EXCEPT ![c] = "open"]
  /\ UNCHANGED <<loop, commands, behind, active, total, given>>

CloseSent(c) == conns[c] = "closing" /\ Leave(c)

(* The client closes or breaks off.                                        *)
ClientLeaves(c) == conns[c] \in InLoop /\ Leave(c)

(* cmd_tx.send; with no receiver it is an error.                           *)
Give(command) ==
  LET full == {c \in Listening : Len(commands[c]) = Slots}
  IN /\ commands' = [c \in Conns |-> IF c \notin Listening THEN commands[c]
                       ELSE Append(IF c \in full THEN Tail(commands[c]) ELSE commands[c], command)]
     /\ behind' = behind \cup full

(* emit_raw and what is built on it, close_all, disconnect_all.            *)
EmitCommand(command) ==
  /\ ~dropped /\ Listening # {} /\ given < MaxFrames
  /\ given' = given + 1
  /\ Give(command)
  /\ UNCHANGED <<loop, conns, active, total>>

(* shutdown: the accept loop is told once, and every connection aborted.   *)
Shutdown ==
  /\ ~dropped /\ given < MaxFrames
  /\ given' = given + 1
  /\ stopping' = TRUE
  /\ Give("abort")
  /\ UNCHANGED <<accepting, dropped, conns, active, total>>

(* A faulty variant of DropServer: shutdown is left out.                    *)
DropServerOnly ==
  /\ ~dropped
  /\ dropped' = TRUE
  /\ UNCHANGED <<accepting, stopping, conns, commands, behind, active, total, given>>

(* Drop: shutdown, and the senders go with the server.                     *)
DropServer ==
  /\ ~dropped
  /\ dropped' = TRUE /\ stopping' = TRUE
  /\ Give("abort")
  /\ UNCHANGED <<accepting, conns, active, total, given>>

MockNext ==
  \/ \E c \in Conns : AcceptConn(c) \/ HandshakeDone(c) \/ HandshakeFails(c)
  \/ \E c \in Conns : ReadCommand(c) \/ PingArrives(c) \/ FrameSent(c) \/ CloseSent(c)
  \/ \E c \in Conns : ClientLeaves(c)
  \/ AcceptFails \/ AcceptLoopEnds
  \/ \E command \in Command : EmitCommand(command)
  \/ Shutdown \/ DropServer

-----------------------------------------------------------------------------
(* Every variable stays in its set, the counter of active connections      *)
(* counts the tasks in their loops, and no ring holds more than its slots. *)
MockTypeOK ==
  /\ accepting \in BOOLEAN /\ stopping \in BOOLEAN /\ dropped \in BOOLEAN
  /\ conns \in [Conns -> {"away", "accepted", "gone"} \cup InLoop]
  /\ commands \in [Conns -> Seq(Command)] /\ \A c \in Conns : Len(commands[c]) <= Slots
  /\ behind \subseteq Conns
  /\ active = Cardinality({c \in Conns : conns[c] \in InLoop})
  /\ total \in Nat /\ given \in 0..MaxFrames

=============================================================================
