----------------------------- MODULE LogHandler -----------------------------
(***************************************************************************)
(* LogHandler (logger/handler.py): emit puts log records into a bounded    *)
(* queue, a thread of its own sends them over a websocket.  The thread     *)
(* runs an event loop: for each connection it starts three tasks, _ping,   *)
(* _send_log_record and _recv_sink.  The first to fail ends gather() and   *)
(* the next connection is opened, but nobody cancels the other two: the    *)
(* old _send_log_record goes on taking records from the queue until its    *)
(* send() fails on the closed connection.                                  *)
(*                                                                         *)
(* The websocket is external: a connection closes at any moment, and a     *)
(* send() on a closed one raises ConnectionClosed.                         *)
(***************************************************************************)
EXTENDS Integers, Sequences, SequencesExt

CONSTANTS
  MaxLogSize,      \* _MAX_LOG_SIZE
  MaxRecords,      \* bound: records emitted
  MaxConnections   \* bound: connections; the last one does not close

ASSUME LogAssumption == {MaxLogSize, MaxRecords, MaxConnections} \subseteq Nat \ {0}

VARIABLES
  logs_queue,      \* records waiting, by number
  warned,          \* warning_overloaded_happened
  phase,           \* of _connect_ws: down, control, gather
  open,            \* the newest connection has not closed
  task,            \* _send_log_record of each connection: none, idle, holding, done
  hand,            \* the record each of them holds, 0 for none
  accepted,        \* history: records put into the queue
  emitted,         \* history: what became of each record emitted
  delivered,       \* history: records sent over an open connection
  lost             \* history: for each closed connection the record it cost

emitVars == <<logs_queue, warned, accepted, emitted>>
connVars == <<phase, open, task, hand>>
vars == <<emitVars, connVars, delivered, lost>>

Connections == Len(task)

TypeOK ==
  /\ logs_queue \in Seq(Nat)
  /\ Len(logs_queue) <= MaxLogSize
  /\ warned \in BOOLEAN
  /\ phase \in {"down", "control", "gather"}
  /\ open \in BOOLEAN
  /\ task \in Seq({"none", "idle", "holding", "done"})
  /\ hand \in Seq(Nat)
  /\ Len(hand) = Len(task)
  /\ accepted \in Nat
  /\ emitted \in Seq({"put", "noticed", "dropped"})
  /\ delivered \in Seq(Nat)
  /\ lost \in Seq(Nat)

Init ==
  /\ logs_queue = <<>>
  /\ warned = FALSE
  /\ phase = "down"
  /\ open = FALSE
  /\ task = <<>>
  /\ hand = <<>>
  /\ accepted = 0
  /\ emitted = <<>>
  /\ delivered = <<>>
  /\ lost = <<>>

-----------------------------------------------------------------------------
(* emit; Handler.handle calls it under the handler's lock *)

\* Fault: off by one.
EmitPutOneMore ==
  /\ Len(emitted) < MaxRecords
  /\ Len(logs_queue) <= MaxLogSize
  /\ logs_queue' = Append(logs_queue, accepted + 1)
  /\ accepted' = accepted + 1
  /\ warned' = FALSE
  /\ emitted' = Append(emitted, "put")
  /\ UNCHANGED <<connVars, delivered, lost>>

EmitPut ==
  /\ Len(emitted) < MaxRecords
  /\ Len(logs_queue) < MaxLogSize
  /\ logs_queue' = Append(logs_queue, accepted + 1)
  /\ accepted' = accepted + 1
  /\ warned' = FALSE
  /\ emitted' = Append(emitted, "put")
  /\ UNCHANGED <<connVars, delivered, lost>>

\* Fault: the flag is reset with every record.
EmitDropForgets ==
  /\ Len(emitted) < MaxRecords
  /\ Len(logs_queue) >= MaxLogSize
  /\ emitted' = Append(emitted, IF warned THEN "dropped" ELSE "noticed")
  /\ warned' = FALSE
  /\ UNCHANGED <<logs_queue, accepted, connVars, delivered, lost>>

\* The queue is overloaded: the record is dropped, the first of them with a
\* notice.
EmitDrop ==
  /\ Len(emitted) < MaxRecords
  /\ Len(logs_queue) >= MaxLogSize
  /\ emitted' = Append(emitted, IF warned THEN "dropped" ELSE "noticed")
  /\ warned' = TRUE
  /\ UNCHANGED <<logs_queue, accepted, connVars, delivered, lost>>

-----------------------------------------------------------------------------
(* The thread *)

\* async for: the next connection; a failing attempt is repeated after a pause.
Connect ==
  /\ phase = "down"
  /\ Connections < MaxConnections
  /\ phase' = "control"
  /\ open' = TRUE
  /\ task' = Append(task, "none")
  /\ hand' = Append(hand, 0)
  /\ UNCHANGED <<emitVars, delivered, lost>>

\* The control packet, and then the tasks; if the connection is closed by then
\* the exception leads to the next one.
SendControl ==
  /\ phase = "control"
  /\ IF open
     THEN phase' = "gather" /\ task' = [task EXCEPT ![Connections] = "idle"]
     ELSE phase' = "down" /\ UNCHANGED task
  /\ UNCHANGED <<emitVars, open, hand, delivered, lost>>

\* The connection closes; a record just being sent over it is lost.
Close ==
  /\ open
  /\ Connections < MaxConnections
  /\ open' = FALSE
  /\ lost' = Append(lost, hand[Connections])
  /\ UNCHANGED <<emitVars, phase, task, hand, delivered>>

\* Fault: the next connection starts with an empty queue.
GatherFailsForgets ==
  /\ phase = "gather"
  /\ ~open
  /\ phase' = "down"
  /\ logs_queue' = <<>>
  /\ UNCHANGED <<warned, accepted, emitted, open, task, hand, delivered, lost>>

\* _ping or _recv_sink meets the closed connection: gather() raises.
GatherFails ==
  /\ phase = "gather"
  /\ ~open
  /\ phase' = "down"
  /\ UNCHANGED <<emitVars, open, task, hand, delivered, lost>>

\* The connection of k is the newest and still open.
Live(k) == k = Connections /\ open

\* _send_log_record of connection k takes a record, whether k is open or not.
Take(k) ==
  /\ task[k] = "idle"
  /\ logs_queue # <<>>
  /\ task' = [task EXCEPT ![k] = "holding"]
  /\ hand' = [hand EXCEPT ![k] = Head(logs_queue)]
  /\ logs_queue' = Tail(logs_queue)
  /\ lost' = IF Live(k) THEN lost ELSE [lost EXCEPT ![k] = Head(logs_queue)]
  /\ UNCHANGED <<warned, accepted, emitted, phase, open, delivered>>

\* Fault: the task sends one record per connection.
SentOnce(k) ==
  /\ task[k] = "holding"
  /\ Live(k)
  /\ task' = [task EXCEPT ![k] = "done"]
  /\ hand' = [hand EXCEPT ![k] = 0]
  /\ delivered' = Append(delivered, hand[k])
  /\ UNCHANGED <<emitVars, phase, open, lost>>

\* ws.send() returns.
Sent(k) ==
  /\ task[k] = "holding"
  /\ Live(k)
  /\ task' = [task EXCEPT ![k] = "idle"]
  /\ hand' = [hand EXCEPT ![k] = 0]
  /\ delivered' = Append(delivered, hand[k])
  /\ UNCHANGED <<emitVars, phase, open, lost>>

\* Fault: the record is put back into the queue.
SendFailsRequeues(k) ==
  /\ task[k] = "holding"
  /\ ~Live(k)
  /\ task' = [task EXCEPT ![k] = "done"]
  /\ hand' = [hand EXCEPT ![k] = 0]
  /\ phase' = IF k = Connections THEN "down" ELSE phase
  /\ logs_queue' = Append(logs_queue, hand[k])
  /\ UNCHANGED <<warned, accepted, emitted, open, delivered, lost>>

\* ws.send() raises ConnectionClosed: the task is over, and so is gather() if it
\* still waits for this task.
SendFails(k) ==
  /\ task[k] = "holding"
  /\ ~Live(k)
  /\ task' = [task EXCEPT ![k] = "done"]
  /\ hand' = [hand EXCEPT ![k] = 0]
  /\ phase' = IF k = Connections THEN "down" ELSE phase
  /\ UNCHANGED <<emitVars, open, delivered, lost>>

-----------------------------------------------------------------------------
Sender(k) == Take(k) \/ Sent(k) \/ SendFails(k)

Next ==
  \/ EmitPut \/ EmitDrop
  \/ Connect \/ SendControl \/ Close \/ GatherFails
  \/ \E k \in 1 .. Connections : Sender(k)

Spec == Init /\ [][Next]_vars

\* The event loop runs every task that is not suspended.
Fairness ==
  /\ WF_vars(Connect)
  /\ WF_vars(SendControl)
  /\ WF_vars(GatherFails)
  /\ \A k \in 1 .. MaxConnections : WF_vars(k <= Connections /\ Sender(k))

FairSpec == Spec /\ Fairness

-----------------------------------------------------------------------------
(* Properties *)

\* What still waits is what the newest sender holds and what is in the queue.
UnderWay ==
  IF open /\ task[Connections] = "holding" THEN <<hand[Connections]>> ELSE <<>>

Channel == INSTANCE LossyChannel WITH waiting <- UnderWay \o logs_queue

\* Records reach the gate in the order they were emitted, none twice, and each
\* closed connection costs at most one, however many old senders still take
\* records beside the new one.
LossyChannelSpec == Channel!Spec

\* Every record is delivered, waiting, or the one that a closed connection cost.
Accounted == Channel!Accounted

\* An overload is announced once: the first record dropped since the last one
\* put raises the notice, the others do not.
OneNoticePerOverload ==
  \A i \in 1 .. Len(emitted) :
    /\ emitted[i] = "noticed" => i = 1 \/ emitted[i - 1] = "put"
    /\ emitted[i] = "dropped" => i > 1 /\ emitted[i - 1] # "put"

\* No record stays for ever: it is delivered or a closed connection took it.
RecordsLeave ==
  \A r \in 1 .. MaxRecords :
    r \in ToSet(logs_queue) ~> r \in ToSet(delivered) \cup ToSet(lost)
=============================================================================
