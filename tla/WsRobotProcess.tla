--------------------------- MODULE WsRobotProcess ---------------------------
(***************************************************************************)
(* WsRobotProcess (processes/ws.py): one process that forwards what it     *)
(* consumes to a websocket gate (push_loop), or what it receives from the  *)
(* gate to its own queues (pull, bidirectional).  run() opens a            *)
(* connection, sends a control packet and runs a few tasks in one event    *)
(* loop; the first of them to fail ends the session, the others go on      *)
(* until the connection is closed and asyncio.run cancels them, and        *)
(* keep_alive runs the process again.                                      *)
(*                                                                         *)
(* get and put of the process's queues are ordinary blocking calls: while  *)
(* a task waits in one no other task of the process runs.  The gate and    *)
(* the connection are external.  Clearing of queues between two sessions   *)
(* is in ProcessQueues.                                                    *)
(***************************************************************************)
EXTENDS Integers, Sequences, SequencesExt

CONSTANTS
  Commands,      \* command_type of the process, one of them
  InboxSize,     \* maxsize of the queue it consumes
  OutboxSize,    \* maxsize of the queue it publishes to
  MaxMessages,   \* bound: messages other processes give it
  MaxFrames,     \* bound: frames the gate sends it
  MaxCloses      \* bound: connections closed by the gate or the network

ASSUME WsAssumption ==
  /\ Commands \subseteq {"pull", "push_loop", "bidirectional"}
  /\ {InboxSize, OutboxSize, MaxMessages, MaxFrames, MaxCloses} \subseteq Nat \ {0}

VARIABLES
  command,      \* command_type
  phase,        \* of run: down, control, running, closing
  open,         \* the connection of this session has not closed
  closes,       \* number of connections closed from outside
  inbox,        \* queue it consumes: number, good (binary, and a service named)
  sender,       \* _send_to_ws: none, idle, holding, done
  hand,         \* message it sends, 0 for none
  frames,       \* frames received and not read: number, kind
  puller,       \* _pull_callback: none, reading, done
  publishing,   \* frame it is publishing, 0 for none; the event loop is blocked
  outbox,       \* queue it publishes to
  accepted,     \* history: messages given to it
  delivered,    \* history: messages sent over an open connection
  lost,         \* history: for each closed connection the message it cost
  arrived,      \* history: frames the gate has sent
  pulled,       \* history: data frames read from a connection
  forwarded     \* history: data frames published

pushVars == <<inbox, sender, hand, accepted, delivered>>
pullVars == <<frames, puller, publishing, outbox, arrived, pulled, forwarded>>
sessionVars == <<phase, open, closes, lost>>
vars == <<command, sessionVars, pushVars, pullVars>>

Pulling == command \in {"pull", "bidirectional"}
Free == publishing = 0

TypeOK ==
  /\ command \in Commands
  /\ phase \in {"down", "control", "running", "closing"}
  /\ open \in BOOLEAN
  /\ closes \in 0 .. MaxCloses
  /\ inbox \in Seq([id : Nat, good : BOOLEAN]) /\ Len(inbox) <= InboxSize
  /\ sender \in {"none", "idle", "holding", "done"}
  /\ hand \in Nat
  /\ frames \in Seq([id : Nat, kind : {"data", "ping", "bad"}])
  /\ puller \in {"none", "reading", "done"}
  /\ publishing \in Nat
  /\ outbox \in Seq(Nat) /\ Len(outbox) <= OutboxSize
  /\ accepted \in Nat /\ arrived \in Nat
  /\ {delivered, lost, pulled, forwarded} \subseteq Seq(Nat)

\* One of them for the life of the process; push is another name of push_loop.
SetCommandType == command \in Commands

Init ==
  /\ SetCommandType
  /\ phase = "down" /\ open = FALSE /\ closes = 0
  /\ inbox = <<>> /\ sender = "none" /\ hand = 0
  /\ frames = <<>> /\ puller = "none" /\ publishing = 0 /\ outbox = <<>>
  /\ accepted = 0 /\ delivered = <<>> /\ lost = <<>>
  /\ arrived = 0 /\ pulled = <<>> /\ forwarded = <<>>

-----------------------------------------------------------------------------
(* The processes around it and the gate *)

Enqueue ==
  /\ command = "push_loop"
  /\ accepted < MaxMessages
  /\ Len(inbox) < InboxSize
  /\ \E good \in BOOLEAN : inbox' = Append(inbox, [id |-> accepted + 1, good |-> good])
  /\ accepted' = accepted + 1
  /\ UNCHANGED <<command, sessionVars, sender, hand, delivered, pullVars>>

Dequeue ==
  /\ outbox # <<>>
  /\ outbox' = Tail(outbox)
  /\ UNCHANGED <<command, sessionVars, pushVars, frames, puller, publishing, arrived, pulled, forwarded>>

\* A frame arrives; "bad" is text that is no ping, data the parser refuses or an
\* answer to a process that does not exist.  (_silent_recv drops what a push
\* loop receives.)
Arrive ==
  /\ open /\ phase = "running" /\ Pulling
  /\ arrived < MaxFrames
  /\ \E kind \in {"data", "ping", "bad"} :
       frames' = Append(frames, [id |-> arrived + 1, kind |-> kind])
  /\ arrived' = arrived + 1
  /\ UNCHANGED <<command, sessionVars, pushVars, puller, publishing, outbox, pulled, forwarded>>

\* The connection closes; a message just being sent over it is lost.
Close ==
  /\ open
  /\ closes < MaxCloses
  /\ closes' = closes + 1
  /\ open' = FALSE
  /\ lost' = Append(lost, hand)
  /\ UNCHANGED <<command, phase, pushVars, pullVars>>

-----------------------------------------------------------------------------
(* A session *)

\* Fault: the process does not come back after its first session.
ConnectOnce ==
  /\ phase = "down"
  /\ lost = <<>>
  /\ phase' = "control"
  /\ open' = TRUE
  /\ UNCHANGED <<command, closes, lost, pushVars, pullVars>>

\* run() after a start; an attempt that fails is an exception, and the process
\* is started again.
Connect ==
  /\ phase = "down"
  /\ phase' = "control"
  /\ open' = TRUE
  /\ UNCHANGED <<command, closes, lost, pushVars, pullVars>>

\* The control packet, and then the tasks of the command.
SendControl ==
  /\ phase = "control"
  /\ IF open
     THEN /\ phase' = "running"
          /\ IF Pulling THEN puller' = "reading" /\ UNCHANGED sender
                        ELSE sender' = "idle" /\ UNCHANGED puller
     ELSE phase' = "down" /\ UNCHANGED <<sender, puller>>
  /\ UNCHANGED <<command, open, closes, lost, inbox, hand, accepted, delivered,
                 frames, publishing, outbox, arrived, pulled, forwarded>>

\* Fault: the task that receives catches the closed connection.
TaskFailsOfPush ==
  /\ phase = "running" /\ ~open /\ Free
  /\ command = "push_loop"
  /\ phase' = "closing"
  /\ UNCHANGED <<command, open, closes, lost, pushVars, pullVars>>

\* _ping, _silent_recv or, with nothing left to read, recv() of _pull_callback
\* meets the closed connection.
TaskFails ==
  /\ phase = "running" /\ ~open /\ Free
  /\ command = "pull" => frames = <<>>
  /\ phase' = "closing"
  /\ UNCHANGED <<command, open, closes, lost, pushVars, pullVars>>

\* A task raises over what it was given; if the connection is still open the
\* session ends it, which costs message m.
Raise(m) ==
  /\ phase' = "closing"
  /\ open' = FALSE
  /\ lost' = IF open THEN Append(lost, m)
             ELSE IF m = 0 THEN lost ELSE [lost EXCEPT ![Len(lost)] = m]

\* Fault: cancels the tasks although one is in the middle of publish.
FinishCancels ==
  /\ phase = "closing"
  /\ phase' = "down"
  /\ sender' = "none" /\ hand' = 0
  /\ puller' = "none" /\ frames' = <<>> /\ publishing' = 0
  /\ UNCHANGED <<command, open, closes, lost, inbox, accepted, delivered,
                 outbox, arrived, pulled, forwarded>>

\* The connection is closed, the remaining tasks are cancelled, run() returns or
\* raises; what was received and not read is gone.
Finish ==
  /\ phase = "closing" /\ Free
  /\ phase' = "down"
  /\ sender' = "none" /\ hand' = 0
  /\ puller' = "none" /\ frames' = <<>>
  /\ UNCHANGED <<command, open, closes, lost, inbox, accepted, delivered,
                 publishing, outbox, arrived, pulled, forwarded>>

-----------------------------------------------------------------------------
(* _send_to_ws *)

\* The queue is not empty: consume.  A message that cannot be sent raises.  The
\* look and the get() are one step, as this process is the only reader of its
\* inbox: no publisher evicts from it.
Take ==
  LET m == Head(inbox) IN
  /\ sender = "idle" /\ inbox # <<>>
  /\ inbox' = Tail(inbox)
  /\ IF m.good
     THEN /\ sender' = "holding" /\ hand' = m.id
          /\ lost' = IF open THEN lost ELSE [lost EXCEPT ![Len(lost)] = m.id]
          /\ UNCHANGED <<phase, open>>
     ELSE /\ sender' = "done" /\ UNCHANGED hand
          /\ Raise(m.id)
  /\ UNCHANGED <<command, closes, accepted, delivered, pullVars>>

Sent ==
  /\ sender = "holding" /\ open
  /\ sender' = "idle" /\ hand' = 0
  /\ delivered' = Append(delivered, hand)
  /\ UNCHANGED <<command, sessionVars, inbox, accepted, pullVars>>

\* Fault: the message is put back behind the others.
SendFailsRequeues ==
  /\ sender = "holding" /\ ~open
  /\ sender' = "done" /\ hand' = 0
  /\ inbox' = Append(inbox, [id |-> hand, good |-> TRUE])
  /\ phase' = "closing"
  /\ UNCHANGED <<command, open, closes, lost, accepted, delivered, pullVars>>

\* ws.send() raises ConnectionClosed.
SendFails ==
  /\ sender = "holding" /\ ~open
  /\ sender' = "done" /\ hand' = 0
  /\ phase' = "closing"
  /\ UNCHANGED <<command, open, closes, lost, inbox, accepted, delivered, pullVars>>

-----------------------------------------------------------------------------
(* _pull_callback *)

\* recv() returns a frame.
Recv ==
  LET f == Head(frames) IN
  /\ puller = "reading" /\ Free /\ frames # <<>>
  /\ frames' = Tail(frames)
  /\ CASE f.kind = "data" ->
            /\ publishing' = f.id
            /\ pulled' = Append(pulled, f.id)
            /\ UNCHANGED <<phase, open, lost, puller>>
       [] f.kind = "ping" -> UNCHANGED <<phase, open, lost, puller, publishing, pulled>>
       [] OTHER -> puller' = "done" /\ Raise(0) /\ UNCHANGED <<publishing, pulled>>
  /\ UNCHANGED <<command, closes, pushVars, outbox, arrived, forwarded>>

\* Fault: put does not wait for a slot.
PublishFrameAnyway ==
  /\ ~Free
  /\ outbox' = Append(outbox, publishing)
  /\ forwarded' = Append(forwarded, publishing)
  /\ publishing' = 0
  /\ UNCHANGED <<command, sessionVars, pushVars, frames, puller, arrived, pulled>>

\* publish() or respond_to() gets its slot.
PublishFrame ==
  /\ ~Free
  /\ Len(outbox) < OutboxSize
  /\ outbox' = Append(outbox, publishing)
  /\ forwarded' = Append(forwarded, publishing)
  /\ publishing' = 0
  /\ UNCHANGED <<command, sessionVars, pushVars, frames, puller, arrived, pulled>>

-----------------------------------------------------------------------------
Sender == Take \/ Sent \/ SendFails
Environment == Enqueue \/ Arrive \/ Close

Next ==
  \/ Environment \/ Dequeue
  \/ Connect \/ SendControl \/ TaskFails \/ Finish
  \/ Sender \/ Recv \/ PublishFrame

Spec == Init /\ [][Next]_vars

\* Tasks that can run do, the process is kept alive, its consumer consumes.
Fairness ==
  /\ WF_vars(Connect) /\ WF_vars(SendControl) /\ WF_vars(TaskFails) /\ WF_vars(Finish)
  /\ WF_vars(Sender) /\ WF_vars(Recv) /\ WF_vars(PublishFrame) /\ WF_vars(Dequeue)

FairSpec == Spec /\ Fairness

-----------------------------------------------------------------------------
(* Properties *)

UnderWay == IF open /\ sender = "holding" THEN <<hand>> ELSE <<>>

Ids(s) == [i \in 1 .. Len(s) |-> s[i].id]

Waiting == UnderWay \o Ids(inbox)

Channel == INSTANCE LossyChannel WITH waiting <- Waiting

\* The push loop: messages reach the gate in the order they were queued, none
\* twice, and a session costs at most one, whichever task fails first and
\* whatever _send_to_ws still takes before it is cancelled.
LossyChannelSpec == Channel!Spec

\* A data frame that recv() returned is published, once and in order, even if
\* the session ends while publish() waits for a slot.
PulledForwarded == pulled = forwarded \o (IF Free THEN <<>> ELSE <<publishing>>)

\* A closed connection is noticed and the process connects again, whichever
\* command it serves and however long publish() blocked its event loop.
SessionsRenewed == ~open ~> open

\* Every message queued leaves the queue: sent, or lost with a connection.
MessagesLeave ==
  \A m \in 1 .. MaxMessages :
    m <= accepted ~> m \in ToSet(delivered) \cup ToSet(lost)
=============================================================================
