------------------------------ MODULE MpQueue ------------------------------
(***************************************************************************)
(* The multiprocessing.Queue the framework builds on, as process.py and    *)
(* dispatcher.py use it.  The class belongs to Python and not to the       *)
(* repository, so this module is an external one: it states what the       *)
(* framework relies on.                                                    *)
(*                                                                         *)
(* put() takes one of the queue's MaxSize slots and leaves the message in  *)
(* a buffer of the putting process; a feeder thread of that process later  *)
(* writes it to the pipe.  full() and qsize() count slots, empty() looks   *)
(* at the pipe alone, get() reads the pipe under the queue's reader lock   *)
(* and gives the slot back.  Messages of one producer stay in order,       *)
(* messages of two producers need not.                                     *)
(***************************************************************************)
EXTENDS Integers, Sequences, SequencesExt

CONSTANTS
  Process,    \* the processes that share the queues
  Queue,      \* the queues
  MaxSize,    \* slots of each queue
  NoReader    \* the reader lock is free

ASSUME MpQueueAssumption ==
  /\ MaxSize \in [Queue -> Nat \ {0}]
  /\ NoReader \notin Process

VARIABLES
  buffer,     \* put, not yet fed; one sequence for all producers, in put order
  pipe,       \* fed, not yet received
  reader      \* holder of the reader lock

queueVars == <<buffer, pipe, reader>>

QueueInit ==
  /\ buffer = [q \in Queue |-> <<>>]
  /\ pipe = [q \in Queue |-> <<>>]
  /\ reader = [q \in Queue |-> NoReader]

\* qsize(): slots taken.
Size(q) == Len(buffer[q]) + Len(pipe[q])

\* full(): no slot is left.
Full(q) == Size(q) >= MaxSize[q]

\* empty(): nothing to read, whatever the buffers hold.
Empty(q) == pipe[q] = <<>>

\* Fault: put() that does not wait for a slot.
QueuePutUnbounded(q, m) ==
  /\ buffer' = [buffer EXCEPT ![q] = Append(@, m)]
  /\ UNCHANGED <<pipe, reader>>

\* put(m), once a slot is free.
QueuePut(q, m) ==
  /\ ~Full(q)
  /\ buffer' = [buffer EXCEPT ![q] = Append(@, m)]
  /\ UNCHANGED <<pipe, reader>>

\* The feeder thread of a producer writes its oldest message, the i-th of the
\* buffer, to the pipe.
QueueFeed(q, i) ==
  /\ \A j \in 1 .. (i - 1) : buffer[q][j].by # buffer[q][i].by
  /\ pipe' = [pipe EXCEPT ![q] = Append(@, buffer[q][i])]
  /\ buffer' = [buffer EXCEPT ![q] = RemoveAt(@, i)]
  /\ UNCHANGED reader

\* get(), first half: p becomes the one reader of the pipe.
QueueLock(q, p) ==
  /\ reader[q] = NoReader
  /\ reader' = [reader EXCEPT ![q] = p]
  /\ UNCHANGED <<buffer, pipe>>

\* get(), second half: p reads one message, leaves the lock, frees the slot.
QueueReceive(q, p) ==
  /\ reader[q] = p
  /\ ~Empty(q)
  /\ pipe' = [pipe EXCEPT ![q] = Tail(@)]
  /\ reader' = [reader EXCEPT ![q] = NoReader]
  /\ UNCHANGED buffer

\* get(timeout) raises queue.Empty: another process kept the lock, or p has it
\* and the pipe stayed empty.
QueueTimeout(q, p) ==
  /\ \/ reader[q] \notin {p, NoReader}
     \/ reader[q] = p /\ Empty(q)
  /\ reader' = [reader EXCEPT ![q] = IF @ = p THEN NoReader ELSE @]
  /\ UNCHANGED <<buffer, pipe>>
=============================================================================
