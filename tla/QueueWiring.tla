---------------------------- MODULE QueueWiring ----------------------------
(***************************************************************************)
(* The dictionaries of queues that RobotDispatcher.__init__ makes for each *)
(* process, as RobotProcess relies on them.                                *)
(***************************************************************************)
EXTENDS Integers, Sequences

\* A name that a process publishes has a list of queues, not empty and none twice;
\* a name that it consumes has one queue.
Wired(processes, queues, publishQueues, consumeQueues) ==
  /\ \A p \in processes : \A n \in DOMAIN publishQueues[p] :
       /\ publishQueues[p][n] \in Seq(queues)
       /\ publishQueues[p][n] # <<>>
       /\ \A i, j \in 1 .. Len(publishQueues[p][n]) :
            publishQueues[p][n][i] = publishQueues[p][n][j] => i = j
  /\ \A p \in processes : \A n \in DOMAIN consumeQueues[p] :
       consumeQueues[p][n] \in queues
=============================================================================
