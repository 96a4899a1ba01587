--------------------------- MODULE ProcessQueues ---------------------------
(***************************************************************************)
(* RobotProcess (process.py) and the loop that keeps it alive (utils.py):  *)
(* publish, consume and clear_queues of every process of a project, over   *)
(* the queues RobotDispatcher wired.  run() belongs to the user: between   *)
(* two calls of the framework it may make any other call, return or raise. *)
(***************************************************************************)
EXTENDS MpQueue, QueueWiring, FiniteSets

CONSTANTS
  PublishQueues,   \* process -> queue name -> list of queues, one per consumer
  ConsumeQueues,   \* process -> queue name -> queue
  QueuesToClear,   \* process -> list of queue names (queues_to_clear)
  KeepAlive,       \* processes whose keep_alive is not switched off
  Flags,           \* process -> values it passes for clear_on_overflow
                   \*            and clear_all_messages
  CanLeave,        \* processes whose run() may return or raise
  CanStop,         \* processes the dispatcher may terminate
  MaxSent          \* bound: messages each process publishes

Names == UNION {DOMAIN PublishQueues[p] \cup DOMAIN ConsumeQueues[p] : p \in Process}

\* What RobotDispatcher.__init__ hands to the processes, and what they are told.
ASSUME WiringAssumption ==
  /\ Wired(Process, Queue, PublishQueues, ConsumeQueues)
  /\ \A p \in Process : QueuesToClear[p] \in Seq(STRING)
  /\ \A p \in Process : Flags[p] \subseteq BOOLEAN
  /\ MaxSent \in [Process -> Nat]

VARIABLES
  pc,         \* where each process is
  todo,       \* queues the running call has still to serve, the current one first
  clearing,   \* names clear_queues has still to serve
  flag,       \* clear_on_overflow or clear_all_messages of the running call
  sent,       \* history: names each process has published to, one per message
  taken       \* history: messages read from each queue, in order

procVars == <<pc, todo, clearing, flag, sent, taken>>
vars == <<queueVars, procVars>>

Locations == {"start", "run", "publish", "recheck", "evict", "put", "get",
              "drain", "clear", "clearGet", "ended", "exited", "killed"}
Publishing == {"publish", "recheck", "evict", "put"}
Getting == {"get", "evict", "clearGet"}

Message == [by : Process, id : Nat]

TypeOK ==
  /\ buffer \in [Queue -> Seq(Message)]
  /\ pipe \in [Queue -> Seq(Message)]
  /\ reader \in [Queue -> Process \cup {NoReader}]
  /\ pc \in [Process -> Locations]
  /\ todo \in [Process -> Seq(Queue)]
  /\ clearing \in [Process -> Seq(STRING)]
  /\ flag \in [Process -> BOOLEAN]
  /\ sent \in [Process -> Seq(Names)]
  /\ taken \in [Queue -> Seq(Message)]
  /\ \A q \in Queue : Size(q) <= MaxSize[q]

Init ==
  /\ QueueInit
  /\ pc = [p \in Process |-> "start"]
  /\ todo = [p \in Process |-> <<>>]
  /\ clearing = [p \in Process |-> <<>>]
  /\ flag = [p \in Process |-> FALSE]
  /\ sent = [p \in Process |-> <<>>]
  /\ taken = [q \in Queue |-> <<>>]

Goto(p, l) == pc' = [pc EXCEPT ![p] = l]
SetTodo(p, s) == todo' = [todo EXCEPT ![p] = s]
Current(p) == Head(todo[p])

-----------------------------------------------------------------------------
(* publish *)

\* Fault: a name listed twice binds every queue twice.
PublishTwice(p, n) ==
  /\ pc[p] = "run"
  /\ Len(sent[p]) < MaxSent[p]
  /\ \E f \in Flags[p] : flag' = [flag EXCEPT ![p] = f]
  /\ sent' = [sent EXCEPT ![p] = Append(@, n)]
  /\ SetTodo(p, PublishQueues[p][n] \o PublishQueues[p][n])
  /\ Goto(p, "publish")
  /\ UNCHANGED <<queueVars, clearing, taken>>

\* Fault: the queues are those of another name.
PublishElsewhere(p, n) ==
  /\ pc[p] = "run"
  /\ Len(sent[p]) < MaxSent[p]
  /\ \E f \in Flags[p] : flag' = [flag EXCEPT ![p] = f]
  /\ sent' = [sent EXCEPT ![p] = Append(@, n)]
  /\ \E k \in DOMAIN PublishQueues[p] : SetTodo(p, PublishQueues[p][k])
  /\ Goto(p, "publish")
  /\ UNCHANGED <<queueVars, clearing, taken>>

\* publish(message, n, clear_on_overflow): the message is the next of p.
Publish(p, n) ==
  /\ pc[p] = "run"
  /\ Len(sent[p]) < MaxSent[p]
  /\ \E f \in Flags[p] : flag' = [flag EXCEPT ![p] = f]
  /\ sent' = [sent EXCEPT ![p] = Append(@, n)]
  /\ SetTodo(p, PublishQueues[p][n])
  /\ Goto(p, "publish")
  /\ UNCHANGED <<queueVars, clearing, taken>>

\* Fault: on a full queue the new message is dropped.
CheckFullGivesUp(p) ==
  /\ pc[p] \in {"publish", "recheck"}
  /\ flag[p]
  /\ Goto(p, IF Full(Current(p)) THEN "run" ELSE "put")
  /\ UNCHANGED <<queueVars, todo, clearing, flag, sent, taken>>

\* while q.full(): only a publisher that clears on overflow looks.
CheckFull(p) ==
  /\ pc[p] \in {"publish", "recheck"}
  /\ flag[p]
  /\ Goto(p, IF Full(Current(p)) THEN "evict" ELSE "put")
  /\ UNCHANGED <<queueVars, todo, clearing, flag, sent, taken>>

\* Fault: publish returns inside its loop.
PutFirstOnly(p) ==
  /\ pc[p] = "put" \/ (pc[p] = "publish" /\ ~flag[p])
  /\ QueuePut(Current(p), [by |-> p, id |-> Len(sent[p])])
  /\ SetTodo(p, <<>>)
  /\ Goto(p, "run")
  /\ UNCHANGED <<clearing, flag, sent, taken>>

\* Fault: the loop does not advance.
PutAgain(p) ==
  /\ pc[p] = "put" \/ (pc[p] = "publish" /\ ~flag[p])
  /\ QueuePut(Current(p), [by |-> p, id |-> Len(sent[p])])
  /\ Goto(p, "publish")
  /\ UNCHANGED <<todo, clearing, flag, sent, taken>>

\* q.put(message); the call returns after the last queue of the list.
Put(p) ==
  /\ pc[p] = "put" \/ (pc[p] = "publish" /\ ~flag[p])
  /\ QueuePut(Current(p), [by |-> p, id |-> Len(sent[p])])
  /\ SetTodo(p, Tail(todo[p]))
  /\ Goto(p, IF Tail(todo[p]) = <<>> THEN "run" ELSE "publish")
  /\ UNCHANGED <<clearing, flag, sent, taken>>

-----------------------------------------------------------------------------
(* consume and the other calls of get() *)

\* consume(n, clear_all_messages).
Consume(p, n) ==
  /\ pc[p] = "run"
  /\ \E f \in Flags[p] : flag' = [flag EXCEPT ![p] = f]
  /\ SetTodo(p, <<ConsumeQueues[p][n]>>)
  /\ Goto(p, "get")
  /\ UNCHANGED <<queueVars, clearing, sent, taken>>

\* p enters get() of its current queue.
Lock(p) ==
  /\ pc[p] \in Getting
  /\ QueueLock(Current(p), p)
  /\ UNCHANGED procVars

Take(p) ==
  /\ QueueReceive(Current(p), p)
  /\ taken' = [taken EXCEPT ![Current(p)] = Append(@, Head(pipe[Current(p)]))]

\* get() of consume returns.
Get(p) ==
  /\ pc[p] = "get"
  /\ Take(p)
  /\ Goto(p, IF flag[p] THEN "drain" ELSE "run")
  /\ UNCHANGED <<todo, clearing, flag, sent>>

\* while not empty(): take another one, the last is the one returned.
Drain(p) ==
  /\ pc[p] = "drain"
  /\ Goto(p, IF Empty(Current(p)) THEN "run" ELSE "get")
  /\ UNCHANGED <<queueVars, todo, clearing, flag, sent, taken>>

\* get() of publish returns: one message of the full queue is dropped.
Evict(p) ==
  /\ pc[p] = "evict"
  /\ Take(p)
  /\ Goto(p, "recheck")
  /\ UNCHANGED <<todo, clearing, flag, sent>>

-----------------------------------------------------------------------------
(* start_process and keep_alive *)

\* The constructor and then run().
Construct(p) ==
  /\ pc[p] = "start"
  /\ Goto(p, "run")
  /\ UNCHANGED <<queueVars, todo, clearing, flag, sent, taken>>

\* The constructor raises: there is no object to free the resources of.
ConstructFails(p) ==
  /\ pc[p] = "start"
  /\ p \in CanLeave
  /\ Goto(p, "ended")
  /\ UNCHANGED <<queueVars, todo, clearing, flag, sent, taken>>

\* run() returns or raises: free_resources.
Leave(p) ==
  /\ pc[p] = "run"
  /\ p \in CanLeave
  /\ clearing' = [clearing EXCEPT ![p] = QueuesToClear[p]]
  /\ SetTodo(p, <<>>)
  /\ Goto(p, "clear")
  /\ UNCHANGED <<queueVars, flag, sent, taken>>

\* clear_queue(n): the queue p consumes, or else all it publishes to.
QueuesOf(p, n) ==
  IF n \in DOMAIN ConsumeQueues[p] THEN <<ConsumeQueues[p][n]>>
  ELSE IF n \in DOMAIN PublishQueues[p] THEN PublishQueues[p][n]
  ELSE <<>>

\* The loops of clear_queues and clear_queue: the next name, or the end.
ClearNext(p) ==
  /\ pc[p] = "clear"
  /\ todo[p] = <<>>
  /\ IF clearing[p] = <<>>
     THEN Goto(p, "ended") /\ UNCHANGED <<todo, clearing>>
     ELSE /\ SetTodo(p, QueuesOf(p, Head(clearing[p])))
          /\ clearing' = [clearing EXCEPT ![p] = Tail(@)]
          /\ UNCHANGED pc
  /\ UNCHANGED <<queueVars, flag, sent, taken>>

\* while not q.empty().
ClearCheck(p) ==
  /\ pc[p] = "clear"
  /\ todo[p] # <<>>
  /\ IF Empty(Current(p))
     THEN SetTodo(p, Tail(todo[p])) /\ UNCHANGED pc
     ELSE Goto(p, "clearGet") /\ UNCHANGED todo
  /\ UNCHANGED <<queueVars, clearing, flag, sent, taken>>

\* q.get(timeout=2.0) returns a message, which is dropped.
ClearGet(p) ==
  /\ pc[p] = "clearGet"
  /\ Take(p)
  /\ Goto(p, "clear")
  /\ UNCHANGED <<todo, clearing, flag, sent>>

\* q.get(timeout=2.0) raises: free_resources ends there.
ClearTimeout(p) ==
  /\ pc[p] = "clearGet"
  /\ QueueTimeout(Current(p), p)
  /\ Goto(p, "ended")
  /\ UNCHANGED <<todo, clearing, flag, sent, taken>>

\* Fault: nobody is restarted.
AgainNever(p) ==
  /\ pc[p] = "ended"
  /\ Goto(p, "exited")
  /\ UNCHANGED <<queueVars, todo, clearing, flag, sent, taken>>

\* The end of an iteration of alive_cycle.
Again(p) ==
  /\ pc[p] = "ended"
  /\ Goto(p, IF p \in KeepAlive THEN "start" ELSE "exited")
  /\ UNCHANGED <<queueVars, todo, clearing, flag, sent, taken>>

\* process.terminate() of RobotDispatcher.stop_process: what the process had
\* buffered is never fed, a reader lock it held is never released.
Stop(p) ==
  /\ p \in CanStop
  /\ pc[p] \notin {"exited", "killed"}
  /\ Goto(p, "killed")
  /\ UNCHANGED <<queueVars, todo, clearing, flag, sent, taken>>

\* The feeder thread of p for queue q; it dies with a terminated process.
Feed(p, q) ==
  /\ pc[p] # "killed"
  /\ \E i \in 1 .. Len(buffer[q]) : buffer[q][i].by = p /\ QueueFeed(q, i)
  /\ UNCHANGED procVars

-----------------------------------------------------------------------------
PublishStep(p) == CheckFull(p) \/ Put(p) \/ Evict(p)
ConsumeStep(p) == Get(p) \/ Drain(p)
CycleStep(p) ==
  Construct(p) \/ ClearNext(p) \/ ClearCheck(p) \/ ClearGet(p)
    \/ ClearTimeout(p) \/ Again(p)

Step(p) ==
  \/ \E n \in DOMAIN PublishQueues[p] : Publish(p, n)
  \/ \E n \in DOMAIN ConsumeQueues[p] : Consume(p, n)
  \/ Lock(p)
  \/ PublishStep(p)
  \/ ConsumeStep(p)
  \/ CycleStep(p)
  \/ ConstructFails(p)
  \/ Leave(p)
  \/ Stop(p)
  \/ \E q \in Queue : Feed(p, q)

Next == \E p \in Process : Step(p)

Spec == Init /\ [][Next]_vars

\* Threads that are not blocked run on.  A constructor does not fail for ever,
\* and a run() that consumes calls consume again however often it leaves and is
\* restarted in between.
Fairness ==
  \A p \in Process :
    /\ WF_vars(Lock(p))
    /\ WF_vars(PublishStep(p))
    /\ WF_vars(ConsumeStep(p))
    /\ WF_vars(CycleStep(p))
    /\ SF_vars(Construct(p))
    /\ \A q \in Queue : WF_vars(Feed(p, q))
    /\ \A n \in DOMAIN ConsumeQueues[p] : SF_vars(Consume(p, n))

FairSpec == Spec /\ Fairness

-----------------------------------------------------------------------------
(* Properties *)

Older(m, k) == m.by = k.by => m.id < k.id
Ordered(s) == \A i, j \in 1 .. Len(s) : i < j => Older(s[i], s[j])
Before(s, t) == \A i \in 1 .. Len(s), j \in 1 .. Len(t) : Older(s[i], t[j])

\* Whoever reads a queue (its consumer, an evicting publisher, clear_queue, in
\* any interleaving) takes the messages of one publisher in the order they were
\* published and none twice, across overflow, restarts and terminated processes.
DeliveryOrder == \A q \in Queue : Ordered(taken[q])

\* Why the order holds.  What was taken from q, what is in its pipe and what is
\* in its buffer precede each other;
FlowOrder ==
  \A q \in Queue :
    /\ Ordered(taken[q])
    /\ Ordered(pipe[q])
    /\ Ordered(buffer[q])
    /\ Before(taken[q], pipe[q])
    /\ Before(taken[q], buffer[q])
    /\ Before(pipe[q], buffer[q])

\* the message a running publish still owes to q is younger than those there;
Owes(p, q) == pc[p] \in Publishing /\ q \in ToSet(todo[p])

Settled(m, q) ==
  /\ m.id <= Len(sent[m.by])
  /\ Owes(m.by, q) => m.id < Len(sent[m.by])

IdsBounded ==
  \A q \in Queue :
    /\ \A i \in 1 .. Len(taken[q]) : Settled(taken[q][i], q)
    /\ \A i \in 1 .. Len(pipe[q]) : Settled(pipe[q][i], q)
    /\ \A i \in 1 .. Len(buffer[q]) : Settled(buffer[q][i], q)

\* and a publish owes it to each queue once.
TodoOK ==
  \A p \in Process :
    /\ pc[p] \in Publishing \cup Getting \cup {"drain"} => todo[p] # <<>>
    /\ pc[p] \in Publishing =>
         \A i, j \in 1 .. Len(todo[p]) : todo[p][i] = todo[p][j] => i = j

\* The inductive invariant behind DeliveryOrder: whatever the calls of the
\* processes interleave, order and bounds hold together.
OrderInv == TypeOK /\ TodoOK /\ FlowOrder /\ IdsBounded

\* Messages of q that exist or have existed.
Seen(q) == ToSet(taken[q]) \cup ToSet(pipe[q]) \cup ToSet(buffer[q])

\* "Everyone will receive a copy of the message" (publish): once publish has
\* passed a queue of the list, the message is in that queue or somebody took it
\* from there; a call still running owes it only to the queues it has left.
EveryoneGetsACopy ==
  \A p \in Process : \A i \in 1 .. Len(sent[p]) :
    \A q \in ToSet(PublishQueues[p][sent[p][i]]) :
      \/ [by |-> p, id |-> i] \in Seen(q)
      \/ /\ i = Len(sent[p])
         /\ pc[p] \in Publishing \cup {"killed"}
         /\ q \in ToSet(todo[p])

\* No queue ever holds or delivers a message that was not published under a
\* name bound to that queue.
OnlyPublished ==
  \A q \in Queue : \A m \in Seen(q) :
    /\ m.id \in 1 .. Len(sent[m.by])
    /\ q \in ToSet(PublishQueues[m.by][sent[m.by][m.id]])

\* Every call of publish returns.
PublishReturns == \A p \in Process : pc[p] \in Publishing ~> pc[p] \notin Publishing

\* What is published is taken by every consumer of the name.
Delivered ==
  \A p \in Process : \A n \in DOMAIN PublishQueues[p] :
    \A q \in ToSet(PublishQueues[p][n]), i \in 1 .. MaxSent[p] :
      (i <= Len(sent[p]) /\ sent[p][i] = n)
        ~> [by |-> p, id |-> i] \in ToSet(taken[q])
=============================================================================
