------------------------ MODULE DispatcherLifecycle ------------------------
(***************************************************************************)
(* RobotDispatcher at run time (dispatcher.py): start_processes,           *)
(* add_process and stop_process, called in any order by one thread of the  *)
(* host program, and run(), which checks the queues for overflow in        *)
(* another.  Both work on the dictionary `processes`; the operating        *)
(* system's processes end on their own, or some time after they were told  *)
(* to.                                                                     *)
(***************************************************************************)
EXTENDS Integers, Sequences, SequencesExt, FiniteSets

CONSTANTS
  Initial,      \* processes of the configuration, in order
  Extra,        \* names add_process may be called with
  Queue,
  Uses,         \* name -> its queues, those it consumes before those it publishes
  MaxSize,      \* slots of each queue
  KnownSize,    \* what the check takes for them: _maxsize or get_queue_max_size
  Levels,       \* numbers of messages told apart, per queue
  CanFail,      \* names whose start may raise
  MaxSpawns     \* bound: operating system processes

Name == ToSet(Initial) \cup Extra

ASSUME LifecycleAssumption ==
  /\ Initial \in Seq(STRING)
  /\ \A i, j \in 1 .. Len(Initial) : Initial[i] = Initial[j] => i = j
  /\ CanFail \subseteq Name
  /\ Uses \in [Name -> Seq(Queue)]
  /\ MaxSize \in [Queue -> Nat \ {0}]
  /\ KnownSize \in [Queue -> Nat \ {0}]
  /\ \A q \in Queue : Levels[q] \subseteq 0 .. MaxSize[q] /\ 0 \in Levels[q]
  /\ MaxSpawns \in Nat

VARIABLES
  processes,   \* registered names, in the order of the dictionary
  pool,        \* process_pool: name -> its operating system process, 0 for none
  spawned,     \* operating system processes: name, state
  calling,     \* what the host program is in: idle, start, add, stop
  names,       \* names the running call has still to serve
  failed,      \* history: names whose last start raised
  started,     \* history: a start_processes has come to its end
  replaced,    \* history: processes a start_processes put another in the place of
  checking,    \* run(): sleep, next, read, stopped, crashed
  size,        \* size of the dictionary when the check began
  visited,     \* names the check has come to
  queues,      \* queues of the current process it has still to read
  overflow,    \* is_overflow
  level,       \* messages in each queue
  since,       \* history: queues full since the check began
  stayed       \* names registered since the check began

processVars == <<processes, pool, spawned, calling, names, failed, started, replaced>>
checkVars == <<checking, size, visited, queues, overflow, level, since>>
vars == <<processVars, checkVars, stayed>>

Full(q) == level[q] = MaxSize[q]

TypeOK ==
  /\ processes \in Seq(Name)
  /\ \A i, j \in 1 .. Len(processes) : processes[i] = processes[j] => i = j
  /\ pool \in [Name -> 0 .. Len(spawned)]
  /\ spawned \in Seq([name : Name, state : {"running", "terminating", "dead"}])
  /\ calling \in {"idle", "start", "add", "stop"}
  /\ names \in Seq(Name)
  /\ failed \subseteq Name
  /\ started \in BOOLEAN
  /\ replaced \subseteq 1 .. Len(spawned)
  /\ checking \in {"sleep", "next", "read", "stopped", "crashed"}
  /\ size \in Nat
  /\ visited \subseteq Name
  /\ queues \in Seq(Queue)
  /\ overflow \in BOOLEAN
  /\ level \in [Queue -> Nat] /\ \A q \in Queue : level[q] <= MaxSize[q]
  /\ since \subseteq Queue
  /\ stayed \subseteq Name

Init ==
  /\ processes = Initial
  /\ pool = [n \in Name |-> 0]
  /\ spawned = <<>>
  /\ calling = "idle"
  /\ names = <<>>
  /\ failed = {}
  /\ started = FALSE
  /\ replaced = {}
  /\ checking = "sleep"
  /\ size = 0
  /\ visited = {}
  /\ queues = <<>>
  /\ overflow = FALSE
  /\ level = [q \in Queue |-> 0]
  /\ since = {}
  /\ stayed = {}

-----------------------------------------------------------------------------
(* The calls of the host program *)

\* Fault: the entry is made before start() and stays when that raises.
RunProcessEntryOnly(n) ==
  /\ pool' = [pool EXCEPT ![n] = Len(spawned) + 1]
  /\ UNCHANGED spawned

\* _run_process: start() and the entry of the pool, which may replace another.
RunProcess(n) ==
  /\ spawned' = Append(spawned, [name |-> n, state |-> "running"])
  /\ pool' = [pool EXCEPT ![n] = Len(spawned) + 1]

\* start_processes: also again, after add_process, or after one that raised.
StartProcesses ==
  /\ calling = "idle"
  /\ processes # <<>> /\ Len(spawned) + Len(processes) <= MaxSpawns
  /\ calling' = "start"
  /\ names' = processes
  /\ UNCHANGED <<processes, pool, spawned, failed, started, replaced, checkVars, stayed>>

\* One name; what the pool had under it is not in the pool any more.
StartNext ==
  LET n == Head(names) IN
  /\ calling = "start"
  /\ RunProcess(n)
  /\ failed' = failed \ {n}
  /\ replaced' = replaced \cup ({pool[n]} \ {0})
  /\ names' = Tail(names)
  /\ IF Tail(names) = <<>>
     THEN calling' = "idle" /\ started' = TRUE
     ELSE UNCHANGED <<calling, started>>
  /\ UNCHANGED <<processes, checkVars, stayed>>

\* add_process: refused if the name is in the pool or registered; registers it.
AddProcess(n) ==
  /\ calling = "idle" /\ Len(spawned) < MaxSpawns
  /\ pool[n] = 0
  /\ n \notin ToSet(processes)
  /\ processes' = Append(processes, n)
  /\ calling' = "add"
  /\ names' = <<n>>
  /\ UNCHANGED <<pool, spawned, failed, started, replaced, checkVars, stayed>>

\* ... and starts it.
AddRun ==
  /\ calling = "add"
  /\ RunProcess(names[1])
  /\ failed' = failed \ {names[1]}
  /\ calling' = "idle"
  /\ names' = <<>>
  /\ UNCHANGED <<processes, started, replaced, checkVars, stayed>>

\* start() raises (its arguments cannot be sent to a new process): the call ends
\* there.  The names start_processes has not come to are not started, add_process
\* leaves the registration behind.
RunFails ==
  /\ calling \in {"start", "add"}
  /\ names[1] \in CanFail
  /\ failed' = failed \cup {names[1]}
  /\ calling' = "idle"
  /\ names' = <<>>
  /\ UNCHANGED <<processes, pool, spawned, started, replaced, checkVars, stayed>>

\* del self.processes[n]
Forget(n) == processes' = RemoveAt(processes, CHOOSE i \in 1 .. Len(processes) : processes[i] = n)

\* Fault: only the entry of the pool goes.
EndsInPoolOnly(n) ==
  /\ pool' = [pool EXCEPT ![n] = 0]
  /\ UNCHANGED <<processes, stayed>>

\* The entries of both dictionaries go.
Ends(n) ==
  /\ pool' = [pool EXCEPT ![n] = 0]
  /\ Forget(n)
  /\ stayed' = stayed \ {n}

\* Fault: stop_process joins a process it has not told to end.
StopProcessWaits(n) ==
  /\ calling = "idle"
  /\ pool[n] # 0
  /\ calling' = "stop"
  /\ names' = <<n>>
  /\ UNCHANGED <<processes, pool, spawned, failed, started, replaced, checkVars, stayed>>

\* stop_process of a process that has ended by itself, or that is told to.
StopProcess(n) ==
  /\ calling = "idle"
  /\ pool[n] # 0
  /\ IF spawned[pool[n]].state = "dead"
     THEN Ends(n) /\ UNCHANGED <<spawned, calling, names>>
     ELSE /\ spawned' = [spawned EXCEPT ![pool[n]].state = "terminating"]
          /\ calling' = "stop"
          /\ names' = <<n>>
          /\ UNCHANGED <<pool, processes, stayed>>
  /\ UNCHANGED <<failed, started, replaced, checkVars>>

\* Fault: stop_process does not join.
StopJoinedEarly ==
  /\ calling = "stop"
  /\ Ends(names[1])
  /\ calling' = "idle"
  /\ names' = <<>>
  /\ UNCHANGED <<spawned, failed, started, replaced, checkVars>>

\* join() returns.
StopJoined ==
  /\ calling = "stop"
  /\ spawned[pool[names[1]]].state = "dead"
  /\ Ends(names[1])
  /\ calling' = "idle"
  /\ names' = <<>>
  /\ UNCHANGED <<spawned, failed, started, replaced, checkVars>>

\* A process ends: without keep_alive by itself, or when told to.
Dies(i) ==
  /\ spawned[i].state # "dead"
  /\ spawned' = [spawned EXCEPT ![i].state = "dead"]
  /\ UNCHANGED <<processes, pool, calling, names, failed, started, replaced, checkVars, stayed>>

-----------------------------------------------------------------------------
(* run() and check_queues_overflow *)

\* The processes put and get.
Traffic(q) ==
  /\ \E k \in Levels[q] \ {level[q]} : level' = [level EXCEPT ![q] = k]
  /\ since' = IF level'[q] = MaxSize[q] THEN since ELSE since \ {q}
  /\ UNCHANGED <<processVars, checking, size, visited, queues, overflow, stayed>>

CheckBegin ==
  /\ checking = "sleep"
  /\ checking' = "next"
  /\ size' = Len(processes)
  /\ visited' = {}
  /\ overflow' = FALSE
  /\ since' = {q \in Queue : Full(q)}
  /\ stayed' = ToSet(processes)
  /\ UNCHANGED <<processVars, queues, level>>

Unvisited == {i \in 1 .. Len(processes) : processes[i] \notin visited}

\* No key has been added or removed since the iterator began.
Steady == Len(processes) = size /\ stayed = ToSet(processes)

\* The check ends and with it what it has in hand.
CheckOver ==
  /\ size' = 0
  /\ visited' = {}
  /\ queues' = <<>>
  /\ overflow' = FALSE
  /\ since' = {}
  /\ stayed' = {}

\* for ... in self.processes.items(): a dictionary that has grown or shrunk
\* raises, and nothing in run() catches it.  With other keys of the same number
\* Python may raise, too, and which of them it still finds is open.
CheckNext ==
  /\ checking = "next"
  /\ \/ /\ ~Steady
        /\ checking' = "crashed"
        /\ CheckOver
     \/ /\ Len(processes) = size
        /\ \E i \in Unvisited :
             /\ Steady => \A j \in Unvisited : i <= j
             /\ visited' = visited \cup {processes[i]}
             /\ queues' = Uses[processes[i]]
        /\ checking' = "read"
        /\ UNCHANGED <<size, overflow, since, stayed>>
  /\ UNCHANGED <<processVars, level>>

\* Fault: strictly less than a tenth of the slots is left.
NearlyFullStrict(q) == KnownSize[q] - level[q] < (KnownSize[q] \div 10)

\* q_maxsize - q_size <= int(q_maxsize * 0.1).
NearlyFull(q) == KnownSize[q] - level[q] <= (KnownSize[q] \div 10)

\* One queue of the current process.
CheckRead ==
  /\ checking = "read"
  /\ IF queues = <<>>
     THEN checking' = "next" /\ UNCHANGED <<queues, overflow>>
     ELSE /\ overflow' = (overflow \/ NearlyFull(Head(queues)))
          /\ queues' = Tail(queues)
          /\ UNCHANGED checking
  /\ UNCHANGED <<processVars, size, visited, level, since, stayed>>

Complete == checking = "next" /\ Len(processes) = size /\ (Steady => Unvisited = {})

\* The loops are over: is_overflow is returned, run() sleeps.
CheckEnd ==
  /\ Complete
  /\ checking' = "sleep"
  /\ CheckOver
  /\ UNCHANGED <<processVars, level>>

\* shared_stop_run is set.
RunStops ==
  /\ checking = "sleep"
  /\ checking' = "stopped"
  /\ UNCHANGED <<processVars, size, visited, queues, overflow, level, since, stayed>>

-----------------------------------------------------------------------------
Host ==
  \/ StartProcesses \/ StartNext \/ AddRun \/ RunFails \/ StopJoined
  \/ \E n \in Name : AddProcess(n) \/ StopProcess(n)

Check == CheckBegin \/ CheckNext \/ CheckRead \/ CheckEnd

Next ==
  \/ Host
  \/ Check \/ RunStops
  \/ \E i \in 1 .. Len(spawned) : Dies(i)
  \/ \E q \in Queue : Traffic(q)

Spec == Init /\ [][Next]_vars

\* The threads run; a process told to terminate does.
Fairness ==
  /\ WF_vars(StartNext) /\ WF_vars(AddRun) /\ WF_vars(StopJoined)
  /\ WF_vars(Check)
  /\ \A i \in 1 .. MaxSpawns :
       WF_vars(i <= Len(spawned) /\ spawned[i].state = "terminating" /\ Dies(i))

FairSpec == Spec /\ Fairness

-----------------------------------------------------------------------------
(* Properties *)

\* No process runs that stop_process could not reach, and so no two of a name,
\* but for those a start_processes put another in the place of: whatever else was
\* spawned and has not ended is the one in the pool.  add_process never does so.
AliveInPool ==
  \A i \in 1 .. Len(spawned) :
    spawned[i].state # "dead" => pool[spawned[i].name] = i \/ i \in replaced

\* The two dictionaries agree: what is in the pool is registered, and stop_process
\* relies on it when it deletes from both.  Between two calls, once a
\* start_processes has come to its end, what is registered is in the pool but for
\* the names whose last start raised.
PoolRegistered ==
  /\ \A n \in Name : pool[n] # 0 => n \in ToSet(processes)
  /\ calling = "idle" /\ started => \A n \in ToSet(processes) \ failed : pool[n] # 0

\* "At least if one queue is overflow - return True" (check_queues_overflow): a
\* check that comes to its end over the dictionary it began with has noticed every
\* queue of its processes that was full all along, if it knows the queue's size:
\* one that hides it and is not of the configuration is taken for a larger one.
FullQueueReported ==
  Complete /\ Steady /\ (\E n \in stayed : \E q \in ToSet(Uses[n]) \cap since : KnownSize[q] <= MaxSize[q])
    => overflow

\* Every call of the host program returns; stop_process waits for the end of a
\* process it has told to terminate, which may have ended by itself meanwhile.
CallsReturn == calling # "idle" ~> calling = "idle"
=============================================================================
