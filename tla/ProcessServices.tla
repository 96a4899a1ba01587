--------------------------- MODULE ProcessServices ---------------------------
(***************************************************************************)
(* One process with `monitoring` and what serves it: its main thread runs  *)
(* keep_alive and start_process (utils.py), constructs process objects,    *)
(* beats the heart to the watcher shared with other processes and stops    *)
(* the stack monitor in free_resources.                                    *)
(***************************************************************************)
EXTENDS StackMonitor, Heartbeats

CONSTANT Feeder      \* the thread that feeds watcher_queue, one of Others

ASSUME ServiceAssumption == Feeder \in Others

VARIABLES
    life,   \* the process object
    main    \* where the main thread is

servicesVars == <<thread, at, lock, seen, counter, report, flagged, rounds, printed,
          calling, queued, watcher, life, main>>

ServicesTypeOK ==
    /\ MonitorTypeOK /\ HeartbeatTypeOK
    /\ life \in Life
    /\ main \in {"construct", "started", "constructing", "run",
                 "print", "clear", "stop", "pause", "ended"}

ServicesInit == MonitorInit /\ HeartbeatInit /\ life = 1 /\ main = "construct"

-----------------------------------------------------------------------------
(* start_process: construction *)

StartMonitor ==
    /\ main = "construct" /\ Starts(Monitor(life)) /\ main' = "started"
    /\ UNCHANGED <<at, lock, seen, counter, report, flagged, rounds, printed, life, heartbeatVars>>

StartPrinter ==
    /\ main = "started" /\ thread[Monitor(life)] # "starting"
    /\ Starts(Printer(life)) /\ main' = "constructing"
    /\ UNCHANGED <<at, lock, seen, counter, report, flagged, rounds, printed, life, heartbeatVars>>

Constructed ==
    /\ main = "constructing" /\ thread[Printer(life)] # "starting" /\ main' = "run"
    /\ UNCHANGED <<monitorVars, life, heartbeatVars>>

\* The constructor of the subclass raises after RobotProcess.__init__: there
\* is no object yet, nobody stops its monitor.
ConstructionFails ==
    /\ main = "constructing" /\ thread[Printer(life)] # "starting" /\ main' = "pause"
    /\ UNCHANGED <<monitorVars, life, heartbeatVars>>

-----------------------------------------------------------------------------
(* run(): heartbeats *)

Beats ==
    /\ main = "run" /\ Heartbeat
    /\ UNCHANGED <<monitorVars, life, main>>

\* The first put of the process starts its feeder thread.
BeatPut ==
    /\ HeartbeatPut
    /\ IF thread[Feeder] = "none"
       THEN thread' = [thread EXCEPT ![Feeder] = "starting"]
       ELSE UNCHANGED thread
    /\ UNCHANGED <<at, lock, seen, counter, report, flagged, rounds, printed, life, main>>

BeatDropped == HeartbeatDropped /\ UNCHANGED <<monitorVars, life, main>>

\* run() returns or raises: free_resources.
RunEnds ==
    /\ main = "run" /\ ~calling /\ main' = "print"
    /\ UNCHANGED <<monitorVars, life, heartbeatVars>>

-----------------------------------------------------------------------------
(* free_resources: stop_monitoring; keep_alive *)

StopPrints ==
    /\ main = "print" /\ PrintCounts(life, "main") /\ main' = "clear"
    /\ UNCHANGED <<flagged, life, heartbeatVars>>

StopClears == main = "clear" /\ Clear(life, "main") /\ main' = "stop" /\ UNCHANGED <<life, heartbeatVars>>
Stops == main = "stop" /\ StopThreads(life) /\ main' = "pause" /\ UNCHANGED <<life, heartbeatVars>>

LivesAgain ==
    /\ main = "pause" /\ life < MaxLives
    /\ life' = life + 1 /\ main' = "construct"
    /\ UNCHANGED <<monitorVars, heartbeatVars>>

\* `keep_alive` is false: the process exits, and its threads with it.
Closes ==
    /\ main = "pause" /\ main' = "ended"
    /\ thread' = [t \in Threads |-> "gone"]
    /\ UNCHANGED <<at, lock, seen, counter, report, flagged, rounds, printed, life, heartbeatVars>>

-----------------------------------------------------------------------------

Monitoring == MonitorNext /\ UNCHANGED <<life, main, heartbeatVars>>

Elsewhere == HeartbeatElsewhere /\ UNCHANGED <<monitorVars, life, main>>

ServicesNext ==
    \/ StartMonitor \/ StartPrinter \/ Constructed \/ ConstructionFails
    \/ Beats \/ BeatPut \/ BeatDropped \/ RunEnds
    \/ StopPrints \/ StopClears \/ Stops \/ LivesAgain \/ Closes
    \/ Monitoring \/ Elsewhere

ServicesSpec ==
    /\ ServicesInit /\ [][ServicesNext]_servicesVars
    /\ MonitorFairness
    /\ WF_servicesVars(StartMonitor \/ StartPrinter \/ Constructed \/ BeatPut \/ BeatDropped \/ StopClears)
    /\ SF_servicesVars(StopPrints \/ Stops)

-----------------------------------------------------------------------------
(* Properties *)

Busy == main \notin {"run", "pause", "ended"} \/ calling

\* Neither the heartbeat nor the stack monitor holds the process up for ever:
\* not with the watcher ended and its queue full, nor with a monitor thread
\* that died sampling, nor with the threads of an earlier life about.
ProcessGoesOn == Busy ~> ~Busy
==============================================================================
