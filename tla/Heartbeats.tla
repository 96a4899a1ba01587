----------------------------- MODULE Heartbeats -----------------------------
(***************************************************************************)
(* RobotProcess.heartbeat (process.py) and services/watcher.py: processes  *)
(* put heartbeats, with a timeout, into one bounded queue; a thread of the *)
(* dispatcher's process opens a connection for each, takes it and sends.   *)
(* Heartbeats are counted, their content is left out.                      *)
(***************************************************************************)
EXTENDS Naturals

CONSTANT WatcherSize     \* slots of watcher_queue

ASSUME HeartbeatAssumption == WatcherSize \in Nat \ {0}

VARIABLES
    calling,    \* the process is inside put(message, timeout=2.0)
    queued,     \* heartbeats in watcher_queue
    watcher     \* where Watcher.notify is

heartbeatVars == <<calling, queued, watcher>>

HeartbeatTypeOK ==
    /\ calling \in BOOLEAN
    /\ queued \in 0 .. WatcherSize
    /\ watcher \in {"connecting", "open", "sending", "ended"}

HeartbeatInit == calling = FALSE /\ queued = 0 /\ watcher = "connecting"

-----------------------------------------------------------------------------
(* RobotProcess.heartbeat *)

Heartbeat == ~calling /\ calling' = TRUE /\ UNCHANGED <<queued, watcher>>

\* Fault: put does not look at maxsize.
HeartbeatPutAnyway ==
    /\ calling /\ calling' = FALSE /\ queued' = queued + 1
    /\ UNCHANGED watcher

HeartbeatPut ==
    /\ calling /\ calling' = FALSE
    /\ queued < WatcherSize /\ queued' = queued + 1
    /\ UNCHANGED watcher

\* Fault: put without a timeout.
HeartbeatWaits == calling /\ queued = WatcherSize /\ UNCHANGED heartbeatVars

\* The queue stayed full for 2 s: Full is caught, the heartbeat is dropped.
HeartbeatDropped ==
    /\ calling /\ calling' = FALSE /\ queued = WatcherSize
    /\ UNCHANGED <<queued, watcher>>

\* The put of another process; while it waits and when it drops its
\* heartbeat nothing changes here.
OthersPut == queued < WatcherSize /\ queued' = queued + 1 /\ UNCHANGED <<calling, watcher>>

-----------------------------------------------------------------------------
(* Watcher._send_to_ws *)

\* connect() is tried until it succeeds.
Connects ==
    /\ watcher = "connecting" /\ watcher' = "open"
    /\ UNCHANGED <<calling, queued>>

\* One look at the queue per connection; the next connection follows a pause.
NothingToSend ==
    /\ watcher = "open" /\ queued = 0 /\ watcher' = "connecting"
    /\ UNCHANGED <<calling, queued>>

TakeHeartbeat ==
    /\ watcher = "open" /\ queued > 0
    /\ queued' = queued - 1 /\ watcher' = "sending"
    /\ UNCHANGED calling

\* ConnectionClosed is swallowed, with the heartbeat in hand.
SendClosed ==
    /\ watcher = "sending" /\ watcher' = "connecting"
    /\ UNCHANGED <<calling, queued>>

\* send is given the request object and not its JSON: a model is an iterable
\* of pairs, of which websockets sends none; the TypeError ends the thread.
SendFails ==
    /\ watcher = "sending" /\ watcher' = "ended"
    /\ UNCHANGED <<calling, queued>>

HeartbeatElsewhere ==
    OthersPut \/ Connects \/ NothingToSend \/ TakeHeartbeat \/ SendClosed \/ SendFails
=============================================================================
