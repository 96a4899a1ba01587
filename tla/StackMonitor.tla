---------------------------- MODULE StackMonitor ----------------------------
(***************************************************************************)
(* services/stack_monitor.py: StackMonitor.  Each process object (a life)  *)
(* with `monitoring` has a monitor of its own: a thread that samples the   *)
(* stacks of all threads and a thread that prints the counts, sharing a    *)
(* lock with the main thread, which prints once more and stops both.  The  *)
(* threads of an earlier life run in the same operating system process.    *)
(* A round of samples, one stack of each thread, is counted as one.        *)
(***************************************************************************)
EXTENDS Naturals

CONSTANTS
    MaxLives,   \* bound: process objects constructed in the process
    MaxPolls,   \* bound: rounds of samples of each monitor
    Others      \* the threads beside the monitors' and the main thread

ASSUME MonitorAssumption == MaxLives \in Nat \ {0} /\ MaxPolls \in Nat

Life == 1 .. MaxLives
Monitor(l) == <<"monitor", l>>
Printer(l) == <<"printer", l>>
Threads == {Monitor(l) : l \in Life} \union {Printer(l) : l \in Life} \union Others

VARIABLES
    thread,     \* Python's view of each thread: between its start and its
                \* entry in the list of threads, and between its removal from
                \* the list and its end, it runs and is not listed
    at,         \* where each monitor thread is in _monitor_fn
    lock,       \* _stack_lock of each life: who holds it
    seen,       \* the threads _get_frames listed
    counter,    \* _stack_counter
    report,     \* what is being printed
    flagged,    \* _stopped of both threads: no, yes, or late, when the printing
                \* thread has looked at its own just before and prints once more
    rounds, printed      \* history: rounds counted and printed

monitorVars == <<thread, at, lock, seen, counter, report, flagged, rounds, printed>>

MonitorTypeOK ==
    /\ thread \in [Threads -> {"none", "starting", "listed", "ending", "gone"}]
    /\ at \in [Life -> {"check", "sleep", "frames"}]
    /\ lock \in [Life -> {"free", "monitor", "printer", "main"}]
    /\ seen \in [Life -> SUBSET Threads]
    /\ flagged \in [Life -> {"no", "late", "yes"}]
    /\ {counter, report, rounds, printed} \subseteq [Life -> 0 .. MaxPolls]

MonitorInit ==
    /\ thread = [t \in Threads |-> "none"]
    /\ at = [l \in Life |-> "check"]
    /\ lock = [l \in Life |-> "free"]
    /\ seen = [l \in Life |-> {}]
    /\ flagged = [l \in Life |-> "no"]
    /\ counter = [l \in Life |-> 0]
    /\ report = counter /\ rounds = counter /\ printed = counter

-----------------------------------------------------------------------------
(* Threads *)

\* start() returns when the new thread runs
Starts(t) == thread[t] = "none" /\ thread' = [thread EXCEPT ![t] = "starting"]

Appears(t) ==
    /\ thread[t] = "starting" /\ thread' = [thread EXCEPT ![t] = "listed"]
    /\ UNCHANGED <<at, lock, seen, counter, report, flagged, rounds, printed>>

Vanishes(t) ==
    /\ thread[t] = "ending" /\ thread' = [thread EXCEPT ![t] = "gone"]
    /\ UNCHANGED <<at, lock, seen, counter, report, flagged, rounds, printed>>

Leaves(t) == thread' = [thread EXCEPT ![t] = "ending"]

-----------------------------------------------------------------------------
(* _monitor_fn *)

\* Fault: the loop does not look at the flag.
CheckNever(l) ==
    /\ thread[Monitor(l)] = "listed" /\ at[l] = "check" /\ rounds[l] < MaxPolls
    /\ at' = [at EXCEPT ![l] = "sleep"]
    /\ UNCHANGED <<thread, lock, seen, counter, report, flagged, rounds, printed>>

Check(l) ==
    /\ thread[Monitor(l)] = "listed" /\ at[l] = "check"
    /\ \/ flagged[l] # "no" /\ Leaves(Monitor(l)) /\ UNCHANGED at
       \/ /\ flagged[l] = "no" /\ rounds[l] < MaxPolls
          /\ at' = [at EXCEPT ![l] = "sleep"] /\ UNCHANGED thread
    /\ UNCHANGED <<lock, seen, counter, report, flagged, rounds, printed>>

\* It has slept: threading.enumerate() under the lock.
List(l) ==
    /\ thread[Monitor(l)] = "listed" /\ at[l] = "sleep" /\ lock[l] = "free"
    /\ lock' = [lock EXCEPT ![l] = "monitor"]
    /\ seen' = [seen EXCEPT ![l] = {t \in Threads : thread[t] = "listed"}]
    /\ at' = [at EXCEPT ![l] = "frames"]
    /\ UNCHANGED <<thread, counter, report, flagged, rounds, printed>>

\* The threads whose frames sys._current_frames() may return together: a
\* thread that starts has a frame or not yet.
Framed ==
    {F \union {t \in Threads : thread[t] \in {"listed", "ending"}} :
        F \in SUBSET {t \in Threads : thread[t] = "starting"}}

\* The monitor's own threads are left out by their ident, which the printer
\* has only once it runs.
Own(l) == {Monitor(l)} \union
          {p \in {Printer(l)} : thread[p] \in {"listed", "ending", "gone"}}

\* Every frame belongs to a listed thread, and _print_thread is there.
Found(l, F) == thread[Printer(l)] # "none" /\ F \ Own(l) \subseteq seen[l]

Sample(l) ==
    /\ thread[Monitor(l)] = "listed" /\ at[l] = "frames"
    /\ \E F \in Framed : Found(l, F)
    /\ counter' = [counter EXCEPT ![l] = @ + 1]
    /\ rounds' = [rounds EXCEPT ![l] = @ + 1]
    /\ lock' = [lock EXCEPT ![l] = "free"]
    /\ at' = [at EXCEPT ![l] = "check"]
    /\ seen' = [seen EXCEPT ![l] = {}]
    /\ UNCHANGED <<thread, report, flagged, printed>>

\* Fault: the lock is not released when an exception passes.
SampleFailsHolding(l) ==
    /\ thread[Monitor(l)] = "listed" /\ at[l] = "frames"
    /\ \E F \in Framed : ~Found(l, F)
    /\ Leaves(Monitor(l))
    /\ UNCHANGED <<at, lock, seen, counter, report, flagged, rounds, printed>>

\* A KeyError or an AttributeError ends the thread; `with` frees the lock.
SampleFails(l) ==
    /\ thread[Monitor(l)] = "listed" /\ at[l] = "frames"
    /\ \E F \in Framed : ~Found(l, F)
    /\ Leaves(Monitor(l))
    /\ lock' = [lock EXCEPT ![l] = "free"]
    /\ seen' = [seen EXCEPT ![l] = {}]
    /\ at' = [at EXCEPT ![l] = "check"]
    /\ UNCHANGED <<counter, report, flagged, rounds, printed>>

-----------------------------------------------------------------------------
(* __print, by the printing thread and by the main thread *)

PrintCounts(l, who) ==
    /\ lock[l] = "free" /\ lock' = [lock EXCEPT ![l] = who]
    /\ report' = [report EXCEPT ![l] = counter[l]]
    /\ UNCHANGED <<thread, at, seen, counter, rounds, printed>>

\* Fault: the counts are printed and kept.
ClearKeeps(l, who) ==
    /\ lock[l] = who /\ lock' = [lock EXCEPT ![l] = "free"]
    /\ printed' = [printed EXCEPT ![l] = @ + report[l]]
    /\ report' = [report EXCEPT ![l] = 0]
    /\ UNCHANGED <<thread, at, seen, counter, flagged, rounds>>

Clear(l, who) ==
    /\ lock[l] = who /\ lock' = [lock EXCEPT ![l] = "free"]
    /\ printed' = [printed EXCEPT ![l] = @ + report[l]]
    /\ counter' = [counter EXCEPT ![l] = 0]
    /\ report' = [report EXCEPT ![l] = 0]
    /\ UNCHANGED <<thread, at, seen, flagged, rounds>>

\* _print_stacks: it looks at the flag and then waits for the lock.
PrinterPrints(l) ==
    /\ thread[Printer(l)] = "listed" /\ flagged[l] # "yes"
    /\ PrintCounts(l, "printer")
    /\ flagged' = [flagged EXCEPT ![l] = IF @ = "late" THEN "yes" ELSE @]

PrinterClears(l) == thread[Printer(l)] = "listed" /\ Clear(l, "printer")

PrinterEnds(l) ==
    /\ thread[Printer(l)] = "listed" /\ lock[l] # "printer" /\ flagged[l] = "yes"
    /\ Leaves(Printer(l))
    /\ UNCHANGED <<at, lock, seen, counter, report, flagged, rounds, printed>>

-----------------------------------------------------------------------------
(* stop_monitoring, after its __print *)

StopThreads(l) ==
    /\ lock[l] = "free"
    /\ \E set \in {"late", "yes"} : flagged' = [flagged EXCEPT ![l] = set]
    /\ UNCHANGED <<thread, at, lock, seen, counter, report, rounds, printed>>

MonitorNext ==
    \/ \E t \in Threads : Appears(t) \/ Vanishes(t)
    \/ \E l \in Life : \/ Check(l) \/ List(l) \/ Sample(l) \/ SampleFails(l)
                       \/ PrinterPrints(l) \/ PrinterClears(l) \/ PrinterEnds(l)

\* A thread starts and ends only once and a monitor polls MaxPolls times, so
\* fairness to any of them is fairness to each.  The printers print for ever; the
\* last print of one told to stop finds the lock free, as all others are done.
MonitorFairness ==
    /\ WF_monitorVars(\E t \in Threads : Appears(t) \/ Vanishes(t))
    /\ WF_monitorVars(\E l \in Life : Check(l) \/ Sample(l) \/ SampleFails(l))
    /\ SF_monitorVars(\E l \in Life : List(l))
    /\ \A l \in Life :
          WF_monitorVars(PrinterClears(l) \/ PrinterEnds(l) \/ (flagged[l] = "late" /\ PrinterPrints(l)))

-----------------------------------------------------------------------------
(* Properties *)

\* Every round of samples counted is printed once or still counted: the two
\* threads and stop_monitoring neither lose samples between printing and
\* clearing nor print any twice.
SamplesCounted == \A l \in Life : lock[l] = "free" => rounds[l] = printed[l] + counter[l]

\* Once told to stop, both threads of a monitor end; the printing thread may print
\* once more before.
Told == {l \in Life : flagged[l] # "no"}
MonitorsEnd ==
    Told # {} ~> \A l \in Told : \A t \in {Monitor(l), Printer(l)} : thread[t] = "gone"
=============================================================================
