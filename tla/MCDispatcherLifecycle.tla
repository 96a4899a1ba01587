----------------------- MODULE MCDispatcherLifecycle -----------------------
(* Two configured processes and one that comes and goes.                   *)
EXTENDS DispatcherLifecycle

Two == <<"source", "sink">>

\* "msg" is wired by the configuration, "own" was created by the host program.
TwoQueues == {"msg", "own"}
TwoUses ==
  [n \in {"source", "sink", "extra"} |->
     CASE n = "source" -> <<"msg">> [] n = "sink" -> <<"msg">> [] n = "extra" -> <<"own", "msg">>]

\* A tenth of three slots is none.  "own" stays empty.
Sizes == [q \in TwoQueues |-> IF q = "msg" THEN 3 ELSE 10]
SizeLevels == [q \in TwoQueues |-> IF q = "msg" THEN {0, 3} ELSE {0}]
=============================================================================
