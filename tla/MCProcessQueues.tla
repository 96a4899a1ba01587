-------------------------- MODULE MCProcessQueues --------------------------
(* Small projects for TLC: who publishes what, who consumes it.            *)
EXTENDS ProcessQueues

NoNames == [n \in {} |-> <<>>]

\* Two publishers of the name "cmd", two consumers with a queue each.
FanProcess == {"p1", "p2", "c1", "c2"}
FanQueue == {"q1", "q2"}
FanPublish ==
  [p \in FanProcess |->
     IF p \in {"p1", "p2"} THEN [n \in {"cmd"} |-> <<"q1", "q2">>] ELSE NoNames]
FanConsume ==
  [p \in FanProcess |->
     CASE p = "c1" -> [n \in {"cmd"} |-> "q1"]
       [] p = "c2" -> [n \in {"cmd"} |-> "q2"]
       [] OTHER -> NoNames]
FanClear == [p \in FanProcess |-> <<>>]
FanSize == [q \in FanQueue |-> IF q = "q1" THEN 1 ELSE 2]
FanFlags == [p \in FanProcess |-> {FALSE}]
FanSent == [p \in FanProcess |-> 1]

\* Two names: p1 publishes both, p2 one of them; c1 consumes both, and cmd has a
\* second consumer that hangs.  c1 clears what it consumes, p1 what it publishes,
\* each with a name it does not know in the list.
MixProcess == {"p1", "p2", "c1"}
MixQueue == {"q1", "q2", "q3"}
MixPublish ==
  [p \in MixProcess |->
     CASE p = "p1" -> [n \in {"cmd", "img"} |-> IF n = "cmd" THEN <<"q1", "q2">> ELSE <<"q3">>]
       [] p = "p2" -> [n \in {"cmd"} |-> <<"q1", "q2">>]
       [] OTHER -> NoNames]
MixConsume ==
  [p \in MixProcess |->
     IF p = "c1" THEN [n \in {"cmd", "img"} |-> IF n = "cmd" THEN "q1" ELSE "q3"] ELSE NoNames]
MixClear ==
  [p \in MixProcess |->
     CASE p = "p1" -> <<"nosuch", "cmd">> [] p = "c1" -> <<"img", "cmd">> [] OTHER -> <<>>]
MixSize == [q \in MixQueue |-> IF q = "q1" THEN 1 ELSE 2]
MixFlags == [p \in MixProcess |-> IF p = "p1" THEN {TRUE} ELSE IF p = "c1" THEN BOOLEAN ELSE {FALSE}]
MixSent == [p \in MixProcess |-> IF p = "p1" THEN 2 ELSE 1]

\* One publisher that clears on overflow, one consumer, one queue.
OneProcess == {"p1", "c1"}
OneQueue == {"q1"}
OnePublish ==
  [p \in OneProcess |-> IF p = "p1" THEN [n \in {"cmd"} |-> <<"q1">>] ELSE NoNames]
OneConsume ==
  [p \in OneProcess |-> IF p = "c1" THEN [n \in {"cmd"} |-> "q1"] ELSE NoNames]
OneClear == [p \in OneProcess |-> <<>>]
OneSize == [q \in OneQueue |-> 2]
OneFlags == [p \in OneProcess |-> {p = "p1"}]
OneSent == [p \in OneProcess |-> 3]
=============================================================================
