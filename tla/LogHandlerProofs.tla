-------------------------- MODULE LogHandlerProofs --------------------------
(* Proofs about LogHandler: types and bounds, the notices of an overload,  *)
(* and that the handler implements the lossy channel.                      *)
EXTENDS LogHandler, SequenceFacts

-----------------------------------------------------------------------------
(* Types and bounds *)

\* A holder of a number changes one place of a sequence of a known length.
LEMMA ExceptFacts ==
  ASSUME NEW S, NEW s \in Seq(S), NEW k \in 1 .. Len(s), NEW e \in S
  PROVE  /\ [s EXCEPT ![k] = e] \in Seq(S)
         /\ Len([s EXCEPT ![k] = e]) = Len(s)
         /\ \A j \in 1 .. Len(s) : [s EXCEPT ![k] = e][j] = IF j = k THEN e ELSE s[j]
BY ExceptSeq

State == {"none", "idle", "holding", "done"}

\* What the types do not say: what a connection in each phase has, that a task
\* without a record has none in hand, and that an idle sender of a closed
\* connection has not yet cost it a record.
Tasks ==
  /\ Len(lost) = IF open THEN Connections - 1 ELSE Connections
  /\ open \/ phase = "control" => Connections >= 1
  /\ phase = "down" => ~open
  /\ phase = "control" => task[Connections] = "none"
  /\ \A k \in 1 .. Connections : task[k] # "holding" => hand[k] = 0
  /\ \A k \in 1 .. Len(lost) : task[k] = "idle" => lost[k] = 0

Inv == TypeOK /\ Tasks

LEMMA InitInv == Init => Inv
<1> SUFFICES ASSUME Init
             PROVE  Inv
  OBVIOUS
<1>1. TypeOK
  <2>1. MaxLogSize \in Nat
    BY LogAssumption
  <2>2. /\ logs_queue \in Seq(Nat) /\ Len(logs_queue) = 0 /\ task \in Seq(State)
        /\ hand \in Seq(Nat) /\ Len(hand) = 0 /\ Len(task) = 0
        /\ delivered \in Seq(Nat) /\ lost \in Seq(Nat)
    BY DEF Init
  <2>3. emitted \in Seq({"put", "noticed", "dropped"})
    BY DEF Init
  <2>4. task \in Seq({"none", "idle", "holding", "done"})
    BY DEF Init
  <2>5. Len(hand) = Len(task) /\ Len(logs_queue) <= MaxLogSize
    BY <2>1, <2>2
  <2> QED BY <2>2, <2>3, <2>4, <2>5 DEF Init, TypeOK
<1>2. Tasks
  BY DEF Init, Tasks, Connections
<1> QED BY <1>1, <1>2 DEF Inv

\* Tasks says nothing of the queue.
LEMMA TasksKept ==
  ASSUME Tasks, UNCHANGED <<phase, open, task, hand, lost>>
  PROVE  Tasks'
BY DEF Tasks, Connections

LEMMA EmitInv ==
  ASSUME Inv, EmitPut \/ EmitDrop
  PROVE  Inv'
<1>1. Tasks'
  <2>1. Tasks /\ UNCHANGED <<phase, open, task, hand, lost>>
    BY DEF Inv, EmitPut, EmitDrop, connVars
  <2> QED BY <2>1, TasksKept
<1> USE DEF Inv, TypeOK, connVars
<1>2. CASE EmitPut
  <2>1. accepted + 1 \in Nat /\ MaxLogSize \in Nat
    BY LogAssumption
  <2>2. /\ Append(logs_queue, accepted + 1) \in Seq(Nat)
        /\ Len(Append(logs_queue, accepted + 1)) = Len(logs_queue) + 1
        /\ Len(logs_queue) \in Nat
        /\ Append(emitted, "put") \in Seq({"put", "noticed", "dropped"})
    BY <2>1, AppendFacts
  <2>3. /\ logs_queue' \in Seq(Nat) /\ Len(logs_queue') <= MaxLogSize
        /\ emitted' \in Seq({"put", "noticed", "dropped"})
    BY <1>2, <2>1, <2>2 DEF EmitPut
  <2>4. /\ accepted' \in Nat /\ warned' \in BOOLEAN
        /\ UNCHANGED <<phase, open, task, hand, delivered, lost>>
    BY <1>2, <2>1 DEF EmitPut
  <2>5. TypeOK'
    BY <2>3, <2>4
  <2> QED BY <1>1, <2>5
<1>3. CASE EmitDrop
  <2>1. /\ Append(emitted, "dropped") \in Seq({"put", "noticed", "dropped"})
        /\ Append(emitted, "noticed") \in Seq({"put", "noticed", "dropped"})
    BY AppendFacts
  <2>2. TypeOK'
    BY <1>3, <2>1 DEF EmitDrop
  <2> QED BY <1>1, <2>2
<1> QED BY <1>2, <1>3

LEMMA ConnectInv ==
  ASSUME Inv, Connect
  PROVE  Inv'
<1> USE DEF Inv, TypeOK, Tasks, Connections, emitVars
<1> DEFINE n == Len(task)
<1>1. /\ n \in Nat /\ Len(task') = n + 1 /\ task' \in Seq(State) /\ task'[n + 1] = "none"
      /\ \A k \in 1 .. n : task'[k] = task[k]
  BY AppendFacts DEF Connect, State
<1>2. /\ Len(hand') = n + 1 /\ hand' \in Seq(Nat) /\ hand'[n + 1] = 0
      /\ \A k \in 1 .. n : hand'[k] = hand[k]
  BY AppendFacts DEF Connect
<1>3. Len(lost) = n /\ lost' = lost /\ open' = TRUE /\ phase' = "control"
  BY DEF Connect
<1>4. TypeOK'
  BY <1>1, <1>2 DEF Connect, State
<1>5. Tasks'
  <2>1. \A k \in 1 .. (n + 1) : k \in 1 .. n \/ k = n + 1
    BY <1>1
  <2>2. \A k \in 1 .. (n + 1) : task'[k] # "holding" => hand'[k] = 0
    BY <1>1, <1>2, <2>1
  <2>3. \A k \in 1 .. n : task'[k] = "idle" => lost[k] = 0
    BY <1>1, <1>3
  <2> QED BY <1>1, <1>3, <2>2, <2>3
<1> QED BY <1>4, <1>5

LEMMA SendControlInv ==
  ASSUME Inv, SendControl
  PROVE  Inv'
<1> USE DEF Inv, TypeOK, Tasks, Connections, emitVars
<1>1. CASE open
  <2> DEFINE n == Len(task)
  <2>1. n \in 1 .. n /\ "idle" \in State /\ task \in Seq(State)
    BY DEF SendControl, State
  <2>2. /\ task' \in Seq(State) /\ Len(task') = n
        /\ \A k \in 1 .. n : task'[k] = IF k = n THEN "idle" ELSE task[k]
    <3>1. task' = [task EXCEPT ![n] = "idle"]
      BY <1>1 DEF SendControl
    <3> QED BY <2>1, <3>1, ExceptFacts
  <2>3. phase' = "gather" /\ UNCHANGED <<open, hand, lost>> /\ Len(lost) = n - 1
    BY <1>1 DEF SendControl
  <2>4. TypeOK'
    BY <2>2, <2>3 DEF SendControl, State
  <2>5. \A k \in 1 .. n : task'[k] # "holding" => hand[k] = 0
    BY <2>2 DEF SendControl
  <2>6. ASSUME NEW k \in 1 .. (n - 1), task'[k] = "idle"
        PROVE  lost[k] = 0
    <3>1. k \in 1 .. n /\ k # n /\ k \in 1 .. Len(lost)
      BY <2>1, <2>3
    <3>2. task[k] = "idle"
      BY <2>2, <2>6, <3>1
    <3> QED BY <3>1, <3>2
  <2>7. Tasks'
    BY <1>1, <2>1, <2>2, <2>3, <2>5, <2>6
  <2> QED BY <2>4, <2>7
<1>2. CASE ~open
  BY <1>2 DEF SendControl
<1> QED BY <1>1, <1>2

LEMMA CloseInv ==
  ASSUME Inv, Close
  PROVE  Inv'
<1> USE DEF Inv, TypeOK, Tasks, Connections, emitVars
<1> DEFINE n == Len(task)
<1>1. n \in 1 .. n /\ n \in Nat /\ Len(lost) = n - 1 /\ hand[n] \in Nat
  BY DEF Close
<1>2. /\ lost' \in Seq(Nat) /\ Len(lost') = n /\ lost'[n] = hand[n]
      /\ \A k \in 1 .. (n - 1) : lost'[k] = lost[k]
  BY <1>1, AppendFacts DEF Close
<1>3. UNCHANGED <<phase, task, hand>> /\ open' = FALSE
  BY DEF Close
<1>4. TypeOK'
  BY <1>2 DEF Close
<1>5. ASSUME NEW k \in 1 .. n, task[k] = "idle"
      PROVE  lost'[k] = 0
  <2>1. CASE k = n
    BY <1>2, <1>5, <2>1
  <2>2. CASE k \in 1 .. (n - 1)
    BY <1>1, <1>2, <1>5, <2>2
  <2> QED BY <1>1, <2>1, <2>2
<1>6. Tasks'
  BY <1>2, <1>3, <1>5
<1> QED BY <1>4, <1>6

LEMMA TakeInv ==
  ASSUME Inv, NEW k \in 1 .. Connections, Take(k)
  PROVE  Inv'
<1> USE DEF Inv, TypeOK, Tasks, Connections
<1> DEFINE n == Len(task)
           r == Head(logs_queue)
<1>0. /\ task \in Seq(State) /\ "holding" \in State /\ hand \in Seq(Nat) /\ n \in Nat
      /\ Len(hand) = n /\ k \in 1 .. n
  BY DEF State
<1>1. /\ r \in Nat /\ logs_queue' \in Seq(Nat) /\ Len(logs_queue') = Len(logs_queue) - 1
      /\ Len(logs_queue) \in Nat
  BY TailFacts DEF Take
<1>2. /\ task' \in Seq(State) /\ Len(task') = n
      /\ \A j \in 1 .. n : task'[j] = IF j = k THEN "holding" ELSE task[j]
  BY <1>0, ExceptFacts DEF Take
<1>3. /\ hand' \in Seq(Nat) /\ Len(hand') = n
      /\ \A j \in 1 .. n : hand'[j] = IF j = k THEN r ELSE hand[j]
  BY <1>0, <1>1, ExceptFacts DEF Take
<1>4. /\ lost' \in Seq(Nat) /\ Len(lost') = Len(lost)
      /\ \A j \in 1 .. Len(lost) : j # k => lost'[j] = lost[j]
  <2>1. CASE Live(k)
    BY <2>1 DEF Take
  <2>2. CASE ~Live(k)
    <3>1. k \in 1 .. Len(lost) /\ lost \in Seq(Nat)
      BY <1>0, <2>2 DEF Live
    <3> QED BY <1>1, <2>2, <3>1, ExceptFacts DEF Take
  <2> QED BY <2>1, <2>2
<1>5. UNCHANGED <<phase, open>> /\ task[k] = "idle" /\ Len(lost) <= n
  BY <1>0 DEF Take
<1>6. MaxLogSize \in Nat
  BY LogAssumption
<1>7. TypeOK'
  BY <1>1, <1>2, <1>3, <1>4, <1>6 DEF Take, State
<1>8. phase = "control" => task'[n] = "none"
  BY <1>0, <1>2, <1>5
<1>9. \A j \in 1 .. n : task'[j] # "holding" => hand'[j] = 0
  BY <1>2, <1>3
<1>10. ASSUME NEW j \in 1 .. Len(lost), task'[j] = "idle"
       PROVE  lost'[j] = 0
  <2>1. j \in 1 .. n
    BY <1>0, <1>5
  <2>2. j # k /\ task[j] = "idle"
    BY <1>2, <1>10, <2>1
  <2> QED BY <1>4, <2>2
<1>11. Tasks'
  BY <1>2, <1>4, <1>5, <1>8, <1>9, <1>10
<1> QED BY <1>7, <1>11

LEMMA HandsOffInv ==
  ASSUME Inv, NEW k \in 1 .. Connections, Sent(k) \/ SendFails(k)
  PROVE  Inv'
<1> USE DEF Inv, TypeOK, Tasks, Connections, emitVars
<1> DEFINE n == Len(task)
<1>0. /\ task \in Seq(State) /\ {"idle", "done"} \subseteq State /\ hand \in Seq(Nat)
      /\ n \in Nat /\ Len(hand) = n /\ k \in 1 .. n /\ 0 \in Nat
      /\ task[k] = "holding" /\ hand[k] \in Nat
  BY DEF State, Sent, SendFails
<1>1. /\ hand' \in Seq(Nat) /\ Len(hand') = n
      /\ \A j \in 1 .. n : hand'[j] = IF j = k THEN 0 ELSE hand[j]
  <2>1. hand' = [hand EXCEPT ![k] = 0]
    BY DEF Sent, SendFails
  <2> QED BY <1>0, <2>1, ExceptFacts
<1>2. CASE Sent(k)
  <2>1. /\ task' \in Seq(State) /\ Len(task') = n
        /\ \A j \in 1 .. n : task'[j] = IF j = k THEN "idle" ELSE task[j]
    BY <1>0, <1>2, ExceptFacts DEF Sent
  <2>2. k = n /\ open /\ Len(lost) = n - 1
    BY <1>2 DEF Sent, Live
  <2>3. UNCHANGED <<phase, open, lost>>
    BY <1>2 DEF Sent
  <2>4. delivered' \in Seq(Nat)
    BY <1>0, <1>2, AppendFacts DEF Sent
  <2>5. TypeOK'
    BY <1>1, <1>2, <2>1, <2>4 DEF Sent, State
  <2>6. phase # "control"
    BY <1>0, <2>2
  <2>7. \A j \in 1 .. n : task'[j] # "holding" => hand'[j] = 0
    BY <1>1, <2>1
  <2>8. \A j \in 1 .. Len(lost) : task'[j] = "idle" => lost[j] = 0
    BY <1>0, <2>1, <2>2
  <2>9. Tasks'
    BY <2>1, <2>2, <2>3, <2>6, <2>7, <2>8
  <2> QED BY <2>5, <2>9
<1>3. CASE SendFails(k)
  <2>1. /\ task' \in Seq(State) /\ Len(task') = n
        /\ \A j \in 1 .. n : task'[j] = IF j = k THEN "done" ELSE task[j]
    BY <1>0, <1>3, ExceptFacts DEF SendFails
  <2>2. /\ UNCHANGED <<open, lost>> /\ Len(lost) <= n
        /\ phase' = IF k = n THEN "down" ELSE phase
        /\ k = n => ~open
    BY <1>0, <1>3 DEF SendFails, Live
  <2>3. TypeOK'
    BY <1>1, <1>3, <2>1 DEF SendFails, State
  <2>4. phase' = "control" => phase = "control" /\ task'[n] = "none"
    BY <1>0, <2>1, <2>2
  <2>5. \A j \in 1 .. n : task'[j] # "holding" => hand'[j] = 0
    BY <1>1, <2>1
  <2>6. ASSUME NEW j \in 1 .. Len(lost), task'[j] = "idle"
        PROVE  lost[j] = 0
    <3>1. j \in 1 .. n
      BY <1>0, <2>2
    <3>2. task[j] = "idle"
      BY <2>1, <2>6, <3>1
    <3> QED BY <3>2
  <2>7. Tasks'
    BY <2>1, <2>2, <2>4, <2>5, <2>6
  <2> QED BY <2>3, <2>7
<1> QED BY <1>2, <1>3

LEMMA NextInv == Inv /\ [Next]_vars => Inv'
<1> SUFFICES ASSUME Inv, [Next]_vars
             PROVE  Inv'
  OBVIOUS
<1>1. CASE GatherFails
  BY <1>1 DEF GatherFails, Inv, TypeOK, Tasks, Connections, emitVars
<1>2. CASE UNCHANGED vars
  BY <1>2 DEF vars, emitVars, connVars, Inv, TypeOK, Tasks, Connections
<1> QED BY <1>1, <1>2, EmitInv, ConnectInv, SendControlInv, CloseInv, TakeInv, HandsOffInv
        DEF Next, Sender

LEMMA SpecInv == Spec => []Inv
BY InitInv, NextInv, PTL DEF Spec

\* The queue never holds more than _MAX_LOG_SIZE records, and everything has its
\* type.
THEOREM TypeCorrect == Spec => []TypeOK
BY SpecInv, PTL DEF Inv

-----------------------------------------------------------------------------
(* The notice of an overload *)

Outcome == {"put", "noticed", "dropped"}

\* OneNoticePerOverload of a sequence of outcomes, and the flag that makes it so:
\* it says whether the last record was dropped.
Announced(e) ==
  \A i \in 1 .. Len(e) :
    /\ e[i] = "noticed" => i = 1 \/ e[i - 1] = "put"
    /\ e[i] = "dropped" => i > 1 /\ e[i - 1] # "put"

Flagged(e, w) == w <=> (Len(e) > 0 /\ e[Len(e)] # "put")

\* A record put into the queue ends an overload;
LEMMA AnnouncedPut ==
  ASSUME NEW e \in Seq(Outcome), NEW w \in BOOLEAN, Announced(e), Flagged(e, w)
  PROVE  Announced(Append(e, "put")) /\ Flagged(Append(e, "put"), FALSE)
<1> DEFINE f == Append(e, "put")
<1>1. /\ Len(e) \in Nat /\ Len(f) = Len(e) + 1 /\ f[Len(e) + 1] = "put"
      /\ \A i \in 1 .. Len(e) : f[i] = e[i]
  BY AppendFacts DEF Outcome
<1> HIDE DEF f
<1>2. ASSUME NEW i \in 1 .. Len(e)
      PROVE  /\ f[i] = "noticed" => i = 1 \/ f[i - 1] = "put"
             /\ f[i] = "dropped" => i > 1 /\ f[i - 1] # "put"
  <2>1. f[i] = e[i] /\ (i = 1 \/ (i > 1 /\ i - 1 \in 1 .. Len(e)))
    BY <1>1
  <2>2. i > 1 => f[i - 1] = e[i - 1]
    BY <1>1, <2>1
  <2> QED BY <2>1, <2>2 DEF Announced
<1>3. \A i \in 1 .. Len(f) : i \in 1 .. Len(e) \/ (i = Len(e) + 1 /\ f[i] = "put")
  BY <1>1
<1>4. Announced(f)
  BY <1>2, <1>3 DEF Announced
<1>5. Flagged(f, FALSE)
  BY <1>1 DEF Flagged
<1> QED BY <1>4, <1>5 DEF f

\* a record dropped opens one, with a notice, or goes on with it.
LEMMA AnnouncedDrop ==
  ASSUME NEW e \in Seq(Outcome), NEW w \in BOOLEAN, Announced(e), Flagged(e, w),
         NEW x, x = IF w THEN "dropped" ELSE "noticed"
  PROVE  Announced(Append(e, x)) /\ Flagged(Append(e, x), TRUE)
<1> DEFINE f == Append(e, x)
           n == Len(e) + 1
<1>0. x \in Outcome /\ x # "put"
  BY DEF Outcome
<1>1. /\ Len(e) \in Nat /\ Len(f) = n /\ f[n] = x
      /\ \A i \in 1 .. Len(e) : f[i] = e[i]
  BY <1>0, AppendFacts
<1> HIDE DEF f
<1>2. ASSUME NEW i \in 1 .. Len(e)
      PROVE  /\ f[i] = "noticed" => i = 1 \/ f[i - 1] = "put"
             /\ f[i] = "dropped" => i > 1 /\ f[i - 1] # "put"
  <2>1. f[i] = e[i] /\ (i = 1 \/ (i > 1 /\ i - 1 \in 1 .. Len(e)))
    BY <1>1
  <2>2. i > 1 => f[i - 1] = e[i - 1]
    BY <1>1, <2>1
  <2> QED BY <2>1, <2>2 DEF Announced
<1>3. /\ f[n] = "noticed" => n = 1 \/ f[n - 1] = "put"
      /\ f[n] = "dropped" => n > 1 /\ f[n - 1] # "put"
  <2>1. n = 1 \/ (n > 1 /\ Len(e) \in 1 .. Len(e) /\ n - 1 = Len(e))
    BY <1>1
  <2>2. CASE n = 1
    <3>1. Len(e) = 0
      BY <1>1, <2>2
    <3>2. ~w
      BY <3>1 DEF Flagged
    <3>3. f[n] = "noticed"
      BY <1>1, <3>2
    <3> QED BY <2>2, <3>3
  <2>3. CASE n > 1 /\ Len(e) \in 1 .. Len(e) /\ n - 1 = Len(e)
    <3>1. f[n - 1] = e[Len(e)] /\ Len(e) > 0
      BY <1>1, <2>3
    <3>2. w <=> f[n - 1] # "put"
      BY <3>1 DEF Flagged
    <3> QED BY <1>1, <2>3, <3>2
  <2> QED BY <2>1, <2>2, <2>3
<1>4. \A i \in 1 .. Len(f) : i \in 1 .. Len(e) \/ i = n
  BY <1>1
<1>5. Announced(f)
  BY <1>2, <1>3, <1>4 DEF Announced
<1>6. Flagged(f, TRUE)
  BY <1>0, <1>1 DEF Flagged
<1> QED BY <1>5, <1>6 DEF f

\* An overload is announced with the first record it drops, and only then.
THEOREM NoticedOnce == Spec => []OneNoticePerOverload
<1> DEFINE NoticeInv == Announced(emitted) /\ Flagged(emitted, warned)
<1>1. Init => NoticeInv
  BY DEF Init, Announced, Flagged
<1>2. Inv /\ NoticeInv /\ [Next]_vars => NoticeInv'
  <2> SUFFICES ASSUME Inv, NoticeInv, [Next]_vars
               PROVE  NoticeInv'
    OBVIOUS
  <2>1. emitted \in Seq(Outcome) /\ warned \in BOOLEAN
    BY DEF Inv, TypeOK, Outcome
  <2>2. CASE EmitPut
    BY <2>1, <2>2, AnnouncedPut DEF EmitPut
  <2>3. CASE EmitDrop
    <3> DEFINE x == IF warned THEN "dropped" ELSE "noticed"
    <3>1. Announced(Append(emitted, x)) /\ Flagged(Append(emitted, x), TRUE)
      BY <2>1, AnnouncedDrop
    <3> QED BY <2>3, <3>1 DEF EmitDrop
  <2>4. CASE UNCHANGED <<emitted, warned>>
    BY <2>4
  <2>5. EmitPut \/ EmitDrop \/ UNCHANGED <<emitted, warned>>
    BY DEF Next, vars, emitVars, Connect, SendControl, Close, GatherFails,
           Sender, Take, Sent, SendFails
  <2> QED BY <2>2, <2>3, <2>4, <2>5
<1>3. NoticeInv => OneNoticePerOverload
  BY DEF Announced, OneNoticePerOverload
<1> QED BY <1>1, <1>2, <1>3, SpecInv, PTL DEF Spec

-----------------------------------------------------------------------------
(* The handler implements the lossy channel *)

\* What is accepted and neither sent nor lost.
Waiting == UnderWay \o logs_queue

LEMMA WaitingTypes ==
  ASSUME Inv
  PROVE  /\ UnderWay \in Seq(Nat) /\ logs_queue \in Seq(Nat)
         /\ Connections \in Nat
         /\ open => Connections \in 1 .. Connections /\ hand[Connections] \in Nat
<1>1. Connections \in Nat
  BY DEF Inv, TypeOK, Connections
<1>2. ASSUME open
      PROVE  Connections \in 1 .. Connections /\ hand[Connections] \in Nat
  BY <1>1, <1>2 DEF Inv, TypeOK, Tasks, Connections
<1>3. UnderWay \in Seq(Nat)
  BY <1>2 DEF UnderWay
<1> QED BY <1>1, <1>2, <1>3 DEF Inv, TypeOK

\* With no record at the newest sender only the queue waits.
LEMMA QueueOnly ==
  ASSUME Inv, ~(open /\ task[Connections] = "holding")
  PROVE  UnderWay = <<>> /\ Waiting = logs_queue
<1>1. UnderWay = <<>>
  BY DEF UnderWay
<1> QED BY <1>1, ConcatEmptySeq DEF Waiting, Inv, TypeOK

\* emit() accepts a record,
LEMMA PutAccepts ==
  ASSUME Inv, EmitPut
  PROVE  Channel!Accept
<1>1. UnderWay' = UnderWay
  BY DEF EmitPut, connVars, UnderWay, Connections
<1>2. accepted + 1 \in Nat
  BY DEF Inv, TypeOK
<1>3. UnderWay \o Append(logs_queue, accepted + 1) = Append(UnderWay \o logs_queue, accepted + 1)
  BY <1>2, WaitingTypes, ConcatAppend
<1> QED BY <1>1, <1>3 DEF EmitPut, Channel!Accept

\* a new connection has nothing under way yet, like the one before at its end,
LEMMA ConnectStutters ==
  ASSUME Inv, Connect
  PROVE  UNCHANGED Channel!vars
<1>1. UnderWay = <<>>
  BY DEF Inv, Tasks, Connect, UnderWay
<1>2. UnderWay' = <<>>
  <2>1. task \in Seq(State) /\ "none" \in State
    BY DEF Inv, TypeOK, State
  <2>2. task' = Append(task, "none")
    BY DEF Connect
  <2>3. Len(task') = Len(task) + 1 /\ task'[Len(task) + 1] = "none"
    BY <2>1, <2>2, AppendFacts
  <2> QED BY <2>3 DEF UnderWay, Connections
<1> QED BY <1>1, <1>2 DEF Connect, emitVars, Channel!vars

\* nor when its tasks start,
LEMMA ControlStutters ==
  ASSUME Inv, SendControl
  PROVE  UNCHANGED Channel!vars
<1>1. UnderWay' = UnderWay
  <2>1. CASE open
    <3>1. task \in Seq(State) /\ "idle" \in State /\ Connections \in 1 .. Len(task)
      BY <2>1, WaitingTypes DEF Inv, TypeOK, State, Connections
    <3>2. task' = [task EXCEPT ![Connections] = "idle"]
      BY <2>1 DEF SendControl
    <3>3. Len(task') = Len(task) /\ task'[Connections] = "idle"
      BY <3>1, <3>2, ExceptFacts
    <3>4. task[Connections] = "none"
      BY DEF Inv, Tasks, SendControl
    <3> QED BY <3>3, <3>4 DEF UnderWay, Connections
  <2>2. CASE ~open
    BY <2>2 DEF SendControl, UnderWay
  <2> QED BY <2>1, <2>2
<1> QED BY <1>1 DEF SendControl, emitVars, Channel!vars

\* a connection that closes costs the record being sent, if there is one,
LEMMA CloseBreaks ==
  ASSUME Inv, Close
  PROVE  Channel!Break \/ Channel!BreakUnderWay
<1>1. UnderWay' = <<>> /\ UNCHANGED <<logs_queue, accepted, delivered>>
  BY DEF Close, emitVars, UnderWay
<1>2. <<>> \o logs_queue = logs_queue
  BY ConcatEmptySeq DEF Inv, TypeOK
<1>3. open /\ Connections \in 1 .. Connections /\ lost' = Append(lost, hand[Connections])
  BY WaitingTypes DEF Close
<1>4. CASE task[Connections] = "holding"
  <2>1. UnderWay = <<hand[Connections]>>
    BY <1>3, <1>4 DEF UnderWay
  <2>2. /\ UnderWay \o logs_queue # <<>>
        /\ Head(UnderWay \o logs_queue) = hand[Connections]
        /\ Tail(UnderWay \o logs_queue) = logs_queue
    BY <1>3, <2>1, WaitingTypes, FrontFacts
  <2> QED BY <1>1, <1>2, <1>3, <2>2 DEF Channel!BreakUnderWay
<1>5. CASE task[Connections] # "holding"
  <2>1. UnderWay \o logs_queue = logs_queue /\ hand[Connections] = 0
    BY <1>3, <1>5, QueueOnly DEF Waiting, Inv, Tasks
  <2> QED BY <1>1, <1>2, <1>3, <2>1 DEF Channel!Break
<1> QED BY <1>4, <1>5

\* the sender of the newest connection takes the record that goes next, any
\* other sender costs its connection the first of the queue,
LEMMA TakeLoses ==
  ASSUME Inv, NEW k \in 1 .. Connections, Take(k)
  PROVE  \/ UNCHANGED Channel!vars
         \/ \E j \in 1 .. Len(lost), i \in 1 .. Len(UnderWay \o logs_queue) : Channel!Lose(j, i)
<1>0. /\ task \in Seq(State) /\ "holding" \in State /\ hand \in Seq(Nat)
      /\ k \in 1 .. Len(task) /\ Len(hand) = Len(task) /\ Connections = Len(task)
      /\ logs_queue \in Seq(Nat) /\ logs_queue # <<>>
      /\ UNCHANGED <<accepted, delivered, open>>
  BY DEF Inv, TypeOK, State, Connections, Take
<1>1. Head(logs_queue) \in Nat /\ logs_queue' = Tail(logs_queue)
  BY <1>0, TailFacts DEF Take
<1>2. /\ Len(task') = Len(task)
      /\ \A j \in 1 .. Len(task) : task'[j] = IF j = k THEN "holding" ELSE task[j]
  <2>1. task' = [task EXCEPT ![k] = "holding"]
    BY DEF Take
  <2> QED BY <1>0, <2>1, ExceptFacts
<1>3. \A j \in 1 .. Len(hand) : hand'[j] = IF j = k THEN Head(logs_queue) ELSE hand[j]
  <2>1. hand' = [hand EXCEPT ![k] = Head(logs_queue)]
    BY DEF Take
  <2> QED BY <1>0, <1>1, <2>1, ExceptFacts
<1>4. CASE Live(k)
  <2>1. UnderWay \o logs_queue = logs_queue
    BY <1>4, QueueOnly DEF Waiting, Take, Live
  <2>2. UnderWay' = <<Head(logs_queue)>>
    BY <1>0, <1>2, <1>3, <1>4 DEF UnderWay, Connections, Live
  <2>3. <<Head(logs_queue)>> \o Tail(logs_queue) = logs_queue
    BY <1>0, HeadInFront
  <2>4. lost' = lost
    BY <1>4 DEF Take
  <2> QED BY <1>0, <1>1, <2>1, <2>2, <2>3, <2>4 DEF Channel!vars
<1>5. CASE ~Live(k)
  <2> DEFINE i == Len(UnderWay) + 1
  <2>1. UnderWay' = UnderWay
    <3>1. CASE open
      <4>1. Connections \in 1 .. Len(task) /\ Connections # k
        BY <1>0, <1>5, <3>1 DEF Live
      <4>2. Len(task') = Len(task) /\ task'[Connections] = task[Connections]
            /\ hand'[Connections] = hand[Connections]
        BY <1>0, <1>2, <1>3, <4>1
      <4> QED BY <1>0, <3>1, <4>2 DEF UnderWay, Connections
    <3>2. CASE ~open
      BY <1>0, <3>2 DEF UnderWay
    <3> QED BY <3>1, <3>2
  <2>2. /\ i \in 1 .. Len(UnderWay \o logs_queue)
        /\ (UnderWay \o logs_queue)[i] = Head(logs_queue)
        /\ RemoveAt(UnderWay \o logs_queue, i) = UnderWay \o Tail(logs_queue)
    BY <1>0, WaitingTypes, RemoveBehind
  <2>3. k \in 1 .. Len(lost) /\ lost[k] = 0
    <3>1. Len(lost) = IF open THEN Connections - 1 ELSE Connections
      BY DEF Inv, Tasks
    <3>2. k \in 1 .. Len(lost)
      BY <1>0, <1>5, <3>1 DEF Live
    <3> QED BY <3>2 DEF Inv, Tasks, Take
  <2>4. lost' = [lost EXCEPT ![k] = Head(logs_queue)]
    BY <1>5 DEF Take
  <2>5. Channel!RemoveAt(UnderWay \o logs_queue, i) = RemoveAt(UnderWay \o logs_queue, i)
    BY DEF Channel!RemoveAt, RemoveAt
  <2>6. (UnderWay \o logs_queue)' = Channel!RemoveAt(UnderWay \o logs_queue, i)
    BY <1>1, <2>1, <2>2, <2>5
  <2>7. lost' = [lost EXCEPT ![k] = (UnderWay \o logs_queue)[i]]
    BY <2>2, <2>4
  <2>8. Channel!Lose(k, i)
    BY <1>0, <2>3, <2>6, <2>7 DEF Channel!Lose
  <2> QED BY <2>2, <2>3, <2>8
<1> QED BY <1>4, <1>5

\* what arrives is what waited longest,
LEMMA SentDelivers ==
  ASSUME Inv, NEW k \in 1 .. Connections, Sent(k)
  PROVE  Channel!Deliver
<1>0. /\ task \in Seq(State) /\ "idle" \in State
      /\ k \in 1 .. Len(task) /\ k = Len(task) /\ open /\ task[k] = "holding"
      /\ UNCHANGED <<logs_queue, accepted, lost>>
      /\ delivered' = Append(delivered, hand[k])
  BY DEF Inv, TypeOK, State, Connections, Sent, Live, emitVars
<1>1. UnderWay = <<hand[k]>> /\ hand[k] \in Nat
  BY <1>0, WaitingTypes DEF UnderWay, Connections
<1>2. /\ UnderWay \o logs_queue # <<>>
      /\ Head(UnderWay \o logs_queue) = hand[k]
      /\ Tail(UnderWay \o logs_queue) = logs_queue
  BY <1>1, WaitingTypes, FrontFacts
<1>3. UnderWay' = <<>>
  <2>1. task' = [task EXCEPT ![k] = "idle"]
    BY DEF Sent
  <2>2. Len(task') = Len(task) /\ task'[k] = "idle"
    BY <1>0, <2>1, ExceptFacts
  <2> QED BY <1>0, <2>2 DEF UnderWay, Connections
<1>4. <<>> \o logs_queue = logs_queue
  BY WaitingTypes, ConcatEmptySeq
<1> QED BY <1>0, <1>2, <1>3, <1>4 DEF Channel!Deliver

\* and a record whose send() fails was counted as lost before.
LEMMA FailureStutters ==
  ASSUME Inv, NEW k \in 1 .. Connections, SendFails(k)
  PROVE  UNCHANGED Channel!vars
<1>0. /\ task \in Seq(State) /\ {"done", "holding"} \subseteq State /\ hand \in Seq(Nat)
      /\ k \in 1 .. Len(task) /\ Len(hand) = Len(task) /\ 0 \in Nat
      /\ UNCHANGED <<logs_queue, accepted, delivered, lost, open>>
  BY DEF Inv, TypeOK, State, Connections, SendFails, emitVars
<1>1. UnderWay' = UnderWay
  <2>1. CASE open
    <3>1. Connections \in 1 .. Len(task) /\ Connections # k /\ Connections = Len(task)
      BY <2>1, WaitingTypes DEF SendFails, Live, Connections
    <3>2. task' = [task EXCEPT ![k] = "done"] /\ hand' = [hand EXCEPT ![k] = 0]
      BY DEF SendFails
    <3>3. /\ Len(task') = Len(task) /\ task'[Connections] = task[Connections]
          /\ hand'[Connections] = hand[Connections]
      BY <1>0, <3>1, <3>2, ExceptFacts
    <3> QED BY <1>0, <3>1, <3>3 DEF UnderWay, Connections
  <2>2. CASE ~open
    BY <1>0, <2>2 DEF UnderWay
  <2> QED BY <2>1, <2>2
<1> QED BY <1>0, <1>1 DEF Channel!vars

LEMMA InitChannel == Init => Channel!Init
<1> SUFFICES ASSUME Init
             PROVE  Channel!Init
  OBVIOUS
<1>1. UnderWay = <<>> /\ logs_queue = <<>>
  BY DEF Init, UnderWay
<1>2. <<>> \o <<>> = <<>>
  BY ConcatEmptySeq
<1> QED BY <1>1, <1>2 DEF Init, Channel!Init

LEMMA StepChannel == Inv /\ [Next]_vars => [Channel!Next]_Channel!vars
<1> SUFFICES ASSUME Inv, [Next]_vars
             PROVE  [Channel!Next]_Channel!vars
  OBVIOUS
<1>1. CASE EmitPut
  BY <1>1, PutAccepts DEF Channel!Next
<1>2. CASE Connect \/ SendControl
  BY <1>2, ConnectStutters, ControlStutters
<1>3. CASE Close
  BY <1>3, CloseBreaks DEF Channel!Next
<1>4. CASE EmitDrop \/ GatherFails \/ UNCHANGED vars
  BY <1>4 DEF EmitDrop, GatherFails, vars, emitVars, connVars, UnderWay, Connections,
              Channel!vars
<1>5. ASSUME NEW k \in 1 .. Connections, Sender(k)
      PROVE  [Channel!Next]_Channel!vars
  <2>1. CASE Take(k)
    BY <1>5, <2>1, TakeLoses DEF Channel!Next
  <2>2. CASE Sent(k)
    BY <1>5, <2>2, SentDelivers DEF Channel!Next
  <2>3. CASE SendFails(k)
    BY <1>5, <2>3, FailureStutters
  <2> QED BY <1>5, <2>1, <2>2, <2>3 DEF Sender
<1> QED BY <1>1, <1>2, <1>3, <1>4, <1>5 DEF Next

\* LogHandler is a lossy channel: however many senders of old connections still
\* take records beside the newest, order is kept, nothing is sent twice and a
\* closed connection costs at most one record.
THEOREM ImplementsChannel == Spec => LossyChannelSpec
<1>1. Init => Channel!Init
  BY InitChannel
<1>2. Inv /\ [Next]_vars => [Channel!Next]_Channel!vars
  BY StepChannel
<1> QED BY <1>1, <1>2, SpecInv, PTL DEF Spec, LossyChannelSpec, Channel!Spec

\* A record is lost only as the one that a closed connection cost: what is proved
\* of every lossy channel.
P == INSTANCE LossyChannelProofs WITH waiting <- UnderWay \o logs_queue

THEOREM RecordsAccounted == Spec => []Accounted
<1>1. Channel!Spec => P!Spec
  <2>1. Channel!Init => P!Init
    BY DEF Channel!Init, P!Init
  <2>2. Channel!vars = P!vars /\ Channel!vars' = P!vars'
    BY DEF Channel!vars, P!vars
  <2>3. ASSUME Channel!Next PROVE P!Next
    <3>1. \A k, i : Channel!Lose(k, i) => P!Lose(k, i)
      BY DEF Channel!Lose, P!Lose, Channel!RemoveAt, P!RemoveAt
    <3>2. Channel!Accept => P!Accept
      BY DEF Channel!Accept, P!Accept
    <3>3. Channel!Deliver => P!Deliver
      BY DEF Channel!Deliver, P!Deliver
    <3>4. Channel!Break => P!Break
      BY DEF Channel!Break, P!Break
    <3>5. Channel!BreakUnderWay => P!BreakUnderWay
      BY DEF Channel!BreakUnderWay, P!BreakUnderWay
    <3> QED BY <2>3, <3>1, <3>2, <3>3, <3>4, <3>5 DEF Channel!Next, P!Next
  <2>4. [Channel!Next]_Channel!vars => [P!Next]_P!vars
    BY <2>2, <2>3
  <2> QED BY <2>1, <2>4, PTL DEF Channel!Spec, P!Spec
<1>2. P!Accounted => Accounted
  BY DEF P!Accounted, Accounted, Channel!Accounted
<1> QED BY <1>1, <1>2, ImplementsChannel, P!ChannelAccounted, PTL DEF LossyChannelSpec
=============================================================================
