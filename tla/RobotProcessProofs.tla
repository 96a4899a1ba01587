------------------------- MODULE RobotProcessProofs -------------------------
(* Proofs about a process of the framework.  ProcessQueues: types and      *)
(* bounds, order of delivery, what each queue holds.  ProcessServices:     *)
(* types, the samples of the stack monitors, the holder of their lock.     *)
EXTENDS ProcessQueues, ProcessServices, SequenceFacts

-----------------------------------------------------------------------------
(* Order *)

\* A message younger than all of a sequence may be appended to it.
LEMMA OrderedAppend ==
  ASSUME NEW s \in Seq(Message), NEW m \in Message, Ordered(s),
         \A i \in 1 .. Len(s) : Older(s[i], m)
  PROVE  Ordered(Append(s, m))
BY AppendFacts DEF Ordered

\* The tail of an ordered sequence is ordered, and its head precedes it.
LEMMA OrderedTail ==
  ASSUME NEW s \in Seq(Message), s # <<>>, Ordered(s)
  PROVE  /\ Ordered(Tail(s))
         /\ \A i \in 1 .. Len(Tail(s)) : Older(Head(s), Tail(s)[i])
BY TailFacts DEF Ordered

\* An ordered sequence stays ordered when an element leaves it.
LEMMA OrderedRemove ==
  ASSUME NEW s \in Seq(Message), NEW i \in 1 .. Len(s), Ordered(s)
  PROVE  Ordered(RemoveAt(s, i))
<1> DEFINE r == RemoveAt(s, i)
<1>1. /\ Len(r) = Len(s) - 1
      /\ \A j \in 1 .. Len(r) : r[j] = IF j < i THEN s[j] ELSE s[j + 1]
  BY RemoveFacts
<1> HIDE DEF r
<1>2. ASSUME NEW j \in 1 .. Len(r), NEW k \in 1 .. Len(r), j < k
      PROVE  Older(r[j], r[k])
  <2> DEFINE In(x) == IF x < i THEN x ELSE x + 1
  <2>1. PICK j2 \in 1 .. Len(s) : j2 = In(j) /\ r[j] = s[j2]
    <3>1. In(j) \in 1 .. Len(s) /\ r[j] = s[In(j)]
      BY <1>1
    <3> HIDE DEF In
    <3> QED BY <3>1
  <2>2. PICK k2 \in 1 .. Len(s) : k2 = In(k) /\ r[k] = s[k2]
    <3>1. In(k) \in 1 .. Len(s) /\ r[k] = s[In(k)]
      BY <1>1
    <3> HIDE DEF In
    <3> QED BY <3>1
  <2>3. j2 < k2
    BY <1>2, <2>1, <2>2
  <2> QED BY <2>1, <2>2, <2>3 DEF Ordered
<1>3. Ordered(r)
  BY <1>2 DEF Ordered
<1> QED BY <1>3 DEF r

\* Precedence between two sequences survives appending a message that respects
\* it, on either side.
LEMMA BeforeAppend ==
  ASSUME NEW s \in Seq(Message), NEW t \in Seq(Message), NEW m \in Message, Before(s, t)
  PROVE  /\ (\A i \in 1 .. Len(s) : Older(s[i], m)) => Before(s, Append(t, m))
         /\ (\A j \in 1 .. Len(t) : Older(m, t[j])) => Before(Append(s, m), t)
<1>1. ASSUME \A i \in 1 .. Len(s) : Older(s[i], m) PROVE Before(s, Append(t, m))
  BY <1>1, AppendFacts DEF Before
<1>2. ASSUME \A j \in 1 .. Len(t) : Older(m, t[j]) PROVE Before(Append(s, m), t)
  BY <1>2, AppendFacts DEF Before
<1> QED BY <1>1, <1>2

\* It survives the removal of an element, on either side.
LEMMA BeforeTail ==
  ASSUME NEW s \in Seq(Message), NEW t \in Seq(Message), Before(s, t)
  PROVE  /\ s # <<>> => Before(Tail(s), t)
         /\ t # <<>> => Before(s, Tail(t))
<1>1. ASSUME s # <<>> PROVE Before(Tail(s), t)
  BY <1>1, TailFacts DEF Before
<1>2. ASSUME t # <<>> PROVE Before(s, Tail(t))
  BY <1>2, TailFacts DEF Before
<1> QED BY <1>1, <1>2

\* The elements left by a removal, one by one.
LEMMA RemovedFrom ==
  ASSUME NEW s \in Seq(Message), NEW i \in 1 .. Len(s), NEW j \in 1 .. Len(RemoveAt(s, i))
  PROVE  \E k \in 1 .. Len(s) : k # i /\ RemoveAt(s, i)[j] = s[k]
<1> DEFINE r == RemoveAt(s, i)
<1>1. /\ Len(r) = Len(s) - 1
      /\ \A h \in 1 .. Len(r) : r[h] = IF h < i THEN s[h] ELSE s[h + 1]
  BY RemoveFacts
<1> HIDE DEF r
<1>2. j \in 1 .. Len(r)
  BY DEF r
<1>3. \E k \in 1 .. Len(s) : k # i /\ r[j] = s[k]
  BY <1>1, <1>2
<1> QED BY <1>3 DEF r

\* The elements of an extended sequence, one by one.
LEMMA AppendedTo ==
  ASSUME NEW s \in Seq(Message), NEW m \in Message, NEW j \in 1 .. Len(Append(s, m))
  PROVE  Append(s, m)[j] = m \/ \E k \in 1 .. Len(s) : Append(s, m)[j] = s[k]
<1>1. Len(s) \in Nat /\ Len(Append(s, m)) = Len(s) + 1
  OBVIOUS
<1>2. j = Len(s) + 1 \/ j \in 1 .. Len(s)
  BY <1>1
<1> QED BY <1>2, AppendFacts

\* FlowOrder of one queue: taken t, pipe s, buffer b.
Flow(t, s, b) ==
  /\ Ordered(t) /\ Ordered(s) /\ Ordered(b)
  /\ Before(t, s) /\ Before(t, b) /\ Before(s, b)

\* put() of a message younger than all of its producer's keeps the order;
LEMMA FlowPut ==
  ASSUME NEW t \in Seq(Message), NEW s \in Seq(Message), NEW b \in Seq(Message),
         Flow(t, s, b), NEW m \in Message,
         \A i \in 1 .. Len(t) : Older(t[i], m),
         \A i \in 1 .. Len(s) : Older(s[i], m),
         \A i \in 1 .. Len(b) : Older(b[i], m)
  PROVE  Flow(t, s, Append(b, m))
BY OrderedAppend, BeforeAppend DEF Flow

\* get() keeps it: what it takes is older than what stays;
LEMMA FlowTake ==
  ASSUME NEW t \in Seq(Message), NEW s \in Seq(Message), NEW b \in Seq(Message),
         Flow(t, s, b), s # <<>>
  PROVE  Flow(Append(t, Head(s)), Tail(s), b)
<1>1. Head(s) \in Message /\ Tail(s) \in Seq(Message)
  BY TailFacts
<1>2. Ordered(Append(t, Head(s)))
  <2>1. \A i \in 1 .. Len(t) : Older(t[i], Head(s))
    BY TailFacts DEF Flow, Before
  <2> QED BY <1>1, <2>1, OrderedAppend DEF Flow
<1>3. Ordered(Tail(s)) /\ \A i \in 1 .. Len(Tail(s)) : Older(Head(s), Tail(s)[i])
  BY OrderedTail DEF Flow
<1>4. Before(Append(t, Head(s)), Tail(s))
  <2>1. Before(t, Tail(s))
    BY BeforeTail DEF Flow
  <2> QED BY <1>1, <1>3, <2>1, BeforeAppend
<1>5. Before(Append(t, Head(s)), b)
  <2>1. \A i \in 1 .. Len(b) : Older(Head(s), b[i])
    BY TailFacts DEF Flow, Before
  <2> QED BY <1>1, <2>1, BeforeAppend DEF Flow
<1>6. Before(Tail(s), b)
  BY BeforeTail DEF Flow
<1> QED BY <1>2, <1>3, <1>4, <1>5, <1>6 DEF Flow

\* a feeder thread keeps it: it moves the oldest message of one producer.
LEMMA FlowFeed ==
  ASSUME NEW t \in Seq(Message), NEW s \in Seq(Message), NEW b \in Seq(Message),
         Flow(t, s, b), NEW i \in 1 .. Len(b),
         \A j \in 1 .. (i - 1) : b[j].by # b[i].by
  PROVE  Flow(t, Append(s, b[i]), RemoveAt(b, i))
<1>1. b[i] \in Message /\ RemoveAt(b, i) \in Seq(Message)
  BY RemoveFacts
<1>2. \A j \in 1 .. Len(s) : Older(s[j], b[i])
  BY DEF Flow, Before
<1>3. Ordered(Append(s, b[i]))
  BY <1>1, <1>2, OrderedAppend DEF Flow
<1>4. Ordered(RemoveAt(b, i))
  BY OrderedRemove DEF Flow
<1>5. Before(t, Append(s, b[i]))
  <2>1. \A j \in 1 .. Len(t) : Older(t[j], b[i])
    BY DEF Flow, Before
  <2> QED BY <1>1, <2>1, BeforeAppend DEF Flow
<1>6. Before(t, RemoveAt(b, i))
  BY RemovedFrom DEF Flow, Before
<1>7. Before(s, RemoveAt(b, i))
  BY RemovedFrom DEF Flow, Before
<1>8. \A j \in 1 .. Len(RemoveAt(b, i)) : Older(b[i], RemoveAt(b, i)[j])
  <2> SUFFICES ASSUME NEW j \in 1 .. Len(RemoveAt(b, i))
               PROVE  Older(b[i], RemoveAt(b, i)[j])
    OBVIOUS
  <2>1. PICK k \in 1 .. Len(b) : k # i /\ RemoveAt(b, i)[j] = b[k]
    BY RemovedFrom
  <2>2. CASE k < i
    <3>1. b[k].by # b[i].by
      BY <2>2
    <3> QED BY <2>1, <3>1 DEF Older
  <2>3. CASE i < k
    BY <2>1, <2>3 DEF Flow, Ordered
  <2> QED BY <2>1, <2>2, <2>3
<1>9. Before(Append(s, b[i]), RemoveAt(b, i))
  BY <1>1, <1>7, <1>8, BeforeAppend
<1> QED BY <1>3, <1>4, <1>5, <1>6, <1>9 DEF Flow

-----------------------------------------------------------------------------
(* Types and bounds *)

\* A put that found the queue not full does not overfill it.
LEMMA SlotTaken ==
  ASSUME NEW a \in Nat, NEW b \in Nat, NEW max \in Nat, ~(a + b >= max)
  PROVE  (a + 1) + b <= max
OBVIOUS

\* Feeding keeps the slot of the message.
LEMMA SlotKept ==
  ASSUME NEW a \in Nat, NEW b \in Nat, NEW max \in Nat, a + b <= max
  PROVE  (a - 1) + (b + 1) <= max
OBVIOUS

LEMMA SlotFreed ==
  ASSUME NEW a \in Nat, NEW b \in Nat, NEW max \in Nat, a + b <= max
  PROVE  a + (b - 1) <= max
OBVIOUS

TypeInv == TypeOK /\ TodoOK

\* One process goes where nothing is published.
LEMMA TodoElsewhere ==
  ASSUME TodoOK, NEW p \in Process,
         \A r \in Process \ {p} : pc'[r] = pc[r] /\ todo'[r] = todo[r],
         pc'[p] \in {"run", "get", "clear", "clearGet", "drain"},
         pc'[p] \in {"get", "clearGet", "drain"} => todo'[p] # <<>>
  PROVE  TodoOK'
BY DEF TodoOK, Publishing, Getting

LEMMA WiringFacts ==
  /\ \A p \in Process : \A n \in DOMAIN PublishQueues[p] :
       /\ PublishQueues[p][n] \in Seq(Queue)
       /\ PublishQueues[p][n] # <<>>
       /\ \A i, j \in 1 .. Len(PublishQueues[p][n]) :
            PublishQueues[p][n][i] = PublishQueues[p][n][j] => i = j
  /\ \A p \in Process : \A n \in DOMAIN ConsumeQueues[p] :
       ConsumeQueues[p][n] \in Queue
  /\ \A p \in Process : QueuesToClear[p] \in Seq(STRING)
  /\ \A p \in Process : Flags[p] \subseteq BOOLEAN
  /\ MaxSent \in [Process -> Nat]
BY WiringAssumption DEF Wired

LEMMA TypeInit == Init => TypeInv
BY MpQueueAssumption, WiringFacts
DEF Init, QueueInit, TypeInv, TypeOK, TodoOK, Locations, Publishing, Getting, Size

\* Steps that move a process without touching queues, todo or history.
LEMMA TypeMove ==
  ASSUME TypeInv, NEW p \in Process, NEW l \in Locations, Goto(p, l),
         UNCHANGED <<queueVars, todo, clearing, sent, taken>>, flag' \in [Process -> BOOLEAN],
         l \in Publishing \cup Getting \cup {"drain"} => todo[p] # <<>>,
         l \in Publishing => pc[p] \in Publishing
  PROVE  TypeInv'
BY DEF TypeInv, TypeOK, TodoOK, Goto, queueVars, Size

LEMMA TypePublish ==
  ASSUME TypeInv, NEW p \in Process, NEW n \in DOMAIN PublishQueues[p], Publish(p, n)
  PROVE  TypeInv'
<1>1. n \in Names
  BY DEF Names
<1>2. Append(sent[p], n) \in Seq(Names)
  BY <1>1 DEF TypeInv, TypeOK
<1>3. TypeOK'
  <2>1. sent' \in [Process -> Seq(Names)] /\ flag' \in [Process -> BOOLEAN]
    BY <1>2, WiringFacts DEF TypeInv, TypeOK, Publish
  <2>2. PublishQueues[p][n] \in Seq(Queue)
    BY WiringFacts
  <2>3. todo' \in [Process -> Seq(Queue)] /\ pc' \in [Process -> Locations]
    BY <2>2 DEF TypeInv, TypeOK, Publish, Goto, SetTodo, Locations
  <2> QED BY <2>1, <2>3 DEF TypeInv, TypeOK, Publish, queueVars, Size
<1>4. /\ todo' = [todo EXCEPT ![p] = PublishQueues[p][n]]
      /\ pc' = [pc EXCEPT ![p] = "publish"]
  BY DEF Publish, Goto, SetTodo
<1>5. /\ PublishQueues[p][n] # <<>>
      /\ \A i, j \in 1 .. Len(PublishQueues[p][n]) :
           PublishQueues[p][n][i] = PublishQueues[p][n][j] => i = j
  BY WiringFacts
<1>6. todo'[p] = PublishQueues[p][n] /\ pc'[p] = "publish"
  BY <1>4 DEF TypeInv, TypeOK
<1>7. \A r \in Process : r # p => todo'[r] = todo[r] /\ pc'[r] = pc[r]
  BY <1>4 DEF TypeInv, TypeOK
<1>8. TodoOK'
  <2> SUFFICES ASSUME NEW r \in Process
      PROVE (/\ pc[r] \in Publishing \cup Getting \cup {"drain"} => todo[r] # <<>>
             /\ pc[r] \in Publishing =>
                  \A i, j \in 1 .. Len(todo[r]) : todo[r][i] = todo[r][j] => i = j)'
    BY DEF TodoOK
  <2>1. CASE r # p
    BY <1>7, <2>1 DEF TypeInv, TodoOK
  <2>2. CASE r = p
    BY <1>5, <1>6, <2>2 DEF Publishing, Getting
  <2> QED BY <2>1, <2>2
<1> QED BY <1>3, <1>8 DEF TypeInv

LEMMA TypePut ==
  ASSUME TypeInv, NEW p \in Process, Put(p)
  PROVE  TypeInv'
<1>1. todo[p] \in Seq(Queue) /\ todo[p] # <<>> /\ pc[p] \in Publishing
  BY DEF TypeInv, TypeOK, TodoOK, Put, Publishing
<1>2. PICK q \in Queue : q = Current(p)
  BY <1>1, TailFacts DEF Current
<1>3. PICK m \in Message : m = [by |-> p, id |-> Len(sent[p])]
  <2>1. Len(sent[p]) \in Nat
    BY DEF TypeInv, TypeOK
  <2>2. [by |-> p, id |-> Len(sent[p])] \in Message
    BY <2>1 DEF Message
  <2> QED BY <2>2
<1>4. /\ Append(buffer[q], m) \in Seq(Message)
      /\ Len(Append(buffer[q], m)) = Len(buffer[q]) + 1
      /\ Len(buffer[q]) \in Nat
      /\ Len(pipe[q]) \in Nat
      /\ Tail(todo[p]) \in Seq(Queue)
  BY <1>1, <1>2, <1>3, TailFacts DEF TypeInv, TypeOK
<1>5. /\ buffer' = [buffer EXCEPT ![q] = Append(@, m)]
      /\ ~Full(q)
      /\ todo' = [todo EXCEPT ![p] = Tail(todo[p])]
      /\ pc' = [pc EXCEPT ![p] = IF Tail(todo[p]) = <<>> THEN "run" ELSE "publish"]
      /\ UNCHANGED <<pipe, reader, clearing, flag, sent, taken>>
  BY <1>2, <1>3 DEF Put, QueuePut, SetTodo, Goto
<1>6. \A r \in Queue : Len(buffer'[r]) + Len(pipe'[r]) <= MaxSize[r]
  <2> SUFFICES ASSUME NEW r \in Queue PROVE Len(buffer'[r]) + Len(pipe'[r]) <= MaxSize[r]
    OBVIOUS
  <2>1. CASE r = q
    <3>1. buffer'[q] = Append(buffer[q], m) /\ pipe'[q] = pipe[q]
      BY <1>5 DEF TypeInv, TypeOK
    <3>2. MaxSize[q] \in Nat
      BY MpQueueAssumption
    <3>3. ~(Len(buffer[q]) + Len(pipe[q]) >= MaxSize[q])
      BY <1>5 DEF Full, Size
    <3>4. Len(buffer'[r]) = Len(buffer[q]) + 1 /\ Len(pipe'[r]) = Len(pipe[q])
      BY <1>4, <2>1, <3>1
    <3>5. (Len(buffer[q]) + 1) + Len(pipe[q]) <= MaxSize[q]
      BY <1>4, <3>2, <3>3, SlotTaken
    <3> QED BY <2>1, <3>4, <3>5
  <2>2. CASE r # q
    BY <1>5, <2>2 DEF Size, TypeInv, TypeOK
  <2> QED BY <2>1, <2>2
<1>7. TypeOK'
  BY <1>2, <1>4, <1>5, <1>6 DEF TypeInv, TypeOK, Locations, Size
<1>8. TodoOK'
  <2> SUFFICES ASSUME NEW r \in Process
      PROVE (/\ pc[r] \in Publishing \cup Getting \cup {"drain"} => todo[r] # <<>>
             /\ pc[r] \in Publishing =>
                  \A i, j \in 1 .. Len(todo[r]) : todo[r][i] = todo[r][j] => i = j)'
    BY DEF TodoOK
  <2>1. CASE r # p
    BY <1>5, <2>1 DEF TypeInv, TypeOK, TodoOK
  <2>2. CASE r = p
    <3>1. todo'[p] = Tail(todo[p])
      BY <1>5 DEF TypeInv, TypeOK
    <3>2. pc'[p] = IF Tail(todo[p]) = <<>> THEN "run" ELSE "publish"
      BY <1>5 DEF TypeInv, TypeOK
    <3>3. \A i, j \in 1 .. Len(Tail(todo[p])) :
            Tail(todo[p])[i] = Tail(todo[p])[j] => i = j
      <4>1. \A i, j \in 1 .. Len(todo[p]) : todo[p][i] = todo[p][j] => i = j
        BY <1>1 DEF TypeInv, TodoOK
      <4>2. /\ Len(Tail(todo[p])) = Len(todo[p]) - 1 /\ Len(todo[p]) \in Nat
            /\ \A i \in 1 .. (Len(todo[p]) - 1) : Tail(todo[p])[i] = todo[p][i + 1]
        BY <1>1, TailFacts
      <4> SUFFICES ASSUME NEW i \in 1 .. (Len(todo[p]) - 1), NEW j \in 1 .. (Len(todo[p]) - 1),
                          todo[p][i + 1] = todo[p][j + 1]
                   PROVE  i = j
        BY <4>2
      <4>3. i + 1 \in 1 .. Len(todo[p]) /\ j + 1 \in 1 .. Len(todo[p])
        BY <4>2
      <4>4. i + 1 = j + 1
        BY <4>1, <4>3
      <4> QED BY <4>4
    <3> QED BY <2>2, <3>1, <3>2, <3>3 DEF Publishing, Getting
  <2> QED BY <2>1, <2>2
<1> QED BY <1>7, <1>8 DEF TypeInv

\* A get() that returns: of consume, of publish or of clear_queue.
LEMMA TypeTake ==
  ASSUME TypeInv, NEW p \in Process, pc[p] \in Getting, Take(p),
         NEW l \in {"run", "drain", "clear", "recheck"}, Goto(p, l),
         l = "recheck" => pc[p] \in Publishing,
         UNCHANGED <<todo, clearing, flag, sent>>
  PROVE  TypeInv'
<1> DEFINE q == Current(p)
<1>1. q \in Queue /\ todo[p] # <<>>
  BY TailFacts DEF TypeInv, TypeOK, TodoOK, Getting, Current
<1>2. pipe[q] \in Seq(Message) /\ pipe[q] # <<>>
  BY <1>1 DEF TypeInv, TypeOK, Take, QueueReceive, Empty
<1>3. /\ Head(pipe[q]) \in Message
      /\ Tail(pipe[q]) \in Seq(Message)
      /\ Len(Tail(pipe[q])) = Len(pipe[q]) - 1
      /\ Append(taken[q], Head(pipe[q])) \in Seq(Message)
      /\ Len(pipe[q]) \in Nat /\ Len(buffer[q]) \in Nat
  BY <1>1, <1>2, TailFacts, AppendFacts DEF TypeInv, TypeOK
<1> HIDE DEF q
<1>4. /\ pipe' = [pipe EXCEPT ![q] = Tail(@)]
      /\ reader' = [reader EXCEPT ![q] = NoReader]
      /\ taken' = [taken EXCEPT ![q] = Append(@, Head(pipe[q]))]
      /\ pc' = [pc EXCEPT ![p] = l]
      /\ UNCHANGED <<buffer, todo, clearing, flag, sent>>
  BY DEF Take, QueueReceive, Goto, q
<1>5. \A r \in Queue : Len(buffer'[r]) + Len(pipe'[r]) <= MaxSize[r]
  <2> SUFFICES ASSUME NEW r \in Queue PROVE Len(buffer'[r]) + Len(pipe'[r]) <= MaxSize[r]
    OBVIOUS
  <2>1. CASE r = q
    <3>1. pipe'[q] = Tail(pipe[q]) /\ buffer'[q] = buffer[q]
      BY <1>1, <1>4 DEF TypeInv, TypeOK
    <3>2. MaxSize[q] \in Nat
      BY <1>1, MpQueueAssumption
    <3>3. Len(buffer[q]) + Len(pipe[q]) <= MaxSize[q]
      BY <1>1 DEF Size, TypeInv, TypeOK
    <3>4. Len(buffer[q]) + (Len(pipe[q]) - 1) <= MaxSize[q]
      BY <1>3, <3>2, <3>3, SlotFreed
    <3> QED BY <1>3, <2>1, <3>1, <3>4
  <2>2. CASE r # q
    BY <1>4, <2>2 DEF Size, TypeInv, TypeOK
  <2> QED BY <2>1, <2>2
<1>6. TypeOK'
  BY <1>1, <1>3, <1>4, <1>5 DEF TypeInv, TypeOK, Locations, Size
<1>7. TodoOK'
  BY <1>1, <1>4 DEF TypeInv, TypeOK, TodoOK, Publishing, Getting
<1> QED BY <1>6, <1>7 DEF TypeInv

LEMMA TypeFeed ==
  ASSUME TypeInv, NEW p \in Process, NEW q \in Queue, Feed(p, q)
  PROVE  TypeInv'
<1>1. PICK i \in 1 .. Len(buffer[q]) : QueueFeed(q, i)
  BY DEF Feed
<1>2. /\ buffer[q] \in Seq(Message) /\ pipe[q] \in Seq(Message)
      /\ buffer[q][i] \in Message
  BY DEF TypeInv, TypeOK
<1>3. /\ RemoveAt(buffer[q], i) \in Seq(Message)
      /\ Len(RemoveAt(buffer[q], i)) = Len(buffer[q]) - 1
  BY <1>2, RemoveFacts
<1>4. /\ Append(pipe[q], buffer[q][i]) \in Seq(Message)
      /\ Len(Append(pipe[q], buffer[q][i])) = Len(pipe[q]) + 1
      /\ Len(pipe[q]) \in Nat /\ Len(buffer[q]) \in Nat
  BY <1>2
<1>5. /\ pipe' = [pipe EXCEPT ![q] = Append(@, buffer[q][i])]
      /\ buffer' = [buffer EXCEPT ![q] = RemoveAt(@, i)]
      /\ UNCHANGED <<reader, procVars>>
  BY <1>1 DEF QueueFeed, Feed
<1>6. \A r \in Queue : Len(buffer'[r]) + Len(pipe'[r]) <= MaxSize[r]
  <2> SUFFICES ASSUME NEW r \in Queue PROVE Len(buffer'[r]) + Len(pipe'[r]) <= MaxSize[r]
    OBVIOUS
  <2>1. CASE r = q
    <3>1. /\ buffer'[q] = RemoveAt(buffer[q], i)
          /\ pipe'[q] = Append(pipe[q], buffer[q][i])
      BY <1>5 DEF TypeInv, TypeOK
    <3>2. Size(q) <= MaxSize[q] /\ MaxSize[q] \in Nat
      BY MpQueueAssumption DEF TypeInv, TypeOK
    <3>3. Len(buffer'[r]) = Len(buffer[q]) - 1 /\ Len(pipe'[r]) = Len(pipe[q]) + 1
      BY <1>3, <1>4, <2>1, <3>1
    <3>4. Len(buffer[q]) + Len(pipe[q]) <= MaxSize[q]
      BY <3>2 DEF Size
    <3>5. (Len(buffer[q]) - 1) + (Len(pipe[q]) + 1) <= MaxSize[q]
      BY <1>4, <3>2, <3>4, SlotKept
    <3> QED BY <2>1, <3>3, <3>5
  <2>2. CASE r # q
    BY <1>5, <2>2 DEF Size, TypeInv, TypeOK
  <2> QED BY <2>1, <2>2
<1>7. TypeOK'
  BY <1>3, <1>4, <1>5, <1>6 DEF TypeInv, TypeOK, procVars, Size
<1>8. TodoOK'
  BY <1>5 DEF TypeInv, TodoOK, procVars
<1> QED BY <1>7, <1>8 DEF TypeInv

\* The steps of clear_queues between its calls of get().
LEMMA TypeClear ==
  ASSUME TypeInv, NEW p \in Process, Leave(p) \/ ClearNext(p) \/ ClearCheck(p)
  PROVE  TypeInv'
<1>1. /\ QueuesToClear[p] \in Seq(STRING)
      /\ clearing[p] # <<>> => Head(clearing[p]) \in STRING /\ Tail(clearing[p]) \in Seq(STRING)
      /\ todo[p] # <<>> => Tail(todo[p]) \in Seq(Queue)
  BY WiringFacts DEF TypeInv, TypeOK
<1>2. ASSUME NEW n PROVE QueuesOf(p, n) \in Seq(Queue)
  BY WiringFacts DEF QueuesOf
<1>3. CASE Leave(p)
  <2>1. /\ todo' \in [Process -> Seq(Queue)]
        /\ clearing' \in [Process -> Seq(STRING)]
    <3>1. /\ todo' = [todo EXCEPT ![p] = <<>>]
          /\ clearing' = [clearing EXCEPT ![p] = QueuesToClear[p]]
      BY <1>3 DEF Leave, SetTodo
    <3>2. <<>> \in Seq(Queue)
      OBVIOUS
    <3> QED BY <1>1, <3>1, <3>2 DEF TypeInv, TypeOK
  <2>3. TypeOK'
    BY <1>3, <2>1 DEF Leave, TypeInv, TypeOK, Goto, queueVars, Size, Locations
  <2>2. TodoOK'
    BY <1>3 DEF Leave, TypeInv, TypeOK, TodoOK, SetTodo, Goto, Publishing, Getting
  <2> QED BY <2>2, <2>3 DEF TypeInv
<1>4. CASE ClearNext(p)
  <2>1. TypeOK'
    <3>1. CASE clearing[p] = <<>>
      BY <1>4, <3>1 DEF ClearNext, TypeInv, TypeOK, Goto, queueVars, Size, Locations
    <3>2. CASE clearing[p] # <<>>
      <4>1. /\ QueuesOf(p, Head(clearing[p])) \in Seq(Queue)
            /\ Tail(clearing[p]) \in Seq(STRING)
        BY <1>1, <1>2, <3>2
      <4>2. /\ todo' \in [Process -> Seq(Queue)]
            /\ clearing' \in [Process -> Seq(STRING)]
        BY <1>4, <3>2, <4>1 DEF ClearNext, TypeInv, TypeOK, SetTodo
      <4> QED BY <1>4, <3>2, <4>2 DEF ClearNext, TypeInv, TypeOK, queueVars, Size
    <3> QED BY <3>1, <3>2
  <2>2. TodoOK'
    BY <1>4 DEF ClearNext, TypeInv, TypeOK, TodoOK, SetTodo, Goto, Publishing, Getting
  <2> QED BY <2>1, <2>2 DEF TypeInv
<1>5. CASE ClearCheck(p)
  <2>1. TypeOK'
    BY <1>1, <1>5 DEF ClearCheck, TypeInv, TypeOK, SetTodo, Goto, queueVars, Size, Locations
  <2>2. TodoOK'
    <3>1. /\ pc[p] = "clear" /\ todo[p] # <<>>
          /\ \/ todo' = [todo EXCEPT ![p] = Tail(todo[p])] /\ pc' = pc
             \/ pc' = [pc EXCEPT ![p] = "clearGet"] /\ todo' = todo
      BY <1>5 DEF ClearCheck, SetTodo, Goto
    <3>2. \A r \in Process \ {p} : pc'[r] = pc[r] /\ todo'[r] = todo[r]
      BY <3>1 DEF TypeInv, TypeOK
    <3>3. pc'[p] = "clear" \/ (pc'[p] = "clearGet" /\ todo'[p] # <<>>)
      BY <3>1 DEF TypeInv, TypeOK
    <3> QED BY <3>2, <3>3, TodoElsewhere DEF TypeInv
  <2> QED BY <2>1, <2>2 DEF TypeInv
<1> QED BY <1>3, <1>4, <1>5

\* A process gets hold of a reader lock, or gives it up when its get() expires.
LEMMA TypeReader ==
  ASSUME TypeInv, NEW p \in Process, Lock(p) \/ ClearTimeout(p)
  PROVE  TypeInv'
<1>1. /\ reader' \in [Queue -> Process \cup {NoReader}]
      /\ UNCHANGED <<buffer, pipe, todo, clearing, flag, sent, taken>>
      /\ pc' = pc \/ pc' = [pc EXCEPT ![p] = "ended"]
  BY DEF TypeInv, TypeOK, Lock, ClearTimeout, QueueLock, QueueTimeout, Goto, procVars
<1>2. TypeOK'
  BY <1>1 DEF TypeInv, TypeOK, Size, Locations
<1>3. TodoOK'
  <2>1. \A r \in Process : pc'[r] = pc[r] \/ pc'[r] = "ended"
    BY <1>1 DEF TypeInv, TypeOK
  <2> QED BY <1>1, <2>1 DEF TypeInv, TodoOK, Publishing, Getting
<1> QED BY <1>2, <1>3 DEF TypeInv

LEMMA TypeConsume ==
  ASSUME TypeInv, NEW p \in Process, NEW n \in DOMAIN ConsumeQueues[p], Consume(p, n)
  PROVE  TypeInv'
<1>1. <<ConsumeQueues[p][n]>> \in Seq(Queue) /\ <<ConsumeQueues[p][n]>> # <<>>
  BY WiringFacts
<1>2. /\ todo' = [todo EXCEPT ![p] = <<ConsumeQueues[p][n]>>]
      /\ pc' = [pc EXCEPT ![p] = "get"]
      /\ UNCHANGED <<buffer, pipe, reader, clearing, sent, taken>>
  BY DEF Consume, SetTodo, Goto, queueVars
<1>3. TypeOK'
  <2>1. todo' \in [Process -> Seq(Queue)] /\ pc' \in [Process -> Locations]
    BY <1>1, <1>2 DEF TypeInv, TypeOK, Locations
  <2>2. flag' \in [Process -> BOOLEAN]
    BY WiringFacts DEF Consume, TypeInv, TypeOK
  <2> QED BY <1>2, <2>1, <2>2 DEF TypeInv, TypeOK, Size
<1>4. TodoOK'
  <2>1. \A r \in Process \ {p} : pc'[r] = pc[r] /\ todo'[r] = todo[r]
    BY <1>2 DEF TypeInv, TypeOK
  <2>2. pc'[p] = "get" /\ todo'[p] # <<>>
    BY <1>1, <1>2 DEF TypeInv, TypeOK
  <2> QED BY <2>1, <2>2, TodoElsewhere DEF TypeInv
<1> QED BY <1>3, <1>4 DEF TypeInv

\* Every step keeps types, bounds and the lists of queues in order.
LEMMA TypeNext == TypeInv /\ [Next]_vars => TypeInv'
<1> SUFFICES ASSUME TypeInv, [Next]_vars PROVE TypeInv'
  OBVIOUS
<1>1. ASSUME NEW p \in Process, Step(p) PROVE TypeInv'
  <2>1. CASE \E n \in DOMAIN PublishQueues[p] : Publish(p, n)
    BY <2>1, TypePublish
  <2>2. CASE \E n \in DOMAIN ConsumeQueues[p] : Consume(p, n)
    BY <2>2, TypeConsume
  <2>3. CASE Lock(p) \/ ClearTimeout(p)
    BY <2>3, TypeReader
  <2>4. CASE CheckFull(p)
    <3>1. todo[p] # <<>>
      BY <2>4 DEF CheckFull, TypeInv, TodoOK, Publishing
    <3>2. PICK l \in {"evict", "put"} : Goto(p, l)
      BY <2>4 DEF CheckFull
    <3> QED BY <2>4, <3>1, <3>2, TypeMove
            DEF CheckFull, Locations, Publishing, Getting, TypeInv, TypeOK
  <2>5. CASE Put(p)
    BY <2>5, TypePut
  <2>6. CASE Evict(p)
    BY <2>6, TypeTake DEF Evict, Getting, Publishing
  <2>7. CASE Get(p)
    <3>1. PICK l \in {"run", "drain"} : Goto(p, l)
      BY <2>7 DEF Get
    <3> QED BY <2>7, <3>1, TypeTake DEF Get, Getting
  <2>8. CASE Drain(p)
    <3>1. todo[p] # <<>>
      BY <2>8 DEF Drain, TypeInv, TodoOK
    <3>2. PICK l \in {"run", "get"} : Goto(p, l)
      BY <2>8 DEF Drain
    <3> QED BY <2>8, <3>1, <3>2, TypeMove
            DEF Drain, Locations, Publishing, Getting, TypeInv, TypeOK
  <2>9. CASE ClearGet(p)
    BY <2>9, TypeTake DEF ClearGet, Getting
  <2>10. CASE Leave(p) \/ ClearNext(p) \/ ClearCheck(p)
    BY <2>10, TypeClear
  <2>11. CASE Construct(p) \/ ConstructFails(p) \/ Again(p) \/ Stop(p)
    <3>1. PICK l \in {"run", "ended", "start", "exited", "killed"} : Goto(p, l)
      BY <2>11 DEF Construct, ConstructFails, Again, Stop
    <3>2. UNCHANGED <<queueVars, todo, clearing, flag, sent, taken>>
      BY <2>11 DEF Construct, ConstructFails, Again, Stop
    <3> QED BY <3>1, <3>2, TypeMove DEF Locations, Publishing, Getting, TypeInv, TypeOK
  <2>12. CASE \E q \in Queue : Feed(p, q)
    BY <2>12, TypeFeed
  <2> QED BY <1>1, <2>1, <2>2, <2>3, <2>4, <2>5, <2>6, <2>7, <2>8, <2>9, <2>10, <2>11, <2>12
          DEF Step, PublishStep, ConsumeStep, CycleStep
<1>2. CASE UNCHANGED vars
  BY <1>2 DEF vars, queueVars, procVars, TypeInv, TypeOK, TodoOK, Size
<1> QED BY <1>1, <1>2 DEF Next

\* The state of the processes and queues is well typed and no queue ever holds
\* more messages than its maxsize, for any wiring RobotDispatcher can produce.
THEOREM TypeCorrect == Spec => []TypeOK
<1>1. Spec => []TypeInv
  BY TypeInit, TypeNext, PTL DEF Spec
<1>2. TypeInv => TypeOK
  BY DEF TypeInv
<1> QED BY <1>1, <1>2, PTL

-----------------------------------------------------------------------------
(* Who holds a reader lock *)

\* The reader lock of a queue is held only by a process inside a get() of that
\* queue, or by one terminated there: no call returns, no exception leaves get(),
\* and no process is restarted with a lock in its hands.
HeldInGet(q, p) ==
  pc[p] = "killed" \/ (pc[p] \in Getting /\ todo[p] # <<>> /\ Current(p) = q)
ReaderHeld == \A q \in Queue, p \in Process : reader[q] = p => HeldInGet(q, p)

\* A step of one process in which the locks stay or go: it keeps what it holds in
\* the same call, or is terminated, or ends with none.
LEMMA ReaderStays ==
  ASSUME TypeInv, ReaderHeld, NEW p \in Process,
         \A r \in Process \ {p} : pc'[r] = pc[r] /\ todo'[r] = todo[r],
         \A q \in Queue : reader'[q] = NoReader \/ reader'[q] = reader[q],
         (pc'[p] = "killed" \/ (pc'[p] = pc[p] /\ todo'[p] = todo[p]))
           \/ \A q \in Queue : reader'[q] # p
  PROVE  ReaderHeld'
<1> SUFFICES ASSUME NEW q \in Queue, NEW r \in Process, reader'[q] = r
             PROVE  HeldInGet(q, r)'
  BY DEF ReaderHeld, HeldInGet, Current
<1>1. reader[q] = r
  BY MpQueueAssumption
<1>2. HeldInGet(q, r)
  BY <1>1 DEF ReaderHeld
<1>4. CASE r # p
  <2>1. pc'[r] = pc[r] /\ todo'[r] = todo[r]
    BY <1>4
  <2> QED BY <1>2, <2>1 DEF HeldInGet, Current
<1>5. CASE r = p
  <2>1. pc'[p] = "killed" \/ (pc'[p] = pc[p] /\ todo'[p] = todo[p])
    BY <1>5
  <2> QED BY <1>2, <1>5, <2>1 DEF HeldInGet, Current
<1> QED BY <1>4, <1>5

\* A process outside get() that has not been terminated holds no lock.
LEMMA NoLockOutside ==
  ASSUME ReaderHeld, NEW p \in Process, pc[p] \notin Getting \cup {"killed"}
  PROVE  \A q \in Queue : reader[q] # p
BY DEF ReaderHeld, HeldInGet

\* A process in get() holds no lock but that of its current queue.
LEMMA NoOtherLock ==
  ASSUME ReaderHeld, NEW p \in Process, pc[p] \in Getting, NEW q \in Queue, reader[q] = p
  PROVE  q = Current(p)
BY DEF ReaderHeld, HeldInGet, Getting

\* Only the process that takes a step moves.
LEMMA OthersStay ==
  ASSUME TypeInv, NEW p \in Process, Step(p), NEW r \in Process \ {p}
  PROVE  pc'[r] = pc[r] /\ todo'[r] = todo[r]
<1>1. CASE Lock(p) \/ \E q \in Queue : Feed(p, q)
  BY <1>1 DEF Lock, Feed, procVars
<1>2. CASE \/ CheckFull(p) \/ Get(p) \/ Evict(p) \/ Drain(p) \/ Construct(p) \/ ConstructFails(p)
           \/ ClearGet(p) \/ ClearTimeout(p) \/ Again(p) \/ Stop(p)
  <2>1. todo' = todo /\ \E l : pc' = [pc EXCEPT ![p] = l]
    BY <1>2 DEF CheckFull, Get, Evict, Drain, Construct, ConstructFails, ClearGet, ClearTimeout,
                Again, Stop, Goto
  <2> QED BY <2>1 DEF TypeInv, TypeOK
<1>3. CASE \/ \E n \in DOMAIN PublishQueues[p] : Publish(p, n)
           \/ \E n \in DOMAIN ConsumeQueues[p] : Consume(p, n)
           \/ Put(p) \/ Leave(p)
  <2>1. (\E s : todo' = [todo EXCEPT ![p] = s]) /\ \E l : pc' = [pc EXCEPT ![p] = l]
    BY <1>3 DEF Publish, Consume, Put, Leave, Goto, SetTodo
  <2> QED BY <2>1 DEF TypeInv, TypeOK
<1>4. CASE ClearNext(p) \/ ClearCheck(p)
  <2>1. /\ todo' = todo \/ \E s : todo' = [todo EXCEPT ![p] = s]
        /\ pc' = pc \/ \E l : pc' = [pc EXCEPT ![p] = l]
    BY <1>4 DEF ClearNext, ClearCheck, Goto, SetTodo
  <2> QED BY <2>1 DEF TypeInv, TypeOK
<1> QED BY <1>1, <1>2, <1>3, <1>4 DEF Step, PublishStep, ConsumeStep, CycleStep

LEMMA ReaderStep ==
  ASSUME TypeInv, ReaderHeld, NEW p \in Process, Step(p)
  PROVE  ReaderHeld'
<1>1. \A r \in Process \ {p} : pc'[r] = pc[r] /\ todo'[r] = todo[r]
  BY OthersStay
<1>2. CASE \/ \E n \in DOMAIN PublishQueues[p] : Publish(p, n)
           \/ \E n \in DOMAIN ConsumeQueues[p] : Consume(p, n)
           \/ CheckFull(p) \/ Put(p) \/ Drain(p) \/ Construct(p) \/ ConstructFails(p)
           \/ Leave(p) \/ ClearNext(p) \/ ClearCheck(p) \/ Again(p)
  <2>1. pc[p] \notin Getting \cup {"killed"} /\ reader' = reader
    BY <1>2 DEF Publish, Consume, CheckFull, Put, Drain, Construct, ConstructFails, Leave, ClearNext,
                ClearCheck, Again, queueVars, QueuePut, Getting
  <2>2. \A q \in Queue : reader'[q] # p
    BY <2>1, NoLockOutside
  <2> QED BY <1>1, <2>1, <2>2, ReaderStays
<1>3. CASE Stop(p)
  <2>1. reader' = reader /\ pc'[p] = "killed"
    BY <1>3 DEF Stop, Goto, queueVars, TypeInv, TypeOK
  <2> QED BY <1>1, <2>1, ReaderStays
<1>4. CASE \E q \in Queue : Feed(p, q)
  <2>1. reader' = reader /\ pc' = pc /\ todo' = todo
    BY <1>4 DEF Feed, QueueFeed, procVars
  <2> QED BY <1>1, <2>1, ReaderStays
<1>5. CASE Get(p) \/ Evict(p) \/ ClearGet(p) \/ ClearTimeout(p)
  <2>1. pc[p] \in Getting /\ todo[p] # <<>>
    BY <1>5 DEF Get, Evict, ClearGet, ClearTimeout, Getting, TypeInv, TodoOK
  <2>2. PICK c \in Queue : c = Current(p)
    BY <2>1, TailFacts DEF Current, TypeInv, TypeOK
  <2>3. \/ reader' = [reader EXCEPT ![c] = NoReader]
        \/ reader' = reader /\ reader[c] # p
    <3>1. CASE Get(p) \/ Evict(p) \/ ClearGet(p)
      BY <2>2, <3>1 DEF Get, Evict, ClearGet, Take, QueueReceive
    <3>2. CASE ClearTimeout(p)
      BY <2>2, <3>2 DEF ClearTimeout, QueueTimeout, TypeInv, TypeOK
    <3> QED BY <1>5, <3>1, <3>2
  <2>4. \A q \in Queue : reader'[q] = NoReader \/ reader'[q] = reader[q]
    BY <2>3 DEF TypeInv, TypeOK
  <2>5. ASSUME NEW q \in Queue PROVE reader'[q] # p
    <3>1. CASE q = c
      BY <2>3, <3>1, MpQueueAssumption DEF TypeInv, TypeOK
    <3>2. CASE q # c
      <4>1. reader[q] # p
        BY <2>1, <2>2, <3>2, NoOtherLock
      <4> QED BY <2>3, <3>2, <4>1 DEF TypeInv, TypeOK
    <3> QED BY <3>1, <3>2
  <2> QED BY <1>1, <2>4, <2>5, ReaderStays
<1>6. CASE Lock(p)
  <2>1. pc[p] \in Getting /\ todo[p] # <<>> /\ pc' = pc /\ todo' = todo
    BY <1>6 DEF Lock, procVars, Getting, TypeInv, TodoOK
  <2>2. PICK c \in Queue : c = Current(p)
    BY <2>1, TailFacts DEF Current, TypeInv, TypeOK
  <2>3. reader' = [reader EXCEPT ![c] = p]
    BY <1>6, <2>2 DEF Lock, QueueLock
  <2>4. HeldInGet(c, p)'
    BY <2>1, <2>2 DEF HeldInGet, Current
  <2>5. ASSUME NEW q \in Queue, NEW r \in Process, reader'[q] = r PROVE HeldInGet(q, r)'
    <3>1. CASE q = c
      <4>1. r = p
        BY <2>3, <2>5, <3>1 DEF TypeInv, TypeOK
      <4> QED BY <2>4, <3>1, <4>1
    <3>2. CASE q # c
      <4>1. HeldInGet(q, r)
        BY <2>3, <2>5, <3>2 DEF ReaderHeld, TypeInv, TypeOK
      <4> QED BY <2>1, <4>1 DEF HeldInGet, Current
    <3> QED BY <3>1, <3>2
  <2> QED BY <2>5 DEF ReaderHeld, HeldInGet, Current
<1> QED BY <1>2, <1>3, <1>4, <1>5, <1>6 DEF Step, PublishStep, ConsumeStep, CycleStep

\* Only terminate() leaves a queue locked: in every reachable state the holder of a
\* reader lock is inside get() of that queue or was terminated there.
THEOREM OnlyTerminateLeavesLock == Spec => []ReaderHeld
<1>1. Init => ReaderHeld
  BY MpQueueAssumption DEF Init, QueueInit, ReaderHeld
<1>2. TypeInv /\ ReaderHeld /\ [Next]_vars => ReaderHeld'
  <2>1. ASSUME TypeInv, ReaderHeld, Next PROVE ReaderHeld'
    BY <2>1, ReaderStep DEF Next
  <2>2. ASSUME ReaderHeld, UNCHANGED vars PROVE ReaderHeld'
    BY <2>2 DEF ReaderHeld, HeldInGet, Current, vars, queueVars, procVars
  <2> QED BY <2>1, <2>2
<1> QED BY <1>1, <1>2, TypeInit, TypeNext, PTL DEF Spec

-----------------------------------------------------------------------------
(* Order of delivery *)

FlowInv == FlowOrder /\ IdsBounded

LEMMA FlowOrderIsFlow ==
  FlowOrder <=> \A q \in Queue : Flow(taken[q], pipe[q], buffer[q])
BY DEF FlowOrder, Flow

LEMMA Elements ==
  ASSUME TypeInv, NEW q \in Queue
  PROVE  /\ \A i \in 1 .. Len(taken[q]) : taken[q][i] \in Message
         /\ \A i \in 1 .. Len(pipe[q]) : pipe[q][i] \in Message
         /\ \A i \in 1 .. Len(buffer[q]) : buffer[q][i] \in Message
BY DEF TypeInv, TypeOK

LEMMA FlowInit == Init => FlowInv
BY DEF Init, QueueInit, FlowInv, FlowOrder, IdsBounded, Ordered, Before

\* Steps that do not touch the messages and do not start a publish.
LEMMA FlowQuiet ==
  ASSUME FlowInv, UNCHANGED <<buffer, pipe, taken, sent>>,
         \A p \in Process, q \in Queue : Owes(p, q)' => Owes(p, q), TypeInv
  PROVE  FlowInv'
<1>1. FlowOrder'
  BY DEF FlowInv, FlowOrder
<1>2. \A m \in Message, q \in Queue : Settled(m, q) => Settled(m, q)'
  BY DEF Settled, Message
<1>3. IdsBounded'
  BY <1>2 DEF FlowInv, IdsBounded, TypeInv, TypeOK
<1> QED BY <1>1, <1>3 DEF FlowInv

LEMMA FlowPublish ==
  ASSUME FlowInv, TypeInv, NEW p \in Process, NEW n \in DOMAIN PublishQueues[p], Publish(p, n)
  PROVE  FlowInv'
<1>1. UNCHANGED <<buffer, pipe, taken>> /\ sent' = [sent EXCEPT ![p] = Append(@, n)]
  BY DEF Publish, queueVars
<1>2. FlowOrder'
  BY <1>1 DEF FlowInv, FlowOrder
<1>3. \A m \in Message, q \in Queue : Settled(m, q) => Settled(m, q)'
  <2> SUFFICES ASSUME NEW m \in Message, NEW q \in Queue, Settled(m, q)
               PROVE  Settled(m, q)'
    OBVIOUS
  <2>1. m.by \in Process /\ m.id \in Nat
    BY DEF Message
  <2>2. CASE m.by = p
    <3>1. Len(sent'[p]) = Len(sent[p]) + 1 /\ Len(sent[p]) \in Nat
      BY <1>1 DEF TypeInv, TypeOK
    <3>2. m.id <= Len(sent[p])
      BY <2>2 DEF Settled
    <3>3. m.id < Len(sent'[p])
      BY <2>1, <3>1, <3>2
    <3> QED BY <2>1, <2>2, <3>1, <3>3 DEF Settled
  <2>3. CASE m.by # p
    <3>1. sent'[m.by] = sent[m.by]
      BY <1>1, <2>1, <2>3 DEF TypeInv, TypeOK
    <3>2. pc'[m.by] = pc[m.by] /\ todo'[m.by] = todo[m.by]
      BY <2>1, <2>3 DEF Publish, Goto, SetTodo, TypeInv, TypeOK
    <3> QED BY <3>1, <3>2 DEF Settled, Owes
  <2> QED BY <2>2, <2>3
<1>4. IdsBounded'
  BY <1>1, <1>3 DEF FlowInv, IdsBounded, TypeInv, TypeOK
<1> QED BY <1>2, <1>4 DEF FlowInv

LEMMA FlowOnPut ==
  ASSUME FlowInv, TypeInv, NEW p \in Process, Put(p)
  PROVE  FlowInv'
<1>1. todo[p] \in Seq(Queue) /\ todo[p] # <<>> /\ pc[p] \in Publishing
  BY DEF TypeInv, TypeOK, TodoOK, Put, Publishing
<1>2. PICK q \in Queue : q = Current(p)
  BY <1>1, TailFacts DEF Current
<1>3. PICK m \in Message : m = [by |-> p, id |-> Len(sent[p])]
  <2>1. Len(sent[p]) \in Nat
    BY DEF TypeInv, TypeOK
  <2>2. [by |-> p, id |-> Len(sent[p])] \in Message
    BY <2>1 DEF Message
  <2> QED BY <2>2
<1>4. /\ buffer' = [buffer EXCEPT ![q] = Append(@, m)]
      /\ todo' = [todo EXCEPT ![p] = Tail(todo[p])]
      /\ pc' = [pc EXCEPT ![p] = IF Tail(todo[p]) = <<>> THEN "run" ELSE "publish"]
      /\ UNCHANGED <<pipe, sent, taken>>
  BY <1>2, <1>3 DEF Put, QueuePut, SetTodo, Goto
<1>5. /\ todo[p][1] = q
      /\ \A i \in 1 .. Len(Tail(todo[p])) : Tail(todo[p])[i] # q
  BY <1>1, <1>2, TailFacts DEF Current, TypeInv, TodoOK
<1>6. Owes(p, q)
  BY <1>1, <1>5, TailFacts DEF Owes, ToSet
<1>7. \A k \in Message : Settled(k, q) => Older(k, m)
  BY <1>3, <1>6 DEF Settled, Older, Message
<1>8. FlowOrder'
  <2> SUFFICES ASSUME NEW r \in Queue PROVE Flow(taken'[r], pipe'[r], buffer'[r])
    BY DEF FlowOrder, Flow
  <2>1. /\ taken[r] \in Seq(Message) /\ pipe[r] \in Seq(Message)
        /\ buffer[r] \in Seq(Message) /\ Flow(taken[r], pipe[r], buffer[r])
    BY FlowOrderIsFlow DEF TypeInv, TypeOK, FlowInv
  <2>2. CASE r = q
    <3>1. /\ \A i \in 1 .. Len(taken[q]) : Older(taken[q][i], m)
          /\ \A i \in 1 .. Len(pipe[q]) : Older(pipe[q][i], m)
          /\ \A i \in 1 .. Len(buffer[q]) : Older(buffer[q][i], m)
      BY <1>7, Elements DEF FlowInv, IdsBounded
    <3>2. buffer'[q] = Append(buffer[q], m)
      BY <1>4 DEF TypeInv, TypeOK
    <3> QED BY <1>4, <2>1, <2>2, <3>1, <3>2, FlowPut
  <2>3. CASE r # q
    BY <1>4, <2>1, <2>3 DEF TypeInv, TypeOK
  <2> QED BY <2>2, <2>3
<1>9. \A r \in Process, s \in Queue : Owes(r, s)' => Owes(r, s) /\ <<r, s>> # <<p, q>>
  <2> SUFFICES ASSUME NEW r \in Process, NEW s \in Queue, Owes(r, s)'
               PROVE  Owes(r, s) /\ <<r, s>> # <<p, q>>
    OBVIOUS
  <2>1. CASE r # p
    BY <1>4, <2>1 DEF Owes, TypeInv, TypeOK
  <2>2. CASE r = p
    <3>1. todo'[p] = Tail(todo[p])
      BY <1>4 DEF TypeInv, TypeOK
    <3>2. PICK i \in 1 .. Len(Tail(todo[p])) : Tail(todo[p])[i] = s
      BY <1>1, <2>2, <3>1, TailFacts DEF Owes, ToSet
    <3>3. i + 1 \in 1 .. Len(todo[p]) /\ todo[p][i + 1] = s
      BY <1>1, <3>2, TailFacts
    <3> QED BY <1>1, <1>5, <2>2, <3>2, <3>3 DEF Owes, ToSet
  <2> QED BY <2>1, <2>2
<1>10. \A k \in Message, r \in Queue : Settled(k, r) => Settled(k, r)'
  <2>1. \A k \in Message : k.by \in Process
    BY DEF Message
  <2> QED BY <1>4, <1>9, <2>1 DEF Settled
<1>11. Settled(m, q)'
  <2>1. m.by = p /\ m.id = Len(sent[p]) /\ Len(sent[p]) \in Nat
    BY <1>3 DEF TypeInv, TypeOK
  <2> QED BY <1>4, <1>9, <2>1 DEF Settled
<1>12. IdsBounded'
  <2>4. ASSUME NEW r \in Queue
        PROVE  /\ \A i \in 1 .. Len(taken'[r]) : Settled(taken[r][i], r)'
               /\ \A i \in 1 .. Len(pipe'[r]) : Settled(pipe[r][i], r)'
    <3>1. taken[r] \in Seq(Message) /\ pipe[r] \in Seq(Message) /\ taken' = taken /\ pipe' = pipe
      BY <1>4 DEF TypeInv, TypeOK
    <3>2. ASSUME NEW i \in 1 .. Len(taken[r]) PROVE Settled(taken[r][i], r)'
      <4>1. PICK k \in Message : k = taken[r][i] /\ Settled(k, r)
        BY <3>1, Elements DEF FlowInv, IdsBounded
      <4>2. Settled(k, r)'
        BY <1>10, <4>1
      <4> QED BY <3>1, <4>1, <4>2 DEF Settled
    <3>3. ASSUME NEW i \in 1 .. Len(pipe[r]) PROVE Settled(pipe[r][i], r)'
      <4>1. PICK k \in Message : k = pipe[r][i] /\ Settled(k, r)
        BY <3>1, Elements DEF FlowInv, IdsBounded
      <4>2. Settled(k, r)'
        BY <1>10, <4>1
      <4> QED BY <3>1, <4>1, <4>2 DEF Settled
    <3> QED BY <3>1, <3>2, <3>3
  <2> SUFFICES ASSUME NEW r \in Queue, NEW i \in 1 .. Len(buffer'[r])
               PROVE  Settled(buffer[r][i], r)'
    BY <2>4 DEF IdsBounded
  <2>1. buffer[r] \in Seq(Message) /\ \A j \in 1 .. Len(buffer[r]) : Settled(buffer[r][j], r)
    BY DEF TypeInv, TypeOK, FlowInv, IdsBounded
  <2>2. CASE r = q
    <3>1. buffer'[q] = Append(buffer[q], m)
      BY <1>4 DEF TypeInv, TypeOK
    <3>2. buffer'[r][i] = m \/ (i \in 1 .. Len(buffer[r]) /\ buffer'[r][i] = buffer[r][i])
      BY <2>1, <2>2, <3>1, AppendFacts
    <3>3. CASE buffer'[r][i] = m
      BY <1>11, <2>2, <3>3 DEF Settled
    <3>4. CASE i \in 1 .. Len(buffer[r]) /\ buffer'[r][i] = buffer[r][i]
      <4>1. buffer[r][i] \in Message /\ Settled(buffer[r][i], r)
        BY <2>1, <3>4, Elements
      <4>2. PICK k \in Message : k = buffer[r][i] /\ k = buffer'[r][i]
        BY <3>4, <4>1
      <4>3. Settled(k, r)'
        BY <1>10, <4>1, <4>2
      <4> QED BY <4>2, <4>3 DEF Settled
    <3> QED BY <3>2, <3>3, <3>4
  <2>3. CASE r # q
    <3>1. buffer'[r] = buffer[r]
      BY <1>4, <2>3 DEF TypeInv, TypeOK
    <3>2. i \in 1 .. Len(buffer[r]) /\ buffer[r][i] \in Message
      BY <3>1, Elements
    <3> QED BY <1>10, <2>1, <3>1, <3>2 DEF Settled
  <2> QED BY <2>2, <2>3
<1> QED BY <1>8, <1>12 DEF FlowInv

LEMMA FlowOnTake ==
  ASSUME FlowInv, TypeInv, NEW p \in Process, pc[p] \in Getting, Take(p),
         UNCHANGED <<todo, sent>>, \A r \in Process : pc'[r] \in Publishing => pc[r] \in Publishing
  PROVE  FlowInv'
<1>1. PICK q \in Queue : q = Current(p)
  BY TailFacts DEF TypeInv, TypeOK, TodoOK, Getting, Current
<1>2. /\ pipe' = [pipe EXCEPT ![q] = Tail(@)]
      /\ taken' = [taken EXCEPT ![q] = Append(@, Head(pipe[q]))]
      /\ UNCHANGED buffer
      /\ pipe[q] # <<>>
  BY <1>1 DEF Take, QueueReceive, Empty
<1>3. /\ pipe[q] \in Seq(Message) /\ taken[q] \in Seq(Message)
      /\ pipe'[q] = Tail(pipe[q]) /\ taken'[q] = Append(taken[q], Head(pipe[q]))
  BY <1>2 DEF TypeInv, TypeOK
<1>4. \A r \in Queue : r # q => pipe'[r] = pipe[r] /\ taken'[r] = taken[r]
  BY <1>2 DEF TypeInv, TypeOK
<1>5. FlowOrder'
  <2> SUFFICES ASSUME NEW r \in Queue PROVE Flow(taken'[r], pipe'[r], buffer'[r])
    BY DEF FlowOrder, Flow
  <2>1. /\ taken[r] \in Seq(Message) /\ pipe[r] \in Seq(Message)
        /\ buffer[r] \in Seq(Message) /\ Flow(taken[r], pipe[r], buffer[r])
    BY FlowOrderIsFlow DEF TypeInv, TypeOK, FlowInv
  <2>2. CASE r = q
    BY <1>2, <1>3, <2>1, <2>2, FlowTake
  <2>3. CASE r # q
    BY <1>2, <1>4, <2>1, <2>3
  <2> QED BY <2>2, <2>3
<1>6. \A m \in Message, r \in Queue : Settled(m, r) => Settled(m, r)'
  BY DEF Settled, Owes, Message
<1>7. IdsBounded'
  <2> SUFFICES ASSUME NEW r \in Queue
      PROVE  (/\ \A i \in 1 .. Len(taken[r]) : Settled(taken[r][i], r)
              /\ \A i \in 1 .. Len(pipe[r]) : Settled(pipe[r][i], r)
              /\ \A i \in 1 .. Len(buffer[r]) : Settled(buffer[r][i], r))'
    BY DEF IdsBounded
  <2>1. /\ \A i \in 1 .. Len(taken[r]) : Settled(taken[r][i], r)
        /\ \A i \in 1 .. Len(pipe[r]) : Settled(pipe[r][i], r)
        /\ \A i \in 1 .. Len(buffer[r]) : Settled(buffer[r][i], r)
    BY DEF FlowInv, IdsBounded
  <2>2. \A i \in 1 .. Len(buffer'[r]) :
          \E j \in 1 .. Len(buffer[r]) : buffer'[r][i] = buffer[r][j]
    BY <1>2
  <2>3. \A i \in 1 .. Len(pipe'[r]) : \E j \in 1 .. Len(pipe[r]) : pipe'[r][i] = pipe[r][j]
    <3>1. CASE r = q
      BY <1>2, <1>3, <3>1, TailFacts
    <3>2. CASE r # q
      BY <1>4, <3>2
    <3> QED BY <3>1, <3>2
  <2>4. \A i \in 1 .. Len(taken'[r]) :
          \/ \E j \in 1 .. Len(taken[r]) : taken'[r][i] = taken[r][j]
          \/ \E j \in 1 .. Len(pipe[r]) : taken'[r][i] = pipe[r][j]
    <3>1. CASE r = q
      <4>1. Head(pipe[q]) \in Message /\ Head(pipe[q]) = pipe[q][1] /\ 1 \in 1 .. Len(pipe[q])
        BY <1>2, <1>3, TailFacts
      <4>2. \A i \in 1 .. Len(taken'[q]) :
              \/ taken'[q][i] = pipe[q][1]
              \/ \E j \in 1 .. Len(taken[q]) : taken'[q][i] = taken[q][j]
        BY <1>3, <4>1, AppendedTo
      <4> QED BY <3>1, <4>1, <4>2
    <3>2. CASE r # q
      BY <1>4, <3>2
    <3> QED BY <3>1, <3>2
  <2>5. \A i \in 1 .. Len(buffer'[r]) : Settled(buffer[r][i], r)'
    BY <1>6, <2>1, <2>2, Elements DEF Settled
  <2>6. \A i \in 1 .. Len(pipe'[r]) : Settled(pipe[r][i], r)'
    BY <1>6, <2>1, <2>3, Elements DEF Settled
  <2>7. \A i \in 1 .. Len(taken'[r]) : Settled(taken[r][i], r)'
    BY <1>6, <2>1, <2>4, Elements DEF Settled
  <2> QED BY <2>5, <2>6, <2>7
<1> QED BY <1>5, <1>7 DEF FlowInv

LEMMA FlowOnFeed ==
  ASSUME FlowInv, TypeInv, NEW p \in Process, NEW q \in Queue, Feed(p, q)
  PROVE  FlowInv'
<1>1. PICK n \in 1 .. Len(buffer[q]) : QueueFeed(q, n)
  BY DEF Feed
<1>2. /\ pipe' = [pipe EXCEPT ![q] = Append(@, buffer[q][n])]
      /\ buffer' = [buffer EXCEPT ![q] = RemoveAt(@, n)]
      /\ UNCHANGED <<pc, todo, sent, taken>>
      /\ \A j \in 1 .. (n - 1) : buffer[q][j].by # buffer[q][n].by
  BY <1>1 DEF QueueFeed, Feed, procVars
<1>3. /\ pipe[q] \in Seq(Message) /\ buffer[q] \in Seq(Message)
      /\ pipe'[q] = Append(pipe[q], buffer[q][n])
      /\ buffer'[q] = RemoveAt(buffer[q], n)
      /\ buffer[q][n] \in Message
  BY <1>2 DEF TypeInv, TypeOK
<1>4. \A r \in Queue : r # q => pipe'[r] = pipe[r] /\ buffer'[r] = buffer[r]
  BY <1>2 DEF TypeInv, TypeOK
<1>5. FlowOrder'
  <2> SUFFICES ASSUME NEW r \in Queue PROVE Flow(taken'[r], pipe'[r], buffer'[r])
    BY DEF FlowOrder, Flow
  <2>1. /\ taken[r] \in Seq(Message) /\ pipe[r] \in Seq(Message)
        /\ buffer[r] \in Seq(Message) /\ Flow(taken[r], pipe[r], buffer[r])
    BY FlowOrderIsFlow DEF TypeInv, TypeOK, FlowInv
  <2>2. CASE r = q
    <3>1. /\ taken[q] \in Seq(Message) /\ Flow(taken[q], pipe[q], buffer[q])
          /\ taken'[q] = taken[q]
      BY <1>2, <2>1, <2>2
    <3>2. Flow(taken[q], Append(pipe[q], buffer[q][n]), RemoveAt(buffer[q], n))
      BY <1>2, <1>3, <3>1, FlowFeed
    <3> QED BY <1>3, <2>2, <3>1, <3>2
  <2>3. CASE r # q
    BY <1>2, <1>4, <2>1, <2>3
  <2> QED BY <2>2, <2>3
<1>6. \A m \in Message, r \in Queue : Settled(m, r) => Settled(m, r)'
  BY <1>2 DEF Settled, Owes
<1>7. IdsBounded'
  <2> SUFFICES ASSUME NEW r \in Queue
      PROVE  (/\ \A i \in 1 .. Len(taken[r]) : Settled(taken[r][i], r)
              /\ \A i \in 1 .. Len(pipe[r]) : Settled(pipe[r][i], r)
              /\ \A i \in 1 .. Len(buffer[r]) : Settled(buffer[r][i], r))'
    BY DEF IdsBounded
  <2>1. /\ \A i \in 1 .. Len(taken[r]) : Settled(taken[r][i], r)
        /\ \A i \in 1 .. Len(pipe[r]) : Settled(pipe[r][i], r)
        /\ \A i \in 1 .. Len(buffer[r]) : Settled(buffer[r][i], r)
    BY DEF FlowInv, IdsBounded
  <2>2. \A i \in 1 .. Len(buffer'[r]) :
          \E j \in 1 .. Len(buffer[r]) : buffer'[r][i] = buffer[r][j]
    <3>1. CASE r = q
      <4>1. n \in 1 .. Len(buffer[q])
        OBVIOUS
      <4>2. \A i \in 1 .. Len(RemoveAt(buffer[q], n)) :
              \E j \in 1 .. Len(buffer[q]) : RemoveAt(buffer[q], n)[i] = buffer[q][j]
        BY <1>3, <4>1, RemovedFrom
      <4> QED BY <1>3, <3>1, <4>2
    <3>2. CASE r # q
      BY <1>4, <3>2
    <3> QED BY <3>1, <3>2
  <2>3. \A i \in 1 .. Len(pipe'[r]) :
          \/ \E j \in 1 .. Len(pipe[r]) : pipe'[r][i] = pipe[r][j]
          \/ \E j \in 1 .. Len(buffer[r]) : pipe'[r][i] = buffer[r][j]
    <3>1. CASE r = q
      BY <1>3, <3>1, AppendedTo
    <3>2. CASE r # q
      BY <1>4, <3>2
    <3> QED BY <3>1, <3>2
  <2>4. \A i \in 1 .. Len(taken'[r]) : \E j \in 1 .. Len(taken[r]) : taken'[r][i] = taken[r][j]
    BY <1>2
  <2>5. \A i \in 1 .. Len(buffer'[r]) : Settled(buffer[r][i], r)'
    BY <1>6, <2>1, <2>2, Elements DEF Settled
  <2>6. \A i \in 1 .. Len(pipe'[r]) : Settled(pipe[r][i], r)'
    BY <1>6, <2>1, <2>3, Elements DEF Settled
  <2>7. \A i \in 1 .. Len(taken'[r]) : Settled(taken[r][i], r)'
    BY <1>6, <2>1, <2>4, Elements DEF Settled
  <2> QED BY <2>5, <2>6, <2>7
<1> QED BY <1>5, <1>7 DEF FlowInv

\* Every step keeps the order.
LEMMA FlowNext == TypeInv /\ FlowInv /\ [Next]_vars => FlowInv'
<1> SUFFICES ASSUME TypeInv, FlowInv, [Next]_vars PROVE FlowInv'
  OBVIOUS
<1>1. ASSUME NEW p \in Process, Step(p) PROVE FlowInv'
  <2>1. CASE \E n \in DOMAIN PublishQueues[p] : Publish(p, n)
    BY <2>1, FlowPublish
  <2>2. CASE Put(p)
    BY <2>2, FlowOnPut
  <2>3. CASE \E q \in Queue : Feed(p, q)
    BY <2>3, FlowOnFeed
  <2>4. CASE Get(p) \/ Evict(p) \/ ClearGet(p)
    <3>1. Take(p) /\ UNCHANGED <<todo, sent>> /\ pc[p] \in Getting
      BY <2>4 DEF Get, Evict, ClearGet, Getting
    <3>2. \A r \in Process : pc'[r] \in Publishing => pc[r] \in Publishing
      BY <2>4 DEF Get, Evict, ClearGet, Goto, Publishing, TypeInv, TypeOK
    <3> QED BY <3>1, <3>2, FlowOnTake
  <2>5. CASE \/ \E n \in DOMAIN ConsumeQueues[p] : Consume(p, n)
             \/ CheckFull(p) \/ Drain(p) \/ Lock(p) \/ ClearTimeout(p)
             \/ Construct(p) \/ ConstructFails(p) \/ Leave(p) \/ ClearNext(p)
             \/ ClearCheck(p) \/ Again(p) \/ Stop(p)
    <3>1. UNCHANGED <<buffer, pipe, taken, sent>>
      BY <2>5 DEF Consume, CheckFull, Drain, Lock, QueueLock, ClearTimeout, QueueTimeout,
                  Construct, ConstructFails, Leave, ClearNext, ClearCheck, Again, Stop,
                  queueVars, procVars
    <3>2. \A r \in Process : /\ pc'[r] \in Publishing => pc[r] \in Publishing
                             /\ pc'[r] \in Publishing => todo'[r] = todo[r]
      BY <2>5 DEF Consume, CheckFull, Drain, Lock, ClearTimeout, Construct, ConstructFails,
                  Leave, ClearNext, ClearCheck, Again, Stop, procVars, Goto, SetTodo,
                  Publishing, TypeInv, TypeOK
    <3> QED BY <3>1, <3>2, FlowQuiet DEF Owes
  <2> QED BY <1>1, <2>1, <2>2, <2>3, <2>4, <2>5 DEF Step, PublishStep, ConsumeStep, CycleStep
<1>2. CASE UNCHANGED vars
  <2>1. UNCHANGED <<buffer, pipe, taken, sent, pc, todo>>
    BY <1>2 DEF vars, queueVars, procVars
  <2> QED BY <2>1, FlowQuiet DEF Owes
<1> QED BY <1>1, <1>2 DEF Next

\* The inductive invariant the runs check on small projects holds in all.
THEOREM OrderInvariant == Spec => []OrderInv
<1>1. Init => TypeInv /\ FlowInv
  BY TypeInit, FlowInit
<1>2. (TypeInv /\ FlowInv) /\ [Next]_vars => (TypeInv /\ FlowInv)'
  BY TypeNext, FlowNext
<1>3. Spec => [](TypeInv /\ FlowInv)
  BY <1>1, <1>2, PTL DEF Spec
<1>4. TypeInv /\ FlowInv => OrderInv
  BY DEF TypeInv, FlowInv, OrderInv
<1> QED BY <1>3, <1>4, PTL

\* For any wiring, any sizes, any mix of publishers, evictions, clearings,
\* restarts and terminations: what is taken from a queue is taken in the order
\* its publisher published it, nothing twice.
THEOREM InOrder == Spec => []DeliveryOrder
<1>1. OrderInv => DeliveryOrder
  BY DEF OrderInv, FlowOrder, DeliveryOrder
<1> QED BY <1>1, OrderInvariant, PTL

-----------------------------------------------------------------------------
(* What reaches which queue *)

Recipients(p, i) == ToSet(PublishQueues[p][sent[p][i]])

Reached(p, i, q) ==
  \/ [by |-> p, id |-> i] \in Seen(q)
  \/ /\ i = Len(sent[p])
     /\ pc[p] \in Publishing \cup {"killed"}
     /\ q \in ToSet(todo[p])

Legal(m, q) == m.id \in 1 .. Len(sent[m.by]) /\ q \in Recipients(m.by, m.id)

\* The inductive invariant: besides the two properties, names are published to
\* as they are bound, and a running publish owes its message only to queues of
\* the name it was called with.
Named == \A p \in Process : \A i \in 1 .. Len(sent[p]) : sent[p][i] \in DOMAIN PublishQueues[p]

OwedToRecipients ==
  \A p \in Process : pc[p] \in Publishing =>
    /\ sent[p] # <<>>
    /\ \A q \in ToSet(todo[p]) : q \in Recipients(p, Len(sent[p]))

AllLegal == \A q \in Queue : \A m \in Seen(q) : Legal(m, q)

AllReached ==
  \A p \in Process : \A i \in 1 .. Len(sent[p]) : \A q \in Queue :
    q \in Recipients(p, i) => Reached(p, i, q)

SpreadInv == Named /\ OwedToRecipients /\ AllLegal /\ AllReached

LEMMA SpreadInit == Init => SpreadInv
<1> SUFFICES ASSUME Init PROVE SpreadInv
  OBVIOUS
<1>1. \A q \in Queue : taken[q] = <<>> /\ pipe[q] = <<>> /\ buffer[q] = <<>>
  BY DEF Init, QueueInit
<1>2. ToSet(<<>>) = {}
  BY DEF ToSet
<1>3. \A q \in Queue : Seen(q) = {}
  BY <1>1, <1>2 DEF Seen
<1>4. \A p \in Process : sent[p] = <<>> /\ pc[p] \notin Publishing
  BY DEF Init, Publishing
<1> QED BY <1>3, <1>4 DEF SpreadInv, Named, OwedToRecipients, AllLegal, AllReached

LEMMA SeenMessages ==
  ASSUME TypeInv, NEW q \in Queue
  PROVE  Seen(q) \subseteq Message
BY Elements, LenProperties DEF Seen, ToSet, TypeInv, TypeOK

\* Steps that publish nothing and put nothing.
LEMMA SpreadQuiet ==
  ASSUME SpreadInv, UNCHANGED sent, \A q \in Queue : Seen(q)' = Seen(q),
         \A p \in Process : pc'[p] \in Publishing => pc[p] \in Publishing /\ todo'[p] = todo[p],
         \A p \in Process : pc[p] \in Publishing \cup {"killed"} =>
                              pc'[p] \in Publishing \cup {"killed"} /\ todo'[p] = todo[p]
  PROVE  SpreadInv'
<1>1. Named'
  BY DEF SpreadInv, Named
<1>2. OwedToRecipients'
  BY DEF SpreadInv, OwedToRecipients, Recipients
<1>3. AllLegal'
  BY DEF SpreadInv, AllLegal, Legal, Recipients
<1>4. AllReached'
  BY DEF SpreadInv, AllReached, Reached, Recipients
<1> QED BY <1>1, <1>2, <1>3, <1>4 DEF SpreadInv

\* get() and a feeder thread move a message, and it remains one of the queue's.
LEMMA SeenOnTake ==
  ASSUME TypeInv, NEW p \in Process, pc[p] \in Getting, Take(p), NEW q \in Queue
  PROVE  Seen(q)' = Seen(q)
<1>1. PICK c \in Queue : c = Current(p)
  BY TailFacts DEF TypeInv, TypeOK, TodoOK, Getting, Current
<1>2. /\ pipe' = [pipe EXCEPT ![c] = Tail(@)]
      /\ taken' = [taken EXCEPT ![c] = Append(@, Head(pipe[c]))]
      /\ buffer' = buffer
      /\ pipe[c] # <<>>
  BY <1>1 DEF Take, QueueReceive, Empty
<1>3. CASE q = c
  <2>1. /\ pipe[q] \in Seq(Message) /\ taken[q] \in Seq(Message) /\ pipe[q] # <<>>
        /\ pipe'[q] = Tail(pipe[q]) /\ taken'[q] = Append(taken[q], Head(pipe[q]))
    BY <1>2, <1>3 DEF TypeInv, TypeOK
  <2>2. Head(pipe[q]) \in Message
    BY <2>1, TailFacts
  <2>3. ToSet(taken'[q]) = ToSet(taken[q]) \cup {Head(pipe[q])}
    BY <2>1, <2>2, ToSetAppend
  <2>4. ToSet(pipe[q]) = {Head(pipe[q])} \cup ToSet(pipe'[q])
    BY <2>1, ToSetTail
  <2> QED BY <1>2, <2>3, <2>4 DEF Seen
<1>4. CASE q # c
  BY <1>2, <1>4 DEF Seen, TypeInv, TypeOK
<1> QED BY <1>3, <1>4

LEMMA SeenOnFeed ==
  ASSUME TypeInv, NEW p \in Process, NEW c \in Queue, Feed(p, c), NEW q \in Queue
  PROVE  Seen(q)' = Seen(q)
<1>1. PICK n \in 1 .. Len(buffer[c]) : QueueFeed(c, n)
  BY DEF Feed
<1>2. /\ pipe' = [pipe EXCEPT ![c] = Append(@, buffer[c][n])]
      /\ buffer' = [buffer EXCEPT ![c] = RemoveAt(@, n)]
      /\ taken' = taken
  BY <1>1 DEF QueueFeed, Feed, procVars
<1>3. CASE q = c
  <2>1. /\ pipe[q] \in Seq(Message) /\ buffer[q] \in Seq(Message)
        /\ pipe'[q] = Append(pipe[q], buffer[q][n])
        /\ buffer'[q] = RemoveAt(buffer[q], n)
        /\ buffer[q][n] \in Message /\ n \in 1 .. Len(buffer[q])
    BY <1>2, <1>3 DEF TypeInv, TypeOK
  <2>2. ToSet(pipe'[q]) = ToSet(pipe[q]) \cup {buffer[q][n]}
    BY <2>1, ToSetAppend
  <2>3. ToSet(buffer[q]) = {buffer[q][n]} \cup ToSet(buffer'[q])
    BY <2>1, ToSetRemove
  <2> QED BY <1>2, <2>2, <2>3 DEF Seen
<1>4. CASE q # c
  BY <1>2, <1>4 DEF Seen, TypeInv, TypeOK
<1> QED BY <1>3, <1>4

\* publish() owes its message to every queue of the name.
LEMMA SpreadPublish ==
  ASSUME SpreadInv, TypeInv, NEW p \in Process, NEW n \in DOMAIN PublishQueues[p], Publish(p, n)
  PROVE  SpreadInv'
<1>1. /\ UNCHANGED <<buffer, pipe, taken>>
      /\ sent' = [sent EXCEPT ![p] = Append(@, n)]
      /\ todo' = [todo EXCEPT ![p] = PublishQueues[p][n]]
      /\ pc' = [pc EXCEPT ![p] = "publish"]
      /\ pc[p] = "run"
  BY DEF Publish, queueVars, SetTodo, Goto
<1>2. /\ pc'[p] = "publish" /\ todo'[p] = PublishQueues[p][n]
      /\ \A r \in Process : r # p => /\ pc'[r] = pc[r] /\ todo'[r] = todo[r]
                                     /\ sent'[r] = sent[r]
  BY <1>1 DEF TypeInv, TypeOK
<1>3. sent[p] \in Seq(Names) /\ n \in Names /\ sent'[p] = Append(sent[p], n)
  <2>1. n \in Names
    BY DEF Names
  <2> QED BY <1>1, <2>1 DEF TypeInv, TypeOK
<1>4. /\ Len(sent[p]) \in Nat /\ Len(sent'[p]) = Len(sent[p]) + 1
      /\ \A i \in 1 .. Len(sent[p]) : sent'[p][i] = sent[p][i]
      /\ sent'[p][Len(sent'[p])] = n /\ sent'[p] # <<>>
  BY <1>3, AppendFacts
<1>5. \A r \in Process : \A i \in 1 .. Len(sent[r]) :
        i \in 1 .. Len(sent'[r]) /\ sent'[r][i] = sent[r][i]
  <2> SUFFICES ASSUME NEW r \in Process, NEW i \in 1 .. Len(sent[r])
               PROVE  i \in 1 .. Len(sent'[r]) /\ sent'[r][i] = sent[r][i]
    OBVIOUS
  <2>1. CASE r = p
    BY <1>4, <2>1
  <2>2. CASE r # p
    BY <1>2, <2>2
  <2> QED BY <2>1, <2>2
<1>6. \A q \in Queue : Seen(q)' = Seen(q)
  BY <1>1 DEF Seen
<1>7. Named'
  <2> SUFFICES ASSUME NEW r \in Process, NEW i \in 1 .. Len(sent'[r])
               PROVE  sent'[r][i] \in DOMAIN PublishQueues[r]
    BY DEF Named
  <2>1. CASE i \in 1 .. Len(sent[r])
    BY <1>5, <2>1 DEF SpreadInv, Named
  <2>2. CASE i \notin 1 .. Len(sent[r])
    <3>1. r = p
      BY <1>2, <2>2
    <3>2. i = Len(sent'[p])
      BY <1>4, <2>2, <3>1
    <3> QED BY <1>4, <3>1, <3>2
  <2> QED BY <2>1, <2>2
<1>8. OwedToRecipients'
  <2> SUFFICES ASSUME NEW r \in Process, pc'[r] \in Publishing
               PROVE  /\ sent'[r] # <<>>
                      /\ \A q \in ToSet(todo'[r]) :
                           q \in ToSet(PublishQueues[r][sent'[r][Len(sent'[r])]])
    BY DEF OwedToRecipients, Recipients
  <2>1. CASE r = p
    BY <1>2, <1>4, <2>1
  <2>2. CASE r # p
    BY <1>2, <2>2 DEF SpreadInv, OwedToRecipients, Recipients
  <2> QED BY <2>1, <2>2
<1>9. AllLegal'
  <2> SUFFICES ASSUME NEW q \in Queue, NEW m \in Seen(q)
               PROVE  /\ m.id \in 1 .. Len(sent'[m.by])
                      /\ q \in ToSet(PublishQueues[m.by][sent'[m.by][m.id]])
    BY <1>6 DEF AllLegal, Legal, Recipients
  <2>1. m.by \in Process
    BY SeenMessages DEF Message
  <2> QED BY <1>5, <2>1 DEF SpreadInv, AllLegal, Legal, Recipients
<1>10. AllReached'
  <2> SUFFICES ASSUME NEW r \in Process, NEW i \in 1 .. Len(sent'[r]), NEW q \in Queue,
                      q \in ToSet(PublishQueues[r][sent'[r][i]])
               PROVE  \/ [by |-> r, id |-> i] \in Seen(q)
                      \/ /\ i = Len(sent'[r])
                         /\ pc'[r] \in Publishing \cup {"killed"}
                         /\ q \in ToSet(todo'[r])
    BY <1>6 DEF AllReached, Reached, Recipients
  <2>1. CASE r # p
    BY <1>2, <2>1 DEF SpreadInv, AllReached, Reached, Recipients
  <2>2. CASE r = p /\ i \in 1 .. Len(sent[p])
    <3>1. pc[p] \notin Publishing \cup {"killed"}
      BY <1>1 DEF Publishing
    <3> QED BY <1>4, <2>2, <3>1 DEF SpreadInv, AllReached, Reached, Recipients
  <2>3. CASE r = p /\ i \notin 1 .. Len(sent[p])
    <3>1. i = Len(sent'[p])
      BY <1>4, <2>3
    <3> QED BY <1>2, <1>4, <2>3, <3>1 DEF Publishing
  <2> QED BY <2>1, <2>2, <2>3
<1> QED BY <1>7, <1>8, <1>9, <1>10 DEF SpreadInv

\* put() pays the message to the queue at the head of the list.
LEMMA SpreadPut ==
  ASSUME SpreadInv, TypeInv, NEW p \in Process, Put(p)
  PROVE  SpreadInv'
<1>1. todo[p] \in Seq(Queue) /\ todo[p] # <<>> /\ pc[p] \in Publishing
  BY DEF TypeInv, TypeOK, TodoOK, Put, Publishing
<1>2. PICK c \in Queue : c = Current(p)
  BY <1>1, TailFacts DEF Current
<1>3. PICK m \in Message : m = [by |-> p, id |-> Len(sent[p])]
  <2>1. Len(sent[p]) \in Nat
    BY DEF TypeInv, TypeOK
  <2>2. [by |-> p, id |-> Len(sent[p])] \in Message
    BY <2>1 DEF Message
  <2> QED BY <2>2
<1>4. /\ buffer' = [buffer EXCEPT ![c] = Append(@, m)]
      /\ todo' = [todo EXCEPT ![p] = Tail(todo[p])]
      /\ pc' = [pc EXCEPT ![p] = IF Tail(todo[p]) = <<>> THEN "run" ELSE "publish"]
      /\ UNCHANGED <<pipe, sent, taken>>
  BY <1>2, <1>3 DEF Put, QueuePut, SetTodo, Goto
<1>5. /\ todo'[p] = Tail(todo[p])
      /\ pc'[p] \in Publishing \/ Tail(todo[p]) = <<>>
      /\ \A r \in Process : r # p => pc'[r] = pc[r] /\ todo'[r] = todo[r]
  BY <1>4 DEF TypeInv, TypeOK, Publishing
<1>6. /\ ToSet(todo[p]) = {c} \cup ToSet(Tail(todo[p]))
      /\ Tail(todo[p]) = <<>> => ToSet(Tail(todo[p])) = {}
  <2>1. ToSet(<<>>) = {}
    BY DEF ToSet
  <2> QED BY <1>1, <1>2, <2>1, ToSetTail DEF Current
<1>7. \A q \in Queue : Seen(q)' = IF q = c THEN Seen(q) \cup {m} ELSE Seen(q)
  <2> SUFFICES ASSUME NEW q \in Queue
               PROVE  Seen(q)' = IF q = c THEN Seen(q) \cup {m} ELSE Seen(q)
    OBVIOUS
  <2>1. CASE q = c
    <3>1. buffer[q] \in Seq(Message) /\ buffer'[q] = Append(buffer[q], m)
      BY <1>4, <2>1 DEF TypeInv, TypeOK
    <3>2. ToSet(buffer'[q]) = ToSet(buffer[q]) \cup {m}
      BY <3>1, ToSetAppend
    <3> QED BY <1>4, <2>1, <3>2 DEF Seen
  <2>2. CASE q # c
    BY <1>4, <2>2 DEF Seen, TypeInv, TypeOK
  <2> QED BY <2>1, <2>2
<1>8. /\ sent[p] # <<>>
      /\ \A q \in ToSet(todo[p]) : q \in Recipients(p, Len(sent[p]))
  BY <1>1 DEF SpreadInv, OwedToRecipients
<1>9. Len(sent[p]) \in 1 .. Len(sent[p])
  <2>1. sent[p] \in Seq(Names)
    BY DEF TypeInv, TypeOK
  <2> QED BY <1>8, <2>1, TailFacts
<1>10. Named'
  BY <1>4 DEF SpreadInv, Named
<1>11. OwedToRecipients'
  <2> SUFFICES ASSUME NEW r \in Process, pc'[r] \in Publishing
               PROVE  /\ sent[r] # <<>>
                      /\ \A q \in ToSet(todo'[r]) : q \in Recipients(r, Len(sent[r]))
    BY <1>4 DEF OwedToRecipients, Recipients
  <2>1. CASE r = p
    BY <1>5, <1>6, <1>8, <2>1
  <2>2. CASE r # p
    BY <1>5, <2>2 DEF SpreadInv, OwedToRecipients
  <2> QED BY <2>1, <2>2
<1>12. Legal(m, c)
  <2>1. m.by = p /\ m.id = Len(sent[p])
    BY <1>3
  <2> QED BY <1>6, <1>8, <1>9, <2>1 DEF Legal
<1>13. AllLegal'
  <2> SUFFICES ASSUME NEW q \in Queue, NEW k \in Seen(q)' PROVE Legal(k, q)
    BY <1>4 DEF AllLegal, Legal, Recipients
  <2> QED BY <1>7, <1>12 DEF SpreadInv, AllLegal
<1>14. AllReached'
  <2> SUFFICES ASSUME NEW r \in Process, NEW i \in 1 .. Len(sent[r]), NEW q \in Queue,
                      q \in Recipients(r, i)
               PROVE  \/ [by |-> r, id |-> i] \in Seen(q)'
                      \/ /\ i = Len(sent[r])
                         /\ pc'[r] \in Publishing \cup {"killed"}
                         /\ q \in ToSet(todo'[r])
    BY <1>4 DEF AllReached, Reached, Recipients
  <2>1. Reached(r, i, q)
    BY DEF SpreadInv, AllReached
  <2>2. CASE [by |-> r, id |-> i] \in Seen(q)
    BY <1>7, <2>2
  <2>3. CASE i = Len(sent[r]) /\ pc[r] \in Publishing \cup {"killed"} /\ q \in ToSet(todo[r])
    <3>1. CASE r # p
      BY <1>5, <2>3, <3>1
    <3>2. CASE r = p /\ q = c
      BY <1>3, <1>7, <2>3, <3>2
    <3>3. CASE r = p /\ q # c
      BY <1>5, <1>6, <2>3, <3>3
    <3> QED BY <3>1, <3>2, <3>3
  <2> QED BY <2>1, <2>2, <2>3 DEF Reached
<1> QED BY <1>10, <1>11, <1>13, <1>14 DEF SpreadInv

\* Every step keeps what each queue may and must have.
LEMMA SpreadNext == TypeInv /\ SpreadInv /\ [Next]_vars => SpreadInv'
<1> SUFFICES ASSUME TypeInv, SpreadInv, [Next]_vars PROVE SpreadInv'
  OBVIOUS
<1>1. ASSUME NEW p \in Process, Step(p) PROVE SpreadInv'
  <2>1. CASE \E n \in DOMAIN PublishQueues[p] : Publish(p, n)
    BY <2>1, SpreadPublish
  <2>2. CASE Put(p)
    BY <2>2, SpreadPut
  <2>3. CASE \E q \in Queue : Feed(p, q)
    <3>1. \A q \in Queue : Seen(q)' = Seen(q)
      BY <2>3, SeenOnFeed
    <3>2. UNCHANGED <<pc, todo, sent>>
      BY <2>3 DEF Feed, procVars
    <3> QED BY <3>1, <3>2, SpreadQuiet
  <2>4. CASE Get(p) \/ Evict(p) \/ ClearGet(p)
    <3>1. Take(p) /\ UNCHANGED <<todo, sent>> /\ pc[p] \in Getting
      BY <2>4 DEF Get, Evict, ClearGet, Getting
    <3>2. \A q \in Queue : Seen(q)' = Seen(q)
      BY <3>1, SeenOnTake
    <3>3. \A r \in Process :
            /\ pc'[r] \in Publishing => pc[r] \in Publishing
            /\ pc[r] \in Publishing \cup {"killed"} => pc'[r] \in Publishing \cup {"killed"}
      BY <2>4 DEF Get, Evict, ClearGet, Goto, Publishing, TypeInv, TypeOK
    <3> QED BY <3>1, <3>2, <3>3, SpreadQuiet
  <2>5. CASE \/ \E n \in DOMAIN ConsumeQueues[p] : Consume(p, n)
             \/ CheckFull(p) \/ Drain(p) \/ Lock(p) \/ ClearTimeout(p)
             \/ Construct(p) \/ ConstructFails(p) \/ Leave(p) \/ ClearNext(p)
             \/ ClearCheck(p) \/ Again(p) \/ Stop(p)
    <3>1. UNCHANGED <<buffer, pipe, taken, sent>>
      BY <2>5 DEF Consume, CheckFull, Drain, Lock, QueueLock, ClearTimeout, QueueTimeout,
                  Construct, ConstructFails, Leave, ClearNext, ClearCheck, Again, Stop,
                  queueVars, procVars
    <3>2. \A q \in Queue : Seen(q)' = Seen(q)
      BY <3>1 DEF Seen
    <3>3. \A r \in Process : /\ pc'[r] \in Publishing => pc[r] \in Publishing
                             /\ pc'[r] \in Publishing => todo'[r] = todo[r]
      BY <2>5 DEF Consume, CheckFull, Drain, Lock, ClearTimeout, Construct, ConstructFails,
                  Leave, ClearNext, ClearCheck, Again, Stop, procVars, Goto, SetTodo,
                  Publishing, TypeInv, TypeOK
    <3>4. \A r \in Process : pc[r] \in Publishing \cup {"killed"} =>
            pc'[r] \in Publishing \cup {"killed"} /\ todo'[r] = todo[r]
      BY <2>5 DEF Consume, CheckFull, Drain, Lock, ClearTimeout, Construct, ConstructFails,
                  Leave, ClearNext, ClearCheck, Again, Stop, procVars, Goto, SetTodo,
                  Publishing, TypeInv, TypeOK
    <3> QED BY <3>1, <3>2, <3>3, <3>4, SpreadQuiet
  <2> QED BY <1>1, <2>1, <2>2, <2>3, <2>4, <2>5 DEF Step, PublishStep, ConsumeStep, CycleStep
<1>2. CASE UNCHANGED vars
  <2>1. UNCHANGED <<buffer, pipe, taken, sent, pc, todo>>
    BY <1>2 DEF vars, queueVars, procVars
  <2>2. \A q \in Queue : Seen(q)' = Seen(q)
    BY <2>1 DEF Seen
  <2> QED BY <2>1, <2>2, SpreadQuiet
<1> QED BY <1>1, <1>2 DEF Next

LEMMA SpecSpread == Spec => []SpreadInv
<1>1. Init => TypeInv /\ SpreadInv
  BY TypeInit, SpreadInit
<1>2. (TypeInv /\ SpreadInv) /\ [Next]_vars => (TypeInv /\ SpreadInv)'
  BY TypeNext, SpreadNext
<1> QED BY <1>1, <1>2, PTL DEF Spec

\* For any wiring: no queue holds or delivers a message that was not published
\* under a name bound to it.
THEOREM NothingElse == Spec => []OnlyPublished
<1>1. SpreadInv => OnlyPublished
  BY DEF SpreadInv, AllLegal, Legal, Recipients, OnlyPublished
<1> QED BY <1>1, SpecSpread, PTL

\* For any wiring: what publish has passed on is in every queue of its name or
\* was taken from there, through overflow, restarts and terminated processes.
THEOREM CopyForEveryone == Spec => []EveryoneGetsACopy
<1>1. SpreadInv => EveryoneGetsACopy
  <2> SUFFICES ASSUME SpreadInv, NEW p \in Process, NEW i \in 1 .. Len(sent[p]),
                      NEW q \in ToSet(PublishQueues[p][sent[p][i]])
               PROVE  Reached(p, i, q)
    BY DEF EveryoneGetsACopy, Reached
  <2>1. PublishQueues[p][sent[p][i]] \in Seq(Queue)
    BY WiringFacts DEF SpreadInv, Named
  <2>2. q \in Queue
    BY <2>1, LenProperties DEF ToSet
  <2> QED BY <2>2 DEF SpreadInv, AllReached, Recipients
<1> QED BY <1>1, SpecSpread, PTL

-----------------------------------------------------------------------------
(* ProcessServices: types, and the samples of the stack monitors *)

\* Whoever prints reports what is counted until he has cleared it; the lock is the
\* monitor's exactly while it looks at the frames.
Sampled(l) ==
  /\ rounds[l] = printed[l] + counter[l]
  /\ lock[l] \in {"printer", "main"} => report[l] = counter[l]
  /\ lock[l] \in {"free", "monitor"} => report[l] = 0
  /\ at[l] = "frames" <=> lock[l] = "monitor"
  /\ at[l] # "check" => rounds[l] < MaxPolls

SampleInv == \A l \in Life : Sampled(l)

\* A monitor's part of the state.
LifeTyped(l) ==
  /\ at[l] \in {"check", "sleep", "frames"}
  /\ lock[l] \in {"free", "monitor", "printer", "main"}
  /\ counter[l] \in 0 .. MaxPolls /\ report[l] \in 0 .. MaxPolls
  /\ rounds[l] \in 0 .. MaxPolls /\ printed[l] \in 0 .. MaxPolls

LEMMA MonitorTyped == ASSUME MonitorTypeOK, NEW l \in Life PROVE LifeTyped(l)
BY DEF MonitorTypeOK, LifeTyped

LEMMA MonitorStart == MonitorInit => MonitorTypeOK /\ SampleInv
<1> SUFFICES ASSUME MonitorInit PROVE MonitorTypeOK /\ SampleInv
  OBVIOUS
<1>1. MaxPolls \in Nat /\ 0 \in 0 .. MaxPolls
  BY MonitorAssumption
<1>2. MonitorTypeOK
  BY <1>1 DEF MonitorInit, MonitorTypeOK
<1>3. SampleInv
  BY <1>1 DEF MonitorInit, SampleInv, Sampled
<1> QED BY <1>2, <1>3

\* A step that concerns one monitor keeps the others as they were.
LEMMA SampledOthers ==
  ASSUME NEW l \in Life, SampleInv, Sampled(l)',
         \A k \in Life \ {l} : /\ at'[k] = at[k] /\ lock'[k] = lock[k] /\ counter'[k] = counter[k]
                               /\ report'[k] = report[k] /\ rounds'[k] = rounds[k]
                               /\ printed'[k] = printed[k]
  PROVE  SampleInv'
<1>1. ASSUME NEW k \in Life, k # l PROVE Sampled(k)'
  BY <1>1 DEF SampleInv, Sampled
<1> QED BY <1>1 DEF SampleInv

LEMMA OnCheck ==
  ASSUME MonitorTypeOK, SampleInv, NEW l \in Life, Check(l)
  PROVE  MonitorTypeOK' /\ SampleInv'
<1>1. UNCHANGED <<lock, seen, counter, report, flagged, rounds, printed>> /\ at[l] = "check"
  BY DEF Check
<1>2. CASE Leaves(Monitor(l)) /\ UNCHANGED at
  BY <1>1, <1>2 DEF Leaves, MonitorTypeOK, SampleInv, Sampled
<1>3. CASE rounds[l] < MaxPolls /\ at' = [at EXCEPT ![l] = "sleep"] /\ UNCHANGED thread
  <2>1. MonitorTypeOK'
    BY <1>1, <1>3 DEF MonitorTypeOK
  <2>2. at'[l] = "sleep" /\ \A k \in Life \ {l} : at'[k] = at[k]
    BY <1>3 DEF MonitorTypeOK
  <2>3. Sampled(l)'
    BY <1>1, <1>3, <2>2 DEF SampleInv, Sampled
  <2>4. SampleInv'
    BY <1>1, <2>2, <2>3, SampledOthers
  <2> QED BY <2>1, <2>4
<1> QED BY <1>2, <1>3 DEF Check

LEMMA OnList ==
  ASSUME MonitorTypeOK, SampleInv, NEW l \in Life, List(l)
  PROVE  MonitorTypeOK' /\ SampleInv'
<1>1. /\ UNCHANGED <<thread, counter, report, flagged, rounds, printed>>
      /\ at[l] = "sleep" /\ lock[l] = "free"
      /\ lock' = [lock EXCEPT ![l] = "monitor"]
      /\ at' = [at EXCEPT ![l] = "frames"]
  BY DEF List
<1>2. seen' \in [Life -> SUBSET Threads]
  BY DEF List, MonitorTypeOK
<1>3. MonitorTypeOK'
  BY <1>1, <1>2 DEF MonitorTypeOK
<1>4. /\ at'[l] = "frames" /\ lock'[l] = "monitor"
      /\ \A k \in Life \ {l} : at'[k] = at[k] /\ lock'[k] = lock[k]
  BY <1>1 DEF MonitorTypeOK
<1>5. Sampled(l)'
  BY <1>1, <1>4 DEF SampleInv, Sampled
<1>6. SampleInv'
  BY <1>1, <1>4, <1>5, SampledOthers
<1> QED BY <1>3, <1>6

LEMMA OnSample ==
  ASSUME MonitorTypeOK, SampleInv, NEW l \in Life, Sample(l)
  PROVE  MonitorTypeOK' /\ SampleInv'
<1>1. /\ UNCHANGED <<thread, report, flagged, printed>>
      /\ at[l] = "frames"
      /\ counter' = [counter EXCEPT ![l] = counter[l] + 1]
      /\ rounds' = [rounds EXCEPT ![l] = rounds[l] + 1]
      /\ lock' = [lock EXCEPT ![l] = "free"]
      /\ at' = [at EXCEPT ![l] = "check"]
      /\ seen' = [seen EXCEPT ![l] = {}]
  BY DEF Sample
<1>2. LifeTyped(l) /\ Sampled(l) /\ MaxPolls \in Nat
  BY MonitorTyped, MonitorAssumption DEF SampleInv
<1>3. counter[l] + 1 \in 0 .. MaxPolls /\ rounds[l] + 1 \in 0 .. MaxPolls
  BY <1>1, <1>2 DEF LifeTyped, Sampled
<1>4. MonitorTypeOK'
  BY <1>1, <1>3 DEF MonitorTypeOK
<1>5. /\ counter'[l] = counter[l] + 1 /\ rounds'[l] = rounds[l] + 1 /\ lock'[l] = "free" /\ at'[l] = "check"
      /\ \A k \in Life \ {l} : /\ at'[k] = at[k] /\ lock'[k] = lock[k]
                               /\ counter'[k] = counter[k] /\ rounds'[k] = rounds[k]
  BY <1>1 DEF MonitorTypeOK
<1>6. Sampled(l)'
  BY <1>1, <1>2, <1>5 DEF LifeTyped, Sampled
<1>7. SampleInv'
  BY <1>1, <1>5, <1>6, SampledOthers
<1> QED BY <1>4, <1>7

LEMMA OnSampleFails ==
  ASSUME MonitorTypeOK, SampleInv, NEW l \in Life, SampleFails(l)
  PROVE  MonitorTypeOK' /\ SampleInv'
<1>1. /\ UNCHANGED <<counter, report, flagged, rounds, printed>>
      /\ at[l] = "frames" /\ Leaves(Monitor(l))
      /\ lock' = [lock EXCEPT ![l] = "free"]
      /\ at' = [at EXCEPT ![l] = "check"]
      /\ seen' = [seen EXCEPT ![l] = {}]
  BY DEF SampleFails
<1>2. MonitorTypeOK'
  BY <1>1 DEF MonitorTypeOK, Leaves
<1>3. /\ lock'[l] = "free" /\ at'[l] = "check"
      /\ \A k \in Life \ {l} : at'[k] = at[k] /\ lock'[k] = lock[k]
  BY <1>1 DEF MonitorTypeOK
<1>4. Sampled(l)'
  BY <1>1, <1>3 DEF SampleInv, Sampled
<1>5. SampleInv'
  BY <1>1, <1>3, <1>4, SampledOthers
<1> QED BY <1>2, <1>5

LEMMA OnPrintCounts ==
  ASSUME MonitorTypeOK, SampleInv, NEW l \in Life, NEW who \in {"printer", "main"}, PrintCounts(l, who),
         flagged' \in [Life -> {"no", "late", "yes"}]
  PROVE  MonitorTypeOK' /\ SampleInv'
<1>1. /\ UNCHANGED <<thread, at, seen, counter, rounds, printed>>
      /\ lock[l] = "free" /\ lock' = [lock EXCEPT ![l] = who]
      /\ report' = [report EXCEPT ![l] = counter[l]]
  BY DEF PrintCounts
<1>2. LifeTyped(l)
  BY MonitorTyped
<1>3. MonitorTypeOK'
  BY <1>1, <1>2 DEF MonitorTypeOK, LifeTyped
<1>4. /\ lock'[l] = who /\ report'[l] = counter[l]
      /\ \A k \in Life \ {l} : lock'[k] = lock[k] /\ report'[k] = report[k]
  BY <1>1 DEF MonitorTypeOK
<1>5. Sampled(l)'
  BY <1>1, <1>4 DEF SampleInv, Sampled
<1>6. SampleInv'
  BY <1>1, <1>4, <1>5, SampledOthers
<1> QED BY <1>3, <1>6

LEMMA OnClear ==
  ASSUME MonitorTypeOK, SampleInv, NEW l \in Life, NEW who \in {"printer", "main"}, Clear(l, who)
  PROVE  MonitorTypeOK' /\ SampleInv'
<1>1. /\ UNCHANGED <<thread, at, seen, flagged, rounds>>
      /\ lock[l] = who /\ lock' = [lock EXCEPT ![l] = "free"]
      /\ printed' = [printed EXCEPT ![l] = printed[l] + report[l]]
      /\ counter' = [counter EXCEPT ![l] = 0]
      /\ report' = [report EXCEPT ![l] = 0]
  BY DEF Clear
<1>2. LifeTyped(l) /\ Sampled(l) /\ MaxPolls \in Nat
  BY MonitorTyped, MonitorAssumption DEF SampleInv
<1>3. report[l] = counter[l] /\ printed[l] + report[l] = rounds[l] /\ rounds[l] \in 0 .. MaxPolls
  BY <1>1, <1>2 DEF LifeTyped, Sampled
<1>4. MonitorTypeOK'
  BY <1>1, <1>2, <1>3 DEF MonitorTypeOK
<1>5. /\ lock'[l] = "free" /\ printed'[l] = rounds[l] /\ counter'[l] = 0 /\ report'[l] = 0
      /\ \A k \in Life \ {l} : /\ lock'[k] = lock[k] /\ printed'[k] = printed[k]
                               /\ counter'[k] = counter[k] /\ report'[k] = report[k]
  BY <1>1, <1>3 DEF MonitorTypeOK
<1>6. Sampled(l)'
  BY <1>1, <1>2, <1>3, <1>5 DEF LifeTyped, Sampled
<1>7. SampleInv'
  BY <1>1, <1>5, <1>6, SampledOthers
<1> QED BY <1>4, <1>7

\* A thread starts, appears, leaves, vanishes; a flag is set.
LEMMA OnThreads ==
  ASSUME MonitorTypeOK, SampleInv, UNCHANGED <<at, lock, seen, counter, report, rounds, printed>>,
         thread' \in [Threads -> {"none", "starting", "listed", "ending", "gone"}],
         flagged' \in [Life -> {"no", "late", "yes"}]
  PROVE  MonitorTypeOK' /\ SampleInv'
BY DEF MonitorTypeOK, SampleInv, Sampled

LEMMA OnMonitorNext == MonitorTypeOK /\ SampleInv /\ MonitorNext => MonitorTypeOK' /\ SampleInv'
<1> SUFFICES ASSUME MonitorTypeOK, SampleInv, MonitorNext PROVE MonitorTypeOK' /\ SampleInv'
  OBVIOUS
<1>1. ASSUME NEW t \in Threads, Appears(t) \/ Vanishes(t) PROVE MonitorTypeOK' /\ SampleInv'
  BY <1>1, OnThreads DEF Appears, Vanishes, MonitorTypeOK
<1>2. ASSUME NEW l \in Life, PrinterPrints(l) PROVE MonitorTypeOK' /\ SampleInv'
  BY <1>2, OnPrintCounts DEF PrinterPrints, MonitorTypeOK
<1>3. ASSUME NEW l \in Life, PrinterClears(l) PROVE MonitorTypeOK' /\ SampleInv'
  BY <1>3, OnClear DEF PrinterClears
<1>4. ASSUME NEW l \in Life, PrinterEnds(l) PROVE MonitorTypeOK' /\ SampleInv'
  BY <1>4, OnThreads DEF PrinterEnds, Leaves, MonitorTypeOK
<1> QED BY <1>1, <1>2, <1>3, <1>4, OnCheck, OnList, OnSample, OnSampleFails DEF MonitorNext

-----------------------------------------------------------------------------
(* The main thread and the heartbeats *)

HostTyped ==
  /\ HeartbeatTypeOK
  /\ life \in Life
  /\ main \in {"construct", "started", "constructing", "run",
               "print", "clear", "stop", "pause", "ended"}

ServicesInv == MonitorTypeOK /\ SampleInv /\ HostTyped

LEMMA ServicesStart == ServicesInit => ServicesInv
<1> SUFFICES ASSUME ServicesInit PROVE ServicesInv
  OBVIOUS
<1>1. MonitorTypeOK /\ SampleInv
  BY MonitorStart DEF ServicesInit
<1>2. HostTyped
  <2>1. calling \in BOOLEAN
    BY DEF ServicesInit, HeartbeatInit
  <2>2. queued \in 0 .. WatcherSize
    BY HeartbeatAssumption DEF ServicesInit, HeartbeatInit
  <2>3. watcher \in {"connecting", "open", "sending", "ended"}
    BY DEF ServicesInit, HeartbeatInit
  <2>4. life \in Life /\ main = "construct"
    BY MonitorAssumption DEF ServicesInit, Life
  <2> QED BY <2>1, <2>2, <2>3, <2>4 DEF HostTyped, HeartbeatTypeOK
<1> QED BY <1>1, <1>2 DEF ServicesInv

\* The steps of the main thread and of the heartbeats, and those of the monitors,
\* keep to the types of the main thread and the watcher.
LEMMA HostStep == HostTyped /\ [ServicesNext]_servicesVars => HostTyped'
<1> SUFFICES ASSUME HostTyped, [ServicesNext]_servicesVars PROVE HostTyped'
  OBVIOUS
<1>1. CASE StartMonitor \/ StartPrinter \/ Constructed \/ ConstructionFails \/ RunEnds
           \/ StopPrints \/ StopClears \/ Stops \/ Closes
  BY <1>1 DEF HostTyped, HeartbeatTypeOK, heartbeatVars, StartMonitor, StartPrinter, Constructed,
              ConstructionFails, RunEnds, StopPrints, StopClears, Stops, Closes
<1>2. CASE Beats \/ BeatPut \/ BeatDropped \/ Elsewhere
  <2>1. UNCHANGED <<life, main>>
    BY <1>2 DEF Beats, BeatPut, BeatDropped, Elsewhere
  <2>2. Heartbeat \/ HeartbeatPut \/ HeartbeatDropped \/ HeartbeatElsewhere
    BY <1>2 DEF Beats, BeatPut, BeatDropped, Elsewhere
  <2>3. WatcherSize \in Nat \ {0}
    BY HeartbeatAssumption
  <2>4. HeartbeatTypeOK'
    <3>1. calling \in BOOLEAN /\ queued \in 0 .. WatcherSize
          /\ watcher \in {"connecting", "open", "sending", "ended"}
      BY DEF HostTyped, HeartbeatTypeOK
    <3>2. calling' \in BOOLEAN
      BY <2>2, <3>1 DEF Heartbeat, HeartbeatPut, HeartbeatDropped, HeartbeatElsewhere, OthersPut,
                        Connects, NothingToSend, TakeHeartbeat, SendClosed, SendFails
    <3>3. queued' \in 0 .. WatcherSize
      <4>1. CASE queued' = queued
        BY <3>1, <4>1
      <4>2. CASE queued < WatcherSize /\ queued' = queued + 1
        BY <2>3, <3>1, <4>2
      <4>3. CASE queued > 0 /\ queued' = queued - 1
        BY <2>3, <3>1, <4>3
      <4> QED BY <2>2, <4>1, <4>2, <4>3
              DEF Heartbeat, HeartbeatPut, HeartbeatDropped, HeartbeatElsewhere, OthersPut,
                  Connects, NothingToSend, TakeHeartbeat, SendClosed, SendFails
    <3>4. watcher' \in {"connecting", "open", "sending", "ended"}
      BY <2>2, <3>1 DEF Heartbeat, HeartbeatPut, HeartbeatDropped, HeartbeatElsewhere, OthersPut,
                        Connects, NothingToSend, TakeHeartbeat, SendClosed, SendFails
    <3> QED BY <3>2, <3>3, <3>4 DEF HeartbeatTypeOK
  <2> QED BY <2>1, <2>4 DEF HostTyped
<1>3. CASE LivesAgain
  BY <1>3, MonitorAssumption DEF LivesAgain, HostTyped, HeartbeatTypeOK, heartbeatVars, Life
<1>4. CASE Monitoring \/ UNCHANGED servicesVars
  BY <1>4 DEF Monitoring, servicesVars, HostTyped, HeartbeatTypeOK, heartbeatVars
<1> QED BY <1>1, <1>2, <1>3, <1>4 DEF ServicesNext

LEMMA MonitorStep == ServicesInv /\ [ServicesNext]_servicesVars => MonitorTypeOK' /\ SampleInv'
<1> SUFFICES ASSUME MonitorTypeOK, SampleInv, life \in Life, [ServicesNext]_servicesVars
             PROVE  MonitorTypeOK' /\ SampleInv'
  BY DEF ServicesInv, HostTyped
<1>1. CASE UNCHANGED monitorVars
  BY <1>1 DEF monitorVars, MonitorTypeOK, SampleInv, Sampled
<1>2. CASE StartMonitor \/ StartPrinter \/ BeatPut \/ Closes
  <2>1. UNCHANGED <<at, lock, seen, counter, report, flagged, rounds, printed>>
    BY <1>2 DEF StartMonitor, StartPrinter, BeatPut, Closes
  <2>2. thread' \in [Threads -> {"none", "starting", "listed", "ending", "gone"}]
    BY <1>2 DEF StartMonitor, StartPrinter, BeatPut, Closes, Starts, MonitorTypeOK
  <2> QED BY <2>1, <2>2, OnThreads DEF MonitorTypeOK
<1>3. CASE StopPrints
  BY <1>3, OnPrintCounts DEF StopPrints, MonitorTypeOK
<1>4. CASE StopClears
  BY <1>4, OnClear DEF StopClears
<1>5. CASE Stops
  BY <1>5, OnThreads DEF Stops, StopThreads, MonitorTypeOK
<1>6. CASE Monitoring
  BY <1>6, OnMonitorNext DEF Monitoring
<1>7. CASE Constructed \/ ConstructionFails \/ Beats \/ BeatDropped \/ RunEnds \/ LivesAgain \/ Elsewhere
  BY <1>1, <1>7 DEF Constructed, ConstructionFails, Beats, BeatDropped, RunEnds, LivesAgain, Elsewhere
<1>8. CASE UNCHANGED servicesVars
  BY <1>1, <1>8 DEF servicesVars, monitorVars
<1> QED BY <1>2, <1>3, <1>4, <1>5, <1>6, <1>7, <1>8 DEF ServicesNext

LEMMA SpecServices == ServicesSpec => []ServicesInv
<1>1. ServicesInv /\ [ServicesNext]_servicesVars => ServicesInv'
  BY HostStep, MonitorStep DEF ServicesInv
<1> QED BY <1>1, ServicesStart, PTL DEF ServicesSpec

\* The watcher's queue keeps to its size and no monitor counts, reports or prints
\* more rounds of samples than it took, for any number of lives, threads and slots
\* (stack_monitor.py, process.py:335-350, watcher.py).
THEOREM ServicesTypeCorrect == ServicesSpec => []ServicesTypeOK
<1>1. ServicesInv => ServicesTypeOK
  BY DEF ServicesInv, HostTyped, ServicesTypeOK
<1> QED BY <1>1, SpecServices, PTL

\* Every round of samples is printed once or still counted: the monitor, the
\* printer and stop_monitoring share the counts under the lock and neither lose
\* samples nor print any twice (stack_monitor.py:46-137).
THEOREM NoSampleLost == ServicesSpec => []SamplesCounted
<1>1. ServicesInv => SamplesCounted
  BY DEF ServicesInv, SampleInv, Sampled, SamplesCounted
<1> QED BY <1>1, SpecServices, PTL

-----------------------------------------------------------------------------
(* Who holds a monitor's lock *)

\* A thread of a monitor holds the lock only while it is listed, the main thread only
\* while it prints in stop_monitoring of its present life, and there it does hold it.
LockHeld ==
  main # "ended" =>
    /\ \A l \in Life :
         /\ lock[l] = "monitor" => thread[Monitor(l)] = "listed"
         /\ lock[l] = "printer" => thread[Printer(l)] = "listed"
         /\ lock[l] = "main" => main = "clear" /\ l = life
    /\ main = "clear" => lock[life] = "main"

LEMMA ThreadsDiffer ==
  /\ \A l \in Life : Monitor(l) \in Threads /\ Printer(l) \in Threads
  /\ \A l, k \in Life : Monitor(l) # Printer(k)
  /\ \A l, k \in Life : Monitor(l) = Monitor(k) => l = k
  /\ \A l, k \in Life : Printer(l) = Printer(k) => l = k
BY DEF Monitor, Printer, Threads

\* The steps after which the listed threads are still listed and no lock is taken.
LEMMA HeldQuiet ==
  ASSUME LockHeld, main # "ended", main' # "clear", main # "clear" \/ main' = main,
         UNCHANGED lock,
         \A t \in Threads : thread[t] = "listed" => thread'[t] = "listed"
  PROVE  LockHeld'
<1>1. main # "clear"
  OBVIOUS
<1>2. \A l \in Life : lock[l] # "main"
  BY <1>1 DEF LockHeld
<1> QED BY <1>2, ThreadsDiffer DEF LockHeld

\* The lock of one monitor changes hands, but for the main thread's.
LEMMA OneLock ==
  ASSUME LockHeld, main # "ended", UNCHANGED <<life, main>>, NEW l \in Life, life \in Life,
         lock[l] # "main", lock'[l] # "main",
         lock'[l] = "monitor" => thread'[Monitor(l)] = "listed",
         lock'[l] = "printer" => thread'[Printer(l)] = "listed",
         \A k \in Life : k # l => lock'[k] = lock[k],
         \A k \in Life : k # l => /\ thread'[Monitor(k)] = thread[Monitor(k)]
                                 /\ thread'[Printer(k)] = thread[Printer(k)]
  PROVE  LockHeld'
<1>1. ASSUME NEW k \in Life
      PROVE  /\ lock'[k] = "monitor" => thread'[Monitor(k)] = "listed"
             /\ lock'[k] = "printer" => thread'[Printer(k)] = "listed"
             /\ lock'[k] = "main" => main' = "clear" /\ k = life'
  <2>1. CASE k = l
    BY <2>1
  <2>2. CASE k # l
    BY <2>2 DEF LockHeld
  <2> QED BY <2>1, <2>2
<1>2. main' = "clear" => lock'[life'] = "main"
  BY DEF LockHeld
<1>3. (\A k \in Life :
         /\ lock[k] = "monitor" => thread[Monitor(k)] = "listed"
         /\ lock[k] = "printer" => thread[Printer(k)] = "listed"
         /\ lock[k] = "main" => main = "clear" /\ k = life)'
  BY <1>1
<1> QED BY <1>2, <1>3 DEF LockHeld

\* A step of a monitor: the lock it takes is its own, the one it frees it held.
LEMMA HeldOnMonitor ==
  ASSUME MonitorTypeOK, SampleInv, LockHeld, life \in Life, main # "ended", MonitorNext, UNCHANGED <<life, main>>
  PROVE  LockHeld'
<1> USE ThreadsDiffer
<1>1. ASSUME NEW t \in Threads, Appears(t) \/ Vanishes(t) PROVE LockHeld'
  <2>1. lock' = lock /\ \A u \in Threads : thread[u] = "listed" => thread'[u] = "listed"
    BY <1>1 DEF Appears, Vanishes, MonitorTypeOK
  <2> QED BY <2>1 DEF LockHeld
<1>2. ASSUME NEW l \in Life, Check(l) PROVE LockHeld'
  <2>1. lock' = lock /\ lock[l] # "monitor"
    BY <1>2 DEF Check, SampleInv, Sampled
  <2>2. \A u \in Threads : u # Monitor(l) => thread'[u] = thread[u]
    BY <1>2 DEF Check, Leaves, MonitorTypeOK
  <2> QED BY <2>1, <2>2 DEF LockHeld
<1>3. ASSUME NEW l \in Life, List(l) PROVE LockHeld'
  <2>1. thread' = thread /\ thread[Monitor(l)] = "listed" /\ lock[l] = "free"
    BY <1>3 DEF List
  <2>2. lock'[l] = "monitor" /\ \A k \in Life : k # l => lock'[k] = lock[k]
    BY <1>3 DEF List, MonitorTypeOK
  <2> QED BY <2>1, <2>2, OneLock
<1>4. ASSUME NEW l \in Life, Sample(l) PROVE LockHeld'
  <2>1. thread' = thread /\ lock[l] = "monitor"
    BY <1>4 DEF Sample, SampleInv, Sampled
  <2>2. lock'[l] = "free" /\ \A k \in Life : k # l => lock'[k] = lock[k]
    BY <1>4 DEF Sample, MonitorTypeOK
  <2> QED BY <2>1, <2>2, OneLock
<1>5. ASSUME NEW l \in Life, SampleFails(l) PROVE LockHeld'
  <2>1. lock[l] = "monitor"
    BY <1>5 DEF SampleFails, SampleInv, Sampled
  <2>2. lock'[l] = "free" /\ \A k \in Life : k # l => lock'[k] = lock[k]
    BY <1>5 DEF SampleFails, MonitorTypeOK
  <2>3. \A u \in Threads : u # Monitor(l) => thread'[u] = thread[u]
    BY <1>5 DEF SampleFails, Leaves, MonitorTypeOK
  <2>4. ASSUME NEW k \in Life, k # l
        PROVE  thread'[Monitor(k)] = thread[Monitor(k)] /\ thread'[Printer(k)] = thread[Printer(k)]
    BY <2>3, <2>4
  <2> QED BY <2>1, <2>2, <2>4, OneLock
<1>6. ASSUME NEW l \in Life, PrinterPrints(l) PROVE LockHeld'
  <2>1. thread' = thread /\ thread[Printer(l)] = "listed" /\ lock[l] = "free"
    BY <1>6 DEF PrinterPrints, PrintCounts
  <2>2. lock'[l] = "printer" /\ \A k \in Life : k # l => lock'[k] = lock[k]
    BY <1>6 DEF PrinterPrints, PrintCounts, MonitorTypeOK
  <2> QED BY <2>1, <2>2, OneLock
<1>7. ASSUME NEW l \in Life, PrinterClears(l) PROVE LockHeld'
  <2>1. thread' = thread /\ lock[l] = "printer"
    BY <1>7 DEF PrinterClears, Clear
  <2>2. lock'[l] = "free" /\ \A k \in Life : k # l => lock'[k] = lock[k]
    BY <1>7 DEF PrinterClears, Clear, MonitorTypeOK
  <2> QED BY <2>1, <2>2, OneLock
<1>8. ASSUME NEW l \in Life, PrinterEnds(l) PROVE LockHeld'
  <2>1. lock' = lock /\ lock[l] # "printer"
    BY <1>8 DEF PrinterEnds
  <2>2. \A u \in Threads : u # Printer(l) => thread'[u] = thread[u]
    BY <1>8 DEF PrinterEnds, Leaves, MonitorTypeOK
  <2> QED BY <2>1, <2>2 DEF LockHeld
<1> QED BY <1>1, <1>2, <1>3, <1>4, <1>5, <1>6, <1>7, <1>8 DEF MonitorNext

LEMMA HeldStep == ServicesInv /\ LockHeld /\ [ServicesNext]_servicesVars => LockHeld'
<1> SUFFICES ASSUME MonitorTypeOK, SampleInv, life \in Life, LockHeld, [ServicesNext]_servicesVars
             PROVE  LockHeld'
  BY DEF ServicesInv, HostTyped
<1>1. CASE main = "ended"
  <2>1. main' = "ended"
    BY <1>1 DEF ServicesNext, servicesVars, StartMonitor, StartPrinter, Constructed, ConstructionFails,
                Beats, BeatPut, BeatDropped, RunEnds, StopPrints, StopClears, Stops, LivesAgain, Closes,
                Monitoring, Elsewhere
  <2> QED BY <2>1 DEF LockHeld
<1>2. CASE main # "ended" /\ Monitoring
  BY <1>2, HeldOnMonitor DEF Monitoring
<1>3. CASE main # "ended" /\ (UNCHANGED <<thread, lock, life, main>>)
  BY <1>3 DEF LockHeld
<1>4. CASE main # "ended" /\ (StartMonitor \/ StartPrinter)
  <2>1. main # "clear" /\ main' # "clear" /\ lock' = lock
    BY <1>4 DEF StartMonitor, StartPrinter
  <2>2. \A t \in Threads : thread[t] = "listed" => thread'[t] = "listed"
    BY <1>4 DEF StartMonitor, StartPrinter, Starts, MonitorTypeOK
  <2> QED BY <1>4, <2>1, <2>2, HeldQuiet
<1>5. CASE main # "ended" /\ BeatPut
  <2>1. lock' = lock /\ life' = life /\ main' = main
    BY <1>5 DEF BeatPut
  <2>2. \A t \in Threads : thread[t] = "listed" => thread'[t] = "listed"
    BY <1>5 DEF BeatPut, MonitorTypeOK
  <2> QED BY <1>5, <2>1, <2>2, ThreadsDiffer DEF LockHeld
<1>6. CASE main # "ended" /\ (Constructed \/ ConstructionFails \/ RunEnds \/ Stops \/ LivesAgain)
  <2>1. main # "clear" /\ main' # "clear" /\ lock' = lock /\ thread' = thread
    BY <1>6 DEF Constructed, ConstructionFails, RunEnds, Stops, StopThreads, LivesAgain, monitorVars
  <2> QED BY <1>6, <2>1, HeldQuiet
<1>7. CASE main # "ended" /\ StopPrints
  <2>1. main = "print" /\ main' = "clear" /\ thread' = thread /\ life' = life /\ lock[life] = "free"
    BY <1>7 DEF StopPrints, PrintCounts
  <2>2. lock'[life] = "main" /\ \A k \in Life : k # life => lock'[k] = lock[k]
    BY <1>7 DEF StopPrints, PrintCounts, MonitorTypeOK
  <2> QED BY <1>7, <2>1, <2>2 DEF LockHeld
<1>8. CASE main # "ended" /\ StopClears
  <2>1. main = "clear" /\ main' = "stop" /\ thread' = thread /\ life' = life
    BY <1>8 DEF StopClears, Clear
  <2>2. lock'[life] = "free" /\ \A k \in Life : k # life => lock'[k] = lock[k]
    BY <1>8 DEF StopClears, Clear, MonitorTypeOK
  <2> QED BY <1>8, <2>1, <2>2 DEF LockHeld
<1>9. CASE Closes
  BY <1>9 DEF Closes, LockHeld
<1>10. CASE Beats \/ BeatDropped \/ Elsewhere \/ UNCHANGED servicesVars
  BY <1>1, <1>3, <1>10 DEF Beats, BeatDropped, Elsewhere, servicesVars, monitorVars
<1> QED BY <1>1, <1>2, <1>4, <1>5, <1>6, <1>7, <1>8, <1>9, <1>10 DEF ServicesNext

\* Nothing that waits for a monitor's lock waits for a thread that is gone: the
\* lock is free, or held by a thread that runs and will release it, also after a
\* monitor died of an exception and in the lives that follow
\* (stack_monitor.py:46-137, process.py:67-73).
THEOREM LockNeverLeft == ServicesSpec => []LockHeld
<1>1. ServicesInit => LockHeld
  BY DEF ServicesInit, MonitorInit, LockHeld
<1>2. ServicesInv /\ LockHeld /\ [ServicesNext]_servicesVars => LockHeld'
  BY HeldStep
<1> QED BY <1>1, <1>2, SpecServices, PTL DEF ServicesSpec

=============================================================================
