------------------------ MODULE WsRobotProcessProofs ------------------------
(* Proofs about WsRobotProcess: types, what is pulled, the lossy channel.  *)
EXTENDS WsRobotProcess, SequenceFacts

Message == [id : Nat, good : BOOLEAN]
Frame == [id : Nat, kind : {"data", "ping", "bad"}]

\* TypeOK with the types of the sequences spelt out.
Typed ==
  /\ command \in Commands
  /\ phase \in {"down", "control", "running", "closing"}
  /\ open \in BOOLEAN
  /\ closes \in 0 .. MaxCloses
  /\ inbox \in Seq(Message)
  /\ Len(inbox) <= InboxSize
  /\ sender \in {"none", "idle", "holding", "done"}
  /\ hand \in Nat
  /\ frames \in Seq(Frame)
  /\ puller \in {"none", "reading", "done"}
  /\ publishing \in Nat
  /\ outbox \in Seq(Nat)
  /\ Len(outbox) <= OutboxSize
  /\ accepted \in Nat /\ arrived \in Nat
  /\ delivered \in Seq(Nat)
  /\ lost \in Seq(Nat)
  /\ pulled \in Seq(Nat)
  /\ forwarded \in Seq(Nat)

LEMMA TypedIsTypeOK == Typed <=> TypeOK
BY DEF Typed, TypeOK, Message, Frame

\* Where a session stands: before the tasks start there are none, an ended one
\* has no open connection, only a sender holds a message, and an idle sender
\* whose connection has closed has cost nothing yet.
Session ==
  /\ phase \in {"down", "control"} => sender = "none"
  /\ phase \in {"down", "closing"} => ~open
  /\ sender # "holding" => hand = 0
  /\ sender = "idle" /\ ~open => lost # <<>> /\ lost[Len(lost)] = 0
  /\ Pulling => sender = "none"
  /\ puller = "reading" => Pulling

\* Frames are numbered from 1.
Numbered == \A i \in 1 .. Len(frames) : frames[i].id # 0

\* The inductive invariant.
Inv == Typed /\ Session /\ Numbered /\ PulledForwarded

LEMMA InitInv == Init => Inv
<1> SUFFICES ASSUME Init PROVE Inv
  OBVIOUS
<1>1. Typed
  <2>1. {InboxSize, OutboxSize, MaxCloses} \subseteq Nat \ {0}
    BY WsAssumption
  <2>2. 0 <= InboxSize /\ 0 <= OutboxSize /\ 0 \in 0 .. MaxCloses
    BY <2>1
  <2>3. <<>> \in Seq(Message) /\ <<>> \in Seq(Frame) /\ <<>> \in Seq(Nat) /\ Len(<<>>) = 0
    OBVIOUS
  <2> QED BY <2>2, <2>3 DEF Init, SetCommandType, Typed
<1>2. Session /\ Numbered
  BY DEF Init, Session, Numbered
<1>3. PulledForwarded
  <2>1. <<>> \o <<>> = <<>>
    BY ConcatEmptySeq
  <2> QED BY <2>1 DEF Init, PulledForwarded, Free
<1> QED BY <1>1, <1>2, <1>3 DEF Inv

-----------------------------------------------------------------------------
(* The invariant, action by action *)

LEMMA InvEnqueue == ASSUME Inv, Enqueue PROVE Inv'
<1>1. PICK good \in BOOLEAN : inbox' = Append(inbox, [id |-> accepted + 1, good |-> good])
  BY DEF Enqueue
<1>2. /\ accepted' = accepted + 1 /\ Len(inbox) < InboxSize
      /\ UNCHANGED <<command, phase, open, closes, lost, sender, hand, delivered,
                     frames, puller, publishing, outbox, arrived, pulled, forwarded>>
  BY DEF Enqueue, sessionVars, pullVars
<1>3. [id |-> accepted + 1, good |-> good] \in Message
  BY DEF Inv, Typed, Message
<1>4. inbox' \in Seq(Message) /\ Len(inbox') <= InboxSize
  <2>1. inbox' \in Seq(Message) /\ Len(inbox') = Len(inbox) + 1 /\ Len(inbox) \in Nat
    BY <1>1, <1>3, AppendFacts DEF Inv, Typed
  <2> QED BY <1>2, <2>1, WsAssumption
<1>5. Typed'
  BY <1>2, <1>4 DEF Inv, Typed
<1>6. Session' /\ Numbered' /\ PulledForwarded'
  BY <1>2 DEF Inv, Session, Pulling, Numbered, PulledForwarded, Free
<1> QED BY <1>5, <1>6 DEF Inv

LEMMA InvDequeue == ASSUME Inv, Dequeue PROVE Inv'
<1>1. /\ outbox # <<>> /\ outbox' = Tail(outbox)
      /\ UNCHANGED <<command, phase, open, closes, lost, inbox, sender, hand, accepted,
                     delivered, frames, puller, publishing, arrived, pulled, forwarded>>
  BY DEF Dequeue, sessionVars, pushVars
<1>2. outbox' \in Seq(Nat) /\ Len(outbox') <= OutboxSize
  <2>1. outbox' \in Seq(Nat) /\ Len(outbox') = Len(outbox) - 1 /\ Len(outbox) \in Nat
    BY <1>1, TailFacts DEF Inv, Typed
  <2>2. Len(outbox) <= OutboxSize /\ OutboxSize \in Nat
    BY WsAssumption DEF Inv, Typed
  <2> QED BY <2>1, <2>2
<1>3. Typed'
  BY <1>1, <1>2 DEF Inv, Typed
<1>4. Session' /\ Numbered' /\ PulledForwarded'
  BY <1>1 DEF Inv, Session, Pulling, Numbered, PulledForwarded, Free
<1> QED BY <1>3, <1>4 DEF Inv

LEMMA InvArrive == ASSUME Inv, Arrive PROVE Inv'
<1>1. PICK kind \in {"data", "ping", "bad"} :
        frames' = Append(frames, [id |-> arrived + 1, kind |-> kind])
  BY DEF Arrive
<1>2. /\ arrived' = arrived + 1
      /\ UNCHANGED <<command, phase, open, closes, lost, inbox, sender, hand, accepted,
                     delivered, puller, publishing, outbox, pulled, forwarded>>
  BY DEF Arrive, sessionVars, pushVars
<1>3. arrived \in Nat /\ arrived + 1 \in Nat /\ arrived + 1 # 0
  BY DEF Inv, Typed
<1>4. [id |-> arrived + 1, kind |-> kind] \in Frame
  BY <1>3 DEF Frame
<1>5. /\ frames' \in Seq(Frame) /\ Len(frames') = Len(frames) + 1 /\ Len(frames) \in Nat
      /\ \A i \in 1 .. Len(frames) : frames'[i] = frames[i]
      /\ frames'[Len(frames) + 1] = [id |-> arrived + 1, kind |-> kind]
  BY <1>1, <1>4, AppendFacts DEF Inv, Typed
<1>6. Numbered'
  <2> SUFFICES ASSUME NEW i \in 1 .. Len(frames') PROVE frames'[i].id # 0
    BY DEF Numbered
  <2>1. i \in 1 .. Len(frames) \/ i = Len(frames) + 1
    BY <1>5
  <2> QED BY <1>3, <1>5, <2>1 DEF Inv, Numbered
<1>7. Typed'
  BY <1>2, <1>3, <1>5 DEF Inv, Typed
<1>8. Session' /\ PulledForwarded'
  BY <1>2 DEF Inv, Session, Pulling, PulledForwarded, Free
<1> QED BY <1>6, <1>7, <1>8 DEF Inv

LEMMA InvClose == ASSUME Inv, Close PROVE Inv'
<1>1. /\ open /\ closes < MaxCloses /\ closes' = closes + 1 /\ open' = FALSE
      /\ lost' = Append(lost, hand)
      /\ UNCHANGED <<command, phase, inbox, sender, hand, accepted, delivered,
                     frames, puller, publishing, outbox, arrived, pulled, forwarded>>
  BY DEF Close, pushVars, pullVars
<1>2. /\ lost' \in Seq(Nat) /\ Len(lost') = Len(lost) + 1 /\ Len(lost) \in Nat
      /\ lost'[Len(lost) + 1] = hand
  BY <1>1, AppendFacts DEF Inv, Typed
<1>3. closes' \in 0 .. MaxCloses
  BY <1>1, WsAssumption DEF Inv, Typed
<1>4. Typed'
  BY <1>1, <1>2, <1>3 DEF Inv, Typed
<1>5. lost' # <<>> /\ lost'[Len(lost')] = hand
  BY <1>2
<1>6. Session'
  BY <1>1, <1>5 DEF Inv, Session, Pulling
<1>7. Numbered' /\ PulledForwarded'
  BY <1>1 DEF Inv, Numbered, PulledForwarded, Free
<1> QED BY <1>4, <1>6, <1>7 DEF Inv

\* Connect, SendControl, TaskFails: nothing but the session changes.
LEMMA InvSession == ASSUME Inv, Connect \/ SendControl \/ TaskFails PROVE Inv'
<1>1. UNCHANGED <<command, closes, lost, inbox, hand, accepted, delivered,
                  frames, publishing, outbox, arrived, pulled, forwarded>>
  BY DEF Connect, SendControl, TaskFails, pushVars, pullVars
<1>2. Typed'
  <2>1. /\ phase' \in {"down", "control", "running", "closing"} /\ open' \in BOOLEAN
        /\ sender' \in {"none", "idle", "holding", "done"}
        /\ puller' \in {"none", "reading", "done"}
    BY DEF Connect, SendControl, TaskFails, pushVars, pullVars, Inv, Typed
  <2> QED BY <1>1, <2>1 DEF Inv, Typed
<1>3. Session'
  BY <1>1 DEF Connect, SendControl, TaskFails, pushVars, pullVars, Inv, Typed, Session, Pulling
<1>4. Numbered' /\ PulledForwarded'
  BY <1>1 DEF Inv, Numbered, PulledForwarded, Free
<1> QED BY <1>2, <1>3, <1>4 DEF Inv

LEMMA InvFinish == ASSUME Inv, Finish PROVE Inv'
<1>1. /\ phase = "closing" /\ phase' = "down" /\ sender' = "none" /\ hand' = 0
      /\ puller' = "none" /\ frames' = <<>>
      /\ UNCHANGED <<command, open, closes, lost, inbox, accepted, delivered,
                     publishing, outbox, arrived, pulled, forwarded>>
  BY DEF Finish
<1>2. Typed'
  BY <1>1 DEF Inv, Typed
<1>3. Session' /\ Numbered' /\ PulledForwarded'
  BY <1>1 DEF Inv, Session, Pulling, Numbered, PulledForwarded, Free
<1> QED BY <1>2, <1>3 DEF Inv

\* What Raise does to the session.
LEMMA RaiseKeeps ==
  ASSUME Inv, NEW m \in Nat, Raise(m), ~open /\ m # 0 => lost # <<>>
  PROVE  phase' = "closing" /\ open' = FALSE /\ lost' \in Seq(Nat)
<1>1. phase' = "closing" /\ open' = FALSE
  BY DEF Raise
<1>2. CASE open
  BY <1>2, AppendFacts DEF Raise, Inv, Typed
<1>3. CASE ~open /\ m = 0
  BY <1>3 DEF Raise, Inv, Typed
<1>4. CASE ~open /\ m # 0
  <2>1. lost \in Seq(Nat) /\ lost # <<>> /\ Len(lost) \in 1 .. Len(lost)
    BY <1>4, TailFacts DEF Inv, Typed
  <2>2. [lost EXCEPT ![Len(lost)] = m] \in Seq(Nat)
    BY <2>1, ExceptSeq
  <2>3. lost' = [lost EXCEPT ![Len(lost)] = m]
    BY <1>4 DEF Raise
  <2> QED BY <1>1, <2>2, <2>3
<1> QED BY <1>1, <1>2, <1>3, <1>4

LEMMA InvTake == ASSUME Inv, Take PROVE Inv'
<1>1. /\ sender = "idle" /\ inbox # <<>> /\ inbox' = Tail(inbox)
      /\ UNCHANGED <<command, closes, accepted, delivered, frames, puller, publishing,
                     outbox, arrived, pulled, forwarded>>
  BY DEF Take, pullVars
<1>2. PICK m \in Message : m = Head(inbox)
  BY <1>1, TailFacts DEF Inv, Typed
<1>3. m.id \in Nat /\ m.good \in BOOLEAN
  BY DEF Message
<1>4. inbox' \in Seq(Message) /\ Len(inbox') <= InboxSize
  <2>1. inbox' \in Seq(Message) /\ Len(inbox') = Len(inbox) - 1 /\ Len(inbox) \in Nat
    BY <1>1, TailFacts DEF Inv, Typed
  <2>2. Len(inbox) <= InboxSize /\ InboxSize \in Nat
    BY WsAssumption DEF Inv, Typed
  <2> QED BY <2>1, <2>2
<1>5. lost \in Seq(Nat) /\ (~open => lost # <<>>)
  BY <1>1 DEF Inv, Typed, Session
<1>6. CASE m.good
  <2>1. /\ sender' = "holding" /\ hand' = m.id /\ UNCHANGED <<phase, open>>
        /\ lost' = IF open THEN lost ELSE [lost EXCEPT ![Len(lost)] = m.id]
    BY <1>2, <1>6 DEF Take
  <2>2. lost' \in Seq(Nat)
    <3>1. CASE open
      BY <1>5, <2>1, <3>1
    <3>2. CASE ~open
      <4>1. Len(lost) \in 1 .. Len(lost)
        BY <1>5, <3>2, TailFacts
      <4> QED BY <1>3, <1>5, <2>1, <3>2, <4>1, ExceptSeq
    <3> QED BY <3>1, <3>2
  <2>3. Typed'
    BY <1>1, <1>3, <1>4, <2>1, <2>2 DEF Inv, Typed
  <2>4. Session'
    BY <1>1, <2>1 DEF Inv, Session, Pulling
  <2> QED BY <1>1, <2>3, <2>4 DEF Inv, Numbered, PulledForwarded, Free
<1>7. CASE ~m.good
  <2>1. sender' = "done" /\ hand' = hand /\ Raise(m.id)
    BY <1>2, <1>7 DEF Take
  <2>2. phase' = "closing" /\ open' = FALSE /\ lost' \in Seq(Nat)
    BY <1>3, <1>5, <2>1, RaiseKeeps
  <2>3. Typed'
    BY <1>1, <1>4, <2>1, <2>2 DEF Inv, Typed
  <2>4. Session'
    BY <1>1, <2>1, <2>2 DEF Inv, Session, Pulling
  <2> QED BY <1>1, <2>3, <2>4 DEF Inv, Numbered, PulledForwarded, Free
<1> QED BY <1>3, <1>6, <1>7

LEMMA InvSent == ASSUME Inv, Sent PROVE Inv'
<1>1. /\ sender = "holding" /\ open /\ sender' = "idle" /\ hand' = 0
      /\ delivered' = Append(delivered, hand)
      /\ UNCHANGED <<command, phase, open, closes, lost, inbox, accepted,
                     frames, puller, publishing, outbox, arrived, pulled, forwarded>>
  BY DEF Sent, sessionVars, pullVars
<1>2. delivered' \in Seq(Nat)
  BY <1>1, AppendFacts DEF Inv, Typed
<1>3. Typed'
  BY <1>1, <1>2 DEF Inv, Typed
<1>4. Session' /\ Numbered' /\ PulledForwarded'
  BY <1>1 DEF Inv, Session, Pulling, Numbered, PulledForwarded, Free
<1> QED BY <1>3, <1>4 DEF Inv

LEMMA InvSendFails == ASSUME Inv, SendFails PROVE Inv'
<1>1. /\ sender = "holding" /\ ~open /\ sender' = "done" /\ hand' = 0 /\ phase' = "closing"
      /\ UNCHANGED <<command, open, closes, lost, inbox, accepted, delivered,
                     frames, puller, publishing, outbox, arrived, pulled, forwarded>>
  BY DEF SendFails, pullVars
<1>2. Typed'
  BY <1>1 DEF Inv, Typed
<1>3. Session' /\ Numbered' /\ PulledForwarded'
  BY <1>1 DEF Inv, Session, Pulling, Numbered, PulledForwarded, Free
<1> QED BY <1>2, <1>3 DEF Inv

LEMMA InvRecv == ASSUME Inv, Recv PROVE Inv'
<1>1. /\ puller = "reading" /\ Free /\ frames # <<>> /\ frames' = Tail(frames)
      /\ UNCHANGED <<command, closes, inbox, sender, hand, accepted, delivered,
                     outbox, arrived, forwarded>>
  BY DEF Recv, pushVars
<1>2. /\ frames \in Seq(Frame) /\ Head(frames) = frames[1] /\ Head(frames) \in Frame
      /\ Tail(frames) \in Seq(Frame) /\ Len(frames) \in Nat \ {0}
      /\ Len(Tail(frames)) = Len(frames) - 1
      /\ \A i \in 1 .. (Len(frames) - 1) : Tail(frames)[i] = frames[i + 1]
  BY <1>1, TailFacts DEF Inv, Typed
<1>3. PICK f \in Frame : f = Head(frames) /\ f.id # 0
  <2>1. Head(frames).id # 0
    BY <1>2 DEF Inv, Numbered
  <2> QED BY <1>2, <2>1
<1>4. f.id \in Nat /\ f.kind \in {"data", "ping", "bad"}
  BY DEF Frame
<1>5. Numbered'
  <2> SUFFICES ASSUME NEW i \in 1 .. Len(Tail(frames)) PROVE Tail(frames)[i].id # 0
    BY <1>1 DEF Numbered
  <2>1. i + 1 \in 1 .. Len(frames) /\ Tail(frames)[i] = frames[i + 1]
    BY <1>2
  <2> QED BY <2>1 DEF Inv, Numbered
<1>6. sender = "none"
  BY <1>1 DEF Inv, Session
<1>7. pulled = forwarded /\ pulled \in Seq(Nat) /\ forwarded \in Seq(Nat)
  <2>1. pulled = forwarded \o <<>>
    BY <1>1 DEF Inv, PulledForwarded
  <2> QED BY <2>1, ConcatEmptySeq DEF Inv, Typed
<1>8. CASE f.kind = "data"
  <2>1. /\ publishing' = f.id /\ pulled' = Append(pulled, f.id)
        /\ UNCHANGED <<phase, open, lost, puller>>
    BY <1>3, <1>8 DEF Recv
  <2>2. pulled' \in Seq(Nat) /\ pulled' = forwarded \o <<f.id>>
    BY <1>4, <1>7, <2>1, AppendFacts, AppendIsConcat
  <2>3. Typed'
    BY <1>1, <1>2, <1>4, <2>1, <2>2 DEF Inv, Typed
  <2>4. Session'
    BY <1>1, <2>1 DEF Inv, Session, Pulling
  <2>5. PulledForwarded'
    BY <1>1, <1>3, <2>1, <2>2 DEF PulledForwarded, Free
  <2> QED BY <1>5, <2>3, <2>4, <2>5 DEF Inv
<1>9. CASE f.kind = "ping"
  <2>1. UNCHANGED <<phase, open, lost, puller, publishing, pulled>>
    BY <1>3, <1>9 DEF Recv
  <2>2. Typed'
    BY <1>1, <1>2, <2>1 DEF Inv, Typed
  <2>3. Session' /\ PulledForwarded'
    BY <1>1, <2>1 DEF Inv, Session, Pulling, PulledForwarded, Free
  <2> QED BY <1>5, <2>2, <2>3 DEF Inv
<1>10. CASE f.kind = "bad"
  <2>1. puller' = "done" /\ Raise(0) /\ UNCHANGED <<publishing, pulled>>
    BY <1>3, <1>10 DEF Recv
  <2>2. phase' = "closing" /\ open' = FALSE /\ lost' \in Seq(Nat)
    BY <2>1, RaiseKeeps
  <2>3. Typed'
    BY <1>1, <1>2, <2>1, <2>2 DEF Inv, Typed
  <2>4. Session' /\ PulledForwarded'
    BY <1>1, <1>6, <2>1, <2>2 DEF Inv, Session, Pulling, PulledForwarded, Free
  <2> QED BY <1>5, <2>3, <2>4 DEF Inv
<1> QED BY <1>4, <1>8, <1>9, <1>10

LEMMA InvPublishFrame == ASSUME Inv, PublishFrame PROVE Inv'
<1>1. /\ ~Free /\ Len(outbox) < OutboxSize
      /\ outbox' = Append(outbox, publishing)
      /\ forwarded' = Append(forwarded, publishing)
      /\ publishing' = 0
      /\ UNCHANGED <<command, phase, open, closes, lost, inbox, sender, hand, accepted,
                     delivered, frames, puller, arrived, pulled>>
  BY DEF PublishFrame, sessionVars, pushVars
<1>2. outbox' \in Seq(Nat) /\ Len(outbox') <= OutboxSize
  <2>1. outbox' \in Seq(Nat) /\ Len(outbox') = Len(outbox) + 1 /\ Len(outbox) \in Nat
    BY <1>1, AppendFacts DEF Inv, Typed
  <2> QED BY <1>1, <2>1, WsAssumption
<1>3. /\ forwarded' \in Seq(Nat) /\ forwarded' = forwarded \o <<publishing>>
      /\ forwarded' \o <<>> = forwarded'
  BY <1>1, AppendFacts, AppendIsConcat, ConcatEmptySeq DEF Inv, Typed
<1>4. Typed'
  BY <1>1, <1>2, <1>3 DEF Inv, Typed
<1>5. Session' /\ Numbered'
  BY <1>1 DEF Inv, Session, Pulling, Numbered
<1>6. PulledForwarded'
  BY <1>1, <1>3 DEF Inv, PulledForwarded, Free
<1> QED BY <1>4, <1>5, <1>6 DEF Inv

LEMMA NextInv == Inv /\ [Next]_vars => Inv'
<1> SUFFICES ASSUME Inv, [Next]_vars PROVE Inv'
  OBVIOUS
<1>1. CASE Next
  BY <1>1, InvEnqueue, InvDequeue, InvArrive, InvClose, InvSession, InvFinish, InvTake, InvSent,
     InvSendFails, InvRecv, InvPublishFrame DEF Next, Environment, Sender
<1>2. CASE UNCHANGED vars
  BY <1>2 DEF vars, sessionVars, pushVars, pullVars, Inv, Typed, Session, Pulling, Numbered,
              PulledForwarded, Free
<1> QED BY <1>1, <1>2

LEMMA SpecInv == Spec => []Inv
BY InitInv, NextInv, PTL DEF Spec

\* Every variable keeps its type, and both queues their bounds.
THEOREM TypeCorrect == Spec => []TypeOK
<1>1. Inv => TypeOK
  BY TypedIsTypeOK DEF Inv
<1> QED BY <1>1, SpecInv, PTL

\* However sessions end: a frame that was read is published once and in order.
THEOREM PulledIsForwarded == Spec => []PulledForwarded
<1>1. Inv => PulledForwarded
  BY DEF Inv
<1> QED BY <1>1, SpecInv, PTL

-----------------------------------------------------------------------------
(* The lossy channel *)

\* The numbers of the messages of a queue.
LEMMA IdsTyped ==
  ASSUME NEW s \in Seq(Message)
  PROVE  /\ Ids(s) \in Seq(Nat)
         /\ Len(Ids(s)) = Len(s)
         /\ \A i \in 1 .. Len(s) : Ids(s)[i] = s[i].id
<1>1. Len(s) \in Nat /\ \A i \in 1 .. Len(s) : s[i] \in Message
  BY LenProperties
<1>2. \A i \in 1 .. Len(s) : s[i].id \in Nat
  BY <1>1 DEF Message
<1> QED BY <1>1, <1>2 DEF Ids

LEMMA IdsAppend ==
  ASSUME NEW s \in Seq(Message), NEW m \in Message
  PROVE  Ids(Append(s, m)) = Append(Ids(s), m.id)
<1> DEFINE t == Append(s, m)
           a == Append(Ids(s), m.id)
<1>1. /\ t \in Seq(Message) /\ Len(t) = Len(s) + 1 /\ Len(s) \in Nat
      /\ \A i \in 1 .. Len(s) : t[i] = s[i]
      /\ t[Len(s) + 1] = m
  BY AppendFacts
<1>2. m.id \in Nat
  BY DEF Message
<1>3. /\ Ids(s) \in Seq(Nat) /\ Len(Ids(s)) = Len(s)
      /\ \A i \in 1 .. Len(s) : Ids(s)[i] = s[i].id
  BY IdsTyped
<1>4. /\ a \in Seq(Nat) /\ Len(a) = Len(s) + 1
      /\ \A i \in 1 .. Len(s) : a[i] = s[i].id
      /\ a[Len(s) + 1] = m.id
  <2>1. /\ a \in Seq(Nat) /\ Len(a) = Len(Ids(s)) + 1
        /\ \A i \in 1 .. Len(Ids(s)) : a[i] = Ids(s)[i]
        /\ a[Len(Ids(s)) + 1] = m.id
    BY <1>2, <1>3, AppendFacts
  <2> QED BY <1>3, <2>1
<1> HIDE DEF t, a
<1>5. /\ Ids(t) \in Seq(Nat) /\ Len(Ids(t)) = Len(s) + 1
      /\ \A i \in 1 .. (Len(s) + 1) : Ids(t)[i] = t[i].id
  BY <1>1, IdsTyped
<1>6. \A i \in 1 .. (Len(s) + 1) : Ids(t)[i] = a[i]
  <2> SUFFICES ASSUME NEW i \in 1 .. (Len(s) + 1) PROVE Ids(t)[i] = a[i]
    OBVIOUS
  <2>1. i \in 1 .. Len(s) \/ i = Len(s) + 1
    BY <1>1
  <2> QED BY <1>1, <1>4, <1>5, <2>1
<1>7. Ids(t) = a
  BY <1>4, <1>5, <1>6, SeqEqual
<1> QED BY <1>7 DEF t, a

LEMMA IdsTail ==
  ASSUME NEW s \in Seq(Message), s # <<>>
  PROVE  /\ Ids(s) # <<>>
         /\ Head(Ids(s)) = Head(s).id
         /\ Tail(Ids(s)) = Ids(Tail(s))
<1> DEFINE t == Tail(s)
           r == Ids(s)
<1>1. /\ Head(s) = s[1] /\ Len(s) \in Nat \ {0}
      /\ t \in Seq(Message) /\ Len(t) = Len(s) - 1
      /\ \A i \in 1 .. (Len(s) - 1) : t[i] = s[i + 1]
  BY TailFacts
<1>2. r \in Seq(Nat) /\ Len(r) = Len(s) /\ \A i \in 1 .. Len(s) : r[i] = s[i].id
  BY IdsTyped
<1> HIDE DEF t, r
<1>3. r # <<>>
  BY <1>1, <1>2
<1>4. /\ Head(r) = r[1] /\ Tail(r) \in Seq(Nat) /\ Len(Tail(r)) = Len(r) - 1
      /\ \A i \in 1 .. (Len(r) - 1) : Tail(r)[i] = r[i + 1]
  BY <1>2, <1>3, TailFacts
<1>5. /\ Ids(t) \in Seq(Nat) /\ Len(Ids(t)) = Len(s) - 1
      /\ \A i \in 1 .. (Len(s) - 1) : Ids(t)[i] = t[i].id
  BY <1>1, IdsTyped
<1>6. ASSUME NEW i \in 1 .. (Len(s) - 1) PROVE Tail(r)[i] = Ids(t)[i]
  <2>1. i + 1 \in 1 .. Len(s) /\ i \in 1 .. (Len(r) - 1)
    BY <1>1, <1>2
  <2> QED BY <1>1, <1>2, <1>4, <1>5, <2>1
<1>7. Tail(r) = Ids(t)
  <2>1. Len(Tail(r)) = Len(s) - 1
    BY <1>2, <1>4
  <2> QED BY <1>4, <1>5, <1>6, <2>1, SeqEqual
<1>8. Head(r) = Head(s).id
  BY <1>1, <1>2, <1>4
<1> QED BY <1>3, <1>7, <1>8 DEF t, r

\* What the channel holds: with nothing under way, the queue.
LEMMA WaitingIs ==
  ASSUME Inv
  PROVE  /\ inbox \in Seq(Message) /\ Ids(inbox) \in Seq(Nat) /\ hand \in Nat
         /\ Waiting \in Seq(Nat)
         /\ ~(open /\ sender = "holding") => Waiting = Ids(inbox)
         /\ open /\ sender = "holding" => Waiting = <<hand>> \o Ids(inbox)
<1>1. inbox \in Seq(Message) /\ hand \in Nat
  BY DEF Inv, Typed
<1>2. Ids(inbox) \in Seq(Nat)
  BY <1>1, IdsTyped
<1>3. <<>> \o Ids(inbox) = Ids(inbox)
  BY <1>2, ConcatEmptySeq
<1>4. <<hand>> \o Ids(inbox) \in Seq(Nat)
  BY <1>1, <1>2, FrontFacts
<1> QED BY <1>1, <1>2, <1>3, <1>4 DEF Waiting, UnderWay

LEMMA EnqueueAccepts == ASSUME Inv, Enqueue PROVE Channel!Accept
<1>1. PICK good \in BOOLEAN : inbox' = Append(inbox, [id |-> accepted + 1, good |-> good])
  BY DEF Enqueue
<1> DEFINE m == [id |-> accepted + 1, good |-> good]
<1>2. accepted' = accepted + 1 /\ UNCHANGED <<open, lost, sender, hand, delivered>>
  BY DEF Enqueue, sessionVars
<1>3. accepted + 1 \in Nat /\ m \in Message /\ m.id = accepted + 1
  BY DEF Inv, Typed, Message
<1>4. inbox' = Append(inbox, m)
  BY <1>1
<1> HIDE DEF m
<1>5. Ids(inbox') = Append(Ids(inbox), accepted + 1)
  BY <1>3, <1>4, IdsAppend DEF Inv, Typed
<1>6. UnderWay' = UnderWay /\ UnderWay \in Seq(Nat)
  BY <1>2, WaitingIs DEF UnderWay
<1>7. UnderWay \o Append(Ids(inbox), accepted + 1) = Append(UnderWay \o Ids(inbox), accepted + 1)
  <2> DEFINE e == accepted + 1
  <2>1. Ids(inbox) \in Seq(Nat) /\ UnderWay \in Seq(Nat) /\ e \in Nat
    BY <1>3, <1>6, WaitingIs
  <2> HIDE DEF e
  <2>2. UnderWay \o Append(Ids(inbox), e) = Append(UnderWay \o Ids(inbox), e)
    BY <2>1, ConcatAppend
  <2> QED BY <2>2 DEF e
<1>8. Waiting' = Append(Waiting, accepted + 1)
  BY <1>5, <1>6, <1>7 DEF Waiting
<1> QED BY <1>2, <1>8 DEF Channel!Accept

LEMMA CloseBreaks == ASSUME Inv, Close PROVE Channel!Break \/ Channel!BreakUnderWay
<1>1. /\ open /\ open' = FALSE /\ lost' = Append(lost, hand)
      /\ UNCHANGED <<inbox, sender, hand, accepted, delivered>>
  BY DEF Close, pushVars
<1>2. Waiting' = Ids(inbox)
  <2>1. <<>> \o Ids(inbox) = Ids(inbox)
    BY WaitingIs, ConcatEmptySeq
  <2> QED BY <1>1, <2>1 DEF Waiting, UnderWay
<1>3. CASE sender = "holding"
  <2>1. Waiting = <<hand>> \o Ids(inbox)
    BY <1>1, <1>3, WaitingIs
  <2>2. Waiting # <<>> /\ Head(Waiting) = hand /\ Tail(Waiting) = Ids(inbox)
    BY <2>1, WaitingIs, FrontFacts
  <2> QED BY <1>1, <1>2, <2>2 DEF Channel!BreakUnderWay
<1>4. CASE sender # "holding"
  <2>1. hand = 0 /\ Waiting = Ids(inbox)
    BY <1>4, WaitingIs DEF Inv, Session
  <2> QED BY <1>1, <1>2, <2>1 DEF Channel!Break
<1> QED BY <1>3, <1>4

LEMMA SentDelivers == ASSUME Inv, Sent PROVE Channel!Deliver
<1>1. /\ sender = "holding" /\ open /\ sender' = "idle"
      /\ delivered' = Append(delivered, hand)
      /\ UNCHANGED <<open, lost, inbox, accepted>>
  BY DEF Sent, sessionVars
<1>2. Waiting = <<hand>> \o Ids(inbox)
  BY <1>1, WaitingIs
<1>3. Waiting # <<>> /\ Head(Waiting) = hand /\ Tail(Waiting) = Ids(inbox)
  BY <1>2, WaitingIs, FrontFacts
<1>4. Waiting' = Ids(inbox)
  <2>1. <<>> \o Ids(inbox) = Ids(inbox)
    BY WaitingIs, ConcatEmptySeq
  <2> QED BY <1>1, <2>1 DEF Waiting, UnderWay
<1> QED BY <1>1, <1>3, <1>4 DEF Channel!Deliver

\* A message taken over an open connection is under way; one the process raises
\* over is lost with it; the first one taken over a closed connection is what
\* that connection costs.
LEMMA TakeMaps == ASSUME Inv, Take PROVE [Channel!Next]_Channel!vars
<1>1. /\ sender = "idle" /\ inbox # <<>> /\ inbox' = Tail(inbox)
      /\ UNCHANGED <<accepted, delivered>>
  BY DEF Take
<1>2. PICK m \in Message : m = Head(inbox)
  BY <1>1, TailFacts DEF Inv, Typed
<1>3. m.id \in Nat /\ m.good \in BOOLEAN
  BY DEF Message
<1>4. /\ Waiting = Ids(inbox) /\ Waiting \in Seq(Nat) /\ Waiting # <<>>
      /\ Head(Waiting) = m.id /\ Tail(Waiting) = Ids(inbox')
      /\ Ids(inbox') \in Seq(Nat)
  <2>1. Waiting = Ids(inbox) /\ Waiting \in Seq(Nat) /\ inbox \in Seq(Message)
    BY <1>1, WaitingIs
  <2>2. Waiting # <<>> /\ Head(Waiting) = m.id /\ Tail(Waiting) = Ids(inbox')
    BY <1>1, <1>2, <2>1, IdsTail
  <2> QED BY <2>1, <2>2, TailFacts
<1>5. CASE open /\ m.good
  <2>1. sender' = "holding" /\ hand' = m.id /\ UNCHANGED <<open, lost>>
    BY <1>2, <1>5 DEF Take
  <2>2. Waiting' = <<m.id>> \o Ids(inbox')
    BY <1>5, <2>1 DEF Waiting, UnderWay
  <2>3. Waiting' = Waiting
    BY <1>4, <2>2, HeadInFront
  <2> QED BY <1>1, <2>1, <2>3 DEF Channel!vars
<1>6. CASE open /\ ~m.good
  <2>1. sender' = "done" /\ open' = FALSE /\ lost' = Append(lost, m.id)
    BY <1>2, <1>6 DEF Take, Raise
  <2>2. Waiting' = Ids(inbox')
    <3>1. <<>> \o Ids(inbox') = Ids(inbox')
      BY <1>4, ConcatEmptySeq
    <3> QED BY <2>1, <3>1 DEF Waiting, UnderWay
  <2>3. Channel!BreakUnderWay
    BY <1>1, <1>4, <2>1, <2>2 DEF Channel!BreakUnderWay
  <2> QED BY <2>3 DEF Channel!Next
<1>7. CASE ~open
  <2>1. lost \in Seq(Nat) /\ lost # <<>> /\ lost[Len(lost)] = 0
    BY <1>1, <1>7 DEF Inv, Typed, Session
  <2>2. open' = FALSE /\ lost' = [lost EXCEPT ![Len(lost)] = m.id]
    <3>1. CASE m.good
      BY <1>2, <1>7, <3>1 DEF Take
    <3>2. CASE ~m.good /\ m.id # 0
      BY <1>2, <1>7, <3>2 DEF Take, Raise
    <3>3. CASE ~m.good /\ m.id = 0
      <4>1. [lost EXCEPT ![Len(lost)] = 0] = lost
        BY <2>1
      <4> QED BY <1>2, <1>7, <3>3, <4>1 DEF Take, Raise
    <3> QED BY <3>1, <3>2, <3>3
  <2>3. Waiting' = Ids(inbox')
    <3>1. <<>> \o Ids(inbox') = Ids(inbox')
      BY <1>4, ConcatEmptySeq
    <3> QED BY <2>2, <3>1 DEF Waiting, UnderWay
  <2>4. /\ Waiting[1] = m.id /\ 1 \in 1 .. Len(Waiting)
        /\ Tail(Waiting) = RemoveAt(Waiting, 1)
    BY <1>4, TailFacts, TailRemovesFirst
  <2>5. Len(lost) \in 1 .. Len(lost)
    BY <2>1, TailFacts
  <2>6. Channel!RemoveAt(Waiting, 1) = RemoveAt(Waiting, 1)
    BY DEF RemoveAt, Channel!RemoveAt
  <2>7. Channel!Lose(Len(lost), 1)
    BY <1>1, <1>4, <2>1, <2>2, <2>3, <2>4, <2>6 DEF Channel!Lose
  <2> QED BY <2>4, <2>5, <2>7 DEF Channel!Next
<1> QED BY <1>3, <1>5, <1>6, <1>7

\* A pulling process queues nothing; raising over a frame costs no message.
LEMMA RecvMaps == ASSUME Inv, Recv PROVE [Channel!Next]_Channel!vars
<1>1. /\ puller = "reading" /\ UNCHANGED <<inbox, sender, hand, accepted, delivered>>
  BY DEF Recv, pushVars
<1>2. sender = "none"
  BY <1>1 DEF Inv, Session
<1>3. Waiting' = Waiting
  BY <1>1, <1>2 DEF Waiting, UnderWay
<1>4. lost' = lost \/ lost' = Append(lost, 0)
  <2>1. CASE UNCHANGED lost
    BY <2>1
  <2>2. CASE Raise(0)
    BY <2>2 DEF Raise
  <2>3. UNCHANGED lost \/ Raise(0)
    BY DEF Recv
  <2> QED BY <2>1, <2>2, <2>3
<1>5. CASE lost' = lost
  BY <1>1, <1>3, <1>5 DEF Channel!vars
<1>6. CASE lost' = Append(lost, 0)
  BY <1>1, <1>3, <1>6 DEF Channel!Break, Channel!Next
<1> QED BY <1>4, <1>5, <1>6

\* Nothing of the channel changes when a session begins or ends.
LEMMA SessionStutters ==
  ASSUME Inv, Connect \/ SendControl \/ TaskFails \/ Finish \/ SendFails
  PROVE  UNCHANGED Channel!vars
<1>1. UNCHANGED <<inbox, accepted, delivered, lost>>
  BY DEF Connect, SendControl, TaskFails, Finish, SendFails, pushVars
<1>2. UnderWay = <<>> /\ UnderWay' = <<>>
  <2>1. CASE Connect \/ SendControl
    BY <2>1 DEF Connect, SendControl, pushVars, Inv, Session, UnderWay
  <2>2. CASE TaskFails \/ Finish \/ SendFails
    BY <2>2 DEF TaskFails, Finish, SendFails, pushVars, Inv, Session, UnderWay
  <2> QED BY <2>1, <2>2
<1> QED BY <1>1, <1>2 DEF Channel!vars, Waiting

LEMMA OthersStutter ==
  ASSUME Dequeue \/ Arrive \/ PublishFrame \/ UNCHANGED vars
  PROVE  UNCHANGED Channel!vars
<1>1. UNCHANGED <<open, inbox, sender, hand, accepted, delivered, lost>>
  BY DEF Dequeue, Arrive, PublishFrame, vars, sessionVars, pushVars
<1> QED BY <1>1 DEF Channel!vars, Waiting, UnderWay

LEMMA InitChannel == Init => Channel!Init
<1> SUFFICES ASSUME Init PROVE Channel!Init
  OBVIOUS
<1>1. Ids(<<>>) = <<>>
  <2>1. <<>> \in Seq(Message)
    OBVIOUS
  <2>2. Ids(<<>>) \in Seq(Nat) /\ Len(Ids(<<>>)) = 0
    BY <2>1, IdsTyped
  <2> QED BY <2>2
<1>2. <<>> \o <<>> = <<>>
  BY ConcatEmptySeq
<1>3. Waiting = <<>>
  BY <1>1, <1>2 DEF Init, Waiting, UnderWay
<1> QED BY <1>3 DEF Init, Channel!Init

\* The push loop is a lossy channel: whichever task fails first and whatever
\* _send_to_ws still takes, messages leave in order, none twice, and a session
\* costs at most one.
THEOREM ImplementsChannel == Spec => LossyChannelSpec
<1>1. Init => Channel!Init
  BY InitChannel
<1>2. Inv /\ [Next]_vars => [Channel!Next]_Channel!vars
  <2> SUFFICES ASSUME Inv, [Next]_vars PROVE [Channel!Next]_Channel!vars
    OBVIOUS
  <2>1. CASE Enqueue
    BY <2>1, EnqueueAccepts DEF Channel!Next
  <2>2. CASE Close
    BY <2>2, CloseBreaks DEF Channel!Next
  <2>3. CASE Sent
    BY <2>3, SentDelivers DEF Channel!Next
  <2>4. CASE Take \/ Recv
    BY <2>4, TakeMaps, RecvMaps
  <2>5. CASE Connect \/ SendControl \/ TaskFails \/ Finish \/ SendFails
    BY <2>5, SessionStutters
  <2>6. CASE Dequeue \/ Arrive \/ PublishFrame \/ UNCHANGED vars
    BY <2>6, OthersStutter
  <2> QED BY <2>1, <2>2, <2>3, <2>4, <2>5, <2>6 DEF Next, Environment, Sender
<1> QED BY <1>1, <1>2, SpecInv, PTL DEF Spec, LossyChannelSpec, Channel!Spec
=============================================================================
