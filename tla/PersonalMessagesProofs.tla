----------------------- MODULE PersonalMessagesProofs -----------------------
(* Proofs about PersonalMessages: types and the bounds of the queues, what *)
(* becomes of requests and of their answers, that a client that waits      *)
(* waits for something, and the bound of the stash.                        *)
EXTENDS PersonalMessages, SequenceFacts, FiniteSetTheorems

-----------------------------------------------------------------------------
(* Types *)

Sending(c) == pc[c] \in {"look", "evict", "put"}

\* What a call under way has: listeners still to serve, a request nobody has
\* waited for yet; what a get_request that empties the queue has.
Calls ==
  /\ \A c \in Client : Sending(c) => todo[c] # <<>>
  /\ \A c \in Client : pc[c] # "run" => current[c] \in asked[c]
  /\ \A s \in Service : at[s] # "serve" => latest[s] \in Uid
  /\ \A s \in Service : at[s] = "serve" => latest[s] = NoUid

Shape == TypeOK /\ Calls

LEMMA Constants ==
  /\ Listeners \in Seq(Service) /\ Listeners # <<>> /\ NoService \notin Service
  /\ RequestSize \in Nat \ {0} /\ SystemSize \in Nat \ {0} /\ MaxStash \in Nat
  /\ MaxRequests \in Nat \ {0} /\ MaxLives \in Nat \ {0}
  /\ ClearOnOverflow \subseteq BOOLEAN /\ ClearAll \subseteq BOOLEAN
BY PersonalAssumption

\* One entry of a function replaced.
LEMMA EntryReplaced ==
  ASSUME NEW D, NEW R, NEW f \in [D -> R], NEW d \in D, NEW v \in R
  PROVE  /\ [f EXCEPT ![d] = v] \in [D -> R]
         /\ [f EXCEPT ![d] = v][d] = v
         /\ \A e \in D : e # d => [f EXCEPT ![d] = v][e] = f[e]
OBVIOUS

\* NoUid is not the uid of a request.
LEMMA NoUidIsNone == NoUid \notin Uid
BY Constants DEF NoUid, Uid

LEMMA InitShape == Init => Shape
<1> SUFFICES ASSUME Init
             PROVE  Shape
  OBVIOUS
<1>1. TypeOK
  BY Constants DEF Init, TypeOK
<1>2. Calls
  BY DEF Init, Calls, Sending
<1> QED BY <1>1, <1>2 DEF Shape

LEMMA SendRequestShape ==
  ASSUME Shape, NEW c \in Client, SendRequest(c)
  PROVE  Shape'
<1> DEFINE uid == [client |-> c, life |-> life[c], n |-> made[c] + 1]
<1>1. uid \in Uid /\ made[c] + 1 \in 0 .. MaxRequests
  BY Constants DEF Shape, TypeOK, Uid, SendRequest
<1> HIDE DEF uid
<1>2. PICK clear \in ClearOnOverflow :
        /\ clearing' = [clearing EXCEPT ![c] = clear]
        /\ pc' = [pc EXCEPT ![c] = Turn(clear)]
  BY DEF SendRequest
<1>3. /\ current' = [current EXCEPT ![c] = uid]
      /\ asked' = [asked EXCEPT ![c] = asked[c] \cup {uid}]
      /\ made' = [made EXCEPT ![c] = made[c] + 1]
      /\ todo' = [todo EXCEPT ![c] = Listeners]
      /\ UNCHANGED <<life, stash, requests, at, latest, inHand, responses, answered, lost, returned>>
  BY DEF SendRequest, uid, serviceVars
<1>4. clear \in BOOLEAN /\ Turn(clear) \in {"look", "put"}
  BY <1>2, Constants DEF Turn
<1>5. TypeOK'
  <2>1. current' \in [Client -> Uid \cup {NoUid}] /\ asked' \in [Client -> SUBSET Uid]
    BY <1>1, <1>3 DEF Shape, TypeOK
  <2>2. made' \in [Client -> 0 .. MaxRequests] /\ clearing' \in [Client -> BOOLEAN]
    BY <1>1, <1>2, <1>3, <1>4 DEF Shape, TypeOK
  <2>3. todo' \in [Client -> Seq(Service)]
        /\ pc' \in [Client -> {"run", "look", "evict", "put", "wait"}]
    BY <1>2, <1>3, <1>4, Constants DEF Shape, TypeOK
  <2> QED BY <1>3, <2>1, <2>2, <2>3 DEF Shape, TypeOK
<1>6. Calls'
  <2>1. ASSUME NEW b \in Client
        PROVE  /\ (Sending(b))' => todo'[b] # <<>>
               /\ pc'[b] # "run" => current'[b] \in asked'[b]
    <3>1. CASE b = c
      BY <1>3, <3>1, Constants DEF Shape, TypeOK
    <3>2. CASE b # c
      BY <1>2, <1>3, <3>2 DEF Shape, TypeOK, Calls, Sending
    <3> QED BY <3>1, <3>2
  <2> QED BY <1>3, <2>1 DEF Shape, Calls
<1> QED BY <1>5, <1>6 DEF Shape

LEMMA LookFullShape ==
  ASSUME Shape, NEW c \in Client, LookFull(c)
  PROVE  Shape'
<1>1. PICK v \in {"evict", "put"} : pc' = [pc EXCEPT ![c] = v]
  BY DEF LookFull
<1>2. /\ UNCHANGED <<todo, clearing, current, asked, made, life, stash, requests, at, latest, inHand,
                     responses, answered, lost, returned>>
      /\ pc[c] = "look"
  BY DEF LookFull, serviceVars
<1>3. TypeOK'
  BY <1>1, <1>2 DEF Shape, TypeOK
<1>4. Calls'
  BY <1>1, <1>2 DEF Shape, TypeOK, Calls, Sending
<1> QED BY <1>3, <1>4 DEF Shape

\* A get() of somebody leaves a shorter queue.
LEMMA TakenShape ==
  ASSUME TypeOK, NEW s \in Service, requests[s] # <<>>
  PROVE  /\ Head(requests[s]) \in Uid
         /\ ToSet(requests[s]) = {Head(requests[s])} \cup ToSet(Tail(requests[s]))
         /\ [requests EXCEPT ![s] = Tail(requests[s])] \in [Service -> Seq(Uid)]
         /\ \A r \in Service : Len([requests EXCEPT ![s] = Tail(requests[s])][r]) <= RequestSize
<1>1. requests \in [Service -> Seq(Uid)] /\ requests[s] \in Seq(Uid)
      /\ \A r \in Service : Len(requests[r]) <= RequestSize
  BY DEF TypeOK
<1>2. /\ Head(requests[s]) \in Uid /\ Tail(requests[s]) \in Seq(Uid)
      /\ Len(Tail(requests[s])) = Len(requests[s]) - 1 /\ Len(requests[s]) \in Nat
      /\ ToSet(requests[s]) = {Head(requests[s])} \cup ToSet(Tail(requests[s]))
  BY <1>1, TailFacts, ToSetTail
<1> DEFINE q == [requests EXCEPT ![s] = Tail(requests[s])]
<1>3. q \in [Service -> Seq(Uid)] /\ q[s] = Tail(requests[s])
      /\ \A r \in Service : r # s => q[r] = requests[r]
  BY <1>1, <1>2
<1> HIDE DEF q
<1>4. Len(q[s]) <= RequestSize
  BY <1>1, <1>2, <1>3, Constants
<1>5. \A r \in Service : Len(q[r]) <= RequestSize
  BY <1>1, <1>3, <1>4
<1> QED BY <1>2, <1>3, <1>5 DEF q

LEMMA EvictShape ==
  ASSUME Shape, NEW c \in Client, Evict(c)
  PROVE  Shape'
<1> DEFINE s == Head(todo[c])
<1>1. s \in Service
  <2>1. todo[c] \in Seq(Service) /\ todo[c] # <<>>
    BY DEF Shape, TypeOK, Calls, Evict, Sending
  <2> QED BY <2>1, TailFacts
<1>2. /\ requests[s] # <<>>
      /\ lost' = lost \cup {[uid |-> Head(requests[s]), by |-> s]}
      /\ requests' = [requests EXCEPT ![s] = Tail(requests[s])]
      /\ pc' = [pc EXCEPT ![c] = "look"] /\ pc[c] = "evict"
      /\ UNCHANGED <<todo, clearing, current, asked, made, life, stash, at, latest, inHand,
                     responses, answered, returned>>
  BY DEF Evict, serviceVars
<1> HIDE DEF s
<1>3. /\ Head(requests[s]) \in Uid /\ requests' \in [Service -> Seq(Uid)]
      /\ \A r \in Service : Len(requests'[r]) <= RequestSize
  BY <1>1, <1>2, TakenShape DEF Shape
<1>4. lost' \subseteq Answer
  BY <1>1, <1>2, <1>3 DEF Shape, TypeOK, Answer
<1>5. TypeOK'
  BY <1>2, <1>3, <1>4 DEF Shape, TypeOK
<1>6. Calls'
  BY <1>2 DEF Shape, TypeOK, Calls, Sending
<1> QED BY <1>5, <1>6 DEF Shape

LEMMA PutRequestShape ==
  ASSUME Shape, NEW c \in Client, PutRequest(c)
  PROVE  Shape'
<1> DEFINE s == Head(todo[c])
<1>1. /\ todo[c] \in Seq(Service) /\ todo[c] # <<>> /\ current[c] \in asked[c]
      /\ current[c] \in Uid /\ clearing[c] \in BOOLEAN
  BY DEF Shape, TypeOK, Calls, Sending, PutRequest
<1>2. s \in Service /\ Tail(todo[c]) \in Seq(Service)
      /\ Len(todo[c]) \in Nat \ {0} /\ Len(Tail(todo[c])) = Len(todo[c]) - 1
  BY <1>1, TailFacts
<1>3. requests[s] \in Seq(Uid)
  BY <1>2 DEF Shape, TypeOK
<1>4. /\ Append(requests[s], current[c]) \in Seq(Uid)
      /\ Len(Append(requests[s], current[c])) = Len(requests[s]) + 1
      /\ Len(requests[s]) \in Nat
  BY <1>1, <1>3, AppendFacts
<1>5. /\ requests' = [requests EXCEPT ![s] = Append(requests[s], current[c])]
      /\ todo' = [todo EXCEPT ![c] = Tail(todo[c])]
      /\ pc' = [pc EXCEPT ![c] = IF Len(todo[c]) = 1 THEN "run" ELSE Turn(clearing[c])]
      /\ Len(requests[s]) < RequestSize /\ pc[c] = "put"
      /\ UNCHANGED <<clearing, current, asked, made, life, stash, at, latest, inHand, responses,
                     answered, lost, returned>>
  BY DEF PutRequest, serviceVars
<1> HIDE DEF s
<1>6. TypeOK'
  <2>1. requests' \in [Service -> Seq(Uid)]
    BY <1>2, <1>4, <1>5 DEF Shape, TypeOK
  <2>2. \A r \in Service : Len(requests'[r]) <= RequestSize
    BY <1>2, <1>4, <1>5, Constants DEF Shape, TypeOK
  <2>3. todo' \in [Client -> Seq(Service)]
        /\ pc' \in [Client -> {"run", "look", "evict", "put", "wait"}]
    BY <1>2, <1>5 DEF Shape, TypeOK, Turn
  <2> QED BY <1>5, <2>1, <2>2, <2>3 DEF Shape, TypeOK
<1>7. Calls'
  <2>1. ASSUME Tail(todo[c]) = <<>>
        PROVE  Len(todo[c]) = 1
    <3>0. \A q \in Seq(Service) : q = <<>> => Len(q) = 0
      BY EmptySeq
    <3>1. Len(Tail(todo[c])) = 0
      BY <1>2, <2>1, <3>0
    <3> DEFINE n == Len(todo[c])
               k == Len(Tail(todo[c]))
    <3>2. n \in Nat /\ k = n - 1 /\ k = 0
      BY <1>2, <3>1
    <3> HIDE DEF n, k
    <3>3. n = 1
      BY <3>2
    <3> QED BY <3>3 DEF n
  <2>2. ASSUME NEW b \in Client
        PROVE  /\ (Sending(b))' => todo'[b] # <<>>
               /\ pc'[b] # "run" => current'[b] \in asked'[b]
    <3>1. CASE b = c
      BY <1>1, <1>5, <2>1, <3>1 DEF Shape, TypeOK, Sending
    <3>2. CASE b # c
      BY <1>5, <3>2 DEF Shape, TypeOK, Calls, Sending
    <3> QED BY <3>1, <3>2
  <2> QED BY <1>5, <2>2 DEF Shape, Calls
<1> QED BY <1>6, <1>7 DEF Shape

\* A client that is answered: one uid less to wait for, one answer more.
LEMMA ReturnShape ==
  ASSUME TypeOK, NEW c \in Client, NEW a \in Answer, Return(c, a)
  PROVE  /\ asked' \in [Client -> SUBSET Uid] /\ returned' \in [Client -> SUBSET Answer]
         /\ \A b \in Client : b # c => asked'[b] = asked[b] /\ returned'[b] = returned[b]
         /\ asked'[c] = asked[c] \ {a.uid} /\ returned'[c] = returned[c] \cup {a}
<1> DEFINE fewer == asked[c] \ {a.uid}
           more == returned[c] \cup {a}
<1>1. /\ asked \in [Client -> SUBSET Uid] /\ returned \in [Client -> SUBSET Answer]
      /\ fewer \in SUBSET Uid /\ more \in SUBSET Answer
  BY DEF TypeOK
<1>2. asked' = [asked EXCEPT ![c] = fewer] /\ returned' = [returned EXCEPT ![c] = more]
  BY DEF Return
<1>3. asked' \in [Client -> SUBSET Uid] /\ asked'[c] = fewer
      /\ \A b \in Client : b # c => asked'[b] = asked[b]
  <2> HIDE DEF fewer
  <2> QED BY <1>1, <1>2, EntryReplaced
<1>4. returned' \in [Client -> SUBSET Answer] /\ returned'[c] = more
      /\ \A b \in Client : b # c => returned'[b] = returned[b]
  <2> HIDE DEF more
  <2> QED BY <1>1, <1>2, EntryReplaced
<1> QED BY <1>3, <1>4

\* One entry of the dictionary of a client replaced.
LEMMA StashShape ==
  ASSUME TypeOK, NEW c \in Client, NEW uid \in Uid, NEW v \in Service \cup {NoService},
         stash' = [stash EXCEPT ![c][uid] = v]
  PROVE  /\ stash' \in [Client -> [Uid -> Service \cup {NoService}]]
         /\ \A b \in Client : b # c => stash'[b] = stash[b]
         /\ stash'[c][uid] = v
         /\ \A u \in Uid : u # uid => stash'[c][u] = stash[c][u]
<1> DEFINE D == [Uid -> Service \cup {NoService}]
           d == [stash[c] EXCEPT ![uid] = v]
<1>1. stash \in [Client -> D] /\ stash[c] \in D
  BY DEF TypeOK
<1>2. d \in D /\ d[uid] = v /\ \A u \in Uid : u # uid => d[u] = stash[c][u]
  BY <1>1
<1>3. stash' = [stash EXCEPT ![c] = d]
  OBVIOUS
<1> HIDE DEF d, D
<1>4. stash' \in [Client -> D]
  BY <1>1, <1>2, <1>3
<1>5. stash'[c] = d
  BY <1>1, <1>3
<1>6. \A b \in Client : b # c => stash'[b] = stash[b]
  BY <1>1, <1>3
<1> QED BY <1>2, <1>4, <1>5, <1>6 DEF D

LEMMA WaitResponseShape ==
  ASSUME Shape, NEW c \in Client, WaitResponse(c)
  PROVE  Shape'
<1>1. PICK uid \in asked[c] :
        /\ current' = [current EXCEPT ![c] = uid]
        /\ IF uid \in Stashed(c)
           THEN /\ Return(c, [uid |-> uid, by |-> stash[c][uid]])
                /\ stash' = [stash EXCEPT ![c][uid] = NoService]
                /\ UNCHANGED pc
           ELSE /\ pc' = [pc EXCEPT ![c] = "wait"]
                /\ UNCHANGED <<asked, stash, returned>>
  BY DEF WaitResponse
<1>2. uid \in Uid /\ pc[c] = "run"
      /\ UNCHANGED <<todo, clearing, made, life, requests, at, latest, inHand, responses, answered, lost>>
  BY DEF Shape, TypeOK, WaitResponse, serviceVars
<1>3. current' \in [Client -> Uid \cup {NoUid}]
  BY <1>1, <1>2 DEF Shape, TypeOK
<1>4. CASE uid \in Stashed(c)
  <2> DEFINE a == [uid |-> uid, by |-> stash[c][uid]]
  <2>1. a \in Answer
    BY <1>2, <1>4 DEF Shape, TypeOK, Stashed, Answer
  <2>2. Return(c, a) /\ pc' = pc /\ stash' = [stash EXCEPT ![c][uid] = NoService]
    BY <1>1, <1>4
  <2> HIDE DEF a
  <2>3. asked' \in [Client -> SUBSET Uid] /\ returned' \in [Client -> SUBSET Answer]
        /\ \A b \in Client : b # c => asked'[b] = asked[b]
    BY <2>1, <2>2, ReturnShape DEF Shape
  <2>4. stash' \in [Client -> [Uid -> Service \cup {NoService}]]
    BY <1>2, <2>2, StashShape DEF Shape
  <2>5. TypeOK'
    BY <1>2, <1>3, <2>2, <2>3, <2>4 DEF Shape, TypeOK
  <2>6. Calls'
    BY <1>1, <1>2, <2>2, <2>3 DEF Shape, TypeOK, Calls, Sending
  <2> QED BY <2>5, <2>6 DEF Shape
<1>5. CASE uid \notin Stashed(c)
  <2>1. TypeOK'
    BY <1>1, <1>2, <1>3, <1>5 DEF Shape, TypeOK
  <2>2. Calls'
    BY <1>1, <1>2, <1>5 DEF Shape, TypeOK, Calls, Sending
  <2> QED BY <2>1, <2>2 DEF Shape
<1> QED BY <1>4, <1>5

LEMMA ReceiveShape ==
  ASSUME Shape, NEW c \in Client, Receive(c)
  PROVE  Shape'
<1> DEFINE got == Head(responses[c])
<1>1. /\ responses[c] \in Seq(Answer) /\ responses[c] # <<>> /\ pc[c] = "wait"
      /\ Len(responses[c]) <= SystemSize
  BY DEF Shape, TypeOK, Receive
<1>2. /\ got \in Answer /\ Tail(responses[c]) \in Seq(Answer)
      /\ Len(Tail(responses[c])) = Len(responses[c]) - 1 /\ Len(responses[c]) \in Nat
  BY <1>1, TailFacts
<1>3. got.uid \in Uid /\ got.by \in Service
  BY <1>2 DEF Answer
<1>4. /\ responses' = [responses EXCEPT ![c] = Tail(responses[c])]
      /\ UNCHANGED <<todo, clearing, current, made, life, requests, at, latest, inHand, answered, lost>>
      /\ IF got.uid = current[c]
         THEN Return(c, got) /\ pc' = [pc EXCEPT ![c] = "run"] /\ UNCHANGED stash
         ELSE stash' = [stash EXCEPT ![c][got.uid] = got.by] /\ UNCHANGED <<pc, asked, returned>>
  BY DEF Receive, serviceVars
<1> HIDE DEF got
<1>5. /\ responses' \in [Client -> Seq(Answer)]
      /\ \A b \in Client : Len(responses'[b]) <= SystemSize
  <2>1. \A b \in Client : b # c => responses'[b] = responses[b]
    BY <1>4 DEF Shape, TypeOK
  <2>2. responses'[c] = Tail(responses[c])
    BY <1>4 DEF Shape, TypeOK
  <2>3. Len(responses'[c]) <= SystemSize
    BY <1>1, <1>2, <2>2, Constants
  <2>4. responses' \in [Client -> Seq(Answer)]
    BY <1>2, <1>4 DEF Shape, TypeOK
  <2> QED BY <2>1, <2>3, <2>4 DEF Shape, TypeOK
<1>6. CASE got.uid = current[c]
  <2>1. asked' \in [Client -> SUBSET Uid] /\ returned' \in [Client -> SUBSET Answer]
        /\ \A b \in Client : b # c => asked'[b] = asked[b]
    BY <1>2, <1>4, <1>6, ReturnShape DEF Shape
  <2>2. TypeOK'
    BY <1>4, <1>5, <1>6, <2>1 DEF Shape, TypeOK
  <2>3. Calls'
    BY <1>4, <1>6, <2>1 DEF Shape, TypeOK, Calls, Sending
  <2> QED BY <2>2, <2>3 DEF Shape
<1>7. CASE got.uid # current[c]
  <2>1. stash' \in [Client -> [Uid -> Service \cup {NoService}]]
    BY <1>3, <1>4, <1>7, StashShape DEF Shape
  <2>2. TypeOK'
    BY <1>4, <1>5, <1>7, <2>1 DEF Shape, TypeOK
  <2>3. Calls'
    BY <1>4, <1>7 DEF Shape, TypeOK, Calls, Sending
  <2> QED BY <2>2, <2>3 DEF Shape
<1> QED BY <1>6, <1>7

LEMMA RebornShape ==
  ASSUME Shape, NEW c \in Client, Reborn(c)
  PROVE  Shape'
<1>1. /\ life[c] < MaxLives
      /\ life' = [life EXCEPT ![c] = life[c] + 1]
      /\ pc' = [pc EXCEPT ![c] = "run"]
      /\ todo' = [todo EXCEPT ![c] = <<>>]
      /\ clearing' = [clearing EXCEPT ![c] = FALSE]
      /\ current' = [current EXCEPT ![c] = NoUid]
      /\ asked' = [asked EXCEPT ![c] = {}]
      /\ made' = [made EXCEPT ![c] = 0]
      /\ stash' = [stash EXCEPT ![c] = [uid \in Uid |-> NoService]]
      /\ UNCHANGED <<requests, at, latest, inHand, responses, answered, lost, returned>>
  BY DEF Reborn, serviceVars
<1>2. TypeOK'
  <2>1. life' \in [Client -> 1 .. MaxLives] /\ made' \in [Client -> 0 .. MaxRequests]
    BY <1>1, Constants DEF Shape, TypeOK
  <2>2. /\ pc' \in [Client -> {"run", "look", "evict", "put", "wait"}]
        /\ todo' \in [Client -> Seq(Service)] /\ clearing' \in [Client -> BOOLEAN]
        /\ current' \in [Client -> Uid \cup {NoUid}] /\ asked' \in [Client -> SUBSET Uid]
    BY <1>1 DEF Shape, TypeOK
  <2>3. stash' \in [Client -> [Uid -> Service \cup {NoService}]]
    <3> DEFINE D == [Uid -> Service \cup {NoService}]
               d == [uid \in Uid |-> NoService]
    <3>1. d \in D /\ stash \in [Client -> D] /\ stash' = [stash EXCEPT ![c] = d]
      BY <1>1 DEF Shape, TypeOK
    <3> HIDE DEF d, D
    <3>2. stash' \in [Client -> D]
      BY <3>1
    <3> QED BY <3>2 DEF D
  <2> QED BY <1>1, <2>1, <2>2, <2>3 DEF Shape, TypeOK
<1>3. Calls'
  BY <1>1 DEF Shape, TypeOK, Calls, Sending
<1> QED BY <1>2, <1>3 DEF Shape

LEMMA OverflowShape ==
  ASSUME Shape, NEW c \in Client, Overflow(c)
  PROVE  Shape'
<1>1. CASE Reborn(c)
  BY <1>1, RebornShape
<1>2. CASE /\ pc' = [pc EXCEPT ![c] = "run"]
           /\ UNCHANGED <<todo, clearing, current, asked, made, life, stash, requests, serviceVars,
                          responses, answered, lost, returned>>
  BY <1>2 DEF serviceVars, Shape, TypeOK, Calls, Sending
<1> QED BY <1>1, <1>2 DEF Overflow

LEMMA GetRequestShape ==
  ASSUME Shape, NEW s \in Service, GetRequest(s)
  PROVE  Shape'
<1> DEFINE u0 == Head(requests[s])
<1>1. /\ requests[s] # <<>>
      /\ requests' = [requests EXCEPT ![s] = Tail(requests[s])]
      /\ \/ /\ latest' = [latest EXCEPT ![s] = u0] /\ at' = [at EXCEPT ![s] = "look"]
            /\ inHand' = inHand
         \/ /\ inHand' = [inHand EXCEPT ![s] = inHand[s] \cup {u0}]
            /\ at' = at /\ latest' = latest
      /\ UNCHANGED <<pc, todo, clearing, current, asked, made, life, stash, responses, answered, lost,
                     returned>>
  BY DEF GetRequest, clientVars
<1>2. /\ u0 \in Uid /\ requests' \in [Service -> Seq(Uid)]
      /\ \A r \in Service : Len(requests'[r]) <= RequestSize
  BY <1>1, TakenShape DEF Shape
<1> HIDE DEF u0
<1>3. /\ latest' \in [Service -> Uid \cup {NoUid}] /\ at' \in [Service -> {"serve", "look", "get"}]
      /\ inHand' \in [Service -> SUBSET Uid]
  <2>1. latest' \in [Service -> Uid \cup {NoUid}]
    BY <1>1, <1>2 DEF Shape, TypeOK
  <2>2. at' \in [Service -> {"serve", "look", "get"}]
    BY <1>1 DEF Shape, TypeOK
  <2>3. inHand' \in [Service -> SUBSET Uid]
    <3> DEFINE more == inHand[s] \cup {u0}
    <3>1. inHand \in [Service -> SUBSET Uid] /\ more \in SUBSET Uid
      BY <1>2 DEF Shape, TypeOK
    <3>2. inHand' = [inHand EXCEPT ![s] = more] \/ inHand' = inHand
      BY <1>1
    <3> HIDE DEF more
    <3> QED BY <3>1, <3>2
  <2> QED BY <2>1, <2>2, <2>3
<1>4. TypeOK'
  BY <1>1, <1>2, <1>3 DEF Shape, TypeOK
<1>5. Calls'
  BY <1>1, <1>2 DEF Shape, TypeOK, Calls, Sending
<1> QED BY <1>4, <1>5 DEF Shape

LEMMA LookEmptyShape ==
  ASSUME Shape, NEW s \in Service, LookEmpty(s)
  PROVE  Shape'
<1>1. /\ at[s] = "look"
      /\ \/ /\ inHand' = [inHand EXCEPT ![s] = inHand[s] \cup {latest[s]}]
            /\ latest' = [latest EXCEPT ![s] = NoUid] /\ at' = [at EXCEPT ![s] = "serve"]
         \/ at' = [at EXCEPT ![s] = "get"] /\ inHand' = inHand /\ latest' = latest
      /\ UNCHANGED <<pc, todo, clearing, current, asked, made, life, stash, requests, responses,
                     answered, lost, returned>>
  BY DEF LookEmpty, clientVars
<1>2. latest[s] \in Uid
  BY <1>1 DEF Shape, Calls
<1>3. /\ latest' \in [Service -> Uid \cup {NoUid}] /\ at' \in [Service -> {"serve", "look", "get"}]
      /\ inHand' \in [Service -> SUBSET Uid]
  <2>1. latest' \in [Service -> Uid \cup {NoUid}]
    BY <1>1, <1>2 DEF Shape, TypeOK
  <2>2. at' \in [Service -> {"serve", "look", "get"}]
    BY <1>1 DEF Shape, TypeOK
  <2>3. inHand' \in [Service -> SUBSET Uid]
    <3> DEFINE more == inHand[s] \cup {latest[s]}
    <3>1. inHand \in [Service -> SUBSET Uid] /\ more \in SUBSET Uid
      BY <1>2 DEF Shape, TypeOK
    <3>2. inHand' = [inHand EXCEPT ![s] = more] \/ inHand' = inHand
      BY <1>1
    <3> HIDE DEF more
    <3> QED BY <3>1, <3>2
  <2> QED BY <2>1, <2>2, <2>3
<1>4. TypeOK'
  BY <1>1, <1>3 DEF Shape, TypeOK
<1>5. Calls'
  BY <1>1, <1>2 DEF Shape, TypeOK, Calls, Sending
<1> QED BY <1>4, <1>5 DEF Shape

LEMMA GetLaterShape ==
  ASSUME Shape, NEW s \in Service, GetLater(s)
  PROVE  Shape'
<1> DEFINE u0 == Head(requests[s])
<1>1. /\ requests[s] # <<>> /\ at[s] = "get"
      /\ lost' = lost \cup {[uid |-> latest[s], by |-> s]}
      /\ latest' = [latest EXCEPT ![s] = u0]
      /\ requests' = [requests EXCEPT ![s] = Tail(requests[s])]
      /\ at' = [at EXCEPT ![s] = "look"]
      /\ UNCHANGED <<pc, todo, clearing, current, asked, made, life, stash, inHand, responses,
                     answered, returned>>
  BY DEF GetLater, clientVars
<1>2. /\ u0 \in Uid /\ requests' \in [Service -> Seq(Uid)]
      /\ \A r \in Service : Len(requests'[r]) <= RequestSize
  BY <1>1, TakenShape DEF Shape
<1> HIDE DEF u0
<1>3. lost' \subseteq Answer
  BY <1>1 DEF Shape, TypeOK, Calls, Answer
<1>4. latest' \in [Service -> Uid \cup {NoUid}] /\ at' \in [Service -> {"serve", "look", "get"}]
  BY <1>1, <1>2 DEF Shape, TypeOK
<1>5. TypeOK'
  BY <1>1, <1>2, <1>3, <1>4 DEF Shape, TypeOK
<1>6. Calls'
  BY <1>1, <1>2 DEF Shape, TypeOK, Calls, Sending
<1> QED BY <1>5, <1>6 DEF Shape

LEMMA RespondToShape ==
  ASSUME Shape, NEW s \in Service, NEW uid \in inHand[s], RespondTo(s, uid)
  PROVE  Shape'
<1> DEFINE c == uid.client
           a == [uid |-> uid, by |-> s]
<1>0. uid \in Uid
  BY DEF Shape, TypeOK
<1>1. c \in Client /\ a \in Answer
  BY <1>0 DEF Uid, Answer
<1>2. /\ Len(responses[c]) < SystemSize
      /\ responses' = [responses EXCEPT ![c] = Append(responses[c], a)]
      /\ answered' = answered \cup {a}
      /\ inHand' = [inHand EXCEPT ![s] = inHand[s] \ {uid}]
      /\ UNCHANGED <<pc, todo, clearing, current, asked, made, life, stash, requests, at, latest, lost,
                     returned>>
  BY DEF RespondTo, clientVars
<1> HIDE DEF c, a
<1>3. /\ Append(responses[c], a) \in Seq(Answer)
      /\ Len(Append(responses[c], a)) = Len(responses[c]) + 1 /\ Len(responses[c]) \in Nat
  <2>1. responses[c] \in Seq(Answer)
    BY <1>1 DEF Shape, TypeOK
  <2> QED BY <1>1, <2>1, AppendFacts
<1>4. /\ \A b \in Client : b # c => responses'[b] = responses[b]
      /\ responses'[c] = Append(responses[c], a)
  BY <1>1, <1>2 DEF Shape, TypeOK
<1>5. Len(responses'[c]) <= SystemSize
  BY <1>2, <1>3, <1>4, Constants
<1>6. \A b \in Client : Len(responses'[b]) <= SystemSize
  BY <1>4, <1>5 DEF Shape, TypeOK
<1>7. responses' \in [Client -> Seq(Answer)] /\ inHand' \in [Service -> SUBSET Uid]
      /\ answered' \subseteq Answer
  BY <1>1, <1>2, <1>3 DEF Shape, TypeOK
<1>8. TypeOK'
  BY <1>2, <1>6, <1>7 DEF Shape, TypeOK
<1>9. Calls'
  BY <1>2 DEF Shape, Calls, Sending
<1> QED BY <1>8, <1>9 DEF Shape

LEMMA ServiceFailsShape ==
  ASSUME Shape, NEW s \in Service, ServiceFails(s)
  PROVE  Shape'
<1>1. /\ lost' = lost \cup {[uid |-> uid, by |-> s] : uid \in inHand[s]}
      /\ inHand' = [inHand EXCEPT ![s] = {}]
      /\ UNCHANGED <<pc, todo, clearing, current, asked, made, life, stash, requests, at, latest,
                     responses, answered, returned>>
  BY DEF ServiceFails, clientVars
<1>2. lost' \subseteq Answer
  BY <1>1 DEF Shape, TypeOK, Answer
<1>3. TypeOK'
  BY <1>1, <1>2 DEF Shape, TypeOK
<1>4. Calls'
  BY <1>1 DEF Shape, Calls, Sending
<1> QED BY <1>3, <1>4 DEF Shape

LEMMA NextShape == Shape /\ [Next]_vars => Shape'
<1> SUFFICES ASSUME Shape, [Next]_vars
             PROVE  Shape'
  OBVIOUS
<1>1. ASSUME NEW c \in Client, SendStep(c)
      PROVE  Shape'
  BY <1>1, SendRequestShape, LookFullShape, EvictShape, PutRequestShape DEF SendStep
<1>2. ASSUME NEW c \in Client, WaitStep(c) \/ ClientFails(c)
      PROVE  Shape'
  BY <1>2, WaitResponseShape, ReceiveShape, OverflowShape, RebornShape DEF WaitStep, ClientFails
<1>3. ASSUME NEW s \in Service, ServiceStep(s) \/ ServiceFails(s)
      PROVE  Shape'
  BY <1>3, GetRequestShape, LookEmptyShape, GetLaterShape, RespondToShape, ServiceFailsShape
     DEF ServiceStep
<1>4. CASE UNCHANGED vars
  BY <1>4 DEF vars, clientVars, serviceVars, Shape, TypeOK, Calls, Sending
<1> QED BY <1>1, <1>2, <1>3, <1>4 DEF Next

LEMMA SpecShape == Spec => []Shape
BY InitShape, NextShape, PTL DEF Spec

\* Request and system queues keep their sizes, and everything has its type.
THEOREM TypeCorrect == Spec => []TypeOK
BY SpecShape, PTL DEF Shape

-----------------------------------------------------------------------------
(* What a step may do for one client *)

\* The stash and the call of a client: nothing, take out the answer of a call that
\* ends with it, put in one that is not waited for below the limit, start a new
\* life.
StashStep(b) ==
  \/ /\ stash'[b] = stash[b]
     /\ \/ pc'[b] # "wait"
        \/ pc[b] = "wait" /\ current'[b] = current[b]
        \/ current'[b] \notin Stashed(b)
  \/ /\ pc'[b] # "wait"
     /\ \E u \in Uid : stash'[b] = [stash[b] EXCEPT ![u] = NoService]
  \/ /\ pc[b] = "wait" /\ current'[b] = current[b] /\ Cardinality(Stashed(b)) <= MaxStash
     /\ \E a \in Answer : a.uid # current[b] /\ stash'[b] = [stash[b] EXCEPT ![a.uid] = a.by]
  \/ pc'[b] # "wait" /\ stash'[b] = [u \in Uid |-> NoService]

\* What a client has asked for and been given: nothing new, a request, an answer, a
\* new life.
AskStep(b) ==
  \/ /\ asked'[b] = asked[b] /\ returned'[b] = returned[b]
     /\ made'[b] = made[b] /\ life'[b] = life[b]
  \/ /\ returned'[b] = returned[b] /\ made'[b] = made[b] + 1 /\ life'[b] = life[b]
     /\ \E u \in Uid : /\ u.client = b /\ u.life = life[b] /\ u.n = made[b] + 1
                       /\ asked'[b] = asked[b] \cup {u}
  \/ /\ made'[b] = made[b] /\ life'[b] = life[b]
     /\ \E a \in Answer : /\ a.uid \in asked[b] /\ asked'[b] = asked[b] \ {a.uid}
                          /\ returned'[b] = returned[b] \cup {a}
  \/ /\ asked'[b] = {} /\ returned'[b] = returned[b]
     /\ made'[b] = 0 /\ life'[b] = life[b] + 1

\* A client has what it had, or a new life.
HasStep(b) ==
  life'[b] = life[b] => \A u \in Uid : HasAnswer(b, u) => (HasAnswer(b, u))'

ClientStep(b) == StashStep(b) /\ AskStep(b) /\ HasStep(b)

\* A client whose dictionary and answers are left alone.
LEMMA HasUnchanged ==
  ASSUME NEW b \in Client, stash'[b] = stash[b], returned[b] \subseteq returned'[b]
  PROVE  HasStep(b)
BY DEF HasStep, HasAnswer, Stashed

LEMMA Untouched ==
  ASSUME NEW b \in Client, stash'[b] = stash[b], returned'[b] = returned[b],
         asked'[b] = asked[b], made'[b] = made[b], life'[b] = life[b],
         pc'[b] # "wait" \/ (pc[b] = "wait" /\ current'[b] = current[b])
  PROVE  ClientStep(b)
<1>1. HasStep(b)
  BY HasUnchanged
<1> QED BY <1>1 DEF ClientStep, StashStep, AskStep

LEMMA SendClient ==
  ASSUME Shape, NEW c \in Client, SendStep(c), NEW b \in Client
  PROVE  ClientStep(b)
<1>0. /\ pc \in [Client -> {"run", "look", "evict", "put", "wait"}]
      /\ current \in [Client -> Uid \cup {NoUid}] /\ asked \in [Client -> SUBSET Uid]
      /\ made \in [Client -> 0 .. MaxRequests]
  BY DEF Shape, TypeOK
<1>1. UNCHANGED <<life, stash, returned>>
  BY DEF SendStep, SendRequest, LookFull, Evict, PutRequest
<1>2. CASE SendRequest(c)
  <2> DEFINE uid == [client |-> c, life |-> life[c], n |-> made[c] + 1]
  <2>1. uid \in Uid
    BY <1>2, Constants DEF Shape, TypeOK, Uid, SendRequest
  <2>2. /\ asked' = [asked EXCEPT ![c] = asked[c] \cup {uid}]
        /\ made' = [made EXCEPT ![c] = made[c] + 1]
        /\ current' = [current EXCEPT ![c] = uid]
    BY <1>2 DEF SendRequest
  <2>3. uid.client = c /\ uid.life = life[c] /\ uid.n = made[c] + 1
    OBVIOUS
  <2> HIDE DEF uid
  <2>4. PICK v \in {"look", "put"} : pc' = [pc EXCEPT ![c] = v]
    BY <1>2, Constants DEF SendRequest, Turn
  <2>5. CASE b = c
    <3>1. HasStep(b)
      BY <1>1, HasUnchanged
    <3>2. StashStep(b)
      BY <1>0, <1>1, <2>4, <2>5 DEF StashStep
    <3>3. AskStep(b)
      <4>1. asked'[b] = asked[b] \cup {uid} /\ made'[b] = made[b] + 1
        BY <1>0, <2>2, <2>5
      <4> QED BY <1>1, <2>1, <2>3, <2>5, <4>1 DEF AskStep
    <3> QED BY <3>1, <3>2, <3>3 DEF ClientStep
  <2>6. CASE b # c
    BY <1>0, <1>1, <2>2, <2>4, <2>6, Untouched
  <2> QED BY <2>5, <2>6
<1>3. CASE LookFull(c) \/ Evict(c) \/ PutRequest(c)
  <2>1. UNCHANGED <<asked, made, current>>
    BY <1>3 DEF LookFull, Evict, PutRequest
  <2>2. PICK v \in {"run", "look", "evict", "put"} : pc' = [pc EXCEPT ![c] = v]
    <3>1. Turn(clearing[c]) \in {"look", "put"}
      BY DEF Turn
    <3> QED BY <1>3, <3>1 DEF LookFull, Evict, PutRequest
  <2> QED BY <1>0, <1>1, <2>1, <2>2, Untouched
<1> QED BY <1>2, <1>3 DEF SendStep

LEMMA WaitClient ==
  ASSUME Shape, NEW c \in Client, WaitResponse(c), NEW b \in Client
  PROVE  ClientStep(b)
<1>0. /\ pc \in [Client -> {"run", "look", "evict", "put", "wait"}]
      /\ current \in [Client -> Uid \cup {NoUid}] /\ asked \in [Client -> SUBSET Uid]
  BY DEF Shape, TypeOK
<1>1. PICK uid \in asked[c] :
        /\ current' = [current EXCEPT ![c] = uid]
        /\ IF uid \in Stashed(c)
           THEN /\ Return(c, [uid |-> uid, by |-> stash[c][uid]])
                /\ stash' = [stash EXCEPT ![c][uid] = NoService]
                /\ UNCHANGED pc
           ELSE /\ pc' = [pc EXCEPT ![c] = "wait"]
                /\ UNCHANGED <<asked, stash, returned>>
  BY DEF WaitResponse
<1>2. uid \in Uid /\ pc[c] = "run" /\ UNCHANGED <<made, life>>
  BY <1>0 DEF WaitResponse
<1>3. CASE uid \notin Stashed(c)
  <2>1. CASE b # c
    BY <1>0, <1>1, <1>2, <1>3, <2>1, Untouched
  <2>2. CASE b = c
    <3>1. HasStep(b)
      BY <1>1, <1>3, HasUnchanged
    <3>2. StashStep(b)
      BY <1>0, <1>1, <1>3, <2>2 DEF StashStep
    <3> QED BY <1>1, <1>2, <1>3, <3>1, <3>2 DEF ClientStep, AskStep
  <2> QED BY <2>1, <2>2
<1>4. CASE uid \in Stashed(c)
  <2> DEFINE a == [uid |-> uid, by |-> stash[c][uid]]
  <2>1. a \in Answer /\ a.uid = uid
    BY <1>2, <1>4 DEF Shape, TypeOK, Stashed, Answer
  <2>2. Return(c, a) /\ pc' = pc /\ stash' = [stash EXCEPT ![c][uid] = NoService]
    BY <1>1, <1>4
  <2> HIDE DEF a
  <2>3. /\ \A d \in Client : d # c => asked'[d] = asked[d] /\ returned'[d] = returned[d]
        /\ asked'[c] = asked[c] \ {uid} /\ returned'[c] = returned[c] \cup {a}
    BY <2>1, <2>2, ReturnShape DEF Shape
  <2>4. /\ \A d \in Client : d # c => stash'[d] = stash[d]
        /\ \A u \in Uid : u # uid => stash'[c][u] = stash[c][u]
    BY <1>2, <2>2, StashShape DEF Shape
  <2>5. stash'[c] = [stash[c] EXCEPT ![uid] = NoService]
    BY <2>2 DEF Shape, TypeOK
  <2>6. CASE b # c
    BY <1>0, <1>1, <1>2, <2>2, <2>3, <2>4, <2>6, Untouched
  <2>7. CASE b = c
    <3>1. StashStep(b)
      BY <1>2, <2>2, <2>5, <2>7 DEF StashStep
    <3>2. AskStep(b)
      BY <1>2, <2>1, <2>3, <2>7 DEF AskStep
    <3>3. ASSUME NEW u \in Uid, HasAnswer(c, u)
          PROVE  (HasAnswer(c, u))'
      <4>1. CASE u = uid
        <5>1. a \in returned'[c] /\ a = [uid |-> u, by |-> a.by] /\ a.by \in Service
          BY <2>1, <2>3, <4>1 DEF Answer
        <5> QED BY <5>1 DEF HasAnswer
      <4>2. CASE u # uid
        BY <2>3, <2>4, <3>3, <4>2 DEF HasAnswer, Stashed
      <4> QED BY <4>1, <4>2
    <3> QED BY <2>7, <3>1, <3>2, <3>3 DEF ClientStep, HasStep
  <2> QED BY <2>6, <2>7
<1> QED BY <1>3, <1>4

LEMMA ReceiveClient ==
  ASSUME Shape, NEW c \in Client, Receive(c), NEW b \in Client
  PROVE  ClientStep(b)
<1>0. /\ pc \in [Client -> {"run", "look", "evict", "put", "wait"}]
      /\ asked \in [Client -> SUBSET Uid]
  BY DEF Shape, TypeOK
<1> DEFINE got == Head(responses[c])
<1>1. got \in Answer
  <2>1. responses[c] \in Seq(Answer) /\ responses[c] # <<>>
    BY DEF Shape, TypeOK, Receive
  <2> QED BY <2>1, TailFacts
<1>2. got.uid \in Uid /\ got.by \in Service /\ got = [uid |-> got.uid, by |-> got.by]
  BY <1>1 DEF Answer
<1>3. /\ pc[c] = "wait" /\ Cardinality(Stashed(c)) <= MaxStash
      /\ UNCHANGED <<current, made, life>>
      /\ IF got.uid = current[c]
         THEN Return(c, got) /\ pc' = [pc EXCEPT ![c] = "run"] /\ UNCHANGED stash
         ELSE stash' = [stash EXCEPT ![c][got.uid] = got.by] /\ UNCHANGED <<pc, asked, returned>>
  BY DEF Receive
<1>4. current[c] \in asked[c]
  BY <1>3 DEF Shape, Calls
<1> HIDE DEF got
<1>5. CASE got.uid = current[c]
  <2>1. /\ \A d \in Client : d # c => asked'[d] = asked[d] /\ returned'[d] = returned[d]
        /\ asked'[c] = asked[c] \ {got.uid} /\ returned'[c] = returned[c] \cup {got}
    BY <1>1, <1>3, <1>5, ReturnShape DEF Shape
  <2>2. CASE b # c
    BY <1>0, <1>3, <1>5, <2>1, <2>2, Untouched
  <2>3. CASE b = c
    <3>1. HasStep(b)
      BY <1>3, <1>5, <2>1, <2>3, HasUnchanged
    <3>2. StashStep(b)
      BY <1>0, <1>3, <1>5, <2>3 DEF StashStep
    <3>3. AskStep(b)
      BY <1>1, <1>3, <1>4, <1>5, <2>1, <2>3 DEF AskStep
    <3> QED BY <3>1, <3>2, <3>3 DEF ClientStep
  <2> QED BY <2>2, <2>3
<1>6. CASE got.uid # current[c]
  <2>1. /\ \A d \in Client : d # c => stash'[d] = stash[d]
        /\ stash'[c][got.uid] = got.by
        /\ \A u \in Uid : u # got.uid => stash'[c][u] = stash[c][u]
    BY <1>2, <1>3, <1>6, StashShape DEF Shape
  <2>2. stash'[c] = [stash[c] EXCEPT ![got.uid] = got.by]
    BY <1>3, <1>6 DEF Shape, TypeOK
  <2>3. CASE b # c
    BY <1>0, <1>3, <1>6, <2>1, <2>3, Untouched
  <2>4. CASE b = c
    <3>1. StashStep(b)
      BY <1>1, <1>3, <1>6, <2>2, <2>4 DEF StashStep
    <3>2. AskStep(b)
      BY <1>3, <1>6 DEF AskStep
    <3>3. ASSUME NEW u \in Uid, HasAnswer(c, u)
          PROVE  (HasAnswer(c, u))'
      BY <1>2, <1>3, <1>6, <2>1, <3>3, Constants DEF HasAnswer, Stashed
    <3> QED BY <2>4, <3>1, <3>2, <3>3 DEF ClientStep, HasStep
  <2> QED BY <2>3, <2>4
<1> QED BY <1>5, <1>6

LEMMA RebornClient ==
  ASSUME Shape, NEW c \in Client, Reborn(c), NEW b \in Client
  PROVE  ClientStep(b)
<1>0. /\ pc \in [Client -> {"run", "look", "evict", "put", "wait"}]
      /\ current \in [Client -> Uid \cup {NoUid}] /\ asked \in [Client -> SUBSET Uid]
      /\ made \in [Client -> 0 .. MaxRequests] /\ life \in [Client -> 1 .. MaxLives]
      /\ DOMAIN stash = Client
  BY DEF Shape, TypeOK
<1>1. /\ life' = [life EXCEPT ![c] = life[c] + 1]
      /\ pc' = [pc EXCEPT ![c] = "run"]
      /\ current' = [current EXCEPT ![c] = NoUid]
      /\ asked' = [asked EXCEPT ![c] = {}]
      /\ made' = [made EXCEPT ![c] = 0]
      /\ stash' = [stash EXCEPT ![c] = [uid \in Uid |-> NoService]]
      /\ returned' = returned
  BY DEF Reborn
<1>2. CASE b # c
  BY <1>0, <1>1, <1>2, Untouched
<1>3. CASE b = c
  <2>1. /\ life'[c] = life[c] + 1 /\ pc'[c] = "run" /\ asked'[c] = {} /\ made'[c] = 0
        /\ stash'[c] = [uid \in Uid |-> NoService]
    BY <1>0, <1>1
  <2>2. life'[c] # life[c]
    BY <1>0, <2>1, Constants
  <2> QED BY <1>1, <1>3, <2>1, <2>2 DEF ClientStep, StashStep, AskStep, HasStep
<1> QED BY <1>2, <1>3

LEMMA ClientSteps ==
  ASSUME Shape, [Next]_vars, NEW b \in Client
  PROVE  ClientStep(b)
<1>0. pc \in [Client -> {"run", "look", "evict", "put", "wait"}]
  BY DEF Shape, TypeOK
<1>1. ASSUME NEW c \in Client, Overflow(c)
      PROVE  ClientStep(b)
  <2>1. CASE Reborn(c)
    BY <2>1, RebornClient
  <2>2. CASE /\ pc' = [pc EXCEPT ![c] = "run"]
             /\ UNCHANGED <<todo, clearing, current, asked, made, life, stash, requests, serviceVars,
                            responses, answered, lost, returned>>
    BY <1>0, <2>2, Untouched
  <2> QED BY <1>1, <2>1, <2>2 DEF Overflow
<1>2. ASSUME NEW s \in Service, ServiceStep(s) \/ ServiceFails(s)
      PROVE  ClientStep(b)
  <2>1. UNCHANGED <<pc, current, asked, made, life, stash, returned>>
    BY <1>2 DEF ServiceStep, GetRequest, LookEmpty, GetLater, RespondTo, ServiceFails, clientVars
  <2> QED BY <2>1, Untouched
<1>3. CASE UNCHANGED vars
  <2>1. UNCHANGED <<pc, current, asked, made, life, stash, returned>>
    BY <1>3 DEF vars, clientVars
  <2> QED BY <2>1, Untouched
<1>4. ASSUME NEW c \in Client, WaitStep(c) \/ ClientFails(c)
      PROVE  ClientStep(b)
  BY <1>1, <1>4, WaitClient, ReceiveClient, RebornClient DEF WaitStep, ClientFails
<1> QED BY <1>2, <1>3, <1>4, SendClient DEF Next

-----------------------------------------------------------------------------
(* The stash *)

\* The stash of one client is finite, within its bound, and never holds what is
\* waited for.
StashFits(b) ==
  /\ IsFiniteSet(Stashed(b)) /\ Cardinality(Stashed(b)) <= MaxStash + 1
  /\ pc[b] = "wait" => current[b] \notin Stashed(b)

LEMMA StashKept ==
  ASSUME TypeOK, NEW b \in Client, StashFits(b), StashStep(b)
  PROVE  StashFits(b)'
<1>0. MaxStash \in Nat /\ stash[b] \in [Uid -> Service \cup {NoService}]
  BY Constants DEF TypeOK
<1>1. IsFiniteSet(Stashed(b)) /\ Cardinality(Stashed(b)) \in Nat
      /\ Cardinality(Stashed(b)) <= MaxStash + 1
  BY FS_CardinalityType DEF StashFits
<1>2. CASE stash'[b] = stash[b] /\ \/ pc'[b] # "wait"
                                   \/ pc[b] = "wait" /\ current'[b] = current[b]
                                   \/ current'[b] \notin Stashed(b)
  <2>1. (Stashed(b))' = Stashed(b)
    BY <1>2 DEF Stashed
  <2> QED BY <1>2, <2>1 DEF StashFits
<1>3. ASSUME NEW u \in Uid, pc'[b] # "wait", stash'[b] = [stash[b] EXCEPT ![u] = NoService]
      PROVE  StashFits(b)'
  <2>1. (Stashed(b))' = Stashed(b) \ {u}
    BY <1>0, <1>3 DEF Stashed
  <2>2. IsFiniteSet(Stashed(b) \ {u}) /\ Cardinality(Stashed(b) \ {u}) <= Cardinality(Stashed(b))
    BY <1>1, FS_Subset
  <2>3. Cardinality(Stashed(b) \ {u}) \in Nat
    BY <2>2, FS_CardinalityType
  <2>4. Cardinality(Stashed(b) \ {u}) <= MaxStash + 1
    BY <1>0, <1>1, <2>2, <2>3
  <2> QED BY <1>3, <2>1, <2>2, <2>4 DEF StashFits
<1>4. ASSUME NEW a \in Answer, pc[b] = "wait", current'[b] = current[b], a.uid # current[b],
             Cardinality(Stashed(b)) <= MaxStash, stash'[b] = [stash[b] EXCEPT ![a.uid] = a.by]
      PROVE  StashFits(b)'
  <2>0. a.uid \in Uid /\ a.by \in Service /\ a.by # NoService
    BY Constants DEF Answer
  <2>1. (Stashed(b))' = Stashed(b) \cup {a.uid}
    BY <1>0, <1>4, <2>0 DEF Stashed
  <2>2. IsFiniteSet(Stashed(b) \cup {a.uid})
        /\ Cardinality(Stashed(b) \cup {a.uid})
             \in {Cardinality(Stashed(b)), Cardinality(Stashed(b)) + 1}
    BY <1>1, FS_AddElement
  <2>3. Cardinality(Stashed(b) \cup {a.uid}) <= MaxStash + 1
    BY <1>0, <1>1, <1>4, <2>2
  <2>4. current[b] \notin Stashed(b) \cup {a.uid}
    BY <1>4 DEF StashFits
  <2> QED BY <1>4, <2>1, <2>2, <2>3, <2>4 DEF StashFits
<1>5. CASE pc'[b] # "wait" /\ stash'[b] = [u \in Uid |-> NoService]
  <2>1. (Stashed(b))' = {}
    BY <1>5 DEF Stashed
  <2>2. IsFiniteSet({}) /\ Cardinality({}) = 0
    BY FS_EmptySet
  <2> QED BY <1>0, <1>5, <2>1, <2>2 DEF StashFits
<1> QED BY <1>2, <1>3, <1>4, <1>5 DEF StashStep

LEMMA StashInit == ASSUME Init, NEW b \in Client PROVE StashFits(b)
<1>1. Stashed(b) = {} /\ pc[b] = "run"
  BY DEF Init, Stashed
<1>2. IsFiniteSet({}) /\ Cardinality({}) = 0
  BY FS_EmptySet
<1> QED BY <1>1, <1>2, Constants DEF StashFits

LEMMA SpecStash == Spec => []\A b \in Client : StashFits(b)
<1>1. Init => \A b \in Client : StashFits(b)
  BY StashInit
<1>2. Shape /\ [Next]_vars /\ (\A b \in Client : StashFits(b)) => (\A b \in Client : StashFits(b))'
  BY ClientSteps, StashKept DEF Shape, ClientStep
<1> QED BY <1>1, <1>2, SpecShape, PTL DEF Spec

\* wait_response raises before the stash of answers outgrows its limit by two,
\* in whatever order answers come, also if run() goes on after the overflow
\* (process.py:313-321).
THEOREM StashBounded == Spec => []StashBound
<1>1. (\A b \in Client : StashFits(b)) => StashBound
  BY DEF StashFits, StashBound
<1> QED BY <1>1, SpecStash, PTL

\* The answer a client is blocked for is never in its stash, where it would not
\* be looked for again (process.py:306-321).
THEOREM NeverMissed == Spec => []WaitedNotStashed
<1>1. (\A b \in Client : StashFits(b)) => WaitedNotStashed
  BY DEF StashFits, WaitedNotStashed
<1> QED BY <1>1, SpecStash, PTL

-----------------------------------------------------------------------------
(* The answers *)

\* No uid belongs to a life that has not begun: an answer whose life is the one
\* of its client was not made before that life was.
Known(u, lives) == u.life <= lives[u.client]

Begun ==
  /\ \A c \in Client : \A u \in asked[c] : u.client = c /\ u.life = life[c] /\ u.n <= made[c]
  /\ \A s \in Service : \A u \in ToSet(requests[s]) \cup Holds(s) : Known(u, life)
  /\ \A a \in answered : Known(a.uid, life)

LEMMA LifeGrows ==
  ASSUME Shape, [Next]_vars, NEW u \in Uid, Known(u, life)
  PROVE  Known(u, life')
<1>1. u.client \in Client /\ u.life \in Nat /\ life[u.client] \in Nat
  BY Constants DEF Shape, TypeOK, Uid
<1>2. life'[u.client] = life[u.client] \/ life'[u.client] = life[u.client] + 1
  BY <1>1, ClientSteps DEF ClientStep, AskStep
<1> QED BY <1>1, <1>2 DEF Known

\* Requests come into a queue from a client that is sending them, and into the
\* hands of a service from its queue.
LEMMA WhereFrom ==
  ASSUME Shape, [Next]_vars, NEW s \in Service,
         NEW u \in (ToSet(requests[s]) \cup Holds(s))'
  PROVE  \/ u \in ToSet(requests[s]) \cup Holds(s)
         \/ \E c \in Client : u \in asked[c]
<1>0. /\ requests \in [Service -> Seq(Uid)] /\ inHand \in [Service -> SUBSET Uid]
      /\ latest \in [Service -> Uid \cup {NoUid}]
  BY DEF Shape, TypeOK
<1>1. CASE UNCHANGED <<requests, latest, inHand>>
  BY <1>1 DEF Holds
<1>2. ASSUME NEW c \in Client, PutRequest(c)
      PROVE  u \in ToSet(requests[s]) \cup Holds(s) \/ u \in asked[c]
  <2> DEFINE r == Head(todo[c])
  <2>1. todo[c] \in Seq(Service) /\ todo[c] # <<>> /\ current[c] \in asked[c] /\ current[c] \in Uid
    BY <1>2 DEF Shape, TypeOK, Calls, Sending, PutRequest
  <2>2. r \in Service
    BY <2>1, TailFacts
  <2>3. requests' = [requests EXCEPT ![r] = Append(requests[r], current[c])]
        /\ UNCHANGED <<latest, inHand>>
    BY <1>2 DEF PutRequest, serviceVars
  <2> HIDE DEF r
  <2>4. ToSet(Append(requests[r], current[c])) = ToSet(requests[r]) \cup {current[c]}
    <3>1. requests[r] \in Seq(Uid)
      BY <1>0, <2>2
    <3> QED BY <2>1, <3>1, ToSetAppend
  <2>5. CASE s = r
    BY <1>0, <2>1, <2>2, <2>3, <2>4, <2>5 DEF Holds
  <2>6. CASE s # r
    BY <1>0, <2>2, <2>3, <2>6 DEF Holds
  <2> QED BY <2>5, <2>6
<1>3. ASSUME NEW r \in Service, requests[r] # <<>>,
             requests' = [requests EXCEPT ![r] = Tail(requests[r])],
             \/ UNCHANGED <<latest, inHand>>
             \/ inHand' = inHand /\ latest' = [latest EXCEPT ![r] = Head(requests[r])]
             \/ latest' = latest /\ inHand' = [inHand EXCEPT ![r] = inHand[r] \cup {Head(requests[r])}]
      PROVE  u \in ToSet(requests[s]) \cup Holds(s)
  <2>1. ToSet(requests[r]) = {Head(requests[r])} \cup ToSet(Tail(requests[r]))
    BY <1>3, TakenShape DEF Shape
  <2>2. CASE s = r
    <3>1. requests'[s] = Tail(requests[r])
      BY <1>0, <1>3, <2>2
    <3>2. (Holds(s))' \subseteq Holds(s) \cup {Head(requests[r])}
      BY <1>0, <1>3, <2>2 DEF Holds
    <3> QED BY <2>1, <2>2, <3>1, <3>2
  <2>3. CASE s # r
    BY <1>0, <1>3, <2>3 DEF Holds
  <2> QED BY <2>2, <2>3
<1>4. ASSUME NEW c \in Client, Evict(c)
      PROVE  u \in ToSet(requests[s]) \cup Holds(s)
  <2>1. Head(todo[c]) \in Service
    <3>1. todo[c] \in Seq(Service) /\ todo[c] # <<>>
      BY <1>4 DEF Shape, TypeOK, Calls, Evict, Sending
    <3> QED BY <3>1, TailFacts
  <2> QED BY <1>3, <1>4, <2>1 DEF Evict, serviceVars
<1>5. ASSUME NEW r \in Service, GetRequest(r) \/ GetLater(r)
      PROVE  u \in ToSet(requests[s]) \cup Holds(s)
  BY <1>3, <1>5 DEF GetRequest, GetLater
<1>6. ASSUME NEW r \in Service, LookEmpty(r)
      PROVE  u \in ToSet(requests[s]) \cup Holds(s)
  <2>1. /\ requests' = requests
        /\ \/ /\ inHand' = [inHand EXCEPT ![r] = inHand[r] \cup {latest[r]}]
              /\ latest' = [latest EXCEPT ![r] = NoUid]
           \/ inHand' = inHand /\ latest' = latest
        /\ latest[r] \in Uid
    BY <1>6 DEF LookEmpty, Shape, Calls
  <2> QED BY <1>0, <2>1, NoUidIsNone DEF Holds
<1>7. ASSUME NEW r \in Service, ServiceFails(r) \/ \E uid \in inHand[r] : RespondTo(r, uid)
      PROVE  u \in ToSet(requests[s]) \cup Holds(s)
  <2>1. PICK fewer \in SUBSET inHand[r] : inHand' = [inHand EXCEPT ![r] = fewer]
    BY <1>7 DEF ServiceFails, RespondTo
  <2>2. requests' = requests /\ latest' = latest
    BY <1>7 DEF ServiceFails, RespondTo
  <2> QED BY <1>0, <2>1, <2>2 DEF Holds
<1>8. ASSUME NEW c \in Client, WaitStep(c) \/ ClientFails(c) \/ SendRequest(c) \/ LookFull(c)
      PROVE  UNCHANGED <<requests, latest, inHand>>
  BY <1>8 DEF WaitStep, WaitResponse, Receive, Overflow, ClientFails, Reborn, SendRequest, LookFull,
              serviceVars
<1>9. CASE UNCHANGED vars
  BY <1>1, <1>9 DEF vars, serviceVars
<1> QED BY <1>1, <1>2, <1>4, <1>5, <1>6, <1>7, <1>8, <1>9 DEF Next, SendStep, ServiceStep

\* An answer is put in the queue of the client by a service that has the request.
LEMMA AnswerFrom ==
  ASSUME Shape, [Next]_vars, NEW a \in answered', a \notin answered
  PROVE  /\ a \in Answer /\ a.uid \in inHand[a.by]
         /\ a \in ToSet(responses'[a.uid.client])
<1>0. PICK s \in Service : \E uid \in inHand[s] : RespondTo(s, uid)
  <2>1. ASSUME NEW c \in Client, SendStep(c) \/ WaitStep(c) \/ ClientFails(c)
        PROVE  answered' = answered
    BY <2>1 DEF SendStep, SendRequest, LookFull, Evict, PutRequest, WaitStep, WaitResponse, Receive,
                Overflow, ClientFails, Reborn
  <2>2. ASSUME NEW s \in Service, GetRequest(s) \/ LookEmpty(s) \/ GetLater(s) \/ ServiceFails(s)
        PROVE  answered' = answered
    BY <2>2 DEF GetRequest, LookEmpty, GetLater, ServiceFails
  <2>3. UNCHANGED vars => answered' = answered
    BY DEF vars
  <2> QED BY <2>1, <2>2, <2>3 DEF Next, ServiceStep
<1>1. PICK uid \in inHand[s] : RespondTo(s, uid)
  BY <1>0
<1> DEFINE c == uid.client
           b == [uid |-> uid, by |-> s]
<1>2. uid \in Uid
  BY DEF Shape, TypeOK
<1>3. c \in Client /\ b \in Answer /\ b.uid = uid /\ b.by = s
  BY <1>2 DEF Uid, Answer
<1>4. /\ responses' = [responses EXCEPT ![c] = Append(responses[c], b)]
      /\ answered' = answered \cup {b}
  BY <1>1 DEF RespondTo
<1>5. a = b
  BY <1>4
<1> HIDE DEF b
<1>6. b \in ToSet(Append(responses[c], b))
  <2>1. responses[c] \in Seq(Answer)
    BY <1>3 DEF Shape, TypeOK
  <2>2. ToSet(Append(responses[c], b)) = ToSet(responses[c]) \cup {b}
    BY <1>3, <2>1, ToSetAppend
  <2> QED BY <2>2
<1>7. responses'[c] = Append(responses[c], b)
  BY <1>3, <1>4 DEF Shape, TypeOK
<1> QED BY <1>3, <1>5, <1>6, <1>7

\* What leaves the system queue is given to the client.
LEMMA AnswerTo ==
  ASSUME Shape, [Next]_vars, NEW c \in Client, NEW a \in ToSet(responses[c])
  PROVE  \/ a \in ToSet(responses'[c])
         \/ (HasAnswer(c, a.uid))'
<1>0. responses \in [Client -> Seq(Answer)] /\ responses[c] \in Seq(Answer)
  BY DEF Shape, TypeOK
<1>1. ASSUME NEW d \in Client, Receive(d)
      PROVE  a \in ToSet(responses'[c]) \/ (HasAnswer(c, a.uid))'
  <2>1. responses[d] \in Seq(Answer) /\ responses[d] # <<>>
    BY <1>0, <1>1 DEF Receive
  <2>a. PICK got \in Answer : got = Head(responses[d])
    BY <2>1, TailFacts
  <2>2. got \in Answer /\ ToSet(responses[d]) = {got} \cup ToSet(Tail(responses[d]))
    BY <2>1, <2>a, ToSetTail
  <2>3. got.uid \in Uid /\ got.by \in Service /\ got = [uid |-> got.uid, by |-> got.by]
    BY <2>2 DEF Answer
  <2>4. /\ responses' = [responses EXCEPT ![d] = Tail(responses[d])]
        /\ IF got.uid = current[d]
           THEN Return(d, got)
           ELSE stash' = [stash EXCEPT ![d][got.uid] = got.by]
    BY <1>1, <2>a DEF Receive
  <2>5. CASE c # d
    BY <1>0, <2>4, <2>5
  <2>6. CASE c = d
    <3>1. responses'[c] = Tail(responses[d])
      BY <1>0, <2>4, <2>6
    <3>2. (HasAnswer(c, got.uid))'
      <4>1. CASE got.uid = current[d]
        <5>1. got \in returned'[c]
          BY <2>2, <2>4, <2>6, <4>1, ReturnShape DEF Shape
        <5> QED BY <2>3, <5>1 DEF HasAnswer
      <4>2. CASE got.uid # current[d]
        <5>1. stash'[c][got.uid] = got.by
          BY <2>3, <2>4, <2>6, <4>2, StashShape DEF Shape
        <5> QED BY <2>3, <5>1, Constants DEF HasAnswer, Stashed
      <4> QED BY <4>1, <4>2
    <3> QED BY <2>2, <2>6, <3>1, <3>2
  <2> QED BY <2>5, <2>6
<1>2. ASSUME NEW s \in Service, NEW uid \in inHand[s], RespondTo(s, uid)
      PROVE  a \in ToSet(responses'[c])
  <2> DEFINE b == [uid |-> uid, by |-> s]
  <2>1. uid.client \in Client /\ b \in Answer
    BY DEF Shape, TypeOK, Uid, Answer
  <2>2. responses' = [responses EXCEPT ![uid.client] = Append(responses[uid.client], b)]
    BY <1>2 DEF RespondTo
  <2> HIDE DEF b
  <2>3. CASE uid.client = c
    <3>1. ToSet(Append(responses[c], b)) = ToSet(responses[c]) \cup {b}
      BY <1>0, <2>1, ToSetAppend
    <3>2. responses'[c] = Append(responses[c], b)
      BY <1>0, <2>1, <2>2, <2>3
    <3> QED BY <3>1, <3>2
  <2>4. CASE uid.client # c
    BY <1>0, <2>2, <2>4
  <2> QED BY <2>3, <2>4
<1>3. ASSUME NEW d \in Client, SendStep(d) \/ WaitResponse(d) \/ Overflow(d) \/ ClientFails(d)
      PROVE  responses' = responses
  BY <1>3 DEF SendStep, SendRequest, LookFull, Evict, PutRequest, WaitResponse, Overflow, ClientFails,
              Reborn
<1>4. ASSUME NEW s \in Service, GetRequest(s) \/ LookEmpty(s) \/ GetLater(s) \/ ServiceFails(s)
      PROVE  responses' = responses
  BY <1>4 DEF GetRequest, LookEmpty, GetLater, ServiceFails
<1>5. UNCHANGED vars => responses' = responses
  BY DEF vars
<1> QED BY <1>1, <1>2, <1>3, <1>4, <1>5 DEF Next, WaitStep, ServiceStep

LEMMA InitBegun == Init => Begun /\ AnswerKept
<1> SUFFICES ASSUME Init
             PROVE  Begun /\ AnswerKept
  OBVIOUS
<1>1. \A s \in Service : ToSet(requests[s]) = {} /\ Holds(s) = {}
  BY DEF Init, ToSet, Holds
<1> QED BY <1>1 DEF Init, Begun, AnswerKept

LEMMA NextBegun == Shape /\ Begun /\ [Next]_vars => Begun'
<1> SUFFICES ASSUME Shape, Begun, [Next]_vars
             PROVE  Begun'
  OBVIOUS
<1>1. ASSUME NEW c \in Client, NEW u \in asked'[c]
      PROVE  u.client = c /\ u.life = life'[c] /\ u.n <= made'[c]
  <2>1. AskStep(c)
    BY ClientSteps DEF ClientStep
  <2>2. made[c] \in Nat /\ \A v \in asked[c] : v.client = c /\ v.life = life[c] /\ v.n <= made[c]
                                                /\ v.n \in Nat
    BY Constants DEF Begun, Shape, TypeOK, Uid
  <2> QED BY <1>1, <2>1, <2>2 DEF AskStep
<1>2. \A c \in Client : \A v \in asked[c] : v \in Uid /\ Known(v, life)
  <2>1. \A c \in Client : life[c] \in Nat /\ asked[c] \in SUBSET Uid
    BY Constants DEF Shape, TypeOK
  <2> QED BY <2>1 DEF Begun, Known
<1>3. ASSUME NEW s \in Service
      PROVE  \A v \in ToSet(requests[s]) \cup Holds(s) : v \in Uid
  <2>1. requests[s] \in Seq(Uid) /\ inHand[s] \in SUBSET Uid /\ latest[s] \in Uid \cup {NoUid}
    BY DEF Shape, TypeOK
  <2>2. \A v \in ToSet(requests[s]) : v \in Uid
    BY <2>1, LenProperties DEF ToSet
  <2> QED BY <2>1, <2>2 DEF Holds
<1>4. ASSUME NEW s \in Service, NEW u \in (ToSet(requests[s]) \cup Holds(s))'
      PROVE  Known(u, life')
  <2>1. u \in Uid /\ Known(u, life)
    BY <1>2, <1>3, <1>4, WhereFrom DEF Begun
  <2> QED BY <2>1, LifeGrows
<1>5. ASSUME NEW a \in answered'
      PROVE  Known(a.uid, life')
  <2>1. CASE a \in answered
    <3>1. a.uid \in Uid /\ Known(a.uid, life)
      BY <2>1 DEF Shape, TypeOK, Answer, Begun
    <3> QED BY <3>1, LifeGrows
  <2>2. CASE a \notin answered
    <3>1. a.by \in Service /\ a.uid \in inHand[a.by]
      BY <2>2, AnswerFrom DEF Answer
    <3>2. a.uid \in Uid /\ Known(a.uid, life)
      BY <1>3, <3>1 DEF Begun, Holds
    <3> QED BY <3>2, LifeGrows
  <2> QED BY <2>1, <2>2
<1> QED BY <1>1, <1>4, <1>5 DEF Begun

LEMMA NextKept == Shape /\ Begun /\ AnswerKept /\ [Next]_vars => AnswerKept'
<1> SUFFICES ASSUME Shape, Begun, AnswerKept, [Next]_vars,
                    NEW a \in answered', a.uid.life = life'[a.uid.client]
             PROVE  a \in ToSet(responses'[a.uid.client]) \/ (HasAnswer(a.uid.client, a.uid))'
  BY DEF AnswerKept
<1>1. CASE a \notin answered
  BY <1>1, AnswerFrom
<1>2. CASE a \in answered
  <2> DEFINE u == a.uid
             c == a.uid.client
  <2>1. u \in Uid /\ c \in Client /\ Known(u, life) /\ u.life \in Nat
    BY <1>2 DEF Shape, TypeOK, Answer, Uid, Begun
  <2>a. life[c] \in Nat
    BY <2>1, Constants DEF Shape, TypeOK
  <2>b. life'[c] = life[c] \/ life'[c] = life[c] + 1
    BY <2>1, ClientSteps DEF ClientStep, AskStep
  <2>3. u.life = life'[c] /\ u.life <= life[c]
    BY <2>1 DEF Known
  <2>4. life'[c] = life[c]
    BY <2>1, <2>a, <2>b, <2>3
  <2>5. a \in ToSet(responses[c]) \/ HasAnswer(c, u)
    BY <1>2, <2>3, <2>4 DEF AnswerKept
  <2>6. CASE a \in ToSet(responses[c])
    BY <2>1, <2>6, AnswerTo
  <2>7. CASE HasAnswer(c, u)
    BY <2>1, <2>4, <2>7, ClientSteps DEF ClientStep, HasStep
  <2> QED BY <2>5, <2>6, <2>7
<1> QED BY <1>1, <1>2

LEMMA SpecBegun == Spec => [](Begun /\ AnswerKept)
BY InitBegun, NextBegun, NextKept, SpecShape, PTL DEF Spec

\* An answer given stays in the system queue until the client has it, or another
\* answer to the same request, as long as the client that asked for it lives:
\* whatever it waits for, in whatever order answers come, also those of its
\* earlier lives, and whatever is evicted or drained.
THEOREM AnswersKept == Spec => []AnswerKept
BY SpecBegun, PTL

-----------------------------------------------------------------------------
(* The requests *)

\* The copy of a request for one service: in its queue, in its hands, answered, or
\* thrown away.
Accounted(u, s) ==
  \/ u \in ToSet(requests[s]) \cup Holds(s)
  \/ [uid |-> u, by |-> s] \in answered \cup lost

\* What nobody has waited for yet has been put to every listener but those the
\* running send_request comes to.
Placed ==
  \A c \in Client : \A u \in asked[c] : \A s \in ToSet(Listeners) :
    Accounted(u, s) \/ (Sending(c) /\ current[c] = u /\ s \in ToSet(todo[c]))

\* What is asked for has not been returned, and neither has what comes next.
Untold ==
  \A c \in Client : \A a \in returned[c] :
    /\ a.uid \notin asked[c]
    /\ a.uid.life <= life[c]
    /\ a.uid.life = life[c] => a.uid.n <= made[c]

LEMMA HistoriesGrow ==
  ASSUME [Next]_vars
  PROVE  answered \subseteq answered' /\ lost \subseteq lost'
<1>1. ASSUME NEW c \in Client, SendStep(c) \/ WaitStep(c) \/ ClientFails(c)
      PROVE  answered \subseteq answered' /\ lost \subseteq lost'
  BY <1>1 DEF SendStep, SendRequest, LookFull, Evict, PutRequest, WaitStep, WaitResponse, Receive,
              Overflow, ClientFails, Reborn
<1>2. ASSUME NEW s \in Service, ServiceStep(s) \/ ServiceFails(s)
      PROVE  answered \subseteq answered' /\ lost \subseteq lost'
  BY <1>2 DEF ServiceStep, GetRequest, LookEmpty, GetLater, RespondTo, ServiceFails
<1> QED BY <1>1, <1>2 DEF Next, vars

\* A request that leaves the queue or the hands of a service is in its hands,
\* answered or thrown away.
LEMMA WhereTo ==
  ASSUME Shape, [Next]_vars, NEW s \in Service, NEW u \in ToSet(requests[s]) \cup Holds(s)
  PROVE  \/ u \in (ToSet(requests[s]) \cup Holds(s))'
         \/ [uid |-> u, by |-> s] \in answered' \cup lost'
<1>0. /\ requests \in [Service -> Seq(Uid)] /\ inHand \in [Service -> SUBSET Uid]
      /\ latest \in [Service -> Uid \cup {NoUid}]
  BY DEF Shape, TypeOK
<1>1. CASE UNCHANGED <<requests, latest, inHand>>
  BY <1>1 DEF Holds
<1>2. ASSUME NEW c \in Client, PutRequest(c)
      PROVE  u \in (ToSet(requests[s]) \cup Holds(s))'
  <2> DEFINE r == Head(todo[c])
  <2>1. todo[c] \in Seq(Service) /\ todo[c] # <<>> /\ current[c] \in Uid
    BY <1>2 DEF Shape, TypeOK, Calls, Sending, PutRequest
  <2>2. r \in Service
    BY <2>1, TailFacts
  <2>3. requests' = [requests EXCEPT ![r] = Append(requests[r], current[c])]
        /\ UNCHANGED <<latest, inHand>>
    BY <1>2 DEF PutRequest, serviceVars
  <2> HIDE DEF r
  <2>4. ToSet(Append(requests[r], current[c])) = ToSet(requests[r]) \cup {current[c]}
    <3>1. requests[r] \in Seq(Uid)
      BY <1>0, <2>2
    <3> QED BY <2>1, <3>1, ToSetAppend
  <2>5. CASE s = r
    BY <1>0, <2>2, <2>3, <2>4, <2>5 DEF Holds
  <2>6. CASE s # r
    BY <1>0, <2>2, <2>3, <2>6 DEF Holds
  <2> QED BY <2>5, <2>6
<1>3. ASSUME NEW r \in Service, requests[r] # <<>>,
             requests' = [requests EXCEPT ![r] = Tail(requests[r])]
      PROVE  u \in ToSet(requests[s]) => u \in ToSet(requests'[s]) \/ (s = r /\ u = Head(requests[r]))
  <2>1. ToSet(requests[r]) = {Head(requests[r])} \cup ToSet(Tail(requests[r]))
    BY <1>3, TakenShape DEF Shape
  <2>2. CASE s = r
    <3>1. requests'[s] = Tail(requests[r])
      BY <1>0, <1>3, <2>2
    <3> QED BY <2>1, <2>2, <3>1
  <2>3. CASE s # r
    BY <1>0, <1>3, <2>3
  <2> QED BY <2>2, <2>3
<1>4. ASSUME NEW c \in Client, Evict(c)
      PROVE  u \in (ToSet(requests[s]) \cup Holds(s))' \/ [uid |-> u, by |-> s] \in lost'
  <2> DEFINE r == Head(todo[c])
  <2>1. r \in Service
    <3>1. todo[c] \in Seq(Service) /\ todo[c] # <<>>
      BY <1>4 DEF Shape, TypeOK, Calls, Evict, Sending
    <3> QED BY <3>1, TailFacts
  <2>2. /\ requests[r] # <<>> /\ requests' = [requests EXCEPT ![r] = Tail(requests[r])]
        /\ lost' = lost \cup {[uid |-> Head(requests[r]), by |-> r]}
        /\ UNCHANGED <<latest, inHand>>
    BY <1>4 DEF Evict, serviceVars
  <2> HIDE DEF r
  <2>3. (Holds(s))' = Holds(s)
    BY <2>2 DEF Holds
  <2> QED BY <1>3, <2>1, <2>2, <2>3
<1>5. ASSUME NEW r \in Service, GetRequest(r)
      PROVE  u \in (ToSet(requests[s]) \cup Holds(s))'
  <2> DEFINE h == Head(requests[r])
  <2>1. /\ requests[r] # <<>> /\ requests' = [requests EXCEPT ![r] = Tail(requests[r])]
        /\ at[r] = "serve"
        /\ \/ /\ latest' = [latest EXCEPT ![r] = h] /\ inHand' = inHand
           \/ /\ inHand' = [inHand EXCEPT ![r] = inHand[r] \cup {h}] /\ latest' = latest
    BY <1>5 DEF GetRequest
  <2>2. h \in Uid /\ h # NoUid
    BY <2>1, TakenShape, NoUidIsNone DEF Shape
  <2> HIDE DEF h
  <2>3. CASE s = r
    <3>1. h \in (Holds(s))'
      BY <1>0, <2>1, <2>2, <2>3 DEF Holds
    <3>2. latest[s] = NoUid
      BY <2>1, <2>3 DEF Shape, Calls
    <3>3. u \in Holds(s) => u \in (Holds(s))'
      BY <1>0, <2>1, <2>3, <3>2 DEF Holds
    <3>4. u \in ToSet(requests[s]) => u \in ToSet(requests'[s]) \/ u = h
      BY <1>3, <2>1 DEF h
    <3> QED BY <1>1, <3>1, <3>3, <3>4
  <2>4. CASE s # r
    BY <1>0, <1>3, <2>1, <2>4 DEF Holds
  <2> QED BY <2>3, <2>4
<1>6. ASSUME NEW r \in Service, GetLater(r)
      PROVE  u \in (ToSet(requests[s]) \cup Holds(s))' \/ [uid |-> u, by |-> s] \in lost'
  <2> DEFINE h == Head(requests[r])
  <2>1. /\ requests[r] # <<>> /\ requests' = [requests EXCEPT ![r] = Tail(requests[r])]
        /\ latest' = [latest EXCEPT ![r] = h] /\ inHand' = inHand
        /\ lost' = lost \cup {[uid |-> latest[r], by |-> r]}
    BY <1>6 DEF GetLater
  <2>2. h \in Uid /\ h # NoUid
    BY <2>1, TakenShape, NoUidIsNone DEF Shape
  <2> HIDE DEF h
  <2>3. CASE s = r
    <3>1. h \in (Holds(s))'
      BY <1>0, <2>1, <2>2, <2>3 DEF Holds
    <3>2. u \in Holds(s) => u \in (Holds(s))' \/ u = latest[r]
      BY <1>0, <2>1, <2>3 DEF Holds
    <3>3. u = latest[r] => [uid |-> u, by |-> s] \in lost'
      BY <2>1, <2>3
    <3> QED BY <1>3, <2>1, <2>3, <3>1, <3>2, <3>3 DEF h
  <2>4. CASE s # r
    BY <1>0, <1>3, <2>1, <2>4 DEF Holds
  <2> QED BY <2>3, <2>4
<1>7. ASSUME NEW r \in Service, LookEmpty(r)
      PROVE  u \in (ToSet(requests[s]) \cup Holds(s))'
  <2>1. /\ requests' = requests
        /\ \/ /\ inHand' = [inHand EXCEPT ![r] = inHand[r] \cup {latest[r]}]
              /\ latest' = [latest EXCEPT ![r] = NoUid]
           \/ inHand' = inHand /\ latest' = latest
    BY <1>7 DEF LookEmpty
  <2> QED BY <1>0, <2>1 DEF Holds
<1>8. ASSUME NEW r \in Service, NEW uid \in inHand[r], RespondTo(r, uid)
      PROVE  u \in (ToSet(requests[s]) \cup Holds(s))' \/ [uid |-> u, by |-> s] \in answered'
  <2>1. /\ requests' = requests /\ latest' = latest
        /\ inHand' = [inHand EXCEPT ![r] = inHand[r] \ {uid}]
        /\ answered' = answered \cup {[uid |-> uid, by |-> r]}
    BY <1>8 DEF RespondTo
  <2> QED BY <1>0, <2>1 DEF Holds
<1>9. ASSUME NEW r \in Service, ServiceFails(r)
      PROVE  u \in (ToSet(requests[s]) \cup Holds(s))' \/ [uid |-> u, by |-> s] \in lost'
  <2>1. /\ requests' = requests /\ latest' = latest
        /\ inHand' = [inHand EXCEPT ![r] = {}]
        /\ lost' = lost \cup {[uid |-> uid, by |-> r] : uid \in inHand[r]}
    BY <1>9 DEF ServiceFails
  <2> QED BY <1>0, <2>1 DEF Holds
<1>10. ASSUME NEW c \in Client, WaitStep(c) \/ ClientFails(c) \/ SendRequest(c) \/ LookFull(c)
       PROVE  UNCHANGED <<requests, latest, inHand>>
  BY <1>10 DEF WaitStep, WaitResponse, Receive, Overflow, ClientFails, Reborn, SendRequest, LookFull,
               serviceVars
<1>11. CASE UNCHANGED vars
  BY <1>1, <1>11 DEF vars, serviceVars
<1> QED BY <1>1, <1>2, <1>4, <1>5, <1>6, <1>7, <1>8, <1>9, <1>10, <1>11
        DEF Next, SendStep, ServiceStep

LEMMA StaysAccounted ==
  ASSUME Shape, [Next]_vars, NEW u, NEW s \in Service, Accounted(u, s)
  PROVE  (Accounted(u, s))'
BY WhereTo, HistoriesGrow DEF Accounted

LEMMA ListenersServe == ToSet(Listeners) \subseteq Service
BY Constants, LenProperties DEF ToSet

LEMMA InitPlaced == Init => Placed /\ Untold
BY DEF Init, Placed, Untold

LEMMA NextPlaced == Shape /\ Placed /\ [Next]_vars => Placed'
<1> SUFFICES ASSUME Shape, Placed, [Next]_vars,
                    NEW c \in Client, NEW u \in asked'[c], NEW s \in ToSet(Listeners)
             PROVE  (Accounted(u, s))' \/ ((Sending(c))' /\ current'[c] = u /\ s \in ToSet(todo'[c]))
  BY DEF Placed
<1>0. /\ pc \in [Client -> {"run", "look", "evict", "put", "wait"}]
      /\ current \in [Client -> Uid \cup {NoUid}] /\ asked \in [Client -> SUBSET Uid]
      /\ todo \in [Client -> Seq(Service)] /\ s \in Service
  BY ListenersServe DEF Shape, TypeOK
<1>1. ASSUME u \in asked[c], ~Sending(c)
      PROVE  (Accounted(u, s))'
  BY <1>0, <1>1, StaysAccounted DEF Placed
<1>2. ASSUME u \in asked[c], pc'[c] = pc[c], current'[c] = current[c], todo'[c] = todo[c]
      PROVE  (Accounted(u, s))' \/ ((Sending(c))' /\ current'[c] = u /\ s \in ToSet(todo'[c]))
  BY <1>0, <1>2, StaysAccounted DEF Placed, Sending
<1>3. ASSUME NEW d \in Client, SendRequest(d)
      PROVE  (Accounted(u, s))' \/ ((Sending(c))' /\ current'[c] = u /\ s \in ToSet(todo'[c]))
  <2> DEFINE uid == [client |-> d, life |-> life[d], n |-> made[d] + 1]
  <2>1. /\ pc[d] = "run" /\ current' = [current EXCEPT ![d] = uid]
        /\ asked' = [asked EXCEPT ![d] = asked[d] \cup {uid}]
        /\ todo' = [todo EXCEPT ![d] = Listeners]
    BY <1>3 DEF SendRequest
  <2> HIDE DEF uid
  <2>2. PICK v \in {"look", "put"} : pc' = [pc EXCEPT ![d] = v]
    BY <1>3, Constants DEF SendRequest, Turn
  <2>3. CASE c # d
    BY <1>0, <1>2, <2>1, <2>2, <2>3
  <2>4. CASE c = d /\ u \in asked[c]
    BY <1>1, <2>1, <2>4 DEF Sending
  <2>5. CASE c = d /\ u \notin asked[c]
    <3>1. u = uid /\ current'[c] = uid /\ todo'[c] = Listeners /\ pc'[c] = v
      BY <1>0, <2>1, <2>2, <2>5
    <3> QED BY <3>1 DEF Sending
  <2> QED BY <2>3, <2>4, <2>5
<1>4. ASSUME NEW d \in Client, LookFull(d) \/ Evict(d)
      PROVE  (Accounted(u, s))' \/ ((Sending(c))' /\ current'[c] = u /\ s \in ToSet(todo'[c]))
  <2>1. UNCHANGED <<asked, current, todo>> /\ pc[d] \in {"look", "evict"}
    BY <1>4 DEF LookFull, Evict
  <2>2. PICK v \in {"look", "evict", "put"} : pc' = [pc EXCEPT ![d] = v]
    BY <1>4 DEF LookFull, Evict
  <2>3. Sending(c) => (Sending(c))'
    BY <1>0, <2>2 DEF Sending
  <2> QED BY <1>0, <2>1, <2>3, StaysAccounted DEF Placed
<1>5. ASSUME NEW d \in Client, PutRequest(d)
      PROVE  (Accounted(u, s))' \/ ((Sending(c))' /\ current'[c] = u /\ s \in ToSet(todo'[c]))
  <2> DEFINE r == Head(todo[d])
  <2>1. todo[d] \in Seq(Service) /\ todo[d] # <<>> /\ current[d] \in Uid
    BY <1>5 DEF Shape, TypeOK, Calls, Sending, PutRequest
  <2>2. r \in Service /\ ToSet(todo[d]) = {r} \cup ToSet(Tail(todo[d]))
        /\ Len(todo[d]) \in Nat /\ Tail(todo[d]) \in Seq(Service) /\ Len(Tail(todo[d])) = Len(todo[d]) - 1
    BY <2>1, TailFacts, ToSetTail
  <2>3. /\ requests' = [requests EXCEPT ![r] = Append(requests[r], current[d])]
        /\ todo' = [todo EXCEPT ![d] = Tail(todo[d])]
        /\ UNCHANGED <<asked, current>>
        /\ pc' = [pc EXCEPT ![d] = IF Len(todo[d]) = 1 THEN "run" ELSE Turn(clearing[d])]
    BY <1>5 DEF PutRequest
  <2> HIDE DEF r
  <2>4. CASE c # d
    BY <1>0, <1>2, <2>3, <2>4
  <2>5. CASE c = d
    <3>1. current[d] \in ToSet(requests'[r])
      <4>1. requests \in [Service -> Seq(Uid)] /\ requests[r] \in Seq(Uid)
        BY <2>2 DEF Shape, TypeOK
      <4>2. ToSet(Append(requests[r], current[d])) = ToSet(requests[r]) \cup {current[d]}
        BY <2>1, <4>1, ToSetAppend
      <4>3. requests'[r] = Append(requests[r], current[d])
        BY <2>2, <2>3, <4>1
      <4> QED BY <4>2, <4>3
    <3>2. todo'[c] = Tail(todo[d]) /\ current'[c] = current[c]
      BY <1>0, <2>3, <2>5
    <3>3. ASSUME s \in ToSet(Tail(todo[d]))
          PROVE  (Sending(c))'
      <4> DEFINE rest == Tail(todo[d])
      <4>1. DOMAIN rest = 1 .. Len(rest)
        BY <2>2, LenProperties
      <4>2. Len(rest) # 0
        <5>1. PICK i \in DOMAIN rest : s = rest[i]
          BY <3>3 DEF ToSet
        <5> HIDE DEF rest
        <5>2. i \in 1 .. Len(rest)
          BY <4>1
        <5> QED BY <5>2
      <4>3. Len(todo[d]) # 1
        BY <2>2, <4>2 DEF rest
      <4>4. pc'[c] = Turn(clearing[d])
        BY <1>0, <2>3, <2>5, <4>3
      <4> QED BY <4>4 DEF Sending, Turn
    <3>4. CASE Accounted(u, s)
      BY <1>0, <3>4, StaysAccounted
    <3>5. CASE ~Accounted(u, s)
      <4>1. u \in asked[c] /\ current[c] = u /\ s \in ToSet(todo[c])
        BY <2>3, <3>5 DEF Placed
      <4>2. CASE s = r
        <5>1. u \in ToSet(requests'[s])
          BY <2>5, <3>1, <4>1, <4>2
        <5> QED BY <5>1 DEF Accounted
      <4>3. CASE s # r
        <5>1. s \in ToSet(Tail(todo[d]))
          BY <2>2, <2>5, <4>1, <4>3
        <5> QED BY <3>2, <3>3, <2>5, <4>1, <5>1
      <4> QED BY <4>2, <4>3
    <3> QED BY <3>4, <3>5
  <2> QED BY <2>4, <2>5
<1>6. ASSUME NEW d \in Client, WaitStep(d) \/ ClientFails(d)
      PROVE  (Accounted(u, s))' \/ ((Sending(c))' /\ current'[c] = u /\ s \in ToSet(todo'[c]))
  <2>1. pc[d] \in {"run", "wait"}
    BY <1>6 DEF WaitStep, WaitResponse, Receive, Overflow, ClientFails
  <2>2. asked'[c] \subseteq asked[c]
    BY <1>0, <1>6 DEF WaitStep, WaitResponse, Receive, Overflow, ClientFails, Return, Reborn
  <2>3. CASE c = d
    BY <1>1, <2>1, <2>2, <2>3 DEF Sending
  <2>4. CASE c # d
    <3>1. pc'[c] = pc[c] /\ current'[c] = current[c] /\ todo'[c] = todo[c]
      BY <1>0, <1>6, <2>4 DEF WaitStep, WaitResponse, Receive, Overflow, ClientFails, Reborn
    <3> QED BY <1>2, <2>2, <3>1
  <2> QED BY <2>3, <2>4
<1>7. ASSUME NEW r \in Service, ServiceStep(r) \/ ServiceFails(r)
      PROVE  (Accounted(u, s))' \/ ((Sending(c))' /\ current'[c] = u /\ s \in ToSet(todo'[c]))
  <2>1. UNCHANGED <<pc, current, todo, asked>>
    BY <1>7 DEF ServiceStep, GetRequest, LookEmpty, GetLater, RespondTo, ServiceFails, clientVars
  <2> QED BY <1>2, <2>1
<1>8. CASE UNCHANGED vars
  <2>1. UNCHANGED <<pc, current, todo, asked>>
    BY <1>8 DEF vars, clientVars
  <2> QED BY <1>2, <2>1
<1> QED BY <1>3, <1>4, <1>5, <1>6, <1>7, <1>8 DEF Next, SendStep

LEMMA NextUntold == Shape /\ Begun /\ Untold /\ [Next]_vars => Untold'
<1> SUFFICES ASSUME Shape, Begun, Untold, [Next]_vars, NEW c \in Client, NEW a \in returned'[c]
             PROVE  /\ a.uid \notin asked'[c] /\ a.uid.life <= life'[c]
                    /\ a.uid.life = life'[c] => a.uid.n <= made'[c]
  BY DEF Untold
<1>0. /\ life[c] \in Nat /\ made[c] \in Nat /\ returned[c] \in SUBSET Answer /\ asked[c] \in SUBSET Uid
  BY Constants DEF Shape, TypeOK
<1>1. AskStep(c)
  BY ClientSteps DEF ClientStep
<1>2. a \in Answer
  BY <1>0, <1>1 DEF AskStep
<1>3. a.uid.life \in Nat /\ a.uid.n \in Nat
  BY <1>2, Constants DEF Answer, Uid
<1>4. CASE asked'[c] = asked[c] /\ returned'[c] = returned[c] /\ made'[c] = made[c] /\ life'[c] = life[c]
  BY <1>4 DEF Untold
<1>5. ASSUME NEW u \in Uid, u.life = life[c], u.n = made[c] + 1, asked'[c] = asked[c] \cup {u},
             returned'[c] = returned[c], made'[c] = made[c] + 1, life'[c] = life[c]
      PROVE  /\ a.uid \notin asked'[c] /\ a.uid.life <= life'[c]
             /\ a.uid.life = life'[c] => a.uid.n <= made'[c]
  <2>1. /\ a.uid \notin asked[c] /\ a.uid.life <= life[c]
        /\ a.uid.life = life[c] => a.uid.n <= made[c]
    BY <1>5 DEF Untold
  <2>2. a.uid # u
    BY <1>0, <1>3, <1>5, <2>1
  <2> QED BY <1>0, <1>3, <1>5, <2>1, <2>2
<1>6. ASSUME NEW b \in Answer, b.uid \in asked[c], asked'[c] = asked[c] \ {b.uid},
             returned'[c] = returned[c] \cup {b}, made'[c] = made[c], life'[c] = life[c]
      PROVE  /\ a.uid \notin asked'[c] /\ a.uid.life <= life'[c]
             /\ a.uid.life = life'[c] => a.uid.n <= made'[c]
  <2>1. CASE a = b
    BY <1>0, <1>6, <2>1 DEF Begun
  <2>2. CASE a # b
    BY <1>6, <2>2 DEF Untold
  <2> QED BY <2>1, <2>2
<1>7. CASE asked'[c] = {} /\ returned'[c] = returned[c] /\ made'[c] = 0 /\ life'[c] = life[c] + 1
  <2>1. a.uid.life <= life[c]
    BY <1>7 DEF Untold
  <2> QED BY <1>0, <1>3, <1>7, <2>1
<1> QED BY <1>1, <1>4, <1>5, <1>6, <1>7 DEF AskStep

LEMMA SpecPlaced == Spec => [](Placed /\ Untold)
BY InitPlaced, NextPlaced, NextUntold, SpecShape, SpecBegun, PTL DEF Spec

\* A client blocked in wait_response waits for something: its request is with a
\* service, or an answer in its system queue, unless every copy of the request was
\* evicted, drained or dropped by a service that failed (process.py:144-148,
\* 166-169, 306-333).
THEOREM WaitIsForSomething == Spec => []AnswerComing
<1>1. Shape /\ Begun /\ AnswerKept /\ Placed /\ Untold /\ (\A b \in Client : StashFits(b))
        => AnswerComing
  <2> SUFFICES ASSUME Shape, Begun, AnswerKept, Placed, Untold, \A b \in Client : StashFits(b),
                      NEW c \in Client, pc[c] = "wait",
                      NEW s \in ToSet(Listeners), [uid |-> current[c], by |-> s] \notin lost,
                      current[c] \notin ToSet(requests[s]) \cup Holds(s)
               PROVE  \E a \in ToSet(responses[c]) : a.uid = current[c]
    BY DEF AnswerComing, Lost
  <2> DEFINE u == current[c]
             a == [uid |-> u, by |-> s]
  <2>1. u \in asked[c] /\ u \in Uid /\ ~Sending(c)
    BY DEF Shape, TypeOK, Calls, Sending
  <2>2. a \in answered
    BY <2>1 DEF Placed, Accounted
  <2>3. u.client = c /\ u.life = life[c]
    BY <2>1 DEF Begun
  <2>4. a \in ToSet(responses[c]) \/ HasAnswer(c, u)
    BY <2>2, <2>3 DEF AnswerKept
  <2>5. u \notin Stashed(c)
    BY DEF StashFits
  <2>6. \A r \in Service : [uid |-> u, by |-> r] \notin returned[c]
    BY <2>1 DEF Untold
  <2> QED BY <2>4, <2>5, <2>6 DEF HasAnswer
<1> QED BY <1>1, SpecShape, SpecBegun, SpecPlaced, SpecStash, PTL
=============================================================================
