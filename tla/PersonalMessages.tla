-------------------------- MODULE PersonalMessages --------------------------
(***************************************************************************)
(* Requests and their answers between RobotProcesses (process.py):         *)
(* send_request publishes to the services that listen, a service takes     *)
(* requests with get_request and puts its answer with respond_to into the  *)
(* client's system queue, wait_response reads that queue and stashes the   *)
(* answers it is not waiting for.  A publish with clear_on_overflow takes  *)
(* requests out of a full queue, a get_request with clear_all_messages     *)
(* keeps the last request only; nobody tells the clients of the others.    *)
(*                                                                         *)
(* put() and get() are single steps here: the delay between a put and the  *)
(* pipe (MpQueue) reorders only the messages of different producers, which *)
(* the order of their puts already does.                                   *)
(***************************************************************************)
EXTENDS Integers, Sequences, SequencesExt, FiniteSets

CONSTANTS
  Client, Service, NoService,
  Listeners,       \* the services bound to the request queue, in wiring order
  RequestSize,     \* maxsize of a service's request queue
  SystemSize,      \* maxsize of a client's system queue
  MaxStash,        \* wait_response raises when the stash holds more
  ClearOnOverflow, \* what the clients pass to send_request
  ClearAll,        \* what the services pass to get_request
  MaxInHand,       \* bound: requests a service works on at a time
  MaxAsked,        \* bound: requests a client leaves unanswered before it waits
  MaxRequests,     \* bound: requests in one life of a client
  MaxLives,        \* bound: lives of a client
  FaultyServices   \* services that may fail with requests in hand

ASSUME PersonalAssumption ==
  /\ Listeners \in Seq(Service) /\ Listeners # <<>>
  /\ NoService \notin Service
  /\ {RequestSize, SystemSize, MaxStash, MaxInHand, MaxAsked, MaxRequests, MaxLives} \subseteq Nat \ {0}
  /\ ClearOnOverflow \subseteq BOOLEAN /\ ClearAll \subseteq BOOLEAN
  /\ FaultyServices \subseteq Service

VARIABLES
  pc,          \* what a client does: run, look, evict, put, wait
  todo,        \* listeners send_request has still to put to
  clearing,    \* clear_on_overflow of the running send_request
  current,     \* uid being sent or waited for
  asked,       \* uids of this life nobody has waited for yet
  made,        \* number of requests of this life
  life,        \* number of the client's life
  stash,       \* _received_personal_messages: uid -> who answered it
  requests,    \* request queue of each service
  at,          \* what a service does: serve, look, get
  latest,      \* the request get_request holds while it empties the queue
  inHand,      \* requests a service has taken and not answered
  responses,   \* system queue of each client
  answered,    \* history: answers put in a system queue
  lost,        \* history: requests thrown away, and by whose queue or hands
  returned     \* history: per client, answers returned by wait_response

clientVars == <<pc, todo, clearing, current, asked, made, life, stash>>
serviceVars == <<at, latest, inHand>>
vars == <<clientVars, requests, serviceVars, responses, answered, lost, returned>>

\* uuid4 of Request: no two lives share one.
Uid == [client : Client, life : 1 .. MaxLives, n : 1 .. MaxRequests]
NoUid == [client |-> CHOOSE c \in Client : TRUE, life |-> 0, n |-> 0]

\* The answer of a service to a request, also: the copy of a request for it.
Answer == [uid : Uid, by : Service]

Stashed(c) == {uid \in Uid : stash[c][uid] # NoService}

TypeOK ==
  /\ pc \in [Client -> {"run", "look", "evict", "put", "wait"}]
  /\ todo \in [Client -> Seq(Service)]
  /\ clearing \in [Client -> BOOLEAN]
  /\ current \in [Client -> Uid \cup {NoUid}]
  /\ asked \in [Client -> SUBSET Uid]
  /\ made \in [Client -> 0 .. MaxRequests]
  /\ life \in [Client -> 1 .. MaxLives]
  /\ stash \in [Client -> [Uid -> Service \cup {NoService}]]
  /\ requests \in [Service -> Seq(Uid)]
  /\ at \in [Service -> {"serve", "look", "get"}]
  /\ latest \in [Service -> Uid \cup {NoUid}]
  /\ inHand \in [Service -> SUBSET Uid]
  /\ responses \in [Client -> Seq(Answer)]
  /\ answered \subseteq Answer
  /\ lost \subseteq Answer
  /\ returned \in [Client -> SUBSET Answer]
  /\ \A s \in Service : Len(requests[s]) <= RequestSize
  /\ \A c \in Client : Len(responses[c]) <= SystemSize

Init ==
  /\ pc = [c \in Client |-> "run"]
  /\ todo = [c \in Client |-> <<>>]
  /\ clearing = [c \in Client |-> FALSE]
  /\ current = [c \in Client |-> NoUid]
  /\ asked = [c \in Client |-> {}]
  /\ made = [c \in Client |-> 0]
  /\ life = [c \in Client |-> 1]
  /\ stash = [c \in Client |-> [uid \in Uid |-> NoService]]
  /\ requests = [s \in Service |-> <<>>]
  /\ at = [s \in Service |-> "serve"]
  /\ latest = [s \in Service |-> NoUid]
  /\ inHand = [s \in Service |-> {}]
  /\ responses = [c \in Client |-> <<>>]
  /\ answered = {}
  /\ lost = {}
  /\ returned = [c \in Client |-> {}]

-----------------------------------------------------------------------------
(* The client *)

\* Where the loop of publish begins for one listener.
Turn(clear) == IF clear THEN "look" ELSE "put"

\* send_request: a fresh uid, then publish.
SendRequest(c) ==
  /\ pc[c] = "run"
  /\ made[c] < MaxRequests
  /\ Cardinality(asked[c]) < MaxAsked
  /\ LET uid == [client |-> c, life |-> life[c], n |-> made[c] + 1]
     IN  /\ current' = [current EXCEPT ![c] = uid]
         /\ asked' = [asked EXCEPT ![c] = @ \cup {uid}]
  /\ made' = [made EXCEPT ![c] = @ + 1]
  /\ todo' = [todo EXCEPT ![c] = Listeners]
  /\ \E clear \in ClearOnOverflow :
       clearing' = [clearing EXCEPT ![c] = clear] /\ pc' = [pc EXCEPT ![c] = Turn(clear)]
  /\ UNCHANGED <<life, stash, requests, serviceVars, responses, answered, lost, returned>>

\* while q.full() of a publish with clear_on_overflow.
LookFull(c) ==
  /\ pc[c] = "look"
  /\ pc' = [pc EXCEPT ![c] = IF Len(requests[Head(todo[c])]) = RequestSize THEN "evict" ELSE "put"]
  /\ UNCHANGED <<todo, clearing, current, asked, made, life, stash, requests, serviceVars,
                 responses, answered, lost, returned>>

\* q.get(): the oldest request in the queue, whoever sent it, is thrown away.  It
\* blocks if the service has emptied the queue since the look.
Evict(c) ==
  LET s == Head(todo[c]) IN
  /\ pc[c] = "evict"
  /\ requests[s] # <<>>
  /\ lost' = lost \cup {[uid |-> Head(requests[s]), by |-> s]}
  /\ requests' = [requests EXCEPT ![s] = Tail(@)]
  /\ pc' = [pc EXCEPT ![c] = "look"]
  /\ UNCHANGED <<todo, clearing, current, asked, made, life, stash, serviceVars, responses,
                 answered, returned>>

\* Fault: a put that does not wait for a free slot.
PutRequestUnbounded(c) ==
  LET s == Head(todo[c]) IN
  /\ pc[c] = "put"
  /\ requests' = [requests EXCEPT ![s] = Append(@, current[c])]
  /\ todo' = [todo EXCEPT ![c] = Tail(@)]
  /\ pc' = [pc EXCEPT ![c] = IF Len(todo[c]) = 1 THEN "run" ELSE Turn(clearing[c])]
  /\ UNCHANGED <<clearing, current, asked, made, life, stash, serviceVars, responses, answered,
                 lost, returned>>

\* The loop of publish: one blocking put for each listener.
PutRequest(c) ==
  LET s == Head(todo[c]) IN
  /\ pc[c] = "put"
  /\ Len(requests[s]) < RequestSize
  /\ requests' = [requests EXCEPT ![s] = Append(@, current[c])]
  /\ todo' = [todo EXCEPT ![c] = Tail(@)]
  /\ pc' = [pc EXCEPT ![c] = IF Len(todo[c]) = 1 THEN "run" ELSE Turn(clearing[c])]
  /\ UNCHANGED <<clearing, current, asked, made, life, stash, serviceVars, responses, answered,
                 lost, returned>>

\* wait_response returns an answer.
Return(c, answer) ==
  /\ returned' = [returned EXCEPT ![c] = @ \cup {answer}]
  /\ asked' = [asked EXCEPT ![c] = @ \ {answer.uid}]

\* Fault: the stash is not looked up.
WaitResponseBlocks(c) ==
  /\ pc[c] = "run"
  /\ \E uid \in asked[c] : current' = [current EXCEPT ![c] = uid]
  /\ pc' = [pc EXCEPT ![c] = "wait"]
  /\ UNCHANGED <<todo, clearing, asked, made, life, stash, requests, serviceVars, responses,
                 answered, lost, returned>>

\* wait_response(uid): the stash is looked up once, at the start.
WaitResponse(c) ==
  /\ pc[c] = "run"
  /\ \E uid \in asked[c] :
       /\ current' = [current EXCEPT ![c] = uid]
       /\ IF uid \in Stashed(c)
          THEN /\ Return(c, [uid |-> uid, by |-> stash[c][uid]])
               /\ stash' = [stash EXCEPT ![c][uid] = NoService]
               /\ UNCHANGED pc
          ELSE /\ pc' = [pc EXCEPT ![c] = "wait"]
               /\ UNCHANGED <<asked, stash, returned>>
  /\ UNCHANGED <<todo, clearing, made, life, requests, serviceVars, responses, answered, lost>>

\* Fault: an answer not waited for is dropped.
ReceiveDrops(c) ==
  LET got == Head(responses[c]) IN
  /\ pc[c] = "wait"
  /\ responses[c] # <<>>
  /\ IF got.uid = current[c]
     THEN Return(c, got) /\ pc' = [pc EXCEPT ![c] = "run"]
     ELSE UNCHANGED <<pc, asked, returned>>
  /\ responses' = [responses EXCEPT ![c] = Tail(@)]
  /\ UNCHANGED <<todo, clearing, current, made, life, stash, requests, serviceVars, answered, lost>>

\* Fault: the stash has no bound.
ReceiveUnbounded(c) ==
  LET got == Head(responses[c]) IN
  /\ pc[c] = "wait"
  /\ responses[c] # <<>>
  /\ IF got.uid = current[c]
     THEN Return(c, got) /\ pc' = [pc EXCEPT ![c] = "run"] /\ UNCHANGED stash
     ELSE stash' = [stash EXCEPT ![c][got.uid] = got.by] /\ UNCHANGED <<pc, asked, returned>>
  /\ responses' = [responses EXCEPT ![c] = Tail(@)]
  /\ UNCHANGED <<todo, clearing, current, made, life, requests, serviceVars, answered, lost>>

\* Fault: the bound is off by one.
ReceiveEarly(c) == Cardinality(Stashed(c)) < MaxStash /\ ReceiveUnbounded(c)

\* The loop of wait_response: the answer waited for is returned, another one
\* stashed under its uid, where it replaces that of another service.
Receive(c) ==
  LET got == Head(responses[c]) IN
  /\ pc[c] = "wait"
  /\ Cardinality(Stashed(c)) <= MaxStash
  /\ responses[c] # <<>>
  /\ IF got.uid = current[c]
     THEN /\ Return(c, got)
          /\ pc' = [pc EXCEPT ![c] = "run"]
          /\ UNCHANGED stash
     ELSE /\ stash' = [stash EXCEPT ![c][got.uid] = got.by]
          /\ UNCHANGED <<pc, asked, returned>>
  /\ responses' = [responses EXCEPT ![c] = Tail(@)]
  /\ UNCHANGED <<todo, clearing, current, made, life, requests, serviceVars, answered, lost>>

\* The process object of the next life: an empty stash, the same system queue.
Reborn(c) ==
  /\ life[c] < MaxLives
  /\ life' = [life EXCEPT ![c] = @ + 1]
  /\ pc' = [pc EXCEPT ![c] = "run"]
  /\ todo' = [todo EXCEPT ![c] = <<>>]
  /\ clearing' = [clearing EXCEPT ![c] = FALSE]
  /\ current' = [current EXCEPT ![c] = NoUid]
  /\ asked' = [asked EXCEPT ![c] = {}]
  /\ made' = [made EXCEPT ![c] = 0]
  /\ stash' = [stash EXCEPT ![c] = [uid \in Uid |-> NoService]]
  /\ UNCHANGED <<requests, serviceVars, responses, answered, lost, returned>>

\* Fault: the stash that is too large is emptied.
OverflowEmpties(c) ==
  /\ pc[c] = "wait"
  /\ Cardinality(Stashed(c)) > MaxStash
  /\ stash' = [stash EXCEPT ![c] = [uid \in Uid |-> NoService]]
  /\ UNCHANGED <<pc, todo, clearing, current, asked, made, life, requests, serviceVars,
                 responses, answered, lost, returned>>

\* "Overflow of personal messages" is raised: it ends the life of the client, or
\* its run() catches it and goes on with the same stash.
Overflow(c) ==
  /\ pc[c] = "wait"
  /\ Cardinality(Stashed(c)) > MaxStash
  /\ \/ Reborn(c)
     \/ /\ pc' = [pc EXCEPT ![c] = "run"]
        /\ UNCHANGED <<todo, clearing, current, asked, made, life, stash, requests, serviceVars,
                       responses, answered, lost, returned>>

\* run() fails between two calls and is started again.
ClientFails(c) ==
  /\ pc[c] = "run"
  /\ Reborn(c)

-----------------------------------------------------------------------------
(* The service *)

\* get_request(): one request, or the first of those clear_all_messages takes.
GetRequest(s) ==
  /\ at[s] = "serve"
  /\ requests[s] # <<>>
  /\ Cardinality(inHand[s]) < MaxInHand
  /\ \E clear \in ClearAll :
       IF clear
       THEN /\ latest' = [latest EXCEPT ![s] = Head(requests[s])]
            /\ at' = [at EXCEPT ![s] = "look"]
            /\ UNCHANGED inHand
       ELSE /\ inHand' = [inHand EXCEPT ![s] = @ \cup {Head(requests[s])}]
            /\ UNCHANGED <<at, latest>>
  /\ requests' = [requests EXCEPT ![s] = Tail(@)]
  /\ UNCHANGED <<clientVars, responses, answered, lost, returned>>

\* while not empty(): the last request taken is returned.
LookEmpty(s) ==
  /\ at[s] = "look"
  /\ IF requests[s] = <<>>
     THEN /\ inHand' = [inHand EXCEPT ![s] = @ \cup {latest[s]}]
          /\ latest' = [latest EXCEPT ![s] = NoUid]
          /\ at' = [at EXCEPT ![s] = "serve"]
     ELSE at' = [at EXCEPT ![s] = "get"] /\ UNCHANGED <<inHand, latest>>
  /\ UNCHANGED <<clientVars, requests, responses, answered, lost, returned>>

\* message = get(): the one before it is thrown away.  It blocks if a client has
\* evicted the last request since the look.
GetLater(s) ==
  /\ at[s] = "get"
  /\ requests[s] # <<>>
  /\ lost' = lost \cup {[uid |-> latest[s], by |-> s]}
  /\ latest' = [latest EXCEPT ![s] = Head(requests[s])]
  /\ requests' = [requests EXCEPT ![s] = Tail(@)]
  /\ at' = [at EXCEPT ![s] = "look"]
  /\ UNCHANGED <<clientVars, inHand, responses, answered, returned>>

\* respond_to(): a put into the system queue of request.client_process.  The
\* answers to the requests in hand are given in any order.
RespondTo(s, uid) ==
  LET c == uid.client
      answer == [uid |-> uid, by |-> s]
  IN
  /\ at[s] = "serve"
  /\ uid \in inHand[s]
  /\ Len(responses[c]) < SystemSize
  /\ responses' = [responses EXCEPT ![c] = Append(@, answer)]
  /\ answered' = answered \cup {answer}
  /\ inHand' = [inHand EXCEPT ![s] = @ \ {uid}]
  /\ UNCHANGED <<clientVars, requests, at, latest, lost, returned>>

\* The computation raises outside a try block: what was in hand is not answered.
ServiceFails(s) ==
  /\ s \in FaultyServices
  /\ at[s] = "serve"
  /\ inHand[s] # {}
  /\ lost' = lost \cup {[uid |-> uid, by |-> s] : uid \in inHand[s]}
  /\ inHand' = [inHand EXCEPT ![s] = {}]
  /\ UNCHANGED <<clientVars, requests, at, latest, responses, answered, returned>>

-----------------------------------------------------------------------------
SendStep(c) == SendRequest(c) \/ LookFull(c) \/ Evict(c) \/ PutRequest(c)

WaitStep(c) == WaitResponse(c) \/ Receive(c) \/ Overflow(c)

ServiceStep(s) ==
  GetRequest(s) \/ LookEmpty(s) \/ GetLater(s) \/ \E uid \in inHand[s] : RespondTo(s, uid)

Next ==
  \/ \E c \in Client : SendStep(c) \/ WaitStep(c) \/ ClientFails(c)
  \/ \E s \in Service : ServiceStep(s) \/ ServiceFails(s)

Spec == Init /\ [][Next]_vars

\* Nothing blocked runs on; a client waits for what it asked, in any order; a
\* service answers everything it takes, whatever else it takes in between, unless
\* it fails.
Fairness ==
  /\ \A c \in Client :
       /\ WF_vars(LookFull(c)) /\ WF_vars(Evict(c)) /\ WF_vars(PutRequest(c))
       /\ WF_vars(WaitResponse(c)) /\ WF_vars(Receive(c))
  /\ \A s \in Service :
       /\ WF_vars(GetRequest(s)) /\ WF_vars(LookEmpty(s)) /\ WF_vars(GetLater(s))
       /\ \A uid \in Uid : WF_vars(RespondTo(s, uid))

FairSpec == Spec /\ Fairness

-----------------------------------------------------------------------------
(* Properties *)

\* The stash never outgrows its limit by more than the message received last.
StashBound == \A c \in Client : Cardinality(Stashed(c)) <= MaxStash + 1

\* The client has an answer to the request, stashed or returned.
HasAnswer(c, uid) ==
  uid \in Stashed(c) \/ \E s \in Service : [uid |-> uid, by |-> s] \in returned[c]

\* As long as its client lives, an answer a service has put stays in the system
\* queue until the client has it -- or, when several services listen, until the
\* client has the answer of another one in its place: the dictionary of
\* wait_response keeps one answer per uid.
AnswerKept ==
  \A answer \in answered :
    LET c == answer.uid.client IN
    answer.uid.life = life[c] =>
      answer \in ToSet(responses[c]) \/ HasAnswer(c, answer.uid)

\* The stash is looked up once: an answer is never stashed under the uid the
\* client is blocked for.
WaitedNotStashed ==
  \A c \in Client : pc[c] = "wait" => current[c] \notin Stashed(c)

\* The requests a service has taken.
Holds(s) == inHand[s] \cup ({latest[s]} \ {NoUid})

\* Every service has thrown its copy of the request away, or the queue it was in.
Lost(uid) == \A s \in ToSet(Listeners) : [uid |-> uid, by |-> s] \in lost

\* wait_response blocks for something: as long as a client waits, a service has
\* its request in its queue or in its hands, or an answer is in the system queue,
\* unless every copy of the request was evicted, drained or dropped by a service
\* that failed.
AnswerComing ==
  \A c \in Client : pc[c] = "wait" =>
    \/ \E s \in ToSet(Listeners) : current[c] \in ToSet(requests[s]) \cup Holds(s)
    \/ \E answer \in ToSet(responses[c]) : answer.uid = current[c]
    \/ Lost(current[c])

\* The calls that block for good if nothing more is put: the get() of an eviction
\* whose message the service has taken, and wait_response for a lost request.
Stuck(c) ==
  \/ pc[c] = "evict" /\ requests[Head(todo[c])] = <<>>
  \/ pc[c] = "wait" /\ Lost(current[c])

\* Every send_request and every wait_response returns, in whatever order the
\* client waits and the service answers, but for the calls that are stuck in one
\* of those ways -- if no client has more requests open than a system queue and
\* one service in hand can hold, or than the stash can.
CallsReturn == \A c \in Client : pc[c] # "run" ~> (pc[c] = "run" \/ []Stuck(c))

\* What was asked is answered to whoever waits for it, unless a call of the client
\* is stuck.
EveryRequestReturns ==
  \A uid \in Uid :
    uid \in asked[uid.client] ~>
      \/ \E s \in Service : [uid |-> uid, by |-> s] \in returned[uid.client]
      \/ []Stuck(uid.client)
=============================================================================
