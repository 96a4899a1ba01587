-------------------------- MODULE DispatcherConfig --------------------------
(***************************************************************************)
(* RobotDispatcher.__init__ (dispatcher.py): the checks of the             *)
(* configuration and the wiring of the queues that every RobotProcess is   *)
(* handed.  A configuration names, for each process, the queues it         *)
(* consumes and publishes, each as a list of names or as one bare string.  *)
(* A step is a round of one of the constructor's loops.                    *)
(***************************************************************************)
EXTENDS QueueWiring, Integers, Sequences, SequencesExt, FiniteSets

CONSTANTS
  Order,        \* the processes of the configuration, in its order
  QueueName,
  Letters,      \* the letters of each name, what Python's set(name) gives
  Entries,      \* values of a "consume" or "publish" key
  PassedSets,   \* sets of processes handed to the constructor
  QueuesSizes,  \* queues_sizes of the configuration: some names -> size
  DefaultSize   \* DEFAULT_QUEUE_SIZE

Process == ToSet(Order)

\* No name is the empty string; a name that is a letter of another is one letter.
ASSUME ConfigAssumption ==
  /\ Order \in Seq(Process)
  /\ \A i, j \in 1 .. Len(Order) : Order[i] = Order[j] => i = j
  /\ Entries \subseteq [kind : {"absent", "string", "list"}, names : Seq(QueueName)]
  /\ \A e \in Entries :
       /\ e.kind = "absent" => e.names = <<>>
       /\ e.kind = "string" => Len(e.names) = 1
  /\ \A n \in QueueName : Letters[n] # {}
  /\ \A n, m \in QueueName : m \in Letters[n] => Letters[m] = {m}
  /\ DOMAIN QueuesSizes \subseteq QueueName
  /\ \A n \in DOMAIN QueuesSizes : QueuesSizes[n] \in Nat
  /\ DefaultSize \in Nat

VARIABLES
  config,       \* process -> its consume and publish entries
  passed,       \* processes handed to the constructor
  stage,        \* what __init__ is doing
  at, item, giving,   \* rounds of the running loop and the two inside it
  consumers,    \* consume_queues: name -> consuming processes
  publishers,   \* publish_queues: name -> publishing processes
  named,        \* names of consume_queues, in order of insertion
  maxSizes,     \* _max_queue_sizes
  created,      \* the queues created so far: name, size
  consumeQueue, \* process -> name -> number of its queue, 0 for none
  publishList   \* process -> name -> numbers of the queues it puts into

input == <<config, passed>>
collection == <<consumers, publishers, named>>
wiring == <<created, consumeQueue, publishList>>
configVars == <<input, stage, at, item, giving, collection, maxSizes, wiring>>

Failures == {"wrong_count", "not_in_config", "same_queue", "no_publisher"}

ConfigTypeOK ==
  /\ config \in [Process -> [consume : Entries, publish : Entries]]
  /\ passed \in PassedSets
  /\ stage \in {"compare", "check", "consume", "publish", "bind", "give", "done"} \cup Failures
  /\ {at, item, giving} \subseteq Nat \ {0}
  /\ consumers \in [QueueName -> Seq(Process)]
  /\ publishers \in [QueueName -> Seq(Process)]
  /\ named \in Seq(QueueName)
  /\ maxSizes \in [QueueName -> Nat]
  /\ created \in Seq([name : QueueName, size : Nat])
  /\ consumeQueue \in [Process -> [QueueName -> 0 .. Len(created)]]
  /\ publishList \in [Process -> [QueueName -> Seq(1 .. Len(created))]]

ConfigInit ==
  /\ config \in [Process -> [consume : Entries, publish : Entries]]
  /\ passed \in PassedSets
  /\ stage = "compare"
  /\ at = 1 /\ item = 1 /\ giving = 1
  /\ consumers = [n \in QueueName |-> <<>>]
  /\ publishers = [n \in QueueName |-> <<>>]
  /\ named = <<>>
  /\ maxSizes = [n \in QueueName |-> DefaultSize]
  /\ created = <<>>
  /\ consumeQueue = [p \in Process |-> [n \in QueueName |-> 0]]
  /\ publishList = [p \in Process |-> [n \in QueueName |-> <<>>]]

-----------------------------------------------------------------------------
(* The checks *)

\* The processes handed over against those of the configuration.  One without a
\* dictionary "processes" is refused before that (dispatcher.py:86-89): its types
\* are taken for right here.
Compare ==
  /\ stage = "compare"
  /\ stage' = IF Cardinality(passed) # Len(Order) THEN "wrong_count"
              ELSE IF ~(passed \subseteq Process) THEN "not_in_config"
              ELSE "check"
  /\ UNCHANGED <<input, at, item, giving, collection, maxSizes, wiring>>

\* Python's set() of an entry: the names of a list, the letters of a string.
SetOf(e) == IF e.kind = "string" THEN Letters[e.names[1]] ELSE ToSet(e.names)

\* Fault: what a process consumes is compared with what the first one publishes.
CommonWithFirst(p) == SetOf(config[p].consume) \cap SetOf(config[Order[1]].publish)

\* Fault: bare strings are not looked at.
CommonOfLists(p) ==
  IF "string" \in {config[p].consume.kind, config[p].publish.kind} THEN {}
  ELSE SetOf(config[p].consume) \cap SetOf(config[p].publish)

Common(p) == SetOf(config[p].consume) \cap SetOf(config[p].publish)

\* One process: no queue both consumed and published.
CheckProcess ==
  /\ stage = "check" /\ at <= Len(Order)
  /\ IF Common(Order[at]) # {}
     THEN stage' = "same_queue" /\ UNCHANGED at
     ELSE at' = at + 1 /\ UNCHANGED stage
  /\ UNCHANGED <<input, item, giving, collection, maxSizes, wiring>>

\* Fault: a name without a configured size gets an unlimited queue.
SizeUnlimited(n) == IF n \in DOMAIN QueuesSizes THEN QueuesSizes[n] ELSE -1

\* The size of a queue: the configured one or the default.
SizeOf(n) == IF n \in DOMAIN QueuesSizes THEN QueuesSizes[n] ELSE DefaultSize

\* The names _collect_queue_sizes finds.
Consumed == UNION {ToSet(config[p].consume.names) : p \in Process}

\* _collect_queue_sizes, and what get_queue_max_size answers.
CollectSizes ==
  /\ stage = "check" /\ at > Len(Order)
  /\ stage' = "consume" /\ at' = 1
  /\ maxSizes' = [n \in QueueName |-> IF n \in Consumed THEN SizeOf(n) ELSE DefaultSize]
  /\ UNCHANGED <<input, item, giving, collection, wiring>>

-----------------------------------------------------------------------------
(* The collection of consumers and publishers *)

\* One name that a process consumes; a bare string is a list of one name.
CollectConsumed ==
  LET p == Order[at]  listed == config[p].consume.names IN
  /\ stage = "consume" /\ at <= Len(Order)
  /\ IF item <= Len(listed)
     THEN /\ consumers' = [consumers EXCEPT ![listed[item]] = Append(@, p)]
          /\ named' = IF consumers[listed[item]] = <<>> THEN Append(named, listed[item]) ELSE named
          /\ item' = item + 1 /\ UNCHANGED stage
     ELSE stage' = "publish" /\ item' = 1 /\ UNCHANGED <<consumers, named>>
  /\ UNCHANGED <<input, at, giving, publishers, maxSizes, wiring>>

\* One name that it publishes; after the last, the next process.
CollectPublished ==
  LET p == Order[at]  listed == config[p].publish.names IN
  /\ stage = "publish"
  /\ IF item <= Len(listed)
     THEN /\ publishers' = [publishers EXCEPT ![listed[item]] = Append(@, p)]
          /\ item' = item + 1 /\ UNCHANGED <<stage, at>>
     ELSE stage' = "consume" /\ at' = at + 1 /\ item' = 1 /\ UNCHANGED publishers
  /\ UNCHANGED <<input, giving, consumers, named, maxSizes, wiring>>

Collected ==
  /\ stage = "consume" /\ at > Len(Order)
  /\ stage' = "bind" /\ at' = 1
  /\ UNCHANGED <<input, item, giving, collection, maxSizes, wiring>>

-----------------------------------------------------------------------------
(* The queues *)

\* Fault: a name nobody publishes to goes unnoticed.
NeverUnpublished(n) == FALSE

Unpublished(n) == publishers[n] = <<>>

\* A queue for one consumer of a name; after the last, the next name.
CreateQueue ==
  LET n == named[at] IN
  /\ stage = "bind" /\ at <= Len(named)
  /\ IF item <= Len(consumers[n])
     THEN /\ created' = Append(created, [name |-> n, size |-> SizeOf(n)])
          /\ consumeQueue' = [consumeQueue EXCEPT ![consumers[n][item]][n] = Len(created) + 1]
          /\ stage' = IF Unpublished(n) THEN "no_publisher" ELSE "give"
          /\ item' = item + 1 /\ giving' = 1 /\ UNCHANGED at
     ELSE at' = at + 1 /\ item' = 1 /\ UNCHANGED <<stage, giving, created, consumeQueue>>
  /\ UNCHANGED <<input, collection, maxSizes, publishList>>

\* Fault: a publisher keeps the queue of the first consumer only.
WithFirst(own) == IF own = <<>> THEN <<Len(created)>> ELSE own

\* The queues a publisher of a name has, with the newest.
WithNewest(own) == Append(own, Len(created))

\* It is given to every publisher of the name.
GiveQueue ==
  LET n == named[at] IN
  /\ stage = "give"
  /\ IF giving <= Len(publishers[n])
     THEN /\ publishList' = [publishList EXCEPT ![publishers[n][giving]][n] = WithNewest(@)]
          /\ giving' = giving + 1 /\ UNCHANGED stage
     ELSE stage' = "bind" /\ UNCHANGED <<giving, publishList>>
  /\ UNCHANGED <<input, at, item, collection, maxSizes, created, consumeQueue>>

\* The constructor goes on to shared objects, system queues and the watcher.
Finish ==
  /\ stage = "bind" /\ at > Len(named)
  /\ stage' = "done"
  /\ UNCHANGED <<input, at, item, giving, collection, maxSizes, wiring>>

ConfigNext ==
  \/ Compare \/ CheckProcess \/ CollectSizes
  \/ CollectConsumed \/ CollectPublished \/ Collected
  \/ CreateQueue \/ GiveQueue \/ Finish

ConfigSpec == ConfigInit /\ [][ConfigNext]_configVars

-----------------------------------------------------------------------------
(* What the processes are handed *)

\* publish_queues and consume_queues of each process: the names it has queues for.
HandedPublish ==
  [p \in Process |-> [n \in {m \in QueueName : publishList[p][m] # <<>>} |-> publishList[p][n]]]
HandedConsume ==
  [p \in Process |-> [n \in {m \in QueueName : consumeQueue[p][m] # 0} |-> consumeQueue[p][n]]]

-----------------------------------------------------------------------------
(* Properties *)

Consumes(p, n) == n \in ToSet(config[p].consume.names)
Publishes(p, n) == n \in ToSet(config[p].publish.names)
SelfLoop(p) == \E n \in QueueName : Consumes(p, n) /\ Publishes(p, n)

\* c comes before d in the configuration.
Before(c, d) == \E i, j \in 1 .. Len(Order) : i < j /\ Order[i] = c /\ Order[j] = d

\* What RobotProcess.publish relies on: in an accepted configuration each
\* publisher of a name has exactly one queue per consumer, the one that consumer
\* reads, in the order of the configuration, and two consumers share none.
OneQueuePerConsumer ==
  stage = "done" =>
    /\ \A n \in QueueName :
         /\ ToSet(consumers[n]) = {c \in Process : Consumes(c, n)}
         /\ \A i, j \in 1 .. Len(consumers[n]) : i < j => Before(consumers[n][i], consumers[n][j])
    /\ \A p \in Process, n \in QueueName :
         publishList[p][n] =
           IF Publishes(p, n)
           THEN [i \in 1 .. Len(consumers[n]) |-> consumeQueue[consumers[n][i]][n]] ELSE <<>>
    /\ \A c, d \in Process, n, m \in QueueName :
         consumeQueue[c][n] = consumeQueue[d][m] /\ consumeQueue[c][n] # 0
           => c = d /\ n = m

\* A consumer has a queue for exactly the names it consumes, somebody publishes
\* to it, and get_queue_max_size answers the size it was created with.
ConsumersAreFed ==
  stage = "done" =>
    \A c \in Process, n \in QueueName :
      /\ Consumes(c, n) <=> consumeQueue[c][n] # 0
      /\ Consumes(c, n) =>
           /\ \E p \in Process : Publishes(p, n)
           /\ created[consumeQueue[c][n]] = [name |-> n, size |-> maxSizes[n]]

Kinds(p) == {config[p].consume.kind, config[p].publish.kind}

\* A bare string is compared by its letters, with those of another bare string or
\* with names of one letter.
SharesLetter(p) ==
  /\ "string" \in Kinds(p)
  /\ \E n, m \in QueueName : Consumes(p, n) /\ Publishes(p, m) /\ Letters[n] \cap Letters[m] # {}

\* What is refused is defective, and the complaint is the right one, but for bare
\* strings that merely share a letter with what they are compared to.
RefusedForCause ==
  /\ stage \in {"wrong_count", "not_in_config"} => passed # Process
  /\ stage = "same_queue" => \E p \in Process : SelfLoop(p) \/ SharesLetter(p)
  /\ stage = "no_publisher" =>
       \E n \in QueueName : /\ \E c \in Process : Consumes(c, n)
                            /\ \A p \in Process : ~Publishes(p, n)

\* "Process has the same queue for consume and publish" is an error, and accepted
\* processes are the configured ones.  What escapes is a queue named by a bare
\* string on one side and in a list on the other.
SelfLoopsRefused ==
  stage = "done" =>
    /\ passed = Process
    /\ \A p \in Process : SelfLoop(p) => Kinds(p) = {"string", "list"}

\* What an accepted configuration hands to the processes is what ProcessQueues
\* assumes of it.
HandedIsWired ==
  stage = "done" => Wired(Process, 1 .. Len(created), HandedPublish, HandedConsume)

\* "There are no queues that don't have any consuming processes": what a process
\* publishes, somebody consumes.
PublishedIsConsumed ==
  stage = "done" =>
    \A p \in Process, n \in QueueName : Publishes(p, n) => \E c \in Process : Consumes(c, n)
=============================================================================
