-------------------------- MODULE DispatcherProofs --------------------------
(* Proofs about the dispatcher.  DispatcherConfig: types, the checks of a  *)
(* configuration, the lists of consumers and publishers, the queues made   *)
(* of them.  DispatcherLifecycle: types, the two dictionaries of processes *)
(* against what the operating system runs, the overflow check.             *)
EXTENDS DispatcherConfig, DispatcherLifecycle, SequenceFacts, FiniteSetTheorems

\* No two positions hold the same.
Distinct(s) == \A i, j \in 1 .. Len(s) : s[i] = s[j] => i = j

-----------------------------------------------------------------------------
(* RobotDispatcher.__init__: types *)

InputType ==
  /\ config \in [Process -> [consume : Entries, publish : Entries]]
  /\ passed \in PassedSets

StageType ==
  /\ stage \in {"compare", "check", "consume", "publish", "bind", "give", "done"} \cup Failures
  /\ at \in Nat \ {0} /\ item \in Nat \ {0} /\ giving \in Nat \ {0}

CollectionType ==
  /\ consumers \in [QueueName -> Seq(Process)]
  /\ publishers \in [QueueName -> Seq(Process)]
  /\ named \in Seq(QueueName)

WiringType ==
  /\ created \in Seq([name : QueueName, size : Nat])
  /\ consumeQueue \in [Process -> [QueueName -> 0 .. Len(created)]]
  /\ publishList \in [Process -> [QueueName -> Seq(1 .. Len(created))]]

\* Where the loops are, in the stages that are inside one.
Rounds ==
  /\ stage = "publish" => at \in 1 .. Len(Order)
  /\ stage \in {"give", "no_publisher"} =>
       /\ at \in 1 .. Len(named)
       /\ item - 1 \in 1 .. Len(consumers[named[at]])
       /\ created # <<>>

ConfigTyped ==
  InputType /\ StageType /\ CollectionType /\ maxSizes \in [QueueName -> Nat] /\ WiringType /\ Rounds

LEMMA ConfigTypeParts == ConfigTyped => ConfigTypeOK
BY DEF ConfigTyped, ConfigTypeOK, InputType, StageType, CollectionType, WiringType

\* The configuration names its processes once each.
LEMMA OrderFacts ==
  /\ Len(Order) \in Nat
  /\ \A k \in 1 .. Len(Order) : Order[k] \in Process
  /\ \A p \in Process : \E k \in 1 .. Len(Order) : Order[k] = p
<1>1. Order \in Seq(Process)
  BY ConfigAssumption
<1>2. Len(Order) \in Nat /\ DOMAIN Order = 1 .. Len(Order)
  BY <1>1, LenProperties
<1> QED BY <1>1, <1>2 DEF Process, ToSet

\* What a process is configured with.
LEMMA EntryFacts ==
  ASSUME InputType, NEW p \in Process
  PROVE  /\ config[p].consume \in Entries /\ config[p].publish \in Entries
         /\ config[p].consume.names \in Seq(QueueName)
         /\ config[p].publish.names \in Seq(QueueName)
<1>1. config[p].consume \in Entries /\ config[p].publish \in Entries
  BY DEF InputType
<1> QED BY <1>1, ConfigAssumption

\* The elements of a sequence are at its positions.
LEMMA ElementAt ==
  ASSUME NEW S, NEW s \in Seq(S)
  PROVE  /\ Len(s) \in Nat
         /\ \A i \in 1 .. Len(s) : s[i] \in S /\ s[i] \in ToSet(s)
         /\ \A e \in ToSet(s) : \E i \in 1 .. Len(s) : s[i] = e
         /\ Len(s) = 0 <=> s = <<>>
<1>1. Len(s) \in Nat /\ DOMAIN s = 1 .. Len(s)
  BY LenProperties
<1> QED BY <1>1 DEF ToSet

LEMMA SizeIsNat == \A n \in QueueName : SizeOf(n) \in Nat
BY ConfigAssumption DEF SizeOf

LEMMA ConfigTypedInit == ConfigInit => ConfigTyped
<1> SUFFICES ASSUME ConfigInit PROVE ConfigTyped
  OBVIOUS
<1>1. InputType /\ StageType /\ Rounds
  BY DEF ConfigInit, InputType, StageType, Rounds
<1>2. CollectionType
  <2>1. <<>> \in Seq(Process) /\ <<>> \in Seq(QueueName)
    OBVIOUS
  <2> QED BY <2>1 DEF ConfigInit, CollectionType
<1>3. WiringType
  <2>1. created = <<>> /\ created \in Seq([name : QueueName, size : Nat]) /\ Len(created) = 0
    BY DEF ConfigInit
  <2>2. 0 \in 0 .. Len(created) /\ <<>> \in Seq(1 .. Len(created))
    BY <2>1
  <2> QED BY <2>1, <2>2 DEF ConfigInit, WiringType
<1>4. maxSizes \in [QueueName -> Nat]
  BY ConfigAssumption DEF ConfigInit
<1> QED BY <1>1, <1>2, <1>3, <1>4 DEF ConfigTyped

\* The steps that neither collect nor wire.
LEMMA TypedUnwired ==
  ASSUME ConfigTyped, UNCHANGED <<input, collection, wiring>>, StageType', Rounds',
         maxSizes' \in [QueueName -> Nat]
  PROVE  ConfigTyped'
<1>1. InputType' /\ CollectionType' /\ WiringType'
  BY DEF ConfigTyped, InputType, CollectionType, WiringType, input, collection, wiring
<1> QED BY <1>1 DEF ConfigTyped

\* The rounds of the loops over the processes and over the names.
LEMMA ConsumedRound ==
  ASSUME ConfigTyped, CollectConsumed
  PROVE  /\ at \in 1 .. Len(Order) /\ item \in Nat \ {0} /\ stage = "consume"
         /\ InputType /\ StageType /\ CollectionType /\ WiringType
<1>1. InputType /\ StageType /\ CollectionType /\ WiringType
  BY DEF ConfigTyped
<1>2. at \in Nat \ {0} /\ item \in Nat \ {0} /\ Len(Order) \in Nat
  BY <1>1, OrderFacts DEF StageType
<1>3. stage = "consume" /\ at <= Len(Order)
  BY DEF CollectConsumed
<1> QED BY <1>1, <1>2, <1>3

LEMMA CreateRound ==
  ASSUME ConfigTyped, CreateQueue
  PROVE  /\ at \in 1 .. Len(named) /\ Len(named) \in Nat /\ stage = "bind"
         /\ InputType /\ StageType /\ CollectionType /\ WiringType
<1>1. InputType /\ StageType /\ CollectionType /\ WiringType
  BY DEF ConfigTyped
<1>2. at \in Nat \ {0} /\ Len(named) \in Nat
  BY <1>1, LenProperties DEF StageType, CollectionType
<1>3. stage = "bind" /\ at <= Len(named)
  BY DEF CreateQueue
<1> QED BY <1>1, <1>2, <1>3

LEMMA TypedCollectConsumed == ASSUME ConfigTyped, CollectConsumed PROVE ConfigTyped'
<1>1. at \in 1 .. Len(Order) /\ InputType /\ StageType /\ CollectionType /\ WiringType
  BY ConsumedRound
<1>2. PICK p \in Process : p = Order[at]
  BY <1>1, OrderFacts
<1>3. PICK listed \in Seq(QueueName) : listed = config[p].consume.names
  BY <1>1, EntryFacts
<1>4. UNCHANGED <<input, at, giving, publishers, maxSizes, wiring>>
  BY DEF CollectConsumed
<1>5. InputType' /\ WiringType' /\ maxSizes' \in [QueueName -> Nat] /\ publishers' \in [QueueName -> Seq(Process)]
  BY <1>1, <1>4 DEF InputType, WiringType, CollectionType, ConfigTyped, input, wiring
<1>6. /\ consumers' \in [QueueName -> Seq(Process)] /\ named' \in Seq(QueueName)
      /\ item' \in Nat \ {0} /\ stage' \in {"consume", "publish"}
  <2>1. CASE item <= Len(listed)
    <3>1. item \in 1 .. Len(listed)
      BY <1>1, <2>1, LenProperties DEF StageType
    <3>2. PICK n \in QueueName : n = listed[item]
      BY <3>1
    <3>3. consumers[n] \in Seq(Process) /\ named \in Seq(QueueName)
      BY <1>1 DEF CollectionType
    <3>4. Append(consumers[n], p) \in Seq(Process) /\ Append(named, n) \in Seq(QueueName)
      BY <3>3, AppendFacts
    <3>5. consumers' = [consumers EXCEPT ![n] = Append(consumers[n], p)]
      BY <1>2, <1>3, <2>1, <3>2 DEF CollectConsumed
    <3>6. named' \in {named, Append(named, n)}
      BY <1>2, <1>3, <2>1, <3>2 DEF CollectConsumed
    <3>7. item' = item + 1 /\ stage' = "consume"
      BY <1>2, <1>3, <2>1 DEF CollectConsumed
    <3>8. consumers' \in [QueueName -> Seq(Process)]
      BY <1>1, <3>4, <3>5 DEF CollectionType
    <3>9. named' \in Seq(QueueName)
      BY <3>3, <3>4, <3>6
    <3>10. item' \in Nat \ {0}
      BY <1>1, <3>7 DEF StageType
    <3> QED BY <3>7, <3>8, <3>9, <3>10
  <2>2. CASE ~(item <= Len(listed))
    BY <1>1, <1>2, <1>3, <2>2 DEF CollectConsumed, CollectionType
  <2> QED BY <2>1, <2>2
<1>7. CollectionType' /\ StageType' /\ Rounds'
  BY <1>1, <1>4, <1>5, <1>6 DEF CollectionType, StageType, Rounds
<1> QED BY <1>5, <1>7 DEF ConfigTyped

LEMMA TypedCollectPublished == ASSUME ConfigTyped, CollectPublished PROVE ConfigTyped'
<1>1. at \in 1 .. Len(Order) /\ InputType /\ StageType /\ CollectionType /\ WiringType
  BY DEF CollectPublished, ConfigTyped, Rounds
<1>2. PICK p \in Process : p = Order[at]
  BY <1>1, OrderFacts
<1>3. PICK listed \in Seq(QueueName) : listed = config[p].publish.names
  BY <1>1, EntryFacts
<1>4. UNCHANGED <<input, giving, consumers, named, maxSizes, wiring>>
  BY DEF CollectPublished
<1>5. InputType' /\ WiringType' /\ maxSizes' \in [QueueName -> Nat]
      /\ consumers' \in [QueueName -> Seq(Process)] /\ named' \in Seq(QueueName)
  BY <1>1, <1>4 DEF InputType, WiringType, CollectionType, ConfigTyped, input, wiring
<1>6. /\ publishers' \in [QueueName -> Seq(Process)] /\ item' \in Nat \ {0} /\ at' \in Nat \ {0}
      /\ stage' = "consume" \/ (stage' = "publish" /\ at' = at)
  <2>1. CASE item <= Len(listed)
    <3>1. item \in 1 .. Len(listed)
      BY <1>1, <2>1, LenProperties DEF StageType
    <3>2. PICK n \in QueueName : n = listed[item]
      BY <3>1
    <3>3. publishers[n] \in Seq(Process)
      BY <1>1 DEF CollectionType
    <3>4. Append(publishers[n], p) \in Seq(Process)
      BY <3>3, AppendFacts
    <3>5. publishers' = [publishers EXCEPT ![n] = Append(publishers[n], p)]
      BY <1>2, <1>3, <2>1, <3>2 DEF CollectPublished
    <3>6. item' = item + 1 /\ stage' = "publish" /\ at' = at
      BY <1>2, <1>3, <2>1 DEF CollectPublished
    <3> QED BY <1>1, <3>4, <3>5, <3>6 DEF CollectionType, StageType
  <2>2. CASE ~(item <= Len(listed))
    BY <1>1, <1>2, <1>3, <2>2 DEF CollectPublished, CollectionType, StageType
  <2> QED BY <2>1, <2>2
<1>7. giving' \in Nat \ {0}
  BY <1>1, <1>4 DEF StageType
<1>8. CollectionType' /\ StageType' /\ Rounds'
  BY <1>1, <1>5, <1>6, <1>7 DEF CollectionType, StageType, Rounds
<1> QED BY <1>5, <1>8 DEF ConfigTyped

LEMMA TypedCreateQueue == ASSUME ConfigTyped, CreateQueue PROVE ConfigTyped'
<1>1. at \in 1 .. Len(named) /\ InputType /\ StageType /\ CollectionType /\ WiringType
  BY CreateRound
<1>2. PICK n \in QueueName : n = named[at]
  BY <1>1 DEF CollectionType
<1>3. UNCHANGED <<input, collection, maxSizes, publishList>>
  BY DEF CreateQueue
<1>4. InputType' /\ CollectionType' /\ maxSizes' \in [QueueName -> Nat]
  BY <1>1, <1>3 DEF InputType, CollectionType, ConfigTyped, input, collection
<1>5. UNCHANGED <<named, consumers>>
  BY <1>3 DEF collection
<1>6. CASE item <= Len(consumers[n])
  <2>1. consumers[n] \in Seq(Process) /\ item \in 1 .. Len(consumers[n])
    BY <1>1, <1>6 DEF CollectionType, StageType
  <2>2. PICK p \in Process : p = consumers[n][item]
    BY <2>1
  <2>3. PICK l \in Nat : l = Len(created)
    BY <1>1, LenProperties DEF WiringType
  <2>4. [name |-> n, size |-> SizeOf(n)] \in [name : QueueName, size : Nat]
    BY SizeIsNat
  <2>5. created' = Append(created, [name |-> n, size |-> SizeOf(n)])
    BY <1>2, <1>6 DEF CreateQueue
  <2>6. created' \in Seq([name : QueueName, size : Nat]) /\ Len(created') = l + 1
    BY <1>1, <2>3, <2>4, <2>5, AppendFacts DEF WiringType
  <2>7. consumeQueue' = [consumeQueue EXCEPT ![p][n] = l + 1]
    BY <1>2, <1>6, <2>2, <2>3 DEF CreateQueue
  <2>8. consumeQueue' \in [Process -> [QueueName -> 0 .. l + 1]]
    <3>1. consumeQueue \in [Process -> [QueueName -> 0 .. l]]
      BY <1>1, <2>3 DEF WiringType
    <3>2. ASSUME NEW c \in Process, NEW m \in QueueName PROVE consumeQueue[c][m] \in 0 .. l + 1
      BY <3>1
    <3>3. consumeQueue \in [Process -> [QueueName -> 0 .. l + 1]]
      BY <3>1, <3>2
    <3>4. l + 1 \in 0 .. l + 1
      OBVIOUS
    <3> QED BY <2>7, <3>3, <3>4
  <2>9. publishList' \in [Process -> [QueueName -> Seq(1 .. l + 1)]]
    <3>1. publishList \in [Process -> [QueueName -> Seq(1 .. l)]]
      BY <1>1, <2>3 DEF WiringType
    <3>2. ASSUME NEW s \in Seq(1 .. l) PROVE s \in Seq(1 .. l + 1)
      <4>1. /\ Len(s) \in Nat /\ \A i \in 1 .. Len(s) : s[i] \in 1 .. l + 1
            /\ s = [i \in 1 .. Len(s) |-> s[i]]
        BY LenProperties
      <4> QED BY <4>1
    <3>3. ASSUME NEW c \in Process, NEW m \in QueueName PROVE publishList[c][m] \in Seq(1 .. l + 1)
      BY <3>1, <3>2
    <3> QED BY <1>3, <3>1, <3>3
  <2>10. WiringType'
    BY <2>6, <2>8, <2>9 DEF WiringType
  <2>11. item' = item + 1 /\ giving' = 1 /\ at' = at /\ stage' \in {"no_publisher", "give"}
    BY <1>2, <1>6 DEF CreateQueue
  <2>12. StageType'
    BY <1>1, <2>11 DEF StageType, Failures
  <2>13. created' # <<>>
    BY <2>3, <2>6
  <2>14. Rounds'
    BY <1>1, <1>2, <1>5, <2>1, <2>11, <2>13 DEF Rounds, StageType
  <2> QED BY <1>4, <2>10, <2>12, <2>14 DEF ConfigTyped
<1>7. CASE ~(item <= Len(consumers[n]))
  <2>1. UNCHANGED <<stage, giving, created, consumeQueue>> /\ at' = at + 1 /\ item' = 1 /\ stage = "bind"
    BY <1>2, <1>7 DEF CreateQueue
  <2>2. WiringType' /\ StageType' /\ Rounds'
    BY <1>1, <1>3, <2>1 DEF WiringType, StageType, Rounds
  <2> QED BY <1>4, <2>2 DEF ConfigTyped
<1> QED BY <1>6, <1>7

LEMMA TypedGiveQueue == ASSUME ConfigTyped, GiveQueue PROVE ConfigTyped'
<1>1. at \in 1 .. Len(named) /\ StageType /\ CollectionType /\ WiringType /\ created # <<>> /\ Rounds
  BY DEF GiveQueue, ConfigTyped, Rounds
<1>2. PICK n \in QueueName : n = named[at]
  BY <1>1 DEF CollectionType
<1>3. UNCHANGED <<input, at, item, collection, maxSizes, created, consumeQueue>>
  BY DEF GiveQueue
<1>4. InputType' /\ CollectionType' /\ maxSizes' \in [QueueName -> Nat]
  BY <1>3 DEF InputType, CollectionType, ConfigTyped, input, collection
<1>5. PICK l \in Nat \ {0} : l = Len(created)
  BY <1>1, LenProperties, EmptySeq DEF WiringType
<1>6. publishList' \in [Process -> [QueueName -> Seq(1 .. l)]] /\ giving' \in Nat \ {0} /\ stage' \in {"give", "bind"}
  <2>1. publishList \in [Process -> [QueueName -> Seq(1 .. l)]]
    BY <1>1, <1>5 DEF WiringType
  <2>2. CASE giving <= Len(publishers[n])
    <3>1. publishers[n] \in Seq(Process) /\ giving \in 1 .. Len(publishers[n])
      BY <1>1, <2>2 DEF CollectionType, StageType
    <3>2. PICK p \in Process : p = publishers[n][giving]
      BY <3>1
    <3>3. publishList' = [publishList EXCEPT ![p][n] = Append(publishList[p][n], l)]
      BY <1>2, <1>5, <2>2, <3>2 DEF GiveQueue, WithNewest
    <3>4. publishList[p][n] \in Seq(1 .. l) /\ l \in 1 .. l
      BY <2>1
    <3>5. Append(publishList[p][n], l) \in Seq(1 .. l)
      BY <3>4, AppendFacts
    <3>6. giving' = giving + 1 /\ stage' = stage /\ stage = "give"
      BY <1>2, <2>2 DEF GiveQueue
    <3>7. giving' \in Nat \ {0}
      BY <1>1, <3>6 DEF StageType
    <3>8. publishList' \in [Process -> [QueueName -> Seq(1 .. l)]]
      BY <2>1, <3>3, <3>5
    <3> QED BY <3>6, <3>7, <3>8
  <2>3. CASE ~(giving <= Len(publishers[n]))
    <3>1. giving' = giving /\ stage' = "bind" /\ publishList' = publishList
      BY <1>2, <2>3 DEF GiveQueue
    <3>2. giving \in Nat \ {0}
      BY <1>1 DEF StageType
    <3> QED BY <2>1, <3>1, <3>2
  <2> QED BY <2>2, <2>3
<1>7. WiringType'
  BY <1>1, <1>3, <1>5, <1>6 DEF WiringType
<1>8. StageType' /\ Rounds'
  BY <1>1, <1>3, <1>6 DEF StageType, Rounds, GiveQueue, collection
<1> QED BY <1>4, <1>7, <1>8 DEF ConfigTyped

LEMMA TypedStep == ConfigTyped /\ [ConfigNext]_configVars => ConfigTyped'
<1> SUFFICES ASSUME ConfigTyped, [ConfigNext]_configVars PROVE ConfigTyped'
  OBVIOUS
<1>1. StageType /\ Rounds /\ maxSizes \in [QueueName -> Nat]
  BY DEF ConfigTyped
<1>2. CASE Compare
  BY <1>1, <1>2, TypedUnwired DEF Compare, StageType, Rounds, Failures
<1>3. CASE CheckProcess
  BY <1>1, <1>3, TypedUnwired DEF CheckProcess, StageType, Rounds, Failures
<1>4. CASE CollectSizes
  BY <1>1, <1>4, TypedUnwired, SizeIsNat, ConfigAssumption DEF CollectSizes, StageType, Rounds
<1>5. CASE Collected
  BY <1>1, <1>5, TypedUnwired DEF Collected, StageType, Rounds
<1>6. CASE Finish
  BY <1>1, <1>6, TypedUnwired DEF Finish, StageType, Rounds
<1>7. CASE UNCHANGED configVars
  <2>1. UNCHANGED <<input, stage, at, item, giving, collection, maxSizes, wiring>>
    BY <1>7 DEF configVars
  <2> QED BY <1>1, <2>1, TypedUnwired DEF StageType, Rounds, collection, wiring
<1> QED BY <1>2, <1>3, <1>4, <1>5, <1>6, <1>7, TypedCollectConsumed, TypedCollectPublished,
           TypedCreateQueue, TypedGiveQueue DEF ConfigNext

\* Whatever the configuration, every queue gets a size that is a number and every
\* list of a publisher holds queues that were created (dispatcher.py:86-167).
THEOREM ConfigTypeCorrect == ConfigSpec => []ConfigTypeOK
<1>1. ConfigSpec => []ConfigTyped
  BY ConfigTypedInit, TypedStep, PTL DEF ConfigSpec
<1> QED BY <1>1, ConfigTypeParts, PTL

-----------------------------------------------------------------------------
(* What is refused and what is accepted *)

\* The stages after the checks.
Later == {"consume", "publish", "bind", "give", "done", "no_publisher"}

ConfigChecked ==
  /\ stage = "compare" => at = 1
  /\ stage \in {"wrong_count", "not_in_config"} => passed # Process
  /\ stage \in Later \cup {"check", "same_queue"} => passed = Process
  /\ stage = "check" => \A k \in 1 .. Len(Order) : k < at => Common(Order[k]) = {}
  /\ stage \in Later => \A p \in Process : Common(p) = {}
  /\ stage = "same_queue" => \E p \in Process : Common(p) # {}

\* As many processes as the configuration lists, which lists none twice.
LEMMA ProcessCount == IsFiniteSet(Process) /\ Cardinality(Process) = Len(Order)
<1>1. Order \in [1 .. Len(Order) -> Process] /\ Len(Order) \in Nat
  <2>1. Order \in Seq(Process)
    BY ConfigAssumption
  <2> QED BY <2>1, LenProperties
<1>2. IsInjective(Order)
  BY <1>1, ConfigAssumption DEF IsInjective
<1>3. Order \in Surjection(1 .. Len(Order), Process)
  BY <1>1, OrderFacts DEF Surjection
<1>4. ExistsBijection(1 .. Len(Order), Process)
  BY <1>1, <1>2, <1>3 DEF ExistsBijection, Bijection, Injection
<1>5. IsFiniteSet(1 .. Len(Order)) /\ Cardinality(1 .. Len(Order)) = Len(Order)
  <2>1. 1 \in Int /\ Len(Order) \in Int
    BY <1>1
  <2>2. IsFiniteSet(1 .. Len(Order)) /\ Cardinality(1 .. Len(Order)) = IF 1 > Len(Order) THEN 0 ELSE Len(Order) - 1 + 1
    BY <2>1, FS_Interval
  <2> QED BY <1>1, <2>2
<1> QED BY <1>4, <1>5, FS_Bijection

LEMMA CheckedCompare == ASSUME ConfigChecked, Compare PROVE ConfigChecked'
<1>1. stage = "compare" /\ UNCHANGED <<config, passed, at>>
  BY DEF Compare, input
<1>2. CASE Cardinality(passed) # Len(Order)
  <2>1. stage' = "wrong_count"
    BY <1>2 DEF Compare
  <2>2. passed # Process
    BY <1>2, ProcessCount
  <2> QED BY <1>1, <2>1, <2>2 DEF ConfigChecked, Later
<1>3. CASE Cardinality(passed) = Len(Order) /\ ~(passed \subseteq Process)
  <2>1. stage' = "not_in_config"
    BY <1>3 DEF Compare
  <2> QED BY <1>1, <1>3, <2>1 DEF ConfigChecked, Later
<1>4. CASE Cardinality(passed) = Len(Order) /\ passed \subseteq Process
  <2>1. stage' = "check"
    BY <1>4 DEF Compare
  <2>2. passed = Process
    BY <1>4, ProcessCount, FS_Subset
  <2>3. at = 1
    BY <1>1 DEF ConfigChecked
  <2> QED BY <1>1, <2>1, <2>2, <2>3, OrderFacts DEF ConfigChecked, Later
<1> QED BY <1>2, <1>3, <1>4

LEMMA CheckedStep == ConfigTyped /\ ConfigChecked /\ [ConfigNext]_configVars => ConfigChecked'
<1> SUFFICES ASSUME ConfigTyped, ConfigChecked, [ConfigNext]_configVars PROVE ConfigChecked'
  OBVIOUS
<1>1. UNCHANGED <<config, passed>>
  BY DEF ConfigNext, configVars, input, Compare, CheckProcess, CollectSizes, CollectConsumed,
         CollectPublished, Collected, CreateQueue, GiveQueue, Finish
<1>2. \A p : Common(p)' = Common(p)
  BY <1>1 DEF Common, SetOf
<1>3. CASE Compare
  BY <1>3, CheckedCompare
<1>4. CASE CheckProcess
  <2>1. stage = "check" /\ at \in 1 .. Len(Order)
    BY <1>4, OrderFacts DEF CheckProcess, ConfigTyped, StageType
  <2>2. Order[at] \in Process
    BY <2>1, OrderFacts
  <2>3. CASE Common(Order[at]) # {}
    <3>1. stage' = "same_queue"
      BY <1>4, <2>3 DEF CheckProcess
    <3> QED BY <1>1, <1>2, <2>1, <2>2, <2>3, <3>1 DEF ConfigChecked, Later
  <2>4. CASE Common(Order[at]) = {}
    <3>1. stage' = "check" /\ at' = at + 1
      BY <1>4, <2>4 DEF CheckProcess
    <3>2. ASSUME NEW k \in 1 .. Len(Order), k < at + 1 PROVE Common(Order[k]) = {}
      BY <2>1, <2>4, <3>2 DEF ConfigChecked
    <3> QED BY <1>1, <1>2, <2>1, <3>1, <3>2 DEF ConfigChecked, Later
  <2> QED BY <2>3, <2>4
<1>5. CASE CollectSizes
  <2>1. stage = "check" /\ at > Len(Order) /\ stage' = "consume" /\ at \in Nat
    BY <1>5 DEF CollectSizes, ConfigTyped, StageType
  <2>2. ASSUME NEW p \in Process PROVE Common(p) = {}
    <3>1. PICK k \in 1 .. Len(Order) : Order[k] = p
      BY OrderFacts
    <3>2. k < at
      BY <2>1, OrderFacts
    <3> QED BY <2>1, <3>1, <3>2 DEF ConfigChecked
  <2> QED BY <1>1, <1>2, <2>1, <2>2 DEF ConfigChecked, Later
<1>6. CASE stage \in Later /\ stage' \in Later
  BY <1>1, <1>2, <1>6 DEF ConfigChecked, Later
<1>7. CASE UNCHANGED <<stage, at>>
  BY <1>1, <1>2, <1>7 DEF ConfigChecked, Later
<1>8. CollectConsumed \/ CollectPublished \/ Collected \/ CreateQueue \/ GiveQueue \/ Finish
        => stage \in Later /\ stage' \in Later
  BY DEF CollectConsumed, CollectPublished, Collected, CreateQueue, GiveQueue, Finish, Later
<1> QED BY <1>3, <1>4, <1>5, <1>6, <1>7, <1>8 DEF ConfigNext, configVars

LEMMA SpecChecked == ConfigSpec => [](ConfigTyped /\ ConfigChecked)
<1>1. ConfigInit => ConfigChecked
  BY DEF ConfigInit, ConfigChecked, Later
<1> QED BY <1>1, ConfigTypedInit, TypedStep, CheckedStep, PTL DEF ConfigSpec

\* What the comparison of two entries finds, and what it misses.
LEMMA CommonMeans ==
  ASSUME InputType, NEW p \in Process
  PROVE  /\ Common(p) # {} => SelfLoop(p) \/ SharesLetter(p)
         /\ Common(p) = {} /\ SelfLoop(p) => Kinds(p) = {"string", "list"}
<1> DEFINE c == config[p].consume  d == config[p].publish
<1>1. c \in Entries /\ d \in Entries
  BY EntryFacts
<1>2. ASSUME NEW e \in Entries
      PROVE  /\ e.names \in Seq(QueueName) /\ ToSet(e.names) \subseteq QueueName
             /\ e.kind \in {"absent", "string", "list"}
             /\ e.kind = "absent" => ToSet(e.names) = {} /\ SetOf(e) = {}
             /\ e.kind = "string" => /\ e.names[1] \in QueueName
                                     /\ ToSet(e.names) = {e.names[1]}
                                     /\ SetOf(e) = Letters[e.names[1]]
             /\ e.kind = "list" => SetOf(e) = ToSet(e.names)
  <2>1. e.names \in Seq(QueueName) /\ e.kind \in {"absent", "string", "list"}
    BY ConfigAssumption
  <2>2. DOMAIN e.names = 1 .. Len(e.names) /\ \A i \in 1 .. Len(e.names) : e.names[i] \in QueueName
    BY <2>1, LenProperties
  <2>3. CASE e.kind = "absent"
    <3>1. e.names = <<>>
      BY <2>3, ConfigAssumption
    <3>2. ToSet(e.names) = {}
      BY <3>1 DEF ToSet
    <3> QED BY <2>1, <2>3, <3>2 DEF SetOf
  <2>4. CASE e.kind = "string"
    <3>1. Len(e.names) = 1
      BY <2>4, ConfigAssumption
    <3>2. ToSet(e.names) = {e.names[1]} /\ e.names[1] \in QueueName
      BY <2>2, <3>1 DEF ToSet
    <3> QED BY <2>1, <2>4, <3>2 DEF SetOf
  <2>5. CASE e.kind = "list"
    BY <2>1, <2>2, <2>5 DEF SetOf, ToSet
  <2> QED BY <2>1, <2>3, <2>4, <2>5
<1>3. Common(p) = SetOf(c) \cap SetOf(d)
  BY DEF Common
<1>4. Kinds(p) = {c.kind, d.kind}
  BY DEF Kinds
<1>5. \A n : (Consumes(p, n) <=> n \in ToSet(c.names)) /\ (Publishes(p, n) <=> n \in ToSet(d.names))
  BY DEF Consumes, Publishes
<1> HIDE DEF c, d
<1>6. ASSUME Common(p) # {} PROVE SelfLoop(p) \/ SharesLetter(p)
  <2>1. PICK x : x \in SetOf(c) /\ x \in SetOf(d)
    BY <1>3, <1>6
  <2>2. CASE c.kind = "list" /\ d.kind = "list"
    BY <1>1, <1>2, <1>5, <2>1, <2>2 DEF SelfLoop
  <2>3. CASE c.kind = "string" /\ d.kind = "string"
    <3>1. /\ c.names[1] \in QueueName /\ Consumes(p, c.names[1])
          /\ d.names[1] \in QueueName /\ Publishes(p, d.names[1])
          /\ x \in Letters[c.names[1]] \cap Letters[d.names[1]]
      BY <1>1, <1>2, <1>5, <2>1, <2>3
    <3> QED BY <1>4, <2>3, <3>1 DEF SharesLetter
  <2>4. CASE c.kind = "string" /\ d.kind = "list"
    <3>1. c.names[1] \in QueueName /\ Consumes(p, c.names[1]) /\ x \in Letters[c.names[1]]
      BY <1>1, <1>2, <1>5, <2>1, <2>4
    <3>2. x \in QueueName /\ Publishes(p, x)
      BY <1>1, <1>2, <1>5, <2>1, <2>4
    <3>3. x \in Letters[x]
      BY <3>1, <3>2, ConfigAssumption
    <3> QED BY <1>4, <2>4, <3>1, <3>2, <3>3 DEF SharesLetter
  <2>5. CASE c.kind = "list" /\ d.kind = "string"
    <3>1. d.names[1] \in QueueName /\ Publishes(p, d.names[1]) /\ x \in Letters[d.names[1]]
      BY <1>1, <1>2, <1>5, <2>1, <2>5
    <3>2. x \in QueueName /\ Consumes(p, x)
      BY <1>1, <1>2, <1>5, <2>1, <2>5
    <3>3. x \in Letters[x]
      BY <3>1, <3>2, ConfigAssumption
    <3> QED BY <1>4, <2>5, <3>1, <3>2, <3>3 DEF SharesLetter
  <2>6. c.kind # "absent" /\ d.kind # "absent"
    BY <1>1, <1>2, <2>1
  <2> QED BY <1>1, <1>2, <2>2, <2>3, <2>4, <2>5, <2>6
<1>7. ASSUME Common(p) = {}, SelfLoop(p) PROVE Kinds(p) = {"string", "list"}
  <2>1. PICK n \in QueueName : n \in ToSet(c.names) /\ n \in ToSet(d.names)
    BY <1>5, <1>7 DEF SelfLoop
  <2>2. c.kind # "absent" /\ d.kind # "absent"
    BY <1>1, <1>2, <2>1
  <2>3. ~(c.kind = "list" /\ d.kind = "list")
    BY <1>1, <1>2, <1>3, <1>7, <2>1
  <2>4. ~(c.kind = "string" /\ d.kind = "string")
    <3>1. SUFFICES ASSUME c.kind = "string", d.kind = "string" PROVE FALSE
      OBVIOUS
    <3>2. c.names[1] = n /\ d.names[1] = n /\ SetOf(c) = Letters[n] /\ SetOf(d) = Letters[n]
      BY <1>1, <1>2, <2>1, <3>1
    <3>3. Letters[n] # {}
      BY ConfigAssumption
    <3> QED BY <1>3, <1>7, <3>2, <3>3
  <2> QED BY <1>1, <1>2, <1>4, <2>2, <2>3, <2>4
<1> QED BY <1>6, <1>7

\* No process is accepted that consumes what it publishes, but for a bare string
\* here and a list there, and none that the configuration does not have
\* (dispatcher.py:86-110).
THEOREM NoSelfLoops == ConfigSpec => []SelfLoopsRefused
<1>1. ConfigTyped /\ ConfigChecked => SelfLoopsRefused
  BY CommonMeans DEF ConfigTyped, ConfigChecked, SelfLoopsRefused, Later
<1> QED BY <1>1, SpecChecked, PTL

-----------------------------------------------------------------------------
(* The lists of consumers and publishers *)

\* A process and a name: x is taken up when the loops over the lists have come to
\* item i of process a.
TakenUpTo(lists, a, i) ==
  {x \in (1 .. Len(Order)) \X QueueName :
     \E j \in 1 .. Len(lists[x[1]]) :
       lists[x[1]][j] = x[2] /\ (x[1] < a \/ (x[1] = a /\ j < i))}

Lists == [1 .. Len(Order) -> Seq(QueueName)]

\* The loops' next item, the end of a list, their beginning and their end.
LEMMA TakenNext ==
  ASSUME NEW lists \in Lists, NEW a \in 1 .. Len(Order), NEW i \in 1 .. Len(lists[a])
  PROVE  TakenUpTo(lists, a, i + 1) = TakenUpTo(lists, a, i) \cup {<<a, lists[a][i]>>}
<1> DEFINE new == <<a, lists[a][i]>>
<1>1. lists[a][i] \in QueueName /\ new \in (1 .. Len(Order)) \X QueueName
      /\ new[1] = a /\ new[2] = lists[a][i]
  BY DEF Lists
<1>2. ASSUME NEW x \in (1 .. Len(Order)) \X QueueName
      PROVE  x \in TakenUpTo(lists, a, i + 1) <=> x \in TakenUpTo(lists, a, i) \/ x = new
  <2>1. x[1] \in 1 .. Len(Order) /\ x = <<x[1], x[2]>> /\ Len(lists[x[1]]) \in Nat /\ Len(Order) \in Nat
    BY OrderFacts, LenProperties DEF Lists
  <2>2. ASSUME x \in TakenUpTo(lists, a, i + 1), x \notin TakenUpTo(lists, a, i) PROVE x = new
    <3>1. PICK j \in 1 .. Len(lists[x[1]]) :
            lists[x[1]][j] = x[2] /\ (x[1] < a \/ (x[1] = a /\ j < i + 1))
      BY <2>2 DEF TakenUpTo
    <3>2. ~(x[1] < a \/ (x[1] = a /\ j < i))
      BY <2>2, <3>1 DEF TakenUpTo
    <3>3. x[1] = a /\ j = i
      BY <2>1, <3>1, <3>2
    <3> QED BY <2>1, <3>1, <3>3
  <2>3. ASSUME x \in TakenUpTo(lists, a, i) PROVE x \in TakenUpTo(lists, a, i + 1)
    <3>1. PICK j \in 1 .. Len(lists[x[1]]) :
            lists[x[1]][j] = x[2] /\ (x[1] < a \/ (x[1] = a /\ j < i))
      BY <2>3 DEF TakenUpTo
    <3>2. x[1] < a \/ (x[1] = a /\ j < i + 1)
      BY <2>1, <3>1
    <3> QED BY <3>1, <3>2 DEF TakenUpTo
  <2>4. ASSUME x = new PROVE x \in TakenUpTo(lists, a, i + 1)
    <3>1. x[1] = a /\ x[2] = lists[a][i] /\ i < i + 1
      BY <1>1, <2>4
    <3> QED BY <3>1 DEF TakenUpTo
  <2> QED BY <2>2, <2>3, <2>4
<1>3. TakenUpTo(lists, a, i) \subseteq (1 .. Len(Order)) \X QueueName
      /\ TakenUpTo(lists, a, i + 1) \subseteq (1 .. Len(Order)) \X QueueName
  BY DEF TakenUpTo
<1> HIDE DEF new
<1>4. TakenUpTo(lists, a, i + 1) = TakenUpTo(lists, a, i) \cup {new}
  BY <1>1, <1>2, <1>3
<1> QED BY <1>4 DEF new

LEMMA TakenLast ==
  ASSUME NEW lists \in Lists, NEW a \in 1 .. Len(Order), NEW i \in Nat, i > Len(lists[a])
  PROVE  TakenUpTo(lists, a + 1, 1) = TakenUpTo(lists, a, i)
<1>1. ASSUME NEW x \in (1 .. Len(Order)) \X QueueName
      PROVE  x \in TakenUpTo(lists, a + 1, 1) <=> x \in TakenUpTo(lists, a, i)
  <2>1. x[1] \in 1 .. Len(Order) /\ Len(lists[x[1]]) \in Nat /\ Len(Order) \in Nat
    BY OrderFacts, LenProperties DEF Lists
  <2>2. ASSUME NEW j \in 1 .. Len(lists[x[1]])
        PROVE  (x[1] < a + 1 \/ (x[1] = a + 1 /\ j < 1)) <=> (x[1] < a \/ (x[1] = a /\ j < i))
    BY <2>1
  <2> QED BY <2>2 DEF TakenUpTo
<1> QED BY <1>1 DEF TakenUpTo

LEMMA TakenNone ==
  ASSUME NEW lists \in Lists
  PROVE  TakenUpTo(lists, 1, 1) = {}
<1>1. ASSUME NEW x \in (1 .. Len(Order)) \X QueueName PROVE x \notin TakenUpTo(lists, 1, 1)
  <2>1. x[1] \in 1 .. Len(Order) /\ Len(lists[x[1]]) \in Nat /\ Len(Order) \in Nat
    BY OrderFacts, LenProperties DEF Lists
  <2>2. ASSUME NEW j \in 1 .. Len(lists[x[1]]) PROVE ~(x[1] < 1 \/ (x[1] = 1 /\ j < 1))
    BY <2>1
  <2> QED BY <2>2 DEF TakenUpTo
<1> QED BY <1>1 DEF TakenUpTo

LEMMA TakenAll ==
  ASSUME NEW lists \in Lists, NEW a \in Nat, a > Len(Order), NEW i \in Nat
  PROVE  \A k \in 1 .. Len(Order), n \in QueueName :
           <<k, n>> \in TakenUpTo(lists, a, i) <=> n \in ToSet(lists[k])
<1> SUFFICES ASSUME NEW k \in 1 .. Len(Order), NEW n \in QueueName
             PROVE  <<k, n>> \in TakenUpTo(lists, a, i) <=> n \in ToSet(lists[k])
  OBVIOUS
<1>1. lists[k] \in Seq(QueueName) /\ k < a
  BY OrderFacts DEF Lists
<1>2. n \in ToSet(lists[k]) <=> \E j \in 1 .. Len(lists[k]) : lists[k][j] = n
  BY <1>1, ElementAt
<1>3. <<k, n>>[1] = k /\ <<k, n>>[2] = n /\ <<k, n>> \in (1 .. Len(Order)) \X QueueName
  OBVIOUS
<1> QED BY <1>1, <1>2, <1>3 DEF TakenUpTo

LEMMA TakenEnd ==
  ASSUME NEW lists \in Lists, NEW a \in Nat, a > Len(Order)
  PROVE  TakenUpTo(lists, a, 1) = TakenUpTo(lists, Len(Order) + 1, 1)
<1>1. ASSUME NEW x \in (1 .. Len(Order)) \X QueueName
      PROVE  x[1] < a /\ x[1] < Len(Order) + 1
  <2>1. x[1] \in 1 .. Len(Order) /\ Len(Order) \in Nat
    BY OrderFacts
  <2> QED BY <2>1
<1> QED BY <1>1 DEF TakenUpTo

\* The lists hold the processes taken up, of each name.
Gathered(lists, taken) ==
  \A n \in QueueName, k \in 1 .. Len(Order) : Order[k] \in ToSet(lists[n]) <=> <<k, n>> \in taken

LEMMA GatherStep ==
  ASSUME NEW lists \in [QueueName -> Seq(Process)], NEW taken, Gathered(lists, taken),
         NEW a \in 1 .. Len(Order), NEW n \in QueueName
  PROVE  Gathered([lists EXCEPT ![n] = Append(lists[n], Order[a])], taken \cup {<<a, n>>})
<1> DEFINE new == [lists EXCEPT ![n] = Append(lists[n], Order[a])]
<1>1. ASSUME NEW m \in QueueName, NEW k \in 1 .. Len(Order)
      PROVE  Order[k] \in ToSet(new[m]) <=> <<k, m>> \in taken \cup {<<a, n>>}
  <2>1. <<k, m>> = <<a, n>> <=> k = a /\ m = n
    OBVIOUS
  <2>2. CASE m = n
    <3>1. lists[n] \in Seq(Process) /\ Order[a] \in Process
      BY OrderFacts
    <3>2. ToSet(Append(lists[n], Order[a])) = ToSet(lists[n]) \cup {Order[a]}
      BY <3>1, ToSetAppend
    <3>3. new[m] = Append(lists[n], Order[a])
      BY <2>2
    <3>4. Order[k] = Order[a] <=> k = a
      BY ConfigAssumption
    <3> HIDE DEF new
    <3> QED BY <2>1, <2>2, <3>2, <3>3, <3>4 DEF Gathered
  <2>3. CASE m # n
    <3>1. new[m] = lists[m]
      BY <2>3
    <3> HIDE DEF new
    <3> QED BY <2>1, <2>3, <3>1 DEF Gathered
  <2> QED BY <2>2, <2>3
<1> QED BY <1>1 DEF Gathered

-----------------------------------------------------------------------------

\* The stages of the binding loops.
Binding == {"bind", "give", "done", "no_publisher"}

consumeLists == [k \in 1 .. Len(Order) |-> config[Order[k]].consume.names]
publishLists == [k \in 1 .. Len(Order) |-> config[Order[k]].publish.names]

\* What the collecting loops have taken up.
takenConsumers ==
  CASE stage = "consume" -> TakenUpTo(consumeLists, at, item)
    [] stage = "publish" -> TakenUpTo(consumeLists, at + 1, 1)
    [] stage \in Binding -> TakenUpTo(consumeLists, Len(Order) + 1, 1)
    [] OTHER -> {}

takenPublishers ==
  CASE stage = "consume" -> TakenUpTo(publishLists, at, 1)
    [] stage = "publish" -> TakenUpTo(publishLists, at, item)
    [] stage \in Binding -> TakenUpTo(publishLists, Len(Order) + 1, 1)
    [] OTHER -> {}


CollectInv ==
  /\ Gathered(consumers, takenConsumers)
  /\ Gathered(publishers, takenPublishers)
  /\ \A n \in QueueName : n \in ToSet(named) <=> consumers[n] # <<>>
  /\ Distinct(named)
  /\ stage \in {"compare", "check"} \/ (stage = "consume" /\ at > Len(Order)) => item = 1
  /\ stage \in Later => maxSizes = [n \in QueueName |-> IF n \in Consumed THEN SizeOf(n) ELSE DefaultSize]

LEMMA ListsTyped == ASSUME ConfigTyped PROVE consumeLists \in Lists /\ publishLists \in Lists
BY OrderFacts, EntryFacts DEF consumeLists, publishLists, Lists, ConfigTyped

LEMMA ListsStay == [ConfigNext]_configVars => UNCHANGED <<consumeLists, publishLists, Consumed>>
<1> SUFFICES ASSUME [ConfigNext]_configVars PROVE UNCHANGED <<consumeLists, publishLists, Consumed>>
  OBVIOUS
<1>1. config' = config
  BY DEF ConfigNext, configVars, input, Compare, CheckProcess, CollectSizes, CollectConsumed,
         CollectPublished, Collected, CreateQueue, GiveQueue, Finish
<1> QED BY <1>1 DEF consumeLists, publishLists, Consumed

LEMMA CollectInit == ConfigInit => CollectInv
<1> SUFFICES ASSUME ConfigInit PROVE CollectInv
  OBVIOUS
<1>1. takenConsumers = {} /\ takenPublishers = {}
  BY DEF ConfigInit, takenConsumers, takenPublishers, Binding
<1>2. ToSet(<<>>) = {}
  BY DEF ToSet
<1>3. Gathered(consumers, {}) /\ Gathered(publishers, {})
  BY <1>2 DEF ConfigInit, Gathered
<1>4. \A n \in QueueName : n \in ToSet(named) <=> consumers[n] # <<>>
  BY <1>2 DEF ConfigInit
<1> QED BY <1>1, <1>3, <1>4 DEF CollectInv, ConfigInit, Distinct, Later

\* The steps that take nothing up.
LEMMA CollectQuiet ==
  ASSUME CollectInv, UNCHANGED <<consumers, publishers, named>>,
         takenConsumers' = takenConsumers, takenPublishers' = takenPublishers,
         stage' \in {"compare", "check"} \/ (stage' = "consume" /\ at' > Len(Order)) => item' = 1,
         stage' \in Later =>
           maxSizes' = [n \in QueueName |-> IF n \in Consumed THEN SizeOf(n) ELSE DefaultSize],
         Consumed' = Consumed
  PROVE  CollectInv'
BY DEF CollectInv, Gathered

LEMMA CollectOnConsumed == ASSUME ConfigTyped, CollectInv, CollectConsumed PROVE CollectInv'
<1>1. at \in 1 .. Len(Order) /\ InputType /\ StageType /\ CollectionType /\ stage = "consume" /\ item \in Nat \ {0}
  BY ConsumedRound
<1>2. PICK a \in 1 .. Len(Order) : a = at
  BY <1>1
<1>3. PICK i \in Nat \ {0} : i = item
  BY <1>1
<1>4. PICK lists \in Lists : lists = consumeLists
  BY ListsTyped
<1>5. PICK taken : taken = TakenUpTo(lists, a, i)
  OBVIOUS
<1>6. takenConsumers = taken
  BY <1>1, <1>2, <1>3, <1>4, <1>5 DEF takenConsumers, Binding
<1>7. lists[a] = config[Order[at]].consume.names
  BY <1>2, <1>4 DEF consumeLists
<1>8. UNCHANGED <<config, at, publishers, maxSizes>>
  BY DEF CollectConsumed, input
<1>9. consumeLists' = lists /\ publishLists' = publishLists /\ Consumed' = Consumed
  BY <1>4, <1>8 DEF consumeLists, publishLists, Consumed
<1>10. maxSizes' = [n \in QueueName |-> IF n \in Consumed' THEN SizeOf(n) ELSE DefaultSize]
  BY <1>1, <1>8, <1>9 DEF CollectInv, Later
<1>11. CASE i <= Len(lists[a])
  <2>1. lists[a] \in Seq(QueueName) /\ i \in 1 .. Len(lists[a])
    BY <1>11, LenProperties DEF Lists
  <2>2. PICK n \in QueueName : n = lists[a][i]
    BY <2>1
  <2>3. consumers' = [consumers EXCEPT ![n] = Append(consumers[n], Order[a])]
    BY <1>2, <1>3, <1>7, <1>11, <2>2 DEF CollectConsumed
  <2>4. stage' = "consume" /\ item' = i + 1
    BY <1>1, <1>2, <1>3, <1>7, <1>11 DEF CollectConsumed
  <2>5. takenConsumers' = TakenUpTo(lists, a, i + 1)
    BY <1>2, <1>8, <1>9, <2>4 DEF takenConsumers, Binding
  <2>6. takenConsumers' = taken \cup {<<a, n>>}
    BY <1>5, <2>1, <2>2, <2>5, TakenNext
  <2>7. Gathered(consumers, taken) /\ consumers \in [QueueName -> Seq(Process)]
    BY <1>1, <1>6 DEF CollectInv, CollectionType
  <2>8. Gathered([consumers EXCEPT ![n] = Append(consumers[n], Order[a])], taken \cup {<<a, n>>})
    BY <2>7, GatherStep
  <2>9. Gathered(consumers, takenConsumers)'
    BY <2>3, <2>6, <2>8 DEF Gathered
  <2>10. takenPublishers' = takenPublishers
    BY <1>1, <1>8, <1>9, <2>4 DEF takenPublishers, Binding
  <2>11. Gathered(publishers, takenPublishers)'
    BY <1>8, <2>10 DEF CollectInv, Gathered
  <2>12. consumers[n] \in Seq(Process) /\ Order[a] \in Process /\ named \in Seq(QueueName)
    BY <1>1, OrderFacts DEF CollectionType
  <2>13. consumers'[n] # <<>> /\ \A m \in QueueName : m # n => consumers'[m] = consumers[m]
    <3>1. PICK s \in Seq(Process) : s = consumers[n]
      BY <2>12
    <3>2. Append(s, Order[a]) # <<>>
      BY <2>12, <3>1, AppendProperties
    <3> QED BY <2>3, <2>7, <3>1, <3>2
  <2>14. named' = IF consumers[n] = <<>> THEN Append(named, n) ELSE named
    BY <1>2, <1>3, <1>7, <1>11, <2>2 DEF CollectConsumed
  <2>15. (\A m \in QueueName : m \in ToSet(named') <=> consumers'[m] # <<>>) /\ Distinct(named')
    <3>1. CASE consumers[n] # <<>>
      BY <2>13, <2>14, <3>1 DEF CollectInv
    <3>2. CASE consumers[n] = <<>>
      <4>1. named' = Append(named, n)
        BY <2>14, <3>2
      <4>2. ToSet(named') = ToSet(named) \cup {n} /\ n \notin ToSet(named)
        BY <2>12, <3>2, <4>1, ToSetAppend DEF CollectInv
      <4>3. \A m \in QueueName : m \in ToSet(named') <=> consumers'[m] # <<>>
        BY <2>13, <4>2 DEF CollectInv
      <4>4. /\ Len(named) \in Nat /\ Len(named') = Len(named) + 1
            /\ \A j \in 1 .. Len(named) : named'[j] = named[j]
            /\ named'[Len(named) + 1] = n
        BY <2>12, <4>1, AppendFacts, LenProperties
      <4>5. \A j \in 1 .. Len(named) : named[j] # n
        BY <2>12, <4>2, ElementAt
      <4>6. ASSUME NEW j \in 1 .. Len(named'), NEW k \in 1 .. Len(named'), named'[j] = named'[k]
            PROVE  j = k
        <5>1. (j \in 1 .. Len(named) \/ j = Len(named) + 1) /\ (k \in 1 .. Len(named) \/ k = Len(named) + 1)
          BY <4>4
        <5> QED BY <4>4, <4>5, <4>6, <5>1 DEF CollectInv, Distinct
      <4> QED BY <4>3, <4>6 DEF Distinct
    <3> QED BY <3>1, <3>2
  <2>16. ~(at' > Len(Order))
    BY <1>1, <1>8, OrderFacts
  <2> QED BY <1>10, <2>4, <2>9, <2>11, <2>15, <2>16 DEF CollectInv
<1>12. CASE ~(i <= Len(lists[a]))
  <2>1. stage' = "publish" /\ item' = 1 /\ UNCHANGED <<consumers, named>>
    BY <1>2, <1>3, <1>7, <1>12 DEF CollectConsumed
  <2>2. i > Len(lists[a])
    BY <1>12, LenProperties DEF Lists
  <2>3. TakenUpTo(lists, a + 1, 1) = taken
    BY <1>5, <2>2, TakenLast
  <2>4. takenConsumers' = TakenUpTo(lists, a + 1, 1)
    BY <1>2, <1>8, <1>9, <2>1 DEF takenConsumers, Binding
  <2>5. takenPublishers' = takenPublishers
    BY <1>1, <1>8, <1>9, <2>1 DEF takenPublishers, Binding
  <2> QED BY <1>6, <1>8, <1>9, <1>10, <2>1, <2>3, <2>4, <2>5, CollectQuiet
<1> QED BY <1>11, <1>12

LEMMA CollectOnPublished == ASSUME ConfigTyped, CollectInv, CollectPublished PROVE CollectInv'
<1>1. at \in 1 .. Len(Order) /\ InputType /\ StageType /\ CollectionType /\ stage = "publish" /\ item \in Nat \ {0}
  BY DEF CollectPublished, ConfigTyped, StageType, Rounds
<1>2. PICK a \in 1 .. Len(Order) : a = at
  BY <1>1
<1>3. PICK i \in Nat \ {0} : i = item
  BY <1>1
<1>4. PICK lists \in Lists : lists = publishLists
  BY ListsTyped
<1>5. PICK taken : taken = TakenUpTo(lists, a, i)
  OBVIOUS
<1>6. takenPublishers = taken
  BY <1>1, <1>2, <1>3, <1>4, <1>5 DEF takenPublishers, Binding
<1>7. lists[a] = config[Order[at]].publish.names
  BY <1>2, <1>4 DEF publishLists
<1>8. UNCHANGED <<config, consumers, named, maxSizes>>
  BY DEF CollectPublished, input
<1>9. publishLists' = lists /\ consumeLists' = consumeLists /\ Consumed' = Consumed
  BY <1>4, <1>8 DEF consumeLists, publishLists, Consumed
<1>10. maxSizes' = [n \in QueueName |-> IF n \in Consumed' THEN SizeOf(n) ELSE DefaultSize]
  BY <1>1, <1>8, <1>9 DEF CollectInv, Later
<1>11. CASE i <= Len(lists[a])
  <2>1. lists[a] \in Seq(QueueName) /\ i \in 1 .. Len(lists[a])
    BY <1>11, LenProperties DEF Lists
  <2>2. PICK n \in QueueName : n = lists[a][i]
    BY <2>1
  <2>3. publishers' = [publishers EXCEPT ![n] = Append(publishers[n], Order[a])]
    BY <1>2, <1>3, <1>7, <1>11, <2>2 DEF CollectPublished
  <2>4. stage' = "publish" /\ item' = i + 1 /\ at' = at
    BY <1>1, <1>2, <1>3, <1>7, <1>11 DEF CollectPublished
  <2>5. takenPublishers' = TakenUpTo(lists, a, i + 1)
    BY <1>2, <1>9, <2>4 DEF takenPublishers, Binding
  <2>6. takenPublishers' = taken \cup {<<a, n>>}
    BY <1>5, <2>1, <2>2, <2>5, TakenNext
  <2>7. Gathered(publishers, taken) /\ publishers \in [QueueName -> Seq(Process)]
    BY <1>1, <1>6 DEF CollectInv, CollectionType
  <2>8. Gathered([publishers EXCEPT ![n] = Append(publishers[n], Order[a])], taken \cup {<<a, n>>})
    BY <2>7, GatherStep
  <2>9. Gathered(publishers, takenPublishers)'
    BY <2>3, <2>6, <2>8 DEF Gathered
  <2>10. takenConsumers' = takenConsumers
    BY <1>1, <1>9, <2>4 DEF takenConsumers, Binding
  <2>11. Gathered(consumers, takenConsumers)'
    BY <1>8, <2>10 DEF CollectInv, Gathered
  <2> QED BY <1>8, <1>10, <2>4, <2>9, <2>11 DEF CollectInv
<1>12. CASE ~(i <= Len(lists[a]))
  <2>1. stage' = "consume" /\ item' = 1 /\ at' = at + 1 /\ publishers' = publishers
    BY <1>2, <1>3, <1>7, <1>12 DEF CollectPublished
  <2>2. i > Len(lists[a])
    BY <1>12, LenProperties DEF Lists
  <2>3. TakenUpTo(lists, a + 1, 1) = taken
    BY <1>5, <2>2, TakenLast
  <2>4. takenPublishers' = TakenUpTo(lists, a + 1, 1)
    BY <1>2, <1>9, <2>1 DEF takenPublishers, Binding
  <2>5. takenConsumers' = takenConsumers
    BY <1>1, <1>9, <2>1 DEF takenConsumers, Binding
  <2> QED BY <1>6, <1>8, <1>9, <1>10, <2>1, <2>3, <2>4, <2>5, CollectQuiet
<1> QED BY <1>11, <1>12

LEMMA CollectStep == ConfigTyped /\ CollectInv /\ [ConfigNext]_configVars => CollectInv'
<1> SUFFICES ASSUME ConfigTyped, CollectInv, [ConfigNext]_configVars PROVE CollectInv'
  OBVIOUS
<1>1. UNCHANGED <<consumeLists, publishLists, Consumed>>
  BY ListsStay
<1>2. consumeLists \in Lists /\ publishLists \in Lists
  BY ListsTyped
<1>3. CASE Compare
  <2>1. /\ stage = "compare" /\ stage' \in {"wrong_count", "not_in_config", "check"}
        /\ UNCHANGED <<consumers, publishers, named, item>>
    BY <1>3 DEF Compare, collection
  <2>2. takenConsumers' = takenConsumers /\ takenPublishers' = takenPublishers
    BY <2>1 DEF takenConsumers, takenPublishers, Binding
  <2> QED BY <1>1, <2>1, <2>2, CollectQuiet DEF CollectInv, Later
<1>4. CASE CheckProcess
  <2>1. /\ stage = "check" /\ stage' \in {"check", "same_queue"}
        /\ UNCHANGED <<consumers, publishers, named, item>>
    BY <1>4 DEF CheckProcess, collection
  <2>2. takenConsumers' = takenConsumers /\ takenPublishers' = takenPublishers
    BY <2>1 DEF takenConsumers, takenPublishers, Binding
  <2> QED BY <1>1, <2>1, <2>2, CollectQuiet DEF CollectInv, Later
<1>5. CASE CollectSizes
  <2>1. /\ stage = "check" /\ stage' = "consume" /\ at' = 1
        /\ UNCHANGED <<consumers, publishers, named, item>>
        /\ maxSizes' = [n \in QueueName |-> IF n \in Consumed THEN SizeOf(n) ELSE DefaultSize]
    BY <1>5 DEF CollectSizes, collection
  <2>2. item' = 1
    BY <2>1 DEF CollectInv
  <2>3. takenConsumers = {} /\ takenPublishers = {}
    BY <2>1 DEF takenConsumers, takenPublishers, Binding
  <2>4. takenConsumers' = TakenUpTo(consumeLists, 1, 1) /\ takenPublishers' = TakenUpTo(publishLists, 1, 1)
    BY <1>1, <2>1, <2>2 DEF takenConsumers, takenPublishers, Binding
  <2>5. takenConsumers' = {} /\ takenPublishers' = {}
    BY <1>2, <2>4, TakenNone
  <2> QED BY <1>1, <2>1, <2>2, <2>3, <2>5, CollectQuiet
<1>6. CASE Collected
  <2>1. /\ stage = "consume" /\ stage' = "bind" /\ at > Len(Order) /\ at \in Nat
        /\ UNCHANGED <<consumers, publishers, named, maxSizes>>
    BY <1>6 DEF Collected, collection, ConfigTyped, StageType
  <2>2. item = 1
    BY <2>1 DEF CollectInv
  <2>3. takenConsumers = TakenUpTo(consumeLists, at, 1) /\ takenPublishers = TakenUpTo(publishLists, at, 1)
    BY <2>1, <2>2 DEF takenConsumers, takenPublishers, Binding
  <2>4. /\ takenConsumers' = TakenUpTo(consumeLists, Len(Order) + 1, 1)
        /\ takenPublishers' = TakenUpTo(publishLists, Len(Order) + 1, 1)
    BY <1>1, <2>1 DEF takenConsumers, takenPublishers, Binding
  <2>5. takenConsumers' = takenConsumers /\ takenPublishers' = takenPublishers
    BY <1>2, <2>1, <2>3, <2>4, TakenEnd
  <2> QED BY <1>1, <2>1, <2>5, CollectQuiet DEF CollectInv, Later
<1>7. CASE CreateQueue \/ GiveQueue \/ Finish
  <2>1. stage \in Binding /\ stage' \in Binding /\ UNCHANGED <<consumers, publishers, named, maxSizes>>
    BY <1>7 DEF CreateQueue, GiveQueue, Finish, Binding, collection
  <2>2. takenConsumers' = takenConsumers /\ takenPublishers' = takenPublishers
    BY <1>1, <2>1 DEF takenConsumers, takenPublishers, Binding
  <2> QED BY <1>1, <2>1, <2>2, CollectQuiet DEF CollectInv, Later, Binding
<1>8. CASE UNCHANGED configVars
  <2>1. UNCHANGED <<stage, at, item, consumers, publishers, named, maxSizes>>
    BY <1>8 DEF configVars, collection
  <2>2. takenConsumers' = takenConsumers /\ takenPublishers' = takenPublishers
    BY <1>1, <2>1 DEF takenConsumers, takenPublishers, Binding
  <2> QED BY <1>1, <2>1, <2>2, CollectQuiet DEF CollectInv
<1> QED BY <1>3, <1>4, <1>5, <1>6, <1>7, <1>8, CollectOnConsumed, CollectOnPublished DEF ConfigNext

\* After the collection the lists are what the configuration says.
LEMMA GatheredAll ==
  ASSUME ConfigTyped, CollectInv, stage \in Binding, NEW p \in Process, NEW n \in QueueName
  PROVE  /\ p \in ToSet(consumers[n]) <=> Consumes(p, n)
         /\ p \in ToSet(publishers[n]) <=> Publishes(p, n)
<1>1. PICK k \in 1 .. Len(Order) : Order[k] = p
  BY OrderFacts
<1>2. consumeLists \in Lists /\ publishLists \in Lists
  BY ListsTyped
<1>3. Len(Order) + 1 \in Nat /\ Len(Order) + 1 > Len(Order) /\ 1 \in Nat
  BY OrderFacts
<1>4. /\ takenConsumers = TakenUpTo(consumeLists, Len(Order) + 1, 1)
      /\ takenPublishers = TakenUpTo(publishLists, Len(Order) + 1, 1)
  BY DEF takenConsumers, takenPublishers, Binding
<1>5. /\ <<k, n>> \in takenConsumers <=> n \in ToSet(consumeLists[k])
      /\ <<k, n>> \in takenPublishers <=> n \in ToSet(publishLists[k])
  BY <1>2, <1>3, <1>4, TakenAll
<1>6. /\ p \in ToSet(consumers[n]) <=> <<k, n>> \in takenConsumers
      /\ p \in ToSet(publishers[n]) <=> <<k, n>> \in takenPublishers
  BY <1>1 DEF CollectInv, Gathered
<1>7. consumeLists[k] = config[p].consume.names /\ publishLists[k] = config[p].publish.names
  BY <1>1 DEF consumeLists, publishLists
<1> QED BY <1>5, <1>6, <1>7 DEF Consumes, Publishes

-----------------------------------------------------------------------------
(* The queues of the consumers *)

\* The consumers, with the name, whose queue is created when the binding loops
\* have come to item i of name a.
BoundUpTo(a, i) ==
  {x \in Process \X QueueName :
     \E b \in 1 .. Len(named) : \E j \in 1 .. Len(consumers[named[b]]) :
       named[b] = x[2] /\ consumers[named[b]][j] = x[1] /\ (b < a \/ (b = a /\ j < i))}

bound == IF stage \in Binding THEN BoundUpTo(at, item) ELSE {}

\* Those have a queue of the right name and size, and no two the same.
Linked(queueOf, made, whose) ==
  /\ \A p \in Process, n \in QueueName : queueOf[p][n] # 0 <=> <<p, n>> \in whose
  /\ \A p \in Process, n \in QueueName :
       queueOf[p][n] # 0 => made[queueOf[p][n]] = [name |-> n, size |-> SizeOf(n)]
  /\ \A c, d \in Process, n, m \in QueueName :
       queueOf[c][n] = queueOf[d][m] /\ queueOf[c][n] # 0 => c = d /\ n = m

BindInv ==
  /\ Linked(consumeQueue, created, bound)
  /\ stage \in {"bind", "give", "done"} =>
       \A a \in 1 .. Len(named) : a < at \/ (a = at /\ 1 < item) => publishers[named[a]] # <<>>
  /\ stage = "no_publisher" => publishers[named[at]] = <<>>
  /\ stage = "done" => at > Len(named)

LEMMA LinkStep ==
  ASSUME NEW l \in Nat,
         NEW queueOf \in [Process -> [QueueName -> 0 .. l]],
         NEW made \in Seq([name : QueueName, size : Nat]), Len(made) = l,
         NEW whose, Linked(queueOf, made, whose),
         NEW p \in Process, NEW n \in QueueName
  PROVE  Linked([queueOf EXCEPT ![p][n] = l + 1], Append(made, [name |-> n, size |-> SizeOf(n)]),
                whose \cup {<<p, n>>})
<1> DEFINE new == [queueOf EXCEPT ![p][n] = l + 1]
           more == Append(made, [name |-> n, size |-> SizeOf(n)])
<1>1. [name |-> n, size |-> SizeOf(n)] \in [name : QueueName, size : Nat]
  BY SizeIsNat
<1>2. more[l + 1] = [name |-> n, size |-> SizeOf(n)] /\ \A i \in 1 .. l : more[i] = made[i]
  BY <1>1, AppendFacts
<1>3. new[p][n] = l + 1
  OBVIOUS
<1>4. ASSUME NEW c \in Process, NEW m \in QueueName, <<c, m>> # <<p, n>>
      PROVE  new[c][m] = queueOf[c][m] /\ new[c][m] \in 0 .. l
  <2>1. c # p \/ m # n
    BY <1>4
  <2> QED BY <2>1
<1> HIDE DEF new, more
<1>5. ASSUME NEW c \in Process, NEW m \in QueueName
      PROVE  /\ new[c][m] # 0 <=> <<c, m>> \in whose \cup {<<p, n>>}
             /\ new[c][m] # 0 => more[new[c][m]] = [name |-> m, size |-> SizeOf(m)]
  <2>1. CASE <<c, m>> = <<p, n>>
    <3>1. c = p /\ m = n
      BY <2>1
    <3> QED BY <1>2, <1>3, <3>1
  <2>2. CASE <<c, m>> # <<p, n>>
    <3>1. new[c][m] = queueOf[c][m] /\ new[c][m] \in 0 .. l
      BY <1>4, <2>2
    <3>2. new[c][m] # 0 => new[c][m] \in 1 .. l
      BY <3>1
    <3>3. queueOf[c][m] # 0 <=> <<c, m>> \in whose
      BY DEF Linked
    <3>4. queueOf[c][m] # 0 => made[queueOf[c][m]] = [name |-> m, size |-> SizeOf(m)]
      BY DEF Linked
    <3>5. new[c][m] # 0 => more[new[c][m]] = made[queueOf[c][m]]
      BY <1>2, <3>1, <3>2
    <3> QED BY <2>2, <3>1, <3>3, <3>4, <3>5
  <2> QED BY <2>1, <2>2
<1>6. ASSUME NEW c \in Process, NEW d \in Process, NEW m \in QueueName, NEW o \in QueueName,
             new[c][m] = new[d][o], new[c][m] # 0
      PROVE  c = d /\ m = o
  <2>1. CASE <<c, m>> = <<p, n>> /\ <<d, o>> = <<p, n>>
    BY <2>1
  <2>2. CASE <<c, m>> = <<p, n>> /\ <<d, o>> # <<p, n>>
    <3>1. c = p /\ m = n /\ new[d][o] \in 0 .. l
      BY <1>4, <2>2
    <3> QED BY <1>3, <1>6, <3>1
  <2>3. CASE <<c, m>> # <<p, n>> /\ <<d, o>> = <<p, n>>
    <3>1. d = p /\ o = n /\ new[c][m] \in 0 .. l
      BY <1>4, <2>3
    <3> QED BY <1>3, <1>6, <3>1
  <2>4. CASE <<c, m>> # <<p, n>> /\ <<d, o>> # <<p, n>>
    <3>1. new[c][m] = queueOf[c][m] /\ new[d][o] = queueOf[d][o]
      BY <1>4, <2>4
    <3>2. queueOf[c][m] = queueOf[d][o] /\ queueOf[c][m] # 0
      BY <1>6, <3>1
    <3>3. \A c1, d1 \in Process, n1, m1 \in QueueName :
            queueOf[c1][n1] = queueOf[d1][m1] /\ queueOf[c1][n1] # 0 => c1 = d1 /\ n1 = m1
      BY DEF Linked
    <3> QED BY <3>2, <3>3
  <2> QED BY <2>1, <2>2, <2>3, <2>4
<1>7. Linked(new, more, whose \cup {<<p, n>>})
  <2>1. \A c, d \in Process, m, o \in QueueName :
          new[c][m] = new[d][o] /\ new[c][m] # 0 => c = d /\ m = o
    BY <1>6
  <2> QED BY <1>5, <2>1 DEF Linked
<1> QED BY <1>7 DEF new, more

\* The loops' next consumer, and the next name after the last.
LEMMA BoundNext ==
  ASSUME CollectionType, Distinct(named), NEW a \in 1 .. Len(named), NEW i \in 1 .. Len(consumers[named[a]])
  PROVE  BoundUpTo(a, i + 1) = BoundUpTo(a, i) \cup {<<consumers[named[a]][i], named[a]>>}
<1>1. named[a] \in QueueName /\ consumers[named[a]] \in Seq(Process) /\ Len(named) \in Nat
      /\ Len(consumers[named[a]]) \in Nat
  BY LenProperties DEF CollectionType
<1>2. PICK n \in QueueName : n = named[a]
  BY <1>1
<1>3. PICK p \in Process : p = consumers[n][i]
  BY <1>1, <1>2
<1>4. ASSUME NEW x \in Process \X QueueName
      PROVE  x \in BoundUpTo(a, i + 1) <=> x \in BoundUpTo(a, i) \/ x = <<p, n>>
  <2>1. x = <<x[1], x[2]>>
    OBVIOUS
  <2>2. ASSUME NEW b \in 1 .. Len(named), NEW j \in 1 .. Len(consumers[named[b]])
        PROVE  /\ (b < a \/ (b = a /\ j < i)) => (b < a \/ (b = a /\ j < i + 1))
               /\ (b < a \/ (b = a /\ j < i + 1)) => (b < a \/ (b = a /\ j < i)) \/ (b = a /\ j = i)
    <3>1. named[b] \in QueueName
      BY ElementAt DEF CollectionType
    <3>2. Len(consumers[named[b]]) \in Nat
      BY <3>1, LenProperties DEF CollectionType
    <3> QED BY <1>1, <3>2
  <2>3. ASSUME x \in BoundUpTo(a, i) PROVE x \in BoundUpTo(a, i + 1)
    BY <2>2, <2>3 DEF BoundUpTo
  <2>4. ASSUME x \in BoundUpTo(a, i + 1), x \notin BoundUpTo(a, i) PROVE x = <<p, n>>
    <3>1. PICK b \in 1 .. Len(named) : \E j \in 1 .. Len(consumers[named[b]]) :
            named[b] = x[2] /\ consumers[named[b]][j] = x[1] /\ (b < a \/ (b = a /\ j < i + 1))
      BY <2>4 DEF BoundUpTo
    <3>2. PICK j \in 1 .. Len(consumers[named[b]]) :
            named[b] = x[2] /\ consumers[named[b]][j] = x[1] /\ (b < a \/ (b = a /\ j < i + 1))
      BY <3>1
    <3>3. ~(b < a \/ (b = a /\ j < i))
      BY <2>4, <3>2 DEF BoundUpTo
    <3>4. b = a /\ j = i
      BY <2>2, <3>2, <3>3
    <3> QED BY <1>2, <1>3, <2>1, <3>2, <3>4
  <2>5. ASSUME x = <<p, n>> PROVE x \in BoundUpTo(a, i + 1)
    <3>1. named[a] = x[2] /\ consumers[named[a]][i] = x[1] /\ (a = a /\ i < i + 1)
      BY <1>1, <1>2, <1>3, <2>5
    <3> QED BY <3>1 DEF BoundUpTo
  <2> QED BY <2>3, <2>4, <2>5
<1>5. <<p, n>> \in Process \X QueueName
  OBVIOUS
<1>6. BoundUpTo(a, i) \subseteq Process \X QueueName /\ BoundUpTo(a, i + 1) \subseteq Process \X QueueName
  BY DEF BoundUpTo
<1>7. BoundUpTo(a, i + 1) = BoundUpTo(a, i) \cup {<<p, n>>}
  BY <1>4, <1>5, <1>6
<1> QED BY <1>2, <1>3, <1>7

LEMMA BoundLast ==
  ASSUME CollectionType, NEW a \in 1 .. Len(named), NEW i \in Nat, i > Len(consumers[named[a]])
  PROVE  BoundUpTo(a + 1, 1) = BoundUpTo(a, i)
<1>1. ASSUME NEW b \in 1 .. Len(named), NEW j \in 1 .. Len(consumers[named[b]])
      PROVE  (b < a + 1 \/ (b = a + 1 /\ j < 1)) <=> (b < a \/ (b = a /\ j < i))
  <2>1. Len(consumers[named[b]]) \in Nat /\ Len(named) \in Nat
    BY LenProperties DEF CollectionType
  <2> QED BY <2>1
<1> QED BY <1>1 DEF BoundUpTo

LEMMA BoundNone == ASSUME CollectionType PROVE BoundUpTo(1, 1) = {}
<1>1. ASSUME NEW b \in 1 .. Len(named), NEW j \in 1 .. Len(consumers[named[b]])
      PROVE  ~(b < 1 \/ (b = 1 /\ j < 1))
  <2>1. Len(consumers[named[b]]) \in Nat /\ Len(named) \in Nat
    BY LenProperties DEF CollectionType
  <2> QED BY <2>1
<1> QED BY <1>1 DEF BoundUpTo

LEMMA BindInit == ConfigInit => BindInv
<1> SUFFICES ASSUME ConfigInit PROVE BindInv
  OBVIOUS
<1>1. bound = {}
  BY DEF ConfigInit, bound, Binding
<1>2. \A p \in Process, n \in QueueName : consumeQueue[p][n] = 0
  BY DEF ConfigInit
<1> QED BY <1>1, <1>2 DEF BindInv, Linked, ConfigInit

LEMMA BindOnCreate == ASSUME ConfigTyped, CollectInv, BindInv, CreateQueue PROVE BindInv'
<1>1. at \in 1 .. Len(named) /\ StageType /\ CollectionType /\ WiringType /\ stage = "bind"
  BY CreateRound
<1>2. PICK a \in 1 .. Len(named) : a = at
  BY <1>1
<1>3. PICK i \in Nat \ {0} : i = item
  BY <1>1 DEF StageType
<1>4. PICK n \in QueueName : n = named[a]
  BY <1>1 DEF CollectionType
<1>5. UNCHANGED <<named, consumers, publishers>>
  BY DEF CreateQueue, collection
<1>6. PICK whose : whose = BoundUpTo(a, i)
  OBVIOUS
<1>7. Linked(consumeQueue, created, whose)
  BY <1>1, <1>2, <1>3, <1>6 DEF BindInv, bound, Binding
<1>8. \A b \in 1 .. Len(named) : b < a \/ (b = a /\ 1 < i) => publishers[named[b]] # <<>>
  BY <1>1, <1>2, <1>3 DEF BindInv
<1>9. Distinct(named) /\ consumers[n] \in Seq(Process) /\ Len(consumers[n]) \in Nat
  BY <1>1, LenProperties DEF CollectInv, CollectionType
<1>10. CASE i <= Len(consumers[n])
  <2>1. i \in 1 .. Len(consumers[n])
    BY <1>9, <1>10
  <2>2. PICK p \in Process : p = consumers[n][i]
    BY <1>9, <2>1
  <2>3. PICK l \in Nat : l = Len(created)
    BY <1>1, LenProperties DEF WiringType
  <2>4. /\ created' = Append(created, [name |-> n, size |-> SizeOf(n)])
        /\ consumeQueue' = [consumeQueue EXCEPT ![p][n] = l + 1]
        /\ stage' = (IF Unpublished(n) THEN "no_publisher" ELSE "give")
        /\ item' = i + 1 /\ at' = a
    BY <1>2, <1>3, <1>4, <1>10, <2>2, <2>3 DEF CreateQueue
  <2>5. Linked([consumeQueue EXCEPT ![p][n] = l + 1],
               Append(created, [name |-> n, size |-> SizeOf(n)]), whose \cup {<<p, n>>})
    BY <1>1, <1>7, <2>3, LinkStep DEF WiringType
  <2>6. bound' = BoundUpTo(a, i + 1)
    <3>1. stage' \in Binding
      BY <2>4 DEF Binding
    <3> QED BY <1>5, <2>4, <3>1 DEF bound, BoundUpTo
  <2>7. bound' = whose \cup {<<p, n>>}
    BY <1>1, <1>4, <1>6, <1>9, <2>1, <2>2, <2>6, BoundNext
  <2>8. Linked(consumeQueue, created, bound)'
    <3>1. PICK queueOf : queueOf = [consumeQueue EXCEPT ![p][n] = l + 1]
      OBVIOUS
    <3>2. PICK made : made = Append(created, [name |-> n, size |-> SizeOf(n)])
      OBVIOUS
    <3>3. PICK more : more = whose \cup {<<p, n>>}
      OBVIOUS
    <3>4. Linked(queueOf, made, more)
      BY <2>5, <3>1, <3>2, <3>3
    <3>5. consumeQueue' = queueOf /\ created' = made /\ bound' = more
      BY <2>4, <2>7, <3>1, <3>2, <3>3
    <3> QED BY <3>4, <3>5 DEF Linked
  <2>9. CASE publishers[n] = <<>>
    <3>1. stage' = "no_publisher"
      BY <2>4, <2>9 DEF Unpublished
    <3> QED BY <1>4, <1>5, <2>4, <2>8, <2>9, <3>1 DEF BindInv
  <2>10. CASE publishers[n] # <<>>
    <3>1. stage' = "give"
      BY <2>4, <2>10 DEF Unpublished
    <3>2. \A b \in 1 .. Len(named) : b < a \/ (b = a /\ 1 < i + 1) => publishers[named[b]] # <<>>
      BY <1>4, <1>8, <2>10
    <3> QED BY <1>5, <2>4, <2>8, <3>1, <3>2 DEF BindInv
  <2> QED BY <2>9, <2>10
<1>11. CASE ~(i <= Len(consumers[n]))
  <2>1. UNCHANGED <<stage, created, consumeQueue>> /\ at' = a + 1 /\ item' = 1
    BY <1>2, <1>3, <1>4, <1>11 DEF CreateQueue
  <2>2. i > Len(consumers[n])
    BY <1>9, <1>11
  <2>3. bound' = BoundUpTo(a + 1, 1)
    BY <1>1, <1>5, <2>1 DEF bound, BoundUpTo, Binding
  <2>4. bound' = whose
    BY <1>1, <1>4, <1>6, <2>2, <2>3, BoundLast
  <2>5. Linked(consumeQueue, created, bound)'
    BY <1>7, <2>1, <2>4 DEF Linked
  <2>6. 1 < i
    <3>1. n \in ToSet(named)
      BY <1>1, <1>4, ElementAt DEF CollectionType
    <3>2. consumers[n] # <<>>
      BY <3>1 DEF CollectInv
    <3>3. Len(consumers[n]) # 0
      BY <1>9, <3>2, ElementAt
    <3> QED BY <1>9, <2>2, <3>3
  <2>7. ASSUME NEW b \in 1 .. Len(named), b < a + 1 \/ (b = a + 1 /\ 1 < 1)
        PROVE  publishers[named[b]] # <<>>
    <3>1. b < a \/ b = a
      BY <2>7
    <3> QED BY <1>8, <2>6, <3>1
  <2> QED BY <1>1, <1>5, <2>1, <2>5, <2>7 DEF BindInv
<1> QED BY <1>10, <1>11

LEMMA BindStep == ConfigTyped /\ CollectInv /\ BindInv /\ [ConfigNext]_configVars => BindInv'
<1> SUFFICES ASSUME ConfigTyped, CollectInv, BindInv, [ConfigNext]_configVars PROVE BindInv'
  OBVIOUS
<1>1. CASE CreateQueue
  BY <1>1, BindOnCreate
<1>2. CASE Compare \/ CheckProcess \/ CollectSizes \/ CollectConsumed \/ CollectPublished
  <2>1. UNCHANGED <<created, consumeQueue>> /\ stage \notin Binding /\ stage' \notin Binding
    BY <1>2 DEF Compare, CheckProcess, CollectSizes, CollectConsumed, CollectPublished, Binding, wiring
  <2>2. bound' = bound
    BY <2>1 DEF bound
  <2> QED BY <2>1, <2>2 DEF BindInv, Linked, Binding
<1>3. CASE Collected
  <2>1. /\ stage = "consume" /\ stage' = "bind" /\ at > Len(Order) /\ at' = 1
        /\ UNCHANGED <<created, consumeQueue, item, named, consumers>>
    BY <1>3 DEF Collected, wiring, collection
  <2>2. item' = 1
    BY <2>1 DEF CollectInv
  <2>3. bound = {} /\ bound' = BoundUpTo(1, 1)
    BY <2>1, <2>2 DEF bound, Binding, BoundUpTo
  <2>4. bound' = bound
    BY <2>3, BoundNone DEF ConfigTyped
  <2>5. ASSUME NEW a \in Nat \ {0} PROVE ~(a < at' \/ (a = at' /\ 1 < item'))
    BY <2>1, <2>2
  <2> QED BY <2>1, <2>4, <2>5 DEF BindInv, Linked
<1>4. CASE GiveQueue
  <2>1. /\ stage = "give" /\ stage' \in {"give", "bind"}
        /\ UNCHANGED <<created, consumeQueue, item, at, named, consumers, publishers>>
    BY <1>4 DEF GiveQueue, collection
  <2>2. bound' = bound
    BY <2>1 DEF bound, Binding, BoundUpTo
  <2> QED BY <2>1, <2>2 DEF BindInv, Linked
<1>5. CASE Finish
  <2>1. /\ stage = "bind" /\ stage' = "done" /\ at > Len(named)
        /\ UNCHANGED <<created, consumeQueue, item, at, named, consumers, publishers>>
    BY <1>5 DEF Finish, collection, wiring
  <2>2. bound' = bound
    BY <2>1 DEF bound, Binding, BoundUpTo
  <2> QED BY <2>1, <2>2 DEF BindInv, Linked
<1>6. CASE UNCHANGED configVars
  <2>1. UNCHANGED <<stage, created, consumeQueue, item, at, named, consumers, publishers>>
    BY <1>6 DEF configVars, collection, wiring
  <2>2. bound' = bound
    BY <2>1 DEF bound, BoundUpTo
  <2> QED BY <2>1, <2>2 DEF BindInv, Linked
<1> QED BY <1>1, <1>2, <1>3, <1>4, <1>5, <1>6 DEF ConfigNext

LEMMA SpecBinds == ConfigSpec => [](ConfigTyped /\ ConfigChecked /\ CollectInv /\ BindInv)
<1>1. ConfigSpec => [](ConfigTyped /\ CollectInv /\ BindInv)
  BY ConfigTypedInit, TypedStep, CollectInit, CollectStep, BindInit, BindStep, PTL DEF ConfigSpec
<1> QED BY <1>1, SpecChecked, PTL

\* Each complaint of __init__ is justified: the processes are not those of the
\* configuration, a process shares a name, or a letter of one, between what it
\* consumes and publishes, or nobody publishes what somebody consumes
\* (dispatcher.py:86-110, 155-158).
THEOREM ComplaintsJustified == ConfigSpec => []RefusedForCause
<1>1. ConfigTyped /\ ConfigChecked /\ CollectInv /\ BindInv => RefusedForCause
  <2> SUFFICES ASSUME ConfigTyped, ConfigChecked, CollectInv, BindInv PROVE RefusedForCause
    OBVIOUS
  <2>1. stage \in {"wrong_count", "not_in_config"} => passed # Process
    BY DEF ConfigChecked
  <2>2. stage = "same_queue" => \E p \in Process : SelfLoop(p) \/ SharesLetter(p)
    BY CommonMeans DEF ConfigChecked, ConfigTyped
  <2>3. ASSUME stage = "no_publisher"
        PROVE  \E n \in QueueName : /\ \E c \in Process : Consumes(c, n)
                                    /\ \A p \in Process : ~Publishes(p, n)
    <3>1. at \in 1 .. Len(named) /\ CollectionType /\ stage \in Binding
      BY <2>3 DEF ConfigTyped, Rounds, Binding
    <3>2. PICK n \in QueueName : n = named[at] /\ n \in ToSet(named)
      BY <3>1, ElementAt DEF CollectionType
    <3>3. consumers[n] \in Seq(Process) /\ consumers[n] # <<>> /\ publishers[n] = <<>>
      BY <2>3, <3>1, <3>2 DEF CollectInv, BindInv, CollectionType
    <3>4. PICK c \in Process : c \in ToSet(consumers[n])
      <4>1. Len(consumers[n]) \in Nat \ {0}
        BY <3>3, ElementAt
      <4>2. 1 \in 1 .. Len(consumers[n])
        BY <4>1
      <4> QED BY <3>3, <4>2, ElementAt
    <3>5. ToSet(publishers[n]) = {}
      BY <3>3 DEF ToSet
    <3> QED BY <3>1, <3>4, <3>5, GatheredAll
  <2> QED BY <2>1, <2>2, <2>3 DEF RefusedForCause
<1> QED BY <1>1, SpecBinds, PTL

\* In an accepted configuration a process has a queue to consume from for exactly
\* the names it consumes, somebody publishes to each, and its size is the one
\* check_queues_overflow will ask for (dispatcher.py:145-167, 304-334).
THEOREM ConsumersFed == ConfigSpec => []ConsumersAreFed
<1>1. ConfigTyped /\ CollectInv /\ BindInv => ConsumersAreFed
  <2> SUFFICES ASSUME ConfigTyped, CollectInv, BindInv, stage = "done",
                      NEW c \in Process, NEW n \in QueueName
               PROVE  /\ Consumes(c, n) <=> consumeQueue[c][n] # 0
                      /\ Consumes(c, n) =>
                           /\ \E p \in Process : Publishes(p, n)
                           /\ created[consumeQueue[c][n]] = [name |-> n, size |-> maxSizes[n]]
    BY DEF ConsumersAreFed
  <2>1. stage \in Binding /\ stage \in Later /\ at > Len(named) /\ CollectionType
    BY DEF Binding, Later, BindInv, ConfigTyped
  <2>2. consumers[n] \in Seq(Process) /\ publishers[n] \in Seq(Process) /\ named \in Seq(QueueName)
        /\ Len(named) \in Nat /\ at \in Nat
    BY <2>1, LenProperties DEF CollectionType, ConfigTyped, StageType
  <2>3. consumeQueue[c][n] # 0 <=> <<c, n>> \in BoundUpTo(at, item)
    BY <2>1 DEF BindInv, Linked, bound
  <2>4. <<c, n>>[1] = c /\ <<c, n>>[2] = n /\ <<c, n>> \in Process \X QueueName
    OBVIOUS
  <2>5. ASSUME Consumes(c, n)
        PROVE  /\ consumeQueue[c][n] # 0
               /\ \E p \in Process : Publishes(p, n)
               /\ created[consumeQueue[c][n]] = [name |-> n, size |-> maxSizes[n]]
    <3>1. PICK j \in 1 .. Len(consumers[n]) : consumers[n][j] = c
      BY <2>1, <2>2, <2>5, GatheredAll, ElementAt
    <3>2. consumers[n] # <<>>
      BY <2>2, <3>1, ElementAt
    <3>3. PICK a \in 1 .. Len(named) : named[a] = n
      BY <2>2, <3>2, ElementAt DEF CollectInv
    <3>4. a < at
      BY <2>1, <2>2
    <3>5. consumeQueue[c][n] # 0
      BY <2>3, <2>4, <3>1, <3>3, <3>4 DEF BoundUpTo
    <3>6. publishers[n] # <<>>
      BY <3>3, <3>4 DEF BindInv
    <3>7. PICK p \in Process : p \in ToSet(publishers[n])
      <4>1. Len(publishers[n]) \in Nat \ {0}
        BY <2>2, <3>6, ElementAt
      <4>2. 1 \in 1 .. Len(publishers[n])
        BY <4>1
      <4> QED BY <2>2, <4>2, ElementAt
    <3>8. Publishes(p, n)
      BY <2>1, <3>7, GatheredAll
    <3>9. n \in Consumed
      BY <2>5 DEF Consumed, Consumes
    <3>10. maxSizes[n] = SizeOf(n)
      BY <2>1, <3>9 DEF CollectInv
    <3> QED BY <3>5, <3>8, <3>10 DEF BindInv, Linked
  <2>6. ASSUME consumeQueue[c][n] # 0 PROVE Consumes(c, n)
    <3>1. PICK b \in 1 .. Len(named) : \E j \in 1 .. Len(consumers[named[b]]) :
            named[b] = n /\ consumers[named[b]][j] = c
      BY <2>3, <2>4, <2>6 DEF BoundUpTo
    <3>2. c \in ToSet(consumers[n])
      BY <2>2, <3>1, ElementAt
    <3> QED BY <2>1, <3>2, GatheredAll
  <2> QED BY <2>5, <2>6
<1> QED BY <1>1, SpecBinds, PTL

-----------------------------------------------------------------------------
(* One queue per consumer, for lists that do not name a queue twice *)

\* No entry names a queue twice.  A process that lists a queue twice is twice among
\* its consumers: it gets two queues, keeps the second, and nobody reads the first.
NoRepeats == \A e \in Entries : Distinct(e.names)

\* Processes are in the order of the configuration.
Sorted(lists) ==
  \A n \in QueueName : \A i, j \in 1 .. Len(lists[n]) : i < j => Before(lists[n][i], lists[n][j])

SortInv == Sorted(consumers) /\ Sorted(publishers)

LEMMA BeforeIrreflexive == \A c : ~Before(c, c)
<1>1. ASSUME NEW i \in 1 .. Len(Order), NEW j \in 1 .. Len(Order), i < j PROVE Order[i] # Order[j]
  <2>1. i # j
    BY <1>1, OrderFacts
  <2> QED BY <2>1, ConfigAssumption
<1> QED BY <1>1 DEF Before

\* No process is in a sorted list twice.
LEMMA SortedDistinct ==
  ASSUME NEW lists \in [QueueName -> Seq(Process)], Sorted(lists), NEW n \in QueueName
  PROVE  Distinct(lists[n])
<1> SUFFICES ASSUME NEW i \in 1 .. Len(lists[n]), NEW j \in 1 .. Len(lists[n]), lists[n][i] = lists[n][j]
             PROVE  i = j
  BY DEF Distinct
<1>1. ~(i < j) /\ ~(j < i)
  BY BeforeIrreflexive DEF Sorted
<1>2. Len(lists[n]) \in Nat
  BY LenProperties
<1> QED BY <1>1, <1>2

\* A process comes to a name after those that were taken up with it.
LEMMA TakenBehind ==
  ASSUME NEW lists \in Lists, NEW a \in 1 .. Len(Order), Distinct(lists[a]),
         NEW i \in 1 .. Len(lists[a]), NEW k \in 1 .. Len(Order),
         <<k, lists[a][i]>> \in TakenUpTo(lists, a, i)
  PROVE  k < a
<1>1. <<k, lists[a][i]>>[1] = k /\ <<k, lists[a][i]>>[2] = lists[a][i]
  OBVIOUS
<1>2. PICK j \in 1 .. Len(lists[k]) : lists[k][j] = lists[a][i] /\ (k < a \/ (k = a /\ j < i))
  BY <1>1 DEF TakenUpTo
<1>3. ~(k = a /\ j < i)
  <2>1. SUFFICES ASSUME k = a, j < i PROVE FALSE
    OBVIOUS
  <2>2. j = i
    BY <1>2, <2>1 DEF Distinct
  <2>3. Len(lists[a]) \in Nat
    BY LenProperties DEF Lists
  <2> QED BY <2>1, <2>2, <2>3
<1> QED BY <1>2, <1>3

LEMMA SortStep ==
  ASSUME NEW lists \in [QueueName -> Seq(Process)], Sorted(lists), NEW taken, Gathered(lists, taken),
         NEW a \in 1 .. Len(Order), NEW n \in QueueName,
         \A k \in 1 .. Len(Order) : <<k, n>> \in taken => k < a
  PROVE  Sorted([lists EXCEPT ![n] = Append(lists[n], Order[a])])
<1> DEFINE new == [lists EXCEPT ![n] = Append(lists[n], Order[a])]
<1>1. \A m \in QueueName : m # n => new[m] = lists[m]
  OBVIOUS
<1>2. new[n] = Append(lists[n], Order[a])
  OBVIOUS
<1> HIDE DEF new
<1>3. PICK s \in Seq(Process) : s = lists[n]
  OBVIOUS
<1>4. /\ Len(s) \in Nat /\ Len(new[n]) = Len(s) + 1
      /\ \A i \in 1 .. Len(s) : new[n][i] = s[i]
      /\ new[n][Len(s) + 1] = Order[a]
  <2>1. Order[a] \in Process
    BY OrderFacts
  <2> QED BY <1>2, <1>3, <2>1, AppendFacts, LenProperties
<1>5. ASSUME NEW i \in 1 .. Len(s) PROVE Before(s[i], Order[a])
  <2>1. s[i] \in Process /\ s[i] \in ToSet(s)
    BY ElementAt
  <2>2. PICK k \in 1 .. Len(Order) : Order[k] = s[i]
    BY <2>1, OrderFacts
  <2>3. k < a
    BY <1>3, <2>1, <2>2 DEF Gathered
  <2> QED BY <2>2, <2>3 DEF Before
<1>6. ASSUME NEW m \in QueueName, NEW i \in 1 .. Len(new[m]), NEW j \in 1 .. Len(new[m]), i < j
      PROVE  Before(new[m][i], new[m][j])
  <2>1. CASE m # n
    BY <1>1, <1>6, <2>1 DEF Sorted
  <2>2. CASE m = n
    <3>1. i \in 1 .. Len(s) /\ (j \in 1 .. Len(s) \/ j = Len(s) + 1)
      BY <1>4, <1>6, <2>2
    <3>2. CASE j \in 1 .. Len(s)
      <4>1. Before(s[i], s[j])
        BY <1>3, <1>6, <3>1, <3>2 DEF Sorted
      <4> QED BY <1>4, <2>2, <3>1, <3>2, <4>1
    <3>3. CASE j = Len(s) + 1
      BY <1>4, <1>5, <2>2, <3>1, <3>3
    <3> QED BY <3>1, <3>2, <3>3
  <2> QED BY <2>1, <2>2
<1>7. Sorted(new)
  BY <1>6 DEF Sorted
<1> QED BY <1>7 DEF new

LEMMA SortOnConsumed == ASSUME NoRepeats, ConfigTyped, CollectInv, SortInv, CollectConsumed PROVE SortInv'
<1>1. /\ at \in 1 .. Len(Order) /\ InputType /\ CollectionType /\ stage = "consume"
      /\ item \in Nat \ {0} /\ publishers' = publishers
  BY ConsumedRound DEF CollectConsumed
<1>2. PICK a \in 1 .. Len(Order) : a = at
  BY <1>1
<1>3. PICK i \in Nat \ {0} : i = item
  BY <1>1
<1>4. PICK lists \in Lists : lists = consumeLists
  BY ListsTyped
<1>5. PICK taken : taken = TakenUpTo(lists, a, i)
  OBVIOUS
<1>6. takenConsumers = taken
  BY <1>1, <1>2, <1>3, <1>4, <1>5 DEF takenConsumers, Binding
<1>7. lists[a] = config[Order[at]].consume.names
  BY <1>2, <1>4 DEF consumeLists
<1>8. CASE i <= Len(lists[a])
  <2>1. lists[a] \in Seq(QueueName) /\ i \in 1 .. Len(lists[a])
    BY <1>8, LenProperties DEF Lists
  <2>2. PICK n \in QueueName : n = lists[a][i]
    BY <2>1
  <2>3. consumers' = [consumers EXCEPT ![n] = Append(consumers[n], Order[a])]
    BY <1>2, <1>3, <1>7, <1>8, <2>2 DEF CollectConsumed
  <2>4. Distinct(lists[a])
    BY <1>1, <1>7, OrderFacts, EntryFacts DEF NoRepeats
  <2>5. \A k \in 1 .. Len(Order) : <<k, n>> \in taken => k < a
    BY <1>5, <2>1, <2>2, <2>4, TakenBehind
  <2>6. Sorted([consumers EXCEPT ![n] = Append(consumers[n], Order[a])])
    BY <1>1, <1>6, <2>5, SortStep DEF CollectInv, CollectionType, SortInv
  <2>7. Sorted(consumers)' /\ Sorted(publishers)'
    BY <1>1, <2>3, <2>6 DEF Sorted, SortInv
  <2> QED BY <2>7 DEF SortInv
<1>9. CASE ~(i <= Len(lists[a]))
  <2>1. consumers' = consumers
    BY <1>2, <1>3, <1>7, <1>9 DEF CollectConsumed
  <2> QED BY <1>1, <2>1 DEF SortInv, Sorted
<1> QED BY <1>8, <1>9

LEMMA SortOnPublished == ASSUME NoRepeats, ConfigTyped, CollectInv, SortInv, CollectPublished PROVE SortInv'
<1>1. /\ at \in 1 .. Len(Order) /\ InputType /\ CollectionType /\ stage = "publish"
      /\ item \in Nat \ {0} /\ consumers' = consumers
  BY DEF CollectPublished, ConfigTyped, StageType, Rounds
<1>2. PICK a \in 1 .. Len(Order) : a = at
  BY <1>1
<1>3. PICK i \in Nat \ {0} : i = item
  BY <1>1
<1>4. PICK lists \in Lists : lists = publishLists
  BY ListsTyped
<1>5. PICK taken : taken = TakenUpTo(lists, a, i)
  OBVIOUS
<1>6. takenPublishers = taken
  BY <1>1, <1>2, <1>3, <1>4, <1>5 DEF takenPublishers, Binding
<1>7. lists[a] = config[Order[at]].publish.names
  BY <1>2, <1>4 DEF publishLists
<1>8. CASE i <= Len(lists[a])
  <2>1. lists[a] \in Seq(QueueName) /\ i \in 1 .. Len(lists[a])
    BY <1>8, LenProperties DEF Lists
  <2>2. PICK n \in QueueName : n = lists[a][i]
    BY <2>1
  <2>3. publishers' = [publishers EXCEPT ![n] = Append(publishers[n], Order[a])]
    BY <1>2, <1>3, <1>7, <1>8, <2>2 DEF CollectPublished
  <2>4. Distinct(lists[a])
    BY <1>1, <1>7, OrderFacts, EntryFacts DEF NoRepeats
  <2>5. \A k \in 1 .. Len(Order) : <<k, n>> \in taken => k < a
    BY <1>5, <2>1, <2>2, <2>4, TakenBehind
  <2>6. Sorted([publishers EXCEPT ![n] = Append(publishers[n], Order[a])])
    BY <1>1, <1>6, <2>5, SortStep DEF CollectInv, CollectionType, SortInv
  <2>7. Sorted(consumers)' /\ Sorted(publishers)'
    BY <1>1, <2>3, <2>6 DEF Sorted, SortInv
  <2> QED BY <2>7 DEF SortInv
<1>9. CASE ~(i <= Len(lists[a]))
  <2>1. publishers' = publishers
    BY <1>2, <1>3, <1>7, <1>9 DEF CollectPublished
  <2> QED BY <1>1, <2>1 DEF SortInv, Sorted
<1> QED BY <1>8, <1>9

LEMMA SortNext == ASSUME NoRepeats PROVE ConfigTyped /\ CollectInv /\ SortInv /\ [ConfigNext]_configVars => SortInv'
<1> SUFFICES ASSUME ConfigTyped, CollectInv, SortInv, [ConfigNext]_configVars PROVE SortInv'
  OBVIOUS
<1>1. CASE UNCHANGED <<consumers, publishers>>
  BY <1>1 DEF SortInv, Sorted
<1>2. CollectConsumed \/ CollectPublished \/ UNCHANGED <<consumers, publishers>>
  BY DEF ConfigNext, configVars, collection, Compare, CheckProcess, CollectSizes,
         Collected, CreateQueue, GiveQueue, Finish
<1> QED BY <1>1, <1>2, SortOnConsumed, SortOnPublished

-----------------------------------------------------------------------------

\* The queues of the first k readers of a name.
QueuesOf(queueOf, readers, n, k) == [j \in 1 .. k |-> queueOf[readers[j]][n]]

\* How many queues publisher w of name a has been given.
GivenTo(a, w) ==
  IF a < at THEN Len(consumers[named[a]])
  ELSE IF a > at THEN 0
  ELSE IF stage = "give" /\ w >= giving THEN item - 2 ELSE item - 1

\* A publisher has been given the queues of the consumers that have one, but for
\* the newest while the loop over the publishers has not come to it.
GiveInv ==
  /\ stage \notin Binding => \A p \in Process, n \in QueueName : publishList[p][n] = <<>>
  /\ stage \in Binding =>
       \A a \in 1 .. Len(named) : \A w \in 1 .. Len(publishers[named[a]]) :
         publishList[publishers[named[a]][w]][named[a]]
           = QueuesOf(consumeQueue, consumers[named[a]], named[a], GivenTo(a, w))
  /\ \A p \in Process, n \in QueueName :
       n \notin ToSet(named) \/ p \notin ToSet(publishers[n]) => publishList[p][n] = <<>>
  /\ stage = "give" => consumeQueue[consumers[named[at]][item - 1]][named[at]] = Len(created)
  /\ stage \in {"bind", "give"} /\ at <= Len(named) => item - 1 <= Len(consumers[named[at]])

LEMMA QueuesOfNone == \A queueOf, readers, n : QueuesOf(queueOf, readers, n, 0) = <<>>
BY DEF QueuesOf

\* A sequence that agrees with another and is one longer is the other with its
\* last entry appended.
LEMMA OneLonger ==
  ASSUME NEW s \in Seq(Nat), NEW t \in Seq(Nat), NEW k \in Nat,
         Len(s) = k, Len(t) = k + 1, \A i \in 1 .. k : s[i] = t[i]
  PROVE  Append(s, t[k + 1]) = t
<1>1. PICK e \in Nat : e = t[k + 1]
  OBVIOUS
<1>2. PICK u : u = Append(s, e)
  OBVIOUS
<1>3. /\ u \in Seq(Nat) /\ Len(u) = k + 1
      /\ \A i \in 1 .. k : u[i] = s[i]
      /\ u[k + 1] = e
  BY <1>2, AppendFacts
<1>4. ASSUME NEW i \in 1 .. k + 1 PROVE u[i] = t[i]
  <2>1. i \in 1 .. k \/ i = k + 1
    OBVIOUS
  <2> QED BY <1>1, <1>3, <2>1
<1>5. u = t
  BY <1>3, <1>4, SeqEqual
<1> QED BY <1>1, <1>2, <1>5

LEMMA QueuesOfNext ==
  ASSUME NEW queueOf \in [Process -> [QueueName -> Nat]],
         NEW readers \in Seq(Process), NEW n \in QueueName,
         NEW k \in Nat, k + 1 <= Len(readers)
  PROVE  Append(QueuesOf(queueOf, readers, n, k), queueOf[readers[k + 1]][n])
           = QueuesOf(queueOf, readers, n, k + 1)
<1> DEFINE s == QueuesOf(queueOf, readers, n, k)
           t == QueuesOf(queueOf, readers, n, k + 1)
           e == queueOf[readers[k + 1]][n]
<1>1. ASSUME NEW i \in 1 .. k + 1 PROVE queueOf[readers[i]][n] \in Nat
  <2>1. readers[i] \in Process
    <3>1. i \in 1 .. Len(readers)
      BY LenProperties
    <3> QED BY <3>1
  <2> QED BY <2>1
<1>2. s \in Seq(Nat) /\ Len(s) = k /\ \A i \in 1 .. k : s[i] = queueOf[readers[i]][n]
  <2>1. \A i \in 1 .. k : queueOf[readers[i]][n] \in Nat
    BY <1>1
  <2> QED BY <2>1 DEF QueuesOf
<1>3. t \in Seq(Nat) /\ Len(t) = k + 1 /\ \A i \in 1 .. k + 1 : t[i] = queueOf[readers[i]][n]
  BY <1>1 DEF QueuesOf
<1>4. e \in Nat
  BY <1>1
<1> HIDE DEF s, t
<1>5. t[k + 1] = e /\ \A i \in 1 .. k : s[i] = t[i]
  <2>1. k + 1 \in 1 .. k + 1 /\ \A i \in 1 .. k : i \in 1 .. k + 1
    OBVIOUS
  <2>2. t[k + 1] = e
    BY <1>3, <2>1
  <2>3. ASSUME NEW i \in 1 .. k PROVE s[i] = t[i]
    <3>1. i \in 1 .. k + 1
      BY <2>1
    <3> QED BY <1>2, <1>3, <3>1
  <2> QED BY <2>2, <2>3
<1> HIDE DEF e
<1>6. Append(s, t[k + 1]) = t
  BY <1>2, <1>3, <1>5, OneLonger
<1> QED BY <1>5, <1>6 DEF s, t, e

LEMMA GiveOnCreate ==
  ASSUME ConfigTyped, CollectInv, SortInv, GiveInv, CreateQueue
  PROVE  GiveInv'
<1>1. /\ at \in 1 .. Len(named) /\ StageType /\ CollectionType /\ WiringType /\ stage = "bind"
      /\ Len(named) \in Nat
  BY CreateRound
<1>2. PICK a \in 1 .. Len(named) : a = at
  BY <1>1
<1>3. PICK i \in Nat \ {0} : i = item
  BY <1>1 DEF StageType
<1>4. PICK n \in QueueName : n = named[a]
  BY <1>1 DEF CollectionType
<1>5. UNCHANGED <<named, consumers, publishers, publishList>>
  BY DEF CreateQueue, collection
<1>6. PICK readers \in Seq(Process) : readers = consumers[n]
  BY <1>1 DEF CollectionType
<1>7. Distinct(named) /\ Distinct(readers) /\ Len(readers) \in Nat
  BY <1>1, <1>6, SortedDistinct, LenProperties DEF CollectInv, SortInv, CollectionType
<1>8. i - 1 <= Len(readers)
  BY <1>1, <1>2, <1>3, <1>4, <1>6 DEF GiveInv
<1>9. ASSUME NEW b \in 1 .. Len(named), NEW w \in 1 .. Len(publishers[named[b]])
      PROVE  publishList[publishers[named[b]][w]][named[b]] = QueuesOf(consumeQueue, consumers[named[b]], named[b],
               IF b < a THEN Len(consumers[named[b]]) ELSE IF b > a THEN 0 ELSE i - 1)
  BY <1>1, <1>2, <1>3, <1>9 DEF GiveInv, GivenTo, Binding
<1>10. (\A p \in Process, m \in QueueName :
          m \notin ToSet(named) \/ p \notin ToSet(publishers[m]) => publishList[p][m] = <<>>)'
  BY <1>5 DEF GiveInv
<1>11. CASE i <= Len(readers)
  <2>1. i \in 1 .. Len(readers)
    BY <1>7, <1>11
  <2>2. PICK p \in Process : p = readers[i]
    BY <2>1
  <2>3. PICK l \in Nat : l = Len(created)
    BY <1>1, LenProperties DEF WiringType
  <2>4. /\ created' = Append(created, [name |-> n, size |-> SizeOf(n)])
        /\ consumeQueue' = [consumeQueue EXCEPT ![p][n] = l + 1]
        /\ stage' = (IF Unpublished(n) THEN "no_publisher" ELSE "give")
        /\ item' = i + 1 /\ at' = a /\ giving' = 1
    BY <1>2, <1>3, <1>4, <1>6, <1>11, <2>2, <2>3 DEF CreateQueue
  <2>5. PICK queueOf \in [Process -> [QueueName -> 0 .. l]] : queueOf = consumeQueue
    BY <1>1, <2>3 DEF WiringType
  <2>6. PICK new : new = [queueOf EXCEPT ![p][n] = l + 1]
    OBVIOUS
  <2>7. new[p][n] = l + 1
    BY <2>6
  <2>8. ASSUME NEW c \in Process, NEW m \in QueueName, c # p \/ m # n
        PROVE  new[c][m] = queueOf[c][m]
    BY <2>6, <2>8
  <2>9. consumeQueue' = new
    BY <2>4, <2>5, <2>6
  <2>10. ASSUME NEW b \in 1 .. Len(named), NEW w \in 1 .. Len(publishers[named[b]])
         PROVE  publishList'[publishers'[named'[b]][w]][named'[b]]
                  = QueuesOf(consumeQueue', consumers'[named'[b]], named'[b], GivenTo(b, w)')
    <3>1. PICK m \in QueueName : m = named[b]
      <4>1. named \in Seq(QueueName)
        BY <1>1 DEF CollectionType
      <4> QED BY <4>1
    <3>2. PICK rs \in Seq(Process) : rs = consumers[m]
      <4>1. consumers \in [QueueName -> Seq(Process)]
        BY <1>1 DEF CollectionType
      <4> QED BY <4>1
    <3>3. PICK k : k = IF b < a THEN Len(rs) ELSE IF b > a THEN 0 ELSE i - 1
      OBVIOUS
    <3>4. publishList[publishers[m][w]][m] = QueuesOf(queueOf, rs, m, k)
      BY <1>9, <2>5, <3>1, <3>2, <3>3
    <3>5. k \in Nat /\ k <= Len(rs)
      <4>1. Len(rs) \in Nat
        BY LenProperties
      <4>2. CASE b = a
        BY <1>4, <1>6, <1>8, <3>1, <3>2, <3>3, <4>2
      <4>3. CASE b # a
        BY <3>3, <4>1, <4>3
      <4> QED BY <4>2, <4>3
    <3>6. GivenTo(b, w)' = k
      <4>1. CASE b = a
        <5>1. publishers[n] # <<>>
          <6>1. w \in 1 .. Len(publishers[n])
            BY <1>4, <4>1
          <6>2. publishers[n] \in Seq(Process)
            BY <1>1 DEF CollectionType
          <6>3. Len(publishers[n]) # 0
            BY <6>1
          <6> QED BY <6>2, <6>3, ElementAt
        <5>2. stage' = "give"
          BY <2>4, <5>1 DEF Unpublished
        <5>3. w >= 1
          BY <1>1, <3>1, LenProperties DEF CollectionType
        <5> QED BY <1>5, <2>4, <3>3, <4>1, <5>2, <5>3 DEF GivenTo
      <4>2. CASE b # a
        BY <1>5, <2>4, <3>1, <3>2, <3>3, <4>2 DEF GivenTo
      <4> QED BY <4>1, <4>2
    <3>7. ASSUME NEW j \in 1 .. k PROVE new[rs[j]][m] = queueOf[rs[j]][m]
      <4>1. j \in 1 .. Len(rs) /\ rs[j] \in Process
        <5>1. Len(rs) \in Nat
          BY LenProperties
        <5>2. j \in 1 .. Len(rs)
          BY <3>5, <5>1
        <5> QED BY <5>2
      <4>2. CASE b = a
        <5>1. m = n /\ rs = readers /\ j # i
          BY <1>4, <1>6, <3>1, <3>2, <3>3, <4>2
        <5>2. rs[j] # p
          BY <1>7, <2>1, <2>2, <4>1, <5>1 DEF Distinct
        <5> QED BY <2>8, <4>1, <5>2
      <4>3. CASE b # a
        <5>1. m # n
          BY <1>4, <1>7, <3>1, <4>3 DEF Distinct
        <5> QED BY <2>8, <4>1, <5>1
      <4> QED BY <4>2, <4>3
    <3>8. QueuesOf(new, rs, m, k) = QueuesOf(queueOf, rs, m, k)
      BY <3>7 DEF QueuesOf
    <3> QED BY <1>5, <2>9, <3>1, <3>2, <3>4, <3>6, <3>8
  <2>11. (\A b \in 1 .. Len(named) : \A w \in 1 .. Len(publishers[named[b]]) :
            publishList[publishers[named[b]][w]][named[b]]
              = QueuesOf(consumeQueue, consumers[named[b]], named[b], GivenTo(b, w)))'
    BY <1>5, <2>10
  <2>12. (consumeQueue[consumers[named[at]][item - 1]][named[at]] = Len(created))'
    <3>1. Len(created') = l + 1
      <4>1. [name |-> n, size |-> SizeOf(n)] \in [name : QueueName, size : Nat]
        BY SizeIsNat
      <4>2. created \in Seq([name : QueueName, size : Nat])
        BY <1>1 DEF WiringType
      <4> QED BY <2>3, <2>4, <4>1, <4>2, AppendFacts
    <3>2. consumers'[named'[at']][item' - 1] = p /\ named'[at'] = n
      <4>1. item' - 1 = i
        BY <2>4
      <4> QED BY <1>4, <1>5, <1>6, <2>2, <2>4, <4>1
    <3> QED BY <2>7, <2>9, <3>1, <3>2
  <2>13. (item - 1 <= Len(consumers[named[at]]))'
    BY <1>4, <1>5, <1>6, <1>11, <2>4
  <2>14. stage' \in {"give", "no_publisher"}
    BY <2>4
  <2> QED BY <1>10, <2>11, <2>12, <2>13, <2>14 DEF GiveInv, Binding
<1>12. CASE ~(i <= Len(readers))
  <2>1. UNCHANGED <<stage, giving, created, consumeQueue>> /\ at' = a + 1 /\ item' = 1
    BY <1>2, <1>3, <1>4, <1>6, <1>12 DEF CreateQueue
  <2>2. i - 1 = Len(readers)
    BY <1>7, <1>8, <1>12
  <2>3. ASSUME NEW b \in 1 .. Len(named), NEW w \in 1 .. Len(publishers[named[b]])
        PROVE  GivenTo(b, w)' = IF b < a THEN Len(consumers[named[b]]) ELSE IF b > a THEN 0 ELSE i - 1
    <3>1. CASE b < a
      BY <1>5, <2>1, <3>1 DEF GivenTo
    <3>2. CASE b = a
      BY <1>4, <1>5, <1>6, <2>1, <2>2, <3>2 DEF GivenTo
    <3>3. CASE b > a
      BY <1>1, <1>5, <2>1, <3>3 DEF GivenTo
    <3> QED BY <3>1, <3>2, <3>3
  <2>4. (\A b \in 1 .. Len(named) : \A w \in 1 .. Len(publishers[named[b]]) :
            publishList[publishers[named[b]][w]][named[b]]
              = QueuesOf(consumeQueue, consumers[named[b]], named[b], GivenTo(b, w)))'
    BY <1>5, <1>9, <2>1, <2>3
  <2>5. (at <= Len(named) => item - 1 <= Len(consumers[named[at]]))'
    <3>1. SUFFICES ASSUME a + 1 <= Len(named) PROVE 0 <= Len(consumers[named[a + 1]])
      BY <1>5, <2>1
    <3>2. a + 1 \in 1 .. Len(named)
      BY <1>1, <3>1
    <3>3. consumers[named[a + 1]] \in Seq(Process)
      <4>1. named \in Seq(QueueName) /\ consumers \in [QueueName -> Seq(Process)]
        BY <1>1 DEF CollectionType
      <4>2. named[a + 1] \in QueueName
        BY <3>2, <4>1, ElementAt
      <4> QED BY <4>1, <4>2
    <3> QED BY <3>3, LenProperties
  <2> QED BY <1>1, <1>10, <2>1, <2>4, <2>5 DEF GiveInv, Binding
<1> QED BY <1>11, <1>12

LEMMA GiveOnGive ==
  ASSUME ConfigTyped, CollectInv, SortInv, GiveInv, GiveQueue
  PROVE  GiveInv'
<1>1. /\ at \in 1 .. Len(named) /\ StageType /\ CollectionType /\ WiringType /\ Rounds /\ stage = "give"
      /\ Len(named) \in Nat
  BY LenProperties DEF GiveQueue, ConfigTyped, Rounds, CollectionType
<1>2. PICK a \in 1 .. Len(named) : a = at
  BY <1>1
<1>3. PICK i \in Nat \ {0} : i = item
  BY <1>1 DEF StageType
<1>4. PICK g \in Nat \ {0} : g = giving
  BY <1>1 DEF StageType
<1>5. PICK n \in QueueName : n = named[a]
  BY <1>1 DEF CollectionType
<1>6. UNCHANGED <<at, item, named, consumers, publishers, created, consumeQueue>>
  BY DEF GiveQueue, collection
<1>7. PICK readers \in Seq(Process) : readers = consumers[n]
  BY <1>1 DEF CollectionType
<1>8. PICK writers \in Seq(Process) : writers = publishers[n]
  BY <1>1 DEF CollectionType
<1>9. /\ Distinct(named) /\ Distinct(writers) /\ Len(readers) \in Nat /\ Len(writers) \in Nat
      /\ i - 1 \in 1 .. Len(readers)
  <2>1. Distinct(writers)
    BY <1>1, <1>8, SortedDistinct DEF SortInv, CollectionType
  <2>2. i - 1 \in 1 .. Len(readers)
    BY <1>1, <1>2, <1>3, <1>5, <1>7 DEF Rounds
  <2> QED BY <2>1, <2>2, LenProperties DEF CollectInv
<1>10. PICK l \in Nat : l = Len(created)
  BY <1>1, LenProperties DEF WiringType
<1>11. PICK queueOf \in [Process -> [QueueName -> 0 .. l]] : queueOf = consumeQueue
  BY <1>1, <1>10 DEF WiringType
<1>12. PICK own \in [Process -> [QueueName -> Seq(1 .. l)]] : own = publishList
  BY <1>1, <1>10 DEF WiringType
<1>13. ASSUME NEW b \in 1 .. Len(named), NEW w \in 1 .. Len(publishers[named[b]])
       PROVE  own[publishers[named[b]][w]][named[b]] = QueuesOf(queueOf, consumers[named[b]], named[b],
                IF b < a THEN Len(consumers[named[b]]) ELSE IF b > a THEN 0
                ELSE IF w >= g THEN i - 2 ELSE i - 1)
  BY <1>1, <1>2, <1>3, <1>4, <1>11, <1>12, <1>13 DEF GiveInv, GivenTo, Binding
<1>14. queueOf[readers[i - 1]][n] = l
  BY <1>1, <1>2, <1>3, <1>5, <1>7, <1>10, <1>11 DEF GiveInv
<1>15. (item - 1 <= Len(consumers[named[at]]))'
  BY <1>2, <1>3, <1>5, <1>6, <1>7, <1>9
<1>16. (consumeQueue[consumers[named[at]][item - 1]][named[at]] = Len(created))'
  BY <1>1, <1>6 DEF GiveInv
<1>17. CASE g <= Len(writers)
  <2>1. g \in 1 .. Len(writers)
    BY <1>9, <1>17
  <2>2. PICK p \in Process : p = writers[g]
    BY <2>1
  <2>3. PICK new : new = [own EXCEPT ![p][n] = Append(own[p][n], l)]
    OBVIOUS
  <2>4. publishList' = new /\ giving' = g + 1 /\ stage' = "give"
    BY <1>1, <1>2, <1>4, <1>5, <1>8, <1>10, <1>12, <1>17, <2>2, <2>3 DEF GiveQueue, WithNewest
  <2>5. new[p][n] = Append(own[p][n], l)
    BY <2>3
  <2>6. ASSUME NEW c \in Process, NEW m \in QueueName, c # p \/ m # n
        PROVE  new[c][m] = own[c][m]
    BY <2>3, <2>6
  <2>7. ASSUME NEW b \in 1 .. Len(named), NEW w \in 1 .. Len(publishers[named[b]])
        PROVE  new[publishers[named[b]][w]][named[b]] = QueuesOf(queueOf, consumers[named[b]], named[b],
                 IF b < a THEN Len(consumers[named[b]]) ELSE IF b > a THEN 0
                 ELSE IF w >= g + 1 THEN i - 2 ELSE i - 1)
    <3>1. PICK m \in QueueName : m = named[b]
      <4>1. named \in Seq(QueueName)
        BY <1>1 DEF CollectionType
      <4>2. named[b] \in QueueName
        BY <4>1, ElementAt
      <4> QED BY <4>2
    <3>2. PICK ws \in Seq(Process) : ws = publishers[m]
      BY <1>1 DEF CollectionType
    <3>3. w \in 1 .. Len(ws) /\ ws[w] \in Process /\ Len(ws) \in Nat /\ w \in Nat
      <4>1. w \in 1 .. Len(ws) /\ Len(ws) \in Nat
        BY <3>1, <3>2, LenProperties
      <4> QED BY <4>1
    <3>4. CASE b # a
      <4>1. m # n
        BY <1>5, <1>9, <3>1, <3>4 DEF Distinct
      <4>2. new[ws[w]][m] = own[ws[w]][m]
        BY <2>6, <3>3, <4>1
      <4>3. (b < a \/ b > a) /\ ~(b < a /\ b > a)
        BY <3>4
      <4>4. own[ws[w]][m] = QueuesOf(queueOf, consumers[m], m, IF b < a THEN Len(consumers[m]) ELSE 0)
        BY <1>13, <3>1, <3>2, <4>3
      <4> QED BY <3>1, <3>2, <4>2, <4>3, <4>4
    <3>5. CASE b = a /\ w # g
      <4>1. m = n /\ ws = writers
        BY <1>5, <1>8, <3>1, <3>2, <3>5
      <4>2. ws[w] # p
        BY <1>9, <2>1, <2>2, <3>3, <3>5, <4>1 DEF Distinct
      <4>3. new[ws[w]][m] = own[ws[w]][m]
        BY <2>6, <3>3, <4>2
      <4>4. w >= g <=> w >= g + 1
        <5>1. w \in Nat /\ g \in Nat /\ w # g
          BY <3>3, <3>5
        <5> QED BY <5>1
      <4> QED BY <1>13, <3>1, <3>2, <3>5, <4>3, <4>4
    <3>6. CASE b = a /\ w = g
      <4>1. m = n /\ ws = writers /\ ws[w] = p /\ named[a] = n /\ publishers[n][g] = p
        BY <1>5, <1>8, <2>2, <3>1, <3>2, <3>6
      <4>2. own[p][n] = QueuesOf(queueOf, readers, n, i - 2)
        <5>1. a \in 1 .. Len(named) /\ g \in 1 .. Len(publishers[named[a]])
          BY <1>5, <1>8, <2>1
        <5>2. ~(a < a) /\ ~(a > a) /\ g >= g
          OBVIOUS
        <5> QED BY <1>7, <1>13, <4>1, <5>1, <5>2
      <4>3. i - 2 \in Nat /\ (i - 2) + 1 = i - 1 /\ (i - 2) + 1 <= Len(readers)
        BY <1>9
      <4>4. Append(QueuesOf(queueOf, readers, n, i - 2), queueOf[readers[(i - 2) + 1]][n])
              = QueuesOf(queueOf, readers, n, (i - 2) + 1)
        <5>1. PICK k \in Nat : k = i - 2 /\ k + 1 <= Len(readers)
          BY <4>3
        <5>2. Append(QueuesOf(queueOf, readers, n, k), queueOf[readers[k + 1]][n])
                = QueuesOf(queueOf, readers, n, k + 1)
          <6>1. queueOf \in [Process -> [QueueName -> Nat]]
            <7>1. ASSUME NEW c \in Process, NEW o \in QueueName PROVE queueOf[c][o] \in Nat
              OBVIOUS
            <7> QED BY <7>1
          <6> QED BY <5>1, <6>1, QueuesOfNext
        <5> QED BY <5>1, <5>2
      <4>5. new[p][n] = QueuesOf(queueOf, readers, n, i - 1)
        BY <1>14, <2>5, <4>2, <4>3, <4>4
      <4>6. ~(b < a) /\ ~(b > a) /\ ~(w >= g + 1)
        BY <3>6
      <4> QED BY <1>7, <3>1, <3>2, <4>1, <4>5, <4>6
    <3> QED BY <3>4, <3>5, <3>6
  <2>8. (\A b \in 1 .. Len(named) : \A w \in 1 .. Len(publishers[named[b]]) :
            publishList[publishers[named[b]][w]][named[b]]
              = QueuesOf(consumeQueue, consumers[named[b]], named[b], GivenTo(b, w)))'
    <3>1. ASSUME NEW b \in 1 .. Len(named), NEW w \in 1 .. Len(publishers[named[b]])
          PROVE  GivenTo(b, w)' = IF b < a THEN Len(consumers[named[b]]) ELSE IF b > a THEN 0
                                  ELSE IF w >= g + 1 THEN i - 2 ELSE i - 1
      BY <1>2, <1>3, <1>6, <2>4 DEF GivenTo
    <3>2. ASSUME NEW b \in 1 .. Len(named), NEW w \in 1 .. Len(publishers[named[b]])
          PROVE  new[publishers[named[b]][w]][named[b]]
                   = QueuesOf(queueOf, consumers[named[b]], named[b], GivenTo(b, w)')
      <4>1. PICK k : k = GivenTo(b, w)'
        OBVIOUS
      <4>2. k = IF b < a THEN Len(consumers[named[b]]) ELSE IF b > a THEN 0
                ELSE IF w >= g + 1 THEN i - 2 ELSE i - 1
        BY <3>1, <4>1
      <4>3. new[publishers[named[b]][w]][named[b]] = QueuesOf(queueOf, consumers[named[b]], named[b], k)
        BY <2>7, <4>2
      <4> QED BY <4>1, <4>3
    <3> QED BY <1>6, <1>11, <2>4, <3>2
  <2>9. ASSUME NEW c \in Process, NEW m \in QueueName, m \notin ToSet(named) \/ c \notin ToSet(publishers[m])
        PROVE  new[c][m] = <<>>
    <3>1. n \in ToSet(named) /\ p \in ToSet(publishers[n])
      <4>1. named \in Seq(QueueName) /\ n \in ToSet(named)
        BY <1>1, <1>5, ElementAt DEF CollectionType
      <4> QED BY <1>8, <2>1, <2>2, <4>1, ElementAt
    <3>2. c # p \/ m # n
      BY <2>9, <3>1
    <3>3. own[c][m] = <<>>
      BY <1>12, <2>9 DEF GiveInv
    <3> QED BY <2>6, <3>2, <3>3
  <2>10. (\A c \in Process, m \in QueueName :
            m \notin ToSet(named) \/ c \notin ToSet(publishers[m]) => publishList[c][m] = <<>>)'
    BY <1>6, <2>4, <2>9
  <2> QED BY <1>15, <1>16, <2>4, <2>8, <2>10 DEF GiveInv, Binding
<1>18. CASE ~(g <= Len(writers))
  <2>1. stage' = "bind" /\ UNCHANGED <<giving, publishList>>
    BY <1>2, <1>4, <1>5, <1>8, <1>18 DEF GiveQueue
  <2>2. ASSUME NEW b \in 1 .. Len(named), NEW w \in 1 .. Len(publishers[named[b]])
        PROVE  GivenTo(b, w)' = IF b < a THEN Len(consumers[named[b]]) ELSE IF b > a THEN 0
                                ELSE IF w >= g THEN i - 2 ELSE i - 1
    <3>1. GivenTo(b, w)' = IF b < a THEN Len(consumers[named[b]]) ELSE IF b > a THEN 0 ELSE i - 1
      BY <1>2, <1>3, <1>6, <2>1 DEF GivenTo
    <3>2. CASE b = a
      <4>1. w \in 1 .. Len(writers)
        BY <1>5, <1>8, <3>2
      <4>2. ~(w >= g)
        BY <1>9, <1>18, <4>1
      <4> QED BY <3>1, <4>2
    <3>3. CASE b # a
      <4>1. b < a \/ b > a
        BY <3>3
      <4> QED BY <3>1, <4>1
    <3> QED BY <3>2, <3>3
  <2>3. (\A b \in 1 .. Len(named) : \A w \in 1 .. Len(publishers[named[b]]) :
            publishList[publishers[named[b]][w]][named[b]]
              = QueuesOf(consumeQueue, consumers[named[b]], named[b], GivenTo(b, w)))'
    <3>1. ASSUME NEW b \in 1 .. Len(named), NEW w \in 1 .. Len(publishers[named[b]])
          PROVE  own[publishers[named[b]][w]][named[b]]
                   = QueuesOf(queueOf, consumers[named[b]], named[b], GivenTo(b, w)')
      <4>1. PICK k : k = GivenTo(b, w)'
        OBVIOUS
      <4>2. k = IF b < a THEN Len(consumers[named[b]]) ELSE IF b > a THEN 0
                ELSE IF w >= g THEN i - 2 ELSE i - 1
        BY <2>2, <4>1
      <4>3. own[publishers[named[b]][w]][named[b]] = QueuesOf(queueOf, consumers[named[b]], named[b], k)
        BY <1>13, <4>2
      <4> QED BY <4>1, <4>3
    <3> QED BY <1>6, <1>11, <1>12, <2>1, <3>1
  <2>4. (\A c \in Process, m \in QueueName :
            m \notin ToSet(named) \/ c \notin ToSet(publishers[m]) => publishList[c][m] = <<>>)'
    BY <1>6, <2>1 DEF GiveInv
  <2> QED BY <1>15, <2>1, <2>3, <2>4 DEF GiveInv, Binding
<1> QED BY <1>17, <1>18

LEMMA GiveInit == ConfigInit => GiveInv
BY DEF ConfigInit, GiveInv, Binding

\* The steps that leave the queues alone.
LEMMA GiveQuiet ==
  ASSUME GiveInv, stage \notin Binding, stage' \notin Binding, UNCHANGED publishList
  PROVE  GiveInv'
<1>1. (\A p \in Process, n \in QueueName : publishList[p][n] = <<>>)'
  BY DEF GiveInv
<1> QED BY <1>1 DEF GiveInv, Binding

LEMMA GiveStep ==
  ConfigTyped /\ CollectInv /\ SortInv /\ BindInv /\ GiveInv /\ [ConfigNext]_configVars => GiveInv'
<1> SUFFICES ASSUME ConfigTyped, CollectInv, SortInv, BindInv, GiveInv, [ConfigNext]_configVars
             PROVE  GiveInv'
  OBVIOUS
<1>1. CASE Compare \/ CheckProcess \/ CollectSizes \/ CollectConsumed \/ CollectPublished
  <2>1. stage \notin Binding /\ stage' \notin Binding /\ UNCHANGED publishList
    BY <1>1 DEF Compare, CheckProcess, CollectSizes, CollectConsumed, CollectPublished, Binding, wiring
  <2> QED BY <2>1, GiveQuiet
<1>2. CASE Collected
  <2>1. /\ stage = "consume" /\ stage' = "bind" /\ at' = 1 /\ item = 1
        /\ UNCHANGED <<item, named, consumers, publishers, publishList, consumeQueue>>
    BY <1>2 DEF Collected, wiring, collection, CollectInv
  <2>2. \A p \in Process, n \in QueueName : publishList[p][n] = <<>>
    BY <2>1 DEF GiveInv, Binding
  <2>3. CollectionType /\ named \in Seq(QueueName)
    BY DEF ConfigTyped, CollectionType
  <2>4. ASSUME NEW b \in 1 .. Len(named), NEW w \in 1 .. Len(publishers[named[b]])
        PROVE  publishList[publishers[named[b]][w]][named[b]]
                 = QueuesOf(consumeQueue, consumers[named[b]], named[b], GivenTo(b, w)')
    <3>1. PICK n \in QueueName : n = named[b]
      BY <2>3
    <3>2. PICK ws \in Seq(Process) : ws = publishers[n]
      BY <2>3 DEF CollectionType
    <3>3. ws[w] \in Process
      BY <3>1, <3>2
    <3>4. GivenTo(b, w)' = 0
      BY <2>1 DEF GivenTo
    <3> QED BY <2>2, <3>1, <3>2, <3>3, <3>4, QueuesOfNone
  <2>5. (\A b \in 1 .. Len(named) : \A w \in 1 .. Len(publishers[named[b]]) :
            publishList[publishers[named[b]][w]][named[b]]
              = QueuesOf(consumeQueue, consumers[named[b]], named[b], GivenTo(b, w)))'
    BY <2>1, <2>4
  <2>6. (at <= Len(named) => item - 1 <= Len(consumers[named[at]]))'
    <3>1. SUFFICES ASSUME 1 <= Len(named) PROVE 0 <= Len(consumers[named[1]])
      BY <2>1
    <3>2. 1 \in 1 .. Len(named)
      BY <2>3, <3>1, LenProperties
    <3>3. consumers[named[1]] \in Seq(Process)
      BY <2>3, <3>2 DEF CollectionType
    <3> QED BY <3>3, LenProperties
  <2> QED BY <2>1, <2>2, <2>5, <2>6 DEF GiveInv, Binding
<1>3. CASE Finish
  <2>1. /\ stage = "bind" /\ stage' = "done"
        /\ UNCHANGED <<at, item, giving, named, consumers, publishers, publishList, consumeQueue>>
    BY <1>3 DEF Finish, wiring, collection
  <2>2. \A b, w : GivenTo(b, w)' = GivenTo(b, w)
    BY <2>1 DEF GivenTo
  <2> QED BY <2>1, <2>2 DEF GiveInv, Binding
<1>4. CASE UNCHANGED configVars
  <2>1. UNCHANGED <<stage, at, item, giving, named, consumers, publishers, publishList, created, consumeQueue>>
    BY <1>4 DEF configVars, wiring, collection
  <2>2. \A b, w : GivenTo(b, w)' = GivenTo(b, w)
    BY <2>1 DEF GivenTo
  <2> QED BY <2>1, <2>2 DEF GiveInv
<1> QED BY <1>1, <1>2, <1>3, <1>4, GiveOnCreate, GiveOnGive DEF ConfigNext

\* Where no list of the configuration names a queue twice: in an accepted
\* configuration each publisher of a name has one queue per consumer of it, the
\* one that consumer reads, in the order of the configuration, and two consumers
\* share none (dispatcher.py:112-167).
THEOREM QueuePerConsumer == ASSUME NoRepeats PROVE ConfigSpec => []OneQueuePerConsumer
<1>1. ConfigTyped /\ CollectInv /\ SortInv /\ BindInv /\ GiveInv => OneQueuePerConsumer
  <2> SUFFICES ASSUME ConfigTyped, CollectInv, SortInv, BindInv, GiveInv, stage = "done"
               PROVE  /\ \A n \in QueueName :
                           /\ ToSet(consumers[n]) = {c \in Process : Consumes(c, n)}
                           /\ \A i, j \in 1 .. Len(consumers[n]) :
                                i < j => Before(consumers[n][i], consumers[n][j])
                      /\ \A p \in Process, n \in QueueName :
                           publishList[p][n] =
                             IF Publishes(p, n)
                             THEN [i \in 1 .. Len(consumers[n]) |-> consumeQueue[consumers[n][i]][n]] ELSE <<>>
                      /\ \A c, d \in Process, n, m \in QueueName :
                           consumeQueue[c][n] = consumeQueue[d][m] /\ consumeQueue[c][n] # 0
                             => c = d /\ n = m
    BY DEF OneQueuePerConsumer
  <2>1. stage \in Binding /\ at > Len(named) /\ CollectionType /\ StageType
    BY DEF Binding, BindInv, ConfigTyped
  <2>2. ASSUME NEW n \in QueueName PROVE ToSet(consumers[n]) = {c \in Process : Consumes(c, n)}
    <3>1. consumers[n] \in Seq(Process)
      BY <2>1 DEF CollectionType
    <3>2. \A c \in ToSet(consumers[n]) : c \in Process
      BY <3>1, ElementAt
    <3> QED BY <2>1, <3>2, GatheredAll
  <2>3. \A n \in QueueName : \A i, j \in 1 .. Len(consumers[n]) :
          i < j => Before(consumers[n][i], consumers[n][j])
    BY DEF SortInv, Sorted
  <2>4. ASSUME NEW p \in Process, NEW n \in QueueName
        PROVE  publishList[p][n] =
                 IF Publishes(p, n)
                 THEN [i \in 1 .. Len(consumers[n]) |-> consumeQueue[consumers[n][i]][n]] ELSE <<>>
    <3>1. consumers[n] \in Seq(Process) /\ publishers[n] \in Seq(Process) /\ named \in Seq(QueueName)
          /\ Len(named) \in Nat
      BY <2>1, LenProperties DEF CollectionType
    <3>2. p \in ToSet(publishers[n]) <=> Publishes(p, n)
      BY <2>1, GatheredAll
    <3>3. CASE ~Publishes(p, n)
      BY <3>2, <3>3 DEF GiveInv
    <3>4. CASE Publishes(p, n) /\ n \notin ToSet(named)
      <4>1. consumers[n] = <<>>
        BY <3>4 DEF CollectInv
      <4>2. [i \in 1 .. Len(consumers[n]) |-> consumeQueue[consumers[n][i]][n]] = <<>>
        BY <4>1
      <4>3. publishList[p][n] = <<>>
        BY <3>4 DEF GiveInv
      <4> QED BY <3>4, <4>2, <4>3
    <3>5. CASE Publishes(p, n) /\ n \in ToSet(named)
      <4>1. PICK a \in 1 .. Len(named) : named[a] = n
        BY <3>1, <3>5, ElementAt
      <4>2. PICK w \in 1 .. Len(publishers[n]) : publishers[n][w] = p
        BY <3>1, <3>2, <3>5, ElementAt
      <4>3. a < at
        BY <2>1, <3>1 DEF StageType
      <4>4. GivenTo(a, w) = Len(consumers[n])
        BY <4>1, <4>3 DEF GivenTo
      <4>5. publishList[publishers[named[a]][w]][named[a]]
              = QueuesOf(consumeQueue, consumers[named[a]], named[a], GivenTo(a, w))
        BY <2>1, <4>1, <4>2 DEF GiveInv
      <4>6. publishList[p][n] = QueuesOf(consumeQueue, consumers[n], n, Len(consumers[n]))
        BY <4>1, <4>2, <4>4, <4>5
      <4> QED BY <3>5, <4>6 DEF QueuesOf
    <3> QED BY <3>3, <3>4, <3>5
  <2>5. \A c, d \in Process, n, m \in QueueName :
          consumeQueue[c][n] = consumeQueue[d][m] /\ consumeQueue[c][n] # 0 => c = d /\ n = m
    BY DEF BindInv, Linked
  <2> QED BY <2>2, <2>3, <2>4, <2>5
<1>2. ConfigInit => SortInv
  BY DEF ConfigInit, SortInv, Sorted
<1>3. ConfigTyped /\ CollectInv /\ SortInv /\ [ConfigNext]_configVars => SortInv'
  BY SortNext
<1> QED BY <1>1, <1>2, <1>3, ConfigTypedInit, TypedStep, CollectInit, CollectStep, BindInit, BindStep,
           GiveInit, GiveStep, PTL DEF ConfigSpec

-----------------------------------------------------------------------------
(* What the processes are handed *)

\* A queue is in a publisher's list once: it belongs to one consumer, and no
\* consumer is listed twice.
LEMMA HandedOnce ==
  ASSUME ConfigTypeOK, OneQueuePerConsumer, stage = "done", NEW p \in Process, NEW n \in QueueName
  PROVE  Distinct(publishList[p][n])
<1>1. PICK l \in Nat : l = Len(created)
  BY LenProperties DEF ConfigTypeOK
<1>2. PICK own \in Seq(1 .. l) : own = publishList[p][n]
  BY <1>1 DEF ConfigTypeOK
<1>3. PICK readers \in Seq(Process) : readers = consumers[n]
  BY DEF ConfigTypeOK
<1>4. /\ Len(own) \in Nat /\ \A i \in 1 .. Len(own) : own[i] \in 1 .. l
      /\ Len(readers) \in Nat /\ \A i \in 1 .. Len(readers) : readers[i] \in Process
  BY LenProperties
<1>5. own # <<>> => own = [k \in 1 .. Len(readers) |-> consumeQueue[readers[k]][n]]
  BY <1>2, <1>3 DEF OneQueuePerConsumer
<1>6. \A i, j \in 1 .. Len(readers) : i < j => Before(readers[i], readers[j])
  BY <1>3 DEF OneQueuePerConsumer
<1>7. \A c, d \in Process : consumeQueue[c][n] = consumeQueue[d][n] /\ consumeQueue[c][n] # 0 => c = d
  BY DEF OneQueuePerConsumer
<1>8. ASSUME NEW i \in 1 .. Len(own), NEW j \in 1 .. Len(own), own[i] = own[j]
      PROVE  i = j
  <2>1. own # <<>>
    BY <1>8
  <2>2. Len(own) = Len(readers)
    BY <1>4, <1>5, <2>1
  <2>3. PICK c \in Process, d \in Process : c = readers[i] /\ d = readers[j]
    BY <1>4, <2>2
  <2>4. own[i] = consumeQueue[c][n] /\ own[j] = consumeQueue[d][n]
    BY <1>5, <2>1, <2>2, <2>3
  <2>5. own[i] # 0
    BY <1>4
  <2>6. c = d
    BY <1>7, <1>8, <2>4, <2>5
  <2>7. ~Before(c, d) /\ ~Before(d, c)
    BY <2>6, BeforeIrreflexive
  <2>8. ~(i < j) /\ ~(j < i)
    BY <1>6, <2>2, <2>3, <2>7
  <2> QED BY <1>4, <2>8
<1> QED BY <1>2, <1>8 DEF Distinct

\* What ProcessQueues assumes of the queues it is given (WiringAssumption) is what
\* an accepted configuration hands to the processes, for every configuration whose
\* lists name no queue twice.
THEOREM HandedOver == ASSUME NoRepeats PROVE ConfigSpec => []HandedIsWired
<1>1. ConfigTypeOK /\ OneQueuePerConsumer => HandedIsWired
  <2> SUFFICES ASSUME ConfigTypeOK, OneQueuePerConsumer, stage = "done"
               PROVE  Wired(Process, 1 .. Len(created), HandedPublish, HandedConsume)
    BY DEF HandedIsWired
  <2>1. ASSUME NEW p \in Process, NEW n \in DOMAIN HandedPublish[p]
        PROVE  /\ HandedPublish[p][n] \in Seq(1 .. Len(created))
               /\ HandedPublish[p][n] # <<>>
               /\ Distinct(HandedPublish[p][n])
    <3>1. n \in QueueName /\ publishList[p][n] # <<>> /\ HandedPublish[p][n] = publishList[p][n]
      BY <2>1 DEF HandedPublish
    <3>2. publishList[p][n] \in Seq(1 .. Len(created))
      BY <3>1 DEF ConfigTypeOK
    <3> QED BY <3>1, <3>2, HandedOnce
  <2>2. ASSUME NEW p \in Process, NEW n \in DOMAIN HandedConsume[p]
        PROVE  HandedConsume[p][n] \in 1 .. Len(created)
    <3>1. n \in QueueName /\ consumeQueue[p][n] # 0 /\ HandedConsume[p][n] = consumeQueue[p][n]
      BY <2>2 DEF HandedConsume
    <3>2. consumeQueue[p][n] \in 0 .. Len(created) /\ Len(created) \in Nat
      BY <3>1, LenProperties DEF ConfigTypeOK
    <3> QED BY <3>1, <3>2
  <2> QED BY <2>1, <2>2 DEF Wired, Distinct
<1> QED BY <1>1, ConfigTypeCorrect, QueuePerConsumer, PTL

-----------------------------------------------------------------------------
(* RobotDispatcher at run time: types *)

OsProcess == [name : Name, state : {"running", "terminating", "dead"}]

HostType ==
  /\ processes \in Seq(Name)
  /\ pool \in [Name -> 0 .. Len(spawned)]
  /\ spawned \in Seq(OsProcess)
  /\ calling \in {"idle", "start", "add", "stop"}
  /\ names \in Seq(Name)
  /\ failed \subseteq Name
  /\ started \in BOOLEAN
  /\ replaced \subseteq 1 .. Len(spawned)

CheckType ==
  /\ checking \in {"sleep", "next", "read", "stopped", "crashed"}
  /\ size \in Nat
  /\ visited \subseteq Name
  /\ queues \in Seq(Queue)
  /\ overflow \in BOOLEAN
  /\ level \in [Queue -> Nat]
  /\ \A q \in Queue : level[q] <= MaxSize[q]
  /\ since \subseteq Queue

LEMMA TypeParts == TypeOK <=> HostType /\ Distinct(processes) /\ CheckType /\ stayed \subseteq Name
BY DEF TypeOK, HostType, CheckType, OsProcess, Distinct


\* An entry of the pool is a process of its name, which is registered.
PoolEntries ==
  \A n \in Name : pool[n] # 0 => spawned[pool[n]].name = n /\ n \in ToSet(processes)

\* What a running call has still to do: what it is to start is registered, what
\* add_process is to start is not in the pool, what is to be stopped is.
Pending ==
  /\ calling \in {"start", "add"} => names # <<>> /\ ToSet(names) \subseteq ToSet(processes)
  /\ calling = "add" => Tail(names) = <<>> /\ pool[names[1]] = 0
  /\ calling = "stop" => names # <<>> /\ pool[names[1]] # 0

\* What start_processes has come to is in the pool; after the first that came to
\* its end, so is whatever is registered and did not fail to start last, but for
\* what add_process is about to start.
Started ==
  /\ calling = "start" => \A n \in ToSet(processes) : pool[n] # 0 \/ n \in ToSet(names)
  /\ started => \A n \in ToSet(processes) \ failed :
                  pool[n] # 0 \/ (calling = "add" /\ n \in ToSet(names))

\* The inductive invariant.
PoolInv ==
  HostType /\ Distinct(processes) /\ PoolEntries /\ AliveInPool /\ Pending /\ Started

LEMMA PoolInit == Init => PoolInv
<1> SUFFICES ASSUME Init PROVE PoolInv
  OBVIOUS
<1>1. Initial \in Seq(Name)
  <2>1. Initial \in Seq(STRING) /\ \A i \in 1 .. Len(Initial) : Initial[i] \in Name
    BY LifecycleAssumption, LenProperties DEF Name, ToSet
  <2> QED BY <2>1
<1>2. HostType
  <2>1. spawned \in Seq(OsProcess) /\ Len(spawned) = 0
    BY DEF Init
  <2>2. processes \in Seq(Name) /\ names \in Seq(Name)
    BY <1>1 DEF Init
  <2>3. pool \in [Name -> 0 .. Len(spawned)]
    BY <2>1 DEF Init
  <2>4. calling = "idle" /\ failed = {} /\ started = FALSE /\ replaced = {}
    BY DEF Init
  <2> QED BY <2>1, <2>2, <2>3, <2>4 DEF HostType
<1>3. Distinct(processes)
  BY LifecycleAssumption DEF Init, Distinct
<1>4. PoolEntries /\ AliveInPool /\ Pending /\ Started
  BY DEF Init, PoolEntries, AliveInPool, Pending, Started
<1> QED BY <1>2, <1>3, <1>4 DEF PoolInv

-----------------------------------------------------------------------------
(* What the steps do to the pool *)

\* The elements of a sequence of names.
LEMMA Members ==
  ASSUME NEW s \in Seq(Name)
  PROVE  /\ ToSet(s) = {s[i] : i \in 1 .. Len(s)}
         /\ ToSet(s) \subseteq Name
         /\ s # <<>> => s[1] \in ToSet(s) /\ s[1] \in Name /\ Head(s) = s[1]
<1>1. DOMAIN s = 1 .. Len(s) /\ Len(s) \in Nat /\ \A i \in 1 .. Len(s) : s[i] \in Name
  BY LenProperties
<1>2. ASSUME s # <<>> PROVE 1 \in 1 .. Len(s) /\ Head(s) = s[1]
  BY <1>2, TailFacts
<1> QED BY <1>1, <1>2 DEF ToSet

\* _run_process of a registered name; what the pool has under it is replaced.
LEMMA RunKeeps ==
  ASSUME PoolInv, NEW n \in Name, n \in ToSet(processes),
         RunProcess(n), processes' = processes, replaced' = replaced \cup ({pool[n]} \ {0})
  PROVE  /\ spawned' \in Seq(OsProcess) /\ spawned' # <<>>
         /\ pool' \in [Name -> 0 .. Len(spawned')]
         /\ replaced' \subseteq 1 .. Len(spawned')
         /\ pool'[n] # 0 /\ \A m \in Name : m # n => pool'[m] = pool[m]
         /\ PoolEntries'
         /\ AliveInPool'
<1> DEFINE o == [name |-> n, state |-> "running"]
           k == Len(spawned) + 1
<1>1. o \in OsProcess /\ o.name = n
  BY DEF OsProcess
<1>2. spawned \in Seq(OsProcess) /\ pool \in [Name -> 0 .. Len(spawned)] /\ Len(spawned) \in Nat
  BY DEF PoolInv, HostType
<1>3. spawned' = Append(spawned, o) /\ pool' = [pool EXCEPT ![n] = k]
  BY DEF RunProcess
<1> HIDE DEF o
<1>4. /\ spawned' \in Seq(OsProcess) /\ Len(spawned') = k
      /\ \A i \in 1 .. Len(spawned) : spawned'[i] = spawned[i]
      /\ spawned'[k] = o
  BY <1>1, <1>2, <1>3, AppendFacts
<1>5. k \in Nat /\ k # 0 /\ 1 .. k = 1 .. Len(spawned) \cup {k} /\ 0 .. Len(spawned) \subseteq 0 .. k
  BY <1>2
<1> HIDE DEF k
<1>6. spawned' # <<>>
  BY <1>4, <1>5
<1>7. pool' \in [Name -> 0 .. Len(spawned')] /\ pool'[n] = k
  <2>1. k \in 0 .. k
    BY <1>5
  <2> QED BY <1>2, <1>3, <1>4, <1>5, <2>1
<1>8. \A m \in Name : m # n => pool'[m] = pool[m]
  BY <1>2, <1>3
<1>9. ASSUME NEW m \in Name, pool'[m] # 0
      PROVE  spawned'[pool'[m]].name = m /\ m \in ToSet(processes)
  <2>1. CASE m = n
    BY <1>1, <1>4, <1>7, <2>1
  <2>2. CASE m # n
    <3>1. pool[m] \in 1 .. Len(spawned)
      BY <1>2, <1>8, <1>9, <2>2
    <3> QED BY <1>4, <1>8, <1>9, <2>2, <3>1 DEF PoolInv, PoolEntries
  <2> QED BY <2>1, <2>2
<1>10. ASSUME NEW i \in 1 .. Len(spawned'), spawned'[i].state # "dead"
       PROVE  pool'[spawned'[i].name] = i \/ i \in replaced'
  <2>1. CASE i = k
    BY <1>1, <1>4, <1>7, <2>1
  <2>2. CASE i \in 1 .. Len(spawned)
    <3>1. spawned'[i] = spawned[i] /\ i # 0
      BY <1>4, <2>2
    <3>3. spawned[i].name \in Name
      <4>1. PICK r \in OsProcess : r = spawned[i]
        BY <1>2, <2>2
      <4> QED BY <4>1 DEF OsProcess
    <3>2. pool[spawned[i].name] = i \/ i \in replaced
      BY <1>10, <2>2, <3>1 DEF PoolInv, AliveInPool
    <3>4. CASE spawned[i].name = n
      BY <3>1, <3>2, <3>4
    <3>5. CASE spawned[i].name # n
      BY <1>8, <3>1, <3>2, <3>3, <3>5
    <3> QED BY <3>4, <3>5
  <2> QED BY <1>4, <1>5, <2>1, <2>2
<1>11. replaced' \subseteq 1 .. Len(spawned')
  <2>1. replaced \subseteq 1 .. Len(spawned) /\ pool[n] \in 0 .. Len(spawned)
    BY <1>2 DEF PoolInv, HostType
  <2>2. {pool[n]} \ {0} \subseteq 1 .. Len(spawned)
    BY <1>2, <2>1
  <2> QED BY <1>4, <1>5, <2>1, <2>2
<1>12. PoolEntries' /\ AliveInPool'
  BY <1>9, <1>10 DEF PoolEntries, AliveInPool
<1> QED BY <1>4, <1>5, <1>6, <1>7, <1>8, <1>11, <1>12

\* The entries of a process that is dead go.
LEMMA EndsKeeps ==
  ASSUME PoolInv, NEW n \in Name, pool[n] # 0, spawned[pool[n]].state = "dead",
         Ends(n), UNCHANGED <<spawned, replaced>>
  PROVE  /\ processes' \in Seq(Name)
         /\ Distinct(processes)'
         /\ ToSet(processes') = ToSet(processes) \ {n}
         /\ pool' = [pool EXCEPT ![n] = 0]
         /\ pool' \in [Name -> 0 .. Len(spawned)]
         /\ PoolEntries'
         /\ AliveInPool'
<1>1. processes \in Seq(Name) /\ pool \in [Name -> 0 .. Len(spawned)] /\ Len(spawned) \in Nat
  BY DEF PoolInv, HostType
<1>2. n \in ToSet(processes)
  BY DEF PoolInv, PoolEntries
<1>3. PICK i \in 1 .. Len(processes) :
        processes[i] = n /\ i = CHOOSE j \in 1 .. Len(processes) : processes[j] = n
  BY <1>1, <1>2, Members
<1>4. processes' = RemoveAt(processes, i) /\ pool' = [pool EXCEPT ![n] = 0]
  BY <1>3 DEF Ends, Forget
<1>5. /\ processes' \in Seq(Name)
      /\ Len(processes') = Len(processes) - 1
      /\ \A j \in 1 .. (Len(processes) - 1) :
           processes'[j] = IF j < i THEN processes[j] ELSE processes[j + 1]
  BY <1>1, <1>4, RemoveFacts
<1>6. Len(processes) \in Nat
  BY <1>1, LenProperties
<1>7. ASSUME NEW j \in 1 .. Len(processes')
      PROVE  \E h \in 1 .. Len(processes) :
               processes'[j] = processes[h] /\ h # i /\ h = IF j < i THEN j ELSE j + 1
  BY <1>5, <1>6
<1>8. Distinct(processes)'
  <2> SUFFICES ASSUME NEW j \in 1 .. Len(processes'), NEW k \in 1 .. Len(processes'),
                      processes'[j] = processes'[k]
               PROVE  j = k
    BY DEF Distinct
  <2>1. PICK h \in 1 .. Len(processes) :
          processes'[j] = processes[h] /\ h = IF j < i THEN j ELSE j + 1
    BY <1>7
  <2>2. PICK g \in 1 .. Len(processes) :
          processes'[k] = processes[g] /\ g = IF k < i THEN k ELSE k + 1
    BY <1>7
  <2>3. h = g
    BY <2>1, <2>2 DEF PoolInv, Distinct
  <2> QED BY <2>1, <2>2, <2>3
<1>9. ToSet(processes') = ToSet(processes) \ {n}
  <2>1. ToSet(processes) = {n} \cup ToSet(processes')
    BY <1>1, <1>3, <1>4, ToSetRemove
  <2>2. n \notin ToSet(processes')
    <3> SUFFICES ASSUME n \in ToSet(processes') PROVE FALSE
      OBVIOUS
    <3>1. PICK j \in 1 .. Len(processes') : processes'[j] = n
      BY <1>5, Members
    <3>2. PICK h \in 1 .. Len(processes) : processes[h] = n /\ h # i
      BY <1>7, <3>1
    <3> QED BY <1>3, <3>2 DEF PoolInv, Distinct
  <2> QED BY <2>1, <2>2
<1>10. pool' \in [Name -> 0 .. Len(spawned)]
  BY <1>1, <1>4
<1>11. PoolEntries'
  <2> SUFFICES ASSUME NEW m \in Name, pool'[m] # 0
               PROVE  spawned[pool'[m]].name = m /\ m \in ToSet(processes')
    BY DEF PoolEntries
  <2>1. m # n /\ pool'[m] = pool[m]
    BY <1>1, <1>4
  <2> QED BY <1>9, <2>1 DEF PoolInv, PoolEntries
<1>12. AliveInPool'
  <2> SUFFICES ASSUME NEW j \in 1 .. Len(spawned), spawned[j].state # "dead"
               PROVE  pool'[spawned[j].name] = j \/ j \in replaced
    BY DEF AliveInPool
  <2>1. pool[spawned[j].name] = j \/ j \in replaced
    BY DEF PoolInv, AliveInPool
  <2>2. pool[spawned[j].name] = j => spawned[j].name # n
    OBVIOUS
  <2> QED BY <1>1, <1>4, <2>1, <2>2
<1> QED BY <1>4, <1>5, <1>8, <1>9, <1>10, <1>11, <1>12

\* A process that is not dead is told to end, or ends.
LEMMA StateKeeps ==
  ASSUME PoolInv, NEW i \in 1 .. Len(spawned), spawned[i].state # "dead",
         NEW s \in {"terminating", "dead"}, spawned' = [spawned EXCEPT ![i].state = s],
         UNCHANGED <<processes, pool, replaced>>
  PROVE  /\ spawned' \in Seq(OsProcess)
         /\ Len(spawned') = Len(spawned)
         /\ spawned' # <<>>
         /\ PoolEntries'
         /\ AliveInPool'
<1> DEFINE o == [spawned[i] EXCEPT !.state = s]
<1>1. /\ spawned \in Seq(OsProcess) /\ Len(spawned) \in Nat /\ spawned[i] \in OsProcess
      /\ pool \in [Name -> 0 .. Len(spawned)]
  BY DEF PoolInv, HostType
<1>2. o \in OsProcess /\ o.name = spawned[i].name
  BY <1>1 DEF OsProcess
<1>3. spawned' = [spawned EXCEPT ![i] = o]
  OBVIOUS
<1> HIDE DEF o
<1>4. /\ spawned' \in Seq(OsProcess) /\ Len(spawned') = Len(spawned)
      /\ \A j \in 1 .. Len(spawned) : spawned'[j] = IF j = i THEN o ELSE spawned[j]
  <2>1. /\ [spawned EXCEPT ![i] = o] \in Seq(OsProcess)
        /\ Len([spawned EXCEPT ![i] = o]) = Len(spawned)
        /\ \A j \in 1 .. Len(spawned) :
             [spawned EXCEPT ![i] = o][j] = IF j = i THEN o ELSE spawned[j]
    BY <1>1, <1>2, ExceptSeq
  <2> QED BY <1>3, <2>1
<1>5. spawned' # <<>>
  BY <1>4
<1>6. \A j \in 1 .. Len(spawned) :
        /\ spawned'[j].name = spawned[j].name
        /\ spawned'[j].state # "dead" => spawned[j].state # "dead"
  BY <1>2, <1>4
<1>7. PoolEntries'
  <2> SUFFICES ASSUME NEW m \in Name, pool[m] # 0
               PROVE  spawned'[pool[m]].name = m /\ m \in ToSet(processes)
    BY DEF PoolEntries
  <2>1. pool[m] \in 1 .. Len(spawned)
    BY <1>1
  <2> QED BY <1>6, <2>1 DEF PoolInv, PoolEntries
<1>8. AliveInPool'
  <2> SUFFICES ASSUME NEW j \in 1 .. Len(spawned), spawned'[j].state # "dead"
               PROVE  pool[spawned'[j].name] = j \/ j \in replaced
    BY <1>4 DEF AliveInPool
  <2> QED BY <1>6 DEF PoolInv, AliveInPool
<1> QED BY <1>4, <1>5, <1>7, <1>8

-----------------------------------------------------------------------------
(* The invariant *)

LEMMA PoolStartProcesses == ASSUME PoolInv, StartProcesses PROVE PoolInv'
<1>1. /\ calling = "idle" /\ processes # <<>> /\ calling' = "start" /\ names' = processes
      /\ UNCHANGED <<processes, pool, spawned, failed, started, replaced>>
  BY DEF StartProcesses
<1>2. HostType'
  BY <1>1 DEF PoolInv, HostType
<1>3. Distinct(processes)' /\ PoolEntries' /\ AliveInPool'
  BY <1>1 DEF PoolInv, PoolEntries, AliveInPool
<1>4. Pending' /\ Started'
  BY <1>1 DEF PoolInv, Pending, Started
<1> QED BY <1>2, <1>3, <1>4 DEF PoolInv

\* The first pending name.
LEMMA FirstPending ==
  ASSUME PoolInv, calling \in {"start", "add"}
  PROVE  /\ names[1] \in Name /\ names[1] = Head(names) /\ names[1] \in ToSet(processes)
         /\ Tail(names) \in Seq(Name)
         /\ ToSet(names) = {names[1]} \cup ToSet(Tail(names))
<1>1. names \in Seq(Name) /\ names # <<>> /\ ToSet(names) \subseteq ToSet(processes)
  BY DEF PoolInv, HostType, Pending
<1> QED BY <1>1, Members, TailFacts, ToSetTail

LEMMA PoolStartNext == ASSUME PoolInv, StartNext PROVE PoolInv'
<1>1. PICK h \in Name : h = names[1] /\ h = Head(names) /\ h \in ToSet(processes)
  BY FirstPending DEF StartNext
<1>2. /\ calling = "start" /\ RunProcess(h) /\ names' = Tail(names)
      /\ failed' = failed \ {h} /\ replaced' = replaced \cup ({pool[h]} \ {0})
      /\ \/ Tail(names) = <<>> /\ calling' = "idle" /\ started' = TRUE
         \/ Tail(names) # <<>> /\ calling' = "start" /\ started' = started
      /\ UNCHANGED processes
  BY <1>1 DEF StartNext
<1>3. /\ spawned' \in Seq(OsProcess)
      /\ pool' \in [Name -> 0 .. Len(spawned')] /\ replaced' \subseteq 1 .. Len(spawned')
      /\ pool'[h] # 0 /\ \A m \in Name : m # h => pool'[m] = pool[m]
      /\ PoolEntries'
      /\ AliveInPool'
  BY <1>1, <1>2, RunKeeps
<1>4. Tail(names) \in Seq(Name) /\ ToSet(names) = {h} \cup ToSet(Tail(names))
      /\ ToSet(names) \subseteq ToSet(processes) /\ ToSet(processes) \subseteq Name
  BY <1>1, <1>2, FirstPending, Members DEF PoolInv, HostType, Pending
<1>5. HostType'
  BY <1>2, <1>3, <1>4 DEF PoolInv, HostType
<1>6. Pending'
  BY <1>2, <1>4 DEF Pending
<1>7. \A n \in ToSet(processes) : pool'[n] # 0 \/ n \in ToSet(Tail(names))
  <2> SUFFICES ASSUME NEW n \in ToSet(processes)
               PROVE  pool'[n] # 0 \/ n \in ToSet(Tail(names))
    OBVIOUS
  <2>1. pool[n] # 0 \/ n \in ToSet(names)
    BY <1>2 DEF PoolInv, Started
  <2> QED BY <1>3, <1>4, <2>1
<1>8. Started'
  <2>1. (calling = "start" => \A n \in ToSet(processes) : pool[n] # 0 \/ n \in ToSet(names))'
    BY <1>2, <1>7
  <2>2. ASSUME started', NEW n \in ToSet(processes) \ failed'
        PROVE  pool'[n] # 0
    <3>1. CASE Tail(names) = <<>>
      <4>1. ToSet(Tail(names)) = {}
        BY <3>1 DEF ToSet
      <4> QED BY <1>7, <2>2, <4>1
    <3>2. CASE Tail(names) # <<>>
      <4>1. n # h => pool[n] # 0
        BY <1>2, <2>2, <3>2 DEF PoolInv, Started
      <4> QED BY <1>3, <1>4, <2>2, <4>1
    <3> QED BY <3>1, <3>2
  <2> QED BY <1>2, <2>1, <2>2 DEF Started
<1>9. Distinct(processes)'
  BY <1>2 DEF PoolInv
<1> QED BY <1>3, <1>5, <1>6, <1>8, <1>9 DEF PoolInv

LEMMA PoolAddProcess == ASSUME PoolInv, NEW n \in Name, AddProcess(n) PROVE PoolInv'
<1>1. /\ calling = "idle" /\ pool[n] = 0 /\ n \notin ToSet(processes)
      /\ processes' = Append(processes, n) /\ calling' = "add" /\ names' = <<n>>
      /\ UNCHANGED <<pool, spawned, failed, started, replaced>>
  BY DEF AddProcess
<1>2. processes \in Seq(Name)
  BY DEF PoolInv, HostType
<1>3. /\ processes' \in Seq(Name) /\ Len(processes') = Len(processes) + 1
      /\ \A i \in 1 .. Len(processes) : processes'[i] = processes[i]
      /\ processes'[Len(processes) + 1] = n
      /\ Len(processes) \in Nat
  BY <1>1, <1>2, AppendFacts
<1>4. ToSet(processes') = ToSet(processes) \cup {n}
  BY <1>1, <1>2, ToSetAppend
<1>5. <<n>> \in Seq(Name) /\ <<n>> # <<>> /\ Tail(<<n>>) = <<>> /\ Len(<<n>>) = 1 /\ <<n>>[1] = n
  OBVIOUS
<1>6. ToSet(<<n>>) = {n}
  <2>1. ToSet(<<n>>) = {<<n>>[i] : i \in 1 .. Len(<<n>>)}
    BY <1>5, Members
  <2> QED BY <1>5, <2>1
<1>7. HostType'
  BY <1>1, <1>3, <1>5 DEF PoolInv, HostType
<1>8. Distinct(processes)'
  <2> SUFFICES ASSUME NEW i \in 1 .. Len(processes'), NEW j \in 1 .. Len(processes'),
                      processes'[i] = processes'[j]
               PROVE  i = j
    BY DEF Distinct
  <2>1. \A k \in 1 .. Len(processes) : processes[k] # n
    BY <1>1, <1>2, Members
  <2>2. /\ i \in 1 .. Len(processes) \/ i = Len(processes) + 1
        /\ j \in 1 .. Len(processes) \/ j = Len(processes) + 1
    BY <1>3
  <2> QED BY <1>3, <2>1, <2>2 DEF PoolInv, Distinct
<1>9. PoolEntries' /\ AliveInPool'
  BY <1>1, <1>4 DEF PoolInv, PoolEntries, AliveInPool
<1>10. Pending'
  BY <1>1, <1>4, <1>5, <1>6 DEF Pending
<1>11. Started'
  BY <1>1, <1>4, <1>6 DEF PoolInv, Started
<1> QED BY <1>7, <1>8, <1>9, <1>10, <1>11 DEF PoolInv

LEMMA PoolAddRun == ASSUME PoolInv, AddRun PROVE PoolInv'
<1>1. PICK h \in Name : h = names[1] /\ h \in ToSet(processes)
  BY FirstPending DEF AddRun
<1>2. /\ calling = "add" /\ RunProcess(h) /\ names' = <<>> /\ calling' = "idle"
      /\ failed' = failed \ {h} /\ UNCHANGED <<processes, started, replaced>>
  BY <1>1 DEF AddRun
<1>3. pool[h] = 0 /\ Tail(names) = <<>>
  BY <1>1, <1>2 DEF PoolInv, Pending
<1>4. /\ spawned' \in Seq(OsProcess)
      /\ pool' \in [Name -> 0 .. Len(spawned')] /\ replaced' \subseteq 1 .. Len(spawned')
      /\ pool'[h] # 0 /\ \A m \in Name : m # h => pool'[m] = pool[m]
      /\ PoolEntries'
      /\ AliveInPool'
  BY <1>1, <1>2, <1>3, RunKeeps
<1>5. ToSet(names) = {h} /\ ToSet(processes) \subseteq Name
  <2>1. ToSet(<<>>) = {}
    BY DEF ToSet
  <2> QED BY <1>1, <1>2, <1>3, <2>1, FirstPending, Members DEF PoolInv, HostType
<1>6. HostType'
  BY <1>2, <1>4 DEF PoolInv, HostType
<1>7. Distinct(processes)' /\ Pending'
  BY <1>2 DEF PoolInv, Pending
<1>8. Started'
  BY <1>2, <1>4, <1>5 DEF PoolInv, Started
<1> QED BY <1>4, <1>6, <1>7, <1>8 DEF PoolInv

LEMMA PoolRunFails == ASSUME PoolInv, RunFails PROVE PoolInv'
<1>1. /\ calling \in {"start", "add"} /\ calling' = "idle" /\ names' = <<>>
      /\ failed' = failed \cup {names[1]}
      /\ UNCHANGED <<processes, pool, spawned, started, replaced>>
  BY DEF RunFails
<1>2. names[1] \in Name /\ ToSet(names) = {names[1]} \cup ToSet(Tail(names))
  BY <1>1, FirstPending
<1>3. calling = "add" => ToSet(names) = {names[1]}
  <2>1. ToSet(<<>>) = {}
    BY DEF ToSet
  <2> QED BY <1>2, <2>1 DEF PoolInv, Pending
<1>4. HostType'
  BY <1>1, <1>2 DEF PoolInv, HostType
<1>5. Distinct(processes)' /\ PoolEntries' /\ AliveInPool' /\ Pending'
  BY <1>1 DEF PoolInv, PoolEntries, AliveInPool, Pending
<1>6. Started'
  BY <1>1, <1>3 DEF PoolInv, Started
<1> QED BY <1>4, <1>5, <1>6 DEF PoolInv

\* The dead process leaves both dictionaries.
LEMMA PoolEnds ==
  ASSUME PoolInv, NEW n \in Name, pool[n] # 0, spawned[pool[n]].state = "dead", Ends(n),
         calling \in {"idle", "stop"}, calling' = "idle",
         UNCHANGED <<spawned, failed, started, replaced>>, names' \in Seq(Name)
  PROVE  PoolInv'
<1>1. /\ processes' \in Seq(Name)
      /\ Distinct(processes)'
      /\ ToSet(processes') = ToSet(processes) \ {n}
      /\ pool' = [pool EXCEPT ![n] = 0]
      /\ pool' \in [Name -> 0 .. Len(spawned)]
      /\ PoolEntries'
      /\ AliveInPool'
  BY EndsKeeps
<1>2. HostType' /\ Pending'
  BY <1>1 DEF PoolInv, HostType, Pending
<1>3. Started'
  BY <1>1, Members DEF PoolInv, Started, HostType
<1> QED BY <1>1, <1>2, <1>3 DEF PoolInv

LEMMA PoolStop == ASSUME PoolInv, NEW n \in Name, StopProcess(n) PROVE PoolInv'
<1>1. calling = "idle" /\ pool[n] # 0 /\ UNCHANGED <<failed, started, replaced>>
  BY DEF StopProcess
<1>2. CASE spawned[pool[n]].state = "dead"
  <2>1. Ends(n) /\ UNCHANGED <<spawned, calling, names>>
    BY <1>2 DEF StopProcess
  <2> QED BY <1>1, <1>2, <2>1, PoolEnds DEF PoolInv, HostType
<1>3. CASE spawned[pool[n]].state # "dead"
  <2> DEFINE k == pool[n]
  <2>1. /\ spawned' = [spawned EXCEPT ![k].state = "terminating"]
        /\ calling' = "stop" /\ names' = <<n>> /\ UNCHANGED <<pool, processes>>
    BY <1>3 DEF StopProcess
  <2>2. k \in 1 .. Len(spawned)
    BY <1>1 DEF PoolInv, HostType
  <2>3. /\ spawned' \in Seq(OsProcess) /\ Len(spawned') = Len(spawned)
        /\ PoolEntries' /\ AliveInPool'
    <3> HIDE DEF k
    <3>1. spawned[k].state # "dead"
      BY <1>3 DEF k
    <3> QED BY <1>1, <2>1, <2>2, <3>1, StateKeeps
  <2>4. <<n>> \in Seq(Name) /\ <<n>> # <<>> /\ <<n>>[1] = n
    OBVIOUS
  <2>5. HostType'
    BY <1>1, <2>1, <2>3, <2>4 DEF PoolInv, HostType
  <2>6. Pending'
    BY <1>1, <2>1, <2>4 DEF Pending
  <2>7. Started' /\ Distinct(processes)'
    BY <1>1, <2>1 DEF PoolInv, Started
  <2> QED BY <2>3, <2>5, <2>6, <2>7 DEF PoolInv
<1> QED BY <1>2, <1>3

LEMMA PoolStopJoined == ASSUME PoolInv, StopJoined PROVE PoolInv'
<1>1. /\ calling = "stop" /\ calling' = "idle" /\ names' = <<>> /\ Ends(names[1])
      /\ spawned[pool[names[1]]].state = "dead" /\ UNCHANGED <<spawned, failed, started, replaced>>
  BY DEF StopJoined
<1>2. names \in Seq(Name) /\ names # <<>> /\ pool[names[1]] # 0
  BY <1>1 DEF PoolInv, HostType, Pending
<1>3. names[1] \in Name
  BY <1>2, Members
<1>4. names' \in Seq(Name)
  BY <1>1
<1> QED BY <1>1, <1>2, <1>3, <1>4, PoolEnds

LEMMA PoolDies == ASSUME PoolInv, NEW i \in 1 .. Len(spawned), Dies(i) PROVE PoolInv'
<1>1. /\ spawned[i].state # "dead" /\ spawned' = [spawned EXCEPT ![i].state = "dead"]
      /\ UNCHANGED <<processes, pool, calling, names, failed, started, replaced>>
  BY DEF Dies
<1>2. /\ spawned' \in Seq(OsProcess) /\ Len(spawned') = Len(spawned)
      /\ PoolEntries' /\ AliveInPool'
  BY <1>1, StateKeeps
<1>3. HostType'
  BY <1>1, <1>2 DEF PoolInv, HostType
<1>4. Distinct(processes)' /\ Pending' /\ Started'
  BY <1>1 DEF PoolInv, Pending, Started
<1> QED BY <1>2, <1>3, <1>4 DEF PoolInv

LEMMA PoolQuiet == ASSUME PoolInv, UNCHANGED processVars PROVE PoolInv'
<1>1. UNCHANGED <<processes, pool, spawned, calling, names, failed, started, replaced>>
  BY DEF processVars
<1>2. HostType' /\ Distinct(processes)' /\ PoolEntries'
  BY <1>1 DEF PoolInv, HostType, PoolEntries
<1>3. AliveInPool' /\ Pending' /\ Started'
  BY <1>1 DEF PoolInv, AliveInPool, Pending, Started
<1> QED BY <1>2, <1>3 DEF PoolInv

LEMMA PoolNext == PoolInv /\ [Next]_vars => PoolInv'
<1> SUFFICES ASSUME PoolInv, [Next]_vars PROVE PoolInv'
  OBVIOUS
<1>1. CASE StartProcesses \/ StartNext \/ AddRun \/ RunFails \/ StopJoined
  BY <1>1, PoolStartProcesses, PoolStartNext, PoolAddRun, PoolRunFails, PoolStopJoined
<1>2. CASE \E n \in Name : AddProcess(n) \/ StopProcess(n)
  BY <1>2, PoolAddProcess, PoolStop
<1>3. CASE \E i \in 1 .. Len(spawned) : Dies(i)
  BY <1>3, PoolDies
<1>4. CASE Check \/ RunStops \/ \E q \in Queue : Traffic(q)
  <2>1. UNCHANGED processVars
    BY <1>4 DEF Check, CheckBegin, CheckNext, CheckRead, CheckEnd, RunStops, Traffic
  <2> QED BY <2>1, PoolQuiet
<1>5. CASE UNCHANGED vars
  BY <1>5, PoolQuiet DEF vars
<1> QED BY <1>1, <1>2, <1>3, <1>4, <1>5 DEF Next, Host

LEMMA SpecPool == Spec => []PoolInv
BY PoolInit, PoolNext, PTL DEF Spec

\* For any configuration and any order of starting, starting again, adding,
\* stopping, failing and dying: whatever runs is in the pool, where stop_process
\* can reach it, or a start_processes put another in its place there.
THEOREM NoneEscapes == Spec => []AliveInPool
<1>1. PoolInv => AliveInPool
  BY DEF PoolInv
<1> QED BY <1>1, SpecPool, PTL

\* What is in the pool is registered; once a start_processes has come to its end,
\* what is registered between two calls is in the pool, unless its last start
\* raised.
THEOREM DictionariesAgree == Spec => []PoolRegistered
<1>1. PoolInv => PoolRegistered
  BY DEF PoolInv, PoolEntries, Started, PoolRegistered
<1> QED BY <1>1, SpecPool, PTL

-----------------------------------------------------------------------------
(* Types *)

ViewType == CheckType /\ stayed \subseteq Name

LEMMA ViewInit == Init => ViewType
<1> SUFFICES ASSUME Init PROVE ViewType
  OBVIOUS
<1>1. level = [q \in Queue |-> 0]
  BY DEF Init
<1>2. \A q \in Queue : MaxSize[q] \in Nat
  BY LifecycleAssumption
<1>3. level \in [Queue -> Nat] /\ \A q \in Queue : level[q] <= MaxSize[q]
  BY <1>1, <1>2
<1>4. /\ checking = "sleep" /\ size = 0 /\ visited = {} /\ queues = <<>>
      /\ overflow = FALSE /\ since = {} /\ stayed = {}
  BY DEF Init
<1>5. <<>> \in Seq(Queue)
  OBVIOUS
<1> QED BY <1>3, <1>4, <1>5 DEF ViewType, CheckType

\* The calls of the host program leave the check alone; a name they delete is
\* no longer one that stayed.
LEMMA ViewOnHost ==
  ASSUME ViewType, UNCHANGED checkVars, stayed' \subseteq stayed
  PROVE  ViewType'
<1>1. UNCHANGED <<checking, size, visited, queues, overflow, level, since>>
  BY DEF checkVars
<1> QED BY <1>1 DEF ViewType, CheckType

LEMMA ViewOver ==
  ASSUME ViewType, CheckOver, level' = level, checking' \in {"sleep", "crashed"}
  PROVE  ViewType'
<1>1. /\ size' = 0 /\ visited' = {} /\ queues' = <<>> /\ overflow' = FALSE
      /\ since' = {} /\ stayed' = {}
  BY DEF CheckOver
<1>2. <<>> \in Seq(Queue)
  OBVIOUS
<1> QED BY <1>1, <1>2 DEF ViewType, CheckType

LEMMA ViewOnCheck == ASSUME ViewType, HostType, Check PROVE ViewType'
<1>1. CASE CheckBegin
  <2>1. ToSet(processes) \subseteq Name /\ Len(processes) \in Nat
    BY Members, LenProperties DEF HostType
  <2> QED BY <1>1, <2>1 DEF CheckBegin, ViewType, CheckType
<1>2. CASE CheckNext
  <2>1. CASE checking' = "crashed" /\ CheckOver
    <3>1. level' = level
      BY <1>2 DEF CheckNext
    <3> QED BY <2>1, <3>1, ViewOver
  <2>2. CASE checking' = "read" /\ \E i \in Unvisited :
               /\ visited' = visited \cup {processes[i]} /\ queues' = Uses[processes[i]]
               /\ UNCHANGED <<size, overflow, since, stayed>>
    <3>1. PICK i \in 1 .. Len(processes) :
            /\ checking' = "read" /\ visited' = visited \cup {processes[i]}
            /\ queues' = Uses[processes[i]]
            /\ UNCHANGED <<size, overflow, since, stayed>>
      BY <2>2 DEF Unvisited
    <3>2. processes[i] \in Name
      BY DEF HostType
    <3>3. Uses[processes[i]] \in Seq(Queue)
      BY <3>2, LifecycleAssumption
    <3>4. UNCHANGED <<size, overflow, level, since, stayed>>
      BY <1>2, <3>1 DEF CheckNext
    <3> QED BY <3>1, <3>2, <3>3, <3>4 DEF ViewType, CheckType
  <2> QED BY <1>2, <2>1, <2>2 DEF CheckNext
<1>3. CASE CheckRead
  <2>1. UNCHANGED <<size, visited, level, since, stayed>>
    BY <1>3 DEF CheckRead
  <2>2. CASE queues = <<>>
    BY <1>3, <2>1, <2>2 DEF CheckRead, ViewType, CheckType
  <2>3. CASE queues # <<>>
    <3>1. overflow' \in BOOLEAN
      BY <1>3, <2>3 DEF CheckRead
    <3>2. queues' = Tail(queues) /\ checking' = checking
      BY <1>3, <2>3 DEF CheckRead
    <3>3. Tail(queues) \in Seq(Queue)
      BY <2>3, TailFacts DEF ViewType, CheckType
    <3> QED BY <2>1, <3>1, <3>2, <3>3 DEF ViewType, CheckType
  <2> QED BY <2>2, <2>3
<1>4. CASE CheckEnd
  BY <1>4, ViewOver DEF CheckEnd
<1> QED BY <1>1, <1>2, <1>3, <1>4 DEF Check

LEMMA ViewOnTraffic == ASSUME ViewType, NEW q \in Queue, Traffic(q) PROVE ViewType'
<1>1. PICK k \in Levels[q] : level' = [level EXCEPT ![q] = k]
  BY DEF Traffic
<1>2. k \in Nat /\ k <= MaxSize[q]
  <2>1. k \in 0 .. MaxSize[q] /\ MaxSize[q] \in Nat
    BY LifecycleAssumption
  <2> QED BY <2>1
<1>3. level' \in [Queue -> Nat] /\ \A r \in Queue : level'[r] <= MaxSize[r]
  BY <1>1, <1>2 DEF ViewType, CheckType
<1>4. since' \subseteq since /\ UNCHANGED <<checking, size, visited, queues, overflow, stayed>>
  BY DEF Traffic
<1> QED BY <1>3, <1>4 DEF ViewType, CheckType

LEMMA ViewNext == ViewType /\ HostType /\ [Next]_vars => ViewType'
<1> SUFFICES ASSUME ViewType, HostType, [Next]_vars PROVE ViewType'
  OBVIOUS
<1>1. CASE \/ StartProcesses \/ StartNext \/ AddRun \/ RunFails
           \/ \E n \in Name : AddProcess(n)
           \/ \E i \in 1 .. Len(spawned) : Dies(i)
           \/ UNCHANGED vars
  <2>1. UNCHANGED <<checkVars, stayed>>
    BY <1>1 DEF StartProcesses, StartNext, AddRun, RunFails, AddProcess, Dies, vars
  <2> QED BY <2>1, ViewOnHost
<1>2. CASE StopJoined \/ \E n \in Name : StopProcess(n)
  <2>1. UNCHANGED checkVars /\ stayed' \subseteq stayed
    BY <1>2 DEF StopJoined, StopProcess, Ends
  <2> QED BY <2>1, ViewOnHost
<1>3. CASE Check
  BY <1>3, ViewOnCheck
<1>4. CASE RunStops
  BY <1>4 DEF RunStops, ViewType, CheckType
<1>5. CASE \E q \in Queue : Traffic(q)
  BY <1>5, ViewOnTraffic
<1> QED BY <1>1, <1>2, <1>3, <1>4, <1>5 DEF Next, Host

\* Every variable keeps its type, and no queue holds more than its maxsize.
THEOREM TypeCorrect == Spec => []TypeOK
<1>1. Init => PoolInv /\ ViewType
  BY PoolInit, ViewInit
<1>2. (PoolInv /\ ViewType) /\ [Next]_vars => (PoolInv /\ ViewType)'
  BY PoolNext, ViewNext DEF PoolInv
<1>3. PoolInv /\ ViewType => TypeOK
  BY TypeParts DEF PoolInv, ViewType
<1> QED BY <1>1, <1>2, <1>3, PTL DEF Spec

-----------------------------------------------------------------------------
(* The check for overflow *)

Known(q) == KnownSize[q] <= MaxSize[q]

\* Noticed, or among the queues the check is about to read.
Noticed(q) == overflow \/ (checking = "read" /\ q \in ToSet(queues))

\* The inductive invariant: a queue full since the check began is full, a name
\* registered since then is registered, and of a visited one every such queue is
\* noticed.
CheckInv ==
  /\ \A q \in since : q \in Queue /\ Full(q)
  /\ stayed \subseteq ToSet(processes)
  /\ checking \in {"next", "read"} =>
       \A n \in stayed \cap visited : \A q \in ToSet(Uses[n]) \cap since : Known(q) => Noticed(q)

LEMMA CheckInit == Init => CheckInv
BY DEF Init, CheckInv

LEMMA CheckOnHost ==
  ASSUME CheckInv, UNCHANGED checkVars, stayed' \subseteq stayed, stayed' \subseteq ToSet(processes')
  PROVE  CheckInv'
<1>1. UNCHANGED <<checking, size, visited, queues, overflow, level, since>>
  BY DEF checkVars
<1> QED BY <1>1 DEF CheckInv, Full, Noticed

\* A queue that is full and whose size is known is found nearly full.
LEMMA FullIsNearlyFull ==
  ASSUME NEW q \in Queue, Full(q), Known(q)
  PROVE  NearlyFull(q)
<1>1. MaxSize[q] \in Nat /\ KnownSize[q] \in Nat
  BY LifecycleAssumption
<1>2. \A k \in Nat, m \in Nat : k <= m => k - m <= k \div 10
  OBVIOUS
<1> QED BY <1>1, <1>2 DEF Full, Known, NearlyFull

LEMMA CheckOnCheck == ASSUME CheckInv, ViewType, HostType, Check PROVE CheckInv'
<1>0. UNCHANGED processes
  BY DEF Check, CheckBegin, CheckNext, CheckRead, CheckEnd, processVars
<1>1. CASE CheckBegin
  BY <1>0, <1>1 DEF CheckBegin, CheckInv, Full
<1>2. CASE CheckNext
  <2>3. CASE checking' = "crashed"
    <3>1. since' = {} /\ stayed' = {}
      BY <1>2, <2>3 DEF CheckNext, CheckOver
    <3> QED BY <2>3, <3>1 DEF CheckInv
  <2>4. CASE checking' # "crashed"
    <3>0. checking = "next" /\ UNCHANGED <<overflow, level, since, stayed>>
      BY <1>2, <2>4 DEF CheckNext
    <3>5. (\A q \in since : q \in Queue /\ Full(q))' /\ stayed' \subseteq ToSet(processes')
      BY <1>0, <3>0 DEF CheckInv, Full
    <3>1. PICK c \in Name :
            checking' = "read" /\ visited' = visited \cup {c} /\ queues' = Uses[c]
      <4>1. PICK i \in 1 .. Len(processes) :
              /\ checking' = "read" /\ visited' = visited \cup {processes[i]}
              /\ queues' = Uses[processes[i]]
        BY <1>2, <2>4 DEF CheckNext, Unvisited
      <4>2. processes[i] \in Name
        BY DEF HostType
      <4> QED BY <4>1, <4>2
    <3>2. ASSUME NEW n \in stayed, n \in visited \cup {c},
                 NEW q \in ToSet(Uses[n]) \cap since, Known(q)
          PROVE  overflow \/ q \in ToSet(Uses[c])
      BY <3>0, <3>2 DEF CheckInv, Noticed
    <3> QED BY <3>0, <3>5, <3>1, <3>2 DEF CheckInv, Noticed, Known
  <2> QED BY <2>3, <2>4
<1>3. CASE CheckRead
  <2>1. checking = "read" /\ UNCHANGED <<visited, level, since, stayed>>
    BY <1>3 DEF CheckRead
  <2>2. (\A q \in since : q \in Queue /\ Full(q))' /\ stayed' \subseteq ToSet(processes')
    BY <1>0, <2>1 DEF CheckInv, Full
  <2>3. ASSUME NEW n \in stayed \cap visited, NEW q \in ToSet(Uses[n]) \cap since, Known(q)
        PROVE  Noticed(q)'
    <3>1. Noticed(q) /\ q \in Queue /\ Full(q)
      BY <2>1, <2>3 DEF CheckInv
    <3>2. CASE queues = <<>>
      <4>1. ToSet(queues) = {}
        BY <3>2 DEF ToSet
      <4>2. overflow' = overflow
        BY <1>3, <3>2 DEF CheckRead
      <4> QED BY <3>1, <4>1, <4>2 DEF Noticed
    <3>3. CASE queues # <<>>
      <4>1. /\ overflow' = (overflow \/ NearlyFull(Head(queues)))
            /\ queues' = Tail(queues) /\ checking' = checking
        BY <1>3, <3>3 DEF CheckRead
      <4>2. ToSet(queues) = {Head(queues)} \cup ToSet(Tail(queues))
        BY <3>3, ToSetTail DEF ViewType, CheckType
      <4>3. CASE overflow
        BY <4>1, <4>3 DEF Noticed
      <4>4. CASE q = Head(queues)
        BY <2>3, <3>1, <4>1, <4>4, FullIsNearlyFull DEF Noticed
      <4>5. CASE q \in ToSet(Tail(queues))
        BY <2>1, <4>1, <4>5 DEF Noticed
      <4> QED BY <3>1, <4>2, <4>3, <4>4, <4>5 DEF Noticed
    <3> QED BY <3>2, <3>3
  <2> QED BY <2>1, <2>2, <2>3 DEF CheckInv, Known
<1>4. CASE CheckEnd
  BY <1>4 DEF CheckEnd, CheckOver, CheckInv
<1> QED BY <1>1, <1>2, <1>3, <1>4 DEF Check

LEMMA CheckOnTraffic == ASSUME CheckInv, ViewType, NEW q \in Queue, Traffic(q) PROVE CheckInv'
<1>1. PICK k : level' = [level EXCEPT ![q] = k]
  BY DEF Traffic
<1>2. /\ since' \subseteq since
      /\ q \in since' => level'[q] = MaxSize[q]
      /\ UNCHANGED <<processes, checking, visited, queues, overflow, stayed>>
  BY DEF Traffic, processVars
<1>3. \A r \in Queue : r # q => level'[r] = level[r]
  BY <1>1 DEF ViewType, CheckType
<1>4. (\A r \in since : r \in Queue /\ Full(r))'
  BY <1>2, <1>3 DEF CheckInv, Full
<1> QED BY <1>2, <1>4 DEF CheckInv, Noticed, Known

LEMMA CheckStep == PoolInv /\ ViewType /\ CheckInv /\ [Next]_vars => CheckInv'
<1> SUFFICES ASSUME PoolInv, ViewType, CheckInv, [Next]_vars PROVE CheckInv'
  OBVIOUS
<1>0. HostType
  BY DEF PoolInv
<1>1. CASE \/ StartProcesses \/ StartNext \/ AddRun \/ RunFails
           \/ \E i \in 1 .. Len(spawned) : Dies(i)
           \/ UNCHANGED vars
  <2>1. UNCHANGED <<checkVars, stayed, processes>>
    BY <1>1 DEF StartProcesses, StartNext, AddRun, RunFails, Dies, vars, processVars
  <2> QED BY <2>1, CheckOnHost DEF CheckInv
<1>2. CASE \E n \in Name : AddProcess(n)
  <2>1. PICK n \in Name :
          UNCHANGED <<checkVars, stayed>> /\ processes' = Append(processes, n)
    BY <1>2 DEF AddProcess
  <2>2. ToSet(processes') = ToSet(processes) \cup {n}
    BY <1>0, <2>1, ToSetAppend DEF HostType
  <2> QED BY <2>1, <2>2, CheckOnHost DEF CheckInv
<1>3. CASE StopJoined \/ \E n \in Name : StopProcess(n)
  <2>1. UNCHANGED checkVars
    BY <1>3 DEF StopJoined, StopProcess
  <2>2. CASE UNCHANGED <<processes, stayed>>
    BY <2>1, <2>2, CheckOnHost DEF CheckInv
  <2>3. CASE \E n \in Name : /\ pool[n] # 0 /\ spawned[pool[n]].state = "dead"
                             /\ Ends(n) /\ UNCHANGED <<spawned, replaced>>
    <3>1. PICK n \in Name : /\ pool[n] # 0 /\ spawned[pool[n]].state = "dead"
                            /\ Ends(n) /\ UNCHANGED <<spawned, replaced>>
      BY <2>3
    <3>2. ToSet(processes') = ToSet(processes) \ {n}
      BY <3>1, EndsKeeps
    <3>3. stayed' = stayed \ {n}
      BY <3>1 DEF Ends
    <3> QED BY <2>1, <3>2, <3>3, CheckOnHost DEF CheckInv
  <2>4. CASE StopJoined
    <3>1. names \in Seq(Name) /\ names # <<>> /\ pool[names[1]] # 0
      BY <2>4 DEF StopJoined, PoolInv, HostType, Pending
    <3>2. names[1] \in Name
      BY <3>1, Members
    <3> QED BY <2>3, <2>4, <3>1, <3>2 DEF StopJoined
  <2>5. CASE \E n \in Name : StopProcess(n)
    BY <2>2, <2>3, <2>5 DEF StopProcess
  <2> QED BY <1>3, <2>4, <2>5
<1>4. CASE Check
  BY <1>0, <1>4, CheckOnCheck
<1>5. CASE RunStops
  BY <1>5 DEF RunStops, CheckInv, Full, processVars
<1>6. CASE \E q \in Queue : Traffic(q)
  BY <1>6, CheckOnTraffic
<1> QED BY <1>1, <1>2, <1>3, <1>4, <1>5, <1>6 DEF Next, Host

\* Whatever sizes and wiring, and whatever the processes put and get meanwhile: a
\* check that comes to its end over the dictionary it began with has noticed
\* every queue of its processes that was full all along.
THEOREM NoticesFullQueues == Spec => []FullQueueReported
<1>1. Init => PoolInv /\ ViewType /\ CheckInv
  BY PoolInit, ViewInit, CheckInit
<1>2. (PoolInv /\ ViewType /\ CheckInv) /\ [Next]_vars => (PoolInv /\ ViewType /\ CheckInv)'
  BY PoolNext, ViewNext, CheckStep DEF PoolInv
<1>3. PoolInv /\ CheckInv => FullQueueReported
  <2> SUFFICES ASSUME PoolInv, CheckInv, Complete, Steady, NEW n \in stayed,
                      NEW q \in ToSet(Uses[n]) \cap since, KnownSize[q] <= MaxSize[q]
               PROVE  overflow
    BY DEF FullQueueReported
  <2>1. PICK i \in 1 .. Len(processes) : processes[i] = n
    BY Members DEF PoolInv, HostType, CheckInv
  <2>2. n \in visited
    BY <2>1 DEF Complete, Unvisited
  <2> QED BY <2>2 DEF CheckInv, Complete, Known, Noticed
<1> QED BY <1>1, <1>2, <1>3, PTL DEF Spec
=============================================================================
