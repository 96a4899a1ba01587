------------------------- MODULE LossyChannelProofs -------------------------
(* LossyChannel keeps order and loses nothing but what it owns up to.      *)
EXTENDS LossyChannel, SequenceFacts

-----------------------------------------------------------------------------
(* Sequences of numbers *)

Holds(s, m) == \E i \in 1 .. Len(s) : s[i] = m

\* Chain(d, w): d followed by w is increasing.
Chain(d, w) ==
  /\ Increasing(d)
  /\ Increasing(w)
  /\ \A i \in 1 .. Len(d), j \in 1 .. Len(w) : d[i] < w[j]

\* What an extended sequence holds.
LEMMA HoldsAppend ==
  ASSUME NEW S, NEW s \in Seq(S), NEW e \in S
  PROVE  /\ Holds(Append(s, e), e)
         /\ \A m : Holds(s, m) => Holds(Append(s, e), m)
<1>1. /\ Len(s) \in Nat /\ Len(Append(s, e)) = Len(s) + 1
      /\ \A i \in 1 .. Len(s) : Append(s, e)[i] = s[i]
      /\ Append(s, e)[Len(s) + 1] = e
  BY AppendFacts
<1>2. Len(s) + 1 \in 1 .. Len(Append(s, e)) /\ 1 .. Len(s) \subseteq 1 .. Len(Append(s, e))
  BY <1>1
<1> QED BY <1>1, <1>2 DEF Holds

\* A removal takes the element removed and no other.
LEMMA HoldsRemove ==
  ASSUME NEW S, NEW s \in Seq(S), NEW r \in 1 .. Len(s), NEW m, Holds(s, m)
  PROVE  m = s[r] \/ Holds(RemoveAt(s, r), m)
<1> DEFINE t == RemoveAt(s, r)
<1>1. /\ Len(s) \in Nat /\ Len(t) = Len(s) - 1
      /\ \A j \in 1 .. (Len(s) - 1) : t[j] = IF j < r THEN s[j] ELSE s[j + 1]
  BY RemoveFacts
<1> HIDE DEF t
<1>2. PICK i \in 1 .. Len(s) : s[i] = m
  BY DEF Holds
<1>3. CASE i = r
  BY <1>2, <1>3
<1>4. CASE i < r
  <2>1. i \in 1 .. Len(t) /\ t[i] = m
    BY <1>1, <1>2, <1>4
  <2>2. Holds(t, m)
    BY <2>1 DEF Holds
  <2> QED BY <2>2 DEF t
<1>5. CASE r < i
  <2>1. i - 1 \in 1 .. Len(t) /\ ~(i - 1 < r) /\ i - 1 + 1 = i
    BY <1>1, <1>2, <1>5
  <2>2. t[i - 1] = m
    BY <1>1, <1>2, <2>1
  <2>3. Holds(t, m)
    BY <2>1, <2>2 DEF Holds
  <2> QED BY <2>3 DEF t
<1>6. i \in Nat /\ r \in Nat
  BY <1>1
<1> QED BY <1>3, <1>4, <1>5, <1>6

\* A number above all of an increasing sequence may be appended to it.
LEMMA IncreasingAppend ==
  ASSUME NEW s \in Seq(Nat), NEW m \in Nat, Increasing(s),
         \A i \in 1 .. Len(s) : s[i] < m
  PROVE  Increasing(Append(s, m))
<1> DEFINE t == Append(s, m)
<1>1. /\ Len(s) \in Nat /\ Len(t) = Len(s) + 1
      /\ \A i \in 1 .. Len(s) : t[i] = s[i]
      /\ t[Len(s) + 1] = m
  BY AppendFacts
<1> HIDE DEF t
<1>2. ASSUME NEW i \in 1 .. Len(t), NEW j \in 1 .. Len(t), i < j
      PROVE  t[i] < t[j]
  <2>1. i \in 1 .. Len(s) /\ (j \in 1 .. Len(s) \/ j = Len(s) + 1)
    BY <1>1, <1>2
  <2>2. CASE j \in 1 .. Len(s)
    <3>1. s[i] < s[j]
      BY <1>2, <2>1, <2>2 DEF Increasing
    <3> QED BY <1>1, <2>1, <2>2, <3>1
  <2>3. CASE j = Len(s) + 1
    <3>1. t[i] = s[i] /\ t[j] = m
      BY <1>1, <2>1, <2>3
    <3> QED BY <2>1, <3>1
  <2> QED BY <2>1, <2>2, <2>3
<1>3. Increasing(t)
  BY <1>2 DEF Increasing
<1> QED BY <1>3 DEF t

\* An increasing sequence stays increasing when an element leaves it.
LEMMA IncreasingRemove ==
  ASSUME NEW s \in Seq(Nat), NEW r \in 1 .. Len(s), Increasing(s)
  PROVE  Increasing(RemoveAt(s, r))
<1> DEFINE t == RemoveAt(s, r)
<1>1. /\ Len(s) \in Nat /\ Len(t) = Len(s) - 1
      /\ \A j \in 1 .. (Len(s) - 1) : t[j] = IF j < r THEN s[j] ELSE s[j + 1]
  BY RemoveFacts
<1> HIDE DEF t
<1>2. ASSUME NEW j \in 1 .. Len(t), NEW k \in 1 .. Len(t), j < k
      PROVE  t[j] < t[k]
  <2> DEFINE j2 == IF j < r THEN j ELSE j + 1
             k2 == IF k < r THEN k ELSE k + 1
  <2>1. t[j] = s[j2] /\ t[k] = s[k2]
    BY <1>1
  <2>2. j2 \in 1 .. Len(s) /\ k2 \in 1 .. Len(s)
    BY <1>1
  <2>3. j2 < k2
    BY <1>2
  <2> HIDE DEF j2, k2
  <2> QED BY <2>1, <2>2, <2>3 DEF Increasing
<1>3. Increasing(t)
  BY <1>2 DEF Increasing
<1> QED BY <1>3 DEF t

\* The newest message goes behind all others;
LEMMA ChainAccept ==
  ASSUME NEW d \in Seq(Nat), NEW w \in Seq(Nat), NEW m \in Nat, Chain(d, w),
         \A i \in 1 .. Len(d) : d[i] < m,
         \A i \in 1 .. Len(w) : w[i] < m
  PROVE  Chain(d, Append(w, m))
<1>1. Increasing(Append(w, m))
  BY IncreasingAppend DEF Chain
<1>2. \A i \in 1 .. Len(d), j \in 1 .. Len(Append(w, m)) : d[i] < Append(w, m)[j]
  BY AppendFacts DEF Chain
<1> QED BY <1>1, <1>2 DEF Chain

\* one that is removed leaves the order of the others;
LEMMA ChainRemove ==
  ASSUME NEW d \in Seq(Nat), NEW w \in Seq(Nat), NEW r \in 1 .. Len(w), Chain(d, w)
  PROVE  Chain(d, RemoveAt(w, r))
<1> DEFINE t == RemoveAt(w, r)
<1>1. /\ Len(t) = Len(w) - 1
      /\ \A j \in 1 .. Len(t) : t[j] = IF j < r THEN w[j] ELSE w[j + 1]
  BY RemoveFacts
<1>2. Increasing(t)
  BY IncreasingRemove DEF Chain
<1> HIDE DEF t
<1>3. ASSUME NEW i \in 1 .. Len(d), NEW j \in 1 .. Len(t)
      PROVE  d[i] < t[j]
  <2>1. PICK k \in 1 .. Len(w) : t[j] = w[k]
    BY <1>1
  <2> QED BY <2>1 DEF Chain
<1>4. Chain(d, t)
  BY <1>2, <1>3 DEF Chain
<1> QED BY <1>4 DEF t

\* and the one that is sent next precedes all that wait behind it.
LEMMA ChainDeliver ==
  ASSUME NEW d \in Seq(Nat), NEW w \in Seq(Nat), w # <<>>, Chain(d, w)
  PROVE  Chain(Append(d, Head(w)), Tail(w))
<1>1. /\ Head(w) \in Nat /\ Head(w) = w[1] /\ Len(w) \in Nat \ {0}
      /\ Tail(w) \in Seq(Nat) /\ Len(Tail(w)) = Len(w) - 1
      /\ \A i \in 1 .. (Len(w) - 1) : Tail(w)[i] = w[i + 1]
  BY TailFacts
<1>2. Increasing(Append(d, Head(w)))
  BY <1>1, IncreasingAppend DEF Chain
<1>3. Increasing(Tail(w)) /\ \A j \in 1 .. Len(Tail(w)) : w[1] < Tail(w)[j]
  BY <1>1 DEF Chain, Increasing
<1>4. \A i \in 1 .. Len(d), j \in 1 .. Len(Tail(w)) : d[i] < Tail(w)[j]
  BY <1>1 DEF Chain
<1>5. ASSUME NEW i \in 1 .. Len(Append(d, Head(w))), NEW j \in 1 .. Len(Tail(w))
      PROVE  Append(d, Head(w))[i] < Tail(w)[j]
  <2>1. i = Len(d) + 1 \/ i \in 1 .. Len(d)
    BY <1>1, AppendFacts
  <2>2. CASE i = Len(d) + 1
    BY <1>1, <1>3, <2>2, AppendFacts
  <2>3. CASE i \in 1 .. Len(d)
    BY <1>1, <1>4, <2>3, AppendFacts
  <2> QED BY <2>1, <2>2, <2>3
<1> QED BY <1>2, <1>3, <1>5 DEF Chain

-----------------------------------------------------------------------------
(* The invariant, of a state with n messages accepted *)

Typed(n, w, d, l) ==
  /\ n \in Nat
  /\ w \in Seq(1 .. n)
  /\ d \in Seq(1 .. n)
  /\ l \in Seq(0 .. n)

Kept(n, w, d, l) == \A m \in 1 .. n : Holds(d, m) \/ Holds(w, m) \/ Holds(l, m)

Good(n, w, d, l) == Typed(n, w, d, l) /\ Chain(d, w) /\ Kept(n, w, d, l)

Inv == Good(accepted, waiting, delivered, lost)

LEMMA InvGives == Inv => TypeOK /\ InOrder /\ Accounted
BY DEF Inv, Good, Typed, Chain, Kept, Holds, TypeOK, InOrder, Accounted

\* Numbers of messages are natural numbers.
LEMMA Numbers ==
  ASSUME NEW n, NEW w, NEW d, NEW l, Typed(n, w, d, l)
  PROVE  w \in Seq(Nat) /\ d \in Seq(Nat)
BY DEF Typed

LEMMA InitInv == Init => Inv
BY DEF Init, Inv, Good, Typed, Chain, Increasing, Kept, Holds

LEMMA GoodAccept ==
  ASSUME NEW n, NEW w, NEW d, NEW l, Good(n, w, d, l)
  PROVE  Good(n + 1, Append(w, n + 1), d, l)
<1>1. Typed(n, w, d, l) /\ n \in Nat /\ w \in Seq(Nat) /\ d \in Seq(Nat)
  BY Numbers DEF Good, Typed
<1>2. Typed(n + 1, Append(w, n + 1), d, l)
  <2>1. w \in Seq(1 .. n + 1) /\ n + 1 \in 1 .. n + 1
    BY <1>1 DEF Typed
  <2>2. Append(w, n + 1) \in Seq(1 .. n + 1)
    BY <2>1, AppendFacts
  <2>3. d \in Seq(1 .. n + 1) /\ l \in Seq(0 .. n + 1)
    BY <1>1 DEF Typed
  <2> QED BY <1>1, <2>2, <2>3 DEF Typed
<1>3. Chain(d, Append(w, n + 1))
  <2>0. n + 1 \in Nat /\ Chain(d, w)
    BY <1>1 DEF Good
  <2>1. \A i \in 1 .. Len(w) : w[i] < n + 1
    BY <1>1 DEF Typed
  <2>2. \A i \in 1 .. Len(d) : d[i] < n + 1
    BY <1>1 DEF Typed
  <2> QED BY <1>1, <2>0, <2>1, <2>2, ChainAccept
<1>4. Kept(n + 1, Append(w, n + 1), d, l)
  <2>1. Holds(Append(w, n + 1), n + 1) /\ \A m : Holds(w, m) => Holds(Append(w, n + 1), m)
    BY <1>1, HoldsAppend
  <2>2. \A m \in 1 .. n + 1 : m \in 1 .. n \/ m = n + 1
    BY <1>1
  <2> QED BY <2>1, <2>2 DEF Good, Kept
<1> QED BY <1>2, <1>3, <1>4 DEF Good

LEMMA GoodDeliver ==
  ASSUME NEW n, NEW w, NEW d, NEW l, Good(n, w, d, l), w # <<>>
  PROVE  Good(n, Tail(w), Append(d, Head(w)), l)
<1>1. Typed(n, w, d, l) /\ w \in Seq(Nat) /\ d \in Seq(Nat)
  BY Numbers DEF Good
<1>2. /\ w \in Seq(1 .. n) /\ d \in Seq(1 .. n)
      /\ Head(w) \in 1 .. n /\ Head(w) = w[1] /\ Tail(w) \in Seq(1 .. n)
      /\ 1 \in 1 .. Len(w)
  BY <1>1, TailFacts DEF Typed
<1>3. Typed(n, Tail(w), Append(d, Head(w)), l)
  BY <1>1, <1>2, AppendFacts DEF Typed
<1>4. Chain(Append(d, Head(w)), Tail(w))
  BY <1>1, ChainDeliver DEF Good
<1>5. \A m : Holds(w, m) => m = Head(w) \/ Holds(Tail(w), m)
  <2>1. Tail(w) = RemoveAt(w, 1)
    BY <1>2, TailRemovesFirst
  <2> QED BY <1>2, <2>1, HoldsRemove
<1>6. Kept(n, Tail(w), Append(d, Head(w)), l)
  BY <1>2, <1>5, HoldsAppend DEF Good, Kept
<1> QED BY <1>3, <1>4, <1>6 DEF Good

\* A message that moves from waiting to lost: it takes no place of another.
LEMMA GoodLose ==
  ASSUME NEW n, NEW w, NEW d, NEW l, Good(n, w, d, l), NEW r \in 1 .. Len(w),
         NEW l2 \in Seq(0 .. n), Holds(l2, w[r]),
         \A m \in 1 .. n : Holds(l, m) => Holds(l2, m)
  PROVE  Good(n, RemoveAt(w, r), d, l2)
<1>1. Typed(n, w, d, l) /\ w \in Seq(Nat) /\ d \in Seq(Nat) /\ w \in Seq(1 .. n)
  BY Numbers DEF Good, Typed
<1>2. RemoveAt(w, r) \in Seq(1 .. n)
  BY <1>1, RemoveFacts
<1>3. Typed(n, RemoveAt(w, r), d, l2)
  BY <1>1, <1>2 DEF Typed
<1>4. Chain(d, RemoveAt(w, r))
  BY <1>1, ChainRemove DEF Good
<1>5. Kept(n, RemoveAt(w, r), d, l2)
  BY <1>1, HoldsRemove DEF Good, Kept
<1> QED BY <1>3, <1>4, <1>5 DEF Good

LEMMA NextInv == Inv /\ [Next]_vars => Inv'
<1> SUFFICES ASSUME Inv, [Next]_vars
             PROVE  Inv'
  OBVIOUS
<1>1. CASE Accept
  BY <1>1, GoodAccept DEF Inv, Accept
<1>2. CASE Deliver
  BY <1>2, GoodDeliver DEF Inv, Deliver
<1>3. CASE Break
  <2>1. /\ accepted \in Nat /\ lost \in Seq(0 .. accepted) /\ 0 \in 0 .. accepted
    BY DEF Inv, Good, Typed
  <2>2. Append(lost, 0) \in Seq(0 .. accepted)
        /\ \A m : Holds(lost, m) => Holds(Append(lost, 0), m)
    BY <2>1, AppendFacts, HoldsAppend
  <2> QED BY <1>3, <2>2 DEF Inv, Good, Typed, Kept, Break
<1>4. CASE BreakUnderWay
  <2>1. /\ waiting \in Seq(1 .. accepted) /\ lost \in Seq(0 .. accepted)
        /\ accepted \in Nat /\ waiting # <<>>
    BY <1>4 DEF Inv, Good, Typed, BreakUnderWay
  <2>2. /\ Head(waiting) \in 1 .. accepted /\ Head(waiting) = waiting[1]
        /\ 1 \in 1 .. Len(waiting)
    BY <2>1, TailFacts
  <2>3. Head(waiting) \in 0 .. accepted
    BY <2>1, <2>2
  <2>4. /\ Append(lost, Head(waiting)) \in Seq(0 .. accepted)
        /\ Holds(Append(lost, Head(waiting)), waiting[1])
        /\ \A m : Holds(lost, m) => Holds(Append(lost, Head(waiting)), m)
    BY <2>1, <2>2, <2>3, AppendFacts, HoldsAppend
  <2>5. Tail(waiting) = RemoveAt(waiting, 1)
    BY <2>1, TailRemovesFirst
  <2>6. Good(accepted, RemoveAt(waiting, 1), delivered, Append(lost, Head(waiting)))
    BY <2>2, <2>4, GoodLose DEF Inv
  <2> QED BY <1>4, <2>5, <2>6 DEF Inv, BreakUnderWay
<1>5. ASSUME NEW k \in 1 .. Len(lost), NEW i \in 1 .. Len(waiting), Lose(k, i)
      PROVE  Inv'
  <2> DEFINE l2 == [lost EXCEPT ![k] = waiting[i]]
  <2>1. /\ waiting \in Seq(1 .. accepted) /\ lost \in Seq(0 .. accepted)
        /\ accepted \in Nat
    BY DEF Inv, Good, Typed
  <2>2. waiting[i] \in 0 .. accepted
    BY <2>1
  <2>3. l2 \in Seq(0 .. accepted) /\ Len(l2) = Len(lost)
        /\ \A j \in 1 .. Len(lost) : l2[j] = IF j = k THEN waiting[i] ELSE lost[j]
    BY <2>1, <2>2
  <2> HIDE DEF l2
  <2>4. Holds(l2, waiting[i])
    BY <2>3 DEF Holds
  <2>5. ASSUME NEW m \in 1 .. accepted, Holds(lost, m)
        PROVE  Holds(l2, m)
    <3>1. PICK j \in 1 .. Len(lost) : lost[j] = m
      BY <2>5 DEF Holds
    <3>2. j # k
      BY <1>5, <2>1, <3>1 DEF Lose
    <3>3. j \in 1 .. Len(l2) /\ l2[j] = m
      BY <2>3, <3>1, <3>2
    <3> QED BY <3>3 DEF Holds
  <2>6. Good(accepted, RemoveAt(waiting, i), delivered, l2)
    BY <2>3, <2>4, <2>5, GoodLose DEF Inv
  <2> QED BY <1>5, <2>6 DEF Inv, Lose, l2
<1>6. CASE UNCHANGED vars
  BY <1>6 DEF Inv, vars
<1> QED BY <1>1, <1>2, <1>3, <1>4, <1>5, <1>6 DEF Next

LEMMA SpecInv == Spec => []Inv
BY InitInv, NextInv, PTL DEF Spec

\* The channel delivers in the order it accepted and nothing twice.
THEOREM ChannelInOrder == Spec => []InOrder
BY SpecInv, InvGives, PTL

\* Every message is delivered, waiting, or the one some closed connection cost.
THEOREM ChannelAccounted == Spec => []Accounted
BY SpecInv, InvGives, PTL
=============================================================================
