--------------------------- MODULE SequenceFacts ---------------------------
(* Lemmas about the operations on sequences that queues are made of.       *)
EXTENDS Integers, Sequences, SequencesExt, SequenceTheorems, TLAPS

\* Appending extends a sequence at its end and changes nothing before.
LEMMA AppendFacts ==
  ASSUME NEW S, NEW s \in Seq(S), NEW e \in S
  PROVE  /\ Append(s, e) \in Seq(S)
         /\ Len(Append(s, e)) = Len(s) + 1
         /\ \A i \in 1 .. Len(s) : Append(s, e)[i] = s[i]
         /\ Append(s, e)[Len(s) + 1] = e
OBVIOUS

\* A non-empty sequence is its head followed by its tail.
LEMMA TailFacts ==
  ASSUME NEW S, NEW s \in Seq(S), s # <<>>
  PROVE  /\ Head(s) \in S
         /\ Head(s) = s[1]
         /\ Len(s) \in Nat \ {0}
         /\ Tail(s) \in Seq(S)
         /\ Len(Tail(s)) = Len(s) - 1
         /\ \A i \in 1 .. (Len(s) - 1) : Tail(s)[i] = s[i + 1]
OBVIOUS

\* Removing the i-th element moves the later ones one place down.
LEMMA RemoveFacts ==
  ASSUME NEW S, NEW s \in Seq(S), NEW i \in 1 .. Len(s)
  PROVE  /\ RemoveAt(s, i) \in Seq(S)
         /\ Len(RemoveAt(s, i)) = Len(s) - 1
         /\ \A j \in 1 .. (Len(s) - 1) :
              RemoveAt(s, i)[j] = IF j < i THEN s[j] ELSE s[j + 1]
<1> DEFINE a == SubSeq(s, 1, i - 1)
           b == SubSeq(s, i + 1, Len(s))
<1>1. /\ a \in Seq(S)
      /\ Len(a) = i - 1
      /\ \A j \in 1 .. (i - 1) : a[j] = s[j]
  OBVIOUS
<1>2. /\ b \in Seq(S)
      /\ Len(b) = Len(s) - i
      /\ \A j \in 1 .. (Len(s) - i) : b[j] = s[j + i]
  OBVIOUS
<1>3. RemoveAt(s, i) = a \o b
  BY DEF RemoveAt
<1> HIDE DEF a, b
<1>4. /\ a \o b \in Seq(S)
      /\ Len(a \o b) = Len(a) + Len(b)
      /\ \A j \in 1 .. (Len(a) + Len(b)) :
           (a \o b)[j] = IF j <= Len(a) THEN a[j] ELSE b[j - Len(a)]
  BY <1>1, <1>2, ConcatProperties
<1>5. ASSUME NEW j \in 1 .. (Len(s) - 1)
      PROVE  (a \o b)[j] = IF j < i THEN s[j] ELSE s[j + 1]
  <2>1. CASE j < i
    <3>1. j \in 1 .. (Len(a) + Len(b)) /\ j <= Len(a)
      BY <1>1, <1>2, <2>1
    <3> QED BY <1>1, <1>4, <2>1, <3>1
  <2>2. CASE ~(j < i)
    <3>1. j - Len(a) \in 1 .. (Len(s) - i) /\ j - Len(a) + i = j + 1
      BY <1>1, <2>2
    <3>2. j \in 1 .. (Len(a) + Len(b)) /\ ~(j <= Len(a))
      BY <1>1, <1>2, <2>2
    <3>3. (a \o b)[j] = b[j - Len(a)]
      BY <1>4, <3>2
    <3>4. b[j - Len(a)] = s[j + 1]
      BY <1>2, <3>1
    <3> QED BY <2>2, <3>3, <3>4
  <2> QED BY <2>1, <2>2
<1>6. Len(a \o b) = Len(s) - 1
  BY <1>1, <1>2, <1>4
<1>7. RemoveAt(s, i) \in Seq(S) /\ Len(RemoveAt(s, i)) = Len(s) - 1
  BY <1>4, <1>3, <1>6
<1> QED BY <1>3, <1>5, <1>7

\* Removing the first element leaves the tail.
LEMMA TailRemovesFirst ==
  ASSUME NEW S, NEW s \in Seq(S), s # <<>>
  PROVE  Tail(s) = RemoveAt(s, 1)
<1>1. /\ Tail(s) \in Seq(S) /\ Len(Tail(s)) = Len(s) - 1
      /\ \A i \in 1 .. (Len(s) - 1) : Tail(s)[i] = s[i + 1]
  BY TailFacts
<1>2. /\ RemoveAt(s, 1) \in Seq(S) /\ Len(RemoveAt(s, 1)) = Len(s) - 1
      /\ \A i \in 1 .. (Len(s) - 1) : RemoveAt(s, 1)[i] = s[i + 1]
  BY RemoveFacts
<1> QED BY <1>1, <1>2, SeqEqual

\* What is put in front of a sequence is its head, the sequence its tail.
LEMMA FrontFacts ==
  ASSUME NEW S, NEW s \in Seq(S), NEW e \in S
  PROVE  /\ <<e>> \o s \in Seq(S)
         /\ <<e>> \o s # <<>>
         /\ Head(<<e>> \o s) = e
         /\ Tail(<<e>> \o s) = s
<1> DEFINE t == <<e>> \o s
<1>1. /\ t \in Seq(S) /\ Len(t) = Len(s) + 1 /\ Len(s) \in Nat
      /\ \A i \in 1 .. (Len(s) + 1) : t[i] = IF i <= 1 THEN e ELSE s[i - 1]
  BY ConcatProperties
<1> HIDE DEF t
<1>2. t # <<>> /\ t[1] = e
  BY <1>1
<1>3. /\ Head(t) = t[1] /\ Tail(t) \in Seq(S) /\ Len(Tail(t)) = Len(s)
      /\ \A i \in 1 .. Len(s) : Tail(t)[i] = t[i + 1]
  BY <1>1, <1>2, TailFacts
<1>4. \A i \in 1 .. Len(s) : t[i + 1] = s[i]
  BY <1>1
<1>5. Tail(t) = s
  BY <1>1, <1>3, <1>4, SeqEqual
<1> QED BY <1>1, <1>2, <1>3, <1>5 DEF t

\* A non-empty sequence is its head in front of its tail.
LEMMA HeadInFront ==
  ASSUME NEW S, NEW s \in Seq(S), s # <<>>
  PROVE  <<Head(s)>> \o Tail(s) = s
<1> DEFINE t == <<Head(s)>> \o Tail(s)
<1>1. /\ Head(s) \in S /\ Head(s) = s[1] /\ Len(s) \in Nat \ {0}
      /\ Tail(s) \in Seq(S) /\ Len(Tail(s)) = Len(s) - 1
      /\ \A i \in 1 .. (Len(s) - 1) : Tail(s)[i] = s[i + 1]
  BY TailFacts
<1>2. /\ t \in Seq(S) /\ Len(t) = Len(s)
      /\ \A i \in 1 .. Len(s) : t[i] = IF i <= 1 THEN Head(s) ELSE Tail(s)[i - 1]
  <2>1. <<Head(s)>> \in Seq(S) /\ Len(<<Head(s)>>) = 1
    BY <1>1
  <2> QED BY <1>1, <2>1, ConcatProperties
<1> HIDE DEF t
<1>3. \A i \in 1 .. Len(s) : t[i] = s[i]
  BY <1>1, <1>2
<1>4. t = s
  BY <1>2, <1>3, SeqEqual
<1> QED BY <1>4 DEF t

\* Appending to the second part of a sequence appends to the whole.
LEMMA ConcatAppend ==
  ASSUME NEW S, NEW u \in Seq(S), NEW s \in Seq(S), NEW e \in S
  PROVE  u \o Append(s, e) = Append(u \o s, e)
<1>1. Append(s, e) = s \o <<e>> /\ <<e>> \in Seq(S)
  BY AppendIsConcat
<1>2. u \o s \in Seq(S)
  BY ConcatProperties
<1>3. Append(u \o s, e) = (u \o s) \o <<e>>
  BY <1>2, AppendIsConcat
<1> QED BY <1>1, <1>3, ConcatAssociative

\* Taking the head of the second part removes it from the whole.
LEMMA RemoveBehind ==
  ASSUME NEW S, NEW u \in Seq(S), NEW s \in Seq(S), s # <<>>
  PROVE  /\ Len(u) + 1 \in 1 .. Len(u \o s)
         /\ (u \o s)[Len(u) + 1] = Head(s)
         /\ RemoveAt(u \o s, Len(u) + 1) = u \o Tail(s)
<1> DEFINE t == u \o s
           r == RemoveAt(t, Len(u) + 1)
           v == u \o Tail(s)
<1>1. /\ Head(s) = s[1] /\ Len(s) \in Nat \ {0} /\ Len(u) \in Nat
      /\ Tail(s) \in Seq(S) /\ Len(Tail(s)) = Len(s) - 1
      /\ \A i \in 1 .. (Len(s) - 1) : Tail(s)[i] = s[i + 1]
  BY TailFacts
<1>2. /\ t \in Seq(S) /\ Len(t) = Len(u) + Len(s)
      /\ \A i \in 1 .. (Len(u) + Len(s)) : t[i] = IF i <= Len(u) THEN u[i] ELSE s[i - Len(u)]
  BY ConcatProperties
<1>3. /\ v \in Seq(S) /\ Len(v) = Len(u) + Len(s) - 1
      /\ \A i \in 1 .. (Len(u) + Len(s) - 1) :
           v[i] = IF i <= Len(u) THEN u[i] ELSE Tail(s)[i - Len(u)]
  BY <1>1, ConcatProperties
<1> HIDE DEF t, v
<1>4. Len(u) + 1 \in 1 .. Len(t) /\ t[Len(u) + 1] = s[1]
  BY <1>1, <1>2
<1>5. /\ r \in Seq(S) /\ Len(r) = Len(t) - 1
      /\ \A i \in 1 .. (Len(t) - 1) : r[i] = IF i < Len(u) + 1 THEN t[i] ELSE t[i + 1]
  BY <1>2, <1>4, RemoveFacts
<1> HIDE DEF r
<1>6. ASSUME NEW i \in 1 .. Len(r)
      PROVE  r[i] = v[i]
  <2>0. i \in 1 .. (Len(u) + Len(s) - 1) /\ i \in 1 .. (Len(t) - 1)
    BY <1>1, <1>2, <1>5
  <2>1. CASE i <= Len(u)
    <3>1. r[i] = t[i] /\ t[i] = u[i]
      BY <1>1, <1>2, <1>5, <2>0, <2>1
    <3>2. v[i] = u[i]
      BY <1>3, <2>0, <2>1
    <3> QED BY <3>1, <3>2
  <2>2. CASE ~(i <= Len(u))
    <3>1. r[i] = t[i + 1]
      BY <1>1, <1>5, <2>0, <2>2
    <3>2. t[i + 1] = s[i + 1 - Len(u)]
      BY <1>1, <1>2, <2>0, <2>2
    <3>3. v[i] = Tail(s)[i - Len(u)]
      BY <1>3, <2>0, <2>2
    <3>4. i - Len(u) \in 1 .. (Len(s) - 1) /\ (i - Len(u)) + 1 = i + 1 - Len(u)
      BY <1>1, <2>0, <2>2
    <3>5. Tail(s)[i - Len(u)] = s[(i - Len(u)) + 1]
      BY <1>1, <3>4
    <3> QED BY <3>1, <3>2, <3>3, <3>4, <3>5
  <2> QED BY <2>1, <2>2
<1>7. Len(r) = Len(v)
  BY <1>1, <1>2, <1>3, <1>5
<1>8. r = v
  BY <1>3, <1>5, <1>6, <1>7, SeqEqual
<1> QED BY <1>1, <1>4, <1>8 DEF r, v, t

\* The elements of an extended sequence ...
LEMMA ToSetAppend ==
  ASSUME NEW S, NEW s \in Seq(S), NEW e \in S
  PROVE  ToSet(Append(s, e)) = ToSet(s) \cup {e}
<1> DEFINE t == Append(s, e)
<1>1. /\ t \in Seq(S) /\ Len(s) \in Nat /\ Len(t) = Len(s) + 1
      /\ \A i \in 1 .. Len(s) : t[i] = s[i]
      /\ t[Len(s) + 1] = e
  BY AppendFacts
<1>2. DOMAIN s = 1 .. Len(s) /\ DOMAIN t = 1 .. Len(t)
  BY <1>1, LenProperties
<1> HIDE DEF t
<1>3. 1 .. Len(t) = 1 .. Len(s) \cup {Len(s) + 1}
  BY <1>1
<1>4. ToSet(t) = ToSet(s) \cup {e}
  BY <1>1, <1>2, <1>3 DEF ToSet
<1> QED BY <1>4 DEF t

\* ... and of a sequence that loses its head.
LEMMA ToSetTail ==
  ASSUME NEW S, NEW s \in Seq(S), s # <<>>
  PROVE  ToSet(s) = {Head(s)} \cup ToSet(Tail(s))
<1> DEFINE t == Tail(s)
<1>1. /\ Head(s) = s[1] /\ Len(s) \in Nat \ {0}
      /\ t \in Seq(S) /\ Len(t) = Len(s) - 1
      /\ \A i \in 1 .. (Len(s) - 1) : t[i] = s[i + 1]
  BY TailFacts
<1>2. DOMAIN s = 1 .. Len(s) /\ DOMAIN t = 1 .. Len(t)
  BY <1>1, LenProperties
<1> HIDE DEF t
<1>3. ASSUME NEW i \in 1 .. Len(s)
      PROVE  s[i] = s[1] \/ s[i] \in ToSet(t)
  <2>1. i = 1 \/ (i - 1 \in 1 .. Len(t) /\ t[i - 1] = s[i])
    BY <1>1
  <2> QED BY <1>2, <2>1 DEF ToSet
<1>4. ASSUME NEW i \in 1 .. Len(t)
      PROVE  t[i] \in ToSet(s)
  <2>1. i + 1 \in 1 .. Len(s) /\ t[i] = s[i + 1]
    BY <1>1
  <2> QED BY <1>2, <2>1 DEF ToSet
<1>5. 1 \in 1 .. Len(s)
  BY <1>1
<1>6. ToSet(s) = {s[1]} \cup ToSet(t)
  BY <1>2, <1>3, <1>4, <1>5 DEF ToSet
<1> QED BY <1>1, <1>6 DEF t

\* The elements of a sequence and of what is left when one of them leaves.
LEMMA ToSetRemove ==
  ASSUME NEW S, NEW s \in Seq(S), NEW i \in 1 .. Len(s)
  PROVE  ToSet(s) = {s[i]} \cup ToSet(RemoveAt(s, i))
<1> DEFINE r == RemoveAt(s, i)
<1>0. Len(s) \in Nat
  BY LenProperties
<1>1. /\ r \in Seq(S) /\ Len(r) = Len(s) - 1
      /\ \A j \in 1 .. (Len(s) - 1) : r[j] = IF j < i THEN s[j] ELSE s[j + 1]
  BY RemoveFacts
<1>2. DOMAIN s = 1 .. Len(s) /\ DOMAIN r = 1 .. Len(r)
  BY <1>1, LenProperties
<1> HIDE DEF r
<1>3. ASSUME NEW j \in 1 .. Len(s)
      PROVE  s[j] = s[i] \/ s[j] \in ToSet(r)
  <2>1. \/ j = i
        \/ j < i /\ j \in 1 .. Len(r) /\ r[j] = s[j]
        \/ j > i /\ j - 1 \in 1 .. Len(r) /\ r[j - 1] = s[j]
    BY <1>0, <1>1
  <2> QED BY <1>2, <2>1 DEF ToSet
<1>4. ASSUME NEW j \in 1 .. Len(r)
      PROVE  r[j] \in ToSet(s)
  <2>1. \E k \in 1 .. Len(s) : r[j] = s[k]
    BY <1>0, <1>1
  <2> QED BY <1>2, <2>1 DEF ToSet
<1>5. ToSet(s) = {s[i]} \cup ToSet(r)
  BY <1>2, <1>3, <1>4 DEF ToSet
<1> QED BY <1>5 DEF r
============================================================================
