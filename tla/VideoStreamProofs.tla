------------------------- MODULE VideoStreamProofs -------------------------
(***************************************************************************)
(* What Packer packs Unpacker unpacks, and it unpacks nothing else, for    *)
(* parts of any length that four bytes can hold.  The camera data packed   *)
(* with an image is fresh, and what is published was packed, for any       *)
(* number of images, strays and replacements.                              *)
(***************************************************************************)
EXTENDS VideoStream, SequenceFacts

-----------------------------------------------------------------------------
(* Packing *)

\* A length that fits four bytes comes back from them.
LEMMA WordNumber ==
    ASSUME NEW n \in Length
    PROVE  /\ Number(Word(n)) = n
           /\ Word(n) \in Seq(Byte) /\ Len(Word(n)) = 4
<1>1. Word(n) \in Seq(Byte) /\ Len(Word(n)) = 4
  <2>1. n \in Nat
    BY DEF Length
  <2> QED BY <2>1 DEF Word, Byte
<1>2. Number(Word(n)) = n
  <2> DEFINE a == n \div 256  b == n \div 65536  c == n \div 16777216
  <2> n \in Nat /\ c < 256
    BY DEF Length
  <2>1. a \in Nat /\ n = 256 * a + (n % 256)
    BY SMT
  <2>2. b \in Nat /\ a = 256 * b + (a % 256)
    BY SMT
  <2>3. c \in Nat /\ b = 256 * c + (b % 256) /\ c < 256
    BY SMT
  <2>4. c % 256 = c
    BY <2>3, SMT
  <2>5. Number(Word(n)) = (n % 256) + 256 * (a % 256) + 65536 * (b % 256) + 16777216 * (c % 256)
    BY DEF Word, Number
  <2> QED BY <2>1, <2>2, <2>3, <2>4, <2>5, SMT
<1> QED BY <1>1, <1>2

\* A slice of the first of two joined sequences.
LEMMA SliceKept ==
    ASSUME NEW S, NEW p \in Seq(S), NEW q \in Seq(S),
           NEW from \in Nat, NEW to \in Nat, from <= to, to <= Len(p)
    PROVE  Slice(p \o q, from, to) = Slice(p, from, to)
<1> DEFINE t == p \o q
<1>1. /\ t \in Seq(S) /\ Len(t) = Len(p) + Len(q) /\ Len(p) \in Nat /\ Len(q) \in Nat
      /\ \A i \in 1 .. Len(p) : t[i] = p[i]
  BY ConcatProperties, LenProperties
<1>2. /\ SubSeq(t, from + 1, to) \in Seq(S)
      /\ Len(SubSeq(t, from + 1, to)) = to - from
      /\ \A i \in 1 .. to - from : SubSeq(t, from + 1, to)[i] = t[from + i]
  <2>1. from + 1 \in 1 .. Len(t) + 1 /\ to \in from .. Len(t)
    BY <1>1
  <2> QED BY <1>1, <2>1, SMT
<1>3. /\ SubSeq(p, from + 1, to) \in Seq(S)
      /\ Len(SubSeq(p, from + 1, to)) = to - from
      /\ \A i \in 1 .. to - from : SubSeq(p, from + 1, to)[i] = p[from + i]
  <2>1. from + 1 \in 1 .. Len(p) + 1 /\ to \in from .. Len(p)
    BY <1>1
  <2> QED BY <1>1, <2>1, SMT
<1>4. \A i \in 1 .. to - from : SubSeq(t, from + 1, to)[i] = SubSeq(p, from + 1, to)[i]
  BY <1>1, <1>2, <1>3
<1> HIDE DEF t
<1>5. SubSeq(t, from + 1, to) = SubSeq(p, from + 1, to)
  BY <1>2, <1>3, <1>4, SeqEqual
<1> QED BY <1>5 DEF t, Slice

\* The second of two joined sequences is the slice behind the first.
LEMMA SliceEnd ==
    ASSUME NEW S, NEW p \in Seq(S), NEW v \in Seq(S)
    PROVE  Slice(p \o v, Len(p), Len(p) + Len(v)) = v
<1> DEFINE t == p \o v  k == Len(p)  n == Len(v)  r == SubSeq(t, k + 1, k + n)
<1>1. /\ t \in Seq(S) /\ Len(t) = k + n /\ k \in Nat /\ n \in Nat
      /\ \A i \in 1 .. n : t[k + i] = v[i]
  BY ConcatProperties, LenProperties
<1> HIDE DEF t, k, n
<1>2. r \in Seq(S) /\ Len(r) = n /\ \A i \in 1 .. n : r[i] = t[k + i]
  BY <1>1, SMT
<1>3. \A i \in 1 .. n : r[i] = v[i]
  BY <1>1, <1>2
<1>4. r = v
  <2> HIDE DEF r
  <2>1. Len(v) = n BY DEF n
  <2> QED BY <1>2, <1>3, <2>1, SeqEqual
<1> QED BY <1>4 DEF t, k, n, r, Slice

\* Four bytes are the word of the number they stand for.
LEMMA NumberWord ==
    ASSUME NEW w \in Seq(Byte), Len(w) = 4
    PROVE  /\ Number(w) \in Nat /\ Number(w) < 4294967296
           /\ Word(Number(w)) = w
<1> DEFINE a == w[1]  b == w[2]  c == w[3]  d == w[4]  n == Number(w)
<1>1. a \in 0 .. 255 /\ b \in 0 .. 255 /\ c \in 0 .. 255 /\ d \in 0 .. 255
  <2>1. w \in [1 .. 4 -> Byte]
    BY LenProperties
  <2> QED BY <2>1 DEF Byte
<1>2. n = a + 256 * b + 65536 * c + 16777216 * d
  BY DEF Number
<1> HIDE DEF a, b, c, d, n
<1>3. n \in Nat /\ n < 4294967296
  BY <1>1, <1>2, SMT
<1>4. n % 256 = a
  BY <1>1, <1>2, SMT
<1>5. n \div 256 = b + 256 * c + 65536 * d
  BY <1>1, <1>2, SMT
<1>6. n \div 65536 = c + 256 * d
  BY <1>1, <1>2, SMT
<1>7. n \div 16777216 = d
  BY <1>1, <1>2, SMT
<1>8. (n \div 256) % 256 = b /\ (n \div 65536) % 256 = c /\ (n \div 16777216) % 256 = d
  <2>1. (b + 256 * c + 65536 * d) % 256 = b
    BY <1>1, SMT
  <2>2. (c + 256 * d) % 256 = c
    BY <1>1, SMT
  <2>3. d % 256 = d
    BY <1>1, SMT
  <2> QED BY <1>5, <1>6, <1>7, <2>1, <2>2, <2>3
<1>9. Word(n) = <<a, b, c, d>>
  BY <1>4, <1>8 DEF Word
<1>10. <<a, b, c, d>> = w
  BY LenProperties, SeqEqual DEF a, b, c, d, Byte
<1> QED BY <1>3, <1>9, <1>10 DEF n

\* Length and elements of a slice within the sequence.
LEMMA SliceTyped ==
    ASSUME NEW S, NEW b \in Seq(S), NEW from \in Nat, NEW to \in Nat,
           from <= to, to <= Len(b)
    PROVE  /\ Slice(b, from, to) \in Seq(S)
           /\ Len(Slice(b, from, to)) = to - from
           /\ \A i \in 1 .. to - from : Slice(b, from, to)[i] = b[from + i]
<1>1. Len(b) \in Nat
  BY LenProperties
<1> QED BY <1>1, SMT DEF Slice

\* Its length alone.
LEMMA SliceLen ==
    ASSUME NEW S, NEW b \in Seq(S), NEW from \in Nat, NEW to \in Nat,
           from <= to, to <= Len(b)
    PROVE  Len(Slice(b, from, to)) = to - from
BY SliceTyped

\* Length and elements of a slice from the beginning.
LEMMA PrefixTyped ==
    ASSUME NEW S, NEW b \in Seq(S), NEW to \in Nat, to <= Len(b)
    PROVE  /\ Slice(b, 0, to) \in Seq(S)
           /\ Len(Slice(b, 0, to)) = to
           /\ \A i \in 1 .. to : Slice(b, 0, to)[i] = b[i]
<1>1. Len(b) \in Nat
  BY LenProperties
<1> QED BY <1>1, SMT DEF Slice

\* Adjacent slices join to one.
LEMMA SlicesJoin ==
    ASSUME NEW S, NEW b \in Seq(S), NEW mid \in Nat, NEW to \in Nat,
           mid <= to, to <= Len(b)
    PROVE  Slice(b, 0, mid) \o Slice(b, mid, to) = Slice(b, 0, to)
<1> DEFINE s == Slice(b, 0, mid)  t == Slice(b, mid, to)  u == Slice(b, 0, to)  v == s \o t
<1>1. /\ s \in Seq(S) /\ Len(s) = mid
      /\ \A i \in 1 .. mid : s[i] = b[i]
  <2>1. mid <= Len(b)
    BY LenProperties
  <2> QED BY <2>1, PrefixTyped
<1>2. /\ t \in Seq(S) /\ Len(t) = to - mid
      /\ \A i \in 1 .. to - mid : t[i] = b[mid + i]
  BY SliceTyped
<1>3. /\ u \in Seq(S) /\ Len(u) = to
      /\ \A i \in 1 .. to : u[i] = b[i]
  BY PrefixTyped
<1> HIDE DEF s, t, u
<1>4. /\ v \in Seq(S) /\ Len(v) = Len(s) + Len(t)
      /\ \A i \in 1 .. Len(s) + Len(t) : v[i] = IF i <= Len(s) THEN s[i] ELSE t[i - Len(s)]
  BY <1>1, <1>2, ConcatProperties
<1>5. Len(v) = to
  BY <1>1, <1>2, <1>4
<1>6. ASSUME NEW i \in 1 .. to PROVE v[i] = u[i]
  <2>1. CASE i <= mid
    BY <2>1, <1>1, <1>2, <1>3, <1>4
  <2>2. CASE ~(i <= mid)
    <3>1. i - mid \in 1 .. to - mid /\ mid + (i - mid) = i
      BY <2>2
    <3>2. v[i] = t[i - mid]
      BY <2>2, <1>1, <1>2, <1>4
    <3>3. t[i - mid] = b[i]
      BY <3>1, <1>2
    <3> QED BY <3>2, <3>3, <1>3
  <2> QED BY <2>1, <2>2
<1> HIDE DEF v
<1>7. v = u
  BY <1>3, <1>4, <1>5, <1>6, SeqEqual
<1> QED BY <1>7 DEF v, s, t, u

\* The slice of everything.
LEMMA SliceWhole ==
    ASSUME NEW S, NEW b \in Seq(S)
    PROVE  Slice(b, 0, Len(b)) = b
<1> DEFINE s == Slice(b, 0, Len(b))
<1>1. Len(b) \in Nat
  BY LenProperties
<1>2. s \in Seq(S) /\ Len(s) = Len(b) /\ \A i \in 1 .. Len(b) : s[i] = b[i]
  BY <1>1, PrefixTyped
<1> HIDE DEF s
<1>3. s = b
  BY <1>2, SeqEqual
<1> QED BY <1>3 DEF s

\* The slice of the first element.
LEMMA FirstByte ==
    ASSUME NEW S, NEW b \in Seq(S), 1 <= Len(b)
    PROVE  Slice(b, 0, 1) = <<b[1]>>
<1> DEFINE s == Slice(b, 0, 1)
<1>1. s \in Seq(S) /\ Len(s) = 1 /\ s[1] = b[1]
  <2>1. /\ Slice(b, 0, 1) \in Seq(S) /\ Len(Slice(b, 0, 1)) = 1
        /\ \A i \in 1 .. 1 : Slice(b, 0, 1)[i] = b[i]
    <3>1. 1 \in Nat
      OBVIOUS
    <3> QED BY <3>1, PrefixTyped
  <2> QED BY <2>1
<1>2. <<b[1]>> \in Seq(S) /\ Len(<<b[1]>>) = 1
  BY LenProperties
<1> HIDE DEF s
<1>3. s = <<b[1]>>
  BY <1>1, <1>2, SeqEqual
<1> QED BY <1>3 DEF s

\* Length and first element of joined sequences.
LEMMA Joined ==
    ASSUME NEW S, NEW s \in Seq(S), NEW t \in Seq(S), 1 <= Len(s)
    PROVE  /\ s \o t \in Seq(S) /\ Len(s \o t) = Len(s) + Len(t)
           /\ 1 <= Len(s \o t) /\ (s \o t)[1] = s[1]
<1>1. /\ s \o t \in Seq(S) /\ Len(s \o t) = Len(s) + Len(t)
      /\ \A i \in 1 .. Len(s) + Len(t) : (s \o t)[i] = IF i <= Len(s) THEN s[i] ELSE t[i - Len(s)]
  BY ConcatProperties
<1>2. 1 \in 1 .. Len(s) + Len(t) /\ 1 <= Len(s) + Len(t)
  BY LenProperties
<1> QED BY <1>1, <1>2

\* A packet without depth comes back as its parts.
LEMMA RoundTripColor ==
    ASSUME NEW rgb \in Seq(Byte), NEW text \in Seq(Byte),
           Len(rgb) \in Length, Len(text) \in Length
    PROVE  /\ PackColor(rgb, text) \in Seq(Byte)
           /\ Unpack(JPG, PackColor(rgb, text)) = <<rgb, None, text>>
<1> DEFINE n == Len(rgb)  m == Len(text)
           h == <<JPG>>  u == Word(n)  v == Word(m)
           p == h \o u  q == p \o v  r == q \o rgb  b == r \o text
<1>1. /\ n \in Nat /\ m \in Nat
      /\ Number(u) = n /\ u \in Seq(Byte) /\ Len(u) = 4
      /\ Number(v) = m /\ v \in Seq(Byte) /\ Len(v) = 4
  BY WordNumber DEF Length
<1>2. h \in Seq(Byte) /\ Len(h) = 1 /\ h[1] = JPG
  BY DEF Byte, JPG
<1>3. b = PackColor(rgb, text)
  BY DEF PackColor
<1>4. 1 \in Nat /\ 5 \in Nat /\ 9 \in Nat /\ 13 \in Nat /\ 1 <= 5 /\ 5 <= 9 /\ 9 <= 13
  OBVIOUS
<1> HIDE DEF n, m, h, u, v, p, q, r, b
<1>5. p \in Seq(Byte) /\ Len(p) = 5 /\ p[1] = JPG
  <2>1. h \in Seq(Byte) /\ 1 <= Len(h)
    BY <1>1, <1>2
  <2>2. u \in Seq(Byte)
    BY <1>1
  <2>3. p \in Seq(Byte) /\ Len(p) = Len(h) + Len(u) /\ p[1] = h[1]
    BY <2>1, <2>2, Joined DEF p
  <2>4. Len(p) = 5
    BY <1>1, <1>2, <2>3
  <2> QED BY <1>1, <1>2, <2>3, <2>4
<1>6. q \in Seq(Byte) /\ Len(q) = 9 /\ q[1] = JPG
  <2>1. p \in Seq(Byte) /\ 1 <= Len(p)
    BY <1>1, <1>5
  <2>2. v \in Seq(Byte)
    BY <1>1
  <2>3. q \in Seq(Byte) /\ Len(q) = Len(p) + Len(v) /\ q[1] = p[1]
    BY <2>1, <2>2, Joined DEF q
  <2>4. Len(q) = 9
    BY <1>1, <1>5, <2>3
  <2> QED BY <1>1, <1>5, <2>3, <2>4
<1>7. r \in Seq(Byte) /\ Len(r) = 9 + n /\ r[1] = JPG
  <2>1. q \in Seq(Byte) /\ 1 <= Len(q)
    BY <1>1, <1>6
  <2>2. rgb \in Seq(Byte)
    BY <1>1
  <2>3. r \in Seq(Byte) /\ Len(r) = Len(q) + Len(rgb) /\ r[1] = q[1]
    BY <2>1, <2>2, Joined DEF r
  <2>4. Len(r) = 9 + n
    BY <1>1, <1>6, <2>3 DEF n
  <2> QED BY <1>1, <1>6, <2>3, <2>4
<1>8. b \in Seq(Byte) /\ Len(b) = 9 + n + m /\ b[1] = JPG
  <2>1. r \in Seq(Byte) /\ 1 <= Len(r)
    BY <1>1, <1>7
  <2>2. text \in Seq(Byte)
    BY <1>1
  <2>3. b \in Seq(Byte) /\ Len(b) = Len(r) + Len(text) /\ b[1] = r[1]
    BY <2>1, <2>2, Joined DEF b
  <2>4. Len(b) = 9 + n + m
    BY <1>1, <1>7, <2>3 DEF m
  <2> QED BY <1>1, <1>7, <2>3, <2>4
<1>9. Slice(b, 1, 5) = u
  <2>1. 1 \in Nat /\ 5 \in Nat /\ 1 <= 5 /\ 5 = 1 + Len(u)
    BY <1>1
  <2>2. Slice(b, 1, 5) = Slice(r, 1, 5)
    <3>1. r \in Seq(Byte) /\ 5 <= Len(r)
      BY <1>1, <1>7
    <3>2. text \in Seq(Byte)
      BY <1>1
    <3> QED BY <2>1, <3>1, <3>2, SliceKept DEF b
  <2>3. Slice(r, 1, 5) = Slice(q, 1, 5)
    <3>1. q \in Seq(Byte) /\ 5 <= Len(q)
      BY <1>1, <1>6
    <3>2. rgb \in Seq(Byte)
      BY <1>1
    <3> QED BY <2>1, <3>1, <3>2, SliceKept DEF r
  <2>4. Slice(q, 1, 5) = Slice(p, 1, 5)
    <3>1. p \in Seq(Byte) /\ 5 <= Len(p)
      BY <1>1, <1>5
    <3>2. v \in Seq(Byte)
      BY <1>1
    <3> QED BY <2>1, <3>1, <3>2, SliceKept DEF q
  <2>5. Slice(p, 1, 5) = u
    <3>1. Slice(p, Len(h), Len(h) + Len(u)) = u
      <4>1. h \in Seq(Byte) /\ u \in Seq(Byte)
        BY <1>1, <1>2
      <4> QED BY <4>1, SliceEnd DEF p
    <3> QED BY <1>2, <2>1, <3>1
  <2> QED BY <2>2, <2>3, <2>4, <2>5
<1>10. Slice(b, 5, 9) = v
  <2>1. 5 \in Nat /\ 9 \in Nat /\ 5 <= 9 /\ 9 = 5 + Len(v)
    BY <1>1
  <2>2. Slice(b, 5, 9) = Slice(r, 5, 9)
    <3>1. r \in Seq(Byte) /\ 9 <= Len(r)
      BY <1>1, <1>7
    <3>2. text \in Seq(Byte)
      BY <1>1
    <3> QED BY <2>1, <3>1, <3>2, SliceKept DEF b
  <2>3. Slice(r, 5, 9) = Slice(q, 5, 9)
    <3>1. q \in Seq(Byte) /\ 9 <= Len(q)
      BY <1>1, <1>6
    <3>2. rgb \in Seq(Byte)
      BY <1>1
    <3> QED BY <2>1, <3>1, <3>2, SliceKept DEF r
  <2>4. Slice(q, 5, 9) = v
    <3>1. Slice(q, Len(p), Len(p) + Len(v)) = v
      <4>1. p \in Seq(Byte) /\ v \in Seq(Byte)
        BY <1>1, <1>5
      <4> QED BY <4>1, SliceEnd DEF q
    <3> QED BY <1>5, <2>1, <3>1
  <2> QED BY <2>2, <2>3, <2>4
<1>11. Slice(b, 9, 9 + n) = rgb
  <2>1. 9 \in Nat /\ 9 + n \in Nat /\ 9 <= 9 + n /\ 9 + n = 9 + Len(rgb)
    BY <1>1 DEF n
  <2>2. Slice(b, 9, 9 + n) = Slice(r, 9, 9 + n)
    <3>1. r \in Seq(Byte) /\ 9 + n <= Len(r)
      BY <1>1, <1>7
    <3>2. text \in Seq(Byte)
      BY <1>1
    <3> QED BY <2>1, <3>1, <3>2, SliceKept DEF b
  <2>3. Slice(r, 9, 9 + n) = rgb
    <3>1. Slice(r, Len(q), Len(q) + Len(rgb)) = rgb
      <4>1. q \in Seq(Byte) /\ rgb \in Seq(Byte)
        BY <1>1, <1>6
      <4> QED BY <4>1, SliceEnd DEF r
    <3> QED BY <1>6, <2>1, <3>1
  <2> QED BY <2>2, <2>3
<1>12. Slice(b, 9 + n, 9 + n + m) = text
  <2>1. 9 + n \in Nat /\ 9 + n + m \in Nat /\ 9 + n <= 9 + n + m /\ 9 + n + m = 9 + n + Len(text)
    BY <1>1 DEF m
  <2>2. Slice(b, 9 + n, 9 + n + m) = text
    <3>1. Slice(b, Len(r), Len(r) + Len(text)) = text
      <4>1. r \in Seq(Byte) /\ text \in Seq(Byte)
        BY <1>1, <1>7
      <4> QED BY <4>1, SliceEnd DEF b
    <3> QED BY <1>7, <2>1, <3>1
  <2> QED BY <2>2
<1>13. Len(b) = n + m + 9 /\ ~(Len(b) < 9)
  BY <1>1, <1>8
<1>14. UnpackColor(b) = <<rgb, None, text>>
  BY <1>1, <1>9, <1>10, <1>11, <1>12, <1>13 DEF UnpackColor
<1>15. Unpack(JPG, b) = <<rgb, None, text>>
  BY <1>8, <1>13, <1>14 DEF Unpack, JPG, JPG_PNG
<1> QED BY <1>3, <1>8, <1>15

\* So does a packet with depth.
LEMMA RoundTripDepth ==
    ASSUME NEW rgb \in Seq(Byte), NEW depth \in Seq(Byte), NEW text \in Seq(Byte),
           Len(rgb) \in Length, Len(depth) \in Length, Len(text) \in Length
    PROVE  /\ PackDepth(rgb, depth, text) \in Seq(Byte)
           /\ Unpack(JPG_PNG, PackDepth(rgb, depth, text)) = <<rgb, depth, text>>
<1> DEFINE n == Len(rgb)  m == Len(depth)  k == Len(text)
           h == <<JPG_PNG>>  u == Word(n)  v == Word(m)  w == Word(k)
           p == h \o u  q == p \o v  r == q \o w  s == r \o rgb  t == s \o depth  b == t \o text
<1>1. /\ n \in Nat /\ m \in Nat /\ k \in Nat
      /\ Number(u) = n /\ u \in Seq(Byte) /\ Len(u) = 4
      /\ Number(v) = m /\ v \in Seq(Byte) /\ Len(v) = 4
      /\ Number(w) = k /\ w \in Seq(Byte) /\ Len(w) = 4
  BY WordNumber DEF Length
<1>2. h \in Seq(Byte) /\ Len(h) = 1 /\ h[1] = JPG_PNG
  BY DEF Byte, JPG_PNG
<1>3. b = PackDepth(rgb, depth, text)
  BY DEF PackDepth
<1>4. 1 \in Nat /\ 5 \in Nat /\ 9 \in Nat /\ 13 \in Nat /\ 1 <= 5 /\ 5 <= 9 /\ 9 <= 13
  OBVIOUS
<1> HIDE DEF n, m, k, h, u, v, w, p, q, r, s, t, b
<1>5. p \in Seq(Byte) /\ Len(p) = 5 /\ p[1] = JPG_PNG
  <2>1. h \in Seq(Byte) /\ 1 <= Len(h)
    BY <1>1, <1>2
  <2>2. u \in Seq(Byte)
    BY <1>1
  <2>3. p \in Seq(Byte) /\ Len(p) = Len(h) + Len(u) /\ p[1] = h[1]
    BY <2>1, <2>2, Joined DEF p
  <2>4. Len(p) = 5
    BY <1>1, <1>2, <2>3
  <2> QED BY <1>1, <1>2, <2>3, <2>4
<1>6. q \in Seq(Byte) /\ Len(q) = 9 /\ q[1] = JPG_PNG
  <2>1. p \in Seq(Byte) /\ 1 <= Len(p)
    BY <1>1, <1>5
  <2>2. v \in Seq(Byte)
    BY <1>1
  <2>3. q \in Seq(Byte) /\ Len(q) = Len(p) + Len(v) /\ q[1] = p[1]
    BY <2>1, <2>2, Joined DEF q
  <2>4. Len(q) = 9
    BY <1>1, <1>5, <2>3
  <2> QED BY <1>1, <1>5, <2>3, <2>4
<1>7. r \in Seq(Byte) /\ Len(r) = 13 /\ r[1] = JPG_PNG
  <2>1. q \in Seq(Byte) /\ 1 <= Len(q)
    BY <1>1, <1>6
  <2>2. w \in Seq(Byte)
    BY <1>1
  <2>3. r \in Seq(Byte) /\ Len(r) = Len(q) + Len(w) /\ r[1] = q[1]
    BY <2>1, <2>2, Joined DEF r
  <2>4. Len(r) = 13
    BY <1>1, <1>6, <2>3
  <2> QED BY <1>1, <1>6, <2>3, <2>4
<1>8. s \in Seq(Byte) /\ Len(s) = 13 + n /\ s[1] = JPG_PNG
  <2>1. r \in Seq(Byte) /\ 1 <= Len(r)
    BY <1>1, <1>7
  <2>2. rgb \in Seq(Byte)
    BY <1>1
  <2>3. s \in Seq(Byte) /\ Len(s) = Len(r) + Len(rgb) /\ s[1] = r[1]
    BY <2>1, <2>2, Joined DEF s
  <2>4. Len(s) = 13 + n
    BY <1>1, <1>7, <2>3 DEF n
  <2> QED BY <1>1, <1>7, <2>3, <2>4
<1>9. t \in Seq(Byte) /\ Len(t) = 13 + n + m /\ t[1] = JPG_PNG
  <2>1. s \in Seq(Byte) /\ 1 <= Len(s)
    BY <1>1, <1>8
  <2>2. depth \in Seq(Byte)
    BY <1>1
  <2>3. t \in Seq(Byte) /\ Len(t) = Len(s) + Len(depth) /\ t[1] = s[1]
    BY <2>1, <2>2, Joined DEF t
  <2>4. Len(t) = 13 + n + m
    BY <1>1, <1>8, <2>3 DEF m
  <2> QED BY <1>1, <1>8, <2>3, <2>4
<1>10. b \in Seq(Byte) /\ Len(b) = 13 + n + m + k /\ b[1] = JPG_PNG
  <2>1. t \in Seq(Byte) /\ 1 <= Len(t)
    BY <1>1, <1>9
  <2>2. text \in Seq(Byte)
    BY <1>1
  <2>3. b \in Seq(Byte) /\ Len(b) = Len(t) + Len(text) /\ b[1] = t[1]
    BY <2>1, <2>2, Joined DEF b
  <2>4. Len(b) = 13 + n + m + k
    BY <1>1, <1>9, <2>3 DEF k
  <2> QED BY <1>1, <1>9, <2>3, <2>4
<1>11. Slice(b, 1, 5) = u
  <2>1. 1 \in Nat /\ 5 \in Nat /\ 1 <= 5 /\ 5 = 1 + Len(u)
    BY <1>1
  <2>2. Slice(b, 1, 5) = Slice(t, 1, 5)
    <3>1. t \in Seq(Byte) /\ 5 <= Len(t)
      BY <1>1, <1>9
    <3>2. text \in Seq(Byte)
      BY <1>1
    <3> QED BY <2>1, <3>1, <3>2, SliceKept DEF b
  <2>3. Slice(t, 1, 5) = Slice(s, 1, 5)
    <3>1. s \in Seq(Byte) /\ 5 <= Len(s)
      BY <1>1, <1>8
    <3>2. depth \in Seq(Byte)
      BY <1>1
    <3> QED BY <2>1, <3>1, <3>2, SliceKept DEF t
  <2>4. Slice(s, 1, 5) = Slice(r, 1, 5)
    <3>1. r \in Seq(Byte) /\ 5 <= Len(r)
      BY <1>1, <1>7
    <3>2. rgb \in Seq(Byte)
      BY <1>1
    <3> QED BY <2>1, <3>1, <3>2, SliceKept DEF s
  <2>5. Slice(r, 1, 5) = Slice(q, 1, 5)
    <3>1. q \in Seq(Byte) /\ 5 <= Len(q)
      BY <1>1, <1>6
    <3>2. w \in Seq(Byte)
      BY <1>1
    <3> QED BY <2>1, <3>1, <3>2, SliceKept DEF r
  <2>6. Slice(q, 1, 5) = Slice(p, 1, 5)
    <3>1. p \in Seq(Byte) /\ 5 <= Len(p)
      BY <1>1, <1>5
    <3>2. v \in Seq(Byte)
      BY <1>1
    <3> QED BY <2>1, <3>1, <3>2, SliceKept DEF q
  <2>7. Slice(p, 1, 5) = u
    <3>1. Slice(p, Len(h), Len(h) + Len(u)) = u
      <4>1. h \in Seq(Byte) /\ u \in Seq(Byte)
        BY <1>1, <1>2
      <4> QED BY <4>1, SliceEnd DEF p
    <3> QED BY <1>2, <2>1, <3>1
  <2> QED BY <2>2, <2>3, <2>4, <2>5, <2>6, <2>7
<1>12. Slice(b, 5, 9) = v
  <2>1. 5 \in Nat /\ 9 \in Nat /\ 5 <= 9 /\ 9 = 5 + Len(v)
    BY <1>1
  <2>2. Slice(b, 5, 9) = Slice(t, 5, 9)
    <3>1. t \in Seq(Byte) /\ 9 <= Len(t)
      BY <1>1, <1>9
    <3>2. text \in Seq(Byte)
      BY <1>1
    <3> QED BY <2>1, <3>1, <3>2, SliceKept DEF b
  <2>3. Slice(t, 5, 9) = Slice(s, 5, 9)
    <3>1. s \in Seq(Byte) /\ 9 <= Len(s)
      BY <1>1, <1>8
    <3>2. depth \in Seq(Byte)
      BY <1>1
    <3> QED BY <2>1, <3>1, <3>2, SliceKept DEF t
  <2>4. Slice(s, 5, 9) = Slice(r, 5, 9)
    <3>1. r \in Seq(Byte) /\ 9 <= Len(r)
      BY <1>1, <1>7
    <3>2. rgb \in Seq(Byte)
      BY <1>1
    <3> QED BY <2>1, <3>1, <3>2, SliceKept DEF s
  <2>5. Slice(r, 5, 9) = Slice(q, 5, 9)
    <3>1. q \in Seq(Byte) /\ 9 <= Len(q)
      BY <1>1, <1>6
    <3>2. w \in Seq(Byte)
      BY <1>1
    <3> QED BY <2>1, <3>1, <3>2, SliceKept DEF r
  <2>6. Slice(q, 5, 9) = v
    <3>1. Slice(q, Len(p), Len(p) + Len(v)) = v
      <4>1. p \in Seq(Byte) /\ v \in Seq(Byte)
        BY <1>1, <1>5
      <4> QED BY <4>1, SliceEnd DEF q
    <3> QED BY <1>5, <2>1, <3>1
  <2> QED BY <2>2, <2>3, <2>4, <2>5, <2>6
<1>13. Slice(b, 9, 13) = w
  <2>1. 9 \in Nat /\ 13 \in Nat /\ 9 <= 13 /\ 13 = 9 + Len(w)
    BY <1>1
  <2>2. Slice(b, 9, 13) = Slice(t, 9, 13)
    <3>1. t \in Seq(Byte) /\ 13 <= Len(t)
      BY <1>1, <1>9
    <3>2. text \in Seq(Byte)
      BY <1>1
    <3> QED BY <2>1, <3>1, <3>2, SliceKept DEF b
  <2>3. Slice(t, 9, 13) = Slice(s, 9, 13)
    <3>1. s \in Seq(Byte) /\ 13 <= Len(s)
      BY <1>1, <1>8
    <3>2. depth \in Seq(Byte)
      BY <1>1
    <3> QED BY <2>1, <3>1, <3>2, SliceKept DEF t
  <2>4. Slice(s, 9, 13) = Slice(r, 9, 13)
    <3>1. r \in Seq(Byte) /\ 13 <= Len(r)
      BY <1>1, <1>7
    <3>2. rgb \in Seq(Byte)
      BY <1>1
    <3> QED BY <2>1, <3>1, <3>2, SliceKept DEF s
  <2>5. Slice(r, 9, 13) = w
    <3>1. Slice(r, Len(q), Len(q) + Len(w)) = w
      <4>1. q \in Seq(Byte) /\ w \in Seq(Byte)
        BY <1>1, <1>6
      <4> QED BY <4>1, SliceEnd DEF r
    <3> QED BY <1>6, <2>1, <3>1
  <2> QED BY <2>2, <2>3, <2>4, <2>5
<1>14. Slice(b, 13, 13 + n) = rgb
  <2>1. 13 \in Nat /\ 13 + n \in Nat /\ 13 <= 13 + n /\ 13 + n = 13 + Len(rgb)
    BY <1>1 DEF n
  <2>2. Slice(b, 13, 13 + n) = Slice(t, 13, 13 + n)
    <3>1. t \in Seq(Byte) /\ 13 + n <= Len(t)
      BY <1>1, <1>9
    <3>2. text \in Seq(Byte)
      BY <1>1
    <3> QED BY <2>1, <3>1, <3>2, SliceKept DEF b
  <2>3. Slice(t, 13, 13 + n) = Slice(s, 13, 13 + n)
    <3>1. s \in Seq(Byte) /\ 13 + n <= Len(s)
      BY <1>1, <1>8
    <3>2. depth \in Seq(Byte)
      BY <1>1
    <3> QED BY <2>1, <3>1, <3>2, SliceKept DEF t
  <2>4. Slice(s, 13, 13 + n) = rgb
    <3>1. Slice(s, Len(r), Len(r) + Len(rgb)) = rgb
      <4>1. r \in Seq(Byte) /\ rgb \in Seq(Byte)
        BY <1>1, <1>7
      <4> QED BY <4>1, SliceEnd DEF s
    <3> QED BY <1>7, <2>1, <3>1
  <2> QED BY <2>2, <2>3, <2>4
<1>15. Slice(b, 13 + n, 13 + n + m) = depth
  <2>1. 13 + n \in Nat /\ 13 + n + m \in Nat /\ 13 + n <= 13 + n + m /\ 13 + n + m = 13 + n + Len(depth)
    BY <1>1 DEF m
  <2>2. Slice(b, 13 + n, 13 + n + m) = Slice(t, 13 + n, 13 + n + m)
    <3>1. t \in Seq(Byte) /\ 13 + n + m <= Len(t)
      BY <1>1, <1>9
    <3>2. text \in Seq(Byte)
      BY <1>1
    <3> QED BY <2>1, <3>1, <3>2, SliceKept DEF b
  <2>3. Slice(t, 13 + n, 13 + n + m) = depth
    <3>1. Slice(t, Len(s), Len(s) + Len(depth)) = depth
      <4>1. s \in Seq(Byte) /\ depth \in Seq(Byte)
        BY <1>1, <1>8
      <4> QED BY <4>1, SliceEnd DEF t
    <3> QED BY <1>8, <2>1, <3>1
  <2> QED BY <2>2, <2>3
<1>16. Slice(b, 13 + n + m, 13 + n + m + k) = text
  <2>1. 13 + n + m \in Nat /\ 13 + n + m + k \in Nat /\ 13 + n + m <= 13 + n + m + k /\ 13 + n + m + k = 13 + n + m + Len(text)
    BY <1>1 DEF k
  <2>2. Slice(b, 13 + n + m, 13 + n + m + k) = text
    <3>1. Slice(b, Len(t), Len(t) + Len(text)) = text
      <4>1. t \in Seq(Byte) /\ text \in Seq(Byte)
        BY <1>1, <1>9
      <4> QED BY <4>1, SliceEnd DEF b
    <3> QED BY <1>9, <2>1, <3>1
  <2> QED BY <2>2
<1>17. Len(b) = n + m + k + 13 /\ ~(Len(b) < 13)
  BY <1>1, <1>10
<1>18. UnpackDepth(b) = <<rgb, depth, text>>
  BY <1>1, <1>11, <1>12, <1>13, <1>14, <1>15, <1>16, <1>17 DEF UnpackDepth
<1>19. Unpack(JPG_PNG, b) = <<rgb, depth, text>>
  BY <1>10, <1>17, <1>18 DEF Unpack, JPG, JPG_PNG
<1> QED BY <1>3, <1>10, <1>19

\* What is unpacked without depth is a packet.
LEMMA ColorOnly ==
    ASSUME NEW b \in Seq(Byte), b[1] = JPG, 9 <= Len(b), UnpackColor(b) # Nothing
    PROVE  \E rgb, text \in Seq(Byte) :
             b = PackColor(rgb, text) /\ UnpackColor(b) = <<rgb, None, text>>
<1> DEFINE u == Slice(b, 1, 5)  v == Slice(b, 5, 9)
           n == Number(u)  m == Number(v)
           i == 9 + n  j == 9 + n + m
           rgb == Slice(b, 9, i)  text == Slice(b, i, j)
<1>1. 1 \in Nat /\ 5 \in Nat /\ 9 \in Nat /\ 1 <= 5 /\ 5 <= 9
      /\ 1 <= Len(b) /\ 5 <= Len(b) /\ Len(b) \in Nat
  BY LenProperties
<1>2. u \in Seq(Byte) /\ Len(u) = 4
  <2>1. u \in Seq(Byte)
    BY <1>1, SliceTyped
  <2>2. Len(u) = 5 - 1
    BY <1>1, SliceLen
  <2> QED BY <2>1, <2>2
<1>3. v \in Seq(Byte) /\ Len(v) = 4
  <2>1. v \in Seq(Byte)
    BY <1>1, SliceTyped
  <2>2. Len(v) = 9 - 5
    BY <1>1, SliceLen
  <2> QED BY <2>1, <2>2
<1>4. n \in Nat /\ m \in Nat /\ Word(n) = u /\ Word(m) = v
  BY <1>2, <1>3, NumberWord
<1>5. Len(b) = n + m + 9 /\ UnpackColor(b) = <<rgb, None, text>>
  BY DEF UnpackColor
<1> HIDE DEF u, v, n, m, i, j
<1>6. i \in Nat /\ j \in Nat /\ 9 <= i /\ i <= j /\ i <= Len(b) /\ j <= Len(b)
      /\ j = Len(b) /\ i - 9 = n /\ j - i = m
  BY <1>4, <1>5 DEF i, j
<1>7. rgb \in Seq(Byte) /\ Len(rgb) = n
  <2>1. rgb \in Seq(Byte)
    BY <1>1, <1>6, SliceTyped
  <2>2. Len(rgb) = i - 9
    BY <1>1, <1>6, SliceLen
  <2> QED BY <1>6, <2>1, <2>2
<1>8. text \in Seq(Byte) /\ Len(text) = m
  <2>1. text \in Seq(Byte)
    BY <1>6, SliceTyped
  <2>2. Len(text) = j - i
    BY <1>6, SliceLen
  <2> QED BY <1>6, <2>1, <2>2
<1>9. <<JPG>> \o u = Slice(b, 0, 5)
  <2>1. Slice(b, 0, 1) = <<JPG>>
    BY <1>1, FirstByte
  <2>2. Slice(b, 0, 1) \o Slice(b, 1, 5) = Slice(b, 0, 5)
    BY <1>1, SlicesJoin
  <2> QED BY <2>1, <2>2 DEF u
<1>10. Slice(b, 0, 5) \o v = Slice(b, 0, 9)
  BY <1>1, SlicesJoin DEF v
<1>11. Slice(b, 0, 9) \o rgb = Slice(b, 0, i)
  BY <1>1, <1>6, SlicesJoin
<1>12. Slice(b, 0, i) \o text = b
  <2>1. Slice(b, 0, i) \o text = Slice(b, 0, j)
    BY <1>6, SlicesJoin
  <2> QED BY <1>6, <2>1, SliceWhole
<1> HIDE DEF rgb, text
<1>13. b = PackColor(rgb, text)
  BY <1>4, <1>7, <1>8, <1>9, <1>10, <1>11, <1>12 DEF PackColor
<1> QED BY <1>5, <1>7, <1>8, <1>13

\* So is what is unpacked with depth.
LEMMA DepthOnly ==
    ASSUME NEW b \in Seq(Byte), b[1] = JPG_PNG, 13 <= Len(b), UnpackDepth(b) # Nothing
    PROVE  \E rgb, depth, text \in Seq(Byte) :
             b = PackDepth(rgb, depth, text) /\ UnpackDepth(b) = <<rgb, depth, text>>
<1> DEFINE u == Slice(b, 1, 5)  v == Slice(b, 5, 9)  w == Slice(b, 9, 13)
           n == Number(u)  m == Number(v)  k == Number(w)
           h == 13 + n  i == 13 + n + m  j == 13 + n + m + k
           rgb == Slice(b, 13, h)  depth == Slice(b, h, i)  text == Slice(b, i, j)
<1>1. 1 \in Nat /\ 5 \in Nat /\ 9 \in Nat /\ 13 \in Nat /\ 1 <= 5 /\ 5 <= 9 /\ 9 <= 13
      /\ 1 <= Len(b) /\ 5 <= Len(b) /\ 9 <= Len(b) /\ Len(b) \in Nat
  BY LenProperties
<1>2. u \in Seq(Byte) /\ Len(u) = 4
  <2>1. u \in Seq(Byte)
    BY <1>1, SliceTyped
  <2>2. Len(u) = 5 - 1
    BY <1>1, SliceLen
  <2> QED BY <2>1, <2>2
<1>3. v \in Seq(Byte) /\ Len(v) = 4
  <2>1. v \in Seq(Byte)
    BY <1>1, SliceTyped
  <2>2. Len(v) = 9 - 5
    BY <1>1, SliceLen
  <2> QED BY <2>1, <2>2
<1>4. w \in Seq(Byte) /\ Len(w) = 4
  <2>1. w \in Seq(Byte)
    BY <1>1, SliceTyped
  <2>2. Len(w) = 13 - 9
    BY <1>1, SliceLen
  <2> QED BY <2>1, <2>2
<1>5. n \in Nat /\ m \in Nat /\ k \in Nat /\ Word(n) = u /\ Word(m) = v /\ Word(k) = w
  BY <1>2, <1>3, <1>4, NumberWord
<1>6. Len(b) = n + m + k + 13 /\ UnpackDepth(b) = <<rgb, depth, text>>
  BY DEF UnpackDepth
<1> HIDE DEF u, v, w, n, m, k, h, i, j
<1>7. h \in Nat /\ i \in Nat /\ j \in Nat /\ 13 <= h /\ h <= i /\ i <= j
      /\ h <= Len(b) /\ i <= Len(b) /\ j <= Len(b) /\ j = Len(b)
      /\ h - 13 = n /\ i - h = m /\ j - i = k
  BY <1>5, <1>6 DEF h, i, j
<1>8. rgb \in Seq(Byte) /\ Len(rgb) = n
  <2>1. rgb \in Seq(Byte)
    BY <1>1, <1>7, SliceTyped
  <2>2. Len(rgb) = h - 13
    BY <1>1, <1>7, SliceLen
  <2> QED BY <1>7, <2>1, <2>2
<1>9. depth \in Seq(Byte) /\ Len(depth) = m
  <2>1. depth \in Seq(Byte)
    BY <1>7, SliceTyped
  <2>2. Len(depth) = i - h
    BY <1>7, SliceLen
  <2> QED BY <1>7, <2>1, <2>2
<1>10. text \in Seq(Byte) /\ Len(text) = k
  <2>1. text \in Seq(Byte)
    BY <1>7, SliceTyped
  <2>2. Len(text) = j - i
    BY <1>7, SliceLen
  <2> QED BY <1>7, <2>1, <2>2
<1>11. <<JPG_PNG>> \o u = Slice(b, 0, 5)
  <2>1. Slice(b, 0, 1) = <<JPG_PNG>>
    BY <1>1, FirstByte
  <2>2. Slice(b, 0, 1) \o Slice(b, 1, 5) = Slice(b, 0, 5)
    BY <1>1, SlicesJoin
  <2> QED BY <2>1, <2>2 DEF u
<1>12. Slice(b, 0, 5) \o v = Slice(b, 0, 9)
  BY <1>1, SlicesJoin DEF v
<1>13. Slice(b, 0, 9) \o w = Slice(b, 0, 13)
  BY <1>1, SlicesJoin DEF w
<1>14. Slice(b, 0, 13) \o rgb = Slice(b, 0, h)
  BY <1>1, <1>7, SlicesJoin
<1>15. Slice(b, 0, h) \o depth = Slice(b, 0, i)
  BY <1>7, SlicesJoin
<1>16. Slice(b, 0, i) \o text = b
  <2>1. Slice(b, 0, i) \o text = Slice(b, 0, j)
    BY <1>7, SlicesJoin
  <2> QED BY <1>7, <2>1, SliceWhole
<1> HIDE DEF rgb, depth, text
<1>17. b = PackDepth(rgb, depth, text)
  BY <1>5, <1>8, <1>9, <1>10, <1>11, <1>12, <1>13, <1>14, <1>15, <1>16 DEF PackDepth
<1> QED BY <1>6, <1>8, <1>9, <1>10, <1>17

-----------------------------------------------------------------------------

\* Unpacker.unpack returns the parts that Packer.pack was given, for either type
\* and parts of any bytes.
THEOREM RoundTrip ==
    ASSUME NEW type \in {JPG, JPG_PNG},
           NEW rgb \in Seq(Byte), NEW depth \in Seq(Byte), NEW text \in Seq(Byte),
           Len(rgb) \in Length, Len(depth) \in Length, Len(text) \in Length
    PROVE  /\ Packet(type, rgb, depth, text) \in Seq(Byte)
           /\ Unpack(type, Packet(type, rgb, depth, text))
                = <<rgb, IF type = JPG THEN None ELSE depth, text>>
<1>1. CASE type = JPG
  BY <1>1, RoundTripColor DEF Packet
<1>2. CASE type = JPG_PNG
  <2>1. type # JPG
    BY <1>2 DEF JPG, JPG_PNG
  <2> QED BY <1>2, <2>1, RoundTripDepth DEF Packet
<1> QED BY <1>1, <1>2

\* Whatever Unpacker.unpack returns but three Nones comes from a packet that
\* Packer.pack makes: truncated, padded or shifted packets are not mistaken.
THEOREM OnlyPackets ==
    ASSUME NEW type \in Byte, NEW b \in Seq(Byte), 1 <= Len(b),
           Unpack(type, b) # Raises, Unpack(type, b) # Nothing
    PROVE  /\ type \in {JPG, JPG_PNG}
           /\ \E rgb, depth, text \in Seq(Byte) :
                /\ b = Packet(type, rgb, depth, text)
                /\ Unpack(type, b) = <<rgb, IF type = JPG THEN None ELSE depth, text>>
<1>1. type = b[1] /\ type \in {JPG, JPG_PNG}
  BY DEF Unpack
<1>2. Len(b) \in Nat
  BY LenProperties
<1>3. CASE type = JPG
  <2>1. b[1] = JPG /\ 9 <= Len(b) /\ Unpack(type, b) = UnpackColor(b)
    BY <1>1, <1>2, <1>3 DEF Unpack, JPG, JPG_PNG
  <2>2. PICK rgb, text \in Seq(Byte) :
          b = PackColor(rgb, text) /\ UnpackColor(b) = <<rgb, None, text>>
    BY <2>1, ColorOnly
  <2>3. /\ b = Packet(type, rgb, rgb, text)
        /\ Unpack(type, b) = <<rgb, IF type = JPG THEN None ELSE rgb, text>>
    BY <1>3, <2>1, <2>2 DEF Packet
  <2> QED BY <1>1, <2>3
<1>4. CASE type = JPG_PNG
  <2>1. type # JPG
    BY <1>4 DEF JPG, JPG_PNG
  <2>2. b[1] = JPG_PNG /\ 13 <= Len(b) /\ Unpack(type, b) = UnpackDepth(b)
    BY <1>1, <1>2, <1>4, <2>1 DEF Unpack
  <2>3. PICK rgb, depth, text \in Seq(Byte) :
          b = PackDepth(rgb, depth, text) /\ UnpackDepth(b) = <<rgb, depth, text>>
    BY <2>2, DepthOnly
  <2>4. /\ b = Packet(type, rgb, depth, text)
        /\ Unpack(type, b) = <<rgb, IF type = JPG THEN None ELSE depth, text>>
    BY <1>4, <2>1, <2>2, <2>3 DEF Packet
  <2> QED BY <1>1, <2>4
<1> QED BY <1>1, <1>3, <1>4

-----------------------------------------------------------------------------
(* The stream *)

\* The bookkeeping of VideoPacker, of use with the bounds of the camera.
Packs ==
    /\ camera \in 0 .. MaxCamera /\ snapshot \in 0 .. camera /\ floor \in 0 .. camera
    /\ packing \in {"copy", "consume"}
    /\ CameraFresh

\* VideoPacker's copy of the shared camera is never from before the previous
\* image was published (video_packer.py:36-41).
THEOREM Fresh == Spec => []CameraFresh
<1>1. Init => Packs
  BY VideoAssumption DEF Init, Packs, CameraFresh
<1>2. Packs /\ [Next]_vars => Packs'
  <2> SUFFICES ASSUME Packs, [Next]_vars PROVE Packs'
    OBVIOUS
  <2> USE DEF Packs, CameraFresh
  <2>1. CASE CameraMoves
    BY <2>1, VideoAssumption DEF CameraMoves, packerVars
  <2>2. CASE CopyCamera
    BY <2>2 DEF CopyCamera
  <2>3. CASE PackImage
    BY <2>3 DEF PackImage
  <2>4. CASE PackFails
    BY <2>4 DEF PackFails
  <2>5. CASE \E type \in {JPG, JPG_PNG} : Replaced(type)
    BY <2>5 DEF Replaced
  <2>6. CASE \E k \in DOMAIN transit : Loses(k)
    BY <2>6 DEF Loses, packerVars
  <2>7. CASE \E bytes \in Strays \union {<<>>} : StrayArrives(bytes)
    BY <2>7 DEF StrayArrives, packerVars
  <2>8. CASE Receive
    BY <2>8 DEF Receive, packerVars
  <2>9. CASE UNCHANGED vars
    BY <2>9 DEF vars, packerVars
  <2> QED BY <2>1, <2>2, <2>3, <2>4, <2>5, <2>6, <2>7, <2>8, <2>9 DEF Next
<1>3. Packs => CameraFresh
  BY DEF Packs
<1> QED BY <1>1, <1>2, <1>3, PTL DEF Spec

-----------------------------------------------------------------------------
(* What is published was packed *)

\* A packet of VideoPacker.
Genuine(f) ==
    \E type \in {JPG, JPG_PNG} : \E rgb, depth, text \in Seq(Byte) :
        /\ Len(rgb) \in Length /\ Len(depth) \in Length /\ Len(text) \in Length
        /\ f.bytes = Packet(type, rgb, depth, text)
        /\ f.parts = <<rgb, IF type = JPG THEN None ELSE depth, text>>

\* What travels: packets of VideoPacker, and what others send.
Frame == {f \in [bytes : Seq(Byte), parts : Seq(Seq(Int))] :
            Genuine(f) \/ (f.bytes \in Strays \union {<<>>} /\ f.parts = Nothing)}

\* Of a packet unpack makes the parts, of a stray one nothing.
LEMMA UnpackFrame ==
    ASSUME NEW f \in Frame, f.bytes # <<>>, NEW type \in Byte
    PROVE  Unpack(type, f.bytes) \in {Raises, Nothing, f.parts}
<1> DEFINE b == f.bytes
<1>1. b \in Seq(Byte)
  BY DEF Frame
<1>2. CASE type # b[1]
  BY <1>2 DEF Unpack
<1>3. CASE type = b[1] /\ Genuine(f)
  <2>1. PICK own \in {JPG, JPG_PNG} : \E rgb, depth, text \in Seq(Byte) :
          /\ Len(rgb) \in Length /\ Len(depth) \in Length /\ Len(text) \in Length
          /\ b = Packet(own, rgb, depth, text)
          /\ f.parts = <<rgb, IF own = JPG THEN None ELSE depth, text>>
    BY <1>3 DEF Genuine
  <2>2. PICK rgb, depth, text \in Seq(Byte) :
          /\ Len(rgb) \in Length /\ Len(depth) \in Length /\ Len(text) \in Length
          /\ b = Packet(own, rgb, depth, text)
          /\ f.parts = <<rgb, IF own = JPG THEN None ELSE depth, text>>
    BY <2>1
  <2>3. Unpack(own, Packet(own, rgb, depth, text))
          = <<rgb, IF own = JPG THEN None ELSE depth, text>>
    BY <2>2, RoundTrip
  <2>4. Unpack(own, b) = f.parts
    BY <2>2, <2>3
  <2>5. f.parts # Raises
    BY <2>2 DEF Raises
  <2>6. own = b[1]
    BY <2>4, <2>5 DEF Unpack
  <2> QED BY <1>3, <2>4, <2>6
<1>4. CASE type = b[1] /\ ~Genuine(f)
  <2>1. b \in Strays
    BY <1>4 DEF Frame
  <2>2. Unpack(b[1], b) \in {Raises, Nothing}
    BY <2>1, VideoAssumption
  <2> QED BY <1>4, <2>2
<1> QED BY <1>2, <1>3, <1>4

-----------------------------------------------------------------------------

\* The inductive invariant: what travels and arrives are frames, and every tuple
\* published is of three Nones or of one that arrived.
Carries ==
    /\ packType \in {JPG, JPG_PNG} /\ images \in 0 .. MaxImages /\ frameIndex \in 0 .. images
    /\ camera \in 0 .. MaxCamera /\ snapshot \in 0 .. camera
    /\ transit \in Seq(Frame) /\ arrived \in Seq(Frame)
    /\ known \in Byte \union {-1}
    /\ published \in Seq(Seq(Seq(Int)))

\* Every tuple that VideoUnpacker published.
Authentic ==
    \A i \in 1 .. Len(published) :
        published[i] = Nothing
            \/ \E j \in 1 .. Len(arrived) : Genuine(arrived[j]) /\ published[i] = arrived[j].parts

\* What VideoPacker appends is a frame.
LEMMA PackedFrame ==
    ASSUME Carries, images + 1 \in Image, NEW state \in {snapshot, Given}
    PROVE  LET rgb == Jpeg[images + 1] depth == Png[images + 1]
           IN  [bytes |-> Packet(packType, rgb, depth, Text(state)),
                parts |-> <<rgb, IF packType = JPG THEN None ELSE depth, Text(state)>>] \in Frame
<1> DEFINE rgb == Jpeg[images + 1]  depth == Png[images + 1]  text == Text(state)
           b == Packet(packType, rgb, depth, text)
           p == <<rgb, IF packType = JPG THEN None ELSE depth, text>>
           f == [bytes |-> b, parts |-> p]
<1>1. rgb \in Seq(Byte) /\ depth \in Seq(Byte) /\ Len(rgb) \in Length /\ Len(depth) \in Length
  BY VideoAssumption
<1>2. state \in Byte /\ frameIndex \in Byte
  BY VideoAssumption DEF Carries, Given, Byte
<1>3. text \in Seq(Byte) /\ Len(text) \in {1, 2}
  BY <1>2 DEF Text
<1>4. Len(text) \in Length
  <2> HIDE DEF text
  <2>1. CASE Len(text) = 1
    <3>1. 1 \div 16777216 < 256
      BY SMT
    <3> QED BY <2>1, <3>1 DEF Length
  <2>2. CASE Len(text) = 2
    <3>1. 2 \div 16777216 < 256
      BY SMT
    <3> QED BY <2>2, <3>1 DEF Length
  <2> QED BY <1>3, <2>1, <2>2
<1>5. packType \in {JPG, JPG_PNG}
  BY DEF Carries
<1> HIDE DEF rgb, depth, text
<1>6. b \in Seq(Byte)
  BY <1>1, <1>3, <1>4, <1>5, RoundTrip
<1>7. rgb \in Seq(Int) /\ depth \in Seq(Int) /\ text \in Seq(Int) /\ None \in Seq(Int)
  <2>1. ASSUME NEW s \in Seq(Byte) PROVE s \in Seq(Int)
    <3>1. Len(s) \in Nat /\ DOMAIN s = 1 .. Len(s) /\ s = [i \in 1 .. Len(s) |-> s[i]]
      BY LenProperties
    <3>2. \A i \in 1 .. Len(s) : s[i] \in Byte
      BY LenProperties
    <3>3. Byte \subseteq Int
      BY DEF Byte
    <3> QED BY <3>1, <3>2, <3>3
  <2>2. None \in Seq(Int)
    BY DEF None
  <2> QED BY <1>1, <1>3, <2>1, <2>2
<1>8. p \in Seq(Seq(Int))
  BY <1>7
<1> HIDE DEF b, p
<1>9. f.bytes = b /\ f.parts = p /\ f \in [bytes : Seq(Byte), parts : Seq(Seq(Int))]
  BY <1>6, <1>8
<1> HIDE DEF f
<1>10. Genuine(f)
  <2>1. f.bytes = Packet(packType, rgb, depth, text)
    BY <1>9 DEF b
  <2>2. f.parts = <<rgb, IF packType = JPG THEN None ELSE depth, text>>
    BY <1>9 DEF p
  <2> QED BY <1>1, <1>3, <1>4, <1>5, <2>1, <2>2 DEF Genuine
<1>11. f \in Frame
  BY <1>9, <1>10 DEF Frame
<1> QED BY <1>11 DEF f, b, p, rgb, depth, text

\* What others send is a frame.
LEMMA StrayFrame ==
    ASSUME NEW bytes \in Strays \union {<<>>}
    PROVE  [bytes |-> bytes, parts |-> Nothing] \in Frame
<1>1. bytes \in Seq(Byte)
  <2>1. <<>> \in Seq(Byte)
    OBVIOUS
  <2>2. Strays \subseteq Seq(Byte)
    BY VideoAssumption
  <2> QED BY <2>1, <2>2
<1>2. Nothing \in Seq(Seq(Int))
  BY DEF Nothing, None
<1> QED BY <1>1, <1>2 DEF Frame

LEMMA CarriesInit == Init => Carries /\ Authentic
<1> SUFFICES ASSUME Init PROVE Carries /\ Authentic
  OBVIOUS
<1>1. transit \in Seq(Frame) /\ arrived \in Seq(Frame) /\ published \in Seq(Seq(Seq(Int)))
  <2>1. transit = <<>> /\ arrived = <<>> /\ published = <<>>
    BY DEF Init
  <2> QED BY <2>1
<1>2. packType \in {JPG, JPG_PNG} /\ images \in 0 .. MaxImages /\ frameIndex \in 0 .. images
  BY VideoAssumption DEF Init
<1>3. camera \in 0 .. MaxCamera /\ snapshot \in 0 .. camera /\ known = -1
  BY VideoAssumption DEF Init
<1>4. Len(published) = 0
  BY DEF Init
<1> QED BY <1>1, <1>2, <1>3, <1>4 DEF Carries, Authentic

\* A packet is received: what is published of it is of the packet itself.
LEMMA ReceiveCarries ==
    ASSUME Carries, Authentic, Receive
    PROVE  Carries' /\ Authentic'
<1>1. transit \in Seq(Frame) /\ transit # <<>> /\ arrived \in Seq(Frame)
  BY DEF Carries, Receive
<1>2. PICK f \in Frame : f = Head(transit)
  BY <1>1, TailFacts
<1>3. transit' \in Seq(Frame)
  <2>1. transit' = Tail(transit)
    BY DEF Receive
  <2> QED BY <1>1, <2>1, TailFacts
<1>4. arrived' = Append(arrived, f)
  BY <1>2 DEF Receive
<1>5. /\ arrived' \in Seq(Frame) /\ Len(arrived) \in Nat /\ Len(arrived') = Len(arrived) + 1
      /\ \A j \in 1 .. Len(arrived) : arrived'[j] = arrived[j]
      /\ arrived'[Len(arrived) + 1] = f
  BY <1>1, <1>4, AppendFacts, LenProperties
<1>6. f \in [bytes : Seq(Byte), parts : Seq(Seq(Int))] /\ f.parts \in Seq(Seq(Int))
  BY DEF Frame
<1>7. /\ known' \in Byte \union {-1}
      /\ \/ published' = published
         \/ \E r \in {Nothing, f.parts} : (r = Nothing \/ Genuine(f)) /\ published' = Append(published, r)
  <2>1. CASE f.bytes = <<>>
    BY <1>2, <2>1 DEF Receive, Carries
  <2>2. CASE f.bytes # <<>>
    <3>1. f.bytes[1] \in Byte
      <4>1. f.bytes \in Seq(Byte) /\ f.bytes # <<>>
        BY <1>6, <2>2
      <4>2. Len(f.bytes) \in Nat \ {0}
        BY <4>1, TailFacts
      <4> QED BY <4>1, <4>2
    <3>2. known' = IF known = -1 THEN f.bytes[1] ELSE known
      BY <1>2, <2>2 DEF Receive
    <3>3. known' \in Byte
      BY <3>1, <3>2 DEF Carries
    <3>4. PICK type \in Byte : type = known'
      BY <3>3
    <3>5. Unpack(type, f.bytes) \in {Raises, Nothing, f.parts}
      BY <2>2, UnpackFrame
    <3>6. published' = IF Unpack(type, f.bytes) = Raises
                          \/ (Unpack(type, f.bytes) = Nothing /\ "unpacker" \in shares)
                       THEN published ELSE Append(published, Unpack(type, f.bytes))
      BY <1>2, <2>2, <3>4 DEF Receive
    <3>7. Unpack(type, f.bytes) \in {Raises, Nothing} \/ Genuine(f)
      <4>1. CASE f.bytes \in Strays
        <5>1. Unpack(f.bytes[1], f.bytes) \in {Raises, Nothing}
          BY <4>1, VideoAssumption
        <5>2. CASE type = f.bytes[1]
          BY <5>1, <5>2
        <5>3. CASE type # f.bytes[1]
          BY <5>3 DEF Unpack
        <5> QED BY <5>2, <5>3
      <4>2. CASE f.bytes \notin Strays
        BY <2>2, <4>2 DEF Frame
      <4> QED BY <4>1, <4>2
    <3> QED BY <3>3, <3>5, <3>6, <3>7
  <2> QED BY <2>1, <2>2
<1>8. published \in Seq(Seq(Seq(Int))) /\ Nothing \in Seq(Seq(Int)) /\ Len(published) \in Nat
  BY LenProperties DEF Carries, Nothing, None
<1>9. ASSUME NEW i \in 1 .. Len(published)
      PROVE  published[i] = Nothing
                \/ \E j \in 1 .. Len(arrived') : Genuine(arrived'[j]) /\ published[i] = arrived'[j].parts
  <2>1. CASE published[i] = Nothing
    BY <2>1
  <2>2. CASE published[i] # Nothing
    <3>1. PICK j \in 1 .. Len(arrived) : Genuine(arrived[j]) /\ published[i] = arrived[j].parts
      BY <2>2 DEF Authentic
    <3>2. j \in 1 .. Len(arrived') /\ arrived'[j] = arrived[j]
      BY <1>5
    <3> QED BY <3>1, <3>2
  <2> QED BY <2>1, <2>2
<1>10. published' \in Seq(Seq(Seq(Int))) /\ Authentic'
  <2>1. CASE published' = published
    BY <1>8, <1>9, <2>1 DEF Authentic
  <2>2. CASE published' # published
    <3>1. PICK r \in {Nothing, f.parts} :
            (r = Nothing \/ Genuine(f)) /\ published' = Append(published, r)
      BY <1>7, <2>2
    <3>2. r \in Seq(Seq(Int))
      BY <1>6, <1>8
    <3>3. /\ published' \in Seq(Seq(Seq(Int))) /\ Len(published') = Len(published) + 1
          /\ \A i \in 1 .. Len(published) : published'[i] = published[i]
          /\ published'[Len(published) + 1] = r
      BY <1>8, <3>1, <3>2, AppendFacts
    <3>4. ASSUME NEW i \in 1 .. Len(published')
          PROVE  published'[i] = Nothing
                    \/ \E j \in 1 .. Len(arrived') : Genuine(arrived'[j]) /\ published'[i] = arrived'[j].parts
      <4>1. CASE i \in 1 .. Len(published)
        <5>1. published'[i] = published[i]
          BY <3>3, <4>1
        <5> QED BY <1>9, <4>1, <5>1
      <4>2. CASE i = Len(published) + 1
        <5>1. published'[i] = r
          BY <3>3, <4>2
        <5>2. Len(arrived) + 1 \in 1 .. Len(arrived')
          BY <1>5
        <5> QED BY <1>5, <3>1, <5>1, <5>2
      <4> QED BY <1>8, <3>3, <4>1, <4>2
    <3> QED BY <3>3, <3>4 DEF Authentic
  <2> QED BY <2>1, <2>2
<1>11. UNCHANGED <<packType, images, frameIndex, camera, snapshot>>
  BY DEF Receive, packerVars
<1> QED BY <1>3, <1>5, <1>7, <1>10, <1>11 DEF Carries

LEMMA CarriesStep == Carries /\ Authentic /\ [Next]_vars => Carries' /\ Authentic'
<1> SUFFICES ASSUME Carries, Authentic, [Next]_vars PROVE Carries' /\ Authentic'
  OBVIOUS
<1>1. CASE Receive
  BY <1>1, ReceiveCarries
<1>2. ASSUME UNCHANGED <<published, arrived>> PROVE Authentic'
  BY <1>2 DEF Authentic
<1>3. CASE CameraMoves
  <2>1. UNCHANGED <<published, arrived, transit, known, packType, images, frameIndex, snapshot>>
    BY <1>3 DEF CameraMoves, packerVars, unpackerVars
  <2>2. camera' \in 0 .. MaxCamera /\ snapshot \in 0 .. camera'
    BY <1>3, VideoAssumption DEF CameraMoves, Carries
  <2> QED BY <1>2, <2>1, <2>2 DEF Carries
<1>4. CASE CopyCamera
  <2>1. UNCHANGED <<published, arrived, transit, known, packType, images, frameIndex, camera>>
    BY <1>4 DEF CopyCamera, unpackerVars
  <2>2. snapshot' \in 0 .. camera
    BY <1>4 DEF CopyCamera, Carries
  <2> QED BY <1>2, <2>1, <2>2 DEF Carries
<1>5. CASE PackImage
  <2>1. UNCHANGED <<published, arrived, known, packType, camera, snapshot>>
    BY <1>5 DEF PackImage, unpackerVars
  <2>2. images' = images + 1 /\ images' \in 0 .. MaxImages /\ images + 1 \in Image
    BY <1>5, VideoAssumption DEF PackImage, Carries, Image
  <2>3. frameIndex' \in 0 .. images'
    BY <1>5, <2>2 DEF PackImage, Carries
  <2>4. transit' \in Seq(Frame)
    <3>1. PICK state \in {snapshot, Given} :
            LET rgb == Jpeg[images'] depth == Png[images']
            IN  transit' = Append(transit,
                  [bytes |-> Packet(packType, rgb, depth, Text(state)),
                   parts |-> <<rgb, IF packType = JPG THEN None ELSE depth, Text(state)>>])
      BY <1>5 DEF PackImage
    <3>2. PICK f \in Frame : transit' = Append(transit, f)
      BY <2>2, <3>1, PackedFrame
    <3>3. transit \in Seq(Frame)
      BY DEF Carries
    <3> QED BY <3>2, <3>3, AppendFacts
  <2> QED BY <1>2, <2>1, <2>2, <2>3, <2>4 DEF Carries
<1>6. CASE PackFails
  <2>1. UNCHANGED <<published, arrived, known, packType, camera, snapshot, transit>>
    BY <1>6 DEF PackFails, unpackerVars
  <2>2. images' \in 0 .. MaxImages /\ frameIndex' \in 0 .. images'
    BY <1>6, VideoAssumption DEF PackFails, Carries
  <2> QED BY <1>2, <2>1, <2>2 DEF Carries
<1>7. ASSUME NEW type \in {JPG, JPG_PNG}, Replaced(type) PROVE Carries' /\ Authentic'
  <2>1. UNCHANGED <<published, arrived, known, camera, snapshot, transit, images>>
    BY <1>7 DEF Replaced, unpackerVars
  <2>2. packType' \in {JPG, JPG_PNG} /\ frameIndex' \in 0 .. images
    BY <1>7 DEF Replaced, Carries
  <2> QED BY <1>2, <2>1, <2>2 DEF Carries
<1>8. ASSUME NEW k \in DOMAIN transit, Loses(k) PROVE Carries' /\ Authentic'
  <2>1. UNCHANGED <<published, arrived, known, packType, camera, snapshot, images, frameIndex>>
    BY <1>8 DEF Loses, unpackerVars, packerVars
  <2>2. transit' = RemoveAt(transit, k)
    BY <1>8 DEF Loses
  <2>3. transit \in Seq(Frame)
    BY DEF Carries
  <2>4. k \in 1 .. Len(transit)
    BY <1>8, <2>3
  <2>5. transit' \in Seq(Frame)
    BY <2>2, <2>3, <2>4, RemoveFacts
  <2> QED BY <1>2, <2>1, <2>5 DEF Carries
<1>9. ASSUME NEW bytes \in Strays \union {<<>>}, StrayArrives(bytes)
      PROVE  Carries' /\ Authentic'
  <2>1. UNCHANGED <<published, arrived, known, packType, camera, snapshot, images, frameIndex>>
    BY <1>9 DEF StrayArrives, unpackerVars, packerVars
  <2>2. transit' \in Seq(Frame)
    <3>1. PICK f \in Frame : transit' = Append(transit, f)
      BY <1>9, StrayFrame DEF StrayArrives
    <3>2. transit \in Seq(Frame)
      BY DEF Carries
    <3> QED BY <3>1, <3>2, AppendFacts
  <2> QED BY <1>2, <2>1, <2>2 DEF Carries
<1>10. CASE UNCHANGED vars
  <2>1. UNCHANGED <<published, arrived, known, packType, camera, snapshot, images, frameIndex, transit>>
    BY <1>10 DEF vars, unpackerVars, packerVars
  <2> QED BY <1>2, <2>1 DEF Carries
<1> QED BY <1>1, <1>3, <1>4, <1>5, <1>6, <1>7, <1>8, <1>9, <1>10 DEF Next

\* VideoUnpacker publishes three Nones or the parts of a packet that it got and
\* that a VideoPacker made (video_unpacker.py:24-47, unpacker.py:47-84).
THEOREM Delivered == Spec => []Authentic
BY CarriesInit, CarriesStep, PTL DEF Spec

-----------------------------------------------------------------------------
(* Everything of the first type is published, in order *)

\* Whether VideoUnpacker publishes nothing of what unpack gave it.
Dropped(r) == r = Raises \/ (r = Nothing /\ "unpacker" \in shares)

\* What a packet that is shown unpacks to, when its type is the unpacker's.
LEMMA FrameShown ==
    ASSUME NEW f \in Frame, f.bytes # <<>>
    PROVE  IF Shown(f) THEN Unpack(f.bytes[1], f.bytes) = f.parts /\ ~Dropped(f.parts)
           ELSE Dropped(Unpack(f.bytes[1], f.bytes))
<1> DEFINE b == f.bytes
<1>1. b \in Seq(Byte) /\ Len(b) \in Nat \ {0}
  <2>1. b \in Seq(Byte) /\ b # <<>>
    BY DEF Frame
  <2> QED BY <2>1, TailFacts
<1>2. CASE Genuine(f)
  <2>1. PICK own \in {JPG, JPG_PNG} : \E rgb, depth, text \in Seq(Byte) :
          /\ Len(rgb) \in Length /\ Len(depth) \in Length /\ Len(text) \in Length
          /\ b = Packet(own, rgb, depth, text)
          /\ f.parts = <<rgb, IF own = JPG THEN None ELSE depth, text>>
    BY <1>2 DEF Genuine
  <2>2. PICK rgb, depth, text \in Seq(Byte) :
          /\ Len(rgb) \in Length /\ Len(depth) \in Length /\ Len(text) \in Length
          /\ b = Packet(own, rgb, depth, text)
          /\ f.parts = <<rgb, IF own = JPG THEN None ELSE depth, text>>
    BY <2>1
  <2>3. Unpack(own, b) = f.parts
    <3>1. Unpack(own, Packet(own, rgb, depth, text))
            = <<rgb, IF own = JPG THEN None ELSE depth, text>>
      BY <2>2, RoundTrip
    <3> QED BY <2>2, <3>1
  <2>4. f.parts # Raises
    BY <2>2 DEF Raises
  <2>5. own = b[1]
    BY <2>3, <2>4 DEF Unpack
  <2>6. f.parts # Nothing
    <3>1. rgb # None
      <4>1. Len(None) = 1 /\ None[1] = -1 /\ -1 \notin Byte
        BY DEF None, Byte
      <4>2. SUFFICES ASSUME rgb = None PROVE FALSE
        OBVIOUS
      <4>3. rgb[1] \in Byte
        <5>1. rgb \in Seq(Byte) /\ Len(rgb) = 1
          BY <4>1, <4>2
        <5> HIDE <4>2
        <5> QED BY <5>1
      <4> QED BY <4>1, <4>2, <4>3
    <3>2. f.parts[1] = rgb /\ Nothing[1] = None
      BY <2>2 DEF Nothing
    <3> QED BY <3>1, <3>2
  <2> QED BY <2>3, <2>4, <2>5, <2>6 DEF Shown, Dropped
<1>3. CASE ~Genuine(f)
  <2>1. b \in Strays /\ f.parts = Nothing
    BY <1>3 DEF Frame
  <2>2. Unpack(b[1], b) \in {Raises, Nothing}
    BY <2>1, VideoAssumption
  <2>3. Nothing # Raises
    BY DEF Nothing, Raises
  <2>4. UnpackColor(b) # Raises /\ UnpackDepth(b) # Raises
    BY <2>3 DEF UnpackColor, UnpackDepth, Raises
  <2>5. Unpack(b[1], b) = Raises
          <=> (b[1] = JPG /\ Len(b) < 9) \/ (b[1] = JPG_PNG /\ Len(b) < 13)
    BY <2>3, <2>4 DEF Unpack, JPG, JPG_PNG
  <2>6. Shown(f) <=> "unpacker" \notin shares /\ Unpack(b[1], b) # Raises
    BY <1>1, <2>1, <2>5 DEF Shown, JPG, JPG_PNG
  <2> QED BY <2>1, <2>2, <2>3, <2>6 DEF Dropped
<1> QED BY <1>2, <1>3

\* The unpacker knows the type of the first packet with bytes.
Knows ==
    \/ known = -1 /\ \A k \in 1 .. Len(arrived) : arrived[k].bytes = <<>>
    \/ known # -1 /\ \E i \in 1 .. Len(arrived) : First(i) /\ arrived[i].bytes[1] = known

LEMMA ReceiveUnpacked ==
    ASSUME Carries, Knows, Unpacked, Receive
    PROVE  Knows' /\ Unpacked'
<1>1. PICK m \in Nat : m = Len(arrived)
  BY LenProperties DEF Carries
<1>2. PICK n \in Nat : n = Len(published)
  BY LenProperties DEF Carries
<1>3. PICK from \in [1 .. n -> Kept] :
        /\ \A i, k \in 1 .. n : i < k => from[i] < from[k]
        /\ \A j \in Kept : \E i \in 1 .. n : from[i] = j
        /\ \A i \in 1 .. n : published[i] = arrived[from[i]].parts
  <2>1. DOMAIN published = 1 .. n
    BY <1>2, LenProperties DEF Carries
  <2> QED BY <2>1 DEF Unpacked
<1>4. transit \in Seq(Frame) /\ transit # <<>>
  BY DEF Carries, Receive
<1>5. PICK f \in Frame : f = Head(transit)
  BY <1>4, TailFacts
<1>6. arrived' = Append(arrived, f)
  BY <1>5 DEF Receive
<1>7. /\ DOMAIN arrived = 1 .. m /\ Len(arrived') = m + 1 /\ DOMAIN arrived' = 1 .. m + 1
      /\ \A j \in 1 .. m : arrived'[j] = arrived[j]
      /\ arrived'[m + 1] = f
  <2>1. arrived \in Seq(Frame)
    BY DEF Carries
  <2>2. arrived' \in Seq(Frame) /\ Len(arrived') = m + 1
    BY <1>1, <1>6, <2>1, AppendFacts
  <2>3. DOMAIN arrived = 1 .. m /\ DOMAIN arrived' = 1 .. m + 1
    BY <1>1, <2>1, <2>2, LenProperties
  <2> QED BY <1>1, <1>6, <2>1, <2>2, <2>3, AppendFacts
<1>8. shares' = shares
  BY DEF Receive
<1>9. ASSUME NEW i \in 1 .. m PROVE First(i)' <=> First(i)
  BY <1>7, <1>9 DEF First
<1>10. First(m + 1)' <=> f.bytes # <<>> /\ \A k \in 1 .. m : arrived[k].bytes = <<>>
  BY <1>7 DEF First
<1>11. ASSUME NEW j \in 1 .. m PROVE j \in Kept' <=> j \in Kept
  <2>1. \A i \in 1 .. j : arrived'[i] = arrived[i] /\ (First(i)' <=> First(i))
    BY <1>7, <1>9, <1>11
  <2>2. Shown(arrived[j])' <=> Shown(arrived[j])
    BY <1>7, <1>8, <1>11 DEF Shown
  <2> QED BY <1>7, <1>11, <2>1, <2>2 DEF Kept
<1>12. m + 1 \in Kept' <=>
         f.bytes # <<>> /\ Shown(f) /\ \E i \in 1 .. m + 1 : First(i)' /\ arrived'[i].bytes[1] = f.bytes[1]
  <2>1. Shown(arrived[m + 1])' <=> Shown(f)
    BY <1>7, <1>8 DEF Shown
  <2> QED BY <1>7, <2>1 DEF Kept
<1>13. Kept \subseteq 1 .. m /\ Kept' \subseteq 1 .. m + 1
  BY <1>7 DEF Kept
<1>14. ASSUME m + 1 \notin Kept', published' = published PROVE Unpacked'
  <2>1. Kept' = Kept
    <3>1. ASSUME NEW j \in Kept' PROVE j \in Kept
      <4>1. j \in 1 .. m + 1 /\ j # m + 1
        BY <1>13, <1>14, <3>1
      <4>2. j \in 1 .. m
        BY <4>1
      <4> QED BY <1>11, <3>1, <4>2
    <3>2. ASSUME NEW j \in Kept PROVE j \in Kept'
      BY <1>11, <1>13, <3>2
    <3> QED BY <3>1, <3>2
  <2>2. \A i \in 1 .. n : arrived'[from[i]] = arrived[from[i]]
    BY <1>3, <1>7, <1>13
  <2>3. DOMAIN published' = 1 .. n
    BY <1>2, <1>14, LenProperties DEF Carries
  <2>4. from \in [1 .. n -> Kept']
    BY <1>3, <2>1
  <2>5. \A j \in Kept' : \E i \in 1 .. n : from[i] = j
    BY <1>3, <2>1
  <2>6. \A i \in 1 .. n : published'[i] = arrived'[from[i]].parts
    BY <1>3, <1>14, <2>2
  <2>7. \E w \in [DOMAIN published' -> Kept'] :
          /\ \A i, k \in DOMAIN published' : i < k => w[i] < w[k]
          /\ \A j \in Kept' : \E i \in DOMAIN published' : w[i] = j
          /\ \A i \in DOMAIN published' : published'[i] = arrived'[w[i]].parts
    BY <1>3, <2>3, <2>4, <2>5, <2>6
  <2> QED BY <2>7 DEF Unpacked
<1>15. ASSUME m + 1 \in Kept', published' = Append(published, f.parts) PROVE Unpacked'
  <2>1. Kept' = Kept \union {m + 1}
    <3>1. ASSUME NEW j \in Kept' PROVE j \in Kept \union {m + 1}
      <4>1. j \in 1 .. m \/ j = m + 1
        BY <1>13, <3>1
      <4> QED BY <1>11, <3>1, <4>1
    <3>2. ASSUME NEW j \in Kept PROVE j \in Kept'
      BY <1>11, <1>13, <3>2
    <3> QED BY <1>15, <3>1, <3>2
  <2> DEFINE extended == [i \in 1 .. n + 1 |-> IF i = n + 1 THEN m + 1 ELSE from[i]]
  <2>2. /\ DOMAIN published' = 1 .. n + 1
        /\ \A i \in 1 .. n : published'[i] = published[i]
        /\ published'[n + 1] = f.parts
    <3>1. published \in Seq(Seq(Seq(Int))) /\ f.parts \in Seq(Seq(Int))
      BY DEF Carries, Frame
    <3>2. published' \in Seq(Seq(Seq(Int))) /\ Len(published') = n + 1
      BY <1>2, <1>15, <3>1, AppendFacts
    <3>3. DOMAIN published' = 1 .. n + 1
      BY <3>2, LenProperties
    <3> QED BY <1>2, <1>15, <3>1, <3>3, AppendFacts
  <2>3. \A i \in 1 .. n : i \in 1 .. n + 1 /\ extended[i] = from[i] /\ from[i] \in 1 .. m
    <3>1. ASSUME NEW i \in 1 .. n
          PROVE  i \in 1 .. n + 1 /\ i # n + 1 /\ from[i] \in 1 .. m
      <4>1. from[i] \in Kept
        BY <1>3
      <4>2. from[i] \in 1 .. m
        BY <1>13, <4>1
      <4>3. i \in 1 .. n + 1 /\ i # n + 1
        OBVIOUS
      <4> QED BY <4>2, <4>3
    <3>2. ASSUME NEW i \in 1 .. n PROVE extended[i] = from[i]
      BY <3>1
    <3> HIDE DEF extended
    <3> QED BY <3>1, <3>2
  <2>4. extended[n + 1] = m + 1
    OBVIOUS
  <2>5. extended \in [1 .. n + 1 -> Kept']
    <3>1. ASSUME NEW i \in 1 .. n + 1
          PROVE  (IF i = n + 1 THEN m + 1 ELSE from[i]) \in Kept'
      <4>1. i = n + 1 \/ i \in 1 .. n
        OBVIOUS
      <4> QED BY <1>3, <2>1, <4>1
    <3> QED BY <3>1
  <2> HIDE DEF extended
  <2>6. ASSUME NEW i \in 1 .. n + 1, NEW k \in 1 .. n + 1, i < k PROVE extended[i] < extended[k]
    <3>1. i \in 1 .. n
      BY <2>6
    <3>2. CASE k \in 1 .. n
      BY <1>3, <2>3, <2>6, <3>1, <3>2
    <3>3. CASE k = n + 1
      <4>1. extended[i] \in 1 .. m
        BY <2>3, <3>1
      <4> QED BY <2>4, <3>3, <4>1
    <3> QED BY <3>2, <3>3
  <2>7. ASSUME NEW j \in Kept' PROVE \E i \in 1 .. n + 1 : extended[i] = j
    <3>1. CASE j \in Kept
      BY <1>3, <2>3, <3>1
    <3>2. CASE j = m + 1
      BY <2>4, <3>2
    <3> QED BY <2>1, <3>1, <3>2
  <2>8. ASSUME NEW i \in 1 .. n + 1 PROVE published'[i] = arrived'[extended[i]].parts
    <3>1. CASE i \in 1 .. n
      BY <1>3, <1>7, <2>2, <2>3, <3>1
    <3>2. CASE i = n + 1
      BY <1>7, <2>2, <2>4, <3>2
    <3> QED BY <3>1, <3>2
  <2>9. \E w \in [DOMAIN published' -> Kept'] :
          /\ \A i, k \in DOMAIN published' : i < k => w[i] < w[k]
          /\ \A j \in Kept' : \E i \in DOMAIN published' : w[i] = j
          /\ \A i \in DOMAIN published' : published'[i] = arrived'[w[i]].parts
    <3>1. \A i, k \in 1 .. n + 1 : i < k => extended[i] < extended[k]
      BY <2>6
    <3>2. \A j \in Kept' : \E i \in 1 .. n + 1 : extended[i] = j
      BY <2>7
    <3>3. \A i \in 1 .. n + 1 : published'[i] = arrived'[extended[i]].parts
      BY <2>8
    <3>4. \E w \in [1 .. n + 1 -> Kept'] :
            /\ \A i, k \in 1 .. n + 1 : i < k => w[i] < w[k]
            /\ \A j \in Kept' : \E i \in 1 .. n + 1 : w[i] = j
            /\ \A i \in 1 .. n + 1 : published'[i] = arrived'[w[i]].parts
      BY <2>5, <3>1, <3>2, <3>3
    <3>5. DOMAIN published' = 1 .. n + 1
      BY <2>2
    <3> QED BY <3>4, <3>5
  <2> QED BY <2>9 DEF Unpacked
<1>16. CASE f.bytes = <<>>
  <2>1. UNCHANGED <<known, published>>
    BY <1>5, <1>16 DEF Receive
  <2>2. m + 1 \notin Kept'
    BY <1>12, <1>16
  <2>3. Knows'
    <3>1. CASE known = -1
      <4>1. \A k \in 1 .. m : arrived[k].bytes = <<>>
        BY <1>1, <3>1 DEF Knows
      <4>2. \A k \in 1 .. m + 1 : arrived'[k].bytes = <<>>
        BY <1>7, <1>16, <4>1
      <4> QED BY <1>7, <2>1, <3>1, <4>2 DEF Knows
    <3>2. CASE known # -1
      <4>1. PICK i \in 1 .. m : First(i) /\ arrived[i].bytes[1] = known
        BY <1>1, <3>2 DEF Knows
      <4>2. First(i)' /\ arrived'[i].bytes[1] = known /\ i \in 1 .. m + 1
        BY <1>7, <1>9, <4>1
      <4> QED BY <1>7, <2>1, <3>2, <4>2 DEF Knows
    <3> QED BY <3>1, <3>2
  <2> QED BY <1>14, <2>1, <2>2, <2>3
<1>17. CASE f.bytes # <<>>
  <2>1. known' = IF known = -1 THEN f.bytes[1] ELSE known
    BY <1>5, <1>17 DEF Receive
  <2>2. f.bytes[1] \in Byte /\ known \in Byte \union {-1} /\ -1 \notin Byte
    <3>1. f.bytes \in Seq(Byte)
      BY DEF Frame
    <3>2. Len(f.bytes) \in Nat \ {0}
      BY <1>17, <3>1, TailFacts
    <3>3. f.bytes[1] \in Byte
      BY <3>1, <3>2
    <3> QED BY <3>3 DEF Carries, Byte
  <2>3. known' # -1
    BY <2>1, <2>2
  <2>4. PICK first \in 1 .. m + 1 : First(first)' /\ arrived'[first].bytes[1] = known'
    <3>1. CASE known = -1
      <4>1. \A k \in 1 .. m : arrived[k].bytes = <<>>
        BY <1>1, <3>1 DEF Knows
      <4>2. First(m + 1)' /\ arrived'[m + 1].bytes[1] = known'
        BY <1>7, <1>10, <1>17, <2>1, <3>1, <4>1
      <4> QED BY <4>2
    <3>2. CASE known # -1
      <4>1. PICK i \in 1 .. m : First(i) /\ arrived[i].bytes[1] = known
        BY <1>1, <3>2 DEF Knows
      <4>2. First(i)' /\ arrived'[i].bytes[1] = known' /\ i \in 1 .. m + 1
        BY <1>7, <1>9, <2>1, <3>2, <4>1
      <4> QED BY <4>2
    <3> QED BY <3>1, <3>2
  <2>5. ASSUME NEW i \in 1 .. m + 1, First(i)' PROVE i = first
    <3>1. arrived'[i].bytes # <<>> /\ \A k \in 1 .. i - 1 : arrived'[k].bytes = <<>>
      BY <2>5 DEF First
    <3>2. arrived'[first].bytes # <<>> /\ \A k \in 1 .. first - 1 : arrived'[k].bytes = <<>>
      BY <2>4 DEF First
    <3>3. ~(i < first) /\ ~(first < i)
      BY <3>1, <3>2
    <3> QED BY <3>3
  <2>6. Knows'
    BY <1>7, <2>3, <2>4 DEF Knows
  <2>7. m + 1 \in Kept' <=> Shown(f) /\ known' = f.bytes[1]
    BY <1>12, <1>17, <2>4, <2>5
  <2>8. published' = IF Dropped(Unpack(known', f.bytes)) THEN published
                     ELSE Append(published, Unpack(known', f.bytes))
    BY <1>5, <1>17 DEF Receive, Dropped
  <2>9. CASE known' = f.bytes[1]
    <3>1. Unpack(known', f.bytes) = Unpack(f.bytes[1], f.bytes)
      BY <2>9
    <3>2. CASE Shown(f)
      <4>1. published' = Append(published, f.parts)
        BY <1>17, <2>8, <3>1, <3>2, FrameShown
      <4> QED BY <1>15, <2>6, <2>7, <2>9, <3>2, <4>1
    <3>3. CASE ~Shown(f)
      <4>1. published' = published
        BY <1>17, <2>8, <3>1, <3>3, FrameShown
      <4> QED BY <1>14, <2>6, <2>7, <3>3, <4>1
    <3> QED BY <3>2, <3>3
  <2>10. CASE known' # f.bytes[1]
    <3>1. Unpack(known', f.bytes) = Raises
      BY <2>10 DEF Unpack
    <3>2. published' = published
      BY <2>8, <3>1 DEF Dropped
    <3> QED BY <1>14, <2>6, <2>7, <2>10, <3>2
  <2> QED BY <2>9, <2>10
<1> QED BY <1>16, <1>17

\* VideoUnpacker publishes every packet of the type of the first one that it can
\* show and nothing else, in the order they came and with every part as it was
\* packed (video_unpacker.py:24-47, unpacker.py:41-84).
THEOREM UnpackedInOrder == Spec => []Unpacked
<1>1. Init => Knows /\ Unpacked
  <2> SUFFICES ASSUME Init PROVE Knows /\ Unpacked
    OBVIOUS
  <2>1. arrived = <<>> /\ published = <<>> /\ known = -1
    BY DEF Init
  <2>2. Len(arrived) = 0 /\ DOMAIN arrived = {} /\ DOMAIN published = {}
    BY <2>1
  <2>3. Knows
    BY <2>1, <2>2 DEF Knows
  <2>4. Kept = {}
    BY <2>2 DEF Kept
  <2>5. [i \in {} |-> 0] \in [{} -> Kept]
    OBVIOUS
  <2>6. Unpacked
    BY <2>2, <2>4, <2>5 DEF Unpacked
  <2> QED BY <2>3, <2>6
<1>2. Carries /\ Knows /\ Unpacked /\ [Next]_vars => Knows' /\ Unpacked'
  <2> SUFFICES ASSUME Carries, Knows, Unpacked, [Next]_vars PROVE Knows' /\ Unpacked'
    OBVIOUS
  <2>1. CASE Receive
    BY <2>1, ReceiveUnpacked
  <2>2. CASE UNCHANGED <<shares, arrived, published, known>>
    BY <2>2 DEF Knows, Unpacked, Kept, First, Shown
  <2>3. CASE ~Receive
    <3>1. UNCHANGED <<shares, arrived, published, known>>
      BY <2>3 DEF Next, vars, unpackerVars, packerVars, CameraMoves, CopyCamera, PackImage,
                  PackFails, Replaced, Loses, StrayArrives
    <3> QED BY <2>2, <3>1
  <2> QED BY <2>1, <2>3
<1> QED BY <1>1, <1>2, CarriesInit, CarriesStep, PTL DEF Spec
=============================================================================
