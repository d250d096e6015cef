----------------------------- MODULE MediaProofs -----------------------------
(***************************************************************************)
(* Proofs about the media of Home Assistant: the cache of recordings for   *)
(* any recordings, sizes and bounds, the captures of rings for any number of *)
(* captures, decisions and calls, and the sessions of the camera for any   *)
(* number of offers.                                                       *)
(***************************************************************************)
EXTENDS MediaCache, RingCapture, CameraSessions, FiniteSums, SequenceTheorems, TLAPS

(***************************************************************************)
(* Sequences without repetition, and what they hold.                       *)
(***************************************************************************)
LEMMA HoldsItems ==
  ASSUME NEW S, NEW s \in Seq(S)
  PROVE  /\ ToSet(s) = {s[i] : i \in 1 .. Len(s)} /\ ToSet(s) \in SUBSET S /\ IsFiniteSet(ToSet(s))
         /\ Len(s) \in Nat /\ DOMAIN s = 1 .. Len(s) /\ \A i \in 1 .. Len(s) : s[i] \in S
<1>1. Len(s) \in Nat /\ DOMAIN s = 1 .. Len(s) /\ \A i \in 1 .. Len(s) : s[i] \in S
  OBVIOUS
<1>2. ToSet(s) = {s[i] : i \in 1 .. Len(s)}
  BY <1>1 DEF ToSet
<1>3. IsFiniteSet(1 .. Len(s))
  BY <1>1, FS_Interval
<1>4. IsFiniteSet({s[i] : i \in 1 .. Len(s)})
  <2> DEFINE f == [i \in 1 .. Len(s) |-> s[i]]
             T == {s[i] : i \in 1 .. Len(s)}
  <2>1. f \in Surjection(1 .. Len(s), T)
    BY DEF Surjection
  <2> HIDE DEF f
  <2> QED
    BY <1>3, <2>1, FS_Surjection
<1> QED
  BY <1>1, <1>2, <1>4

LEMMA AppendHolds ==
  ASSUME NEW S, NEW s \in Seq(S), NEW k \in S, IsInjective(s), k \notin ToSet(s)
  PROVE  /\ Append(s, k) \in Seq(S) /\ IsInjective(Append(s, k))
         /\ ToSet(Append(s, k)) = ToSet(s) \cup {k} /\ Len(Append(s, k)) = Len(s) + 1
<1> DEFINE t == Append(s, k)
<1>1. /\ t \in Seq(S) /\ Len(t) = Len(s) + 1 /\ Len(s) \in Nat
      /\ \A i \in 1 .. Len(s) : t[i] = s[i] /\ s[i] \in ToSet(s)
      /\ t[Len(s) + 1] = k
  BY HoldsItems
<1> HIDE DEF t
<1>2. ToSet(t) = {t[i] : i \in 1 .. Len(t)} /\ DOMAIN t = 1 .. Len(t) /\ DOMAIN s = 1 .. Len(s)
      /\ ToSet(s) = {s[i] : i \in 1 .. Len(s)}
  BY <1>1, HoldsItems
<1>3. 1 .. Len(t) = (1 .. Len(s)) \cup {Len(s) + 1}
  BY <1>1
<1>4. ToSet(t) = ToSet(s) \cup {k}
  BY <1>1, <1>2, <1>3
<1>5. IsInjective(t)
  <2> SUFFICES ASSUME NEW a \in 1 .. Len(t), NEW b \in 1 .. Len(t), t[a] = t[b] PROVE a = b
    BY <1>2 DEF IsInjective
  <2>1. \A c, d \in 1 .. Len(s) : s[c] = s[d] => c = d
    BY <1>2 DEF IsInjective
  <2> QED
    BY <1>1, <1>3, <2>1
<1> QED
  BY <1>1, <1>4, <1>5 DEF t

LEMMA TailHolds ==
  ASSUME NEW S, NEW s \in Seq(S), IsInjective(s), s # << >>
  PROVE  /\ Tail(s) \in Seq(S) /\ IsInjective(Tail(s)) /\ Head(s) \in ToSet(s)
         /\ ToSet(Tail(s)) = ToSet(s) \ {Head(s)}
<1> DEFINE t == Tail(s)
<1>1. /\ t \in Seq(S) /\ Len(t) = Len(s) - 1 /\ Len(s) \in Nat \ {0}
      /\ \A i \in 1 .. Len(t) : t[i] = s[i + 1]
      /\ Head(s) = s[1]
  BY HeadTailProperties, EmptySeq
<1> HIDE DEF t
<1>2. ToSet(t) = {t[i] : i \in 1 .. Len(t)} /\ DOMAIN t = 1 .. Len(t) /\ DOMAIN s = 1 .. Len(s)
      /\ ToSet(s) = {s[i] : i \in 1 .. Len(s)}
  BY <1>1, HoldsItems
<1>3. \A c, d \in 1 .. Len(s) : s[c] = s[d] => c = d
  BY <1>2 DEF IsInjective
<1>4. IsInjective(t)
  <2> SUFFICES ASSUME NEW a \in 1 .. Len(t), NEW b \in 1 .. Len(t), t[a] = t[b] PROVE a = b
    BY <1>2 DEF IsInjective
  <2>1. a + 1 \in 1 .. Len(s) /\ b + 1 \in 1 .. Len(s) /\ s[a + 1] = s[b + 1]
    BY <1>1
  <2>2. a + 1 = b + 1
    BY <1>3, <2>1
  <2> QED
    BY <2>2
<1>5. ToSet(t) = ToSet(s) \ {Head(s)}
  <2>1. ASSUME NEW x \in ToSet(t) PROVE x \in ToSet(s) /\ x # s[1]
    <3>1. PICK i \in 1 .. Len(t) : x = t[i]
      BY <1>2, <2>1
    <3>2. i + 1 \in 1 .. Len(s) /\ x = s[i + 1] /\ i + 1 # 1 /\ 1 \in 1 .. Len(s)
      BY <1>1, <3>1
    <3> QED
      BY <1>2, <1>3, <3>2
  <2>2. ASSUME NEW x \in ToSet(s), x # s[1] PROVE x \in ToSet(t)
    <3>1. PICK i \in 1 .. Len(s) : x = s[i]
      BY <1>2, <2>2
    <3>2. i - 1 \in 1 .. Len(t) /\ (i - 1) + 1 = i
      BY <1>1, <2>2, <3>1
    <3>3. x = t[i - 1]
      BY <1>1, <3>1, <3>2
    <3> QED
      BY <1>2, <3>2, <3>3
  <2> QED
    BY <1>1, <2>1, <2>2
<1>6. Head(s) \in ToSet(s)
  <2>1. 1 \in 1 .. Len(s)
    BY <1>1
  <2> QED
    BY <1>1, <1>2, <2>1
<1> QED
  BY <1>1, <1>4, <1>5, <1>6 DEF t

\* The beginning of a sequence and the rest of it.
LEMMA BeginningIs ==
  ASSUME NEW S, NEW s \in Seq(S), NEW n \in 0 .. Len(s)
  PROVE  /\ SubSeq(s, 1, n) \in Seq(S) /\ Len(SubSeq(s, 1, n)) = n
         /\ \A i \in 1 .. n : SubSeq(s, 1, n)[i] = s[i]
<1>1. Len(s) \in Nat /\ n \in Nat /\ n <= Len(s) /\ \A i \in 1 .. n : s[i] \in S
  OBVIOUS
<1>2. /\ SubSeq(s, 1, n) \in Seq(S) /\ Len(SubSeq(s, 1, n)) = IF 1 <= n THEN n - 1 + 1 ELSE 0
      /\ \A i \in 1 .. n - 1 + 1 : SubSeq(s, 1, n)[i] = s[1 + i - 1]
  BY <1>1, SubSeqProperties
<1>3. n - 1 + 1 = n /\ \A i \in 1 .. n : 1 + i - 1 = i
  BY <1>1
<1>4. (IF 1 <= n THEN n - 1 + 1 ELSE 0) = n
  BY <1>1
<1> QED
  BY <1>2, <1>3, <1>4, Zenon

LEMMA RestIs ==
  ASSUME NEW S, NEW s \in Seq(S), NEW n \in 0 .. Len(s)
  PROVE  /\ SubSeq(s, n + 1, Len(s)) \in Seq(S) /\ Len(SubSeq(s, n + 1, Len(s))) = Len(s) - n
         /\ \A i \in 1 .. Len(s) - n : SubSeq(s, n + 1, Len(s))[i] = s[n + i]
<1>1. Len(s) \in Nat /\ n \in Nat /\ n <= Len(s) /\ n + 1 \in Int /\ Len(s) \in Int
      /\ \A i \in n + 1 .. Len(s) : s[i] \in S
  OBVIOUS
<1>2. /\ SubSeq(s, n + 1, Len(s)) \in Seq(S)
      /\ Len(SubSeq(s, n + 1, Len(s))) = IF n + 1 <= Len(s) THEN Len(s) - (n + 1) + 1 ELSE 0
      /\ \A i \in 1 .. Len(s) - (n + 1) + 1 : SubSeq(s, n + 1, Len(s))[i] = s[n + 1 + i - 1]
  BY <1>1, SubSeqProperties
<1>3. Len(s) - (n + 1) + 1 = Len(s) - n /\ \A i \in 1 .. Len(s) - n : n + 1 + i - 1 = n + i
  BY <1>1
<1>4. (IF n + 1 <= Len(s) THEN Len(s) - (n + 1) + 1 ELSE 0) = Len(s) - n
  BY <1>1
<1> QED
  BY <1>2, <1>3, <1>4, Zenon

Parted(S, s, n, p, t) ==
    /\ s \in Seq(S) /\ IsInjective(s) /\ n \in 0 .. Len(s)
    /\ p \in Seq(S) /\ Len(p) = n /\ \A i \in 1 .. n : p[i] = s[i]
    /\ t \in Seq(S) /\ Len(t) = Len(s) - n /\ \A i \in 1 .. Len(s) - n : t[i] = s[n + i]

LEMMA PartsHold ==
  ASSUME NEW S, NEW s, NEW n, NEW p, NEW t, Parted(S, s, n, p, t)
  PROVE  /\ IsInjective(p) /\ IsInjective(t)
         /\ ToSet(p) \cap ToSet(t) = {} /\ ToSet(p) \cup ToSet(t) = ToSet(s)
<1> USE DEF Parted
<1>1. Len(s) \in Nat /\ n \in Nat /\ n <= Len(s) /\ DOMAIN s = 1 .. Len(s)
      /\ ToSet(s) = {s[i] : i \in 1 .. Len(s)} /\ \A i \in 1 .. Len(s) : s[i] \in S
  BY HoldsItems
<1>2. Len(p) = n /\ \A i \in 1 .. n : p[i] = s[i]
  OBVIOUS
<1>3. Len(t) \in Nat /\ \A i \in 1 .. Len(t) : t[i] = s[n + i] /\ n + i \in 1 .. Len(s)
  BY <1>1
<1>4. /\ ToSet(p) = {p[i] : i \in 1 .. n} /\ DOMAIN p = 1 .. n
      /\ ToSet(t) = {t[i] : i \in 1 .. Len(t)} /\ DOMAIN t = 1 .. Len(t)
  <2>1. ToSet(p) = {p[i] : i \in 1 .. Len(p)} /\ DOMAIN p = 1 .. Len(p)
    BY <1>2, HoldsItems
  <2>2. ToSet(t) = {t[i] : i \in 1 .. Len(t)} /\ DOMAIN t = 1 .. Len(t)
    BY <1>3, HoldsItems
  <2> QED
    BY <1>2, <2>1, <2>2
<1>5. \A c, d \in 1 .. Len(s) : s[c] = s[d] => c = d
  BY <1>1 DEF IsInjective
<1>6. IsInjective(p)
  <2> SUFFICES ASSUME NEW a \in 1 .. n, NEW b \in 1 .. n, p[a] = p[b] PROVE a = b
    BY <1>4 DEF IsInjective
  <2>1. a \in 1 .. Len(s) /\ b \in 1 .. Len(s)
    BY <1>1
  <2>2. s[a] = s[b]
    BY <1>2
  <2> QED
    BY ONLY <1>5, <2>1, <2>2
<1>7. IsInjective(t)
  <2> SUFFICES ASSUME NEW a \in 1 .. Len(t), NEW b \in 1 .. Len(t), t[a] = t[b] PROVE a = b
    BY <1>4 DEF IsInjective
  <2>1. n + a \in 1 .. Len(s) /\ n + b \in 1 .. Len(s) /\ s[n + a] = s[n + b]
    <3>1. t[a] = s[n + a] /\ n + a \in 1 .. Len(s) /\ t[b] = s[n + b] /\ n + b \in 1 .. Len(s)
      BY <1>3
    <3> QED
      BY <3>1
  <2>2. n + a = n + b
    BY <1>5, <2>1
  <2> QED
    BY <1>1, <2>2
<1>8. ToSet(p) \cap ToSet(t) = {}
  <2> SUFFICES ASSUME NEW a \in 1 .. n, NEW b \in 1 .. Len(t), p[a] = t[b] PROVE FALSE
    BY <1>4
  <2>1. a \in 1 .. Len(s) /\ n + b \in 1 .. Len(s) /\ s[a] = s[n + b] /\ a # n + b
    <3>1. t[b] = s[n + b] /\ n + b \in 1 .. Len(s) /\ p[a] = s[a]
      BY <1>2, <1>3
    <3>2. a \in 1 .. Len(s) /\ a # n + b
      BY <1>1, <1>3
    <3> QED
      BY <3>1, <3>2
  <2> QED
    BY <1>5, <2>1
<1>9. ToSet(p) \cup ToSet(t) = ToSet(s)
  <2>1. ASSUME NEW i \in 1 .. n PROVE p[i] \in ToSet(s)
    BY <1>1, <1>2
  <2>2. ASSUME NEW i \in 1 .. Len(t) PROVE t[i] \in ToSet(s)
    <3>1. n + i \in 1 .. Len(s) /\ t[i] = s[n + i]
      BY <1>1, <1>3
    <3> QED
      BY <1>1, <3>1
  <2>3. ASSUME NEW i \in 1 .. Len(s) PROVE s[i] \in ToSet(p) \cup ToSet(t)
    <3>1. CASE i <= n
      BY <1>1, <1>2, <1>4, <3>1
    <3>2. CASE i > n
      <4>1. i - n \in 1 .. Len(t) /\ n + (i - n) = i
        BY <1>1, <1>3, <3>2
      <4>2. t[i - n] = s[i]
        BY <1>3, <4>1
      <4> QED
        BY <1>4, <4>1, <4>2
    <3> QED
      BY <1>1, <3>1, <3>2
  <2>4. ToSet(s) \subseteq ToSet(p) \cup ToSet(t)
    BY <1>1, <2>3
  <2>5. ToSet(p) \subseteq ToSet(s) /\ ToSet(t) \subseteq ToSet(s)
    BY <1>4, <2>1, <2>2
  <2> QED
    BY <2>4, <2>5
<1> QED
  BY <1>6, <1>7, <1>8, <1>9

LEMMA RemoveHolds ==
  ASSUME NEW S, NEW s \in Seq(S), IsInjective(s), NEW k, NEW q, q = RemoveFirst(s, k)
  PROVE  /\ q \in Seq(S) /\ IsInjective(q) /\ ToSet(q) = ToSet(s) \ {k}
         /\ Len(q) = IF k \in ToSet(s) THEN Len(s) - 1 ELSE Len(s)
<1>1. Len(s) \in Nat /\ DOMAIN s = 1 .. Len(s) /\ ToSet(s) = {s[i] : i \in 1 .. Len(s)}
      /\ \A i \in 1 .. Len(s) : s[i] \in S
  BY HoldsItems
<1>2. CASE k \notin ToSet(s)
  <2>1. q = s
    BY <1>1, <1>2 DEF RemoveFirst
  <2> QED
    BY <1>2, <2>1
<1>3. CASE k \in ToSet(s)
  <2> DEFINE I == {i \in 1 .. Len(s) : s[i] = k}
  <2>1. I # {} /\ I \in SUBSET Nat
    BY <1>1, <1>3
  <2>2. q = RemoveAt(s, Min(I))
    BY <1>1, <1>3, <2>1 DEF RemoveFirst, SelectInSeq
  <2>3. Min(I) \in I
    <3> HIDE DEF I
    <3> QED
      BY <2>1, LeastOf
  <2> DEFINE n == Min(I)
             p == SubSeq(s, 1, n - 1)
             t == SubSeq(s, n + 1, Len(s))
             r == SubSeq(s, n, Len(s))
  <2>4. n \in 1 .. Len(s) /\ s[n] = k /\ q = p \o t
    BY <2>2, <2>3 DEF RemoveAt
  <2> HIDE DEF n
  <2>5. /\ p \in Seq(S) /\ r \in Seq(S) /\ IsInjective(p) /\ IsInjective(r)
        /\ Len(p) = n - 1 /\ Len(r) = Len(s) - (n - 1)
        /\ ToSet(p) \cap ToSet(r) = {} /\ ToSet(p) \cup ToSet(r) = ToSet(s)
    <3> DEFINE m == n - 1
    <3>1. m \in 0 .. Len(s) /\ m + 1 = n
      BY <1>1, <2>4
    <3>2. p = SubSeq(s, 1, m) /\ r = SubSeq(s, m + 1, Len(s))
      BY <3>1
    <3>4. /\ p \in Seq(S) /\ Len(p) = m /\ \A i \in 1 .. m : p[i] = s[i]
          /\ r \in Seq(S) /\ Len(r) = Len(s) - m /\ \A i \in 1 .. Len(s) - m : r[i] = s[m + i]
      <4> HIDE DEF m
      <4> QED
        BY <3>1, <3>2, BeginningIs, RestIs, SMTT(30)
    <3> HIDE DEF m, p, r
    <3>3. /\ p \in Seq(S) /\ r \in Seq(S) /\ IsInjective(p) /\ IsInjective(r)
          /\ Len(p) = m /\ Len(r) = Len(s) - m
          /\ ToSet(p) \cap ToSet(r) = {} /\ ToSet(p) \cup ToSet(r) = ToSet(s)
      <4>1. /\ IsInjective(p) /\ IsInjective(r)
            /\ ToSet(p) \cap ToSet(r) = {} /\ ToSet(p) \cup ToSet(r) = ToSet(s)
        <5>1. Parted(S, s, m, p, r)
          BY <3>1, <3>4 DEF Parted
        <5> QED
          BY <5>1, PartsHold
      <4> QED
        BY <3>4, <4>1
    <3> QED
      BY <3>3 DEF m
  <2>6. r # << >> /\ Head(r) = k /\ t = Tail(r)
    <3>1. Head(SubSeq(s, n, Len(s))) = s[n] /\ Tail(SubSeq(s, n, Len(s))) = SubSeq(s, n + 1, Len(s))
      <4>1. Len(s) \in n .. Len(s)
        BY <1>1, <2>4
      <4> QED
        BY <2>4, <4>1, HeadTailOfSubSeq
    <3>2. Len(r) >= 1
      BY <1>1, <2>4, <2>5
    <3>3. r # << >>
      <4> HIDE DEF r
      <4>1. ASSUME r = << >> PROVE FALSE
        <5>1. Len(r) = 0
          BY <4>1, EmptySeq
        <5> QED
          BY <3>2, <5>1
      <4> QED
        BY <4>1
    <3> QED
      BY <2>4, <3>1, <3>3
  <2>7. /\ t \in Seq(S) /\ IsInjective(t) /\ ToSet(t) = ToSet(r) \ {k} /\ Len(t) = Len(r) - 1
        /\ k \in ToSet(r)
    <3> HIDE DEF r, t
    <3> QED
      BY <2>5, <2>6, TailHolds, HeadTailProperties
  <2> HIDE DEF p, t, r
  <2>8. ToSet(q) = ToSet(p) \cup ToSet(t) /\ Len(q) = Len(p) + Len(t) /\ q \in Seq(S)
        /\ \A i \in 1 .. Len(p) + Len(t) : q[i] = IF i <= Len(p) THEN p[i] ELSE t[i - Len(p)]
    <3>1. q \in Seq(S) /\ Len(q) = Len(p) + Len(t)
          /\ \A i \in 1 .. Len(p) + Len(t) : q[i] = IF i <= Len(p) THEN p[i] ELSE t[i - Len(p)]
      <4>1. p \in Seq(S) /\ t \in Seq(S) /\ q = p \o t
        BY <2>4, <2>5, <2>7
      <4>2. /\ p \o t \in Seq(S) /\ Len(p \o t) = Len(p) + Len(t)
            /\ \A i \in 1 .. Len(p) + Len(t) :
                  (p \o t)[i] = IF i <= Len(p) THEN p[i] ELSE t[i - Len(p)]
        BY <4>1, ConcatProperties
      <4> QED
        BY <4>1, <4>2
    <3>2. Range(q) = Range(p) \cup Range(t)
      BY <2>4, <2>5, <2>7, RangeConcatenation
    <3>3. ToSet(q) = Range(q) /\ ToSet(p) = Range(p) /\ ToSet(t) = Range(t)
      BY DEF ToSet, Range
    <3> QED
      BY <3>1, <3>2, <3>3
  <2>9. IsInjective(q)
    <3>0. /\ Len(p) \in Nat /\ Len(t) \in Nat /\ DOMAIN p = 1 .. Len(p) /\ DOMAIN t = 1 .. Len(t)
          /\ DOMAIN q = 1 .. Len(p) + Len(t)
          /\ ToSet(p) = {p[i] : i \in 1 .. Len(p)} /\ ToSet(t) = {t[i] : i \in 1 .. Len(t)}
      BY <2>5, <2>7, <2>8, HoldsItems
    <3>1. ToSet(p) \cap ToSet(t) = {}
      BY <2>5, <2>7
    <3> SUFFICES ASSUME NEW a \in 1 .. Len(p) + Len(t), NEW b \in 1 .. Len(p) + Len(t), q[a] = q[b]
                 PROVE  a = b
      BY <3>0 DEF IsInjective
    <3>2. CASE a <= Len(p) /\ b <= Len(p)
      <4>1. a \in 1 .. Len(p) /\ b \in 1 .. Len(p) /\ p[a] = p[b]
        BY <2>8, <3>0, <3>2
      <4> QED
        BY <2>5, <3>0, <4>1 DEF IsInjective
    <3>3. CASE a > Len(p) /\ b > Len(p)
      <4>1. a - Len(p) \in 1 .. Len(t) /\ b - Len(p) \in 1 .. Len(t) /\ t[a - Len(p)] = t[b - Len(p)]
        BY <2>8, <3>0, <3>3
      <4>2. a - Len(p) = b - Len(p)
        BY <2>7, <3>0, <4>1 DEF IsInjective
      <4> QED
        BY <3>0, <4>2
    <3>4. CASE a <= Len(p) /\ b > Len(p)
      <4>1. a \in 1 .. Len(p) /\ b - Len(p) \in 1 .. Len(t) /\ p[a] = t[b - Len(p)]
        BY <2>8, <3>0, <3>4
      <4> QED
        BY <3>0, <3>1, <4>1
    <3>5. CASE a > Len(p) /\ b <= Len(p)
      <4>1. b \in 1 .. Len(p) /\ a - Len(p) \in 1 .. Len(t) /\ p[b] = t[a - Len(p)]
        BY <2>8, <3>0, <3>5
      <4> QED
        BY <3>0, <3>1, <4>1
    <3> QED
      BY <3>0, <3>2, <3>3, <3>4, <3>5
  <2>10. ToSet(q) = ToSet(s) \ {k}
    BY <2>5, <2>7, <2>8
  <2>11. Len(q) = Len(s) - 1
    BY <1>1, <2>4, <2>5, <2>7, <2>8
  <2> QED
    BY <1>3, <2>8, <2>9, <2>10, <2>11
<1> QED
  BY <1>2, <1>3

LEMMA SplitHolds ==
  ASSUME NEW S, NEW s \in Seq(S), IsInjective(s), NEW n \in 0 .. Len(s)
  PROVE  Parted(S, s, n, SubSeq(s, 1, n), SubSeq(s, n + 1, Len(s)))
<1>1. /\ SubSeq(s, 1, n) \in Seq(S) /\ Len(SubSeq(s, 1, n)) = n
      /\ \A i \in 1 .. n : SubSeq(s, 1, n)[i] = s[i]
  BY BeginningIs
<1>2. /\ SubSeq(s, n + 1, Len(s)) \in Seq(S) /\ Len(SubSeq(s, n + 1, Len(s))) = Len(s) - n
      /\ \A i \in 1 .. Len(s) - n : SubSeq(s, n + 1, Len(s))[i] = s[n + i]
  BY RestIs
<1> QED
  BY <1>1, <1>2, Zenon DEF Parted

(***************************************************************************)
(* The cache of recordings.                                                *)
(***************************************************************************)
\* The byte count of a set of recordings is a sum over it.
LEMMA SumOfIsSum ==
  ASSUME NEW D \in SUBSET Recording, IsFiniteSet(D)
  PROVE  \E g : SumBy(SizeOf, D, g) /\ SumOf(D) = g[D]
<1> DEFINE Folds(g) == g = [s \in SUBSET D |->
                              IF s = {} THEN 0 ELSE SizeOf[First(s)] + g[s \ {First(s)}]]
<1>1. SumOf(D) = (CHOOSE g : Folds(g))[D]
  BY Zenon DEF SumOf, MapThenSumSet, MapThenFoldSet, First
<1>2. \A g : SumBy(SizeOf, D, g) <=> Folds(g)
  BY DEF SumBy
<1>3. \E g : Folds(g)
  <2> HIDE DEF Folds
  <2> QED
    BY <1>2, SumExists
<1>4. Folds(CHOOSE g : Folds(g))
  <2> HIDE DEF Folds
  <2> QED
    BY <1>3, Zenon
<1> HIDE DEF Folds
<1>5. SumBy(SizeOf, D, CHOOSE g : Folds(g))
  BY <1>2, <1>4
<1> QED
  BY <1>1, <1>5

LEMMA SumOfParts ==
  ASSUME NEW A \in SUBSET Recording, NEW D \in SUBSET Recording, IsFiniteSet(A), IsFiniteSet(D),
         A \cap D = {}
  PROVE  /\ SumOf(A) \in Nat /\ SumOf(D) \in Nat /\ SumOf(A \cup D) = SumOf(A) + SumOf(D)
<1> DEFINE S == A \cup D
           w == [k \in S |-> SizeOf[k]]
<1>1. IsFiniteSet(S) /\ S \in SUBSET Recording /\ A \in SUBSET S /\ D \in SUBSET (S \ A)
      /\ D \in SUBSET S
  BY FS_Union
<1>2. w \in [S -> Nat] /\ \A k \in S : w[k] = SizeOf[k]
  BY <1>1, MediaCacheAssumption
<1> HIDE DEF S, w
<1>3. PICK g : SumBy(w, S, g)
  BY <1>1, SumExists
<1>4. \A T \in SUBSET S : SumOf(T) = g[T]
  <2> TAKE T \in SUBSET S
  <2>1. IsFiniteSet(T) /\ T \in SUBSET Recording
    BY <1>1, FS_Subset
  <2>2. PICK h : SumBy(SizeOf, T, h) /\ SumOf(T) = h[T]
    BY <2>1, SumOfIsSum
  <2>3. T \in SUBSET (T \cap S) /\ \A k \in T : SizeOf[k] = w[k]
    BY <1>2
  <2>4. h[T] = g[T]
    BY <1>3, <2>1, <2>2, <2>3, SumSame
  <2> QED
    BY <2>2, <2>4
<1>5. g[A] \in Nat /\ g[D] \in Nat /\ g[A \cup D] = g[A] + g[D]
  <2>1. \A T \in SUBSET S : g[T] \in Nat
    BY <1>1, <1>2, <1>3, SumTyped
  <2>2. \A T \in SUBSET (S \ A) : g[A \cup T] = g[A] + g[T]
    BY <1>1, <1>2, <1>3, SumParts
  <2> QED
    BY <1>1, <2>1, <2>2
<1> QED
  BY <1>1, <1>4, <1>5 DEF S

LEMMA SumOfOne ==
  /\ SumOf({}) = 0
  /\ \A k \in Recording : SumOf({k}) = SizeOf[k] /\ SizeOf[k] \in Nat
<1>1. SumOf({}) = 0
  <2>1. IsFiniteSet({}) /\ {} \in SUBSET Recording
    BY FS_EmptySet
  <2>2. PICK g : SumBy(SizeOf, {}, g) /\ SumOf({}) = g[{}]
    BY <2>1, SumOfIsSum
  <2> QED
    BY <2>2, SumUnfolds
<1>2. ASSUME NEW k \in Recording PROVE SumOf({k}) = SizeOf[k] /\ SizeOf[k] \in Nat
  <2>1. IsFiniteSet({k}) /\ {k} \in SUBSET Recording /\ SizeOf[k] \in Nat
    BY FS_Singleton, MediaCacheAssumption
  <2>2. PICK g : SumBy(SizeOf, {k}, g) /\ SumOf({k}) = g[{k}]
    BY <2>1, SumOfIsSum
  <2>3. First({k}) = k /\ {k} \ {k} = {}
    BY FirstIsOne
  <2>4. g[{k}] = SizeOf[k] + g[{}]
    <3>1. g[{k}] = IF {k} = {} THEN 0 ELSE SizeOf[First({k})] + g[{k} \ {First({k})}]
      <4>1. {k} \in SUBSET {k}
        OBVIOUS
      <4> QED
        BY <2>2, <4>1, SumUnfolds
    <3> QED
      BY <2>3, <3>1
  <2>5. g[{}] = 0
    <3>1. {} \in SUBSET {k}
      OBVIOUS
    <3> QED
      BY <2>2, <3>1, SumUnfolds
  <2> QED
    BY <2>1, <2>2, <2>4, <2>5
<1> QED
  BY <1>1, <1>2

\* A partial response is exactly what its range asks for.
LEMMA ResponseExact ==
  ASSUME NEW r \in Ranges, NEW size \in Nat, NEW a, a = Response(r, size)
  PROVE  /\ a.status \in {200, 206, 416}
         /\ a.status = 206 =>
              a.first .. a.last =
                {b \in 0 .. a.size - 1 :
                   /\ IF a.asked.start >= 0 THEN b >= a.asked.start ELSE b >= a.size + a.asked.start
                   /\ a.asked.stop = ToEnd \/ b < a.asked.stop}
<1>1. CASE r = Whole
  BY <1>1 DEF Response
<1>2. CASE r # Whole
  <2> DEFINE first == FirstByte(r, size)
             stop == Stop(r, size)
  <2>1. r.start \in {-2, 0, 1} /\ r.stop \in {-1, 1, 3}
    BY <1>2 DEF Ranges, ToEnd
  <2>2. CASE first >= size \/ stop <= first
    BY <1>2, <2>2 DEF Response
  <2>3. CASE ~(first >= size \/ stop <= first)
    <3>1. a = [status |-> 206, first |-> first, last |-> stop - 1, size |-> size, asked |-> r]
      BY <1>2, <2>3 DEF Response
    <3>2. /\ first \in Nat /\ stop \in Nat /\ stop <= size
          /\ \A b \in 0 .. size - 1 :
                (IF r.start >= 0 THEN b >= r.start ELSE b >= size + r.start) <=> b >= first
          /\ \A b \in 0 .. size - 1 : (r.stop = ToEnd \/ b < r.stop) <=> b < stop
      BY <2>1 DEF FirstByte, Stop, ToEnd
    <3> HIDE DEF first, stop
    <3>3. first .. stop - 1 = {b \in 0 .. size - 1 : b >= first /\ b < stop}
      BY <3>2
    <3> QED
      BY <3>1, <3>2, <3>3
  <2> QED
    BY <2>2, <2>3
<1> QED
  BY <1>1, <1>2

ReplyTrue == reply.status \in {0, 200, 206, 416, 502, 503} /\ RangeExact

LEMMA ServedTrue ==
  ASSUME NEW k \in Recording, Serve(k) PROVE ReplyTrue'
<1>1. PICK r \in Ranges : reply' = Response(r, SizeOf[k])
  BY DEF Serve
<1>2. SizeOf[k] \in Nat
  BY MediaCacheAssumption
<1> QED
  BY <1>1, <1>2, ResponseExact DEF ReplyTrue, RangeExact

LEMMA PlainTrue ==
  ASSUME NEW n \in {502, 503}, reply' = [status |-> n] PROVE ReplyTrue'
BY DEF ReplyTrue, RangeExact

\* What is kept: bounded, counted, and with a timer each.
KeptInv ==
    /\ cached \in Seq(Recording) /\ IsInjective(cached) /\ Len(cached) <= MaxEntries
    /\ bytes = SumOf(Cached) /\ bytes <= MaxBytes /\ timers = Cached

\* What is loaded: the semaphore is held by one, its waiters are queued, and
\* none of it is at hand.
LoadsInv ==
    /\ DOMAIN loads \in SUBSET Recording /\ IsFiniteSet(DOMAIN loads)
    /\ Cardinality(DOMAIN loads) <= MaxPending
    /\ \A k \in DOMAIN loads : loads[k] \in {"waits", "loads", "loaded", "failed"}
    /\ queue \in Seq(Recording) /\ IsInjective(queue)
    /\ ToSet(queue) = {k \in DOMAIN loads : loads[k] = "waits"}
    /\ OneLoad

CacheInv == KeptInv /\ LoadsInv /\ ReplyTrue

LEMMA CacheInitInv == CacheInit => CacheInv
<1> SUFFICES ASSUME CacheInit PROVE CacheInv
  OBVIOUS
<1>1. /\ cached = << >> /\ bytes = 0 /\ loads = << >> /\ queue = << >> /\ timers = {} /\ reply = NoReply
  BY DEF CacheInit
<1>2. << >> \in Seq(Recording) /\ IsInjective(<< >>) /\ Len(<< >>) = 0 /\ ToSet(<< >>) = {}
      /\ DOMAIN << >> = {}
  BY DEF IsInjective, ToSet
<1>3. IsFiniteSet({}) /\ Cardinality({}) = 0
  BY FS_EmptySet
<1>4. KeptInv
  BY <1>1, <1>2, SumOfOne, MediaCacheAssumption DEF KeptInv, Cached
<1>5. LoadsInv
  BY <1>1, <1>2, <1>3, MediaCacheAssumption DEF LoadsInv, OneLoad
<1>6. ReplyTrue
  BY <1>1 DEF ReplyTrue, RangeExact, NoReply
<1> QED
  BY <1>4, <1>5, <1>6 DEF CacheInv

\* Loads stay bounded when one ends.
LEMMA LoadsShrink ==
  ASSUME LoadsInv, NEW k \in DOMAIN loads, loads' = Restrict(loads, DOMAIN loads \ {k}),
         loads[k] \in {"loaded", "failed"}, UNCHANGED <<cached, queue>>
  PROVE  LoadsInv'
<1>1. DOMAIN loads' = DOMAIN loads \ {k} /\ \A j \in DOMAIN loads' : loads'[j] = loads[j]
  BY DEF Restrict
<1>2. /\ IsFiniteSet(DOMAIN loads \ {k})
      /\ Cardinality(DOMAIN loads \ {k}) = Cardinality(DOMAIN loads) - 1
      /\ Cardinality(DOMAIN loads) \in Nat
  BY FS_RemoveElement, FS_CardinalityType DEF LoadsInv
<1>3. IsFiniteSet(DOMAIN loads') /\ Cardinality(DOMAIN loads') <= MaxPending
  BY <1>1, <1>2, MediaCacheAssumption DEF LoadsInv
<1>4. ToSet(queue)' = {j \in DOMAIN loads' : loads'[j] = "waits"}
  BY <1>1 DEF LoadsInv
<1>5. OneLoad'
  BY <1>1 DEF LoadsInv, OneLoad, Cached
<1> QED
  BY <1>1, <1>3, <1>4, <1>5 DEF LoadsInv

\* One load changes its state; the queue and the cache follow.
LEMMA LoadsTurn ==
  ASSUME LoadsInv, NEW k \in DOMAIN loads, NEW state \in {"loads", "loaded", "failed"},
         loads' = [loads EXCEPT ![k] = state],
         queue' \in Seq(Recording), IsInjective(queue'), ToSet(queue') = ToSet(queue) \ {k},
         state = "loads" => SerialFree /\ loads[k] = "waits",
         Cached' \subseteq Cached \cup (IF state = "loaded" THEN {k} ELSE {})
  PROVE  LoadsInv'
<1>1. DOMAIN loads' = DOMAIN loads /\ loads'[k] = state
      /\ \A j \in DOMAIN loads : j # k => loads'[j] = loads[j]
  OBVIOUS
<1>2. ToSet(queue') = {j \in DOMAIN loads' : loads'[j] = "waits"}
  BY <1>1 DEF LoadsInv
<1>3. OneLoad'
  BY <1>1 DEF LoadsInv, OneLoad, SerialFree
<1> QED
  BY <1>1, <1>2, <1>3 DEF LoadsInv

\* The loop that makes room, and what then fits.
LEMMA RoomIsMade ==
  ASSUME KeptInv, NEW k \in Recording, SizeOf[k] <= MaxBytes, k \notin Cached,
         NEW n, n = Outdated(SizeOf[k]),
         cached' = Append(SubSeq(cached, n + 1, Len(cached)), k),
         bytes' = bytes - SumOf(ToSet(SubSeq(cached, 1, n))) + SizeOf[k],
         timers' = (timers \ ToSet(SubSeq(cached, 1, n))) \cup {k}
  PROVE  KeptInv' /\ Cached' \subseteq Cached \cup {k}
<1> DEFINE out == SubSeq(cached, 1, n)
           kept == SubSeq(cached, n + 1, Len(cached))
           fits == {i \in 0 .. Len(cached) : Room(i, SizeOf[k])}
<1>0. cached \in Seq(Recording) /\ IsInjective(cached) /\ Len(cached) \in Nat /\ SizeOf[k] \in Nat
  <2>1. cached \in Seq(Recording) /\ IsInjective(cached)
    BY DEF KeptInv
  <2>2. SizeOf[k] \in Nat
    BY SumOfOne
  <2> QED
    BY <2>1, <2>2
<1>1. Len(cached) \in fits
  <2>1. SubSeq(cached, Len(cached) + 1, Len(cached)) = << >>
    BY <1>0, SubSeqEmpty
  <2> QED
    BY <1>0, <2>1 DEF Room
<1>2. n \in fits
  <2>1. fits \in SUBSET Nat
    BY <1>0
  <2>2. n = Min(fits)
    BY DEF Outdated
  <2> HIDE DEF fits
  <2> QED
    BY <1>1, <2>1, <2>2, LeastOf
<1>3. /\ n \in 0 .. Len(cached)
      /\ Len(kept) = 0 \/ (SumOf(ToSet(kept)) + SizeOf[k] <= MaxBytes /\ Len(kept) < MaxEntries)
  BY <1>2 DEF Room
<1>4. Parted(Recording, cached, n, out, kept)
  BY <1>0, <1>3, SplitHolds
<1> HIDE DEF out, kept, fits
<1>5. /\ out \in Seq(Recording) /\ kept \in Seq(Recording) /\ IsInjective(kept)
      /\ ToSet(out) \cap ToSet(kept) = {} /\ ToSet(out) \cup ToSet(kept) = Cached
  <2>1. out \in Seq(Recording) /\ kept \in Seq(Recording)
    BY <1>4 DEF Parted
  <2> QED
    BY <1>4, <2>1, PartsHold DEF Cached
<1>6. /\ ToSet(kept) \in SUBSET Recording /\ IsFiniteSet(ToSet(kept))
      /\ ToSet(out) \in SUBSET Recording /\ IsFiniteSet(ToSet(out)) /\ Len(kept) \in Nat
      /\ Len(kept) = 0 => ToSet(kept) = {}
  BY <1>5, HoldsItems
<1>7. cached' = Append(kept, k) /\ bytes' = bytes - SumOf(ToSet(out)) + SizeOf[k]
      /\ timers' = (timers \ ToSet(out)) \cup {k}
  BY DEF kept, out
<1>8. /\ cached' \in Seq(Recording) /\ IsInjective(cached') /\ Cached' = ToSet(kept) \cup {k}
      /\ Len(cached') = Len(kept) + 1
  <2>1. k \notin ToSet(kept)
    BY <1>5
  <2>2. /\ Append(kept, k) \in Seq(Recording) /\ IsInjective(Append(kept, k))
        /\ ToSet(Append(kept, k)) = ToSet(kept) \cup {k} /\ Len(Append(kept, k)) = Len(kept) + 1
    BY <1>5, <2>1, AppendHolds
  <2>3. cached' = Append(kept, k)
    BY <1>7
  <2> QED
    BY <2>2, <2>3, Zenon DEF Cached
<1>9. /\ SumOf(ToSet(out)) \in Nat /\ SumOf(ToSet(kept)) \in Nat
      /\ bytes = SumOf(ToSet(out)) + SumOf(ToSet(kept))
  BY <1>5, <1>6, SumOfParts DEF KeptInv
<1>10. SumOf(Cached') = SumOf(ToSet(kept)) + SizeOf[k]
  <2>1. IsFiniteSet({k}) /\ {k} \in SUBSET Recording /\ ToSet(kept) \cap {k} = {}
    BY <1>5, FS_Singleton
  <2> QED
    BY <1>6, <1>8, <2>1, SumOfParts, SumOfOne
<1>11. bytes' = SumOf(Cached')
  BY <1>0, <1>7, <1>9, <1>10
<1>12. bytes' <= MaxBytes
  <2>1. CASE Len(kept) = 0
    <3>1. SumOf(ToSet(kept)) = 0
      BY <1>6, <2>1, SumOfOne
    <3> QED
      BY <1>0, <1>10, <1>11, <3>1
  <2>2. CASE Len(kept) # 0
    <3>1. SumOf(ToSet(kept)) + SizeOf[k] <= MaxBytes
      BY <1>3, <2>2
    <3>2. bytes' = SumOf(ToSet(kept)) + SizeOf[k]
      BY <1>10, <1>11
    <3> QED
      BY <3>1, <3>2, Zenon
  <2> QED
    BY <2>1, <2>2
<1>13. Len(cached') <= MaxEntries
  BY <1>3, <1>6, <1>8, MediaCacheAssumption
<1>14. timers' = Cached'
  BY <1>5, <1>7, <1>8 DEF KeptInv
<1> QED
  BY <1>5, <1>8, <1>11, <1>12, <1>13, <1>14 DEF KeptInv

LEMMA CacheStep == CacheInv /\ [CacheNext]_cacheVars => CacheInv'
<1> SUFFICES ASSUME CacheInv, [CacheNext]_cacheVars PROVE CacheInv'
  OBVIOUS
<1> USE DEF CacheInv
<1>a. ASSUME UNCHANGED <<cached, bytes, timers>> PROVE KeptInv'
  BY <1>a DEF KeptInv, Cached
<1>b. ASSUME UNCHANGED <<loads, queue>>, Cached' \subseteq Cached PROVE LoadsInv'
  BY <1>b DEF LoadsInv, OneLoad
<1>c. ASSUME UNCHANGED reply PROVE ReplyTrue'
  BY <1>c DEF ReplyTrue, RangeExact
<1>d. cached \in Seq(Recording) /\ IsInjective(cached) /\ Len(cached) \in Nat
      /\ Cached \in SUBSET Recording /\ IsFiniteSet(Cached)
  <2>1. cached \in Seq(Recording) /\ IsInjective(cached)
    BY DEF KeptInv
  <2> QED
    BY <2>1, HoldsItems DEF Cached
<1>1. ASSUME NEW k \in Recording, ViewCached(k) PROVE CacheInv'
  <2> DEFINE q == RemoveFirst(cached, k)
  <2>1. /\ k \in Cached /\ cached' = Append(q, k) /\ Serve(k)
        /\ UNCHANGED <<bytes, loads, queue, timers>>
    BY <1>1 DEF ViewCached, Moved
  <2>2. q \in Seq(Recording) /\ IsInjective(q) /\ ToSet(q) = Cached \ {k} /\ Len(q) = Len(cached) - 1
    BY <1>d, <2>1, RemoveHolds DEF Cached
  <2> HIDE DEF q
  <2>3. /\ cached' \in Seq(Recording) /\ IsInjective(cached') /\ ToSet(cached') = ToSet(q) \cup {k}
        /\ Len(cached') = Len(q) + 1
    BY <2>1, <2>2, AppendHolds
  <2>4. Cached' = Cached /\ Len(cached') = Len(cached)
    BY <1>d, <2>1, <2>2, <2>3 DEF Cached
  <2>5. KeptInv'
    BY <2>1, <2>3, <2>4 DEF KeptInv
  <2>6. LoadsInv'
    BY <1>b, <2>1, <2>4
  <2> QED
    BY <2>1, <2>5, <2>6, ServedTrue
<1>2. ASSUME NEW k \in Recording, ViewBusy(k) PROVE CacheInv'
  <2>1. UNCHANGED <<cached, bytes, loads, queue, timers>> /\ reply' = [status |-> 503]
    BY <1>2 DEF ViewBusy
  <2>2. Cached' = Cached
    BY <2>1 DEF Cached
  <2> QED
    BY <1>a, <1>b, <2>1, <2>2, PlainTrue
<1>3. ASSUME NEW k \in Recording, ViewLoads(k) PROVE CacheInv'
  <2>1. /\ k \notin Cached \cup DOMAIN loads /\ Cardinality(DOMAIN loads) < MaxPending
        /\ loads' = [j \in DOMAIN loads \cup {k} |-> IF j = k THEN "waits" ELSE loads[j]]
        /\ queue' = Append(queue, k) /\ UNCHANGED <<cached, bytes, timers, reply>>
    BY <1>3 DEF ViewLoads
  <2>2. DOMAIN loads' = DOMAIN loads \cup {k} /\ loads'[k] = "waits"
        /\ \A j \in DOMAIN loads : loads'[j] = loads[j]
    BY <2>1
  <2>3. /\ IsFiniteSet(DOMAIN loads \cup {k}) /\ Cardinality(DOMAIN loads) \in Nat
        /\ Cardinality(DOMAIN loads \cup {k}) = Cardinality(DOMAIN loads) + 1
    BY <2>1, FS_AddElement, FS_CardinalityType DEF LoadsInv
  <2>4. IsFiniteSet(DOMAIN loads') /\ Cardinality(DOMAIN loads') <= MaxPending
    BY <2>1, <2>2, <2>3, MediaCacheAssumption
  <2>5. /\ queue' \in Seq(Recording) /\ IsInjective(queue') /\ ToSet(queue') = ToSet(queue) \cup {k}
    <3>1. queue \in Seq(Recording) /\ IsInjective(queue) /\ k \notin ToSet(queue)
      BY <2>1 DEF LoadsInv
    <3> QED
      BY <2>1, <3>1, AppendHolds
  <2>6. ToSet(queue') = {j \in DOMAIN loads' : loads'[j] = "waits"}
    BY <2>1, <2>2, <2>5 DEF LoadsInv
  <2>7. OneLoad'
    BY <2>1, <2>2 DEF LoadsInv, OneLoad, Cached
  <2>8. LoadsInv'
    BY <2>2, <2>4, <2>5, <2>6, <2>7 DEF LoadsInv
  <2> QED
    BY <1>a, <1>c, <2>1, <2>8
<1>4. ASSUME NEW k \in Recording, LoadBegins(k) PROVE CacheInv'
  <2>1. /\ queue # << >> /\ k = Head(queue) /\ SerialFree /\ queue' = Tail(queue)
        /\ loads' = [loads EXCEPT ![k] = "loads"] /\ UNCHANGED <<cached, bytes, timers, reply>>
    BY <1>4 DEF LoadBegins
  <2>2. queue' \in Seq(Recording) /\ IsInjective(queue') /\ k \in ToSet(queue)
        /\ ToSet(queue') = ToSet(queue) \ {k}
    BY <2>1, TailHolds DEF LoadsInv
  <2>3. k \in DOMAIN loads /\ loads[k] = "waits" /\ Cached' = Cached
    BY <2>1, <2>2 DEF LoadsInv, Cached
  <2>4. LoadsInv'
    BY <2>1, <2>2, <2>3, LoadsTurn
  <2> QED
    BY <1>a, <1>c, <2>1, <2>4
<1>5. ASSUME NEW k \in Recording, LoadEnds(k) PROVE CacheInv'
  <2> DEFINE n == Outdated(SizeOf[k])
  <2>1. /\ k \in DOMAIN loads /\ loads[k] = "loads" /\ SizeOf[k] <= MaxBytes
        /\ cached' = Append(SubSeq(cached, n + 1, Len(cached)), k)
        /\ bytes' = bytes - SumOf(ToSet(SubSeq(cached, 1, n))) + SizeOf[k]
        /\ timers' = (timers \ ToSet(SubSeq(cached, 1, n))) \cup {k}
        /\ loads' = [loads EXCEPT ![k] = "loaded"] /\ UNCHANGED <<queue, reply>>
    BY <1>5 DEF LoadEnds
  <2>2. k \notin Cached
    BY <2>1 DEF LoadsInv, OneLoad
  <2>3. KeptInv' /\ Cached' \subseteq Cached \cup {k}
    <3> HIDE DEF n
    <3>1. n = Outdated(SizeOf[k])
      BY DEF n
    <3> QED
      BY <2>1, <2>2, <3>1, RoomIsMade
  <2>4. queue' \in Seq(Recording) /\ IsInjective(queue') /\ ToSet(queue') = ToSet(queue) \ {k}
    BY <2>1 DEF LoadsInv
  <2>5. LoadsInv'
    BY <2>1, <2>3, <2>4, LoadsTurn
  <2> QED
    BY <1>c, <2>1, <2>3, <2>5
<1>6. ASSUME NEW k \in Recording, LoadFails(k) PROVE CacheInv'
  <2>1. /\ k \in DOMAIN loads /\ loads[k] = "loads" /\ loads' = [loads EXCEPT ![k] = "failed"]
        /\ UNCHANGED <<cached, bytes, queue, timers, reply>>
    BY <1>6 DEF LoadFails
  <2>2. queue' \in Seq(Recording) /\ IsInjective(queue') /\ ToSet(queue') = ToSet(queue) \ {k}
        /\ Cached' = Cached
    BY <2>1 DEF LoadsInv, Cached
  <2>3. LoadsInv'
    BY <2>1, <2>2, LoadsTurn
  <2> QED
    BY <1>a, <1>c, <2>1, <2>3
<1>7. ASSUME NEW k \in Recording, LoadFinished(k) PROVE CacheInv'
  <2>1. /\ k \in DOMAIN loads /\ loads[k] \in {"loaded", "failed"}
        /\ loads' = Restrict(loads, DOMAIN loads \ {k})
        /\ Serve(k) \/ reply' = [status |-> 502]
        /\ UNCHANGED <<cached, bytes, queue, timers>>
    BY <1>7 DEF LoadFinished
  <2>2. LoadsInv'
    BY <2>1, LoadsShrink
  <2> QED
    BY <1>a, <2>1, <2>2, ServedTrue, PlainTrue
<1>8. ASSUME NEW k \in Recording, EntryExpires(k) PROVE CacheInv'
  <2>1. /\ k \in Cached /\ timers' = timers \ {k} /\ cached' = RemoveFirst(cached, k)
        /\ bytes' = bytes - SizeOf[k] /\ UNCHANGED <<loads, queue, reply>>
    BY <1>8 DEF EntryExpires, BytesWithout, KeptInv
  <2>2. /\ cached' \in Seq(Recording) /\ IsInjective(cached') /\ Cached' = Cached \ {k}
        /\ Len(cached') = Len(cached) - 1
    BY <1>d, <2>1, RemoveHolds DEF Cached
  <2>3. /\ SumOf(Cached \ {k}) \in Nat /\ SizeOf[k] \in Nat
        /\ bytes = SumOf(Cached \ {k}) + SizeOf[k]
    <3>1. /\ Cached \ {k} \in SUBSET Recording /\ {k} \in SUBSET Recording
          /\ IsFiniteSet(Cached \ {k}) /\ IsFiniteSet({k}) /\ (Cached \ {k}) \cap {k} = {}
          /\ (Cached \ {k}) \cup {k} = Cached
      BY <1>d, <2>1, FS_Singleton, FS_Subset
    <3>2. SumOf(Cached \ {k}) \in Nat /\ SumOf(Cached) = SumOf(Cached \ {k}) + SumOf({k})
      BY <3>1, SumOfParts
    <3> QED
      BY <3>2, SumOfOne DEF KeptInv
  <2>4. KeptInv'
    BY <1>d, <2>1, <2>2, <2>3, MediaCacheAssumption DEF KeptInv
  <2>5. LoadsInv'
    BY <1>b, <2>1, <2>2
  <2> QED
    BY <1>c, <2>1, <2>4, <2>5
<1>9. CASE UNCHANGED cacheVars
  <2>1. UNCHANGED <<cached, bytes, loads, queue, timers, reply>> /\ Cached' = Cached
    BY <1>9 DEF cacheVars, Cached
  <2> QED
    BY <1>a, <1>b, <1>c, <2>1
<1> QED
  BY <1>1, <1>2, <1>3, <1>4, <1>5, <1>6, <1>7, <1>8, <1>9 DEF CacheNext, LoadStep

\* CacheConsistent of module MediaCache: what is kept stays within its bounds
\* and is counted exactly, a recording is loaded once, and a partial response
\* is exactly the range asked for (media_cache.py, _load; media.py).
THEOREM CacheConsistentHolds == CacheSpec => []CacheConsistent
<1>1. CacheInv => CacheConsistent
  <2> SUFFICES ASSUME CacheInv PROVE CacheConsistent
    OBVIOUS
  <2> USE DEF CacheInv
  <2>1. Cached \in SUBSET Recording /\ IsFiniteSet(Cached)
    BY HoldsItems DEF KeptInv, Cached
  <2>2. bytes \in Nat
    <3>1. IsFiniteSet({}) /\ {} \in SUBSET Recording /\ Cached \cap {} = {}
      BY FS_EmptySet
    <3> QED
      BY <2>1, <3>1, SumOfParts DEF KeptInv
  <2>3. CacheTypeOK
    BY <2>1, <2>2 DEF CacheTypeOK, KeptInv, LoadsInv, ReplyTrue, Range
  <2>4. CacheBounded /\ OneLoad /\ RangeExact
    BY DEF CacheBounded, KeptInv, LoadsInv, ReplyTrue
  <2> QED
    BY <2>3, <2>4 DEF CacheConsistent
<1> QED
  BY CacheInitInv, CacheStep, <1>1, PTL DEF CacheSpec

(***************************************************************************)
(* Ring capture.                                                           *)
(***************************************************************************)
CallStep == {"idle", "checking", "preparing", "recording", "settling", "writing", "closing"}
Talk == {"none", "waiting", "announcing", "keeping", "failed", "ended"}
Calls == [id : 0 .. MaxCaptures, talks : BOOLEAN, step : CallStep]
Transcriptions == [step : {"idle", "sourced", "sent"}, id : 0 .. MaxCaptures,
                   of : 0 .. MaxCaptures, torn : BOOLEAN]
Deciding == [step : {"idle", "read", "unlocking", "marking"}, id : 0 .. MaxCaptures]

CaptureTyped ==
    /\ captures \in 0 .. MaxCaptures /\ capture \in Calls
    /\ talkback \in [CaptureId -> Talk] /\ recorders \in SUBSET CaptureId
    /\ files \in [meta : 0 .. MaxCaptures, wav : 0 .. MaxCaptures]
    /\ answered \in 0 .. MaxCaptures /\ unheard \in SUBSET CaptureId
    /\ capture.step # "idle" => capture.id = captures /\ captures >= 1
    /\ files.meta <= captures

\* A call still to be hung up is the one of the capture under way.
CallOwned ==
    answered # NoCapture /\ answered \notin unheard =>
        /\ capture.talks /\ capture.id = answered
        /\ capture.step \in {"preparing", "recording", "settling", "writing", "closing"}

AnalysisTyped ==
    /\ transcription \in Transcriptions /\ result \in Transcript
    /\ decisions \in 0 .. MaxDecisions /\ decision \in [DecisionId -> Deciding]
    /\ \A n \in DecisionId : n > decisions => decision[n].step = "idle"
    /\ used \in 0 .. MaxCaptures /\ opened \in [CaptureId -> Nat] /\ excused \in SUBSET CaptureId

\* An audio that is not torn is of the capture the transcription names.
AudioOwned ==
    /\ transcription.step = "sourced" /\ ~transcription.torn => files.wav = transcription.id
    /\ transcription.step = "sent" /\ ~transcription.torn => transcription.of = transcription.id
    /\ OwnTranscript

\* A decision that unlocks or marks, and what is known of its capture.
Acts(n, i) == decision[n].id = i /\ decision[n].step \in {"unlocking", "marking"}
MarksBehind ==
    /\ \A n \in DecisionId : decision[n].step \in {"unlocking", "marking"} =>
          decision[n].id \in CaptureId /\ decision[n].id <= files.meta
    /\ used <= files.meta
Unlocked(i) ==
    /\ \A m, n \in DecisionId : Acts(m, i) /\ Acts(n, i) => m = n
    /\ opened[i] <= 1
    /\ opened[i] = 1 => (\E n \in DecisionId : decision[n] = [step |-> "marking", id |-> i])
                        \/ used = i \/ files.meta > i
    /\ \A n \in DecisionId : Acts(n, i) /\ decision[n].step = "unlocking" => opened[i] = 0

CaptureInv ==
    /\ CaptureTyped /\ CallOwned /\ AnalysisTyped /\ AudioOwned /\ MarksBehind
    /\ \A i \in CaptureId \ excused : Unlocked(i)


\* What the recording leaves of the analysis: everything, but that a new
\* recording tears the audio of a transcription under way.
LEMMA AnalysisKept ==
  ASSUME CaptureInv, UNCHANGED analysisVars,
         files'.wav = files.wav, files'.meta \in files.meta .. MaxCaptures
  PROVE  AnalysisTyped' /\ AudioOwned' /\ MarksBehind' /\ \A i \in CaptureId \ excused' : Unlocked(i)'
<1> USE DEF CaptureInv, CaptureTyped, analysisVars
<1>0. files.meta \in 0 .. MaxCaptures /\ files'.meta >= files.meta /\ files'.meta \in 0 .. MaxCaptures
  OBVIOUS
<1>1. AnalysisTyped'
  BY DEF AnalysisTyped
<1>2. AudioOwned'
  BY DEF AudioOwned, OwnTranscript
<1>3. MarksBehind'
  BY <1>0 DEF MarksBehind, AnalysisTyped, Deciding, CaptureId
<1>4. ASSUME NEW i \in CaptureId \ excused PROVE Unlocked(i)'
  <2>1. Unlocked(i) /\ i \in Nat
    BY DEF CaptureId
  <2> QED
    BY <1>0, <2>1 DEF Unlocked, Acts
<1> QED
  BY <1>1, <1>2, <1>3, <1>4

LEMMA CaptureInitInv == CaptureInit => CaptureInv
<1> SUFFICES ASSUME CaptureInit PROVE CaptureInv
  OBVIOUS
<1> USE CaptureAssumption DEF CaptureInit, NoCapture
<1>1. CaptureTyped /\ CallOwned
  BY DEF CaptureTyped, CallOwned, Calls, CallStep, Talk
<1>2. AnalysisTyped
  BY DEF AnalysisTyped, Transcriptions, Transcript, Deciding, NotTranscribing, NoTranscript
<1>3. AudioOwned /\ MarksBehind
  BY DEF AudioOwned, OwnTranscript, MarksBehind, NotTranscribing, NoTranscript
<1>4. \A i \in CaptureId \ excused : Unlocked(i)
  BY DEF Unlocked, Acts
<1> QED
  BY <1>1, <1>2, <1>3, <1>4 DEF CaptureInv

\* The steps of the capture service.
LEMMA RecordingKeepsInv ==
  ASSUME CaptureInv,
         \/ \E talks \in BOOLEAN : CaptureAsked(talks)
         \/ CaptureStep \/ CaptureCancelled
         \/ \E i \in CaptureId : TalkbackStep(i)
  PROVE  CaptureInv'
<1> USE DEF CaptureInv
<1>0. /\ capture \in Calls /\ captures \in 0 .. MaxCaptures /\ files.meta \in 0 .. MaxCaptures
      /\ files.wav \in 0 .. MaxCaptures /\ files.meta <= captures
      /\ capture.step # "idle" => capture.id = captures /\ captures >= 1 /\ capture.id \in CaptureId
  BY DEF CaptureTyped, CaptureId
<1> DEFINE Keeps == UNCHANGED analysisVars /\ files'.wav = files.wav /\ files'.meta \in files.meta .. MaxCaptures
<1>a. ASSUME CaptureTyped', CallOwned', Keeps PROVE CaptureInv'
  BY <1>a, AnalysisKept
<1>b. UNCHANGED files => files'.wav = files.wav /\ files'.meta \in files.meta .. MaxCaptures
  BY <1>0
<1> USE DEF CaptureTyped, CallOwned
<1>1. ASSUME NEW talks \in BOOLEAN, CaptureAsked(talks) PROVE CaptureInv'
  <2>1. Keeps
    BY <1>1, <1>b DEF CaptureAsked
  <2>2. /\ captures' = captures + 1 /\ captures' \in 0 .. MaxCaptures /\ capture' \in Calls
        /\ capture'.id = captures' /\ capture'.step = "checking" /\ capture.step = "idle"
        /\ UNCHANGED <<talkback, recorders, files, answered, unheard>>
    <3>1. captures + 1 \in 0 .. MaxCaptures
      BY <1>0, <1>1, CaptureAssumption DEF CaptureAsked
    <3> QED
      BY <1>0, <1>1, <3>1 DEF CaptureAsked, Calls, CallStep, CaptureFree
  <2> QED
    BY <1>0, <1>a, <2>1, <2>2
<1>2. ASSUME CaptureChecked \/ RingAnswered \/ PrepareFails \/ CaptureCancelled
      PROVE  CaptureInv'
  <2>1. Keeps
    BY <1>2, <1>b DEF CaptureChecked, RingAnswered, PrepareFails, CaptureCancelled
  <2>2. /\ capture' \in Calls /\ capture'.id = capture.id /\ capture'.talks = capture.talks
        /\ capture.step # "idle" /\ UNCHANGED <<captures, talkback, recorders, files>>
    BY <1>0, <1>2 DEF CaptureChecked, RingAnswered, PrepareFails, CaptureCancelled, Goes, Calls, CallStep
  <2>3. answered' \in 0 .. MaxCaptures /\ unheard' \in SUBSET CaptureId
    BY <1>0, <1>2, <2>2 DEF CaptureChecked, RingAnswered, PrepareFails, CaptureCancelled, CaptureId
  <2>4. CallOwned'
    BY <1>0, <1>2, <2>2 DEF CaptureChecked, RingAnswered, PrepareFails, CaptureCancelled, Goes, Calls
  <2> QED
    BY <1>0, <1>a, <2>1, <2>2, <2>3, <2>4
<1>3. CASE RecordingEnds \/ TalkbackSettled
  <2>1. Keeps
    BY <1>3, <1>b DEF RecordingEnds, TalkbackSettled
  <2>2. /\ capture' \in Calls /\ capture'.id = capture.id /\ capture'.talks = capture.talks
        /\ capture.step \in {"recording", "settling"}
        /\ capture'.step \in {"settling", "writing", "closing"}
        /\ UNCHANGED <<captures, files, answered, unheard>>
    BY <1>0, <1>3 DEF RecordingEnds, TalkbackSettled, Goes, Calls, CallStep
  <2>3. talkback' \in [CaptureId -> Talk] /\ recorders' \in SUBSET CaptureId
    BY <1>0, <1>3 DEF RecordingEnds, TalkbackSettled, Talk
  <2> QED
    BY <1>0, <1>a, <2>1, <2>2, <2>3
<1>4. CASE MetadataWritten
  <2>1. /\ capture' \in Calls /\ capture'.id = capture.id /\ capture'.talks = capture.talks
        /\ capture.step = "writing" /\ capture'.step = "closing"
        /\ UNCHANGED <<captures, talkback, recorders, answered, unheard>>
    BY <1>0, <1>4 DEF MetadataWritten, Goes, Calls, CallStep
  <2>2. /\ files' \in [meta : 0 .. MaxCaptures, wav : 0 .. MaxCaptures] /\ files'.wav = files.wav
        /\ files'.meta \in {capture.id, files.meta}
    BY <1>0, <1>4, <2>1 DEF MetadataWritten, Described, Calls
  <2>3. Keeps
    BY <1>0, <1>4, <2>1, <2>2 DEF MetadataWritten
  <2> QED
    BY <1>0, <1>a, <2>1, <2>2, <2>3
<1>5. CASE CaptureClosed
  <2>1. Keeps
    BY <1>5, <1>b DEF CaptureClosed
  <2>2. /\ capture' \in Calls /\ capture'.step = "idle" /\ capture.step = "closing"
        /\ UNCHANGED <<captures, recorders, files>>
        /\ IF capture.talks THEN \/ answered' = NoCapture /\ UNCHANGED unheard
                                 \/ unheard' = unheard \cup {capture.id} /\ UNCHANGED answered
                            ELSE UNCHANGED <<answered, unheard>>
    BY <1>0, <1>5 DEF CaptureClosed, Goes, Calls, CallStep
  <2>3. talkback' \in [CaptureId -> Talk]
    BY <1>0, <1>5 DEF CaptureClosed, Talk
  <2>4. answered' \in 0 .. MaxCaptures /\ unheard' \in SUBSET CaptureId
    BY <1>0, <2>2, CaptureAssumption DEF NoCapture
  <2> QED
    BY <1>0, <1>a, <2>1, <2>2, <2>3, <2>4
<1>6. CASE RecordingStarts
  <2>1. /\ capture' \in Calls /\ capture'.id = capture.id /\ capture'.talks = capture.talks
        /\ capture.step = "preparing" /\ capture'.step = "recording"
        /\ UNCHANGED <<captures, answered, unheard>>
    BY <1>0, <1>6 DEF RecordingStarts, Goes, Calls, CallStep
  <2>2. talkback' \in [CaptureId -> Talk] /\ recorders' \in SUBSET CaptureId
    BY <1>0, <1>6 DEF RecordingStarts, Talk
  <2>3. files' \in [meta : 0 .. MaxCaptures, wav : 0 .. MaxCaptures] /\ files'.meta = files.meta
    BY <1>0, <1>6, <2>1, CaptureAssumption DEF RecordingStarts, Overwritten, NoCapture, CaptureId
  <2>4. CaptureTyped' /\ CallOwned'
    BY <1>0, <2>1, <2>2, <2>3
  <2>5. /\ transcription' \in Transcriptions
        /\ transcription'.step = transcription.step /\ transcription'.id = transcription.id
        /\ transcription'.of = transcription.of
        /\ transcription'.torn = transcription.torn \/ transcription'.torn
        /\ files'.wav = files.wav \/ (transcription.step = "sourced" => transcription'.torn)
    <3>1. CASE capture.talks /\ transcription.step = "sourced"
      BY <1>6, <3>1 DEF RecordingStarts, AnalysisTyped, Transcriptions
    <3>2. CASE capture.talks /\ transcription.step # "sourced"
      BY <1>6, <3>2 DEF RecordingStarts, AnalysisTyped, Transcriptions
    <3>3. CASE ~capture.talks
      BY <1>6, <3>3 DEF RecordingStarts, AnalysisTyped, Transcriptions
    <3> QED
      BY <3>1, <3>2, <3>3
  <2>6. UNCHANGED <<result, decisions, decision, used, opened, excused>>
    BY <1>6 DEF RecordingStarts
  <2>7. AnalysisTyped'
    BY <2>5, <2>6 DEF AnalysisTyped
  <2>8. AudioOwned'
    BY <2>5, <2>6 DEF AudioOwned, OwnTranscript, AnalysisTyped, Transcriptions
  <2>9. MarksBehind' /\ \A i \in CaptureId \ excused' : Unlocked(i)'
    BY <2>3, <2>6 DEF MarksBehind, Unlocked, Acts
  <2> QED
    BY <2>4, <2>7, <2>8, <2>9
<1>7. ASSUME NEW i \in CaptureId, TalkbackStep(i) PROVE CaptureInv'
  <2>1. Keeps
    BY <1>7, <1>b DEF TalkbackStep, TalkbackReady, Announced, TalkbackEnds, OrphanEnds
  <2>2. /\ UNCHANGED <<captures, capture, files, answered, unheard>>
        /\ talkback' \in [CaptureId -> Talk] /\ recorders' \in SUBSET CaptureId
    BY <1>7 DEF TalkbackStep, TalkbackReady, Announced, TalkbackEnds, OrphanEnds, Talk
  <2> QED
    BY <1>a, <2>1, <2>2
<1> QED
  BY <1>1, <1>2, <1>3, <1>4, <1>5, <1>6, <1>7 DEF CaptureStep

\* The steps of the transcription and of the decisions.
LEMMA AnalysisKeepsInv ==
  ASSUME CaptureInv,
         \/ Sourced \/ AudioRead \/ Transcribed
         \/ \E n \in DecisionId : ResultRead(n) \/ DecisionTaken(n) \/ DoorUnlocked(n) \/ MarkedUsed(n)
  PROVE  CaptureInv'
<1> USE DEF CaptureInv
<1>0. CaptureTyped' /\ CallOwned'
  BY DEF Sourced, AudioRead, Transcribed, ResultRead, DecisionTaken, DoorUnlocked, MarkedUsed,
         recordingVars, CaptureTyped, CallOwned
<1>a. UNCHANGED files /\ files.meta \in 0 .. MaxCaptures /\ files.wav \in 0 .. MaxCaptures
  BY DEF Sourced, AudioRead, Transcribed, ResultRead, DecisionTaken, DoorUnlocked, MarkedUsed,
         recordingVars, CaptureTyped
<1>1. CASE Sourced \/ AudioRead \/ Transcribed
  <2>1. UNCHANGED <<decisions, decision, used, opened, excused>>
    BY <1>1 DEF Sourced, AudioRead, Transcribed
  <2>2. MarksBehind' /\ \A i \in CaptureId \ excused' : Unlocked(i)'
    BY <1>a, <2>1 DEF MarksBehind, Unlocked, Acts
  <2>3. CASE Sourced
    <3>1. /\ transcription' = [step |-> "sourced", id |-> files.meta, of |-> NoCapture,
                               torn |-> files.wav # files.meta]
          /\ UNCHANGED result
      BY <2>3 DEF Sourced
    <3>2. transcription' \in Transcriptions
      BY <1>a, <3>1, CaptureAssumption DEF Transcriptions, NoCapture
    <3> QED
      BY <1>0, <1>a, <2>1, <2>2, <3>1, <3>2 DEF AnalysisTyped, AudioOwned, OwnTranscript
  <2>4. CASE AudioRead
    <3>1. /\ transcription.step = "sourced" /\ UNCHANGED result
          /\ transcription' \in Transcriptions /\ transcription'.step = "sent"
          /\ transcription'.id = transcription.id /\ transcription'.of = files.wav
          /\ transcription'.torn = transcription.torn
      BY <1>a, <2>4 DEF AudioRead, AnalysisTyped, Transcriptions
    <3> QED
      BY <1>0, <1>a, <2>1, <2>2, <3>1 DEF AnalysisTyped, AudioOwned, OwnTranscript
  <2>5. CASE Transcribed
    <3>1. /\ transcription.step = "sent" /\ transcription' \in Transcriptions /\ transcription'.step = "idle"
          /\ \/ result' = [id |-> transcription.id, of |-> transcription.of, torn |-> transcription.torn]
             \/ UNCHANGED result
      BY <2>5, CaptureAssumption DEF Transcribed, NotTranscribing, Transcriptions, NoCapture
    <3>2. result' \in Transcript
      BY <3>1 DEF AnalysisTyped, Transcriptions, Transcript
    <3> QED
      BY <1>0, <1>a, <2>1, <2>2, <3>1, <3>2 DEF AnalysisTyped, AudioOwned, OwnTranscript
  <2> QED
    BY <1>1, <2>3, <2>4, <2>5
<1>2. ASSUME NEW n \in DecisionId, ResultRead(n) \/ DecisionTaken(n) \/ DoorUnlocked(n) \/ MarkedUsed(n)
      PROVE  CaptureInv'
  <2> USE DEF AnalysisTyped
  <2>0. /\ decision[n] \in Deciding /\ decision[n].id \in 0 .. MaxCaptures /\ n \in Nat
        /\ \A i \in CaptureId : i \in Nat
    BY DEF Deciding, DecisionId, CaptureId
  <2>a. UNCHANGED <<transcription, result>> /\ AudioOwned'
    BY <1>2, <1>a DEF ResultRead, DecisionTaken, DoorUnlocked, MarkedUsed, AudioOwned, OwnTranscript
  <2>1. CASE ResultRead(n)
    <3>1. /\ UNCHANGED <<used, opened, excused>> /\ decisions' = n /\ n = decisions + 1
          /\ decision' = [decision EXCEPT ![n] = [step |-> "read", id |-> result.id]]
          /\ decision[n].step = "idle"
      BY <2>0, <2>1 DEF ResultRead, DecisionId
    <3>2. [step |-> "read", id |-> result.id] \in Deciding
      BY DEF Deciding, Transcript
    <3>3. decision' \in [DecisionId -> Deciding] /\ decision'[n].step = "read"
          /\ \A m \in DecisionId \ {n} : decision'[m] = decision[m]
      BY <3>1, <3>2
    <3>4. AnalysisTyped'
      BY <2>0, <2>a, <3>1, <3>3 DEF DecisionId
    <3>5. MarksBehind'
      BY <1>a, <3>1, <3>3 DEF MarksBehind
    <3>6. \A i \in CaptureId \ excused' : Unlocked(i)'
      BY <1>a, <3>1, <3>3 DEF Unlocked, Acts
    <3> QED
      BY <1>0, <2>a, <3>4, <3>5, <3>6
  <2>2. CASE DecisionTaken(n)
    <3>1. /\ UNCHANGED <<used, opened, decisions>> /\ decision[n].step = "read"
          /\ decision' \in [DecisionId -> Deciding] /\ decision'[n].id = decision[n].id
          /\ \A m \in DecisionId \ {n} : decision'[m] = decision[m]
          /\ excused \in SUBSET excused' /\ excused' \in SUBSET CaptureId
          /\ \/ decision'[n].step = "idle"
             \/ /\ decision'[n].step = "unlocking" /\ Guarded(decision[n].id)
                /\ Racing(n) => decision[n].id \in excused'
      <4>1. /\ UNCHANGED <<used, opened, decisions>> /\ decision[n].step = "read"
        BY <2>2 DEF DecisionTaken
      <4>2. CASE decision' = [decision EXCEPT ![n].step = "idle"] /\ UNCHANGED excused
        BY <2>0, <4>1, <4>2 DEF Deciding
      <4>3. CASE /\ Guarded(decision[n].id)
                 /\ decision' = [decision EXCEPT ![n].step = "unlocking"]
                 /\ excused' = excused \cup (IF Racing(n) THEN {decision[n].id} ELSE {})
        <5>1. decision[n].id \in CaptureId
          BY <2>0, <4>3, CaptureAssumption DEF Guarded, CaptureId, NoCapture
        <5>2. decision' \in [DecisionId -> Deciding] /\ decision'[n].id = decision[n].id
              /\ decision'[n].step = "unlocking" /\ \A m \in DecisionId \ {n} : decision'[m] = decision[m]
          BY <2>0, <4>3 DEF Deciding
        <5> QED
          BY <4>1, <4>3, <5>1, <5>2
      <4> QED
        BY <2>2, <4>2, <4>3 DEF DecisionTaken
    <3>2. AnalysisTyped'
      BY <2>a, <2>0, <3>1
    <3>3. MarksBehind'
      <4>1. decision'[n].step = "unlocking" => decision[n].id \in CaptureId /\ decision[n].id = files.meta
        BY <2>0, <3>1, CaptureAssumption DEF Guarded, CaptureId, NoCapture
      <4> QED
        BY <1>a, <2>0, <3>1, <4>1 DEF MarksBehind
    <3>4. ASSUME NEW i \in CaptureId \ excused' PROVE Unlocked(i)'
      <4>1. Unlocked(i) /\ i \in Nat /\ opened[i] \in Nat
        BY <2>0, <3>1
      <4>2. CASE ~(decision'[n].step = "unlocking" /\ decision[n].id = i)
        BY <1>a, <3>1, <4>1, <4>2 DEF Unlocked, Acts
      <4>3. CASE decision'[n].step = "unlocking" /\ decision[n].id = i
        <5>1. /\ i = files.meta /\ used # i
              /\ \A m \in DecisionId \ {n} : ~Acts(m, i)
          BY <3>1, <4>3 DEF Guarded, Racing, Acts
        <5>2. opened[i] = 0
          BY <1>a, <3>1, <4>1, <5>1 DEF Unlocked, Acts
        <5>3. \A m \in DecisionId : Acts(m, i)' => m = n
          BY <3>1, <5>1 DEF Acts
        <5> QED
          BY <3>1, <5>2, <5>3 DEF Unlocked
      <4> QED
        BY <4>2, <4>3
    <3> QED
      BY <1>0, <2>a, <3>2, <3>3, <3>4
  <2>3. CASE DoorUnlocked(n)
    <3>0. decision[n].id \in CaptureId
      BY <2>3 DEF DoorUnlocked, MarksBehind
    <3>1. /\ UNCHANGED <<used, decisions>> /\ decision[n].step = "unlocking"
          /\ decision' \in [DecisionId -> Deciding] /\ decision'[n].id = decision[n].id
          /\ \A m \in DecisionId \ {n} : decision'[m] = decision[m]
          /\ excused \in SUBSET excused' /\ excused' \in SUBSET CaptureId
          /\ \/ decision'[n].step = "marking" /\ opened' = [opened EXCEPT ![decision[n].id] = @ + 1]
             \/ decision'[n].step = "idle" /\ UNCHANGED opened
             \/ /\ decision'[n].step = "idle" /\ decision[n].id \in excused'
                /\ opened' = [opened EXCEPT ![decision[n].id] = @ + 1]
      BY <2>0, <2>3, <3>0 DEF DoorUnlocked, Deciding
    <3>2. AnalysisTyped'
      BY <2>a, <2>0, <3>0, <3>1
    <3>3. MarksBehind'
      BY <1>a, <3>1 DEF MarksBehind
    <3>4. ASSUME NEW i \in CaptureId \ excused' PROVE Unlocked(i)'
      <4>1. Unlocked(i) /\ i \in Nat /\ opened[i] \in Nat
        BY <2>0, <3>1
      <4>2. CASE decision[n].id # i
        <5>1. opened'[i] = opened[i] /\ \A m \in DecisionId : (Acts(m, i)' <=> Acts(m, i))
          BY <3>0, <3>1, <4>2 DEF Acts
        <5>2. \A m \in DecisionId : decision[m] = [step |-> "marking", id |-> i] => m # n
          BY <4>2
        <5> QED
          BY <1>a, <3>1, <4>1, <4>2, <5>1, <5>2 DEF Unlocked, Acts
      <4>3. CASE decision[n].id = i
        <5>1. opened[i] = 0 /\ \A m \in DecisionId : Acts(m, i) => m = n
          BY <3>1, <4>1, <4>3 DEF Unlocked, Acts
        <5>2. CASE decision'[n].step = "marking" /\ opened' = [opened EXCEPT ![decision[n].id] = @ + 1]
          <6>1. opened'[i] = 1 /\ decision'[n] = [step |-> "marking", id |-> i]
            BY <3>0, <3>1, <4>3, <5>1, <5>2 DEF Deciding
          <6>2. \A m \in DecisionId : Acts(m, i)' => m = n
            BY <3>1, <5>1 DEF Acts
          <6> QED
            BY <6>1, <6>2 DEF Unlocked
        <5>3. CASE decision'[n].step = "idle" /\ UNCHANGED opened
          BY <3>1, <5>1, <5>3 DEF Unlocked, Acts
        <5>4. decision[n].id \notin excused'
          BY <4>3
        <5> QED
          BY <3>1, <5>2, <5>3, <5>4
      <4> QED
        BY <4>2, <4>3
    <3> QED
      BY <1>0, <2>a, <3>2, <3>3, <3>4
  <2>4. CASE MarkedUsed(n)
    <3>0. decision[n].id \in CaptureId /\ decision[n].id <= files.meta
      BY <2>4 DEF MarkedUsed, MarksBehind
    <3>1. /\ UNCHANGED <<opened, decisions>> /\ decision[n].step = "marking"
          /\ decision' \in [DecisionId -> Deciding] /\ decision'[n].id = decision[n].id
          /\ decision'[n].step = "idle"
          /\ \A m \in DecisionId \ {n} : decision'[m] = decision[m]
          /\ \/ used' = decision[n].id /\ excused' = excused \cup Unmarked(n)
             \/ excused' = excused \cup {decision[n].id} /\ UNCHANGED used
      BY <2>0, <2>4 DEF MarkedUsed, Deciding
    <3>2. used' \in 0 .. MaxCaptures /\ used' <= files.meta /\ excused' \in SUBSET CaptureId
          /\ excused \in SUBSET excused'
      <4>1. Unmarked(n) \in SUBSET CaptureId
        <5>1. ASSUME used = files.meta, files.meta # decision[n].id PROVE used \in CaptureId
          BY <1>a, <3>0, <5>1, <2>0, CaptureAssumption DEF CaptureId
        <5> QED
          BY <5>1 DEF Unmarked
      <4> QED
        BY <2>0, <3>0, <3>1, <4>1 DEF MarksBehind
    <3>3. AnalysisTyped'
      BY <2>a, <2>0, <3>1, <3>2
    <3>4. MarksBehind'
      BY <1>a, <3>1, <3>2 DEF MarksBehind
    <3>5. ASSUME NEW i \in CaptureId \ excused' PROVE Unlocked(i)'
      <4>1. Unlocked(i) /\ i \in Nat /\ opened[i] \in Nat
        BY <2>0, <3>2
      <4>2. /\ \A m \in DecisionId : Acts(m, i)' <=> Acts(m, i) /\ m # n
        BY <3>1 DEF Acts
      <4>3. opened[i] = 1 => \/ \E m \in DecisionId : m # n /\ decision'[m] = [step |-> "marking", id |-> i]
                             \/ used' = i \/ files.meta > i
        <5>1. CASE decision[n].id = i
          BY <3>1, <5>1
        <5>2. CASE decision[n].id # i /\ used = i
          <6>1. i <= files.meta /\ (i = files.meta => i \in Unmarked(n))
            BY <5>2 DEF MarksBehind, Unmarked
          <6> QED
            BY <1>a, <3>1, <4>1, <5>2, <6>1
        <5>3. CASE decision[n].id # i /\ used # i
          BY <3>1, <4>1, <5>3 DEF Unlocked
        <5> QED
          BY <5>1, <5>2, <5>3
      <4>4. \A m \in DecisionId : Acts(m, i)' /\ decision'[m].step = "unlocking" => opened[i] = 0
        BY <3>1, <4>1, <4>2 DEF Unlocked
      <4> QED
        BY <1>a, <3>1, <4>1, <4>2, <4>3, <4>4 DEF Unlocked
    <3> QED
      BY <1>0, <2>a, <3>3, <3>4, <3>5
  <2> QED
    BY <1>2, <2>1, <2>2, <2>3, <2>4
<1> QED
  BY <1>1, <1>2

LEMMA CaptureIdles == CaptureInv /\ UNCHANGED captureVars => CaptureInv'
BY DEF CaptureInv, captureVars, CaptureTyped, CallOwned, AnalysisTyped, AudioOwned, OwnTranscript,
       MarksBehind, Unlocked, Acts

\* CapturesTrue of module RingCapture: an answered call is hung up, a transcript
\* that is not torn is of the ring it names, and a capture unlocks once
\* (use_cases/ring_capture.py, ring_ai.py, ring_decision.py).
THEOREM CapturesTrueHolds == CaptureSpec => []CapturesTrue
<1>1. CaptureInv /\ [CaptureNext]_captureVars => CaptureInv'
  BY RecordingKeepsInv, AnalysisKeepsInv, CaptureIdles DEF CaptureNext
<1>2. CaptureInv => CapturesTrue
  <2> SUFFICES ASSUME CaptureInv PROVE CapturesTrue
    OBVIOUS
  <2>1. CaptureTypeOK
    BY DEF CaptureInv, CaptureTypeOK, CaptureTyped, AnalysisTyped, Calls, CallStep, Talk,
           Transcriptions, Deciding
  <2>2. HungUp
    BY DEF CaptureInv, CallOwned, HungUp, CaptureFree
  <2>3. OwnTranscript /\ UnlocksOnce
    BY DEF CaptureInv, AudioOwned, UnlocksOnce, Unlocked
  <2> QED
    BY <2>1, <2>2, <2>3 DEF CapturesTrue
<1> QED
  BY CaptureInitInv, <1>1, <1>2, PTL DEF CaptureSpec

(***************************************************************************)
(* Camera sessions.                                                        *)
(***************************************************************************)
LiveSession == [owner : Owner, ready : BOOLEAN, ring : Ringing, resource : Owner \cup {"ring"}]
OfferTask == [stage : Stages, owner : Owner, started : BOOLEAN, called : BOOLEAN, cancelled : BOOLEAN]
CloseCall == [stage : {"ends", "refreshes"} \cup Stopping, was : LiveSession, stop : BOOLEAN,
              force : BOOLEAN, by : {"user", "ended", "failed", "cleanup", "remove", "stop"},
              others : SUBSET Session]

CameraTyped ==
    /\ active \in [Session -> {None} \cup LiveSession]
    /\ offer \in [Session -> {NoTask} \cup OfferTask]
    /\ close \in [Session -> {NoTask} \cup CloseCall]
    /\ later \in [Session -> {"none", "plain", "stop"}]
    /\ ended \subseteq Session
    /\ removal \in {"none", "tasks", "sessions", "media", "done"}
    /\ stopping \in Owner \cup {Nobody, Astray} /\ (stopping = Astray => closing)
    /\ current \in BOOLEAN /\ forgiven \in BOOLEAN /\ cut \in BOOLEAN
    /\ media \in {"idle", "video", "ring", "call"}
    /\ spent.offers \subseteq Session /\ spent.ends \in 0 .. MaxEnds
    /\ spent = [offers |-> spent.offers, ends |-> spent.ends]
    /\ ~closing => current

\* Who holds the lock is at the step it is held for.
LockOf(s) ==
    \/ lock = [id |-> s, for |-> "close"] /\ close[s] # NoTask /\ close[s].stage = "drains"
    \/ lock = [id |-> s, for |-> "prepare"] /\ At(s, "prepares")
    \/ lock = [id |-> s, for |-> "unowned"] /\ At(s, "stopping")
LockHeld == lock = Free \/ \E s \in Session : LockOf(s)

\* Before an id registers there is no session of it, and never two.
Registered(s) ==
    /\ s \notin spent.offers => offer[s] = NoTask /\ later[s] = "none"
    /\ s \notin spent.offers \/ At(s, "asks") \/ At(s, "accepted") \/ At(s, "decides") =>
          active[s] = None /\ close[s] = NoTask
    /\ active[s] # None => close[s] = NoTask

\* What an offer, a session and a close of an id agree on.
OfOwner(r) == (r.resource = "home_call" <=> r.owner = "home_call") /\ (r.ring # "none" => r.owner = "doorbell")
Agrees(s) ==
    /\ active[s] # None =>
          /\ OfOwner(active[s])
          /\ active[s].ready => offer[s] = NoTask
          /\ offer[s] # NoTask => active[s].owner = offer[s].owner
    /\ close[s] # NoTask =>
          /\ OfOwner(close[s].was)
          /\ close[s].was.ready => offer[s] = NoTask
          /\ offer[s] # NoTask => close[s].was.owner = offer[s].owner

\* The removal: tasks first, then sessions.
RemovedOf(s) ==
    /\ closing => later[s] = "none"
    /\ removal \in {"sessions", "done"} => offer[s] = NoTask
    /\ removal = "done" /\ stopping # Astray => active[s] = None /\ (close[s] = NoTask \/ Stops(s))

\* Where an offer is, and what its call has come to.
OfferOf(s) ==
    /\ At(s, "asks") \/ At(s, "accepted") => Called(s)
    /\ ~closing /\ InCleanup(s) /\ active[s] # None => active[s].owner = "doorbell" \/ forgiven
    /\ offer[s] # NoTask /\ Called(s) /\ ~At(s, "asks") /\ ~At(s, "accepted") /\ ~InCleanup(s) =>
          offer[s].called
    /\ later[s] = "plain" => /\ offer[s] # NoTask /\ Called(s) => offer[s].cancelled
                             /\ offer[s] = NoTask /\ active[s] # None => active[s].owner = "doorbell" \/ cut \/ forgiven

CloseOf(s) == close[s] # NoTask =>
    /\ close[s].by = "failed" => At(s, "failing")
    /\ close[s].by = "cleanup" => At(s, "cleans") /\ (Called(s) => offer[s].called \/ offer[s].cancelled)
    /\ close[s].was.owner = "home_call" =>
          close[s].stop \/ forgiven \/ cut \/ close[s].by \in {"cleanup", "stop"} \/ ~current
    /\ close[s].by = "stop" => stopping = close[s].was.owner /\ ~close[s].stop
    /\ close[s].stage = "refreshes" => close[s].was.ring = "preview"
    /\ close[s].stage \in Stopping => close[s].stop

\* The offers, sessions and closes that see to it that a call ends.
Holder(s) ==
    \/ /\ offer[s] # NoTask /\ Called(s)
       /\ offer[s].cancelled \/ At(s, "accepted") \/ (offer[s].called /\ (At(s, "decides") \/ InCleanup(s)))
    \/ active[s] # None /\ active[s].owner = "home_call"
    \/ close[s] # NoTask /\ close[s].was.owner = "home_call"
CallHeld == media = "call" /\ ~forgiven /\ current /\ ~cut =>
    stopping = "home_call" \/ \E s \in Session : Holder(s)

\* A close that is past its question for others has none of them left.
Spares(s) == ~closing /\ close[s] # NoTask =>
    \A t \in close[s].others :
       /\ offer[t] = NoTask /\ t \in spent.offers
       /\ active[t] # None => /\ active[t].resource = close[s].was.resource
                             /\ \/ close[s].stage = "ends"
                                \/ close[s].stage = "refreshes" /\ ~close[s].stop

SessionInv(s) == Registered(s) /\ Agrees(s) /\ RemovedOf(s) /\ OfferOf(s) /\ CloseOf(s)
CameraInv ==
    /\ CameraTyped /\ LockHeld /\ CallHeld
    /\ \A s \in Session : SessionInv(s)
    /\ \A s \in Session : Spares(s)

LEMMA Apart ==
  /\ \A r \in LiveSession : r # None
  /\ \A r \in OfferTask : r # NoTask
  /\ \A r \in CloseCall : r # NoTask
  /\ \A s, x : [id |-> s, for |-> x] # Free
<1>1. \A r \in LiveSession : r # None
  BY DEF LiveSession, None, Owner
<1>2. \A r \in OfferTask : r # NoTask
  BY DEF OfferTask, NoTask, Stages
<1>3. \A r \in CloseCall : r # NoTask
  BY DEF CloseCall, NoTask, Stopping
<1>4. \A s, x : [id |-> s, for |-> x] # Free
  <2> SUFFICES ASSUME NEW s, NEW x, [id |-> s, for |-> x] = Free PROVE FALSE
    OBVIOUS
  <2>1. DOMAIN [id |-> s, for |-> x] = {"id", "for"} /\ DOMAIN Free = {"id"}
    BY DEF Free
  <2> QED
    BY <2>1
<1> QED
  BY <1>1, <1>2, <1>3, <1>4

\* The fields of what an id has.
LEMMA FieldsOf ==
  ASSUME CameraTyped, NEW s \in Session
  PROVE  /\ offer[s] # NoTask => offer[s] \in OfferTask
         /\ active[s] # None => active[s] \in LiveSession
         /\ close[s] # NoTask => close[s] \in CloseCall /\ close[s].was \in LiveSession
BY DEF CameraTyped, CloseCall

\* A step about one id.
StepOf(s) ==
    /\ \A t \in Session \ {s} : /\ active'[t] = active[t] /\ offer'[t] = offer[t]
                                /\ close'[t] = close[t] /\ later'[t] = later[t]
    /\ (forgiven => forgiven') /\ (cut => cut') /\ current' = current
    /\ removal' = removal /\ stopping' = stopping
    /\ spent.offers \subseteq spent'.offers /\ spent'.offers \subseteq spent.offers \cup {s}

\* An id that was offered and is idle stays so, and brings no new session.
StaysIdle(s) ==
    ~closing /\ s \in spent.offers /\ offer[s] = NoTask =>
        /\ offer'[s] = NoTask
        /\ active'[s] # None => active[s] # None /\ active'[s].resource = active[s].resource

LockStep(s) == lock' = Free \/ LockOf(s)' \/ (lock' = lock /\ ~LockOf(s))
HolderStep(s) ==
    media' = "call" /\ ~forgiven' /\ current /\ ~cut' /\ stopping' # "home_call" =>
        Holder(s)' \/ (media = "call" /\ (Holder(s) => \E t \in Session : Holder(t)'))

LEMMA SessionInvOther ==
  ASSUME CameraInv, NEW s \in Session, StepOf(s), NEW t \in Session, t # s
  PROVE  /\ SessionInv(t)' /\ (Holder(t) <=> Holder(t)') /\ (lock' = lock => (LockOf(t) <=> LockOf(t)'))
<1>1. /\ active'[t] = active[t] /\ offer'[t] = offer[t] /\ close'[t] = close[t] /\ later'[t] = later[t]
      /\ (forgiven => forgiven') /\ (cut => cut') /\ current' = current
      /\ removal' = removal /\ stopping' = stopping
      /\ t \in spent.offers <=> t \in spent'.offers
  BY DEF StepOf
<1>2. Registered(t) /\ Agrees(t) /\ RemovedOf(t) /\ OfferOf(t) /\ CloseOf(t)
  BY DEF CameraInv, SessionInv
<1>3. Registered(t)' /\ Agrees(t)' /\ RemovedOf(t)'
  BY <1>1, <1>2 DEF Registered, Agrees, RemovedOf, Stops, At, OfOwner, closing
<1>4. OfferOf(t)'
  BY <1>1, <1>2 DEF OfferOf, At, Called, InCleanup, closing
<1>5. CloseOf(t)'
  BY <1>1, <1>2 DEF CloseOf, At, Called
<1>6. Holder(t) <=> Holder(t)'
  BY <1>1 DEF Holder, At, Called, InCleanup
<1>7. lock' = lock => (LockOf(t) <=> LockOf(t)')
  BY <1>1 DEF LockOf, At
<1> QED
  BY <1>3, <1>4, <1>5, <1>6, <1>7 DEF SessionInv

LEMMA StepKeeps ==
  ASSUME CameraInv, NEW s \in Session, StepOf(s), LockStep(s), HolderStep(s),
         CameraTyped', SessionInv(s)', \A t \in Session : Spares(t)'
  PROVE  CameraInv'
<1>1. \A t \in Session : SessionInv(t)'
  BY SessionInvOther
<1>2. LockHeld'
  <2>1. CASE lock' = Free \/ LockOf(s)'
    BY <2>1 DEF LockHeld
  <2>2. CASE lock' = lock /\ ~LockOf(s)
    <3>1. lock = Free \/ \E t \in Session \ {s} : LockOf(t)
      BY <2>2 DEF CameraInv, LockHeld
    <3>2. CASE lock = Free
      BY <2>2, <3>2 DEF LockHeld
    <3>3. ASSUME NEW t \in Session \ {s}, LockOf(t) PROVE LockHeld'
      <4>1. LockOf(t)'
        BY <2>2, <3>3, SessionInvOther
      <4> QED
        BY <4>1 DEF LockHeld
    <3> QED
      BY <3>1, <3>2, <3>3
  <2> QED
    BY <2>1, <2>2 DEF LockStep
<1>3. CallHeld'
  <2> SUFFICES ASSUME media' = "call", ~forgiven', current', ~cut', stopping' # "home_call"
               PROVE  \E t \in Session : Holder(t)'
    BY DEF CallHeld
  <2>1. current /\ ~forgiven /\ ~cut /\ stopping # "home_call"
    BY DEF StepOf
  <2>2. CASE Holder(s)'
    BY <2>2
  <2>3. CASE media = "call" /\ (Holder(s) => \E t \in Session : Holder(t)')
    <3>1. PICK t \in Session : Holder(t)
      BY <2>1, <2>3 DEF CameraInv, CallHeld
    <3>2. CASE t = s
      BY <2>3, <3>1, <3>2
    <3>3. CASE t # s
      <4>1. Holder(t)'
        BY <3>1, <3>3, SessionInvOther
      <4> QED
        BY <4>1
    <3> QED
      BY <3>2, <3>3
  <2> QED
    BY <2>1, <2>2, <2>3 DEF HolderStep
<1> QED
  BY <1>1, <1>2, <1>3 DEF CameraInv

\* A close that a step leaves alone spares the others it has spared so far.
LEMMA SparesKept ==
  ASSUME CameraInv, NEW s \in Session, StepOf(s), StaysIdle(s), CameraTyped, NEW t \in Session,
         ~closing /\ close'[t] # NoTask => close'[t] = close[t]
  PROVE  Spares(t)'
<1> SUFFICES ASSUME ~closing, close'[t] # NoTask, NEW u \in close'[t].others
             PROVE  /\ offer'[u] = NoTask /\ u \in spent'.offers
                    /\ active'[u] # None => /\ active'[u].resource = close'[t].was.resource
                                            /\ \/ close'[t].stage = "ends"
                                               \/ close'[t].stage = "refreshes" /\ ~close'[t].stop
  BY DEF Spares, StepOf, closing
<1>1. close'[t] = close[t] /\ close[t] # NoTask
  OBVIOUS
<1>2. /\ offer[u] = NoTask /\ u \in spent.offers /\ u \in Session
      /\ active[u] # None => /\ active[u].resource = close[t].was.resource
                             /\ \/ close[t].stage = "ends"
                                \/ close[t].stage = "refreshes" /\ ~close[t].stop
  BY <1>1 DEF CameraInv, Spares, CameraTyped
<1>3. CASE u = s
  BY <1>1, <1>2, <1>3 DEF StaysIdle, StepOf
<1>4. CASE u # s
  BY <1>1, <1>2, <1>4 DEF StepOf
<1> QED
  BY <1>3, <1>4

\* An offer goes on to another stage.
LEMMA OfferGoes ==
  ASSUME CameraTyped, NEW s \in Session, offer[s] # NoTask, NEW stage \in Stages, SessionGoes(s, stage)
  PROVE  /\ offer' \in [Session -> {NoTask} \cup OfferTask] /\ offer'[s] # NoTask
         /\ offer'[s].stage = stage /\ offer'[s].owner = offer[s].owner /\ offer'[s].started = offer[s].started
         /\ offer'[s].called = offer[s].called /\ offer'[s].cancelled = offer[s].cancelled
         /\ \A t \in Session \ {s} : offer'[t] = offer[t]
<1>1. offer[s] \in OfferTask /\ offer \in [Session -> {NoTask} \cup OfferTask]
  BY DEF CameraTyped
<1>2. offer'[s] = [offer[s] EXCEPT !.stage = stage] /\ \A t \in Session \ {s} : offer'[t] = offer[t]
  BY <1>1 DEF SessionGoes
<1>3. /\ offer'[s] \in OfferTask
      /\ offer'[s].stage = stage /\ offer'[s].owner = offer[s].owner /\ offer'[s].started = offer[s].started
      /\ offer'[s].called = offer[s].called /\ offer'[s].cancelled = offer[s].cancelled
  BY <1>1, <1>2 DEF OfferTask
<1>4. offer' \in [Session -> {NoTask} \cup OfferTask]
  BY <1>1, <1>2, <1>3 DEF SessionGoes
<1> QED
  BY <1>2, <1>3, <1>4, Apart

\* A close goes on to another stage.
LEMMA CloseGoes ==
  ASSUME CameraTyped, NEW s \in Session, close[s] # NoTask, NEW stage \in Stopping,
         close' = [close EXCEPT ![s].stage = stage]
  PROVE  /\ close' \in [Session -> {NoTask} \cup CloseCall] /\ close'[s] # NoTask
         /\ close'[s].stage = stage /\ close'[s].was = close[s].was /\ close'[s].stop = close[s].stop
         /\ close'[s].by = close[s].by /\ close'[s].others = close[s].others
         /\ \A t \in Session \ {s} : close'[t] = close[t]
<1>1. close[s] \in CloseCall /\ close \in [Session -> {NoTask} \cup CloseCall]
  BY DEF CameraTyped
<1>2. close'[s] = [close[s] EXCEPT !.stage = stage] /\ \A t \in Session \ {s} : close'[t] = close[t]
  BY <1>1
<1>3. /\ close'[s] \in CloseCall
      /\ close'[s].stage = stage /\ close'[s].was = close[s].was /\ close'[s].stop = close[s].stop
      /\ close'[s].by = close[s].by /\ close'[s].others = close[s].others
  BY <1>1, <1>2 DEF CloseCall
<1>4. close' \in [Session -> {NoTask} \cup CloseCall]
  BY <1>1, <1>2, <1>3
<1> QED
  BY <1>2, <1>3, <1>4, Apart

\* A close that asks on keeps what it closes, or ends.
CloseMoves(s) ==
    /\ close[s] # NoTask /\ close[s].stage \in {"ends", "refreshes"}
    /\ UNCHANGED <<active, offer, later, ended, lock, stopping, removal, current, media, spent, forgiven, cut>>
    /\ close' \in [Session -> {NoTask} \cup CloseCall] /\ \A t \in Session \ {s} : close'[t] = close[t]
    /\ close'[s] # NoTask =>
          /\ close'[s].by = close[s].by /\ close'[s].others = close[s].others
          /\ close'[s].was.owner = close[s].was.owner /\ close'[s].was.ready = close[s].was.ready
          /\ close'[s].was.resource = close[s].was.resource
          /\ close'[s].was.ring \in {close[s].was.ring, "none"}
          /\ (close'[s].stop => close[s].stop) /\ (close[s].was.owner = "home_call" => close'[s].stop = close[s].stop)
          /\ \/ close'[s].stage = "refreshes" /\ ~close'[s].stop
             \/ ~Shared(close[s].was.resource)
             \/ close[s].stage = "refreshes" /\ close[s].stop
          /\ close'[s].stage = "refreshes" => close'[s].was.ring = "preview"
          /\ close'[s].stage \in Stopping => close'[s].stop
    /\ close'[s] = NoTask /\ close[s].was.owner = "home_call" => ~close[s].stop \/ Shared("home_call")

LEMMA CloseMovesKeeps == ASSUME CameraInv, NEW s \in Session, CloseMoves(s) PROVE CameraInv'
<1>0. /\ CameraTyped /\ Registered(s) /\ Agrees(s) /\ RemovedOf(s) /\ OfferOf(s) /\ CloseOf(s)
      /\ \A t \in Session : Spares(t) /\ Agrees(t)
  BY DEF CameraInv, SessionInv
<1>1. /\ close[s] # NoTask /\ close[s].stage \in {"ends", "refreshes"}
      /\ UNCHANGED <<active, offer, later, ended, lock, stopping, removal, current, media, spent, forgiven, cut>>
      /\ close' \in [Session -> {NoTask} \cup CloseCall] /\ \A t \in Session \ {s} : close'[t] = close[t]
  BY DEF CloseMoves
<1>2. close'[s] # NoTask =>
          /\ close'[s].by = close[s].by /\ close'[s].others = close[s].others
          /\ close'[s].was.owner = close[s].was.owner /\ close'[s].was.ready = close[s].was.ready
          /\ close'[s].was.resource = close[s].was.resource
          /\ close'[s].was.ring \in {close[s].was.ring, "none"}
          /\ (close'[s].stop => close[s].stop) /\ (close[s].was.owner = "home_call" => close'[s].stop = close[s].stop)
          /\ close'[s].stage = "refreshes" => close'[s].was.ring = "preview"
          /\ close'[s].stage \in Stopping => close'[s].stop
  BY DEF CloseMoves
<1>3. StepOf(s) /\ StaysIdle(s) /\ LockStep(s)
  <2>1. StepOf(s) /\ StaysIdle(s)
    BY <1>1 DEF StepOf, StaysIdle
  <2>2. LockOf(s) => LockOf(s)'
    BY <1>1 DEF LockOf, At
  <2> QED
    BY <1>1, <2>1, <2>2 DEF LockStep
<1>4. CameraTyped'
  BY <1>0, <1>1 DEF CameraTyped, closing
<1>5. SessionInv(s)'
  <2>1. Registered(s)' /\ RemovedOf(s)'
    BY <1>0, <1>1, <1>2 DEF Registered, RemovedOf, Stops, At, closing
  <2>2. Agrees(s)'
    BY <1>0, <1>1, <1>2 DEF Agrees, OfOwner
  <2>3. OfferOf(s)'
    BY <1>0, <1>1 DEF OfferOf, At, Called, InCleanup, closing
  <2>4. CloseOf(s)'
    BY <1>0, <1>1, <1>2 DEF CloseOf, At, Called
  <2> QED
    BY <2>1, <2>2, <2>3, <2>4 DEF SessionInv
<1>6. HolderStep(s)
  <2> SUFFICES ASSUME media = "call", ~forgiven, current, ~cut, stopping # "home_call", Holder(s)
               PROVE  \E t \in Session : Holder(t)'
    BY <1>1 DEF HolderStep
  <2>1. CASE close'[s] # NoTask
    BY <1>1, <1>2, <2>1 DEF Holder, At, Called, InCleanup
  <2>2. CASE close'[s] = NoTask /\ close[s].was.owner # "home_call"
    BY <1>1, <2>2 DEF Holder, At, Called, InCleanup
  <2>3. CASE close'[s] = NoTask /\ close[s].was.owner = "home_call"
    <3>1. close[s].stop \/ close[s].by = "cleanup"
      BY <1>0, <1>1, <2>3 DEF CloseOf
    <3>2. CASE close[s].by = "cleanup"
      <4>1. At(s, "cleans") /\ (Called(s) => offer[s].called \/ offer[s].cancelled)
        BY <1>0, <1>1, <3>2 DEF CloseOf
      <4>2. Called(s) /\ offer[s] # NoTask /\ InCleanup(s)
        BY <1>0, <1>1, <2>3, <4>1 DEF Agrees, Called, At, InCleanup
      <4> QED
        BY <1>1, <4>1, <4>2 DEF Holder, At, Called, InCleanup
    <3>3. CASE close[s].stop
      <4>1. PICK t \in Session : active[t] # None /\ active[t].resource = "home_call"
        BY <2>3, <3>3 DEF CloseMoves, Shared
      <4>2. active[t].owner = "home_call"
        BY <1>0, <4>1 DEF Agrees, OfOwner
      <4> QED
        BY <1>1, <4>1, <4>2 DEF Holder
    <3> QED
      BY <3>1, <3>2, <3>3
  <2> QED
    BY <2>1, <2>2, <2>3
<1>7. ASSUME NEW t \in Session PROVE Spares(t)'
  <2>1. CASE t # s \/ close'[s] = NoTask
    BY <1>0, <1>1, <1>3, <2>1, SparesKept
  <2>2. CASE t = s /\ close'[s] # NoTask
    <3> SUFFICES ASSUME ~closing, NEW u \in close[s].others
                 PROVE  /\ offer[u] = NoTask /\ u \in spent.offers
                        /\ active[u] # None => /\ active[u].resource = close[s].was.resource
                                               /\ close'[s].stage = "refreshes" /\ ~close'[s].stop
      BY <1>1, <1>2, <2>2 DEF Spares, closing
    <3>1. /\ offer[u] = NoTask /\ u \in spent.offers /\ u \in Session
          /\ active[u] # None => /\ active[u].resource = close[s].was.resource
                                 /\ ~(close[s].stage = "refreshes" /\ close[s].stop)
      BY <1>0, <1>1 DEF Spares, CameraTyped, CloseCall
    <3>2. active[u] # None => Shared(close[s].was.resource)
      BY <3>1 DEF Shared
    <3> QED
      BY <2>2, <3>1, <3>2 DEF CloseMoves
  <2> QED
    BY <2>1, <2>2
<1> QED
  BY <1>3, <1>4, <1>5, <1>6, <1>7, StepKeeps

LEMMA ProviderClosedKeeps == ASSUME CameraInv, NEW s \in Session, ProviderClosed(s) PROVE CameraInv'
<1> DEFINE last == close[s].stop /\ LastOfResource(s)
<1>0. /\ CameraTyped /\ Agrees(s)
  BY DEF CameraInv, SessionInv
<1>1. /\ close[s] # NoTask /\ close[s].stage = "ends" /\ close[s] \in CloseCall /\ close[s].was \in LiveSession
      /\ UNCHANGED <<active, offer, later, ended, lock, stopping, removal, current, media, spent, forgiven, cut>>
      /\ close \in [Session -> {NoTask} \cup CloseCall] /\ OfOwner(close[s].was) /\ last \in BOOLEAN
  BY <1>0, FieldsOf DEF ProviderClosed, CameraTyped, Agrees, LastOfResource, Shared, CloseCall
<1>2. last => ~Shared(close[s].was.resource)
  BY DEF LastOfResource
<1>3. close[s].was.owner = "home_call" => close[s].was.ring = "none" /\ close[s].was.resource = "home_call"
  BY <1>1 DEF OfOwner
<1>4. close[s].stop => last \/ Shared(close[s].was.resource)
  BY DEF LastOfResource
<1>5. \/ /\ close[s].was.ring = "preview"
         /\ close' = [close EXCEPT ![s].stage = "refreshes", ![s].stop = last]
      \/ /\ last /\ close' = [close EXCEPT ![s].stage = "waits"]
      \/ /\ close' = [close EXCEPT ![s] = NoTask] /\ (last => close[s].was.ring # "none")
  BY DEF ProviderClosed, Decided
<1> HIDE DEF last
<1>6. CASE close[s].was.ring = "preview" /\ close' = [close EXCEPT ![s].stage = "refreshes", ![s].stop = last]
  <2>1. close'[s] = [close[s] EXCEPT !.stage = "refreshes", !.stop = last]
    BY <1>1, <1>6
  <2>2. /\ close'[s] \in CloseCall /\ close'[s].stage = "refreshes" /\ close'[s].stop = last
        /\ close'[s].by = close[s].by /\ close'[s].others = close[s].others /\ close'[s].was = close[s].was
    BY <1>1, <2>1 DEF CloseCall
  <2>3. close' \in [Session -> {NoTask} \cup CloseCall] /\ \A t \in Session \ {s} : close'[t] = close[t]
    BY <1>1, <1>6, <2>2
  <2>4. close'[s] # NoTask
    BY <2>2, Apart
  <2>5. last => close[s].stop
    BY DEF last
  <2>6. CloseMoves(s)
    BY <1>1, <1>2, <1>3, <1>6, <2>2, <2>3, <2>4, <2>5 DEF CloseMoves, Stopping
  <2> QED
    BY <2>6, CloseMovesKeeps
<1>7. CASE last /\ close' = [close EXCEPT ![s].stage = "waits"]
  <2>1. /\ close' \in [Session -> {NoTask} \cup CloseCall] /\ close'[s] # NoTask
        /\ close'[s].stage = "waits" /\ close'[s].was = close[s].was /\ close'[s].stop = close[s].stop
        /\ close'[s].by = close[s].by /\ close'[s].others = close[s].others
        /\ \A t \in Session \ {s} : close'[t] = close[t]
    BY <1>0, <1>1, <1>7, CloseGoes DEF Stopping
  <2>2. last => close[s].stop
    BY DEF last
  <2>3. CloseMoves(s)
    BY <1>1, <1>2, <1>7, <2>1, <2>2 DEF CloseMoves
  <2> QED
    BY <2>3, CloseMovesKeeps
<1>8. CASE close' = [close EXCEPT ![s] = NoTask] /\ (last => close[s].was.ring # "none")
  <2>1. /\ close' \in [Session -> {NoTask} \cup CloseCall] /\ close'[s] = NoTask
        /\ \A t \in Session \ {s} : close'[t] = close[t]
    BY <1>1, <1>8
  <2>2. CloseMoves(s)
    BY <1>1, <1>3, <1>4, <1>8, <2>1 DEF CloseMoves
  <2> QED
    BY <2>2, CloseMovesKeeps
<1> QED
  BY <1>5, <1>6, <1>7, <1>8

LEMMA PreviewRefreshedKeeps == ASSUME CameraInv, NEW s \in Session, PreviewRefreshed(s) PROVE CameraInv'
<1>0. /\ CameraTyped /\ Agrees(s) /\ CloseOf(s)
  BY DEF CameraInv, SessionInv
<1>1. /\ close[s] # NoTask /\ close[s].stage = "refreshes" /\ close[s] \in CloseCall
      /\ close[s].was \in LiveSession /\ close[s].was.ring = "preview" /\ close[s].was.owner # "home_call"
      /\ UNCHANGED <<active, offer, later, ended, lock, stopping, removal, current, media, spent, forgiven, cut>>
      /\ close \in [Session -> {NoTask} \cup CloseCall]
  BY <1>0, FieldsOf DEF PreviewRefreshed, CameraTyped, Agrees, CloseOf, OfOwner
<1>2. \/ /\ close[s].stop /\ close' = [close EXCEPT ![s].stage = "waits"]
      \/ /\ close[s].stop /\ close' = [close EXCEPT ![s].stage = "waits", ![s].was.ring = "none"]
      \/ close' = [close EXCEPT ![s] = NoTask]
  BY DEF PreviewRefreshed, Decided
<1>3. CASE close[s].stop /\ close' = [close EXCEPT ![s].stage = "waits"]
  <2>1. /\ close' \in [Session -> {NoTask} \cup CloseCall] /\ close'[s] # NoTask
        /\ close'[s].stage = "waits" /\ close'[s].was = close[s].was /\ close'[s].stop = close[s].stop
        /\ close'[s].by = close[s].by /\ close'[s].others = close[s].others
        /\ \A t \in Session \ {s} : close'[t] = close[t]
    BY <1>0, <1>1, <1>3, CloseGoes DEF Stopping
  <2>2. CloseMoves(s)
    BY <1>1, <1>3, <2>1 DEF CloseMoves
  <2> QED
    BY <2>2, CloseMovesKeeps
<1>4. CASE close[s].stop /\ close' = [close EXCEPT ![s].stage = "waits", ![s].was.ring = "none"]
  <2>1. close'[s] = [close[s] EXCEPT !.stage = "waits", !.was.ring = "none"]
    BY <1>1, <1>4
  <2>2. /\ close'[s].stage = "waits" /\ close'[s].stop = close[s].stop
        /\ close'[s].by = close[s].by /\ close'[s].others = close[s].others
        /\ close'[s].was = [close[s].was EXCEPT !.ring = "none"]
    BY <1>1, <2>1 DEF CloseCall
  <2>3. /\ close'[s].was \in LiveSession /\ close'[s].was.ring = "none"
        /\ close'[s].was.owner = close[s].was.owner /\ close'[s].was.ready = close[s].was.ready
        /\ close'[s].was.resource = close[s].was.resource
    BY <1>1, <2>2 DEF LiveSession, Ringing
  <2>4. close'[s] \in CloseCall
    BY <1>1, <2>1, <2>3 DEF CloseCall, Stopping
  <2>5. close' \in [Session -> {NoTask} \cup CloseCall] /\ \A t \in Session \ {s} : close'[t] = close[t]
    BY <1>1, <1>4, <2>4
  <2>6. CloseMoves(s)
    BY <1>1, <1>4, <2>2, <2>3, <2>4, <2>5, Apart DEF CloseMoves
  <2> QED
    BY <2>6, CloseMovesKeeps
<1>5. CASE close' = [close EXCEPT ![s] = NoTask]
  <2>1. /\ close' \in [Session -> {NoTask} \cup CloseCall] /\ close'[s] = NoTask
        /\ \A t \in Session \ {s} : close'[t] = close[t]
    BY <1>1, <1>5
  <2>2. CloseMoves(s)
    BY <1>1, <2>1 DEF CloseMoves
  <2> QED
    BY <2>2, CloseMovesKeeps
<1> QED
  BY <1>2, <1>3, <1>4, <1>5

LEMMA StopBeginsKeeps == ASSUME CameraInv, NEW s \in Session, StopBegins(s) PROVE CameraInv'
<1>0. /\ CameraTyped /\ Registered(s) /\ Agrees(s) /\ RemovedOf(s) /\ OfferOf(s) /\ CloseOf(s)
      /\ \A t \in Session : Spares(t) /\ Agrees(t)
  BY DEF CameraInv, SessionInv
<1>1. /\ close[s] # NoTask /\ close[s].stage = "waits"
      /\ UNCHANGED <<active, offer, later, ended, stopping, removal, current, media, spent, forgiven, cut>>
      /\ close' = [close EXCEPT ![s].stage = "drains"]
      /\ lock' = [id |-> s, for |-> "close"]
  BY DEF StopBegins
<1>2. /\ close' \in [Session -> {NoTask} \cup CloseCall] /\ close'[s] # NoTask
      /\ close'[s].stage = "drains" /\ close'[s].was = close[s].was /\ close'[s].stop = close[s].stop
      /\ close'[s].by = close[s].by /\ close'[s].others = close[s].others
      /\ \A t \in Session \ {s} : close'[t] = close[t]
  BY <1>0, <1>1, CloseGoes DEF Stopping
<1>3. StepOf(s) /\ StaysIdle(s) /\ LockStep(s)
  BY <1>1, <1>2 DEF StepOf, StaysIdle, LockStep, LockOf
<1>4. CameraTyped'
  BY <1>0, <1>1, <1>2 DEF CameraTyped, closing
<1>5. SessionInv(s)'
  <2>1. Registered(s)' /\ RemovedOf(s)'
    BY <1>0, <1>1, <1>2 DEF Registered, RemovedOf, Stops, At, closing
  <2>2. Agrees(s)'
    BY <1>0, <1>1, <1>2 DEF Agrees, OfOwner
  <2>3. OfferOf(s)'
    BY <1>0, <1>1 DEF OfferOf, At, Called, InCleanup, closing
  <2>4. CloseOf(s)'
    BY <1>0, <1>1, <1>2 DEF CloseOf, At, Called, Stopping
  <2> QED
    BY <2>1, <2>2, <2>3, <2>4 DEF SessionInv
<1>6. HolderStep(s)
  BY <1>1, <1>2 DEF HolderStep, Holder, At, Called, InCleanup
<1>7. ASSUME NEW t \in Session PROVE Spares(t)'
  <2>1. CASE t # s
    BY <1>0, <1>2, <1>3, <2>1, SparesKept
  <2>2. CASE t = s
    BY <1>0, <1>1, <1>2, <2>2 DEF Spares, closing
  <2> QED
    BY <2>1, <2>2
<1> QED
  BY <1>3, <1>4, <1>5, <1>6, <1>7, StepKeeps

\* The agent's answer to a stop is never a call that begins.
LEMMA StoppedMedia ==
  ASSUME CameraTyped, NEW owner \in Owner
  PROVE  Stopped(owner) \in {"idle", media} /\ (owner = "home_call" => Stopped(owner) # "call")
BY DEF Stopped, Owner, CameraTyped

LEMMA MediaStoppedKeeps == ASSUME CameraInv, NEW s \in Session, MediaStopped(s) PROVE CameraInv'
<1>0. /\ CameraTyped /\ Registered(s) /\ Agrees(s) /\ RemovedOf(s) /\ OfferOf(s) /\ CloseOf(s)
      /\ \A t \in Session : Spares(t) /\ Agrees(t)
  BY DEF CameraInv, SessionInv
<1>1. /\ close[s] # NoTask
      /\ UNCHANGED <<active, offer, later, ended, stopping, removal, current, spent, cut>>
      /\ close' = [close EXCEPT ![s] = NoTask] /\ lock' = Free
      /\ \/ media' = Stopped(close[s].was.owner) /\ UNCHANGED forgiven
         \/ forgiven' = TRUE /\ UNCHANGED media
  BY DEF MediaStopped
<1>2. /\ close' \in [Session -> {NoTask} \cup CloseCall] /\ close'[s] = NoTask
      /\ \A t \in Session \ {s} : close'[t] = close[t]
  BY <1>0, <1>1 DEF CameraTyped
<1>3. close[s].was.owner \in Owner
  BY <1>0, <1>1, FieldsOf DEF LiveSession
<1>4. media' \in {"idle", media} /\ (forgiven' \/ (forgiven' = forgiven /\
         (close[s].was.owner = "home_call" => media' # "call")))
  BY <1>0, <1>1, <1>3, StoppedMedia
<1>5. StepOf(s) /\ StaysIdle(s) /\ LockStep(s)
  BY <1>1, <1>2 DEF StepOf, StaysIdle, LockStep
<1>6. CameraTyped'
  BY <1>0, <1>1, <1>2, <1>4 DEF CameraTyped, closing
<1>7. SessionInv(s)'
  <2>1. Registered(s)' /\ RemovedOf(s)'
    BY <1>0, <1>1, <1>2 DEF Registered, RemovedOf, Stops, At, closing
  <2>2. Agrees(s)'
    BY <1>0, <1>1, <1>2 DEF Agrees, OfOwner
  <2>3. OfferOf(s)'
    BY <1>0, <1>1 DEF OfferOf, At, Called, InCleanup, closing
  <2>4. CloseOf(s)'
    BY <1>2 DEF CloseOf
  <2> QED
    BY <2>1, <2>2, <2>3, <2>4 DEF SessionInv
<1>8. HolderStep(s)
  BY <1>1, <1>2, <1>4 DEF HolderStep, Holder, At, Called, InCleanup
<1>9. ASSUME NEW t \in Session PROVE Spares(t)'
  <2>1. close'[t] # NoTask => close'[t] = close[t]
    BY <1>2
  <2> QED
    BY <1>0, <1>5, <2>1, SparesKept
<1> QED
  BY <1>5, <1>6, <1>7, <1>8, <1>9, StepKeeps

LEMMA CloseCancelledKeeps == ASSUME CameraInv, NEW s \in Session, CloseCancelled(s) PROVE CameraInv'
<1>0. /\ CameraTyped /\ Registered(s) /\ Agrees(s) /\ RemovedOf(s) /\ OfferOf(s) /\ CloseOf(s)
      /\ \A t \in Session : Spares(t) /\ Agrees(t)
  BY DEF CameraInv, SessionInv
<1>1. /\ close[s] # NoTask /\ Interrupted(s)
      /\ UNCHANGED <<offer, later, ended, stopping, removal, current, spent, forgiven, cut>>
      /\ close' = [close EXCEPT ![s] = NoTask]
      /\ active' = Restored(s) /\ lock' = LockLeft(s)
      /\ media' \in IF close[s].stage = "drains" THEN {media, Stopped(close[s].was.owner)} ELSE {media}
  BY DEF CloseCancelled
<1>2. active[s] = None /\ close[s].was \in LiveSession /\ close[s].was.owner \in Owner
  BY <1>0, <1>1, FieldsOf DEF Registered, LiveSession
<1>3. /\ close' \in [Session -> {NoTask} \cup CloseCall] /\ close'[s] = NoTask
      /\ active' \in [Session -> {None} \cup LiveSession] /\ active'[s] = close[s].was /\ active'[s] # None
      /\ \A t \in Session \ {s} : close'[t] = close[t] /\ active'[t] = active[t]
  BY <1>0, <1>1, <1>2, Apart DEF CameraTyped, Restored
<1>4. media' \in {"idle", media}
  BY <1>0, <1>1, <1>2, StoppedMedia
<1>5. /\ s \in spent.offers
      /\ closing \/ (At(s, "failing") /\ offer[s].cancelled /\ close[s].by = "failed")
      /\ ~At(s, "asks") /\ ~At(s, "accepted") /\ ~At(s, "decides") /\ removal # "done"
      /\ close[s].by # "cleanup" /\ removal \notin {"sessions"}
  BY <1>0, <1>1 DEF Registered, Interrupted, RemovedOf, Stops, CloseOf, closing
<1>6. StepOf(s) /\ StaysIdle(s)
  BY <1>1, <1>3, <1>5 DEF StepOf, StaysIdle, At
<1>7. LockStep(s)
  <2>1. CASE close[s].stage = "drains"
    BY <1>1, <2>1 DEF LockStep, LockLeft
  <2>2. CASE close[s].stage # "drains"
    <3>1. lock' = lock
      BY <1>1, <2>2 DEF LockLeft
    <3>2. LockOf(s) => LockOf(s)'
      BY <1>1, <2>2, <3>1 DEF LockOf, At
    <3> QED
      BY <3>1, <3>2 DEF LockStep
  <2> QED
    BY <2>1, <2>2
<1>8. CameraTyped'
  BY <1>0, <1>1, <1>3, <1>4 DEF CameraTyped, closing
<1>9. SessionInv(s)'
  <2>1. Registered(s)' /\ RemovedOf(s)'
    BY <1>0, <1>1, <1>3, <1>5 DEF Registered, RemovedOf, Stops, At, closing
  <2>2. Agrees(s)'
    BY <1>0, <1>1, <1>3 DEF Agrees, OfOwner
  <2>3. OfferOf(s)'
    BY <1>0, <1>1, <1>3, <1>5 DEF OfferOf, At, Called, InCleanup, closing, RemovedOf, Stops
  <2>4. CloseOf(s)'
    BY <1>3 DEF CloseOf
  <2> QED
    BY <2>1, <2>2, <2>3, <2>4 DEF SessionInv
<1>10. HolderStep(s)
  BY <1>1, <1>2, <1>3, <1>4 DEF HolderStep, Holder, At, Called, InCleanup
<1>11. ASSUME NEW t \in Session PROVE Spares(t)'
  <2>1. close'[t] # NoTask => close'[t] = close[t]
    BY <1>3
  <2> QED
    BY <1>0, <1>6, <2>1, SparesKept
<1> QED
  BY <1>6, <1>7, <1>8, <1>9, <1>10, <1>11, StepKeeps

\* A step about an id that moves nothing but its offer.
OfferMoves(s) ==
    /\ offer[s] # NoTask /\ offer' \in [Session -> {NoTask} \cup OfferTask]
    /\ \A t \in Session \ {s} : offer'[t] = offer[t]
    /\ offer'[s] # NoTask => offer'[s].owner = offer[s].owner
    /\ UNCHANGED <<active, close, later, ended, stopping, removal, current, spent, cut>>
    /\ forgiven' \in BOOLEAN /\ (forgiven => forgiven')
    /\ media' \in {"idle", "video", "ring", "call"}

\* It does not register any more, and no close is in its way.
Onward(s) ==
    /\ At(s, "asks")' \/ At(s, "accepted")' \/ At(s, "decides")' =>
          At(s, "asks") \/ At(s, "accepted") \/ At(s, "decides")
    /\ close[s] # NoTask => close[s].by \notin {"failed", "cleanup"}

LEMMA OfferStepKeeps ==
  ASSUME CameraInv, NEW s \in Session, OfferMoves(s), Onward(s), LockStep(s), HolderStep(s), OfferOf(s)'
  PROVE  CameraInv'
<1>0. /\ CameraTyped /\ Registered(s) /\ Agrees(s) /\ RemovedOf(s) /\ OfferOf(s) /\ CloseOf(s)
  BY DEF CameraInv, SessionInv
<1>1. StepOf(s) /\ StaysIdle(s)
  BY DEF OfferMoves, StepOf, StaysIdle
<1>2. CameraTyped'
  BY <1>0 DEF CameraTyped, OfferMoves, closing
<1>3. Registered(s)'
  BY <1>0 DEF Registered, OfferMoves, Onward
<1>4. Agrees(s)'
  BY <1>0 DEF Agrees, OfferMoves, OfOwner
<1>5. RemovedOf(s)'
  BY <1>0 DEF RemovedOf, Stops, OfferMoves, closing
<1>6. CloseOf(s)'
  BY <1>0 DEF CloseOf, OfferMoves, Onward
<1>7. ASSUME NEW t \in Session PROVE Spares(t)'
  <2>1. close'[t] = close[t]
    BY DEF OfferMoves
  <2> QED
    BY <1>0, <1>1, <2>1, SparesKept
<1> QED
  BY <1>1, <1>2, <1>3, <1>4, <1>5, <1>6, <1>7, StepKeeps DEF SessionInv

LEMMA CallAcceptedKeeps == ASSUME CameraInv, NEW s \in Session, CallAccepted(s) PROVE CameraInv'
<1>0. CameraTyped /\ Registered(s) /\ OfferOf(s)
  BY DEF CameraInv, SessionInv
<1>1. /\ At(s, "asks") /\ offer[s] # NoTask /\ media' = "call" /\ SessionGoes(s, "accepted")
      /\ UNCHANGED <<active, close, later, ended, lock, stopping, removal, current, spent, forgiven, cut>>
  BY DEF CallAccepted, At
<1>2. /\ offer' \in [Session -> {NoTask} \cup OfferTask] /\ offer'[s] # NoTask
      /\ offer'[s].stage = "accepted" /\ offer'[s].owner = offer[s].owner
      /\ offer'[s].called = offer[s].called /\ offer'[s].cancelled = offer[s].cancelled
      /\ \A t \in Session \ {s} : offer'[t] = offer[t]
  BY <1>0, <1>1, OfferGoes DEF Stages
<1>3. OfferMoves(s)
  BY <1>0, <1>1, <1>2 DEF OfferMoves, CameraTyped
<1>4. Onward(s) /\ LockStep(s)
  BY <1>0, <1>1 DEF Onward, Registered, LockStep, LockOf, At
<1>5. HolderStep(s)
  BY <1>0, <1>1, <1>2 DEF HolderStep, Holder, At, Called, InCleanup, OfferOf
<1>6. OfferOf(s)'
  BY <1>0, <1>1, <1>2 DEF OfferOf, At, Called, InCleanup, Registered, closing
<1> QED
  BY <1>3, <1>4, <1>5, <1>6, OfferStepKeeps

LEMMA CallStartedKeeps == ASSUME CameraInv, NEW s \in Session, CallStarted(s) PROVE CameraInv'
<1>0. CameraTyped /\ Registered(s) /\ OfferOf(s)
  BY DEF CameraInv, SessionInv
<1>1. /\ At(s, "accepted") /\ ~offer[s].cancelled /\ offer[s] # NoTask
      /\ offer' = [offer EXCEPT ![s].stage = "decides", ![s].called = TRUE]
      /\ UNCHANGED <<active, close, later, ended, lock, stopping, removal, current, media, spent, forgiven, cut>>
  BY DEF CallStarted, Awaits, At
<1>2. /\ offer' \in [Session -> {NoTask} \cup OfferTask] /\ offer'[s] # NoTask
      /\ offer'[s].stage = "decides" /\ offer'[s].owner = offer[s].owner
      /\ offer'[s].called = TRUE /\ offer'[s].cancelled = offer[s].cancelled
      /\ \A t \in Session \ {s} : offer'[t] = offer[t]
  <2>1. offer[s] \in OfferTask /\ offer \in [Session -> {NoTask} \cup OfferTask]
    BY <1>0, <1>1, FieldsOf DEF CameraTyped
  <2>2. /\ offer'[s] = [[offer[s] EXCEPT !.stage = "decides"] EXCEPT !.called = TRUE]
        /\ DOMAIN offer' = Session /\ offer' = [t \in Session |-> offer'[t]]
        /\ \A t \in Session \ {s} : offer'[t] = offer[t]
    BY <1>1, <2>1
  <2>3. /\ offer'[s] \in OfferTask
        /\ offer'[s].stage = "decides" /\ offer'[s].owner = offer[s].owner /\ offer'[s].called = TRUE
        /\ offer'[s].started = offer[s].started /\ offer'[s].cancelled = offer[s].cancelled
    BY <2>1, <2>2 DEF OfferTask, Stages
  <2>4. offer' \in [Session -> {NoTask} \cup OfferTask]
    BY <2>1, <2>2, <2>3
  <2> QED
    BY <2>2, <2>3, <2>4, Apart
<1>3. OfferMoves(s)
  BY <1>0, <1>1, <1>2 DEF OfferMoves, CameraTyped
<1>4. Onward(s) /\ LockStep(s)
  BY <1>0, <1>1 DEF Onward, Registered, LockStep, LockOf, At
<1>5. HolderStep(s)
  BY <1>0, <1>1, <1>2 DEF HolderStep, Holder, At, Called, InCleanup, OfferOf
<1>6. OfferOf(s)'
  BY <1>0, <1>1, <1>2 DEF OfferOf, At, Called, InCleanup, Registered, closing
<1> QED
  BY <1>3, <1>4, <1>5, <1>6, OfferStepKeeps

LEMMA PrepareBeginsKeeps == ASSUME CameraInv, NEW s \in Session, PrepareBegins(s) PROVE CameraInv'
<1>0. CameraTyped /\ Registered(s) /\ OfferOf(s) /\ CloseOf(s)
  BY DEF CameraInv, SessionInv
<1>1. /\ At(s, "provider") /\ ~offer[s].cancelled /\ offer[s] # NoTask
      /\ SessionGoes(s, "prepares") /\ lock' = [id |-> s, for |-> "prepare"]
      /\ UNCHANGED <<active, close, later, ended, stopping, removal, current, media, spent, forgiven, cut>>
  BY DEF PrepareBegins, Awaits, At
<1>2. /\ offer' \in [Session -> {NoTask} \cup OfferTask] /\ offer'[s] # NoTask
      /\ offer'[s].stage = "prepares" /\ offer'[s].owner = offer[s].owner
      /\ offer'[s].called = offer[s].called /\ offer'[s].cancelled = offer[s].cancelled
      /\ \A t \in Session \ {s} : offer'[t] = offer[t]
  BY <1>0, <1>1, OfferGoes DEF Stages
<1>3. OfferMoves(s)
  BY <1>0, <1>1, <1>2 DEF OfferMoves, CameraTyped
<1>4. Onward(s) /\ LockStep(s)
  BY <1>0, <1>1, <1>2 DEF Onward, CloseOf, LockStep, LockOf, At
<1>5. HolderStep(s)
  BY <1>0, <1>1, <1>2 DEF HolderStep, Holder, At, Called, InCleanup, OfferOf
<1>6. OfferOf(s)'
  BY <1>0, <1>1, <1>2 DEF OfferOf, At, Called, InCleanup, closing
<1> QED
  BY <1>3, <1>4, <1>5, <1>6, OfferStepKeeps

LEMMA PreparedKeeps == ASSUME CameraInv, NEW s \in Session, Prepared(s) PROVE CameraInv'
<1>0. CameraTyped /\ Registered(s) /\ OfferOf(s) /\ CloseOf(s)
  BY DEF CameraInv, SessionInv
<1>1. /\ At(s, "prepares") /\ ~offer[s].cancelled /\ offer[s] # NoTask /\ lock' = Free
      /\ offer' = [offer EXCEPT ![s].stage = "opened", ![s].started = TRUE]
      /\ media' = IF media = "idle" THEN "video" ELSE media
      /\ UNCHANGED <<active, close, later, ended, stopping, removal, current, spent, forgiven, cut>>
  BY DEF Prepared, Awaits, At
<1>2. /\ offer' \in [Session -> {NoTask} \cup OfferTask] /\ offer'[s] # NoTask
      /\ offer'[s].stage = "opened" /\ offer'[s].owner = offer[s].owner
      /\ offer'[s].called = offer[s].called /\ offer'[s].cancelled = offer[s].cancelled
      /\ \A t \in Session \ {s} : offer'[t] = offer[t]
  <2>1. offer[s] \in OfferTask /\ offer \in [Session -> {NoTask} \cup OfferTask]
    BY <1>0, <1>1, FieldsOf DEF CameraTyped
  <2>2. /\ offer'[s] = [[offer[s] EXCEPT !.stage = "opened"] EXCEPT !.started = TRUE]
        /\ DOMAIN offer' = Session /\ offer' = [t \in Session |-> offer'[t]]
        /\ \A t \in Session \ {s} : offer'[t] = offer[t]
    BY <1>1, <2>1
  <2>3. /\ offer'[s] \in OfferTask
        /\ offer'[s].stage = "opened" /\ offer'[s].owner = offer[s].owner /\ offer'[s].started = TRUE
        /\ offer'[s].called = offer[s].called /\ offer'[s].cancelled = offer[s].cancelled
    BY <2>1, <2>2 DEF OfferTask, Stages
  <2>4. offer' \in [Session -> {NoTask} \cup OfferTask]
    BY <2>1, <2>2, <2>3
  <2> QED
    BY <2>2, <2>3, <2>4, Apart
<1>3. OfferMoves(s)
  BY <1>0, <1>1, <1>2 DEF OfferMoves, CameraTyped
<1>4. Onward(s) /\ LockStep(s)
  BY <1>0, <1>1, <1>2 DEF Onward, CloseOf, LockStep, At
<1>5. HolderStep(s)
  BY <1>0, <1>1, <1>2 DEF HolderStep, Holder, At, Called, InCleanup, OfferOf
<1>6. OfferOf(s)'
  BY <1>0, <1>1, <1>2 DEF OfferOf, At, Called, InCleanup, closing
<1> QED
  BY <1>3, <1>4, <1>5, <1>6, OfferStepKeeps

LEMMA FailedClosedKeeps == ASSUME CameraInv, NEW s \in Session, FailedClosed(s) PROVE CameraInv'
<1>0. CameraTyped /\ Registered(s) /\ Agrees(s) /\ OfferOf(s) /\ CloseOf(s)
  BY DEF CameraInv, SessionInv
<1>1. /\ At(s, "failing") /\ ~offer[s].cancelled /\ offer[s] # NoTask /\ ~OwnClose(s)
      /\ offer' = [offer EXCEPT ![s] = NoTask]
      /\ UNCHANGED <<active, close, later, ended, lock, stopping, removal, current, media, spent, forgiven, cut>>
  BY DEF FailedClosed, Awaits, At, OfferEnds
<1>2. /\ offer' \in [Session -> {NoTask} \cup OfferTask] /\ offer'[s] = NoTask
      /\ \A t \in Session \ {s} : offer'[t] = offer[t]
  BY <1>0, <1>1 DEF CameraTyped
<1>3. OfferMoves(s)
  BY <1>0, <1>1, <1>2 DEF OfferMoves, CameraTyped
<1>4. Onward(s) /\ LockStep(s)
  BY <1>0, <1>1, <1>2 DEF Onward, OwnClose, LockStep, LockOf, At
<1>5. HolderStep(s)
  BY <1>0, <1>1, <1>2 DEF HolderStep, Holder, At, Called, InCleanup
<1>6. OfferOf(s)'
  <2>1. offer[s].owner \in Owner
    BY <1>0, <1>1, FieldsOf DEF OfferTask
  <2> QED
    BY <1>0, <1>1, <1>2, <2>1 DEF OfferOf, At, Called, InCleanup, closing, Agrees, Owner
<1> QED
  BY <1>3, <1>4, <1>5, <1>6, OfferStepKeeps

LEMMA CleanedKeeps == ASSUME CameraInv, NEW s \in Session, Cleaned(s) PROVE CameraInv'
<1>0. CameraTyped /\ Registered(s) /\ Agrees(s) /\ OfferOf(s) /\ RemovedOf(s)
  BY DEF CameraInv, SessionInv
<1>1. /\ At(s, "cleans") /\ offer[s] # NoTask /\ ~OwnClose(s)
      /\ IF CallMayRun(s) THEN SessionGoes(s, "unowned") ELSE OfferEnds(s)
      /\ UNCHANGED <<active, close, later, ended, lock, stopping, removal, current, spent, forgiven, cut>>
      /\ media' = media \/ media' = "idle"
  BY DEF Cleaned, At, CleanedMedia
<1>2. CallMayRun(s) =>
         /\ offer' \in [Session -> {NoTask} \cup OfferTask] /\ offer'[s] # NoTask
         /\ offer'[s].stage = "unowned" /\ offer'[s].owner = offer[s].owner
         /\ offer'[s].called = offer[s].called /\ offer'[s].cancelled = offer[s].cancelled
         /\ \A t \in Session \ {s} : offer'[t] = offer[t]
  BY <1>0, <1>1, OfferGoes DEF Stages
<1>3. ~CallMayRun(s) =>
         /\ offer' \in [Session -> {NoTask} \cup OfferTask] /\ offer'[s] = NoTask
         /\ \A t \in Session \ {s} : offer'[t] = offer[t]
  BY <1>0, <1>1 DEF CameraTyped, OfferEnds
<1>4. OfferMoves(s)
  BY <1>0, <1>1, <1>2, <1>3 DEF OfferMoves, CameraTyped
<1>5. Onward(s) /\ LockStep(s)
  BY <1>0, <1>1, <1>2, <1>3 DEF Onward, OwnClose, LockStep, LockOf, At
<1>6. HolderStep(s)
  <2>1. CASE CallMayRun(s)
    BY <1>1, <1>2, <2>1 DEF HolderStep, Holder, At, Called, InCleanup
  <2>2. CASE ~CallMayRun(s)
    BY <1>1, <1>3, <2>2 DEF HolderStep, Holder, At, Called, InCleanup, CallMayRun
  <2> QED
    BY <2>1, <2>2
<1>7. OfferOf(s)'
  <2>1. CASE CallMayRun(s)
    BY <1>0, <1>1, <1>2, <2>1 DEF OfferOf, At, Called, InCleanup, closing
  <2>2. CASE ~CallMayRun(s)
    BY <1>0, <1>1, <1>3, <2>2 DEF OfferOf, At, Called, InCleanup, closing, RemovedOf, Stops
  <2> QED
    BY <2>1, <2>2
<1> QED
  BY <1>4, <1>5, <1>6, <1>7, OfferStepKeeps

LEMMA UnownedCheckedKeeps == ASSUME CameraInv, NEW s \in Session, UnownedChecked(s) PROVE CameraInv'
<1> DEFINE stops == current /\ ~Shared("home_call")
<1>0. /\ CameraTyped /\ Registered(s) /\ Agrees(s) /\ OfferOf(s) /\ CloseOf(s) /\ RemovedOf(s)
      /\ \A t \in Session : Agrees(t)
  BY DEF CameraInv, SessionInv
<1>1. /\ At(s, "unowned") /\ offer[s] # NoTask
      /\ stops => SessionGoes(s, "stopping") /\ lock' = [id |-> s, for |-> "unowned"]
      /\ ~stops => OfferEnds(s) /\ lock' = lock
      /\ UNCHANGED <<active, close, later, ended, stopping, removal, current, media, spent, forgiven, cut>>
  BY DEF UnownedChecked, At
<1>2. stops =>
         /\ offer' \in [Session -> {NoTask} \cup OfferTask] /\ offer'[s] # NoTask
         /\ offer'[s].stage = "stopping" /\ offer'[s].owner = offer[s].owner
         /\ offer'[s].called = offer[s].called /\ offer'[s].cancelled = offer[s].cancelled
         /\ \A t \in Session \ {s} : offer'[t] = offer[t]
  BY <1>0, <1>1, OfferGoes DEF Stages
<1>3. ~stops =>
         /\ offer' \in [Session -> {NoTask} \cup OfferTask] /\ offer'[s] = NoTask
         /\ \A t \in Session \ {s} : offer'[t] = offer[t]
  BY <1>0, <1>1 DEF CameraTyped, OfferEnds
<1>4. stops \/ (~stops /\ (~current \/ Shared("home_call")))
  OBVIOUS
<1> HIDE DEF stops
<1>5. OfferMoves(s)
  BY <1>0, <1>1, <1>2, <1>3 DEF OfferMoves, CameraTyped
<1>6. Onward(s) /\ LockStep(s)
  BY <1>0, <1>1, <1>2, <1>3 DEF Onward, CloseOf, LockStep, LockOf, At
<1>7. HolderStep(s)
  <2> SUFFICES ASSUME media = "call", ~forgiven, current, ~cut, Holder(s)
               PROVE  \E t \in Session : Holder(t)'
    BY <1>1 DEF HolderStep
  <2>1. CASE stops
    BY <1>1, <1>2, <2>1 DEF Holder, At, Called, InCleanup
  <2>2. CASE Shared("home_call")
    <3>1. PICK t \in Session : active[t] # None /\ active[t].resource = "home_call"
      BY <2>2 DEF Shared
    <3>2. active[t].owner = "home_call"
      BY <1>0, <3>1 DEF Agrees, OfOwner
    <3> QED
      BY <1>1, <3>1, <3>2 DEF Holder
  <2> QED
    BY <1>4, <2>1, <2>2
<1>8. OfferOf(s)'
  <2>1. CASE stops
    BY <1>0, <1>1, <1>2, <2>1 DEF OfferOf, At, Called, InCleanup, closing
  <2>2. CASE ~stops
    BY <1>0, <1>1, <1>3, <2>2 DEF OfferOf, At, Called, InCleanup, closing, RemovedOf, Stops
  <2> QED
    BY <2>1, <2>2
<1> QED
  BY <1>5, <1>6, <1>7, <1>8, OfferStepKeeps

LEMMA UnownedStoppedKeeps == ASSUME CameraInv, NEW s \in Session, UnownedStopped(s) PROVE CameraInv'
<1>0. CameraTyped /\ Registered(s) /\ Agrees(s) /\ OfferOf(s) /\ CloseOf(s) /\ RemovedOf(s)
  BY DEF CameraInv, SessionInv
<1>1. /\ At(s, "stopping") /\ offer[s] # NoTask /\ lock' = Free
      /\ offer' = [offer EXCEPT ![s] = NoTask]
      /\ UNCHANGED <<active, close, later, ended, stopping, removal, current, spent, cut>>
      /\ \/ media' = Stopped("home_call") /\ UNCHANGED forgiven
         \/ forgiven' = TRUE /\ UNCHANGED media
  BY DEF UnownedStopped, At, OfferEnds
<1>2. /\ offer' \in [Session -> {NoTask} \cup OfferTask] /\ offer'[s] = NoTask
      /\ \A t \in Session \ {s} : offer'[t] = offer[t]
  BY <1>0, <1>1 DEF CameraTyped
<1>3. /\ media' \in {"idle", media} /\ forgiven' \in BOOLEAN
      /\ forgiven' \/ (forgiven' = forgiven /\ media' # "call")
  BY <1>0, <1>1, StoppedMedia DEF Owner, CameraTyped
<1>4. OfferMoves(s)
  BY <1>0, <1>1, <1>2, <1>3 DEF OfferMoves, CameraTyped
<1>5. Onward(s) /\ LockStep(s)
  BY <1>0, <1>1, <1>2 DEF Onward, CloseOf, LockStep, At
<1>6. HolderStep(s)
  BY <1>1, <1>3 DEF HolderStep
<1>7. OfferOf(s)'
  BY <1>0, <1>1, <1>2, <1>3 DEF OfferOf, At, Called, InCleanup, closing, RemovedOf, Stops
<1> QED
  BY <1>4, <1>5, <1>6, <1>7, OfferStepKeeps

ByWhom == {"user", "ended", "failed", "cleanup", "remove"}

\* A session that is popped, and the close that popped it.
PopEffect(s, stop, by) ==
    /\ active' \in [Session -> {None} \cup LiveSession]
    /\ close' \in [Session -> {NoTask} \cup CloseCall]
    /\ \A t \in Session \ {s} : active'[t] = active[t] /\ close'[t] = close[t]
    /\ active[s] = None => active'[s] = None /\ close'[s] = close[s]
    /\ active[s] # None =>
          /\ active'[s] = None /\ close[s] = NoTask /\ close'[s] # NoTask /\ close'[s].stage = "ends"
          /\ close'[s].was = active[s] /\ close'[s].stop = stop /\ close'[s].by = by
          /\ close'[s].others = Users(s)

LEMMA ClosesPops ==
  ASSUME CameraInv, NEW s \in Session, NEW stop \in BOOLEAN, NEW force \in BOOLEAN, NEW by \in ByWhom,
         Closes(s, stop, force, by)
  PROVE  PopEffect(s, stop, by)
<1>0. /\ active \in [Session -> {None} \cup LiveSession]
      /\ close \in [Session -> {NoTask} \cup CloseCall] /\ Registered(s)
  BY DEF CameraInv, CameraTyped, SessionInv
<1>1. CASE active[s] = None
  BY <1>0, <1>1 DEF Closes, PopEffect
<1>2. CASE active[s] # None
  <2> DEFINE new == [stage |-> "ends", was |-> active[s], stop |-> stop, force |-> force, by |-> by,
                     others |-> Users(s)]
  <2>1. active' = [active EXCEPT ![s] = None] /\ close' = [close EXCEPT ![s] = new]
    BY <1>2 DEF Closes
  <2>2. active[s] \in LiveSession /\ Users(s) \in SUBSET Session
    BY <1>0, <1>2 DEF Users
  <2>3. new \in CloseCall
    BY <2>2 DEF CloseCall, ByWhom
  <2>4. /\ new.stage = "ends" /\ new.was = active[s] /\ new.stop = stop /\ new.by = by
        /\ new.others = Users(s) /\ new # NoTask
    BY <2>3, Apart
  <2> HIDE DEF new
  <2>5. active'[s] = None /\ close'[s] = new
    BY <1>0, <2>1
  <2> QED
    BY <1>0, <1>2, <2>1, <2>3, <2>4, <2>5 DEF Registered, PopEffect
<1> QED
  BY <1>1, <1>2

\* Who uses the media that a new close was about is ready: its offer is over.
LEMMA ClosesSpares ==
  ASSUME CameraInv, NEW s \in Session, StepOf(s), StaysIdle(s), NEW stop \in BOOLEAN,
         NEW force \in BOOLEAN, NEW by \in ByWhom, Closes(s, stop, force, by), NEW t \in Session
  PROVE  Spares(t)'
<1>c. PopEffect(s, stop, by)
  BY ClosesPops
<1>0. CameraTyped /\ \A u \in Session : Registered(u) /\ Agrees(u)
  BY DEF CameraInv, SessionInv
<1>1. CASE t = s /\ active[s] # None
  <2>1. /\ close'[s].was = active[s] /\ close'[s].others = Users(s) /\ close'[s].stage = "ends"
    BY <1>1, <1>c DEF PopEffect
  <2>2. ASSUME NEW u \in Users(s)
        PROVE  /\ offer'[u] = NoTask /\ u \in spent'.offers
               /\ active'[u] # None => active'[u].resource = active[s].resource
    <3>1. /\ u \in Session \ {s} /\ active[u] # None /\ active[u].ready
          /\ active[u].resource = active[s].resource
      BY DEF Users
    <3>2. offer[u] = NoTask /\ u \in spent.offers
      BY <1>0, <3>1 DEF Agrees, Registered
    <3> QED
      BY <3>1, <3>2 DEF StepOf
  <2> QED
    BY <1>1, <2>1, <2>2 DEF Spares
<1>2. CASE ~(t = s /\ active[s] # None)
  <2>1. close'[t] = close[t]
    BY <1>2, <1>c DEF PopEffect
  <2> QED
    BY <1>0, <2>1, SparesKept
<1> QED
  BY <1>1, <1>2

LEMMA OfferedKeeps == ASSUME CameraInv, NEW s \in Session, Offered(s) PROVE CameraInv'
<1>0. /\ CameraTyped /\ Registered(s) /\ RemovedOf(s)
      /\ ~closing /\ s \notin spent.offers /\ spent' = [spent EXCEPT !.offers = @ \cup {s}]
      /\ UNCHANGED <<active, close, later, ended, lock, stopping, removal, current, media, forgiven, cut>>
  BY DEF CameraInv, SessionInv, Offered
<1>1. PICK owner \in Owner :
         offer' = [offer EXCEPT ![s] = [stage |-> IF owner = "home_call" THEN "asks" ELSE "decides",
                                        owner |-> owner, started |-> FALSE, called |-> FALSE,
                                        cancelled |-> FALSE]]
  BY DEF Offered, Owner
<1> DEFINE new == [stage |-> IF owner = "home_call" THEN "asks" ELSE "decides", owner |-> owner,
                   started |-> FALSE, called |-> FALSE, cancelled |-> FALSE]
<1>2. /\ new \in OfferTask /\ new.owner = owner /\ new.cancelled = FALSE /\ new.called = FALSE
      /\ owner = "home_call" => new.stage = "asks"
      /\ owner # "home_call" => new.stage = "decides"
  BY DEF OfferTask, Stages
<1>3. offer' = [offer EXCEPT ![s] = new]
  BY <1>1
<1> HIDE DEF new
<1>4. /\ offer' \in [Session -> {NoTask} \cup OfferTask] /\ offer'[s] = new /\ offer'[s] # NoTask
      /\ \A t \in Session \ {s} : offer'[t] = offer[t]
  BY <1>0, <1>2, <1>3, Apart DEF CameraTyped
<1>5. /\ spent'.offers = spent.offers \cup {s} /\ spent'.ends = spent.ends
      /\ spent' = [offers |-> spent'.offers, ends |-> spent'.ends]
  BY <1>0 DEF CameraTyped
<1>6. offer[s] = NoTask /\ active[s] = None /\ close[s] = NoTask /\ later[s] = "none"
  BY <1>0 DEF Registered
<1>7. StepOf(s) /\ StaysIdle(s)
  BY <1>0, <1>4, <1>5 DEF StepOf, StaysIdle
<1>8. LockStep(s)
  BY <1>0, <1>6 DEF LockStep, LockOf, At
<1>9. HolderStep(s)
  BY <1>0, <1>6 DEF HolderStep, Holder
<1>10. CameraTyped'
  BY <1>0, <1>4, <1>5 DEF CameraTyped, closing
<1>11. SessionInv(s)'
  <2>1. Registered(s)' /\ Agrees(s)' /\ RemovedOf(s)' /\ CloseOf(s)'
    BY <1>0, <1>5, <1>6 DEF Registered, Agrees, RemovedOf, Stops, CloseOf, closing
  <2>2. OfferOf(s)'
    BY <1>0, <1>2, <1>4, <1>6 DEF OfferOf, At, Called, InCleanup
  <2> QED
    BY <2>1, <2>2 DEF SessionInv
<1>12. ASSUME NEW t \in Session PROVE Spares(t)'
  BY <1>0, <1>7, SparesKept
<1> QED
  BY <1>7, <1>8, <1>9, <1>10, <1>11, <1>12, StepKeeps

LEMMA RegistersKeeps == ASSUME CameraInv, NEW s \in Session, Registers(s) PROVE CameraInv'
<1>0. CameraTyped /\ Registered(s) /\ RemovedOf(s) /\ OfferOf(s)
  BY DEF CameraInv, SessionInv
<1>r. PICK ring \in IF ~Called(s) /\ media = "ring" THEN Ringing \ {"none"} ELSE {"none"} :
         active' = [active EXCEPT ![s] = [owner |-> offer[s].owner, ready |-> FALSE, ring |-> ring,
                                          resource |-> Resource(offer[s].owner, ring # "none")]]
  BY DEF Registers
<1> DEFINE new == [owner |-> offer[s].owner, ready |-> FALSE, ring |-> ring,
                   resource |-> Resource(offer[s].owner, ring # "none")]
<1>1. /\ At(s, "decides") /\ ~offer[s].cancelled /\ offer[s] # NoTask
      /\ active' = [active EXCEPT ![s] = new] /\ SessionGoes(s, "provider")
      /\ UNCHANGED <<close, later, ended, lock, stopping, removal, current, media, spent, forgiven, cut>>
  BY <1>r DEF Registers, Awaits, At
<1>2. offer[s].owner \in Owner
  BY <1>0, <1>1, FieldsOf DEF OfferTask
<1>3. ring \in Ringing /\ (ring # "none" => offer[s].owner = "doorbell")
  BY <1>r, <1>2 DEF Called, Owner, Ringing
<1>4. /\ new \in LiveSession /\ new.owner = offer[s].owner /\ ~new.ready
      /\ OfOwner(new)
  <2>1. Resource(offer[s].owner, ring # "none") \in Owner \cup {"ring"}
    BY <1>2 DEF Resource
  <2>2. Resource(offer[s].owner, ring # "none") = "home_call" <=> offer[s].owner = "home_call"
    BY <1>2 DEF Resource, Owner
  <2>3. new \in LiveSession
    BY <1>2, <1>3, <2>1 DEF LiveSession
  <2> QED
    BY <1>3, <2>2, <2>3 DEF OfOwner
<1> HIDE DEF new
<1>5. /\ active' \in [Session -> {None} \cup LiveSession] /\ active'[s] = new /\ active'[s] # None
      /\ \A t \in Session \ {s} : active'[t] = active[t]
  BY <1>0, <1>1, <1>4, Apart DEF CameraTyped
<1>6. /\ offer' \in [Session -> {NoTask} \cup OfferTask] /\ offer'[s] # NoTask
      /\ offer'[s].stage = "provider" /\ offer'[s].owner = offer[s].owner
      /\ offer'[s].called = offer[s].called /\ offer'[s].cancelled = offer[s].cancelled
      /\ \A t \in Session \ {s} : offer'[t] = offer[t]
  BY <1>0, <1>1, OfferGoes DEF Stages
<1>7. close[s] = NoTask /\ s \in spent.offers /\ active[s] = None
  BY <1>0, <1>1 DEF Registered
<1>8. StepOf(s) /\ StaysIdle(s)
  BY <1>1, <1>5, <1>6 DEF StepOf, StaysIdle
<1>9. LockStep(s)
  BY <1>1, <1>7 DEF LockStep, LockOf, At
<1>10. HolderStep(s)
  BY <1>1, <1>4, <1>5, <1>7 DEF HolderStep, Holder, Called
<1>11. CameraTyped'
  BY <1>0, <1>1, <1>5, <1>6 DEF CameraTyped, closing
<1>12. SessionInv(s)'
  <2>1. Registered(s)' /\ RemovedOf(s)' /\ CloseOf(s)'
    BY <1>0, <1>1, <1>6, <1>7 DEF Registered, RemovedOf, Stops, CloseOf, At, closing
  <2>2. Agrees(s)'
    BY <1>1, <1>4, <1>5, <1>6, <1>7 DEF Agrees
  <2>3. OfferOf(s)'
    BY <1>0, <1>1, <1>5, <1>6 DEF OfferOf, At, Called, InCleanup, closing
  <2> QED
    BY <2>1, <2>2, <2>3 DEF SessionInv
<1>13. ASSUME NEW t \in Session PROVE Spares(t)'
  BY <1>0, <1>1, <1>8, SparesKept
<1> QED
  BY <1>8, <1>9, <1>10, <1>11, <1>12, <1>13, StepKeeps

LEMMA ProviderAnswersKeeps == ASSUME CameraInv, NEW s \in Session, ProviderAnswers(s) PROVE CameraInv'
<1>0. /\ CameraTyped /\ Registered(s) /\ Agrees(s) /\ RemovedOf(s) /\ OfferOf(s) /\ CloseOf(s)
  BY DEF CameraInv, SessionInv
<1>1. /\ At(s, "opened") /\ ~offer[s].cancelled /\ offer[s] # NoTask
      /\ UNCHANGED <<later, ended, lock, stopping, removal, current, media, spent, forgiven, cut>>
  BY DEF ProviderAnswers, Awaits, At
<1>2. offer[s] \in OfferTask /\ offer[s].owner \in Owner /\ s \in spent.offers
      /\ offer[s].started \in BOOLEAN
  BY <1>0, <1>1, FieldsOf DEF OfferTask, Registered
<1>3. CASE OfferEnds(s) /\ active[s] = None /\ UNCHANGED <<active, close>>
  <2>1. /\ offer' \in [Session -> {NoTask} \cup OfferTask] /\ offer'[s] = NoTask
        /\ \A t \in Session \ {s} : offer'[t] = offer[t]
    BY <1>0, <1>3 DEF CameraTyped, OfferEnds
  <2>2. OfferMoves(s)
    BY <1>0, <1>1, <1>3, <2>1 DEF OfferMoves, CameraTyped
  <2>3. Onward(s) /\ LockStep(s)
    BY <1>0, <1>1, <1>3, <2>1 DEF Onward, CloseOf, LockStep, LockOf, At
  <2>4. HolderStep(s)
    BY <1>0, <1>1, <1>3 DEF HolderStep, Holder, Called, At, InCleanup
  <2>5. OfferOf(s)'
    BY <1>0, <1>1, <1>3, <2>1 DEF OfferOf, At, Called, InCleanup, closing
  <2> QED
    BY <2>2, <2>3, <2>4, <2>5, OfferStepKeeps
<1>4. CASE active[s] # None /\ OfferEnds(s) /\ active' = [active EXCEPT ![s].ready = TRUE] /\ close' = close
  <2>1. /\ offer' \in [Session -> {NoTask} \cup OfferTask] /\ offer'[s] = NoTask
        /\ \A t \in Session \ {s} : offer'[t] = offer[t]
    BY <1>0, <1>4 DEF CameraTyped, OfferEnds
  <2>2. active[s] \in LiveSession /\ active'[s] = [active[s] EXCEPT !.ready = TRUE]
        /\ \A t \in Session \ {s} : active'[t] = active[t]
    BY <1>0, <1>4 DEF CameraTyped
  <2>3. /\ active'[s] \in LiveSession /\ active'[s].owner = active[s].owner
        /\ active'[s].ring = active[s].ring /\ active'[s].resource = active[s].resource
    BY <2>2 DEF LiveSession
  <2>4. active' \in [Session -> {None} \cup LiveSession] /\ active'[s] # None
    BY <1>0, <1>4, <2>2, <2>3, Apart DEF CameraTyped
  <2>5. close[s] = NoTask
    BY <1>0, <1>4 DEF Registered
  <2>6. StepOf(s) /\ StaysIdle(s)
    BY <1>1, <1>4, <2>1, <2>2 DEF StepOf, StaysIdle
  <2>7. LockStep(s)
    BY <1>1, <2>5 DEF LockStep, LockOf, At
  <2>8. HolderStep(s)
    BY <1>0, <1>1, <1>4, <2>3, <2>4, <2>5 DEF HolderStep, Holder, Called, Agrees
  <2>9. CameraTyped'
    BY <1>0, <1>1, <1>4, <2>1, <2>4 DEF CameraTyped, closing
  <2>10. SessionInv(s)'
    <3>1. Registered(s)' /\ RemovedOf(s)' /\ CloseOf(s)'
      BY <1>0, <1>1, <1>2, <1>4, <2>1, <2>5 DEF Registered, RemovedOf, Stops, CloseOf, At, closing
    <3>2. Agrees(s)'
      BY <1>0, <1>4, <2>1, <2>3, <2>5 DEF Agrees, OfOwner
    <3>3. OfferOf(s)'
      BY <1>0, <1>1, <1>2, <1>4, <2>1, <2>3 DEF OfferOf, At, Called, InCleanup, closing, Agrees, Owner
    <3> QED
      BY <3>1, <3>2, <3>3 DEF SessionInv
  <2>11. ASSUME NEW t \in Session PROVE Spares(t)'
    BY <1>0, <1>4, <2>6, SparesKept
  <2> QED
    BY <2>6, <2>7, <2>8, <2>9, <2>10, <2>11, StepKeeps
<1>5. CASE active[s] # None /\ SessionGoes(s, "failing") /\ Closes(s, offer[s].started \/ Called(s), FALSE, "failed")
  <2> DEFINE stop == offer[s].started \/ Called(s)
  <2>0. stop \in BOOLEAN /\ (Called(s) => stop)
    BY <1>2 DEF Called
  <2> HIDE DEF stop
  <2>1. /\ offer' \in [Session -> {NoTask} \cup OfferTask] /\ offer'[s] # NoTask
        /\ offer'[s].stage = "failing" /\ offer'[s].owner = offer[s].owner
        /\ offer'[s].called = offer[s].called /\ offer'[s].cancelled = offer[s].cancelled
        /\ \A t \in Session \ {s} : offer'[t] = offer[t]
    BY <1>0, <1>1, <1>5, OfferGoes DEF Stages
  <2>2. Closes(s, stop, FALSE, "failed") /\ "failed" \in ByWhom
    BY <1>5 DEF stop, ByWhom
  <2>c. PopEffect(s, stop, "failed")
    BY <1>5, <2>0, <2>2, ClosesPops
  <2>3. /\ active' \in [Session -> {None} \cup LiveSession]
        /\ close' \in [Session -> {NoTask} \cup CloseCall]
        /\ \A t \in Session \ {s} : active'[t] = active[t] /\ close'[t] = close[t]
        /\ active'[s] = None /\ close[s] = NoTask /\ close'[s] # NoTask /\ close'[s].stage = "ends"
        /\ close'[s].was = active[s] /\ close'[s].stop = stop /\ close'[s].by = "failed"
    BY <1>5, <2>c DEF PopEffect
  <2>4. active[s].owner = offer[s].owner /\ OfOwner(active[s]) /\ ~active[s].ready
    BY <1>0, <1>1, <1>5 DEF Agrees
  <2>5. StepOf(s) /\ StaysIdle(s)
    BY <1>1, <2>1, <2>3 DEF StepOf, StaysIdle
  <2>6. LockStep(s)
    BY <1>1, <2>3 DEF LockStep, LockOf, At
  <2>7. HolderStep(s)
    BY <1>1, <2>3, <2>4 DEF HolderStep, Holder, Called
  <2>8. CameraTyped'
    BY <1>0, <1>1, <2>1, <2>3 DEF CameraTyped, closing
  <2>9. SessionInv(s)'
    <3>1. Registered(s)' /\ RemovedOf(s)'
      BY <1>0, <1>1, <1>2, <2>1, <2>3 DEF Registered, RemovedOf, Stops, At, closing
    <3>2. Agrees(s)'
      BY <2>1, <2>3, <2>4 DEF Agrees, OfOwner
    <3>3. OfferOf(s)'
      BY <1>0, <1>1, <2>1, <2>3 DEF OfferOf, At, Called, InCleanup, closing
    <3>4. CloseOf(s)'
      BY <2>0, <2>1, <2>3, <2>4 DEF CloseOf, At, Called, Stopping
    <3> QED
      BY <3>1, <3>2, <3>3, <3>4 DEF SessionInv
  <2>10. ASSUME NEW t \in Session PROVE Spares(t)'
    BY <2>0, <2>2, <2>5, ClosesSpares
  <2> QED
    BY <2>5, <2>6, <2>7, <2>8, <2>9, <2>10, StepKeeps
<1> QED
  BY <1>3, <1>4, <1>5 DEF ProviderAnswers

\* An offer that fails or is cancelled comes to its cleanup.
LEMMA CleansKeeps ==
  ASSUME CameraInv, NEW s \in Session, NEW stop \in BOOLEAN, offer[s] # NoTask, ~InCleanup(s),
         ~OwnClose(s), At(s, "failing") => offer[s].cancelled,
         At(s, "accepted") => offer[s].cancelled \/ forgiven',
         forgiven' \in BOOLEAN, forgiven => forgiven',
         Cleans(s, stop), UNCHANGED <<later, ended, stopping, removal, current, media, spent, cut>>
  PROVE  CameraInv'
<1>0. /\ CameraTyped /\ Registered(s) /\ Agrees(s) /\ RemovedOf(s) /\ OfferOf(s) /\ CloseOf(s)
  BY DEF CameraInv, SessionInv
<1>1. /\ SessionGoes(s, "cleans") /\ Closes(s, stop, FALSE, "cleanup") /\ "cleanup" \in ByWhom
      /\ lock' = IF lock = [id |-> s, for |-> "prepare"] THEN Free ELSE lock
  BY DEF Cleans, ByWhom
<1>2. /\ offer' \in [Session -> {NoTask} \cup OfferTask] /\ offer'[s] # NoTask
      /\ offer'[s].stage = "cleans" /\ offer'[s].owner = offer[s].owner
      /\ offer'[s].called = offer[s].called /\ offer'[s].cancelled = offer[s].cancelled
      /\ \A t \in Session \ {s} : offer'[t] = offer[t]
  BY <1>0, <1>1, OfferGoes DEF Stages
<1>c. PopEffect(s, stop, "cleanup")
  BY <1>1, ClosesPops
<1>3. /\ active' \in [Session -> {None} \cup LiveSession]
      /\ close' \in [Session -> {NoTask} \cup CloseCall]
      /\ \A t \in Session \ {s} : active'[t] = active[t] /\ close'[t] = close[t]
      /\ active'[s] = None
      /\ active[s] = None => close'[s] = close[s]
      /\ active[s] # None =>
               /\ close[s] = NoTask /\ close'[s] # NoTask /\ close'[s].stage = "ends"
               /\ close'[s].was = active[s] /\ close'[s].by = "cleanup"
  BY <1>c DEF PopEffect
<1>4. /\ s \in spent.offers /\ ~At(s, "cleans") /\ ~At(s, "stopping")
      /\ close[s] # NoTask => close[s].by # "cleanup" /\ close[s].by # "failed"
  BY <1>0 DEF Registered, InCleanup, OwnClose
<1>5. StepOf(s) /\ StaysIdle(s)
  BY <1>2, <1>3 DEF StepOf, StaysIdle
<1>6. LockStep(s)
  <2>1. CASE lock = [id |-> s, for |-> "prepare"]
    BY <1>1, <2>1 DEF LockStep
  <2>2. CASE lock # [id |-> s, for |-> "prepare"]
    <3>1. lock' = lock
      BY <1>1, <2>2
    <3>2. LockOf(s) => LockOf(s)'
      BY <1>3, <1>4, <2>2, <3>1 DEF LockOf, Registered
    <3> QED
      BY <3>1, <3>2 DEF LockStep
  <2> QED
    BY <2>1, <2>2
<1>7. HolderStep(s)
  <2>1. Holder(s) /\ ~forgiven' => Holder(s)'
    <3>1. CASE offer[s] # NoTask /\ Called(s)
               /\ (offer[s].cancelled \/ offer[s].called)
      BY <1>2, <3>1 DEF Holder, At, Called, InCleanup
    <3>2. CASE active[s] # None /\ active[s].owner = "home_call"
      BY <1>3, <3>2 DEF Holder
    <3>3. CASE close[s] # NoTask /\ close[s].was.owner = "home_call"
      BY <1>3, <3>3 DEF Holder
    <3> QED
      BY <3>1, <3>2, <3>3 DEF Holder
  <2> QED
    BY <2>1 DEF HolderStep
<1>8. CameraTyped'
  BY <1>0, <1>1, <1>2, <1>3, Apart DEF CameraTyped, closing
<1>9. SessionInv(s)'
  <2>1. Registered(s)' /\ RemovedOf(s)'
    BY <1>0, <1>2, <1>3, <1>4 DEF Registered, RemovedOf, Stops, At, closing
  <2>2. Agrees(s)'
    BY <1>0, <1>2, <1>3 DEF Agrees, OfOwner
  <2>3. OfferOf(s)'
    BY <1>0, <1>2, <1>3 DEF OfferOf, At, Called, InCleanup, closing
  <2>4. CloseOf(s)'
    <3>1. CASE active[s] = None
      BY <1>0, <1>2, <1>3, <1>4, <3>1 DEF CloseOf, Called
    <3>2. CASE active[s] # None
      <4>1. Called(s) => offer[s].called \/ offer[s].cancelled
        BY <1>0, <3>2 DEF OfferOf, Registered
      <4> QED
        BY <1>2, <1>3, <3>2, <4>1 DEF CloseOf, At, Called, Stopping
    <3> QED
      BY <3>1, <3>2
  <2> QED
    BY <2>1, <2>2, <2>3, <2>4 DEF SessionInv
<1>10. ASSUME NEW t \in Session PROVE Spares(t)'
  BY <1>1, <1>5, ClosesSpares
<1> QED
  BY <1>5, <1>6, <1>7, <1>8, <1>9, <1>10, StepKeeps

LEMMA OfferFailsKeeps == ASSUME CameraInv, NEW s \in Session, OfferFails(s) PROVE CameraInv'
<1> DEFINE stop == ~Called(s) /\ offer[s].started
<1>0. CameraTyped /\ CloseOf(s)
  BY DEF CameraInv, SessionInv
<1>1. /\ offer[s] # NoTask /\ ~InCleanup(s) /\ ~At(s, "failing")
      /\ Cleans(s, stop) /\ UNCHANGED <<later, ended, stopping, removal, current, media, spent, cut>>
      /\ forgiven' = (forgiven \/ At(s, "accepted"))
  BY DEF OfferFails, Awaits, At, InCleanup
<1>2. offer[s].started \in BOOLEAN
  BY <1>0, <1>1, FieldsOf DEF OfferTask
<1>3. stop \in BOOLEAN
  BY <1>2 DEF Called
<1>4. ~OwnClose(s)
  BY <1>0, <1>1 DEF CloseOf, OwnClose, InCleanup
<1>5. forgiven' \in BOOLEAN /\ (forgiven => forgiven') /\ (At(s, "accepted") => forgiven')
  BY <1>0, <1>1 DEF CameraTyped, At
<1> HIDE DEF stop
<1> QED
  BY <1>1, <1>3, <1>4, <1>5, CleansKeeps

LEMMA OfferCancelledKeeps == ASSUME CameraInv, NEW s \in Session, OfferCancelled(s) PROVE CameraInv'
<1> DEFINE stop == current /\ ~Called(s) /\ offer[s].started
           keeps == Called(s) /\ current /\ active[s] = None
<1>0. /\ CameraTyped /\ Registered(s) /\ Agrees(s) /\ RemovedOf(s) /\ OfferOf(s)
  BY DEF CameraInv, SessionInv
<1>1. /\ offer[s] # NoTask /\ offer[s].cancelled /\ ~OwnClose(s) /\ ~InCleanup(s)
      /\ UNCHANGED <<later, ended, stopping, removal, current, media, spent, forgiven, cut>>
  BY DEF OfferCancelled
<1>2. CASE ~closing
  <2>1. offer[s].started \in BOOLEAN /\ current \in BOOLEAN
    BY <1>0, <1>1, FieldsOf DEF OfferTask, CameraTyped
  <2>2. stop \in BOOLEAN /\ Cleans(s, stop)
    BY <1>2, <2>1 DEF OfferCancelled, Called
  <2> HIDE DEF stop
  <2> QED
    BY <1>0, <1>1, <2>2, CleansKeeps DEF CameraTyped
<1>3. CASE closing
  <2>1. /\ keeps => SessionGoes(s, "unowned")
        /\ ~keeps => OfferEnds(s)
        /\ lock' = IF lock = [id |-> s, for |-> "prepare"] THEN Free ELSE lock
        /\ UNCHANGED <<active, close>>
    BY <1>3 DEF OfferCancelled
  <2>2. keeps =>
         /\ offer' \in [Session -> {NoTask} \cup OfferTask] /\ offer'[s] # NoTask
         /\ offer'[s].stage = "unowned" /\ offer'[s].owner = offer[s].owner
         /\ offer'[s].called = offer[s].called /\ offer'[s].cancelled = offer[s].cancelled
         /\ \A t \in Session \ {s} : offer'[t] = offer[t]
    BY <1>0, <1>1, <2>1, OfferGoes DEF Stages
  <2>3. ~keeps =>
         /\ offer' \in [Session -> {NoTask} \cup OfferTask] /\ offer'[s] = NoTask
         /\ \A t \in Session \ {s} : offer'[t] = offer[t]
    BY <1>0, <2>1 DEF CameraTyped, OfferEnds
  <2>4. keeps \/ (~keeps /\ (~Called(s) \/ ~current \/ active[s] # None))
    OBVIOUS
  <2>5. keeps => Called(s) /\ active[s] = None
    OBVIOUS
  <2> HIDE DEF keeps
  <2>6. OfferMoves(s)
    BY <1>0, <1>1, <2>1, <2>2, <2>3 DEF OfferMoves, CameraTyped
  <2>7. Onward(s)
    BY <1>1, <2>2, <2>3 DEF Onward, OwnClose, At
  <2>8. LockStep(s)
    BY <1>1, <2>1 DEF LockStep, LockOf, At, InCleanup
  <2>9. HolderStep(s)
    <3>1. CASE keeps
      BY <1>1, <2>1, <2>2, <3>1 DEF HolderStep, Holder, At, Called, InCleanup
    <3>2. CASE ~keeps
      BY <1>0, <1>1, <2>1, <2>4, <3>2 DEF HolderStep, Holder, Called, Agrees
    <3> QED
      BY <3>1, <3>2
  <2>10. OfferOf(s)'
    <3>1. closing' /\ later'[s] = "none"
      BY <1>0, <1>1, <1>3 DEF closing, RemovedOf, Stops
    <3>2. CASE keeps
      BY <1>1, <2>2, <3>1, <3>2 DEF OfferOf, At, Called, InCleanup
    <3>3. CASE ~keeps
      BY <2>3, <3>1, <3>3 DEF OfferOf, At, Called, InCleanup
    <3> QED
      BY <3>2, <3>3
  <2> QED
    BY <2>6, <2>7, <2>8, <2>9, <2>10, OfferStepKeeps
<1> QED
  BY <1>2, <1>3

\* The offer that a cancellation meets, and the offers it does not.
CancelEffect(S) ==
    /\ active' \in [Session -> {None} \cup LiveSession]
    /\ close' \in [Session -> {NoTask} \cup CloseCall]
    /\ offer' \in [Session -> {NoTask} \cup OfferTask]
    /\ (cut => cut') /\ cut' \in BOOLEAN
    /\ \A t \in Session \ S : active'[t] = active[t] /\ offer'[t] = offer[t] /\ close'[t] = close[t]
    /\ \A t \in S : ~InCleanup(t) =>
          /\ active'[t] = active[t] /\ close'[t] = close[t] /\ offer'[t] # NoTask
          /\ offer'[t].stage = offer[t].stage /\ offer'[t].owner = offer[t].owner
          /\ offer'[t].called = offer[t].called /\ offer'[t].cancelled = TRUE
    /\ \A t \in S : InCleanup(t) =>
          /\ offer'[t] = NoTask /\ (Called(t) => cut')
          /\ close[t] # NoTask /\ close[t].by = "cleanup" =>
                active'[t] = close[t].was /\ active'[t] # None /\ close'[t] = NoTask
          /\ ~(close[t] # NoTask /\ close[t].by = "cleanup") =>
                active'[t] = active[t] /\ close'[t] = close[t]
    /\ lock' = Free \/ (lock' = lock /\ \A t \in S : InCleanup(t) /\ lock # Free => lock.id # t)

LEMMA CancelsEach ==
  ASSUME CameraInv, NEW S \in SUBSET Session, \A t \in S : offer[t] # NoTask, Cancel(S)
  PROVE  CancelEffect(S)
<1> DEFINE cleanup == {t \in S : InCleanup(t)}
           closed == {t \in cleanup : close[t] # NoTask /\ close[t].by = "cleanup"}
           holds == {t \in cleanup : lock # Free /\ lock.id = t}
<1>0. /\ active \in [Session -> {None} \cup LiveSession]
      /\ close \in [Session -> {NoTask} \cup CloseCall]
      /\ offer \in [Session -> {NoTask} \cup OfferTask] /\ cut \in BOOLEAN
      /\ \A t \in Session : active[t] # None => close[t] = NoTask
      /\ CameraTyped
  BY DEF CameraInv, CameraTyped, SessionInv, Registered
<1>1. /\ offer' = [t \in Session |-> IF t \in S THEN Unwound(t) ELSE offer[t]]
      /\ active' = RestoredIn(closed)
      /\ close' = [t \in Session |-> IF t \in closed THEN NoTask ELSE close[t]]
      /\ lock' = IF holds # {} THEN Free ELSE lock
      /\ cut' = (cut \/ \E t \in cleanup : Called(t))
  BY DEF Cancel
<1>2. closed \subseteq cleanup /\ cleanup \subseteq S
  OBVIOUS
<1>3. \A t \in Session : t \in closed <=> t \in S /\ InCleanup(t) /\ close[t] # NoTask /\ close[t].by = "cleanup"
  OBVIOUS
<1>4. \A t \in S : t \in cleanup <=> InCleanup(t)
  OBVIOUS
<1>5. lock' = Free \/ (lock' = lock /\ \A t \in S : InCleanup(t) /\ lock # Free => lock.id # t)
  BY <1>1
<1> HIDE DEF closed, cleanup, holds
<1>6. ASSUME NEW t \in S
      PROVE  /\ offer[t] \in OfferTask /\ [offer[t] EXCEPT !.cancelled = TRUE] \in OfferTask
             /\ [offer[t] EXCEPT !.cancelled = TRUE].stage = offer[t].stage
             /\ [offer[t] EXCEPT !.cancelled = TRUE].owner = offer[t].owner
             /\ [offer[t] EXCEPT !.cancelled = TRUE].called = offer[t].called
             /\ [offer[t] EXCEPT !.cancelled = TRUE].cancelled = TRUE
  <2>1. offer[t] \in OfferTask
    BY <1>0
  <2> QED
    BY <2>1 DEF OfferTask
<1>7. ASSUME NEW t \in closed
      PROVE  close[t].was \in LiveSession /\ close[t].was # None /\ active[t] = None /\ t \in Session
  <2>1. t \in Session /\ close[t] # NoTask
    BY <1>2, <1>3
  <2>2. close[t].was \in LiveSession
    BY <1>0, <2>1, FieldsOf
  <2> QED
    BY <1>0, <2>1, <2>2, Apart
<1>8. ASSUME NEW t \in Session
      PROVE  /\ active'[t] = IF t \in closed THEN close[t].was ELSE active[t]
             /\ active'[t] \in {None} \cup LiveSession
             /\ close'[t] = IF t \in closed THEN NoTask ELSE close[t]
             /\ close'[t] \in {NoTask} \cup CloseCall
             /\ offer'[t] = IF t \in S THEN Unwound(t) ELSE offer[t]
             /\ offer'[t] \in {NoTask} \cup OfferTask
  <2>1. active'[t] = IF t \in closed /\ active[t] = None /\ close[t] # NoTask THEN close[t].was ELSE active[t]
    BY <1>1 DEF RestoredIn
  <2>2. t \in closed => active[t] = None /\ close[t] # NoTask /\ close[t].was \in LiveSession
    BY <1>3, <1>7
  <2>3. active'[t] = (IF t \in closed THEN close[t].was ELSE active[t]) /\ active'[t] \in {None} \cup LiveSession
    BY <1>0, <2>1, <2>2
  <2>4. t \in S => Unwound(t) \in {NoTask} \cup OfferTask
    BY <1>6 DEF Unwound
  <2> QED
    BY <1>0, <1>1, <2>3, <2>4
<1>9. /\ active' \in [Session -> {None} \cup LiveSession]
      /\ close' \in [Session -> {NoTask} \cup CloseCall]
      /\ offer' \in [Session -> {NoTask} \cup OfferTask]
  <2>1. active' \in [Session -> {None} \cup LiveSession]
    BY <1>1, <1>8 DEF RestoredIn
  <2>2. close' \in [Session -> {NoTask} \cup CloseCall]
    BY <1>1, <1>8
  <2>3. offer' \in [Session -> {NoTask} \cup OfferTask]
    BY <1>1, <1>8
  <2> QED
    BY <2>1, <2>2, <2>3
<1>10. (cut => cut') /\ cut' \in BOOLEAN
  BY <1>0, <1>1
<1>11. \A t \in Session \ S : active'[t] = active[t] /\ offer'[t] = offer[t] /\ close'[t] = close[t]
  BY <1>2, <1>8
<1>12. ASSUME NEW t \in S, ~InCleanup(t)
       PROVE  /\ active'[t] = active[t] /\ close'[t] = close[t] /\ offer'[t] # NoTask
              /\ offer'[t].stage = offer[t].stage /\ offer'[t].owner = offer[t].owner
              /\ offer'[t].called = offer[t].called /\ offer'[t].cancelled = TRUE
  <2>1. t \notin closed /\ offer'[t] = [offer[t] EXCEPT !.cancelled = TRUE]
    BY <1>3, <1>8, <1>12 DEF Unwound
  <2> QED
    BY <1>6, <1>8, <2>1, Apart
<1>13. ASSUME NEW t \in S, InCleanup(t)
       PROVE  /\ offer'[t] = NoTask /\ (Called(t) => cut')
              /\ close[t] # NoTask /\ close[t].by = "cleanup" =>
                    active'[t] = close[t].was /\ active'[t] # None /\ close'[t] = NoTask
              /\ ~(close[t] # NoTask /\ close[t].by = "cleanup") =>
                    active'[t] = active[t] /\ close'[t] = close[t]
  <2>1. offer'[t] = NoTask
    BY <1>8, <1>13 DEF Unwound
  <2>2. Called(t) => cut'
    BY <1>1, <1>4, <1>13
  <2> QED
    BY <1>3, <1>7, <1>8, <1>13, <2>1, <2>2
<1> QED
  BY <1>5, <1>9, <1>10, <1>11, <1>12, <1>13 DEF CancelEffect

\* What a cancellation keeps of an id, while nothing is closing or once the
\* tasks are.
LEMMA CancelsKeeps ==
  ASSUME CameraInv, ~closing, NEW S \in SUBSET Session, \A t \in S : offer[t] # NoTask, Cancel(S),
         UNCHANGED <<stopping, spent, media, forgiven>>, removal' \in {"none", "tasks"}, NEW t \in Session,
         closing' => later'[t] = "none", t \notin spent.offers => later'[t] = "none",
         later'[t] = "plain" =>
            /\ offer'[t] # NoTask /\ Called(t)' => offer'[t].cancelled
            /\ offer'[t] = NoTask /\ active'[t] # None => active'[t].owner = "doorbell" \/ cut' \/ forgiven'
  PROVE  SessionInv(t)' /\ (Holder(t) => Holder(t)' \/ cut') /\ (LockOf(t) /\ lock' # Free => LockOf(t)')
<1>c. CancelEffect(S)
  BY CancelsEach
<1>0. /\ CameraTyped /\ Registered(t) /\ Agrees(t) /\ RemovedOf(t) /\ OfferOf(t) /\ CloseOf(t)
      /\ (cut => cut') /\ current /\ spent' = spent /\ forgiven' = forgiven /\ stopping' = stopping
      /\ removal' \notin {"sessions", "done"}
  BY <1>c DEF CancelEffect, CameraInv, SessionInv, CameraTyped
<1>1. CASE t \notin S
  <2>1. active'[t] = active[t] /\ offer'[t] = offer[t] /\ close'[t] = close[t]
    BY <1>1, <1>c DEF CancelEffect
  <2>2. Registered(t)' /\ Agrees(t)' /\ RemovedOf(t)'
    BY <1>0, <2>1 DEF Registered, Agrees, RemovedOf, Stops, At, OfOwner
  <2>3. OfferOf(t)'
    BY <1>0, <2>1 DEF OfferOf, At, Called, InCleanup, closing
  <2>4. CloseOf(t)'
    BY <1>0, <2>1 DEF CloseOf, At, Called
  <2>5. Holder(t) => Holder(t)'
    BY <2>1 DEF Holder, At, Called, InCleanup
  <2>6. LockOf(t) /\ lock' # Free => LockOf(t)'
    <3>1. lock' = Free \/ lock' = lock
      BY <1>c DEF CancelEffect
    <3> QED
      BY <2>1, <3>1 DEF LockOf, At
  <2> QED
    BY <2>2, <2>3, <2>4, <2>5, <2>6 DEF SessionInv
<1>2. CASE t \in S /\ ~InCleanup(t)
  <2>1. /\ active'[t] = active[t] /\ close'[t] = close[t] /\ offer'[t] # NoTask /\ offer[t] # NoTask
        /\ offer'[t].stage = offer[t].stage /\ offer'[t].owner = offer[t].owner
        /\ offer'[t].called = offer[t].called /\ offer'[t].cancelled = TRUE
    BY <1>2, <1>c DEF CancelEffect
  <2>2. Registered(t)' /\ Agrees(t)' /\ RemovedOf(t)'
    BY <1>0, <2>1 DEF Registered, Agrees, RemovedOf, Stops, At, OfOwner
  <2>3. OfferOf(t)'
    BY <1>0, <1>2, <2>1 DEF OfferOf, At, Called, InCleanup
  <2>4. CloseOf(t)'
    BY <1>0, <2>1 DEF CloseOf, At, Called
  <2>5. Holder(t) => Holder(t)'
    BY <2>1 DEF Holder, At, Called, InCleanup
  <2>6. LockOf(t) /\ lock' # Free => LockOf(t)'
    <3>1. lock' = Free \/ lock' = lock
      BY <1>c DEF CancelEffect
    <3> QED
      BY <2>1, <3>1 DEF LockOf, At
  <2> QED
    BY <2>2, <2>3, <2>4, <2>5, <2>6 DEF SessionInv
<1>3. CASE t \in S /\ InCleanup(t)
  <2>1. /\ offer'[t] = NoTask /\ offer[t] # NoTask /\ (Called(t) => cut')
        /\ close[t] # NoTask /\ close[t].by = "cleanup" =>
              active'[t] = close[t].was /\ active'[t] # None /\ close'[t] = NoTask
        /\ ~(close[t] # NoTask /\ close[t].by = "cleanup") =>
              active'[t] = active[t] /\ close'[t] = close[t]
    BY <1>0, <1>3, <1>c DEF CancelEffect
  <2>2. t \in spent.offers /\ ~At(t, "failing")
    BY <1>0, <1>3, <2>1 DEF Registered, InCleanup, At
  <2>3. Registered(t)' /\ RemovedOf(t)'
    BY <1>0, <2>1, <2>2 DEF Registered, RemovedOf, Stops, At
  <2>4. Agrees(t)'
    BY <1>0, <2>1 DEF Agrees, OfOwner
  <2>5. OfferOf(t)'
    BY <2>1 DEF OfferOf, At, Called, InCleanup
  <2>6. CloseOf(t)'
    <3>1. CASE close[t] # NoTask /\ close[t].by = "cleanup"
      BY <2>1, <3>1 DEF CloseOf
    <3>2. CASE ~(close[t] # NoTask /\ close[t].by = "cleanup")
      BY <1>0, <2>1, <2>2, <3>2 DEF CloseOf
    <3> QED
      BY <3>1, <3>2
  <2>7. Holder(t) => Holder(t)' \/ cut'
    <3>1. CASE Called(t)
      BY <2>1, <3>1
    <3>2. CASE ~Called(t)
      BY <1>0, <2>1, <3>2 DEF Holder, Agrees, Called
    <3> QED
      BY <3>1, <3>2
  <2>8. LockOf(t) /\ lock' # Free => LockOf(t)'
    <3>1. lock' = Free \/ lock = Free \/ lock.id # t
      BY <1>3, <1>c DEF CancelEffect
    <3>2. LockOf(t) => lock # Free /\ lock.id = t
      BY Apart DEF LockOf
    <3> QED
      BY <3>1, <3>2
  <2> QED
    BY <2>3, <2>4, <2>5, <2>6, <2>7, <2>8 DEF SessionInv
<1> QED
  BY <1>1, <1>2, <1>3

LEMMA ClientLeavesKeeps == ASSUME CameraInv, NEW s \in Session, ClientLeaves(s) PROVE CameraInv'
<1> DEFINE S == IF Cancellable(s) THEN {s} ELSE {}
           left == IF active[s] # None /\ active[s].owner = "home_call" THEN "stop" ELSE "plain"
<1>0. /\ CameraTyped /\ Registered(s) /\ Agrees(s) /\ OfferOf(s)
  BY DEF CameraInv, SessionInv
<1>1. /\ ~closing /\ (offer[s] # NoTask \/ active[s] # None)
      /\ later' = [later EXCEPT ![s] = left] /\ Cancel(S)
      /\ UNCHANGED <<ended, stopping, removal, current, media, spent, forgiven>>
  BY DEF ClientLeaves
<1>2. /\ S \in SUBSET Session /\ (\A t \in S : offer[t] # NoTask) /\ (s \in S <=> Cancellable(s))
      /\ \A t \in Session \ {s} : t \notin S
  BY DEF Cancellable
<1>3. /\ left \in {"stop", "plain"} /\ (left = "plain" => active[s] = None \/ active[s].owner # "home_call")
  OBVIOUS
<1> HIDE DEF S, left
<1>c. CancelEffect(S)
  BY <1>1, <1>2, CancelsEach
<1>4. /\ active' \in [Session -> {None} \cup LiveSession]
      /\ close' \in [Session -> {NoTask} \cup CloseCall]
      /\ offer' \in [Session -> {NoTask} \cup OfferTask]
      /\ (cut => cut') /\ cut' \in BOOLEAN
      /\ \A t \in Session \ {s} : active'[t] = active[t] /\ offer'[t] = offer[t] /\ close'[t] = close[t]
      /\ lock' = Free \/ lock' = lock
  BY <1>1, <1>2, <1>c DEF CancelEffect
<1>5. later'[s] = left /\ later' \in [Session -> {"none", "plain", "stop"}]
      /\ \A t \in Session \ {s} : later'[t] = later[t]
  BY <1>0, <1>1, <1>3 DEF CameraTyped
<1>6. /\ offer'[s] # NoTask /\ Called(s)' => offer'[s].cancelled
      /\ left = "plain" /\ offer'[s] = NoTask /\ active'[s] # None => active'[s].owner = "doorbell" \/ cut' \/ forgiven
  <2>1. CASE s \notin S
    <3>1. active'[s] = active[s] /\ offer'[s] = offer[s] /\ (offer[s] # NoTask => offer[s].cancelled)
      BY <1>1, <1>2, <2>1, <1>c DEF CancelEffect, Cancellable
    <3>2. active[s] # None => active[s].owner \in Owner
      BY <1>0, FieldsOf DEF LiveSession
    <3> QED
      BY <1>3, <3>1, <3>2 DEF Owner
  <2>2. CASE s \in S /\ ~InCleanup(s)
    BY <1>1, <1>2, <2>2, <1>c DEF CancelEffect
  <2>3. CASE s \in S /\ InCleanup(s)
    <3>1. /\ offer'[s] = NoTask /\ (Called(s) => cut') /\ offer[s] # NoTask
          /\ active[s] # None => active[s].owner = "doorbell" \/ forgiven
          /\ close[s] # NoTask /\ close[s].by = "cleanup" => active'[s] = close[s].was
          /\ ~(close[s] # NoTask /\ close[s].by = "cleanup") => active'[s] = active[s]
      BY <1>0, <1>1, <1>2, <2>3, <1>c DEF CancelEffect, OfferOf
    <3>2. close[s] # NoTask => close[s].was.owner \in Owner /\ close[s].was.owner = offer[s].owner
      BY <1>0, <3>1, FieldsOf DEF LiveSession, Agrees
    <3> QED
      BY <3>1, <3>2 DEF Called, Owner
  <2> QED
    BY <2>1, <2>2, <2>3
<1>7. s \in spent.offers
  BY <1>0, <1>1 DEF Registered
<1>8. SessionInv(s)' /\ (Holder(s) => Holder(s)' \/ cut') /\ (LockOf(s) /\ lock' # Free => LockOf(s)')
  <2>1. ~closing' /\ removal' \in {"none", "tasks"}
    BY <1>1 DEF closing
  <2> QED
    BY <1>1, <1>2, <1>5, <1>6, <1>7, <2>1, CancelsKeeps
<1>9. StepOf(s) /\ StaysIdle(s)
  <2>1. StepOf(s)
    BY <1>1, <1>4, <1>5 DEF StepOf
  <2>2. offer[s] = NoTask => offer'[s] = NoTask /\ active'[s] = active[s]
    <3>1. offer[s] = NoTask => s \notin S
      BY <1>2
    <3> QED
      BY <1>1, <1>2, <3>1, <1>c DEF CancelEffect
  <2> QED
    BY <2>1, <2>2 DEF StaysIdle
<1>10. LockStep(s) /\ HolderStep(s)
  BY <1>1, <1>4, <1>8 DEF LockStep, HolderStep
<1>11. CameraTyped'
  BY <1>0, <1>1, <1>4, <1>5 DEF CameraTyped, closing
<1>12. ASSUME NEW t \in Session PROVE Spares(t)'
  <2>1. close'[t] # NoTask => close'[t] = close[t]
    BY <1>1, <1>2, <1>c DEF CancelEffect
  <2> QED
    BY <1>0, <1>9, <2>1, SparesKept
<1> QED
  BY <1>8, <1>9, <1>10, <1>11, <1>12, StepKeeps

LEMMA RemovalBeginsKeeps == ASSUME CameraInv, RemovalBegins PROVE CameraInv'
<1> DEFINE S == {s \in Session : offer[s] # NoTask}
<1>0. CameraTyped /\ LockHeld /\ CallHeld
  BY DEF CameraInv
<1>1. /\ ~closing /\ removal' = "tasks" /\ current' \in BOOLEAN
      /\ later' = [s \in Session |-> "none"] /\ ended' = {} /\ Cancel(S)
      /\ UNCHANGED <<stopping, media, spent, forgiven>>
  BY DEF RemovalBegins
<1>2. S \in SUBSET Session /\ \A t \in S : offer[t] # NoTask
  OBVIOUS
<1> HIDE DEF S
<1>c. CancelEffect(S)
  BY <1>1, <1>2, CancelsEach
<1>3. /\ active' \in [Session -> {None} \cup LiveSession]
      /\ close' \in [Session -> {NoTask} \cup CloseCall]
      /\ offer' \in [Session -> {NoTask} \cup OfferTask]
      /\ (cut => cut') /\ cut' \in BOOLEAN /\ (lock' = Free \/ lock' = lock)
  BY <1>1, <1>2, <1>c DEF CancelEffect
<1>4. closing' /\ removal' \in {"none", "tasks"}
  BY <1>1 DEF closing
<1>5. ASSUME NEW t \in Session
      PROVE  SessionInv(t)' /\ (Holder(t) => Holder(t)' \/ cut') /\ (LockOf(t) /\ lock' # Free => LockOf(t)')
  <2>1. later'[t] = "none"
    BY <1>1
  <2> QED
    BY <1>1, <1>2, <1>4, <2>1, CancelsKeeps
<1>6. CameraTyped'
  <2>1. later' \in [Session -> {"none", "plain", "stop"}]
    BY <1>1
  <2> QED
    BY <1>0, <1>1, <1>3, <1>4, <2>1 DEF CameraTyped
<1>7. LockHeld'
  <2>1. CASE lock' = Free
    BY <2>1 DEF LockHeld
  <2>2. CASE lock' # Free
    <3>1. PICK t \in Session : LockOf(t)
      BY <1>0, <1>3, <2>2 DEF LockHeld
    <3> QED
      BY <1>5, <2>2, <3>1 DEF LockHeld
  <2> QED
    BY <2>1, <2>2
<1>8. CallHeld'
  <2> SUFFICES ASSUME media' = "call", ~forgiven', ~cut', stopping' # "home_call"
               PROVE  \E t \in Session : Holder(t)'
    BY DEF CallHeld
  <2>1. media = "call" /\ ~forgiven /\ current /\ ~cut /\ stopping # "home_call"
    BY <1>0, <1>1, <1>3 DEF CameraTyped
  <2>2. PICK t \in Session : Holder(t)
    BY <1>0, <2>1 DEF CallHeld
  <2> QED
    BY <1>5, <2>2
<1>9. \A t \in Session : Spares(t)'
  BY <1>4 DEF Spares
<1> QED
  BY <1>5, <1>6, <1>7, <1>8, <1>9 DEF CameraInv

LEMMA LaterClosesKeeps == ASSUME CameraInv, NEW s \in Session, LaterCloses(s) PROVE CameraInv'
<1> DEFINE stop == later[s] = "stop"
<1>0. /\ CameraTyped /\ Registered(s) /\ Agrees(s) /\ RemovedOf(s) /\ OfferOf(s) /\ CloseOf(s)
  BY DEF CameraInv, SessionInv
<1>1. /\ later[s] # "none" /\ ~closing /\ offer[s] = NoTask
      /\ later' = [later EXCEPT ![s] = "none"] /\ Closes(s, stop, FALSE, "user")
      /\ stop \in BOOLEAN /\ "user" \in ByWhom
      /\ UNCHANGED <<offer, ended, lock, stopping, removal, current, media, spent, forgiven, cut>>
  BY DEF LaterCloses, ByWhom
<1>2. later[s] = "plain" \/ stop
  BY <1>0, <1>1 DEF CameraTyped
<1> HIDE DEF stop
<1>c. PopEffect(s, stop, "user")
  BY <1>1, ClosesPops
<1>3. /\ active' \in [Session -> {None} \cup LiveSession]
      /\ close' \in [Session -> {NoTask} \cup CloseCall]
      /\ \A t \in Session \ {s} : active'[t] = active[t] /\ close'[t] = close[t]
      /\ active'[s] = None
      /\ active[s] = None => close'[s] = close[s]
      /\ active[s] # None => /\ close[s] = NoTask /\ close'[s] # NoTask /\ close'[s].was = active[s]
                             /\ close'[s].by = "user" /\ close'[s].stop = stop
                             /\ close'[s].stage = "ends"
  BY <1>c DEF PopEffect
<1>4. later' \in [Session -> {"none", "plain", "stop"}] /\ later'[s] = "none"
      /\ \A t \in Session \ {s} : later'[t] = later[t]
  BY <1>0, <1>1 DEF CameraTyped
<1>5. StepOf(s) /\ StaysIdle(s)
  BY <1>1, <1>3, <1>4 DEF StepOf, StaysIdle
<1>6. LockStep(s)
  <2>1. LockOf(s) => LockOf(s)'
    BY <1>1, <1>3 DEF LockOf, At
  <2> QED
    BY <1>1, <2>1 DEF LockStep
<1>7. HolderStep(s)
  BY <1>1, <1>3 DEF HolderStep, Holder
<1>8. CameraTyped'
  BY <1>0, <1>1, <1>3, <1>4 DEF CameraTyped, closing
<1>9. SessionInv(s)'
  <2>1. Registered(s)' /\ RemovedOf(s)'
    BY <1>0, <1>1, <1>3, <1>4 DEF Registered, RemovedOf, Stops, At, closing
  <2>2. Agrees(s)'
    BY <1>0, <1>1, <1>3 DEF Agrees, OfOwner
  <2>3. OfferOf(s)'
    BY <1>1, <1>3, <1>4 DEF OfferOf, At, InCleanup
  <2>4. CloseOf(s)'
    <3>1. CASE active[s] = None
      BY <1>0, <1>1, <1>3, <3>1 DEF CloseOf, At, Called
    <3>2. CASE active[s] # None
      <4>1. active[s].owner = "home_call" => stop \/ cut \/ forgiven
        BY <1>0, <1>1, <1>2, <3>2 DEF OfferOf
      <4> QED
        BY <1>1, <1>3, <3>2, <4>1 DEF CloseOf, Stopping
    <3> QED
      BY <3>1, <3>2
  <2> QED
    BY <2>1, <2>2, <2>3, <2>4 DEF SessionInv
<1>10. ASSUME NEW t \in Session PROVE Spares(t)'
  BY <1>1, <1>5, ClosesSpares
<1> QED
  BY <1>5, <1>6, <1>7, <1>8, <1>9, <1>10, StepKeeps

LEMMA EndedClosesKeeps == ASSUME CameraInv, NEW s \in Session, EndedCloses(s) PROVE CameraInv'
<1> DEFINE home == active[s] # None /\ active[s].owner = "home_call"
<1>0. /\ CameraTyped /\ Registered(s) /\ Agrees(s) /\ RemovedOf(s) /\ OfferOf(s) /\ CloseOf(s)
  BY DEF CameraInv, SessionInv
<1>1. /\ ~closing /\ ended' = ended \ {s} /\ forgiven' = (forgiven \/ home)
      /\ Closes(s, FALSE, FALSE, "ended") /\ "ended" \in ByWhom
      /\ UNCHANGED <<offer, later, lock, stopping, removal, current, media, spent, cut>>
  BY DEF EndedCloses, ByWhom
<1>2. /\ forgiven' \in BOOLEAN /\ (forgiven => forgiven')
      /\ active[s] # None /\ active[s].owner = "home_call" => forgiven'
  BY <1>0, <1>1 DEF CameraTyped
<1> HIDE DEF home
<1>c. PopEffect(s, FALSE, "ended")
  BY <1>1, ClosesPops
<1>3. /\ active' \in [Session -> {None} \cup LiveSession]
      /\ close' \in [Session -> {NoTask} \cup CloseCall]
      /\ \A t \in Session \ {s} : active'[t] = active[t] /\ close'[t] = close[t]
      /\ active'[s] = None
      /\ active[s] = None => close'[s] = close[s]
      /\ active[s] # None => /\ close[s] = NoTask /\ close'[s] # NoTask /\ close'[s].was = active[s]
                             /\ close'[s].by = "ended" /\ close'[s].stage = "ends"
  BY <1>c DEF PopEffect
<1>4. StepOf(s) /\ StaysIdle(s)
  BY <1>1, <1>2, <1>3 DEF StepOf, StaysIdle
<1>5. LockStep(s)
  <2>1. LockOf(s) => LockOf(s)'
    BY <1>1, <1>3 DEF LockOf, At
  <2> QED
    BY <1>1, <2>1 DEF LockStep
<1>6. HolderStep(s)
  <2>1. Holder(s) => Holder(s)'
    BY <1>1, <1>3 DEF Holder, At, Called, InCleanup
  <2> QED
    BY <1>1, <2>1 DEF HolderStep
<1>7. CameraTyped'
  BY <1>0, <1>1, <1>2, <1>3 DEF CameraTyped, closing
<1>8. SessionInv(s)'
  <2>1. Registered(s)' /\ RemovedOf(s)'
    BY <1>0, <1>1, <1>3 DEF Registered, RemovedOf, Stops, At, closing
  <2>2. Agrees(s)'
    BY <1>0, <1>1, <1>3 DEF Agrees, OfOwner
  <2>3. OfferOf(s)'
    BY <1>0, <1>1, <1>2, <1>3 DEF OfferOf, At, Called, InCleanup, closing, Agrees
  <2>4. CloseOf(s)'
    <3>1. CASE active[s] = None
      BY <1>0, <1>1, <1>2, <1>3, <3>1 DEF CloseOf, At, Called
    <3>2. CASE active[s] # None
      BY <1>2, <1>3, <3>2 DEF CloseOf, Stopping
    <3> QED
      BY <3>1, <3>2
  <2> QED
    BY <2>1, <2>2, <2>3, <2>4 DEF SessionInv
<1>9. ASSUME NEW t \in Session PROVE Spares(t)'
  BY <1>1, <1>4, ClosesSpares
<1> QED
  BY <1>4, <1>5, <1>6, <1>7, <1>8, <1>9, StepKeeps

LEMMA SessionRemovedKeeps == ASSUME CameraInv, NEW s \in Session, SessionRemoved(s) PROVE CameraInv'
<1>0. /\ CameraTyped /\ Registered(s) /\ Agrees(s) /\ RemovedOf(s) /\ OfferOf(s)
  BY DEF CameraInv, SessionInv
<1>1. /\ removal = "sessions" /\ active[s] # None /\ close[s] = NoTask /\ closing
      /\ Closes(s, current, current, "remove") /\ "remove" \in ByWhom /\ current \in BOOLEAN
      /\ UNCHANGED <<offer, later, ended, lock, stopping, removal, current, media, spent, forgiven, cut>>
  BY <1>0 DEF SessionRemoved, ByWhom, closing, CameraTyped, Registered
<1>c. PopEffect(s, current, "remove")
  BY <1>1, ClosesPops
<1>2. /\ active' \in [Session -> {None} \cup LiveSession]
      /\ close' \in [Session -> {NoTask} \cup CloseCall]
      /\ \A t \in Session \ {s} : active'[t] = active[t] /\ close'[t] = close[t]
      /\ active'[s] = None /\ close'[s] # NoTask /\ close'[s].was = active[s]
      /\ close'[s].by = "remove" /\ close'[s].stop = current /\ close'[s].stage = "ends"
  BY <1>1, <1>c DEF PopEffect
<1>3. offer[s] = NoTask /\ s \in spent.offers
  BY <1>0, <1>1 DEF RemovedOf, Stops, Registered
<1>4. StepOf(s) /\ StaysIdle(s)
  BY <1>1, <1>2 DEF StepOf, StaysIdle
<1>5. LockStep(s) /\ HolderStep(s)
  BY <1>1, <1>2, <1>3 DEF LockStep, LockOf, At, HolderStep, Holder
<1>6. CameraTyped'
  BY <1>0, <1>1, <1>2 DEF CameraTyped, closing
<1>7. SessionInv(s)'
  <2>1. Registered(s)' /\ RemovedOf(s)'
    BY <1>0, <1>1, <1>2, <1>3 DEF Registered, RemovedOf, Stops, At, closing
  <2>2. Agrees(s)' /\ CloseOf(s)'
    BY <1>0, <1>1, <1>2, <1>3 DEF Agrees, OfOwner, CloseOf, Stopping
  <2>3. OfferOf(s)'
    BY <1>0, <1>1, <1>2, <1>3 DEF OfferOf, At, InCleanup, RemovedOf, Stops, closing
  <2> QED
    BY <2>1, <2>2, <2>3 DEF SessionInv
<1>8. ASSUME NEW t \in Session PROVE Spares(t)'
  BY <1>1, <1>4, ClosesSpares
<1> QED
  BY <1>4, <1>5, <1>6, <1>7, <1>8, StepKeeps

LEMMA SaidToBeOverKeeps == ASSUME CameraInv, NEW owner \in Owner, SaidToBeOver(owner) PROVE CameraInv'
<1>0. CameraTyped /\ LockHeld /\ CallHeld
  BY DEF CameraInv
<1>1. /\ ~closing /\ ended' = {s \in Session : active[s] # None /\ active[s].owner = owner}
      /\ active' = [s \in Session |-> IF s \in ended' /\ owner = "home_call"
                                      THEN [active[s] EXCEPT !.ready = FALSE] ELSE active[s]]
      /\ UNCHANGED <<offer, close, later, lock, stopping, removal, current, media, spent, forgiven, cut>>
  BY DEF SaidToBeOver
<1>2. ASSUME NEW t \in Session
      PROVE  /\ active'[t] = None <=> active[t] = None
             /\ active'[t] \in {None} \cup LiveSession
             /\ active[t] # None => /\ active'[t].owner = active[t].owner /\ active'[t].ring = active[t].ring
                                    /\ active'[t].resource = active[t].resource
                                    /\ active'[t].ready => active[t].ready
  <2>1. CASE t \in ended' /\ owner = "home_call"
    <3>0. active[t] # None
      BY <1>1, <2>1
    <3>1. active[t] \in LiveSession /\ active'[t] = [active[t] EXCEPT !.ready = FALSE] /\ active[t] # None
      <4>1. active[t] \in LiveSession
        BY <1>0, <3>0, FieldsOf
      <4>2. active'[t] = [active[t] EXCEPT !.ready = FALSE]
        BY <1>1, <2>1
      <4> QED
        BY <3>0, <4>1, <4>2
    <3>2. /\ active'[t] \in LiveSession
          /\ active'[t].owner = active[t].owner /\ active'[t].ring = active[t].ring
          /\ active'[t].resource = active[t].resource /\ ~active'[t].ready
      BY <3>1 DEF LiveSession
    <3> QED
      BY <3>1, <3>2, Apart
  <2>2. CASE ~(t \in ended' /\ owner = "home_call")
    BY <1>0, <1>1, <2>2 DEF CameraTyped
  <2> QED
    BY <2>1, <2>2
<1>3. CameraTyped'
  <2>1. active' \in [Session -> {None} \cup LiveSession]
    BY <1>1, <1>2
  <2> QED
    BY <1>0, <1>1, <2>1 DEF CameraTyped, closing
<1>4. ASSUME NEW t \in Session PROVE SessionInv(t)' /\ (Holder(t) => Holder(t)') /\ (LockOf(t) => LockOf(t)')
  <2>0. Registered(t) /\ Agrees(t) /\ RemovedOf(t) /\ OfferOf(t) /\ CloseOf(t)
    BY DEF CameraInv, SessionInv
  <2>1. Registered(t)' /\ RemovedOf(t)' /\ Agrees(t)'
    BY <1>1, <1>2, <2>0 DEF Registered, RemovedOf, Stops, Agrees, OfOwner, At, closing
  <2>2. OfferOf(t)'
    BY <1>1, <1>2, <2>0 DEF OfferOf, At, Called, InCleanup, closing
  <2>3. CloseOf(t)'
    BY <1>1, <2>0 DEF CloseOf, At, Called
  <2>4. (Holder(t) => Holder(t)') /\ (LockOf(t) => LockOf(t)')
    BY <1>1, <1>2 DEF Holder, LockOf, At, Called, InCleanup
  <2> QED
    BY <2>1, <2>2, <2>3, <2>4 DEF SessionInv
<1>5. ASSUME NEW t \in Session PROVE Spares(t)'
  <2>1. Spares(t)
    BY DEF CameraInv
  <2>2. close[t] # NoTask => close[t].others \subseteq Session
    BY <1>0, FieldsOf DEF CloseCall
  <2> QED
    BY <1>1, <1>2, <2>1, <2>2 DEF Spares, closing
<1>6. LockHeld' /\ CallHeld'
  BY <1>0, <1>1, <1>4 DEF LockHeld, CallHeld
<1> QED
  BY <1>3, <1>4, <1>5, <1>6 DEF CameraInv

\* A step that moves neither an id nor the lock.
LEMMA QuietKeeps ==
  ASSUME CameraInv, UNCHANGED <<active, offer, close, later, lock, stopping, current, cut>>,
         spent'.offers = spent.offers, removal = "none" => removal' = removal,
         removal' \in {"sessions", "done"} => \A t \in Session : offer[t] = NoTask,
         removal' = "done" =>
            stopping = Astray \/ \A t \in Session : active[t] = None /\ (close[t] = NoTask \/ Stops(t)),
         removal' = "none" => removal = "none", forgiven => forgiven',
         CameraTyped', CallHeld'
  PROVE  CameraInv'
<1>1. closing' <=> closing
  BY DEF closing
<1>2. ASSUME NEW t \in Session PROVE SessionInv(t)' /\ (LockOf(t) => LockOf(t)') /\ Spares(t)'
  <2>0. Registered(t) /\ Agrees(t) /\ RemovedOf(t) /\ OfferOf(t) /\ CloseOf(t) /\ Spares(t)
    BY DEF CameraInv, SessionInv
  <2>1. Registered(t)' /\ RemovedOf(t)' /\ Agrees(t)'
    BY <1>1, <2>0 DEF Registered, RemovedOf, Stops, Agrees, OfOwner, At
  <2>2. OfferOf(t)' /\ CloseOf(t)'
    BY <1>1, <2>0 DEF OfferOf, CloseOf, At, Called, InCleanup
  <2>3. (LockOf(t) => LockOf(t)') /\ Spares(t)'
    BY <1>1, <2>0 DEF LockOf, At, Spares
  <2> QED
    BY <2>1, <2>2, <2>3 DEF SessionInv
<1>3. LockHeld'
  BY <1>2 DEF CameraInv, LockHeld
<1> QED
  BY <1>2, <1>3 DEF CameraInv

LEMMA MediaChangesKeeps == ASSUME CameraInv, MediaChanges PROVE CameraInv'
<1>0. CameraTyped
  BY DEF CameraInv
<1>1. /\ spent.ends < MaxEnds /\ spent' = [spent EXCEPT !.ends = @ + 1]
      /\ media' = IF media = "idle" THEN "ring" ELSE "idle"
      /\ UNCHANGED <<active, offer, close, later, ended, lock, stopping, removal, current, forgiven, cut>>
  BY DEF MediaChanges
<1>2. /\ spent'.offers = spent.offers /\ spent'.ends \in 0 .. MaxEnds
      /\ spent' = [offers |-> spent'.offers, ends |-> spent'.ends]
  BY <1>0, <1>1, CameraSessionsAssumption DEF CameraTyped
<1>3. CameraTyped'
  BY <1>0, <1>1, <1>2 DEF CameraTyped, closing
<1>4. CallHeld'
  BY <1>1 DEF CallHeld
<1>5. \A t \in Session : RemovedOf(t)
  BY DEF CameraInv, SessionInv
<1> QED
  BY <1>1, <1>2, <1>3, <1>4, <1>5, QuietKeeps DEF RemovedOf, Stops

LEMMA TasksGoneKeeps == ASSUME CameraInv, TasksGone PROVE CameraInv'
<1>0. CameraTyped /\ CallHeld
  BY DEF CameraInv
<1>1. /\ removal = "tasks" /\ removal' = "sessions" /\ (\A s \in Session : offer[s] = NoTask)
      /\ UNCHANGED <<active, offer, close, later, ended, lock, stopping, current, media, spent, forgiven, cut>>
  BY DEF TasksGone
<1>2. CameraTyped'
  BY <1>0, <1>1 DEF CameraTyped, closing
<1>3. CallHeld'
  BY <1>0, <1>1 DEF CallHeld, Holder, At, Called
<1> QED
  BY <1>1, <1>2, <1>3, QuietKeeps

LEMMA LastStopKeeps == ASSUME CameraInv, LastStop PROVE CameraInv'
<1>0. CameraTyped /\ CallHeld /\ \A s \in Session : RemovedOf(s)
  BY DEF CameraInv, SessionInv
<1>1. /\ removal = "sessions" /\ (\A s \in Session : close[s] = NoTask \/ Stops(s))
      /\ (\A s \in Session : active[s] = None) \/ stopping = Astray
      /\ removal' = "done"
      /\ \/ media' = (IF current THEN Stopped("doorbell") ELSE media) /\ UNCHANGED forgiven
         \/ current /\ forgiven' = TRUE /\ UNCHANGED media
      /\ UNCHANGED <<active, offer, close, later, ended, lock, stopping, current, spent, cut>>
  BY DEF LastStop
<1>2. media' \in {"idle", media} /\ (forgiven => forgiven') /\ forgiven' \in BOOLEAN
      /\ (forgiven' \/ forgiven' = forgiven)
  <2>1. Stopped("doorbell") \in {"idle", media}
    BY <1>0, StoppedMedia DEF Owner
  <2>2. media' \in {"idle", media}
    BY <1>1, <2>1
  <2>3. forgiven' = forgiven \/ forgiven' = TRUE
    BY <1>1
  <2>4. forgiven \in BOOLEAN
    BY <1>0 DEF CameraTyped
  <2>5. CASE forgiven' = forgiven
    BY <2>2, <2>4, <2>5
  <2>6. CASE forgiven' = TRUE
    BY <2>2, <2>6
  <2> QED
    BY <2>3, <2>5, <2>6
<1>3. \A s \in Session : offer[s] = NoTask
  BY <1>0, <1>1 DEF RemovedOf, Stops
<1>4. \A s \in Session : Holder(s) => Holder(s)'
  BY <1>1 DEF Holder, At, Called, InCleanup
<1>5. CallHeld'
  BY <1>0, <1>1, <1>2, <1>4 DEF CallHeld
<1>6. CameraTyped'
  BY <1>0, <1>1, <1>2 DEF CameraTyped, closing
<1> QED
  BY <1>1, <1>2, <1>3, <1>5, <1>6, QuietKeeps

LEMMA StopAskedKeeps == ASSUME CameraInv, NEW owner \in Owner, StopAsked(owner) PROVE CameraInv'
<1> DEFINE S == {t \in Session : active[t] # None /\ active[t].owner = owner}
           New(t) == [stage |-> "ends", was |-> active[t], stop |-> FALSE, force |-> FALSE,
                      by |-> "stop", others |-> Users(t)]
<1>0. CameraTyped /\ LockHeld /\ CallHeld
  BY DEF CameraInv
<1>1. /\ removal \in {"none", "tasks"} /\ stopping = Nobody /\ stopping' = owner
      /\ spent.ends < MaxEnds /\ spent' = [spent EXCEPT !.ends = @ + 1]
      /\ active' = [t \in Session |-> IF t \in S THEN None ELSE active[t]]
      /\ close' = [t \in Session |-> IF t \in S THEN New(t) ELSE close[t]]
      /\ UNCHANGED <<offer, later, ended, lock, removal, current, media, forgiven, cut>>
  BY DEF StopAsked
<1>2. /\ spent'.offers = spent.offers /\ spent'.ends \in 0 .. MaxEnds
      /\ spent' = [offers |-> spent'.offers, ends |-> spent'.ends]
  BY <1>0, <1>1, CameraSessionsAssumption DEF CameraTyped
<1>3. ASSUME NEW t \in Session
      PROVE  /\ active'[t] \in {None} \cup LiveSession /\ close'[t] \in {NoTask} \cup CloseCall
             /\ t \notin S => active'[t] = active[t] /\ close'[t] = close[t]
             /\ t \in S => /\ active[t] # None /\ active[t].owner = owner /\ close[t] = NoTask
                           /\ active'[t] = None /\ close'[t] # NoTask /\ close'[t].stage = "ends"
                           /\ close'[t].was = active[t] /\ ~close'[t].stop /\ close'[t].by = "stop"
                           /\ close'[t].others = Users(t)
  <2>1. CASE t \in S
    <3>1. active[t] \in LiveSession /\ active[t].owner = owner /\ close[t] = NoTask /\ Users(t) \in SUBSET Session
      BY <1>0, <2>1, FieldsOf DEF CameraInv, SessionInv, Registered, Users
    <3>2. New(t) \in CloseCall
      BY <3>1 DEF CloseCall
    <3>3. active'[t] = None /\ close'[t] = New(t)
      BY <1>1, <2>1
    <3>4. /\ New(t).stage = "ends" /\ New(t).was = active[t] /\ ~New(t).stop /\ New(t).by = "stop"
          /\ New(t).others = Users(t) /\ New(t) # NoTask
      BY <3>2, Apart
    <3>5. active[t] # None /\ close[t] = NoTask
      BY <2>1, <3>1
    <3> HIDE DEF New
    <3> QED
      BY <2>1, <3>1, <3>2, <3>3, <3>4, <3>5
  <2>2. CASE t \notin S
    BY <1>0, <1>1, <2>2 DEF CameraTyped
  <2> QED
    BY <2>1, <2>2
<1>4. CameraTyped'
  <2>1. active' \in [Session -> {None} \cup LiveSession] /\ close' \in [Session -> {NoTask} \cup CloseCall]
    BY <1>1, <1>3
  <2> QED
    BY <1>0, <1>1, <1>2, <2>1 DEF CameraTyped, closing, Nobody, Astray, Owner
<1>5. owner # Nobody /\ (closing' <=> closing)
  BY <1>1 DEF Owner, Nobody, closing
<1> HIDE DEF S, New
<1>6. ASSUME NEW t \in Session
      PROVE  SessionInv(t)' /\ (Holder(t) => Holder(t)' \/ owner = "home_call") /\ (LockOf(t) => LockOf(t)')
  <2>0. Registered(t) /\ Agrees(t) /\ RemovedOf(t) /\ OfferOf(t) /\ CloseOf(t)
    BY DEF CameraInv, SessionInv
  <2>1. Registered(t)' /\ RemovedOf(t)'
    BY <1>1, <1>2, <1>3, <1>5, <2>0 DEF Registered, RemovedOf, At
  <2>2. Agrees(t)'
    BY <1>1, <1>3, <2>0 DEF Agrees, OfOwner
  <2>3. OfferOf(t)'
    BY <1>1, <1>3, <1>5, <2>0 DEF OfferOf, At, Called, InCleanup
  <2>4. CloseOf(t)'
    <3>1. CASE t \in S
      BY <1>1, <1>3, <3>1 DEF CloseOf, Stopping
    <3>2. CASE t \notin S
      <4>1. close[t] # NoTask => close[t].was.owner \in Owner
        BY <1>0, FieldsOf DEF LiveSession
      <4>2. close[t] # NoTask => close[t].by # "stop"
        BY <1>1, <2>0, <4>1 DEF CloseOf, Nobody, Owner
      <4> QED
        BY <1>1, <1>3, <2>0, <3>2, <4>2 DEF CloseOf, At, Called
    <3> QED
      BY <3>1, <3>2
  <2>5. Holder(t) => Holder(t)' \/ owner = "home_call"
    BY <1>1, <1>3 DEF Holder, At, Called, InCleanup
  <2>6. LockOf(t) => LockOf(t)'
    BY <1>1, <1>3 DEF LockOf, At
  <2> QED
    BY <2>1, <2>2, <2>3, <2>4, <2>5, <2>6 DEF SessionInv
<1>7. LockHeld' /\ CallHeld'
  <2>1. LockHeld'
    BY <1>0, <1>1, <1>6 DEF LockHeld
  <2>2. stopping # "home_call"
    BY <1>1 DEF Nobody
  <2>3. CallHeld'
    BY <1>0, <1>1, <1>6, <2>2 DEF CallHeld
  <2> QED
    BY <2>1, <2>3
<1>8. ASSUME NEW t \in Session PROVE Spares(t)'
  <2> SUFFICES ASSUME ~closing, close'[t] # NoTask, NEW u \in close'[t].others
               PROVE  /\ offer[u] = NoTask /\ u \in spent.offers
                      /\ active'[u] # None => /\ active'[u].resource = close'[t].was.resource
                                              /\ \/ close'[t].stage = "ends"
                                                 \/ close'[t].stage = "refreshes" /\ ~close'[t].stop
    BY <1>1, <1>2, <1>5 DEF Spares
  <2>1. CASE t \in S
    <3>1. /\ u \in Session \ {t} /\ active[u] # None /\ active[u].ready
          /\ active[u].resource = active[t].resource
      BY <1>3, <2>1 DEF Users
    <3>2. offer[u] = NoTask /\ u \in spent.offers
      BY <3>1 DEF CameraInv, SessionInv, Agrees, Registered
    <3> QED
      BY <1>3, <2>1, <3>1, <3>2
  <2>2. CASE t \notin S
    <3>1. /\ offer[u] = NoTask /\ u \in spent.offers /\ u \in Session
          /\ active[u] # None => /\ active[u].resource = close[t].was.resource
                                 /\ \/ close[t].stage = "ends"
                                    \/ close[t].stage = "refreshes" /\ ~close[t].stop
      BY <1>0, <1>3, <2>2 DEF CameraInv, Spares, CameraTyped, CloseCall
    <3> QED
      BY <1>3, <2>2, <3>1
  <2> QED
    BY <2>1, <2>2
<1> QED
  BY <1>4, <1>6, <1>7, <1>8 DEF CameraInv

LEMMA StopAnsweredKeeps == ASSUME CameraInv, StopAnswered PROVE CameraInv'
<1>0. CameraTyped /\ LockHeld /\ CallHeld
  BY DEF CameraInv
<1>1. /\ stopping \in Owner /\ (\A t \in Session : ~Stops(t)) /\ stopping' = Nobody
      /\ \/ media' = Stopped(stopping) /\ UNCHANGED forgiven
         \/ forgiven' = (forgiven \/ stopping = "home_call") /\ UNCHANGED media
      /\ UNCHANGED <<active, offer, close, later, ended, lock, removal, current, spent, cut>>
  BY DEF StopAnswered
<1>2. /\ media' \in {"idle", media} /\ forgiven' \in BOOLEAN /\ (forgiven => forgiven')
      /\ stopping = "home_call" => media' # "call" \/ forgiven'
  <2>1. /\ Stopped(stopping) \in {"idle", media} /\ (stopping = "home_call" => Stopped(stopping) # "call")
    BY <1>0, <1>1, StoppedMedia
  <2>2. forgiven \in BOOLEAN
    BY <1>0 DEF CameraTyped
  <2>3. CASE media' = Stopped(stopping) /\ UNCHANGED forgiven
    BY <2>1, <2>2, <2>3
  <2>4. CASE forgiven' = (forgiven \/ stopping = "home_call") /\ UNCHANGED media
    BY <2>2, <2>4
  <2> QED
    BY <1>1, <2>3, <2>4
<1>3. stopping # Astray /\ (closing' <=> closing)
  BY <1>1 DEF Owner, Astray, closing
<1>4. CameraTyped'
  BY <1>0, <1>1, <1>2 DEF CameraTyped, closing, Nobody, Astray
<1>5. CallHeld'
  <2>1. \A t \in Session : Holder(t) => Holder(t)'
    BY <1>1 DEF Holder, At, Called, InCleanup
  <2> QED
    BY <1>0, <1>1, <1>2, <2>1 DEF CallHeld
<1>6. ASSUME NEW t \in Session PROVE SessionInv(t)' /\ (LockOf(t) => LockOf(t)') /\ Spares(t)'
  <2>0. Registered(t) /\ Agrees(t) /\ RemovedOf(t) /\ OfferOf(t) /\ CloseOf(t) /\ Spares(t)
    BY DEF CameraInv, SessionInv
  <2>1. Registered(t)' /\ RemovedOf(t)' /\ Agrees(t)'
    BY <1>1, <1>3, <2>0 DEF Registered, RemovedOf, Stops, Agrees, OfOwner, At
  <2>2. OfferOf(t)'
    BY <1>1, <1>2, <1>3, <2>0 DEF OfferOf, At, Called, InCleanup
  <2>3. CloseOf(t)'
    <3>1. close[t] # NoTask => close[t].by # "stop"
      BY <1>1 DEF Stops
    <3> QED
      BY <1>1, <1>2, <2>0, <3>1 DEF CloseOf, At, Called
  <2>4. (LockOf(t) => LockOf(t)') /\ Spares(t)'
    BY <1>1, <1>3, <2>0 DEF LockOf, At, Spares
  <2> QED
    BY <2>1, <2>2, <2>3, <2>4 DEF SessionInv
<1>7. LockHeld'
  BY <1>0, <1>1, <1>6 DEF LockHeld
<1> QED
  BY <1>4, <1>5, <1>6, <1>7 DEF CameraInv

LEMMA StopGivenUpKeeps == ASSUME CameraInv, StopGivenUp PROVE CameraInv'
<1> DEFINE S == {t \in Session : Stops(t)}
           Left(t) == [close[t] EXCEPT !.others = @ \ S]
<1>0. CameraTyped /\ LockHeld /\ CallHeld
  BY DEF CameraInv
<1>1. /\ stopping \in Owner
      /\ stopping' = IF removal \in {"sessions", "done"} THEN Astray ELSE Nobody
      /\ active' = RestoredIn(S)
      /\ close' = [t \in Session |-> IF t \in S \/ close[t] = NoTask THEN NoTask ELSE Left(t)]
      /\ forgiven' = (forgiven \/ stopping = "home_call")
      /\ UNCHANGED <<offer, later, ended, lock, removal, current, media, spent, cut>>
  BY DEF StopGivenUp
<1>2. ASSUME NEW t \in Session
      PROVE  /\ active'[t] \in {None} \cup LiveSession /\ close'[t] \in {NoTask} \cup CloseCall
             /\ t \in S => /\ close[t] # NoTask /\ close[t].by = "stop" /\ close'[t] = NoTask
                           /\ active[t] = None /\ active'[t] = close[t].was /\ active'[t] # None
                           /\ close[t].was.owner = stopping /\ close[t].stage \notin Stopping
             /\ t \notin S => /\ active'[t] = active[t] /\ (close[t] = NoTask <=> close'[t] = NoTask)
             /\ t \notin S /\ close[t] # NoTask =>
                   /\ close[t].by # "stop" /\ close'[t].by = close[t].by /\ close'[t].was = close[t].was
                   /\ close'[t].stage = close[t].stage /\ close'[t].stop = close[t].stop
                   /\ close'[t].others = close[t].others \ S
  <2>0. Registered(t) /\ CloseOf(t) /\ active[t] \in {None} \cup LiveSession
    BY <1>0 DEF CameraInv, SessionInv, CameraTyped
  <2>1. CASE t \in S
    <3>1. close[t] # NoTask /\ close[t].by = "stop"
      BY <2>1 DEF Stops
    <3>2. active[t] = None /\ close[t].was \in LiveSession
      BY <1>0, <2>0, <3>1, FieldsOf DEF Registered
    <3>3. close[t].was.owner = stopping /\ close[t].stage \notin Stopping
      BY <2>0, <3>1 DEF CloseOf
    <3>4. active'[t] = close[t].was /\ close'[t] = NoTask
      BY <1>1, <2>1, <3>1, <3>2 DEF RestoredIn
    <3> QED
      BY <2>1, <3>1, <3>2, <3>3, <3>4, Apart
  <2>2. CASE t \notin S /\ close[t] = NoTask
    BY <1>1, <2>0, <2>2 DEF RestoredIn
  <2>3. CASE t \notin S /\ close[t] # NoTask
    <3>1. close[t] \in CloseCall
      BY <1>0, <2>3, FieldsOf
    <3>2. close'[t] = Left(t) /\ active'[t] = active[t]
      BY <1>1, <2>3 DEF RestoredIn
    <3>3. /\ Left(t) \in CloseCall /\ Left(t).by = close[t].by /\ Left(t).was = close[t].was
          /\ Left(t).stage = close[t].stage /\ Left(t).stop = close[t].stop
          /\ Left(t).others = close[t].others \ S
      BY <3>1 DEF CloseCall
    <3>4. close[t].by # "stop"
      BY <2>3 DEF Stops
    <3> QED
      BY <2>0, <2>3, <3>2, <3>3, <3>4, Apart
  <2> QED
    BY <2>1, <2>2, <2>3
<1> HIDE DEF S, Left
<1>3. /\ forgiven' \in BOOLEAN /\ (forgiven => forgiven') /\ (stopping = "home_call" => forgiven')
      /\ (closing' <=> closing)
  BY <1>0, <1>1 DEF CameraTyped, closing
<1>4. CameraTyped'
  <2>1. active' \in [Session -> {None} \cup LiveSession]
    BY <1>1, <1>2 DEF RestoredIn
  <2>2. close' \in [Session -> {NoTask} \cup CloseCall]
    BY <1>1, <1>2
  <2>3. stopping' \in Owner \cup {Nobody, Astray} /\ (stopping' = Astray => closing')
    BY <1>1 DEF Nobody, Astray, closing
  <2> QED
    BY <1>0, <1>1, <1>3, <2>1, <2>2, <2>3 DEF CameraTyped
<1>5. ASSUME NEW t \in Session
      PROVE  /\ SessionInv(t)' /\ (LockOf(t) => LockOf(t)')
             /\ (Holder(t) /\ stopping # "home_call" => Holder(t)')
  <2>0. Registered(t) /\ Agrees(t) /\ RemovedOf(t) /\ OfferOf(t) /\ CloseOf(t)
    BY DEF CameraInv, SessionInv
  <2>1. Registered(t)' /\ RemovedOf(t)'
    BY <1>1, <1>2, <1>3, <2>0 DEF Registered, RemovedOf, At
  <2>2. Agrees(t)'
    BY <1>1, <1>2, <2>0 DEF Agrees, OfOwner
  <2>3. OfferOf(t)'
    BY <1>1, <1>2, <1>3, <2>0 DEF OfferOf, At, Called, InCleanup, Owner
  <2>4. CloseOf(t)'
    BY <1>1, <1>2, <1>3, <2>0 DEF CloseOf, At, Called
  <2>5. LockOf(t) => LockOf(t)'
    BY <1>1, <1>2 DEF LockOf, At, Stopping
  <2>6. Holder(t) /\ stopping # "home_call" => Holder(t)'
    BY <1>1, <1>2 DEF Holder, At, Called, InCleanup
  <2> QED
    BY <2>1, <2>2, <2>3, <2>4, <2>5, <2>6 DEF SessionInv
<1>6. LockHeld' /\ CallHeld'
  <2>1. LockHeld'
    BY <1>0, <1>1, <1>5 DEF LockHeld
  <2>2. CallHeld'
    BY <1>0, <1>1, <1>3, <1>5 DEF CallHeld
  <2> QED
    BY <2>1, <2>2
<1>7. ASSUME NEW t \in Session PROVE Spares(t)'
  <2> SUFFICES ASSUME ~closing, close'[t] # NoTask, NEW u \in close'[t].others
               PROVE  /\ offer[u] = NoTask /\ u \in spent.offers
                      /\ active'[u] # None => /\ active'[u].resource = close'[t].was.resource
                                              /\ \/ close'[t].stage = "ends"
                                                 \/ close'[t].stage = "refreshes" /\ ~close'[t].stop
    BY <1>1, <1>3 DEF Spares
  <2>1. t \notin S /\ close[t] # NoTask /\ u \in close[t].others /\ u \notin S
    BY <1>2
  <2>2. /\ offer[u] = NoTask /\ u \in spent.offers /\ u \in Session
        /\ active[u] # None => /\ active[u].resource = close[t].was.resource
                               /\ \/ close[t].stage = "ends"
                                  \/ close[t].stage = "refreshes" /\ ~close[t].stop
    BY <1>0, <2>1 DEF CameraInv, Spares, CameraTyped, CloseCall
  <2> QED
    BY <1>2, <2>1, <2>2
<1> QED
  BY <1>4, <1>5, <1>6, <1>7 DEF CameraInv

LEMMA CameraStep == ASSUME CameraInv, [CameraNext]_camVars PROVE CameraInv'
<1>1. ASSUME NEW s \in Session, CloseSteps(s) PROVE CameraInv'
  BY <1>1, ProviderClosedKeeps, PreviewRefreshedKeeps, StopBeginsKeeps, MediaStoppedKeeps, CloseCancelledKeeps DEF CloseSteps
<1>2. ASSUME NEW s \in Session, OfferSteps(s) PROVE CameraInv'
  BY <1>2, CallStartedKeeps, RegistersKeeps, PrepareBeginsKeeps, PreparedKeeps, ProviderAnswersKeeps,
     FailedClosedKeeps, OfferFailsKeeps, CleanedKeeps, UnownedCheckedKeeps, UnownedStoppedKeeps,
     OfferCancelledKeeps DEF OfferSteps
<1>3. ASSUME NEW s \in Session,
             Offered(s) \/ CallAccepted(s) \/ ClientLeaves(s) \/ LaterCloses(s) \/ EndedCloses(s)
      PROVE  CameraInv'
  BY <1>3, OfferedKeeps, CallAcceptedKeeps, ClientLeavesKeeps, LaterClosesKeeps, EndedClosesKeeps
<1>4. ASSUME RemovalSteps PROVE CameraInv'
  BY <1>4, TasksGoneKeeps, LastStopKeeps, SessionRemovedKeeps DEF RemovalSteps
<1>5. ASSUME UNCHANGED camVars PROVE CameraInv'
  <2>1. CameraTyped /\ CallHeld /\ \A s \in Session : RemovedOf(s)
    BY DEF CameraInv, SessionInv
  <2>2. UNCHANGED <<active, offer, close, later, ended, lock, stopping, removal, current, media, spent, forgiven, cut>>
    BY <1>5 DEF camVars
  <2>3. CameraTyped'
    BY <2>1, <2>2 DEF CameraTyped, closing
  <2>4. CallHeld'
    BY <2>1, <2>2 DEF CallHeld, Holder, At, Called, InCleanup
  <2> QED
    BY <2>1, <2>2, <2>3, <2>4, QuietKeeps DEF RemovedOf, Stops
<1>6. ASSUME NEW owner \in Owner, SaidToBeOver(owner) \/ StopAsked(owner) PROVE CameraInv'
  BY <1>6, SaidToBeOverKeeps, StopAskedKeeps
<1> QED
  BY <1>1, <1>2, <1>3, <1>4, <1>5, <1>6, MediaChangesKeeps, RemovalBeginsKeeps, StopAnsweredKeeps,
     StopGivenUpKeeps DEF CameraNext

LEMMA CameraStarts == ASSUME CameraInit PROVE CameraInv
<1>1. CameraTyped
  <2>1. /\ active \in [Session -> {None} \cup LiveSession]
        /\ offer \in [Session -> {NoTask} \cup OfferTask]
        /\ close \in [Session -> {NoTask} \cup CloseCall]
        /\ later \in [Session -> {"none", "plain", "stop"}]
    BY DEF CameraInit
  <2>2. /\ spent.offers = {} /\ spent.ends = 0 /\ spent = [offers |-> spent.offers, ends |-> spent.ends]
        /\ 0 \in 0 .. MaxEnds
    BY CameraSessionsAssumption DEF CameraInit
  <2>3. /\ ended = {} /\ removal = "none" /\ current = TRUE /\ media = "idle"
        /\ forgiven = FALSE /\ cut = FALSE /\ stopping = Nobody /\ Nobody # Astray
    BY DEF CameraInit, Nobody, Astray
  <2> QED
    BY <2>1, <2>2, <2>3 DEF CameraTyped
<1>2. LockHeld /\ CallHeld
  BY DEF CameraInit, LockHeld, CallHeld
<1>3. ASSUME NEW s \in Session PROVE SessionInv(s) /\ Spares(s)
  BY DEF CameraInit, SessionInv, Spares, Registered, Agrees, RemovedOf, Stops, OfferOf, CloseOf, At, InCleanup, closing
<1> QED
  BY <1>1, <1>2, <1>3 DEF CameraInv

LEMMA CameraInvConsistent == ASSUME CameraInv PROVE CameraConsistent
<1>0. CameraTyped /\ LockHeld /\ CallHeld /\ \A s \in Session : RemovedOf(s)
  BY DEF CameraInv, SessionInv
<1>1. CameraTypeOK
  <2>1. ASSUME NEW s \in Session
        PROVE  /\ active[s] = None \/ active[s].owner \in Owner
               /\ offer[s] = NoTask \/ offer[s].stage \in Stages
               /\ close[s] = NoTask \/ close[s].stage \in {"ends", "refreshes"} \cup Stopping
               /\ later[s] \in {"none", "plain", "stop"}
    BY <1>0, FieldsOf DEF LiveSession, OfferTask, CloseCall, CameraTyped
  <2>2. spent \in [offers : SUBSET Session, ends : 0 .. MaxEnds]
    BY <1>0 DEF CameraTyped
  <2> QED
    BY <1>0, <2>1, <2>2 DEF CameraTypeOK, CameraTyped, Owner
<1>2. LockOwned
  <2>1. ASSUME NEW s \in Session, LockOf(s) PROVE LockOwned
    <3>1. CASE lock = [id |-> s, for |-> "close"] /\ close[s] # NoTask /\ close[s].stage = "drains"
      BY <3>1 DEF LockOwned
    <3>2. CASE lock = [id |-> s, for |-> "prepare"] /\ At(s, "prepares")
      BY <3>2 DEF LockOwned
    <3>3. CASE lock = [id |-> s, for |-> "unowned"] /\ At(s, "stopping")
      BY <3>3 DEF LockOwned
    <3> QED
      BY <2>1, <3>1, <3>2, <3>3 DEF LockOf
  <2>2. CASE lock = Free
    BY <2>2 DEF LockOwned
  <2> QED
    BY <1>0, <2>1, <2>2 DEF LockHeld
<1>3. stopping # Astray => NothingRemains
  BY <1>0 DEF NothingRemains, RemovedOf
<1>4. ~cut => CallIsOwned
  <2> SUFFICES ASSUME ~cut, media = "call", ~forgiven, current, stopping # "home_call"
               PROVE  \E s \in Session : \/ offer[s] # NoTask /\ Called(s)
                                         \/ active[s] # None /\ active[s].owner = "home_call"
                                         \/ close[s] # NoTask /\ close[s].was.owner = "home_call"
    BY DEF CallIsOwned
  <2>1. PICK s \in Session : Holder(s)
    BY <1>0 DEF CallHeld
  <2> QED
    BY <2>1 DEF Holder
<1> QED
  BY <1>1, <1>2, <1>3, <1>4 DEF CameraConsistent

\* The question for others is asked before the lock and the drain, but nobody
\* who was ready comes back: who had the media is gone when it stops.
LEMMA CameraInvSpares ==
  ASSUME CameraInv, NEW s \in Session, MediaStopped(s), ~closing, NEW t \in close[s].others
  PROVE  active[t] = None
<1>1. close[s] # NoTask /\ close[s].stage = "drains"
  BY DEF MediaStopped
<1> QED
  BY <1>1 DEF CameraInv, Spares

(* In every state of the camera the lock is held by the task that stands at *)
(* the step it is held for, a Home Call that an offer started is some       *)
(* task's or session's or is being stopped by a service (unless its stop    *)
(* failed or was given up, the answer to its start was lost, the agent said *)
(* it was over, the entry has a new runtime or a cleanup was cancelled), an *)
(* entity that is gone holds no session unless a stop was given up while it *)
(* was removed, and a session that closes stops no media under another one  *)
(* that was ready before and still is there: for every number of sessions,  *)
(* whatever tasks are cancelled at which await.                             *)
THEOREM CameraKeptHolds == CameraSpec => CameraKept
<1>1. CameraInit => CameraInv
  BY CameraStarts
<1>2. CameraInv /\ [CameraNext]_camVars => CameraInv'
  BY CameraStep
<1>3. CameraInv => CameraConsistent
  BY CameraInvConsistent
<1>4. CameraInv => [\A s \in Session :
                       MediaStopped(s) /\ media' # media /\ ~closing =>
                          \A t \in close[s].others : active[t] = None]_camVars
  BY CameraInvSpares
<1> QED
  BY <1>1, <1>2, <1>3, <1>4, PTL DEF CameraSpec, CameraKept, SharedIsSpared
=============================================================================
