---------------------------- MODULE SetInduction ----------------------------
(***************************************************************************)
(* Induction over the natural numbers for sets: what holds of 0 and, when  *)
(* it holds of a number, of the next one, is put as membership of a set.   *)
(* The provers can use a lemma about every set; they cannot instantiate    *)
(* one about every predicate.  The other proofs cite it for what a         *)
(* sequence was built from, one element at a time.  Also what FlattenSeq   *)
(* makes of rows and segments, and what a loop over a sequence has made    *)
(* (Fold), which follow from it.                                           *)
(***************************************************************************)
EXTENDS Integers, Sequences, SequencesExt, SequenceTheorems, WellFoundedInduction, TLAPS

\* A set of natural numbers has a least element.
LEMMA LeastNatural ==
    ASSUME NEW T, T \subseteq Nat, T # {}
    PROVE  \E m \in T : \A k \in T : m <= k
<1> DEFINE R == OpToRel(<, Nat)
<1>1. IsWellFoundedOn(R, Nat)
  BY NatLessThanWellFounded
<1>2. \A a, b \in Nat : a < b => <<a, b>> \in R
  BY DEF OpToRel
<1> HIDE DEF R
<1>3. PICK m \in T : \A k \in T : ~ (<<k, m>> \in R)
  BY <1>1, WFMin
<1>4. \A k \in T : ~ (k < m)
  BY <1>2, <1>3
<1> QED
  BY <1>4

\* Steps from a to b.
LEMMA Steps ==
    ASSUME NEW a \in Nat, NEW b \in Nat, NEW S,
           a \in S, \A i \in a .. b - 1 : i \in S => i + 1 \in S
    PROVE  a .. b \subseteq S
<1> DEFINE T == (a .. b) \ S
<1> SUFFICES ASSUME T # {} PROVE FALSE
    OBVIOUS
<1>1. PICK m \in T : \A k \in T : m <= k
  <2>1. T \subseteq Nat
    OBVIOUS
  <2> HIDE DEF T
  <2> QED
    BY <2>1, LeastNatural
<1>2. m - 1 \in a .. b - 1 /\ m - 1 \notin T
  BY <1>1
<1> QED
  BY <1>1, <1>2

\* All natural numbers.
LEMMA Induction ==
    ASSUME NEW S, 0 \in S, \A i \in Nat : i \in S => i + 1 \in S
    PROVE  Nat \subseteq S
<1> SUFFICES ASSUME NEW n \in Nat PROVE n \in S
    OBVIOUS
<1>1. 0 .. n \subseteq S
  BY Steps
<1> QED
  BY <1>1
-----------------------------------------------------------------------------
(* FlattenSeq *)

\* f[i] is the first i sequences of s, one behind the other.
IsFlat(f, s, n) == f = [i \in 1 .. n |-> IF i = 1 THEN s[i] ELSE f[i - 1] \o s[i]]

LEMMA FlatExists ==
    ASSUME NEW s, NEW n \in Nat
    PROVE  \E f : IsFlat(f, s, n)
<1> DEFINE S == {m \in Nat : \E f : IsFlat(f, s, m)}
<1>1. 0 \in S
  <2> DEFINE f == [i \in 1 .. 0 |-> s[i]]
  <2>1. IsFlat(f, s, 0)
    BY DEF IsFlat
  <2> QED
    BY <2>1
<1>2. ASSUME NEW m \in Nat, m \in S
      PROVE  m + 1 \in S
  <2>1. PICK f : IsFlat(f, s, m)
    BY <1>2
  <2> DEFINE g == [i \in 1 .. m + 1 |-> IF i = 1 THEN s[i] ELSE f[i - 1] \o s[i]]
  <2>2. \A i \in 1 .. m : f[i] = IF i = 1 THEN s[i] ELSE f[i - 1] \o s[i]
    BY <2>1 DEF IsFlat
  <2>3. \A i \in 1 .. m + 1 : g[i] = IF i = 1 THEN s[i] ELSE f[i - 1] \o s[i]
    OBVIOUS
  <2>4. IsFlat(g, s, m + 1)
    <3>1. g = [i \in 1 .. m + 1 |-> g[i]]
      OBVIOUS
    <3> HIDE DEF g
    <3>2. \A i \in 1 .. m : g[i] = f[i]
      BY <2>2, <2>3
    <3>3. ASSUME NEW i \in 1 .. m + 1
          PROVE  g[i] = IF i = 1 THEN s[i] ELSE g[i - 1] \o s[i]
      <4>1. i # 1 => i - 1 \in 1 .. m
        OBVIOUS
      <4> QED
        BY <2>3, <3>2, <4>1
    <3> QED
      BY <3>1, <3>3 DEF IsFlat
  <2> QED
    BY <2>4
<1>3. Nat \subseteq S
  <2> HIDE DEF S
  <2> QED
    BY <1>1, <1>2, Induction
<1> QED
  BY <1>3

LEMMA FlatDef ==
    ASSUME NEW s, Len(s) \in Nat \ {0}
    PROVE  \E f : IsFlat(f, s, Len(s)) /\ FlattenSeq(s) = f[Len(s)]
<1> DEFINE f == CHOOSE f : f = [i \in 1 .. Len(s) |-> IF i = 1 THEN s[i] ELSE f[i - 1] \o s[i]]
<1>1. FlattenSeq(s) = f[Len(s)]
  BY DEF FlattenSeq
<1>2. IsFlat(f, s, Len(s))
  BY FlatExists DEF IsFlat
<1> QED
  BY <1>1, <1>2


LEMMA FlatFirst ==
    ASSUME NEW f, NEW s, NEW n \in Nat \ {0}, IsFlat(f, s, n)
    PROVE  f[1] = s[1]
<1>1. \A j \in 1 .. n : f[j] = IF j = 1 THEN s[j] ELSE f[j - 1] \o s[j]
  BY DEF IsFlat
<1>2. 1 \in 1 .. n
  OBVIOUS
<1> QED
  BY <1>1, <1>2

LEMMA FlatNext ==
    ASSUME NEW f, NEW s, NEW n \in Nat \ {0}, IsFlat(f, s, n), NEW i \in Nat \ {0}, i < n
    PROVE  f[i + 1] = f[i] \o s[i + 1]
<1>1. \A j \in 1 .. n : f[j] = IF j = 1 THEN s[j] ELSE f[j - 1] \o s[j]
  BY DEF IsFlat
<1>2. i + 1 \in 1 .. n /\ i + 1 # 1 /\ (i + 1) - 1 = i
  OBVIOUS
<1>3. f[i + 1] = f[(i + 1) - 1] \o s[i + 1]
  BY <1>1, <1>2
<1> QED
  BY <1>2, <1>3

\* The first n elements of s are sequences over T that are not empty.
Filled(s, n, T) == \A i \in 1 .. n : s[i] \in Seq(T) /\ s[i] # <<>>

LEMMA JoinedIsLonger ==
    ASSUME NEW T, NEW a \in Seq(T), NEW b \in Seq(T), b # <<>>, NEW i \in Nat, Len(a) >= i
    PROVE  a \o b \in Seq(T) /\ Len(a \o b) >= i + 1 /\ Len(b) >= 1 /\ a \o b # <<>>
<1>1. a \o b \in Seq(T) /\ Len(a \o b) = Len(a) + Len(b) /\ Len(a) \in Nat /\ Len(b) \in Nat \ {0}
  BY ConcatProperties, EmptySeq
<1>2. Len(a \o b) >= i + 1 /\ Len(a \o b) # 0
  BY <1>1
<1> QED
  BY <1>1, <1>2

LEMMA FlatTypes ==
    ASSUME NEW T, NEW s, NEW n \in Nat \ {0}, Filled(s, n, T), NEW f, IsFlat(f, s, n), NEW k \in 1 .. n
    PROVE  f[k] \in Seq(T) /\ Len(f[k]) >= k
<1> DEFINE S == {i \in Nat : f[i] \in Seq(T) /\ Len(f[i]) >= i}
<1>1. 1 \in S
  <2>1. s[1] \in Seq(T) /\ s[1] # <<>> /\ f[1] = s[1]
    BY FlatFirst DEF Filled
  <2>2. Len(s[1]) >= 1
    BY <2>1, EmptySeq
  <2> QED
    BY <2>1, <2>2
<1>2. ASSUME NEW i \in 1 .. n - 1, i \in S
      PROVE  i + 1 \in S
  <2>1. s[i + 1] \in Seq(T) /\ s[i + 1] # <<>> /\ i + 1 \in Nat
    BY DEF Filled
  <2>2. f[i + 1] = f[i] \o s[i + 1]
    <3>1. i \in Nat \ {0} /\ i < n
      OBVIOUS
    <3> QED
      BY <3>1, FlatNext, ZenonT(60)
  <2>3. f[i + 1] \in Seq(T) /\ Len(f[i + 1]) >= i + 1
    BY <1>2, <2>1, <2>2, JoinedIsLonger
  <2> QED
    BY <2>1, <2>3
<1> HIDE DEF S
<1>3. 1 .. n \subseteq S
  BY <1>1, <1>2, Steps
<1> QED
  BY <1>3 DEF S

\* Two sequences that agree on their first n elements.
Alike(s, t, n) == \A i \in 1 .. n : s[i] = t[i]
LEMMA FlatSame ==
    ASSUME NEW s, NEW t, NEW f, NEW g, NEW m \in Nat \ {0}, NEW k \in Nat \ {0},
           NEW n \in Nat \ {0}, n <= m, n <= k, IsFlat(f, s, m), IsFlat(g, t, k),
           Alike(s, t, n)
    PROVE  f[n] = g[n]
<1> DEFINE S == {i \in Nat : f[i] = g[i]}
<1>1. 1 \in S
  <2>1. f[1] = s[1]
    BY FlatFirst
  <2>2. g[1] = t[1]
    BY FlatFirst
  <2>3. s[1] = t[1]
    BY DEF Alike
  <2> QED
    BY <2>1, <2>2, <2>3
<1>2. ASSUME NEW i \in 1 .. n - 1, i \in S
      PROVE  i + 1 \in S
  <2>1. i \in Nat \ {0} /\ i < m /\ i < k /\ i + 1 \in 1 .. n /\ i + 1 \in Nat
    OBVIOUS
  <2>2. f[i + 1] = f[i] \o s[i + 1]
    BY <2>1, FlatNext, ZenonT(60)
  <2>3. g[i + 1] = g[i] \o t[i + 1]
    BY <2>1, FlatNext, ZenonT(60)
  <2>5. s[i + 1] = t[i + 1]
    BY <2>1 DEF Alike
  <2>4. f[i + 1] = g[i + 1]
    BY <1>2, <2>2, <2>3, <2>5
  <2> QED
    BY <2>1, <2>4
<1> HIDE DEF S
<1>4. 1 .. n \subseteq S
  BY <1>1, <1>2, Steps
<1> QED
  BY <1>4 DEF S

LEMMA FlatOne ==
    ASSUME NEW a
    PROVE  FlattenSeq(<<a>>) = a
<1>1. PICK s : s = <<a>>
  OBVIOUS
<1>2. Len(s) = 1 /\ s[1] = a /\ Len(s) \in Nat \ {0}
  BY <1>1
<1>3. PICK f : IsFlat(f, s, Len(s)) /\ FlattenSeq(s) = f[Len(s)]
  BY <1>2, FlatDef
<1>4. f[1] = s[1]
  BY <1>2, <1>3, FlatFirst
<1> QED
  BY <1>1, <1>2, <1>3, <1>4

LEMMA FlatAppend ==
    ASSUME NEW T, NEW s \in Seq(T), NEW a \in T, s # <<>>
    PROVE  FlattenSeq(Append(s, a)) = FlattenSeq(s) \o a
<1>1. PICK n \in Nat \ {0} : n = Len(s)
  BY EmptySeq
<1>2. PICK t : t = Append(s, a)
  OBVIOUS
<1>3. Len(t) = n + 1 /\ t[n + 1] = a /\ Alike(s, t, n)
  BY <1>1, <1>2, AppendProperties DEF Alike
<1>4. n + 1 \in Nat \ {0} /\ n < n + 1 /\ n <= n + 1
  OBVIOUS
<1>5. PICK f : IsFlat(f, s, n) /\ FlattenSeq(s) = f[n]
  BY <1>1, FlatDef
<1>6. PICK g : IsFlat(g, t, n + 1) /\ FlattenSeq(t) = g[n + 1]
  BY <1>3, <1>4, FlatDef
<1>7. g[n + 1] = g[n] \o a
  BY <1>3, <1>4, <1>6, FlatNext
<1>8. f[n] = g[n]
  BY <1>3, <1>4, <1>5, <1>6, FlatSame
<1> QED
  BY <1>2, <1>5, <1>6, <1>7, <1>8

\* t is s without its first element.
Shifted(t, s, m) == \A i \in 1 .. m : t[i] = s[i + 1]

\* The first sequence, and the others behind it.
IsJoined(c, a, b) == c = a \o b
LEMMA FlatShift ==
    ASSUME NEW T, NEW s, NEW t, NEW m \in Nat \ {0}, NEW n \in Nat \ {0}, m < n, n <= m + 1,
           Filled(s, n, T), Shifted(t, s, m)
    PROVE  \A f, g : IsFlat(f, s, n) /\ IsFlat(g, t, m) => IsJoined(f[n], s[1], g[m])
<1> SUFFICES ASSUME NEW f, NEW g, IsFlat(f, s, n), IsFlat(g, t, m)
             PROVE  f[n] = s[1] \o g[m]
  BY DEF IsJoined
<1> DEFINE S == {i \in Nat : f[i + 1] = s[1] \o g[i]}
<1>2. 1 \in S
  <2>1. f[1] = s[1]
    BY FlatFirst
  <2>2. PICK k : k = 1
    OBVIOUS
  <2>3. k \in 1 .. m /\ k \in Nat \ {0} /\ k < n
    BY <2>2
  <2>4. f[k + 1] = f[k] \o s[k + 1]
    BY <2>3, FlatNext, ZenonT(60)
  <2>5. g[1] = t[1]
    BY FlatFirst
  <2>6. t[k] = s[k + 1]
    BY <2>3 DEF Shifted
  <2>7. f[k] = s[1] /\ g[k] = s[k + 1]
    BY <2>1, <2>2, <2>5, <2>6
  <2>8. f[k + 1] = s[1] \o g[k]
    BY <2>4, <2>7, Zenon
  <2> QED
    BY <2>2, <2>8
<1>3. Filled(t, m, T)
  BY SMTT(60) DEF Filled, Shifted
<1>4. ASSUME NEW i \in 1 .. m - 1, i \in S
      PROVE  i + 1 \in S
  <2>1. PICK j : j = i + 1
    OBVIOUS
  <2>2. /\ j \in 1 .. m /\ j \in Nat \ {0} /\ j < n /\ j + 1 \in 1 .. n
        /\ i \in 1 .. m /\ i \in Nat \ {0} /\ i < m
    BY <2>1
  <2>3. f[j + 1] = f[j] \o s[j + 1]
    BY <2>2, FlatNext, ZenonT(60)
  <2>4. g[j] = g[i] \o t[j]
    <3>1. g[i + 1] = g[i] \o t[i + 1]
      BY <2>2, FlatNext, ZenonT(60)
    <3> QED
      BY <2>1, <3>1
  <2>5. t[j] = s[j + 1]
    BY <2>2 DEF Shifted
  <2>6. s[1] \in Seq(T) /\ s[j + 1] \in Seq(T)
    BY <2>2 DEF Filled
  <2>7. g[i] \in Seq(T)
    BY <1>3, <2>2, FlatTypes
  <2>8. f[j] = s[1] \o g[i]
    BY <1>4, <2>1
  <2>9. (s[1] \o g[i]) \o s[j + 1] = s[1] \o (g[i] \o s[j + 1])
    <3>1. \A a, b, c \in Seq(T) : (a \o b) \o c = a \o (b \o c)
      BY ConcatAssociative
    <3> QED
      BY <2>6, <2>7, <3>1
  <2>10. f[j + 1] = s[1] \o g[j]
    BY <2>3, <2>4, <2>5, <2>8, <2>9
  <2> QED
    BY <2>1, <2>2, <2>10
<1> HIDE DEF S
<1>5. m \in S
  <2>1. 1 .. m \subseteq S
    BY <1>2, <1>4, Steps
  <2> QED
    BY <2>1
<1>6. n = m + 1
  OBVIOUS
<1> QED
  BY <1>5, <1>6 DEF S

LEMMA FlatTail ==
    ASSUME NEW T, NEW s, NEW t, NEW m \in Nat \ {0}, NEW n \in Nat \ {0}, m < n, n <= m + 1,
           Filled(s, n, T), Shifted(t, s, m),
           \E f : IsFlat(f, s, n) /\ FlattenSeq(s) = f[n],
           \E g : IsFlat(g, t, m) /\ FlattenSeq(t) = g[m]
    PROVE  FlattenSeq(s) = s[1] \o FlattenSeq(t)
<1>3. \A f, g : IsFlat(f, s, n) /\ IsFlat(g, t, m) => IsJoined(f[n], s[1], g[m])
  BY FlatShift
<1>4. PICK f : IsFlat(f, s, n) /\ FlattenSeq(s) = f[n]
  OBVIOUS
<1>5. PICK g : IsFlat(g, t, m) /\ FlattenSeq(t) = g[m]
  OBVIOUS
<1>7. f[n] = s[1] \o g[m]
  BY <1>3, <1>4, <1>5 DEF IsJoined
<1> QED
  BY <1>4, <1>5, <1>7, Zenon

LEMMA FlatHead ==
    ASSUME NEW S, NEW T, NEW s \in Seq(S), Len(s) >= 2, Filled(s, Len(s), T)
    PROVE  FlattenSeq(s) = s[1] \o FlattenSeq(Tail(s))
<1>1. PICK m \in Nat \ {0} : m + 1 = Len(s)
  <2>1. Len(s) \in Nat
    BY LenProperties
  <2>2. \A k \in Nat : k >= 2 => k - 1 \in Nat \ {0} /\ (k - 1) + 1 = k
    OBVIOUS
  <2> QED
    BY <2>1, <2>2
<1>2. PICK n : n = Len(s)
  OBVIOUS
<1>3. n \in Nat \ {0} /\ m < n /\ n <= m + 1
  BY <1>1, <1>2
<1>4. Len(Tail(s)) = m /\ Shifted(Tail(s), s, m)
  <2>1. s # <<>>
    BY EmptySeq
  <2>2. Len(Tail(s)) = Len(s) - 1 /\ \A i \in 1 .. Len(Tail(s)) : Tail(s)[i] = s[i + 1]
    BY <2>1, HeadTailProperties
  <2>3. Len(Tail(s)) = m
    BY <1>1, <2>2
  <2> QED
    BY <2>2, <2>3 DEF Shifted
<1>5. Filled(s, n, T)
  BY <1>2
<1>6. \E f : IsFlat(f, s, n) /\ FlattenSeq(s) = f[n]
  BY <1>2, <1>3, FlatDef
<1>7. \E g : IsFlat(g, Tail(s), m) /\ FlattenSeq(Tail(s)) = g[m]
  BY <1>4, FlatDef
<1> QED
  BY <1>3, <1>4, <1>5, <1>6, <1>7, FlatTail

LEMMA FlatType ==
    ASSUME NEW S, NEW T, NEW s \in Seq(S), s # <<>>, Filled(s, Len(s), T)
    PROVE  FlattenSeq(s) \in Seq(T) /\ Len(FlattenSeq(s)) >= Len(s)
<1>1. PICK n \in Nat \ {0} : n = Len(s)
  BY EmptySeq
<1>2. Filled(s, n, T) /\ n \in 1 .. n
  BY <1>1
<1>3. PICK f : IsFlat(f, s, n) /\ FlattenSeq(s) = f[n]
  BY <1>1, FlatDef
<1> QED
  BY <1>1, <1>2, <1>3, FlatTypes
-----------------------------------------------------------------------------
(* Scans and loops *)

\* A scan up to the first element that is not wanted.
LEMMA FirstMiss ==
  ASSUME NEW N \in Nat, NEW T
  PROVE  \E n \in 0 .. N : (\A i \in 1 .. n : i \in T) /\ (n < N => n + 1 \notin T)
<1>1. CASE 1 .. N \subseteq T
  <2>1. N \in 0 .. N /\ \A i \in 1 .. N : i \in T
    BY <1>1
  <2> QED
    BY <2>1
<1>2. CASE ~(1 .. N \subseteq T)
  <2> DEFINE M == (1 .. N) \ T
  <2>1. M \subseteq Nat /\ M # {}
    BY <1>2
  <2>2. PICK m \in M : \A k \in M : m <= k
    BY <2>1, LeastNatural
  <2>3. m - 1 \in 0 .. N /\ (m - 1) + 1 = m /\ m \notin T
    BY <2>2
  <2>4. ASSUME NEW i \in 1 .. m - 1 PROVE i \in T
    <3>1. i \in 1 .. N /\ ~(m <= i)
      BY <2>2
    <3> QED
      BY <2>2, <3>1
  <2> QED
    BY <2>3, <2>4
<1> QED
  BY <1>1, <1>2

\* f holds what a loop that starts with base has made after each of its n rounds.
IsLoop(f, n, base, V, G) == /\ f \in [0 .. n -> V] /\ f[0] = base
                            /\ \A k \in 1 .. n : f[k] = G[<<f[k - 1], k>>]
LEMMA LoopExists ==
  ASSUME NEW V, NEW n \in Nat, NEW base \in V, NEW G \in [V \X (1 .. n) -> V]
  PROVE  \E f : IsLoop(f, n, base, V, G)
<1> DEFINE S == {m \in Nat : m <= n => \E f : IsLoop(f, m, base, V, G)}
<1>1. 0 \in S
  <2> DEFINE f == [k \in 0 .. 0 |-> base]
  <2>1. IsLoop(f, 0, base, V, G)
    BY DEF IsLoop
  <2> QED
    BY <2>1
<1>2. ASSUME NEW m \in Nat, m \in S
      PROVE  m + 1 \in S
  <2> SUFFICES ASSUME m + 1 <= n
               PROVE  \E f : IsLoop(f, m + 1, base, V, G)
    OBVIOUS
  <2>1. PICK f : IsLoop(f, m, base, V, G)
    BY <1>2
  <2>2. /\ f \in [0 .. m -> V] /\ f[0] = base
        /\ \A k \in 1 .. m : f[k] = G[<<f[k - 1], k>>]
    BY <2>1 DEF IsLoop
  <2>3. f[m] \in V /\ m + 1 \in 1 .. n
    BY <2>2
  <2>4. G[<<f[m], m + 1>>] \in V
    BY <2>3
  <2> DEFINE g == [k \in 0 .. m + 1 |-> IF k = m + 1 THEN G[<<f[m], m + 1>>] ELSE f[k]]
  <2>5. g \in [0 .. m + 1 -> V] /\ g[0] = base /\ g[m + 1] = G[<<f[m], m + 1>>]
        /\ \A k \in 0 .. m : g[k] = f[k]
    BY <2>2, <2>4
  <2> HIDE DEF g
  <2>6. ASSUME NEW k \in 1 .. m + 1
        PROVE  g[k] = G[<<g[k - 1], k>>]
    <3>1. CASE k = m + 1
      <4>1. k - 1 = m /\ m \in 0 .. m
        BY <3>1
      <4> QED
        BY <2>5, <3>1, <4>1
    <3>2. CASE k # m + 1
      <4>1. k \in 1 .. m /\ k - 1 \in 0 .. m /\ k \in 0 .. m
        BY <3>2
      <4> QED
        BY <2>2, <2>5, <4>1
    <3> QED
      BY <3>1, <3>2
  <2>7. IsLoop(g, m + 1, base, V, G)
    BY <2>5, <2>6 DEF IsLoop
  <2> QED
    BY <2>7
<1> HIDE DEF S
<1>3. Nat \subseteq S
  BY <1>1, <1>2, Induction
<1>4. n \in S /\ n <= n
  BY <1>3
<1> QED
  BY <1>4 DEF S
-----------------------------------------------------------------------------
(* Sequences, one element after the other *)

\* What holds of the empty sequence, and of a sequence with one more element.
LEMMA SeqInduction ==
    ASSUME NEW X, NEW S, <<>> \in S,
           \A s \in Seq(X), x \in X : s \in S => Append(s, x) \in S
    PROVE  Seq(X) \subseteq S
<1> DEFINE N == {n \in Nat : \A s \in Seq(X) : Len(s) = n => s \in S}
<1>1. 0 \in N
  <2>1. \A s \in Seq(X) : Len(s) = 0 => s = <<>>
    BY EmptySeq
  <2> QED
    BY <2>1
<1>2. ASSUME NEW n \in Nat, n \in N
      PROVE  n + 1 \in N
  <2> SUFFICES ASSUME NEW s \in Seq(X), Len(s) = n + 1 PROVE s \in S
    OBVIOUS
  <2> DEFINE t == [i \in 1 .. n |-> s[i]]
  <2>1. \A i \in 1 .. n + 1 : s[i] \in X
    OBVIOUS
  <2>2. t \in Seq(X) /\ Len(t) = n /\ s[n + 1] \in X
    BY <2>1
  <2>3. s = Append(t, s[n + 1])
    <3>1. Append(t, s[n + 1]) \in Seq(X) /\ Len(Append(t, s[n + 1])) = n + 1
      BY <2>2, AppendProperties
    <3>2. ASSUME NEW i \in 1 .. n + 1 PROVE Append(t, s[n + 1])[i] = s[i]
      BY <2>2, AppendProperties
    <3> HIDE DEF t
    <3> QED
      BY <3>1, <3>2, SeqEqual
  <2> HIDE DEF t
  <2> QED
    BY <1>2, <2>2, <2>3
<1> HIDE DEF N
<1>3. Nat \subseteq N
  BY <1>1, <1>2, Induction
<1>4. ASSUME NEW s \in Seq(X) PROVE s \in S
  <2>1. Len(s) \in N
    BY <1>3
  <2> QED
    BY <2>1 DEF N
<1> QED
  BY <1>4

\* What a round of a loop makes of what it has and the next element.
IsStep(G, V, X) == G \in [V \X X -> V]
LEMMA StepType ==
    ASSUME NEW V, NEW X, NEW G, IsStep(G, V, X), NEW a \in V, NEW x \in X
    PROVE  G[<<a, x>>] \in V
BY DEF IsStep

\* What a loop over s has made that starts with base and takes one element
\* after the other.
Fold(G, base, s) == LET f[n \in 0 .. Len(s)] == IF n = 0 THEN base ELSE G[<<f[n - 1], s[n]>>]
                    IN f[Len(s)]

\* g holds what it has made of the first elements.
IsFold(g, G, V, base, s) == /\ g \in [0 .. Len(s) -> V] /\ g[0] = base
                            /\ \A k \in 1 .. Len(s) : g[k] = G[<<g[k - 1], s[k]>>]
LEMMA FoldIs ==
    ASSUME NEW V, NEW X, NEW G, IsStep(G, V, X), NEW base \in V, NEW s \in Seq(X)
    PROVE  \E g : IsFold(g, G, V, base, s) /\ Fold(G, base, s) = g[Len(s)]
<1> DEFINE n == Len(s)
           H == [p \in V \X (1 .. n) |-> G[<<p[1], s[p[2]]>>]]
           R(f) == f = [k \in 0 .. n |-> IF k = 0 THEN base ELSE G[<<f[k - 1], s[k]>>]]
<1>1. n \in Nat /\ \A k \in 1 .. n : s[k] \in X
  OBVIOUS
<1>2. H \in [V \X (1 .. n) -> V] /\ \A a \in V, k \in 1 .. n : H[<<a, k>>] = G[<<a, s[k]>>]
  <2>1. \A p \in V \X (1 .. n) : p[1] \in V /\ s[p[2]] \in X
    BY <1>1
  <2>2. \A p \in V \X (1 .. n) : G[<<p[1], s[p[2]]>>] \in V
    BY <2>1, StepType
  <2> HIDE DEF n
  <2> QED
    BY <2>2
<1>3. Fold(G, base, s) = (CHOOSE f : R(f))[n]
  BY DEF Fold
<1> HIDE DEF H, n
<1>4. PICK g : IsLoop(g, n, base, V, H)
  BY <1>1, <1>2, LoopExists
<1>5. /\ g \in [0 .. n -> V] /\ g[0] = base
      /\ \A k \in 1 .. n : k - 1 \in 0 .. n /\ g[k] = G[<<g[k - 1], s[k]>>]
  <2>1. /\ g \in [0 .. n -> V] /\ g[0] = base
        /\ \A k \in 1 .. n : g[k] = H[<<g[k - 1], k>>]
    BY <1>4 DEF IsLoop
  <2>2. \A k \in 1 .. n : k - 1 \in 0 .. n
    BY <1>1
  <2> QED
    BY <1>2, <2>1, <2>2
<1>6. R(g)
  BY <1>1, <1>5
<1> DEFINE f == CHOOSE f : R(f)
<1>7. R(f)
  BY <1>6
<1> HIDE DEF f
<1>8. f[0] = base /\ \A k \in 1 .. n : f[k] = G[<<f[k - 1], s[k]>>]
  BY <1>1, <1>7
<1>9. f = g
  <2> DEFINE S == {k \in Nat : f[k] = g[k]}
  <2>1. 0 \in S
    BY <1>5, <1>8
  <2>2. ASSUME NEW k \in 0 .. n - 1, k \in S PROVE k + 1 \in S
    <3>1. k + 1 \in 1 .. n /\ (k + 1) - 1 = k /\ k + 1 \in Nat
      BY <1>1
    <3>2. f[k + 1] = G[<<f[k], s[k + 1]>>] /\ g[k + 1] = G[<<g[k], s[k + 1]>>] /\ f[k] = g[k]
      BY <1>5, <1>8, <2>2, <3>1
    <3> QED
      BY <3>1, <3>2
  <2> HIDE DEF S
  <2>3. 0 .. n \subseteq S
    BY <1>1, <2>1, <2>2, Steps
  <2>4. \A k \in 0 .. n : f[k] = g[k]
    BY <2>3 DEF S
  <2> QED
    BY <1>5, <1>7, <2>4
<1>10. IsFold(g, G, V, base, s) /\ Fold(G, base, s) = g[n]
  BY <1>3, <1>5, <1>9 DEF IsFold, f, n
<1> QED
  BY <1>10 DEF n

\* A recursive function that is such a loop.
LEMMA FoldUnique ==
    ASSUME NEW V, NEW X, NEW G, IsStep(G, V, X), NEW base \in V, NEW s \in Seq(X),
           NEW f, f[0] = base, \A k \in 1 .. Len(s) : f[k - 1] \in V => f[k] = G[<<f[k - 1], s[k]>>]
    PROVE  f[Len(s)] = Fold(G, base, s)
<1>1. PICK g : IsFold(g, G, V, base, s) /\ Fold(G, base, s) = g[Len(s)]
  BY FoldIs
<1> DEFINE S == {k \in Nat : f[k] = g[k]}
<1>2. g \in [0 .. Len(s) -> V] /\ g[0] = base /\ \A k \in 1 .. Len(s) : g[k] = G[<<g[k - 1], s[k]>>]
  BY <1>1 DEF IsFold
<1>3. 0 \in S
  BY <1>2
<1>4. ASSUME NEW k \in 0 .. Len(s) - 1, k \in S PROVE k + 1 \in S
  <2>1. k + 1 \in 1 .. Len(s) /\ (k + 1) - 1 = k /\ k \in 0 .. Len(s) /\ k + 1 \in Nat
    OBVIOUS
  <2>2. g[k] \in V /\ g[k + 1] = G[<<g[k], s[k + 1]>>] /\ f[k] = g[k]
    BY <1>2, <1>4, <2>1
  <2>3. f[k + 1] = G[<<f[k], s[k + 1]>>]
    BY <2>1, <2>2
  <2> QED
    BY <2>1, <2>2, <2>3
<1> HIDE DEF S
<1>5. 0 .. Len(s) \subseteq S
  <2>1. Len(s) \in Nat
    OBVIOUS
  <2> QED
    BY <1>3, <1>4, <2>1, Steps
<1> QED
  BY <1>1, <1>5 DEF S

LEMMA FoldEmpty ==
    ASSUME NEW V, NEW X, NEW G, IsStep(G, V, X), NEW base \in V
    PROVE  Fold(G, base, <<>>) = base
<1>1. <<>> \in Seq(X) /\ Len(<<>>) = 0
  OBVIOUS
<1>2. PICK g : IsFold(g, G, V, base, <<>>) /\ Fold(G, base, <<>>) = g[Len(<<>>)]
  BY <1>1, FoldIs, ZenonT(60)
<1> QED
  BY <1>1, <1>2 DEF IsFold

LEMMA FoldAppend ==
    ASSUME NEW V, NEW X, NEW G, IsStep(G, V, X), NEW base \in V, NEW s \in Seq(X), NEW x \in X
    PROVE  /\ Fold(G, base, s) \in V
           /\ Fold(G, base, Append(s, x)) = G[<<Fold(G, base, s), x>>]
<1> DEFINE t == Append(s, x)
<1>1. PICK n \in Nat : n = Len(s)
  OBVIOUS
<1>2. t \in Seq(X) /\ Len(t) = n + 1 /\ t[n + 1] = x /\ \A i \in 1 .. n : t[i] = s[i]
  BY <1>1, AppendProperties
<1> HIDE DEF t
<1>3. PICK g : IsFold(g, G, V, base, t) /\ Fold(G, base, t) = g[n + 1]
  BY <1>2, FoldIs
<1>4. g \in [0 .. n + 1 -> V] /\ g[0] = base /\ \A k \in 1 .. n + 1 : g[k] = G[<<g[k - 1], t[k]>>]
  BY <1>2, <1>3 DEF IsFold
<1>5. g[n] = Fold(G, base, s)
  <2>1. \A k \in 1 .. n : g[k] = G[<<g[k - 1], s[k]>>]
    BY <1>1, <1>2, <1>4
  <2> QED
    BY <1>1, <1>4, <2>1, FoldUnique
<1>6. n \in 0 .. n + 1 /\ (n + 1) - 1 = n /\ n + 1 \in 1 .. n + 1
  BY <1>1
<1>7. g[n + 1] = G[<<g[n], x>>] /\ g[n] \in V
  BY <1>2, <1>4, <1>6
<1> QED
  BY <1>3, <1>5, <1>7 DEF t

LEMMA FoldType ==
    ASSUME NEW V, NEW X, NEW G, IsStep(G, V, X), NEW base \in V, NEW s \in Seq(X)
    PROVE  Fold(G, base, s) \in V
<1>1. PICK g : IsFold(g, G, V, base, s) /\ Fold(G, base, s) = g[Len(s)]
  BY FoldIs
<1>2. Len(s) \in 0 .. Len(s)
  OBVIOUS
<1> QED
  BY <1>1, <1>2 DEF IsFold

LEMMA ConcatAppend ==
    ASSUME NEW X, NEW s \in Seq(X), NEW t \in Seq(X), NEW x \in X
    PROVE  s \o Append(t, x) = Append(s \o t, x)
<1>1. Append(t, x) = t \o <<x>> /\ Append(s \o t, x) = (s \o t) \o <<x>>
  <2>1. s \o t \in Seq(X)
    BY ConcatProperties
  <2> QED
    BY <2>1, AppendIsConcat
<1> QED
  BY <1>1, ConcatAssociative

LEMMA FoldConcat ==
    ASSUME NEW V, NEW X, NEW G, IsStep(G, V, X), NEW base \in V, NEW s \in Seq(X), NEW t \in Seq(X)
    PROVE  Fold(G, base, s \o t) = Fold(G, Fold(G, base, s), t)
<1> DEFINE S == {u \in Seq(X) : Fold(G, base, s \o u) = Fold(G, Fold(G, base, s), u)}
<1>1. PICK b \in V : b = Fold(G, base, s)
  BY FoldType
<1>2. <<>> \in S
  <2>1. s \o <<>> = s /\ <<>> \in Seq(X)
    BY ConcatEmptySeq
  <2>2. Fold(G, b, <<>>) = b
    BY FoldEmpty
  <2> QED
    BY <1>1, <2>1, <2>2
<1>3. ASSUME NEW u \in Seq(X), NEW x \in X, u \in S PROVE Append(u, x) \in S
  <2> DEFINE w == s \o u
  <2>1. w \in Seq(X) /\ s \o Append(u, x) = Append(w, x) /\ Append(u, x) \in Seq(X)
    BY ConcatProperties, ConcatAppend, AppendProperties
  <2>4. Fold(G, base, w) = Fold(G, b, u)
    BY <1>1, <1>3
  <2> HIDE DEF w
  <2>2. Fold(G, base, Append(w, x)) = G[<<Fold(G, base, w), x>>]
    BY <2>1, FoldAppend
  <2>3. Fold(G, b, Append(u, x)) = G[<<Fold(G, b, u), x>>]
    BY FoldAppend
  <2> QED
    BY <1>1, <2>1, <2>2, <2>3, <2>4
<1> HIDE DEF S
<1>4. Seq(X) \subseteq S
  BY <1>2, <1>3, SeqInduction
<1>5. t \in S
  BY <1>4
<1> QED
  BY <1>5 DEF S
=============================================================================
