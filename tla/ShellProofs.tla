----------------------------- MODULE ShellProofs -----------------------------
(***************************************************************************)
(* For every line, every length of the buffers and every volume: a path    *)
(* that path_join resolves fits into the buffer it is stored in, and a     *)
(* line is a command of a tree of files (FileTree.tla), or changes none.   *)
(* For every line that is written as a command and its arguments: it is    *)
(* the command that was meant, on the files that were meant, and head,     *)
(* tail and wc show what the whole file has.                               *)
(***************************************************************************)
EXTENDS Shell, SetInduction, FiniteSetTheorems

-----------------------------------------------------------------------------
(* The length of a path *)

\* f[k] is the length of the first k symbols of s.
IsUpTo(f, s, n) == /\ f \in [0 .. n -> Nat] /\ f[0] = 0
                   /\ \A k \in 1 .. n : f[k] = f[k - 1] + SymbolLen[s[k]]

LEMMA LengthDef ==
  ASSUME NEW s \in Seq(Symbols)
  PROVE  \E f : IsUpTo(f, s, Len(s)) /\ Length(s) = f[Len(s)]
<1> DEFINE n == Len(s)
           G == [p \in Nat \X (1 .. n) |-> p[1] + SymbolLen[s[p[2]]]]
           R(f) == f = [k \in 0 .. n |-> IF k = 0 THEN 0 ELSE f[k - 1] + SymbolLen[s[k]]]
<1>1. n \in Nat /\ \A k \in 1 .. n : SymbolLen[s[k]] \in Nat
  BY ShellAssumption
<1>2. G \in [Nat \X (1 .. n) -> Nat]
  BY <1>1
<1>3. \A a \in Nat, k \in 1 .. n : G[<<a, k>>] = a + SymbolLen[s[k]]
  OBVIOUS
<1> HIDE DEF G, n
<1>4. PICK g : IsLoop(g, n, 0, Nat, G)
  BY <1>1, <1>2, LoopExists
<1>5. /\ g \in [0 .. n -> Nat] /\ g[0] = 0
      /\ \A k \in 1 .. n : g[k] = g[k - 1] + SymbolLen[s[k]]
  <2>1. /\ g \in [0 .. n -> Nat] /\ g[0] = 0
        /\ \A k \in 1 .. n : g[k] = G[<<g[k - 1], k>>]
    BY <1>4 DEF IsLoop
  <2>2. \A k \in 1 .. n : k - 1 \in 0 .. n
    BY <1>1
  <2> QED
    BY <1>3, <2>1, <2>2
<1>6. R(g)
  BY <1>1, <1>5
<1> DEFINE f == CHOOSE f : R(f)
<1>7. R(f)
  BY <1>6
<1>8. Length(s) = f[n]
  BY DEF Length, n
<1> HIDE DEF f
<1>9. f[0] = 0 /\ \A k \in 1 .. n : f[k] = f[k - 1] + SymbolLen[s[k]]
  BY <1>1, <1>7
<1>10. \A k \in 0 .. n : f[k] \in Nat
  <2> DEFINE S == {k \in Nat : f[k] \in Nat}
  <2>1. 0 \in S
    BY <1>9
  <2>2. ASSUME NEW k \in 0 .. n - 1, k \in S PROVE k + 1 \in S
    <3>1. k + 1 \in 1 .. n /\ (k + 1) - 1 = k
      BY <1>1
    <3>2. f[k + 1] = f[k] + SymbolLen[s[k + 1]] /\ SymbolLen[s[k + 1]] \in Nat
      BY <1>1, <1>9, <3>1
    <3> QED
      BY <2>2, <3>2
  <2> HIDE DEF S
  <2>3. 0 .. n \subseteq S
    BY <1>1, <2>1, <2>2, Steps
  <2> QED
    BY <2>3 DEF S
<1>11. f \in [0 .. n -> Nat]
  BY <1>7, <1>10
<1>12. IsUpTo(f, s, n)
  BY <1>9, <1>11 DEF IsUpTo
<1> QED
  BY <1>8, <1>12 DEF n

\* The length counts every symbol once at least.
LEMMA LengthType ==
  ASSUME NEW s \in Seq(Symbols)
  PROVE  Length(s) \in Nat /\ Len(s) <= Length(s)
<1>1. PICK n \in Nat : n = Len(s)
  OBVIOUS
<1>2. PICK f : IsUpTo(f, s, n) /\ Length(s) = f[n]
  BY <1>1, LengthDef
<1>3. /\ f \in [0 .. n -> Nat] /\ f[0] = 0
      /\ \A k \in 1 .. n : f[k] = f[k - 1] + SymbolLen[s[k]]
  BY <1>2 DEF IsUpTo
<1> DEFINE S == {k \in Nat : k <= n => k <= f[k]}
<1>4. 0 \in S
  BY <1>3
<1>5. ASSUME NEW k \in 0 .. n - 1, k \in S PROVE k + 1 \in S
  <2>1. k + 1 \in 1 .. n /\ (k + 1) - 1 = k /\ k \in 0 .. n /\ k <= f[k]
    BY <1>5
  <2>2. SymbolLen[s[k + 1]] \in Nat \ {0}
    BY <1>1, <2>1, ShellAssumption
  <2>3. f[k + 1] = f[k] + SymbolLen[s[k + 1]]
    BY <1>3, <2>1
  <2>4. f[k] \in Nat
    BY <1>3, <2>1
  <2> QED
    BY <2>1, <2>2, <2>3, <2>4
<1> HIDE DEF S
<1>6. 0 .. n \subseteq S
  BY <1>4, <1>5, Steps
<1>7. n <= f[n] /\ f[n] \in Nat
  BY <1>3, <1>6 DEF S
<1> QED
  BY <1>1, <1>2, <1>7

LEMMA LengthConcat ==
  ASSUME NEW a \in Seq(Symbols), NEW b \in Seq(Symbols)
  PROVE  Length(a \o b) = Length(a) + Length(b)
<1>1. PICK m \in Nat : m = Len(a)
  OBVIOUS
<1>2. PICK n \in Nat : n = Len(b)
  OBVIOUS
<1>3. PICK c : c = a \o b
  OBVIOUS
<1>4. /\ c \in Seq(Symbols) /\ Len(c) = m + n
      /\ \A i \in 1 .. m + n : c[i] = IF i <= m THEN a[i] ELSE b[i - m]
  BY <1>1, <1>2, <1>3, ConcatProperties
<1>5. PICK f : IsUpTo(f, a, m) /\ Length(a) = f[m]
  BY <1>1, LengthDef
<1>6. PICK g : IsUpTo(g, b, n) /\ Length(b) = g[n]
  BY <1>2, LengthDef
<1>7. PICK h : IsUpTo(h, c, m + n) /\ Length(c) = h[m + n]
  BY <1>4, LengthDef
<1>8. /\ f \in [0 .. m -> Nat] /\ f[0] = 0
      /\ \A k \in 1 .. m : f[k] = f[k - 1] + SymbolLen[a[k]]
  BY <1>5 DEF IsUpTo
<1>9. /\ g \in [0 .. n -> Nat] /\ g[0] = 0
      /\ \A k \in 1 .. n : g[k] = g[k - 1] + SymbolLen[b[k]]
  BY <1>6 DEF IsUpTo
<1>10. /\ h \in [0 .. m + n -> Nat] /\ h[0] = 0
       /\ \A k \in 1 .. m + n : h[k] = h[k - 1] + SymbolLen[c[k]]
  BY <1>7 DEF IsUpTo
<1>11. h[m] = f[m]
  <2> DEFINE S == {k \in Nat : h[k] = f[k]}
  <2>1. 0 \in S
    BY <1>8, <1>10
  <2>2. ASSUME NEW k \in 0 .. m - 1, k \in S PROVE k + 1 \in S
    <3>1. k + 1 \in 1 .. m /\ k + 1 \in 1 .. m + n /\ (k + 1) - 1 = k /\ k + 1 <= m
      OBVIOUS
    <3>2. c[k + 1] = a[k + 1]
      BY <1>4, <3>1
    <3>3. h[k + 1] = h[k] + SymbolLen[c[k + 1]]
      BY <1>10, <3>1
    <3>4. f[k + 1] = f[k] + SymbolLen[a[k + 1]]
      BY <1>8, <3>1
    <3> QED
      BY <2>2, <3>2, <3>3, <3>4
  <2> HIDE DEF S
  <2>3. 0 .. m \subseteq S
    BY <2>1, <2>2, Steps
  <2> QED
    BY <2>3 DEF S
<1>12. h[m + n] = h[m] + g[n]
  <2> DEFINE S == {k \in Nat : h[m + k] = h[m] + g[k]}
  <2>1. 0 \in S
    <3>1. m + 0 = m /\ m \in 0 .. m + n
      OBVIOUS
    <3>2. h[m] \in Nat
      BY <1>10, <3>1
    <3> QED
      BY <1>9, <3>1, <3>2
  <2>2. ASSUME NEW k \in 0 .. n - 1, k \in S PROVE k + 1 \in S
    <3>1. /\ k + 1 \in 1 .. n /\ m + (k + 1) \in 1 .. m + n /\ (k + 1) - 1 = k
          /\ (m + (k + 1)) - 1 = m + k /\ ~(m + (k + 1) <= m) /\ (m + (k + 1)) - m = k + 1
          /\ k \in 0 .. n /\ m \in 0 .. m + n
      OBVIOUS
    <3>2. c[m + (k + 1)] = b[k + 1]
      BY <1>4, <3>1
    <3>3. h[m + (k + 1)] = h[m + k] + SymbolLen[c[m + (k + 1)]]
      BY <1>10, <3>1
    <3>4. g[k + 1] = g[k] + SymbolLen[b[k + 1]]
      BY <1>9, <3>1
    <3>5. g[k] \in Nat /\ h[m] \in Nat
      BY <1>9, <1>10, <3>1
    <3>9. b[k + 1] \in Symbols
      BY <1>2, <3>1
    <3>10. SymbolLen[b[k + 1]] \in Nat
      BY <3>9, ShellAssumption
    <3>6. h[m + k] = h[m] + g[k]
      BY <2>2
    <3>7. \A x, y, z \in Nat : (x + y) + z = x + (y + z)
      OBVIOUS
    <3>8. h[m + (k + 1)] = h[m] + g[k + 1]
      BY <3>2, <3>3, <3>4, <3>5, <3>6, <3>7, <3>10
    <3> QED
      BY <3>8
  <2> HIDE DEF S
  <2>3. 0 .. n \subseteq S
    BY <2>1, <2>2, Steps
  <2> QED
    BY <2>3 DEF S
<1> QED
  BY <1>3, <1>5, <1>6, <1>7, <1>11, <1>12

LEMMA LengthOne ==
  ASSUME NEW x \in Symbols
  PROVE  Length(<<x>>) = SymbolLen[x]
<1>1. PICK s : s = <<x>>
  OBVIOUS
<1>2. s \in Seq(Symbols) /\ Len(s) = 1 /\ s[1] = x
  BY <1>1
<1>3. PICK f : IsUpTo(f, s, 1) /\ Length(s) = f[1]
  BY <1>2, LengthDef
<1>4. f[0] = 0 /\ f[1] = f[0] + SymbolLen[x]
  <2>1. 1 \in 1 .. 1 /\ 1 - 1 = 0
    OBVIOUS
  <2>2. f[0] = 0 /\ f[1] = f[1 - 1] + SymbolLen[s[1]]
    BY <1>3, <2>1 DEF IsUpTo
  <2> QED
    BY <1>2, <2>1, <2>2
<1>5. SymbolLen[x] \in Nat
  BY ShellAssumption
<1> QED
  BY <1>1, <1>3, <1>4, <1>5

LEMMA LengthNone == Length(<<>>) = 0
<1>1. <<>> \in Seq(Symbols) /\ Len(<<>>) = 0
  OBVIOUS
<1>2. PICK f : IsUpTo(f, <<>>, 0) /\ Length(<<>>) = f[0]
  BY <1>1, LengthDef
<1> QED
  BY <1>2 DEF IsUpTo

-----------------------------------------------------------------------------
(* Counting *)

\* How many elements of B are m at most.
CountTo(B, m) == Cardinality({j \in B : j <= m})
LEMMA CountSteps ==
  ASSUME NEW N \in Nat, NEW B, B \subseteq 1 .. N
  PROVE  /\ IsFiniteSet(B) /\ Cardinality(B) \in Nat
         /\ CountTo(B, 0) = 0 /\ CountTo(B, N) = Cardinality(B)
         /\ \A m \in Nat : /\ CountTo(B, m) \in Nat
                           /\ m + 1 \in B => CountTo(B, m + 1) = CountTo(B, m) + 1
                           /\ m + 1 \notin B => CountTo(B, m + 1) = CountTo(B, m)
<1>0. \A j \in B : j \in Nat /\ 1 <= j /\ j <= N
  OBVIOUS
<1>1. IsFiniteSet(B)
  <2>1. IsFiniteSet(1 .. N)
    BY FS_Interval
  <2> QED
    BY <2>1, FS_Subset
<1>2. Cardinality(B) \in Nat
  BY <1>1, FS_CardinalityType
<1>3. CountTo(B, 0) = 0
  <2>2. \A j \in B : ~(j <= 0)
    BY <1>0
  <2>1. {j \in B : j <= 0} = {}
    BY <2>2, Zenon
  <2> QED
    BY <2>1, FS_EmptySet DEF CountTo
<1>4. CountTo(B, N) = Cardinality(B)
  <2>1. {j \in B : j <= N} = B
    BY <1>0
  <2> QED
    BY <2>1 DEF CountTo
<1>5. ASSUME NEW m \in Nat
      PROVE  /\ CountTo(B, m) \in Nat
             /\ m + 1 \in B => CountTo(B, m + 1) = CountTo(B, m) + 1
             /\ m + 1 \notin B => CountTo(B, m + 1) = CountTo(B, m)
  <2> DEFINE C == {j \in B : j <= m}
             D == {j \in B : j <= m + 1}
  <2>1. IsFiniteSet(C)
    BY <1>1, FS_Subset
  <2>2. Cardinality(C) \in Nat
    BY <2>1, FS_CardinalityType
  <2>7. \A j \in B : j <= m + 1 <=> j <= m \/ j = m + 1
    BY <1>0
  <2>8. ~(m + 1 <= m)
    OBVIOUS
  <2>3. m + 1 \in B => D = C \cup {m + 1} /\ m + 1 \notin C
    BY <2>7, <2>8
  <2>4. m + 1 \notin B => D = C
    BY <2>7
  <2> HIDE DEF C, D
  <2>5. m + 1 \in B => Cardinality(D) = Cardinality(C) + 1
    BY <2>1, <2>3, FS_AddElement
  <2>6. CountTo(B, m) = Cardinality(C) /\ CountTo(B, m + 1) = Cardinality(D)
    BY DEF CountTo, C, D
  <2> QED
    BY <2>2, <2>4, <2>5, <2>6
<1> QED
  BY <1>1, <1>2, <1>3, <1>4, <1>5

\* Every number up to the cardinality is the rank of an element.
LEMMA RankExists ==
  ASSUME NEW N \in Nat, NEW B, B \subseteq 1 .. N, NEW n \in 1 .. Cardinality(B)
  PROVE  \E i \in B : CountTo(B, i) = n
<1>1. /\ CountTo(B, 0) = 0 /\ CountTo(B, N) = Cardinality(B) /\ Cardinality(B) \in Nat
      /\ \A m \in Nat : /\ CountTo(B, m) \in Nat
                        /\ m + 1 \in B => CountTo(B, m + 1) = CountTo(B, m) + 1
                        /\ m + 1 \notin B => CountTo(B, m + 1) = CountTo(B, m)
  BY CountSteps, ZenonT(60)
<1> DEFINE M == {m \in Nat : CountTo(B, m) >= n}
<1>2. M \subseteq Nat /\ N \in M
  BY <1>1
<1>3. PICK m \in M : \A k \in M : m <= k
  BY <1>2, LeastNatural
<1>4. m # 0
  BY <1>1, <1>3
<1>5. m - 1 \in Nat /\ (m - 1) + 1 = m /\ m - 1 \notin M
  BY <1>3, <1>4
<1>6. CountTo(B, m - 1) < n /\ CountTo(B, m - 1) \in Nat
  BY <1>1, <1>5
<1>7. CountTo(B, m) >= n
  OBVIOUS
<1>8. m \in B /\ CountTo(B, m) = CountTo(B, m - 1) + 1
  <2>1. \/ m \in B /\ CountTo(B, m) = CountTo(B, m - 1) + 1
        \/ m \notin B /\ CountTo(B, m) = CountTo(B, m - 1)
    BY <1>1, <1>5
  <2> QED
    BY <1>6, <1>7, <2>1
<1>9. CountTo(B, m) = n
  BY <1>6, <1>7, <1>8
<1> QED
  BY <1>8, <1>9

LEMMA SubSeqIn ==
  ASSUME NEW S, NEW s \in Seq(S), NEW a \in Nat \ {0}, NEW b \in Int, b <= Len(s)
  PROVE  /\ SubSeq(s, a, b) \in Seq(S)
         /\ Len(SubSeq(s, a, b)) = IF a <= b THEN b - a + 1 ELSE 0
<1>1. \A i \in a .. b : s[i] \in S
  OBVIOUS
<1>2. a \in Int
  OBVIOUS
<1> QED
  BY <1>1, <1>2, SubSeqProperties

-----------------------------------------------------------------------------
(* The segments of a path *)

\* What a segment is, and what is found of a path at any time.
HasSlash(x) == \E i \in 1 .. Len(x) : x[i] = "/"
Segs == {x \in Seq(Symbols) : x # <<>> /\ ~HasSlash(x)}
SegStates == {r \in [segs : Seq(Segs), open : BOOLEAN] : r.open => r.segs # <<>>}
SegStep == [p \in SegStates \X Symbols |-> SegChar(p[1], p[2])]
NoSegs == [segs |-> <<>>, open |-> FALSE]

LEMMA AppendToSeg ==
  ASSUME NEW x \in Seq(Symbols), ~HasSlash(x), NEW c \in Symbols, c # "/"
  PROVE  Append(x, c) \in Segs
<1>1. PICK y : y = Append(x, c)
  OBVIOUS
<1>2. PICK n \in Nat : n = Len(x)
  OBVIOUS
<1>3. y \in Seq(Symbols) /\ y # <<>> /\ Len(y) = n + 1 /\ y[n + 1] = c /\ \A i \in 1 .. n : y[i] = x[i]
  BY <1>1, <1>2, AppendProperties
<1>4. \A i \in 1 .. n + 1 : i \in 1 .. n \/ i = n + 1
  BY <1>2
<1>5. ~HasSlash(y)
  BY <1>2, <1>3, <1>4 DEF HasSlash
<1> QED
  BY <1>1, <1>3, <1>5 DEF Segs

LEMMA FrontLast ==
  ASSUME NEW X, NEW s \in Seq(X), s # <<>>
  PROVE  /\ Front(s) \in Seq(X) /\ Last(s) \in X /\ Len(Front(s)) = Len(s) - 1
         /\ s = Append(Front(s), Last(s))
         /\ \A i \in 1 .. Len(s) - 1 : Front(s)[i] = s[i]
<1>1. PICK n \in Nat : n = Len(s) /\ n >= 1
  BY EmptySeq
<1>2. Front(s) = SubSeq(s, 1, n - 1) /\ Last(s) = s[n] /\ s[n] \in X
  BY <1>1 DEF Front, Last
<1>3. /\ SubSeq(s, 1, n - 1) \in Seq(X) /\ Len(SubSeq(s, 1, n - 1)) = n - 1
      /\ \A i \in 1 .. n - 1 : SubSeq(s, 1, n - 1)[i] = s[i]
  <2>1. n - 1 \in Int /\ \A i \in 1 .. n - 1 : s[i] \in X
    BY <1>1
  <2>2. /\ SubSeq(s, 1, n - 1) \in Seq(X)
        /\ Len(SubSeq(s, 1, n - 1)) = IF 1 <= n - 1 THEN (n - 1) - 1 + 1 ELSE 0
        /\ \A i \in 1 .. (n - 1) - 1 + 1 : SubSeq(s, 1, n - 1)[i] = s[1 + i - 1]
    BY <2>1, SubSeqProperties
  <2>3. (n - 1) - 1 + 1 = n - 1 /\ \A i \in 1 .. n - 1 : 1 + i - 1 = i
    BY <1>1
  <2>4. Len(SubSeq(s, 1, n - 1)) = n - 1
    BY <1>1, <2>2
  <2> QED
    BY <2>2, <2>3, <2>4
<1>4. PICK f : f = Front(s)
  OBVIOUS
<1>5. f \in Seq(X) /\ Len(f) = n - 1 /\ \A i \in 1 .. n - 1 : f[i] = s[i]
  BY <1>2, <1>3, <1>4
<1>6. s = Append(f, s[n])
  <2>1. /\ Append(f, s[n]) \in Seq(X) /\ Len(Append(f, s[n])) = Len(f) + 1
        /\ \A i \in 1 .. Len(f) : Append(f, s[n])[i] = f[i]
        /\ Append(f, s[n])[Len(f) + 1] = s[n]
    BY <1>2, <1>5, AppendProperties
  <2>2. Len(Append(f, s[n])) = n /\ (n - 1) + 1 = n
    BY <1>1, <1>5, <2>1
  <2>3. ASSUME NEW i \in 1 .. Len(s) PROVE Append(f, s[n])[i] = s[i]
    BY <1>1, <1>5, <2>1, <2>2, <2>3
  <2> QED
    BY <1>1, <2>1, <2>2, <2>3, SeqEqual
<1> QED
  BY <1>1, <1>2, <1>4, <1>5, <1>6

\* A character of a path closes a segment, extends the last one, or begins one.
LEMMA SegCharType ==
  ASSUME NEW r \in SegStates, NEW c \in Symbols
  PROVE  SegChar(r, c) \in SegStates
<1>1. PICK segs \in Seq(Segs), open \in BOOLEAN : r = [segs |-> segs, open |-> open] /\ (open => segs # <<>>)
  BY DEF SegStates
<1>2. CASE c = "/"
  <2>1. SegChar(r, c) = [segs |-> segs, open |-> FALSE]
    BY <1>1, <1>2 DEF SegChar
  <2> QED
    BY <2>1 DEF SegStates
<1>3. CASE c # "/" /\ open
  <2>1. Front(segs) \in Seq(Segs) /\ Last(segs) \in Segs
    BY <1>1, <1>3, FrontLast
  <2>2. Append(Last(segs), c) \in Segs
    BY <1>3, <2>1, AppendToSeg DEF Segs
  <2>3. PICK a : a = Append(Front(segs), Append(Last(segs), c))
    OBVIOUS
  <2>4. a \in Seq(Segs) /\ a # <<>>
    BY <2>1, <2>2, <2>3, AppendProperties
  <2>5. SegChar(r, c) = [segs |-> a, open |-> TRUE]
    BY <1>1, <1>3, <2>3 DEF SegChar
  <2> QED
    BY <2>4, <2>5 DEF SegStates
<1>4. CASE c # "/" /\ ~open
  <2>1. <<c>> = Append(<<>>, c) /\ <<>> \in Seq(Symbols) /\ ~HasSlash(<<>>)
    BY DEF HasSlash
  <2>2. <<c>> \in Segs
    BY <1>4, <2>1, AppendToSeg
  <2>3. PICK x \in Segs : x = <<c>>
    BY <2>2
  <2>4. PICK a : a = Append(segs, x)
    OBVIOUS
  <2>5. a \in Seq(Segs) /\ a # <<>>
    BY <2>4, AppendProperties
  <2>6. SegChar(r, c) = [segs |-> a, open |-> TRUE]
    BY <1>1, <1>4, <2>3, <2>4 DEF SegChar
  <2> QED
    BY <2>5, <2>6 DEF SegStates
<1> QED
  BY <1>1, <1>2, <1>3, <1>4

LEMMA SegStepIs ==
  /\ IsStep(SegStep, SegStates, Symbols) /\ NoSegs \in SegStates
  /\ \A r \in SegStates, c \in Symbols : SegStep[<<r, c>>] = SegChar(r, c)
<1>1. \A p \in SegStates \X Symbols : p[1] \in SegStates /\ p[2] \in Symbols
  OBVIOUS
<1>2. \A p \in SegStates \X Symbols : SegChar(p[1], p[2]) \in SegStates
  BY <1>1, SegCharType
<1>3. IsStep(SegStep, SegStates, Symbols)
  BY <1>2 DEF IsStep, SegStep
<1>4. NoSegs \in SegStates
  <2>1. <<>> \in Seq(Segs)
    OBVIOUS
  <2> QED
    BY <2>1 DEF NoSegs, SegStates
<1> QED
  BY <1>3, <1>4 DEF SegStep

\* What is found of path.
Found(path) == Fold(SegStep, NoSegs, path)
LEMMA SegmentsAre ==
  ASSUME NEW path \in Seq(Symbols)
  PROVE  Segments(path) = Found(path).segs /\ Found(path) \in SegStates
<1> DEFINE n == Len(path)
           R(f) == f = [k \in 0 .. n |-> IF k = 0 THEN NoSegs ELSE SegChar(f[k - 1], path[k])]
<1>1. n \in Nat /\ \A k \in 1 .. n : path[k] \in Symbols
  OBVIOUS
<1>2. IsStep(SegStep, SegStates, Symbols) /\ NoSegs \in SegStates
  BY SegStepIs
<1>3. PICK g : IsFold(g, SegStep, SegStates, NoSegs, path)
  BY <1>2, FoldIs
<1>4. Segments(path) = (CHOOSE f : R(f))[n].segs
  BY DEF Segments, NoSegs
<1> HIDE DEF n
<1>5. R(g)
  <2>1. /\ g \in [0 .. n -> SegStates] /\ g[0] = NoSegs
        /\ \A k \in 1 .. n : g[k] = SegStep[<<g[k - 1], path[k]>>]
    BY <1>3 DEF IsFold, n
  <2>2. \A k \in 1 .. n : k - 1 \in 0 .. n
    BY <1>1
  <2>3. \A k \in 1 .. n : g[k] = SegChar(g[k - 1], path[k])
    BY <1>1, <2>1, <2>2, SegStepIs
  <2> QED
    BY <1>1, <2>1, <2>3
<1> DEFINE f == CHOOSE f : R(f)
<1>6. R(f)
  BY <1>5
<1> HIDE DEF f
<1>7. f[0] = NoSegs /\ \A k \in 1 .. n : f[k] = SegChar(f[k - 1], path[k])
  BY <1>1, <1>6
<1>8. \A k \in 1 .. Len(path) : f[k - 1] \in SegStates => f[k] = SegStep[<<f[k - 1], path[k]>>]
  BY <1>1, <1>7, SegStepIs DEF n
<1>9. f[Len(path)] = Fold(SegStep, NoSegs, path)
  BY <1>2, <1>7, <1>8, FoldUnique
<1>10. Fold(SegStep, NoSegs, path) \in SegStates
  BY <1>2, FoldType
<1> QED
  BY <1>4, <1>9, <1>10 DEF Found, f, n

\* One more character.
LEMMA FoundAppend ==
  ASSUME NEW path \in Seq(Symbols), NEW c \in Symbols
  PROVE  Found(path) \in SegStates /\ Found(Append(path, c)) = SegChar(Found(path), c)
<1>1. IsStep(SegStep, SegStates, Symbols) /\ NoSegs \in SegStates
  BY SegStepIs
<1>2. Found(path) \in SegStates
  BY SegmentsAre
<1>3. Found(Append(path, c)) = SegStep[<<Found(path), c>>]
  BY <1>1, FoldAppend DEF Found
<1> QED
  BY <1>2, <1>3, SegStepIs

LEMMA FoundNone == Found(<<>>) = NoSegs
BY SegStepIs, FoldEmpty DEF Found

LEMMA SegmentsType ==
  ASSUME NEW s \in Seq(Symbols)
  PROVE  Segments(s) \in Seq(Segs) /\ Segments(s) \in Seq(Seq(Symbols))
<1>1. Segments(s) \in Seq(Segs)
  BY SegmentsAre DEF SegStates
<1>2. Segs \subseteq Seq(Symbols)
  BY DEF Segs
<1> QED
  BY <1>1, <1>2, SeqMonotonic

\* In a path that begins with a slash there is a slash before every segment.
LEMMA SegmentCount ==
  ASSUME NEW s \in Seq(Symbols), s # <<>>, s[1] = "/"
  PROVE  2 * Len(Segments(s)) <= Len(s)
<1> DEFINE Q(t) == /\ t # <<>> /\ t[1] = "/"
                   => 2 * Len(Found(t).segs) <= IF Found(t).open THEN Len(t) ELSE Len(t) - 1
           S == {t \in Seq(Symbols) : Q(t)}
<1>1. <<>> \in S
  OBVIOUS
<1>2. ASSUME NEW t \in Seq(Symbols), NEW c \in Symbols, t \in S PROVE Append(t, c) \in S
  <2>1. PICK u : u = Append(t, c)
    OBVIOUS
  <2>2. u \in Seq(Symbols) /\ Len(u) = Len(t) + 1 /\ Len(t) \in Nat /\ u # <<>>
        /\ (t = <<>> => u[1] = c) /\ (t # <<>> => u[1] = t[1])
    <3>1. t # <<>> => 1 \in 1 .. Len(t)
      BY EmptySeq
    <3>2. t = <<>> => Len(t) = 0
      OBVIOUS
    <3> QED
      BY <2>1, <3>1, <3>2, AppendProperties
  <2>3. PICK segs \in Seq(Segs), open \in BOOLEAN :
            Found(t) = [segs |-> segs, open |-> open] /\ (open => segs # <<>>)
    BY FoundAppend DEF SegStates
  <2>4. Found(u) = SegChar(Found(t), c)
    BY <2>1, FoundAppend
  <2>5. SUFFICES ASSUME u[1] = "/" PROVE 2 * Len(Found(u).segs) <= IF Found(u).open THEN Len(u) ELSE Len(u) - 1
    BY <2>1, <2>2
  <2>6. CASE t = <<>>
    <3>1. c = "/" /\ Len(t) = 0 /\ Found(t) = NoSegs
      BY <2>2, <2>5, <2>6, FoundNone
    <3>2. Found(u) = [segs |-> <<>>, open |-> FALSE]
      BY <2>4, <3>1 DEF SegChar, NoSegs
    <3>3. Len(Found(u).segs) = 0 /\ ~Found(u).open
      BY <3>2
    <3>4. Len(u) = 1
      BY <2>2, <3>1
    <3>5. 2 * Len(Found(u).segs) = 0
      BY <3>3
    <3> QED
      BY <3>3, <3>4, <3>5
  <2>7. CASE t # <<>>
    <3>1. 2 * Len(segs) <= (IF open THEN Len(t) ELSE Len(t) - 1) /\ Len(segs) \in Nat
      BY <1>2, <2>2, <2>3, <2>5, <2>7
    <3>2. CASE c = "/"
      <4>1. Found(u) = [segs |-> segs, open |-> FALSE]
        BY <2>3, <2>4, <3>2 DEF SegChar
      <4> QED
        BY <2>2, <3>1, <4>1
    <3>3. CASE c # "/" /\ open
      <4>1. Front(segs) \in Seq(Segs) /\ Len(Front(segs)) = Len(segs) - 1 /\ Last(segs) \in Segs
        BY <2>3, <3>3, FrontLast
      <4>2. Append(Last(segs), c) \in Segs
        BY <3>3, <4>1, AppendToSeg DEF Segs
      <4>3. Found(u) = [segs |-> Append(Front(segs), Append(Last(segs), c)), open |-> TRUE]
        BY <2>3, <2>4, <3>3 DEF SegChar
      <4>4. Len(Found(u).segs) = Len(segs) /\ Found(u).open
        BY <3>1, <4>1, <4>2, <4>3, AppendProperties
      <4> QED
        BY <2>2, <3>1, <3>3, <4>4
    <3>4. CASE c # "/" /\ ~open
      <4>1. PICK x : x = <<c>>
        OBVIOUS
      <4>2. Found(u) = [segs |-> Append(segs, x), open |-> TRUE]
        BY <2>3, <2>4, <3>4, <4>1 DEF SegChar
      <4>3. Len(Found(u).segs) = Len(segs) + 1 /\ Found(u).open
        BY <4>2
      <4> QED
        BY <2>2, <3>1, <3>4, <4>3
    <3>5. c = "/" \/ (c # "/" /\ open) \/ (c # "/" /\ ~open)
      BY <2>3
    <3> QED
      BY <3>2, <3>3, <3>4, <3>5
  <2> QED
    BY <2>6, <2>7
<1> HIDE DEF S
<1>3. Seq(Symbols) \subseteq S
  BY <1>1, <1>2, SeqInduction
<1>4. Q(s)
  BY <1>3 DEF S
<1>5. PICK segs \in Seq(Segs), open \in BOOLEAN : Found(s) = [segs |-> segs, open |-> open]
  BY SegmentsAre DEF SegStates
<1>6. Segments(s) = segs /\ Len(segs) \in Nat /\ Len(s) \in Nat
  BY <1>5, SegmentsAre
<1> QED
  BY <1>4, <1>5, <1>6

\* Dots take segments away, and never add one that was not in the path.
LEMMA TakeSegType ==
  ASSUME NEW X, NEW segs \in Seq(X), NEW seg \in X
  PROVE  TakeSeg(segs, seg) \in Seq(X)
<1>1. PopSeg(segs) \in Seq(X)
  <2>1. CASE Len(segs) > 0
    <3>1. 1 \in Nat \ {0} /\ Len(segs) - 1 \in Int /\ Len(segs) - 1 <= Len(segs)
      BY <2>1
    <3>2. SubSeq(segs, 1, Len(segs) - 1) \in Seq(X)
      BY <3>1, SubSeqIn
    <3> QED
      BY <2>1, <3>2 DEF PopSeg, Front
  <2>2. CASE ~(Len(segs) > 0)
    BY <2>2 DEF PopSeg
  <2> QED
    BY <2>1, <2>2
<1>2. Append(segs, seg) \in Seq(X)
  BY AppendProperties
<1>3. \/ TakeSeg(segs, seg) = segs \/ TakeSeg(segs, seg) = PopSeg(segs)
      \/ TakeSeg(segs, seg) = Append(segs, seg)
  BY DEF TakeSeg
<1> QED
  BY <1>1, <1>2, <1>3

\* Every segment with a slash behind it.
Ended(segs) == [i \in DOMAIN segs |-> segs[i] \o <<"/">>]

LEMMA EndedOne ==
  ASSUME NEW x \in Seq(Symbols)
  PROVE  /\ x \o <<"/">> \in Seq(Symbols) /\ x \o <<"/">> # <<>>
         /\ Length(x \o <<"/">>) = Length(x) + 1
<1>1. PICK b : b = <<"/">>
  OBVIOUS
<1>2. b \in Seq(Symbols) /\ Len(b) = 1 /\ Length(b) = 1
  <2>1. "/" \in Symbols /\ SymbolLen["/"] = 1
    BY ShellAssumption
  <2>2. Length(<<"/">>) = 1
    BY <2>1, LengthOne
  <2> QED
    BY <1>1, <2>1, <2>2
<1>3. x \o b \in Seq(Symbols) /\ Len(x \o b) = Len(x) + 1 /\ Len(x) \in Nat
  <2>1. b \in Seq(Symbols)
    BY <1>2
  <2>2. x \o b \in Seq(Symbols) /\ Len(x \o b) = Len(x) + Len(b)
    BY <2>1, ConcatProperties
  <2>3. Len(x) \in Nat
    OBVIOUS
  <2> QED
    BY <1>2, <2>2, <2>3
<1>4. Length(x \o b) = Length(x) + 1
  BY <1>2, LengthConcat
<1>5. x \o b # <<>>
  BY <1>3
<1> QED
  BY <1>1, <1>3, <1>4, <1>5

LEMMA EndedType ==
  ASSUME NEW segs \in Seq(Seq(Symbols))
  PROVE  /\ Ended(segs) \in Seq(Seq(Symbols)) /\ Len(Ended(segs)) = Len(segs)
         /\ Filled(Ended(segs), Len(segs), Symbols)
<1>1. PICK X : X = Seq(Symbols)
  OBVIOUS
<1>2. PICK n \in Nat : n = Len(segs)
  OBVIOUS
<1>3. \A i \in 1 .. n : segs[i] \in X
  BY <1>1, <1>2
<1>4. ASSUME NEW i \in 1 .. n
      PROVE  segs[i] \o <<"/">> \in X /\ segs[i] \o <<"/">> # <<>>
  BY <1>1, <1>3, EndedOne
<1>5. PICK e : e = Ended(segs)
  OBVIOUS
<1>6. e = [i \in 1 .. n |-> segs[i] \o <<"/">>]
  BY <1>2, <1>5 DEF Ended
<1>7. e \in [1 .. n -> X] /\ \A i \in 1 .. n : e[i] # <<>>
  BY <1>4, <1>6
<1>8. e \in Seq(X) /\ Len(e) = n
  BY <1>7
<1> QED
  BY <1>1, <1>2, <1>5, <1>7, <1>8 DEF Filled

LEMMA SlashedType ==
  ASSUME NEW segs \in Seq(Seq(Symbols))
  PROVE  /\ Slashed(segs) \in Seq(Symbols) /\ Len(Slashed(segs)) >= Len(segs)
         /\ segs = <<>> => Slashed(segs) = <<>>
<1>1. Slashed(segs) = FlattenSeq(Ended(segs))
  BY DEF Slashed, Ended
<1>2. CASE segs = <<>>
  <2>1. Ended(segs) = <<>>
    BY <1>2 DEF Ended
  <2>2. Slashed(segs) = <<>>
    BY <1>1, <2>1 DEF FlattenSeq
  <2>3. <<>> \in Seq(Symbols) /\ Len(<<>>) = 0
    OBVIOUS
  <2>4. Len(segs) = 0 /\ Len(Slashed(segs)) = 0
    BY <1>2, <2>2, <2>3
  <2> QED
    BY <2>2, <2>3, <2>4
<1>3. CASE segs # <<>>
  <2>1. PICK e : e = Ended(segs)
    OBVIOUS
  <2>2. e \in Seq(Seq(Symbols)) /\ Len(e) = Len(segs) /\ Filled(e, Len(e), Symbols)
    BY <2>1, EndedType
  <2>3. e # <<>>
    BY <1>3, <2>2, EmptySeq
  <2>4. FlattenSeq(e) \in Seq(Symbols) /\ Len(FlattenSeq(e)) >= Len(e)
    BY <2>2, <2>3, FlatType
  <2> QED
    BY <1>1, <1>3, <2>1, <2>2, <2>4
<1> QED
  BY <1>2, <1>3

LEMMA SlashedNext ==
  ASSUME NEW u \in Seq(Seq(Symbols)), NEW x \in Seq(Symbols)
  PROVE  Slashed(Append(u, x)) = Slashed(u) \o (x \o <<"/">>)
<1>1. PICK y : y = x \o <<"/">>
  OBVIOUS
<1>2. y \in Seq(Symbols)
  BY <1>1, EndedOne
<1>3. PICK e : e = Ended(u)
  OBVIOUS
<1>4. e \in Seq(Seq(Symbols)) /\ Len(e) = Len(u) /\ Slashed(u) = FlattenSeq(e)
  BY <1>3, EndedType DEF Slashed, Ended
<1>5. Slashed(Append(u, x)) = FlattenSeq(Append(e, y))
  <2>1. PICK n \in Nat : n = Len(u)
    OBVIOUS
  <2>2. PICK v : v = Append(u, x)
    OBVIOUS
  <2>3. PICK w : w = Append(e, y)
    OBVIOUS
  <2>4. /\ DOMAIN v = 1 .. n + 1 /\ v[n + 1] = x
        /\ \A i \in 1 .. n : v[i] = u[i]
    <3>1. v \in Seq(Seq(Symbols)) /\ Len(v) = n + 1 /\ v[n + 1] = x /\ \A i \in 1 .. n : v[i] = u[i]
      BY <2>1, <2>2, AppendProperties
    <3> QED
      BY <3>1
  <2>5. /\ w \in [1 .. n + 1 -> Seq(Symbols)] /\ w[n + 1] = y
        /\ \A i \in 1 .. n : w[i] = e[i]
    <3>1. PICK X : X = Seq(Symbols)
      OBVIOUS
    <3>2. e \in Seq(X) /\ y \in X /\ Len(e) = n
      BY <1>2, <1>4, <2>1, <3>1
    <3>3. w \in Seq(X) /\ Len(w) = n + 1 /\ w[n + 1] = y /\ \A i \in 1 .. n : w[i] = e[i]
      BY <2>3, <3>2, AppendProperties
    <3>4. w \in [1 .. n + 1 -> X]
      BY <3>3
    <3> QED
      BY <3>1, <3>3, <3>4
  <2>6. \A i \in 1 .. n : e[i] = u[i] \o <<"/">>
    BY <1>3, <2>1 DEF Ended
  <2>7. \A i \in 1 .. n + 1 : w[i] = v[i] \o <<"/">>
    <3>1. \A i \in 1 .. n + 1 : i \in 1 .. n \/ i = n + 1
      OBVIOUS
    <3> QED
      BY <1>1, <2>4, <2>5, <2>6, <3>1
  <2>8. Ended(v) = w
    <3>1. w = [i \in 1 .. n + 1 |-> w[i]]
      BY <2>5
    <3>2. [i \in 1 .. n + 1 |-> w[i]] = [i \in 1 .. n + 1 |-> v[i] \o <<"/">>]
      BY <2>7, Zenon
    <3>3. Ended(v) = [i \in 1 .. n + 1 |-> v[i] \o <<"/">>]
      BY <2>4 DEF Ended
    <3> QED
      BY <3>1, <3>2, <3>3, Zenon
  <2> QED
    BY <2>2, <2>3, <2>8 DEF Slashed, Ended
<1>6. CASE u = <<>>
  <2>1. e = <<>>
    BY <1>4, <1>6, EmptySeq
  <2>2. Append(e, y) = <<y>>
    BY <2>1
  <2>3. Slashed(Append(u, x)) = y
    BY <1>5, <2>2, FlatOne
  <2>4. Slashed(u) \o y = y
    BY <1>2, <1>6, SlashedType, ConcatEmptySeq
  <2> QED
    BY <1>1, <2>3, <2>4
<1>7. CASE u # <<>>
  <2>1. e # <<>>
    BY <1>4, <1>7, EmptySeq
  <2>2. FlattenSeq(Append(e, y)) = FlattenSeq(e) \o y
    BY <1>2, <1>4, <2>1, FlatAppend
  <2> QED
    BY <1>1, <1>4, <1>5, <2>2
<1> QED
  BY <1>6, <1>7

LEMMA SlashedAppend ==
  ASSUME NEW u \in Seq(Seq(Symbols)), NEW x \in Seq(Symbols)
  PROVE  Length(Slashed(Append(u, x))) = Length(Slashed(u)) + (Length(x) + 1)
<1>1. PICK y \in Seq(Symbols) : y = x \o <<"/">> /\ Length(y) = Length(x) + 1
  BY EndedOne
<1>2. PICK s \in Seq(Symbols) : s = Slashed(u)
  BY SlashedType
<1>3. Slashed(Append(u, x)) = s \o y
  BY <1>1, <1>2, SlashedNext
<1> QED
  BY <1>1, <1>2, <1>3, LengthConcat

\* The first n elements are the first n - 1 and the n-th.
LEMMA FirstAndNext ==
  ASSUME NEW S, NEW s \in Seq(S), NEW n \in 1 .. Len(s)
  PROVE  SubSeq(s, 1, n) = Append(SubSeq(s, 1, n - 1), s[n])
<1>1. PICK a : a = SubSeq(s, 1, n)
  OBVIOUS
<1>2. PICK b : b = SubSeq(s, 1, n - 1)
  OBVIOUS
<1>3. a \in Seq(S) /\ Len(a) = n /\ \A i \in 1 .. n : a[i] = s[i]
  <2>1. n \in 0 .. Len(s)
    OBVIOUS
  <2> QED
    BY <1>1, <2>1
<1>4. b \in Seq(S) /\ Len(b) = n - 1 /\ \A i \in 1 .. n - 1 : b[i] = s[i]
  <2>1. n - 1 \in 0 .. Len(s)
    OBVIOUS
  <2> QED
    BY <1>2, <2>1
<1>5. PICK c : c = Append(b, s[n])
  OBVIOUS
<1>6. c \in Seq(S) /\ Len(c) = n /\ c[n] = s[n] /\ \A i \in 1 .. n - 1 : c[i] = s[i]
  <2>1. s[n] \in S
    OBVIOUS
  <2>2. c \in Seq(S) /\ Len(c) = Len(b) + 1 /\ c[Len(b) + 1] = s[n]
        /\ \A i \in 1 .. Len(b) : c[i] = b[i]
    BY <1>4, <1>5, <2>1, AppendProperties
  <2> QED
    BY <1>4, <2>2
<1>7. \A i \in 1 .. n : a[i] = c[i]
  BY <1>3, <1>6
<1>8. a = c
  BY <1>3, <1>6, <1>7, SeqEqual
<1> QED
  BY <1>1, <1>2, <1>5, <1>8

\* A symbol less is not longer.
LEMMA LengthFront ==
  ASSUME NEW s \in Seq(Symbols), s # <<>>
  PROVE  Front(s) \in Seq(Symbols) /\ Length(Front(s)) <= Length(s)
<1>1. PICK n \in Nat \ {0} : n = Len(s)
  BY EmptySeq
<1>2. n \in 1 .. Len(s) /\ s[n] \in Symbols /\ SubSeq(s, 1, n) = s
  BY <1>1, SubSeqFull
<1>3. PICK f : f = Front(s)
  OBVIOUS
<1>4. f \in Seq(Symbols)
  <2>1. 1 \in Nat \ {0} /\ n - 1 \in Int /\ n - 1 <= Len(s)
    BY <1>1
  <2>2. SubSeq(s, 1, n - 1) \in Seq(Symbols)
    BY <2>1, SubSeqIn
  <2> QED
    BY <1>1, <1>3, <2>2 DEF Front
<1>5. PICK b : b = <<s[n]>>
  OBVIOUS
<1>6. b \in Seq(Symbols) /\ s = f \o b
  <2>1. s = Append(f, s[n])
    BY <1>1, <1>2, <1>3, FirstAndNext DEF Front
  <2>2. Append(f, s[n]) = f \o <<s[n]>>
    BY <1>2, <1>4, AppendIsConcat
  <2> QED
    BY <1>2, <1>5, <2>1, <2>2
<1>7. Length(f \o b) = Length(f) + Length(b)
  BY <1>4, <1>6, LengthConcat
<1>8. Length(f) \in Nat /\ Length(b) \in Nat
  BY <1>4, <1>6, LengthType
<1>9. Length(f) <= Length(f \o b)
  BY <1>7, <1>8
<1> QED
  BY <1>3, <1>4, <1>6, <1>9

\* A beginning of the segments of which every segment fits.
AllFit(segs, n) ==
    \A i \in 1 .. n : FitsBehind(1 + Length(Slashed(SubSeq(segs, 1, i - 1))), segs[i])

LEMMA FittingType ==
  ASSUME NEW segs \in Seq(Seq(Symbols))
  PROVE  /\ Fitting(segs) \in 0 .. Len(segs) /\ AllFit(segs, Fitting(segs))
         /\ Fitting(segs) < Len(segs) =>
                ~FitsBehind(1 + Length(Slashed(SubSeq(segs, 1, Fitting(segs)))), segs[Fitting(segs) + 1])
<1> DEFINE N == Len(segs)
           T == {i \in Nat : FitsBehind(1 + Length(Slashed(SubSeq(segs, 1, i - 1))), segs[i])}
           F(n) == /\ \A i \in 1 .. n :
                         FitsBehind(1 + Length(Slashed(SubSeq(segs, 1, i - 1))), segs[i])
                   /\ n < N => ~FitsBehind(1 + Length(Slashed(SubSeq(segs, 1, n))), segs[n + 1])
<1>1. PICK n \in 0 .. N : (\A i \in 1 .. n : i \in T) /\ (n < N => n + 1 \notin T)
  <2>1. N \in Nat
    OBVIOUS
  <2> HIDE DEF T, N
  <2> QED
    BY <2>1, FirstMiss
<1>2. F(n)
  <2>1. n \in Nat /\ (n + 1) - 1 = n /\ n + 1 \in Nat
    OBVIOUS
  <2>2. n + 1 \in T <=> FitsBehind(1 + Length(Slashed(SubSeq(segs, 1, n))), segs[n + 1])
    BY <2>1
  <2>3. \A i \in 1 .. n : FitsBehind(1 + Length(Slashed(SubSeq(segs, 1, i - 1))), segs[i])
    BY <1>1
  <2> QED
    BY <1>1, <2>2, <2>3
<1>3. Fitting(segs) = CHOOSE m \in 0 .. N : F(m)
  BY DEF Fitting
<1> HIDE DEF F, N
<1>4. Fitting(segs) \in 0 .. N /\ F(Fitting(segs))
  BY <1>2, <1>3
<1> QED
  BY <1>4 DEF F, N, AllFit

\* What path_join writes behind the first slash leaves room for it and for the
\* zero at the end.
LEMMA FittingFits ==
  ASSUME NEW segs \in Seq(Seq(Symbols)), NEW n \in 0 .. Len(segs), AllFit(segs, n)
  PROVE  /\ Slashed(SubSeq(segs, 1, n)) \in Seq(Symbols)
         /\ 1 + Length(Slashed(SubSeq(segs, 1, n))) < PathMax
<1>1. PICK X : X = Seq(Symbols)
  OBVIOUS
<1>2. segs \in Seq(X)
  BY <1>1
<1>3. SubSeq(segs, 1, n) \in Seq(X)
  BY <1>2
<1>4. Slashed(SubSeq(segs, 1, n)) \in Seq(Symbols)
  BY <1>1, <1>3, SlashedType
<1>5. CASE n = 0
  <2>1. SubSeq(segs, 1, n) = <<>>
    BY <1>2, <1>5
  <2>2. <<>> \in Seq(Seq(Symbols))
    OBVIOUS
  <2>3. Slashed(<<>>) = <<>>
    BY <2>2, SlashedType
  <2>4. Length(Slashed(SubSeq(segs, 1, n))) = 0
    BY <2>1, <2>3, LengthNone
  <2>5. 1 < PathMax
    BY ShellAssumption
  <2> QED
    BY <1>4, <2>4, <2>5
<1>6. CASE n # 0
  <2>1. PICK u : u = SubSeq(segs, 1, n - 1)
    OBVIOUS
  <2>2. n - 1 \in 0 .. Len(segs) /\ n \in 1 .. Len(segs) /\ n \in 1 .. n
    BY <1>6
  <2>3. u \in Seq(X) /\ segs[n] \in X
    BY <1>2, <2>1, <2>2
  <2>4. SubSeq(segs, 1, n) = Append(u, segs[n])
    BY <1>2, <2>1, <2>2, FirstAndNext
  <2>5. Length(Slashed(Append(u, segs[n]))) = Length(Slashed(u)) + (Length(segs[n]) + 1)
    BY <1>1, <2>3, SlashedAppend
  <2>6. (1 + Length(Slashed(u))) + Length(segs[n]) + 2 < PathMax
    <3>1. FitsBehind(1 + Length(Slashed(SubSeq(segs, 1, n - 1))), segs[n])
      BY <2>2 DEF AllFit
    <3> QED
      BY <2>1, <3>1 DEF FitsBehind
  <2>7. Length(Slashed(u)) \in Nat /\ Length(segs[n]) \in Nat /\ PathMax \in Nat
    <3>1. Slashed(u) \in Seq(Symbols)
      BY <1>1, <2>3, SlashedType
    <3>2. Length(Slashed(u)) \in Nat
      BY <3>1, LengthType
    <3>3. Length(segs[n]) \in Nat
      BY <1>1, <2>3, LengthType
    <3> QED
      BY <3>2, <3>3, ShellAssumption
  <2>8. 1 + (Length(Slashed(u)) + (Length(segs[n]) + 1)) < PathMax
    BY <2>6, <2>7
  <2> QED
    BY <1>4, <2>4, <2>5, <2>8
<1> QED
  BY <1>5, <1>6

LEMMA JoinedType ==
  ASSUME NEW base \in Seq(Symbols), NEW in \in Seq(Symbols)
  PROVE  Joined(base, in) \in Seq(Symbols)
<1>1. PICK b : b = <<"/">>
  OBVIOUS
<1>2. b \in Seq(Symbols)
  BY <1>1, ShellAssumption
<1>3. base \o in \in Seq(Symbols) /\ base \o b \in Seq(Symbols)
  BY <1>2, ConcatProperties
<1>4. (base \o b) \o in \in Seq(Symbols)
  BY <1>3, ConcatProperties
<1>5. \/ Joined(base, in) = in \/ Joined(base, in) = base \o in
      \/ Joined(base, in) = (base \o b) \o in
  BY <1>1 DEF Joined
<1> QED
  BY <1>3, <1>4, <1>5

\* A path as path_join leaves it in a buffer.
Resolved(path) == path \in Seq(Symbols) /\ path # <<>> /\ path[1] = "/" /\ Length(path) < PathMax

-----------------------------------------------------------------------------
(* What path_join makes of a path *)

LEMMA FrontAppend ==
  ASSUME NEW X, NEW s \in Seq(X), NEW x \in X
  PROVE  /\ Append(s, x) \in Seq(X) /\ Append(s, x) # <<>>
         /\ Front(Append(s, x)) = s /\ Last(Append(s, x)) = x
<1>1. PICK t : t = Append(s, x)
  OBVIOUS
<1>2. PICK n \in Nat : n = Len(s)
  OBVIOUS
<1>3. t \in Seq(X) /\ t # <<>> /\ Len(t) = n + 1 /\ t[n + 1] = x /\ \A i \in 1 .. n : t[i] = s[i]
  BY <1>1, <1>2, AppendProperties
<1>4. /\ Front(t) \in Seq(X) /\ Len(Front(t)) = Len(t) - 1
      /\ \A i \in 1 .. Len(t) - 1 : Front(t)[i] = t[i]
  BY <1>3, FrontLast
<1>5. PICK f : f = Front(t)
  OBVIOUS
<1>6. f \in Seq(X) /\ Len(f) = n /\ \A i \in 1 .. n : f[i] = s[i]
  BY <1>2, <1>3, <1>4, <1>5
<1>7. f = s
  BY <1>2, <1>6, SeqEqual
<1>8. Last(t) = x
  BY <1>3 DEF Last
<1> QED
  BY <1>1, <1>3, <1>5, <1>7, <1>8

\* A path to which a segment can be added.
Closed(u) == u = <<>> \/ Last(u) = "/"

LEMMA FoundClosed ==
  ASSUME NEW u \in Seq(Symbols)
  PROVE  /\ Append(u, "/") \in Seq(Symbols) /\ Closed(Append(u, "/"))
         /\ Segments(Append(u, "/")) = Segments(u)
         /\ Closed(u) => Found(u) = [segs |-> Segments(u), open |-> FALSE]
<1>1. "/" \in Symbols
  BY ShellAssumption
<1>2. \A w \in Seq(Symbols) : Found(Append(w, "/")) = [segs |-> Segments(w), open |-> FALSE]
  <2> SUFFICES ASSUME NEW w \in Seq(Symbols)
               PROVE  Found(Append(w, "/")) = [segs |-> Segments(w), open |-> FALSE]
    OBVIOUS
  <2>1. Found(Append(w, "/")) = SegChar(Found(w), "/")
    BY <1>1, FoundAppend
  <2>2. Segments(w) = Found(w).segs
    BY SegmentsAre
  <2> QED
    BY <2>1, <2>2 DEF SegChar
<1>3. PICK v : v = Append(u, "/")
  OBVIOUS
<1>4. v \in Seq(Symbols) /\ Last(v) = "/" /\ Found(v) = [segs |-> Segments(u), open |-> FALSE]
  BY <1>1, <1>2, <1>3, FrontAppend
<1>5. Segments(v) = Segments(u)
  BY <1>4, SegmentsAre
<1>6. ASSUME u = <<>> PROVE Found(u) = [segs |-> Segments(u), open |-> FALSE]
  <2>1. Found(u) = NoSegs /\ Segments(u) = Found(u).segs
    BY <1>6, FoundNone, SegmentsAre
  <2> QED
    BY <2>1 DEF NoSegs
<1>7. ASSUME u # <<>>, Last(u) = "/" PROVE Found(u) = [segs |-> Segments(u), open |-> FALSE]
  <2>1. PICK w \in Seq(Symbols) : u = Append(w, "/")
    BY <1>7, FrontLast
  <2>2. Found(u) = [segs |-> Segments(w), open |-> FALSE]
    BY <1>2, <2>1
  <2>3. Segments(u) = Segments(w)
    BY <2>2, SegmentsAre
  <2> QED
    BY <2>2, <2>3
<1> QED
  BY <1>3, <1>4, <1>5, <1>6, <1>7 DEF Closed

\* Concatenation of lines is associative.
LEMMA Reassociate ==
  ASSUME NEW a \in Seq(Symbols), NEW b \in Seq(Symbols), NEW c \in Seq(Symbols)
  PROVE  (a \o b) \o c = a \o (b \o c)
  BY ConcatAssociative, SMTT(60)

LEMMA ConcatFront ==
  ASSUME NEW X, NEW a \in Seq(X), NEW b \in Seq(X), b # <<>>
  PROVE  /\ a \o b \in Seq(X) /\ a \o b # <<>> /\ Front(b) \in Seq(X) /\ Last(b) \in X
         /\ Front(a \o b) = a \o Front(b) /\ Last(a \o b) = Last(b)
<1>1. PICK f \in Seq(X), z \in X : f = Front(b) /\ z = Last(b) /\ b = Append(f, z)
  BY FrontLast
<1>2. PICK c : c = a \o f
  OBVIOUS
<1>3. c \in Seq(X)
  BY <1>2, ConcatProperties
<1>4. a \o b = Append(c, z)
  BY <1>1, <1>2, ConcatAppend
<1>5. /\ Append(c, z) \in Seq(X) /\ Append(c, z) # <<>>
      /\ Front(Append(c, z)) = c /\ Last(Append(c, z)) = z
  BY <1>3, FrontAppend
<1> QED
  BY <1>1, <1>2, <1>4, <1>5

\* Behind a slash, the segments of what follows are added.
LEMMA FoundConcat ==
  ASSUME NEW u \in Seq(Symbols), Closed(u), NEW v \in Seq(Symbols)
  PROVE  /\ u \o v \in Seq(Symbols) /\ Segments(u) \in Seq(Segs)
         /\ Found(u \o v) = [segs |-> Segments(u) \o Found(v).segs, open |-> Found(v).open]
<1>1. PICK A \in Seq(Segs) : A = Segments(u)
  BY SegmentsType
<1> DEFINE S == {w \in Seq(Symbols) : /\ u \o w \in Seq(Symbols)
                                     /\ Found(u \o w) = [segs |-> A \o Found(w).segs, open |-> Found(w).open]}
<1>2. <<>> \in S
  <2>1. u \o <<>> = u /\ A \o <<>> = A /\ <<>> \in Seq(Symbols)
    BY ConcatEmptySeq
  <2>2. Found(u) = [segs |-> A, open |-> FALSE] /\ Found(<<>>) = [segs |-> <<>>, open |-> FALSE]
    BY <1>1, FoundClosed, FoundNone DEF NoSegs
  <2>3. Found(<<>>).segs = <<>> /\ Found(<<>>).open = FALSE
    BY <2>2
  <2>4. Found(u \o <<>>) = [segs |-> A \o Found(<<>>).segs, open |-> Found(<<>>).open]
    BY <2>1, <2>2, <2>3
  <2>5. u \o <<>> \in Seq(Symbols)
    BY <2>1
  <2> QED
    BY <2>1, <2>4, <2>5
<1>3. ASSUME NEW w \in Seq(Symbols), NEW c \in Symbols, w \in S PROVE Append(w, c) \in S
  <2>1. PICK B \in Seq(Segs), o \in BOOLEAN : Found(w) = [segs |-> B, open |-> o] /\ (o => B # <<>>)
    BY FoundAppend DEF SegStates
  <2>0. PICK x : x = u \o w
    OBVIOUS
  <2>8. Found(x) = [segs |-> A \o Found(w).segs, open |-> Found(w).open] /\ x \in Seq(Symbols)
    BY <1>3, <2>0
  <2>2. x \in Seq(Symbols) /\ x = u \o w /\ Found(x) = [segs |-> A \o B, open |-> o]
    BY <2>0, <2>1, <2>8
  <2>3. u \o Append(w, c) = Append(x, c) /\ Append(x, c) \in Seq(Symbols)
    BY <2>2, ConcatAppend, AppendProperties
  <2>4. Found(Append(x, c)) = SegChar(Found(x), c) /\ Found(Append(w, c)) = SegChar(Found(w), c)
    BY <2>2, FoundAppend
  <2>5. PICK r : r = Found(Append(w, c))
    OBVIOUS
  <2>6. Found(Append(x, c)) = [segs |-> A \o r.segs, open |-> r.open]
    <3>1. CASE c = "/"
      BY <2>1, <2>2, <2>4, <2>5, <3>1 DEF SegChar
    <3>2. CASE c # "/" /\ ~o
      <4>1. <<c>> \in Segs
        <5>1. <<c>> = Append(<<>>, c) /\ <<>> \in Seq(Symbols) /\ ~HasSlash(<<>>)
          BY DEF HasSlash
        <5> QED
          BY <3>2, <5>1, AppendToSeg
      <4>2. PICK y \in Segs : y = <<c>>
        BY <4>1
      <4>3. A \o Append(B, y) = Append(A \o B, y)
        BY ConcatAppend
      <4>4. r = [segs |-> Append(B, y), open |-> TRUE]
        BY <2>1, <2>4, <2>5, <3>2, <4>2 DEF SegChar
      <4>5. Found(Append(x, c)) = [segs |-> Append(A \o B, y), open |-> TRUE]
        BY <2>2, <2>4, <3>2, <4>2 DEF SegChar
      <4> QED
        BY <4>3, <4>4, <4>5
    <3>3. CASE c # "/" /\ o
      <4>1. B # <<>>
        BY <2>1, <3>3
      <4>2. PICK f \in Seq(Segs), z \in Segs : f = Front(B) /\ z = Last(B)
        BY <4>1, FrontLast
      <4>3. Front(A \o B) = A \o f /\ Last(A \o B) = z
        BY <4>1, <4>2, ConcatFront, SMTT(60)
      <4>4. PICK y \in Segs : y = Append(z, c)
        BY <3>3, AppendToSeg DEF Segs
      <4>5. A \o Append(f, y) = Append(A \o f, y)
        BY ConcatAppend
      <4>6. r = [segs |-> Append(f, y), open |-> TRUE]
        BY <2>1, <2>4, <2>5, <3>3, <4>2, <4>4 DEF SegChar
      <4>7. Found(Append(x, c)) = [segs |-> Append(A \o f, y), open |-> TRUE]
        <5>1. PICK AB : AB = A \o B
          OBVIOUS
        <5>2. Found(x) = [segs |-> AB, open |-> TRUE] /\ Front(AB) = A \o f /\ Last(AB) = z
          BY <2>2, <3>3, <4>3, <5>1
        <5>3. PICK g : g = Append(Front(AB), Append(Last(AB), c))
          OBVIOUS
        <5>5. PICK b : b = [segs |-> AB, open |-> TRUE]
          OBVIOUS
        <5>6. b.segs = AB /\ b.open /\ b = Found(x)
          BY <5>2, <5>5
        <5>4. SegChar(Found(x), c) = [segs |-> g, open |-> TRUE]
          BY <3>3, <5>3, <5>6 DEF SegChar
        <5> QED
          BY <2>4, <4>4, <5>2, <5>3, <5>4
      <4> QED
        BY <4>5, <4>6, <4>7
    <3>4. c = "/" \/ (c # "/" /\ o) \/ (c # "/" /\ ~o)
      BY <2>1
    <3> QED
      BY <3>1, <3>2, <3>3, <3>4
  <2>7. Append(w, c) \in Seq(Symbols)
    BY AppendProperties
  <2> QED
    BY <2>3, <2>5, <2>6, <2>7
<1> HIDE DEF S
<1>4. v \in S
  BY <1>2, <1>3, SeqInduction
<1> QED
  BY <1>1, <1>4 DEF S

LEMMA SegmentsConcat ==
  ASSUME NEW u \in Seq(Symbols), Closed(u), NEW v \in Seq(Symbols)
  PROVE  u \o v \in Seq(Symbols) /\ Segments(u \o v) = Segments(u) \o Segments(v)
<1>1. PICK w \in Seq(Symbols) : w = u \o v
  BY FoundConcat
<1>2. Found(w) = [segs |-> Segments(u) \o Found(v).segs, open |-> Found(v).open]
  BY <1>1, FoundConcat
<1>3. Segments(w) = Found(w).segs /\ Segments(v) = Found(v).segs
  BY SegmentsAre
<1> QED
  BY <1>1, <1>2, <1>3

\* A segment alone.
LEMMA SegmentsOne ==
  ASSUME NEW x \in Segs
  PROVE  Segments(x) = <<x>>
<1> DEFINE S == {w \in Seq(Symbols) : w # <<>> /\ ~HasSlash(w) => Found(w) = [segs |-> <<w>>, open |-> TRUE]}
<1>1. <<>> \in S
  OBVIOUS
<1>2. ASSUME NEW w \in Seq(Symbols), NEW c \in Symbols, w \in S PROVE Append(w, c) \in S
  <2>1. PICK v \in Seq(Symbols) : v = Append(w, c)
    BY AppendProperties
  <2>2. SUFFICES ASSUME ~HasSlash(v) PROVE Found(v) = [segs |-> <<v>>, open |-> TRUE]
    BY <2>1
  <2>3. c # "/" /\ ~HasSlash(w)
    <3>1. PICK n \in Nat : n = Len(w)
      OBVIOUS
    <3>2. Len(v) = n + 1 /\ v[n + 1] = c /\ \A i \in 1 .. n : v[i] = w[i]
      BY <2>1, <3>1, AppendProperties
    <3>3. n + 1 \in 1 .. n + 1 /\ \A i \in 1 .. n : i \in 1 .. n + 1
      OBVIOUS
    <3> QED
      BY <2>2, <3>1, <3>2, <3>3 DEF HasSlash
  <2>4. Found(v) = SegChar(Found(w), c)
    BY <2>1, FoundAppend
  <2>5. CASE w = <<>>
    <3>1. v = <<c>> /\ Found(w) = [segs |-> <<>>, open |-> FALSE]
      BY <2>1, <2>5, FoundNone DEF NoSegs
    <3>2. Found(v) = [segs |-> Append(<<>>, <<c>>), open |-> TRUE]
      BY <2>3, <2>4, <3>1 DEF SegChar
    <3> QED
      BY <3>1, <3>2
  <2>6. CASE w # <<>>
    <3>1. Found(w) = [segs |-> <<w>>, open |-> TRUE]
      BY <1>2, <2>3, <2>6
    <3>2. Front(<<w>>) = <<>> /\ Last(<<w>>) = w
      <4>1. PICK X : X = Seq(Symbols)
        OBVIOUS
      <4>2. <<w>> = Append(<<>>, w) /\ <<>> \in Seq(X) /\ w \in X
        BY <4>1
      <4> QED
        BY <4>2, FrontAppend, ZenonT(60)
    <3>4. PICK W : W = <<w>>
      OBVIOUS
    <3>3. Found(v) = [segs |-> Append(<<>>, v), open |-> TRUE]
      <4>1. Found(w) = [segs |-> W, open |-> TRUE] /\ Front(W) = <<>> /\ Last(W) = w
        BY <3>1, <3>2, <3>4
      <4> QED
        BY <2>1, <2>3, <2>4, <4>1 DEF SegChar
    <3> QED
      BY <3>3
  <2> QED
    BY <2>5, <2>6
<1> HIDE DEF S
<1>3. x \in S
  <2>1. Seq(Symbols) \subseteq S
    BY <1>1, <1>2, SeqInduction
  <2> QED
    BY <2>1 DEF Segs
<1>4. Found(x) = [segs |-> <<x>>, open |-> TRUE]
  BY <1>3 DEF S, Segs
<1> QED
  BY <1>4, SegmentsAre DEF Segs

\* One more segment, and a slash behind it.
LEMMA SegmentsEnded ==
  ASSUME NEW u \in Seq(Symbols), Closed(u), NEW x \in Segs
  PROVE  /\ u \o x \in Seq(Symbols) /\ Segments(u \o x) = Append(Segments(u), x)
         /\ (u \o x) \o <<"/">> \in Seq(Symbols) /\ Closed((u \o x) \o <<"/">>)
         /\ Segments((u \o x) \o <<"/">>) = Append(Segments(u), x)
<1>1. x \in Seq(Symbols) /\ Segments(x) = <<x>>
  BY SegmentsOne DEF Segs
<1>2. PICK A \in Seq(Segs) : A = Segments(u)
  BY SegmentsType
<1>3. PICK w \in Seq(Symbols) : w = u \o x
  BY <1>1, ConcatProperties
<1>4. Segments(w) = A \o <<x>>
  <2>1. Segments(w) = Segments(u) \o Segments(x)
    BY <1>1, <1>3, SegmentsConcat
  <2> QED
    BY <1>1, <1>2, <2>1
<1>5. A \o <<x>> = Append(A, x)
  BY AppendIsConcat
<1>6. w \o <<"/">> = Append(w, "/")
  BY ShellAssumption, AppendIsConcat
<1>7. /\ Append(w, "/") \in Seq(Symbols) /\ Closed(Append(w, "/"))
      /\ Segments(Append(w, "/")) = Segments(w)
  BY FoundClosed
<1> QED
  BY <1>2, <1>3, <1>4, <1>5, <1>6, <1>7

\* How path_join writes segments, with a slash behind the last one if others
\* did not fit.
OpenPath(segs) == <<"/">> \o Slashed(segs)
PathOf(segs) == <<"/">> \o (IF segs = <<>> THEN <<>> ELSE Front(Slashed(segs)))

LEMMA SegsAreSymbols == Seq(Segs) \subseteq Seq(Seq(Symbols))
<1>1. Segs \subseteq Seq(Symbols)
  BY DEF Segs
<1> QED
  BY <1>1, SeqMonotonic

LEMMA OpenPathNext ==
  ASSUME NEW segs \in Seq(Segs), NEW x \in Segs
  PROVE  /\ OpenPath(segs) \in Seq(Symbols)
         /\ PathOf(Append(segs, x)) = OpenPath(segs) \o x
         /\ OpenPath(Append(segs, x)) = (OpenPath(segs) \o x) \o <<"/">>
<1>1. PICK b : b = <<"/">>
  OBVIOUS
<1>2. b \in Seq(Symbols)
  BY <1>1, ShellAssumption
<1>3. segs \in Seq(Seq(Symbols)) /\ x \in Seq(Symbols)
  BY SegsAreSymbols DEF Segs
<1>4. PICK s \in Seq(Symbols) : s = Slashed(segs)
  BY <1>3, SlashedType
<1>5. PICK t : t = Slashed(Append(segs, x))
  OBVIOUS
<1>6. t = s \o (x \o b)
  BY <1>1, <1>3, <1>4, <1>5, SlashedNext
<1>7. PICK w \in Seq(Symbols) : w = s \o x
  BY <1>3, ConcatProperties
<1>8. t = w \o b
  BY <1>2, <1>3, <1>6, <1>7, Reassociate
<1>9. w \o b = Append(w, "/")
  BY <1>1, ShellAssumption, AppendIsConcat
<1>10. Front(t) = w
  BY <1>8, <1>9, ShellAssumption, FrontAppend
<1>11. b \o t = ((b \o s) \o x) \o b /\ b \o w = (b \o s) \o x
  <2>1. PICK c \in Seq(Symbols) : c = b \o s
    BY <1>2, ConcatProperties
  <2>2. b \o w = c \o x
    BY <1>2, <1>3, <1>7, <2>1, Reassociate, ZenonT(60)
  <2>3. b \o (w \o b) = (b \o w) \o b
    BY <1>2, Reassociate
  <2> QED
    BY <1>8, <2>1, <2>2, <2>3
<1>12. Append(segs, x) # <<>>
  BY <1>3, FrontAppend
<1>13. b \o s \in Seq(Symbols)
  BY <1>2, ConcatProperties
<1> QED
  BY <1>1, <1>4, <1>5, <1>10, <1>11, <1>12, <1>13 DEF OpenPath, PathOf

\* What is written of segments has these segments.
LEMMA RoundTrip ==
  ASSUME NEW segs \in Seq(Segs)
  PROVE  /\ OpenPath(segs) \in Seq(Symbols) /\ Closed(OpenPath(segs))
         /\ Segments(OpenPath(segs)) = segs
         /\ PathOf(segs) \in Seq(Symbols) /\ Segments(PathOf(segs)) = segs
<1> DEFINE S == {a \in Seq(Segs) : /\ OpenPath(a) \in Seq(Symbols) /\ Closed(OpenPath(a))
                                  /\ Segments(OpenPath(a)) = a
                                  /\ PathOf(a) \in Seq(Symbols) /\ Segments(PathOf(a)) = a}
<1>1. <<>> \in S
  <2>1. PICK b : b = <<"/">>
    OBVIOUS
  <2>2. b \in Seq(Symbols) /\ b \o <<>> = b /\ b = Append(<<>>, "/") /\ <<>> \in Seq(Symbols)
    BY <2>1, ShellAssumption, ConcatEmptySeq
  <2>3. Slashed(<<>>) = <<>>
    <3>1. <<>> \in Seq(Seq(Symbols))
      OBVIOUS
    <3> QED
      BY <3>1, SlashedType
  <2>4. OpenPath(<<>>) = b /\ PathOf(<<>>) = b
    BY <2>1, <2>2, <2>3 DEF OpenPath, PathOf
  <2>5. Closed(b) /\ Segments(b) = Segments(<<>>)
    BY <2>2, FoundClosed
  <2>6. Segments(<<>>) = <<>>
    <3>1. Found(<<>>) = [segs |-> <<>>, open |-> FALSE]
      BY FoundNone DEF NoSegs
    <3>2. Segments(<<>>) = Found(<<>>).segs
      BY <2>2, SegmentsAre
    <3> QED
      BY <3>1, <3>2
  <2>7. <<>> \in Seq(Segs)
    OBVIOUS
  <2> QED
    BY <2>2, <2>4, <2>5, <2>6, <2>7
<1>2. ASSUME NEW a \in Seq(Segs), NEW x \in Segs, a \in S PROVE Append(a, x) \in S
  <2>1. PICK c : c = Append(a, x)
    OBVIOUS
  <2>2. PICK u \in Seq(Symbols) : u = OpenPath(a) /\ Closed(u) /\ Segments(u) = a
    BY <1>2
  <2>3. PathOf(c) = u \o x /\ OpenPath(c) = (u \o x) \o <<"/">>
    BY <2>1, <2>2, OpenPathNext
  <2>4. /\ u \o x \in Seq(Symbols) /\ Segments(u \o x) = c
        /\ (u \o x) \o <<"/">> \in Seq(Symbols) /\ Closed((u \o x) \o <<"/">>)
        /\ Segments((u \o x) \o <<"/">>) = c
    BY <2>1, <2>2, SegmentsEnded
  <2>5. c \in Seq(Segs)
    BY <2>1, AppendProperties
  <2> QED
    BY <2>1, <2>3, <2>4, <2>5
<1> HIDE DEF S
<1>3. segs \in S
  BY <1>1, <1>2, SeqInduction
<1> QED
  BY <1>3 DEF S

\* How long it is.
LEMMA PathLengths ==
  ASSUME NEW segs \in Seq(Segs)
  PROVE  /\ Length(Slashed(segs)) \in Nat /\ Length(OpenPath(segs)) = Length(Slashed(segs)) + 1
         /\ segs # <<>> => Length(PathOf(segs)) = Length(Slashed(segs))
         /\ segs = <<>> => Length(Slashed(segs)) = 0 /\ PathOf(segs) = <<"/">>
         /\ Length(Slashed(segs)) <= Length(PathOf(segs))
         /\ PathOf(segs) # <<>> /\ PathOf(segs)[1] = "/" /\ Last(OpenPath(segs)) = "/"
<1>1. PICK b : b = <<"/">>
  OBVIOUS
<1>2. b \in Seq(Symbols) /\ Length(b) = 1 /\ b \o <<>> = b /\ b[1] = "/" /\ b # <<>> /\ Len(b) = 1
  <2>1. Length(<<"/">>) = 1
    BY ShellAssumption, LengthOne
  <2> QED
    BY <1>1, <2>1, ShellAssumption, ConcatEmptySeq
<1>3. segs \in Seq(Seq(Symbols))
  BY SegsAreSymbols
<1>4. PICK s \in Seq(Symbols) : s = Slashed(segs)
  BY <1>3, SlashedType
<1>5. Length(s) \in Nat /\ Length(b \o s) = 1 + Length(s)
  BY <1>2, LengthType, LengthConcat
<1>6. OpenPath(segs) \in Seq(Symbols) /\ OpenPath(segs) = b \o s
  BY <1>1, <1>4, RoundTrip DEF OpenPath
<1>7. segs = <<>> => Length(s) = 0 /\ PathOf(segs) = b
  <2>1. segs = <<>> => s = <<>>
    BY <1>3, <1>4, SlashedType
  <2> QED
    BY <1>1, <1>2, <2>1, LengthNone DEF PathOf
<1>8. ASSUME segs # <<>>
      PROVE  Length(PathOf(segs)) = Length(s) /\ PathOf(segs)[1] = "/" /\ PathOf(segs) # <<>>
  <2>1. PICK u \in Seq(Segs), x \in Segs : segs = Append(u, x)
    BY <1>8, FrontLast
  <2>2. PICK v \in Seq(Symbols) : v = OpenPath(u)
    BY RoundTrip
  <2>3. PathOf(segs) = v \o x /\ OpenPath(segs) = (v \o x) \o b /\ x \in Seq(Symbols)
    BY <1>1, <2>1, <2>2, OpenPathNext DEF Segs
  <2>4. PICK w \in Seq(Symbols) : w = v \o x
    BY <2>3, ConcatProperties
  <2>5. Length(w \o b) = Length(w) + 1 /\ Length(w) \in Nat
    BY <1>2, LengthConcat, LengthType
  <2>6. Length(w) = Length(s)
    BY <1>5, <1>6, <2>3, <2>4, <2>5
  <2>7. PICK f : PathOf(segs) = b \o f /\ f \in Seq(Symbols)
    <3>1. s # <<>>
      <4>1. Len(s) >= Len(segs) /\ Len(segs) # 0 /\ Len(segs) \in Nat
        BY <1>3, <1>4, <1>8, SlashedType, EmptySeq
      <4> QED
        BY <4>1
    <3>2. Front(s) \in Seq(Symbols)
      BY <3>1, FrontLast
    <3> QED
      BY <1>1, <1>4, <1>8, <3>2 DEF PathOf
  <2>8. b \o f # <<>> /\ (b \o f)[1] = "/"
    <3>1. b \o f \in Seq(Symbols) /\ Len(b \o f) = 1 + Len(f) /\ Len(f) \in Nat
          /\ \A i \in 1 .. Len(b) + Len(f) : (b \o f)[i] = IF i <= Len(b) THEN b[i] ELSE f[i - Len(b)]
      <4>1. f \in Seq(Symbols) /\ Len(f) \in Nat
        BY <2>7
      <4>2. b \o f \in Seq(Symbols) /\ Len(b \o f) = Len(b) + Len(f)
            /\ \A i \in 1 .. Len(b) + Len(f) : (b \o f)[i] = IF i <= Len(b) THEN b[i] ELSE f[i - Len(b)]
        BY <1>2, <4>1, ConcatProperties
      <4> QED
        BY <1>2, <4>1, <4>2
    <3>2. 1 \in 1 .. Len(b) + Len(f)
      BY <1>2, <3>1
    <3>3. b \o f # <<>>
      BY <3>1
    <3> QED
      BY <1>2, <3>1, <3>2, <3>3
  <2> QED
    BY <2>3, <2>4, <2>6, <2>7, <2>8
<1>9. Last(OpenPath(segs)) = "/"
  <2>1. Closed(OpenPath(segs))
    BY RoundTrip
  <2>2. OpenPath(segs) # <<>>
    <3>1. PICK o : o = OpenPath(segs)
      OBVIOUS
    <3>2. Length(o) = 1 + Length(s)
      BY <1>5, <1>6, <3>1
    <3>3. Length(o) # 0
      BY <1>5, <3>2
    <3> QED
      BY <3>1, <3>3, LengthNone
  <2> QED
    BY <2>1, <2>2 DEF Closed
<1>10. Length(s) <= Length(PathOf(segs))
  <2>1. CASE segs = <<>>
    BY <1>2, <1>7, <2>1
  <2>2. CASE segs # <<>>
    BY <1>5, <1>8, <2>2
  <2> QED
    BY <2>1, <2>2
<1>11. PathOf(segs) # <<>> /\ PathOf(segs)[1] = "/"
  BY <1>2, <1>7, <1>8
<1>12. Length(OpenPath(segs)) = Length(s) + 1
  BY <1>5, <1>6
<1>13. segs = <<>> => PathOf(segs) = <<"/">>
  BY <1>1, <1>7
<1> QED
  BY <1>4, <1>5, <1>7, <1>8, <1>9, <1>10, <1>11, <1>12, <1>13

TakeStep(X) == [p \in Seq(X) \X X |-> TakeSeg(p[1], p[2])]

LEMMA TakeStepIs ==
  ASSUME NEW X
  PROVE  /\ IsStep(TakeStep(X), Seq(X), X) /\ <<>> \in Seq(X)
         /\ \A segs \in Seq(X), seg \in X : TakeStep(X)[<<segs, seg>>] = TakeSeg(segs, seg)
<1>1. \A p \in Seq(X) \X X : p[1] \in Seq(X) /\ p[2] \in X
  OBVIOUS
<1>2. \A p \in Seq(X) \X X : TakeSeg(p[1], p[2]) \in Seq(X)
  BY <1>1, TakeSegType
<1>3. IsStep(TakeStep(X), Seq(X), X)
  BY <1>2 DEF IsStep, TakeStep
<1> QED
  BY <1>3 DEF TakeStep

LEMMA TakenIs ==
  ASSUME NEW X, NEW ins \in Seq(X)
  PROVE  Taken(ins) = Fold(TakeStep(X), <<>>, ins)
<1> DEFINE n == Len(ins)
           R(f) == f = [k \in 0 .. n |-> IF k = 0 THEN <<>> ELSE TakeSeg(f[k - 1], ins[k])]
<1>1. n \in Nat /\ \A k \in 1 .. n : ins[k] \in X
  OBVIOUS
<1>2. PICK V, G : V = Seq(X) /\ G = TakeStep(X)
  OBVIOUS
<1>3. /\ IsStep(G, V, X) /\ <<>> \in V
      /\ \A segs \in V, seg \in X : G[<<segs, seg>>] = TakeSeg(segs, seg)
  BY <1>2, TakeStepIs
<1>4. PICK g : IsFold(g, G, V, <<>>, ins)
  BY <1>3, FoldIs
<1>5. Taken(ins) = (CHOOSE f : R(f))[n]
  BY DEF Taken
<1> HIDE DEF n
<1>6. R(g)
  <2>1. g \in [0 .. n -> V] /\ g[0] = <<>> /\ \A k \in 1 .. n : g[k] = G[<<g[k - 1], ins[k]>>]
    BY <1>4 DEF IsFold, n
  <2>2. \A k \in 1 .. n : k - 1 \in 0 .. n
    BY <1>1
  <2>3. \A k \in 1 .. n : g[k] = TakeSeg(g[k - 1], ins[k])
    BY <1>1, <1>3, <2>1, <2>2
  <2> QED
    BY <1>1, <2>1, <2>3
<1> DEFINE f == CHOOSE f : R(f)
<1>7. R(f)
  BY <1>6
<1> HIDE DEF f
<1>8. f[0] = <<>> /\ \A k \in 1 .. n : f[k] = TakeSeg(f[k - 1], ins[k])
  BY <1>1, <1>7
<1>9. \A k \in 1 .. Len(ins) : f[k - 1] \in V => f[k] = G[<<f[k - 1], ins[k]>>]
  BY <1>1, <1>3, <1>8 DEF n
<1>10. f[Len(ins)] = Fold(G, <<>>, ins)
  BY <1>3, <1>8, <1>9, FoldUnique
<1> QED
  BY <1>2, <1>5, <1>10 DEF f, n

LEMMA TakenAppend ==
  ASSUME NEW X, NEW ins \in Seq(X), NEW x \in X
  PROVE  Taken(ins) \in Seq(X) /\ Taken(Append(ins, x)) = TakeSeg(Taken(ins), x)
<1>1. PICK V, G : V = Seq(X) /\ G = TakeStep(X)
  OBVIOUS
<1>2. /\ IsStep(G, V, X) /\ <<>> \in V
      /\ \A segs \in V, seg \in X : G[<<segs, seg>>] = TakeSeg(segs, seg)
  BY <1>1, TakeStepIs
<1>3. Fold(G, <<>>, ins) \in V /\ Fold(G, <<>>, Append(ins, x)) = G[<<Fold(G, <<>>, ins), x>>]
  BY <1>2, FoldAppend
<1>4. Taken(ins) = Fold(G, <<>>, ins) /\ Taken(Append(ins, x)) = Fold(G, <<>>, Append(ins, x))
  BY <1>1, TakenIs, AppendProperties
<1> QED
  BY <1>1, <1>2, <1>3, <1>4

LEMMA TakenNone == Taken(<<>>) = <<>>
<1>1. IsStep(TakeStep({}), Seq({}), {}) /\ <<>> \in Seq({})
  BY TakeStepIs
<1> QED
  BY <1>1, TakenIs, FoldEmpty

\* Dots take segments away and are none themselves.
Dots == {<<".">>, <<"..">>}
LEMMA TakenType ==
  ASSUME NEW P, NEW ins \in Seq(P \cup Dots)
  PROVE  Taken(ins) \in Seq(P)
<1> DEFINE X == P \cup Dots
           S == {a \in Seq(X) : Taken(a) \in Seq(P)}
<1>1. <<>> \in S
  <2>1. <<>> \in Seq(X) /\ <<>> \in Seq(P)
    OBVIOUS
  <2> QED
    BY <2>1, TakenNone
<1>2. ASSUME NEW a \in Seq(X), NEW x \in X, a \in S PROVE Append(a, x) \in S
  <2>1. PICK b \in Seq(P) : b = Taken(a)
    BY <1>2
  <2>2. Taken(Append(a, x)) = TakeSeg(b, x) /\ Append(a, x) \in Seq(X)
    <3> HIDE DEF X
    <3> QED
      BY <2>1, TakenAppend, AppendProperties
  <2>3. CASE x \in Dots
    <3>1. TakeSeg(b, x) \in {b, PopSeg(b)}
      BY <2>3 DEF Dots, TakeSeg
    <3>2. PopSeg(b) \in Seq(P)
      <4>1. Len(b) > 0 => b # <<>>
        OBVIOUS
      <4> QED
        BY <4>1, FrontLast DEF PopSeg
    <3> QED
      BY <2>2, <3>1, <3>2
  <2>4. CASE x \notin Dots
    <3>1. x \in P /\ TakeSeg(b, x) \in {b, Append(b, x)}
      BY <2>4 DEF Dots, TakeSeg
    <3> QED
      BY <2>2, <3>1, AppendProperties
  <2> QED
    BY <2>3, <2>4
<1> HIDE DEF S, X
<1>3. Seq(X) \subseteq S
  BY <1>1, <1>2, SeqInduction
<1> QED
  BY <1>3 DEF S, X

\* Segments without dots are taken as they are.
LEMMA TakenPlain ==
  ASSUME NEW P, P \cap Dots = {}, NEW ins \in Seq(P), Len(ins) <= SegMax
  PROVE  Taken(ins) = ins
<1> DEFINE S == {a \in Seq(P) : Len(a) <= SegMax => Taken(a) = a}
<1>1. <<>> \in S
  BY TakenNone
<1>2. ASSUME NEW a \in Seq(P), NEW x \in P, a \in S PROVE Append(a, x) \in S
  <2>1. PICK b : b = Append(a, x)
    OBVIOUS
  <2>6. b \in Seq(P) /\ Len(b) = Len(a) + 1 /\ Len(a) \in Nat
    BY <2>1, AppendProperties
  <2>2. SUFFICES ASSUME Len(b) <= SegMax PROVE Taken(b) = b
    BY <2>1, <2>6
  <2>3. Len(a) < SegMax /\ Taken(a) = a
    BY <1>2, <2>2, <2>6, ShellAssumption
  <2>4. Taken(b) = TakeSeg(a, x)
    BY <2>1, <2>3, TakenAppend
  <2>5. x \notin Dots
    OBVIOUS
  <2> QED
    BY <2>1, <2>3, <2>4, <2>5 DEF TakeSeg, Dots
<1> HIDE DEF S
<1>3. ins \in S
  BY <1>1, <1>2, SeqInduction
<1> QED
  BY <1>3 DEF S

LEMMA FirstN ==
  ASSUME NEW X, NEW s \in Seq(X), NEW n \in 0 .. Len(s)
  PROVE  SubSeq(s, 1, n) \in Seq(X) /\ Len(SubSeq(s, 1, n)) = n /\ \A i \in 1 .. n : SubSeq(s, 1, n)[i] = s[i]
OBVIOUS

\* Segments that are no dots.
Plain == Segs \ Dots

\* What path_join makes of the segments it has taken.
Written(segs, path) == \/ path = PathOf(segs)
                       \/ \E n \in 0 .. Len(segs) - 1 : path = OpenPath(SubSeq(segs, 1, n))

LEMMA PathIsWritten ==
  ASSUME NEW base \in Seq(Symbols), NEW in \in Seq(Symbols)
  PROVE  \E segs \in Seq(Plain) : /\ segs = Taken(Segments(Joined(base, in)))
                                  /\ Written(segs, path_join(base, in))
                                  /\ Length(path_join(base, in)) < PathMax
                                  /\ Fitting(segs) = Len(segs) => path_join(base, in) = PathOf(segs)
<1>1. PICK ins : ins = Segments(Joined(base, in))
  OBVIOUS
<1>2. ins \in Seq(Plain \cup Dots)
  <2>1. ins \in Seq(Segs)
    BY <1>1, JoinedType, SegmentsType
  <2>2. Segs \subseteq Plain \cup Dots
    BY DEF Plain
  <2> QED
    BY <2>1, <2>2, SeqMonotonic
<1>3. PICK segs \in Seq(Plain) : segs = Taken(ins)
  BY <1>2, TakenType
<1>4. segs \in Seq(Segs) /\ segs \in Seq(Seq(Symbols))
  <2>1. Plain \subseteq Segs
    BY DEF Plain
  <2>2. segs \in Seq(Segs)
    BY <2>1, SeqMonotonic
  <2> QED
    BY <2>2, SegsAreSymbols
<1>5. PICK n \in 0 .. Len(segs) : n = Fitting(segs) /\ AllFit(segs, n)
  BY <1>4, FittingType
<1>6. PICK b : b = <<"/">>
  OBVIOUS
<1>7. PICK out : out = Slashed(SubSeq(segs, 1, n))
  OBVIOUS
<1>8. path_join(base, in) = b \o (IF n = Len(segs) /\ n > 0 THEN Front(out) ELSE out)
  BY <1>1, <1>3, <1>5, <1>6, <1>7 DEF path_join
<1>9. 1 + Length(out) < PathMax
  BY <1>4, <1>5, <1>7, FittingFits
<1>10. CASE n = Len(segs)
  <2>1. SubSeq(segs, 1, n) = segs /\ (n > 0 <=> segs # <<>>)
    BY <1>10, SubSeqFull, EmptySeq
  <2>2. segs = <<>> => out = <<>>
    BY <1>4, <1>7, <2>1, SlashedType
  <2>3. path_join(base, in) = PathOf(segs)
    BY <1>6, <1>7, <1>8, <1>10, <2>1, <2>2 DEF PathOf
  <2>4. /\ Length(out) \in Nat
        /\ segs # <<>> => Length(PathOf(segs)) = Length(out)
        /\ segs = <<>> => PathOf(segs) = <<"/">>
    BY <1>4, <1>7, <2>1, PathLengths
  <2>5. Length(<<"/">>) = 1 /\ PathMax > 2 /\ PathMax \in Nat
    BY LengthOne, ShellAssumption
  <2>6. Length(PathOf(segs)) < PathMax
    <3>1. CASE segs = <<>>
      BY <2>4, <2>5, <3>1
    <3>2. CASE segs # <<>>
      BY <1>9, <2>4, <2>5, <3>2
    <3> QED
      BY <3>1, <3>2
  <2> QED
    BY <1>1, <1>3, <2>3, <2>6 DEF Written
<1>11. CASE n # Len(segs)
  <2>1. n \in 0 .. Len(segs) - 1
    BY <1>11
  <2>2. PICK first \in Seq(Segs) : first = SubSeq(segs, 1, n)
    BY <1>4, FirstN
  <2>3. path_join(base, in) = OpenPath(first)
    BY <1>6, <1>7, <1>8, <1>11, <2>2 DEF OpenPath
  <2>4. Length(OpenPath(first)) = Length(out) + 1 /\ Length(out) \in Nat /\ PathMax \in Nat
    BY <1>7, <2>2, PathLengths, ShellAssumption
  <2>5. Length(OpenPath(first)) < PathMax
    BY <1>9, <2>4
  <2> QED
    BY <1>1, <1>3, <1>5, <1>11, <2>1, <2>2, <2>3, <2>5 DEF Written
<1> QED
  BY <1>10, <1>11

LEMMA RootSegments == Segments(<<"/">>) = <<>> /\ Slashed(<<>>) = <<>>
<1>1. <<>> \in Seq(Segs)
  OBVIOUS
<1>2. Slashed(<<>>) = <<>>
  <2>1. <<>> \in Seq(Seq(Symbols))
    OBVIOUS
  <2> QED
    BY <2>1, SlashedType
<1>3. PathOf(<<>>) = <<"/">>
  BY <1>1, PathLengths
<1> QED
  BY <1>1, <1>2, <1>3, RoundTrip

\* A path as path_join leaves it in a buffer.
Settled(path) == Segments(path) \in Seq(Plain) /\ Length(Slashed(Segments(path))) <= Length(path)

LEMMA PathFits ==
  ASSUME NEW base \in Seq(Symbols), NEW in \in Seq(Symbols)
  PROVE  Resolved(path_join(base, in)) /\ Settled(path_join(base, in))
<1>1. PICK segs \in Seq(Plain) : /\ Written(segs, path_join(base, in))
                                 /\ Length(path_join(base, in)) < PathMax
  BY PathIsWritten
<1>2. PICK path : path = path_join(base, in)
  OBVIOUS
<1>3. CASE path = PathOf(segs)
  <2>1. segs \in Seq(Segs)
    BY SeqMonotonic DEF Plain
  <2> QED
    BY <1>1, <1>2, <1>3, <2>1, RoundTrip, PathLengths DEF Resolved, Settled
<1>4. CASE \E n \in 0 .. Len(segs) - 1 : path = OpenPath(SubSeq(segs, 1, n))
  <2>1. PICK n \in 0 .. Len(segs) - 1 : path = OpenPath(SubSeq(segs, 1, n))
    BY <1>4
  <2>2. PICK first \in Seq(Plain) : first = SubSeq(segs, 1, n)
    <3>1. n \in 0 .. Len(segs)
      BY <2>1
    <3> QED
      BY <3>1, FirstN
  <2>3. first \in Seq(Segs)
    BY SeqMonotonic DEF Plain
  <2>4. /\ path \in Seq(Symbols) /\ Segments(path) = first
        /\ Length(path) = Length(Slashed(first)) + 1 /\ Length(Slashed(first)) \in Nat
    BY <2>1, <2>2, <2>3, RoundTrip, PathLengths
  <2>5. path # <<>> /\ path[1] = "/"
    <3>1. PICK s : s = Slashed(first) /\ s \in Seq(Symbols)
      BY <2>3, SegsAreSymbols, SlashedType
    <3>2. <<"/">> \in Seq(Symbols) /\ Len(<<"/">>) = 1 /\ <<"/">>[1] = "/"
      BY ShellAssumption
    <3>3. path = <<"/">> \o s
      BY <2>1, <2>2, <3>1 DEF OpenPath
    <3>4. Len(path) = 1 + Len(s) /\ Len(s) \in Nat
      BY <3>1, <3>2, <3>3, ConcatProperties
    <3>5. path[1] = "/"
      BY <3>1, <3>2, <3>3, <3>4, ConcatProperties
    <3> QED
      BY <2>4, <3>4, <3>5
  <2>6. Length(Slashed(first)) <= Length(path)
    BY <2>4
  <2> QED
    BY <1>1, <1>2, <2>4, <2>5, <2>6 DEF Resolved, Settled
<1> QED
  BY <1>1, <1>2, <1>3, <1>4 DEF Written

\* The length grows from segment to segment.
LEMMA FirstShorter ==
  ASSUME NEW segs \in Seq(Segs), NEW n \in 0 .. Len(segs)
  PROVE  /\ SubSeq(segs, 1, n) \in Seq(Segs)
         /\ Length(Slashed(SubSeq(segs, 1, n))) <= Length(Slashed(segs))
<1> DEFINE L(k) == Length(Slashed(SubSeq(segs, 1, k)))
           S == {k \in Nat : L(n) <= L(k)}
<1>1. \A k \in 0 .. Len(segs) : SubSeq(segs, 1, k) \in Seq(Segs) /\ L(k) \in Nat
  <2> SUFFICES ASSUME NEW k \in 0 .. Len(segs) PROVE SubSeq(segs, 1, k) \in Seq(Segs) /\ L(k) \in Nat
    OBVIOUS
  <2>1. PICK u \in Seq(Segs) : u = SubSeq(segs, 1, k)
    BY FirstN
  <2> QED
    BY <2>1, PathLengths
<1>2. n \in S
  BY <1>1
<1>3. ASSUME NEW k \in n .. Len(segs) - 1, k \in S PROVE k + 1 \in S
  <2>1. k + 1 \in 1 .. Len(segs) /\ (k + 1) - 1 = k /\ k \in 0 .. Len(segs) /\ k + 1 \in 0 .. Len(segs)
        /\ segs[k + 1] \in Segs
    OBVIOUS
  <2>2. PICK u \in Seq(Segs), x \in Segs : u = SubSeq(segs, 1, k) /\ x = segs[k + 1]
    BY <1>1, <2>1
  <2>3. SubSeq(segs, 1, k + 1) = Append(u, x)
    BY <2>1, <2>2, FirstAndNext
  <2>4. u \in Seq(Seq(Symbols)) /\ x \in Seq(Symbols)
    BY SegsAreSymbols DEF Segs
  <2>5. Length(Slashed(Append(u, x))) = Length(Slashed(u)) + (Length(x) + 1) /\ Length(x) \in Nat
    BY <2>4, SlashedAppend, LengthType
  <2>6. L(k + 1) = L(k) + (Length(x) + 1)
    BY <2>2, <2>3, <2>5
  <2>7. L(n) <= L(k)
    BY <1>3
  <2>8. n \in 0 .. Len(segs) /\ L(n) \in Nat /\ L(k) \in Nat /\ k + 1 \in Nat
    BY <1>1, <2>1
  <2> HIDE DEF L
  <2> QED
    BY <2>5, <2>6, <2>7, <2>8
<1> HIDE DEF S
<1>4. n .. Len(segs) \subseteq S
  <2>1. n \in Nat /\ Len(segs) \in Nat
    OBVIOUS
  <2> QED
    BY <1>2, <1>3, <2>1, Steps
<1>5. L(n) <= L(Len(segs))
  BY <1>4 DEF S
<1>6. SubSeq(segs, 1, Len(segs)) = segs
  BY SubSeqFull
<1> QED
  BY <1>1, <1>5, <1>6

\* What fits as a whole is written as a whole.
LEMMA FittingAll ==
  ASSUME NEW segs \in Seq(Segs), Length(Slashed(segs)) + 2 < PathMax
  PROVE  Fitting(segs) = Len(segs)
<1>1. PICK n \in 0 .. Len(segs) :
        /\ n = Fitting(segs)
        /\ n < Len(segs) => ~FitsBehind(1 + Length(Slashed(SubSeq(segs, 1, n))), segs[n + 1])
  BY SegsAreSymbols, FittingType
<1>2. SUFFICES ASSUME n < Len(segs) PROVE FALSE
  BY <1>1
<1>3. n + 1 \in 1 .. Len(segs) /\ (n + 1) - 1 = n /\ n + 1 \in 0 .. Len(segs) /\ segs[n + 1] \in Segs
  BY <1>2
<1>4. PICK u \in Seq(Segs), x \in Segs : u = SubSeq(segs, 1, n) /\ x = segs[n + 1]
  BY <1>3, FirstN
<1>5. SubSeq(segs, 1, n + 1) = Append(u, x)
  BY <1>3, <1>4, FirstAndNext
<1>6. u \in Seq(Seq(Symbols)) /\ x \in Seq(Symbols)
  BY SegsAreSymbols DEF Segs
<1>7. Length(Slashed(Append(u, x))) = Length(Slashed(u)) + (Length(x) + 1)
  BY <1>6, SlashedAppend
<1>8. Length(Slashed(u)) \in Nat /\ Length(x) \in Nat /\ Length(Slashed(segs)) \in Nat /\ PathMax \in Nat
  BY <1>6, PathLengths, LengthType, ShellAssumption
<1>9. Length(Slashed(Append(u, x))) <= Length(Slashed(segs))
  BY <1>3, <1>5, FirstShorter
<1>10. ~((1 + Length(Slashed(u))) + Length(x) + 2 < PathMax)
  BY <1>1, <1>2, <1>4 DEF FitsBehind
<1> QED
  BY <1>7, <1>8, <1>9, <1>10

LEMMA SegmentsFit ==
  ASSUME NEW segs \in Seq(Segs)
  PROVE  2 * Len(segs) <= Length(Slashed(segs))
<1> DEFINE S == {a \in Seq(Segs) : 2 * Len(a) <= Length(Slashed(a))}
<1>1. <<>> \in S
  <2>1. <<>> \in Seq(Segs) /\ Len(<<>>) = 0
    OBVIOUS
  <2>2. Length(Slashed(<<>>)) = 0
    BY <2>1, PathLengths
  <2>3. 2 * Len(<<>>) = 0
    BY <2>1
  <2> QED
    BY <2>1, <2>2, <2>3
<1>2. ASSUME NEW a \in Seq(Segs), NEW x \in Segs, a \in S PROVE Append(a, x) \in S
  <2>1. a \in Seq(Seq(Symbols)) /\ x \in Seq(Symbols) /\ x # <<>>
    BY SegsAreSymbols DEF Segs
  <2>2. Length(Slashed(Append(a, x))) = Length(Slashed(a)) + (Length(x) + 1)
    BY <2>1, SlashedAppend
  <2>3. Len(x) <= Length(x) /\ Length(x) \in Nat /\ Len(x) \in Nat /\ Len(x) # 0
    BY <2>1, LengthType, EmptySeq
  <2>4. Append(a, x) \in Seq(Segs) /\ Len(Append(a, x)) = Len(a) + 1 /\ Len(a) \in Nat
    BY AppendProperties
  <2>5. Length(Slashed(a)) \in Nat /\ 2 * Len(a) <= Length(Slashed(a))
    BY <1>2, PathLengths
  <2>6. 2 * (Len(a) + 1) <= Length(Slashed(a)) + (Length(x) + 1)
    BY <2>3, <2>4, <2>5
  <2> QED
    BY <2>2, <2>4, <2>6
<1> HIDE DEF S
<1>3. segs \in S
  BY <1>1, <1>2, SeqInduction
<1> QED
  BY <1>3 DEF S

-----------------------------------------------------------------------------
(* The paths that FatFs is given *)

\* A path that FatFs can be given: there is room for its names in a resolved path.
Given(p) == p \in Seq(Names \cup {Invalid}) /\ 2 * Len(p) < PathMax

LEMMA FollowedIsGiven ==
  ASSUME NEW path, Resolved(path)
  PROVE  Given(follow_path(path))
<1>1. path \in Seq(Symbols) /\ path # <<>> /\ path[1] = "/" /\ Length(path) < PathMax
  BY DEF Resolved
<1>2. PICK N \in Nat \ {0} : N = Len(path)
  BY <1>1, EmptySeq
<1> DEFINE T == {i \in Nat : path[i] # " "}
           F(n) == /\ \A i \in 1 .. n : path[i] # " "
                   /\ n < Len(path) => path[n + 1] = " "
           m == CHOOSE n \in 0 .. Len(path) : F(n)
<1>3. m \in 0 .. N /\ F(m)
  <2>1. PICK n \in 0 .. N : (\A i \in 1 .. n : i \in T) /\ (n < N => n + 1 \notin T)
    <3> HIDE DEF T
    <3> QED
      BY FirstMiss
  <2>2. \A i \in 1 .. n : path[i] # " "
    BY <2>1
  <2>3. n + 1 \in Nat
    OBVIOUS
  <2>4. n < Len(path) => path[n + 1] = " "
    BY <1>2, <2>1, <2>3
  <2>5. F(n)
    BY <2>2, <2>4
  <2> HIDE DEF F
  <2> QED
    BY <1>2, <2>5
<1>4. UpToBlank(path) = SubSeq(path, 1, m)
  BY DEF UpToBlank
<1> HIDE DEF m
<1>13. m \in Nat /\ m <= N
  <2> HIDE DEF F
  <2> QED
    BY <1>3
<1>14. m < N => path[m + 1] = " "
  BY <1>2, <1>3
<1> HIDE DEF F
<1>5. PICK p : p = UpToBlank(path)
  OBVIOUS
<1>6. m # 0
  <2>1. "/" # " "
    OBVIOUS
  <2>2. CASE m = 0
    <3>1. m < N /\ m + 1 = 1
      BY <2>2
    <3> QED
      BY <1>1, <1>14, <2>1, <3>1
  <2> QED
    BY <2>2
<1>7. p \in Seq(Symbols) /\ Len(p) = m /\ p # <<>> /\ p[1] = "/"
  <2>1. m \in 0 .. Len(path) /\ 1 \in 1 .. m
    BY <1>2, <1>6, <1>13
  <2>2. p \in Seq(Symbols) /\ Len(p) = m /\ p[1] = path[1]
    BY <1>1, <1>4, <1>5, <2>1
  <2>3. p # <<>>
    BY <1>6, <2>2
  <2> QED
    BY <1>1, <2>2, <2>3
<1>8. PICK segs : segs = Segments(p)
  OBVIOUS
<1>9. Len(segs) \in Nat /\ DOMAIN segs = 1 .. Len(segs) /\ 2 * Len(segs) < PathMax
  <2>1. segs \in Seq(Seq(Symbols))
    BY <1>7, <1>8, SegmentsType
  <2>2. 2 * Len(segs) <= Len(p)
    BY <1>7, <1>8, SegmentCount
  <2>3. Length(path) \in Nat /\ Len(path) <= Length(path)
    BY <1>1, LengthType
  <2>4. Len(segs) \in Nat /\ DOMAIN segs = 1 .. Len(segs)
    BY <2>1
  <2>5. PathMax \in Nat /\ m \in Nat /\ m <= N
    BY <1>13, ShellAssumption
  <2> QED
    BY <1>1, <1>2, <1>7, <2>2, <2>3, <2>4, <2>5
<1>10. \A seg : Short(seg) \in Names \cup {Invalid}
  BY ShellAssumption DEF Short, Names
<1>11. CASE segs = <<>> /\ p # path
  <2>1. PICK q : q = <<Invalid>>
    OBVIOUS
  <2>2. follow_path(path) = q
    BY <1>5, <1>8, <1>11, <2>1 DEF follow_path
  <2>3. q \in Seq(Names \cup {Invalid}) /\ Len(q) = 1
    BY <2>1
  <2>4. 2 * 1 < PathMax
    BY ShellAssumption
  <2> QED
    BY <2>2, <2>3, <2>4 DEF Given
<1>12. CASE ~(segs = <<>> /\ p # path)
  <2>1. PICK q : q = [i \in 1 .. Len(segs) |-> Short(segs[i])]
    OBVIOUS
  <2>2. follow_path(path) = q
    BY <1>5, <1>8, <1>9, <1>12, <2>1 DEF follow_path
  <2>3. q \in [1 .. Len(segs) -> Names \cup {Invalid}]
    BY <1>10, <2>1
  <2>4. q \in Seq(Names \cup {Invalid}) /\ Len(q) = Len(segs)
    BY <1>9, <2>3
  <2> QED
    BY <1>9, <2>2, <2>4 DEF Given
<1> QED
  BY <1>11, <1>12

\* Pieces of a line are made of its symbols.
LEMMA RestType ==
  ASSUME NEW S, NEW s \in Seq(S), NEW n \in Nat \ {0}
  PROVE  Rest(s, n) \in Seq(S)
<1>1. Len(s) \in Int /\ Len(s) <= Len(s)
  OBVIOUS
<1>2. SubSeq(s, n, Len(s)) \in Seq(S)
  BY <1>1, SubSeqIn
<1> QED
  BY <1>2 DEF Rest

LEMMA TrimmedType ==
  ASSUME NEW S, NEW s \in Seq(S)
  PROVE  Trimmed(s) \in Seq(S)
<1> DEFINE T == {i \in Nat : s[i] = " "}
           F(n) == /\ \A i \in 1 .. n : s[i] = " "
                   /\ n < Len(s) => s[n + 1] # " "
           m == CHOOSE n \in 0 .. Len(s) : F(n)
<1>1. m \in 0 .. Len(s)
  <2>1. PICK n \in 0 .. Len(s) : (\A i \in 1 .. n : i \in T) /\ (n < Len(s) => n + 1 \notin T)
    <3>1. Len(s) \in Nat
      OBVIOUS
    <3> HIDE DEF T
    <3> QED
      BY <3>1, FirstMiss
  <2>2. \A i \in 1 .. n : s[i] = " "
    BY <2>1
  <2>3. n + 1 \in Nat
    OBVIOUS
  <2>4. n < Len(s) => s[n + 1] # " "
    BY <2>1, <2>3
  <2>5. F(n)
    BY <2>2, <2>4
  <2> HIDE DEF F
  <2> QED
    BY <2>5
<1>2. Trimmed(s) = Rest(s, m + 1)
  BY DEF Trimmed
<1> HIDE DEF m
<1>3. m + 1 \in Nat \ {0}
  BY <1>1
<1> QED
  BY <1>2, <1>3, RestType

LEMMA ReverseType ==
  ASSUME NEW S, NEW s \in Seq(S)
  PROVE  Reverse(s) \in Seq(S)
<1>1. \A i \in 1 .. Len(s) : s[(Len(s) - i) + 1] \in S
  OBVIOUS
<1>2. [i \in 1 .. Len(s) |-> s[(Len(s) - i) + 1]] \in [1 .. Len(s) -> S]
  BY <1>1
<1>3. PICK r : r = Reverse(s)
  OBVIOUS
<1>4. r \in [1 .. Len(s) -> S]
  BY <1>2, <1>3 DEF Reverse
<1>5. r \in Seq(S)
  BY <1>4
<1> QED
  BY <1>3, <1>5

LEMMA TrimmedEndType ==
  ASSUME NEW S, NEW s \in Seq(S)
  PROVE  TrimmedEnd(s) \in Seq(S)
<1>1. Reverse(s) \in Seq(S)
  BY ReverseType
<1>2. Trimmed(Reverse(s)) \in Seq(S)
  BY <1>1, TrimmedType
<1>3. Reverse(Trimmed(Reverse(s))) \in Seq(S)
  BY <1>2, ReverseType
<1> QED
  BY <1>3 DEF TrimmedEnd

\* What SelectInSeq returns: the first of the indices, or 0.
LEMMA SelectedIndex ==
  ASSUME NEW n \in Nat, NEW I, I \subseteq 1 .. n
  PROVE  (IF I # {} THEN Min(I) ELSE 0) \in 0 .. n
<1>1. CASE I # {}
  <2>1. I \subseteq Nat
    OBVIOUS
  <2>2. PICK m \in I : \A k \in I : m <= k
    BY <1>1, <2>1, LeastNatural
  <2>3. Min(I) \in I
    BY <2>2 DEF Min
  <2>4. Min(I) \in 1 .. n
    BY <2>3
  <2>5. Min(I) \in 0 .. n
    BY <2>4
  <2> QED
    BY <1>1, <2>5
<1>2. CASE I = {}
  <2>1. 0 \in 0 .. n
    OBVIOUS
  <2> QED
    BY <1>2, <2>1
<1> QED
  BY <1>1, <1>2

LEMMA WordTypes ==
  ASSUME NEW S, NEW s \in Seq(S)
  PROVE  FirstWord(s) \in Seq(S) /\ AfterWord(s) \in Seq(S)
<1>1. Word(s) \in 0 .. Len(s)
  <2> DEFINE I == {i \in 1 .. Len(s) : s[i] = " "}
  <2>1. Word(s) = IF I # {} THEN Min(I) ELSE 0
    BY DEF Word, SelectInSeq
  <2>2. I \subseteq 1 .. Len(s)
    OBVIOUS
  <2> HIDE DEF I
  <2>3. Len(s) \in Nat
    OBVIOUS
  <2> QED
    BY <2>1, <2>2, <2>3, SelectedIndex
<1>2. CASE Word(s) = 0
  <2>1. <<>> \in Seq(S)
    OBVIOUS
  <2> QED
    BY <1>2, <2>1 DEF FirstWord, AfterWord
<1>3. CASE Word(s) # 0
  <2>1. Word(s) \in Nat \ {0} /\ Word(s) - 1 \in Int /\ Word(s) - 1 <= Len(s) /\ 1 \in Nat \ {0}
    BY <1>1, <1>3
  <2>2. SubSeq(s, 1, Word(s) - 1) \in Seq(S)
    BY <2>1, SubSeqIn
  <2>3. Rest(s, Word(s)) \in Seq(S)
    BY <2>1, RestType
  <2> QED
    BY <1>3, <2>2, <2>3 DEF FirstWord, AfterWord
<1> QED
  BY <1>2, <1>3

\* Every path that a line names is one that FatFs can be given.
LEMMA NamedPaths ==
  ASSUME NEW line \in Seq(Symbols), cwd \in Seq(Symbols)
  PROVE  /\ Given(Operand(line)) /\ Given(File(line)) /\ Given(Target(line))
         /\ \A n \in Nat \ {0} :
                Given(follow_path(path_join(cwd, TrimmedEnd(Trimmed(Rest(line, n))))))
<1>1. \A in \in Seq(Symbols) : Given(follow_path(path_join(cwd, in)))
  BY PathFits, FollowedIsGiven
<1>2. ArgOf(line) \in Seq(Symbols)
  <2>1. Rest(line, 3) \in Seq(Symbols)
    BY RestType
  <2> QED
    BY <2>1, TrimmedType DEF ArgOf
<1>3. FirstWord(ArgOf(line)) \in Seq(Symbols) /\ AfterWord(ArgOf(line)) \in Seq(Symbols)
  BY <1>2, WordTypes
<1>4. SecondWord(line) \in Seq(Symbols)
  <2>1. Trimmed(AfterWord(ArgOf(line))) \in Seq(Symbols)
    BY <1>3, TrimmedType
  <2> QED
    BY <2>1, WordTypes DEF SecondWord
<1>5. ASSUME NEW n \in Nat \ {0}
      PROVE  TrimmedEnd(Trimmed(Rest(line, n))) \in Seq(Symbols)
  <2>1. Rest(line, n) \in Seq(Symbols)
    BY RestType
  <2>2. Trimmed(Rest(line, n)) \in Seq(Symbols)
    BY <2>1, TrimmedType
  <2> QED
    BY <2>2, TrimmedEndType
<1> QED
  BY <1>1, <1>2, <1>3, <1>4, <1>5 DEF Operand, File, Target

-----------------------------------------------------------------------------
(* The calls of FatFs are commands of FileTree *)

FTP == INSTANCE FileTreeProofs WITH durable <- tree, Trees <- DOMAIN Prepared

\* The operators on sequences are the same in every module.
LEMMA SameWords ==
  /\ \A s : FTP!Front(s) = Front(s) /\ FT!Front(s) = Front(s)
  /\ \A s : FTP!Prefixes(s) = Prefixes(s) /\ FT!Prefixes(s) = Prefixes(s)
  /\ \A s, t : FTP!IsPrefix(s, t) = IsPrefix(s, t) /\ FT!IsPrefix(s, t) = IsPrefix(s, t)
BY DEF FTP!Front, FT!Front, Front, FTP!Prefixes, FT!Prefixes, Prefixes, FTP!IsPrefix, FT!IsPrefix,
       IsPrefix

\* The volume is a tree of files and directories.
OfNodes(t) == t \in [DOMAIN t -> Nodes]
VolumeInv == FTP!Good(tree, Names) /\ OfNodes(tree)

\* A path that can be in the tree, and is short enough to be named in a line.
Nameable(p) == p \in Seq(Names) /\ 2 * Len(p) < PathMax

LEMMA PlaceIsNameable ==
  ASSUME NEW p, Given(p), VolumeInv, HasPlace(p)
  PROVE  Nameable(p)
<1>1. p \in Seq(Names \cup {Invalid}) /\ 2 * Len(p) < PathMax
  BY DEF Given
<1>2. p # <<>> /\ Last(p) # Invalid /\ Front(p) \in Seq(Names)
  BY DEF HasPlace, IsDir, VolumeInv, FTP!Good
<1>3. PICK n \in Nat \ {0} : n = Len(p)
  BY <1>1, <1>2, EmptySeq
<1>4. n \in 1 .. Len(p) /\ SubSeq(p, 1, n) = p
  BY <1>1, <1>3, SubSeqFull
<1>5. p = Append(Front(p), Last(p))
  BY <1>1, <1>3, <1>4, FirstAndNext DEF Front, Last
<1>6. Last(p) \in Names
  BY <1>1, <1>2, <1>3, <1>4 DEF Last
<1>7. Append(Front(p), Last(p)) \in Seq(Names)
  BY <1>2, <1>6, AppendProperties
<1> QED
  BY <1>1, <1>5, <1>7 DEF Nameable

LEMMA MkdirStep ==
  ASSUME NEW p, Given(p), VolumeInv, tree' = f_mkdir(p)
  PROVE  tree' = tree \/ (Nameable(p) /\ FTP!Mkdir(p))
<1>1. CASE HasPlace(p) /\ p \notin DOMAIN tree
  <2>1. FTP!Mkdir(p)
    BY <1>1, SameWords DEF f_mkdir, HasPlace, IsDir, FT!With, FT!DirNode, FTP!Mkdir, FTP!Command, FTP!Exists,
                FTP!HasPlace, FTP!IsDir, FTP!With, FTP!DirNode
  <2> QED
    BY <1>1, <2>1, PlaceIsNameable
<1> QED
  BY <1>1 DEF f_mkdir

LEMMA UnlinkStep ==
  ASSUME NEW p, Given(p), VolumeInv, tree' = f_unlink(p)
  PROVE  tree' = tree \/ (Nameable(p) /\ FTP!Delete(p))
<1>1. CASE p # <<>> /\ p \in DOMAIN tree /\ FT!Under(p) = {p}
  <2>1. FTP!Delete(p)
    BY <1>1, SameWords DEF f_unlink, FT!Under, FT!Without, FTP!Delete, FTP!Command, FTP!Exists, FTP!Under,
                FTP!Without
  <2>2. Nameable(p)
    BY <1>1 DEF Given, Nameable, VolumeInv, FTP!Good
  <2> QED
    BY <2>1, <2>2
<1> QED
  BY <1>1 DEF f_unlink

LEMMA StoreStep ==
  ASSUME NEW p, Given(p), VolumeInv, NEW old, NEW d \in Seq(Symbols),
         tree' = Stored(p, old \o d)
  PROVE  tree' = tree \/ (Nameable(p) /\ FTP!Put(p, old, d))
<1>1. CASE HasPlace(p) /\ ~IsDir(p)
  <2>1. d \in Prefixes(d)
    <3>1. d = SubSeq(d, 1, Len(d)) /\ Len(d) \in 0 .. Len(d)
      BY SubSeqFull
    <3> QED
      BY <3>1 DEF Prefixes
  <2>2. tree' = FTP!With(p, FTP!FileNode(old \o d))
    BY <1>1 DEF Stored, FT!With, FT!FileNode, FTP!With, FTP!FileNode
  <2>3. FTP!HasPlace(p) /\ ~FTP!IsDir(p)
    BY <1>1, SameWords DEF HasPlace, IsDir, FTP!HasPlace, FTP!IsDir, FTP!Exists
  <2>4. FTP!Put(p, old, d)
    BY <2>1, <2>2, <2>3, SameWords DEF FTP!Put, FTP!Command
  <2> QED
    BY <1>1, <2>4, PlaceIsNameable
<1> QED
  BY <1>1 DEF Stored

LEMMA TouchStep ==
  ASSUME NEW p, Given(p), VolumeInv, tree' = Touched(p)
  PROVE  tree' = tree \/ (Nameable(p) /\ FTP!Touch(p))
<1>1. CASE HasPlace(p) /\ p \in DOMAIN tree /\ ~IsDir(p)
  <2>1. tree[p] \in Nodes /\ tree[p].dir = FALSE
    BY <1>1 DEF VolumeInv, OfNodes, IsDir, Nodes
  <2>2. tree[p] = FT!FileNode(tree[p].data)
    BY <2>1 DEF Nodes, FT!FileNode
  <2>3. tree' = [q \in DOMAIN tree \cup {p} |-> IF q = p THEN tree[p] ELSE tree[q]]
    BY <1>1, <2>2 DEF Touched, Stored, Contents, IsFile, IsDir, FT!With
  <2>4. tree' = tree
    BY <1>1, <2>3 DEF VolumeInv, OfNodes
  <2> QED
    BY <2>4
<1>2. CASE HasPlace(p) /\ p \notin DOMAIN tree
  <2>1. tree' = FTP!With(p, FTP!FileNode(<<>>))
    BY <1>2 DEF Touched, Stored, Contents, IsFile, IsDir, FT!With, FT!FileNode, FTP!With, FTP!FileNode
  <2>2. FTP!Touch(p)
    BY <1>2, <2>1, SameWords DEF HasPlace, IsDir, FTP!Touch, FTP!Command, FTP!Exists, FTP!HasPlace, FTP!IsDir
  <2> QED
    BY <1>2, <2>2, PlaceIsNameable
<1>3. CASE ~HasPlace(p) \/ IsDir(p)
  BY <1>3 DEF Touched, Stored
<1> QED
  BY <1>1, <1>2, <1>3

\* A file has nothing under it, so that it is not moved below itself either.
LEMMA RenameStep ==
  ASSUME NEW p, NEW q, Given(p), Given(q), VolumeInv, tree' = f_rename(p, q),
         IsDir(p) => ~IsPrefix(p, q)
  PROVE  tree' = tree \/ (Nameable(p) /\ Nameable(q) /\ FTP!Move(p, q))
<1>1. CASE p # <<>> /\ p \in DOMAIN tree /\ HasPlace(q) /\ q \notin DOMAIN tree
  <2>1. Nameable(p) /\ Nameable(q)
    BY <1>1, PlaceIsNameable DEF Given, Nameable, VolumeInv, FTP!Good
  <2>2. ~IsPrefix(p, q)
    <3> SUFFICES ASSUME IsPrefix(p, q) PROVE FALSE
      OBVIOUS
    <3>1. p \in Seq(Names) /\ q \in Seq(Names)
      BY <2>1 DEF Nameable
    <3>2. Len(p) <= Len(q) /\ p = SubSeq(q, 1, Len(p))
      BY <3>1, FTP!PrefixIs, SameWords
    <3>3. q # <<>> /\ Front(q) \in DOMAIN tree /\ tree[Front(q)].dir
      BY <1>1 DEF HasPlace, IsDir
    <3>4. ~tree[p].dir
      BY <1>1 DEF IsDir
    <3>5. PICK n \in Nat : n = Len(q) - 1
      <4>1. Len(q) \in Nat \ {0}
        BY <3>1, <3>3, EmptySeq
      <4> QED
        BY <4>1
    <3>6. Len(p) # Len(q)
      BY <1>1, <3>1, <3>2, SubSeqFull
    <3>10. Len(p) \in Nat /\ Len(q) \in Nat
      BY <3>1
    <3>11. Len(p) <= Len(q)
      BY <3>2
    <3>7. Len(p) \in Nat /\ Len(q) \in Nat /\ Len(p) <= n
      BY <3>5, <3>6, <3>10, <3>11
    <3>8. CASE Len(p) = n
      BY <3>2, <3>3, <3>4, <3>5, <3>8 DEF Front
    <3>9. CASE Len(p) # n
      <4>1. n \in 0 .. Len(q) /\ Len(p) \in 0 .. n
        BY <3>5, <3>7
      <4>2. Len(Front(q)) = n /\ SubSeq(Front(q), 1, Len(p)) = SubSeq(q, 1, Len(p))
        BY <3>1, <3>5, <4>1, FTP!Beginning, FTP!BeginningOfBeginning DEF Front
      <4>3. Len(p) \in 0 .. Len(Front(q)) - 1
        BY <3>7, <3>9, <4>2
      <4>4. tree[SubSeq(Front(q), 1, Len(p))].dir
        BY <3>3, <4>3 DEF VolumeInv, FTP!Good, FTP!IsTree
      <4> QED
        BY <3>2, <3>4, <4>2, <4>4
    <3> QED
      BY <3>8, <3>9
  <2>3. FTP!Move(p, q)
    <3>1. FTP!HasPlace(q) /\ FTP!Exists(p) /\ ~FTP!Exists(q)
      BY <1>1, SameWords DEF HasPlace, IsDir, FTP!HasPlace, FTP!IsDir, FTP!Exists
    <3>2. tree' = [r \in (DOMAIN tree \ FTP!Under(p)) \cup {FTP!Moved(p, q, s) : s \in FTP!Under(p)} |->
                      IF IsPrefix(q, r) THEN tree[FTP!Moved(q, p, r)] ELSE tree[r]]
      BY <1>1, SameWords DEF f_rename, FT!Under, FT!Moved, FTP!Under, FTP!Moved
    <3> QED
      BY <1>1, <2>2, <3>1, <3>2, SameWords DEF FTP!Move, FTP!Command
  <2> QED
    BY <2>1, <2>3
<1> QED
  BY <1>1 DEF f_rename

-----------------------------------------------------------------------------
(* A command keeps the volume a tree *)

LEMMA PlacedNodes ==
  ASSUME VolumeInv, NEW p, NEW n \in Nodes
  PROVE  OfNodes(FTP!With(p, n)) /\ FTP!With(p, n) = FTP!Placed(tree, p, n)
<1>1. tree \in [DOMAIN tree -> Nodes]
  BY DEF VolumeInv, OfNodes
<1>2. [q \in DOMAIN tree \cup {p} |-> IF q = p THEN n ELSE tree[q]]
        \in [DOMAIN tree \cup {p} -> Nodes]
  BY <1>1
<1>3. FTP!With(p, n) \in [DOMAIN tree \cup {p} -> Nodes]
  BY <1>2 DEF FTP!With
<1> QED
  BY <1>3 DEF OfNodes, FTP!With, FTP!Placed

LEMMA NewKeeps ==
  ASSUME VolumeInv, NEW p \in Seq(Names), FTP!Mkdir(p) \/ FTP!Touch(p)
  PROVE  VolumeInv'
<1>1. p # <<>> /\ Front(p) \in DOMAIN tree /\ tree[Front(p)].dir /\ p \notin DOMAIN tree
  BY SameWords DEF FTP!Mkdir, FTP!Touch, FTP!HasPlace, FTP!IsDir, FTP!Exists
<1>2. PICK n \in Nodes : tree' = FTP!With(p, n)
  <2>1. FTP!DirNode \in Nodes /\ FTP!FileNode(<<>>) \in Nodes
    BY DEF FTP!DirNode, FTP!FileNode, Nodes
  <2> QED
    BY <2>1 DEF FTP!Mkdir, FTP!Touch
<1>3. FTP!Good(tree, Names)
  BY DEF VolumeInv
<1>4. FTP!Good(FTP!Placed(tree, p, n), Names)
  BY <1>1, <1>3, FTP!WithKeeps, SameWords
<1>5. OfNodes(tree') /\ FTP!Good(tree', Names)
  BY <1>2, <1>4, PlacedNodes
<1> QED
  BY <1>5 DEF VolumeInv, OfNodes, FTP!Good, FTP!IsTree

LEMMA PutKeeps ==
  ASSUME VolumeInv, NEW p \in Seq(Names), NEW old \in Seq(Symbols), NEW d \in Seq(Symbols),
         FTP!Put(p, old, d)
  PROVE  VolumeInv'
<1>1. FTP!Good(tree, Names)
  BY DEF VolumeInv
<1>2. FTP!Good(tree, Names)'
  BY <1>1, FTP!PutKeeps
<1>3. PICK e \in FTP!Prefixes(d) : tree' = FTP!With(p, FTP!FileNode(old \o e))
  BY DEF FTP!Put
<1>4. e \in Seq(Symbols)
  <2>1. PICK l \in 0 .. Len(d) : e = SubSeq(d, 1, l)
    BY DEF FTP!Prefixes
  <2> QED
    BY <2>1
<1>5. FTP!FileNode(old \o e) \in Nodes
  <2>1. old \o e \in Seq(Symbols)
    BY <1>4, ConcatProperties
  <2> QED
    BY <2>1 DEF FTP!FileNode, Nodes
<1>6. OfNodes(tree')
  BY <1>3, <1>5, PlacedNodes
<1> QED
  BY <1>2, <1>6 DEF VolumeInv, OfNodes

LEMMA DeleteKeeps ==
  ASSUME VolumeInv, NEW p \in Seq(Names), FTP!Delete(p)
  PROVE  VolumeInv'
<1>1. FTP!Good(tree, Names) /\ tree \in [DOMAIN tree -> Nodes]
  BY DEF VolumeInv, OfNodes
<1>2. p # <<>> /\ FTP!Under(p) = {p} /\ tree' = FTP!Without({p})
  BY DEF FTP!Delete
<1>3. FTP!Good(FTP!Without({p}), Names)
  BY <1>1, <1>2, FTP!WithoutKeeps
<1>4. OfNodes(FTP!Without({p}))
  BY <1>1 DEF OfNodes, FTP!Without
<1>5. OfNodes(tree') /\ FTP!Good(tree', Names)
  BY <1>2, <1>3, <1>4
<1> QED
  BY <1>5 DEF VolumeInv, OfNodes, FTP!Good, FTP!IsTree

LEMMA MoveKeeps ==
  ASSUME VolumeInv, NEW p \in Seq(Names), NEW q \in Seq(Names), FTP!Move(p, q)
  PROVE  VolumeInv'
<1>1. /\ FTP!Good(tree, Names) /\ tree \in [DOMAIN tree -> Nodes]
      /\ DOMAIN tree \subseteq Seq(Names)
  BY DEF VolumeInv, OfNodes, FTP!Good
<1>2. FTP!Good(tree, Names)'
  BY <1>1, FTP!MoveKeeps
<1> DEFINE D == (DOMAIN tree \ FTP!Under(p)) \cup {FTP!Moved(p, q, s) : s \in FTP!Under(p)}
<1>3. tree' = [r \in D |-> IF IsPrefix(q, r) THEN tree[FTP!Moved(q, p, r)] ELSE tree[r]]
  BY SameWords DEF FTP!Move
<1>4. q # <<>> /\ q \notin DOMAIN tree
  BY DEF FTP!Move, FTP!HasPlace, FTP!Exists
<1>5. ASSUME NEW s \in FTP!Under(p)
      PROVE  /\ IsPrefix(q, FTP!Moved(p, q, s))
             /\ tree[FTP!Moved(q, p, FTP!Moved(p, q, s))] \in Nodes
  <2>1. s \in DOMAIN tree /\ s \in Seq(Names) /\ FTP!IsPrefix(p, s)
    BY <1>1 DEF FTP!Under
  <2>2. /\ FTP!IsPrefix(q, FTP!Moved(p, q, s))
        /\ FTP!Moved(q, p, FTP!Moved(p, q, s)) = s
    BY <2>1, FTP!MovedPath
  <2> QED
    BY <1>1, <2>1, <2>2, SameWords
<1>6. ASSUME NEW r \in DOMAIN tree PROVE ~IsPrefix(q, r)
  <2> SUFFICES ASSUME IsPrefix(q, r) PROVE FALSE
    OBVIOUS
  <2>1. r \in Seq(Names)
    BY <1>1
  <2>2. Len(q) <= Len(r) /\ q = SubSeq(r, 1, Len(q))
    BY <2>1, FTP!PrefixIs, SameWords
  <2>3. Len(q) \in Nat /\ Len(r) \in Nat /\ Len(q) <= Len(r)
    BY <2>1, <2>2
  <2>4. CASE Len(q) = Len(r)
    BY <1>4, <2>1, <2>2, <2>4, SubSeqFull
  <2>5. CASE Len(q) # Len(r)
    <3>1. Len(q) \in 0 .. Len(r) - 1
      BY <2>3, <2>5
    <3>2. SubSeq(r, 1, Len(q)) \in DOMAIN tree
      BY <1>1, <3>1 DEF FTP!Good, FTP!IsTree
    <3> QED
      BY <1>4, <2>2, <3>2
  <2> QED
    BY <2>4, <2>5
<1>7. ASSUME NEW r \in D
      PROVE  (IF IsPrefix(q, r) THEN tree[FTP!Moved(q, p, r)] ELSE tree[r]) \in Nodes
  <2>1. CASE r \in DOMAIN tree
    BY <1>1, <1>6, <2>1
  <2>2. CASE r \in {FTP!Moved(p, q, s) : s \in FTP!Under(p)}
    BY <1>5, <2>2
  <2> QED
    BY <2>1, <2>2
<1>8. tree' \in [D -> Nodes]
  <2> HIDE DEF D
  <2> QED
    BY <1>3, <1>7
<1>9. OfNodes(tree')
  BY <1>8 DEF OfNodes
<1> QED
  BY <1>2, <1>9 DEF VolumeInv, OfNodes

-----------------------------------------------------------------------------
(* A line is one command *)

\* The text that a line stores in a file.
StoredText(line, d) ==
    \/ gt(line) # 0 /\ str_prefix(Redirected(line), <<"echo", " ">>) /\ d = Echoed(line)
    \/ gt(line) = 0 /\ (Is(line, "write") \/ Is(line, "append")) /\ d = Text(line)

OneCommand(line) ==
    \/ tree' = tree
    \/ \E p : Nameable(p) /\ (FTP!Mkdir(p) \/ FTP!Touch(p) \/ FTP!Delete(p))
    \/ \E p, d : Nameable(p) /\ StoredText(line, d) /\ (FTP!Write(p, d) \/ FTP!AppendTo(p, d))
    \/ \E p, q : Nameable(p) /\ Nameable(q) /\ (FTP!Copy(p, q) \/ FTP!Move(p, q))

LEMMA TextTypes ==
  ASSUME NEW line \in Seq(Symbols)
  PROVE  /\ gt(line) \in Nat
         /\ Text(line) \in Seq(Symbols) /\ Echoed(line) \in Seq(Symbols)
         /\ \A d : StoredText(line, d) => d \in Seq(Symbols)
<1>1. Front(line) \in Seq(Symbols)
  <2>1. 1 \in Nat \ {0} /\ Len(line) - 1 \in Int /\ Len(line) - 1 <= Len(line)
    OBVIOUS
  <2>2. SubSeq(line, 1, Len(line) - 1) \in Seq(Symbols)
    BY <2>1, SubSeqIn
  <2> QED
    BY <2>2 DEF Front
<1>2. gt(line) \in 0 .. Len(Front(line))
  <2> DEFINE I == {i \in 1 .. Len(Front(line)) : Front(line)[i] = ">"}
  <2>1. gt(line) = IF I # {} THEN Min(I) ELSE 0
    BY DEF gt, SelectInSeq
  <2>2. I \subseteq 1 .. Len(Front(line))
    OBVIOUS
  <2> HIDE DEF I
  <2>3. Len(Front(line)) \in Nat
    BY <1>1
  <2> QED
    BY <2>1, <2>2, <2>3, SelectedIndex
<1>3. gt(line) \in Nat
  BY <1>2
<1>4. "\n" \in Symbols
  BY ShellAssumption
<1>5. Text(line) \in Seq(Symbols)
  <2>1. Rest(line, 3) \in Seq(Symbols)
    BY RestType
  <2>2. ArgOf(line) \in Seq(Symbols)
    BY <2>1, TrimmedType DEF ArgOf
  <2>3. AfterWord(ArgOf(line)) \in Seq(Symbols)
    BY <2>2, WordTypes
  <2>4. Trimmed(AfterWord(ArgOf(line))) \in Seq(Symbols)
    BY <2>3, TrimmedType
  <2> QED
    BY <1>4, <2>4, AppendProperties DEF Text
<1>6. Echoed(line) \in Seq(Symbols)
  <2>1. gt(line) - 1 \in Int /\ gt(line) - 1 <= Len(line) /\ 1 \in Nat \ {0}
    <3>1. Len(Front(line)) <= Len(line)
      <4>1. 1 \in Nat \ {0} /\ Len(line) - 1 \in Int /\ Len(line) - 1 <= Len(line) /\ Len(line) \in Nat
        OBVIOUS
      <4>2. Len(SubSeq(line, 1, Len(line) - 1)) = IF 1 <= Len(line) - 1 THEN Len(line) - 1 - 1 + 1 ELSE 0
        BY <4>1, SubSeqIn
      <4> QED
        BY <4>1, <4>2 DEF Front
    <3>2. Len(Front(line)) \in Nat /\ Len(line) \in Nat
      BY <1>1
    <3> QED
      BY <1>2, <3>1, <3>2
  <2>2. SubSeq(line, 1, gt(line) - 1) \in Seq(Symbols)
    BY <2>1, SubSeqIn
  <2>3. Redirected(line) \in Seq(Symbols)
    BY <2>2, TrimmedEndType DEF Redirected
  <2>4. Rest(Redirected(line), 3) \in Seq(Symbols)
    BY <2>3, RestType
  <2> QED
    BY <1>4, <2>4, AppendProperties DEF Echoed
<1> QED
  BY <1>3, <1>5, <1>6 DEF StoredText

\* What a file holds, and what a new one does.
LEMMA ContentsType ==
  ASSUME VolumeInv, NEW p
  PROVE  /\ Contents(p) \in Seq(Symbols)
         /\ Contents(p) = IF FTP!IsFile(p) THEN tree[p].data ELSE <<>>
         /\ FTP!IsFile(p) <=> IsFile(p)
<1>1. IsFile(p) => tree[p] \in Nodes
  BY DEF IsFile, VolumeInv, OfNodes
<1>2. IsFile(p) => tree[p].data \in Seq(Symbols)
  BY <1>1 DEF Nodes
<1>3. <<>> \in Seq(Symbols)
  OBVIOUS
<1> QED
  BY <1>2, <1>3 DEF Contents, IsFile, FTP!IsFile, FTP!Exists

LEMMA WriteStep ==
  ASSUME NEW line, NEW p, Given(p), VolumeInv, NEW d \in Seq(Symbols), StoredText(line, d),
         tree' \in {Stored(p, d), Stored(p, Contents(p) \o d)}
  PROVE  OneCommand(line)
<1>1. CASE tree' = Stored(p, d)
  <2>1. <<>> \o d = d
    OBVIOUS
  <2>2. tree' = Stored(p, <<>> \o d)
    BY <1>1, <2>1
  <2>3. tree' = tree \/ (Nameable(p) /\ FTP!Put(p, <<>>, d))
    BY <2>2, StoreStep
  <2> QED
    BY <2>3 DEF OneCommand, FTP!Write
<1>2. CASE tree' = Stored(p, Contents(p) \o d)
  <2>1. tree' = tree \/ (Nameable(p) /\ FTP!Put(p, Contents(p), d))
    BY <1>2, StoreStep
  <2>2. FTP!Put(p, Contents(p), d) => FTP!AppendTo(p, d)
    BY ContentsType DEF FTP!AppendTo
  <2> QED
    BY <2>1, <2>2 DEF OneCommand
<1> QED
  BY <1>1, <1>2

LEMMA CopyStep ==
  ASSUME NEW p, NEW q, Given(p), Given(q), VolumeInv, tree' = Copied(p, q)
  PROVE  tree' = tree \/ (Nameable(p) /\ Nameable(q) /\ FTP!Copy(p, q))
<1>1. CASE IsFile(p)
  <2>1. FTP!IsFile(p) /\ Contents(p) = tree[p].data /\ Contents(p) \in Seq(Symbols)
    BY <1>1, ContentsType DEF Contents
  <2>2. PICK d \in Seq(Symbols) : d = tree[p].data
    BY <2>1
  <2>3. <<>> \o d = d
    OBVIOUS
  <2>4. tree' = Stored(q, <<>> \o d)
    BY <1>1, <2>2, <2>3 DEF Copied
  <2>5. tree' = tree \/ (Nameable(q) /\ FTP!Put(q, <<>>, d))
    BY <2>4, StoreStep
  <2>6. Nameable(p)
    BY <1>1 DEF IsFile, Given, Nameable, VolumeInv, FTP!Good
  <2> QED
    BY <2>1, <2>2, <2>5, <2>6 DEF FTP!Copy
<1>2. CASE ~IsFile(p)
  BY <1>2 DEF Copied
<1> QED
  BY <1>1, <1>2

LEMMA CommandStep ==
  ASSUME NEW line \in Seq(Symbols), VolumeInv, Resolved(cwd), gt(line) = 0, command(line)
  PROVE  OneCommand(line)
<1>1. cwd \in Seq(Symbols)
  BY DEF Resolved
<1>2. Given(Operand(line)) /\ Given(File(line)) /\ Given(Target(line))
  BY <1>1, NamedPaths
<1>3. CASE cmd_mkdir(line)
  <2>1. tree' = tree \/ tree' = f_mkdir(Operand(line))
    BY <1>3 DEF cmd_mkdir, OnFile, Does
  <2> QED
    BY <1>2, <2>1, MkdirStep DEF OneCommand
<1>4. CASE cmd_rmdir(line) \/ cmd_rm(line)
  <2>1. tree' = tree \/ tree' = f_unlink(Operand(line))
    BY <1>4 DEF cmd_rmdir, cmd_rm, OnFile, Does
  <2> QED
    BY <1>2, <2>1, UnlinkStep DEF OneCommand
<1>5. CASE cmd_touch(line)
  <2>1. tree' = tree \/ tree' = Touched(Operand(line))
    BY <1>5 DEF cmd_touch, OnFile, Does
  <2> QED
    BY <1>2, <2>1, TouchStep DEF OneCommand
<1>6. CASE cmd_cat(line) \/ head_file(line) \/ tail_file(line) \/ wc_file(line)
  BY <1>6 DEF cmd_cat, head_file, tail_file, wc_file, OfFile, OnFile, Does, OneCommand
<1>7. CASE cmd_write(line) \/ cmd_append(line)
  <2>1. StoredText(line, Text(line)) /\ Text(line) \in Seq(Symbols)
    BY <1>7, TextTypes DEF StoredText, cmd_write, cmd_append
  <2>2. tree' = tree \/ tree' \in {Stored(File(line), Text(line)),
                                   Stored(File(line), Contents(File(line)) \o Text(line))}
    BY <1>7 DEF cmd_write, cmd_append, Stores, Does
  <2>3. CASE tree' = tree
    BY <2>3 DEF OneCommand
  <2> QED
    BY <1>2, <2>1, <2>2, <2>3, WriteStep
<1>8. CASE cmd_cp(line)
  <2>1. tree' = tree \/ tree' = Copied(File(line), Target(line))
    BY <1>8 DEF cmd_cp, Moves, Does
  <2> QED
    BY <1>2, <2>1, CopyStep DEF OneCommand
<1>9. CASE cmd_mv(line)
  <2>1. \/ tree' = tree
        \/ /\ tree' = f_rename(File(line), Target(line))
           /\ IsDir(File(line)) => ~IsPrefix(File(line), Target(line))
    BY <1>9 DEF cmd_mv, Moves, Does
  <2> QED
    BY <1>2, <2>1, RenameStep DEF OneCommand
<1>10. CASE \/ cmd_echo(line) \/ cmd_pwd(line) \/ cmd_mount(line) \/ cmd_umount(line)
            \/ cmd_cd(line) \/ unknown(line)
  BY <1>10 DEF cmd_echo, cmd_pwd, cmd_mount, cmd_umount, cmd_cd, unknown, Does, OneCommand
<1> QED
  BY <1>3, <1>4, <1>5, <1>6, <1>7, <1>8, <1>9, <1>10 DEF command

LEMMA RedirectStep ==
  ASSUME NEW line \in Seq(Symbols), VolumeInv, Resolved(cwd), gt(line) # 0, redirect(line)
  PROVE  OneCommand(line)
<1>1. cwd \in Seq(Symbols)
  BY DEF Resolved
<1> DEFINE from == gt(line) + (IF Appends(line) THEN 2 ELSE 1)
           p == follow_path(path_join(cwd, TrimmedEnd(Trimmed(Rest(line, from)))))
<1>2. from \in Nat \ {0}
  BY TextTypes
<1>3. Given(p)
  <2> HIDE DEF from
  <2> QED
    BY <1>1, <1>2, NamedPaths
<1>4. \/ tree' = tree
      \/ /\ str_prefix(Redirected(line), <<"echo", " ">>)
         /\ tree' \in {Stored(p, Echoed(line)), Stored(p, Contents(p) \o Echoed(line))}
  BY DEF redirect, Does
<1> HIDE DEF p, from
<1>5. CASE tree' = tree
  BY <1>5 DEF OneCommand
<1>6. CASE tree' # tree
  <2>1. StoredText(line, Echoed(line)) /\ Echoed(line) \in Seq(Symbols)
    BY <1>4, <1>6, TextTypes DEF StoredText
  <2> QED
    BY <1>3, <1>4, <1>6, <2>1, WriteStep
<1> QED
  BY <1>5, <1>6

\* Of the commands, only cd sets the working directory, and to a resolved path.
LEMMA StateStep ==
  ASSUME NEW line \in Seq(Symbols), Resolved(cwd), Settled(cwd), fs_mounted \in BOOLEAN, shell_line(line)
  PROVE  Resolved(cwd)' /\ Settled(cwd)' /\ fs_mounted' \in BOOLEAN
<1>1. CASE cmd_cd(line) /\ gt(line) = 0
  <2> DEFINE arg == Trimmed(Rest(line, 2))
             in == IF arg = <<>> THEN <<"/">> ELSE arg
  <2>1. in \in Seq(Symbols)
    <3>1. Rest(line, 2) \in Seq(Symbols)
      BY RestType
    <3>2. arg \in Seq(Symbols)
      BY <3>1, TrimmedType
    <3>3. <<"/">> \in Seq(Symbols)
      BY ShellAssumption
    <3> QED
      BY <3>2, <3>3
  <2>2. (cwd' = cwd \/ cwd' = path_join(cwd, in)) /\ fs_mounted' = fs_mounted
    BY <1>1 DEF cmd_cd
  <2> HIDE DEF in
  <2>3. Resolved(path_join(cwd, in)) /\ Settled(path_join(cwd, in))
    BY <2>1, PathFits DEF Resolved
  <2>4. Resolved(cwd') /\ Settled(cwd')
    BY <2>2, <2>3
  <2> QED
    BY <2>2, <2>4 DEF Resolved, Settled
<1>2. CASE gt(line) # 0
  BY <1>2 DEF shell_line, redirect, Does, Resolved, Settled
<1>3. CASE gt(line) = 0 /\ ~cmd_cd(line)
  <2>1. cwd' = cwd /\ (fs_mounted' = fs_mounted \/ fs_mounted' \in BOOLEAN)
    BY <1>3 DEF shell_line, command, cmd_mkdir, cmd_rmdir, cmd_rm, cmd_touch, cmd_cat, head_file,
                tail_file, wc_file, cmd_write, cmd_append, cmd_cp, cmd_mv, cmd_echo, cmd_pwd,
                cmd_mount, cmd_umount, unknown, OnFile, OfFile, Stores, Moves, Does
  <2> QED
    BY <2>1 DEF Resolved, Settled
<1> QED
  BY <1>1, <1>2, <1>3

-----------------------------------------------------------------------------
(* Walking a path *)

(* From name to name *)

\* A name of a path as it is typed, and the places it leads to.
Places == Seq(Names \cup {Invalid})

LEMMA WalkToType ==
  ASSUME NEW here \in Places, NEW x \in NameSet
  PROVE  WalkTo(here, x) \in Places
<1>1. CASE x = "."
  BY <1>1 DEF WalkTo
<1>2. CASE x = ".."
  BY <1>2, FrontLast DEF WalkTo, Places
<1>3. CASE x \notin {".", ".."}
  <2>1. ShortName[x] \in Names \cup {Invalid}
    BY <1>3 DEF NameSet, Names
  <2>2. WalkTo(here, x) = Append(here, ShortName[x])
    BY <1>3 DEF WalkTo
  <2> QED
    BY <2>1, <2>2, AppendProperties DEF Places
<1> QED
  BY <1>1, <1>2, <1>3

WalkStep == [p \in Places \X NameSet |-> WalkTo(p[1], p[2])]
LEMMA WalkStepIs ==
  /\ IsStep(WalkStep, Places, NameSet)
  /\ \A here \in Places, x \in NameSet : WalkStep[<<here, x>>] = WalkTo(here, x)
<1>1. \A p \in Places \X NameSet : p[1] \in Places /\ p[2] \in NameSet
  OBVIOUS
<1>2. \A p \in Places \X NameSet : WalkTo(p[1], p[2]) \in Places
  BY <1>1, WalkToType
<1> QED
  BY <1>2 DEF IsStep, WalkStep

LEMMA WalkIs ==
  ASSUME NEW at \in Places, NEW names \in Seq(NameSet)
  PROVE  Walk(at, names) = Fold(WalkStep, at, names)
<1> DEFINE n == Len(names)
           R(f) == f = [k \in 0 .. n |-> IF k = 0 THEN at ELSE WalkTo(f[k - 1], names[k])]
<1>1. n \in Nat /\ \A k \in 1 .. n : names[k] \in NameSet
  OBVIOUS
<1>2. PICK g : IsFold(g, WalkStep, Places, at, names)
  BY WalkStepIs, FoldIs
<1>3. Walk(at, names) = (CHOOSE f : R(f))[n]
  BY DEF Walk
<1> HIDE DEF n
<1>4. R(g)
  <2>1. g \in [0 .. n -> Places] /\ g[0] = at /\ \A k \in 1 .. n : g[k] = WalkStep[<<g[k - 1], names[k]>>]
    BY <1>2 DEF IsFold, n
  <2>2. \A k \in 1 .. n : k - 1 \in 0 .. n
    BY <1>1
  <2>3. \A k \in 1 .. n : g[k] = WalkTo(g[k - 1], names[k])
    BY <1>1, <2>1, <2>2, WalkStepIs
  <2> QED
    BY <1>1, <2>1, <2>3
<1> DEFINE f == CHOOSE f : R(f)
<1>5. R(f)
  BY <1>4
<1> HIDE DEF f
<1>6. f[0] = at /\ \A k \in 1 .. n : f[k] = WalkTo(f[k - 1], names[k])
  BY <1>1, <1>5
<1>7. \A k \in 1 .. Len(names) : f[k - 1] \in Places => f[k] = WalkStep[<<f[k - 1], names[k]>>]
  BY <1>1, <1>6, WalkStepIs DEF n
<1>8. f[Len(names)] = Fold(WalkStep, at, names)
  BY <1>6, <1>7, WalkStepIs, FoldUnique
<1> QED
  BY <1>3, <1>8 DEF f, n

LEMMA WalkAppend ==
  ASSUME NEW at \in Places, NEW names \in Seq(NameSet), NEW x \in NameSet
  PROVE  /\ Walk(at, names) \in Places /\ Walk(at, <<>>) = at
         /\ Walk(at, Append(names, x)) = WalkTo(Walk(at, names), x)
<1>1. IsStep(WalkStep, Places, NameSet)
  BY WalkStepIs
<1>2. /\ Fold(WalkStep, at, names) \in Places
      /\ Fold(WalkStep, at, Append(names, x)) = WalkStep[<<Fold(WalkStep, at, names), x>>]
      /\ Fold(WalkStep, at, <<>>) = at
  BY <1>1, FoldAppend, FoldEmpty
<1>3. Append(names, x) \in Seq(NameSet) /\ <<>> \in Seq(NameSet)
  BY AppendProperties
<1>4. /\ Walk(at, names) = Fold(WalkStep, at, names) /\ Walk(at, <<>>) = Fold(WalkStep, at, <<>>)
      /\ Walk(at, Append(names, x)) = Fold(WalkStep, at, Append(names, x))
  BY <1>3, WalkIs
<1> QED
  BY <1>2, <1>4, WalkStepIs

\* How much of a path a name takes.
Adds(a, x) == a + (IF x \in Typed THEN SymbolLen[x] + 1 ELSE 0)
AddStep == [p \in Nat \X NameSet |-> Adds(p[1], p[2])]
LEMMA AddStepIs ==
  ASSUME Alphabet
  PROVE  /\ IsStep(AddStep, Nat, NameSet) /\ 0 \in Nat
         /\ \A a \in Nat, x \in NameSet : AddStep[<<a, x>>] = Adds(a, x)
<1>1. \A x \in NameSet : x \in Typed => SymbolLen[x] \in Nat
  BY ShellAssumption DEF Alphabet
<1>2. \A p \in Nat \X NameSet : p[1] \in Nat /\ p[2] \in NameSet
  OBVIOUS
<1>3. \A p \in Nat \X NameSet : Adds(p[1], p[2]) \in Nat
  BY <1>1, <1>2 DEF Adds
<1>4. IsStep(AddStep, Nat, NameSet)
  BY <1>3 DEF IsStep, AddStep
<1> QED
  BY <1>4 DEF AddStep

LEMMA LengthOfIs ==
  ASSUME Alphabet, NEW names \in Seq(NameSet)
  PROVE  LengthOf(names) = Fold(AddStep, 0, names)
<1> DEFINE n == Len(names)
           R(f) == f = [k \in 0 .. n |-> IF k = 0 THEN 0 ELSE Adds(f[k - 1], names[k])]
<1>1. n \in Nat /\ \A k \in 1 .. n : names[k] \in NameSet
  OBVIOUS
<1>2. PICK g : IsFold(g, AddStep, Nat, 0, names)
  BY AddStepIs, FoldIs
<1>3. LengthOf(names) = (CHOOSE f : R(f))[n]
  BY DEF LengthOf, Adds
<1> HIDE DEF n
<1>4. R(g)
  <2>1. g \in [0 .. n -> Nat] /\ g[0] = 0 /\ \A k \in 1 .. n : g[k] = AddStep[<<g[k - 1], names[k]>>]
    BY <1>2 DEF IsFold, n
  <2>2. \A k \in 1 .. n : k - 1 \in 0 .. n
    BY <1>1
  <2>3. \A k \in 1 .. n : g[k] = Adds(g[k - 1], names[k])
    BY <1>1, <2>1, <2>2, AddStepIs
  <2> QED
    BY <1>1, <2>1, <2>3
<1> DEFINE f == CHOOSE f : R(f)
<1>5. R(f)
  BY <1>4
<1> HIDE DEF f
<1>6. f[0] = 0 /\ \A k \in 1 .. n : f[k] = Adds(f[k - 1], names[k])
  BY <1>1, <1>5
<1>7. \A k \in 1 .. Len(names) : f[k - 1] \in Nat => f[k] = AddStep[<<f[k - 1], names[k]>>]
  BY <1>1, <1>6, AddStepIs DEF n
<1>8. f[Len(names)] = Fold(AddStep, 0, names)
  <2>1. PICK V, z : V = Nat /\ z = 0
    OBVIOUS
  <2>2. IsStep(AddStep, V, NameSet) /\ z \in V /\ f[0] = z
    BY <1>6, <2>1, AddStepIs
  <2>3. \A k \in 1 .. Len(names) : f[k - 1] \in V => f[k] = AddStep[<<f[k - 1], names[k]>>]
    BY <1>7, <2>1
  <2>4. f[Len(names)] = Fold(AddStep, z, names)
    BY <2>2, <2>3, FoldUnique
  <2> QED
    BY <2>1, <2>4
<1> QED
  BY <1>3, <1>8 DEF f, n

LEMMA LengthOfAppend ==
  ASSUME Alphabet, NEW names \in Seq(NameSet), NEW x \in NameSet
  PROVE  /\ LengthOf(names) \in Nat /\ LengthOf(<<>>) = 0
         /\ LengthOf(Append(names, x)) = Adds(LengthOf(names), x)
<1>1. PICK V, z : V = Nat /\ z = 0
  OBVIOUS
<1>5. IsStep(AddStep, V, NameSet) /\ z \in V
  BY <1>1, AddStepIs
<1>2. /\ Fold(AddStep, z, names) \in V
      /\ Fold(AddStep, z, Append(names, x)) = AddStep[<<Fold(AddStep, z, names), x>>]
      /\ Fold(AddStep, z, <<>>) = z
  BY <1>5, FoldAppend, FoldEmpty
<1>3. Append(names, x) \in Seq(NameSet) /\ <<>> \in Seq(NameSet)
  BY AppendProperties
<1>4. /\ LengthOf(names) = Fold(AddStep, 0, names) /\ LengthOf(<<>>) = Fold(AddStep, 0, <<>>)
      /\ LengthOf(Append(names, x)) = Fold(AddStep, 0, Append(names, x))
  BY <1>3, LengthOfIs
<1> QED
  BY <1>1, <1>2, <1>4, AddStepIs

\* Names as segments, and segments as FatFs takes them.
Shorts(segs) == [i \in DOMAIN segs |-> Short(segs[i])]

LEMMA SeggedAppend ==
  ASSUME NEW X, NEW names \in Seq(X), NEW x \in X
  PROVE  Segged(Append(names, x)) = Append(Segged(names), <<x>>) /\ Segged(<<>>) = <<>>
         /\ Len(Segged(names)) = Len(names)
<1>1. PICK n \in Nat : n = Len(names)
  OBVIOUS
<1>2. PICK e : e = Append(names, x)
  OBVIOUS
<1>3. e \in Seq(X) /\ Len(e) = n + 1 /\ e[n + 1] = x /\ \A i \in 1 .. n : e[i] = names[i]
  BY <1>1, <1>2, AppendProperties
<1>4. PICK W : W = {<<y>> : y \in X}
  OBVIOUS
<1>5. PICK a, b, y : a = Segged(names) /\ b = Segged(e) /\ y = <<x>>
  OBVIOUS
<1>6. /\ a = [i \in 1 .. n |-> <<names[i]>>] /\ \A i \in 1 .. n : names[i] \in X
      /\ b = [i \in 1 .. n + 1 |-> <<e[i]>>] /\ \A i \in 1 .. n + 1 : e[i] \in X
      /\ y \in W
  BY <1>1, <1>3, <1>4, <1>5 DEF Segged
<1>7. a \in Seq(W) /\ Len(a) = n /\ \A i \in 1 .. n : a[i] = <<names[i]>>
  BY <1>4, <1>6
<1>8. b \in Seq(W) /\ Len(b) = n + 1 /\ \A i \in 1 .. n + 1 : b[i] = <<e[i]>>
  BY <1>4, <1>6
<1>9. PICK c : c = Append(a, y)
  OBVIOUS
<1>10. c \in Seq(W) /\ Len(c) = n + 1 /\ c[n + 1] = y /\ \A i \in 1 .. n : c[i] = a[i]
  BY <1>6, <1>7, <1>9, AppendProperties
<1>11. \A i \in 1 .. n + 1 : b[i] = c[i]
  <2>1. ASSUME NEW i \in 1 .. n PROVE b[i] = c[i]
    <3>1. i \in 1 .. n + 1
      OBVIOUS
    <3> QED
      BY <1>3, <1>7, <1>8, <1>10, <3>1
  <2>2. b[n + 1] = c[n + 1]
    BY <1>3, <1>5, <1>8, <1>10
  <2> QED
    BY <2>1, <2>2
<1>12. b = c
  BY <1>8, <1>10, <1>11, SeqEqual
<1>13. Segged(<<>>) = <<>>
  BY DEF Segged
<1> QED
  BY <1>1, <1>2, <1>5, <1>7, <1>9, <1>12, <1>13

LEMMA ShortType ==
  ASSUME NEW x
  PROVE  Short(x) \in Names \cup {Invalid}
BY DEF Short, Names

LEMMA ShortsAppend ==
  ASSUME NEW X, NEW segs \in Seq(X), NEW x \in X
  PROVE  /\ Shorts(segs) \in Places /\ Shorts(<<>>) = <<>> /\ Len(Shorts(segs)) = Len(segs)
         /\ Shorts(Append(segs, x)) = Append(Shorts(segs), Short(x))
<1>1. PICK n \in Nat : n = Len(segs)
  OBVIOUS
<1>2. PICK e : e = Append(segs, x)
  OBVIOUS
<1>3. e \in Seq(X) /\ Len(e) = n + 1 /\ e[n + 1] = x /\ \A i \in 1 .. n : e[i] = segs[i]
  BY <1>1, <1>2, AppendProperties
<1>4. PICK W : W = Names \cup {Invalid}
  OBVIOUS
<1>5. PICK a, b, y : a = Shorts(segs) /\ b = Shorts(e) /\ y = Short(x)
  OBVIOUS
<1>6. /\ a = [i \in 1 .. n |-> Short(segs[i])] /\ b = [i \in 1 .. n + 1 |-> Short(e[i])] /\ y \in W
  BY <1>1, <1>3, <1>4, <1>5, ShortType DEF Shorts
<1>7. a \in Seq(W) /\ Len(a) = n /\ \A i \in 1 .. n : a[i] = Short(segs[i])
  BY <1>4, <1>6, ShortType
<1>8. b \in Seq(W) /\ Len(b) = n + 1 /\ \A i \in 1 .. n + 1 : b[i] = Short(e[i])
  BY <1>4, <1>6, ShortType
<1>9. PICK c : c = Append(a, y)
  OBVIOUS
<1>10. c \in Seq(W) /\ Len(c) = n + 1 /\ c[n + 1] = y /\ \A i \in 1 .. n : c[i] = a[i]
  BY <1>6, <1>7, <1>9, AppendProperties
<1>11. \A i \in 1 .. n + 1 : b[i] = c[i]
  <2>1. ASSUME NEW i \in 1 .. n PROVE b[i] = c[i]
    <3>1. i \in 1 .. n + 1
      OBVIOUS
    <3> QED
      BY <1>3, <1>7, <1>8, <1>10, <3>1
  <2>2. b[n + 1] = c[n + 1]
    BY <1>3, <1>5, <1>8, <1>10
  <2> QED
    BY <2>1, <2>2
<1>12. b = c
  BY <1>8, <1>10, <1>11, SeqEqual
<1>13. Shorts(<<>>) = <<>>
  BY DEF Shorts
<1> QED
  BY <1>1, <1>2, <1>4, <1>5, <1>7, <1>9, <1>12, <1>13 DEF Places

(* What path_join makes of a path that is written *)

LEMMA ShortsFront ==
  ASSUME NEW X, NEW segs \in Seq(X), segs # <<>>
  PROVE  Shorts(segs) # <<>> /\ Shorts(Front(segs)) = Front(Shorts(segs))
<1>1. PICK f \in Seq(X), z \in X : segs = Append(f, z) /\ Front(segs) = f
  BY FrontLast
<1>2. PICK s \in Places, p \in Names \cup {Invalid} : s = Shorts(f) /\ p = Short(z) /\ Shorts(segs) = Append(s, p)
  BY <1>1, ShortsAppend, ShortType
<1> QED
  BY <1>1, <1>2, FrontAppend DEF Places

\* Name by name, path_join's stack is where the names lead.
LEMMA WalkMatches ==
  ASSUME Alphabet, NEW P, P \subseteq Plain, \A x \in Typed : <<x>> \in P,
         NEW A \in Seq(P), NEW names \in Seq(NameSet),
         Length(Slashed(A)) + LengthOf(names) < PathMax
  PROVE  LET T == Taken(A \o Segged(names))
         IN /\ T \in Seq(P) /\ Shorts(T) = Walk(Shorts(A), names)
            /\ Length(Slashed(T)) <= Length(Slashed(A)) + LengthOf(names)
            /\ A \o Segged(names) \in Seq(P \cup Dots)
<1> DEFINE base == Length(Slashed(A))
           Good(m) == LET T == Taken(A \o Segged(m))
                      IN /\ T \in Seq(P) /\ Shorts(T) = Walk(Shorts(A), m)
                         /\ Length(Slashed(T)) <= base + LengthOf(m)
                         /\ A \o Segged(m) \in Seq(P \cup Dots)
           S == {m \in Seq(NameSet) : base + LengthOf(m) < PathMax => Good(m)}
<1>1. A \in Seq(Segs) /\ A \in Seq(P \cup Dots) /\ Shorts(A) \in Places /\ base \in Nat /\ 2 * Len(A) <= base
  <2>1. A \in Seq(Segs)
    BY SeqMonotonic DEF Plain
  <2>2. A \in Seq(P \cup Dots)
    BY SeqMonotonic
  <2>3. Shorts(A) \in Places
    <3>1. CASE A = <<>>
      <4>1. Shorts(A) = <<>> /\ <<>> \in Places
        BY <3>1 DEF Shorts, Places
      <4> QED
        BY <4>1
    <3>2. CASE A # <<>>
      <4>1. Last(A) \in P
        BY <3>2, FrontLast
      <4> QED
        BY <4>1, ShortsAppend
    <3> QED
      BY <3>1, <3>2
  <2> QED
    BY <2>1, <2>2, <2>3, PathLengths, SegmentsFit
<1>2. PathMax \in Nat /\ SegMax \in Nat /\ PathMax <= 2 * SegMax
  BY ShellAssumption DEF Alphabet
<1>3. <<>> \in S
  <2> SUFFICES ASSUME base + LengthOf(<<>>) < PathMax PROVE Good(<<>>)
    OBVIOUS
  <2>1. LengthOf(<<>>) = 0 /\ Walk(Shorts(A), <<>>) = Shorts(A)
    <3>1. <<>> \in Seq(NameSet) /\ "." \in NameSet
      BY DEF NameSet
    <3> QED
      BY <1>1, <3>1, LengthOfAppend, WalkAppend
  <2>2. Segged(<<>>) = <<>> /\ A \o <<>> = A
    BY ConcatEmptySeq DEF Segged
  <2>3. Len(A) <= SegMax
    BY <1>1, <1>2, <2>1
  <2>4. P \cap Dots = {}
    BY DEF Plain
  <2>5. Taken(A) = A
    BY <2>3, <2>4, TakenPlain
  <2>6. A \o Segged(<<>>) = A
    BY <2>2
  <2>7. base <= base + LengthOf(<<>>)
    BY <1>1, <2>1
  <2>8. A \in Seq(P) /\ A \in Seq(P \cup Dots)
    BY <1>1
  <2> QED
    BY <2>1, <2>5, <2>6, <2>7, <2>8
<1>4. ASSUME NEW m \in Seq(NameSet), NEW x \in NameSet, m \in S PROVE Append(m, x) \in S
  <2>1. PICK m2 \in Seq(NameSet) : m2 = Append(m, x)
    BY AppendProperties
  <2>2. SUFFICES ASSUME base + LengthOf(m2) < PathMax PROVE Good(m2)
    BY <2>1
  <2>3. LengthOf(m) \in Nat /\ LengthOf(m2) = Adds(LengthOf(m), x)
    BY <2>1, LengthOfAppend
  <2>4. x \in Typed => x \in Symbols /\ SymbolLen[x] \in Nat \ {0} /\ x \notin {".", ".."}
    BY ShellAssumption DEF Alphabet
  <2>5. base + LengthOf(m) < PathMax
    <3>1. CASE x \in Typed
      BY <1>1, <1>2, <2>2, <2>3, <2>4, <3>1 DEF Adds
    <3>2. CASE x \notin Typed
      BY <1>1, <1>2, <2>2, <2>3, <3>2 DEF Adds
    <3> QED
      BY <3>1, <3>2
  <2>6. PICK w, T : w = A \o Segged(m) /\ T = Taken(w)
    OBVIOUS
  <2>7. /\ w \in Seq(P \cup Dots) /\ T \in Seq(P) /\ Shorts(T) = Walk(Shorts(A), m)
        /\ Length(Slashed(T)) <= base + LengthOf(m)
    BY <1>4, <2>5, <2>6
  <2>8. PICK y : y = <<x>>
    OBVIOUS
  <2>9. y \in P \cup Dots /\ (x \in Typed => y \in P \ Dots)
    <3>1. x = "." \/ x = ".." \/ x \in Typed
      BY DEF NameSet
    <3>2. P \cap Dots = {}
      BY DEF Plain
    <3> QED
      BY <2>8, <3>1, <3>2 DEF Dots
  <2>10. A \o Segged(m2) = Append(w, y) /\ Append(w, y) \in Seq(P \cup Dots)
    <3>1. PICK X : X = Seq(NameSet)
      OBVIOUS
    <3>2. PICK sm : sm = Segged(m)
      OBVIOUS
    <3>3. Segged(m2) = Append(sm, y)
      BY <2>1, <2>8, <3>2, SeggedAppend
    <3>4. PICK Y : Y = {<<z>> : z \in NameSet} \cup P
      OBVIOUS
    <3>5. sm \in Seq(Y) /\ y \in Y /\ A \in Seq(Y)
      <4>1. \A i \in 1 .. Len(m) : m[i] \in NameSet
        OBVIOUS
      <4>2. sm = [i \in 1 .. Len(m) |-> <<m[i]>>]
        BY <3>2 DEF Segged
      <4>3. sm \in [1 .. Len(m) -> Y]
        BY <3>4, <4>1, <4>2
      <4>4. sm \in Seq(Y)
        BY <4>3, SMTT(60)
      <4> QED
        BY <2>8, <3>4, <4>4, SeqMonotonic
    <3>6. A \o Append(sm, y) = Append(A \o sm, y)
      BY <3>5, ConcatAppend
    <3> QED
      BY <2>6, <2>7, <2>9, <3>2, <3>3, <3>6, AppendProperties
  <2>11. Taken(Append(w, y)) = TakeSeg(T, y)
    BY <2>6, <2>7, <2>9, TakenAppend
  <2>12. Walk(Shorts(A), m2) = WalkTo(Shorts(T), x) /\ Shorts(T) \in Places
    BY <1>1, <2>1, <2>7, WalkAppend
  <2>13. PICK T2 : T2 = TakeSeg(T, y)
    OBVIOUS
  <2>14. SUFFICES /\ T2 \in Seq(P) /\ Shorts(T2) = WalkTo(Shorts(T), x)
                  /\ Length(Slashed(T2)) <= base + LengthOf(m2)
    BY <2>10, <2>11, <2>12, <2>13
  <2>15. T \in Seq(Segs) /\ Length(Slashed(T)) \in Nat /\ 2 * Len(T) <= Length(Slashed(T)) /\ Len(T) \in Nat
    <3>1. T \in Seq(Segs)
      BY <2>7, SeqMonotonic DEF Plain
    <3> QED
      BY <3>1, PathLengths, SegmentsFit
  <2>16. CASE x = "."
    <3>1. T2 = T /\ WalkTo(Shorts(T), x) = Shorts(T)
      BY <2>8, <2>13, <2>16 DEF TakeSeg, WalkTo
    <3>2. x \notin Typed
      BY <2>16 DEF Alphabet
    <3> QED
      BY <2>3, <2>7, <3>1, <3>2 DEF Adds
  <2>17. CASE x = ".."
    <3>1. T2 = PopSeg(T)
      <4>1. y # <<".">> /\ y = <<"..">>
        BY <2>8, <2>17
      <4> QED
        BY <2>13, <4>1 DEF TakeSeg
    <3>2. WalkTo(Shorts(T), x) = IF Shorts(T) = <<>> THEN Shorts(T) ELSE Front(Shorts(T))
      BY <2>17 DEF WalkTo
    <3>3. LengthOf(m2) = LengthOf(m)
      <4>1. x \notin Typed
        BY <2>17 DEF Alphabet
      <4> QED
        BY <2>3, <4>1 DEF Adds
    <3>4. CASE T = <<>>
      <4>1. Shorts(T) = <<>> /\ T2 = T
        BY <3>1, <3>4 DEF Shorts, PopSeg
      <4> QED
        BY <2>7, <3>2, <3>3, <4>1
    <3>5. CASE T # <<>>
      <4>1. PICK f \in Seq(P), z \in P : f = Front(T) /\ T = Append(f, z)
        BY <2>7, <3>5, FrontLast
      <4>2. T2 = f
        <5>1. Len(T) > 0
          BY <2>15, <3>5, EmptySeq
        <5> QED
          BY <3>1, <4>1, <5>1 DEF PopSeg
      <4>3. Shorts(T) # <<>> /\ Shorts(f) = Front(Shorts(T))
        BY <2>7, <3>5, <4>1, ShortsFront
      <4>4. f \in Seq(Seq(Symbols)) /\ z \in Seq(Symbols) /\ f \in Seq(Segs)
        <5>1. f \in Seq(Segs)
          BY SeqMonotonic DEF Plain
        <5> QED
          BY <5>1, SegsAreSymbols DEF Plain, Segs
      <4>5. Length(Slashed(T)) = Length(Slashed(f)) + (Length(z) + 1) /\ Length(z) \in Nat
            /\ Length(Slashed(f)) \in Nat
        BY <4>1, <4>4, SlashedAppend, LengthType, PathLengths
      <4>6. Length(Slashed(f)) <= Length(Slashed(T))
        BY <4>5
      <4>7. Length(Slashed(f)) <= base + LengthOf(m2)
        BY <1>1, <2>3, <2>7, <2>15, <3>3, <4>5, <4>6, SMTT(60)
      <4> QED
        BY <3>2, <4>2, <4>3, <4>7
    <3> QED
      BY <3>4, <3>5
  <2>18. CASE x \in Typed
    <3>1. LengthOf(m2) = LengthOf(m) + (SymbolLen[x] + 1)
      BY <2>3, <2>18 DEF Adds
    <3>2. Len(T) < SegMax
      BY <1>1, <1>2, <2>2, <2>3, <2>4, <2>7, <2>15, <2>18, <3>1, SMTT(60)
    <3>3. T2 = Append(T, y)
      BY <2>9, <2>13, <2>18, <3>2 DEF TakeSeg, Dots
    <3>4. T2 \in Seq(P) /\ Shorts(T2) = Append(Shorts(T), Short(y))
      BY <2>7, <2>9, <2>18, <3>3, ShortsAppend, AppendProperties
    <3>5. Short(y) = ShortName[x]
      BY <2>8, <2>18 DEF Short
    <3>6. WalkTo(Shorts(T), x) = Append(Shorts(T), ShortName[x])
      BY <2>4, <2>18 DEF WalkTo
    <3>7. y \in Seq(Symbols) /\ Length(y) = SymbolLen[x] /\ T \in Seq(Seq(Symbols))
      BY <2>4, <2>8, <2>15, <2>18, LengthOne, SegsAreSymbols
    <3>8. Length(Slashed(T2)) = Length(Slashed(T)) + (SymbolLen[x] + 1)
      BY <3>3, <3>7, SlashedAppend
    <3>9. Length(Slashed(T2)) <= base + LengthOf(m2)
      BY <1>1, <2>3, <2>4, <2>7, <2>15, <2>18, <3>1, <3>8, SMTT(60)
    <3> QED
      BY <3>4, <3>5, <3>6, <3>9
  <2> QED
    BY <2>16, <2>17, <2>18 DEF NameSet
<1> HIDE DEF S
<1>5. names \in S
  BY <1>3, <1>4, SeqInduction
<1> QED
  BY <1>5 DEF S

Inked == Symbols \ {" "}
Blank == {" "}
Dry == {x \in Plain : x \in Seq(Inked)}

LEMMA SpelledType ==
  ASSUME Alphabet, NEW s, NEW arg, Spells(s, arg)
  PROVE  s \in Seq(Symbols) /\ s \in Seq(Inked) /\ arg.names \in Seq(NameSet)
<1>1. NameSet \cup {"/"} \subseteq Inked /\ Inked \subseteq Symbols
  BY ShellAssumption DEF Alphabet, NameSet, Inked
<1>2. s \in Seq(NameSet \cup {"/"})
  BY DEF Spells
<1>3. s \in Seq(Inked)
  BY <1>1, <1>2, SeqMonotonic
<1>4. s \in Seq(Symbols)
  BY <1>1, <1>3, SeqMonotonic
<1> QED
  BY <1>3, <1>4 DEF Spells

\* A segment that may go on ends the path.
LEMMA FoundOpen ==
  ASSUME NEW w \in Seq(Symbols)
  PROVE  ~Found(w).open => Closed(w)
<1>1. CASE w = <<>>
  BY <1>1 DEF Closed
<1>2. CASE w # <<>>
  <2>1. PICK v \in Seq(Symbols), c \in Symbols : w = Append(v, c) /\ Last(w) = c
    BY <1>2, FrontLast
  <2>2. Found(w) = SegChar(Found(v), c)
    BY <2>1, FoundAppend
  <2>3. c # "/" => Found(w).open
    BY <2>2 DEF SegChar
  <2> QED
    BY <2>1, <2>3 DEF Closed
<1> QED
  BY <1>1, <1>2

\* The name that ends a path is a segment alone.
LEMMA LastName ==
  ASSUME Alphabet, NEW s \in Seq(Symbols), s # <<>>, Last(s) \in Typed,
         NEW names \in Seq(NameSet), Segments(s) = Segged(names)
  PROVE  \E w \in Seq(Symbols), n0 \in Seq(NameSet), a \in Typed :
            /\ s = Append(w, a) /\ Closed(w)
            /\ names = Append(n0, a) /\ Segments(w) = Segged(n0)
<1>1. PICK w \in Seq(Symbols), a \in Typed : s = Append(w, a) /\ a \in Symbols /\ a # "/"
  BY FrontLast DEF Alphabet
<1>2. PICK segs \in Seq(Segs), open \in BOOLEAN :
          Found(w) = [segs |-> segs, open |-> open] /\ (open => segs # <<>>)
  BY FoundAppend DEF SegStates
<1>3. Found(s) = SegChar(Found(w), a) /\ Segments(s) = Found(s).segs /\ Segments(w) = segs
  <2>1. Segments(w) = Found(w).segs
    BY SegmentsAre
  <2>2. Found(Append(w, a)) = SegChar(Found(w), a)
    BY <1>1, FoundAppend
  <2>3. Segments(s) = Found(s).segs
    BY SegmentsAre
  <2>4. Segments(w) = segs
    BY <1>2, <2>1
  <2> QED
    BY <1>1, <2>2, <2>3, <2>4
<1>4. Segged(names) \in Seq(Segs) /\ \A i \in 1 .. Len(names) : Segged(names)[i] = <<names[i]>>
  <2>1. Segged(names) \in Seq(Segs)
    BY SegmentsType
  <2> QED
    BY <2>1 DEF Segged
<1>5. CASE open
  <2>1. PICK f \in Seq(Segs), z \in Segs : f = Front(segs) /\ z = Last(segs)
    BY <1>2, <1>5, FrontLast
  <2>2. PICK y \in Segs : y = Append(z, a)
    BY <1>1, AppendToSeg DEF Segs
  <2>3. Segments(s) = Append(f, y)
    BY <1>1, <1>2, <1>3, <1>5, <2>1, <2>2 DEF SegChar
  <2>4. PICK k \in 1 .. Len(names) : Segged(names)[k] = y
    <3>1. Append(f, y) \in Seq(Segs) /\ Len(Append(f, y)) = Len(f) + 1
          /\ Append(f, y)[Len(f) + 1] = y /\ Len(f) \in Nat
      BY AppendProperties
    <3>2. Len(Segged(names)) = Len(names)
      BY DEF Segged
    <3>3. Len(f) + 1 \in 1 .. Len(names)
      BY <2>3, <3>1, <3>2
    <3> QED
      BY <2>3, <3>1, <3>3
  <2>5. Len(y) = 1
    <3>1. y = <<names[k]>>
      BY <1>4, <2>4
    <3> QED
      BY <3>1
  <2>6. Len(y) = Len(z) + 1 /\ Len(z) \in Nat /\ Len(z) # 0
    BY <1>1, <2>2, AppendProperties, EmptySeq DEF Segs
  <2>7. FALSE
    <3>1. PICK ly, lz : ly = Len(y) /\ lz = Len(z)
      OBVIOUS
    <3>2. ly = 1 /\ ly = lz + 1 /\ lz \in Nat /\ lz # 0
      BY <2>5, <2>6, <3>1
    <3> QED
      BY <3>2
  <2> QED
    BY <2>7
<1>6. CASE ~open
  <2>1. PICK y : y = <<a>>
    OBVIOUS
  <2>2. Segments(s) = Append(segs, y)
    BY <1>1, <1>2, <1>3, <1>6, <2>1 DEF SegChar
  <2>3. names # <<>>
    <3>1. names = <<>> => Segged(names) = <<>>
      BY DEF Segged
    <3>2. y \in Segs
      <4>1. y = Append(<<>>, a) /\ <<>> \in Seq(Symbols) /\ ~HasSlash(<<>>)
        BY <2>1 DEF HasSlash
      <4> QED
        BY <1>1, <4>1, AppendToSeg
    <3> QED
      BY <2>2, <3>1, <3>2, FrontAppend
  <2>4. PICK n0 \in Seq(NameSet), b \in NameSet : names = Append(n0, b)
    BY <2>3, FrontLast
  <2>5. Segged(names) = Append(Segged(n0), <<b>>)
    BY <2>4, SeggedAppend
  <2>6. PICK X : X = Segs \cup {<<x>> : x \in NameSet}
    OBVIOUS
  <2>7. segs \in Seq(X) /\ y \in X /\ Segged(n0) \in Seq(X) /\ <<b>> \in X
    <3>1. \A i \in 1 .. Len(n0) : n0[i] \in NameSet
      OBVIOUS
    <3>2. Segged(n0) = [i \in 1 .. Len(n0) |-> <<n0[i]>>]
      BY DEF Segged
    <3>3. Segged(n0) \in [1 .. Len(n0) -> X]
      BY <2>6, <3>1, <3>2
    <3>4. Segged(n0) \in Seq(X)
      <4>1. PICK sm : sm = Segged(n0)
        OBVIOUS
      <4>2. sm \in [1 .. Len(n0) -> X] /\ Len(n0) \in Nat
        BY <3>3, <4>1
      <4>3. sm \in Seq(X)
        BY <4>2
      <4> QED
        BY <4>1, <4>3
    <3>5. y \in X
      BY <2>1, <2>6 DEF NameSet
    <3> QED
      BY <2>6, <3>4, <3>5, SeqMonotonic
  <2>8. segs = Segged(n0) /\ y = <<b>>
    <3>1. Append(segs, y) = Append(Segged(n0), <<b>>)
      BY <2>2, <2>5
    <3>2. PICK q, z : q = Segged(n0) /\ z = <<b>>
      OBVIOUS
    <3>3. Front(Append(segs, y)) = segs /\ Last(Append(segs, y)) = y
      BY <2>7, FrontAppend
    <3>4. Front(Append(q, z)) = q /\ Last(Append(q, z)) = z
      BY <2>7, <3>2, FrontAppend
    <3> QED
      BY <3>1, <3>2, <3>3, <3>4
  <2>9. a = b
    BY <2>1, <2>8
  <2>10. Closed(w)
    BY <1>2, <1>6, FoundOpen
  <2> QED
    BY <1>1, <1>3, <2>4, <2>8, <2>9, <2>10
<1> QED
  BY <1>5, <1>6

\* A path that does not begin with a slash goes on from the working directory.
LEMMA JoinedSegments ==
  ASSUME NEW base \in Seq(Symbols), base # <<>>, NEW in \in Seq(Symbols), in # <<>>
  PROVE  Segments(Joined(base, in)) = (IF in[1] = "/" THEN <<>> ELSE Segments(base)) \o Segments(in)
<1>1. CASE in[1] = "/"
  <2>1. Joined(base, in) = in /\ Segments(in) \in Seq(Segs)
    BY <1>1, SegmentsType DEF Joined
  <2> QED
    BY <1>1, <2>1, ConcatEmptySeq
<1>2. CASE in[1] # "/" /\ Last(base) = "/"
  <2>1. Joined(base, in) = base \o in /\ Closed(base)
    BY <1>2 DEF Joined, Closed
  <2> QED
    BY <1>2, <2>1, SegmentsConcat
<1>3. CASE in[1] # "/" /\ Last(base) # "/"
  <2>1. Joined(base, in) = (base \o <<"/">>) \o in
    BY <1>3 DEF Joined
  <2>2. base \o <<"/">> = Append(base, "/")
    BY ShellAssumption, AppendIsConcat
  <2>3. PICK u \in Seq(Symbols) : u = Append(base, "/") /\ Closed(u) /\ Segments(u) = Segments(base)
    BY FoundClosed
  <2>4. Segments(u \o in) = Segments(u) \o Segments(in)
    BY <2>3, SegmentsConcat
  <2> QED
    BY <1>3, <2>1, <2>2, <2>3, <2>4
<1> QED
  BY <1>1, <1>2, <1>3

\* What a path without blanks is made of has none.
LEMMA DrySegments ==
  ASSUME NEW s \in Seq(Inked)
  PROVE  s \in Seq(Symbols) /\ Segments(s) \in Seq(Seq(Inked))
<1>1. Inked \subseteq Symbols
  BY DEF Inked
<1> DEFINE S == {w \in Seq(Inked) : Found(w).segs \in Seq(Seq(Inked))}
<1>2. <<>> \in S
  <2>1. Found(<<>>) = [segs |-> <<>>, open |-> FALSE] /\ <<>> \in Seq(Inked)
    BY FoundNone DEF NoSegs
  <2>2. PICK X : X = Seq(Inked)
    OBVIOUS
  <2>3. Found(<<>>).segs = <<>> /\ <<>> \in Seq(X)
    BY <2>1
  <2> QED
    BY <2>1, <2>2, <2>3
<1>3. ASSUME NEW w \in Seq(Inked), NEW c \in Inked, w \in S PROVE Append(w, c) \in S
  <2>1. w \in Seq(Symbols) /\ c \in Symbols /\ Append(w, c) \in Seq(Inked)
    BY <1>1, SeqMonotonic, AppendProperties
  <2>2. PICK X : X = Seq(Inked)
    OBVIOUS
  <2>3. PICK segs \in Seq(X), open \in BOOLEAN : Found(w) = [segs |-> segs, open |-> open] /\ (open => segs # <<>>)
    <3>1. Found(w) \in SegStates
      BY <2>1, SegmentsAre
    <3>2. PICK segs \in Seq(Segs), open \in BOOLEAN : Found(w) = [segs |-> segs, open |-> open] /\ (open => segs # <<>>)
      BY <3>1 DEF SegStates
    <3>3. segs \in Seq(X)
      BY <1>3, <2>2, <3>2
    <3> QED
      BY <3>2, <3>3
  <2>4. Found(Append(w, c)) = SegChar(Found(w), c)
    BY <2>1, FoundAppend
  <2>5. CASE c = "/"
    <3>1. Found(Append(w, c)).segs = segs
      BY <2>3, <2>4, <2>5 DEF SegChar
    <3> QED
      BY <2>1, <2>2, <2>3, <3>1
  <2>6. CASE c # "/" /\ open
    <3>1. PICK f \in Seq(X), z \in X : f = Front(segs) /\ z = Last(segs)
      BY <2>3, <2>6, FrontLast
    <3>2. PICK y \in X : y = Append(z, c)
      BY <2>2, AppendProperties
    <3>3. Found(Append(w, c)).segs = Append(f, y)
      BY <2>3, <2>4, <2>6, <3>1, <3>2 DEF SegChar
    <3>4. Append(f, y) \in Seq(X)
      BY AppendProperties
    <3> QED
      BY <2>1, <2>2, <3>3, <3>4
  <2>7. CASE c # "/" /\ ~open
    <3>1. PICK y \in X : y = <<c>>
      <4>1. <<>> \in Seq(Inked)
        OBVIOUS
      <4>2. Append(<<>>, c) \in Seq(Inked) /\ Append(<<>>, c) = <<c>>
        BY <4>1, AppendProperties
      <4> QED
        BY <2>2, <4>2
    <3>2. Found(Append(w, c)).segs = Append(segs, y)
      BY <2>3, <2>4, <2>7, <3>1 DEF SegChar
    <3>3. Append(segs, y) \in Seq(X)
      BY AppendProperties
    <3> QED
      BY <2>1, <2>2, <3>2, <3>3
  <2> QED
    BY <2>3, <2>5, <2>6, <2>7
<1> HIDE DEF S
<1>4. s \in S
  BY <1>2, <1>3, SeqInduction
<1>5. s \in Seq(Symbols)
  BY <1>1, SeqMonotonic
<1> QED
  BY <1>4, <1>5, SegmentsAre DEF S

\* A path is taken up to its first blank.
LEMMA UpToBlanks ==
  ASSUME NEW w \in Seq(Inked), NEW gap \in Seq(Blank)
  PROVE  UpToBlank(w \o gap) = w
<1>1. PICK m \in Nat, k \in Nat : m = Len(w) /\ k = Len(gap)
  OBVIOUS
<1>2. PICK p : p = w \o gap
  OBVIOUS
<1>3. PICK X : X = Inked \cup Blank
  OBVIOUS
<1>4. w \in Seq(X) /\ gap \in Seq(X)
  BY <1>3, SeqMonotonic
<1>5. /\ p \in Seq(X) /\ Len(p) = m + k
      /\ \A i \in 1 .. m + k : p[i] = IF i <= m THEN w[i] ELSE gap[i - m]
  BY <1>1, <1>2, <1>4, ConcatProperties
<1>6. ASSUME NEW i \in 1 .. m PROVE w[i] # " "
  <2>1. w[i] \in Inked
    BY <1>1
  <2> QED
    BY <2>1 DEF Inked
<1>7. ASSUME NEW i \in 1 .. k PROVE gap[i] = " "
  <2>1. gap[i] \in Blank
    BY <1>1
  <2> QED
    BY <2>1 DEF Blank
<1> DEFINE R(n) == /\ \A i \in 1 .. n : p[i] # " "
                   /\ n < Len(p) => p[n + 1] = " "
<1>8. m \in 0 .. Len(p) /\ R(m)
  <2>1. m \in 0 .. Len(p)
    BY <1>1, <1>5
  <2>2. ASSUME NEW i \in 1 .. m PROVE p[i] # " "
    <3>1. p[i] = w[i]
      BY <1>1, <1>5
    <3> QED
      BY <1>6, <3>1
  <2>3. ASSUME m < Len(p) PROVE p[m + 1] = " "
    <3>1. 1 \in 1 .. k /\ m + 1 \in 1 .. m + k /\ ~(m + 1 <= m) /\ (m + 1) - m = 1
      BY <1>1, <1>5, <2>3
    <3>2. p[m + 1] = gap[1]
      BY <1>5, <3>1
    <3> QED
      BY <1>7, <3>1, <3>2
  <2> QED
    BY <2>1, <2>2, <2>3
<1>9. ASSUME NEW n \in 0 .. Len(p), R(n) PROVE n = m
  <2>1. CASE n < m
    <3>1. n + 1 \in 1 .. m /\ n + 1 \in 1 .. m + k /\ n < Len(p) /\ n + 1 <= m
      BY <1>5, <2>1
    <3>2. p[n + 1] = w[n + 1]
      BY <1>5, <3>1
    <3>3. p[n + 1] = " " /\ w[n + 1] # " "
      BY <1>6, <1>9, <3>1
    <3> QED
      BY <3>2, <3>3
  <2>2. CASE n > m
    <3>1. m + 1 \in 1 .. n /\ m + 1 \in 1 .. m + k /\ ~(m + 1 <= m) /\ (m + 1) - m = 1 /\ 1 \in 1 .. k
      BY <1>5, <2>2
    <3>2. p[m + 1] = gap[1]
      BY <1>5, <3>1
    <3>3. p[m + 1] # " " /\ gap[1] = " "
      BY <1>7, <1>9, <3>1
    <3> QED
      BY <3>2, <3>3
  <2> QED
    BY <2>1, <2>2
<1>10. UpToBlank(p) = SubSeq(p, 1, CHOOSE n \in 0 .. Len(p) : R(n))
  BY DEF UpToBlank
<1> HIDE DEF R
<1>11. (CHOOSE n \in 0 .. Len(p) : R(n)) = m
  BY <1>8, <1>9
<1>12. PICK q : q = SubSeq(p, 1, m)
  OBVIOUS
<1>13. q \in Seq(X) /\ Len(q) = m /\ \A i \in 1 .. m : q[i] = p[i]
  BY <1>5, <1>8, <1>12, FirstN
<1>14. q = w
  BY <1>1, <1>4, <1>5, <1>13, SeqEqual
<1> QED
  BY <1>2, <1>10, <1>11, <1>12, <1>14

LEMMA InkedPaths ==
  ASSUME NEW segs \in Seq(Dry)
  PROVE  segs \in Seq(Segs) /\ OpenPath(segs) \in Seq(Inked) /\ PathOf(segs) \in Seq(Inked)
<1>1. Dry \subseteq Segs /\ Dry \subseteq Seq(Inked)
  BY DEF Dry, Plain
<1> DEFINE S == {a \in Seq(Dry) : OpenPath(a) \in Seq(Inked) /\ PathOf(a) \in Seq(Inked)}
<1>2. PICK b \in Seq(Inked) : b = <<"/">>
  <2>1. "/" \in Inked /\ <<>> \in Seq(Inked)
    BY ShellAssumption DEF Inked
  <2>2. Append(<<>>, "/") \in Seq(Inked) /\ Append(<<>>, "/") = <<"/">>
    BY <2>1, AppendProperties
  <2> QED
    BY <2>2
<1>3. <<>> \in S
  <2>1. <<>> \in Seq(Segs) /\ <<>> \in Seq(Dry)
    OBVIOUS
  <2>5. <<>> \in Seq(Seq(Symbols))
    OBVIOUS
  <2>2. PathOf(<<>>) = <<"/">>
    BY <2>1, PathLengths
  <2>3. OpenPath(<<>>) = <<"/">> \o Slashed(<<>>) /\ PathOf(<<>>) = <<"/">> \o <<>>
    BY DEF OpenPath, PathOf
  <2>4. Slashed(<<>>) = <<>>
    BY <2>5, SlashedType
  <2> QED
    BY <1>2, <2>1, <2>2, <2>3, <2>4
<1>4. ASSUME NEW a \in Seq(Dry), NEW x \in Dry, a \in S PROVE Append(a, x) \in S
  <2>1. a \in Seq(Segs) /\ x \in Segs /\ x \in Seq(Inked) /\ Append(a, x) \in Seq(Dry)
    BY <1>1, SeqMonotonic, AppendProperties
  <2>2. PICK o \in Seq(Inked) : o = OpenPath(a)
    BY <1>4
  <2>3. PathOf(Append(a, x)) = o \o x /\ OpenPath(Append(a, x)) = (o \o x) \o b
    BY <1>2, <2>1, <2>2, OpenPathNext
  <2>4. o \o x \in Seq(Inked)
    BY <2>1, ConcatProperties
  <2>5. (o \o x) \o b \in Seq(Inked)
    BY <2>4, ConcatProperties
  <2> QED
    BY <2>1, <2>3, <2>4, <2>5
<1> HIDE DEF S
<1>5. segs \in S
  BY <1>3, <1>4, SeqInduction
<1>6. segs \in Seq(Segs)
  BY <1>1, SeqMonotonic
<1> QED
  BY <1>5, <1>6 DEF S

\* A written path leads along its segments, and the blanks behind it are not read.
LEMMA FollowsSegments ==
  ASSUME NEW path \in Seq(Inked), NEW gap \in Seq(Blank), gap # <<>> => Segments(path) # <<>>
  PROVE  follow_path(path \o gap) = Shorts(Segments(path))
<1>1. UpToBlank(path \o gap) = path
  BY UpToBlanks
<1>2. gap = <<>> => path \o gap = path
  BY ConcatEmptySeq
<1>3. PICK segs : segs = Segments(path)
  OBVIOUS
<1>4. ~(segs = <<>> /\ path # path \o gap)
  BY <1>2, <1>3
<1> QED
  BY <1>1, <1>3, <1>4 DEF follow_path, Shorts

LEMMA FollowsPathOf ==
  ASSUME NEW segs \in Seq(Dry), NEW gap \in Seq(Blank), gap # <<>> => segs # <<>>
  PROVE  follow_path(PathOf(segs) \o gap) = Shorts(segs)
<1>1. segs \in Seq(Segs) /\ PathOf(segs) \in Seq(Inked)
  BY InkedPaths
<1>2. Segments(PathOf(segs)) = segs
  BY <1>1, RoundTrip
<1> QED
  BY <1>1, <1>2, FollowsSegments

BlankIn(s) == " " \in ToSet(s)
LEMMA NoBlanks ==
  ASSUME NEW s \in Seq(Symbols), ~BlankIn(s)
  PROVE  s \in Seq(Inked)
<1>1. ASSUME NEW i \in 1 .. Len(s) PROVE s[i] \in Inked
  <2>1. s[i] \in Symbols /\ i \in DOMAIN s
    OBVIOUS
  <2>2. s[i] \in ToSet(s)
    BY <2>1, Zenon DEF ToSet
  <2>3. s[i] # " "
    BY <2>2, Zenon DEF BlankIn
  <2> QED
    BY <2>1, <2>3 DEF Inked
<1>2. s = [i \in 1 .. Len(s) |-> s[i]] /\ Len(s) \in Nat
  OBVIOUS
<1>3. PICK n \in Nat : n = Len(s)
  OBVIOUS
<1>4. s \in [1 .. n -> Inked]
  BY <1>1, <1>2, <1>3
<1> QED
  BY <1>4

LEMMA InBoth ==
  ASSUME NEW X, NEW Y, NEW s, s \in Seq(X), s \in Seq(Y)
  PROVE  s \in Seq(X \cap Y)
<1>1. PICK n \in Nat : n = Len(s)
  OBVIOUS
<1>2. ASSUME NEW i \in 1 .. n PROVE s[i] \in X \cap Y
  BY <1>1
<1>3. s = [i \in 1 .. n |-> s[i]]
  BY <1>1
<1>4. s \in [1 .. n -> X \cap Y]
  BY <1>2, <1>3
<1> QED
  BY <1>4

\* The working directory, without a blank in it, and what is asked of a path to be kept.
LEMMA DryDirectory ==
  ASSUME Resolved(cwd), Settled(cwd), ~BlankIn(cwd)
  PROVE  /\ cwd \in Seq(Inked) /\ Segments(cwd) \in Seq(Dry)
         /\ Here = Shorts(Segments(cwd))
         /\ Length(Slashed(Segments(cwd))) \in Nat /\ Length(cwd) \in Nat
         /\ Length(Slashed(Segments(cwd))) <= Length(cwd)
<1>1. cwd \in Seq(Symbols)
  BY DEF Resolved
<1>2. cwd \in Seq(Inked)
  BY <1>1, NoBlanks
<1>3. Segments(cwd) \in Seq(Dry)
  <2>1. Segments(cwd) \in Seq(Plain) /\ Segments(cwd) \in Seq(Seq(Inked))
    BY <1>2, DrySegments DEF Settled
  <2>2. Plain \cap Seq(Inked) = Dry
    BY DEF Dry
  <2> QED
    BY <2>1, <2>2, InBoth
<1>4. Here = Shorts(Segments(cwd))
  <2>1. <<>> \in Seq(Blank)
    OBVIOUS
  <2>2. cwd \o <<>> = cwd
    BY <1>1, ConcatEmptySeq
  <2> QED
    BY <1>2, <2>1, <2>2, FollowsSegments DEF Here
<1>5. Segments(cwd) \in Seq(Segs)
  BY <1>1, SegmentsType
<1> QED
  BY <1>1, <1>2, <1>3, <1>4, <1>5, PathLengths, LengthType DEF Settled

\* Where a path starts from.
Start(arg) == IF arg.abs THEN <<>> ELSE Segments(cwd)
LEMMA StartIs ==
  ASSUME NEW arg, Resolved(cwd), Settled(cwd), ~BlankIn(cwd)
  PROVE  /\ Start(arg) \in Seq(Dry) /\ Length(Slashed(Start(arg))) \in Nat
         /\ Length(Slashed(Start(arg))) <= Length(cwd) /\ Length(cwd) \in Nat
         /\ Meant(arg) = Walk(Shorts(Start(arg)), arg.names)
<1>1. /\ Segments(cwd) \in Seq(Dry) /\ Here = Shorts(Segments(cwd))
      /\ Length(Slashed(Segments(cwd))) \in Nat /\ Length(cwd) \in Nat
      /\ Length(Slashed(Segments(cwd))) <= Length(cwd)
  BY DryDirectory
<1>2. CASE arg.abs
  <2>1. Start(arg) = <<>>
    BY <1>2 DEF Start
  <2>4. Shorts(<<>>) = <<>>
    BY DEF Shorts
  <2>5. <<>> \in Seq(Dry) /\ <<>> \in Seq(Segs)
    OBVIOUS
  <2>2. Length(Slashed(<<>>)) = 0
    BY <2>5, PathLengths
  <2>3. Meant(arg) = Walk(<<>>, arg.names)
    BY <1>2 DEF Meant
  <2> QED
    BY <1>1, <2>1, <2>2, <2>3, <2>4, <2>5
<1>3. CASE ~arg.abs
  <2>1. Start(arg) = Segments(cwd) /\ Meant(arg) = Walk(Here, arg.names)
    BY <1>3 DEF Start, Meant
  <2> QED
    BY <1>1, <2>1
<1> QED
  BY <1>2, <1>3

LEMMA OneSeq ==
  ASSUME NEW X, NEW a \in X
  PROVE  <<a>> \in Seq(X) /\ Len(<<a>>) = 1 /\ <<a>>[1] = a /\ <<a>> # <<>>
OBVIOUS

\* The name that ends a path, with the blanks behind it, is one segment.
LEMMA BlankedName ==
  ASSUME Alphabet, NEW a \in Typed, NEW gap \in Seq(Blank), gap # <<>>
  PROVE  /\ <<a>> \in Seq(Symbols) /\ gap \in Seq(Symbols)
         /\ <<a>> \o gap \in Segs \ Dots /\ <<a>> \in Dry
         /\ Length(<<a>> \o gap) = SymbolLen[a] + Length(gap) /\ Length(gap) \in Nat
         /\ SymbolLen[a] \in Nat \ {0}
<1>1. a \in Symbols /\ a \notin {"/", ".", "..", " "} /\ " " \in Symbols /\ SymbolLen[a] \in Nat \ {0} /\ " " # "/"
  BY ShellAssumption DEF Alphabet
<1>2. PICK x : x = <<a>>
  OBVIOUS
<1>3. x \in Seq(Inked) /\ x \in Seq(Symbols) /\ Len(x) = 1 /\ x[1] = a
  <2>1. a \in Inked
    BY <1>1 DEF Inked
  <2> QED
    BY <1>1, <1>2, <2>1, OneSeq
<1>4. gap \in Seq(Symbols)
  BY <1>1, SeqMonotonic DEF Blank
<1>5. PICK n \in Nat : n = Len(gap)
  OBVIOUS
<1>6. n # 0
  BY <1>5, EmptySeq
<1>7. PICK y \in Seq(Symbols) : y = x \o gap
  BY <1>3, <1>4, ConcatProperties
<1>8. Len(y) = 1 + n /\ y[1] = a /\ \A i \in 1 .. 1 + n : i > 1 => y[i] = gap[i - 1]
  <2>1. /\ Len(y) = Len(x) + Len(gap)
        /\ \A i \in 1 .. Len(x) + Len(gap) : y[i] = IF i <= Len(x) THEN x[i] ELSE gap[i - Len(x)]
    BY <1>3, <1>4, <1>7, ConcatProperties
  <2>2. Len(x) = 1 /\ Len(gap) = n
    BY <1>3, <1>5
  <2>3. Len(y) = 1 + n /\ \A i \in 1 .. 1 + n : y[i] = IF i <= 1 THEN x[i] ELSE gap[i - 1]
    BY <2>1, <2>2
  <2>4. 1 \in 1 .. 1 + n
    BY <1>5
  <2> QED
    BY <1>3, <2>3, <2>4
<1>9. y \in Segs \ Dots
  <2>1. ASSUME NEW i \in 1 .. 1 + n PROVE y[i] # "/"
    <3>1. CASE i = 1
      BY <1>1, <1>8, <3>1
    <3>2. CASE i # 1
      <4>1. i - 1 \in 1 .. n /\ i > 1
        BY <3>2
      <4>2. gap[i - 1] \in Blank
        BY <1>5, <4>1
      <4> QED
        BY <1>1, <1>8, <4>1, <4>2 DEF Blank
    <3> QED
      BY <3>1, <3>2
  <2>2. ~HasSlash(y)
    <3>1. DOMAIN y = 1 .. 1 + n
      BY <1>7, <1>8
    <3> QED
      BY <2>1, <3>1 DEF HasSlash
  <2>3. y # <<>>
    BY <1>5, <1>8, EmptySeq
  <2>4. y \notin Dots
    <3>1. ASSUME NEW d \in {".", ".."} PROVE y # <<d>>
      <4>1. <<d>>[1] = d /\ d # a
        BY <1>1
      <4> QED
        BY <1>8, <4>1
    <3> QED
      BY <3>1 DEF Dots
  <2> QED
    BY <1>7, <2>2, <2>3, <2>4 DEF Segs
<1>10. x \in Dry
  <2>1. ~HasSlash(x)
    <3>1. DOMAIN x = 1 .. 1
      BY <1>3
    <3>2. ASSUME NEW i \in 1 .. 1 PROVE x[i] # "/"
      <4>1. i = 1
        OBVIOUS
      <4> QED
        BY <1>1, <1>3, <4>1
    <3> QED
      BY <3>1, <3>2 DEF HasSlash
  <2>2. x \notin Dots
    BY <1>1, <1>2 DEF Dots
  <2>3. x # <<>>
    BY <1>2
  <2> QED
    BY <1>3, <2>1, <2>2, <2>3 DEF Dry, Plain, Segs
<1>11. Length(x) = SymbolLen[a] /\ Length(gap) \in Nat /\ Length(y) = Length(x) + Length(gap)
  BY <1>1, <1>2, <1>3, <1>4, <1>7, LengthOne, LengthConcat, LengthType
<1> QED
  BY <1>1, <1>2, <1>3, <1>4, <1>7, <1>9, <1>10, <1>11

LEMMA JoinedFrom ==
  ASSUME NEW arg, Resolved(cwd), NEW in \in Seq(Symbols), in # <<>>, arg.abs = (in[1] = "/")
  PROVE  cwd \in Seq(Symbols) /\ Segments(Joined(cwd, in)) = Start(arg) \o Segments(in)
<1>1. cwd \in Seq(Symbols) /\ cwd # <<>>
  BY DEF Resolved
<1>2. Segments(Joined(cwd, in)) = (IF in[1] = "/" THEN <<>> ELSE Segments(cwd)) \o Segments(in)
  BY <1>1, JoinedSegments
<1> QED
  BY <1>1, <1>2 DEF Start

LEMMA TypedIsDry ==
  ASSUME Alphabet
  PROVE  Dry \subseteq Plain /\ \A x \in Typed : <<x>> \in Dry
<1>1. ASSUME NEW x \in Typed PROVE <<x>> \in Dry
  <2>1. PICK gap : gap = <<" ">>
    OBVIOUS
  <2>3. " " \in Blank
    BY DEF Blank
  <2>2. gap \in Seq(Blank) /\ gap # <<>>
    BY <2>1, <2>3, OneSeq
  <2> QED
    BY <2>2, BlankedName
<1> QED
  BY <1>1 DEF Dry

LEMMA MeansUnblanked ==
  ASSUME Alphabet, Resolved(cwd), Settled(cwd), ~BlankIn(cwd),
         NEW s, NEW arg, Spells(s, arg), Length(cwd) + LengthOf(arg.names) + 2 < PathMax
  PROVE  follow_path(path_join(cwd, s)) = Meant(arg)
<1>1. /\ s \in Seq(Symbols) /\ s # <<>> /\ arg.abs = (s[1] = "/")
      /\ arg.names \in Seq(NameSet) /\ Segments(s) = Segged(arg.names)
  BY SpelledType DEF Spells
<1>2. PICK A \in Seq(Dry), la \in Nat, lc \in Nat :
          /\ A = Start(arg) /\ la = Length(Slashed(A)) /\ lc = Length(cwd) /\ la <= lc
          /\ Meant(arg) = Walk(Shorts(A), arg.names)
  BY StartIs
<1>3. PICK ln \in Nat : ln = LengthOf(arg.names)
  <2>1. "." \in NameSet
    BY DEF NameSet
  <2> QED
    BY <1>1, <2>1, LengthOfAppend
<1>4. la + ln + 2 < PathMax /\ PathMax \in Nat
  BY <1>2, <1>3, ShellAssumption, SMTT(60)
<1>5. Dry \subseteq Plain /\ \A x \in Typed : <<x>> \in Dry
  BY TypedIsDry
<1>6. la + ln < PathMax
  BY <1>4
<1>7. PICK T : T = Taken(A \o Segged(arg.names))
  OBVIOUS
<1>8. T \in Seq(Dry) /\ Shorts(T) = Walk(Shorts(A), arg.names) /\ Length(Slashed(T)) <= la + ln
  BY <1>1, <1>2, <1>3, <1>5, <1>6, <1>7, WalkMatches
<1>9. cwd \in Seq(Symbols) /\ Taken(Segments(Joined(cwd, s))) = T
  BY <1>1, <1>2, <1>7, JoinedFrom
<1>10. T \in Seq(Segs) /\ Length(Slashed(T)) \in Nat
  BY <1>8, InkedPaths, PathLengths
<1>11. Fitting(T) = Len(T)
  BY <1>4, <1>8, <1>10, FittingAll
<1>12. path_join(cwd, s) = PathOf(T)
  BY <1>1, <1>9, <1>11, PathIsWritten
<1>13. PICK none : none = <<>>
  OBVIOUS
<1>14. none \in Seq(Blank) /\ PathOf(T) \o none = PathOf(T)
  BY <1>10, <1>13, RoundTrip, ConcatEmptySeq
<1>15. follow_path(PathOf(T) \o none) = Shorts(T)
  BY <1>8, <1>13, <1>14, FollowsPathOf
<1> QED
  BY <1>2, <1>8, <1>12, <1>14, <1>15

LEMMA ConcatFirst ==
  ASSUME NEW X, NEW u \in Seq(X), u # <<>>, NEW v \in Seq(X)
  PROVE  u \o v \in Seq(X) /\ u \o v # <<>> /\ (u \o v)[1] = u[1]
<1>1. PICK m \in Nat, n \in Nat : m = Len(u) /\ n = Len(v)
  OBVIOUS
<1>2. PICK w \in Seq(X) : w = u \o v
  BY ConcatProperties
<1>3. Len(w) = m + n /\ \A i \in 1 .. m + n : w[i] = IF i <= m THEN u[i] ELSE v[i - m]
  BY <1>1, <1>2, ConcatProperties
<1>4. m > 0 /\ 1 \in 1 .. m + n
  BY <1>1, EmptySeq
<1>5. w[1] = u[1] /\ w # <<>>
  BY <1>1, <1>3, <1>4, EmptySeq
<1> QED
  BY <1>2, <1>5

\* Blanks behind a path that ends in a name change nothing but the resolved path's end.
LEMMA MeansBlanked ==
  ASSUME Alphabet, Resolved(cwd), Settled(cwd), ~BlankIn(cwd),
         NEW s, NEW arg, Spells(s, arg), Last(s) \in Typed,
         NEW gap \in Seq(Blank), gap # <<>>,
         Length(cwd) + LengthOf(arg.names) + Length(gap) + 2 < PathMax
  PROVE  follow_path(path_join(cwd, s \o gap)) = Meant(arg)
<1>1. /\ s \in Seq(Symbols) /\ s # <<>> /\ arg.abs = (s[1] = "/")
      /\ arg.names \in Seq(NameSet) /\ Segments(s) = Segged(arg.names)
  BY SpelledType DEF Spells
<1>2. PICK A \in Seq(Dry), la \in Nat, lc \in Nat :
          /\ A = Start(arg) /\ la = Length(Slashed(A)) /\ lc = Length(cwd) /\ la <= lc
          /\ Meant(arg) = Walk(Shorts(A), arg.names)
  BY StartIs
<1>3. PICK w \in Seq(Symbols), n0 \in Seq(NameSet), a \in Typed :
          /\ s = Append(w, a) /\ Closed(w)
          /\ arg.names = Append(n0, a) /\ Segments(w) = Segged(n0)
  BY <1>1, LastName
<1>4. PICK x, y, lg : /\ x = <<a>> \o gap /\ y = <<a>> /\ lg = Length(gap) /\ lg \in Nat
                      /\ y \in Seq(Symbols) /\ gap \in Seq(Symbols)
                      /\ x \in Segs \ Dots /\ y \in Dry
                      /\ Length(x) = SymbolLen[a] + lg /\ SymbolLen[a] \in Nat \ {0}
  BY BlankedName
<1>5. PICK sl \in Nat \ {0}, l0 \in Nat, ln \in Nat :
          sl = SymbolLen[a] /\ l0 = LengthOf(n0) /\ ln = LengthOf(arg.names) /\ ln = l0 + (sl + 1)
  <2>1. a \in NameSet /\ Append(n0, a) \in Seq(NameSet)
    BY <1>1, <1>3 DEF NameSet
  <2>2. LengthOf(n0) \in Nat /\ LengthOf(arg.names) = Adds(LengthOf(n0), a)
    BY <1>3, <2>1, LengthOfAppend
  <2>3. LengthOf(arg.names) \in Nat
    BY <1>1, <2>1, LengthOfAppend
  <2> QED
    BY <1>4, <2>2, <2>3 DEF Adds
<1>6. PathMax \in Nat /\ lc + ln + lg + 2 < PathMax /\ PathMax <= 2 * SegMax /\ SegMax \in Nat
  BY <1>2, <1>4, <1>5, ShellAssumption DEF Alphabet
<1>7. PICK in : in = s \o gap
  OBVIOUS
<1>8. in \in Seq(Symbols) /\ in # <<>> /\ in[1] = s[1]
  BY <1>1, <1>4, <1>7, ConcatFirst
<1>9. in = w \o x
  <2>1. s = w \o y
    BY <1>3, <1>4, AppendIsConcat
  <2> QED
    BY <1>4, <1>7, <2>1, Reassociate
<1>10. Segments(in) = Append(Segments(w), x)
  BY <1>3, <1>4, <1>9, SegmentsEnded
<1>11. cwd \in Seq(Symbols) /\ Segments(Joined(cwd, in)) = A \o Append(Segged(n0), x)
  <2>1. arg.abs = (in[1] = "/")
    BY <1>1, <1>8
  <2>2. cwd \in Seq(Symbols) /\ Segments(Joined(cwd, in)) = Start(arg) \o Segments(in)
    BY <1>8, <2>1, JoinedFrom
  <2> QED
    BY <1>2, <1>3, <1>10, <2>2
<1>12. PICK T : T = Taken(A \o Segged(n0))
  OBVIOUS
<1>13. Dry \subseteq Plain /\ \A z \in Typed : <<z>> \in Dry
  BY TypedIsDry
<1>14. T \in Seq(Dry) /\ Shorts(T) = Walk(Shorts(A), n0) /\ Length(Slashed(T)) <= la + l0
  <2>1. la + l0 < PathMax
    <3>1. la <= lc /\ lc \in Nat /\ la \in Nat
      BY <1>2
    <3>2. ln = l0 + (sl + 1) /\ ln \in Nat /\ l0 \in Nat /\ sl \in Nat
      BY <1>5
    <3>3. lc + ln + lg + 2 < PathMax /\ lg \in Nat /\ PathMax \in Nat
      BY <1>4, <1>6
    <3> QED
      BY <3>1, <3>2, <3>3
  <2> QED
    BY <1>2, <1>5, <1>12, <1>13, <2>1, WalkMatches
<1>15. PICK X : X = Plain \cup Dots
  OBVIOUS
<1>16. A \o Append(Segged(n0), x) = Append(A \o Segged(n0), x) /\ A \o Segged(n0) \in Seq(X) /\ x \in X
  <2>1. PICK sm \in Seq(Segs) : sm = Segged(n0)
    BY <1>3, SegmentsType
  <2>2. Segs \subseteq X /\ Dry \subseteq X
    BY <1>13, <1>15 DEF Plain
  <2>3. sm \in Seq(X) /\ A \in Seq(X) /\ x \in X
    BY <1>4, <2>2, SeqMonotonic
  <2> QED
    BY <2>1, <2>3, ConcatAppend, ConcatProperties
<1>17. Taken(Segments(Joined(cwd, in))) = TakeSeg(T, x)
  BY <1>11, <1>12, <1>16, TakenAppend
<1>18. T \in Seq(Segs) /\ Length(Slashed(T)) \in Nat /\ 2 * Len(T) <= Length(Slashed(T)) /\ Len(T) \in Nat
  BY <1>14, InkedPaths, PathLengths, SegmentsFit
<1>19. Len(T) < SegMax
  <2>1. PICK lt, nt : lt = Length(Slashed(T)) /\ nt = Len(T)
    OBVIOUS
  <2>2. lt \in Nat /\ nt \in Nat /\ 2 * nt <= lt /\ lt <= la + l0
    BY <1>14, <1>18, <2>1
  <2>3. la <= lc /\ lc \in Nat /\ la \in Nat
    BY <1>2
  <2>4. ln = l0 + (sl + 1) /\ ln \in Nat /\ l0 \in Nat /\ sl \in Nat
    BY <1>5
  <2>5. lc + ln + lg + 2 < PathMax /\ lg \in Nat /\ PathMax \in Nat /\ PathMax <= 2 * SegMax /\ SegMax \in Nat
    BY <1>4, <1>6
  <2>6. nt < SegMax
    BY <2>2, <2>3, <2>4, <2>5
  <2> QED
    BY <2>1, <2>6
<1>20. PICK U \in Seq(Segs) : U = Append(T, x)
  BY <1>4, <1>18, AppendProperties
<1>21. TakeSeg(T, x) = U
  BY <1>4, <1>19, <1>20 DEF TakeSeg, Dots
<1>22. Length(Slashed(U)) = Length(Slashed(T)) + (Length(x) + 1)
  <2>1. T \in Seq(Seq(Symbols)) /\ x \in Seq(Symbols)
    BY <1>4, <1>18, SegsAreSymbols DEF Segs
  <2> QED
    BY <1>20, <2>1, SlashedAppend
<1>23. Length(Slashed(U)) + 2 < PathMax
  <2>1. PICK lt, lu, lx : lt = Length(Slashed(T)) /\ lu = Length(Slashed(U)) /\ lx = Length(x)
    OBVIOUS
  <2>2. lt \in Nat /\ lt <= la + l0 /\ lu = lt + (lx + 1) /\ lx = sl + lg
    BY <1>4, <1>5, <1>14, <1>18, <1>22, <2>1
  <2>3. la <= lc /\ lc \in Nat /\ la \in Nat
    BY <1>2
  <2>4. ln = l0 + (sl + 1) /\ ln \in Nat /\ l0 \in Nat /\ sl \in Nat
    BY <1>5
  <2>5. lc + ln + lg + 2 < PathMax /\ lg \in Nat /\ PathMax \in Nat
    BY <1>4, <1>6
  <2>6. lu + 2 < PathMax
    BY <2>2, <2>3, <2>4, <2>5
  <2> QED
    BY <2>1, <2>6
<1>24. Fitting(U) = Len(U)
  BY <1>20, <1>23, FittingAll
<1>25. path_join(cwd, in) = PathOf(U)
  BY <1>8, <1>11, <1>17, <1>21, <1>24, PathIsWritten
<1>26. PICK V : V = Append(T, y)
  OBVIOUS
<1>27. V \in Seq(Dry) /\ V # <<>> /\ V \in Seq(Segs) /\ y \in Segs
  <2>1. V \in Seq(Dry) /\ V # <<>>
    BY <1>4, <1>14, <1>26, FrontAppend
  <2>2. y \in Segs
    BY <1>4 DEF Dry, Plain
  <2> QED
    BY <2>1, <2>2, InkedPaths
<1>28. PathOf(U) = PathOf(V) \o gap
  <2>1. OpenPath(T) \in Seq(Symbols) /\ PathOf(U) = OpenPath(T) \o x
    BY <1>4, <1>18, <1>20, OpenPathNext
  <2>2. PathOf(V) = OpenPath(T) \o y
    BY <1>18, <1>26, <1>27, OpenPathNext
  <2>3. PICK o \in Seq(Symbols) : o = OpenPath(T)
    BY <2>1
  <2>4. (o \o y) \o gap = o \o (y \o gap)
    BY <1>4, Reassociate
  <2> QED
    BY <1>4, <2>1, <2>2, <2>3, <2>4
<1>29. follow_path(PathOf(V) \o gap) = Shorts(V)
  BY <1>27, FollowsPathOf
<1>30. Shorts(V) = Append(Shorts(T), ShortName[a])
  <2>1. Short(y) = ShortName[a]
    BY <1>4 DEF Short
  <2> QED
    BY <1>4, <1>14, <1>26, <2>1, ShortsAppend
<1>31. Walk(Shorts(A), arg.names) = Append(Shorts(T), ShortName[a])
  <2>1. a \in NameSet /\ a \notin {".", ".."}
    BY DEF NameSet, Alphabet
  <2>2. Shorts(A) \in Places
    BY <1>2, <1>4, ShortsAppend
  <2>3. Walk(Shorts(A), Append(n0, a)) = WalkTo(Walk(Shorts(A), n0), a)
    BY <2>1, <2>2, WalkAppend
  <2> QED
    BY <1>3, <1>14, <2>1, <2>3 DEF WalkTo
<1> QED
  BY <1>2, <1>7, <1>25, <1>28, <1>29, <1>30, <1>31

\* What a line's path leads to, with blanks behind it or none.
LEMMA PathMeans ==
  ASSUME Alphabet, Resolved(cwd), Settled(cwd), ~BlankIn(cwd),
         NEW s, NEW arg, Spells(s, arg), NEW gap \in Seq(Blank), gap # <<>> => Last(s) \in Typed,
         Length(cwd) + LengthOf(arg.names) + Length(gap) + 2 < PathMax
  PROVE  follow_path(path_join(cwd, s \o gap)) = Meant(arg)
<1>1. CASE gap # <<>>
  BY <1>1, MeansBlanked
<1>2. CASE gap = <<>>
  <2>1. s \o gap = s
    BY <1>2, SpelledType, ConcatEmptySeq
  <2>2. Length(gap) = 0
    BY <1>2, LengthNone
  <2>3. Length(cwd) \in Nat /\ LengthOf(arg.names) \in Nat
    <3>1. arg.names \in Seq(NameSet) /\ "." \in NameSet
      BY DEF Spells, NameSet
    <3> QED
      BY <3>1, StartIs, LengthOfAppend
  <2>4. Length(cwd) + LengthOf(arg.names) + 2 < PathMax
    BY <2>2, <2>3
  <2> QED
    BY <2>1, <2>4, MeansUnblanked
<1> QED
  BY <1>1, <1>2

-----------------------------------------------------------------------------
(* Taking a line apart *)

(* What the parts of a line are, when it is taken apart *)

LEMMA PrefixIs ==
  ASSUME NEW X, NEW p \in Seq(X), NEW Y, NEW line \in Seq(Y)
  PROVE  str_prefix(line, p) <=> Len(p) <= Len(line) /\ \A i \in 1 .. Len(p) : line[i] = p[i]
<1>1. PICK m \in Nat, n \in Nat : m = Len(p) /\ n = Len(line)
  OBVIOUS
<1>2. CASE m > n
  BY <1>1, <1>2 DEF str_prefix, IsPrefix
<1>3. CASE m <= n
  <2>1. m \in 0 .. Len(line) /\ m \in 0 .. Len(p)
    BY <1>1, <1>3
  <2>2. PICK a, b : a = SubSeq(p, 1, m) /\ b = SubSeq(line, 1, m)
    OBVIOUS
  <2>3. a \in Seq(X) /\ Len(a) = m /\ \A i \in 1 .. m : a[i] = p[i]
    BY <2>1, <2>2, FirstN
  <2>4. b \in Seq(Y) /\ Len(b) = m /\ \A i \in 1 .. m : b[i] = line[i]
    BY <2>1, <2>2, FirstN
  <2>5. (a = b) <=> \A i \in 1 .. m : a[i] = b[i]
    <3>1. PICK Z : Z = X \cup Y
      OBVIOUS
    <3>2. a \in Seq(Z) /\ b \in Seq(Z)
      BY <2>3, <2>4, <3>1, SeqMonotonic
    <3> QED
      BY <2>3, <2>4, <3>2, SeqEqual
  <2>6. (\A i \in 1 .. m : a[i] = b[i]) <=> (\A i \in 1 .. m : line[i] = p[i])
    BY <2>3, <2>4
  <2>7. str_prefix(line, p) <=> a = b
    BY <1>1, <1>3, <2>2 DEF str_prefix, IsPrefix
  <2> QED
    BY <1>1, <1>3, <2>5, <2>6, <2>7
<1> QED
  BY <1>1, <1>2, <1>3

LEMMA RestIs ==
  ASSUME NEW X, NEW u \in Seq(X), NEW v \in Seq(X), NEW n \in Nat, n = Len(u) + 1
  PROVE  Rest(u \o v, n) = v
<1>1. PICK a \in Nat, b \in Nat : a = Len(u) /\ b = Len(v)
  OBVIOUS
<1>2. PICK w \in Seq(X) : w = u \o v
  BY ConcatProperties
<1>3. Len(w) = a + b /\ \A i \in 1 .. a + b : w[i] = IF i <= a THEN u[i] ELSE v[i - a]
  BY <1>1, <1>2, ConcatProperties
<1>4. PICK r : r = SubSeq(w, a + 1, a + b)
  OBVIOUS
<1>5. r \in Seq(X) /\ Len(r) = b /\ \A i \in 1 .. b : r[i] = w[a + i]
  <2>1. a + 1 \in Nat \ {0} /\ a + b \in Int /\ a + b <= Len(w)
    BY <1>3
  <2>2. /\ r \in Seq(X)
        /\ Len(r) = IF a + 1 <= a + b THEN (a + b) - (a + 1) + 1 ELSE 0
        /\ \A i \in 1 .. Len(r) : r[i] = w[((a + 1) + i) - 1]
    BY <1>4, <2>1, SubSeqIn
  <2>3. Len(r) = b
    BY <2>2
  <2>4. ASSUME NEW i \in 1 .. b PROVE r[i] = w[a + i]
    <3>1. ((a + 1) + i) - 1 = a + i
      OBVIOUS
    <3>2. r[i] = w[((a + 1) + i) - 1]
      BY <2>2, <2>3
    <3> QED
      BY <3>1, <3>2
  <2> QED
    BY <2>2, <2>3, <2>4
<1>6. ASSUME NEW i \in 1 .. b PROVE r[i] = v[i]
  <2>1. a + i \in 1 .. a + b /\ ~(a + i <= a) /\ (a + i) - a = i
    OBVIOUS
  <2>2. w[a + i] = v[(a + i) - a]
    BY <1>3, <2>1
  <2> QED
    BY <1>5, <2>1, <2>2
<1>7. r = v
  BY <1>1, <1>5, <1>6, SeqEqual
<1> QED
  BY <1>1, <1>2, <1>3, <1>4, <1>7 DEF Rest

\* Blanks in front of the rest of a line.
LEMMA TrimmedIs ==
  ASSUME NEW X, Blank \subseteq X, NEW gap \in Seq(Blank), NEW v \in Seq(X), v # <<>> => v[1] \notin Blank
  PROVE  Trimmed(gap \o v) = v
<1>1. PICK m \in Nat, k \in Nat : m = Len(gap) /\ k = Len(v)
  OBVIOUS
<1>2. PICK p : p = gap \o v
  OBVIOUS
<1>3. gap \in Seq(X)
  BY SeqMonotonic
<1>4. /\ p \in Seq(X) /\ Len(p) = m + k
      /\ \A i \in 1 .. m + k : p[i] = IF i <= m THEN gap[i] ELSE v[i - m]
  BY <1>1, <1>2, <1>3, ConcatProperties
<1>5. ASSUME NEW i \in 1 .. m PROVE p[i] = " "
  <2>1. gap[i] \in Blank
    BY <1>1
  <2>2. p[i] = gap[i]
    BY <1>1, <1>4
  <2> QED
    BY <2>1, <2>2 DEF Blank
<1>6. k > 0 => p[m + 1] # " "
  <2>1. SUFFICES ASSUME k > 0 PROVE p[m + 1] # " "
    OBVIOUS
  <2>2. m + 1 \in 1 .. m + k /\ ~(m + 1 <= m) /\ (m + 1) - m = 1
    BY <2>1
  <2>3. v # <<>>
    BY <1>1, <2>1, EmptySeq
  <2> QED
    <3>1. p[m + 1] = v[1] /\ v[1] \notin Blank
      BY <1>4, <2>2, <2>3
    <3> QED
      BY <3>1 DEF Blank
<1> DEFINE R(n) == /\ \A i \in 1 .. n : p[i] = " "
                   /\ n < Len(p) => p[n + 1] # " "
<1>7. m \in 0 .. Len(p) /\ R(m)
  <2>1. m \in 0 .. Len(p) /\ (m < Len(p) => k > 0)
    BY <1>4
  <2> QED
    BY <1>5, <1>6, <2>1
<1>8. ASSUME NEW n \in 0 .. Len(p), R(n) PROVE n = m
  <2>1. CASE n < m
    <3>1. n + 1 \in 1 .. m /\ n < Len(p)
      BY <1>4, <2>1
    <3> QED
      BY <1>5, <1>8, <3>1
  <2>2. CASE n > m
    <3>1. m + 1 \in 1 .. n /\ k > 0
      BY <1>4, <2>2
    <3> QED
      BY <1>6, <1>8, <3>1
  <2> QED
    BY <2>1, <2>2
<1>9. Trimmed(p) = Rest(p, (CHOOSE n \in 0 .. Len(p) : R(n)) + 1)
  BY DEF Trimmed
<1> HIDE DEF R
<1>10. (CHOOSE n \in 0 .. Len(p) : R(n)) = m
  BY <1>7, <1>8
<1>11. Rest(p, m + 1) = v
  BY <1>1, <1>2, <1>3, RestIs
<1> QED
  BY <1>2, <1>9, <1>10, <1>11

LEMMA ReverseIs ==
  ASSUME NEW X, NEW s \in Seq(X), NEW n \in Nat, n = Len(s)
  PROVE  /\ Reverse(s) \in Seq(X) /\ Len(Reverse(s)) = n
         /\ \A i \in 1 .. n : Reverse(s)[i] = s[(n - i) + 1]
<1>1. PICK r : r = Reverse(s)
  OBVIOUS
<1>2. r = [i \in 1 .. n |-> s[(n - i) + 1]]
  BY <1>1 DEF Reverse
<1>3. r \in Seq(X)
  BY <1>1, ReverseType
<1> QED
  BY <1>1, <1>2, <1>3

LEMMA ReverseTwice ==
  ASSUME NEW X, NEW s \in Seq(X)
  PROVE  Reverse(Reverse(s)) = s
<1>1. PICK n \in Nat : n = Len(s)
  OBVIOUS
<1>2. PICK r : r = Reverse(s)
  OBVIOUS
<1>3. r \in Seq(X) /\ Len(r) = n /\ \A i \in 1 .. n : r[i] = s[(n - i) + 1]
  BY <1>1, <1>2, ReverseIs
<1>4. PICK q : q = Reverse(r)
  OBVIOUS
<1>5. q \in Seq(X) /\ Len(q) = n /\ \A i \in 1 .. n : q[i] = r[(n - i) + 1]
  BY <1>3, <1>4, ReverseIs
<1>6. ASSUME NEW i \in 1 .. n PROVE q[i] = s[i]
  <2>1. (n - i) + 1 \in 1 .. n /\ (n - ((n - i) + 1)) + 1 = i
    OBVIOUS
  <2>2. r[(n - i) + 1] = s[(n - ((n - i) + 1)) + 1]
    BY <1>3, <2>1
  <2> QED
    BY <1>5, <2>1, <2>2
<1>7. q = s
  BY <1>1, <1>5, <1>6, SeqEqual
<1> QED
  BY <1>2, <1>4, <1>7

LEMMA ReverseConcat ==
  ASSUME NEW X, NEW a \in Seq(X), NEW b \in Seq(X)
  PROVE  Reverse(a \o b) = Reverse(b) \o Reverse(a)
<1>1. PICK m \in Nat, n \in Nat : m = Len(a) /\ n = Len(b)
  OBVIOUS
<1>2. PICK c, ra, rb : c = a \o b /\ ra = Reverse(a) /\ rb = Reverse(b)
  OBVIOUS
<1>3. c \in Seq(X) /\ Len(c) = m + n /\ \A i \in 1 .. m + n : c[i] = IF i <= m THEN a[i] ELSE b[i - m]
  BY <1>1, <1>2, ConcatProperties
<1>4. ra \in Seq(X) /\ Len(ra) = m /\ \A i \in 1 .. m : ra[i] = a[(m - i) + 1]
  BY <1>1, <1>2, ReverseIs
<1>5. rb \in Seq(X) /\ Len(rb) = n /\ \A i \in 1 .. n : rb[i] = b[(n - i) + 1]
  BY <1>1, <1>2, ReverseIs
<1>6. PICK rc, d : rc = Reverse(c) /\ d = rb \o ra
  OBVIOUS
<1>7. rc \in Seq(X) /\ Len(rc) = m + n /\ \A i \in 1 .. m + n : rc[i] = c[((m + n) - i) + 1]
  BY <1>3, <1>6, ReverseIs
<1>8. d \in Seq(X) /\ Len(d) = n + m /\ \A i \in 1 .. n + m : d[i] = IF i <= n THEN rb[i] ELSE ra[i - n]
  <2>1. /\ d \in Seq(X) /\ Len(d) = Len(rb) + Len(ra)
        /\ \A i \in 1 .. Len(rb) + Len(ra) : d[i] = IF i <= Len(rb) THEN rb[i] ELSE ra[i - Len(rb)]
    BY <1>4, <1>5, <1>6, ConcatProperties
  <2>2. Len(rb) = n /\ Len(ra) = m
    BY <1>4, <1>5
  <2> QED
    BY <2>1, <2>2
<1>9. ASSUME NEW i \in 1 .. m + n PROVE rc[i] = d[i]
  <2>1. PICK j : j = ((m + n) - i) + 1
    OBVIOUS
  <2>2. j \in 1 .. m + n /\ rc[i] = c[j] /\ i \in 1 .. n + m
    BY <1>7, <2>1
  <2>3. CASE i <= n
    <3>1. i \in 1 .. n /\ ~(j <= m) /\ j - m = (n - i) + 1
      BY <2>1, <2>3
    <3>2. c[j] = b[(n - i) + 1]
      BY <1>3, <2>2, <3>1
    <3>3. d[i] = b[(n - i) + 1]
      BY <1>5, <1>8, <2>2, <2>3, <3>1
    <3> QED
      BY <2>2, <3>2, <3>3
  <2>4. CASE i > n
    <3>1. i - n \in 1 .. m /\ j <= m /\ j = (m - (i - n)) + 1 /\ ~(i <= n)
      BY <2>1, <2>4
    <3>2. c[j] = a[j]
      BY <1>3, <2>2, <3>1
    <3>3. d[i] = a[(m - (i - n)) + 1]
      BY <1>4, <1>8, <2>2, <3>1
    <3> QED
      BY <2>2, <3>1, <3>2, <3>3
  <2> QED
    BY <2>3, <2>4
<1>10. Len(d) = m + n
  BY <1>8
<1>11. rc = d
  BY <1>7, <1>8, <1>9, <1>10, SeqEqual
<1> QED
  BY <1>2, <1>6, <1>11

\* Blanks behind it.
LEMMA TrimmedEndIs ==
  ASSUME NEW X, Blank \subseteq X, NEW v \in Seq(X), v # <<>> => Last(v) \notin Blank, NEW gap \in Seq(Blank)
  PROVE  TrimmedEnd(v \o gap) = v
<1>1. PICK n \in Nat : n = Len(v)
  OBVIOUS
<1>2. gap \in Seq(X)
  BY SeqMonotonic
<1>3. PICK r, g : r = Reverse(v) /\ g = Reverse(gap)
  OBVIOUS
<1>4. r \in Seq(X) /\ Len(r) = n /\ \A i \in 1 .. n : r[i] = v[(n - i) + 1]
  BY <1>1, <1>3, ReverseIs
<1>5. g \in Seq(Blank)
  BY <1>3, ReverseType
<1>6. Reverse(v \o gap) = g \o r
  BY <1>2, <1>3, ReverseConcat
<1>7. r # <<>> => r[1] \notin Blank
  <2>1. SUFFICES ASSUME r # <<>> PROVE r[1] \notin Blank
    OBVIOUS
  <2>2. n > 0
    BY <1>4, <2>1, EmptySeq
  <2>3. 1 \in 1 .. n /\ (n - 1) + 1 = n /\ v # <<>>
    BY <1>1, <2>2, EmptySeq
  <2>4. r[1] = v[n]
    BY <1>4, <2>3
  <2> QED
    BY <1>1, <2>3, <2>4 DEF Last
<1>8. Trimmed(g \o r) = r
  BY <1>4, <1>5, <1>7, TrimmedIs
<1>9. Reverse(r) = v
  BY <1>3, ReverseTwice
<1> QED
  BY <1>6, <1>8, <1>9 DEF TrimmedEnd

LEMMA LeastIs ==
  ASSUME NEW I, I \subseteq Nat, NEW m \in I, \A k \in I : m <= k
  PROVE  (IF I # {} THEN Min(I) ELSE 0) = m
<1>1. ASSUME NEW x \in I, \A k \in I : x <= k PROVE x = m
  <2>1. x <= m /\ m <= x /\ x \in Nat /\ m \in Nat
    BY <1>1
  <2> QED
    BY <2>1
<1>2. Min(I) = m
  BY <1>1 DEF Min
<1> QED
  BY <1>2

BlankAt(s) == {i \in 1 .. Len(s) : s[i] = " "}

\* The first word of an argument, and what is behind it.
LEMMA FirstWordIs ==
  ASSUME Blank \subseteq Symbols, NEW w \in Seq(Inked), NEW rest \in Seq(Symbols), rest # <<>> => rest[1] \in Blank
  PROVE  w \o rest \in Seq(Symbols) /\ FirstWord(w \o rest) = w /\ AfterWord(w \o rest) = rest
<1>1. PICK m \in Nat, k \in Nat : m = Len(w) /\ k = Len(rest)
  OBVIOUS
<1>2. PICK p : p = w \o rest
  OBVIOUS
<1>3. w \in Seq(Symbols)
  BY SeqMonotonic DEF Inked
<1>4. /\ p \in Seq(Symbols) /\ Len(p) = m + k
      /\ \A i \in 1 .. m + k : p[i] = IF i <= m THEN w[i] ELSE rest[i - m]
  BY <1>1, <1>2, <1>3, ConcatProperties
<1>5. ASSUME NEW i \in 1 .. m PROVE p[i] # " "
  <2>1. w[i] \in Inked
    BY <1>1
  <2>2. p[i] = w[i]
    BY <1>1, <1>4
  <2> QED
    BY <2>1, <2>2 DEF Inked
<1>6. k > 0 => p[m + 1] = " "
  <2>1. SUFFICES ASSUME k > 0 PROVE p[m + 1] = " "
    OBVIOUS
  <2>2. m + 1 \in 1 .. m + k /\ ~(m + 1 <= m) /\ (m + 1) - m = 1
    BY <2>1
  <2>3. rest # <<>>
    BY <1>1, <2>1, EmptySeq
  <2>4. p[m + 1] = rest[1] /\ rest[1] \in Blank
    BY <1>4, <2>2, <2>3
  <2> QED
    BY <2>4 DEF Blank
<1>7. Word(p) = IF BlankAt(p) # {} THEN Min(BlankAt(p)) ELSE 0
  BY DEF Word, SelectInSeq, BlankAt
<1>10. PICK n \in Nat : n = Len(p) /\ n = m + k
  BY <1>4
<1>12. \A i \in BlankAt(p) : i \in 1 .. n /\ p[i] = " "
  BY <1>10 DEF BlankAt
<1>11. ASSUME NEW i \in BlankAt(p) PROVE m + 1 <= i /\ i \in Nat
  <2>1. i \in 1 .. n /\ p[i] = " "
    BY <1>12
  <2>2. i \notin 1 .. m
    BY <1>5, <2>1
  <2>3. PICK j \in 1 .. n : j = i
    BY <2>1
  <2>4. m + 1 <= j /\ j \in Nat
    BY <2>2, <2>3
  <2> QED
    BY <2>3, <2>4
<1>13. BlankAt(p) \subseteq Nat
  BY <1>11
<1>8. CASE k = 0
  <2>1. BlankAt(p) = {}
    <3>1. ASSUME NEW i \in BlankAt(p) PROVE FALSE
      <4>1. i \in 1 .. n /\ m + 1 <= i
        BY <1>11, <1>12
      <4> QED
        BY <1>8, <1>10, <4>1
    <3> QED
      BY <3>1
  <2>2. Word(p) = 0
    BY <1>7, <2>1
  <2>3. rest = <<>> /\ p = w
    BY <1>1, <1>2, <1>3, <1>8, EmptySeq, ConcatEmptySeq
  <2> QED
    BY <1>2, <1>4, <2>2, <2>3 DEF FirstWord, AfterWord
<1>9. CASE k > 0
  <2>1. m + 1 \in BlankAt(p)
    <3>1. m + 1 \in 1 .. n
      BY <1>9, <1>10
    <3>2. p[m + 1] = " "
      BY <1>6, <1>9
    <3> QED
      BY <1>10, <3>1, <3>2 DEF BlankAt
  <2>4. Word(p) = m + 1
    <3>1. \A i \in BlankAt(p) : m + 1 <= i
      BY <1>11
    <3>2. (IF BlankAt(p) # {} THEN Min(BlankAt(p)) ELSE 0) = m + 1
      BY <1>13, <2>1, <3>1, LeastIs
    <3> QED
      BY <1>7, <3>2
  <2>5. FirstWord(p) = SubSeq(p, 1, m) /\ AfterWord(p) = Rest(p, m + 1)
    <3>1. m + 1 # 0 /\ (m + 1) - 1 = m
      OBVIOUS
    <3> QED
      BY <2>4, <3>1 DEF FirstWord, AfterWord
  <2>6. SubSeq(p, 1, m) = w
    <3>1. PICK q : q = SubSeq(p, 1, m)
      OBVIOUS
    <3>2. m \in 0 .. Len(p)
      BY <1>4
    <3>3. q \in Seq(Symbols) /\ Len(q) = m /\ \A i \in 1 .. m : q[i] = p[i]
      BY <1>4, <3>1, <3>2, FirstN
    <3>4. \A i \in 1 .. m : q[i] = w[i]
      BY <1>4, <3>3
    <3>5. q = w
      BY <1>1, <1>3, <3>3, <3>4, SeqEqual
    <3> QED
      BY <3>1, <3>5
  <2>7. Rest(p, m + 1) = rest
    BY <1>1, <1>2, <1>3, RestIs
  <2> QED
    BY <1>2, <1>4, <2>5, <2>6, <2>7
<1> QED
  BY <1>8, <1>9

\* Where a redirection is found.
GtAt(line) == {i \in 1 .. Len(line) - 1 : line[i] = ">"}
LEMMA GtIs ==
  ASSUME NEW X, NEW line \in Seq(X)
  PROVE  gt(line) = IF GtAt(line) # {} THEN Min(GtAt(line)) ELSE 0
<1>1. PICK n \in Nat : n = Len(line)
  OBVIOUS
<1>2. CASE n = 0
  <2>1. GtAt(line) = {}
    BY <1>1, <1>2 DEF GtAt
  <2>2. Front(line) = <<>>
    <3>1. SubSeq(line, 1, n - 1) = <<>>
      <4>1. 1 \in Nat \ {0} /\ n - 1 \in Int /\ n - 1 <= Len(line)
        BY <1>1, <1>2
      <4>2. Len(SubSeq(line, 1, n - 1)) = 0 /\ SubSeq(line, 1, n - 1) \in Seq(X)
        BY <1>2, <4>1, SubSeqIn
      <4> QED
        BY <4>2, EmptySeq
    <3> QED
      BY <1>1, <3>1 DEF Front
  <2>3. {i \in 1 .. Len(Front(line)) : Front(line)[i] = ">"} = {}
    BY <2>2
  <2> QED
    BY <2>1, <2>3 DEF gt, SelectInSeq
<1>3. CASE n > 0
  <2>1. n - 1 \in 0 .. Len(line)
    BY <1>1, <1>3
  <2>2. PICK f : f = SubSeq(line, 1, n - 1)
    OBVIOUS
  <2>3. Front(line) = f
    BY <1>1, <2>2 DEF Front
  <2>4. f \in Seq(X) /\ Len(f) = n - 1 /\ \A i \in 1 .. n - 1 : f[i] = line[i]
    BY <2>1, <2>2, FirstN
  <2>5. {i \in 1 .. Len(f) : f[i] = ">"} = GtAt(line)
    BY <1>1, <2>4 DEF GtAt
  <2>6. gt(line) = LET I == {i \in 1 .. Len(f) : f[i] = ">"} IN IF I # {} THEN Min(I) ELSE 0
    BY <2>3 DEF gt, SelectInSeq
  <2> QED
    BY <2>5, <2>6
<1> QED
  BY <1>1, <1>2, <1>3

LEMMA NoGt ==
  ASSUME NEW line \in Seq(Symbols), \A i \in 1 .. Len(line) - 1 : line[i] # ">"
  PROVE  gt(line) = 0
<1>1. GtAt(line) = {}
  BY DEF GtAt
<1> QED
  BY <1>1, GtIs

LEMMA SomeGt ==
  ASSUME NEW line \in Seq(Symbols), NEW i \in 1 .. Len(line) - 1, line[i] = ">"
  PROVE  gt(line) # 0
<1>1. i \in GtAt(line)
  BY DEF GtAt
<1>2. GtAt(line) \subseteq Nat
  BY DEF GtAt
<1>3. PICK m \in GtAt(line) : \A k \in GtAt(line) : m <= k
  BY <1>1, <1>2, LeastNatural
<1>4. gt(line) = m
  BY <1>2, <1>3, GtIs, LeastIs
<1>5. m # 0
  BY <1>3 DEF GtAt
<1> QED
  BY <1>4, <1>5

\* What is written without it.
Calm == Symbols \ {">"}
LEMMA FirstGt ==
  ASSUME NEW u \in Seq(Calm), NEW v \in Seq(Symbols), v # <<>>, ">" \in Symbols
  PROVE  u \o (<<">">> \o v) \in Seq(Symbols) /\ gt(u \o (<<">">> \o v)) = Len(u) + 1
<1>1. PICK g : g = <<">">>
  OBVIOUS
<1>2. g \in Seq(Symbols) /\ Len(g) = 1 /\ g[1] = ">"
  BY <1>1, OneSeq
<1>3. PICK m \in Nat, k \in Nat : m = Len(u) /\ k = Len(v)
  OBVIOUS
<1>4. k > 0
  BY <1>3, EmptySeq
<1>5. u \in Seq(Symbols)
  BY SeqMonotonic DEF Calm
<1>6. PICK a : a = g \o v
  OBVIOUS
<1>7. /\ a \in Seq(Symbols) /\ Len(a) = 1 + k /\ a[1] = ">"
  <2>1. a \in Seq(Symbols) /\ Len(a) = Len(g) + Len(v)
    BY <1>2, <1>6, ConcatProperties
  <2>2. a[1] = g[1]
    <3>1. g # <<>>
      BY <1>2, EmptySeq
    <3> QED
      BY <1>2, <1>6, <3>1, ConcatFirst
  <2> QED
    BY <1>2, <1>3, <2>1, <2>2
<1>8. PICK p : p = u \o a
  OBVIOUS
<1>9. /\ p \in Seq(Symbols) /\ Len(p) = m + (1 + k)
      /\ \A i \in 1 .. m + (1 + k) : p[i] = IF i <= m THEN u[i] ELSE a[i - m]
  <2>1. /\ p \in Seq(Symbols) /\ Len(p) = Len(u) + Len(a)
        /\ \A i \in 1 .. Len(u) + Len(a) : p[i] = IF i <= Len(u) THEN u[i] ELSE a[i - Len(u)]
    BY <1>5, <1>7, <1>8, ConcatProperties
  <2> QED
    BY <1>3, <1>7, <2>1
<1>10. ASSUME NEW i \in 1 .. m PROVE p[i] # ">"
  <2>1. u[i] \in Calm
    BY <1>3
  <2>2. p[i] = u[i]
    BY <1>3, <1>9
  <2> QED
    BY <2>1, <2>2 DEF Calm
<1>11. p[m + 1] = ">"
  <2>1. m + 1 \in 1 .. m + (1 + k) /\ ~(m + 1 <= m) /\ (m + 1) - m = 1
    BY <1>4
  <2> QED
    BY <1>7, <1>9, <2>1
<1>12. m + 1 \in GtAt(p)
  BY <1>4, <1>9, <1>11 DEF GtAt
<1>13. ASSUME NEW i \in GtAt(p) PROVE m + 1 <= i
  BY <1>10, <1>13 DEF GtAt
<1>14. GtAt(p) \subseteq Nat
  BY DEF GtAt
<1>15. gt(p) = m + 1
  BY <1>9, <1>12, <1>13, <1>14, GtIs, LeastIs
<1> QED
  BY <1>1, <1>3, <1>6, <1>8, <1>9, <1>15

\* A line that begins with a name and a blank.
LEMMA OpeningIs ==
  ASSUME NEW c, NEW X, Blank \subseteq X, c \in X
  PROVE  Opening(c) \in Seq(X) /\ Len(Opening(c)) = 2 /\ Opening(c)[1] = c /\ Opening(c)[2] = " "
<1>1. PICK h, b : h = Opening(c) /\ b = " "
  OBVIOUS
<1>2. b \in X
  BY <1>1 DEF Blank
<1>3. h = <<c, b>>
  BY <1>1 DEF Opening
<1>4. h \in Seq(X) /\ Len(h) = 2 /\ h[1] = c /\ h[2] = b
  BY <1>2, <1>3
<1> QED
  BY <1>1, <1>4

LEMMA Headed ==
  ASSUME Alphabet, NEW c \in Symbols, NEW r \in Seq(Symbols), NEW line, line = Opening(c) \o r
  PROVE  /\ line \in Seq(Symbols) /\ Len(line) = 2 + Len(r) /\ line[1] = c /\ line[2] = " "
         /\ \A i \in 1 .. Len(line) : i > 2 => line[i] = r[i - 2]
         /\ Rest(line, 3) = r /\ line # <<>> /\ Opening(c) \in Seq(Symbols)
<1>1. PICK h, b : h = Opening(c) /\ b = " "
  OBVIOUS
<1>4. h \in Seq(Symbols) /\ Len(h) = 2 /\ h[1] = c /\ h[2] = b
  <2>1. Blank \subseteq Symbols
    BY DEF Alphabet, Blank
  <2> QED
    BY <1>1, <2>1, OpeningIs
<1>5. PICK n \in Nat : n = Len(r)
  OBVIOUS
<1>6. /\ line \in Seq(Symbols) /\ Len(line) = 2 + n
      /\ \A i \in 1 .. 2 + n : line[i] = IF i <= 2 THEN h[i] ELSE r[i - 2]
  <2>1. /\ h \o r \in Seq(Symbols) /\ Len(h \o r) = Len(h) + Len(r)
        /\ \A i \in 1 .. Len(h) + Len(r) : (h \o r)[i] = IF i <= Len(h) THEN h[i] ELSE r[i - Len(h)]
    BY <1>4, ConcatProperties
  <2>2. line = h \o r
    BY <1>1
  <2> QED
    BY <1>4, <1>5, <2>1, <2>2
<1>7. 1 \in 1 .. 2 + n /\ 2 \in 1 .. 2 + n
  OBVIOUS
<1>8. line[1] = c /\ line[2] = " "
  <2>1. line[1] = h[1]
    BY <1>6, <1>7
  <2>2. line[2] = h[2]
    BY <1>6, <1>7
  <2> QED
    BY <1>1, <1>4, <2>1, <2>2
<1>9. \A i \in 1 .. Len(line) : i > 2 => line[i] = r[i - 2]
  BY <1>6
<1>10. Rest(line, 3) = r
  <2>1. 3 = Len(h) + 1 /\ 3 \in Nat
    BY <1>4
  <2> QED
    BY <1>1, <1>4, <2>1, RestIs
<1>11. line # <<>>
  BY <1>6, EmptySeq
<1> QED
  BY <1>1, <1>4, <1>5, <1>6, <1>8, <1>9, <1>10, <1>11

\* The command of a line is its first word.
LEMMA FirstIs ==
  ASSUME Alphabet, NEW line \in Seq(Symbols), NEW name
  PROVE  /\ Is(line, name) => line[1] = name
         /\ str_prefix(line, <<name>>) => line[1] = name
<1>1. PICK Y, one : Y = Symbols \cup {name} /\ one = <<name>>
  OBVIOUS
<1>2. Opening(name) \in Seq(Y) /\ Len(Opening(name)) = 2 /\ Opening(name)[1] = name
  <2>1. Blank \subseteq Y /\ name \in Y
    BY <1>1 DEF Alphabet, Blank
  <2> QED
    BY <2>1, OpeningIs
<1>3. one \in Seq(Y) /\ Len(one) = 1 /\ one[1] = name
  BY <1>1, OneSeq
<1>4. 1 \in 1 .. 2 /\ 1 \in 1 .. 1
  OBVIOUS
<1>5. str_prefix(line, Opening(name)) => line[1] = name
  BY <1>2, <1>4, PrefixIs
<1>6. str_prefix(line, one) => line[1] = name
  <2>1. str_prefix(line, one) => \A i \in 1 .. Len(one) : line[i] = one[i]
    BY <1>3, PrefixIs
  <2>2. 1 \in 1 .. Len(one)
    BY <1>3
  <2> QED
    BY <1>3, <2>1, <2>2
<1> QED
  BY <1>1, <1>5, <1>6 DEF Is, Opening

LEMMA OnlyCommand ==
  ASSUME Alphabet, NEW line \in Seq(Symbols), command(line),
         \/ line[1] = "cd"
         \/ line[1] \in Commands /\ Len(line) > 1 /\ line[2] = " "
  PROVE  /\ line[1] = "mkdir" => cmd_mkdir(line)
         /\ line[1] = "rmdir" => cmd_rmdir(line)
         /\ line[1] = "rm" => cmd_rm(line)
         /\ line[1] = "touch" => cmd_touch(line)
         /\ line[1] = "cat" => cmd_cat(line)
         /\ line[1] = "head" => head_file(line)
         /\ line[1] = "tail" => tail_file(line)
         /\ line[1] = "wc" => wc_file(line)
         /\ line[1] = "write" => cmd_write(line)
         /\ line[1] = "append" => cmd_append(line)
         /\ line[1] = "cp" => cmd_cp(line)
         /\ line[1] = "mv" => cmd_mv(line)
         /\ line[1] = "cd" => cmd_cd(line)
<1>1. ~unknown(line)
  BY DEF unknown, Known
<1>2. \A name : Is(line, name) => line[1] = name
  BY FirstIs
<1>3. \A name : str_prefix(line, <<name>>) => line[1] = name
  BY FirstIs
<1>4. /\ cmd_mkdir(line) => line[1] = "mkdir"
      /\ cmd_rmdir(line) => line[1] = "rmdir"
      /\ cmd_rm(line) => line[1] = "rm"
      /\ cmd_touch(line) => line[1] = "touch"
      /\ cmd_cat(line) => line[1] = "cat"
      /\ head_file(line) => line[1] = "head"
      /\ tail_file(line) => line[1] = "tail"
      /\ wc_file(line) => line[1] = "wc"
      /\ cmd_write(line) => line[1] = "write"
      /\ cmd_append(line) => line[1] = "append"
      /\ cmd_cp(line) => line[1] = "cp"
      /\ cmd_mv(line) => line[1] = "mv"
  BY <1>2 DEF cmd_mkdir, cmd_rmdir, cmd_rm, cmd_touch, cmd_cat, head_file, tail_file, wc_file,
              cmd_write, cmd_append, cmd_cp, cmd_mv
<1>5. /\ cmd_pwd(line) => line[1] = "pwd"
      /\ cmd_mount(line) => line[1] = "mount"
      /\ cmd_umount(line) => line[1] = "umount"
      /\ cmd_cd(line) => line[1] = "cd"
  BY <1>3 DEF cmd_pwd, cmd_mount, cmd_umount, cmd_cd
<1>6. cmd_echo(line) => line[1] = "echo"
  BY <1>2 DEF cmd_echo, Is
<1>7. line[1] # "pwd" /\ line[1] # "mount" /\ line[1] # "umount"
  BY DEF Commands
<1> QED
  BY <1>1, <1>4, <1>5, <1>6, <1>7 DEF command

\* A line is made of the symbols its parts are made of, and '>' is none of these.
LEMMA CalmIs ==
  ASSUME Alphabet
  PROVE  /\ Blank \subseteq Calm /\ Blank \subseteq Symbols /\ Calm \subseteq Symbols
         /\ Seq(Blank) \subseteq Seq(Calm) /\ Seq(Calm) \subseteq Seq(Symbols)
         /\ Gaps = Seq(Blank)
         /\ \A s, arg : Spells(s, arg) => /\ s \in Seq(Calm) /\ s \in Seq(Inked) /\ s # <<>>
                                          /\ s[1] \notin Blank /\ Last(s) \notin Blank
<1>1. Blank \subseteq Calm /\ Calm \subseteq Symbols
  BY DEF Alphabet, Blank, Calm
<1>2. Gaps = Seq(Blank)
  BY DEF Gaps, Blank
<1>3. NameSet \cup {"/"} \subseteq Calm
  BY ShellAssumption DEF Alphabet, NameSet, Calm
<1>4. ASSUME NEW s, NEW arg, Spells(s, arg)
      PROVE  s \in Seq(Calm) /\ s \in Seq(Inked) /\ s # <<>> /\ s[1] \notin Blank /\ Last(s) \notin Blank
  <2>1. s \in Seq(NameSet \cup {"/"}) /\ s # <<>> /\ s \in Seq(Inked)
    BY <1>4, SpelledType DEF Spells
  <2>2. s \in Seq(Calm)
    BY <1>3, <2>1, SeqMonotonic
  <2>3. s[1] \in Inked /\ Last(s) \in Inked
    <3>1. PICK n \in Nat : n = Len(s)
      BY <2>1
    <3>2. 1 \in 1 .. n /\ n \in 1 .. n
      BY <2>1, <3>1, EmptySeq
    <3>3. s[1] \in Inked /\ s[n] \in Inked
      BY <2>1, <3>1, <3>2
    <3> QED
      BY <3>1, <3>3 DEF Last
  <2> QED
    BY <2>1, <2>2, <2>3 DEF Inked, Blank
<1>5. Seq(Blank) \subseteq Seq(Calm) /\ Seq(Calm) \subseteq Seq(Symbols)
  BY <1>1, SeqMonotonic
<1> QED
  BY <1>1, <1>2, <1>4, <1>5

\* A line without a redirection.
LEMMA NoGtIn ==
  ASSUME Alphabet, NEW line \in Seq(Calm)
  PROVE  gt(line) = 0 /\ line \in Seq(Symbols)
<1>1. line \in Seq(Symbols)
  BY CalmIs
<1>2. PICK n \in Nat : n = Len(line)
  OBVIOUS
<1>3. ASSUME NEW i \in 1 .. n - 1 PROVE line[i] # ">"
  <2>1. i \in 1 .. n
    OBVIOUS
  <2>2. line[i] \in Calm
    BY <1>2, <2>1
  <2> QED
    BY <2>2 DEF Calm
<1> QED
  BY <1>1, <1>2, <1>3, NoGt

-----------------------------------------------------------------------------
(* What a line does *)

\* What the properties speak of: a line of its parts, a working directory
\* without blanks, and room for the paths.
Ready == Alphabet /\ Resolved(cwd) /\ Settled(cwd)

LEMMA ClearPath ==
  ASSUME Ready, NEW s, Clear(s), NEW i \in DOMAIN s.args, s.blanks \in Nat,
         NEW path, Spells(path, s.args[i]), NEW gap \in Seq(Blank),
         gap # <<>> => Last(path) \in Typed, Length(gap) <= s.blanks
  PROVE  follow_path(path_join(cwd, path \o gap)) = Meant(s.args[i])
<1>1. ~BlankIn(cwd)
  BY Zenon DEF Clear, BlankIn
<1>2. Length(cwd) + LengthOf(s.args[i].names) + s.blanks + 2 < PathMax
  BY DEF Clear
<1>3. PICK lc \in Nat, ln \in Nat, lg \in Nat, b \in Nat :
          lc = Length(cwd) /\ ln = LengthOf(s.args[i].names) /\ lg = Length(gap) /\ b = s.blanks
  <2>1. s.args[i].names \in Seq(NameSet) /\ "." \in NameSet
    BY DEF Spells, NameSet
  <2>2. cwd \in Seq(Symbols) /\ gap \in Seq(Symbols)
    <3>1. Blank \subseteq Symbols
      BY CalmIs DEF Ready
    <3> QED
      BY <3>1, SeqMonotonic DEF Ready, Resolved
  <2> QED
    BY <2>1, <2>2, LengthType, LengthOfAppend DEF Ready
<1>4. lc + ln + lg + 2 < PathMax
  <2>1. lc + ln + b + 2 < PathMax /\ lg <= b /\ PathMax \in Nat
    BY <1>2, <1>3, ShellAssumption
  <2> QED
    BY <2>1
<1> QED
  BY <1>1, <1>3, <1>4, PathMeans DEF Ready

\* The path alone.
LEMMA ClearWord ==
  ASSUME Ready, NEW s, Clear(s), NEW i \in DOMAIN s.args, s.blanks \in Nat,
         NEW path, Spells(path, s.args[i])
  PROVE  follow_path(path_join(cwd, path)) = Meant(s.args[i])
<1>1. PICK gap : gap = <<>>
  OBVIOUS
<1>2. gap \in Seq(Blank) /\ Length(gap) = 0
  BY <1>1, LengthNone
<1>3. path \o gap = path
  <2>1. path \in Seq(Calm)
    BY CalmIs DEF Ready
  <2> QED
    BY <1>1, <2>1, ConcatEmptySeq
<1>4. Length(gap) <= s.blanks
  BY <1>2
<1>5. follow_path(path_join(cwd, path \o gap)) = Meant(s.args[i])
  BY <1>1, <1>2, <1>4, ClearPath
<1> QED
  BY <1>3, <1>5

LEMMA FirstIn ==
  ASSUME NEW X, NEW s \in Seq(X), s # <<>>
  PROVE  s[1] \in X
<1>1. PICK n \in Nat : n = Len(s)
  OBVIOUS
<1>2. 1 \in 1 .. n
  BY <1>1, EmptySeq
<1> QED
  BY <1>1, <1>2

LEMMA TwoFirst ==
  ASSUME NEW X, NEW h \in Seq(X), Len(h) = 2, NEW r \in Seq(X)
  PROVE  /\ h \o r \in Seq(X) /\ Len(h \o r) > 1 /\ h \o r # <<>>
         /\ (h \o r)[1] = h[1] /\ (h \o r)[2] = h[2] /\ Rest(h \o r, 3) = r
<1>1. PICK n \in Nat : n = Len(r)
  OBVIOUS
<1>2. PICK line \in Seq(X) : line = h \o r
  BY ConcatProperties
<1>3. Len(line) = 2 + n /\ \A i \in 1 .. 2 + n : line[i] = IF i <= 2 THEN h[i] ELSE r[i - 2]
  <2>1. /\ Len(line) = Len(h) + Len(r)
        /\ \A i \in 1 .. Len(h) + Len(r) : line[i] = IF i <= Len(h) THEN h[i] ELSE r[i - Len(h)]
    BY <1>2, ConcatProperties
  <2> QED
    BY <1>1, <2>1
<1>4. 1 \in 1 .. 2 + n /\ 2 \in 1 .. 2 + n
  OBVIOUS
<1>5. line[1] = h[1] /\ line[2] = h[2] /\ Len(line) > 1
  BY <1>3, <1>4
<1>6. Rest(h \o r, 3) = r
  <2>1. 3 = Len(h) + 1 /\ 3 \in Nat
    OBVIOUS
  <2> QED
    BY <2>1, RestIs
<1>7. line # <<>>
  BY <1>3, EmptySeq
<1> QED
  BY <1>2, <1>5, <1>6, <1>7

LEMMA OpenedBy ==
  ASSUME Alphabet, NEW c, NEW r \in Seq(Symbols), NEW line \in Seq(Symbols), line = Opening(c) \o r
  PROVE  /\ c \in Symbols /\ line[1] = c /\ line[2] \in Blank /\ Len(line) > 1
         /\ Rest(line, 3) = r
<1>1. PICK Y : Y = Symbols \cup {c}
  OBVIOUS
<1>2. Blank \subseteq Y /\ c \in Y /\ Symbols \subseteq Y
  BY <1>1, CalmIs
<1>3. Opening(c) \in Seq(Y) /\ Len(Opening(c)) = 2 /\ Opening(c)[1] = c /\ Opening(c)[2] = " "
  BY <1>2, OpeningIs
<1>4. r \in Seq(Y)
  BY <1>2, SeqMonotonic
<1>5. line # <<>> /\ line[1] = c /\ line[2] = " " /\ Len(line) > 1 /\ Rest(line, 3) = r
  BY <1>3, <1>4, TwoFirst, Zenon
<1>6. line[1] \in Symbols
  BY <1>5, FirstIn
<1>7. line[2] \in Blank
  BY <1>5 DEF Blank
<1> QED
  BY <1>5, <1>6, <1>7

\* A line of a path is taken apart into the command and the path.
IsCd(x) == x.said.cmd = "cd"
LEMMA OnePathParts ==
  ASSUME Alphabet, NEW x, OnePath(x), ~IsCd(x), NEW line \in Seq(Symbols), line = x.line
  PROVE  /\ gt(line) = 0 /\ line[1] = x.said.cmd /\ Len(line) > 1 /\ line[2] = " "
         /\ ArgOf(line) = x.parts.path \o x.parts.trail /\ ArgOf(line) # <<>>
<1>1. PICK c, lead, path, trail :
        /\ c = x.said.cmd /\ lead = x.parts.lead /\ path = x.parts.path /\ trail = x.parts.trail
  OBVIOUS
<1>2. /\ lead \in Seq(Blank) /\ trail \in Seq(Blank) /\ Spells(path, x.said.args[1])
      /\ line = Opening(c) \o (lead \o (path \o trail)) /\ c # ">"
  BY <1>1, CalmIs DEF OnePath, Shown, IsCd
<1>3. path \in Seq(Calm) /\ path # <<>> /\ path[1] \notin Blank
  BY <1>2, CalmIs
<1>4. lead \in Seq(Calm) /\ trail \in Seq(Calm)
  BY <1>2, CalmIs
<1>5. PICK arg : arg = path \o trail
  OBVIOUS
<1>6. arg \in Seq(Calm) /\ arg # <<>> /\ arg[1] = path[1]
  BY <1>3, <1>4, <1>5, ConcatFirst
<1>7. PICK r \in Seq(Calm) : r = lead \o arg
  BY <1>4, <1>6, ConcatProperties
<1>8. r \in Seq(Symbols) /\ line = Opening(c) \o r
  BY <1>2, <1>5, <1>7, CalmIs
<1>9. c \in Symbols /\ line[1] = c /\ line[2] = " " /\ Rest(line, 3) = r /\ Len(line) > 1
  <2>1. c \in Symbols /\ line[1] = c
    BY <1>8, OpenedBy
  <2>2. line[2] \in Blank
    BY <1>8, OpenedBy
  <2>3. Rest(line, 3) = r /\ Len(line) > 1
    BY <1>8, OpenedBy
  <2>4. line[2] = " "
    BY <2>2 DEF Blank
  <2> QED
    BY <2>1, <2>3, <2>4
<1>11. Trimmed(r) = arg
  BY <1>2, <1>3, <1>6, <1>7, CalmIs, TrimmedIs
<1>12. line \in Seq(Calm)
  <2>1. c \in Calm
    BY <1>2, <1>9 DEF Calm
  <2>2. Opening(c) \in Seq(Calm)
    BY <2>1, CalmIs, OpeningIs
  <2> QED
    BY <1>8, <2>2, ConcatProperties
<1>13. gt(line) = 0
  BY <1>12, NoGtIn
<1> QED
  BY <1>1, <1>5, <1>6, <1>9, <1>11, <1>13 DEF ArgOf

\* The tree and the screen after such a line.
LEMMA OnePathStep ==
  ASSUME Ready, NEW x, OnePath(x), ~IsCd(x), Clear(x.said), fs_mounted \in BOOLEAN,
         x.line \in Seq(Symbols), shell_line(x.line)
  PROVE  /\ tree' = IF fs_mounted THEN TreeAfter(x.said) ELSE tree
         /\ cwd' = cwd
         /\ x.said.cmd \in {"head", "tail", "wc"} /\ fs_mounted /\ IsFile(Meant(x.said.args[1])) =>
              LET b == tree[Meant(x.said.args[1])].data
              IN screen' = CASE x.said.cmd = "head" -> Printed(cmd_head(b))
                             [] x.said.cmd = "tail" -> Printed(cmd_tail(b))
                             [] OTHER -> [text |-> <<>>, counts |-> cmd_wc(b)]
<1>0. PICK line \in Seq(Symbols) : line = x.line
  OBVIOUS
<1>1. PICK s, p : line = x.line /\ s = x.said /\ p = Meant(s.args[1])
  BY <1>0
<1>2. /\ gt(line) = 0 /\ line[1] = s.cmd /\ Len(line) > 1 /\ line[2] = " "
      /\ ArgOf(line) = x.parts.path \o x.parts.trail /\ ArgOf(line) # <<>>
  BY <1>1, OnePathParts DEF Ready
<1>3. Operand(line) = p
  <2>1. /\ x.parts.trail \in Seq(Blank) /\ Spells(x.parts.path, s.args[1]) /\ 1 \in DOMAIN s.args
        /\ x.parts.trail # <<>> => Last(x.parts.path) \in Typed
        /\ s.blanks = Length(x.parts.trail)
    BY <1>1, CalmIs DEF OnePath, Ready
  <2>2. s.blanks \in Nat /\ Length(x.parts.trail) <= s.blanks
    <3>1. x.parts.trail \in Seq(Symbols)
      BY <2>1, CalmIs DEF Ready
    <3>2. Length(x.parts.trail) \in Nat
      BY <3>1, LengthType
    <3> QED
      BY <2>1, <3>2
  <2>3. follow_path(path_join(cwd, x.parts.path \o x.parts.trail)) = p
    BY <1>1, <2>1, <2>2, ClearPath
  <2> QED
    BY <1>2, <2>3 DEF Operand
<1>4. s.cmd \in Shown \ {"cd"}
  BY <1>1 DEF OnePath, IsCd
<1>5. command(line)
  BY <1>1, <1>2 DEF shell_line
<1>6. line[1] \in Commands
  BY <1>2, <1>4 DEF Shown, Commands
<1>7. /\ s.cmd = "mkdir" => cmd_mkdir(line)
      /\ s.cmd = "rmdir" => cmd_rmdir(line)
      /\ s.cmd = "rm" => cmd_rm(line)
      /\ s.cmd = "touch" => cmd_touch(line)
      /\ s.cmd = "cat" => cmd_cat(line)
      /\ s.cmd = "head" => head_file(line)
      /\ s.cmd = "tail" => tail_file(line)
      /\ s.cmd = "wc" => wc_file(line)
  BY <1>2, <1>5, <1>6, OnlyCommand DEF Ready
<1>8. CASE s.cmd = "mkdir"
  BY <1>1, <1>2, <1>3, <1>7, <1>8 DEF cmd_mkdir, OnFile, Does, TreeAfter
<1>9. CASE s.cmd \in {"rm", "rmdir"}
  BY <1>1, <1>2, <1>3, <1>7, <1>9 DEF cmd_rm, cmd_rmdir, OnFile, Does, TreeAfter
<1>10. CASE s.cmd = "touch"
  BY <1>1, <1>2, <1>3, <1>7, <1>10 DEF cmd_touch, OnFile, Does, TreeAfter, Touched
<1>11. CASE s.cmd = "cat"
  BY <1>1, <1>2, <1>3, <1>7, <1>11 DEF cmd_cat, OfFile, OnFile, Does, TreeAfter
<1>12. CASE s.cmd = "head"
  BY <1>1, <1>2, <1>3, <1>7, <1>12 DEF head_file, OfFile, OnFile, Does, TreeAfter, Read
<1>13. CASE s.cmd = "tail"
  BY <1>1, <1>2, <1>3, <1>7, <1>13 DEF tail_file, OfFile, OnFile, Does, TreeAfter, Read
<1>14. CASE s.cmd = "wc"
  BY <1>1, <1>2, <1>3, <1>7, <1>14 DEF wc_file, OfFile, OnFile, Does, TreeAfter, Read
<1> QED
  BY <1>1, <1>4, <1>8, <1>9, <1>10, <1>11, <1>12, <1>13, <1>14 DEF Shown

LEMMA OneFirst ==
  ASSUME NEW X, NEW h \in Seq(X), Len(h) = 1, NEW r \in Seq(X)
  PROVE  /\ h \o r \in Seq(X) /\ h \o r # <<>>
         /\ (h \o r)[1] = h[1] /\ Rest(h \o r, 2) = r
<1>1. h # <<>>
  <2>1. Len(<<>>) = 0
    OBVIOUS
  <2> QED
    BY <2>1
<1>2. h \o r \in Seq(X) /\ h \o r # <<>> /\ (h \o r)[1] = h[1]
  BY <1>1, ConcatFirst
<1>3. Rest(h \o r, 2) = r
  <2>1. 2 = Len(h) + 1 /\ 2 \in Nat
    OBVIOUS
  <2> QED
    BY <2>1, RestIs
<1> QED
  BY <1>2, <1>3

\* cd goes where its argument leads.
LEMMA CdGoes ==
  ASSUME NEW line, cmd_cd(line), NEW in, NEW arg, arg = Trimmed(Rest(line, 2)),
         in = IF arg = <<>> THEN <<"/">> ELSE arg
  PROVE  LET p == follow_path(path_join(cwd, in))
         IN tree' = tree /\ follow_path(cwd') = IF fs_mounted /\ IsDir(p) THEN p ELSE Here
<1>1. tree' = tree /\ cwd' = IF fs_mounted /\ IsDir(follow_path(path_join(cwd, in)))
                             THEN path_join(cwd, in) ELSE cwd
  BY DEF cmd_cd
<1> QED
  BY <1>1 DEF Here

LEMMA CdOpened ==
  ASSUME Alphabet, NEW r \in Seq(Calm), NEW line \in Seq(Symbols), line = <<"cd">> \o r
  PROVE  gt(line) = 0 /\ line[1] = "cd" /\ Rest(line, 2) = r
<1>1. PICK Y, h, c : Y = Symbols \cup {c} /\ h = <<c>> /\ c = "cd"
  OBVIOUS
<1>2. h \in Seq(Y) /\ Len(h) = 1 /\ h[1] = c /\ h # <<>>
  BY <1>1, OneSeq
<1>3. r \in Seq(Y) /\ r \in Seq(Symbols) /\ line = h \o r
  <2>1. r \in Seq(Symbols)
    BY CalmIs
  <2>2. Symbols \subseteq Y
    BY <1>1
  <2>3. r \in Seq(Y)
    BY <2>1, <2>2, SeqMonotonic
  <2> QED
    BY <1>1, <2>1, <2>3
<1>4. line # <<>> /\ line[1] = c /\ Rest(line, 2) = r
  BY <1>2, <1>3, OneFirst
<1>5. c \in Symbols
  BY <1>4, FirstIn
<1>6. c \in Calm
  BY <1>1, <1>5 DEF Calm
<1>7. h \in Seq(Calm)
  BY <1>1, <1>6, OneSeq
<1>8. line \in Seq(Calm)
  BY <1>3, <1>7, ConcatProperties
<1>9. gt(line) = 0
  BY <1>8, NoGtIn
<1> QED
  BY <1>1, <1>4, <1>9

LEMMA CdStep ==
  ASSUME Ready, NEW x, (OnePath(x) /\ IsCd(x)) \/ BareCd(x), Clear(x.said),
         x.line \in Seq(Symbols), shell_line(x.line)
  PROVE  LET p == Meant(x.said.args[1])
         IN tree' = tree /\ follow_path(cwd') = IF fs_mounted /\ IsDir(p) THEN p ELSE Here
<1>0. PICK line \in Seq(Symbols) : line = x.line
  OBVIOUS
<1>1. PICK s : line = x.line /\ s = x.said
  BY <1>0
<1>2. ASSUME NEW r \in Seq(Calm), line = <<"cd">> \o r, NEW in,
             in = IF Trimmed(r) = <<>> THEN <<"/">> ELSE Trimmed(r),
             follow_path(path_join(cwd, in)) = Meant(s.args[1])
      PROVE  LET p == Meant(s.args[1])
             IN tree' = tree /\ follow_path(cwd') = IF fs_mounted /\ IsDir(p) THEN p ELSE Here
  <2>1. gt(line) = 0 /\ line[1] = "cd" /\ Rest(line, 2) = r
    BY <1>2, CdOpened DEF Ready
  <2>2. command(line)
    BY <1>1, <2>1 DEF shell_line
  <2>3. cmd_cd(line)
    BY <2>1, <2>2, OnlyCommand DEF Ready
  <2> QED
    BY <1>2, <2>1, <2>3, CdGoes
<1>3. CASE OnePath(x) /\ IsCd(x)
  <2>1. PICK lead, path, trail :
          lead = x.parts.lead /\ path = x.parts.path /\ trail = x.parts.trail
    OBVIOUS
  <2>2. /\ lead \in Seq(Blank) /\ trail \in Seq(Blank) /\ Spells(path, s.args[1]) /\ 1 \in DOMAIN s.args
        /\ trail # <<>> => Last(path) \in Typed
        /\ s.blanks = Length(trail)
    BY <1>1, <1>3, <2>1, CalmIs DEF OnePath, Ready
  <2>3. line = <<"cd">> \o (lead \o (path \o trail))
    BY <1>1, <1>3, <2>1 DEF OnePath, IsCd
  <2>4. path \in Seq(Calm) /\ path # <<>> /\ path[1] \notin Blank /\ lead \in Seq(Calm) /\ trail \in Seq(Calm)
    BY <2>2, CalmIs DEF Ready
  <2>5. PICK arg : arg = path \o trail
    OBVIOUS
  <2>6. arg \in Seq(Calm) /\ arg # <<>> /\ arg[1] = path[1]
    BY <2>4, <2>5, ConcatFirst
  <2>7. PICK r \in Seq(Calm) : r = lead \o arg
    BY <2>4, <2>6, ConcatProperties
  <2>8. Trimmed(r) = arg
    BY <2>2, <2>4, <2>6, <2>7, CalmIs, TrimmedIs DEF Ready
  <2>9. follow_path(path_join(cwd, arg)) = Meant(s.args[1])
    <3>1. trail \in Seq(Symbols)
      BY <2>2, CalmIs DEF Ready
    <3>2. s.blanks \in Nat /\ Length(trail) <= s.blanks
      BY <2>2, <3>1, LengthType
    <3> QED
      BY <1>1, <2>2, <2>5, <3>2, ClearPath
  <2> QED
    BY <1>1, <1>2, <2>3, <2>5, <2>6, <2>7, <2>8, <2>9
<1>4. CASE BareCd(x)
  <2>1. PICK lead : lead = x.parts.lead
    OBVIOUS
  <2>2. lead \in Seq(Blank) /\ line = <<"cd">> \o lead /\ 1 \in DOMAIN s.args /\ s.blanks = 0
        /\ s.args[1] = [abs |-> TRUE, names |-> <<>>]
    BY <1>1, <1>4, <2>1, CalmIs DEF BareCd, Ready
  <2>3. lead \in Seq(Calm)
    BY <2>2, CalmIs DEF Ready
  <2>4. Trimmed(lead) = <<>>
    <3>1. PICK none : none = <<>>
      OBVIOUS
    <3>2. none \in Seq(Calm) /\ lead \o none = lead
      BY <2>3, <3>1, ConcatEmptySeq
    <3>3. Trimmed(lead \o none) = none
      BY <2>2, <3>1, <3>2, CalmIs, TrimmedIs DEF Ready
    <3> QED
      BY <3>1, <3>2, <3>3
  <2>5. PICK path : path = <<"/">>
    OBVIOUS
  <2>6. Spells(path, s.args[1])
    <3>1. path \in Seq(NameSet \cup {"/"}) /\ path # <<>> /\ path[1] = "/"
      BY <2>5, OneSeq
    <3>2. s.args[1].names = <<>> /\ s.args[1].abs = TRUE
      BY <2>2
    <3>3. <<>> \in Seq(NameSet) /\ Segged(<<>>) = <<>>
      BY DEF Segged
    <3>4. Segments(path) = <<>>
      BY <2>5, RootSegments
    <3> QED
      BY <3>1, <3>2, <3>3, <3>4 DEF Spells
  <2>7. follow_path(path_join(cwd, path)) = Meant(s.args[1])
    <3>1. s.blanks \in Nat /\ 1 \in DOMAIN s.args /\ Clear(s)
      BY <1>1, <2>2
    <3>2. \A i \in DOMAIN s.args : Spells(path, s.args[i]) =>
             follow_path(path_join(cwd, path)) = Meant(s.args[i])
      BY <3>1, ClearWord
    <3> QED
      BY <2>6, <3>1, <3>2
  <2> QED
    BY <1>1, <1>2, <2>2, <2>3, <2>4, <2>5, <2>7
<1> QED
  BY <1>3, <1>4

\* A command, its name and its argument.
Opens(line, c, arg) ==
    c \in Symbols /\ line[1] = c /\ Len(line) > 1 /\ line[2] = " " /\ ArgOf(line) = arg
LEMMA Opened ==
  ASSUME Alphabet, NEW c, NEW lead \in Seq(Blank), NEW arg \in Seq(Symbols),
         arg # <<>> => arg[1] \notin Blank,
         NEW line \in Seq(Symbols), line = Opening(c) \o (lead \o arg)
  PROVE  Opens(line, c, arg)
<1>1. lead \in Seq(Symbols) /\ Blank \subseteq Symbols
  BY CalmIs
<1>2. PICK r \in Seq(Symbols) : r = lead \o arg
  BY <1>1, ConcatProperties
<1>3. line = Opening(c) \o r
  BY <1>2
<1>4. c \in Symbols /\ line[1] = c
  BY <1>3, OpenedBy
<1>5. line[2] \in Blank
  BY <1>3, OpenedBy
<1>6. Rest(line, 3) = r /\ Len(line) > 1
  BY <1>3, OpenedBy
<1>7. Trimmed(r) = arg
  BY <1>1, <1>2, TrimmedIs
<1>8. line[2] = " "
  BY <1>5 DEF Blank
<1> QED
  BY <1>4, <1>6, <1>7, <1>8 DEF ArgOf, Opens

\* A path, a gap and what is behind it.
LEMMA TwoWords ==
  ASSUME Alphabet, NEW path \in Seq(Inked), path # <<>>, NEW gap \in Seq(Blank), gap # <<>>,
         NEW last \in Seq(Symbols), last # <<>> => last[1] \notin Blank
  PROVE  LET arg == path \o (gap \o last)
         IN /\ arg \in Seq(Symbols) /\ arg # <<>> /\ arg[1] = path[1]
            /\ FirstWord(arg) = path /\ AfterWord(arg) # <<>> /\ Trimmed(AfterWord(arg)) = last
<1>1. gap \in Seq(Symbols) /\ Blank \subseteq Symbols /\ path \in Seq(Symbols)
  <2>1. Inked \subseteq Symbols
    BY DEF Inked
  <2>2. path \in Seq(Symbols)
    BY <2>1, SeqMonotonic
  <2> QED
    BY <2>2, CalmIs
<1>2. PICK rest : rest = gap \o last
  OBVIOUS
<1>3. rest \in Seq(Symbols) /\ rest # <<>> /\ rest[1] = gap[1]
  BY <1>1, <1>2, ConcatFirst
<1>4. gap[1] \in Blank
  BY FirstIn
<1>5. PICK arg : arg = path \o rest
  OBVIOUS
<1>6. arg \in Seq(Symbols) /\ arg # <<>> /\ arg[1] = path[1]
  BY <1>1, <1>3, <1>5, ConcatFirst
<1>7. FirstWord(arg) = path /\ AfterWord(arg) = rest
  BY <1>1, <1>3, <1>4, <1>5, FirstWordIs
<1>8. Trimmed(rest) = last
  BY <1>1, <1>2, TrimmedIs
<1> QED
  BY <1>2, <1>3, <1>5, <1>6, <1>7, <1>8

\* The words of cp and mv.
LEMMA TwoPathsParts ==
  ASSUME Alphabet, NEW x, TwoPaths(x), NEW line \in Seq(Symbols), line = x.line
  PROVE  /\ gt(line) = 0 /\ line[1] = x.said.cmd /\ Len(line) > 1 /\ line[2] = " "
         /\ FirstWord(ArgOf(line)) = x.parts.path /\ x.parts.path # <<>>
         /\ SecondWord(line) = x.parts.path2 /\ x.parts.path2 # <<>>
<1>1. PICK c, lead, path, gap, path2, rest :
        /\ c = x.said.cmd /\ lead = x.parts.lead /\ path = x.parts.path
        /\ gap = x.parts.gap /\ path2 = x.parts.path2 /\ rest = x.parts.rest
  OBVIOUS
<1>2. /\ lead \in Seq(Blank) /\ gap \in Seq(Blank) /\ gap # <<>>
      /\ Spells(path, x.said.args[1]) /\ Spells(path2, x.said.args[2])
      /\ line = Opening(c) \o (lead \o (path \o (gap \o (path2 \o rest)))) /\ c # ">"
  BY <1>1, CalmIs DEF TwoPaths
<1>3. rest \in Seq(Calm)
  BY <1>1 DEF TwoPaths, Calm
<1>4. rest # <<>> => rest[1] \in Blank
  BY <1>1, Zenon DEF TwoPaths, Blank
<1>5. /\ path \in Seq(Calm) /\ path \in Seq(Inked) /\ path # <<>> /\ path[1] \notin Blank
      /\ path2 \in Seq(Calm) /\ path2 \in Seq(Inked) /\ path2 # <<>> /\ path2[1] \notin Blank
  BY <1>2, CalmIs
<1>6. /\ lead \in Seq(Calm) /\ gap \in Seq(Calm) /\ rest \in Seq(Symbols) /\ Blank \subseteq Symbols
  BY <1>2, <1>3, CalmIs
<1>7. PICK last : last = path2 \o rest
  OBVIOUS
<1>8. last \in Seq(Calm) /\ last # <<>> /\ last[1] = path2[1]
  BY <1>3, <1>5, <1>7, ConcatFirst
<1>9. last \in Seq(Symbols) /\ FirstWord(last) = path2
  BY <1>4, <1>5, <1>6, <1>7, FirstWordIs
<1>10. PICK arg : arg = path \o (gap \o last)
  OBVIOUS
<1>11. /\ arg \in Seq(Symbols) /\ arg # <<>> /\ arg[1] = path[1]
       /\ FirstWord(arg) = path /\ Trimmed(AfterWord(arg)) = last
  BY <1>2, <1>5, <1>8, <1>9, <1>10, TwoWords
<1>12. line = Opening(c) \o (lead \o arg)
  BY <1>2, <1>7, <1>10
<1>13. c \in Symbols /\ line[1] = c /\ Len(line) > 1 /\ line[2] = " " /\ ArgOf(line) = arg
  <2>1. arg[1] \notin Blank
    BY <1>5, <1>11
  <2>2. lead \in Seq(Blank)
    BY <1>2
  <2>3. Opens(line, c, arg)
    BY <1>11, <1>12, <2>1, <2>2, Opened
  <2> QED
    BY <2>3 DEF Opens
<1>14. gt(line) = 0
  <2>1. gap \o last \in Seq(Calm)
    BY <1>6, <1>8, ConcatProperties
  <2>2. arg \in Seq(Calm)
    BY <1>5, <1>10, <2>1, ConcatProperties
  <2>3. lead \o arg \in Seq(Calm)
    BY <1>6, <2>2, ConcatProperties
  <2>4. c \in Calm
    BY <1>2, <1>13 DEF Calm
  <2>5. Opening(c) \in Seq(Calm)
    BY <2>4, CalmIs, OpeningIs
  <2>6. line \in Seq(Calm)
    BY <1>12, <2>3, <2>5, ConcatProperties
  <2> QED
    BY <2>6, NoGtIn
<1>15. SecondWord(line) = path2
  BY <1>9, <1>11, <1>13 DEF SecondWord
<1> QED
  BY <1>1, <1>5, <1>11, <1>13, <1>14, <1>15

LEMMA TwoPathsStep ==
  ASSUME Ready, NEW x, TwoPaths(x), Clear(x.said), fs_mounted \in BOOLEAN,
         x.line \in Seq(Symbols), shell_line(x.line)
  PROVE  tree' = (IF fs_mounted THEN TreeAfter(x.said) ELSE tree) /\ cwd' = cwd
<1>0. PICK line \in Seq(Symbols) : line = x.line
  OBVIOUS
<1>1. PICK s, p, q :
        line = x.line /\ s = x.said /\ p = Meant(s.args[1]) /\ q = Meant(s.args[2])
  BY <1>0
<1>2. /\ gt(line) = 0 /\ line[1] = s.cmd /\ Len(line) > 1 /\ line[2] = " "
      /\ FirstWord(ArgOf(line)) = x.parts.path /\ x.parts.path # <<>>
      /\ SecondWord(line) = x.parts.path2 /\ x.parts.path2 # <<>>
  BY <1>1, TwoPathsParts DEF Ready
<1>3. /\ Spells(x.parts.path, s.args[1]) /\ Spells(x.parts.path2, s.args[2])
      /\ 1 \in DOMAIN s.args /\ 2 \in DOMAIN s.args /\ s.blanks \in Nat /\ s.cmd \in {"cp", "mv"}
  <2>1. /\ Spells(x.parts.path, s.args[1]) /\ Spells(x.parts.path2, s.args[2])
        /\ DOMAIN s.args = {1, 2} /\ s.blanks = 0 /\ s.cmd \in {"cp", "mv"}
    BY <1>1, Zenon DEF TwoPaths
  <2> QED
    BY <2>1
<1>4. \A i \in DOMAIN s.args : \A path : Spells(path, s.args[i]) =>
         follow_path(path_join(cwd, path)) = Meant(s.args[i])
  BY <1>1, <1>3, ClearWord
<1>5. File(line) = p /\ Target(line) = q
  BY <1>1, <1>2, <1>3, <1>4 DEF File, Target
<1>6. command(line)
  BY <1>1, <1>2 DEF shell_line
<1>7. line[1] \in Commands
  BY <1>2, <1>3 DEF Commands
<1>8. /\ s.cmd = "cp" => cmd_cp(line)
      /\ s.cmd = "mv" => cmd_mv(line)
  BY <1>2, <1>6, <1>7, OnlyCommand DEF Ready
<1>9. CASE s.cmd = "cp"
  BY <1>1, <1>2, <1>5, <1>8, <1>9 DEF cmd_cp, Moves, Does, TreeAfter, Copied
<1>10. CASE s.cmd = "mv"
  BY <1>1, <1>2, <1>5, <1>8, <1>10 DEF cmd_mv, Moves, Does, TreeAfter
<1> QED
  BY <1>3, <1>9, <1>10

\* A line that is redirected, and is no echo, is refused.
LEMMA TrimmedIsRest ==
  ASSUME NEW X, NEW s \in Seq(X)
  PROVE  \E m \in 0 .. Len(s) : Trimmed(s) = Rest(s, m + 1)
<1> DEFINE T == {i \in Nat : s[i] = " "}
           F(n) == /\ \A i \in 1 .. n : s[i] = " "
                   /\ n < Len(s) => s[n + 1] # " "
           m == CHOOSE n \in 0 .. Len(s) : F(n)
<1>1. m \in 0 .. Len(s)
  <2>1. PICK n \in 0 .. Len(s) : (\A i \in 1 .. n : i \in T) /\ (n < Len(s) => n + 1 \notin T)
    <3>1. Len(s) \in Nat
      OBVIOUS
    <3> HIDE DEF T
    <3> QED
      BY <3>1, FirstMiss
  <2>2. \A i \in 1 .. n : s[i] = " "
    BY <2>1
  <2>3. n + 1 \in Nat
    OBVIOUS
  <2>4. n < Len(s) => s[n + 1] # " "
    BY <2>1, <2>3
  <2>5. F(n)
    BY <2>2, <2>4
  <2> HIDE DEF F
  <2> QED
    BY <2>5
<1>2. Trimmed(s) = Rest(s, m + 1)
  BY DEF Trimmed
<1> HIDE DEF m
<1> QED
  BY <1>1, <1>2

LEMMA TrimmedEndHead ==
  ASSUME NEW X, NEW s \in Seq(X), TrimmedEnd(s) # <<>>
  PROVE  s # <<>> /\ TrimmedEnd(s)[1] = s[1]
<1>1. PICK n \in Nat, r \in Seq(X) : n = Len(s) /\ r = Reverse(s)
  BY ReverseType
<1>2. Len(r) = n /\ \A i \in 1 .. n : r[i] = s[(n - i) + 1]
  BY <1>1, ReverseIs
<1>3. PICK m \in 0 .. n : Trimmed(r) = Rest(r, m + 1)
  BY <1>2, TrimmedIsRest
<1>4. PICK t : t = Trimmed(r)
  OBVIOUS
<1>5. t = SubSeq(r, m + 1, n)
  BY <1>2, <1>3, <1>4 DEF Rest
<1>6. CASE m = n
  <2>1. n + 1 \in Nat \ {0} /\ n \in Int /\ ~(n + 1 <= n)
    OBVIOUS
  <2>2. t \in Seq(X) /\ Len(t) = 0
    BY <1>2, <1>5, <1>6, <2>1, SubSeqIn
  <2>3. Len(Reverse(t)) = 0 /\ Reverse(t) \in Seq(X)
    BY <2>2, ReverseIs
  <2> QED
    BY <1>1, <1>4, <2>3, EmptySeq DEF TrimmedEnd
<1>7. CASE m < n
  <2>1. PICK k \in Nat : k = n - m /\ k > 0
    BY <1>7
  <2>2. /\ t \in Seq(X) /\ Len(t) = k /\ \A i \in 1 .. k : t[i] = r[m + i]
    <3>1. m + 1 \in Int /\ n \in Int /\ \A i \in m + 1 .. n : r[i] \in X
      BY <1>2
    <3>2. /\ SubSeq(r, m + 1, n) \in Seq(X)
          /\ Len(SubSeq(r, m + 1, n)) = IF m + 1 <= n THEN n - (m + 1) + 1 ELSE 0
          /\ \A i \in 1 .. n - (m + 1) + 1 : SubSeq(r, m + 1, n)[i] = r[(m + 1) + i - 1]
      BY <3>1, SubSeqProperties
    <3>3. n - (m + 1) + 1 = k /\ m + 1 <= n /\ \A i \in 1 .. k : (m + 1) + i - 1 = m + i
      BY <1>7, <2>1
    <3> QED
      BY <1>5, <3>2, <3>3
  <2>3. PICK q : q = Reverse(t)
    OBVIOUS
  <2>4. q[1] = t[(k - 1) + 1]
    <3>1. \A i \in 1 .. k : q[i] = t[(k - i) + 1]
      BY <2>2, <2>3, ReverseIs
    <3>2. 1 \in 1 .. k
      BY <2>1
    <3> QED
      BY <3>1, <3>2
  <2>5. (k - 1) + 1 = k /\ k \in 1 .. k /\ m + k = n /\ n \in 1 .. n /\ (n - n) + 1 = 1
    BY <2>1
  <2>6. q[1] = s[1]
    BY <1>2, <2>2, <2>4, <2>5
  <2>7. s # <<>>
    BY <1>1, <2>5, EmptySeq
  <2> QED
    BY <1>1, <1>4, <2>3, <2>6, <2>7 DEF TrimmedEnd
<1> QED
  BY <1>6, <1>7

LEMMA GtWithin ==
  ASSUME NEW line \in Seq(Symbols), gt(line) # 0
  PROVE  gt(line) \in 1 .. Len(line) - 1 /\ line[gt(line)] = ">"
<1>1. GtAt(line) # {} /\ gt(line) = Min(GtAt(line))
  BY GtIs
<1>2. GtAt(line) \subseteq Nat
  BY DEF GtAt
<1>3. PICK m \in GtAt(line) : \A k \in GtAt(line) : m <= k
  BY <1>1, <1>2, LeastNatural
<1>4. gt(line) = m
  BY <1>2, <1>3, GtIs, LeastIs
<1> QED
  BY <1>3, <1>4 DEF GtAt

IsEcho(line) == str_prefix(line, <<"echo", " ">>)
LEMMA EchoFirst ==
  ASSUME Alphabet, NEW line \in Seq(Symbols), IsEcho(line)
  PROVE  line # <<>> /\ line[1] = "echo" /\ Len(line) > 1
<1>1. PICK Y, c, h : Y = Symbols \cup {c} /\ c = "echo" /\ h = Opening(c)
  OBVIOUS
<1>2. h \in Seq(Y) /\ Len(h) = 2 /\ h[1] = c
  <2>1. Blank \subseteq Y /\ c \in Y
    BY <1>1 DEF Alphabet, Blank
  <2> QED
    BY <1>1, <2>1, OpeningIs
<1>3. str_prefix(line, h)
  BY <1>1, Zenon DEF IsEcho, Opening
<1>4. PICK n \in Nat : n = Len(line)
  OBVIOUS
<1>5. 2 <= n /\ \A i \in 1 .. 2 : line[i] = h[i]
  BY <1>2, <1>3, <1>4, PrefixIs
<1>6. 1 \in 1 .. 2
  OBVIOUS
<1>7. line[1] = c
  BY <1>2, <1>5, <1>6
<1>8. line # <<>>
  BY <1>4, <1>5, EmptySeq
<1> QED
  BY <1>1, <1>4, <1>5, <1>7, <1>8

LEMMA NoEcho ==
  ASSUME Alphabet, NEW line \in Seq(Symbols), line[1] # "echo", gt(line) # 0
  PROVE  ~IsEcho(Redirected(line))
<1> SUFFICES ASSUME IsEcho(Redirected(line)) PROVE FALSE
  OBVIOUS
<1>0. PICK n \in Nat : n = Len(line)
  OBVIOUS
<1>1. PICK g \in 1 .. n - 1 : n = Len(line) /\ g = gt(line)
  BY <1>0, GtWithin
<1>2. PICK u : u = SubSeq(line, 1, g - 1)
  OBVIOUS
<1>3. u \in Seq(Symbols) /\ Len(u) = g - 1 /\ \A i \in 1 .. g - 1 : u[i] = line[i]
  <2>1. g - 1 \in 0 .. Len(line)
    BY <1>1
  <2> QED
    BY <1>2, <2>1, FirstN
<1>4. Redirected(line) = TrimmedEnd(u)
  BY <1>1, <1>2 DEF Redirected
<1>5. TrimmedEnd(u) \in Seq(Symbols)
  BY <1>3, TrimmedEndType
<1>6. TrimmedEnd(u) # <<>> /\ TrimmedEnd(u)[1] = "echo"
  BY <1>4, <1>5, EchoFirst
<1>7. u # <<>> /\ TrimmedEnd(u)[1] = u[1]
  BY <1>3, <1>6, TrimmedEndHead
<1>8. 1 \in 1 .. g - 1
  <2>1. g - 1 # 0
    BY <1>3, <1>7, EmptySeq
  <2> QED
    BY <2>1
<1> QED
  BY <1>3, <1>6, <1>7, <1>8

LEMMA NoEchoStep ==
  ASSUME Alphabet, NEW line \in Seq(Symbols), line[1] # "echo", gt(line) # 0, shell_line(line)
  PROVE  tree' = tree /\ cwd' = cwd
<1>1. redirect(line)
  BY DEF shell_line
<1>2. ~str_prefix(Redirected(line), <<"echo", " ">>)
  BY NoEcho, Zenon DEF IsEcho
<1>3. Does(tree, Error)
  BY <1>1, <1>2 DEF redirect
<1> QED
  BY <1>3 DEF Does

\* A '>' that is not the last character stays so behind anything.
HasGt(v) == \E i \in 1 .. Len(v) - 1 : v[i] = ">"
LEMMA GtBehind ==
  ASSUME NEW u \in Seq(Symbols), NEW v \in Seq(Symbols), HasGt(v)
  PROVE  u \o v \in Seq(Symbols) /\ HasGt(u \o v)
<1>1. PICK m \in Nat, n \in Nat : m = Len(u) /\ n = Len(v)
  OBVIOUS
<1>2. PICK i \in 1 .. n - 1 : v[i] = ">"
  BY <1>1 DEF HasGt
<1>3. PICK p : p = u \o v
  OBVIOUS
<1>4. /\ p \in Seq(Symbols) /\ Len(p) = m + n
      /\ \A j \in 1 .. m + n : p[j] = IF j <= m THEN u[j] ELSE v[j - m]
  BY <1>1, <1>3, ConcatProperties
<1>5. m + i \in 1 .. m + n /\ ~(m + i <= m) /\ (m + i) - m = i /\ m + i \in 1 .. (m + n) - 1
  OBVIOUS
<1>6. p[m + i] = v[i]
  BY <1>4, <1>5
<1>7. m + i \in 1 .. Len(p) - 1
  BY <1>4, <1>5
<1>8. HasGt(p)
  BY <1>2, <1>6, <1>7 DEF HasGt
<1> QED
  BY <1>3, <1>4, <1>8

LEMMA HasGtIs ==
  ASSUME NEW line \in Seq(Symbols), HasGt(line)
  PROVE  gt(line) # 0
BY SomeGt DEF HasGt

GtIn(s) == ">" \in ToSet(s)
LEMMA NotGtIn ==
  ASSUME NEW s \in Seq(Symbols), ~GtIn(s)
  PROVE  s \in Seq(Calm)
<1>1. PICK n \in Nat : n = Len(s)
  OBVIOUS
<1>2. DOMAIN s = 1 .. n
  BY <1>1
<1>3. ASSUME NEW i \in 1 .. n PROVE s[i] \in Calm
  <2>1. s[i] \in ToSet(s)
    BY <1>2 DEF ToSet
  <2>2. s[i] # ">"
    BY <2>1 DEF GtIn
  <2>3. s[i] \in Symbols
    BY <1>1
  <2> QED
    BY <2>2, <2>3 DEF Calm
<1>4. s \in [1 .. n -> Symbols]
  BY <1>1
<1>5. s \in [1 .. n -> Calm]
  BY <1>3, <1>4
<1> QED
  BY <1>5

LEMMA GtInFront ==
  ASSUME NEW s \in Seq(Symbols), s # <<>>, GtIn(Front(s))
  PROVE  HasGt(s)
<1>1. PICK n \in Nat : n = Len(s) /\ n > 0
  BY EmptySeq
<1>2. PICK f : f = Front(s)
  OBVIOUS
<1>3. f \in Seq(Symbols) /\ Len(f) = n - 1 /\ \A i \in 1 .. n - 1 : f[i] = s[i]
  BY <1>1, <1>2, FrontLast
<1>4. DOMAIN f = 1 .. n - 1
  BY <1>1, <1>3
<1>5. PICK i \in 1 .. n - 1 : f[i] = ">"
  BY <1>2, <1>4 DEF GtIn, ToSet
<1>6. s[i] = ">"
  BY <1>3, <1>5
<1> QED
  BY <1>1, <1>6 DEF HasGt

\* What write and append make of their line.
LEMMA PathAndTextParts ==
  ASSUME Alphabet, NEW x, PathAndText(x), NEW line \in Seq(Symbols), line = x.line
  PROVE  /\ line[1] = x.said.cmd /\ Len(line) > 1 /\ line[2] = " "
         /\ FirstWord(ArgOf(line)) = x.parts.path /\ AfterWord(ArgOf(line)) # <<>>
         /\ Trimmed(AfterWord(ArgOf(line))) = x.said.text
         /\ gt(line) # 0 <=> GtIn(x.said.text)
<1>1. PICK c, lead, path, gap, text :
        /\ c = x.said.cmd /\ lead = x.parts.lead /\ path = x.parts.path
        /\ gap = x.parts.gap /\ text = x.said.text
  OBVIOUS
<1>2. /\ lead \in Seq(Blank) /\ gap \in Seq(Blank) /\ gap # <<>>
      /\ Spells(path, x.said.args[1]) /\ text \in Seq(Symbols)
      /\ line = Opening(c) \o (lead \o (path \o (gap \o text))) /\ c # ">"
  BY <1>1, CalmIs DEF PathAndText
<1>3. text # <<>> => text[1] \notin Blank
  BY <1>1, Zenon DEF PathAndText, Blank
<1>4. GtIn(text) => GtIn(Front(text))
  BY <1>1, Zenon DEF PathAndText, GtIn
<1>5. path \in Seq(Calm) /\ path \in Seq(Inked) /\ path # <<>> /\ path[1] \notin Blank
  BY <1>2, CalmIs
<1>6. /\ lead \in Seq(Calm) /\ gap \in Seq(Calm) /\ Blank \subseteq Symbols
      /\ lead \in Seq(Symbols) /\ gap \in Seq(Symbols) /\ path \in Seq(Symbols)
  BY <1>2, <1>5, CalmIs
<1>7. PICK arg : arg = path \o (gap \o text)
  OBVIOUS
<1>8. /\ arg \in Seq(Symbols) /\ arg # <<>> /\ arg[1] = path[1]
      /\ FirstWord(arg) = path /\ AfterWord(arg) # <<>> /\ Trimmed(AfterWord(arg)) = text
  BY <1>2, <1>3, <1>5, <1>7, TwoWords
<1>9. line = Opening(c) \o (lead \o arg)
  BY <1>2, <1>7
<1>10. Opens(line, c, arg)
  <2>1. arg[1] \notin Blank
    BY <1>5, <1>8
  <2>2. lead \in Seq(Blank)
    BY <1>2
  <2> QED
    BY <1>8, <1>9, <2>1, <2>2, Opened
<1>11. c \in Symbols
  BY <1>10 DEF Opens
<1>12. ASSUME GtIn(text) PROVE gt(line) # 0
  <2>1. text # <<>>
    BY <1>12 DEF GtIn, ToSet
  <2>2. HasGt(text)
    BY <1>2, <1>4, <1>12, <2>1, GtInFront
  <2>3. gap \o text \in Seq(Symbols) /\ HasGt(gap \o text)
    BY <1>2, <1>6, <2>2, GtBehind
  <2>4. arg \in Seq(Symbols) /\ HasGt(arg)
    BY <1>6, <1>7, <2>3, GtBehind
  <2>5. lead \o arg \in Seq(Symbols) /\ HasGt(lead \o arg)
    BY <1>6, <2>4, GtBehind
  <2>6. Opening(c) \in Seq(Symbols)
    BY <1>6, <1>11, OpeningIs
  <2>7. HasGt(line)
    BY <1>9, <2>5, <2>6, GtBehind
  <2> QED
    BY <2>7, HasGtIs
<1>13. ASSUME ~GtIn(text) PROVE gt(line) = 0
  <2>1. text \in Seq(Calm)
    BY <1>2, <1>13, NotGtIn
  <2>2. gap \o text \in Seq(Calm)
    BY <1>6, <2>1, ConcatProperties
  <2>3. arg \in Seq(Calm)
    BY <1>5, <1>7, <2>2, ConcatProperties
  <2>4. lead \o arg \in Seq(Calm)
    BY <1>6, <2>3, ConcatProperties
  <2>5. c \in Calm
    BY <1>2, <1>11 DEF Calm
  <2>6. Opening(c) \in Seq(Calm)
    BY <2>5, CalmIs, OpeningIs
  <2>7. line \in Seq(Calm)
    BY <1>9, <2>4, <2>6, ConcatProperties
  <2>8. gt(line) = 0
    BY <2>7, NoGtIn
  <2> QED
    BY <2>8
<1>14. gt(line) # 0 <=> GtIn(text)
  BY <1>1, <1>12, <1>13
<1> QED
  BY <1>1, <1>8, <1>10, <1>14, Zenon DEF Opens

LEMMA PathAndTextStep ==
  ASSUME Ready, NEW x, PathAndText(x), Clear(x.said), fs_mounted \in BOOLEAN,
         x.line \in Seq(Symbols), shell_line(x.line)
  PROVE  /\ tree' = (IF fs_mounted /\ ~Refused(x.said) THEN TreeAfter(x.said) ELSE tree)
         /\ cwd' = cwd
<1>0. PICK line \in Seq(Symbols) : line = x.line
  OBVIOUS
<1>1. PICK s, p : line = x.line /\ s = x.said /\ p = Meant(s.args[1])
  BY <1>0
<1>2. /\ line[1] = s.cmd /\ Len(line) > 1 /\ line[2] = " "
      /\ FirstWord(ArgOf(line)) = x.parts.path /\ AfterWord(ArgOf(line)) # <<>>
      /\ Trimmed(AfterWord(ArgOf(line))) = s.text
  BY <1>1, PathAndTextParts, Zenon DEF Ready
<1>3. gt(line) # 0 <=> GtIn(s.text)
  BY <1>1, PathAndTextParts, Zenon DEF Ready
<1>4. /\ Spells(x.parts.path, s.args[1]) /\ 1 \in DOMAIN s.args /\ s.blanks \in Nat
      /\ s.cmd \in {"write", "append"} /\ s.append = (s.cmd = "append")
  <2>1. /\ Spells(x.parts.path, s.args[1]) /\ DOMAIN s.args = {1} /\ s.blanks = 0
        /\ s.cmd \in {"write", "append"} /\ s.append = (s.cmd = "append")
    BY <1>1, Zenon DEF PathAndText
  <2> QED
    BY <2>1
<1>5. File(line) = p
  <2>1. \A i \in DOMAIN s.args : \A path : Spells(path, s.args[i]) =>
           follow_path(path_join(cwd, path)) = Meant(s.args[i])
    BY <1>1, <1>4, ClearWord
  <2> QED
    BY <1>1, <1>2, <1>4, <2>1 DEF File
<1>6. Refused(s) <=> GtIn(s.text)
  BY <1>4, Zenon DEF Refused, GtIn
<1>7. CASE GtIn(s.text)
  <2>1. line[1] # "echo"
    BY <1>2, <1>4
  <2>2. tree' = tree /\ cwd' = cwd
    BY <1>1, <1>3, <1>7, <2>1, NoEchoStep DEF Ready
  <2> QED
    BY <1>1, <1>6, <1>7, <2>2
<1>8. CASE ~GtIn(s.text)
  <2>1. command(line)
    BY <1>1, <1>3, <1>8 DEF shell_line
  <2>2. line[1] \in Commands
    BY <1>2, <1>4 DEF Commands
  <2>3. /\ s.cmd = "write" => cmd_write(line)
        /\ s.cmd = "append" => cmd_append(line)
    BY <1>2, <2>1, <2>2, OnlyCommand DEF Ready
  <2>4. Text(line) = Append(s.text, "\n")
    BY <1>2 DEF Text
  <2>5. PICK t : t = Append(s.text, "\n")
    OBVIOUS
  <2>6. ~Refused(s)
    BY <1>6, <1>8
  <2>7. CASE s.cmd = "write"
    <3>1. Stores(line, Stored(p, t))
      BY <1>5, <2>3, <2>4, <2>5, <2>7 DEF cmd_write
    <3>2. TreeAfter(s) = Stored(p, t)
      BY <1>1, <1>4, <2>5, <2>7 DEF TreeAfter
    <3>3. ~s.append
      BY <1>4, <2>7
    <3> QED
      BY <1>1, <1>2, <2>6, <3>1, <3>2 DEF Stores, Does
  <2>8. CASE s.cmd = "append"
    <3>1. Stores(line, Stored(p, Contents(p) \o t))
      BY <1>5, <2>3, <2>4, <2>5, <2>8 DEF cmd_append
    <3>2. TreeAfter(s) = Stored(p, Contents(p) \o t)
      BY <1>1, <1>4, <2>5, <2>8 DEF TreeAfter
    <3> QED
      BY <1>1, <1>2, <2>6, <3>1, <3>2 DEF Stores, Does
  <2> QED
    BY <1>4, <2>7, <2>8
<1> QED
  BY <1>7, <1>8

LEMMA HeadIs ==
  ASSUME NEW X, NEW u \in Seq(X), NEW v \in Seq(X), NEW n \in Nat, n = Len(u)
  PROVE  SubSeq(u \o v, 1, n) = u
<1>1. PICK k \in Nat : k = Len(v)
  OBVIOUS
<1>2. PICK p : p = u \o v
  OBVIOUS
<1>3. /\ p \in Seq(X) /\ Len(p) = n + k
      /\ \A i \in 1 .. n + k : p[i] = IF i <= n THEN u[i] ELSE v[i - n]
  BY <1>1, <1>2, ConcatProperties
<1>4. PICK q : q = SubSeq(p, 1, n)
  OBVIOUS
<1>5. q \in Seq(X) /\ Len(q) = n /\ \A i \in 1 .. n : q[i] = p[i]
  <2>1. n \in 0 .. Len(p)
    BY <1>3
  <2> QED
    BY <1>3, <1>4, <2>1, FirstN
<1>6. \A i \in 1 .. n : q[i] = u[i]
  BY <1>3, <1>5
<1>7. q = u
  BY <1>5, <1>6, SeqEqual
<1> QED
  BY <1>2, <1>4, <1>7

LEMMA ConcatLast ==
  ASSUME NEW X, NEW u \in Seq(X), NEW v \in Seq(X), v # <<>>
  PROVE  u \o v \in Seq(X) /\ u \o v # <<>> /\ Last(u \o v) = Last(v)
<1>1. PICK m \in Nat, n \in Nat : m = Len(u) /\ n = Len(v)
  OBVIOUS
<1>2. PICK p : p = u \o v
  OBVIOUS
<1>3. /\ p \in Seq(X) /\ Len(p) = m + n
      /\ \A i \in 1 .. m + n : p[i] = IF i <= m THEN u[i] ELSE v[i - m]
  BY <1>1, <1>2, ConcatProperties
<1>4. n > 0
  BY <1>1, EmptySeq
<1>5. m + n \in 1 .. m + n /\ ~(m + n <= m) /\ (m + n) - m = n
  BY <1>4
<1>6. p[m + n] = v[n]
  BY <1>3, <1>5
<1>7. Last(p) = Last(v)
  BY <1>1, <1>3, <1>6 DEF Last
<1>8. p # <<>>
  BY <1>3, <1>4, EmptySeq
<1> QED
  BY <1>2, <1>3, <1>7, <1>8

\* A redirected line: what is before its first '>', and what comes then.
Marked(more, w) == IF more THEN <<">">> \o w ELSE w
Marking(u, v) == u \o (<<">">> \o v)
LEMMA Redirection ==
  ASSUME Alphabet, NEW u \in Seq(Calm), NEW w \in Seq(Calm), w # <<>>, NEW more \in BOOLEAN, NEW v,
         v = Marked(more, w), NEW line, line = Marking(u, v)
  PROVE  /\ line \in Seq(Symbols) /\ gt(line) # 0
         /\ Appends(line) = more
         /\ Rest(line, gt(line) + (IF Appends(line) THEN 2 ELSE 1)) = w
         /\ SubSeq(line, 1, gt(line) - 1) = u
<1>1. PICK g \in Symbols : g = ">"
  BY DEF Alphabet
<1>2. PICK mark : mark = <<g>>
  OBVIOUS
<1>3. mark \in Seq(Symbols) /\ Len(mark) = 1 /\ mark[1] = g /\ mark # <<>>
  BY <1>2, OneSeq
<1>4. u \in Seq(Symbols) /\ w \in Seq(Symbols)
  BY CalmIs
<1>5. v = (IF more THEN mark \o w ELSE w) /\ line = u \o (mark \o v)
  BY <1>1, <1>2, Zenon DEF Marked, Marking
<1>6. mark \o w \in Seq(Symbols) /\ mark \o w # <<>> /\ (mark \o w)[1] = g
  BY <1>3, <1>4, ConcatFirst
<1>7. v \in Seq(Symbols) /\ v # <<>>
  BY <1>4, <1>5, <1>6
<1>8. w[1] # g
  <2>1. w[1] \in Calm
    BY FirstIn
  <2> QED
    BY <1>1, <2>1 DEF Calm
<1>9. v[1] = g <=> more
  BY <1>5, <1>6, <1>8
<1>10. PICK n \in Nat : n = Len(u)
  OBVIOUS
<1>11. line \in Seq(Symbols) /\ gt(line) = n + 1
  <2>1. line = u \o (<<">">> \o v)
    BY Zenon DEF Marking
  <2>2. ">" \in Symbols
    BY <1>1
  <2>3. line \in Seq(Symbols) /\ gt(line) = Len(u) + 1
    BY <1>7, <2>1, <2>2, FirstGt
  <2> QED
    BY <1>10, <2>3
<1>12. PICK a : a = u \o mark
  OBVIOUS
<1>13. a \in Seq(Symbols) /\ Len(a) = n + 1 /\ line = a \o v
  <2>1. a \in Seq(Symbols) /\ Len(a) = Len(u) + Len(mark)
    BY <1>3, <1>4, <1>12, ConcatProperties
  <2>2. line = a \o v
    <3>1. u \in Seq(Symbols) /\ mark \in Seq(Symbols) /\ v \in Seq(Symbols)
      BY <1>3, <1>4, <1>7
    <3>2. (u \o mark) \o v = u \o (mark \o v)
      BY <3>1, Reassociate
    <3> QED
      BY <1>5, <1>12, <3>2
  <2> QED
    BY <1>3, <1>10, <2>1, <2>2
<1>14. Rest(line, n + 2) = v
  <2>1. n + 2 = Len(a) + 1 /\ n + 2 \in Nat
    BY <1>13
  <2> QED
    BY <1>7, <1>13, <2>1, RestIs
<1>15. line[n + 2] = v[1]
  <2>1. PICK k \in Nat : k = Len(v) /\ k > 0
    BY <1>7, EmptySeq
  <2>2. \A i \in 1 .. (n + 1) + k : line[i] = IF i <= n + 1 THEN a[i] ELSE v[i - (n + 1)]
    <3>1. \A i \in 1 .. Len(a) + Len(v) : line[i] = IF i <= Len(a) THEN a[i] ELSE v[i - Len(a)]
      BY <1>7, <1>13, ConcatProperties
    <3> QED
      BY <1>13, <2>1, <3>1
  <2>3. n + 2 \in 1 .. (n + 1) + k /\ ~(n + 2 <= n + 1) /\ (n + 2) - (n + 1) = 1
    BY <2>1
  <2> QED
    BY <2>2, <2>3
<1>16. Appends(line) = more
  <2>1. (n + 1) + 1 = n + 2
    OBVIOUS
  <2>2. Appends(line) <=> line[n + 2] = g
    BY <1>1, <1>11, <2>1 DEF Appends
  <2>3. Appends(line) \in BOOLEAN
    BY DEF Appends
  <2> QED
    BY <1>9, <1>15, <2>2, <2>3
<1>17. SubSeq(line, 1, n) = u
  <2>1. mark \o v \in Seq(Symbols)
    BY <1>3, <1>7, ConcatProperties
  <2> QED
    BY <1>4, <1>5, <1>10, <2>1, HeadIs
<1>18. Rest(line, gt(line) + (IF Appends(line) THEN 2 ELSE 1)) = w
  <2>1. CASE more
    <3>1. PICK b : b = a \o mark
      OBVIOUS
    <3>2. b \in Seq(Symbols) /\ Len(b) = n + 2 /\ line = b \o w
      <4>1. b \in Seq(Symbols) /\ Len(b) = Len(a) + Len(mark)
        BY <1>3, <1>13, <3>1, ConcatProperties
      <4>2. line = a \o (mark \o w)
        BY <1>5, <1>13, <2>1
      <4>3. line = b \o w
        BY <1>3, <1>4, <1>13, <3>1, <4>2, Reassociate
      <4> QED
        BY <1>3, <1>13, <4>1, <4>3
    <3>3. n + 3 = Len(b) + 1 /\ n + 3 \in Nat
      BY <3>2
    <3>4. Rest(line, n + 3) = w
      BY <1>4, <3>2, <3>3, RestIs
    <3>5. gt(line) + 2 = n + 3
      BY <1>11
    <3> QED
      BY <1>16, <2>1, <3>4, <3>5
  <2>2. CASE ~more
    <3>1. gt(line) + 1 = n + 2
      BY <1>11
    <3> QED
      BY <1>5, <1>14, <1>16, <2>2, <3>1
  <2> QED
    BY <2>1, <2>2
<1>19. gt(line) # 0 /\ gt(line) - 1 = n
  BY <1>11
<1> QED
  BY <1>11, <1>16, <1>17, <1>18, <1>19

\* The echo before it.
LEMMA EchoIs ==
  ASSUME Alphabet, NEW text \in Seq(Symbols), text # <<>> => Last(text) \notin Blank, NEW gap \in Seq(Blank),
         NEW c, c \in Symbols, c = "echo"
  PROVE  LET e == TrimmedEnd(Opening(c) \o (text \o gap))
         IN IF text = <<>> THEN ~IsEcho(e) ELSE IsEcho(e) /\ Rest(e, 3) = text
<1>1. PICK h, b : h = Opening(c) /\ b = " "
  OBVIOUS
<1>2. Blank \subseteq Symbols /\ gap \in Seq(Symbols) /\ b \in Symbols /\ b \in Blank
  BY <1>1, CalmIs DEF Blank
<1>3. h \in Seq(Symbols) /\ Len(h) = 2 /\ h[1] = c /\ h[2] = b /\ h = <<c, b>>
  <2>1. h = <<c, b>>
    BY <1>1 DEF Opening
  <2> QED
    BY <1>2, <2>1
<1>4. PICK e : e = TrimmedEnd(h \o (text \o gap))
  OBVIOUS
<1>5. CASE text # <<>>
  <2>1. PICK a : a = h \o text
    OBVIOUS
  <2>2. a \in Seq(Symbols) /\ Last(a) = Last(text)
    BY <1>3, <1>5, <2>1, ConcatLast
  <2>3. h \o (text \o gap) = a \o gap
    BY <1>2, <1>3, <2>1, Reassociate
  <2>4. e = a
    BY <1>2, <1>4, <1>5, <2>2, <2>3, TrimmedEndIs
  <2>5. Rest(a, 3) = text
    <3>1. 3 = Len(h) + 1 /\ 3 \in Nat
      BY <1>3
    <3> QED
      BY <1>3, <2>1, <3>1, RestIs
  <2>6. str_prefix(a, h)
    <3>1. PICK k \in Nat : k = Len(text)
      OBVIOUS
    <3>2. Len(a) = 2 + k /\ \A i \in 1 .. 2 : a[i] = h[i]
      <4>1. /\ Len(a) = Len(h) + Len(text)
            /\ \A i \in 1 .. Len(h) + Len(text) : a[i] = IF i <= Len(h) THEN h[i] ELSE text[i - Len(h)]
        BY <1>3, <2>1, ConcatProperties
      <4> QED
        BY <1>3, <3>1, <4>1
    <3>3. Len(h) <= Len(a) /\ \A i \in 1 .. Len(h) : a[i] = h[i]
      BY <1>3, <3>1, <3>2
    <3> QED
      BY <1>3, <2>2, <3>3, PrefixIs
  <2>7. IsEcho(a)
    BY <1>1, <2>6, Zenon DEF IsEcho, Opening
  <2> QED
    BY <1>1, <1>4, <1>5, <2>4, <2>5, <2>7
<1>6. CASE text = <<>>
  <2>1. PICK one, sp : one = <<c>> /\ sp = <<b>>
    OBVIOUS
  <2>2. one \in Seq(Symbols) /\ Len(one) = 1 /\ one[1] = c /\ one # <<>> /\ sp \in Seq(Blank) /\ sp \in Seq(Symbols)
    BY <1>2, <2>1, OneSeq
  <2>3. h = one \o sp
    BY <1>3, <2>1
  <2>4. text \o gap = gap
    BY <1>2, <1>6, ConcatEmptySeq
  <2>5. PICK g : g = sp \o gap
    OBVIOUS
  <2>6. g \in Seq(Blank)
    BY <2>2, <2>5, ConcatProperties
  <2>7. h \o gap = one \o g
    <3>1. one \in Seq(Symbols) /\ sp \in Seq(Symbols) /\ gap \in Seq(Symbols)
      BY <1>2, <2>2
    <3>2. (one \o sp) \o gap = one \o (sp \o gap)
      BY <3>1, Reassociate
    <3> QED
      BY <2>3, <2>5, <3>2
  <2>8. Last(one) \notin Blank
    BY <2>2, <1>1 DEF Last, Blank
  <2>9. e = one
    BY <1>2, <1>4, <2>2, <2>4, <2>6, <2>7, <2>8, TrimmedEndIs
  <2>10. ~IsEcho(one)
    <3>1. SUFFICES ASSUME IsEcho(one) PROVE FALSE
      OBVIOUS
    <3>2. one \in Seq(Symbols) /\ Len(one) = 1
      BY <2>2
    <3>3. Len(one) > 1
      BY <3>1, <3>2, EchoFirst
    <3> QED
      BY <3>2, <3>3
  <2> QED
    BY <1>1, <1>4, <1>6, <2>9, <2>10
<1> QED
  BY <1>5, <1>6

Marks(more) == IF more THEN <<">", ">">> ELSE <<">">>
LEMMA MarksAre ==
  ASSUME ">" \in Symbols, NEW more \in BOOLEAN, NEW w \in Seq(Symbols), NEW u \in Seq(Symbols)
  PROVE  /\ Marks(more) \o w \in Seq(Symbols)
         /\ u \o (Marks(more) \o w) = Marking(u, Marked(more, w))
<1>1. PICK g \in Symbols : g = ">"
  OBVIOUS
<1>2. PICK one, two : one = <<g>> /\ two = <<g, g>>
  OBVIOUS
<1>3. one \in Seq(Symbols) /\ two = one \o one /\ two \in Seq(Symbols)
  BY <1>2
<1>4. two \o w = one \o (one \o w)
  BY <1>3, Reassociate
<1>5. Marks(more) = IF more THEN two ELSE one
  BY <1>1, <1>2, Zenon DEF Marks
<1>6. Marked(more, w) = IF more THEN one \o w ELSE w
  BY <1>1, <1>2, Zenon DEF Marked
<1>7. \A v : Marking(u, v) = u \o (one \o v)
  BY <1>1, <1>2, Zenon DEF Marking
<1>8. Marks(more) \o w = one \o Marked(more, w)
  BY <1>4, <1>5, <1>6
<1>9. Marks(more) \o w \in Seq(Symbols)
  BY <1>3, <1>5, ConcatProperties
<1> QED
  BY <1>7, <1>8, <1>9

\* What a redirected echo is taken apart into.
EndsInk(s) == s # <<>> => Last(s) \notin Blank
LEMMA TextAndPathParts ==
  ASSUME Alphabet, NEW x, TextAndPath(x), NEW line \in Seq(Symbols), line = x.line
  PROVE  /\ gt(line) # 0 /\ Appends(line) = x.said.append
         /\ TrimmedEnd(Trimmed(Rest(line, gt(line) + (IF Appends(line) THEN 2 ELSE 1)))) = x.parts.path
         /\ IsEcho(Redirected(line)) <=> x.said.text # <<>>
         /\ x.said.text # <<>> => Echoed(line) = Append(x.said.text, "\n")
<1>1. PICK c, lead, path, trail, gap, text, more :
        /\ c = "echo" /\ lead = x.parts.lead /\ path = x.parts.path /\ trail = x.parts.trail
        /\ gap = x.parts.gap /\ text = x.said.text /\ more = x.said.append
  OBVIOUS
<1>2. PICK w : w = lead \o (path \o trail)
  OBVIOUS
<1>3. /\ {lead, gap, trail} \subseteq Gaps /\ more \in BOOLEAN
      /\ Spells(path, x.said.args[1])
      /\ line = Opening(c) \o (text \o (gap \o (Marks(more) \o w)))
  BY <1>1, <1>2, Zenon DEF TextAndPath, Marks
<1>4. text \in Seq(Calm) /\ EndsInk(text)
  BY <1>1, Zenon DEF TextAndPath, Calm, EndsInk, Blank
<1>5. lead \in Seq(Blank) /\ gap \in Seq(Blank) /\ trail \in Seq(Blank) /\ Blank \subseteq Symbols
  BY <1>3, CalmIs
<1>6. /\ path \in Seq(Calm) /\ path # <<>> /\ path[1] \notin Blank /\ Last(path) \notin Blank
  BY <1>3, CalmIs
<1>7. /\ lead \in Seq(Calm) /\ gap \in Seq(Calm) /\ trail \in Seq(Calm) /\ Blank \subseteq Calm
  BY <1>5, CalmIs
<1>8. PICK arg : arg = path \o trail
  OBVIOUS
<1>9. arg \in Seq(Calm) /\ arg # <<>> /\ arg[1] = path[1]
  BY <1>6, <1>7, <1>8, ConcatFirst
<1>10. w \in Seq(Calm) /\ w # <<>>
  BY <1>2, <1>7, <1>8, <1>9, ConcatLast
<1>11. w \in Seq(Symbols) /\ text \in Seq(Symbols) /\ gap \in Seq(Symbols) /\ ">" \in Symbols
  BY <1>4, <1>7, <1>10, CalmIs DEF Alphabet
<1>12. PICK z : z = Marks(more) \o w
  OBVIOUS
<1>13. z \in Seq(Symbols)
  BY <1>3, <1>11, <1>12, MarksAre
<1>14. c \in Symbols
  <2>1. gap \o z \in Seq(Symbols)
    BY <1>11, <1>13, ConcatProperties
  <2>2. PICK r \in Seq(Symbols) : r = text \o (gap \o z)
    BY <1>11, <2>1, ConcatProperties
  <2>3. line = Opening(c) \o r
    BY <1>3, <1>12, <2>2
  <2> QED
    BY <2>3, OpenedBy
<1>15. c \in Calm
  <2>1. c # ">"
    BY <1>1
  <2> QED
    BY <1>14, <2>1 DEF Calm
<1>16. Opening(c) \in Seq(Calm) /\ Opening(c) \in Seq(Symbols)
  BY <1>5, <1>7, <1>14, <1>15, OpeningIs
<1>17. PICK a : a = text \o gap
  OBVIOUS
<1>18. a \in Seq(Calm) /\ a \in Seq(Symbols)
  BY <1>4, <1>7, <1>11, <1>17, ConcatProperties
<1>19. PICK u : u = Opening(c) \o a
  OBVIOUS
<1>20. u \in Seq(Calm) /\ u \in Seq(Symbols)
  BY <1>16, <1>18, <1>19, ConcatProperties
<1>21. line = u \o z
  <2>1. (text \o gap) \o z = text \o (gap \o z)
    BY <1>11, <1>13, Reassociate, SMTT(60)
  <2>2. (Opening(c) \o a) \o z = Opening(c) \o (a \o z)
    BY <1>13, <1>16, <1>18, Reassociate, SMTT(60)
  <2> QED
    BY <1>3, <1>12, <1>17, <1>19, <2>1, <2>2
<1>22. line = Marking(u, Marked(more, w))
  BY <1>3, <1>11, <1>12, <1>20, <1>21, MarksAre
<1>23. /\ gt(line) # 0
       /\ Appends(line) = more
       /\ Rest(line, gt(line) + (IF Appends(line) THEN 2 ELSE 1)) = w
       /\ SubSeq(line, 1, gt(line) - 1) = u
  BY <1>3, <1>10, <1>20, <1>22, Redirection
<1>24. TrimmedEnd(Trimmed(w)) = path
  <2>1. Trimmed(w) = arg
    BY <1>2, <1>5, <1>6, <1>7, <1>8, <1>9, TrimmedIs
  <2>2. TrimmedEnd(arg) = path
    BY <1>5, <1>6, <1>7, <1>8, TrimmedEndIs
  <2> QED
    BY <2>1, <2>2
<1>25. PICK e : e = TrimmedEnd(u)
  OBVIOUS
<1>26. Redirected(line) = e
  BY <1>23, <1>25 DEF Redirected
<1>27. IF text = <<>> THEN ~IsEcho(e) ELSE IsEcho(e) /\ Rest(e, 3) = text
  <2>1. text # <<>> => Last(text) \notin Blank
    BY <1>4 DEF EndsInk
  <2>2. e = TrimmedEnd(Opening(c) \o (text \o gap))
    BY <1>17, <1>19, <1>25
  <2> QED
    BY <1>1, <1>5, <1>11, <1>14, <2>1, <2>2, EchoIs
<1>28. Echoed(line) = Append(Rest(e, 3), "\n")
  BY <1>26 DEF Echoed
<1> QED
  BY <1>1, <1>23, <1>24, <1>26, <1>27, <1>28

LEMMA TextAndPathStep ==
  ASSUME Ready, NEW x, TextAndPath(x), Clear(x.said), fs_mounted \in BOOLEAN,
         x.line \in Seq(Symbols), shell_line(x.line)
  PROVE  /\ tree' = (IF fs_mounted /\ ~Refused(x.said) THEN TreeAfter(x.said) ELSE tree)
         /\ cwd' = cwd
<1>0. PICK line \in Seq(Symbols) : line = x.line
  OBVIOUS
<1>1. PICK s, p : line = x.line /\ s = x.said /\ p = Meant(s.args[1])
  BY <1>0
<1>2. PICK path, file : /\ path = x.parts.path
                        /\ file = TrimmedEnd(Trimmed(Rest(line, gt(line) + (IF Appends(line) THEN 2 ELSE 1))))
  OBVIOUS
<1>3. /\ gt(line) # 0 /\ Appends(line) = s.append /\ file = path
  BY <1>1, <1>2, TextAndPathParts, Zenon DEF Ready
<1>4. /\ IsEcho(Redirected(line)) <=> s.text # <<>>
      /\ s.text # <<>> => Echoed(line) = Append(s.text, "\n")
  BY <1>1, TextAndPathParts, Zenon DEF Ready
<1>5. /\ Spells(path, s.args[1]) /\ 1 \in DOMAIN s.args /\ s.blanks \in Nat
      /\ s.cmd = "echo" /\ s.append \in BOOLEAN
  <2>1. /\ Spells(path, s.args[1]) /\ DOMAIN s.args = {1} /\ s.blanks = 0
        /\ s.cmd = "echo" /\ s.append \in BOOLEAN
    BY <1>1, <1>2, Zenon DEF TextAndPath
  <2> QED
    BY <2>1
<1>6. follow_path(path_join(cwd, file)) = p
  BY <1>1, <1>3, <1>5, ClearWord
<1>7. PICK t : t = Append(s.text, "\n")
  OBVIOUS
<1>8. Refused(s) <=> s.text = <<>>
  BY <1>5 DEF Refused
<1>9. IF IsEcho(Redirected(line)) /\ fs_mounted
      THEN Does(Stored(p, IF Appends(line) THEN Contents(p) \o Echoed(line) ELSE Echoed(line)), Nothing)
      ELSE Does(tree, Error)
  <2>1. redirect(line)
    BY <1>1, <1>3 DEF shell_line
  <2> QED
    BY <1>2, <1>6, <2>1, Zenon DEF redirect, IsEcho
<1>10. CASE s.text = <<>> \/ ~fs_mounted
  <2>1. Does(tree, Error)
    BY <1>4, <1>9, <1>10
  <2> QED
    BY <1>1, <1>8, <1>10, <2>1 DEF Does
<1>11. CASE s.text # <<>> /\ fs_mounted
  <2>1. Does(Stored(p, IF s.append THEN Contents(p) \o t ELSE t), Nothing)
    BY <1>3, <1>4, <1>7, <1>9, <1>11
  <2>2. TreeAfter(s) = Stored(p, IF s.append THEN Contents(p) \o t ELSE t)
    BY <1>1, <1>5, <1>7 DEF TreeAfter
  <2> QED
    BY <1>1, <1>8, <1>11, <2>1, <2>2 DEF Does
<1> QED
  BY <1>10, <1>11

\* What any line does: to the tree, to the working directory, and what it shows.
GoneTo(s) == IF s.cmd = "cd" /\ fs_mounted /\ IsDir(Meant(s.args[1])) THEN Meant(s.args[1]) ELSE Here
Shows(s) ==
    s.cmd \in {"head", "tail", "wc"} /\ fs_mounted /\ IsFile(Meant(s.args[1])) =>
        LET b == tree[Meant(s.args[1])].data
        IN screen' = CASE s.cmd = "head" -> Printed(cmd_head(b))
                       [] s.cmd = "tail" -> Printed(cmd_tail(b))
                       [] OTHER -> [text |-> <<>>, counts |-> cmd_wc(b)]
Done(s) == /\ tree' = IF fs_mounted /\ ~Refused(s) THEN TreeAfter(s) ELSE tree
           /\ follow_path(cwd') = GoneTo(s)
           /\ Shows(s)

LEMMA NotRefused ==
  ASSUME NEW s, s.cmd # "echo", s.text = <<>>
  PROVE  ~Refused(s)
<1>1. ToSet(s.text) = {}
  BY DEF ToSet
<1> QED
  BY <1>1, Zenon DEF Refused

LEMMA LineStep ==
  ASSUME Ready, Faithful, NEW x \in Lines, Clear(x.said), fs_mounted \in BOOLEAN, shell_line(x.line)
  PROVE  Done(x.said)
<1>1. x.line \in Seq(Symbols)
  BY ShellAssumption
<1>2. PICK s : s = x.said
  OBVIOUS
<1>3. s.cmd \notin {"none", "other"}
  BY <1>2 DEF Clear
<1>4. \/ OnePath(x) \/ BareCd(x) \/ TwoPaths(x) \/ PathAndText(x) \/ TextAndPath(x)
  BY <1>2, <1>3 DEF Faithful
<1>5. CASE OnePath(x) /\ ~IsCd(x)
  <2>1. s.cmd # "cd" /\ s.cmd # "echo" /\ s.text = <<>>
    BY <1>2, <1>5, Zenon DEF OnePath, IsCd, Shown
  <2>2. ~Refused(s)
    BY <2>1, NotRefused
  <2>3. tree' = (IF fs_mounted THEN TreeAfter(s) ELSE tree) /\ cwd' = cwd /\ Shows(s)
    BY <1>1, <1>2, <1>5, OnePathStep, Zenon DEF Shows
  <2> QED
    BY <1>2, <2>1, <2>2, <2>3 DEF Done, GoneTo, Here
<1>6. CASE (OnePath(x) /\ IsCd(x)) \/ BareCd(x)
  <2>1. s.cmd = "cd"
    BY <1>2, <1>6, Zenon DEF BareCd, IsCd
  <2>2. tree' = tree /\ follow_path(cwd') = GoneTo(s)
    BY <1>1, <1>2, <1>6, <2>1, CdStep DEF GoneTo
  <2>3. TreeAfter(s) = tree
    BY <2>1 DEF TreeAfter
  <2> QED
    BY <1>2, <2>1, <2>2, <2>3 DEF Done, Shows
<1>7. CASE TwoPaths(x)
  <2>1. s.cmd \in {"cp", "mv"} /\ s.text = <<>>
    BY <1>2, <1>7, Zenon DEF TwoPaths
  <2>2. ~Refused(s)
    BY <2>1, NotRefused
  <2>3. tree' = (IF fs_mounted THEN TreeAfter(s) ELSE tree) /\ cwd' = cwd
    BY <1>1, <1>2, <1>7, TwoPathsStep
  <2> QED
    BY <1>2, <2>1, <2>2, <2>3 DEF Done, Shows, GoneTo, Here
<1>8. CASE PathAndText(x)
  <2>1. s.cmd \in {"write", "append"}
    BY <1>2, <1>8, Zenon DEF PathAndText
  <2>2. tree' = (IF fs_mounted /\ ~Refused(s) THEN TreeAfter(s) ELSE tree) /\ cwd' = cwd
    BY <1>1, <1>2, <1>8, PathAndTextStep
  <2> QED
    BY <1>2, <2>1, <2>2 DEF Done, Shows, GoneTo, Here
<1>9. CASE TextAndPath(x)
  <2>1. s.cmd = "echo"
    BY <1>2, <1>9, Zenon DEF TextAndPath
  <2>2. tree' = (IF fs_mounted /\ ~Refused(s) THEN TreeAfter(s) ELSE tree) /\ cwd' = cwd
    BY <1>1, <1>2, <1>9, TextAndPathStep
  <2> QED
    BY <1>2, <2>1, <2>2 DEF Done, Shows, GoneTo, Here
<1> QED
  BY <1>4, <1>5, <1>6, <1>7, <1>8, <1>9

-----------------------------------------------------------------------------
(* The reads of a file *)

\* How many reads a file takes, and which part of it each has fetched.
LEMMA ReadCount ==
  ASSUME NEW n \in Nat, NEW m \in Nat \ {0}, NEW k, k = (n + m - 1) \div m
  PROVE  /\ k \in Nat /\ k * m >= n
         /\ \A i \in Nat : i + 1 <= k => i * m < n
<1>1. k \in Int /\ m * k <= n + m - 1 /\ n + m - 1 < m * k + m
  OBVIOUS
<1> QED
  BY <1>1

LEMMA PartsJoin ==
  ASSUME NEW X, NEW b \in Seq(X), NEW i \in 0 .. Len(b), NEW j \in i .. Len(b)
  PROVE  /\ SubSeq(b, 1, i) \in Seq(X) /\ SubSeq(b, i + 1, j) \in Seq(X)
         /\ SubSeq(b, 1, i) \o SubSeq(b, i + 1, j) = SubSeq(b, 1, j)
<1>1. PICK u : u = SubSeq(b, 1, i)
  OBVIOUS
<1>2. u \in Seq(X) /\ Len(u) = i /\ \A k \in 1 .. i : u[k] = b[k]
  BY <1>1, FirstN
<1>3. PICK v : v = SubSeq(b, i + 1, j)
  OBVIOUS
<1>4. v \in Seq(X) /\ Len(v) = j - i /\ \A k \in 1 .. j - i : v[k] = b[i + k]
  <2>1. i + 1 \in Int /\ j \in Int /\ \A k \in i + 1 .. j : b[k] \in X
    OBVIOUS
  <2>2. /\ SubSeq(b, i + 1, j) \in Seq(X)
        /\ Len(SubSeq(b, i + 1, j)) = IF i + 1 <= j THEN j - (i + 1) + 1 ELSE 0
        /\ \A k \in 1 .. j - (i + 1) + 1 : SubSeq(b, i + 1, j)[k] = b[(i + 1) + k - 1]
    BY <2>1, SubSeqProperties
  <2>3. j - (i + 1) + 1 = j - i /\ \A k \in 1 .. j - i : (i + 1) + k - 1 = i + k
    OBVIOUS
  <2>4. Len(SubSeq(b, i + 1, j)) = j - i
    BY <2>2
  <2> QED
    BY <1>3, <2>2, <2>3, <2>4
<1>5. PICK w : w = u \o v
  OBVIOUS
<1>6. /\ w \in Seq(X) /\ Len(w) = j
      /\ \A k \in 1 .. j : w[k] = IF k <= i THEN u[k] ELSE v[k - i]
  <2>1. /\ w \in Seq(X) /\ Len(w) = Len(u) + Len(v)
        /\ \A k \in 1 .. Len(u) + Len(v) : w[k] = IF k <= Len(u) THEN u[k] ELSE v[k - Len(u)]
    BY <1>2, <1>4, <1>5, ConcatProperties
  <2>2. Len(u) + Len(v) = j
    BY <1>2, <1>4
  <2> QED
    BY <1>2, <2>1, <2>2
<1>7. PICK t : t = SubSeq(b, 1, j)
  OBVIOUS
<1>8. t \in Seq(X) /\ Len(t) = j /\ \A k \in 1 .. j : t[k] = b[k]
  <2>1. j \in 0 .. Len(b)
    OBVIOUS
  <2> QED
    BY <1>7, <2>1, FirstN
<1>9. ASSUME NEW k \in 1 .. j PROVE w[k] = t[k]
  <2>1. CASE k <= i
    <3>1. k \in 1 .. i
      BY <2>1
    <3> QED
      BY <1>2, <1>6, <1>8, <2>1, <3>1
  <2>2. CASE k > i
    <3>1. k - i \in 1 .. j - i /\ i + (k - i) = k /\ ~(k <= i)
      BY <2>2
    <3>2. w[k] = v[k - i] /\ v[k - i] = b[i + (k - i)]
      BY <1>4, <1>6, <3>1
    <3> QED
      BY <1>8, <3>1, <3>2
  <2> QED
    BY <2>1, <2>2
<1>10. w = t
  BY <1>6, <1>8, <1>9, SeqEqual
<1> QED
  BY <1>1, <1>2, <1>3, <1>4, <1>5, <1>7, <1>10

\* A loop over the reads of a file, with one over each, is a loop over the file.
LEMMA ReadsFold ==
  ASSUME NEW V, NEW X, NEW G, IsStep(G, V, X), NEW base \in V, NEW b \in Seq(X), NEW f, f[0] = base,
         \A k \in 1 .. Len(Reads(b)) :
             f[k - 1] \in V /\ Reads(b)[k] \in Seq(X) => f[k] = Fold(G, f[k - 1], Reads(b)[k])
  PROVE  f[Len(Reads(b))] = Fold(G, base, b)
<1>1. PICK m \in Nat \ {0} : m = BufMax
  BY ReadersAssumption
<1>2. PICK n \in Nat : n = Len(b)
  OBVIOUS
<1>3. PICK N : N = (n + m - 1) \div m
  OBVIOUS
<1>4. N \in Nat /\ N * m >= n /\ \A i \in Nat : i + 1 <= N => i * m < n
  BY <1>3, ReadCount
<1> DEFINE end(k) == IF k * m < n THEN k * m ELSE n
<1>5. Reads(b) = [k \in 1 .. N |-> SubSeq(b, (k - 1) * m + 1, end(k))]
  BY <1>1, <1>2, <1>3 DEF Reads
<1>6. Len(Reads(b)) = N /\ \A k \in 1 .. N : Reads(b)[k] = SubSeq(b, (k - 1) * m + 1, end(k))
  BY <1>4, <1>5
<1> HIDE DEF end
<1>7. ASSUME NEW k \in Nat PROVE k * m \in Nat /\ end(k) \in 0 .. n
  BY DEF end
<1>8. ASSUME NEW k \in Nat, k + 1 <= N
      PROVE  /\ end(k) = k * m /\ end(k + 1) \in end(k) .. n
             /\ SubSeq(b, 1, end(k)) \in Seq(X) /\ Reads(b)[k + 1] \in Seq(X)
             /\ SubSeq(b, 1, end(k)) \o Reads(b)[k + 1] = SubSeq(b, 1, end(k + 1))
  <2>1. k * m < n
    BY <1>4, <1>8
  <2>2. end(k) = k * m
    BY <2>1 DEF end
  <2>3. (k + 1) * m = k * m + m /\ k * m \in Nat
    OBVIOUS
  <2>4. end(k + 1) \in end(k) .. n
    BY <2>1, <2>2, <2>3 DEF end
  <2>5. Reads(b)[k + 1] = SubSeq(b, end(k) + 1, end(k + 1))
    <3>1. k + 1 \in 1 .. N /\ (k + 1) - 1 = k
      BY <1>4, <1>8
    <3> QED
      BY <1>6, <2>2, <3>1
  <2>6. end(k) \in 0 .. n
    BY <1>7
  <2> QED
    <3>1. PICK i \in 0 .. Len(b) : i = end(k)
      BY <1>2, <2>6
    <3>2. PICK j \in i .. Len(b) : j = end(k + 1)
      BY <1>2, <2>4, <3>1
    <3>3. /\ SubSeq(b, 1, i) \in Seq(X) /\ SubSeq(b, i + 1, j) \in Seq(X)
          /\ SubSeq(b, 1, i) \o SubSeq(b, i + 1, j) = SubSeq(b, 1, j)
      BY PartsJoin
    <3> QED
      BY <2>2, <2>4, <2>5, <3>1, <3>2, <3>3
<1> DEFINE S == {k \in Nat : f[k] = Fold(G, base, SubSeq(b, 1, end(k)))}
<1>9. 0 \in S
  <2>1. 0 * m = 0
    OBVIOUS
  <2>2. end(0) = 0
    BY <2>1 DEF end
  <2>3. SubSeq(b, 1, 0) = <<>>
    <3>1. 0 \in 0 .. Len(b)
      OBVIOUS
    <3>2. Len(SubSeq(b, 1, 0)) = 0 /\ SubSeq(b, 1, 0) \in Seq(X)
      BY <3>1, FirstN
    <3> QED
      BY <3>2, EmptySeq
  <2>4. Fold(G, base, <<>>) = base
    BY FoldEmpty
  <2> QED
    BY <2>2, <2>3, <2>4
<1>10. ASSUME NEW k \in 0 .. N - 1, k \in S PROVE k + 1 \in S
  <2>1. k \in Nat /\ k + 1 <= N /\ k + 1 \in 1 .. N /\ (k + 1) - 1 = k /\ k + 1 \in Nat
    BY <1>4
  <2>2. PICK u \in Seq(X), v \in Seq(X) : /\ u = SubSeq(b, 1, end(k)) /\ v = Reads(b)[k + 1]
                                          /\ u \o v = SubSeq(b, 1, end(k + 1))
    BY <1>8, <2>1
  <2>3. f[k] = Fold(G, base, u) /\ f[k] \in V
    <3>1. f[k] = Fold(G, base, u)
      BY <1>10, <2>2 DEF S
    <3>2. Fold(G, base, u) \in V
      BY FoldType
    <3> QED
      BY <3>1, <3>2
  <2>4. f[k + 1] = Fold(G, f[k], v)
    BY <1>6, <2>1, <2>2, <2>3
  <2>5. Fold(G, base, u \o v) = Fold(G, Fold(G, base, u), v)
    BY FoldConcat
  <2> QED
    BY <2>1, <2>2, <2>3, <2>4, <2>5
<1>11. 0 .. N \subseteq S
  <2> HIDE DEF S
  <2> QED
    BY <1>4, <1>9, <1>10, Steps
<1>12. f[N] = Fold(G, base, SubSeq(b, 1, end(N)))
  BY <1>4, <1>11 DEF S
<1>13. end(N) = n
  BY <1>4 DEF end
<1>14. SubSeq(b, 1, n) = b
  BY <1>2, SubSeqFull
<1> QED
  BY <1>6, <1>12, <1>13, <1>14

LEMMA ReadsType ==
  ASSUME NEW X, NEW b \in Seq(X)
  PROVE  Len(Reads(b)) \in Nat /\ \A k \in 1 .. Len(Reads(b)) : Reads(b)[k] \in Seq(X)
<1>1. PICK m \in Nat \ {0} : m = BufMax
  BY ReadersAssumption
<1>2. PICK n \in Nat : n = Len(b)
  OBVIOUS
<1>3. PICK N : N = (n + m - 1) \div m
  OBVIOUS
<1>4. N \in Nat /\ N * m >= n /\ \A i \in Nat : i + 1 <= N => i * m < n
  BY <1>3, ReadCount
<1> DEFINE end(k) == IF k * m < n THEN k * m ELSE n
<1>5. Reads(b) = [k \in 1 .. N |-> SubSeq(b, (k - 1) * m + 1, end(k))]
  BY <1>1, <1>2, <1>3 DEF Reads
<1>6. Len(Reads(b)) = N /\ \A k \in 1 .. N : Reads(b)[k] = SubSeq(b, (k - 1) * m + 1, end(k))
  BY <1>4, <1>5
<1>7. ASSUME NEW k \in 1 .. N PROVE SubSeq(b, (k - 1) * m + 1, end(k)) \in Seq(X)
  <2>1. k - 1 \in Nat /\ k * m \in Nat /\ (k - 1) * m \in Nat
    BY <1>4
  <2>2. (k - 1) * m + 1 \in Nat \ {0} /\ end(k) \in Int /\ end(k) <= Len(b)
    BY <1>2, <2>1
  <2> QED
    BY <2>2, SubSeqIn
<1> QED
  BY <1>4, <1>6, <1>7

\* What such a loop has made after each of the reads.
IsReadsLoop(f, G, V, base, b) ==
    /\ f \in [0 .. Len(Reads(b)) -> V] /\ f[0] = base
    /\ \A k \in 1 .. Len(Reads(b)) : f[k] = Fold(G, f[k - 1], Reads(b)[k])
LEMMA ReadsLoopExists ==
  ASSUME NEW V, NEW X, NEW G, IsStep(G, V, X), NEW base \in V, NEW b \in Seq(X)
  PROVE  \E f : IsReadsLoop(f, G, V, base, b)
<1>1. PICK N \in Nat : N = Len(Reads(b))
  BY ReadsType
<1> DEFINE H == [p \in V \X (1 .. N) |-> Fold(G, p[1], Reads(b)[p[2]])]
<1>2. \A a \in V, k \in 1 .. N : Fold(G, a, Reads(b)[k]) \in V
  <2> TAKE a \in V, k \in 1 .. N
  <2>1. Reads(b)[k] \in Seq(X)
    BY <1>1, ReadsType
  <2> QED
    BY <2>1, FoldType
<1>3. H \in [V \X (1 .. N) -> V] /\ \A a \in V, k \in 1 .. N : H[<<a, k>>] = Fold(G, a, Reads(b)[k])
  BY <1>2
<1> HIDE DEF H
<1>4. PICK f : IsLoop(f, N, base, V, H)
  BY <1>3, LoopExists
<1>5. /\ f \in [0 .. N -> V] /\ f[0] = base
      /\ \A k \in 1 .. N : f[k] = H[<<f[k - 1], k>>]
  BY <1>4 DEF IsLoop
<1>6. \A k \in 1 .. N : k - 1 \in 0 .. N
  OBVIOUS
<1>7. \A k \in 1 .. N : f[k] = Fold(G, f[k - 1], Reads(b)[k])
  BY <1>3, <1>5, <1>6
<1> QED
  BY <1>1, <1>5, <1>7 DEF IsReadsLoop
-----------------------------------------------------------------------------
(* wc *)

WcStates == [lines : Nat, words : Nat, in_word : BOOLEAN]
WcStep(X) == [p \in WcStates \X X |-> WcChar(p[1], p[2])]
NoWords == [lines |-> 0, words |-> 0, in_word |-> FALSE]
LEMMA WcStepIs ==
  ASSUME NEW X
  PROVE  /\ IsStep(WcStep(X), WcStates, X) /\ NoWords \in WcStates
         /\ \A w \in WcStates, c \in X : WcStep(X)[<<w, c>>] = WcChar(w, c)
<1>1. ASSUME NEW w \in WcStates, NEW c PROVE WcChar(w, c) \in WcStates
  BY DEF WcStates, WcChar
<1>2. NoWords \in WcStates
  BY DEF WcStates, NoWords
<1>3. \A p \in WcStates \X X : p[1] \in WcStates /\ p[2] \in X
  OBVIOUS
<1> QED
  BY <1>1, <1>2, <1>3, Zenon DEF IsStep, WcStep

LEMMA WcReadIs ==
  ASSUME NEW X, NEW w \in WcStates, NEW buf \in Seq(X)
  PROVE  WcRead(w, buf) = Fold(WcStep(X), w, buf)
<1> DEFINE n == Len(buf)
           R(f) == f = [k \in 0 .. n |-> IF k = 0 THEN w ELSE WcChar(f[k - 1], buf[k])]
<1>1. n \in Nat /\ \A k \in 1 .. n : buf[k] \in X
  OBVIOUS
<1>2. PICK g : IsFold(g, WcStep(X), WcStates, w, buf)
  BY WcStepIs, FoldIs
<1>3. WcRead(w, buf) = (CHOOSE f : R(f))[n]
  BY DEF WcRead, WcFrom
<1> HIDE DEF n
<1>4. R(g)
  <2>1. g \in [0 .. n -> WcStates] /\ g[0] = w /\ \A k \in 1 .. n : g[k] = WcStep(X)[<<g[k - 1], buf[k]>>]
    BY <1>2 DEF IsFold, n
  <2>2. \A k \in 1 .. n : k - 1 \in 0 .. n
    BY <1>1
  <2>3. ASSUME NEW k \in 1 .. n PROVE g[k] = WcChar(g[k - 1], buf[k])
    <3>1. g[k - 1] \in WcStates /\ buf[k] \in X
      BY <1>1, <2>1, <2>2
    <3> QED
      BY <2>1, <3>1, WcStepIs
  <2> QED
    BY <1>1, <2>1, <2>3
<1> DEFINE f == CHOOSE f : R(f)
<1>5. R(f)
  BY <1>4
<1> HIDE DEF f
<1>6. f[0] = w /\ \A k \in 1 .. n : f[k] = WcChar(f[k - 1], buf[k])
  BY <1>1, <1>5
<1>7. \A k \in 1 .. Len(buf) : f[k - 1] \in WcStates => f[k] = WcStep(X)[<<f[k - 1], buf[k]>>]
  BY <1>1, <1>6, WcStepIs DEF n
<1>8. f[Len(buf)] = Fold(WcStep(X), w, buf)
  BY <1>6, <1>7, WcStepIs, FoldUnique
<1> QED
  BY <1>3, <1>8 DEF f, n

\* What wc has counted after the last read is what a loop over the file counts.
LEMMA WcIsFold ==
  ASSUME NEW X, NEW b \in Seq(X), NEW w, w = Fold(WcStep(X), NoWords, b)
  PROVE  cmd_wc(b) = <<w.lines, w.words, Len(b)>>
<1> DEFINE N == Len(Reads(b))
           R(f) == f = [k \in 0 .. N |-> IF k = 0 THEN NoWords ELSE WcRead(f[k - 1], Reads(b)[k])]
           f == CHOOSE f : R(f)
<1>1. cmd_wc(b) = <<f[N].lines, f[N].words, Len(b)>>
  BY DEF cmd_wc, NoWords
<1>2. N \in Nat /\ \A k \in 1 .. N : Reads(b)[k] \in Seq(X)
  BY ReadsType
<1>3. PICK g : IsReadsLoop(g, WcStep(X), WcStates, NoWords, b)
  BY WcStepIs, ReadsLoopExists
<1> HIDE DEF N
<1>4. R(g)
  <2>1. g \in [0 .. N -> WcStates] /\ g[0] = NoWords /\ \A k \in 1 .. N : g[k] = Fold(WcStep(X), g[k - 1], Reads(b)[k])
    BY <1>3 DEF IsReadsLoop, N
  <2>2. \A k \in 1 .. N : k - 1 \in 0 .. N
    BY <1>2
  <2>3. \A k \in 1 .. N : g[k] = WcRead(g[k - 1], Reads(b)[k])
    BY <1>2, <2>1, <2>2, WcReadIs
  <2> QED
    BY <1>2, <2>1, <2>3
<1>5. R(f)
  BY <1>4
<1> HIDE DEF f
<1>6. f[0] = NoWords /\ \A k \in 1 .. N : f[k] = WcRead(f[k - 1], Reads(b)[k])
  BY <1>2, <1>5
<1>7. \A k \in 1 .. Len(Reads(b)) :
          f[k - 1] \in WcStates /\ Reads(b)[k] \in Seq(X) => f[k] = Fold(WcStep(X), f[k - 1], Reads(b)[k])
  BY <1>6, WcReadIs DEF N
<1>8. f[Len(Reads(b))] = Fold(WcStep(X), NoWords, b)
  BY <1>6, <1>7, WcStepIs, ReadsFold
<1> QED
  BY <1>1, <1>8 DEF N
-----------------------------------------------------------------------------
(* What wc counts *)

LinesIn(b) == {k \in 1 .. Len(b) : b[k] = "\n"}
WordsIn(b) == {i \in 1 .. Len(b) : b[i] \notin Blanks /\ (i = 1 \/ b[i - 1] \in Blanks)}
\* b ends within a word.
InWord(b) == b # <<>> /\ Last(b) \notin Blanks

LEMMA OneMore ==
  ASSUME NEW n \in Nat, NEW S, S \subseteq 1 .. n, NEW T,
         T = S \/ T = S \cup {n + 1}
  PROVE  /\ Cardinality(S) \in Nat
         /\ T = S => Cardinality(T) = Cardinality(S)
         /\ T = S \cup {n + 1} => Cardinality(T) = Cardinality(S) + 1
<1>1. IsFiniteSet(S) /\ Cardinality(S) \in Nat
  <2>1. IsFiniteSet(1 .. n)
    BY FS_Interval
  <2> QED
    BY <2>1, FS_Subset, FS_CardinalityType
<1>2. n + 1 \notin S
  OBVIOUS
<1> QED
  BY <1>1, <1>2, FS_AddElement

LEMMA LinesAppend ==
  ASSUME NEW X, NEW b \in Seq(X), NEW c \in X
  PROVE  /\ Cardinality(LinesIn(b)) \in Nat /\ Cardinality(LinesIn(<<>>)) = 0
         /\ Cardinality(LinesIn(Append(b, c))) = IF c = "\n" THEN Cardinality(LinesIn(b)) + 1
                                                 ELSE Cardinality(LinesIn(b))
<1>1. PICK n \in Nat : n = Len(b)
  OBVIOUS
<1>2. PICK t : t = Append(b, c)
  OBVIOUS
<1>3. Len(t) = n + 1 /\ t[n + 1] = c /\ \A i \in 1 .. n : t[i] = b[i]
  BY <1>1, <1>2, AppendProperties
<1>4. LinesIn(b) \subseteq 1 .. n
  BY <1>1 DEF LinesIn
<1>5. c = "\n" => LinesIn(t) = LinesIn(b) \cup {n + 1}
  BY <1>1, <1>3 DEF LinesIn
<1>6. c # "\n" => LinesIn(t) = LinesIn(b)
  BY <1>1, <1>3 DEF LinesIn
<1>7. LinesIn(<<>>) = {}
  <2>1. Len(<<>>) = 0
    OBVIOUS
  <2> QED
    BY <2>1 DEF LinesIn
<1>8. /\ Cardinality(LinesIn(b)) \in Nat
      /\ c = "\n" => Cardinality(LinesIn(t)) = Cardinality(LinesIn(b)) + 1
      /\ c # "\n" => Cardinality(LinesIn(t)) = Cardinality(LinesIn(b))
  BY <1>4, <1>5, <1>6, OneMore
<1> QED
  BY <1>2, <1>7, <1>8, FS_EmptySet

LEMMA WordsAppend ==
  ASSUME NEW X, NEW b \in Seq(X), NEW c \in X
  PROVE  /\ Cardinality(WordsIn(b)) \in Nat /\ Cardinality(WordsIn(<<>>)) = 0
         /\ Cardinality(WordsIn(Append(b, c))) = IF c \notin Blanks /\ ~InWord(b) THEN Cardinality(WordsIn(b)) + 1
                                                 ELSE Cardinality(WordsIn(b))
         /\ InWord(Append(b, c)) <=> c \notin Blanks
<1>1. PICK n \in Nat : n = Len(b)
  OBVIOUS
<1>2. PICK t : t = Append(b, c)
  OBVIOUS
<1>3. t # <<>> /\ Len(t) = n + 1 /\ t[n + 1] = c /\ \A i \in 1 .. n : t[i] = b[i]
  BY <1>1, <1>2, AppendProperties
<1>4. WordsIn(b) \subseteq 1 .. n
  BY <1>1 DEF WordsIn
<1>5. InWord(b) <=> n # 0 /\ b[n] \notin Blanks
  <2>1. b = <<>> <=> n = 0
    BY <1>1, EmptySeq
  <2> QED
    BY <1>1, <2>1 DEF InWord, Last
<1>6. (n + 1 = 1 \/ t[(n + 1) - 1] \in Blanks) <=> ~InWord(b)
  BY <1>3, <1>5
<1>7. n + 1 \in WordsIn(t) <=> c \notin Blanks /\ ~InWord(b)
  <2>1. n + 1 \in 1 .. Len(t)
    BY <1>3
  <2> QED
    BY <1>3, <1>6, <2>1, Zenon DEF WordsIn
<1>8. ASSUME NEW i \in 1 .. n PROVE i \in WordsIn(t) <=> i \in WordsIn(b)
  <2>1. i # 1 => i - 1 \in 1 .. n
    OBVIOUS
  <2>2. i \in 1 .. Len(t) /\ i \in 1 .. Len(b)
    BY <1>1, <1>3
  <2>3. t[i] = b[i] /\ (i # 1 => t[i - 1] = b[i - 1])
    BY <1>3, <2>1
  <2> QED
    BY <2>2, <2>3, Zenon DEF WordsIn
<1>9. WordsIn(t) \subseteq 1 .. n + 1 /\ \A i \in 1 .. n + 1 : i \in 1 .. n \/ i = n + 1
  BY <1>3 DEF WordsIn
<1>10. c \notin Blanks /\ ~InWord(b) => WordsIn(t) = WordsIn(b) \cup {n + 1}
  BY <1>4, <1>7, <1>8, <1>9, Zenon
<1>11. ~(c \notin Blanks /\ ~InWord(b)) => WordsIn(t) = WordsIn(b)
  BY <1>4, <1>7, <1>8, <1>9, Zenon
<1>12. WordsIn(<<>>) = {}
  <2>1. Len(<<>>) = 0
    OBVIOUS
  <2>2. 1 .. 0 = {}
    OBVIOUS
  <2> QED
    BY <2>1, <2>2 DEF WordsIn
<1>13. InWord(t) <=> c \notin Blanks
  BY <1>3 DEF InWord, Last
<1>14. /\ Cardinality(WordsIn(b)) \in Nat
       /\ c \notin Blanks /\ ~InWord(b) => Cardinality(WordsIn(t)) = Cardinality(WordsIn(b)) + 1
       /\ ~(c \notin Blanks /\ ~InWord(b)) => Cardinality(WordsIn(t)) = Cardinality(WordsIn(b))
  BY <1>4, <1>10, <1>11, OneMore
<1> QED
  BY <1>2, <1>12, <1>13, <1>14, FS_EmptySet

\* After every character wc has counted what is before it.
LEMMA WcCounts ==
  ASSUME NEW X, NEW b \in Seq(X)
  PROVE  Fold(WcStep(X), NoWords, b) = [lines |-> Cardinality(LinesIn(b)), words |-> Cardinality(WordsIn(b)),
                                        in_word |-> InWord(b)]
<1> DEFINE Got(s) == [lines |-> Cardinality(LinesIn(s)), words |-> Cardinality(WordsIn(s)), in_word |-> InWord(s)]
           S == {s \in Seq(X) : Fold(WcStep(X), NoWords, s) = Got(s)}
<1>1. <<>> \in S
  <2>1. Fold(WcStep(X), NoWords, <<>>) = NoWords
    BY WcStepIs, FoldEmpty
  <2>2. LinesIn(<<>>) = {} /\ WordsIn(<<>>) = {}
    <3>1. Len(<<>>) = 0 /\ 1 .. 0 = {}
      OBVIOUS
    <3> QED
      BY <3>1 DEF LinesIn, WordsIn
  <2>3. Got(<<>>) = NoWords
    BY <2>2, FS_EmptySet DEF NoWords, InWord
  <2> QED
    BY <2>1, <2>3
<1>2. ASSUME NEW s \in Seq(X), NEW c \in X, s \in S PROVE Append(s, c) \in S
  <2> HIDE DEF Got
  <2>1. Fold(WcStep(X), NoWords, s) = Got(s) /\ Got(s) \in WcStates
    <3>1. Fold(WcStep(X), NoWords, s) \in WcStates
      BY WcStepIs, FoldType
    <3> QED
      BY <1>2, <3>1
  <2>2. Fold(WcStep(X), NoWords, Append(s, c)) = WcChar(Got(s), c)
    <3>1. Fold(WcStep(X), NoWords, Append(s, c)) = WcStep(X)[<<Fold(WcStep(X), NoWords, s), c>>]
      BY WcStepIs, FoldAppend
    <3> QED
      BY <2>1, <3>1, WcStepIs
  <2>3. Append(s, c) \in Seq(X)
    BY AppendProperties
  <2>4. WcChar(Got(s), c) = Got(Append(s, c))
    <3>1. Cardinality(LinesIn(Append(s, c))) = IF c = "\n" THEN Cardinality(LinesIn(s)) + 1
                                               ELSE Cardinality(LinesIn(s))
      BY LinesAppend
    <3>2. /\ Cardinality(WordsIn(Append(s, c))) = IF c \notin Blanks /\ ~InWord(s) THEN Cardinality(WordsIn(s)) + 1
                                                  ELSE Cardinality(WordsIn(s))
          /\ InWord(Append(s, c)) = (c \notin Blanks)
      <4>1. InWord(Append(s, c)) \in BOOLEAN
        BY DEF InWord
      <4> QED
        BY <4>1, WordsAppend
    <3> QED
      BY <3>1, <3>2, Zenon DEF WcChar, Got
  <2> QED
    BY <2>2, <2>3, <2>4
<1> HIDE DEF S
<1>3. Seq(X) \subseteq S
  BY <1>1, <1>2, SeqInduction
<1>4. b \in S
  BY <1>3
<1> QED
  BY <1>4 DEF S

LEMMA WcIsCounts ==
  ASSUME NEW X, NEW b \in Seq(X)
  PROVE  cmd_wc(b) = Counts(b)
<1>1. cmd_wc(b) = <<Cardinality(LinesIn(b)), Cardinality(WordsIn(b)), Len(b)>>
  BY WcIsFold, WcCounts
<1> QED
  BY <1>1 DEF LinesIn, WordsIn, Counts, Newlines, Words
-----------------------------------------------------------------------------
(* head *)

LEMMA NewlinesGrow ==
  ASSUME NEW b, NEW i \in Int, NEW j \in Int, NEW k \in Int, NEW l \in Int, k <= i, j <= l
  PROVE  Newlines(b, i, j) \in Nat /\ Newlines(b, k, l) \in Nat /\ Newlines(b, i, j) <= Newlines(b, k, l)
<1> DEFINE A == {m \in i .. j : b[m] = "\n"}
           B == {m \in k .. l : b[m] = "\n"}
<1>1. A \subseteq B /\ B \subseteq k .. l
  OBVIOUS
<1>2. Newlines(b, i, j) = Cardinality(A) /\ Newlines(b, k, l) = Cardinality(B)
  BY DEF Newlines
<1> HIDE DEF A, B
<1>3. IsFiniteSet(B)
  <2>1. IsFiniteSet(k .. l)
    BY FS_Interval
  <2> QED
    BY <1>1, <2>1, FS_Subset
<1>4. IsFiniteSet(A) /\ Cardinality(A) <= Cardinality(B)
  BY <1>1, <1>3, FS_Subset
<1> QED
  BY <1>2, <1>3, <1>4, FS_CardinalityType

\* One more character is a newline or not, and leaves what was there.
OneLonger(t, s, c, n) ==
    /\ \A m \in 0 .. n : Newlines(t, 1, m) = Newlines(s, 1, m) /\ Newlines(s, 1, m) \in Nat
    /\ Newlines(t, 1, n + 1) = IF c = "\n" THEN Newlines(s, 1, n) + 1 ELSE Newlines(s, 1, n)
    /\ \A m \in 0 .. n : SubSeq(t, 1, m) = SubSeq(s, 1, m)
LEMMA NewlinesAppend ==
  ASSUME NEW X, NEW s \in Seq(X), NEW c \in X, NEW n, n = Len(s), NEW t, t = Append(s, c)
  PROVE  OneLonger(t, s, c, n)
<1>1. n \in Nat /\ t \in Seq(X) /\ Len(t) = n + 1 /\ \A i \in 1 .. n : t[i] = s[i]
  BY AppendProperties
<1>2. ASSUME NEW m \in 0 .. n
      PROVE  Newlines(t, 1, m) = Newlines(s, 1, m) /\ Newlines(s, 1, m) \in Nat
  <2>1. \A i \in 1 .. m : t[i] = s[i]
    BY <1>1
  <2>2. {i \in 1 .. m : t[i] = "\n"} = {i \in 1 .. m : s[i] = "\n"}
    BY <2>1
  <2>3. Newlines(t, 1, m) = Newlines(s, 1, m)
    BY <2>2 DEF Newlines
  <2>4. Newlines(s, 1, m) \in Nat
    <3>1. 1 \in Int /\ m \in Int /\ 1 <= 1 /\ m <= m
      OBVIOUS
    <3> QED
      BY <3>1, NewlinesGrow
  <2> QED
    BY <2>3, <2>4
<1>3. Newlines(t, 1, n + 1) = Cardinality(LinesIn(t)) /\ Newlines(s, 1, n) = Cardinality(LinesIn(s))
  BY <1>1 DEF Newlines, LinesIn
<1>4. Cardinality(LinesIn(t)) = IF c = "\n" THEN Cardinality(LinesIn(s)) + 1 ELSE Cardinality(LinesIn(s))
  BY LinesAppend
<1>5. ASSUME NEW m \in 0 .. n PROVE SubSeq(t, 1, m) = SubSeq(s, 1, m)
  <2>1. m \in 0 .. Len(t) /\ m \in 0 .. Len(s)
    BY <1>1
  <2>2. PICK u, v : u = SubSeq(t, 1, m) /\ v = SubSeq(s, 1, m)
    OBVIOUS
  <2>3. u \in Seq(X) /\ Len(u) = m /\ \A i \in 1 .. m : u[i] = t[i]
    BY <1>1, <2>1, <2>2, FirstN
  <2>4. v \in Seq(X) /\ Len(v) = m /\ \A i \in 1 .. m : v[i] = s[i]
    BY <2>1, <2>2, FirstN
  <2>5. \A i \in 1 .. m : u[i] = v[i]
    BY <1>1, <2>3, <2>4
  <2> QED
    BY <2>2, <2>3, <2>4, <2>5, SeqEqual
<1> QED
  BY <1>2, <1>3, <1>4, <1>5 DEF OneLonger

HeadStates(X) == [lines : Nat, out : Seq(X)]
HeadStep(X) == [p \in HeadStates(X) \X X |-> HeadChar(p[1], p[2])]
NoLines == [lines |-> 0, out |-> <<>>]
LEMMA HeadStepIs ==
  ASSUME NEW X
  PROVE  /\ IsStep(HeadStep(X), HeadStates(X), X) /\ NoLines \in HeadStates(X)
         /\ \A h \in HeadStates(X), c \in X : HeadStep(X)[<<h, c>>] = HeadChar(h, c)
<1>1. ASSUME NEW h \in HeadStates(X), NEW c \in X PROVE HeadChar(h, c) \in HeadStates(X)
  <2>1. h.lines \in Nat /\ h.out \in Seq(X)
    BY DEF HeadStates
  <2>2. Append(h.out, c) \in Seq(X)
    BY <2>1, AppendProperties
  <2>3. (IF c = "\n" THEN h.lines + 1 ELSE h.lines) \in Nat
    BY <2>1
  <2> QED
    BY <2>1, <2>2, <2>3, Zenon DEF HeadStates, HeadChar
<1>2. NoLines \in HeadStates(X)
  <2>1. <<>> \in Seq(X)
    OBVIOUS
  <2> QED
    BY <2>1 DEF HeadStates, NoLines
<1>3. \A p \in HeadStates(X) \X X : p[1] \in HeadStates(X) /\ p[2] \in X
  OBVIOUS
<1> QED
  BY <1>1, <1>2, <1>3, Zenon DEF IsStep, HeadStep

LEMMA HeadReadIs ==
  ASSUME NEW X, NEW h \in HeadStates(X), NEW buf \in Seq(X)
  PROVE  HeadRead(h, buf) = Fold(HeadStep(X), h, buf)
<1> DEFINE n == Len(buf)
           R(f) == f = [k \in 0 .. n |-> IF k = 0 THEN h ELSE HeadChar(f[k - 1], buf[k])]
<1>1. n \in Nat /\ \A k \in 1 .. n : buf[k] \in X
  OBVIOUS
<1>2. PICK g : IsFold(g, HeadStep(X), HeadStates(X), h, buf)
  BY HeadStepIs, FoldIs
<1>3. HeadRead(h, buf) = (CHOOSE f : R(f))[n]
  BY DEF HeadRead
<1> HIDE DEF n
<1>4. R(g)
  <2>1. /\ g \in [0 .. n -> HeadStates(X)] /\ g[0] = h
        /\ \A k \in 1 .. n : g[k] = HeadStep(X)[<<g[k - 1], buf[k]>>]
    BY <1>2 DEF IsFold, n
  <2>2. \A k \in 1 .. n : k - 1 \in 0 .. n
    BY <1>1
  <2>3. ASSUME NEW k \in 1 .. n PROVE g[k] = HeadChar(g[k - 1], buf[k])
    <3>1. g[k - 1] \in HeadStates(X) /\ buf[k] \in X
      BY <1>1, <2>1, <2>2
    <3> QED
      BY <2>1, <3>1, HeadStepIs
  <2> QED
    BY <1>1, <2>1, <2>3
<1> DEFINE f == CHOOSE f : R(f)
<1>5. R(f)
  BY <1>4
<1> HIDE DEF f
<1>6. f[0] = h /\ \A k \in 1 .. n : f[k] = HeadChar(f[k - 1], buf[k])
  BY <1>1, <1>5
<1>7. \A k \in 1 .. Len(buf) : f[k - 1] \in HeadStates(X) => f[k] = HeadStep(X)[<<f[k - 1], buf[k]>>]
  BY <1>1, <1>6, HeadStepIs DEF n
<1>8. f[Len(buf)] = Fold(HeadStep(X), h, buf)
  BY <1>6, <1>7, HeadStepIs, FoldUnique
<1> QED
  BY <1>3, <1>8 DEF f, n

LEMMA HeadIsFold ==
  ASSUME NEW X, NEW b \in Seq(X)
  PROVE  cmd_head(b) = Fold(HeadStep(X), NoLines, b).out
<1> DEFINE N == Len(Reads(b))
           R(f) == f = [k \in 0 .. N |-> IF k = 0 THEN NoLines ELSE HeadRead(f[k - 1], Reads(b)[k])]
           f == CHOOSE f : R(f)
<1>1. cmd_head(b) = f[N].out
  BY DEF cmd_head, NoLines
<1>2. N \in Nat /\ \A k \in 1 .. N : Reads(b)[k] \in Seq(X)
  BY ReadsType
<1>3. PICK g : IsReadsLoop(g, HeadStep(X), HeadStates(X), NoLines, b)
  BY HeadStepIs, ReadsLoopExists
<1> HIDE DEF N
<1>4. R(g)
  <2>1. /\ g \in [0 .. N -> HeadStates(X)] /\ g[0] = NoLines
        /\ \A k \in 1 .. N : g[k] = Fold(HeadStep(X), g[k - 1], Reads(b)[k])
    BY <1>3 DEF IsReadsLoop, N
  <2>2. \A k \in 1 .. N : k - 1 \in 0 .. N
    BY <1>2
  <2>3. \A k \in 1 .. N : g[k] = HeadRead(g[k - 1], Reads(b)[k])
    BY <1>2, <2>1, <2>2, HeadReadIs
  <2> QED
    BY <1>2, <2>1, <2>3
<1>5. R(f)
  BY <1>4
<1> HIDE DEF f
<1>6. f[0] = NoLines /\ \A k \in 1 .. N : f[k] = HeadRead(f[k - 1], Reads(b)[k])
  BY <1>2, <1>5
<1>7. \A k \in 1 .. Len(Reads(b)) :
          f[k - 1] \in HeadStates(X) /\ Reads(b)[k] \in Seq(X) => f[k] = Fold(HeadStep(X), f[k - 1], Reads(b)[k])
  BY <1>6, HeadReadIs DEF N
<1>8. f[Len(Reads(b))] = Fold(HeadStep(X), NoLines, b)
  BY <1>6, <1>7, HeadStepIs, ReadsFold
<1> QED
  BY <1>1, <1>8 DEF N

\* head has printed the first n characters of s: one more, and it has
\* seen the last of its newlines.
Printing(h, s, n) == /\ n \in 0 .. Len(s) /\ h.out = SubSeq(s, 1, n)
                     /\ Newlines(s, 1, n) < LinesMax
                     /\ n < Len(s) => Newlines(s, 1, n + 1) >= LinesMax /\ h.lines >= LinesMax
                     /\ n = Len(s) => h.lines = Newlines(s, 1, n)
LEMMA HeadPrints ==
  ASSUME NEW X, NEW b \in Seq(X)
  PROVE  \E n \in Nat : Printing(Fold(HeadStep(X), NoLines, b), b, n)
<1> DEFINE Got(s) == Fold(HeadStep(X), NoLines, s)
           S == {s \in Seq(X) : \E n \in Nat : Printing(Got(s), s, n)}
<1>1. <<>> \in S
  <2>1. Got(<<>>) = NoLines
    BY HeadStepIs, FoldEmpty
  <2>2. <<>> \in Seq(X) /\ Len(<<>>) = 0 /\ SubSeq(<<>>, 1, 0) = <<>>
    OBVIOUS
  <2>3. Newlines(<<>>, 1, 0) = 0
    <3>1. 1 .. 0 = {}
      OBVIOUS
    <3>2. {k \in 1 .. 0 : <<>>[k] = "\n"} = {}
      BY <3>1
    <3> QED
      BY <3>2, FS_EmptySet DEF Newlines
  <2>4. 0 < LinesMax
    BY ReadersAssumption
  <2>5. Printing(NoLines, <<>>, 0)
    <3>1. NoLines.lines = 0 /\ NoLines.out = <<>>
      BY DEF NoLines
    <3> QED
      BY <2>2, <2>3, <2>4, <3>1 DEF Printing
  <2> QED
    BY <2>1, <2>2, <2>5
<1>2. ASSUME NEW s \in Seq(X), NEW c \in X, s \in S PROVE Append(s, c) \in S
  <2>1. PICK h \in HeadStates(X) : h = Got(s)
    BY HeadStepIs, FoldType
  <2>2. PICK n \in Nat : Printing(h, s, n)
    BY <1>2, <2>1
  <2>3. PICK t : t = Append(s, c)
    OBVIOUS
  <2>4. Got(t) = HeadChar(h, c)
    <3>1. Fold(HeadStep(X), NoLines, Append(s, c)) = HeadStep(X)[<<Fold(HeadStep(X), NoLines, s), c>>]
      BY HeadStepIs, FoldAppend
    <3> QED
      BY <2>1, <2>3, <3>1, HeadStepIs
  <2> HIDE DEF Got
  <2>5. PICK N \in Nat : N = Len(s)
    OBVIOUS
  <2>6. /\ n <= N /\ h.out = SubSeq(s, 1, n) /\ Newlines(s, 1, n) < LinesMax
        /\ n < N => Newlines(s, 1, n + 1) >= LinesMax /\ h.lines >= LinesMax
        /\ n = N => h.lines = Newlines(s, 1, n)
    BY <2>2, <2>5 DEF Printing
  <2>7. /\ \A m \in 0 .. N : Newlines(t, 1, m) = Newlines(s, 1, m) /\ Newlines(s, 1, m) \in Nat
        /\ Newlines(t, 1, N + 1) = IF c = "\n" THEN Newlines(s, 1, N) + 1 ELSE Newlines(s, 1, N)
        /\ \A m \in 0 .. N : SubSeq(t, 1, m) = SubSeq(s, 1, m)
    <3>1. OneLonger(t, s, c, N)
      BY <2>3, <2>5, NewlinesAppend
    <3> QED
      BY <3>1, Zenon DEF OneLonger
  <2>8. t \in Seq(X) /\ Len(t) = N + 1
    BY <2>3, <2>5, AppendProperties
  <2>9. LinesMax \in Nat /\ h.lines \in Nat
    BY ReadersAssumption DEF HeadStates
  <2>10. CASE n < N
    <3>1. HeadChar(h, c) = h
      BY <2>6, <2>10 DEF HeadChar
    <3>2. n \in 0 .. N /\ n + 1 \in 0 .. N /\ n < N + 1 /\ n # N + 1 /\ n \in 0 .. N + 1
      BY <2>10
    <3>3. Printing(h, t, n)
      BY <2>6, <2>7, <2>8, <2>10, <3>2 DEF Printing
    <3> QED
      BY <2>3, <2>4, <2>8, <3>1, <3>3
  <2>11. CASE n = N
    <3>1. h.lines < LinesMax /\ h.lines = Newlines(s, 1, N)
      BY <2>6, <2>11
    <3>2. PICK l \in Nat : l = Newlines(t, 1, N + 1) /\ l = IF c = "\n" THEN h.lines + 1 ELSE h.lines
      BY <2>7, <2>9, <3>1
    <3>3. HeadChar(h, c) = [lines |-> l, out |-> IF l >= LinesMax THEN h.out ELSE Append(h.out, c)]
      <4>1. ~(h.lines >= LinesMax)
        BY <2>9, <3>1
      <4> QED
        BY <3>2, <4>1, Zenon DEF HeadChar
    <3>4. SubSeq(s, 1, N) = s
      BY <2>5, SubSeqFull
    <3>5. N \in 0 .. N /\ N < N + 1 /\ N # N + 1 /\ N \in 0 .. N + 1 /\ N + 1 \in 0 .. N + 1
      OBVIOUS
    <3>6. CASE l >= LinesMax
      <4>1. PICK g : g = HeadChar(h, c)
        OBVIOUS
      <4>2. g.lines = l /\ g.out = h.out
        BY <3>3, <3>6, <4>1
      <4>3. Printing(g, t, N)
        BY <2>6, <2>7, <2>8, <2>11, <3>2, <3>5, <3>6, <4>2 DEF Printing
      <4> QED
        BY <2>3, <2>4, <2>8, <4>1, <4>3
    <3>7. CASE ~(l >= LinesMax)
      <4>1. PICK g : g = HeadChar(h, c)
        OBVIOUS
      <4>2. g.lines = l /\ g.out = t
        BY <2>3, <2>6, <2>11, <3>3, <3>4, <3>7, <4>1
      <4>3. SubSeq(t, 1, N + 1) = t
        BY <2>8, SubSeqFull
      <4>4. l < LinesMax /\ ~(N + 1 < N + 1)
        BY <2>9, <3>7
      <4>5. Printing(g, t, N + 1)
        BY <2>8, <3>2, <3>5, <4>2, <4>3, <4>4 DEF Printing
      <4>6. N + 1 \in Nat
        OBVIOUS
      <4> QED
        BY <2>3, <2>4, <2>8, <4>1, <4>5, <4>6
    <3> QED
      BY <3>6, <3>7
  <2> QED
    BY <2>6, <2>10, <2>11
<1> HIDE DEF S
<1>3. Seq(X) \subseteq S
  BY <1>1, <1>2, SeqInduction
<1>4. b \in S
  BY <1>3
<1> QED
  BY <1>4 DEF S

LEMMA HeadIsFirstLines ==
  ASSUME NEW X, NEW b \in Seq(X)
  PROVE  cmd_head(b) = FirstLines(b)
<1> DEFINE P(n) == /\ Newlines(b, 1, n) < LinesMax
                   /\ n < Len(b) => Newlines(b, 1, n + 1) >= LinesMax
<1>1. PICK n \in Nat : n \in 0 .. Len(b) /\ P(n) /\ cmd_head(b) = SubSeq(b, 1, n)
  BY HeadPrints, HeadIsFold DEF Printing
<1>2. LinesMax \in Nat
  BY ReadersAssumption
<1>3. ASSUME NEW i \in 0 .. Len(b), NEW j \in 0 .. Len(b), P(i), P(j) PROVE ~(i < j)
  <2> SUFFICES ASSUME i < j PROVE FALSE
    OBVIOUS
  <2>1. i < Len(b) /\ i + 1 <= j /\ i + 1 \in Int /\ j \in Int
    OBVIOUS
  <2>2. Newlines(b, 1, i + 1) \in Nat /\ Newlines(b, 1, j) \in Nat /\ Newlines(b, 1, i + 1) <= Newlines(b, 1, j)
    BY <2>1, NewlinesGrow
  <2>3. Newlines(b, 1, i + 1) >= LinesMax /\ Newlines(b, 1, j) < LinesMax
    BY <1>3, <2>1
  <2> QED
    BY <1>2, <2>2, <2>3
<1>4. FirstLines(b) = SubSeq(b, 1, CHOOSE k \in 0 .. Len(b) : P(k))
  BY DEF FirstLines
<1> HIDE DEF P
<1>5. PICK m : m = CHOOSE k \in 0 .. Len(b) : P(k)
  OBVIOUS
<1>6. m \in 0 .. Len(b) /\ P(m)
  BY <1>1, <1>5
<1>7. m = n
  <2>1. ~(m < n) /\ ~(n < m)
    BY <1>1, <1>3, <1>6
  <2> QED
    BY <1>6, <2>1
<1> QED
  BY <1>1, <1>4, <1>5, <1>7
-----------------------------------------------------------------------------
(* tail *)

TailStart(buf) ==
    LET ends == TailFrom(buf)
    IN IF Cardinality(ends) < LinesMax THEN 1
       ELSE 1 + CHOOSE i \in ends : Cardinality({j \in ends : j >= i}) = LinesMax

\* The n-th character of b is the first of the last lines, LinesMax at most:
\* from anywhere before it there are more.
IsTailStart(b, n) ==
    /\ n \in 1 .. Len(b) + 1 /\ (n = 1 \/ b[n - 1] = "\n")
    /\ Newlines(b, n, Len(b) - 1) < LinesMax
    /\ \A m \in 1 .. n - 1 : Newlines(b, m, Len(b) - 1) >= LinesMax

LEMMA TailStarts ==
  ASSUME NEW X, NEW b \in Seq(X)
  PROVE  IsTailStart(b, TailStart(b))
<1>1. PICK L \in Nat : L = Len(b)
  OBVIOUS
<1>2. LinesMax \in Nat \ {0}
  BY ReadersAssumption
<1> DEFINE E == TailFrom(b)
<1>3. E = {i \in 1 .. L - 1 : b[i] = "\n"} /\ E \subseteq 1 .. L /\ \A i \in E : i \in 1 .. L - 1 /\ b[i] = "\n"
  BY <1>1 DEF TailFrom
<1>4. TailStart(b) = IF Cardinality(E) < LinesMax THEN 1
                     ELSE 1 + CHOOSE i \in E : Cardinality({j \in E : j >= i}) = LinesMax
  BY DEF TailStart
<1> HIDE DEF E
<1>5. /\ IsFiniteSet(E) /\ Cardinality(E) \in Nat
      /\ \A m \in Nat : /\ CountTo(E, m) \in Nat
                        /\ m + 1 \in E => CountTo(E, m + 1) = CountTo(E, m) + 1
  BY <1>3, CountSteps
<1>6. Newlines(b, 1, L - 1) = Cardinality(E)
  BY <1>3 DEF Newlines
<1>7. CASE Cardinality(E) < LinesMax
  <2>1. TailStart(b) = 1
    BY <1>4, <1>7
  <2>2. 1 \in 1 .. L + 1 /\ 1 .. 1 - 1 = {}
    OBVIOUS
  <2> QED
    BY <1>1, <1>6, <1>7, <2>1, <2>2 DEF IsTailStart
<1>8. CASE ~(Cardinality(E) < LinesMax)
  <2>1. PICK c \in Nat : c = Cardinality(E) /\ c >= LinesMax
    BY <1>2, <1>5, <1>8
  <2>2. (c - LinesMax) + 1 \in 1 .. Cardinality(E)
    BY <1>2, <2>1
  <2>3. PICK i \in E : CountTo(E, i) = (c - LinesMax) + 1
    BY <1>3, <2>2, RankExists, ZenonT(60)
  <2>4. i - 1 \in Nat /\ (i - 1) + 1 = i
    BY <1>3
  <2>5. CountTo(E, i - 1) = c - LinesMax
    <3>1. PICK p \in Nat : p = i - 1 /\ p + 1 = i
      BY <2>4
    <3>2. CountTo(E, p) \in Nat /\ CountTo(E, p + 1) = CountTo(E, p) + 1
      BY <1>5, <3>1
    <3>3. CountTo(E, p) + 1 = (c - LinesMax) + 1
      BY <2>3, <3>1, <3>2
    <3>4. CountTo(E, p) = c - LinesMax
      BY <1>2, <3>2, <3>3
    <3> QED
      BY <3>1, <3>4
  <2>6. Cardinality({j \in E : j >= i}) = LinesMax
    <3> DEFINE D == {j \in E : j <= i - 1}
    <3>1. {j \in E : j >= i} = E \ D
      BY <1>3, <2>4
    <3>2. E \cap D = D /\ Cardinality(D) = CountTo(E, i - 1)
      BY DEF CountTo
    <3> HIDE DEF D
    <3>3. Cardinality(E \ D) = Cardinality(E) - Cardinality(E \cap D)
      BY <1>5, FS_Difference
    <3>4. Cardinality(E \ D) = c - (c - LinesMax)
      BY <2>1, <2>5, <3>2, <3>3
    <3>5. c - (c - LinesMax) = LinesMax
      BY <1>2
    <3> QED
      BY <3>1, <3>4, <3>5
  <2>7. PICK k : k = CHOOSE m \in E : Cardinality({j \in E : j >= m}) = LinesMax
    OBVIOUS
  <2>8. k \in E /\ Cardinality({j \in E : j >= k}) = LinesMax
    BY <2>6, <2>7
  <2>9. k \in 1 .. L - 1 /\ b[k] = "\n" /\ TailStart(b) = 1 + k
    BY <1>3, <1>4, <1>8, <2>7, <2>8
  <2>10. {j \in E : j >= k} = {j \in k .. L - 1 : b[j] = "\n"}
    BY <1>3, <2>9
  <2>11. Newlines(b, k, L - 1) = LinesMax
    BY <2>8, <2>10 DEF Newlines
  <2>12. Newlines(b, k + 1, L - 1) < LinesMax
    <3> DEFINE A == {j \in k + 1 .. L - 1 : b[j] = "\n"}
               B == {j \in k .. L - 1 : b[j] = "\n"}
    <3>1. A \subseteq B /\ k \in B /\ k \notin A
      BY <2>9
    <3>2. IsFiniteSet(B)
      <4>1. B \subseteq k .. L - 1 /\ k \in Int /\ L - 1 \in Int
        BY <2>9
      <4>2. IsFiniteSet(k .. L - 1)
        BY <4>1, FS_Interval
      <4> QED
        BY <4>1, <4>2, FS_Subset
    <3>3. Cardinality(A) = Newlines(b, k + 1, L - 1) /\ Cardinality(B) = LinesMax
      BY <2>11 DEF Newlines
    <3> HIDE DEF A, B
    <3>4. IsFiniteSet(A) /\ Cardinality(A) <= Cardinality(B) /\ (Cardinality(B) = Cardinality(A) => B = A)
      BY <3>1, <3>2, FS_Subset
    <3>5. Cardinality(A) \in Nat
      BY <3>4, FS_CardinalityType
    <3> QED
      BY <1>2, <3>1, <3>3, <3>4, <3>5
  <2>13. ASSUME NEW m \in 1 .. (1 + k) - 1 PROVE Newlines(b, m, L - 1) >= LinesMax
    <3>1. m \in Int /\ k \in Int /\ L - 1 \in Int /\ m <= k /\ L - 1 <= L - 1
      BY <2>9
    <3>2. Newlines(b, k, L - 1) <= Newlines(b, m, L - 1)
      BY <3>1, NewlinesGrow
    <3> QED
      BY <2>11, <3>2
  <2>14. 1 + k \in 1 .. L + 1 /\ (1 + k) - 1 = k /\ 1 + k = k + 1
    BY <2>9
  <2> QED
    BY <1>1, <2>9, <2>12, <2>13, <2>14 DEF IsTailStart
<1> QED
  BY <1>7, <1>8

LEMMA LastLinesIs ==
  ASSUME NEW X, NEW b \in Seq(X), NEW n, IsTailStart(b, n)
  PROVE  LastLines(b) = SubSeq(b, n, Len(b))
<1>1. PICK L \in Nat : L = Len(b)
  OBVIOUS
<1>2. LinesMax \in Nat
  BY ReadersAssumption
<1> DEFINE Q(k) == (k = 1 \/ b[k - 1] = "\n") /\ Newlines(b, k, L - 1) < LinesMax
           P(k) == /\ k = 1 \/ b[k - 1] = "\n"
                   /\ Newlines(b, k, L - 1) < LinesMax
                   /\ \A m \in 1 .. k - 1 : \/ ~(m = 1 \/ b[m - 1] = "\n")
                                            \/ Newlines(b, m, L - 1) >= LinesMax
<1>3. LastLines(b) = SubSeq(b, CHOOSE k \in 1 .. L + 1 : P(k), L)
  BY <1>1 DEF LastLines
<1>4. n \in 1 .. L + 1 /\ P(n)
  BY <1>1 DEF IsTailStart
<1>5. ASSUME NEW k \in 1 .. L + 1 PROVE Newlines(b, k, L - 1) \in Nat
  <2>1. k \in Int /\ L - 1 \in Int /\ k <= k /\ L - 1 <= L - 1
    OBVIOUS
  <2> QED
    BY <2>1, NewlinesGrow
<1>6. ASSUME NEW i \in 1 .. L + 1, NEW j \in 1 .. L + 1, P(i), P(j) PROVE ~(i < j)
  <2> SUFFICES ASSUME i < j PROVE FALSE
    OBVIOUS
  <2>1. i \in 1 .. j - 1
    OBVIOUS
  <2>2. Newlines(b, i, L - 1) >= LinesMax /\ Newlines(b, i, L - 1) < LinesMax
    BY <1>6, <2>1
  <2> QED
    BY <1>2, <1>5, <2>2
<1> HIDE DEF P
<1>7. PICK k : k = CHOOSE m \in 1 .. L + 1 : P(m)
  OBVIOUS
<1>8. k \in 1 .. L + 1 /\ P(k)
  BY <1>4, <1>7
<1>9. k = n
  <2>1. ~(k < n) /\ ~(n < k)
    BY <1>4, <1>6, <1>8
  <2> QED
    BY <1>4, <1>8, <2>1
<1> QED
  BY <1>1, <1>3, <1>7, <1>9

LEMMA TailIsLastLines ==
  ASSUME NEW X, NEW b \in Seq(X), Len(b) <= TailMax
  PROVE  cmd_tail(b) = LastLines(b)
<1>1. LastLines(b) = SubSeq(b, TailStart(b), Len(b))
  BY TailStarts, LastLinesIs
<1>2. ~(Len(b) > TailMax)
  BY ReadersAssumption
<1> QED
  BY <1>1, <1>2 DEF cmd_tail, TailStart

\* The same part of two sequences has the same newlines.
LEMMA NewlinesNext ==
  ASSUME NEW b, NEW i \in Int, NEW j \in Int, i <= j + 1
  PROVE  /\ b[j + 1] = "\n" => Newlines(b, i, j + 1) = Newlines(b, i, j) + 1
         /\ b[j + 1] # "\n" => Newlines(b, i, j + 1) = Newlines(b, i, j)
<1> DEFINE A == {k \in i .. j : b[k] = "\n"}
           B == {k \in i .. j + 1 : b[k] = "\n"}
<1>1. i .. j + 1 = (i .. j) \cup {j + 1} /\ j + 1 \notin i .. j
  OBVIOUS
<1>2. /\ b[j + 1] = "\n" => B = A \cup {j + 1}
      /\ b[j + 1] # "\n" => B = A
      /\ j + 1 \notin A
  BY <1>1
<1>3. IsFiniteSet(A)
  <2>1. A \subseteq i .. j
    OBVIOUS
  <2>2. IsFiniteSet(i .. j)
    BY FS_Interval
  <2> QED
    BY <2>1, <2>2, FS_Subset
<1>4. Newlines(b, i, j) = Cardinality(A) /\ Newlines(b, i, j + 1) = Cardinality(B)
  BY DEF Newlines
<1> HIDE DEF A, B
<1> QED
  BY <1>2, <1>3, <1>4, FS_AddElement

SamePart(a, b, d, i, e) == \A k \in i .. e : a[k] = b[d + k]
LEMMA NewlinesShift ==
  ASSUME NEW a, NEW b, NEW d \in Nat, NEW i \in Nat \ {0}, NEW e \in Nat, i <= e + 1,
         SamePart(a, b, d, i, e)
  PROVE  Newlines(a, i, e) = Newlines(b, d + i, d + e)
<1>1. PICK h \in Nat, n \in Nat : h = i - 1 /\ h + 1 = i /\ n = e - h /\ e = h + n /\ d + e = (d + h) + n
  <2>1. i - 1 \in Nat /\ e - (i - 1) \in Nat /\ e = (i - 1) + (e - (i - 1))
    OBVIOUS
  <2> QED
    BY <2>1
<1> DEFINE S == {m \in Nat : Newlines(a, i, h + m) = Newlines(b, d + i, (d + h) + m)}
<1>2. 0 \in S
  <2>1. {k \in i .. h + 0 : a[k] = "\n"} = {} /\ {k \in d + i .. (d + h) + 0 : b[k] = "\n"} = {}
    BY <1>1
  <2> QED
    BY <2>1 DEF Newlines
<1>3. ASSUME NEW m \in 0 .. n - 1, m \in S PROVE m + 1 \in S
  <2>1. PICK j \in Int, l \in Int : j = h + m /\ l = (d + h) + m
    BY <1>1
  <2>2. /\ i <= j + 1 /\ d + i <= l + 1 /\ j + 1 = h + (m + 1) /\ l + 1 = (d + h) + (m + 1)
        /\ d + i \in Int /\ j + 1 \in i .. h + n /\ d + (j + 1) = l + 1
    BY <1>1, <2>1
  <2>3. a[j + 1] = b[l + 1]
    <3>1. j + 1 \in i .. e
      BY <1>1, <2>2
    <3> QED
      BY <2>2, <3>1 DEF SamePart
  <2>4. /\ a[j + 1] = "\n" => Newlines(a, i, j + 1) = Newlines(a, i, j) + 1
        /\ a[j + 1] # "\n" => Newlines(a, i, j + 1) = Newlines(a, i, j)
    BY <2>2, NewlinesNext
  <2>5. /\ b[l + 1] = "\n" => Newlines(b, d + i, l + 1) = Newlines(b, d + i, l) + 1
        /\ b[l + 1] # "\n" => Newlines(b, d + i, l + 1) = Newlines(b, d + i, l)
    BY <2>2, NewlinesNext
  <2>6. Newlines(a, i, j) = Newlines(b, d + i, l)
    BY <1>3, <2>1
  <2>7. Newlines(a, i, j + 1) = Newlines(b, d + i, l + 1)
    BY <2>3, <2>4, <2>5, <2>6
  <2> QED
    BY <2>2, <2>7
<1>4. 0 .. n \subseteq S
  <2> HIDE DEF S
  <2> QED
    BY <1>2, <1>3, Steps
<1>5. n \in S
  <2>1. n \in 0 .. n
    OBVIOUS
  <2> QED
    BY <1>4, <2>1
<1> QED
  BY <1>1, <1>5

\* The end of a sequence from one place is the end of its end from another.
LEMMA SuffixIs ==
  ASSUME NEW X, NEW b \in Seq(X), NEW i \in 1 .. Len(b) + 1, NEW j \in i .. Len(b) + 1
  PROVE  IsSuffix(SubSeq(b, j, Len(b)), SubSeq(b, i, Len(b)))
<1>1. PICK L \in Nat : L = Len(b)
  OBVIOUS
<1>2. ASSUME NEW k \in 1 .. L + 1
      PROVE  /\ SubSeq(b, k, L) \in Seq(X) /\ Len(SubSeq(b, k, L)) = (L - k) + 1
             /\ \A m \in 1 .. (L - k) + 1 : SubSeq(b, k, L)[m] = b[(k + m) - 1]
  <2>1. \A m \in k .. L : b[m] \in X
    BY <1>1
  <2>2. /\ SubSeq(b, k, L) \in Seq(X)
        /\ Len(SubSeq(b, k, L)) = IF k <= L THEN L - k + 1 ELSE 0
        /\ \A m \in 1 .. L - k + 1 : SubSeq(b, k, L)[m] = b[k + m - 1]
    BY <2>1, SubSeqProperties
  <2>3. Len(SubSeq(b, k, L)) = (L - k) + 1
    BY <2>2
  <2> QED
    BY <2>2, <2>3
<1>3. PICK s, t : s = SubSeq(b, j, L) /\ t = SubSeq(b, i, L)
  OBVIOUS
<1>4. PICK n \in Nat, o \in Nat : n = (L - j) + 1 /\ o = (L - i) + 1 /\ n <= o
  <2>1. (L - j) + 1 \in Nat /\ (L - i) + 1 \in Nat /\ (L - j) + 1 <= (L - i) + 1
    BY <1>1
  <2> QED
    BY <2>1, Zenon
<1>5. s \in Seq(X) /\ n = Len(s) /\ \A m \in 1 .. n : s[m] = b[(j + m) - 1]
  <2>1. j \in 1 .. L + 1
    BY <1>1
  <2> QED
    BY <1>2, <1>3, <1>4, <2>1
<1>6. t \in Seq(X) /\ o = Len(t) /\ \A m \in 1 .. o : t[m] = b[(i + m) - 1]
  <2>1. i \in 1 .. L + 1
    BY <1>1
  <2> QED
    BY <1>2, <1>3, <1>4, <2>1
<1>7. PICK u, v : u = Reverse(s) /\ v = Reverse(t)
  OBVIOUS
<1>8. u \in Seq(X) /\ Len(u) = n /\ \A m \in 1 .. n : u[m] = s[(n - m) + 1]
  BY <1>5, <1>7, ReverseIs
<1>9. v \in Seq(X) /\ Len(v) = o /\ \A m \in 1 .. o : v[m] = t[(o - m) + 1]
  BY <1>6, <1>7, ReverseIs
<1>10. ASSUME NEW m \in 1 .. n PROVE v[m] = u[m]
  <2>1. /\ m \in 1 .. o /\ (n - m) + 1 \in 1 .. n /\ (o - m) + 1 \in 1 .. o
        /\ (j + ((n - m) + 1)) - 1 = (i + ((o - m) + 1)) - 1
    BY <1>1, <1>4
  <2>2. u[m] = b[(j + ((n - m) + 1)) - 1]
    BY <1>5, <1>8, <2>1
  <2>3. v[m] = b[(i + ((o - m) + 1)) - 1]
    BY <1>6, <1>9, <2>1
  <2> QED
    BY <2>1, <2>2, <2>3
<1>11. IsPrefix(u, v)
  <2>1. str_prefix(v, u) <=> Len(u) <= Len(v) /\ \A m \in 1 .. Len(u) : v[m] = u[m]
    BY <1>8, <1>9, PrefixIs, ZenonT(60)
  <2> QED
    BY <1>4, <1>8, <1>9, <1>10, <2>1 DEF str_prefix
<1> QED
  BY <1>1, <1>3, <1>7, <1>11 DEF IsSuffix

LEMMA TailIsSuffix ==
  ASSUME NEW X, NEW b \in Seq(X), Len(b) > TailMax
  PROVE  IsSuffix(cmd_tail(b), LastLines(b))
<1>1. PICK L \in Nat, d \in Nat : L = Len(b) /\ d = L - TailMax /\ d + 1 \in 1 .. L
  <2>1. TailMax \in Nat \ {0} /\ Len(b) \in Nat
    BY ReadersAssumption
  <2>2. Len(b) - TailMax \in Nat /\ (Len(b) - TailMax) + 1 \in 1 .. Len(b)
    BY <2>1
  <2> QED
    BY <2>1, <2>2
<1>2. PICK a : a = SubSeq(b, d + 1, L)
  OBVIOUS
<1>3. PICK T \in Nat : T = L - d /\ T >= 1
  BY <1>1
<1>4. a \in Seq(X) /\ Len(a) = T /\ \A k \in 1 .. T : a[k] = b[d + k]
  <2>1. \A k \in d + 1 .. L : b[k] \in X
    BY <1>1
  <2>2. /\ a \in Seq(X) /\ Len(a) = IF d + 1 <= L THEN L - (d + 1) + 1 ELSE 0
        /\ \A k \in 1 .. L - (d + 1) + 1 : a[k] = b[(d + 1) + k - 1]
    BY <1>1, <1>2, <2>1, SubSeqProperties
  <2>3. L - (d + 1) + 1 = T /\ d + 1 <= L /\ \A k \in 1 .. T : (d + 1) + k - 1 = d + k
    BY <1>1, <1>3
  <2> QED
    BY <2>2, <2>3
<1>5. PICK s \in Nat, n \in Nat : s = TailStart(a) /\ n = TailStart(b) /\ IsTailStart(a, s) /\ IsTailStart(b, n)
  <2>1. IsTailStart(a, TailStart(a)) /\ IsTailStart(b, TailStart(b))
    BY <1>4, TailStarts
  <2>2. TailStart(a) \in Nat /\ TailStart(b) \in Nat
    BY <1>1, <1>4, <2>1 DEF IsTailStart
  <2> QED
    BY <2>1, <2>2
<1>6. s \in 1 .. T + 1 /\ n \in 1 .. L + 1 /\ Newlines(a, s, T - 1) < LinesMax
      /\ \A m \in 1 .. n - 1 : Newlines(b, m, L - 1) >= LinesMax
  BY <1>1, <1>4, <1>5 DEF IsTailStart
<1>13. s >= 1 /\ s <= T + 1 /\ n >= 1 /\ n <= L + 1
  BY <1>6
<1>7. LastLines(b) = SubSeq(b, n, L)
  BY <1>1, <1>5, LastLinesIs
<1>8. cmd_tail(b) = SubSeq(a, s, T)
  <2>1. cmd_tail(b) = SubSeq(a, TailStart(a), Len(a))
    <3>1. Len(b) - TailMax + 1 = d + 1
      BY <1>1
    <3>2. (IF Len(b) > TailMax THEN SubSeq(b, Len(b) - TailMax + 1, Len(b)) ELSE b) = a
      BY <1>1, <1>2, <3>1
    <3>3. cmd_tail(b) = LET buf == IF Len(b) > TailMax THEN SubSeq(b, Len(b) - TailMax + 1, Len(b)) ELSE b
                        IN SubSeq(buf, TailStart(buf), Len(buf))
      BY Zenon DEF cmd_tail, TailStart
    <3> QED
      BY <3>2, <3>3
  <2> QED
    BY <1>4, <1>5, <2>1
<1>9. SubSeq(a, s, T) = SubSeq(b, d + s, L)
  <2>1. \A k \in s .. T : a[k] \in X
    BY <1>4, <1>6
  <2>2. /\ SubSeq(a, s, T) \in Seq(X) /\ Len(SubSeq(a, s, T)) = IF s <= T THEN T - s + 1 ELSE 0
        /\ \A k \in 1 .. T - s + 1 : SubSeq(a, s, T)[k] = a[s + k - 1]
    BY <2>1, SubSeqProperties
  <2>3. \A k \in d + s .. L : b[k] \in X
    BY <1>1, <1>6
  <2>4. /\ SubSeq(b, d + s, L) \in Seq(X) /\ Len(SubSeq(b, d + s, L)) = IF d + s <= L THEN L - (d + s) + 1 ELSE 0
        /\ \A k \in 1 .. L - (d + s) + 1 : SubSeq(b, d + s, L)[k] = b[(d + s) + k - 1]
    BY <2>3, SubSeqProperties
  <2>5. PICK r \in Nat : /\ r = T - s + 1 /\ r = L - (d + s) + 1
                         /\ r = (IF s <= T THEN T - s + 1 ELSE 0) /\ r = (IF d + s <= L THEN L - (d + s) + 1 ELSE 0)
    <3>1. T - s + 1 \in Nat /\ L - (d + s) + 1 = T - s + 1
      BY <1>3, <1>13
    <3>2. /\ T - s + 1 = (IF s <= T THEN T - s + 1 ELSE 0)
          /\ T - s + 1 = (IF d + s <= L THEN T - s + 1 ELSE 0)
      BY <1>3, <1>13
    <3> QED
      BY <3>1, <3>2
  <2>6. ASSUME NEW k \in 1 .. r PROVE SubSeq(a, s, T)[k] = SubSeq(b, d + s, L)[k]
    <3>1. s + k - 1 \in 1 .. T /\ d + (s + k - 1) = (d + s) + k - 1
      BY <1>3, <1>6, <2>5
    <3> QED
      BY <1>4, <2>2, <2>4, <2>5, <3>1
  <2> QED
    BY <2>2, <2>4, <2>5, <2>6, SeqEqual
<1>10. n <= d + s
  <2> SUFFICES ASSUME d + s < n PROVE FALSE
    BY <1>6
  <2>1. d + s \in 1 .. n - 1 /\ s <= T
    BY <1>3, <1>13
  <2>2. Newlines(b, d + s, L - 1) >= LinesMax
    BY <1>6, <2>1
  <2>3. Newlines(a, s, T - 1) = Newlines(b, d + s, L - 1)
    <3>1. PICK e \in Nat : e = T - 1 /\ d + e = L - 1 /\ s <= e + 1
      BY <1>1, <1>3, <2>1, SMTT(60)
    <3>2. s \in Nat \ {0} /\ SamePart(a, b, d, s, e)
      BY <1>4, <1>13, <3>1 DEF SamePart
    <3>3. Newlines(a, s, e) = Newlines(b, d + s, d + e)
      BY <3>1, <3>2, NewlinesShift
    <3> QED
      BY <3>1, <3>3
  <2>4. Newlines(a, s, T - 1) \in Nat /\ LinesMax \in Nat
    <3>1. s \in Int /\ T - 1 \in Int /\ s <= s /\ T - 1 <= T - 1
      OBVIOUS
    <3> QED
      BY <3>1, NewlinesGrow, ReadersAssumption
  <2> QED
    BY <1>6, <2>2, <2>3, <2>4
<1>11. n \in 1 .. Len(b) + 1 /\ d + s \in n .. Len(b) + 1
  <2>1. n \in 1 .. L + 1 /\ d + s \in n .. L + 1
    BY <1>3, <1>10, <1>13
  <2> QED
    BY <1>1, <2>1
<1>12. IsSuffix(SubSeq(b, d + s, Len(b)), SubSeq(b, n, Len(b)))
  BY <1>11, SuffixIs
<1> QED
  BY <1>1, <1>7, <1>8, <1>9, <1>12

-----------------------------------------------------------------------------
(* The shell *)

ShellInv == VolumeInv /\ Resolved(cwd) /\ Settled(cwd) /\ fs_mounted \in BOOLEAN /\ entered \in Nat

LEMMA CommandKeeps ==
  ASSUME NEW line \in Seq(Symbols), VolumeInv, OneCommand(line)
  PROVE  VolumeInv'
<1>1. CASE tree' = tree
  BY <1>1 DEF VolumeInv, OfNodes, FTP!Good, FTP!IsTree
<1>2. CASE \E p : Nameable(p) /\ (FTP!Mkdir(p) \/ FTP!Touch(p) \/ FTP!Delete(p))
  BY <1>2, NewKeeps, DeleteKeeps DEF Nameable
<1>3. CASE \E p, d : Nameable(p) /\ StoredText(line, d) /\ (FTP!Write(p, d) \/ FTP!AppendTo(p, d))
  <2>1. PICK p, d : Nameable(p) /\ StoredText(line, d) /\ (FTP!Write(p, d) \/ FTP!AppendTo(p, d))
    BY <1>3
  <2>2. p \in Seq(Names) /\ d \in Seq(Symbols)
    BY <2>1, TextTypes DEF Nameable
  <2>3. PICK old \in Seq(Symbols) : FTP!Put(p, old, d)
    <3>1. <<>> \in Seq(Symbols)
      OBVIOUS
    <3> QED
      BY <2>1, <3>1, ContentsType DEF FTP!Write, FTP!AppendTo
  <2> QED
    BY <2>2, <2>3, PutKeeps
<1>4. CASE \E p, q : Nameable(p) /\ Nameable(q) /\ (FTP!Copy(p, q) \/ FTP!Move(p, q))
  <2>1. PICK p, q : Nameable(p) /\ Nameable(q) /\ (FTP!Copy(p, q) \/ FTP!Move(p, q))
    BY <1>4
  <2>2. p \in Seq(Names) /\ q \in Seq(Names)
    BY <2>1 DEF Nameable
  <2>3. CASE FTP!Copy(p, q)
    <3>1. tree[p].data \in Seq(Symbols) /\ <<>> \in Seq(Symbols)
      BY <2>3, ContentsType DEF FTP!Copy
    <3> QED
      BY <2>2, <2>3, <3>1, PutKeeps DEF FTP!Copy
  <2>4. CASE FTP!Move(p, q)
    BY <2>2, <2>4, MoveKeeps
  <2> QED
    BY <2>1, <2>3, <2>4
<1> QED
  BY <1>1, <1>2, <1>3, <1>4 DEF OneCommand

\* A step enters a line, which is one command.
LEMMA ShellStep ==
  ASSUME ShellInv, [Next]_vars
  PROVE  /\ ShellInv'
         /\ tree' = tree \/ \E x \in Lines : OneCommand(x.line)
<1>1. CASE Next
  <2>1. PICK x \in Lines : entered > 0 /\ shell_line(x.line) /\ entered' = entered - 1
    BY <1>1 DEF Next
  <2>2. x.line \in Seq(Symbols)
    BY ShellAssumption
  <2>3. PICK line \in Seq(Symbols) : line = x.line
    BY <2>2
  <2>4. OneCommand(line)
    <3>1. shell_line(line)
      BY <2>1, <2>3
    <3>2. CASE gt(line) # 0
      BY <3>1, <3>2, RedirectStep DEF ShellInv, shell_line
    <3>3. CASE gt(line) = 0
      BY <3>1, <3>3, CommandStep DEF ShellInv, shell_line
    <3> QED
      BY <3>2, <3>3
  <2>5. VolumeInv'
    BY <2>4, CommandKeeps DEF ShellInv
  <2>6. Resolved(cwd)' /\ Settled(cwd)' /\ fs_mounted' \in BOOLEAN
    BY <2>1, <2>3, StateStep DEF ShellInv
  <2>7. entered' \in Nat
    BY <2>1 DEF ShellInv
  <2> QED
    BY <2>3, <2>4, <2>5, <2>6, <2>7 DEF ShellInv
<1>2. CASE UNCHANGED vars
  BY <1>2 DEF vars, ShellInv, VolumeInv, OfNodes, FTP!Good, FTP!IsTree, Resolved, Settled
<1> QED
  BY <1>1, <1>2

LEMMA ShellInit ==
  ASSUME Volumes, Init
  PROVE  ShellInv
<1>1. IsVolume(tree) /\ cwd = <<"/">> /\ fs_mounted = TRUE /\ entered \in Nat
  BY ShellAssumption DEF Volumes, Init
<1>2. VolumeInv
  BY <1>1 DEF IsVolume, FT!IsTree, VolumeInv, OfNodes, FTP!Good, FTP!IsTree
<1>3. Resolved(cwd)
  <2>1. PICK b : b = <<"/">>
    OBVIOUS
  <2>2. b \in Seq(Symbols) /\ Length(b) = 1 /\ b # <<>> /\ b[1] = "/"
    BY <2>1, LengthOne, ShellAssumption
  <2>3. 1 < PathMax
    BY ShellAssumption
  <2> QED
    BY <1>1, <2>1, <2>2, <2>3 DEF Resolved
<1>4. Settled(cwd)
  <2>1. Segments(cwd) = <<>> /\ Slashed(<<>>) = <<>> /\ cwd \in Seq(Symbols)
    BY <1>1, <1>3, RootSegments DEF Resolved
  <2>2. Length(cwd) \in Nat /\ Length(<<>>) = 0
    BY <2>1, LengthType, LengthNone
  <2> QED
    BY <2>1, <2>2 DEF Settled
<1> QED
  BY <1>1, <1>2, <1>3, <1>4 DEF ShellInv

LEMMA TypesHold ==
  ASSUME ShellInv
  PROVE  TypeOK
<1>1. /\ DOMAIN tree \subseteq Seq(Names) /\ <<>> \in DOMAIN tree
      /\ \A p \in DOMAIN tree : \A n \in 0 .. Len(p) - 1 :
             SubSeq(p, 1, n) \in DOMAIN tree /\ tree[SubSeq(p, 1, n)].dir
  BY DEF ShellInv, VolumeInv, FTP!Good, FTP!IsTree
<1>2. ASSUME NEW p \in DOMAIN tree, p # <<>> PROVE IsDir(Front(p))
  <2>1. Len(p) - 1 \in 0 .. Len(p) - 1
    <3>1. Len(p) \in Nat \ {0}
      BY <1>1, <1>2, EmptySeq
    <3> QED
      BY <3>1
  <2> QED
    BY <1>1, <2>1 DEF IsDir, Front
<1> QED
  BY <1>1, <1>2 DEF ShellInv, Resolved, TypeOK

\* On a volume that is a tree, no sequence of lines leaves a file without its
\* directory, or a working directory that does not fit into cwd[256] (path_join,
\* cmd_cd and the commands of kmain.c on files), for every size of that buffer.
THEOREM ShellKeepsTypes ==
  ASSUME Volumes
  PROVE  Spec => []TypeOK
<1>1. Init => ShellInv
  BY ShellInit
<1>2. ShellInv /\ [Next]_vars => ShellInv'
  BY ShellStep
<1>3. ShellInv => TypeOK
  BY TypesHold
<1> QED
  BY <1>1, <1>2, <1>3, PTL DEF Spec

\* The commands are the same, whether FileTree is taken alone or with its proofs.
LEMMA SameCommands ==
  /\ \A p : /\ FTP!Mkdir(p) => FT!Mkdir(p)
            /\ FTP!Touch(p) => FT!Touch(p)
            /\ FTP!Delete(p) => FT!Delete(p)
  /\ \A p, d : /\ FTP!Write(p, d) => FT!Write(p, d)
               /\ FTP!AppendTo(p, d) => FT!AppendTo(p, d)
  /\ \A p, q : /\ FTP!Copy(p, q) => FT!Copy(p, q)
               /\ FTP!Move(p, q) => FT!Move(p, q)
<1>1. /\ \A p : FTP!Exists(p) = FT!Exists(p) /\ FTP!IsDir(p) = FT!IsDir(p)
      /\ \A p : FTP!IsFile(p) = FT!IsFile(p) /\ FTP!HasPlace(p) = FT!HasPlace(p)
      /\ FTP!Command = FT!Command
  BY SameWords DEF FTP!Exists, FTP!IsDir, FTP!IsFile, FTP!HasPlace, FTP!Command,
                   FT!Exists, FT!IsDir, FT!IsFile, FT!HasPlace, FT!Command
<1>2. /\ \A p, n : FTP!With(p, n) = FT!With(p, n)
      /\ \A S : FTP!Without(S) = FT!Without(S)
      /\ \A d : FTP!FileNode(d) = FT!FileNode(d)
      /\ FTP!DirNode = FT!DirNode
      /\ \A p, q, r : FTP!Moved(p, q, r) = FT!Moved(p, q, r)
  BY DEF FTP!With, FTP!Without, FTP!FileNode, FTP!DirNode, FTP!Moved,
         FT!With, FT!Without, FT!FileNode, FT!DirNode, FT!Moved
<1>3. \A p : FTP!Under(p) = FT!Under(p)
  BY SameWords DEF FTP!Under, FT!Under
<1>4. \A p : /\ FTP!Mkdir(p) => FT!Mkdir(p)
             /\ FTP!Touch(p) => FT!Touch(p)
             /\ FTP!Delete(p) => FT!Delete(p)
  BY <1>1, <1>2, <1>3 DEF FTP!Mkdir, FTP!Touch, FTP!Delete, FT!Mkdir, FT!Touch, FT!Delete
<1>5. \A p, old, d : FTP!Put(p, old, d) => FT!Put(p, old, d)
  BY <1>1, <1>2, SameWords DEF FTP!Put, FT!Put
<1>6. \A p, d : /\ FTP!Write(p, d) => FT!Write(p, d)
                /\ FTP!AppendTo(p, d) => FT!AppendTo(p, d)
  BY <1>1, <1>5 DEF FTP!Write, FTP!AppendTo, FT!Write, FT!AppendTo
<1>7. \A p, q : FTP!Copy(p, q) => FT!Copy(p, q)
  BY <1>1, <1>5 DEF FTP!Copy, FT!Copy
<1>8. ASSUME NEW p, NEW q, FTP!Move(p, q) PROVE FT!Move(p, q)
  <2>1. /\ FTP!Command /\ FTP!Exists(p) /\ p # <<>> /\ FTP!HasPlace(q)
        /\ ~FTP!IsPrefix(p, q) /\ ~FTP!Exists(q)
    BY <1>8 DEF FTP!Move
  <2>2. tree' = [r \in (DOMAIN tree \ FTP!Under(p)) \cup {FTP!Moved(p, q, s) : s \in FTP!Under(p)} |->
                    IF FTP!IsPrefix(q, r) THEN tree[FTP!Moved(q, p, r)] ELSE tree[r]]
    BY <1>8 DEF FTP!Move
  <2>3. tree' = [r \in (DOMAIN tree \ FT!Under(p)) \cup {FT!Moved(p, q, s) : s \in FT!Under(p)} |->
                    IF FT!IsPrefix(q, r) THEN tree[FT!Moved(q, p, r)] ELSE tree[r]]
    BY <1>3, <2>2, SameWords DEF FTP!Moved, FT!Moved
  <2> QED
    BY <1>1, <2>1, <2>3, SameWords DEF FT!Move
<1> QED
  BY <1>4, <1>6, <1>7, <1>8

\* Every line that is entered is one command of FileTree, or changes no file: the
\* shell takes lines and paths apart in no way that changes anything else
\* (shell_line, path_join, cmd_*, write_redirect).
THEOREM ShellImplementsFileTree ==
  ASSUME Volumes, AllPaths, AllTexts
  PROVE  Spec => ImplementsFileTree
<1>1. Init => ShellInv
  BY ShellInit
<1>2. ShellInv /\ [Next]_vars => ShellInv'
  BY ShellStep
<1>3. Init => FT!Init
  BY DEF Init, FT!Init
<1>4. ASSUME NEW p, Nameable(p) PROVE p \in Paths
  <2>1. PICK n \in Nat : n = Len(p)
    BY <1>4 DEF Nameable
  <2>2. p \in [1 .. n -> Names] /\ 2 * n < PathMax
    BY <1>4, <2>1 DEF Nameable
  <2>3. n \in 0 .. PathMax
    BY <2>2, ShellAssumption
  <2> QED
    BY <2>2, <2>3 DEF AllPaths
<1>5. ASSUME NEW x \in Lines, NEW d, StoredText(x.line, d) PROVE d \in Texts
  BY <1>5 DEF StoredText, AllTexts
<1>6. ShellInv /\ [Next]_vars => [FT!Next]_(FT!vars)
  <2> SUFFICES ASSUME ShellInv, [Next]_vars PROVE FT!Next \/ UNCHANGED FT!vars
    OBVIOUS
  <2>1. CASE tree' = tree
    BY <2>1 DEF FT!vars
  <2>2. ASSUME NEW x \in Lines, OneCommand(x.line), tree' # tree PROVE FT!Next
    <3>1. CASE \E p : Nameable(p) /\ (FTP!Mkdir(p) \/ FTP!Touch(p) \/ FTP!Delete(p))
      BY <1>4, <3>1, SameCommands DEF FT!Next
    <3>2. CASE \E p, d : Nameable(p) /\ StoredText(x.line, d) /\ (FTP!Write(p, d) \/ FTP!AppendTo(p, d))
      BY <1>4, <1>5, <3>2, SameCommands DEF FT!Next
    <3>3. CASE \E p, q : Nameable(p) /\ Nameable(q) /\ (FTP!Copy(p, q) \/ FTP!Move(p, q))
      BY <1>4, <3>3, SameCommands DEF FT!Next
    <3> QED
      BY <2>2, <3>1, <3>2, <3>3 DEF OneCommand
  <2> QED
    BY <2>1, <2>2, ShellStep
<1> QED
  BY <1>1, <1>2, <1>3, <1>6, PTL DEF Spec, ImplementsFileTree, FT!Spec

\* A line that was entered did what it says.
LEMMA EnteredLine ==
  ASSUME Alphabet, Faithful, ShellInv, Next, Clear(said')
  PROVE  \E x \in Lines : said' = x.said /\ Done(x.said) /\ Clear(x.said)
<1>1. PICK x \in Lines : shell_line(x.line) /\ said' = x.said
  BY DEF Next
<1>2. Ready /\ fs_mounted \in BOOLEAN
  BY DEF ShellInv, Ready
<1>3. Clear(x.said)
  BY <1>1
<1>4. Done(x.said)
  BY <1>1, <1>2, <1>3, LineStep
<1> QED
  BY <1>1, <1>3, <1>4

LEMMA WalkNone ==
  ASSUME NEW at \in Places
  PROVE  Walk(at, <<>>) = at
<1>1. <<>> \in Seq(NameSet) /\ "." \in NameSet
  BY DEF NameSet
<1> QED
  BY <1>1, WalkAppend

\* Of what is below a directory that is none, nothing is there.
LEMMA NothingThere ==
  ASSUME Alphabet, TypeOK, ~IsDir(Here), Here \in Places, NEW arg, Within(arg), arg.names \in Seq(NameSet)
  PROVE  Meant(arg) # <<>> /\ Meant(arg) \notin DOMAIN tree /\ ~HasPlace(Meant(arg))
<1>1. PICK names \in Seq(NameSet) : names = arg.names
  OBVIOUS
<1>2. PICK at \in Places : at = Here
  OBVIOUS
<1>3. names # <<>> /\ Meant(arg) = Walk(at, names)
  BY <1>1, <1>2 DEF Within, Meant
<1>4. names \in Seq(Typed)
  <2>1. PICK n \in Nat : n = Len(names)
    OBVIOUS
  <2>2. ASSUME NEW i \in 1 .. n PROVE names[i] \in Typed
    <3>1. names[i] \in ToSet(names) /\ names[i] \in NameSet
      BY <2>1 DEF ToSet
    <3>2. {".", ".."} \cap ToSet(names) = {}
      BY <1>1 DEF Within
    <3>3. names[i] \notin {".", ".."}
      BY <3>1, <3>2
    <3> QED
      BY <3>1, <3>3 DEF NameSet
  <2>3. names \in [1 .. n -> NameSet]
    BY <2>1
  <2>4. names \in [1 .. n -> Typed]
    BY <2>2, <2>3
  <2> QED
    BY <2>4
<1> DEFINE S == {a \in Seq(NameSet) : ~IsDir(Walk(at, a))}
<1>5. ASSUME NEW p \in Places, ~IsDir(p), NEW x
      PROVE  /\ Append(p, x) # <<>> /\ ~HasPlace(Append(p, x))
             /\ Append(p, x) \notin DOMAIN tree
  <2>1. PICK X : X = Names \cup {Invalid, x}
    OBVIOUS
  <2>2. p \in Seq(X) /\ x \in X
    <3>1. Names \cup {Invalid} \subseteq X
      BY <2>1
    <3>2. p \in Seq(X)
      BY <3>1, SeqMonotonic DEF Places
    <3> QED
      BY <2>1, <3>2
  <2>3. Append(p, x) # <<>> /\ Front(Append(p, x)) = p
    BY <2>2, FrontAppend
  <2>4. ~HasPlace(Append(p, x))
    BY <1>5, <2>3 DEF HasPlace
  <2>5. Append(p, x) \notin DOMAIN tree
    BY <1>5, <2>3 DEF TypeOK
  <2> QED
    BY <2>3, <2>4, <2>5
<1>6. ASSUME NEW a \in Seq(Typed), a \in S, NEW x \in Typed
      PROVE  /\ Append(a, x) \in S /\ Walk(at, Append(a, x)) # <<>> /\ ~HasPlace(Walk(at, Append(a, x)))
             /\ Walk(at, Append(a, x)) \notin DOMAIN tree
  <2>1. a \in Seq(NameSet) /\ x \in NameSet /\ ~IsDir(Walk(at, a))
    BY <1>6 DEF NameSet
  <2>2. PICK p \in Places : p = Walk(at, a)
    BY <2>1, WalkAppend
  <2>3. Walk(at, Append(a, x)) = WalkTo(p, x) /\ Append(a, x) \in Seq(NameSet)
    BY <2>1, <2>2, WalkAppend, AppendProperties
  <2>4. x \notin {".", ".."}
    BY DEF Alphabet
  <2>5. PICK q : q = Append(p, ShortName[x])
    OBVIOUS
  <2>6. Walk(at, Append(a, x)) = q
    BY <2>3, <2>4, <2>5 DEF WalkTo
  <2>7. q # <<>> /\ ~HasPlace(q) /\ q \notin DOMAIN tree
    BY <1>5, <2>1, <2>2, <2>5
  <2>8. ~IsDir(q)
    BY <2>7 DEF IsDir
  <2> QED
    BY <2>3, <2>6, <2>7, <2>8
<1>7. <<>> \in S
  BY <1>2, WalkNone
<1> HIDE DEF S
<1>8. Seq(Typed) \subseteq S
  BY <1>6, <1>7, SeqInduction
<1>9. PICK a \in Seq(Typed), x \in Typed : names = Append(a, x)
  BY <1>3, <1>4, FrontLast
<1>10. a \in S
  BY <1>8
<1> QED
  BY <1>3, <1>6, <1>9, <1>10

\* In a place that is none, no command finds anything or puts anything.
LEMMA NothingDone ==
  ASSUME TypeOK, NEW s, NEW p, p = Meant(s.args[1]), p # <<>> /\ p \notin DOMAIN tree /\ ~HasPlace(p)
  PROVE  TreeAfter(s) = tree
<1>1. \A d : Stored(p, d) = tree
  BY DEF Stored
<1>2. f_mkdir(p) = tree /\ f_unlink(p) = tree
  BY DEF f_mkdir, f_unlink
<1>3. ~IsFile(p) /\ \A q : f_rename(p, q) = tree
  BY DEF IsFile, f_rename
<1> QED
  BY <1>1, <1>2, <1>3 DEF TreeAfter

\* The arguments of a line that is one of the forms.
LEMMA FirstArgument ==
  ASSUME Faithful, NEW x \in Lines, x.said.cmd \notin {"none", "other"}
  PROVE  1 \in DOMAIN x.said.args /\ (x.said.args[1].names \in Seq(NameSet))
<1>1. CASE BareCd(x)
  <2>1. DOMAIN x.said.args = {1} /\ x.said.args[1] = [abs |-> TRUE, names |-> <<>>]
    BY <1>1, Zenon DEF BareCd
  <2> QED
    BY <2>1
<1>2. CASE OnePath(x) \/ TwoPaths(x) \/ PathAndText(x) \/ TextAndPath(x)
  <2>1. (DOMAIN x.said.args = {1} \/ DOMAIN x.said.args = {1, 2}) /\ Spells(x.parts.path, x.said.args[1])
    BY <1>2, Zenon DEF OnePath, TwoPaths, PathAndText, TextAndPath
  <2>2. x.said.args[1].names \in Seq(NameSet)
    BY <2>1, Zenon DEF Spells
  <2> QED
    BY <2>1, <2>2
<1> QED
  BY <1>1, <1>2 DEF Faithful

\* Whatever blanks, slashes, dots, gaps and redirections a line is written with, it
\* changes the tree as its command on the files it names would; a line that is refused,
\* moves the working directory or shows a file changes nothing (shell_line, path_join
\* and the commands of kmain.c on files).
THEOREM ShellDoesAsSaid ==
  ASSUME Volumes, Alphabet, Faithful
  PROVE  Spec => DoesAsSaid
<1>1. Init => ShellInv
  BY ShellInit
<1>2. ShellInv /\ [Next]_vars => ShellInv'
  BY ShellStep
<1>3. ShellInv /\ [Next]_vars =>
        [Clear(said') => tree' = IF fs_mounted /\ ~Refused(said') THEN TreeAfter(said') ELSE tree]_vars
  BY EnteredLine DEF Done
<1> QED
  BY <1>1, <1>2, <1>3, PTL DEF Spec, DoesAsSaid

\* cd goes to the directory it names, if that is one, and no other command moves the
\* working directory (cmd_cd).
THEOREM ShellGoesAsSaid ==
  ASSUME Volumes, Alphabet, Faithful
  PROVE  Spec => GoesAsSaid
<1>1. Init => ShellInv
  BY ShellInit
<1>2. ShellInv /\ [Next]_vars => ShellInv'
  BY ShellStep
<1>3. ShellInv /\ [Next]_vars =>
        [Clear(said') =>
           follow_path(cwd') = IF said'.cmd = "cd" /\ fs_mounted /\ IsDir(Meant(said'.args[1]))
                               THEN Meant(said'.args[1]) ELSE Here]_vars
  BY EnteredLine DEF Done, GoneTo
<1> QED
  BY <1>1, <1>2, <1>3, PTL DEF Spec, GoesAsSaid

\* In a working directory that is gone, or has become a file, no line that names
\* files below it changes the tree (path_join and the commands, which resolve every
\* path anew).
THEOREM ShellStaleCwdIsHarmless ==
  ASSUME Volumes, Alphabet, Faithful
  PROVE  Spec => StaleCwdIsHarmless
<1>1. Init => ShellInv
  BY ShellInit
<1>2. ShellInv /\ [Next]_vars => ShellInv'
  BY ShellStep
<1>3. ASSUME ShellInv, Next, Clear(said'), ~IsDir(Here), \A i \in DOMAIN said'.args : Within(said'.args[i])
      PROVE  tree' = tree
  <2>1. PICK x \in Lines : said' = x.said /\ Done(x.said) /\ Clear(x.said)
    BY <1>3, EnteredLine
  <2>2. x.said.cmd \notin {"none", "other"}
    BY <2>1 DEF Clear
  <2>3. 1 \in DOMAIN x.said.args /\ x.said.args[1].names \in Seq(NameSet)
    BY <2>2, FirstArgument
  <2>4. Within(x.said.args[1])
    BY <1>3, <2>1, <2>3
  <2>5. Here \in Places
    <3>1. Resolved(cwd)
      BY <1>3 DEF ShellInv
    <3> QED
      BY <3>1, FollowedIsGiven DEF Here, Given, Places
  <2>6. TypeOK
    BY <1>3, TypesHold
  <2>7. PICK p : p = Meant(x.said.args[1])
    OBVIOUS
  <2>8. p # <<>> /\ p \notin DOMAIN tree /\ ~HasPlace(p)
    BY <1>3, <2>3, <2>4, <2>5, <2>6, <2>7, NothingThere
  <2>9. TreeAfter(x.said) = tree
    BY <2>3, <2>6, <2>7, <2>8, NothingDone
  <2> QED
    BY <2>1, <2>9 DEF Done
<1>4. ShellInv /\ [Next]_vars =>
        [(Clear(said') /\ ~IsDir(Here) /\ \A i \in DOMAIN said'.args : Within(said'.args[i]))
            => tree' = tree]_vars
  BY <1>3
<1> QED
  BY <1>1, <1>2, <1>4, PTL DEF Spec, StaleCwdIsHarmless

\* The data of a file is a sequence of symbols.
LEMMA FileData ==
  ASSUME ShellInv, NEW p, IsFile(p)
  PROVE  tree[p].data \in Seq(Symbols)
<1>1. p \in DOMAIN tree /\ tree \in [DOMAIN tree -> Nodes]
  BY DEF ShellInv, VolumeInv, OfNodes, IsFile
<1>2. tree[p] \in Nodes
  BY <1>1
<1> QED
  BY <1>2 DEF Nodes

\* head shows the lines a file starts with and tail those it ends with, as many of them
\* as lie in the part tail reads, whatever the sizes of their buffers are (cmd_head and
\* cmd_tail, which take a file apart read by read).
THEOREM ShellShowsLines ==
  ASSUME Volumes, Alphabet, Faithful
  PROVE  Spec => ShowsLines
<1>1. Init => ShellInv
  BY ShellInit
<1>2. ShellInv /\ [Next]_vars => ShellInv'
  BY ShellStep
<1> DEFINE AsMeant(b) == IF said'.cmd = "head" THEN screen'.text = FirstLines(b)
                         ELSE IF Len(b) <= TailMax THEN screen'.text = LastLines(b)
                         ELSE IsSuffix(screen'.text, LastLines(b))
<1>3. ASSUME ShellInv, Next, Clear(said'), fs_mounted, said'.cmd \in {"head", "tail"},
             IsFile(Meant(said'.args[1]))
      PROVE  AsMeant(tree[Meant(said'.args[1])].data)
  <2>1. PICK x \in Lines : said' = x.said /\ Done(x.said)
    BY <1>3, EnteredLine
  <2>2. PICK b \in Seq(Symbols) : b = tree[Meant(said'.args[1])].data
    BY <1>3, FileData
  <2>3. CASE said'.cmd = "head"
    <3>1. screen' = Printed(cmd_head(b))
      BY <1>3, <2>1, <2>2, <2>3 DEF Done, Shows
    <3>2. screen'.text = FirstLines(b)
      BY <3>1, HeadIsFirstLines DEF Printed
    <3> QED
      BY <2>2, <2>3, <3>2
  <2>4. CASE said'.cmd = "tail"
    <3>1. screen' = Printed(cmd_tail(b))
      BY <1>3, <2>1, <2>2, <2>4 DEF Done, Shows
    <3>2. screen'.text = cmd_tail(b)
      BY <3>1 DEF Printed
    <3>3. Len(b) <= TailMax => screen'.text = LastLines(b)
      BY <3>2, TailIsLastLines
    <3>4. ~(Len(b) <= TailMax) => IsSuffix(screen'.text, LastLines(b))
      <4>1. ~(Len(b) <= TailMax) => Len(b) > TailMax
        BY ReadersAssumption
      <4> QED
        BY <3>2, <4>1, TailIsSuffix
    <3> QED
      BY <2>2, <2>4, <3>3, <3>4
  <2> QED
    BY <1>3, <2>3, <2>4
<1>4. ShellInv /\ [Next]_vars =>
        [Clear(said') /\ fs_mounted /\ said'.cmd \in {"head", "tail"} =>
           LET p == Meant(said'.args[1])
           IN IsFile(p) =>
               IF said'.cmd = "head" THEN screen'.text = FirstLines(tree[p].data)
               ELSE IF Len(tree[p].data) <= TailMax THEN screen'.text = LastLines(tree[p].data)
               ELSE IsSuffix(screen'.text, LastLines(tree[p].data))]_vars
  BY <1>3
<1> QED
  BY <1>1, <1>2, <1>4, PTL DEF Spec, ShowsLines

\* wc counts the lines, words and characters of a file, whatever part of it one f_read
\* fetches (cmd_wc, which keeps in_word from one read to the next).
THEOREM ShellCountsWords ==
  ASSUME Volumes, Alphabet, Faithful
  PROVE  Spec => CountsWords
<1>1. Init => ShellInv
  BY ShellInit
<1>2. ShellInv /\ [Next]_vars => ShellInv'
  BY ShellStep
<1>3. ASSUME ShellInv, Next, Clear(said'), fs_mounted, said'.cmd = "wc", IsFile(Meant(said'.args[1]))
      PROVE  screen'.counts = Counts(tree[Meant(said'.args[1])].data)
  <2>1. PICK x \in Lines : said' = x.said /\ Done(x.said)
    BY <1>3, EnteredLine
  <2>2. PICK b \in Seq(Symbols) : b = tree[Meant(said'.args[1])].data
    BY <1>3, FileData
  <2>3. screen' = [text |-> <<>>, counts |-> cmd_wc(b)]
    BY <1>3, <2>1, <2>2 DEF Done, Shows
  <2>4. screen'.counts = Counts(b)
    BY <2>3, WcIsCounts
  <2> QED
    BY <2>2, <2>4
<1>4. ShellInv /\ [Next]_vars =>
        [Clear(said') /\ fs_mounted /\ said'.cmd = "wc" =>
           LET p == Meant(said'.args[1])
           IN IsFile(p) => screen'.counts = Counts(tree[p].data)]_vars
  BY <1>3
<1> QED
  BY <1>1, <1>2, <1>4, PTL DEF Spec, CountsWords
=============================================================================
