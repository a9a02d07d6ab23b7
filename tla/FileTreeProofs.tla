--------------------------- MODULE FileTreeProofs ---------------------------
(***************************************************************************)
(* The promise of the file commands keeps itself: FileTree.tla never       *)
(* leaves a node without its directory, for every set of paths and texts.  *)
(* The modules Shell and Volume implement FileTree.                        *)
(***************************************************************************)
EXTENDS FileTree, SequenceTheorems, TLAPS

\* A tree whose paths are sequences of the names in S.
Good(t, S) == DOMAIN t \subseteq Seq(S) /\ IsTree(t)

\* With, of any tree.
Placed(t, p, n) == [q \in DOMAIN t \cup {p} |-> IF q = p THEN n ELSE t[q]]

-----------------------------------------------------------------------------
(* Paths *)

\* The last of n indices, or one before it.
LEMMA LastOrBefore ==
  ASSUME NEW n \in Nat, NEW k \in 0 .. n - 1
  PROVE  k = n - 1 \/ k < n - 1
OBVIOUS

\* The beginning of a path.
LEMMA Beginning ==
  ASSUME NEW S, NEW p \in Seq(S), NEW n \in 0 .. Len(p)
  PROVE  /\ SubSeq(p, 1, n) \in Seq(S) /\ Len(SubSeq(p, 1, n)) = n
         /\ \A i \in 1 .. n : SubSeq(p, 1, n)[i] = p[i]
<1>1. \A i \in 1 .. n : p[i] \in S
  OBVIOUS
<1>2. 1 \in Int /\ n \in Int
  OBVIOUS
<1>3. /\ SubSeq(p, 1, n) \in Seq(S) /\ Len(SubSeq(p, 1, n)) = IF 1 <= n THEN n - 1 + 1 ELSE 0
      /\ \A i \in 1 .. n - 1 + 1 : SubSeq(p, 1, n)[i] = p[1 + i - 1]
  BY <1>1, <1>2, SubSeqProperties
<1> QED
  BY <1>3

\* A beginning of a beginning.
LEMMA BeginningOfBeginning ==
  ASSUME NEW S, NEW p \in Seq(S), NEW n \in 0 .. Len(p), NEW k \in 0 .. n
  PROVE  SubSeq(SubSeq(p, 1, n), 1, k) = SubSeq(p, 1, k)
<1> DEFINE a == SubSeq(p, 1, n)
<1>1. a \in Seq(S) /\ Len(a) = n /\ \A i \in 1 .. n : a[i] = p[i]
  BY Beginning
<1> HIDE DEF a
<1>2. /\ SubSeq(a, 1, k) \in Seq(S) /\ Len(SubSeq(a, 1, k)) = k
      /\ \A i \in 1 .. k : SubSeq(a, 1, k)[i] = a[i]
  BY <1>1, Beginning
<1>3. k \in 0 .. Len(p)
  OBVIOUS
<1>4. /\ SubSeq(p, 1, k) \in Seq(S) /\ Len(SubSeq(p, 1, k)) = k
      /\ \A i \in 1 .. k : SubSeq(p, 1, k)[i] = p[i]
  BY <1>3, Beginning
<1>5. SubSeq(a, 1, k) = SubSeq(p, 1, k)
  BY <1>1, <1>2, <1>4, SeqEqual
<1> QED
  BY <1>5 DEF a

\* IsPrefix, character by character.
LEMMA PrefixIs ==
  ASSUME NEW S, NEW p \in Seq(S), NEW q \in Seq(S)
  PROVE  IsPrefix(p, q) <=> Len(p) <= Len(q) /\ p = SubSeq(q, 1, Len(p))
<1>1. SubSeq(p, 1, Len(p)) = p
  BY SubSeqFull
<1> QED
  BY <1>1 DEF IsPrefix

-----------------------------------------------------------------------------
(* Trees *)

\* A node in a directory, in the place of no other directory unless it is one.
LEMMA WithKeeps ==
  ASSUME NEW S, NEW t, Good(t, S), NEW p \in Seq(S), NEW n,
         p # <<>>, Front(p) \in DOMAIN t, t[Front(p)].dir,
         p \in DOMAIN t /\ t[p].dir => n.dir
  PROVE  Good(Placed(t, p, n), S)
<1> DEFINE u == [q \in DOMAIN t \cup {p} |-> IF q = p THEN n ELSE t[q]]
<1>1. DOMAIN t \subseteq Seq(S) /\ <<>> \in DOMAIN t /\ t[<<>>].dir
  BY DEF Good, IsTree
<1>2. ASSUME NEW q \in DOMAIN t, t[q].dir
      PROVE  q \in DOMAIN u /\ u[q].dir
  BY <1>2
<1>3. ASSUME NEW q \in DOMAIN t, NEW k \in 0 .. Len(q) - 1
      PROVE  SubSeq(q, 1, k) \in DOMAIN t /\ t[SubSeq(q, 1, k)].dir
  BY DEF Good, IsTree
<1>4. ASSUME NEW k \in 0 .. Len(p) - 1
      PROVE  SubSeq(p, 1, k) \in DOMAIN t /\ t[SubSeq(p, 1, k)].dir
  <2>1. CASE k = Len(p) - 1
    BY <2>1 DEF Front
  <2>2. CASE k < Len(p) - 1
    <3>1. Len(p) - 1 \in 0 .. Len(p) /\ k \in 0 .. Len(p) - 1
      BY <2>2
    <3>2. Len(Front(p)) = Len(p) - 1
      BY <3>1, Beginning DEF Front
    <3>3. SubSeq(Front(p), 1, k) = SubSeq(p, 1, k)
      BY <3>1, BeginningOfBeginning DEF Front
    <3>4. k \in 0 .. Len(Front(p)) - 1
      BY <2>2, <3>2
    <3> QED
      BY <1>3, <3>3, <3>4
  <2> QED
    BY <2>1, <2>2
<1>5. ASSUME NEW q \in DOMAIN u, NEW k \in 0 .. Len(q) - 1
      PROVE  SubSeq(q, 1, k) \in DOMAIN u /\ u[SubSeq(q, 1, k)].dir
  <2>1. SubSeq(q, 1, k) \in DOMAIN t /\ t[SubSeq(q, 1, k)].dir
    BY <1>3, <1>4, <1>5
  <2> QED
    BY <1>2, <2>1
<1>6. Good(u, S)
  BY <1>1, <1>2, <1>5 DEF Good, IsTree
<1> QED
  BY <1>6 DEF Placed

\* A node that nothing is under can go.
LEMMA WithoutKeeps ==
  ASSUME NEW S, Good(tree, S), NEW p \in Seq(S), p # <<>>, Under(p) = {p}
  PROVE  Good(Without({p}), S)
<1> DEFINE u == Without({p})
<1>1. /\ DOMAIN tree \subseteq Seq(S) /\ <<>> \in DOMAIN tree /\ tree[<<>>].dir
      /\ \A q \in DOMAIN tree : \A k \in 0 .. Len(q) - 1 :
            SubSeq(q, 1, k) \in DOMAIN tree /\ tree[SubSeq(q, 1, k)].dir
  BY DEF Good, IsTree
<1>2. DOMAIN u = DOMAIN tree \ {p} /\ \A q \in DOMAIN u : u[q] = tree[q]
  BY DEF Without
<1>3. ASSUME NEW q \in DOMAIN u, NEW k \in 0 .. Len(q) - 1
      PROVE  SubSeq(q, 1, k) # p
  <2> SUFFICES ASSUME SubSeq(q, 1, k) = p PROVE FALSE
    OBVIOUS
  <2>1. q \in Seq(S) /\ q # p /\ q \in DOMAIN tree
    BY <1>1, <1>2
  <2>2. k \in 0 .. Len(q)
    BY <2>1
  <2>3. Len(p) = k
    BY <2>1, <2>2, Beginning
  <2>4. IsPrefix(p, q)
    BY <2>1, <2>2, <2>3, PrefixIs
  <2> QED
    BY <2>1, <2>4 DEF Under
<1> HIDE DEF u
<1>4. Good(u, S)
  BY <1>1, <1>2, <1>3 DEF Good, IsTree
<1> QED
  BY <1>4 DEF u

\* The path of a node that has moved, from p to q.
LEMMA MovedPath ==
  ASSUME NEW S, NEW p \in Seq(S), NEW q \in Seq(S), NEW r \in Seq(S), IsPrefix(p, r)
  PROVE  LET m == Moved(p, q, r) IN
         /\ m \in Seq(S) /\ Len(m) = Len(q) + Len(r) - Len(p)
         /\ \A i \in 1 .. Len(m) : m[i] = IF i <= Len(q) THEN q[i] ELSE r[i - Len(q) + Len(p)]
         /\ IsPrefix(q, m) /\ Moved(q, p, m) = r
<1> DEFINE w == SubSeq(r, Len(p) + 1, Len(r))
           m == Moved(p, q, r)
<1>1. Len(p) \in Nat /\ Len(q) \in Nat /\ Len(r) \in Nat /\ Len(p) <= Len(r)
  BY DEF IsPrefix
<1>2. /\ w \in Seq(S) /\ Len(w) = Len(r) - Len(p)
      /\ \A i \in 1 .. Len(r) - Len(p) : w[i] = r[Len(p) + i]
  <2>1. Len(p) + 1 \in Int /\ Len(r) \in Int /\ \A i \in Len(p) + 1 .. Len(r) : r[i] \in S
    BY <1>1
  <2>2. /\ w \in Seq(S)
        /\ Len(w) = IF Len(p) + 1 <= Len(r) THEN Len(r) - (Len(p) + 1) + 1 ELSE 0
        /\ \A i \in 1 .. Len(r) - (Len(p) + 1) + 1 : w[i] = r[Len(p) + 1 + i - 1]
    BY <2>1, SubSeqProperties
  <2> HIDE DEF w
  <2>3. \A i \in 1 .. Len(r) - Len(p) : Len(p) + 1 + i - 1 = Len(p) + i
    BY <1>1
  <2> QED
    BY <1>1, <2>2, <2>3
<1> HIDE DEF w
<1>3. /\ m \in Seq(S) /\ Len(m) = Len(q) + Len(r) - Len(p)
      /\ \A i \in 1 .. Len(m) : m[i] = IF i <= Len(q) THEN q[i] ELSE r[i - Len(q) + Len(p)]
  <2>1. m = q \o w
    BY DEF Moved, w
  <2>2. m \in Seq(S) /\ Len(m) = Len(q) + Len(w)
        /\ \A i \in 1 .. Len(q) + Len(w) : m[i] = IF i <= Len(q) THEN q[i] ELSE w[i - Len(q)]
    BY <1>2, <2>1, ConcatProperties
  <2> HIDE DEF m
  <2>3. ASSUME NEW i \in 1 .. Len(m), i > Len(q)
        PROVE  w[i - Len(q)] = r[i - Len(q) + Len(p)]
    <3>1. i - Len(q) \in 1 .. Len(r) - Len(p) /\ Len(p) + (i - Len(q)) = i - Len(q) + Len(p)
      BY <1>1, <1>2, <2>2, <2>3
    <3> QED
      BY <1>2, <3>1
  <2> QED
    BY <1>1, <1>2, <2>2, <2>3
<1> HIDE DEF m
<1>4. IsPrefix(q, m)
  <2>1. Len(q) \in 0 .. Len(m)
    BY <1>1, <1>3
  <2>2. /\ SubSeq(m, 1, Len(q)) \in Seq(S) /\ Len(SubSeq(m, 1, Len(q))) = Len(q)
        /\ \A i \in 1 .. Len(q) : SubSeq(m, 1, Len(q))[i] = m[i]
    BY <1>3, <2>1, Beginning
  <2>3. ASSUME NEW i \in 1 .. Len(q) PROVE q[i] = SubSeq(m, 1, Len(q))[i]
    <3>1. i \in 1 .. Len(m) /\ i <= Len(q)
      BY <1>1, <2>1
    <3>2. m[i] = q[i]
      BY <1>3, <3>1
    <3> QED
      BY <2>2, <3>2
  <2>4. q = SubSeq(m, 1, Len(q))
    BY <2>2, <2>3, SeqEqual
  <2> QED
    BY <1>3, <2>1, <2>4, PrefixIs
<1>5. Moved(q, p, m) = r
  <2> DEFINE z == SubSeq(m, Len(q) + 1, Len(m))
  <2>1. /\ z \in Seq(S) /\ Len(z) = Len(r) - Len(p)
        /\ \A i \in 1 .. Len(r) - Len(p) : z[i] = r[Len(p) + i]
    <3>1. Len(q) + 1 \in Int /\ Len(m) \in Int /\ \A i \in Len(q) + 1 .. Len(m) : m[i] \in S
      BY <1>1, <1>3
    <3>2. /\ z \in Seq(S)
          /\ Len(z) = IF Len(q) + 1 <= Len(m) THEN Len(m) - (Len(q) + 1) + 1 ELSE 0
          /\ \A i \in 1 .. Len(m) - (Len(q) + 1) + 1 : z[i] = m[Len(q) + 1 + i - 1]
      BY <3>1, SubSeqProperties
    <3> HIDE DEF z
    <3>3. ASSUME NEW i \in 1 .. Len(r) - Len(p)
          PROVE  z[i] = r[Len(p) + i]
      <4>1. /\ i \in 1 .. Len(m) - (Len(q) + 1) + 1 /\ Len(q) + 1 + i - 1 = Len(q) + i
            /\ Len(q) + i \in 1 .. Len(m) /\ Len(q) + i > Len(q)
            /\ (Len(q) + i) - Len(q) + Len(p) = Len(p) + i
        BY <1>1, <1>3
      <4>2. z[i] = m[Len(q) + i]
        BY <3>2, <4>1
      <4>3. m[Len(q) + i] = r[(Len(q) + i) - Len(q) + Len(p)]
        BY <1>3, <4>1
      <4> QED
        BY <4>1, <4>2, <4>3
    <3> QED
      BY <1>1, <1>3, <3>2, <3>3
  <2> HIDE DEF z
  <2>2. /\ p \o z \in Seq(S) /\ Len(p \o z) = Len(p) + Len(z)
        /\ \A i \in 1 .. Len(p) + Len(z) : (p \o z)[i] = IF i <= Len(p) THEN p[i] ELSE z[i - Len(p)]
    BY <2>1, ConcatProperties
  <2>3. /\ Len(SubSeq(r, 1, Len(p))) = Len(p) /\ p = SubSeq(r, 1, Len(p))
        /\ \A i \in 1 .. Len(p) : SubSeq(r, 1, Len(p))[i] = r[i]
    <3>1. Len(p) \in 0 .. Len(r)
      BY <1>1
    <3> QED
      BY <3>1, Beginning, PrefixIs
  <2>4. ASSUME NEW i \in 1 .. Len(r) PROVE (p \o z)[i] = r[i]
    <3>1. CASE i <= Len(p)
      <4>1. i \in 1 .. Len(p) /\ i \in 1 .. Len(p) + Len(z)
        BY <1>1, <2>1, <3>1
      <4>2. p[i] = r[i]
        BY <2>3, <4>1
      <4> QED
        BY <2>2, <3>1, <4>1, <4>2
    <3>2. CASE i > Len(p)
      <4>1. /\ i - Len(p) \in 1 .. Len(r) - Len(p) /\ Len(p) + (i - Len(p)) = i
            /\ i \in 1 .. Len(p) + Len(z) /\ ~(i <= Len(p))
        BY <1>1, <2>1, <3>2
      <4> QED
        BY <2>1, <2>2, <4>1
    <3>3. i <= Len(p) \/ i > Len(p)
      BY <1>1
    <3> QED
      BY <3>1, <3>2, <3>3
  <2>5. Len(p \o z) = Len(r)
    BY <1>1, <2>1, <2>2
  <2>6. p \o z = r
    BY <2>2, <2>4, <2>5, SeqEqual
  <2> QED
    BY <2>6 DEF Moved, z
<1> QED
  BY <1>3, <1>4, <1>5 DEF m

\* A directory moves with everything under it, to a place that is not under it.
LEMMA MoveKeeps ==
  ASSUME NEW S, Good(tree, S), NEW p \in Seq(S), NEW q \in Seq(S),
         Move(p, q)
  PROVE  Good(tree', S)
<1> DEFINE M == {Moved(p, q, s) : s \in Under(p)}
<1>1. /\ DOMAIN tree \subseteq Seq(S) /\ <<>> \in DOMAIN tree /\ tree[<<>>].dir
      /\ \A r \in DOMAIN tree : \A k \in 0 .. Len(r) - 1 :
            SubSeq(r, 1, k) \in DOMAIN tree /\ tree[SubSeq(r, 1, k)].dir
  BY DEF Good, IsTree
<1>2. /\ p # <<>> /\ q # <<>> /\ Front(q) \in DOMAIN tree /\ tree[Front(q)].dir
      /\ ~IsPrefix(p, q) /\ q \notin DOMAIN tree
      /\ DOMAIN tree' = (DOMAIN tree \ Under(p)) \cup M
      /\ \A r \in DOMAIN tree' : tree'[r] = IF IsPrefix(q, r) THEN tree[Moved(q, p, r)] ELSE tree[r]
  BY DEF Move, HasPlace, IsDir, Exists
<1>3. Len(p) \in Nat \ {0} /\ Len(q) \in Nat \ {0}
  BY <1>2
<1>4. ASSUME NEW r \in DOMAIN tree PROVE ~IsPrefix(q, r)
  <2> SUFFICES ASSUME IsPrefix(q, r) PROVE FALSE
    OBVIOUS
  <2>1. r \in Seq(S) /\ Len(q) <= Len(r) /\ q = SubSeq(r, 1, Len(q))
    BY <1>1, PrefixIs
  <2>2. CASE Len(q) = Len(r)
    BY <1>2, <2>1, <2>2, SubSeqFull
  <2>3. CASE Len(q) < Len(r)
    <3>1. Len(q) \in 0 .. Len(r) - 1
      BY <1>3, <2>1, <2>3
    <3> QED
      BY <1>1, <1>2, <2>1, <3>1
  <2> QED
    BY <1>3, <2>1, <2>2, <2>3
<1>5. ASSUME NEW s \in Under(p)
      PROVE  /\ Moved(p, q, s) \in DOMAIN tree' /\ tree'[Moved(p, q, s)] = tree[s]
             /\ Moved(p, q, s) \in Seq(S)
  <2>1. s \in Seq(S) /\ IsPrefix(p, s)
    BY <1>1 DEF Under
  <2>2. IsPrefix(q, Moved(p, q, s)) /\ Moved(q, p, Moved(p, q, s)) = s /\ Moved(p, q, s) \in Seq(S)
    BY <2>1, MovedPath
  <2> QED
    BY <1>2, <2>2
<1>6. ASSUME NEW r \in DOMAIN tree \ Under(p)
      PROVE  r \in DOMAIN tree' /\ tree'[r] = tree[r]
  BY <1>2, <1>4
<1>7. ASSUME NEW r \in Seq(S), NEW k \in 0 .. Len(r), ~IsPrefix(p, r)
      PROVE  ~IsPrefix(p, SubSeq(r, 1, k))
  <2> SUFFICES ASSUME IsPrefix(p, SubSeq(r, 1, k)) PROVE FALSE
    OBVIOUS
  <2>1. SubSeq(r, 1, k) \in Seq(S) /\ Len(SubSeq(r, 1, k)) = k
    BY Beginning
  <2>2. Len(p) <= k /\ p = SubSeq(SubSeq(r, 1, k), 1, Len(p))
    BY <2>1, PrefixIs
  <2>3. Len(p) \in 0 .. k
    BY <1>3, <2>2
  <2>4. p = SubSeq(r, 1, Len(p)) /\ Len(p) <= Len(r)
    BY <2>2, <2>3, BeginningOfBeginning
  <2> QED
    BY <1>7, <2>4, PrefixIs
<1>8. ASSUME NEW r \in DOMAIN tree \ Under(p), NEW k \in 0 .. Len(r) - 1
      PROVE  SubSeq(r, 1, k) \in DOMAIN tree' /\ tree'[SubSeq(r, 1, k)].dir
  <2>1. SubSeq(r, 1, k) \in DOMAIN tree /\ tree[SubSeq(r, 1, k)].dir
    BY <1>1
  <2>2. r \in Seq(S) /\ ~IsPrefix(p, r) /\ k \in 0 .. Len(r)
    BY <1>1 DEF Under
  <2>3. SubSeq(r, 1, k) \notin Under(p)
    BY <1>7, <2>2 DEF Under
  <2> QED
    BY <1>6, <2>1, <2>3
<1>9. ASSUME NEW s \in Under(p), NEW k \in 0 .. Len(Moved(p, q, s)) - 1
      PROVE  SubSeq(Moved(p, q, s), 1, k) \in DOMAIN tree' /\ tree'[SubSeq(Moved(p, q, s), 1, k)].dir
  <2> DEFINE m == Moved(p, q, s)
  <2>1. s \in Seq(S) /\ s \in DOMAIN tree /\ IsPrefix(p, s) /\ Len(p) <= Len(s) /\ Len(s) \in Nat
        /\ p = SubSeq(s, 1, Len(p))
    BY <1>1, PrefixIs DEF Under
  <2>2. /\ m \in Seq(S) /\ Len(m) = Len(q) + Len(s) - Len(p)
        /\ \A i \in 1 .. Len(m) : m[i] = IF i <= Len(q) THEN q[i] ELSE s[i - Len(q) + Len(p)]
        /\ IsPrefix(q, m)
    BY <2>1, MovedPath
  <2> HIDE DEF m
  <2>3. CASE k < Len(q)
    <3>1. q = SubSeq(m, 1, Len(q)) /\ Len(q) \in 0 .. Len(m) /\ k \in 0 .. Len(q) - 1 /\ k \in 0 .. Len(q)
      BY <1>3, <1>9, <2>2, <2>3, PrefixIs
    <3>2. SubSeq(m, 1, k) = SubSeq(q, 1, k)
      BY <2>2, <3>1, BeginningOfBeginning
    <3>3. SubSeq(q, 1, k) \in DOMAIN tree /\ tree[SubSeq(q, 1, k)].dir
      <4>1. CASE k = Len(q) - 1
        BY <1>2, <4>1 DEF Front
      <4>2. CASE k < Len(q) - 1
        <5>1. Len(q) - 1 \in 0 .. Len(q) /\ k \in 0 .. Len(q) - 1
          BY <3>1
        <5>2. Len(Front(q)) = Len(q) - 1 /\ SubSeq(Front(q), 1, k) = SubSeq(q, 1, k)
          BY <5>1, Beginning, BeginningOfBeginning DEF Front
        <5>3. k \in 0 .. Len(Front(q)) - 1
          BY <3>1, <4>2, <5>2
        <5> QED
          BY <1>1, <1>2, <5>2, <5>3
      <4>3. k = Len(q) - 1 \/ k < Len(q) - 1
        BY <1>3, <3>1, LastOrBefore
      <4> QED
        BY <4>1, <4>2, <4>3
    <3>4. SubSeq(q, 1, k) \notin Under(p)
      BY <1>2, <1>7, <3>1 DEF Under
    <3> QED
      BY <1>6, <3>2, <3>3, <3>4 DEF m
  <2>4. CASE k >= Len(q)
    <3> DEFINE j == Len(p) + k - Len(q)
               b == SubSeq(s, 1, j)
    <3>1. k \in Nat /\ k < Len(m) /\ j \in Nat /\ Len(p) <= j /\ j < Len(s)
      BY <1>3, <1>9, <2>1, <2>2, <2>4 DEF m
    <3>2. j \in 0 .. Len(s) - 1 /\ j \in 0 .. Len(s) /\ Len(p) \in 0 .. j
      BY <1>3, <2>1, <3>1
    <3>3. b \in DOMAIN tree /\ tree[b].dir
      BY <1>1, <2>1, <3>2
    <3>4. b \in Seq(S) /\ Len(b) = j /\ \A i \in 1 .. j : b[i] = s[i]
      BY <2>1, <3>2, Beginning
    <3>5. p = SubSeq(b, 1, Len(p))
      BY <2>1, <3>2, BeginningOfBeginning
    <3>6. IsPrefix(p, b)
      BY <3>1, <3>4, <3>5, PrefixIs
    <3>7. b \in Under(p)
      BY <3>3, <3>6 DEF Under
    <3>14. b \in Seq(S) /\ IsPrefix(p, b)
      BY <3>4, <3>6
    <3> DEFINE c == Moved(p, q, b)
    <3> HIDE DEF b
    <3>8. /\ c \in Seq(S) /\ Len(c) = Len(q) + Len(b) - Len(p)
          /\ \A i \in 1 .. Len(c) : c[i] = IF i <= Len(q) THEN q[i] ELSE b[i - Len(q) + Len(p)]
      BY <3>14, MovedPath
    <3>9. c \in DOMAIN tree' /\ tree'[c] = tree[b]
      BY <1>5, <3>7
    <3> HIDE DEF c
    <3>10. Len(c) = k
      BY <1>3, <3>1, <3>4, <3>8
    <3>11. /\ SubSeq(m, 1, k) \in Seq(S) /\ Len(SubSeq(m, 1, k)) = k
           /\ \A i \in 1 .. k : SubSeq(m, 1, k)[i] = m[i]
      <4>1. k \in 0 .. Len(m)
        BY <3>1
      <4> QED
        BY <2>2, <4>1, Beginning
    <3>12. ASSUME NEW i \in 1 .. k PROVE c[i] = SubSeq(m, 1, k)[i]
      <4>1. i \in 1 .. Len(m) /\ i \in 1 .. Len(c)
        BY <2>2, <3>1, <3>10
      <4>2. CASE i <= Len(q)
        BY <2>2, <3>8, <3>11, <4>1, <4>2
      <4>3. CASE i > Len(q)
        <5>1. i - Len(q) + Len(p) \in 1 .. j
          BY <1>3, <3>1, <3>12, <4>3
        <5>2. b[i - Len(q) + Len(p)] = s[i - Len(q) + Len(p)]
          BY <3>4, <5>1
        <5>3. ~(i <= Len(q))
          BY <1>3, <4>3
        <5> QED
          BY <2>2, <3>8, <3>11, <4>1, <5>2, <5>3
      <4> QED
        BY <1>3, <4>2, <4>3
    <3>13. c = SubSeq(m, 1, k)
      BY <3>8, <3>10, <3>11, <3>12, SeqEqual
    <3> QED
      BY <3>3, <3>9, <3>13 DEF m
  <2> QED
    BY <1>3, <1>9, <2>3, <2>4
<1>10. DOMAIN tree' \subseteq Seq(S)
  BY <1>1, <1>2, <1>5
<1>11. <<>> \in DOMAIN tree' /\ tree'[<<>>].dir
  <2>1. ~IsPrefix(p, <<>>)
    BY <1>3 DEF IsPrefix
  <2>2. <<>> \in DOMAIN tree \ Under(p)
    BY <1>1, <2>1 DEF Under
  <2> QED
    BY <1>1, <1>6, <2>2
<1>12. ASSUME NEW r \in DOMAIN tree', NEW k \in 0 .. Len(r) - 1
       PROVE  SubSeq(r, 1, k) \in DOMAIN tree' /\ tree'[SubSeq(r, 1, k)].dir
  <2>1. CASE r \in DOMAIN tree \ Under(p)
    BY <1>8, <2>1
  <2>2. CASE r \in M
    BY <1>9, <2>2
  <2> QED
    BY <1>2, <2>1, <2>2
<1> QED
  BY <1>10, <1>11, <1>12 DEF Good, IsTree

\* What a command that stores a file finds at its path.
LEMMA PutKeeps ==
  ASSUME NEW S, Good(tree, S), NEW p \in Seq(S), NEW old, NEW d, Put(p, old, d)
  PROVE  Good(tree', S)
<1>1. p # <<>> /\ Front(p) \in DOMAIN tree /\ tree[Front(p)].dir
  BY DEF Put, HasPlace, IsDir, Exists
<1>2. ~(p \in DOMAIN tree /\ tree[p].dir)
  BY DEF Put, IsDir, Exists
<1>3. PICK n : tree' = Placed(tree, p, n)
  BY DEF Put, With, Placed
<1>4. Good(Placed(tree, p, n), S)
  BY <1>1, <1>2, WithKeeps
<1> QED
  BY <1>3, <1>4

\* Every step keeps the tree, and the tree there was before the command that
\* may not be on the disk.
LEMMA TreeStep ==
  ASSUME NEW S, Paths \subseteq Seq(S), Good(tree, S), Good(durable, S), [Next]_vars
  PROVE  Good(tree, S)' /\ Good(durable, S)'
<1>1. ASSUME NEW p \in Paths, Mkdir(p) \/ Touch(p)
      PROVE  Good(tree', S) /\ Command
  <2>1. /\ p # <<>> /\ Front(p) \in DOMAIN tree /\ tree[Front(p)].dir /\ p \notin DOMAIN tree
    BY <1>1 DEF Mkdir, Touch, HasPlace, IsDir, Exists
  <2>2. PICK n : tree' = Placed(tree, p, n)
    BY <1>1 DEF Mkdir, Touch, With, Placed
  <2>3. Good(Placed(tree, p, n), S)
    BY <2>1, WithKeeps
  <2> QED
    BY <1>1, <2>2, <2>3 DEF Mkdir, Touch
<1>2. ASSUME NEW p \in Paths, Delete(p)
      PROVE  Good(tree', S) /\ Command
  BY <1>2, WithoutKeeps DEF Delete
<1>3. ASSUME NEW p \in Paths, NEW old, NEW d, Put(p, old, d)
      PROVE  Good(tree', S) /\ Command
  BY <1>3, PutKeeps DEF Put
<1>4. ASSUME NEW p \in Paths, NEW q \in Paths, Move(p, q)
      PROVE  Good(tree', S) /\ Command
  BY <1>4, MoveKeeps DEF Move
<1>5. ASSUME Good(tree', S), Command
      PROVE  Good(tree, S)' /\ Good(durable, S)'
  BY <1>5 DEF Command, Good, IsTree
<1>6. CASE Reach \/ UNCHANGED vars
  BY <1>6 DEF Reach, vars, Good, IsTree
<1>7. CASE PowerFails
  <2>1. CASE tree' \in {tree, durable}
    BY <1>7, <2>1 DEF PowerFails, Good, IsTree
  <2>2. ASSUME NEW p \in Paths, Halfway(p),
               tree' = Placed(durable, p, FileNode(<<>>))
        PROVE  Good(tree', S)
    <3>1. Good(Placed(durable, p, FileNode(<<>>)), S)
      BY <2>2, WithKeeps DEF Halfway
    <3> QED
      BY <2>2, <3>1
  <2>3. Good(tree', S)
    BY <1>7, <2>1, <2>2 DEF PowerFails, Placed
  <2> QED
    BY <1>7, <2>3 DEF PowerFails, Good, IsTree
<1> QED
  BY <1>1, <1>2, <1>3, <1>4, <1>5, <1>6, <1>7 DEF Next, Write, AppendTo, Copy

\* If the disk holds a tree to begin with, no sequence of commands and power
\* failures leaves a node without its directory, in memory or on the disk
\* (cmd_mkdir ... cmd_mv over FatFs, through the refinements of Shell and Volume).
THEOREM TreeStaysATree ==
  ASSUME NEW S, Paths \subseteq Seq(S), \A t \in Trees : Good(t, S)
  PROVE  Spec => []TreeOK
<1> DEFINE Inv == Good(tree, S) /\ Good(durable, S)
<1>1. Init => Inv
  BY DEF Init
<1>2. Inv /\ [Next]_vars => Inv'
  BY TreeStep
<1>3. Inv => TreeOK
  BY DEF Good, TreeOK
<1> HIDE DEF Inv
<1> QED
  BY <1>1, <1>2, <1>3, PTL DEF Spec
=============================================================================
