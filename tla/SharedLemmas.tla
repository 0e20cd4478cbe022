---------------------------- MODULE SharedLemmas ----------------------------
(***************************************************************************)
(* What the proofs of several modules rest on: induction over the natural  *)
(* numbers and over folds, least and greatest elements, lists put together *)
(* or turned round, what one turn of the loops of SocketCalls does to the  *)
(* record of a call, and what the operators of IntArith compute, by        *)
(* induction over the bits.                                                *)
(***************************************************************************)
EXTENDS IntArith, SocketCalls, SequencesExt, SequenceTheorems, FiniteSetTheorems, FunctionTheorems,
        TLAPS

(* A set that holds 0 and with every number its successor holds every number. *)
(* The induction is over a set, which the provers can be given, and not over  *)
(* an operator.                                                               *)
LEMMA SetInduction ==
  ASSUME NEW P, 0 \in P, \A n \in Nat : n \in P => n + 1 \in P
  PROVE  Nat \subseteq P
  <1>. SUFFICES ASSUME NEW m \in Nat, m \notin P
                PROVE  FALSE
    OBVIOUS
  <1>. DEFINE Q == (0 .. m) \ P
              f == [x \in Q |-> x - 1]
  <1>1. IsFiniteSet(Q)
    <2>1. IsFiniteSet(0 .. m)
      BY FS_Interval
    <2>. QED
      BY <2>1, FS_Difference
  <1>2. m \in Q
    OBVIOUS
  <1>3. \A x \in Q : x - 1 \in Q \ {m}
    OBVIOUS
  <1>4. f \in Injection(Q, Q \ {m})
    BY <1>3, Fun_IsInj
  <1>5. /\ IsFiniteSet(Q \ {m})
        /\ Cardinality(Q \ {m}) = Cardinality(Q) - 1
    BY <1>1, <1>2, FS_RemoveElement
  <1>6. Cardinality(Q) <= Cardinality(Q \ {m})
    BY <1>4, <1>5, FS_Injection
  <1>7. Cardinality(Q) \in Nat
    BY <1>1, FS_CardinalityType
  <1>. QED
    BY <1>5, <1>6, <1>7

-----------------------------------------------------------------------------
(* A fold picks the elements of a finite set one by one: step[<<v, x>>] is what *)
(* it has once x comes to v.  The function it is defined by exists.             *)
Foldable(D, V, base, pick, step) ==
  /\ IsFiniteSet(D) /\ base \in V /\ step \in [V \X D -> V]
  /\ \A s \in SUBSET D : s # {} => pick[s] \in s

IsFold(f, D, V, base, pick, step) ==
  /\ f \in [SUBSET D -> V]
  /\ \A s \in SUBSET D : f[s] = IF s = {} THEN base ELSE step[<<f[s \ {pick[s]}], pick[s]>>]

HasFold(D, V, base, pick, step) == \E f : IsFold(f, D, V, base, pick, step)

(* The recursive function that a fold is defined by exists. *)
LEMMA FoldExists ==
  ASSUME NEW D, NEW V, NEW base, NEW pick, NEW step, Foldable(D, V, base, pick, step)
  PROVE  HasFold(D, V, base, pick, step)
  <1>. USE DEF Foldable
  <1>. DEFINE Small(n) == {s \in SUBSET D : Cardinality(s) <= n}
              Folds(f, n) == /\ f \in [Small(n) -> V]
                             /\ \A s \in Small(n) :
                                  f[s] = IF s = {} THEN base ELSE step[<<f[s \ {pick[s]}], pick[s]>>]
              P == {n \in Nat : \E f : Folds(f, n)}
  <1>1. \A s \in SUBSET D : IsFiniteSet(s) /\ Cardinality(s) \in Nat /\ Cardinality(s) <= Cardinality(D)
    BY FS_Subset, FS_CardinalityType
  <1>2. \A s \in SUBSET D : (Cardinality(s) = 0) = (s = {})
    BY <1>1, FS_EmptySet
  <1>3. \A s \in SUBSET D : s # {} =>
          /\ pick[s] \in D /\ s \ {pick[s]} \in SUBSET D
          /\ Cardinality(s \ {pick[s]}) = Cardinality(s) - 1
    BY <1>1, FS_RemoveElement
  <1>4. 0 \in P
    <2>. DEFINE f == [s \in Small(0) |-> base]
    <2>1. \A s \in Small(0) : s = {}
      BY <1>1, <1>2
    <2>2. Folds(f, 0)
      BY <2>1
    <2>. HIDE DEF Folds
    <2>. QED
      BY <2>2
  <1>5. ASSUME NEW n \in Nat, n \in P PROVE n + 1 \in P
    <2>1. PICK f : Folds(f, n)
      BY <1>5
    <2>. DEFINE Next(s) == IF s = {} THEN base ELSE step[<<f[s \ {pick[s]}], pick[s]>>]
                g == [s \in Small(n + 1) |-> Next(s)]
    <2>2. ASSUME NEW s \in Small(n + 1), s # {}
          PROVE  s \ {pick[s]} \in Small(n) /\ pick[s] \in D
      BY <1>1, <1>3, <2>2
    <2>3. \A s \in Small(n + 1) : Next(s) \in V
      BY <2>1, <2>2
    <2>4. \A s \in Small(n) : s \in Small(n + 1) /\ f[s] = Next(s)
      BY <1>1, <2>1
    <2>. HIDE DEF Next
    <2>5. g \in [Small(n + 1) -> V] /\ \A s \in Small(n) : g[s] = f[s]
      BY <2>3, <2>4
    <2>6. \A s \in Small(n + 1) : g[s] = IF s = {} THEN base ELSE step[<<g[s \ {pick[s]}], pick[s]>>]
      BY <2>2, <2>5 DEF Next
    <2>7. Folds(g, n + 1)
      BY <2>5, <2>6, Zenon
    <2>. HIDE DEF Folds
    <2>. QED
      BY <2>7
  <1>6. Nat \subseteq P
    <2>. HIDE DEF P
    <2>. QED
      BY <1>4, <1>5, SetInduction
  <1>7. Cardinality(D) \in P
    BY <1>1, <1>6
  <1>8. Small(Cardinality(D)) = SUBSET D
    BY <1>1
  <1>9. PICK f : Folds(f, Cardinality(D))
    BY <1>7
  <1>. QED
    BY <1>8, <1>9 DEF HasFold, IsFold

(* What holds of the fold of no elements, and of that of a set if it holds of *)
(* that of the set without the element picked, holds of every fold.           *)
Kept(D, pick, Good) ==
  /\ IsFiniteSet(D) /\ \A s \in SUBSET D : s # {} => pick[s] \in s
  /\ {} \in Good
  /\ \A s \in SUBSET D : s # {} /\ s \ {pick[s]} \in Good => s \in Good

(* If {} is good, and every set that is good without its picked element, then all *)
(* of D is good.                                                                  *)
LEMMA FoldKeeps ==
  ASSUME NEW D, NEW pick, NEW Good, Kept(D, pick, Good)
  PROVE  D \in Good
  <1>. USE DEF Kept
  <1>. DEFINE P == {n \in Nat : \A s \in SUBSET D : Cardinality(s) = n => s \in Good}
  <1>1. \A s \in SUBSET D : IsFiniteSet(s) /\ Cardinality(s) \in Nat
    BY FS_Subset, FS_CardinalityType
  <1>2. 0 \in P
    BY <1>1, FS_EmptySet
  <1>3. ASSUME NEW n \in Nat, n \in P PROVE n + 1 \in P
    <2>1. ASSUME NEW s \in SUBSET D, Cardinality(s) = n + 1 PROVE s \in Good
      <3>1. s # {}
        <4>1. Cardinality({}) = 0
          BY FS_EmptySet
        <4>2. n + 1 # 0
          OBVIOUS
        <4>. QED
          BY <2>1, <4>1, <4>2, Zenon
      <3>2. s \ {pick[s]} \in SUBSET D /\ Cardinality(s \ {pick[s]}) = n
        <4>1. IsFiniteSet(s) /\ pick[s] \in s
          BY <1>1, <3>1
        <4>2. Cardinality(s \ {pick[s]}) = Cardinality(s) - 1
          BY <4>1, FS_RemoveElement
        <4>. QED
          BY <2>1, <4>2
      <3>. QED
        BY <1>3, <3>1, <3>2
    <2>. QED
      BY <2>1
  <1>4. Nat \subseteq P
    <2>. HIDE DEF P
    <2>. QED
      BY <1>2, <1>3, SetInduction
  <1>. QED
    BY <1>1, <1>4

-----------------------------------------------------------------------------
(* The number picked first by a fold over a sequence is the greatest. *)
LEMMA GreatestExists ==
  ASSUME NEW n \in Nat, NEW s \in SUBSET (1 .. n), s # {}
  PROVE  Max(s) \in s /\ \A y \in s : Max(s) >= y
  <1>. DEFINE P == {m \in Nat : \A t \in SUBSET (1 .. m) : t # {} => \E x \in t : \A y \in t : x >= y}
  <1>1. 0 \in P
    <2>1. 1 .. 0 = {}
      OBVIOUS
    <2>. QED
      BY <2>1
  <1>2. ASSUME NEW m \in Nat, m \in P PROVE m + 1 \in P
    <2>1. ASSUME NEW t \in SUBSET (1 .. m + 1), t # {} PROVE \E x \in t : \A y \in t : x >= y
      <3>1. CASE m + 1 \in t
        BY <3>1
      <3>2. CASE m + 1 \notin t
        <4>1. t \in SUBSET (1 .. m)
          BY <3>2
        <4>. QED
          BY <1>2, <2>1, <4>1
      <3>. QED
        BY <3>1, <3>2
    <2>. QED
      BY <2>1
  <1>3. Nat \subseteq P
    <2>. HIDE DEF P
    <2>. QED
      BY <1>1, <1>2, SetInduction
  <1>4. \E x \in s : \A y \in s : x >= y
    BY <1>3
  <1>. QED
    BY <1>4, Zenon DEF Max

-----------------------------------------------------------------------------
Greatest(D) == [s \in SUBSET D |-> Max(s)]

Picks(D) ==
  /\ IsFiniteSet(D)
  /\ \A s \in SUBSET D : Greatest(D)[s] = Max(s) /\ (s # {} => Greatest(D)[s] \in s)
  /\ \A s \in SUBSET D : s # {} => Max(s) \in D /\ s \ {Max(s)} \in SUBSET D

(* Max picks an element of every set of positions. *)
LEMMA GreatestPicks ==
  ASSUME NEW n \in Nat
  PROVE  Picks(1 .. n)
  <1>1. IsFiniteSet(1 .. n)
    BY FS_Interval
  <1>2. \A s \in SUBSET (1 .. n) : s # {} => Max(s) \in s
    BY GreatestExists
  <1>. QED
    BY <1>1, <1>2 DEF Greatest, Picks

(* The least position of a set of positions. *)
LEMMA LeastExists ==
  ASSUME NEW n \in Nat, NEW s \in SUBSET (1 .. n), s # {}
  PROVE  Min(s) \in s /\ \A y \in s : Min(s) <= y
  <1>. DEFINE t == {n + 1 - x : x \in s}
  <1>1. t \in SUBSET (1 .. n) /\ t # {}
    <2>1. \A x \in s : n + 1 - x \in 1 .. n
      OBVIOUS
    <2>2. PICK x \in s : TRUE
      OBVIOUS
    <2>3. n + 1 - x \in t
      OBVIOUS
    <2>. QED
      BY <2>1, <2>3
  <1>2. Max(t) \in t /\ \A y \in t : Max(t) >= y
    BY <1>1, GreatestExists
  <1>3. PICK x \in s : Max(t) = n + 1 - x
    BY <1>2
  <1>4. \A y \in s : x <= y
    <2>1. ASSUME NEW y \in s PROVE x <= y
      <3>1. n + 1 - y \in t
        OBVIOUS
      <3>2. n + 1 - x >= n + 1 - y
        BY <1>2, <1>3, <3>1
      <3>. QED
        BY <3>2
    <2>. QED
      BY <2>1
  <1>. QED
    BY <1>4, Zenon DEF Min

(* The function that puts the lists of a list in a row, one after the other. *)
LEMMA FlattenExists ==
  ASSUME NEW S, NEW seqs \in Seq(Seq(S))
  PROVE  \E f : f = [i \in 1 .. Len(seqs) |-> IF i = 1 THEN seqs[i] ELSE f[i - 1] \o seqs[i]]
  <1>. DEFINE n == Len(seqs)
              F(f, m) == [i \in 1 .. m |-> IF i = 1 THEN seqs[i] ELSE f[i - 1] \o seqs[i]]
              Flat(m) == \E f \in [1 .. m -> Seq(S)] : f = F(f, m)
              P == {m \in Nat : m <= n => Flat(m)}
  <1>0. n \in Nat /\ \A i \in 1 .. n : seqs[i] \in Seq(S)
    BY LenProperties, ElementOfSeq
  <1>. HIDE DEF n
  <1>1. ASSUME NEW a \in Seq(S), NEW b \in Seq(S) PROVE a \o b \in Seq(S)
    BY ConcatProperties
  <1>2. 0 \in P
    <2>. DEFINE f == [i \in 1 .. 0 |-> << >>]
    <2>1. f \in [1 .. 0 -> Seq(S)] /\ f = F(f, 0)
      OBVIOUS
    <2>. HIDE DEF F, f
    <2>2. Flat(0)
      BY <2>1
    <2>. HIDE DEF Flat
    <2>. QED
      BY <2>2
  <1>3. ASSUME NEW m \in Nat, m \in P PROVE m + 1 \in P
    <2>1. ASSUME m + 1 <= n PROVE Flat(m + 1)
      <3>0. Flat(m)
        <4>. HIDE DEF Flat
        <4>. QED
          BY <1>0, <1>3, <2>1
      <3>1. PICK e \in [1 .. m -> Seq(S)] : e = F(e, m)
        BY <3>0, Zenon
      <3>. DEFINE new == IF m = 0 THEN seqs[1] ELSE e[m] \o seqs[m + 1]
                  f == [i \in 1 .. m + 1 |-> IF i = m + 1 THEN new ELSE e[i]]
      <3>2. new \in Seq(S)
        BY <1>0, <1>1, <2>1
      <3>. HIDE DEF new
      <3>3. f \in [1 .. m + 1 -> Seq(S)]
        BY <3>2
      <3>4. ASSUME NEW i \in 1 .. m + 1
            PROVE  f[i] = IF i = 1 THEN seqs[i] ELSE f[i - 1] \o seqs[i]
        <4>1. CASE i = m + 1
          BY <4>1 DEF new
        <4>2. CASE i # m + 1
          <5>1. i \in 1 .. m /\ f[i] = e[i] /\ (i # 1 => i - 1 \in 1 .. m /\ f[i - 1] = e[i - 1])
            BY <4>2
          <5>2. e[i] = IF i = 1 THEN seqs[i] ELSE e[i - 1] \o seqs[i]
            BY <3>1, <5>1
          <5>. QED
            BY <5>1, <5>2
        <4>. QED
          BY <4>1, <4>2
      <3>5. f = F(f, m + 1)
        <4>1. f = [i \in 1 .. m + 1 |-> f[i]]
          BY <3>3
        <4>. HIDE DEF f
        <4>. QED
          BY <3>4, <4>1, Zenon
      <3>. HIDE DEF f
      <3>. QED
        BY <3>3, <3>5, Zenon
    <2>. HIDE DEF Flat
    <2>. QED
      BY <2>1
  <1>4. Nat \subseteq P
    <2>. HIDE DEF P
    <2>. QED
      BY <1>2, <1>3, SetInduction
  <1>5. \E f : f = F(f, n)
    <2>1. Flat(n)
      <3>. HIDE DEF Flat
      <3>. QED
        BY <1>0, <1>4
    <2>. QED
      BY <2>1, Zenon
  <1>. QED
    BY <1>5 DEF n

Together(flat, seqs, S) ==
  /\ flat \in Seq(S)
  /\ \A x \in S : (\E i \in DOMAIN flat : flat[i] = x)
                   <=> (\E k \in DOMAIN seqs : \E i \in DOMAIN seqs[k] : seqs[k][i] = x)

(* Lists of one type make a list of that type when put in a row, which holds *)
(* what they hold.                                                           *)
LEMMA FlattenElements ==
  ASSUME NEW S, NEW seqs \in Seq(Seq(S))
  PROVE  Together(FlattenSeq(seqs), seqs, S)
  <1>. DEFINE n == Len(seqs)
              F(f, m) == [i \in 1 .. m |-> IF i = 1 THEN seqs[i] ELSE f[i - 1] \o seqs[i]]
              g == CHOOSE f : f = F(f, n)
              In(s, x) == \E i \in DOMAIN s : s[i] = x
              Q(f) == {m \in Nat : 1 <= m /\ m <= n =>
                         /\ f[m] \in Seq(S)
                         /\ \A x \in S : In(f[m], x) <=> \E k \in 1 .. m : In(seqs[k], x)}
  <1>0. n \in Nat /\ (\A i \in 1 .. n : seqs[i] \in Seq(S)) /\ DOMAIN seqs = 1 .. n
    BY LenProperties, ElementOfSeq
  <1>1. FlattenSeq(seqs) = IF n = 0 THEN seqs ELSE g[n]
    BY Zenon DEF FlattenSeq
  <1>. HIDE DEF n
  <1>2. \E f : f = F(f, n)
    BY <1>0, FlattenExists DEF n
  <1>3. g = F(g, n)
    BY <1>2, Zenon
  <1>4. ASSUME NEW a \in Seq(S), NEW b \in Seq(S), NEW x
        PROVE  a \o b \in Seq(S) /\ (In(a \o b, x) <=> In(a, x) \/ In(b, x))
    <2>. DEFINE c == a \o b
    <2>1. /\ Len(a) \in Nat /\ Len(b) \in Nat /\ DOMAIN a = 1 .. Len(a) /\ DOMAIN b = 1 .. Len(b)
          /\ c \in Seq(S) /\ DOMAIN c = 1 .. Len(a) + Len(b)
          /\ \A i \in 1 .. Len(a) + Len(b) : c[i] = IF i <= Len(a) THEN a[i] ELSE b[i - Len(a)]
      BY ConcatProperties, LenProperties
    <2>. HIDE DEF c
    <2>2. ASSUME NEW i \in DOMAIN c, c[i] = x PROVE In(a, x) \/ In(b, x)
      <3>1. CASE i <= Len(a)
        <4>1. i \in DOMAIN a /\ a[i] = x
          BY <2>1, <2>2, <3>1
        <4>. QED
          BY <4>1
      <3>2. CASE ~(i <= Len(a))
        <4>1. i - Len(a) \in DOMAIN b /\ b[i - Len(a)] = x
          BY <2>1, <2>2, <3>2
        <4>. QED
          BY <4>1
      <3>. QED
        BY <3>1, <3>2
    <2>3. ASSUME NEW i \in DOMAIN a, a[i] = x PROVE In(c, x)
      <3>1. i \in DOMAIN c /\ c[i] = x
        BY <2>1, <2>3
      <3>. QED
        BY <3>1
    <2>4. ASSUME NEW i \in DOMAIN b, b[i] = x PROVE In(c, x)
      <3>1. i + Len(a) \in DOMAIN c /\ c[i + Len(a)] = x
        BY <2>1, <2>4
      <3>. QED
        BY <3>1
    <2>5. In(c, x) <=> In(a, x) \/ In(b, x)
      BY <2>2, <2>3, <2>4
    <2>. QED
      BY <2>1, <2>5 DEF c
  <1>. HIDE DEF g, In
  <1>5. Nat \subseteq Q(g)
    <2>1. 0 \in Q(g)
      OBVIOUS
    <2>2. ASSUME NEW m \in Nat, m \in Q(g) PROVE m + 1 \in Q(g)
      <3>1. ASSUME m + 1 <= n
            PROVE  /\ g[m + 1] \in Seq(S)
                   /\ \A x \in S : In(g[m + 1], x) <=> \E k \in 1 .. m + 1 : In(seqs[k], x)
        <4>1. m + 1 \in 1 .. n /\ (m + 1) - 1 = m /\ 1 .. m + 1 = (1 .. m) \cup {m + 1}
          BY <1>0, <3>1
        <4>2. g[m + 1] = IF m + 1 = 1 THEN seqs[m + 1] ELSE g[m] \o seqs[m + 1]
          BY <1>3, <4>1
        <4>3. CASE m = 0
          <5>1. g[m + 1] = seqs[m + 1] /\ 1 .. m = {}
            BY <4>2, <4>3
          <5>. QED
            BY <1>0, <4>1, <5>1
        <4>4. CASE m # 0
          <5>1. /\ g[m] \in Seq(S)
                /\ \A x \in S : In(g[m], x) <=> \E k \in 1 .. m : In(seqs[k], x)
            BY <1>0, <2>2, <3>1, <4>4
          <5>2. g[m + 1] = g[m] \o seqs[m + 1] /\ seqs[m + 1] \in Seq(S)
            <6>1. m + 1 # 1
              BY <4>4
            <6>2. seqs[m + 1] \in Seq(S)
              BY <1>0, <4>1
            <6>. QED
              BY <4>2, <6>1, <6>2, Zenon
          <5>3. g[m + 1] \in Seq(S)
            BY <1>4, <5>1, <5>2
          <5>4. ASSUME NEW x \in S PROVE In(g[m + 1], x) <=> \E k \in 1 .. m + 1 : In(seqs[k], x)
            <6>1. In(g[m + 1], x) <=> In(g[m], x) \/ In(seqs[m + 1], x)
              BY <1>4, <5>1, <5>2
            <6>2. (\E k \in 1 .. m + 1 : In(seqs[k], x)) <=> (\E k \in 1 .. m : In(seqs[k], x)) \/ In(seqs[m + 1], x)
              BY <4>1
            <6>. QED
              BY <5>1, <6>1, <6>2
          <5>. QED
            BY <5>3, <5>4
        <4>. QED
          BY <4>3, <4>4
      <3>. QED
        BY <3>1
    <2>. HIDE DEF Q
    <2>. QED
      BY <2>1, <2>2, SetInduction
  <1>6. CASE n = 0
    <2>1. FlattenSeq(seqs) = seqs /\ seqs = << >> /\ DOMAIN seqs = {}
      BY <1>0, <1>1, <1>6, EmptySeq DEF n
    <2>. QED
      BY <2>1, EmptySeq DEF Together
  <1>7. CASE n # 0
    <2>1. FlattenSeq(seqs) = g[n]
      BY <1>1, <1>7
    <2>2. /\ g[n] \in Seq(S)
          /\ \A x \in S : In(g[n], x) <=> \E k \in 1 .. n : In(seqs[k], x)
      BY <1>0, <1>5, <1>7
    <2>. QED
      BY <1>0, <2>1, <2>2 DEF In, Together
  <1>. QED
    BY <1>6, <1>7

(* The same, of the type alone. *)
LEMMA FlattenTyped ==
  ASSUME NEW S, NEW seqs \in Seq(Seq(S))
  PROVE  FlattenSeq(seqs) \in Seq(S)
  BY FlattenElements DEF Together

(* A list backwards is a list of the same length and type. *)
LEMMA ReverseTyped ==
  ASSUME NEW S, NEW s \in Seq(S)
  PROVE  /\ Reverse(s) \in Seq(S) /\ DOMAIN Reverse(s) = 1 .. Len(s) /\ Len(s) \in Nat
         /\ Len(Reverse(s)) = Len(s)
  <1>1. Len(s) \in Nat /\ \A i \in 1 .. Len(s) : s[(Len(s) - i) + 1] \in S
    BY LenProperties, ElementOfSeq
  <1>2. Reverse(s) \in [1 .. Len(s) -> S]
    BY <1>1 DEF Reverse
  <1>3. Reverse(s) \in Seq(S)
    BY <1>1, <1>2, SeqDef
  <1>4. DOMAIN Reverse(s) = 1 .. Len(s) /\ DOMAIN Reverse(s) = 1 .. Len(Reverse(s)) /\ Len(Reverse(s)) \in Nat
    BY <1>2, <1>3, LenProperties
  <1>. QED
    BY <1>1, <1>3, <1>4

-----------------------------------------------------------------------------
(* The record that a socket_send starts with, and its type. *)
LEMMA SendCallProperties ==
  /\ \A n \in Nat : /\ SendCall(n) \in SendCalls
                    /\ SendCall(n).size = n /\ SendCall(n).sent = 0 /\ SendCall(n).valid
  /\ \A c \in SendCalls : c.size \in Nat /\ c.sent \in Nat /\ c.valid \in BOOLEAN
  BY DEF SendCall, SendCalls

(* One turn of socket_send, by the answer of send(). *)
LEMMA SendStepProperties ==
  ASSUME NEW c \in SendCalls, NEW s \in Int
  PROVE  /\ SendStep(c, s) \in SendCalls
         /\ SendStep(c, s).size = c.size
         /\ s <= 0 => SendStep(c, s).sent = c.sent
         /\ s > 0 => SendStep(c, s).sent = c.sent + s
         /\ s > 0 /\ c.valid => SendStep(c, s).valid
  <1>1. CASE s <= 0
    <2>1. SendStep(c, s) = [c EXCEPT !.valid = FALSE]
      BY <1>1 DEF SendStep
    <2>2. SendStep(c, s) = [size |-> c.size, sent |-> c.sent, valid |-> FALSE]
      BY <2>1 DEF SendCalls
    <2>3. c.size \in Nat /\ c.sent \in Nat /\ FALSE \in BOOLEAN
      BY DEF SendCalls
    <2>4. SendStep(c, s) \in SendCalls
      BY <2>2, <2>3 DEF SendCalls
    <2>. QED BY <1>1, <2>2, <2>4
  <1>2. CASE ~(s <= 0)
    <2>1. SendStep(c, s) = [c EXCEPT !.sent = c.sent + s]
      BY <1>2 DEF SendStep
    <2>2. c.sent + s \in Nat
      BY <1>2 DEF SendCalls
    <2>. QED BY <1>2, <2>1, <2>2 DEF SendCalls
  <1>. QED BY <1>1, <1>2

(* The record that a socket_recv starts with, and its type. *)
LEMMA RecvCallProperties ==
  /\ \A n \in Nat :
       /\ RecvCall(n) \in RecvCalls
       /\ RecvCall(n).chunk = n /\ RecvCall(n).received = 0 /\ RecvCall(n).s = 0
       /\ RecvCall(n).result /\ (n > 0 => RecvLooping(RecvCall(n)))
  /\ \A c \in RecvCalls :
       c.chunk \in Nat /\ c.received \in Nat /\ c.s \in Nat /\ c.result \in BOOLEAN
  BY DEF RecvCall, RecvCalls, RecvLooping

(* One turn of the loop of socket_recv.  The answer is equal to the one before: *)
(* the loop ends and nothing is counted.                                        *)
LEMMA RecvRepeated ==
  ASSUME NEW c \in RecvCalls, NEW n, n = c.s, NEW d, d = RecvStep(c, n)
  PROVE  /\ d \in RecvCalls /\ d.chunk = c.chunk /\ d.received = c.received
         /\ d.s = c.s /\ d.result = c.result /\ ~RecvLooping(d)
  <1>1. d = [c EXCEPT !.finished = TRUE]
    BY DEF RecvStep
  <1>. QED BY <1>1 DEF RecvCalls, RecvLooping

(* n new bytes. *)
LEMMA RecvCounted ==
  ASSUME NEW c \in RecvCalls, NEW n \in Nat, n # c.s, n > 0, NEW d, d = RecvStep(c, n)
  PROVE  /\ d \in RecvCalls /\ d.chunk = c.chunk /\ d.received = c.received + n
         /\ d.s = n /\ d.result = c.result
  <1>1. c.received + n \in Nat
    BY RecvCallProperties
  <1>2. d = [c EXCEPT !.s = n, !.received = c.received + n]
    BY DEF RecvStep
  <1>. QED BY <1>1, <1>2 DEF RecvCalls

(* The end of the stream. *)
LEMMA RecvClosed ==
  ASSUME NEW c \in RecvCalls, c.s # 0, NEW d, d = RecvStep(c, 0)
  PROVE  /\ d \in RecvCalls /\ d.chunk = c.chunk /\ d.received = c.received
         /\ d.s = c.s /\ d.result = c.result /\ ~RecvLooping(d)
  <1>1. d = [c EXCEPT !.connected = FALSE]
    BY DEF RecvStep
  <1>. QED BY <1>1 DEF RecvCalls, RecvLooping

(* An error. *)
LEMMA RecvFailed ==
  ASSUME NEW c \in RecvCalls, NEW d, d = RecvStep(c, -1)
  PROVE  /\ d \in RecvCalls /\ d.chunk = c.chunk /\ d.received = c.received
         /\ d.s = c.s /\ ~d.result /\ ~RecvLooping(d)
  <1>1. -1 # c.s /\ -1 # 0 /\ -1 < 0
    BY RecvCallProperties
  <1>2. d = [c EXCEPT !.connected = FALSE, !.result = FALSE]
    BY <1>1 DEF RecvStep
  <1>. QED BY <1>2 DEF RecvCalls, RecvLooping


-----------------------------------------------------------------------------
(* What the operators of IntArith compute, for an int of any width. *)

(* Powers of two, as numbers of subsets. *)
LEMMA PowerIsSubsets ==
  ASSUME NEW n \in Nat
  PROVE  IsFiniteSet(SUBSET (1 .. n)) /\ Cardinality(SUBSET (1 .. n)) = 2^n
  <1>1. IsFiniteSet(1 .. n) /\ Cardinality(1 .. n) = n
    BY FS_Interval
  <1>. QED
    BY <1>1, FS_SUBSET

(* There are twice as many subsets with one element more. *)
LEMMA PowerOfTwo ==
  ASSUME NEW n \in Nat
  PROVE  2^n \in Nat \ {0} /\ 2^(n + 1) = 2 * 2^n
  <1>. DEFINE S == SUBSET (1 .. n)
              T == {s \cup {n + 1} : s \in S}
              f == [s \in S |-> s \cup {n + 1}]
  <1>1. IsFiniteSet(S) /\ Cardinality(S) = 2^n
    BY PowerIsSubsets
  <1>2. 2^n \in Nat \ {0}
    <2>1. {} \in S
      OBVIOUS
    <2>2. Cardinality(S) \in Nat
      BY <1>1, FS_CardinalityType
    <2>3. Cardinality(S) # 0
      BY <1>1, <2>1, FS_EmptySet
    <2>. QED
      BY <1>1, <2>2, <2>3
  <1>3. f \in Bijection(S, T)
    <2>1. \A s, t \in S : s \cup {n + 1} = t \cup {n + 1} => s = t
      <3>1. \A s \in S : n + 1 \notin s
        OBVIOUS
      <3>. QED
        BY <3>1
    <2>0. f \in [S -> T] /\ \A s \in S : f[s] = s \cup {n + 1}
      OBVIOUS
    <2>2. f \in Injection(S, T)
      <3>1. \A s, t \in S : f[s] = f[t] => s = t
        BY <2>0, <2>1
      <3>. HIDE DEF S, T, f
      <3>. QED
        BY <2>0, <3>1, Fun_IsInj
    <2>3. f \in Surjection(S, T)
      <3>1. \A t \in T : \E s \in S : f[s] = t
        OBVIOUS
      <3>. HIDE DEF S, T, f
      <3>. QED
        BY <2>0, <3>1, Fun_IsSurj
    <2>. QED
      BY <2>2, <2>3 DEF Bijection
  <1>4. IsFiniteSet(T) /\ Cardinality(T) = 2^n
    <2>1. ExistsBijection(S, T)
      BY <1>3 DEF ExistsBijection
    <2>. QED
      BY <1>1, <2>1, FS_Bijection
  <1>5. S \cap T = {}
    OBVIOUS
  <1>6. S \cup T = SUBSET (1 .. n + 1)
    <2>1. ASSUME NEW u \in SUBSET (1 .. n + 1) PROVE u \in S \cup T
      <3>1. CASE n + 1 \in u
        <4>1. u \ {n + 1} \in S
          OBVIOUS
        <4>2. u = (u \ {n + 1}) \cup {n + 1}
          BY <3>1
        <4>. QED
          BY <4>1, <4>2
      <3>2. CASE n + 1 \notin u
        BY <3>2
      <3>. QED
        BY <3>1, <3>2
    <2>2. ASSUME NEW s \in S PROVE s \in SUBSET (1 .. n + 1) /\ s \cup {n + 1} \in SUBSET (1 .. n + 1)
      <3>1. 1 .. n \subseteq 1 .. n + 1 /\ n + 1 \in 1 .. n + 1
        OBVIOUS
      <3>. QED
        BY <3>1
    <2>3. S \cup T \subseteq SUBSET (1 .. n + 1)
      <3>1. \A u \in T : \E s \in S : u = s \cup {n + 1}
        OBVIOUS
      <3>. HIDE DEF S, T
      <3>. QED
        BY <2>2, <3>1
    <2>. HIDE DEF S, T
    <2>. QED
      BY <2>1, <2>3
  <1>7. Cardinality(S \cup T) = 2^n + 2^n
    <2>. HIDE DEF S, T
    <2>1. Cardinality(S \cup T) = Cardinality(S) + Cardinality(T) - Cardinality({})
      BY <1>1, <1>4, <1>5, FS_Union
    <2>. QED
      BY <1>1, <1>2, <1>4, <2>1, FS_EmptySet
  <1>8. Cardinality(S \cup T) = 2^(n + 1)
    <2>1. n + 1 \in Nat
      OBVIOUS
    <2>. QED
      BY <1>6, <2>1, PowerIsSubsets
  <1>. QED
    BY <1>2, <1>7, <1>8

(* Half the range of an int, and the whole. *)
Half == 2^(W - 1)

(* The ends of the range of an int of W bits. *)
LEMMA WidthProperties ==
  Half \in Nat \ {0} /\ 2^W = 2 * Half /\ INT_MAX = Half - 1 /\ INT_MIN = -Half
  <1>1. W - 1 \in Nat /\ W = (W - 1) + 1
    BY WidthAssumption
  <1>2. 2^(W - 1) \in Nat \ {0} /\ 2^((W - 1) + 1) = 2 * 2^(W - 1)
    BY <1>1, PowerOfTwo
  <1>. QED
    BY <1>1, <1>2 DEF Half, INT_MAX, INT_MIN

-----------------------------------------------------------------------------
(* Quotient and remainder exist, and are what \div and % say. *)
LEMMA DivisionProperties ==
  ASSUME NEW a \in Int, NEW b \in Nat \ {0}
  PROVE  \E q \in Int, r \in 0 .. b - 1 : q = a \div b /\ r = a % b /\ a = b * q + r
  <1>1. a \div b \in Int
    OBVIOUS
  <1>2. a % b \in 0 .. b - 1
    OBVIOUS
  <1>3. ASSUME NEW q \in Int, q = a \div b, NEW r \in Int, r = a % b
        PROVE  a = b * q + r
    BY <1>3, Z3
  <1>4. a % b \in Int
    BY <1>2
  <1>. QED
    BY <1>1, <1>2, <1>3, <1>4, Zenon

(* Any quotient and remainder that make up a number are those of \div and %. *)
LEMMA DivisionIsUnique ==
  ASSUME NEW b \in Nat \ {0}, NEW q \in Int, NEW r \in 0 .. b - 1
  PROVE  (b * q + r) \div b = q /\ (b * q + r) % b = r
  OBVIOUS

(* A result is wrapped to the int congruent to it. *)
LEMMA WrapProperties ==
  ASSUME NEW x \in Int
  PROVE  /\ Wrap(x) \in Int_t
         /\ \E k \in Int : Wrap(x) = x + 2^W * k
  <1>0. 2^W \in Nat \ {0}
    BY WidthProperties
  <1>1. PICK q \in Int, u \in 0 .. 2^W - 1 : u = x % 2^W /\ x = 2^W * q + u
    BY <1>0, DivisionProperties
  <1>2. Wrap(x) = IF u > INT_MAX THEN u - 2^W ELSE u
    BY <1>1 DEF Wrap, Unsigned
  <1>3. Wrap(x) \in Int_t
    BY <1>1, <1>2, WidthProperties DEF Int_t
  <1>4. CASE u > INT_MAX
    <2>1. Wrap(x) = x + 2^W * (-q - 1)
      BY <1>1, <1>2, <1>4, WidthProperties
    <2>. QED
      BY <1>1, <1>3, <2>1
  <1>5. CASE ~(u > INT_MAX)
    <2>1. Wrap(x) = x + 2^W * (-q)
      BY <1>1, <1>2, <1>5, WidthProperties
    <2>. QED
      BY <1>1, <1>3, <2>1
  <1>. QED
    BY <1>4, <1>5

(* Multiples of 2^W are lost, and a negative int is read as one above INT_MAX. *)
LEMMA UnsignedOfAnInt ==
  ASSUME NEW x \in Int_t, NEW k \in Int
  PROVE  Unsigned(x + 2^W * k) = (IF x < 0 THEN x + 2^W ELSE x)
  <1>. DEFINE r == IF x < 0 THEN x + 2^W ELSE x
              q == IF x < 0 THEN k - 1 ELSE k
  <1>1. x \in Int /\ r \in 0 .. 2^W - 1 /\ q \in Int
    BY WidthProperties DEF Int_t
  <1>2. x + 2^W * k = 2^W * q + r
    <2>. DEFINE m == 2^W
    <2>1. m \in Nat
      BY WidthProperties
    <2>. HIDE DEF m
    <2>2. x + m * k = m * (IF x < 0 THEN k - 1 ELSE k) + (IF x < 0 THEN x + m ELSE x)
      BY <1>1, <2>1
    <2>. QED
      BY <2>2 DEF m
  <1>. HIDE DEF r, q
  <1>3. (2^W * q + r) % 2^W = r
    <2>1. 2^W \in Nat \ {0}
      BY WidthProperties
    <2>. QED
      BY <1>1, <2>1, DivisionIsUnique
  <1>. QED
    BY <1>2, <1>3 DEF Unsigned, r

(* Reading the bits back as a signed int undoes that. *)
LEMMA WrapOfAnInt ==
  ASSUME NEW x \in Int_t, NEW k \in Int
  PROVE  Wrap(x + 2^W * k) = x
  <1>. DEFINE u == Unsigned(x + 2^W * k)
  <1>1. u = (IF x < 0 THEN x + 2^W ELSE x)
    BY UnsignedOfAnInt
  <1>2. Wrap(x + 2^W * k) = IF u > INT_MAX THEN u - 2^W ELSE u
    BY DEF Wrap
  <1>. HIDE DEF u
  <1>. QED
    BY <1>1, <1>2, WidthProperties DEF Int_t

-----------------------------------------------------------------------------
(* The bits of an int. *)
LEMMA BitType ==
  ASSUME NEW x \in Int, NEW k \in Nat
  PROVE  Unsigned(x) \in 0 .. 2^W - 1 /\ Bit(x, k) \in {0, 1}
  <1>1. 2^W \in Nat \ {0} /\ 2^k \in Nat \ {0}
    BY WidthProperties, PowerOfTwo
  <1>2. Unsigned(x) \in 0 .. 2^W - 1
    BY <1>1 DEF Unsigned
  <1>3. Unsigned(x) \div 2^k \in Int
    <2>1. Unsigned(x) \in Int
      BY <1>1, <1>2
    <2>. QED
      BY <1>1, <2>1
  <1>. QED
    BY <1>2, <1>3 DEF Bit

(* The low k bits of x. *)
LowBits(x, k) == Unsigned(x) % 2^k

(* The low bits of x, one more at a time, from none to all W. *)
LEMMA LowBitsProperties ==
  ASSUME NEW x \in Int
  PROVE  /\ \A k \in Nat : LowBits(x, k) \in 0 .. 2^k - 1
         /\ LowBits(x, 0) = 0
         /\ \A k \in Nat : LowBits(x, k + 1) = LowBits(x, k) + Bit(x, k) * 2^k
         /\ LowBits(x, W) = Unsigned(x)
  <1>. DEFINE u == Unsigned(x)
  <1>1. u \in Nat /\ u \in 0 .. 2^W - 1
    <2>1. 2^W \in Nat
      BY WidthProperties
    <2>. QED
      BY <2>1, BitType
  <1>. HIDE DEF u
  <1>2. ASSUME NEW k \in Nat PROVE u % 2^k \in 0 .. 2^k - 1
    <2>1. 2^k \in Nat \ {0}
      BY PowerOfTwo
    <2>. QED
      BY <1>1, <2>1
  <1>3. u % 2^0 = 0
    <2>1. 2^0 \in Nat \ {0} /\ 2^0 = 1
      OBVIOUS
    <2>. QED
      BY <1>1, <2>1
  <1>4. ASSUME NEW k \in Nat
        PROVE  u % 2^(k + 1) = (u % 2^k) + ((u \div 2^k) % 2) * 2^k
    <2>. DEFINE p == 2^k
    <2>1. p \in Nat \ {0} /\ 2^(k + 1) = 2 * p
      BY PowerOfTwo
    <2>. HIDE DEF p
    <2>2. PICK q \in Int, r \in 0 .. p - 1 : q = u \div p /\ r = u % p /\ u = p * q + r
      BY <1>1, <2>1, DivisionProperties
    <2>3. PICK h \in Int, b \in 0 .. 1 : h = q \div 2 /\ b = q % 2 /\ q = 2 * h + b
      <3>1. 2 \in Nat \ {0}
        OBVIOUS
      <3>2. \E h \in Int, b \in 0 .. 2 - 1 : h = q \div 2 /\ b = q % 2 /\ q = 2 * h + b
        BY <3>1, DivisionProperties
      <3>. QED
        BY <3>2
    <2>4. b * p + r \in 0 .. (2 * p) - 1
      <3>1. CASE b = 0
        BY <2>1, <3>1
      <3>2. CASE b = 1
        BY <2>1, <3>2
      <3>. QED
        BY <3>1, <3>2
    <2>5. u = (2 * p) * h + (b * p + r)
      <3>1. p \in Int /\ h \in Int /\ b \in Int /\ r \in Int /\ u = p * q + r /\ q = 2 * h + b
        BY <2>1, <2>2, <2>3
      <3>2. p * (2 * h + b) = (2 * p) * h + b * p
        BY ONLY <3>1
      <3>3. p * q + r = ((2 * p) * h + b * p) + r
        BY <3>1, <3>2
      <3>. QED
        BY <3>1, <3>3
    <2>6. u % (2 * p) = b * p + r
      <3>1. 2 * p \in Nat \ {0}
        BY <2>1
      <3>. QED
        BY <2>4, <2>5, <3>1, DivisionIsUnique
    <2>7. b * p + r = r + b * p
      BY <2>1
    <2>8. u % (2 * p) = (u % p) + ((u \div p) % 2) * p
      BY <2>2, <2>3, <2>6, <2>7
    <2>. QED
      BY <2>1, <2>8 DEF p
  <1>5. u % 2^W = u
    <2>1. 2^W \in Nat \ {0}
      BY WidthProperties
    <2>. QED
      BY <1>1, <2>1
  <1>. QED
    BY <1>2, <1>3, <1>4, <1>5 DEF LowBits, Bit, u

(* The sums that OnBits takes the last of. *)
LEMMA SumsExist ==
  ASSUME NEW N \in Nat, NEW d \in [1 .. N -> Int]
  PROVE  \E g \in [0 .. N -> Int] : g = [k \in 0 .. N |-> IF k = 0 THEN 0 ELSE g[k - 1] + d[k]]
  <1>. DEFINE Sums(n, g) == g[0] = 0 /\ \A k \in 1 .. n : g[k] = g[k - 1] + d[k]
              P == {n \in Nat : n <= N => \E g \in [0 .. n -> Int] : Sums(n, g)}
  <1>1. 0 \in P
    <2>. DEFINE g == [k \in 0 .. 0 |-> 0]
    <2>1. g \in [0 .. 0 -> Int] /\ Sums(0, g)
      OBVIOUS
    <2>. QED
      BY <2>1
  <1>2. ASSUME NEW n \in Nat, n \in P PROVE n + 1 \in P
    <2>1. ASSUME n + 1 <= N PROVE \E h \in [0 .. n + 1 -> Int] : Sums(n + 1, h)
      <3>1. PICK g \in [0 .. n -> Int] : Sums(n, g)
        BY <1>2, <2>1
      <3>. DEFINE h == [k \in 0 .. n + 1 |-> IF k = n + 1 THEN g[n] + d[n + 1] ELSE g[k]]
      <3>2. d[n + 1] \in Int /\ g[n] \in Int
        BY <2>1
      <3>3. h \in [0 .. n + 1 -> Int]
        BY <3>2
      <3>4. h[0] = 0
        BY <3>1
      <3>5. ASSUME NEW k \in 1 .. n + 1 PROVE h[k] = h[k - 1] + d[k]
        <4>1. CASE k = n + 1
          BY <4>1
        <4>2. CASE k # n + 1
          <5>1. k \in 1 .. n /\ k - 1 \in 0 .. n + 1 /\ k - 1 # n + 1 /\ k \in 0 .. n + 1
            BY <4>2
          <5>2. h[k] = g[k] /\ h[k - 1] = g[k - 1]
            BY <4>2, <5>1
          <5>. QED
            BY <3>1, <5>1, <5>2
        <4>. QED
          BY <4>1, <4>2
      <3>. HIDE DEF h
      <3>. QED
        BY <3>3, <3>4, <3>5
    <2>. HIDE DEF Sums
    <2>. QED
      BY <2>1
  <1>3. N \in P
    <2>. HIDE DEF P
    <2>. QED
      BY <1>1, <1>2, SetInduction
  <1>4. PICK g \in [0 .. N -> Int] : Sums(N, g)
    BY <1>3
  <1>5. g = [k \in 0 .. N |-> IF k = 0 THEN 0 ELSE g[k - 1] + d[k]]
    <2>. DEFINE h == [k \in 0 .. N |-> IF k = 0 THEN 0 ELSE g[k - 1] + d[k]]
    <2>1. ASSUME NEW k \in 0 .. N PROVE g[k] = h[k]
      BY <1>4
    <2>. QED
      BY <2>1
  <1>. QED
    BY <1>5

(* A running sum of ints is an int at each of its terms. *)
LEMMA SumsAreInts ==
  ASSUME NEW N \in Nat, NEW d \in [1 .. N -> Int], NEW g,
         g[0] = 0, \A k \in 1 .. N : g[k] = g[k - 1] + d[k]
  PROVE  \A k \in 0 .. N : g[k] \in Int
  <1>. DEFINE P == {n \in Nat : n <= N => g[n] \in Int}
  <1>1. 0 \in P
    OBVIOUS
  <1>2. \A n \in Nat : n \in P => n + 1 \in P
    <2>1. ASSUME NEW n \in Nat, n \in P, n + 1 <= N PROVE g[n + 1] \in Int
      <3>1. n + 1 \in 1 .. N /\ g[n] \in Int /\ (n + 1) - 1 = n
        BY <2>1
      <3>2. d[n + 1] \in Int
        BY <3>1
      <3>. QED
        BY <3>1, <3>2
    <2>. QED
      BY <2>1
  <1>3. Nat \subseteq P
    <2>. HIDE DEF P
    <2>. QED
      BY <1>1, <1>2, SetInduction
  <1>. QED
    BY <1>3

(* Each of the four functions on bits wraps such a sum. *)
LEMMA AndIsASum ==
  ASSUME NEW a \in Int, NEW b \in Int
  PROVE  \E low \in [0 .. W -> Int] :
           /\ low[0] = 0
           /\ \A k \in 1 .. W : low[k] = low[k - 1] + (Bit(a, k - 1) * Bit(b, k - 1)) * 2^(k - 1)
           /\ _logical_and(a, b) = Wrap(low[W])
  <1>. DEFINE d == [k \in 1 .. W |-> (Bit(a, k - 1) * Bit(b, k - 1)) * 2^(k - 1)]
              F(low) == [k \in 0 .. W |-> IF k = 0 THEN 0
                           ELSE low[k - 1] + (Bit(a, k - 1) * Bit(b, k - 1)) * 2^(k - 1)]
              G(low) == [k \in 0 .. W |-> IF k = 0 THEN 0 ELSE low[k - 1] + d[k]]
              sums == CHOOSE low : low = F(low)
  <1>1. ASSUME NEW k \in 1 .. W
        PROVE  (Bit(a, k - 1) * Bit(b, k - 1)) * 2^(k - 1) \in Int
    <2>1. k - 1 \in Nat
      BY WidthAssumption
    <2>2. Bit(a, k - 1) \in {0, 1} /\ Bit(b, k - 1) \in {0, 1} /\ 2^(k - 1) \in Nat
      BY <2>1, BitType, PowerOfTwo
    <2>. QED
      BY <2>2
  <1>2. d \in [1 .. W -> Int]
    BY <1>1
  <1>3. ASSUME NEW low PROVE F(low) = G(low)
    <2>1. \A k \in 0 .. W : k # 0 => k \in 1 .. W
      BY WidthAssumption
    <2>. QED
      BY <2>1
  <1>4. sums = F(sums)
    <2>1. PICK g \in [0 .. W -> Int] : g = G(g)
      BY <1>2, WidthAssumption, SumsExist
    <2>2. g = F(g)
      BY <1>3, <2>1
    <2>. QED
      BY <2>2, Zenon
  <1>5. sums = G(sums)
    BY <1>3, <1>4
  <1>6. /\ sums \in [0 .. W -> Int] /\ sums[0] = 0
        /\ \A k \in 1 .. W : sums[k] = sums[k - 1] + d[k]
    <2>. HIDE DEF d, sums
    <2>1. sums[0] = 0 /\ \A k \in 1 .. W : sums[k] = sums[k - 1] + d[k]
      <3>1. 0 \in 0 .. W /\ \A k \in 1 .. W : k \in 0 .. W /\ k # 0
        BY WidthAssumption
      <3>. QED
        BY <1>5, <3>1
    <2>2. \A k \in 0 .. W : sums[k] \in Int
      BY <1>2, <2>1, WidthAssumption, SumsAreInts
    <2>3. sums \in [0 .. W -> Int]
      <3>1. sums = [k \in 0 .. W |-> sums[k]]
        BY <1>5
      <3>. QED
        BY <2>2, <3>1
    <2>. QED
      BY <2>1, <2>3
  <1>7. _logical_and(a, b) = Wrap(sums[W])
    BY DEF _logical_and, OnBits
  <1>. HIDE DEF sums
  <1>. QED
    BY <1>6, <1>7

(* The same of the inclusive or. *)
LEMMA OrIsASum ==
  ASSUME NEW a \in Int, NEW b \in Int
  PROVE  \E low \in [0 .. W -> Int] :
           /\ low[0] = 0
           /\ \A k \in 1 .. W : low[k] = low[k - 1] + (IF Bit(a, k - 1) + Bit(b, k - 1) > 0 THEN 1 ELSE 0) * 2^(k - 1)
           /\ _logical_or(a, b) = Wrap(low[W])
  <1>. DEFINE d == [k \in 1 .. W |-> (IF Bit(a, k - 1) + Bit(b, k - 1) > 0 THEN 1 ELSE 0) * 2^(k - 1)]
              F(low) == [k \in 0 .. W |-> IF k = 0 THEN 0
                           ELSE low[k - 1] + (IF Bit(a, k - 1) + Bit(b, k - 1) > 0 THEN 1 ELSE 0) * 2^(k - 1)]
              G(low) == [k \in 0 .. W |-> IF k = 0 THEN 0 ELSE low[k - 1] + d[k]]
              sums == CHOOSE low : low = F(low)
  <1>1. ASSUME NEW k \in 1 .. W
        PROVE  (IF Bit(a, k - 1) + Bit(b, k - 1) > 0 THEN 1 ELSE 0) * 2^(k - 1) \in Int
    <2>1. k - 1 \in Nat
      BY WidthAssumption
    <2>2. Bit(a, k - 1) \in {0, 1} /\ Bit(b, k - 1) \in {0, 1} /\ 2^(k - 1) \in Nat
      BY <2>1, BitType, PowerOfTwo
    <2>. QED
      BY <2>2
  <1>2. d \in [1 .. W -> Int]
    BY <1>1
  <1>3. ASSUME NEW low PROVE F(low) = G(low)
    <2>1. \A k \in 0 .. W : k # 0 => k \in 1 .. W
      BY WidthAssumption
    <2>. QED
      BY <2>1
  <1>4. sums = F(sums)
    <2>1. PICK g \in [0 .. W -> Int] : g = G(g)
      BY <1>2, WidthAssumption, SumsExist
    <2>2. g = F(g)
      BY <1>3, <2>1
    <2>. QED
      BY <2>2, Zenon
  <1>5. sums = G(sums)
    BY <1>3, <1>4
  <1>6. /\ sums \in [0 .. W -> Int] /\ sums[0] = 0
        /\ \A k \in 1 .. W : sums[k] = sums[k - 1] + d[k]
    <2>. HIDE DEF d, sums
    <2>1. sums[0] = 0 /\ \A k \in 1 .. W : sums[k] = sums[k - 1] + d[k]
      <3>1. 0 \in 0 .. W /\ \A k \in 1 .. W : k \in 0 .. W /\ k # 0
        BY WidthAssumption
      <3>. QED
        BY <1>5, <3>1
    <2>2. \A k \in 0 .. W : sums[k] \in Int
      BY <1>2, <2>1, WidthAssumption, SumsAreInts
    <2>3. sums \in [0 .. W -> Int]
      <3>1. sums = [k \in 0 .. W |-> sums[k]]
        BY <1>5
      <3>. QED
        BY <2>2, <3>1
    <2>. QED
      BY <2>1, <2>3
  <1>7. _logical_or(a, b) = Wrap(sums[W])
    BY DEF _logical_or, OnBits
  <1>. HIDE DEF sums
  <1>. QED
    BY <1>6, <1>7

(* The same of the exclusive or. *)
LEMMA XorIsASum ==
  ASSUME NEW a \in Int, NEW b \in Int
  PROVE  \E low \in [0 .. W -> Int] :
           /\ low[0] = 0
           /\ \A k \in 1 .. W : low[k] = low[k - 1] + ((Bit(a, k - 1) + Bit(b, k - 1)) % 2) * 2^(k - 1)
           /\ _logical_xor(a, b) = Wrap(low[W])
  <1>. DEFINE d == [k \in 1 .. W |-> ((Bit(a, k - 1) + Bit(b, k - 1)) % 2) * 2^(k - 1)]
              F(low) == [k \in 0 .. W |-> IF k = 0 THEN 0
                           ELSE low[k - 1] + ((Bit(a, k - 1) + Bit(b, k - 1)) % 2) * 2^(k - 1)]
              G(low) == [k \in 0 .. W |-> IF k = 0 THEN 0 ELSE low[k - 1] + d[k]]
              sums == CHOOSE low : low = F(low)
  <1>1. ASSUME NEW k \in 1 .. W
        PROVE  ((Bit(a, k - 1) + Bit(b, k - 1)) % 2) * 2^(k - 1) \in Int
    <2>1. k - 1 \in Nat
      BY WidthAssumption
    <2>2. Bit(a, k - 1) \in {0, 1} /\ Bit(b, k - 1) \in {0, 1} /\ 2^(k - 1) \in Nat
      BY <2>1, BitType, PowerOfTwo
    <2>. QED
      BY <2>2
  <1>2. d \in [1 .. W -> Int]
    BY <1>1
  <1>3. ASSUME NEW low PROVE F(low) = G(low)
    <2>1. \A k \in 0 .. W : k # 0 => k \in 1 .. W
      BY WidthAssumption
    <2>. QED
      BY <2>1
  <1>4. sums = F(sums)
    <2>1. PICK g \in [0 .. W -> Int] : g = G(g)
      BY <1>2, WidthAssumption, SumsExist
    <2>2. g = F(g)
      BY <1>3, <2>1
    <2>. QED
      BY <2>2, Zenon
  <1>5. sums = G(sums)
    BY <1>3, <1>4
  <1>6. /\ sums \in [0 .. W -> Int] /\ sums[0] = 0
        /\ \A k \in 1 .. W : sums[k] = sums[k - 1] + d[k]
    <2>. HIDE DEF d, sums
    <2>1. sums[0] = 0 /\ \A k \in 1 .. W : sums[k] = sums[k - 1] + d[k]
      <3>1. 0 \in 0 .. W /\ \A k \in 1 .. W : k \in 0 .. W /\ k # 0
        BY WidthAssumption
      <3>. QED
        BY <1>5, <3>1
    <2>2. \A k \in 0 .. W : sums[k] \in Int
      BY <1>2, <2>1, WidthAssumption, SumsAreInts
    <2>3. sums \in [0 .. W -> Int]
      <3>1. sums = [k \in 0 .. W |-> sums[k]]
        BY <1>5
      <3>. QED
        BY <2>2, <3>1
    <2>. QED
      BY <2>1, <2>3
  <1>7. _logical_xor(a, b) = Wrap(sums[W])
    BY DEF _logical_xor, OnBits
  <1>. HIDE DEF sums
  <1>. QED
    BY <1>6, <1>7

(* The same of the complement. *)
LEMMA ComplementIsASum ==
  ASSUME NEW a \in Int
  PROVE  \E low \in [0 .. W -> Int] :
           /\ low[0] = 0
           /\ \A k \in 1 .. W : low[k] = low[k - 1] + (1 - Bit(a, k - 1)) * 2^(k - 1)
           /\ Complement(a) = Wrap(low[W])
  <1>. DEFINE d == [k \in 1 .. W |-> (1 - Bit(a, k - 1)) * 2^(k - 1)]
              F(low) == [k \in 0 .. W |-> IF k = 0 THEN 0
                           ELSE low[k - 1] + (1 - Bit(a, k - 1)) * 2^(k - 1)]
              G(low) == [k \in 0 .. W |-> IF k = 0 THEN 0 ELSE low[k - 1] + d[k]]
              sums == CHOOSE low : low = F(low)
  <1>1. ASSUME NEW k \in 1 .. W
        PROVE  (1 - Bit(a, k - 1)) * 2^(k - 1) \in Int
    <2>1. k - 1 \in Nat
      BY WidthAssumption
    <2>2. Bit(a, k - 1) \in {0, 1} /\ 2^(k - 1) \in Nat
      BY <2>1, BitType, PowerOfTwo
    <2>. QED
      BY <2>2
  <1>2. d \in [1 .. W -> Int]
    BY <1>1
  <1>3. ASSUME NEW low PROVE F(low) = G(low)
    <2>1. \A k \in 0 .. W : k # 0 => k \in 1 .. W
      BY WidthAssumption
    <2>. QED
      BY <2>1
  <1>4. sums = F(sums)
    <2>1. PICK g \in [0 .. W -> Int] : g = G(g)
      BY <1>2, WidthAssumption, SumsExist
    <2>2. g = F(g)
      BY <1>3, <2>1
    <2>. QED
      BY <2>2, Zenon
  <1>5. sums = G(sums)
    BY <1>3, <1>4
  <1>6. /\ sums \in [0 .. W -> Int] /\ sums[0] = 0
        /\ \A k \in 1 .. W : sums[k] = sums[k - 1] + d[k]
    <2>. HIDE DEF d, sums
    <2>1. sums[0] = 0 /\ \A k \in 1 .. W : sums[k] = sums[k - 1] + d[k]
      <3>1. 0 \in 0 .. W /\ \A k \in 1 .. W : k \in 0 .. W /\ k # 0
        BY WidthAssumption
      <3>. QED
        BY <1>5, <3>1
    <2>2. \A k \in 0 .. W : sums[k] \in Int
      BY <1>2, <2>1, WidthAssumption, SumsAreInts
    <2>3. sums \in [0 .. W -> Int]
      <3>1. sums = [k \in 0 .. W |-> sums[k]]
        BY <1>5
      <3>. QED
        BY <2>2, <3>1
    <2>. QED
      BY <2>1, <2>3
  <1>7. Complement(a) = Wrap(sums[W])
    BY DEF Complement, OnBits
  <1>. HIDE DEF sums
  <1>. QED
    BY <1>6, <1>7
-----------------------------------------------------------------------------
(* The top bit t counts as -t and the others r as they are. *)
LEMMA WrapOfBits ==
  ASSUME NEW r \in 0 .. Half - 1, NEW t \in {0, Half}
  PROVE  Wrap(r + t) = r - t
  <1>. DEFINE k == IF t = 0 THEN 0 ELSE 1
  <1>1. r - t \in Int_t /\ k \in Int /\ r + t = (r - t) + 2^W * k
    <2>1. CASE t = 0
      BY <2>1, WidthProperties DEF Int_t
    <2>2. CASE t # 0
      BY <2>2, WidthProperties DEF Int_t
    <2>. QED
      BY <2>1, <2>2
  <1>. HIDE DEF k
  <1>. QED
    BY <1>1, WrapOfAnInt

(* The top bit of an int counts for -2^(W - 1). *)
LEMMA IntIsBits ==
  ASSUME NEW x \in Int_t
  PROVE  /\ LowBits(x, W - 1) \in 0 .. Half - 1 /\ Bit(x, W - 1) \in {0, 1}
         /\ x = LowBits(x, W - 1) - Bit(x, W - 1) * Half
  <1>. DEFINE r == LowBits(x, W - 1)
              t == Bit(x, W - 1)
  <1>1. x \in Int /\ W - 1 \in Nat /\ (W - 1) + 1 = W
    BY WidthProperties, WidthAssumption DEF Int_t
  <1>2. r \in 0 .. Half - 1 /\ t \in {0, 1}
    BY <1>1, LowBitsProperties, BitType DEF Half
  <1>3. Unsigned(x) = r + t * Half
    BY <1>1, LowBitsProperties DEF Half
  <1>4. Unsigned(x) = (IF x < 0 THEN x + 2^W ELSE x)
    <2>1. x + 2^W * 0 = x
      BY <1>1, WidthProperties
    <2>. QED
      BY <2>1, UnsignedOfAnInt
  <1>. HIDE DEF r, t
  <1>5. x = r - t * Half
    <2>1. CASE t = 0
      BY <1>1, <1>2, <1>3, <1>4, <2>1, WidthProperties DEF Int_t
    <2>2. CASE t = 1
      BY <1>1, <1>2, <1>3, <1>4, <2>2, WidthProperties DEF Int_t
    <2>. QED
      BY <1>2, <2>1, <2>2
  <1>. QED
    BY <1>2, <1>5 DEF r, t

(* What two ints share counts twice in their sum, the rest once. *)
LEMMA SharedBits ==
  ASSUME NEW a \in Int_t, NEW b \in Int_t
  PROVE  /\ _logical_and(a, b) + _logical_or(a, b) = a + b
         /\ _logical_xor(a, b) = _logical_or(a, b) - _logical_and(a, b)
  <1>1. a \in Int /\ b \in Int /\ W - 1 \in Nat /\ W \in 1 .. W /\ W - 1 \in 0 .. W
    BY WidthProperties, WidthAssumption DEF Int_t
  <1>2. PICK low \in [0 .. W -> Int] :
          /\ low[0] = 0
          /\ \A k \in 1 .. W : low[k] = low[k - 1] + (Bit(a, k - 1) * Bit(b, k - 1)) * 2^(k - 1)
          /\ _logical_and(a, b) = Wrap(low[W])
    BY <1>1, AndIsASum
  <1>3. PICK any \in [0 .. W -> Int] :
          /\ any[0] = 0
          /\ \A k \in 1 .. W : any[k] = any[k - 1]
               + (IF Bit(a, k - 1) + Bit(b, k - 1) > 0 THEN 1 ELSE 0) * 2^(k - 1)
          /\ _logical_or(a, b) = Wrap(any[W])
    BY <1>1, OrIsASum
  <1>4. PICK one \in [0 .. W -> Int] :
          /\ one[0] = 0
          /\ \A k \in 1 .. W : one[k] = one[k - 1]
               + ((Bit(a, k - 1) + Bit(b, k - 1)) % 2) * 2^(k - 1)
          /\ _logical_xor(a, b) = Wrap(one[W])
    BY <1>1, XorIsASum
  <1>5. ASSUME NEW k \in 1 .. W
        PROVE  \E x, y, s, t, u \in {0, 2^(k - 1)} :
                 /\ x = Bit(a, k - 1) * 2^(k - 1) /\ y = Bit(b, k - 1) * 2^(k - 1)
                 /\ s + t = x + y /\ u = t - s
                 /\ low[k] = low[k - 1] + s
                 /\ any[k] = any[k - 1] + t
                 /\ one[k] = one[k - 1] + u
    <2>. DEFINE p == 2^(k - 1)
                x == Bit(a, k - 1)
                y == Bit(b, k - 1)
    <2>1. k - 1 \in Nat
      OBVIOUS
    <2>2. x \in {0, 1} /\ y \in {0, 1} /\ p \in Nat
      BY <1>1, <2>1, BitType, PowerOfTwo
    <2>3. /\ low[k] = low[k - 1] + (x * y) * p
          /\ any[k] = any[k - 1] + (IF x + y > 0 THEN 1 ELSE 0) * p
          /\ one[k] = one[k - 1] + ((x + y) % 2) * p
      BY <1>2, <1>3, <1>4, Zenon
    <2>. HIDE DEF x, y, p
    <2>. DEFINE s == (x * y) * p
                t == (IF x + y > 0 THEN 1 ELSE 0) * p
                u == ((x + y) % 2) * p
                xp == x * p
                yp == y * p
    <2>4. /\ s \in {0, p} /\ t \in {0, p} /\ u \in {0, p} /\ xp \in {0, p} /\ yp \in {0, p}
          /\ s + t = xp + yp /\ u = t - s
      <3>1. CASE x = 0 /\ y = 0
        BY <2>2, <3>1
      <3>2. CASE x = 0 /\ y = 1
        BY <2>2, <3>2
      <3>3. CASE x = 1 /\ y = 0
        BY <2>2, <3>3
      <3>4. CASE x = 1 /\ y = 1
        BY <2>2, <3>4
      <3>. QED
        BY <2>2, <3>1, <3>2, <3>3, <3>4
    <2>5. xp = Bit(a, k - 1) * p /\ yp = Bit(b, k - 1) * p
      BY DEF x, y
    <2>. HIDE DEF s, t, u, xp, yp
    <2>6. \E x1, y1, s1, t1, u1 \in {0, p} :
                 /\ x1 = Bit(a, k - 1) * p /\ y1 = Bit(b, k - 1) * p
                 /\ s1 + t1 = x1 + y1 /\ u1 = t1 - s1
                 /\ low[k] = low[k - 1] + s1
                 /\ any[k] = any[k - 1] + t1
                 /\ one[k] = one[k - 1] + u1
      <3>1. low[k] = low[k - 1] + s /\ any[k] = any[k - 1] + t /\ one[k] = one[k - 1] + u
        BY <2>3 DEF s, t, u
      <3>. QED
        BY <2>4, <2>5, <3>1, Zenon
    <2>. QED
      BY <2>6 DEF p
  <1>. DEFINE Same(n) == /\ low[n] \in 0 .. 2^n - 1 /\ any[n] \in 0 .. 2^n - 1
                         /\ one[n] \in 0 .. 2^n - 1
                         /\ low[n] + any[n] = LowBits(a, n) + LowBits(b, n)
                         /\ one[n] = any[n] - low[n]
              P == {n \in Nat : n <= W => Same(n)}
  <1>6. 0 \in P
    <2>1. 2^0 = 1
      OBVIOUS
    <2>2. /\ low[0] = 0 /\ any[0] = 0 /\ one[0] = 0
          /\ LowBits(a, 0) = 0 /\ LowBits(b, 0) = 0
      BY <1>1, <1>2, <1>3, <1>4, LowBitsProperties
    <2>3. Same(0)
      BY <2>1, <2>2
    <2>. QED
      BY <2>3
  <1>7. ASSUME NEW n \in Nat, n \in P PROVE n + 1 \in P
    <2>1. ASSUME n + 1 <= W PROVE Same(n + 1)
      <3>0. Same(n)
        <4>. HIDE DEF Same
        <4>. QED
          BY <1>1, <1>7, <2>1
      <3>1. n + 1 \in 1 .. W /\ (n + 1) - 1 = n /\ n \in 0 .. W /\ n + 1 \in 0 .. W
        BY <1>1, <2>1
      <3>. DEFINE p == 2^n
      <3>2. p \in Nat \ {0} /\ 2^(n + 1) = 2 * p
        BY PowerOfTwo
      <3>. HIDE DEF p
      <3>3. PICK x, y, s, t, u \in {0, p} :
                 /\ x = Bit(a, n) * p /\ y = Bit(b, n) * p /\ s + t = x + y /\ u = t - s
                 /\ low[n + 1] = low[n] + s
                 /\ any[n + 1] = any[n] + t
                 /\ one[n + 1] = one[n] + u
        BY <1>5, <3>1 DEF p
      <3>4. /\ LowBits(a, n + 1) = LowBits(a, n) + x
            /\ LowBits(b, n + 1) = LowBits(b, n) + y
            /\ LowBits(a, n) \in Int /\ LowBits(b, n) \in Int
        BY <1>1, <3>3, LowBitsProperties, PowerOfTwo DEF p
      <3>5. /\ low[n] \in 0 .. p - 1 /\ any[n] \in 0 .. p - 1 /\ one[n] \in 0 .. p - 1
            /\ low[n] + any[n] = LowBits(a, n) + LowBits(b, n)
            /\ one[n] = any[n] - low[n]
        BY <3>0 DEF p
      <3>6. /\ low[n + 1] \in 0 .. 2 * p - 1 /\ any[n + 1] \in 0 .. 2 * p - 1
            /\ one[n + 1] \in 0 .. 2 * p - 1
        <4>1. ASSUME NEW l \in 0 .. p - 1, NEW z \in {0, p} PROVE l + z \in 0 .. 2 * p - 1
          BY <3>2
        <4>. QED
          BY <3>3, <3>5, <4>1
      <3>7. /\ low[n + 1] + any[n + 1] = LowBits(a, n + 1) + LowBits(b, n + 1)
            /\ one[n + 1] = any[n + 1] - low[n + 1]
        <4>1. /\ low[n] \in Int /\ any[n] \in Int /\ LowBits(a, n) \in Int /\ LowBits(b, n) \in Int
              /\ low[n] + any[n] = LowBits(a, n) + LowBits(b, n)
          BY <3>2, <3>4, <3>5
        <4>0. s + t = x + y /\ u = t - s
          BY <3>3, Zenon
        <4>5. x \in Int /\ y \in Int /\ s \in Int /\ t \in Int
          BY <3>2
        <4>2. (low[n] + s) + (any[n] + t) = (LowBits(a, n) + x) + (LowBits(b, n) + y)
          <5>1. (low[n] + s) + (any[n] + t) = (low[n] + any[n]) + (s + t)
            BY ONLY <4>1, <4>5
          <5>2. (LowBits(a, n) + x) + (LowBits(b, n) + y) = (LowBits(a, n) + LowBits(b, n)) + (x + y)
            BY ONLY <4>1, <4>5
          <5>. QED
            BY <4>0, <4>1, <5>1, <5>2, Zenon
        <4>3. (any[n] - low[n]) + u = (any[n] + t) - (low[n] + s)
          BY ONLY <4>1, <4>0, <4>5
        <4>. QED
          BY <3>3, <3>4, <3>5, <4>2, <4>3
      <3>. QED
        BY <3>2, <3>6, <3>7
    <2>. HIDE DEF Same
    <2>. QED
      BY <2>1
  <1>8. Nat \subseteq P
    <2>. HIDE DEF P
    <2>. QED
      BY <1>6, <1>7, SetInduction
  <1>9. Same(W - 1)
    <2>. HIDE DEF Same
    <2>. QED
      BY <1>1, <1>8
  <1>10. PICK x, y, s, t, u \in {0, 2^(W - 1)} :
           /\ x = Bit(a, W - 1) * 2^(W - 1) /\ y = Bit(b, W - 1) * 2^(W - 1)
           /\ s + t = x + y /\ u = t - s
           /\ low[W] = low[W - 1] + s
           /\ any[W] = any[W - 1] + t
           /\ one[W] = one[W - 1] + u
    <2>1. W \in 1 .. W
      BY <1>1
    <2>. QED
      BY <1>5, <2>1, Zenon
  <1>11. /\ x \in {0, Half} /\ y \in {0, Half} /\ s \in {0, Half} /\ t \in {0, Half} /\ u \in {0, Half}
         /\ x = Bit(a, W - 1) * Half /\ y = Bit(b, W - 1) * Half
    BY <1>10, Zenon DEF Half
  <1>12. /\ s + t = x + y /\ u = t - s
         /\ low[W] = low[W - 1] + s
         /\ any[W] = any[W - 1] + t
         /\ one[W] = one[W - 1] + u
    BY <1>10, Zenon
  <1>13. /\ _logical_and(a, b) = low[W - 1] - s
         /\ _logical_or(a, b) = any[W - 1] - t
         /\ _logical_xor(a, b) = one[W - 1] - u
    <2>1. low[W - 1] \in 0 .. Half - 1 /\ any[W - 1] \in 0 .. Half - 1 /\ one[W - 1] \in 0 .. Half - 1
      BY <1>9 DEF Half
    <2>2. /\ Wrap(low[W - 1] + s) = low[W - 1] - s
          /\ Wrap(any[W - 1] + t) = any[W - 1] - t
          /\ Wrap(one[W - 1] + u) = one[W - 1] - u
      BY <1>11, <2>1, WrapOfBits
    <2>. QED
      BY <1>2, <1>3, <1>4, <1>12, <2>2, Zenon
  <1>14. /\ a = LowBits(a, W - 1) - x /\ LowBits(a, W - 1) \in Int
         /\ b = LowBits(b, W - 1) - y /\ LowBits(b, W - 1) \in Int
    <2>1. LowBits(a, W - 1) \in Int /\ LowBits(b, W - 1) \in Int
      BY IntIsBits, WidthProperties
    <2>. QED
      BY <1>11, <2>1, IntIsBits, Zenon
  <1>15. /\ low[W - 1] \in Int /\ any[W - 1] \in Int /\ one[W - 1] \in Int /\ Half \in Int
         /\ low[W - 1] + any[W - 1] = LowBits(a, W - 1) + LowBits(b, W - 1)
         /\ one[W - 1] = any[W - 1] - low[W - 1]
    BY <1>1, <1>9, WidthProperties
  <1>16. x \in Int /\ y \in Int /\ s \in Int /\ t \in Int
    <2>1. x \in {0, Half} /\ y \in {0, Half} /\ s \in {0, Half} /\ t \in {0, Half}
      BY <1>11, Zenon
    <2>. QED
      BY ONLY <1>15, <2>1
  <1>17. a + b = (low[W - 1] - s) + (any[W - 1] - t)
    <2>1. (low[W - 1] - s) + (any[W - 1] - t) = (low[W - 1] + any[W - 1]) - (s + t)
      BY ONLY <1>15, <1>16
    <2>2. (LowBits(a, W - 1) - x) + (LowBits(b, W - 1) - y)
            = (LowBits(a, W - 1) + LowBits(b, W - 1)) - (x + y)
      BY ONLY <1>14, <1>16
    <2>. QED
      BY <1>12, <1>14, <1>15, <2>1, <2>2, Zenon
  <1>18. one[W - 1] - u = (any[W - 1] - t) - (low[W - 1] - s)
    BY ONLY <1>12, <1>15, <1>16
  <1>. QED
    BY <1>13, <1>17, <1>18

(* All bits turned over, an int is -a - 1. *)
LEMMA ComplementProperties ==
  ASSUME NEW a \in Int_t
  PROVE  Complement(a) = -a - 1
  <1>1. a \in Int /\ W - 1 \in Nat /\ W \in 1 .. W /\ W - 1 \in 0 .. W
    BY WidthProperties, WidthAssumption DEF Int_t
  <1>2. PICK low \in [0 .. W -> Int] :
          /\ low[0] = 0
          /\ \A k \in 1 .. W : low[k] = low[k - 1] + (1 - Bit(a, k - 1)) * 2^(k - 1)
          /\ Complement(a) = Wrap(low[W])
    BY <1>1, ComplementIsASum
  <1>. DEFINE Turned(n) == low[n] = 2^n - 1 - LowBits(a, n)
              P == {n \in Nat : n <= W => Turned(n)}
  <1>3. 0 \in P
    <2>1. 2^0 = 1
      OBVIOUS
    <2>. QED
      BY <1>1, <1>2, <2>1, LowBitsProperties
  <1>4. ASSUME NEW n \in Nat, n \in P PROVE n + 1 \in P
    <2>1. ASSUME n + 1 <= W PROVE Turned(n + 1)
      <3>1. n + 1 \in 1 .. W /\ (n + 1) - 1 = n
        BY <1>1, <2>1
      <3>2. Turned(n)
        <4>. HIDE DEF Turned
        <4>. QED
          BY <1>1, <1>4, <2>1
      <3>. DEFINE p == 2^n
      <3>3. p \in Nat \ {0} /\ 2^(n + 1) = 2 * p
        BY PowerOfTwo
      <3>4. Bit(a, n) \in {0, 1}
        BY <1>1, BitType
      <3>5. /\ low[n + 1] = low[n] + (1 - Bit(a, n)) * p
            /\ LowBits(a, n + 1) = LowBits(a, n) + Bit(a, n) * p
            /\ LowBits(a, n) \in Int
        BY <1>1, <1>2, <3>1, <3>3, LowBitsProperties
      <3>6. low[n] = p - 1 - LowBits(a, n)
        BY <3>2
      <3>. HIDE DEF p
      <3>7. low[n + 1] = 2 * p - 1 - LowBits(a, n + 1)
        <4>1. CASE Bit(a, n) = 0
          BY <3>3, <3>5, <3>6, <4>1
        <4>2. CASE Bit(a, n) = 1
          BY <3>3, <3>5, <3>6, <4>2
        <4>. QED
          BY <3>4, <4>1, <4>2
      <3>. QED
        BY <3>3, <3>7
    <2>. HIDE DEF Turned
    <2>. QED
      BY <2>1
  <1>5. Nat \subseteq P
    <2>. HIDE DEF P
    <2>. QED
      BY <1>3, <1>4, SetInduction
  <1>. DEFINE r == LowBits(a, W - 1)
              t == Bit(a, W - 1)
  <1>6. r \in 0 .. Half - 1 /\ t \in {0, 1} /\ a = r - t * Half /\ Half \in Nat
    BY IntIsBits, WidthProperties
  <1>7. low[W - 1] = Half - 1 - r
    <2>1. Turned(W - 1)
      <3>. HIDE DEF Turned
      <3>. QED
        BY <1>1, <1>5
    <2>. QED
      BY <2>1 DEF Half
  <1>8. low[W] = low[W - 1] + (1 - t) * Half
    BY <1>1, <1>2 DEF Half
  <1>. HIDE DEF r, t
  <1>9. \E z \in {0, Half} : low[W] = low[W - 1] + z /\ (Half - 1 - r) - z = -a - 1
    <2>1. CASE t = 0
      BY <1>6, <1>7, <1>8, <2>1
    <2>2. CASE t = 1
      BY <1>6, <1>7, <1>8, <2>2
    <2>. QED
      BY <1>6, <2>1, <2>2
  <1>10. low[W - 1] \in 0 .. Half - 1
    BY <1>6, <1>7
  <1>. QED
    BY <1>2, <1>7, <1>9, <1>10, WrapOfBits

(* ineg adds one to the complement, which is the wrapped negation. *)
LEMMA NegationProperties ==
  ASSUME NEW a \in Int_t
  PROVE  _logical_neg(a) = Wrap(-a)
  <1>1. a \in Int
    BY WidthProperties DEF Int_t
  <1>2. Complement(a) + 1 = -a
    BY <1>1, ComplementProperties
  <1>. QED
    BY <1>2 DEF _logical_neg

-----------------------------------------------------------------------------
(* Division towards zero. *)
LEMMA QuotientProperties ==
  ASSUME NEW a \in Int, NEW b \in Int, b # 0
  PROVE  \E q, r \in Int :
           /\ q = Quotient(a, b) /\ r = _integer_rem(a, b) /\ a = b * q + r
           /\ Magnitude(r) < Magnitude(b) /\ (r = 0 \/ (r < 0) = (a < 0))
           /\ Magnitude(q) \in 0 .. Magnitude(a)
           /\ Magnitude(b) > 1 /\ a # 0 => Magnitude(q) < Magnitude(a)
           /\ b = 1 => q = a
           /\ b = -1 => q = -a
  <1>. DEFINE m == Magnitude(a)
              n == Magnitude(b)
  <1>1. m \in Nat /\ n \in Nat \ {0} /\ (m = 0 <=> a = 0)
    BY DEF Magnitude
  <1>. HIDE DEF m, n
  <1>2. PICK d \in Int, e \in 0 .. n - 1 : d = m \div n /\ e = m % n /\ m = n * d + e
    BY <1>1, DivisionProperties
  <1>3. d \in 0 .. m /\ (n > 1 /\ m # 0 => d < m) /\ (n = 1 => d = m)
    <2>1. \A x \in Nat, y \in Nat \ {0} : x \div y \in 0 .. x /\ (y > 1 /\ x # 0 => x \div y < x)
                                            /\ (y = 1 => x \div y = x)
      OBVIOUS
    <2>. QED
      BY <1>1, <1>2, <2>1
  <1>4. m = n * d + e /\ n * d \in Int /\ e \in 0 .. n - 1 /\ d \in Nat
    BY <1>1, <1>2, <1>3
  <1>5. (-n) * d = -(n * d) /\ n * (-d) = -(n * d) /\ (-n) * (-d) = n * d
    BY <1>1, <1>4
  <1>. DEFINE q == IF (a < 0) = (b < 0) THEN d ELSE -d
              r == IF a < 0 THEN -e ELSE e
  <1>6. q = Quotient(a, b)
    BY <1>2 DEF Quotient, m, n
  <1>7. a = b * q + r
    <2>1. CASE a < 0 /\ b < 0
      <3>1. a = -m /\ b = -n /\ q = d /\ r = -e
        BY <2>1 DEF Magnitude, m, n
      <3>. QED
        BY <1>1, <1>4, <1>5, <3>1
    <2>2. CASE a < 0 /\ ~(b < 0)
      <3>1. a = -m /\ b = n /\ q = -d /\ r = -e
        BY <2>2 DEF Magnitude, m, n
      <3>. QED
        BY <1>1, <1>4, <1>5, <3>1
    <2>3. CASE ~(a < 0) /\ b < 0
      <3>1. a = m /\ b = -n /\ q = -d /\ r = e
        BY <2>3 DEF Magnitude, m, n
      <3>. QED
        BY <1>1, <1>4, <1>5, <3>1
    <2>4. CASE ~(a < 0) /\ ~(b < 0)
      <3>1. a = m /\ b = n /\ q = d /\ r = e
        BY <2>4 DEF Magnitude, m, n
      <3>. QED
        BY <1>1, <1>4, <1>5, <3>1
    <2>. QED
      BY <2>1, <2>2, <2>3, <2>4
  <1>8. /\ q \in Int /\ r \in Int
        /\ Magnitude(q) = d /\ Magnitude(r) = e /\ (r = 0 \/ (r < 0) = (a < 0))
    BY <1>1, <1>4 DEF Magnitude
  <1>9. b = 1 => q = a
    BY <1>3 DEF m, n, Magnitude
  <1>10. ASSUME b = -1 PROVE q = -a
    <2>1. d = m
      <3>0. b < 0 /\ b + 1 = 0
        BY <1>10
      <3>1. n = 1
        BY <3>0 DEF n, Magnitude
      <3>. QED
        BY <1>3, <3>1
    <2>2. b < 0
      BY <1>10
    <2>3. CASE a < 0
      BY <1>1, <1>4, <2>1, <2>2, <2>3 DEF m, Magnitude
    <2>4. CASE ~(a < 0)
      BY <1>1, <1>4, <2>1, <2>2, <2>4 DEF m, Magnitude
    <2>. QED
      BY <2>3, <2>4
  <1>. HIDE DEF q, r
  <1>11. r = _integer_rem(a, b)
    <2>1. b * q \in Int
      BY <1>8
    <2>2. r = a - b * q
      BY <1>7, <1>8, <2>1
    <2>. QED
      BY <1>6, <2>2 DEF _integer_rem
  <1>12. /\ Magnitude(r) < Magnitude(b) /\ Magnitude(q) \in 0 .. Magnitude(a)
         /\ Magnitude(b) > 1 /\ a # 0 => Magnitude(q) < Magnitude(a)
    BY <1>1, <1>3, <1>4, <1>8 DEF m, n
  <1>. QED
    BY <1>6, <1>7, <1>8, <1>9, <1>10, <1>11, <1>12, Zenon

(* Unless the processor traps, quotient and remainder are ints. *)
LEMMA DivisionOfInts ==
  ASSUME NEW a \in Int_t, NEW b \in Int_t, ~Traps(a, b)
  PROVE  _integer_div(a, b) \in Int_t /\ _integer_rem(a, b) \in Int_t
  <1>1. /\ a \in Int /\ b \in Int /\ b # 0 /\ ~(a = -Half /\ b = -1)
        /\ -Half <= a /\ a <= Half - 1 /\ -Half <= b /\ b <= Half - 1
        /\ Half \in Nat \ {0}
    BY WidthProperties DEF Int_t, Traps
  <1>2. PICK q, r \in Int :
           /\ q = Quotient(a, b) /\ r = _integer_rem(a, b) /\ a = b * q + r
           /\ Magnitude(r) < Magnitude(b) /\ (r = 0 \/ (r < 0) = (a < 0))
           /\ Magnitude(q) \in 0 .. Magnitude(a)
           /\ Magnitude(b) > 1 /\ a # 0 => Magnitude(q) < Magnitude(a)
           /\ b = 1 => q = a
           /\ b = -1 => q = -a
    BY <1>1, QuotientProperties
  <1>3. /\ Magnitude(r) < Magnitude(b)
        /\ Magnitude(q) \in 0 .. Magnitude(a)
        /\ Magnitude(b) > 1 /\ a # 0 => Magnitude(q) < Magnitude(a)
        /\ b = 1 => q = a
        /\ b = -1 => q = -a
    BY <1>2, Zenon
  <1>4. q \in -Half .. Half - 1
    BY ONLY <1>1, <1>3, q \in Int DEF Magnitude
  <1>5. r \in -Half .. Half - 1
    BY ONLY <1>1, <1>3, r \in Int DEF Magnitude
  <1>. QED
    BY <1>2, <1>4, <1>5, WidthProperties DEF Int_t, _integer_div

-----------------------------------------------------------------------------
(* Every result is an int. *)
LEMMA ResultsAreInts ==
  ASSUME NEW a \in Int_t, NEW b \in Int_t
  PROVE  /\ _integer_sum(a, b) \in Int_t /\ _integer_sub(a, b) \in Int_t
         /\ _integer_mul(a, b) \in Int_t
         /\ _logical_and(a, b) \in Int_t /\ _logical_or(a, b) \in Int_t
         /\ _logical_xor(a, b) \in Int_t /\ _logical_neg(a) \in Int_t
  <1>1. a \in Int /\ b \in Int /\ W \in 0 .. W
    BY WidthProperties, WidthAssumption DEF Int_t
  <1>2. a + b \in Int /\ a - b \in Int /\ a * b \in Int /\ -a \in Int
    BY <1>1
  <1>3. \A low \in [0 .. W -> Int] : Wrap(low[W]) \in Int_t
    BY <1>1, WrapProperties
  <1>4. _logical_and(a, b) \in Int_t
    BY <1>1, <1>3, AndIsASum
  <1>5. _logical_or(a, b) \in Int_t
    BY <1>1, <1>3, OrIsASum
  <1>6. _logical_xor(a, b) \in Int_t
    BY <1>1, <1>3, XorIsASum
  <1>7. _logical_neg(a) \in Int_t
    BY <1>2, WrapProperties, NegationProperties
  <1>. QED
    BY <1>2, <1>4, <1>5, <1>6, <1>7, WrapProperties DEF _integer_sum, _integer_sub, _integer_mul
=============================================================================
