----------------------------- MODULE StackProofs -----------------------------
(***************************************************************************)
(* The list of stack.c is the sequence its callers take it for, and the    *)
(* heap holds nothing but the list and the nodes that stack_push lost.     *)
(***************************************************************************)
EXTENDS Stack, SharedLemmas, SequenceTheorems

(* What hangs from a top, for any heap: the operators of Stack with their   *)
(* state as parameters, so that what is proved of them holds after a step   *)
(* as well as before it.                                                    *)
Hanging(nd, t, n) ==
  LET f[k \in 0 .. n] ==
        IF k = 0 THEN t
        ELSE IF f[k - 1] \in DOMAIN nd THEN nd[f[k - 1]]._lower ELSE NULL
  IN  f[n]

Listed(nd, dt, t, n) ==
  [k \in 1 .. n |->
     LET a == Hanging(nd, t, n - k) IN
     IF a \in DOMAIN nd /\ nd[a]._data \in DOMAIN dt THEN dt[nd[a]._data] ELSE NULL]

(* The operators of Stack are those with parameters, before and after a step. *)
LEMMA StackOperators ==
  /\ \A n : Below(n) = Hanging(node, _top, n)
  /\ Contents = Listed(node, data, _top, _stack_size)
  /\ Contents' = Listed(node', data', _top', _stack_size')
  <1>1. \A n : Below(n) = Hanging(node, _top, n)
    BY DEF Below, Hanging
  <1>2. Contents = Listed(node, data, _top, _stack_size)
    BY <1>1 DEF Contents, Listed
  <1>3. Contents' = Listed(node', data', _top', _stack_size')
    BY DEF Contents, Listed, Below, Hanging
  <1>. QED
    BY <1>1, <1>2, <1>3

(* c lists the nodes from t down. *)
Chain(nd, t, c, n) ==
  /\ n \in Nat /\ c[0] = t /\ c[n] = NULL
  /\ \A k \in 0 .. n - 1 : c[k] \in DOMAIN nd /\ nd[c[k]]._lower = c[k + 1]

(* A chain of nodes is what is found going down from its top. *)
LEMMA HangingIsTheChain ==
  ASSUME NEW nd, NEW t, NEW c, NEW n, Chain(nd, t, c, n)
  PROVE  \A m \in 0 .. n : Hanging(nd, t, m) = c[m]
  <1>. SUFFICES ASSUME NEW m \in 0 .. n
                PROVE  Hanging(nd, t, m) = c[m]
    OBVIOUS
  <1>. DEFINE F(f) == [k \in 0 .. m |-> IF k = 0 THEN t
                         ELSE IF f[k - 1] \in DOMAIN nd THEN nd[f[k - 1]]._lower ELSE NULL]
              g == [k \in 0 .. m |-> c[k]]
              f == CHOOSE f : f = F(f)
              P == {k \in Nat : k <= m => f[k] = c[k]}
  <1>1. n \in Nat /\ m \in Nat /\ m <= n /\ c[0] = t
    BY DEF Chain
  <1>2. \A k \in 1 .. m : c[k - 1] \in DOMAIN nd /\ nd[c[k - 1]]._lower = c[k]
    <2>1. ASSUME NEW k \in 1 .. m PROVE k - 1 \in 0 .. n - 1 /\ (k - 1) + 1 = k
      BY <1>1
    <2>. QED
      BY <2>1 DEF Chain
  <1>3. g = F(g)
    <2>1. \A k \in 0 .. m : k # 0 => k \in 1 .. m /\ k - 1 \in 0 .. m
      BY <1>1
    <2>. QED
      BY <1>1, <1>2, <2>1
  <1>4. f = F(f)
    BY <1>3, Zenon
  <1>5. 0 \in P
    <2>1. 0 \in 0 .. m
      BY <1>1
    <2>. QED
      BY <1>1, <1>4, <2>1
  <1>6. ASSUME NEW k \in Nat, k \in P PROVE k + 1 \in P
    <2>1. ASSUME k + 1 <= m PROVE f[k + 1] = c[k + 1]
      <3>1. k + 1 \in 0 .. m /\ k + 1 # 0 /\ (k + 1) - 1 = k /\ k + 1 \in 1 .. m
        BY <1>1, <2>1
      <3>2. f[k] = c[k]
        BY <1>1, <1>6, <2>1
      <3>3. f[k + 1] = IF f[k] \in DOMAIN nd THEN nd[f[k]]._lower ELSE NULL
        BY <1>4, <3>1
      <3>. QED
        BY <1>2, <3>1, <3>2, <3>3
    <2>. QED
      BY <2>1
  <1>7. Nat \subseteq P
    <2>. HIDE DEF P
    <2>. QED
      BY <1>5, <1>6, SetInduction
  <1>8. Hanging(nd, t, m) = f[m]
    BY DEF Hanging
  <1>. HIDE DEF f
  <1>. QED
    BY <1>1, <1>7, <1>8

-----------------------------------------------------------------------------
(* A heap that holds a stack of n operands and the lost nodes.              *)
Heaped(nd, dt, t, n, lost, c) ==
  /\ Chain(nd, t, c, n)
  /\ \A j, k \in 0 .. n - 1 : nd[c[j]]._data = nd[c[k]]._data => j = k
  /\ DOMAIN nd = {c[k] : k \in 0 .. n - 1} \cup lost
  /\ \A k \in 0 .. n - 1 : c[k] \notin lost
  /\ DOMAIN dt = {nd[c[k]]._data : k \in 0 .. n - 1}
  /\ \A d \in DOMAIN dt : dt[d] \in Int_t
  /\ NULL \notin DOMAIN nd

(* The elements of a chain, from the bottom to the top. *)
LEMMA ListedProperties ==
  ASSUME NEW nd, NEW dt, NEW t, NEW n, NEW lost, NEW c, Heaped(nd, dt, t, n, lost, c)
  PROVE  /\ Listed(nd, dt, t, n) \in Seq(Int_t) /\ Len(Listed(nd, dt, t, n)) = n
         /\ \A k \in 1 .. n : Listed(nd, dt, t, n)[k] = dt[nd[c[n - k]]._data]
  <1>1. n \in Nat
    BY DEF Heaped, Chain
  <1>2. ASSUME NEW k \in 1 .. n
        PROVE  /\ Listed(nd, dt, t, n)[k] = dt[nd[c[n - k]]._data]
               /\ dt[nd[c[n - k]]._data] \in Int_t
    <2>1. n - k \in 0 .. n - 1 /\ n - k \in 0 .. n
      BY <1>1
    <2>2. Hanging(nd, t, n - k) = c[n - k]
      BY <2>1, HangingIsTheChain DEF Heaped
    <2>3. c[n - k] \in DOMAIN nd /\ nd[c[n - k]]._data \in DOMAIN dt
      BY <2>1 DEF Heaped, Chain
    <2>4. dt[nd[c[n - k]]._data] \in Int_t
      BY <2>3 DEF Heaped
    <2>. QED
      BY <2>2, <2>3, <2>4, Zenon DEF Listed
  <1>3. Listed(nd, dt, t, n) = [k \in 1 .. n |-> Listed(nd, dt, t, n)[k]]
    BY DEF Listed
  <1>4. Listed(nd, dt, t, n) \in [1 .. n -> Int_t]
    BY <1>2, <1>3
  <1>5. Listed(nd, dt, t, n) \in Seq(Int_t)
    <2>. DEFINE s == Listed(nd, dt, t, n)
    <2>. HIDE DEF s
    <2>1. \E m \in Nat : s \in [1 .. m -> Int_t]
      BY <1>1, <1>4, Zenon DEF s
    <2>2. s \in Seq(Int_t)
      BY ONLY <2>1, SeqDef
    <2>. QED
      BY <2>2 DEF s
  <1>6. Len(Listed(nd, dt, t, n)) = n
    <2>. DEFINE s == Listed(nd, dt, t, n)
    <2>1. DOMAIN s = 1 .. n
      BY <1>3, Zenon
    <2>. HIDE DEF s
    <2>2. s \in Seq(Int_t) /\ Len(s) \in Nat /\ DOMAIN s = 1 .. Len(s)
      BY <1>5, LenProperties DEF s
    <2>3. Len(s) = n
      BY ONLY <1>1, <2>1, <2>2
    <2>. QED
      BY <2>3 DEF s
  <1>. QED
    BY <1>2, <1>5, <1>6

(* A node and an element in fresh blocks lengthen the chain at its top. *)
LEMMA HeapPushed ==
  ASSUME NEW nd, NEW dt, NEW t, NEW n, NEW lost, NEW c, Heaped(nd, dt, t, n, lost, c),
         NEW a, a \notin DOMAIN nd, a # NULL, NEW d, d \notin DOMAIN dt, NEW x \in Int_t,
         NEW nd2, nd2 = With(nd, a, [_data |-> d, _lower |-> t]),
         NEW dt2, dt2 = With(dt, d, x)
  PROVE  /\ \E e : Heaped(nd2, dt2, a, n + 1, lost, e)
         /\ Listed(nd2, dt2, a, n + 1) = Append(Listed(nd, dt, t, n), x)
  <1>. DEFINE e == [k \in 0 .. n + 1 |-> IF k = 0 THEN a ELSE c[k - 1]]
  <1>1. /\ n \in Nat /\ c[0] = t /\ c[n] = NULL
        /\ \A k \in 0 .. n - 1 : c[k] \in DOMAIN nd /\ nd[c[k]]._lower = c[k + 1]
    BY DEF Heaped, Chain
  <1>2. /\ DOMAIN nd2 = DOMAIN nd \cup {a} /\ nd2[a]._data = d /\ nd2[a]._lower = t
        /\ \A b \in DOMAIN nd : nd2[b] = nd[b]
        /\ DOMAIN dt2 = DOMAIN dt \cup {d} /\ dt2[d] = x
        /\ \A b \in DOMAIN dt : dt2[b] = dt[b]
    <2>1. /\ DOMAIN nd2 = DOMAIN nd \cup {a} /\ nd2[a] = [_data |-> d, _lower |-> t]
          /\ \A b \in DOMAIN nd \ {a} : nd2[b] = nd[b]
      BY DEF With
    <2>2. /\ DOMAIN dt2 = DOMAIN dt \cup {d} /\ dt2[d] = x
          /\ \A b \in DOMAIN dt \ {d} : dt2[b] = dt[b]
      BY DEF With
    <2>3. nd2[a]._data = d /\ nd2[a]._lower = t
      BY <2>1
    <2>. QED
      BY <2>1, <2>2, <2>3
  <1>3. e[0] = a /\ \A k \in 0 .. n : e[k + 1] = c[k]
    <2>1. \A k \in 0 .. n : k + 1 \in 0 .. n + 1 /\ k + 1 # 0 /\ (k + 1) - 1 = k
      BY <1>1
    <2>2. 0 \in 0 .. n + 1
      BY <1>1
    <2>. QED
      BY <2>1, <2>2
  <1>. HIDE DEF e
  <1>4. \A k \in 0 .. n : k = 0 \/ \E j \in 0 .. n - 1 : k = j + 1
    <2>1. ASSUME NEW k \in 0 .. n, k # 0 PROVE k - 1 \in 0 .. n - 1 /\ k = (k - 1) + 1
      BY <1>1, <2>1
    <2>. QED
      BY <2>1
  <1>5. \A j \in 0 .. n - 1 : j \in 0 .. n /\ j + 1 \in 0 .. n /\ j + 1 # 0
    BY <1>1
  <1>6. \A k \in 0 .. n - 1 : /\ e[k + 1] = c[k] /\ nd2[e[k + 1]] = nd[c[k]]
                              /\ nd[c[k]]._data \in DOMAIN dt /\ nd[c[k]]._data # d
    <2>1. \A k \in 0 .. n - 1 : nd[c[k]]._data \in DOMAIN dt
      BY DEF Heaped
    <2>. QED
      BY <1>1, <1>2, <1>3, <1>5, <2>1
  <1>7. Chain(nd2, a, e, n + 1)
    <2>1. e[n + 1] = NULL
      BY <1>1, <1>3
    <2>2. ASSUME NEW k \in 0 .. n PROVE e[k] \in DOMAIN nd2 /\ nd2[e[k]]._lower = e[k + 1]
      <3>1. CASE k = 0
        <4>1. e[0 + 1] = c[0]
          BY <1>1, <1>3
        <4>. QED
          BY <1>1, <1>2, <1>3, <3>1, <4>1
      <3>2. CASE k # 0
        <4>1. PICK j \in 0 .. n - 1 : k = j + 1
          BY <1>4, <3>2
        <4>2. e[(j + 1) + 1] = c[j + 1]
          BY <1>3, <1>5
        <4>. QED
          BY <1>1, <1>2, <1>6, <4>1, <4>2
      <3>. QED
        BY <3>1, <3>2
    <2>3. n + 1 \in Nat /\ (n + 1) - 1 = n
      BY <1>1
    <2>. QED
      BY <1>3, <2>1, <2>2, <2>3 DEF Chain
  <1>8. \A j, k \in 0 .. n : nd2[e[j]]._data = nd2[e[k]]._data => j = k
    <2>. SUFFICES ASSUME NEW j \in 0 .. n, NEW k \in 0 .. n, nd2[e[j]]._data = nd2[e[k]]._data
                  PROVE  j = k
      OBVIOUS
    <2>1. nd2[e[0]]._data = d
      BY <1>2, <1>3
    <2>2. \A m \in 0 .. n - 1 : nd2[e[m + 1]]._data # d
      BY <1>6
    <2>3. \A p, q \in 0 .. n - 1 : nd2[e[p + 1]]._data = nd2[e[q + 1]]._data => p = q
      BY <1>6 DEF Heaped
    <2>. QED
      BY <1>4, <2>1, <2>2, <2>3
  <1>9. {e[k] : k \in 0 .. n} = {a} \cup {c[k] : k \in 0 .. n - 1}
    <2>1. \A k \in 0 .. n : e[k] \in {a} \cup {c[m] : m \in 0 .. n - 1}
      BY <1>3, <1>4, <1>6
    <2>2. 0 \in 0 .. n /\ e[0] = a
      BY <1>1, <1>3
    <2>3. \A m \in 0 .. n - 1 : \E k \in 0 .. n : e[k] = c[m]
      BY <1>5, <1>6
    <2>. QED
      BY <2>1, <2>2, <2>3
  <1>10. {nd2[e[k]]._data : k \in 0 .. n} = {d} \cup {nd[c[k]]._data : k \in 0 .. n - 1}
    <2>1. \A k \in 0 .. n : nd2[e[k]]._data \in {d} \cup {nd[c[m]]._data : m \in 0 .. n - 1}
      BY <1>2, <1>3, <1>4, <1>6
    <2>2. 0 \in 0 .. n /\ nd2[e[0]]._data = d
      BY <1>1, <1>2, <1>3
    <2>3. \A m \in 0 .. n - 1 : \E k \in 0 .. n : nd2[e[k]]._data = nd[c[m]]._data
      BY <1>5, <1>6
    <2>. QED
      BY <2>1, <2>2, <2>3
  <1>11. Heaped(nd2, dt2, a, n + 1, lost, e)
    <2>1. (n + 1) - 1 = n
      BY <1>1
    <2>2. DOMAIN nd2 = {e[k] : k \in 0 .. n} \cup lost
      BY <1>2, <1>9 DEF Heaped
    <2>3. \A k \in 0 .. n : e[k] \notin lost
      <3>1. a \notin lost /\ \A k \in 0 .. n - 1 : c[k] \notin lost
        BY DEF Heaped
      <3>. QED
        BY <1>3, <1>4, <1>6, <3>1
    <2>4. DOMAIN dt2 = {nd2[e[k]]._data : k \in 0 .. n}
      BY <1>2, <1>10 DEF Heaped
    <2>5. /\ \A z \in DOMAIN dt2 : dt2[z] \in Int_t
          /\ NULL \notin DOMAIN nd2
      BY <1>2 DEF Heaped
    <2>. QED
      BY <1>7, <1>8, <2>1, <2>2, <2>3, <2>4, <2>5 DEF Heaped
  <1>. DEFINE l == Listed(nd, dt, t, n)
              l2 == Listed(nd2, dt2, a, n + 1)
  <1>12. /\ l \in Seq(Int_t) /\ Len(l) = n
         /\ \A k \in 1 .. n : l[k] = dt[nd[c[n - k]]._data]
         /\ l2 \in Seq(Int_t) /\ Len(l2) = n + 1
         /\ \A k \in 1 .. n + 1 : l2[k] = dt2[nd2[e[(n + 1) - k]]._data]
    BY <1>11, ListedProperties
  <1>13. l2[n + 1] = x
    <2>1. n + 1 \in 1 .. n + 1 /\ (n + 1) - (n + 1) = 0
      BY <1>1
    <2>. QED
      BY <1>2, <1>3, <1>12, <2>1
  <1>14. ASSUME NEW k \in 1 .. n PROVE l2[k] = l[k]
    <2>1. k \in 1 .. n + 1 /\ n - k \in 0 .. n - 1 /\ (n + 1) - k = (n - k) + 1
      BY <1>1
    <2>2. l[k] = dt[nd[c[n - k]]._data] /\ l2[k] = dt2[nd2[e[(n - k) + 1]]._data]
      BY <1>12, <2>1
    <2>3. /\ nd2[e[(n - k) + 1]] = nd[c[n - k]]
          /\ nd[c[n - k]]._data \in DOMAIN dt
      BY <1>6, <2>1
    <2>. QED
      BY <1>2, <2>2, <2>3
  <1>. HIDE DEF l, l2
  <1>15. l2 = Append(l, x)
    <2>1. /\ Append(l, x) \in Seq(Int_t) /\ Len(Append(l, x)) = n + 1
          /\ Append(l, x)[n + 1] = x /\ \A k \in 1 .. n : Append(l, x)[k] = l[k]
      BY <1>12, AppendProperties
    <2>2. \A k \in 1 .. n + 1 : l2[k] = Append(l, x)[k]
      <3>1. \A k \in 1 .. n + 1 : k = n + 1 \/ k \in 1 .. n
        BY <1>1
      <3>. QED
        BY <1>13, <1>14, <2>1, <3>1
    <2>. QED
      BY <1>12, <2>1, <2>2, SeqEqual
  <1>. QED
    BY <1>11, <1>15 DEF l, l2

(* Freeing the top and its element leaves the chain below it. *)
LEMMA HeapUnlinked ==
  ASSUME NEW nd, NEW dt, NEW t, NEW n, NEW lost, NEW c, Heaped(nd, dt, t, n, lost, c), t # NULL,
         NEW nd2, nd2 = Without(nd, t), NEW dt2, dt2 = Without(dt, nd[t]._data)
  PROVE  /\ n >= 1
         /\ Listed(nd, dt, t, n)[n] = dt[nd[t]._data]
         /\ \E e : Heaped(nd2, dt2, nd[t]._lower, n - 1, lost, e)
         /\ Listed(nd2, dt2, nd[t]._lower, n - 1) = SubSeq(Listed(nd, dt, t, n), 1, n - 1)
  <1>. DEFINE e == [k \in 0 .. n - 1 |-> c[k + 1]]
              d == nd[t]._data
              low == nd[t]._lower
  <1>1. /\ n \in Nat /\ c[0] = t /\ c[n] = NULL
        /\ \A k \in 0 .. n - 1 : c[k] \in DOMAIN nd /\ nd[c[k]]._lower = c[k + 1]
    BY DEF Heaped, Chain
  <1>2. n >= 1 /\ n - 1 \in Nat /\ (n - 1) + 1 = n /\ 0 \in 0 .. n - 1
    BY <1>1
  <1>3. \A k \in 0 .. (n - 1) - 1 : k \in 0 .. n - 1 /\ k + 1 \in 0 .. n - 1 /\ k + 1 # 0
    BY <1>1
  <1>4. \A k \in 0 .. n - 1 : k = 0 \/ \E j \in 0 .. (n - 1) - 1 : k = j + 1
    <2>1. ASSUME NEW k \in 0 .. n - 1, k # 0 PROVE k - 1 \in 0 .. (n - 1) - 1 /\ k = (k - 1) + 1
      BY <1>1, <2>1
    <2>. QED
      BY <2>1
  <1>5. \A k \in 0 .. n - 1 : e[k] = c[k + 1]
    OBVIOUS
  <1>6. t \in DOMAIN nd /\ d \in DOMAIN dt /\ low = c[1]
    <2>1. c[0] \in DOMAIN nd /\ nd[c[0]]._lower = c[0 + 1] /\ nd[c[0]]._data \in DOMAIN dt
      BY <1>1, <1>2 DEF Heaped
    <2>. QED
      BY <1>1, <2>1
  <1>. HIDE DEF e, d, low
  <1>7. /\ DOMAIN nd2 = DOMAIN nd \ {t} /\ \A b \in DOMAIN nd \ {t} : nd2[b] = nd[b]
        /\ DOMAIN dt2 = DOMAIN dt \ {d} /\ \A b \in DOMAIN dt \ {d} : dt2[b] = dt[b]
    BY DEF Without, d
  (* The nodes below are others than the top, and so are their elements. *)
  <1>8. \A k \in 0 .. (n - 1) - 1 :
          /\ e[k] = c[k + 1] /\ e[k] \in DOMAIN nd \ {t} /\ nd2[e[k]] = nd[c[k + 1]]
          /\ nd[c[k + 1]]._data \in DOMAIN dt \ {d}
    <2>. SUFFICES ASSUME NEW k \in 0 .. (n - 1) - 1
                  PROVE  /\ e[k] = c[k + 1] /\ e[k] \in DOMAIN nd \ {t} /\ nd2[e[k]] = nd[c[k + 1]]
                         /\ nd[c[k + 1]]._data \in DOMAIN dt \ {d}
      OBVIOUS
    <2>1. k \in 0 .. n - 1 /\ k + 1 \in 0 .. n - 1 /\ k + 1 # 0
      BY <1>3
    <2>2. e[k] = c[k + 1] /\ c[k + 1] \in DOMAIN nd /\ nd[c[k + 1]]._data \in DOMAIN dt
      BY <1>1, <1>5, <2>1 DEF Heaped
    <2>3. nd[c[k + 1]]._data # nd[c[0]]._data
      BY <1>2, <2>1 DEF Heaped
    <2>4. nd[c[k + 1]]._data # d /\ c[k + 1] # t
      BY <1>1, <2>3 DEF d
    <2>. QED
      BY <1>7, <2>2, <2>4
  <1>9. Chain(nd2, low, e, n - 1)
    <2>1. e[0] = low /\ e[n - 1] = NULL
      <3>1. n - 1 \in 0 .. n - 1 /\ 0 + 1 = 1
        BY <1>2
      <3>. QED
        BY <1>1, <1>2, <1>5, <1>6, <3>1
    <2>2. ASSUME NEW k \in 0 .. (n - 1) - 1 PROVE e[k] \in DOMAIN nd2 /\ nd2[e[k]]._lower = e[k + 1]
      <3>1. nd[c[k + 1]]._lower = c[(k + 1) + 1] /\ e[k + 1] = c[(k + 1) + 1]
        BY <1>1, <1>3, <1>5
      <3>. QED
        BY <1>7, <1>8, <3>1
    <2>. QED
      BY <1>2, <2>1, <2>2 DEF Chain
  <1>10. Heaped(nd2, dt2, low, n - 1, lost, e)
    <2>1. \A j, k \in 0 .. (n - 1) - 1 : nd2[e[j]]._data = nd2[e[k]]._data => j = k
      <3>1. \A j, k \in 0 .. (n - 1) - 1 : nd[c[j + 1]]._data = nd[c[k + 1]]._data => j + 1 = k + 1
        BY <1>3 DEF Heaped
      <3>2. \A j, k \in 0 .. (n - 1) - 1 : j + 1 = k + 1 => j = k
        OBVIOUS
      <3>. QED
        BY <1>8, <3>1, <3>2
    <2>2. DOMAIN nd2 = {e[k] : k \in 0 .. (n - 1) - 1} \cup lost
      <3>1. DOMAIN nd = {c[k] : k \in 0 .. n - 1} \cup lost /\ t \notin lost
        BY <1>1, <1>2 DEF Heaped
      <3>2. \A k \in 0 .. n - 1 : c[k] = t \/ \E j \in 0 .. (n - 1) - 1 : c[k] = e[j]
        BY <1>1, <1>4, <1>8
      <3>3. \A j \in 0 .. (n - 1) - 1 : e[j] \in DOMAIN nd /\ e[j] # t
        BY <1>8
      <3>4. ASSUME NEW z \in DOMAIN nd2 PROVE z \in {e[k] : k \in 0 .. (n - 1) - 1} \cup lost
        BY <1>7, <3>1, <3>2
      <3>. QED
        BY <1>7, <3>1, <3>3, <3>4
    <2>3. \A k \in 0 .. (n - 1) - 1 : e[k] \notin lost
      <3>1. \A k \in 0 .. (n - 1) - 1 : c[k + 1] \notin lost
        BY <1>3 DEF Heaped
      <3>. QED
        BY <1>8, <3>1
    <2>4. DOMAIN dt2 = {nd2[e[k]]._data : k \in 0 .. (n - 1) - 1}
      <3>1. DOMAIN dt = {nd[c[k]]._data : k \in 0 .. n - 1}
        BY DEF Heaped
      <3>2. \A k \in 0 .. n - 1 : nd[c[k]]._data = d
                               \/ \E j \in 0 .. (n - 1) - 1 : nd[c[k]]._data = nd2[e[j]]._data
        BY <1>1, <1>4, <1>8 DEF d
      <3>3. \A j \in 0 .. (n - 1) - 1 : nd2[e[j]]._data \in DOMAIN dt /\ nd2[e[j]]._data # d
        BY <1>8
      <3>4. ASSUME NEW z \in DOMAIN dt2 PROVE z \in {nd2[e[k]]._data : k \in 0 .. (n - 1) - 1}
        BY <1>7, <3>1, <3>2
      <3>. QED
        BY <1>7, <3>3, <3>4
    <2>5. (\A z \in DOMAIN dt2 : dt2[z] \in Int_t) /\ NULL \notin DOMAIN nd2
      BY <1>7 DEF Heaped
    <2>. QED
      BY <1>9, <2>1, <2>2, <2>3, <2>4, <2>5 DEF Heaped
  <1>. DEFINE l == Listed(nd, dt, t, n)
              l2 == Listed(nd2, dt2, low, n - 1)
  <1>11. /\ l \in Seq(Int_t) /\ Len(l) = n
         /\ \A k \in 1 .. n : l[k] = dt[nd[c[n - k]]._data]
         /\ l2 \in Seq(Int_t) /\ Len(l2) = n - 1
         /\ \A k \in 1 .. n - 1 : l2[k] = dt2[nd2[e[(n - 1) - k]]._data]
    BY <1>10, ListedProperties
  <1>12. l[n] = dt[d]
    <2>1. n \in 1 .. n /\ n - n = 0
      BY <1>1, <1>2
    <2>. QED
      BY <1>1, <1>11, <2>1 DEF d
  <1>13. ASSUME NEW k \in 1 .. n - 1 PROVE l2[k] = l[k]
    <2>1. k \in 1 .. n /\ (n - 1) - k \in 0 .. (n - 1) - 1 /\ n - k = ((n - 1) - k) + 1
      BY <1>1
    <2>2. l[k] = dt[nd[c[((n - 1) - k) + 1]]._data] /\ l2[k] = dt2[nd2[e[(n - 1) - k]]._data]
      BY <1>11, <2>1
    <2>3. /\ nd2[e[(n - 1) - k]] = nd[c[((n - 1) - k) + 1]]
          /\ nd[c[((n - 1) - k) + 1]]._data \in DOMAIN dt \ {d}
      BY <1>8, <2>1
    <2>. QED
      BY <1>7, <2>2, <2>3
  <1>. HIDE DEF l, l2
  <1>14. l2 = SubSeq(l, 1, n - 1)
    <2>0. \A k \in 1 .. n - 1 : l[k] \in Int_t
      BY <1>11, <1>13
    <2>1. /\ SubSeq(l, 1, n - 1) \in Seq(Int_t) /\ Len(SubSeq(l, 1, n - 1)) = n - 1
          /\ \A k \in 1 .. n - 1 : SubSeq(l, 1, n - 1)[k] = l[k]
      <3>1. /\ SubSeq(l, 1, n - 1) \in Seq(Int_t)
            /\ Len(SubSeq(l, 1, n - 1)) = IF 1 <= n - 1 THEN (n - 1) - 1 + 1 ELSE 0
            /\ \A k \in 1 .. (n - 1) - 1 + 1 : SubSeq(l, 1, n - 1)[k] = l[1 + k - 1]
        BY <1>2, <2>0, SubSeqProperties
      <3>2. (n - 1) - 1 + 1 = n - 1 /\ \A k \in 1 .. n - 1 : 1 + k - 1 = k
        BY <1>2
      <3>. QED
        BY <1>2, <3>1, <3>2
    <2>. QED
      BY <1>11, <1>13, <2>1, SeqEqual
  <1>. QED
    BY <1>2, <1>10, <1>12, <1>14 DEF l, l2, d, low

(* A node that is not linked leaves the chain as it is. *)
LEMMA HeapLost ==
  ASSUME NEW nd, NEW dt, NEW t, NEW n, NEW lost, NEW c, Heaped(nd, dt, t, n, lost, c),
         NEW a, a \notin DOMAIN nd, a # NULL, NEW x, NEW nd2, nd2 = With(nd, a, x)
  PROVE  /\ Heaped(nd2, dt, t, n, lost \cup {a}, c)
         /\ Listed(nd2, dt, t, n) = Listed(nd, dt, t, n)
  <1>1. /\ DOMAIN nd2 = DOMAIN nd \cup {a}
        /\ \A b \in DOMAIN nd : nd2[b] = nd[b]
    BY DEF With
  <1>2. \A k \in 0 .. n - 1 : c[k] \in DOMAIN nd /\ nd2[c[k]] = nd[c[k]] /\ c[k] # a
    BY <1>1 DEF Heaped, Chain
  <1>3. Chain(nd2, t, c, n)
    BY <1>1, <1>2 DEF Heaped, Chain
  <1>4. DOMAIN dt = {nd2[c[k]]._data : k \in 0 .. n - 1}
    BY <1>2 DEF Heaped
  <1>5. DOMAIN nd2 = {c[k] : k \in 0 .. n - 1} \cup (lost \cup {a})
    BY <1>1 DEF Heaped
  <1>6. Heaped(nd2, dt, t, n, lost \cup {a}, c)
    BY <1>1, <1>2, <1>3, <1>4, <1>5 DEF Heaped
  <1>. DEFINE l == Listed(nd, dt, t, n)
              l2 == Listed(nd2, dt, t, n)
  <1>7. /\ l \in Seq(Int_t) /\ Len(l) = n
        /\ \A k \in 1 .. n : l[k] = dt[nd[c[n - k]]._data]
        /\ l2 \in Seq(Int_t) /\ Len(l2) = n
        /\ \A k \in 1 .. n : l2[k] = dt[nd2[c[n - k]]._data]
    BY <1>6, ListedProperties
  <1>8. \A k \in 1 .. n : l2[k] = l[k]
    <2>1. \A k \in 1 .. n : n - k \in 0 .. n - 1
      BY DEF Heaped, Chain
    <2>. QED
      BY <1>2, <1>7, <2>1
  <1>. HIDE DEF l, l2
  <1>9. l2 = l
    BY <1>7, <1>8, SeqEqual
  <1>. QED
    BY <1>6, <1>9 DEF l, l2

(* The list is empty just when its size is 0. *)
LEMMA HeapIsEmpty ==
  ASSUME NEW nd, NEW dt, NEW t, NEW n, NEW lost, NEW c, Heaped(nd, dt, t, n, lost, c)
  PROVE  t = NULL <=> n = 0
  <1>1. n \in Nat /\ c[0] = t /\ c[n] = NULL /\ \A k \in 0 .. n - 1 : c[k] # NULL
    BY DEF Heaped, Chain
  <1>2. n # 0 => 0 \in 0 .. n - 1
    BY <1>1
  <1>. QED
    BY <1>1, <1>2

(* Two blocks for each element, of which no two share one. *)
LEMMA HeapCounts ==
  ASSUME NEW nd, NEW dt, NEW t, NEW n, NEW lost, NEW c, Heaped(nd, dt, t, n, lost, c)
  PROVE  /\ Cardinality({c[k] : k \in 0 .. n - 1}) = n
         /\ Cardinality(DOMAIN dt) = n
  <1>. DEFINE S == 0 .. n - 1
              T == {c[k] : k \in S}
              nodes == [k \in S |-> c[k]]
              elements == [k \in S |-> nd[c[k]]._data]
  <1>1. n \in Nat /\ IsFiniteSet(S) /\ Cardinality(S) = n
    <2>1. n \in Nat
      BY DEF Heaped, Chain
    <2>2. /\ IsFiniteSet(0 .. n - 1)
          /\ Cardinality(0 .. n - 1) = IF 0 > n - 1 THEN 0 ELSE (n - 1) - 0 + 1
      BY <2>1, FS_Interval
    <2>. QED
      BY <2>1, <2>2
  <1>2. \A j, k \in S : nd[c[j]]._data = nd[c[k]]._data => j = k
    BY DEF Heaped
  <1>3. DOMAIN dt = {nd[c[k]]._data : k \in S}
    BY DEF Heaped
  <1>. HIDE DEF S
  <1>4. nodes \in Bijection(S, T)
    <2>1. nodes \in [S -> T] /\ \A j, k \in S : nodes[j] = nodes[k] => j = k
      BY <1>2
    <2>2. \A x \in T : \E k \in S : nodes[k] = x
      OBVIOUS
    <2>. QED
      BY <2>1, <2>2, Fun_IsBij
  <1>5. elements \in Bijection(S, DOMAIN dt)
    <2>1. elements \in [S -> DOMAIN dt] /\ \A j, k \in S : elements[j] = elements[k] => j = k
      BY <1>2, <1>3
    <2>2. \A x \in DOMAIN dt : \E k \in S : elements[k] = x
      BY <1>3
    <2>. QED
      BY <2>1, <2>2, Fun_IsBij
  <1>. HIDE DEF T, nodes, elements
  <1>6. Cardinality(T) = n /\ Cardinality(DOMAIN dt) = n
    BY <1>1, <1>4, <1>5, Fun_ExistsBij, FS_Bijection
  <1>. QED
    BY <1>6 DEF T, S

-----------------------------------------------------------------------------
(* The inductive invariant. *)
HeapInv ==
  /\ pc \in {"in_use", "destroying", "destroyed"}
  /\ pc = "destroyed" => _top = NULL
  /\ \E c : Heaped(node, data, _top, _stack_size, leaked, c)

(* stack_create. *)
LEMMA HeapBegins == Init => HeapInv /\ Contents = << >>
  <1>. SUFFICES ASSUME Init PROVE HeapInv /\ Contents = << >>
    OBVIOUS
  <1>. DEFINE c == [k \in 0 .. 0 |-> NULL]
  <1>1. /\ pc = "in_use" /\ _top = NULL /\ _stack_size = 0 /\ leaked = {}
        /\ DOMAIN node = {} /\ DOMAIN data = {}
    BY DEF Init
  <1>2. c[0] = NULL /\ \A k \in 0 .. 0 - 1 : FALSE
    OBVIOUS
  <1>. HIDE DEF c
  <1>3. Chain(node, NULL, c, 0)
    BY <1>2 DEF Chain
  <1>4. Heaped(node, data, NULL, 0, {}, c)
    BY <1>1, <1>2, <1>3 DEF Heaped
  <1>5. Listed(node, data, NULL, 0) = << >>
    <2>1. /\ Listed(node, data, NULL, 0) \in Seq(Int_t)
          /\ Len(Listed(node, data, NULL, 0)) = 0
      BY <1>4, ListedProperties
    <2>. QED
      BY <2>1, EmptySeq
  <1>. QED
    BY <1>1, <1>4, <1>5, StackOperators DEF HeapInv

(* What the actions do to the heap and to the sequence. *)
LEMMA PushKeeps ==
  ASSUME HeapInv, NEW x \in Values, stack_push(x)
  PROVE  HeapInv' /\ Contents' = Append(Contents, x)
  <1>1. PICK c : Heaped(node, data, _top, _stack_size, leaked, c)
    BY DEF HeapInv
  <1>2. PICK a \in Malloc(NodeBlocks, DOMAIN node) \ {NULL}, d \in Malloc(DataBlocks, DOMAIN data) \ {NULL} :
          /\ node' = With(node, a, [_data |-> d, _lower |-> _top]) /\ _top' = a
          /\ data' = With(data, d, x)
    BY DEF stack_push, Link
  <1>3. a \notin DOMAIN node /\ a # NULL /\ d \notin DOMAIN data /\ x \in Int_t
    BY StackAssumption DEF Malloc
  <1>4. /\ \E e : Heaped(node', data', a, _stack_size + 1, leaked, e)
        /\ Listed(node', data', a, _stack_size + 1) = Append(Listed(node, data, _top, _stack_size), x)
    BY <1>1, <1>2, <1>3, HeapPushed
  <1>5. pc = "in_use" /\ pc' = pc /\ leaked' = leaked /\ _stack_size' = _stack_size + 1
    BY DEF stack_push
  <1>. QED
    BY <1>2, <1>4, <1>5, StackOperators DEF HeapInv

(* A push that loses its node. *)
LEMMA LostKeeps ==
  ASSUME HeapInv, stack_push_no_data
  PROVE  HeapInv' /\ Contents' = Contents
  <1>1. PICK c : Heaped(node, data, _top, _stack_size, leaked, c)
    BY DEF HeapInv
  <1>2. PICK a \in Malloc(NodeBlocks, DOMAIN node) \ {NULL} :
          /\ node' = With(node, a, [_data |-> NULL, _lower |-> NULL])
          /\ leaked' = leaked \cup {a}
    BY DEF stack_push_no_data
  <1>3. a \notin DOMAIN node /\ a # NULL
    BY DEF Malloc
  <1>4. /\ Heaped(node', data, _top, _stack_size, leaked \cup {a}, c)
        /\ Listed(node', data, _top, _stack_size) = Listed(node, data, _top, _stack_size)
    BY <1>1, <1>2, <1>3, HeapLost
  <1>5. pc' = pc /\ data' = data /\ _top' = _top /\ _stack_size' = _stack_size
    BY DEF stack_push_no_data
  <1>. QED
    BY <1>2, <1>4, <1>5, StackOperators DEF HeapInv

(* A pop takes the last element, in stack_pop and in stack_destroy. *)
LEMMA UnlinkKeeps ==
  ASSUME HeapInv, _top # NULL, pc # "destroyed", Unlink, UNCHANGED pc
  PROVE  /\ HeapInv' /\ Contents # << >> /\ Contents' = Popped(Contents)
         /\ data[node[_top]._data] = Top(Contents)
  <1>. DEFINE n == _stack_size
              l == Listed(node, data, _top, n)
  <1>1. PICK c : Heaped(node, data, _top, n, leaked, c)
    BY DEF HeapInv
  <1>2. /\ node' = Without(node, _top) /\ data' = Without(data, node[_top]._data)
        /\ _top' = node[_top]._lower /\ _stack_size' = n - 1 /\ leaked' = leaked
    BY DEF Unlink
  <1>3. /\ n >= 1 /\ l[n] = data[node[_top]._data]
        /\ \E e : Heaped(node', data', _top', n - 1, leaked, e)
        /\ Listed(node', data', _top', n - 1) = SubSeq(l, 1, n - 1)
    BY <1>1, <1>2, HeapUnlinked
  <1>4. l \in Seq(Int_t) /\ Len(l) = n
    BY <1>1, ListedProperties
  <1>5. HeapInv'
    BY <1>2, <1>3 DEF HeapInv
  <1>6. Contents = l /\ Contents' = SubSeq(l, 1, n - 1)
    BY <1>2, <1>3, StackOperators
  <1>. HIDE DEF l
  <1>7. l # << >> /\ Popped(l) = SubSeq(l, 1, n - 1) /\ Top(l) = l[n]
    BY <1>3, <1>4 DEF Popped, Top
  <1>. QED
    BY <1>3, <1>5, <1>6, <1>7

(* Steps that leave the heap alone. *)
LEMMA SameKeeps ==
  ASSUME HeapInv, UNCHANGED <<_top, _stack_size, heap, leaked>>,
         pc' \in {"in_use", "destroying", "destroyed"}, pc' = "destroyed" => _top = NULL
  PROVE  HeapInv' /\ Contents' = Contents
  <1>1. node' = node /\ data' = data /\ _top' = _top /\ _stack_size' = _stack_size /\ leaked' = leaked
    BY DEF heap
  <1>. QED
    BY <1>1, StackOperators DEF HeapInv

(* A stack without a top is empty, which stack_destroy sets its size to. *)
LEMMA EmptyAtTheEnd ==
  ASSUME HeapInv, _top = NULL
  PROVE  _stack_size = 0 /\ Contents = << >>
  <1>1. PICK c : Heaped(node, data, _top, _stack_size, leaked, c)
    BY DEF HeapInv
  <1>2. _stack_size = 0
    BY <1>1, HeapIsEmpty
  <1>3. Contents \in Seq(Int_t) /\ Len(Contents) = 0
    BY <1>1, <1>2, ListedProperties, StackOperators
  <1>. QED
    BY <1>2, <1>3, EmptySeq

(* The end of stack_destroy. *)
LEMMA DestroyEndKeeps ==
  ASSUME HeapInv, stack_destroy_end
  PROVE  HeapInv' /\ Contents' = Contents
  <1>1. _stack_size' = _stack_size
    BY EmptyAtTheEnd DEF stack_destroy_end
  <1>. QED
    BY <1>1, SameKeeps DEF stack_destroy_end

(* Every operation keeps the heap in order. *)
LEMMA HeapKept ==
  ASSUME HeapInv, [Next]_vars
  PROVE  HeapInv'
  <1>1. ASSUME NEW x \in Values, stack_push(x) PROVE HeapInv'
    BY <1>1, PushKeeps
  <1>2. ASSUME stack_push_no_node \/ stack_pop_empty PROVE HeapInv'
    BY <1>2, SameKeeps DEF stack_push_no_node, stack_pop_empty
  <1>3. ASSUME stack_push_no_data PROVE HeapInv'
    BY <1>3, LostKeeps
  <1>4. ASSUME stack_pop PROVE HeapInv'
    BY <1>4, UnlinkKeeps DEF stack_pop
  <1>5. ASSUME stack_destroy PROVE HeapInv'
    BY <1>5, SameKeeps DEF stack_destroy
  <1>6. ASSUME stack_destroy_turn PROVE HeapInv'
    BY <1>6, UnlinkKeeps DEF stack_destroy_turn
  <1>7. ASSUME stack_destroy_end PROVE HeapInv'
    BY <1>7, DestroyEndKeeps
  <1>8. ASSUME UNCHANGED vars PROVE HeapInv'
    BY <1>8, SameKeeps DEF vars, HeapInv
  <1>. QED
    BY <1>1, <1>2, <1>3, <1>4, <1>5, <1>6, <1>7, <1>8 DEF Next

(* HeapInv holds in every state. *)
LEMMA AlwaysHeap == Spec => []HeapInv
  <1>. QED
    BY HeapBegins, HeapKept, PTL DEF Spec

(* Whatever the pushes, the pops and the mallocs that fail, the nodes that hang *)
(* from _top are as many as _stack_size says, each with an element of its own,  *)
(* and nothing else is on the heap of stack.c but the nodes that were lost.     *)
THEOREM TheHeapIsTheStack == Spec => []HeapIsTheStack
  <1>1. HeapInv => HeapIsTheStack
    <2>. SUFFICES ASSUME HeapInv PROVE HeapIsTheStack
      OBVIOUS
    <2>. DEFINE n == _stack_size
    <2>1. PICK c : Heaped(node, data, _top, n, leaked, c)
      BY DEF HeapInv
    <2>2. n \in Nat /\ \A k \in 0 .. n : Below(k) = c[k]
      <3>1. Chain(node, _top, c, n)
        BY <2>1 DEF Heaped
      <3>2. \A k \in 0 .. n : Hanging(node, _top, k) = c[k]
        BY <3>1, HangingIsTheChain
      <3>. QED
        BY <3>1, <3>2, StackOperators DEF Chain
    <2>3. Below(n) = NULL
      BY <2>1, <2>2 DEF Heaped, Chain
    <2>4. Linked = {c[k] : k \in 0 .. n - 1}
      <3>1. \A k \in 0 .. n - 1 : Below(k) = c[k]
        BY <2>2
      <3>. QED
        BY <3>1 DEF Linked
    <2>5. Cardinality(Linked) = n /\ Cardinality(DOMAIN data) = n
      BY <2>1, <2>4, HeapCounts
    <2>6. DOMAIN node = Linked \cup leaked /\ Linked \cap leaked = {}
      BY <2>1, <2>4 DEF Heaped
    <2>7. {node[a]._data : a \in Linked} = DOMAIN data
      BY <2>1, <2>4 DEF Heaped
    <2>8. pc = "destroyed" => Linked = {}
      <3>1. pc = "destroyed" => n = 0
        BY EmptyAtTheEnd DEF HeapInv
      <3>. QED
        BY <2>4, <3>1
    <2>. QED
      BY <2>3, <2>5, <2>6, <2>7, <2>8 DEF HeapIsTheStack
  <1>. QED
    BY <1>1, AlwaysHeap, PTL

-----------------------------------------------------------------------------
(* Lifo has the operators of Instructions once more. *)
LEMMA SameSequence ==
  ASSUME NEW s, NEW x
  PROVE  /\ Sequence!Pushed(s, x) = Pushed(s, x) /\ Sequence!Popped(s) = Popped(s)
         /\ Sequence!Top(s) = Top(s)
  BY DEF Sequence!Pushed, Pushed, Sequence!Popped, Popped, Sequence!Top, Top,
     Sequence!OPERATION_FAILURE_NULL_POINTER, OPERATION_FAILURE_NULL_POINTER

(* Each operation is one of Lifo, or none: stack_destroy is not seen by its callers. *)
LEMMA StepsOfLifo ==
  ASSUME MemoryFails, Values # {}, HeapInv, [Next]_vars
  PROVE  [Sequence!Next]_<<Contents, result>>
  <1>0. Contents \in Seq(Int_t)
    BY ListedProperties, StackOperators DEF HeapInv
  <1>1. ASSUME NEW x \in Values, stack_push(x) PROVE Sequence!Next
    <2>1. Contents' = Append(Contents, x) /\ result' = OPERATION_SUCCESS
      BY <1>1, PushKeeps DEF stack_push
    <2>2. Append(Contents, x) # Contents
      <3>1. Len(Append(Contents, x)) = Len(Contents) + 1 /\ Len(Contents) \in Nat
        BY <1>0
      <3>. QED
        BY <3>1
    <2>3. Contents' \in Sequence!Pushed(Contents, x)
      <3>1. Append(Contents, x) \in Pushed(Contents, x)
        BY Zenon DEF Pushed
      <3>. QED
        BY <2>1, <3>1, SameSequence, Zenon
    <2>4. Sequence!Push(x)
      BY <2>1, <2>2, <2>3 DEF Sequence!Push, Sequence!OPERATION_SUCCESS, OPERATION_SUCCESS
    <2>. QED
      BY <2>4 DEF Sequence!Next
  <1>2. ASSUME stack_push_no_node \/ stack_push_no_data, Values # {} PROVE Sequence!Next
    <2>1. Contents' = Contents /\ result' = OPERATION_FAILURE_NO_MEMORY
      BY <1>2, LostKeeps, SameKeeps DEF stack_push_no_node, stack_push_no_data, HeapInv
    <2>2. PICK x \in Values : TRUE
      BY <1>2
    <2>3. Contents' \in Sequence!Pushed(Contents, x)
      BY <2>1, SameSequence DEF Pushed
    <2>4. Sequence!Push(x)
      BY <2>1, <2>3 DEF Sequence!Push, Sequence!OPERATION_FAILURE_NO_MEMORY, OPERATION_FAILURE_NO_MEMORY
    <2>. QED
      BY <2>4 DEF Sequence!Next
  <1>3. ASSUME stack_pop PROVE Sequence!Next
    <2>1. Contents' = Popped(Contents) /\ result' = Top(Contents)
      BY <1>3, UnlinkKeeps DEF stack_pop
    <2>. QED
      BY <2>1, SameSequence DEF Sequence!Pop, Sequence!Next
  <1>4. ASSUME stack_pop_empty PROVE Sequence!Next
    <2>1. Contents = << >> /\ Contents' = Contents /\ result' = OPERATION_FAILURE_NULL_POINTER
      BY <1>4, EmptyAtTheEnd, SameKeeps DEF stack_pop_empty
    <2>2. Contents' = Popped(Contents) /\ result' = Top(Contents)
      BY <2>1 DEF Popped, Top
    <2>. QED
      BY <2>2, SameSequence DEF Sequence!Pop, Sequence!Next
  <1>5. ASSUME stack_destroy_turn PROVE Sequence!Next
    <2>1. Contents # << >> /\ Contents' = Popped(Contents) /\ result' = result
      BY <1>5, UnlinkKeeps DEF stack_destroy_turn
    <2>. QED
      BY <2>1, SameSequence DEF Sequence!Discard, Sequence!Next
  <1>6. ASSUME stack_destroy \/ stack_destroy_end \/ UNCHANGED vars PROVE UNCHANGED <<Contents, result>>
    BY <1>6, SameKeeps, DestroyEndKeeps DEF stack_destroy, stack_destroy_end, vars, HeapInv
  <1>. QED
    BY <1>1, <1>2, <1>3, <1>4, <1>5, <1>6 DEF Next

(* The list implements the sequence of module Lifo for any number of blocks and *)
(* any addresses malloc gives: no push or pop shows the callers the list.       *)
THEOREM TheListIsASequence ==
  ASSUME MemoryFails, Values # {}
  PROVE  Spec => ImplementsLifo
  <1>1. Init => Sequence!Init
    BY HeapBegins DEF Init, Sequence!Init, Sequence!OPERATION_SUCCESS, OPERATION_SUCCESS
  <1>2. HeapInv /\ [Next]_vars => [Sequence!Next]_<<Contents, result>>
    BY StepsOfLifo
  <1>. QED
    BY <1>1, <1>2, AlwaysHeap, PTL DEF Spec, ImplementsLifo, Sequence!Spec
=============================================================================
