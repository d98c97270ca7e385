--------------------------- MODULE TreeUse_proofs ---------------------------
(***************************************************************************)
(* The invariants of TreeUse, for any number of addresses and of keys and  *)
(* any limit.                                                              *)
(***************************************************************************)
EXTENDS TreeUse, RBTree_proofs

-----------------------------------------------------------------------------
(* The inductive invariant, of the tree t, the caller's keys K and the     *)
(* history e.  Between the calls t is a red-black search tree of all the   *)
(* nodes in use, unless a left child was turned; of a tree in which one    *)
(* was, what is known is what its links still lead to.                     *)
Kept(t, K, e) ==
    /\ t \in Tree /\ K \in SUBSET Key /\ e \in BOOLEAN
    /\ t.total >= Cardinality(K) /\ (MaxSize > 0 => t.total <= MaxSize)
    /\ Keys(t) \subseteq K /\ Reached(t) \subseteq t.used
    /\ ~t.bent => \E sub, h : Sound(t, sub, h)
    /\ ~t.bent /\ ~e => K \subseteq Keys(t)

(* Keys are numbers, and finitely many.                                    *)
LEMMA KeyNat == Key \subseteq Nat /\ MaxSize \in Nat /\ \A K \in SUBSET Key :
                    IsFiniteSet(K) /\ Cardinality(K) \in Nat
  <1>1. IsFiniteSet(Key) /\ Key \subseteq Nat /\ MaxSize \in Nat
    BY UseAssumption, FS_Interval DEF Key
  <1>2. ASSUME NEW K \in SUBSET Key PROVE IsFiniteSet(K) /\ Cardinality(K) \in Nat
    BY <1>1, FS_Subset, FS_CardinalityType
  <1>. QED
    BY <1>1, <1>2

(* The empty tree.                                                         *)
LEMMA InitKept == Kept(newTree, {}, FALSE)
  <1>1. newTree = [newTree EXCEPT !.total = 0]
    <2>1. newTree \in Tree /\ newTree.total = 0
      BY Nodes DEF newTree, Tree
    <2>2. \A t \in Tree : t = [t EXCEPT !.total = t.total]
      BY DEF Tree
    <2>. QED
      BY <2>1, <2>2
  <1>2. /\ \E sub, h : Sound(newTree, sub, h)
        /\ newTree \in Tree /\ newTree.total = 0 /\ newTree.used = {} /\ Keys(newTree) = {}
    BY <1>1, EmptySound
  <1>3. Reached(newTree) = {}
    BY <1>2, ReachedTidy DEF Sound
  <1>4. Cardinality({}) = 0
    BY FS_EmptySet
  <1>. QED
    BY <1>2, <1>3, <1>4, KeyNat DEF Kept

(* A put keeps the invariant.                                              *)
LEMMA PutKept ==
  ASSUME NEW t, NEW K, NEW e, Kept(t, K, e), ~t.bent, t.used # Node, NEW k \in Key,
         NEW u, u = treePut(t, k, MaxSize),
         NEW L, L = IF Full(t, MaxSize) THEN K ELSE K \cup {k}
  PROVE  Kept(u, L, e)
  <1>1. /\ t \in Tree /\ K \in SUBSET Key /\ e \in BOOLEAN
        /\ t.total >= Cardinality(K) /\ (MaxSize > 0 => t.total <= MaxSize)
        /\ Keys(t) \subseteq K /\ Reached(t) \subseteq t.used
        /\ ~e => K \subseteq Keys(t)
    BY DEF Kept
  <1>2. PICK sub, h : Sound(t, sub, h)
    BY DEF Kept
  <1>3. k \in Nat /\ MaxSize \in Nat /\ t.total \in Nat
    BY <1>1, KeyNat DEF Tree
  <1>4. CASE Full(t, MaxSize)
    <2>1. u = t /\ L = K
      BY <1>4 DEF treePut
    <2>. QED
      BY <2>1
  <1>5. CASE ~Full(t, MaxSize) /\ Lookup(t, k) # NIL
    <2>1. u = t
      BY <1>5 DEF treePut
    <2>2. k \in Keys(t)
      BY <1>2, <1>3, <1>5, FoundKey
    <2>3. L = K
      BY <1>1, <1>5, <2>2
    <2>. QED
      BY <2>1, <2>3
  <1>6. CASE ~Full(t, MaxSize) /\ Lookup(t, k) = NIL
    <2>1. PICK n : Added(t, u, k, n) /\ (~u.bent => \E sub2, h2 : Sound(u, sub2, h2))
      BY <1>2, <1>3, <1>6, PutSound
    <2>2. /\ u \in Tree /\ u.total = t.total + 1
          /\ n \in Node \ t.used /\ u.used = t.used \cup {n}
          /\ u.key[n] = k /\ \A m \in t.used : u.key[m] = t.key[m]
          /\ Reached(u) \subseteq u.used
      BY <2>1 DEF Added
    <2>3. L = K \cup {k} /\ L \in SUBSET Key
      BY <1>1, <1>6
    <2>4. Cardinality(L) <= Cardinality(K) + 1
      <3>1. IsFiniteSet(K)
        BY <1>1, KeyNat
      <3>2. Cardinality(K) \in Nat
        BY <1>1, KeyNat
      <3>3. Cardinality(L) = IF k \in K THEN Cardinality(K) ELSE Cardinality(K) + 1
        BY <2>3, <3>1, FS_AddElement
      <3>. QED
        BY <3>2, <3>3
    <2>5. u.total >= Cardinality(L)
      BY <1>1, <1>3, <2>2, <2>3, <2>4, KeyNat
    <2>6. MaxSize > 0 => u.total <= MaxSize
      BY <1>3, <1>6, <2>2 DEF Full
    <2>7. Keys(t) = {t.key[m] : m \in t.used}
      BY <1>2, TidyKeys DEF Sound
    <2>8. \A m \in u.used : u.key[m] \in Keys(t) \cup {k}
      BY <2>2, <2>7
    <2>9. Keys(u) \subseteq L
      <3>1. Keys(u) \subseteq Keys(t) \cup {k}
        BY <2>2, <2>8 DEF Keys
      <3>. QED
        BY <1>1, <2>3, <3>1
    <2>10. ~u.bent /\ ~e => L \subseteq Keys(u)
      <3>1. SUFFICES ASSUME ~u.bent, ~e PROVE L \subseteq Keys(u)
        OBVIOUS
      <3>2. Keys(u) = {u.key[m] : m \in u.used}
        BY <2>1, <3>1, TidyKeys DEF Sound
      <3>3. Keys(t) \cup {k} \subseteq Keys(u)
        BY <2>2, <2>7, <3>2
      <3>. QED
        BY <1>1, <2>3, <3>1, <3>3
    <2>. QED
      BY <1>1, <2>1, <2>2, <2>3, <2>5, <2>6, <2>9, <2>10 DEF Kept
  <1>. QED
    BY <1>4, <1>5, <1>6

(* What a removal adds to the history.                                     *)
Empties(t, u, k, e, f) == f \in BOOLEAN /\ (f <=> (e \/ (u.root = NIL /\ Keys(t) \ {k} # {})))

(* A removal keeps it.                                                     *)
LEMMA RemoveKept ==
  ASSUME NEW t, NEW K, NEW e, Kept(t, K, e), ~t.bent, NEW k \in Key,
         NEW u, u = treeRemove(t, k), NEW f, Empties(t, u, k, e, f)
  PROVE  Kept(u, K \ {k}, f)
  <1>1. /\ t \in Tree /\ K \in SUBSET Key /\ e \in BOOLEAN
        /\ t.total >= Cardinality(K) /\ (MaxSize > 0 => t.total <= MaxSize)
        /\ Keys(t) \subseteq K /\ Reached(t) \subseteq t.used
        /\ ~e => K \subseteq Keys(t)
    BY DEF Kept
  <1>10. f \in BOOLEAN /\ (f <=> (e \/ (u.root = NIL /\ Keys(t) \ {k} # {})))
    BY DEF Empties
  <1>2. PICK sub, h : Sound(t, sub, h)
    BY DEF Kept
  <1>3. k \in Nat /\ MaxSize \in Nat /\ t.total \in Nat /\ K \ {k} \in SUBSET Key
    BY <1>1, KeyNat DEF Tree
  <1>4. IsFiniteSet(K) /\ Cardinality(K) \in Nat /\ Cardinality(K \ {k}) \in Nat
    BY <1>1, <1>3, KeyNat
  <1>5. Cardinality(K \ {k}) = IF k \in K THEN Cardinality(K) - 1 ELSE Cardinality(K)
    BY <1>4, FS_RemoveElement
  <1>6. CASE Lookup(t, k) = NIL
    <2>1. u = t
      BY <1>6 DEF treeRemove, Absent
    <2>2. k \notin Keys(t)
      BY <1>2, <1>3, <1>6, FoundKey
    <2>3. t.total >= Cardinality(K \ {k})
      BY <1>1, <1>3, <1>4, <1>5
    <2>4. Keys(t) \subseteq K \ {k} /\ (~f => K \ {k} \subseteq Keys(t))
      BY <1>1, <1>10, <2>2
    <2>. QED
      BY <1>1, <1>2, <1>3, <1>10, <2>1, <2>3, <2>4 DEF Kept
  <1>7. CASE Lookup(t, k) # NIL
    <2>1. k \in Keys(t) /\ k \in K
      BY <1>1, <1>2, <1>3, <1>7, FoundKey
    <2>2. Cardinality(K \ {k}) = Cardinality(K) - 1
      BY <1>5, <2>1
    <2>3. t.total # 0
      BY <1>1, <1>3, <1>4, <2>2
    <2>4. Removed(t, u, k) /\ \E sub2, h2 : Sound(u, sub2, h2)
      BY <1>2, <1>3, <1>7, <2>3, RemoveSound
    <2>5. /\ u \in Tree /\ u.total = t.total - 1
          /\ (u.root = NIL /\ Keys(u) = {}) \/ Keys(u) = Keys(t) \ {k}
      BY <2>4 DEF Removed
    <2>6. u.total >= Cardinality(K \ {k}) /\ (MaxSize > 0 => u.total <= MaxSize)
      BY <1>1, <1>3, <1>4, <2>2, <2>5
    <2>7. Keys(u) \subseteq K \ {k}
      BY <1>1, <2>5
    <2>8. Reached(u) \subseteq u.used
      BY <2>4, ReachedTidy DEF Sound
    <2>9. ~f => K \ {k} \subseteq Keys(u)
      BY <1>1, <1>10, <2>5
    <2>. QED
      BY <1>3, <1>10, <2>4, <2>5, <2>6, <2>7, <2>8, <2>9 DEF Kept
  <1>. QED
    BY <1>6, <1>7

IInv == Kept(tree, keys, emptied)

(* So every step does.                                                     *)
LEMMA IInvNext ==
  ASSUME IInv, [Next]_vars
  PROVE  IInv'
  <1>1. CASE UNCHANGED vars
    BY <1>1 DEF IInv, vars
  <1>2. ASSUME ~tree.bent, NEW k \in Key, Put(k) PROVE IInv'
    <2>1. /\ Kept(tree, keys, emptied) /\ tree.used # Node
          /\ tree' = treePut(tree, k, MaxSize) /\ emptied' = emptied
          /\ keys' = IF Full(tree, MaxSize) THEN keys ELSE keys \cup {k}
      BY <1>2 DEF IInv, Put
    <2>2. Kept(tree', keys', emptied)
      BY <1>2, <2>1, PutKept
    <2>. QED
      BY <2>1, <2>2 DEF IInv
  <1>3. ASSUME ~tree.bent, NEW k \in Key, Remove(k) PROVE IInv'
    <2>1. /\ Kept(tree, keys, emptied)
          /\ tree' = treeRemove(tree, k) /\ keys' = keys \ {k}
          /\ emptied' = (emptied \/ (tree'.root = NIL /\ Keys(tree) \ {k} # {}))
      BY <1>3 DEF IInv, Remove
    <2>2. Empties(tree, tree', k, emptied, emptied')
      BY <2>1 DEF Empties
    <2>3. Kept(tree', keys \ {k}, emptied')
      BY <1>3, <2>1, <2>2, RemoveKept
    <2>. QED
      BY <2>1, <2>3 DEF IInv
  <1>. QED
    BY <1>1, <1>2, <1>3 DEF Next

(* Whatever is put and removed in whatever order: the tree is sound until  *)
(* a left child is turned, holds nothing but the callers' keys, and all of *)
(* them until a removal empties it.                                        *)
THEOREM Invariance == Spec => []IInv
  <1>1. Init => IInv
    BY InitKept DEF Init, IInv
  <1>2. IInv /\ [Next]_vars => IInv'
    BY IInvNext
  <1>. QED
    BY <1>1, <1>2, PTL DEF Spec

-----------------------------------------------------------------------------
(* The fields keep their types.                                            *)
THEOREM TypeSafe == Spec => []TypeOK
  <1>1. IInv => TypeOK
    BY DEF IInv, Kept, TypeOK
  <1>. QED
    BY <1>1, Invariance, PTL

(* No lookup finds a key that was removed, nor a node that was freed, even *)
(* after a left child was turned.                                          *)
THEOREM NeverStale == Spec => []NothingStale
  <1>1. IInv => NothingStale
    BY DEF IInv, Kept, NothingStale
  <1>. QED
    BY <1>1, Invariance, PTL

(* Keys are lost in two ways only: a turned left child and the removal of  *)
(* a node without a child.                                                 *)
THEOREM KeysStay == Spec => []KeysKept
  <1>1. IInv => KeysKept
    BY DEF IInv, Kept, KeysKept
  <1>. QED
    BY <1>1, Invariance, PTL

(* The count is at least the number of keys and at most max.               *)
THEOREM CountHolds == Spec => []Counted
  <1>1. IInv => Counted
    BY DEF IInv, Kept, Counted
  <1>. QED
    BY <1>1, Invariance, PTL

-----------------------------------------------------------------------------
(* The black nodes among the first i + 1 of a way, w.                      *)
Dark(t, w, i) == {m \in Node : ~t.red[m] /\ \E j \in 0 .. i : w[j] = m}

(* What is known of a way that has come to n = w[i].                       *)
Walked(t, sub, h, w, i) ==
    /\ w[i] \in t.used
    /\ \A j \in 0 .. i : w[j] \in t.used /\ sub[w[i]] \subseteq sub[w[j]]
    /\ IsFiniteSet(Dark(t, w, i))
    /\ Cardinality(Dark(t, w, i)) = h[t.root] - h[w[i]] + (IF t.red[w[i]] THEN 0 ELSE 1)

(* A step down adds one black node to the way, or none.                    *)
LEMMA WalkedOn ==
  ASSUME NEW t, NEW sub, NEW h, Tidy(t, sub), Tinted(t, t.red, h), NEW w, NEW i \in Nat,
         Walked(t, sub, h, w, i), NEW s \in t.used, s = w[i + 1], t.parent[s] = w[i],
         s = t.left[w[i]] \/ s = t.right[w[i]]
  PROVE  Walked(t, sub, h, w, i + 1)
  <1>. DEFINE n == w[i]
              B == Dark(t, w, i)
              C == Dark(t, w, i + 1)
  <1>1. /\ n \in t.used
        /\ \A j \in 0 .. i : w[j] \in t.used /\ sub[n] \subseteq sub[w[j]]
        /\ IsFiniteSet(B) /\ Cardinality(B) = h[t.root] - h[n] + (IF t.red[n] THEN 0 ELSE 1)
    BY DEF Walked
  <1>2. n # NIL /\ s \in Node /\ s # NIL /\ n \in Node0 /\ s \in Node0
    BY <1>1, TidyNode
  <1>3. sub[s] \subseteq sub[n] /\ n \notin sub[s] /\ n \in sub[n] /\ s \in sub[s]
    BY <1>1, <1>2, TidyUp, TidyNode
  <1>4. 0 .. (i + 1) = (0 .. i) \cup {i + 1} /\ i + 1 \in Nat
    OBVIOUS
  <1>5. \A j \in 0 .. (i + 1) : w[j] \in t.used /\ sub[s] \subseteq sub[w[j]]
    BY <1>1, <1>3, <1>4
  <1>6. C = B \cup (IF t.red[s] THEN {} ELSE {s})
    <2>1. \A m : (\E j \in 0 .. (i + 1) : w[j] = m) <=> (\E j \in 0 .. i : w[j] = m) \/ m = s
      BY <1>4
    <2>. QED
      BY <1>2, <2>1 DEF Dark
  <1>7. s \notin B
    <2>1. ASSUME NEW j \in 0 .. i PROVE w[j] # s
      <3>1. n \in sub[w[j]]
        BY <1>1, <1>3
      <3>. QED
        BY <1>3, <3>1
    <2>. QED
      BY <2>1 DEF Dark
  <1>. HIDE DEF B, C
  <1>8. Cardinality(B) \in Nat
    BY <1>1, FS_CardinalityType
  <1>9. IsFiniteSet(C) /\ Cardinality(C) = Cardinality(B) + (IF t.red[s] THEN 0 ELSE 1)
    <2>1. CASE t.red[s]
      BY <1>1, <1>6, <1>8, <2>1
    <2>2. CASE ~t.red[s]
      <3>1. C = B \cup {s}
        BY <1>6, <2>2
      <3>. QED
        BY <1>1, <1>7, <2>2, <3>1, FS_AddElement
    <2>. QED
      BY <2>1, <2>2
  <1>10. h[n] = h[s] + (IF t.red[n] THEN 0 ELSE 1)
         /\ h[s] \in Nat /\ h[n] \in Nat /\ h[t.root] \in Nat
    <2>1. h \in [Node0 -> Nat] /\ h[t.left[n]] = h[t.right[n]]
          /\ h[n] = h[t.left[n]] + (IF t.red[n] THEN 0 ELSE 1)
      BY <1>1 DEF Tinted
    <2>2. t.root \in Node0
      BY DEF Tidy, Tree
    <2>. QED
      BY <1>2, <2>1, <2>2
  <1>. HIDE DEF n
  <1>11. Cardinality(C) = h[t.root] - h[s] + (IF t.red[s] THEN 0 ELSE 1)
    BY <1>1, <1>8, <1>9, <1>10
  <1>. QED
    BY <1>5, <1>9, <1>11 DEF Walked, C

(* On the way to a node are as many black nodes as the tree has between    *)
(* its root and that node.                                                 *)
LEMMA WayBlacks ==
  ASSUME NEW t, NEW sub, NEW h, Tidy(t, sub), Tinted(t, t.red, h), NEW x \in t.used
  PROVE  Cardinality({Way(t, t.key[x])[i] : i \in 0 .. NNode} \cap {m \in Node : ~t.red[m]})
         = h[t.root] - h[x] + (IF t.red[x] THEN 0 ELSE 1)
  <1>. DEFINE k == t.key[x]
              w == Way(t, k)
              T == {i \in 0 .. NNode : Walked(t, sub, h, w, i)}
  <1>1. t \in Tree /\ NNode \in Nat /\ x \in Node0 /\ t.key[x] \in Nat
    <2>1. t \in Tree /\ x \in Node0
      BY TidyNode DEF Tidy
    <2>. QED
      BY <2>1, Nodes DEF Tree
  <1>2. Lookup(t, k) = x
    BY <1>1, LookupIs
  <1>3. k \in Nat /\ t.key[x] = k
    BY <1>1
  <1>. HIDE DEF k
  <1>4. w[0] = t.root /\ \A i \in 1 .. NNode : w[i] = Below(t, k)[w[i - 1]]
    BY <1>1, <1>3, WayDefined DEF Iterated
  <1>5. \A i \in 0 .. NNode : Toward(t, sub, k, w[i]) /\ w[i] \in t.used
    <2>1. ASSUME NEW i \in 0 .. NNode PROVE Toward(t, sub, k, w[i]) /\ w[i] \in t.used
      <3>1. Toward(t, sub, k, w[i])
        BY <1>3, WayRuns
      <3>2. x \in sub[w[i]] /\ w[i] \in t.used \cup {NIL}
        BY <1>3, <3>1 DEF Toward
      <3>. QED
        BY <3>1, <3>2, TidyRoot
    <2>. QED
      BY <2>1
  <1>6. w[NNode] = x
    BY <1>2 DEF Lookup
  <1>. HIDE DEF w
  <1>7. 0 \in T
    <2>1. 0 .. 0 = {0} /\ w[0] \in t.used /\ 0 \in 0 .. NNode
      BY <1>1, <1>5
    <2>2. Dark(t, w, 0) = IF t.red[w[0]] THEN {} ELSE {w[0]}
      <3>1. w[0] \in Node
        BY <2>1, TidyNode
      <3>. QED
        BY <2>1, <3>1 DEF Dark
    <2>3. IsFiniteSet(Dark(t, w, 0))
          /\ Cardinality(Dark(t, w, 0)) = IF t.red[w[0]] THEN 0 ELSE 1
      BY <2>2, FS_EmptySet, FS_Singleton
    <2>4. h[w[0]] = h[t.root] /\ h[t.root] \in Nat
      <3>1. t.root \in Node0
        BY <1>1 DEF Tree
      <3>. QED
        BY <1>4, <3>1 DEF Tinted
    <2>5. Cardinality(Dark(t, w, 0)) = h[t.root] - h[w[0]] + (IF t.red[w[0]] THEN 0 ELSE 1)
      BY <2>3, <2>4
    <2>6. \A j \in 0 .. 0 : w[j] \in t.used /\ sub[w[0]] \subseteq sub[w[j]]
      BY <2>1
    <2>. QED
      BY <2>1, <2>3, <2>5, <2>6 DEF Walked
  <1>8. ASSUME NEW i \in 1 .. NNode, i - 1 \in T PROVE i \in T
    <2>. DEFINE n == w[i - 1]
                s == w[i]
    <2>1. /\ i \in 0 .. NNode /\ i - 1 \in 0 .. NNode /\ i - 1 \in Nat /\ (i - 1) + 1 = i
          /\ s = Below(t, k)[n] /\ Walked(t, sub, h, w, i - 1)
      BY <1>1, <1>4, <1>8
    <2>2. n \in t.used /\ s \in t.used /\ Toward(t, sub, k, n)
      BY <1>5, <2>1
    <2>3. CASE Halts(t, k, n)
      <3>1. s = n
        <4>1. n \in Node0
          BY <2>2, TidyNode
        <4>. HIDE DEF n, s
        <4>. QED
          BY <2>1, <2>3, <4>1 DEF Below
      <3>2. Dark(t, w, i) = Dark(t, w, i - 1)
        <4>1. 0 .. i = (0 .. (i - 1)) \cup {i} /\ i - 1 \in 0 .. (i - 1)
          BY <2>1
        <4>2. \A m : (\E j \in 0 .. i : w[j] = m) <=> (\E j \in 0 .. (i - 1) : w[j] = m)
          BY <3>1, <4>1
        <4>. QED
          BY <4>2 DEF Dark
      <3>3. \A j \in 0 .. i : w[j] \in t.used /\ sub[s] \subseteq sub[w[j]]
        <4>1. 0 .. i = (0 .. (i - 1)) \cup {i}
          BY <2>1
        <4>2. \A j \in 0 .. (i - 1) : w[j] \in t.used /\ sub[n] \subseteq sub[w[j]]
          BY <2>1 DEF Walked
        <4>. QED
          BY <2>2, <3>1, <4>1, <4>2
      <3>4. /\ IsFiniteSet(Dark(t, w, i - 1))
            /\ Cardinality(Dark(t, w, i - 1)) = h[t.root] - h[n] + (IF t.red[n] THEN 0 ELSE 1)
        BY <2>1 DEF Walked
      <3>5. Walked(t, sub, h, w, i)
        BY <2>2, <3>1, <3>2, <3>3, <3>4 DEF Walked
      <3>. QED
        BY <2>1, <3>5
    <2>4. CASE ~Halts(t, k, n)
      <3>. HIDE DEF n
      <3>1. t.parent[s] = n /\ (s = t.left[n] \/ s = t.right[n])
        <4>1. s # NIL
          BY <2>2, TidyNode
        <4>. HIDE DEF s
        <4>. QED
          BY <1>3, <2>1, <2>2, <2>4, <4>1, TowardSon
      <3>2. Walked(t, sub, h, w, (i - 1) + 1)
        BY <2>1, <2>2, <3>1, WalkedOn DEF n
      <3>. QED
        BY <2>1, <3>2
    <2>. QED
      BY <2>3, <2>4
  <1>. HIDE DEF T
  <1>9. NNode \in T
    BY <1>1, <1>7, <1>8, Inductive
  <1>10. Cardinality(Dark(t, w, NNode)) = h[t.root] - h[x] + (IF t.red[x] THEN 0 ELSE 1)
    BY <1>6, <1>9 DEF T, Walked
  <1>11. {w[i] : i \in 0 .. NNode} \cap {m \in Node : ~t.red[m]} = Dark(t, w, NNode)
    BY DEF Dark
  <1>. QED
    BY <1>10, <1>11 DEF w, k

(* A sound tree has all that RedBlack says.                                *)
LEMMA SoundRedBlack ==
  ASSUME NEW sub, NEW h, Sound(tree, sub, h)
  PROVE  RedBlack
  <1>1. /\ Tidy(tree, sub) /\ Tinted(tree, tree.red, h) /\ Calm(tree, NIL)
        /\ ~tree.red[tree.root]
    BY DEF Sound
  <1>2. Reached(tree) = tree.used /\ tree.parent[tree.root] = NIL
    BY <1>1, ReachedTidy, TidyRoot
  <1>3. ASSUME NEW n \in tree.used PROVE Lookup(tree, tree.key[n]) = n
    <2>1. tree.key[n] \in Nat
      BY <1>1, TidyNode DEF Tidy, Tree
    <2>. QED
      BY <1>1, <2>1, LookupIs
  <1>4. ASSUME NEW n \in tree.used, NEW son \in {tree.left[n], tree.right[n]} \ {NIL}
        PROVE  tree.parent[son] = n /\ ~(tree.red[n] /\ tree.red[son])
    <2>1. tree.parent[son] = n /\ son \in tree.used /\ n # NIL /\ son # NIL
      BY <1>1, TidyNode
    <2>2. tree.red[son] => ~tree.red[n]
      BY <1>1, <2>1 DEF Calm
    <2>. QED
      BY <2>1, <2>2
  <1>5. ASSUME NEW n \in Ends PROVE Blacks(n) = h[tree.root]
    <2>1. n \in tree.used /\ (tree.left[n] = NIL \/ tree.right[n] = NIL)
      BY <1>2 DEF Ends
    <2>2. Blacks(n) = h[tree.root] - h[n] + (IF tree.red[n] THEN 0 ELSE 1)
      BY <1>1, <2>1, WayBlacks DEF Blacks
    <2>3. h[n] = IF tree.red[n] THEN 0 ELSE 1
      BY <1>1, <2>1 DEF Tinted
    <2>4. h[tree.root] \in Nat
      BY <1>1 DEF Tinted, Tidy, Tree
    <2>. QED
      BY <2>2, <2>3, <2>4
  <1>6. \A m, n \in Ends : Blacks(m) = Blacks(n)
    BY <1>5
  <1>. QED
    BY <1>1, <1>2, <1>3, <1>4, <1>6 DEF RedBlack

(* Until a left child is turned the tree is a red-black search tree: every *)
(* node is found under its key, no red node has a red child, and all ways  *)
(* down have as many black nodes.                                          *)
THEOREM StaysRedBlack == Spec => []RedBlack
  <1>1. ASSUME IInv PROVE RedBlack
    <2>1. CASE tree.bent
      BY <2>1 DEF RedBlack
    <2>2. CASE ~tree.bent
      <3>1. PICK sub, h : Sound(tree, sub, h)
        BY <1>1, <2>2 DEF IInv, Kept
      <3>. QED
        BY <3>1, SoundRedBlack
    <2>. QED
      BY <2>1, <2>2
  <1>. QED
    BY <1>1, Invariance, PTL
=============================================================================
