-------------------------- MODULE HashTable_proofs --------------------------
(***************************************************************************)
(* Proofs about HashTable, for any keys and any size: the fields keep      *)
(* their types, the nodes ever used are those in use and those on the list *)
(* of removed nodes, walks end until a key is removed, and lookups return  *)
(* what was put until the table grows.                                     *)
(***************************************************************************)
EXTENDS HashTable, Iteration, FiniteSetTheorems

Ref == Index \cup {NONE}

LEMMA UpTo == \A a \in Nat : IsFiniteSet(0 .. a - 1) /\ Cardinality(0 .. a - 1) = a
  BY FS_Interval

LEMMA Sizes ==
  /\ MaxNodes \in Nat \ {0} /\ DefaultMax \in 1 .. MaxNodes
  /\ NONE = MaxNodes /\ NONE \notin Index
  /\ \A i \in Ref : i \in 0 .. MaxNodes
  /\ \A k \in Key, m \in 1 .. MaxNodes : k % m \in 0 .. m - 1
  <1>1. \A k \in Nat, m \in Nat \ {0} : k % m \in 0 .. m - 1
    OBVIOUS
  <1>. QED
    BY <1>1, HashAssumption DEF NONE, Index, Ref

-----------------------------------------------------------------------------
(* What holds of the nodes of a table.                                     *)
Used(t) == {i \in Index : t.n[i].def}
Free(t) == {i \in Index : i < t.avalid /\ ~t.n[i].def}

Counted(t) ==
    /\ t.avalid <= t.max
    /\ \A i \in Used(t) : i < t.avalid
    /\ Cardinality(Used(t)) = t.total

(* d ranks the removed nodes: the list that begins at undef is one of all  *)
(* of them, each once.                                                     *)
Ranked(t, d) ==
    /\ d[NONE] = 0
    /\ t.undef \in Free(t) \cup {NONE}
    /\ \A i \in Free(t) : /\ t.n[i].next \in Free(t) \cup {NONE}
                          /\ d[i] = d[t.n[i].next] + 1
                          /\ d[i] <= d[t.undef]
    /\ \A i, j \in Free(t) : d[i] = d[j] => i = j
Listed(t) == \E d \in [Ref -> Nat] : Ranked(t, d)

Sane(t) == t \in Table /\ Counted(t) /\ Listed(t)

(* A table without removed nodes at the head of the list has none at all.  *)
LEMMA NoneFree ==
  ASSUME NEW t, Sane(t), ~Valid(t, t.undef)
  PROVE  t.undef = NONE /\ Free(t) = {}
  <1>1. PICK d \in [Ref -> Nat] : Ranked(t, d)
    BY DEF Sane, Listed
  <1>2. t.undef = NONE
    <2>1. \A i \in Free(t) : i < t.max /\ i # NONE
      BY Sizes DEF Free, Sane, Counted, Table, Index
    <2>. QED
      BY <1>1, <2>1 DEF Ranked, Valid
  <1>3. ASSUME NEW i \in Free(t) PROVE FALSE
    <2>1. t.n[i].next \in Ref
      BY <1>1 DEF Ranked, Free, Ref
    <2>2. d[t.n[i].next] \in Nat
      BY <2>1
    <2>. QED
      BY <1>1, <1>2, <1>3, <2>2 DEF Ranked
  <1>. QED
    BY <1>2, <1>3

(* Its nodes in use are then the first ones, as many as total says.        *)
LEMMA AllUsed ==
  ASSUME NEW t, Sane(t), Free(t) = {}
  PROVE  t.total = t.avalid
  <1>1. t.avalid \in 0 .. MaxNodes /\ t.avalid \in Nat /\ MaxNodes \in Nat
    BY Sizes DEF Sane, Table
  <1>2. Used(t) = 0 .. t.avalid - 1
    BY <1>1 DEF Used, Free, Sane, Counted, Index
  <1>3. Cardinality(0 .. t.avalid - 1) = t.avalid
    BY <1>1, UpTo
  <1>. QED
    BY <1>2, <1>3 DEF Sane, Counted

(* A table never has more nodes in use than were ever used.                *)
LEMMA UsedFinite ==
  ASSUME NEW t, Sane(t)
  PROVE  /\ IsFiniteSet(Used(t))
         /\ t.total <= t.avalid
         /\ t.total = t.avalid => Free(t) = {}
  <1>1. t.avalid \in 0 .. MaxNodes /\ t.avalid \in Nat /\ MaxNodes \in Nat
    BY Sizes DEF Sane, Table
  <1>2. Used(t) \in SUBSET (0 .. t.avalid - 1)
    BY <1>1 DEF Used, Sane, Counted, Index
  <1>3. IsFiniteSet(0 .. t.avalid - 1) /\ Cardinality(0 .. t.avalid - 1) = t.avalid
    BY <1>1, UpTo
  <1>4. /\ IsFiniteSet(Used(t)) /\ Cardinality(Used(t)) <= t.avalid
        /\ Cardinality(Used(t)) = t.avalid => Used(t) = 0 .. t.avalid - 1
    BY <1>2, <1>3, FS_Subset
  <1>5. Used(t) = 0 .. t.avalid - 1 => Free(t) = {}
    BY <1>1 DEF Used, Free, Index
  <1>. QED
    BY <1>4, <1>5 DEF Sane, Counted
-----------------------------------------------------------------------------
(* The empty table.                                                        *)
LEMMA NewSane == Sane(newHash)
  <1>1. newHash \in Table
    BY Sizes DEF newHash, Table, Node, Index, NONE
  <1>2. Counted(newHash)
    <2>1. Used(newHash) = {} /\ newHash.total = 0 /\ newHash.avalid = 0 /\ newHash.max = DefaultMax
      BY DEF newHash, Used
    <2>. QED
      BY <2>1, Sizes, FS_EmptySet DEF Counted
  <1>3. Listed(newHash)
    <2>1. Free(newHash) = {} /\ newHash.undef = NONE
      BY Sizes DEF newHash, Free, Index
    <2>2. Ranked(newHash, [i \in Ref |-> 0])
      BY <2>1 DEF Ranked, Ref
    <2>. QED
      BY <2>2 DEF Listed
  <1>. QED
    BY <1>1, <1>2, <1>3 DEF Sane

(* A table that has grown.                                                 *)
LEMMA GrownSane ==
  ASSUME NEW t, Sane(t), t.total >= t.max, 2 * t.max <= MaxNodes
  PROVE  Sane(Grown(t)) /\ Grown(t).total < Grown(t).max
  <1>. DEFINE g == Grown(t)
  <1>1. /\ t.max \in 1 .. MaxNodes /\ t.total \in 0 .. MaxNodes /\ t.avalid \in 0 .. MaxNodes
        /\ t.first \in [Index -> Ref] /\ t.n \in [Index -> Node] /\ t.undef \in Ref
    BY DEF Sane, Table, Ref
  <1>2. t.total = t.max /\ t.avalid = t.max
    <2>1. t.avalid <= t.max /\ t.total <= t.avalid
      BY UsedFinite DEF Sane, Counted
    <2>. QED
      BY <1>1, <2>1, Sizes
  <1>3. Free(t) = {}
    BY <1>2, UsedFinite
  <1>4. t.undef = NONE
    BY <1>3 DEF Sane, Listed, Ranked
  <1>5. t.total \in Index /\ 0 \in Index
    BY <1>1, <1>2, Sizes DEF Index
  <1>6. /\ g.max = 2 * t.max /\ g.total = t.total /\ g.avalid = t.avalid /\ g.undef = NONE
        /\ g.first \in [Index -> Ref] /\ g.n \in [Index -> Node]
        /\ \A i \in Index : g.n[i].def = t.n[i].def
    <2>1. g = [t EXCEPT !.max = g.max, !.first = g.first, !.n = g.n]
      BY DEF Grown, Sane, Table
    <2>2. g.max = 2 * t.max /\ g.total = t.total /\ g.avalid = t.avalid /\ g.undef = NONE
      BY <1>4 DEF Grown, Sane, Table
    <2>3. g.first \in [Index -> Ref]
      BY <1>5 DEF Grown, Sane, Table, Ref
    <2>4. g.n = [t.n EXCEPT ![0].next = IF t.total = 1 THEN NONE ELSE t.total - 1]
      BY DEF Grown, Sane, Table
    <2>5. (IF t.total = 1 THEN NONE ELSE t.total - 1) \in Ref
      BY <1>1, <1>2, Sizes DEF Ref, Index
    <2>6. g.n \in [Index -> Node] /\ \A i \in Index : g.n[i].def = t.n[i].def
      BY <1>1, <1>5, <2>4, <2>5 DEF Node, Ref
    <2>. QED
      BY <2>2, <2>3, <2>6
  <1>7. g \in Table
    <2>1. t = [max |-> t.max, total |-> t.total, avalid |-> t.avalid, undef |-> t.undef,
               first |-> t.first, n |-> t.n]
      BY DEF Sane, Table
    <2>2. g = [max |-> g.max, total |-> g.total, avalid |-> g.avalid, undef |-> g.undef,
               first |-> g.first, n |-> g.n]
      <3>1. g = [t EXCEPT !.max = g.max, !.first = g.first, !.n = g.n]
        BY DEF Grown, Sane, Table
      <3>2. g.total = t.total /\ g.avalid = t.avalid /\ g.undef = t.undef
        BY <1>4, <1>6
      <3>. HIDE DEF g
      <3>. QED
        BY <2>1, <3>1, <3>2
    <2>. HIDE DEF g
    <2>. QED
      BY <1>1, <1>2, <1>6, <2>2, Sizes DEF Table, Ref
  <1>8. Used(g) = Used(t) /\ Free(g) = {}
    BY <1>3, <1>6 DEF Used, Free
  <1>9. Counted(g)
    BY <1>1, <1>2, <1>6, <1>8, Sizes DEF Counted, Sane
  <1>10. Listed(g)
    <2>1. Ranked(g, [i \in Ref |-> 0])
      BY <1>6, <1>8 DEF Ranked, Ref
    <2>. QED
      BY <2>1 DEF Listed
  <1>. QED
    BY <1>1, <1>2, <1>6, <1>7, <1>9, <1>10, Sizes DEF Sane

(* A table with one more node.  The node is the removed one at the head of *)
(* the list, or there is none and it is the next never used.               *)
Inserted(t, k, v) ==
    LET i == FreeNode(t)
        u == Insert(t, k, v)
    IN  /\ i \in Index \ Used(t)
        /\ Used(u) = Used(t) \cup {i}
        /\ u.max = t.max /\ u.first = [t.first EXCEPT ![Bucket(t, k)] = i]
        /\ u.n = [t.n EXCEPT ![i] = [key |-> k, value |-> v, def |-> TRUE,
                                     next |-> Link(t, k)]]
        /\ t.undef = NONE => i = t.avalid /\ u.undef = NONE /\ u.avalid = t.avalid + 1

LEMMA InsertSane ==
  ASSUME NEW t, Sane(t), t.total < t.max, NEW k \in Key, NEW v \in Value
  PROVE  Sane(Insert(t, k, v)) /\ Inserted(t, k, v)
  <1>. DEFINE i == FreeNode(t)
              b == Bucket(t, k)
              u == Insert(t, k, v)
              new == [key |-> k, value |-> v, def |-> TRUE, next |-> Link(t, k)]
  <1>1. /\ t.max \in 1 .. MaxNodes /\ t.total \in 0 .. MaxNodes /\ t.avalid \in 0 .. MaxNodes
        /\ t.first \in [Index -> Ref] /\ t.n \in [Index -> Node] /\ t.undef \in Ref
        /\ t.avalid <= t.max /\ MaxNodes \in Nat
    BY Sizes DEF Sane, Table, Ref, Counted
  <1>2. PICK d \in [Ref -> Nat] : Ranked(t, d)
    BY DEF Sane, Listed
  <1>3. b \in Index
    <2>1. t.max \in 1 .. MaxNodes
      BY <1>1
    <2>2. k % t.max \in 0 .. t.max - 1
      BY <2>1, Sizes
    <2>. QED
      BY <1>1, <2>2 DEF Bucket, Index
  <1>4. \/ i = t.undef /\ i \in Free(t)
        \/ i = t.avalid /\ i < t.max /\ t.undef = NONE /\ Free(t) = {}
    <2>1. CASE Valid(t, t.undef)
      BY <1>2, <2>1 DEF FreeNode, Ranked, Valid
    <2>2. CASE ~Valid(t, t.undef)
      <3>1. t.undef = NONE /\ Free(t) = {}
        BY <2>2, NoneFree
      <3>. QED
        BY <1>1, <2>2, <3>1, AllUsed DEF FreeNode
    <2>. QED
      BY <2>1, <2>2
  <1>5. i \in Index /\ i # NONE /\ ~t.n[i].def
    <2>1. CASE i = t.undef /\ i \in Free(t)
      BY <2>1, Sizes DEF Free
    <2>2. CASE i = t.avalid /\ i < t.max /\ t.undef = NONE /\ Free(t) = {}
      <3>1. i \in Index /\ i # NONE
        <4>1. t.avalid \in 0 .. MaxNodes /\ t.avalid < t.max /\ t.max \in 1 .. MaxNodes
          BY <1>1, <2>2
        <4>2. t.avalid \in Index /\ t.avalid # NONE
          BY <4>1, Sizes DEF Index
        <4>. QED
          BY <2>2, <4>2
      <3>2. i \notin Used(t)
        BY <1>1, <2>2 DEF Sane, Counted
      <3>. QED
        BY <3>1, <3>2 DEF Used
    <2>. QED
      BY <1>4, <2>1, <2>2
  <1>6. new \in Node
    <2>1. Link(t, k) \in Ref
      BY <1>1, <1>3 DEF Link
    <2>. QED
      BY <2>1 DEF Node, Ref
  <1>. HIDE DEF i, b, new
  <1>7. u = [t EXCEPT !.first[b] = i,
                      !.n[i] = new,
                      !.undef = IF i = t.undef THEN t.n[i].next ELSE @,
                      !.avalid = IF i = t.undef THEN @ ELSE @ + 1,
                      !.total = @ + 1]
    BY DEF Insert, i, b, new
  <1>8. /\ u.max = t.max /\ u.total = t.total + 1
        /\ u.avalid = IF i = t.undef THEN t.avalid ELSE t.avalid + 1
        /\ u.undef = IF i = t.undef THEN t.n[i].next ELSE t.undef
        /\ u.first = [t.first EXCEPT ![b] = i] /\ u.n = [t.n EXCEPT ![i] = new]
        /\ u = [max |-> u.max, total |-> u.total, avalid |-> u.avalid, undef |-> u.undef,
                first |-> u.first, n |-> u.n]
    <2>. HIDE DEF u
    <2>. QED
      BY <1>7 DEF Sane, Table
  <1>. HIDE DEF u
  <1>9. t.n[i].next \in Ref
    BY <1>1, <1>5 DEF Node, Ref
  <1>10. u \in Table
    <2>1. u.max \in 1 .. MaxNodes /\ u.total \in 0 .. MaxNodes
      BY <1>1, <1>8
    <2>2. u.avalid \in 0 .. MaxNodes
      BY <1>1, <1>4, <1>8
    <2>3. u.undef \in Ref
      BY <1>1, <1>8, <1>9
    <2>4. u.first \in [Index -> Ref]
      BY <1>1, <1>5, <1>8 DEF Ref
    <2>5. u.n \in [Index -> Node]
      BY <1>1, <1>6, <1>8
    <2>. QED
      BY <1>8, <2>1, <2>2, <2>3, <2>4, <2>5 DEF Table, Ref
  <1>11. \A j \in Index : /\ j # i => u.n[j] = t.n[j]
                          /\ u.n[i].def
    BY <1>1, <1>5, <1>8 DEF new
  <1>12. Used(u) = Used(t) \cup {i} /\ i \notin Used(t)
    BY <1>5, <1>11 DEF Used
  <1>13. Counted(u)
    <2>1. u.avalid <= u.max
      BY <1>1, <1>4, <1>8
    <2>2. \A j \in Used(u) : j < u.avalid
      <3>1. i < u.avalid
        <4>1. CASE i = t.undef /\ i \in Free(t)
          BY <1>8, <4>1 DEF Free
        <4>2. CASE i = t.avalid /\ t.undef = NONE
          BY <1>1, <1>5, <1>8, <4>2
        <4>. QED
          BY <1>4, <4>1, <4>2
      <3>2. \A j \in Used(t) : j < t.avalid
        BY DEF Sane, Counted
      <3>3. t.avalid <= u.avalid
        BY <1>1, <1>8
      <3>4. \A j \in Used(t) : j \in Int
        BY DEF Used, Index
      <3>. QED
        BY <1>1, <1>8, <1>12, <3>1, <3>2, <3>3, <3>4
    <2>3. Cardinality(Used(u)) = Cardinality(Used(t)) + 1
      BY <1>12, UsedFinite, FS_AddElement
    <2>. QED
      BY <1>1, <1>8, <2>1, <2>2, <2>3 DEF Counted, Sane
  <1>14. Free(u) = Free(t) \ {i}
    BY <1>1, <1>4, <1>5, <1>8, <1>11 DEF Free, Index
  <1>15. Ranked(u, d)
    <2>1. CASE i = t.undef /\ i \in Free(t)
      <3>1. t.n[i].next \in Free(t) \cup {NONE} /\ d[i] = d[t.n[i].next] + 1
        BY <1>2, <2>1 DEF Ranked
      <3>2. d[t.n[i].next] \in Nat /\ d[i] \in Nat /\ i \in Ref
        BY <1>5, <1>9 DEF Ref
      <3>3. u.undef \in Free(u) \cup {NONE} /\ u.undef = t.n[i].next
        BY <1>8, <1>14, <2>1, <3>1, <3>2
      <3>4. ASSUME NEW j \in Free(u)
            PROVE  /\ u.n[j].next \in Free(u) \cup {NONE}
                   /\ d[j] = d[u.n[j].next] + 1
                   /\ d[j] <= d[u.undef]
        <4>1. j \in Free(t) /\ j # i /\ u.n[j] = t.n[j] /\ j \in Index
          BY <1>11, <1>14 DEF Free
        <4>2. /\ t.n[j].next \in Free(t) \cup {NONE} /\ d[j] = d[t.n[j].next] + 1
              /\ d[j] <= d[i] /\ d[j] # d[i]
          BY <1>2, <2>1, <4>1 DEF Ranked
        <4>3. t.n[j].next \in Ref /\ j \in Ref /\ d[j] \in Nat /\ d[t.n[j].next] \in Nat
          BY <1>1, <4>1 DEF Node, Ref
        <4>4. t.n[j].next # i
          BY <4>2, <4>3, <3>2
        <4>. QED
          BY <1>14, <3>1, <3>2, <3>3, <4>1, <4>2, <4>3, <4>4
      <3>5. \A j, l \in Free(u) : d[j] = d[l] => j = l
        BY <1>2, <1>14 DEF Ranked
      <3>. QED
        BY <1>2, <3>3, <3>4, <3>5 DEF Ranked
    <2>2. CASE i = t.avalid /\ i < t.max /\ t.undef = NONE /\ Free(t) = {}
      BY <1>2, <1>5, <1>8, <1>14, <2>2 DEF Ranked
    <2>. QED
      BY <1>4, <2>1, <2>2
  <1>16. t.undef = NONE => i = t.avalid /\ u.undef = NONE /\ u.avalid = t.avalid + 1
    BY <1>4, <1>5, <1>8
  <1>17. Inserted(t, k, v)
    BY <1>5, <1>8, <1>12, <1>16 DEF Inserted, u, i, b, new
  <1>. QED
    BY <1>10, <1>13, <1>15, <1>17 DEF Sane, Listed, u

-----------------------------------------------------------------------------
(* The walk of findHashNode, as an iteration.                              *)
Step(t, k) ==
    [i \in Ref |-> IF EndsAt(t, i) \/ t.n[i].key = k THEN i ELSE t.n[i].next]

LEMMA BucketType ==
  ASSUME NEW t, t \in Table, NEW k \in Key
  PROVE  Bucket(t, k) \in Index /\ t.first[Bucket(t, k)] \in Ref
  <1>1. t.max \in 1 .. MaxNodes /\ t.first \in [Index -> Ref]
    BY DEF Table, Ref
  <1>2. k % t.max \in 0 .. t.max - 1
    BY <1>1, Sizes
  <1>. QED
    BY <1>1, <1>2, Sizes DEF Bucket, Index

LEMMA StepType ==
  ASSUME NEW t, t \in Table, NEW k \in Key
  PROVE  Step(t, k) \in [Ref -> Ref]
  <1>1. ASSUME NEW i \in Ref, ~EndsAt(t, i) PROVE i \in Index /\ t.n[i].next \in Ref
    BY <1>1 DEF EndsAt, Valid, Ref, Table, Node
  <1>. QED
    BY <1>1 DEF Step

LEMMA WalkDefined ==
  ASSUME NEW t, t \in Table, NEW k \in Key
  PROVE  Iterated(Walk(t, k), Ref, t.first[Bucket(t, k)], Step(t, k), MaxNodes)
  <1>. DEFINE a == t.first[Bucket(t, k)]
              G(i) == IF EndsAt(t, i) \/ t.n[i].key = k THEN i ELSE t.n[i].next
              Raw(f) == [s \in 0 .. MaxNodes |-> IF s = 0 THEN a ELSE G(f[s - 1])]
  <1>0. MaxNodes \in Nat
    BY Sizes
  <1>1. a \in Ref /\ Step(t, k) \in [Ref -> Ref]
    BY BucketType, StepType
  <1>2. PICK f : Iterated(f, Ref, a, Step(t, k), MaxNodes)
    BY <1>0, <1>1, Iterates
  <1>3. /\ f \in [0 .. MaxNodes -> Ref] /\ f[0] = a
        /\ \A s \in 1 .. MaxNodes : f[s] = G(f[s - 1])
    <2>1. \A i \in Ref : Step(t, k)[i] = G(i)
      BY DEF Step
    <2>2. \A s \in 1 .. MaxNodes : f[s - 1] \in Ref /\ f[s] = Step(t, k)[f[s - 1]]
      BY <1>0, <1>2 DEF Iterated
    <2>. HIDE DEF G
    <2>. QED
      BY <1>2, <2>1, <2>2 DEF Iterated
  <1>5. Walk(t, k) = CHOOSE w : w = Raw(w)
    BY DEF Walk
  <1>. HIDE DEF G
  <1>4. f = Raw(f)
    BY <1>0, <1>3
  <1>6. Walk(t, k) = Raw(Walk(t, k))
    BY <1>4, <1>5
  <1>. DEFINE w == Walk(t, k)
  <1>7. /\ w[0] = a /\ w = [s \in 0 .. MaxNodes |-> w[s]]
        /\ \A s \in 1 .. MaxNodes : w[s] = G(w[s - 1])
    <2>1. w = Raw(w)
      BY <1>6
    <2>. HIDE DEF w
    <2>. QED
      BY <1>0, <2>1
  <1>. HIDE DEF w
  <1>8. \A s \in 0 .. MaxNodes : w[s] = f[s]
    <2>. DEFINE T == {s \in 0 .. MaxNodes : w[s] = f[s]}
    <2>1. 0 \in T
      BY <1>0, <1>3, <1>7
    <2>2. ASSUME NEW s \in 1 .. MaxNodes, s - 1 \in T PROVE s \in T
      <3>1. w[s - 1] = f[s - 1]
        BY <2>2
      <3>2. w[s] = G(w[s - 1]) /\ f[s] = G(f[s - 1])
        BY <1>3, <1>7
      <3>. QED
        BY <1>0, <3>1, <3>2
    <2>. HIDE DEF T
    <2>3. \A s \in 0 .. MaxNodes : s \in T
      BY <1>0, <2>1, <2>2, Inductive
    <2>. QED
      BY <2>3 DEF T
  <1>9. w = f
    BY <1>3, <1>7, <1>8
  <1>. QED
    BY <1>2, <1>9 DEF w

(* Once it stands still it stays.                                          *)
LEMMA WalkStays ==
  ASSUME NEW t, t \in Table, NEW k \in Key, NEW s \in 0 .. MaxNodes,
         EndsAt(t, Walk(t, k)[s]) \/ t.n[Walk(t, k)[s]].key = k
  PROVE  \A r \in s .. MaxNodes : Walk(t, k)[r] = Walk(t, k)[s]
  <1>. DEFINE w == Walk(t, k)
              n == MaxNodes - s
              T == {j \in 0 .. n : w[s + j] = w[s]}
  <1>0. MaxNodes \in Nat /\ n \in Nat
    BY Sizes
  <1>1. /\ w \in [0 .. MaxNodes -> Ref]
        /\ \A r \in 1 .. MaxNodes : w[r] = Step(t, k)[w[r - 1]]
    BY WalkDefined DEF Iterated
  <1>2. 0 \in T
    BY <1>0
  <1>3. ASSUME NEW j \in 1 .. n, j - 1 \in T PROVE j \in T
    <2>1. s + j \in 1 .. MaxNodes /\ (s + j) - 1 = s + (j - 1) /\ w[s] \in Ref
      BY <1>0, <1>1
    <2>2. w[s + j] = Step(t, k)[w[s]]
      <3>1. w[s + (j - 1)] = w[s]
        BY <1>3
      <3>2. w[s + j] = Step(t, k)[w[(s + j) - 1]]
        BY <1>1, <2>1
      <3>. QED
        BY <2>1, <3>1, <3>2
    <2>3. Step(t, k)[w[s]] = w[s]
      BY <2>1 DEF Step
    <2>. QED
      BY <2>2, <2>3
  <1>. HIDE DEF T, n
  <1>4. \A j \in 0 .. n : j \in T
    BY <1>0, <1>2, <1>3, Inductive
  <1>5. ASSUME NEW r \in s .. MaxNodes PROVE w[r] = w[s]
    <2>1. r - s \in 0 .. n /\ s + (r - s) = r
      BY <1>0 DEF n
    <2>2. r - s \in T
      BY <1>4, <2>1
    <2>3. w[s + (r - s)] = w[s]
      BY <2>2 DEF T
    <2>. QED
      BY <2>1, <2>3
  <1>. QED
    BY <1>5

(* What a walk that has found its key passed: nodes in use, the last of    *)
(* which leads to the one that was found.                                  *)
LEMMA FoundUsed ==
  ASSUME NEW t, t \in Table, NEW k \in Key, Found(t, k)
  PROVE  /\ At(t, k) \in Used(t)
         /\ Before(t, k) \subseteq Used(t) \ {At(t, k)}
         /\ Before(t, k) # {} => \E j \in Before(t, k) : t.n[j].next = At(t, k)
  <1>. DEFINE w == Walk(t, k)
              i == At(t, k)
  <1>0. MaxNodes \in Nat
    BY Sizes
  <1>1. /\ w \in [0 .. MaxNodes -> Ref]
        /\ \A r \in 1 .. MaxNodes : w[r] = Step(t, k)[w[r - 1]]
    BY WalkDefined DEF Iterated
  <1>2. i = w[MaxNodes] /\ i \in Ref /\ ~EndsAt(t, i) /\ t.n[i].key = k
    BY <1>0, <1>1 DEF At, Found
  <1>3. i \in Used(t)
    BY <1>2 DEF EndsAt, Valid, Used, Ref
  <1>4. ASSUME NEW s \in 0 .. MaxNodes, w[s] # i
        PROVE  ~EndsAt(t, w[s]) /\ t.n[w[s]].key # k /\ w[s] \in Used(t)
    <2>1. ~(EndsAt(t, w[s]) \/ t.n[w[s]].key = k)
      <3>1. SUFFICES ASSUME EndsAt(t, w[s]) \/ t.n[w[s]].key = k PROVE FALSE
        OBVIOUS
      <3>2. \A r \in s .. MaxNodes : w[r] = w[s]
        BY <3>1, WalkStays
      <3>. QED
        BY <1>0, <1>2, <1>4, <3>2
    <2>2. w[s] \in Ref
      BY <1>1
    <2>. QED
      BY <2>1, <2>2 DEF EndsAt, Valid, Used, Ref
  <1>5. Before(t, k) \subseteq Used(t) \ {i}
    BY <1>4 DEF Before
  <1>6. ASSUME Before(t, k) # {}, \A j \in Before(t, k) : t.n[j].next # i PROVE FALSE
    <2>. DEFINE T == {s \in 0 .. MaxNodes : w[s] # i}
    <2>1. 0 \in T
      <3>1. SUFFICES ASSUME w[0] = i PROVE FALSE
        BY <1>0
      <3>2. \A r \in 0 .. MaxNodes : w[r] = w[0]
        BY <1>0, <1>2, <3>1, WalkStays
      <3>. QED
        BY <1>6, <3>1, <3>2 DEF Before
    <2>2. ASSUME NEW s \in 1 .. MaxNodes, s - 1 \in T PROVE s \in T
      <3>1. s - 1 \in 0 .. MaxNodes /\ w[s - 1] # i
        BY <2>2
      <3>2. w[s - 1] \in Before(t, k) /\ w[s - 1] \in Ref
        BY <1>1, <3>1 DEF Before
      <3>3. w[s] = t.n[w[s - 1]].next
        BY <1>1, <1>4, <3>1, <3>2 DEF Step
      <3>. QED
        BY <1>6, <3>2, <3>3
    <2>. HIDE DEF T
    <2>3. \A s \in 0 .. MaxNodes : s \in T
      BY <1>0, <2>1, <2>2, Inductive
    <2>. QED
      BY <1>0, <1>2, <2>3 DEF T
  <1>. QED
    BY <1>3, <1>5, <1>6

(* How the links of t become those of w when the node i found is taken out *)
(* of its chain.                                                           *)
Relinked(t, k, w) ==
    LET i == At(t, k)
        x == t.n[i].next
    IN  \/ /\ Before(t, k) = {}
           /\ IF Valid(t, x) THEN w.first = [t.first EXCEPT ![Bucket(t, k)] = x]
                             ELSE w.first = t.first
           /\ \A j \in Used(t) \ {i} : w.n[j].next = t.n[j].next
        \/ \E p \in Before(t, k) :
               /\ t.n[p].next = i /\ w.n[p].next = x
               /\ w.first = t.first
               /\ \A j \in Used(t) \ {i, p} : w.n[j].next = t.n[j].next

(* Taking a node out of its chain leaves everything but links alone, and   *)
(* the links of removed nodes too.                                         *)
LEMMA UnlinkLeaves ==
  ASSUME NEW t, Sane(t), NEW k \in Key, Found(t, k)
  PROVE  LET w == Unlink(t, k) IN
         /\ w \in Table
         /\ w.max = t.max /\ w.total = t.total /\ w.avalid = t.avalid /\ w.undef = t.undef
         /\ \A j \in Index : /\ w.n[j].def = t.n[j].def
                             /\ ~t.n[j].def => w.n[j] = t.n[j]
                             /\ w.n[j].key = t.n[j].key /\ w.n[j].value = t.n[j].value
         /\ Relinked(t, k, w)
  <1>. DEFINE i == At(t, k)
              b == Bucket(t, k)
              p == CHOOSE j \in Before(t, k) : t.n[j].next = i
              w == Unlink(t, k)
              x == t.n[i].next
  <1>1. /\ t \in Table /\ t.first \in [Index -> Ref] /\ t.n \in [Index -> Node]
        /\ t = [max |-> t.max, total |-> t.total, avalid |-> t.avalid, undef |-> t.undef,
                first |-> t.first, n |-> t.n]
    BY DEF Sane, Table, Ref
  <1>2. i \in Used(t) /\ i \in Index /\ x \in Ref
    BY <1>1, FoundUsed DEF Used, Node, Ref
  <1>3. b \in Index
    BY <1>1, BucketType
  <1>4. CASE Before(t, k) = {} /\ Valid(t, x)
    <2>1. w = [t EXCEPT !.first[b] = x]
      BY <1>4 DEF Unlink
    <2>2. [t.first EXCEPT ![b] = x] \in [Index -> Ref]
      BY <1>1, <1>2
    <2>3. /\ w.max = t.max /\ w.total = t.total /\ w.avalid = t.avalid /\ w.undef = t.undef
          /\ w.n = t.n /\ w.first = [t.first EXCEPT ![b] = x]
          /\ w = [max |-> w.max, total |-> w.total, avalid |-> w.avalid, undef |-> w.undef,
                  first |-> w.first, n |-> w.n]
      <3>. HIDE DEF w
      <3>. QED
        BY <1>1, <2>1
    <2>. HIDE DEF w
    <2>4. w \in Table
      BY <1>1, <2>2, <2>3 DEF Table, Ref
    <2>5. Relinked(t, k, w)
      BY <1>4, <2>3 DEF Relinked
    <2>. QED
      BY <2>3, <2>4, <2>5 DEF w
  <1>5. CASE Before(t, k) = {} /\ ~Valid(t, x)
    BY <1>1, <1>5 DEF Unlink, Relinked
  <1>6. CASE Before(t, k) # {}
    <2>1. p \in Before(t, k) /\ p \in Used(t)
      BY <1>1, <1>6, FoundUsed
    <2>2. p \in Index /\ t.n[p].def
      BY <2>1 DEF Used
    <2>. HIDE DEF p
    <2>3. w = [t EXCEPT !.n[p].next = x]
      BY <1>6 DEF Unlink, Bypass, p
    <2>4. [t.n EXCEPT ![p].next = x] \in [Index -> Node]
      BY <1>1, <1>2, <2>2 DEF Node, Ref
    <2>5. /\ w.max = t.max /\ w.total = t.total /\ w.avalid = t.avalid /\ w.undef = t.undef
          /\ w.first = t.first /\ w.n = [t.n EXCEPT ![p].next = x]
          /\ w = [max |-> w.max, total |-> w.total, avalid |-> w.avalid, undef |-> w.undef,
                  first |-> w.first, n |-> w.n]
      <3>. HIDE DEF w, x
      <3>. QED
        BY <1>1, <2>3
    <2>6. \A j \in Index : /\ w.n[j].def = t.n[j].def /\ (j # p => w.n[j] = t.n[j])
                          /\ w.n[j].key = t.n[j].key /\ w.n[j].value = t.n[j].value
                          /\ w.n[p].next = x
      <3>. HIDE DEF w, x
      <3>. QED
        BY <1>1, <2>2, <2>5 DEF Node
    <2>. HIDE DEF w
    <2>7. w \in Table
      BY <1>1, <2>4, <2>5 DEF Table, Ref
    <2>8. Relinked(t, k, w)
      <3>1. \E j \in Before(t, k) : t.n[j].next = i
        BY <1>1, <1>6, FoundUsed
      <3>2. t.n[p].next = i
        BY <3>1 DEF p
      <3>3. \A j \in Used(t) \ {i, p} : w.n[j].next = t.n[j].next
        BY <2>6 DEF Used
      <3>. HIDE DEF i
      <3>. QED
        BY <2>1, <2>2, <2>5, <2>6, <3>2, <3>3 DEF Relinked, i
    <2>. QED
      BY <2>2, <2>5, <2>6, <2>7, <2>8 DEF w
  <1>. QED
    BY <1>4, <1>5, <1>6

(* A table with a key removed.                                             *)
LEMMA RemoveSane ==
  ASSUME NEW t, Sane(t), NEW k \in Key, Found(t, k)
  PROVE  LET u == hashRemove(t, k) IN
         /\ Sane(u) /\ u.max = t.max
         /\ Used(u) = Used(t) \ {At(t, k)}
         /\ \A j \in Used(u) : u.n[j].key = t.n[j].key /\ u.n[j].value = t.n[j].value
         /\ Relinked(t, k, u)
  <1>. DEFINE i == At(t, k)
              w == Unlink(t, k)
              u == hashRemove(t, k)
  <1>1. /\ w \in Table
        /\ w.max = t.max /\ w.total = t.total /\ w.avalid = t.avalid /\ w.undef = t.undef
        /\ \A j \in Index : /\ w.n[j].def = t.n[j].def
                            /\ ~t.n[j].def => w.n[j] = t.n[j]
                            /\ w.n[j].key = t.n[j].key /\ w.n[j].value = t.n[j].value
        /\ Relinked(t, k, w)
    BY UnlinkLeaves
  <1>2. i \in Used(t) /\ i \in Index /\ i \in Ref /\ i # NONE
    BY FoundUsed, Sizes DEF Used, Ref, Sane
  <1>3. /\ t.max \in 1 .. MaxNodes /\ t.total \in 0 .. MaxNodes /\ t.avalid \in 0 .. MaxNodes
        /\ t.undef \in Ref /\ MaxNodes \in Nat /\ w.first \in [Index -> Ref]
        /\ w.n \in [Index -> Node]
        /\ w = [max |-> w.max, total |-> w.total, avalid |-> w.avalid, undef |-> w.undef,
                first |-> w.first, n |-> w.n]
    BY <1>1, Sizes DEF Sane, Table, Ref
  <1>4. PICK d \in [Ref -> Nat] : Ranked(t, d)
    BY DEF Sane, Listed
  <1>. HIDE DEF w, i
  <1>5. u = [w EXCEPT !.n[i].def = FALSE, !.n[i].value = NoValue,
                      !.n[i].next = t.undef, !.undef = i, !.total = @ - 1]
    BY DEF hashRemove, Reuse, w, i
  <1>6. /\ u.max = t.max /\ u.total = t.total - 1 /\ u.avalid = t.avalid /\ u.undef = i
        /\ u.first = w.first
        /\ u.n = [w.n EXCEPT ![i] = [w.n[i] EXCEPT !.def = FALSE, !.value = NoValue,
                                                   !.next = t.undef]]
        /\ u = [max |-> u.max, total |-> u.total, avalid |-> u.avalid, undef |-> u.undef,
                first |-> u.first, n |-> u.n]
    <2>. HIDE DEF u
    <2>. QED
      BY <1>1, <1>2, <1>3, <1>5
  <1>. HIDE DEF u
  <1>7. [w.n[i] EXCEPT !.def = FALSE, !.value = NoValue, !.next = t.undef] \in Node
    <2>1. \A m \in Node, x \in Ref :
             [m EXCEPT !.def = FALSE, !.value = NoValue, !.next = x] \in Node
      BY DEF Node, Ref
    <2>2. w.n[i] \in Node /\ t.undef \in Ref
      BY <1>2, <1>3
    <2>. QED
      BY <2>1, <2>2
  <1>8. /\ u.n \in [Index -> Node]
        /\ ~u.n[i].def /\ u.n[i].next = t.undef
        /\ \A j \in Index : j # i => u.n[j] = w.n[j]
    BY <1>2, <1>3, <1>6, <1>7 DEF Node
  <1>9. Used(u) = Used(t) \ {i} /\ Free(u) = Free(t) \cup {i} /\ i \notin Free(t)
    <2>1. i < t.avalid
      BY <1>2 DEF Sane, Counted
    <2>. QED
      BY <1>1, <1>2, <1>6, <1>8, <2>1 DEF Used, Free
  <1>10. Cardinality(Used(u)) = t.total - 1 /\ t.total - 1 \in Nat
    <2>1. IsFiniteSet(Used(t)) /\ Cardinality(Used(t)) = t.total
      BY UsedFinite DEF Sane, Counted
    <2>2. IsFiniteSet(Used(u)) /\ Cardinality(Used(u)) = t.total - 1
      BY <1>2, <1>9, <2>1, FS_RemoveElement
    <2>. QED
      BY <2>2, FS_CardinalityType
  <1>11. u \in Table
    <2>1. u.total \in 0 .. MaxNodes
      BY <1>3, <1>6, <1>10
    <2>. QED
      BY <1>2, <1>3, <1>6, <1>8, <2>1 DEF Table, Ref
  <1>12. Counted(u)
    BY <1>6, <1>9, <1>10 DEF Counted, Sane
  <1>. DEFINE e == [d EXCEPT ![i] = d[t.undef] + 1]
  <1>13. d[t.undef] \in Nat /\ e \in [Ref -> Nat] /\ e[i] = d[t.undef] + 1
    BY <1>2, <1>3, <1>4
  <1>14. \A j \in Ref : j # i => e[j] = d[j]
    BY <1>4
  <1>. HIDE DEF e
  <1>15. t.undef \in Free(t) \cup {NONE} /\ t.undef # i
    BY <1>2, <1>4, <1>9 DEF Ranked
  <1>16. ASSUME NEW j \in Free(t)
         PROVE  /\ j # i /\ u.n[j] = t.n[j] /\ e[j] = d[j]
                /\ t.n[j].next \in Free(t) \cup {NONE} /\ t.n[j].next # i
                /\ e[j] = e[t.n[j].next] + 1
                /\ e[j] <= d[t.undef]
                /\ e[j] \in Nat
    <2>1. j \in Index /\ j \in Ref /\ ~t.n[j].def /\ j # i
      BY <1>9 DEF Free, Ref
    <2>2. u.n[j] = t.n[j] /\ e[j] = d[j] /\ d[j] \in Nat
      BY <1>1, <1>4, <1>8, <1>14, <2>1
    <2>3. /\ t.n[j].next \in Free(t) \cup {NONE} /\ d[j] = d[t.n[j].next] + 1
          /\ d[j] <= d[t.undef]
      BY <1>4 DEF Ranked
    <2>4. t.n[j].next # i /\ t.n[j].next \in Ref
      BY <1>2, <1>9, <2>3 DEF Free, Ref
    <2>. QED
      BY <1>14, <2>1, <2>2, <2>3, <2>4
  <1>17. Ranked(u, e)
    <2>1. e[NONE] = 0
      BY <1>2, <1>4, <1>14 DEF Ranked, Ref
    <2>2. e[i] = e[t.undef] + 1
      BY <1>3, <1>13, <1>14, <1>15
    <2>3. ASSUME NEW j \in Free(u)
          PROVE  /\ u.n[j].next \in Free(u) \cup {NONE}
                 /\ e[j] = e[u.n[j].next] + 1
                 /\ e[j] <= e[u.undef]
      <3>1. CASE j = i
        BY <1>6, <1>8, <1>9, <1>13, <1>15, <2>2, <3>1
      <3>2. CASE j # i
        BY <1>6, <1>9, <1>13, <1>16, <3>2
      <3>. QED
        BY <3>1, <3>2
    <2>4. ASSUME NEW j \in Free(u), NEW l \in Free(u), e[j] = e[l] PROVE j = l
      <3>1. \A m \in Free(t) : e[m] # e[i]
        BY <1>13, <1>16
      <3>2. \A m \in Free(t) : e[m] = d[m]
        BY <1>16
      <3>. QED
        BY <1>4, <1>9, <2>4, <3>1, <3>2 DEF Ranked
    <2>. QED
      BY <1>6, <1>9, <2>1, <2>3, <2>4 DEF Ranked
  <1>18. \A j \in Used(u) : u.n[j].key = t.n[j].key /\ u.n[j].value = t.n[j].value
    BY <1>1, <1>8, <1>9 DEF Used
  <1>19. Relinked(t, k, u)
    <2>1. \A j \in Used(t) : j # i => u.n[j].next = w.n[j].next
      BY <1>8 DEF Used
    <2>2. Before(t, k) \subseteq Used(t) /\ i \notin Before(t, k)
      BY FoundUsed DEF Sane, i
    <2>. QED
      BY <1>1, <1>6, <2>1, <2>2 DEF Relinked, i
  <1>. QED
    BY <1>6, <1>9, <1>11, <1>12, <1>13, <1>17, <1>18, <1>19 DEF Sane, Listed, u, i

(* A key put into a table with room: a value is replaced, or a node added. *)
Replaced(t, k, v) ==
    LET u == hashPut(t, k, v)
    IN  /\ u.max = t.max /\ u.first = t.first /\ u.undef = t.undef /\ u.avalid = t.avalid
        /\ Used(u) = Used(t)
        /\ u.n = [t.n EXCEPT ![At(t, k)].value = v]

LEMMA PutSane ==
  ASSUME NEW t, Sane(t), t.total < t.max, NEW k \in Key, NEW v \in Value
  PROVE  /\ Sane(hashPut(t, k, v)) /\ hashPut(t, k, v).max = t.max
         /\ Found(t, k) => Replaced(t, k, v)
         /\ ~Found(t, k) => hashPut(t, k, v) = Insert(t, k, v) /\ Inserted(t, k, v)
  <1>1. CASE ~Found(t, k)
    BY <1>1, InsertSane DEF hashPut, Inserted
  <1>2. CASE Found(t, k)
    <2>. DEFINE i == At(t, k)
                u == hashPut(t, k, v)
    <2>1. i \in Index /\ t.n[i] \in Node
      BY <1>2, FoundUsed DEF Used, Sane, Table
    <2>2. /\ t \in Table /\ t.n \in [Index -> Node]
          /\ t = [max |-> t.max, total |-> t.total, avalid |-> t.avalid, undef |-> t.undef,
                  first |-> t.first, n |-> t.n]
      BY DEF Sane, Table
    <2>. HIDE DEF i
    <2>3. u = [t EXCEPT !.n[i].value = v]
      BY <1>2 DEF hashPut, i
    <2>4. /\ u.max = t.max /\ u.total = t.total /\ u.avalid = t.avalid /\ u.undef = t.undef
          /\ u.first = t.first /\ u.n = [t.n EXCEPT ![i].value = v]
          /\ u = [max |-> u.max, total |-> u.total, avalid |-> u.avalid, undef |-> u.undef,
                  first |-> u.first, n |-> u.n]
      <3>. HIDE DEF u
      <3>. QED
        BY <2>2, <2>3
    <2>. HIDE DEF u
    <2>5. [t.n[i] EXCEPT !.value = v] \in Node
      BY <2>1 DEF Node
    <2>6. /\ u.n \in [Index -> Node]
          /\ \A j \in Index : u.n[j].def = t.n[j].def /\ u.n[j].next = t.n[j].next
      BY <2>1, <2>2, <2>4, <2>5 DEF Node
    <2>7. u \in Table
      BY <2>2, <2>4, <2>6 DEF Table
    <2>8. Used(u) = Used(t) /\ Free(u) = Free(t)
      BY <2>4, <2>6 DEF Used, Free
    <2>9. Counted(u)
      BY <2>4, <2>8 DEF Counted, Sane
    <2>10. ASSUME NEW d, Ranked(t, d) PROVE Ranked(u, d)
      <3>1. \A j \in Free(t) : u.n[j].next = t.n[j].next
        BY <2>6 DEF Free
      <3>. QED
        BY <2>4, <2>8, <2>10, <3>1 DEF Ranked
    <2>11. Replaced(t, k, v)
      BY <2>4, <2>8 DEF Replaced, u, i
    <2>. QED
      BY <1>2, <2>4, <2>7, <2>9, <2>10, <2>11 DEF Sane, Listed, u
  <1>. QED
    BY <1>1, <1>2

-----------------------------------------------------------------------------
(* The table of every reachable state is sane.                             *)
SaneInv == /\ Sane(table)
           /\ store \in [Key -> Value \cup {NoValue}]
           /\ status \in {"ok", "hung", "crashed"} /\ removed \in BOOLEAN

(* Whatever is put, fetched and removed, resizes included, the table's     *)
(* counters agree with its buckets and every node removed lies on the list *)
(* of free nodes once.                                                     *)
THEOREM SaneInvariant == Spec => []SaneInv
  <1>1. Init => SaneInv
    BY NewSane DEF Init, SaneInv
  <1>2. SaneInv /\ [Next]_vars => SaneInv'
    <2>. SUFFICES ASSUME SaneInv, [Next]_vars PROVE SaneInv'
      OBVIOUS
    <2>. USE DEF SaneInv
    <2>1. ASSUME NEW how \in {"hung", "crashed"}, End(how) PROVE SaneInv'
      BY <2>1 DEF End
    <2>2. ASSUME NEW k \in Key, NEW v \in Value, Put(k, v) PROVE SaneInv'
      <3>. DEFINE full == table.total >= table.max
                  t == IF full THEN Grown(table) ELSE table
      <3>1. CASE End("crashed") \/ End("hung")
        BY <2>1, <3>1
      <3>2. CASE /\ table' = hashPut(t, k, v)
                 /\ store' = [store EXCEPT ![k] = v]
                 /\ UNCHANGED <<status, removed>>
        <4>1. Sane(t) /\ t.total < t.max
          <5>1. CASE full
            BY <2>2, <5>1, GrownSane DEF Put
          <5>2. CASE ~full
            BY <5>2, Sizes DEF Sane, Table
          <5>. QED
            BY <5>1, <5>2
        <4>. HIDE DEF t
        <4>2. Sane(table')
          BY <3>2, <4>1, PutSane
        <4>. QED
          BY <3>2, <4>2
      <3>. QED
        BY <2>2, <3>1, <3>2 DEF Put
    <2>3. ASSUME NEW k \in Key, Remove(k) PROVE SaneInv'
      <3>1. CASE End("crashed") \/ End("hung")
        BY <2>1, <3>1
      <3>2. CASE /\ store' = [store EXCEPT ![k] = NoValue]
                 /\ UNCHANGED <<table, status, removed>>
        BY <3>2
      <3>3. CASE /\ Found(table, k)
                 /\ table' = hashRemove(table, k)
                 /\ store' = [store EXCEPT ![k] = NoValue]
                 /\ removed' = TRUE
                 /\ UNCHANGED status
        <4>1. Sane(table')
          BY <3>3, RemoveSane
        <4>. QED
          BY <3>3, <4>1
      <3>. QED
        BY <2>3, <3>1, <3>2, <3>3 DEF Remove
    <2>4. ASSUME NEW k \in Key, Get(k) PROVE SaneInv'
      BY <2>1, <2>4 DEF Get
    <2>5. CASE UNCHANGED vars
      BY <2>5 DEF vars
    <2>. QED
      BY <2>2, <2>3, <2>4, <2>5 DEF Next
  <1>. QED
    BY <1>1, <1>2, PTL DEF Spec

(* The fields keep their types: no index leaves the node array, whatever   *)
(* is put and removed, until the table crashes or hangs.                   *)
THEOREM TypeCorrect == Spec => []TypeOK
  <1>1. SaneInv => TypeOK
    BY DEF SaneInv, Sane, TypeOK
  <1>. QED
    BY <1>1, SaneInvariant, PTL

-----------------------------------------------------------------------------
(* The walk along the list of removed nodes, as an iteration.              *)
Follow(t) == [i \in Ref |-> IF Valid(t, i) THEN t.n[i].next ELSE NONE]

LEMMA FollowType ==
  ASSUME NEW t, t \in Table
  PROVE  Follow(t) \in [Ref -> Ref] /\ t.undef \in Ref
  <1>1. ASSUME NEW i \in Ref, Valid(t, i) PROVE t.n[i].next \in Ref
    BY <1>1 DEF Valid, Ref, Table, Node
  <1>2. t.undef \in Ref /\ NONE \in Ref
    BY DEF Table, Ref
  <1>. QED
    BY <1>1, <1>2 DEF Follow

(* The removed nodes are those that such a walk meets.                     *)
LEMMA RemovedMet ==
  ASSUME NEW t, Sane(t), NEW c, Iterated(c, Ref, t.undef, Follow(t), MaxNodes)
  PROVE  {c[s] : s \in 0 .. MaxNodes} \ {NONE} = Free(t)
  <1>1. PICK d \in [Ref -> Nat] : Ranked(t, d)
    BY DEF Sane, Listed
  <1>2. /\ c \in [0 .. MaxNodes -> Ref] /\ c[0] = t.undef
        /\ \A s \in 1 .. MaxNodes : c[s] = Follow(t)[c[s - 1]]
    BY DEF Iterated
  <1>3. MaxNodes \in Nat
    BY Sizes
  <1>4. PICK m \in Nat : m = d[t.undef]
    BY FollowType DEF Sane
  <1>5. /\ \A i \in Free(t) : /\ i \in Index /\ i \in Ref /\ i # NONE
                             /\ Follow(t)[i] = t.n[i].next
                             /\ t.n[i].next \in Free(t) \cup {NONE}
                             /\ d[i] = d[t.n[i].next] + 1 /\ d[i] <= m
                             /\ d[i] \in Nat /\ d[t.n[i].next] \in Nat
        /\ Follow(t)[NONE] = NONE /\ d[NONE] = 0
        /\ \A i, j \in Free(t) : d[i] = d[j] => i = j
        /\ t.undef \in Free(t) \cup {NONE}
    <2>1. ASSUME NEW i \in Free(t)
          PROVE  i \in Index /\ i \in Ref /\ i # NONE /\ Valid(t, i)
      <3>1. i \in Index /\ i < t.avalid /\ t.avalid <= t.max /\ t.max \in Int /\ t.avalid \in Int
        BY DEF Free, Sane, Counted, Table
      <3>. QED
        BY <3>1, Sizes DEF Valid, Ref, Index
    <2>2. \A i \in Free(t) : Follow(t)[i] = t.n[i].next
      BY <2>1 DEF Follow
    <2>3. Follow(t)[NONE] = NONE
      BY DEF Follow, Ref, Valid
    <2>4. \A i \in Free(t) : t.n[i].next \in Ref
      BY <2>1 DEF Sane, Table, Node, Ref
    <2>. QED
      BY <1>1, <1>4, <2>1, <2>2, <2>3, <2>4 DEF Ranked
  <1>. DEFINE Right(s) == IF s < m THEN c[s] \in Free(t) /\ d[c[s]] = m - s
                                   ELSE c[s] = NONE
              T == {s \in 0 .. MaxNodes : Right(s)}
  <1>6. 0 \in T
    <2>1. Right(0)
      <3>1. CASE t.undef = NONE
        BY <1>2, <1>4, <1>5, <3>1
      <3>2. CASE t.undef \in Free(t)
        <4>1. m = d[t.n[t.undef].next] + 1 /\ d[t.n[t.undef].next] \in Nat
          BY <1>4, <1>5, <3>2
        <4>. QED
          BY <1>2, <1>4, <3>2, <4>1
      <3>. QED
        BY <1>5, <3>1, <3>2
    <2>. QED
      BY <1>3, <2>1
  <1>7. ASSUME NEW s \in 1 .. MaxNodes, s - 1 \in T PROVE s \in T
    <2>1. Right(s - 1) /\ c[s] = Follow(t)[c[s - 1]]
      BY <1>2, <1>7
    <2>2. CASE s - 1 < m
      <3>1. c[s - 1] \in Free(t) /\ d[c[s - 1]] = m - (s - 1)
        BY <2>1, <2>2
      <3>2. /\ c[s] = t.n[c[s - 1]].next /\ c[s] \in Free(t) \cup {NONE}
            /\ d[c[s - 1]] = d[c[s]] + 1 /\ d[c[s]] \in Nat
        BY <1>5, <2>1, <3>1
      <3>3. d[c[s]] = m - s
        BY <3>1, <3>2
      <3>4. Right(s)
        <4>1. CASE c[s] = NONE
          BY <1>5, <3>3, <4>1
        <4>2. CASE c[s] \in Free(t)
          <5>1. d[c[s]] = d[t.n[c[s]].next] + 1 /\ d[t.n[c[s]].next] \in Nat
            BY <1>5, <4>2
          <5>. QED
            BY <3>3, <4>2, <5>1
        <4>. QED
          BY <3>2, <4>1, <4>2
      <3>. QED
        BY <3>4
    <2>3. CASE ~(s - 1 < m)
      <3>1. c[s] = NONE /\ ~(s < m)
        BY <1>5, <2>1, <2>3
      <3>. QED
        BY <3>1
    <2>. QED
      BY <2>2, <2>3
  <1>. HIDE DEF T
  <1>8. \A s \in 0 .. MaxNodes : s \in T
    BY <1>3, <1>6, <1>7, Inductive
  <1>9. \A s \in 0 .. MaxNodes : Right(s)
    BY <1>8 DEF T
  <1>10. m <= MaxNodes
    <2>1. SUFFICES ASSUME m > MaxNodes PROVE FALSE
      BY <1>3
    <2>2. \A s \in 0 .. MaxNodes : c[s] \in Index /\ d[c[s]] = m - s
      BY <1>3, <1>5, <1>9, <2>1
    <2>3. c \in [0 .. MaxNodes -> Index]
      <3>. HIDE DEF Right
      <3>. QED
        BY <1>2, <2>2
    <2>4. IsFiniteSet(Index) /\ Cardinality(Index) = MaxNodes
      BY <1>3, FS_Interval DEF Index
    <2>5. PICK r, s \in 0 .. MaxNodes : r # s /\ c[r] = c[s]
      BY <1>3, <2>3, <2>4, TooLong
    <2>. QED
      BY <1>3, <1>4, <2>2, <2>5
  <1>11. ASSUME NEW i \in Free(t)
         PROVE  \E s \in 0 .. MaxNodes : c[s] = i
    <2>1. d[i] \in 1 .. m
      BY <1>5
    <2>2. /\ m - d[i] \in 0 .. MaxNodes /\ m - d[i] < m /\ m - (m - d[i]) = d[i]
      BY <1>3, <1>10, <2>1
    <2>3. c[m - d[i]] \in Free(t) /\ d[c[m - d[i]]] = d[i]
      BY <1>9, <2>2
    <2>. QED
      BY <1>5, <2>2, <2>3
  <1>12. \A s \in 0 .. MaxNodes : c[s] \in Free(t) \cup {NONE}
    BY <1>9
  <1>13. NONE \notin Free(t)
    BY <1>5
  <1>. QED
    BY <1>11, <1>12, <1>13

(* The recursive function in Removed is that iteration.                    *)
LEMMA RemovedIsFree == ASSUME Sane(table) PROVE Removed = Free(table)
  <1>. DEFINE G(i) == IF Valid(table, i) THEN table.n[i].next ELSE NONE
              Raw(f) == [s \in 0 .. MaxNodes |-> IF s = 0 THEN table.undef ELSE G(f[s - 1])]
              c == CHOOSE f : f = Raw(f)
  <1>1. MaxNodes \in Nat /\ table \in Table
    BY Sizes DEF Sane
  <1>2. table.undef \in Ref /\ Follow(table) \in [Ref -> Ref]
    BY <1>1, FollowType
  <1>3. PICK f : Iterated(f, Ref, table.undef, Follow(table), MaxNodes)
    BY <1>1, <1>2, Iterates
  <1>4. /\ f \in [0 .. MaxNodes -> Ref] /\ f[0] = table.undef
        /\ \A s \in 1 .. MaxNodes : f[s] = G(f[s - 1])
    <2>1. \A i \in Ref : Follow(table)[i] = G(i)
      BY DEF Follow
    <2>2. \A s \in 1 .. MaxNodes : f[s - 1] \in Ref /\ f[s] = Follow(table)[f[s - 1]]
      BY <1>1, <1>3 DEF Iterated
    <2>. HIDE DEF G
    <2>. QED
      BY <1>3, <2>1, <2>2 DEF Iterated
  <1>7. Removed = {c[s] : s \in 0 .. MaxNodes} \ {NONE}
    BY DEF Removed
  <1>. HIDE DEF G
  <1>5. f = Raw(f)
    BY <1>1, <1>4
  <1>6. c = Raw(c)
    BY <1>5
  <1>. HIDE DEF c
  <1>8. /\ c[0] = table.undef /\ c = [s \in 0 .. MaxNodes |-> c[s]]
        /\ \A s \in 1 .. MaxNodes : c[s] = G(c[s - 1])
    BY <1>1, <1>6
  <1>9. \A s \in 0 .. MaxNodes : c[s] = f[s]
    <2>. DEFINE T == {s \in 0 .. MaxNodes : c[s] = f[s]}
    <2>1. 0 \in T
      BY <1>1, <1>4, <1>8
    <2>2. ASSUME NEW s \in 1 .. MaxNodes, s - 1 \in T PROVE s \in T
      <3>1. c[s - 1] = f[s - 1]
        BY <2>2
      <3>2. c[s] = G(c[s - 1]) /\ f[s] = G(f[s - 1])
        BY <1>4, <1>8
      <3>. QED
        BY <1>1, <3>1, <3>2
    <2>. HIDE DEF T
    <2>3. \A s \in 0 .. MaxNodes : s \in T
      BY <1>1, <2>1, <2>2, Inductive
    <2>. QED
      BY <2>3 DEF T
  <1>10. c = f
    BY <1>4, <1>8, <1>9
  <1>. QED
    BY <1>3, <1>7, <1>10, RemovedMet

(* No node is lost and none handed out twice: the list of removed nodes is *)
(* exactly the nodes ever used and not in use, whatever becomes of the     *)
(* chains.                                                                 *)
THEOREM PartitionHolds == Spec => []NodesPartition
  <1>1. SaneInv => NodesPartition
    <2>1. ASSUME Sane(table) PROVE NodesPartition
      BY <2>1, RemovedIsFree DEF NodesPartition, Sane, Counted, Used, Free
    <2>. QED
      BY <2>1 DEF SaneInv
  <1>. QED
    BY <1>1, SaneInvariant, PTL

-----------------------------------------------------------------------------
(* Until a key is removed, new nodes are taken in order and link to older  *)
(* ones.                                                                   *)
Ordered(t) ==
    /\ t.undef = NONE
    /\ \A b \in Index : t.first[b] = NONE \/ t.first[b] < t.avalid
    /\ \A i \in Used(t) : t.n[i].next = NONE \/ t.n[i].next < i

OrderInv == ~removed /\ table.max = DefaultMax => Ordered(table)

(* A walk along such links ends: each step leads to an older node.         *)
LEMMA OrderedEnds ==
  ASSUME NEW t, Sane(t), Ordered(t), NEW k \in Key
  PROVE  ~Loops(t, k)
  <1>. DEFINE w == Walk(t, k)
              Done(i) == EndsAt(t, i) \/ t.n[i].key = k
              T == {s \in 0 .. MaxNodes : Done(w[s]) \/ w[s] + s < MaxNodes}
  <1>1. t \in Table /\ MaxNodes \in Nat
    BY Sizes DEF Sane
  <1>2. /\ w \in [0 .. MaxNodes -> Ref]
        /\ w[0] = t.first[Bucket(t, k)]
        /\ \A s \in 1 .. MaxNodes : w[s] = Step(t, k)[w[s - 1]]
    BY <1>1, WalkDefined DEF Iterated
  <1>3. ASSUME NEW i \in Ref, ~EndsAt(t, i) PROVE i \in Used(t) /\ i < MaxNodes /\ i \in Nat
    BY <1>1, <1>3, Sizes DEF EndsAt, Valid, Used, Ref, Index
  <1>4. 0 \in T
    <2>1. w[0] \in Ref
      BY <1>1, <1>2
    <2>. QED
      BY <1>1, <1>3, <2>1
  <1>5. ASSUME NEW s \in 1 .. MaxNodes, s - 1 \in T PROVE s \in T
    <2>1. w[s] = Step(t, k)[w[s - 1]] /\ w[s - 1] \in Ref /\ w[s] \in Ref
      BY <1>1, <1>2
    <2>2. CASE Done(w[s - 1])
      <3>1. w[s] = w[s - 1]
        BY <2>1, <2>2 DEF Step
      <3>. QED
        BY <2>2, <3>1
    <2>3. CASE ~Done(w[s - 1])
      <3>1. w[s] = t.n[w[s - 1]].next /\ w[s - 1] \in Used(t) /\ w[s - 1] \in Nat
        BY <1>3, <2>1, <2>3 DEF Step
      <3>2. w[s] = NONE \/ w[s] < w[s - 1]
        BY <3>1 DEF Ordered
      <3>3. CASE w[s] = NONE
        BY <3>3 DEF EndsAt, Valid
      <3>4. CASE w[s] < w[s - 1]
        <4>1. w[s - 1] + (s - 1) < MaxNodes
          BY <1>5, <2>3
        <4>2. w[s] \in Nat /\ s \in Nat
          BY <1>1, <2>1, Sizes
        <4>3. w[s] + s < MaxNodes
          BY <1>1, <3>1, <3>4, <4>1, <4>2
        <4>. QED
          BY <4>3
      <3>. QED
        BY <3>2, <3>3, <3>4
    <2>. QED
      BY <2>2, <2>3
  <1>. HIDE DEF T
  <1>6. \A s \in 0 .. MaxNodes : s \in T
    BY <1>1, <1>4, <1>5, Inductive
  <1>7. MaxNodes \in T /\ w[MaxNodes] \in 0 .. MaxNodes
    BY <1>1, <1>2, <1>6, Sizes
  <1>8. Done(w[MaxNodes])
    <2>1. ~(w[MaxNodes] + MaxNodes < MaxNodes)
      BY <1>1, <1>7
    <2>. QED
      BY <1>7, <2>1 DEF T
  <1>. QED
    BY <1>8 DEF Loops, At

(* Puts keep the order.                                                    *)
LEMMA PutOrdered ==
  ASSUME NEW t, Sane(t), Ordered(t), t.total < t.max, NEW k \in Key, NEW v \in Value
  PROVE  Ordered(hashPut(t, k, v))
  <1>. DEFINE u == hashPut(t, k, v)
  <1>1. /\ t \in Table /\ t.first \in [Index -> Ref] /\ t.n \in [Index -> Node]
        /\ t.avalid \in Nat
    BY Sizes DEF Sane, Table, Ref
  <1>2. CASE Found(t, k)
    <2>1. Replaced(t, k, v) /\ At(t, k) \in Index
      BY <1>1, <1>2, PutSane, FoundUsed DEF Used
    <2>2. \A i \in Index : u.n[i].next = t.n[i].next
      BY <1>1, <2>1 DEF Replaced, Node
    <2>. QED
      BY <2>1, <2>2 DEF Replaced, Ordered, Used
  <1>3. CASE ~Found(t, k)
    <2>. DEFINE i == FreeNode(t)
                f == t.first[Bucket(t, k)]
    <2>1. u = Insert(t, k, v) /\ Inserted(t, k, v)
      BY <1>3, PutSane
    <2>2. /\ i \in Index \ Used(t) /\ i = t.avalid /\ Used(u) = Used(t) \cup {i}
          /\ u.undef = NONE /\ u.avalid = t.avalid + 1
          /\ u.first = [t.first EXCEPT ![Bucket(t, k)] = i]
          /\ u.n = [t.n EXCEPT ![i] = [key |-> k, value |-> v, def |-> TRUE, next |-> f]]
      BY <2>1 DEF Inserted, Ordered, Link
    <2>3. f = NONE \/ f < t.avalid
      BY <1>1, BucketType DEF Ordered
    <2>. HIDE DEF u, i, f
    <2>4. u.n[i].next = f /\ \A j \in Used(t) : u.n[j].next = t.n[j].next
      BY <1>1, <2>2 DEF Used
    <2>5. \A b \in Index : u.first[b] = NONE \/ u.first[b] < u.avalid
      <3>1. ASSUME NEW b \in Index PROVE u.first[b] = NONE \/ u.first[b] < u.avalid
        <4>1. u.first[b] = i \/ u.first[b] = t.first[b]
          BY <1>1, <2>2
        <4>2. t.first[b] = NONE \/ t.first[b] < t.avalid
          BY DEF Ordered
        <4>3. t.first[b] \in Int
          BY <1>1, Sizes
        <4>. QED
          BY <1>1, <2>2, <4>1, <4>2, <4>3
      <3>. QED
        BY <3>1
    <2>6. ASSUME NEW j \in Used(u) PROVE u.n[j].next = NONE \/ u.n[j].next < j
      BY <2>2, <2>3, <2>4 DEF Ordered
    <2>. QED
      BY <2>2, <2>5, <2>6 DEF Ordered, u
  <1>. QED
    BY <1>2, <1>3

(* Until a key is removed and until the table grows, lookups end.          *)
THEOREM WalksEndHolds == Spec => []WalksEnd
  <1>. DEFINE Inv == table.max >= DefaultMax /\ OrderInv
  <1>1. Init => Inv
    <2>1. newHash.undef = NONE /\ Used(newHash) = {} /\ newHash.max = DefaultMax
          /\ \A b \in Index : newHash.first[b] = NONE
      BY DEF newHash, Used
    <2>. QED
      BY <2>1, Sizes DEF Init, OrderInv, Ordered
  <1>2. Inv /\ SaneInv /\ [Next]_vars => Inv'
    <2>. SUFFICES ASSUME Inv, SaneInv, [Next]_vars PROVE Inv'
      OBVIOUS
    <2>1. table.max \in 1 .. MaxNodes /\ DefaultMax \in Nat /\ table.max >= DefaultMax
      BY Sizes DEF SaneInv, Sane, Table
    <2>2. CASE UNCHANGED <<table, removed>>
      BY <2>2 DEF OrderInv, Ordered, Used
    <2>3. ASSUME NEW k \in Key, NEW v \in Value, Put(k, v) PROVE Inv'
      <3>. DEFINE full == table.total >= table.max
                  t == IF full THEN Grown(table) ELSE table
      <3>1. CASE table' = hashPut(t, k, v) /\ removed' = removed
        <4>1. CASE full
          <5>1. Sane(t) /\ t.total < t.max
            BY <2>3, <4>1, GrownSane DEF Put, SaneInv
          <5>2. t.max = 2 * table.max
            BY <4>1 DEF Grown, SaneInv, Sane, Table
          <5>. HIDE DEF t
          <5>3. hashPut(t, k, v).max = t.max
            BY <5>1, PutSane
          <5>4. table'.max = 2 * table.max
            BY <3>1, <5>2, <5>3
          <5>. QED
            BY <2>1, <5>4 DEF OrderInv
        <4>2. CASE ~full
          <5>1. Sane(table) /\ table.total < table.max /\ table' = hashPut(table, k, v)
            BY <3>1, <4>2, Sizes DEF SaneInv, Sane, Table
          <5>2. table'.max = table.max
            BY <5>1, PutSane
          <5>3. ASSUME ~removed', table'.max = DefaultMax PROVE Ordered(table')
            BY <3>1, <5>1, <5>2, <5>3, PutOrdered DEF OrderInv
          <5>4. OrderInv'
            BY <5>3 DEF OrderInv, Ordered, Used
          <5>. QED
            BY <2>1, <5>2, <5>4
        <4>. QED
          BY <4>1, <4>2
      <3>. QED
        BY <2>2, <2>3, <3>1 DEF Put, End
    <2>4. ASSUME NEW k \in Key, Remove(k) PROVE Inv'
      <3>1. CASE Found(table, k) /\ table' = hashRemove(table, k) /\ removed' = TRUE
        <4>1. table'.max = table.max
          BY <3>1, RemoveSane DEF SaneInv
        <4>. QED
          BY <2>1, <3>1, <4>1 DEF OrderInv
      <3>. QED
        BY <2>2, <2>4, <3>1 DEF Remove, End
    <2>5. ASSUME NEW k \in Key, Get(k) PROVE Inv'
      BY <2>2, <2>5 DEF Get, End
    <2>. QED
      BY <2>2, <2>3, <2>4, <2>5 DEF Next, vars
  <1>3. Inv /\ SaneInv => WalksEnd
    BY OrderedEnds DEF OrderInv, SaneInv, WalksEnd
  <1>. QED
    BY <1>1, <1>2, <1>3, SaneInvariant, PTL DEF Spec

-----------------------------------------------------------------------------
(* The chains.  Removed nodes that a bucket still names are used again in  *)
(* other buckets, so chains join, and a walk may even run in a circle.     *)
(* What survives is that each node in use is first in its own bucket, or   *)
(* behind a node of its own bucket, and that such predecessors lead to the *)
(* first: d grows towards it.                                              *)
Home(t, i)  == Bucket(t, t.n[i].key)
Heads(t, i) == t.first[Home(t, i)] = i
Leads(t, d, l, i) == /\ l \in Used(t) /\ Home(t, l) = Home(t, i)
                     /\ t.n[l].next = i /\ d[l] > d[i]
Deep(t, d) == \A i \in Used(t) : Heads(t, i) \/ \E l \in Used(t) : Leads(t, d, l, i)
Chained(t) == \E d \in [Index -> Nat] : Deep(t, d)

Keyed(t) ==
    /\ \A i \in Used(t) : t.n[i].key \in Key /\ t.n[i].value \in Value
    /\ \A i, j \in Used(t) : t.n[i].key = t.n[j].key => i = j

(* The table holds what its callers believe.                               *)
Stores(t, m) ==
    /\ \A i \in Used(t) : m[t.n[i].key] = t.n[i].value
    /\ \A k \in Key : m[k] # NoValue => \E i \in Used(t) : t.n[i].key = k

(* A walk for a key in use meets every node of the bucket down to it.      *)
LEMMA Reached ==
  ASSUME NEW t, Sane(t), Keyed(t), NEW d \in [Index -> Nat], Deep(t, d),
         NEW i \in Used(t)
  PROVE  \A j \in Used(t) : Home(t, j) = Home(t, i) /\ d[j] >= d[i] =>
             \E s \in 0 .. MaxNodes : Walk(t, t.n[i].key)[s] = j
  <1>. DEFINE k == t.n[i].key
              w == Walk(t, k)
              B == {j \in Used(t) : Home(t, j) = Home(t, i) /\ d[j] >= d[i]}
              Above(j) == {l \in Used(t) : d[l] > d[j]}
              Soon(n) == \A j \in B : Cardinality(Above(j)) <= n => \E s \in 0 .. n : w[s] = j
              T == {n \in 0 .. MaxNodes : Soon(n)}
  <1>1. /\ t \in Table /\ MaxNodes \in Nat /\ k \in Key
        /\ IsFiniteSet(Used(t)) /\ Cardinality(Used(t)) <= MaxNodes
        /\ \A j \in Used(t) : j \in Index /\ d[j] \in Nat
    <2>1. t.total \in 0 .. MaxNodes /\ Cardinality(Used(t)) = t.total
      BY DEF Sane, Table, Counted
    <2>. QED
      BY <2>1, Sizes, UsedFinite DEF Sane, Keyed, Used
  <1>2. /\ w \in [0 .. MaxNodes -> Ref]
        /\ w[0] = t.first[Home(t, i)]
        /\ \A s \in 1 .. MaxNodes : w[s] = Step(t, k)[w[s - 1]]
    BY <1>1, WalkDefined DEF Iterated, Home
  <1>. HIDE DEF k, w
  <1>3. ASSUME NEW j \in Used(t)
        PROVE  /\ IsFiniteSet(Above(j)) /\ Cardinality(Above(j)) \in Nat
               /\ Cardinality(Above(j)) <= MaxNodes
    <2>1. Above(j) \in SUBSET Used(t)
      OBVIOUS
    <2>2. IsFiniteSet(Above(j)) /\ Cardinality(Above(j)) <= Cardinality(Used(t))
      BY <1>1, <2>1, FS_Subset
    <2>3. Cardinality(Above(j)) \in Nat /\ Cardinality(Used(t)) \in Nat
      BY <1>1, <2>2, FS_CardinalityType
    <2>. QED
      BY <1>1, <2>2, <2>3
  <1>4. ASSUME NEW j \in B, NEW l \in Used(t), Leads(t, d, l, j)
        PROVE  /\ l \in B /\ l # i /\ Step(t, k)[l] = j /\ l \in Ref
               /\ Cardinality(Above(l)) + 1 <= Cardinality(Above(j))
    <2>1. /\ j \in Used(t) /\ d[j] >= d[i] /\ d[l] > d[j]
          /\ d[i] \in Nat /\ d[j] \in Nat /\ d[l] \in Nat
      BY <1>1, <1>4 DEF Leads
    <2>2. l \in B /\ l # i
      BY <1>4, <2>1 DEF Leads
    <2>3. l \in Index /\ l \in Ref /\ ~EndsAt(t, l) /\ t.n[l].key # k
      <3>1. l \in Index /\ l < t.avalid /\ t.avalid <= t.max /\ t.n[l].def
        BY <1>4 DEF Sane, Counted, Used
      <3>2. l < t.max /\ l # NONE
        BY <1>1, <3>1, Sizes DEF Index, Table
      <3>3. t.n[l].key # k
        BY <2>2 DEF Keyed, k
      <3>. QED
        BY <3>1, <3>2, <3>3 DEF EndsAt, Valid, Ref
    <2>4. Step(t, k)[l] = j
      BY <1>4, <2>3 DEF Step, Leads
    <2>5. Above(l) \in SUBSET (Above(j) \ {l})
      BY <1>1, <2>1
    <2>6. l \in Above(j)
      BY <1>4, <2>1
    <2>9. Cardinality(Above(j)) \in Nat /\ Cardinality(Above(l)) \in Nat
      BY <1>3, <2>1
    <2>7. /\ IsFiniteSet(Above(j) \ {l})
          /\ Cardinality(Above(j) \ {l}) = Cardinality(Above(j)) - 1
      BY <1>3, <2>1, <2>6, FS_RemoveElement
    <2>8. Cardinality(Above(l)) <= Cardinality(Above(j) \ {l})
      BY <2>5, <2>7, FS_Subset
    <2>10. Cardinality(Above(l)) <= Cardinality(Above(j)) - 1
      BY <2>7, <2>8
    <2>11. Cardinality(Above(l)) + 1 <= Cardinality(Above(j))
      <3>. HIDE DEF Above
      <3>. QED
        BY <2>9, <2>10
    <2>. QED
      BY <2>2, <2>3, <2>4, <2>11
  <1>5. ASSUME NEW j \in B, Heads(t, j) PROVE w[0] = j
    BY <1>2, <1>5 DEF Heads
  <1>. HIDE DEF Above
  <1>6. 0 \in T
    <2>1. ASSUME NEW j \in B, Cardinality(Above(j)) <= 0 PROVE w[0] = j
      <3>1. ASSUME NEW l \in Used(t), Leads(t, d, l, j) PROVE FALSE
        <4>1. Cardinality(Above(l)) + 1 <= Cardinality(Above(j))
          BY <1>4, <3>1
        <4>2. Cardinality(Above(l)) \in Nat /\ Cardinality(Above(j)) \in Nat
          BY <1>3
        <4>. QED
          BY <2>1, <4>1, <4>2
      <3>. QED
        BY <1>5, <3>1 DEF Deep
    <2>. QED
      BY <1>1, <2>1
  <1>7. ASSUME NEW n \in 1 .. MaxNodes, n - 1 \in T PROVE n \in T
    <2>1. ASSUME NEW j \in B, Cardinality(Above(j)) <= n
          PROVE  \E s \in 0 .. n : w[s] = j
      <3>1. CASE Heads(t, j)
        BY <1>5, <3>1
      <3>2. ASSUME NEW l \in Used(t), Leads(t, d, l, j) PROVE \E s \in 0 .. n : w[s] = j
        <4>1. /\ l \in B /\ Step(t, k)[l] = j
              /\ Cardinality(Above(l)) + 1 <= Cardinality(Above(j))
          BY <1>4, <3>2
        <4>2. Cardinality(Above(l)) <= n - 1
          <5>1. Cardinality(Above(l)) \in Nat /\ Cardinality(Above(j)) \in Nat
            BY <1>3
          <5>. QED
            BY <2>1, <4>1, <5>1
        <4>3. PICK s \in 0 .. n - 1 : w[s] = l
          BY <1>7, <4>1, <4>2
        <4>4. s + 1 \in 1 .. MaxNodes /\ s + 1 \in 0 .. n /\ (s + 1) - 1 = s
          BY <1>1
        <4>5. w[s + 1] = Step(t, k)[w[s]]
          BY <1>2, <4>4
        <4>. QED
          BY <4>1, <4>3, <4>4, <4>5
      <3>. QED
        BY <3>1, <3>2 DEF Deep
    <2>. QED
      BY <2>1
  <1>. HIDE DEF T
  <1>8. \A n \in 0 .. MaxNodes : n \in T
    BY <1>1, <1>6, <1>7, Inductive
  <1>9. ASSUME NEW j \in B PROVE \E s \in 0 .. MaxNodes : w[s] = j
    <2>1. MaxNodes \in T /\ Cardinality(Above(j)) <= MaxNodes
      BY <1>1, <1>3, <1>8
    <2>. QED
      BY <2>1 DEF T
  <1>. QED
    BY <1>9 DEF w, k

(* A key is found exactly when a node in use has it.                       *)
LEMMA FoundIsUsed ==
  ASSUME NEW t, Sane(t), Keyed(t), Chained(t), NEW k \in Key
  PROVE  /\ Found(t, k) <=> \E i \in Used(t) : t.n[i].key = k
         /\ Found(t, k) => At(t, k) \in Used(t) /\ t.n[At(t, k)].key = k
  <1>1. t \in Table /\ MaxNodes \in Nat
    BY Sizes DEF Sane
  <1>2. Found(t, k) => At(t, k) \in Used(t) /\ t.n[At(t, k)].key = k
    BY <1>1, FoundUsed DEF Found
  <1>3. ASSUME NEW i \in Used(t), t.n[i].key = k PROVE Found(t, k)
    <2>1. PICK d \in [Index -> Nat] : Deep(t, d)
      BY DEF Chained
    <2>2. d[i] >= d[i]
      BY DEF Used
    <2>3. PICK s \in 0 .. MaxNodes : Walk(t, k)[s] = i
      BY <1>3, <2>1, <2>2, Reached
    <2>4. Walk(t, k)[MaxNodes] = i
      BY <1>1, <1>3, <2>3, WalkStays
    <2>5. ~EndsAt(t, i)
      <3>1. i \in Index /\ i < t.avalid /\ t.avalid <= t.max /\ t.n[i].def
        BY DEF Sane, Counted, Used
      <3>. QED
        BY <1>1, <3>1, Sizes DEF EndsAt, Valid, Index, Table
    <2>. QED
      BY <1>3, <2>4, <2>5 DEF Found, At
  <1>. QED
    BY <1>2, <1>3

Right(t, m) == Keyed(t) /\ Chained(t) /\ Stores(t, m)

(* A put stores its value, and the chains stay whole.                      *)
LEMMA PutRight ==
  ASSUME NEW t, Sane(t), t.total < t.max, NEW m \in [Key -> Value \cup {NoValue}],
         Right(t, m), NEW k \in Key, NEW v \in Value
  PROVE  Right(hashPut(t, k, v), [m EXCEPT ![k] = v])
  <1>. DEFINE u == hashPut(t, k, v)
              mm == [m EXCEPT ![k] = v]
  <1>1. /\ t \in Table /\ t.first \in [Index -> Ref] /\ t.n \in [Index -> Node]
        /\ Bucket(t, k) \in Index
    BY BucketType DEF Sane, Table, Ref
  <1>2. PICK d \in [Index -> Nat] : Deep(t, d)
    BY DEF Right, Chained
  <1>3. \A i \in Used(t) : i \in Index /\ t.n[i].key \in Key
    BY DEF Right, Keyed, Used
  <1>4. CASE Found(t, k)
    <2>. DEFINE i == At(t, k)
    <2>1. i \in Used(t) /\ t.n[i].key = k
      BY <1>4, FoundIsUsed DEF Right
    <2>2. /\ u.max = t.max /\ u.first = t.first /\ Used(u) = Used(t)
          /\ u.n = [t.n EXCEPT ![i].value = v]
      BY <1>4, PutSane DEF Replaced
    <2>. HIDE DEF u, i
    <2>3. \A j \in Index : /\ u.n[j].key = t.n[j].key /\ u.n[j].next = t.n[j].next
                          /\ j # i => u.n[j].value = t.n[j].value
      BY <1>1, <1>3, <2>1, <2>2 DEF Node
    <2>4. u.n[i].value = v
      BY <1>1, <1>3, <2>1, <2>2 DEF Node
    <2>5. \A j \in Used(t) : Home(u, j) = Home(t, j)
      BY <1>3, <2>2, <2>3 DEF Home, Bucket
    <2>6. Keyed(u)
      BY <1>3, <2>1, <2>2, <2>3, <2>4 DEF Right, Keyed
    <2>7. Deep(u, d)
      BY <1>2, <1>3, <2>2, <2>3, <2>5 DEF Deep, Heads, Leads
    <2>8. Stores(u, mm)
      <3>1. \A j \in Used(t) : j # i => t.n[j].key # k
        BY <2>1 DEF Right, Keyed
      <3>2. ASSUME NEW j \in Used(u) PROVE mm[u.n[j].key] = u.n[j].value
        BY <1>3, <2>1, <2>2, <2>3, <2>4, <3>1 DEF Right, Stores
      <3>3. ASSUME NEW l \in Key, mm[l] # NoValue
            PROVE  \E j \in Used(u) : u.n[j].key = l
        <4>1. CASE l = k
          BY <1>3, <2>1, <2>2, <2>3, <4>1
        <4>2. CASE l # k
          BY <1>3, <2>2, <2>3, <3>3, <4>2 DEF Right, Stores
        <4>. QED
          BY <4>1, <4>2
      <3>. QED
        BY <3>2, <3>3 DEF Stores
    <2>. QED
      BY <2>6, <2>7, <2>8 DEF Right, Chained, u
  <1>5. CASE ~Found(t, k)
    <2>. DEFINE i == FreeNode(t)
                b == Bucket(t, k)
                f == t.first[b]
                new == [key |-> k, value |-> v, def |-> TRUE, next |-> f]
    <2>1. /\ i \in Index \ Used(t) /\ Used(u) = Used(t) \cup {i}
          /\ u.max = t.max /\ u.first = [t.first EXCEPT ![b] = i]
          /\ u.n = [t.n EXCEPT ![i] = new]
      <3>1. u = Insert(t, k, v) /\ Inserted(t, k, v)
        BY <1>5, PutSane
      <3>. HIDE DEF u
      <3>. QED
        BY <3>1 DEF Inserted, Link
    <2>2. \A j \in Used(t) : t.n[j].key # k
      BY <1>5, FoundIsUsed DEF Right
    <2>3. b \in Index
      BY <1>1
    <2>4. u.n[i].key = k /\ u.n[i].value = v /\ u.n[i].next = f
      BY <1>1, <2>1
    <2>. HIDE DEF u, i, b, f, new
    <2>5. \A j \in Used(t) : j # i /\ j \in Used(u) /\ u.n[j] = t.n[j]
      BY <1>1, <1>3, <2>1
    <2>6. /\ \A j \in Used(t) : Home(u, j) = Home(t, j)
          /\ Home(u, i) = b
      BY <2>1, <2>4, <2>5 DEF Home, Bucket, b
    <2>7. Keyed(u)
      BY <2>1, <2>2, <2>4, <2>5 DEF Right, Keyed
    <2>. DEFINE e == [d EXCEPT ![i] = IF f \in Index THEN d[f] + 1 ELSE 0]
    <2>8. e \in [Index -> Nat] /\ \A j \in Used(t) : e[j] = d[j]
      BY <1>2, <1>3, <2>1
    <2>9. f \in Index => e[i] = d[f] + 1
      BY <2>1
    <2>. HIDE DEF e
    <2>10. ASSUME NEW j \in Used(u)
           PROVE  Heads(u, j) \/ \E l \in Used(u) : Leads(u, e, l, j)
      <3>1. CASE j = i
        BY <1>1, <2>1, <2>3, <2>6, <3>1 DEF Heads
      <3>2. CASE j # i
        <4>1. j \in Used(t) /\ j \in Index /\ d[j] \in Nat
          BY <1>3, <2>1, <3>2
        <4>2. CASE Heads(t, j) /\ Home(t, j) # b
          <5>0. Home(t, j) \in Index
            BY <1>1, <1>3, <4>1, BucketType DEF Home
          <5>1. u.first[Home(t, j)] = t.first[Home(t, j)]
            BY <1>1, <2>1, <2>3, <4>2, <5>0
          <5>. QED
            BY <2>6, <4>1, <4>2, <5>1 DEF Heads
        <4>3. CASE Heads(t, j) /\ Home(t, j) = b
          <5>1. f = j
            BY <4>3 DEF Heads, f
          <5>2. e[i] > e[j]
            BY <2>8, <2>9, <4>1, <5>1
          <5>. QED
            BY <2>1, <2>4, <2>6, <4>1, <4>3, <5>1, <5>2 DEF Leads
        <4>4. CASE \E l \in Used(t) : Leads(t, d, l, j)
          BY <2>5, <2>6, <2>8, <4>1, <4>4 DEF Leads
        <4>. QED
          BY <1>2, <4>1, <4>2, <4>3, <4>4 DEF Deep
      <3>. QED
        BY <3>1, <3>2
    <2>11. Stores(u, mm)
      <3>1. ASSUME NEW j \in Used(u) PROVE mm[u.n[j].key] = u.n[j].value
        BY <1>3, <2>1, <2>2, <2>4, <2>5, <3>1 DEF Right, Stores
      <3>2. ASSUME NEW l \in Key, mm[l] # NoValue
            PROVE  \E j \in Used(u) : u.n[j].key = l
        <4>1. CASE l = k
          BY <2>1, <2>4, <4>1
        <4>2. CASE l # k
          BY <2>5, <3>2, <4>2 DEF Right, Stores
        <4>. QED
          BY <4>1, <4>2
      <3>. QED
        BY <3>1, <3>2 DEF Stores
    <2>. QED
      BY <2>7, <2>8, <2>10, <2>11 DEF Right, Chained, Deep, u
  <1>. QED
    BY <1>4, <1>5

(* The node that led to a removed one is of the same bucket, and above it. *)
LEMMA LeaderHome ==
  ASSUME NEW t, Sane(t), Keyed(t), NEW d \in [Index -> Nat], Deep(t, d),
         NEW k \in Key, Found(t, k),
         NEW p \in Before(t, k), t.n[p].next = At(t, k)
  PROVE  Leads(t, d, p, At(t, k))
  <1>. DEFINE i == At(t, k)
              w == Walk(t, k)
  <1>1. t \in Table /\ MaxNodes \in Nat
    BY Sizes DEF Sane
  <1>2. i \in Used(t) /\ t.n[i].key = k /\ i = w[MaxNodes] /\ w[0] = t.first[Bucket(t, k)]
    BY <1>1, FoundUsed, WalkDefined DEF Found, At, Iterated
  <1>3. \A s \in 1 .. MaxNodes : w[s] = Step(t, k)[w[s - 1]]
    BY <1>1, WalkDefined DEF Iterated
  <1>4. ASSUME NEW s \in 0 .. MaxNodes, w[s] = i PROVE \A r \in s .. MaxNodes : w[r] = i
    BY <1>1, <1>2, <1>4, WalkStays
  <1>5. ASSUME NEW l \in Used(t), l # i, t.n[l].next = i, NEW s \in 0 .. MaxNodes, w[s] = l
        PROVE  s + 1 \in 1 .. MaxNodes /\ w[s + 1] = i
    <2>1. s # MaxNodes
      BY <1>2, <1>5
    <2>2. s + 1 \in 1 .. MaxNodes /\ (s + 1) - 1 = s
      BY <1>1, <2>1
    <2>3. l \in Ref /\ ~EndsAt(t, l)
      <3>1. l \in Index /\ l < t.avalid /\ t.avalid <= t.max /\ t.n[l].def
        BY DEF Sane, Counted, Used
      <3>. QED
        BY <1>1, <3>1, Sizes DEF EndsAt, Valid, Index, Table, Ref
    <2>4. t.n[l].key # k
      BY <1>2, <1>5 DEF Keyed
    <2>5. w[s + 1] = Step(t, k)[l]
      BY <1>3, <1>5, <2>2
    <2>. QED
      BY <1>5, <2>2, <2>3, <2>4, <2>5 DEF Step
  <1>. HIDE DEF w, i
  <1>6. ~Heads(t, i)
    <2>1. SUFFICES ASSUME Heads(t, i) PROVE FALSE
      OBVIOUS
    <2>2. w[0] = i
      BY <1>2, <2>1 DEF Heads, Home
    <2>3. \A r \in 0 .. MaxNodes : w[r] = i
      BY <1>1, <1>4, <2>2
    <2>. QED
      BY <2>3 DEF Before, w, i
  <1>7. PICK l \in Used(t) : Leads(t, d, l, i)
    BY <1>2, <1>6 DEF Deep
  <1>8. l # i /\ t.n[l].next = i /\ Home(t, l) = Home(t, i) /\ d[l] >= d[i]
    <2>1. d[l] \in Nat /\ d[i] \in Nat
      BY <1>2 DEF Used
    <2>. QED
      BY <1>7, <2>1 DEF Leads
  <1>9. PICK s \in 0 .. MaxNodes : w[s] = l
    BY <1>2, <1>8, Reached DEF w
  <1>10. PICK r \in 0 .. MaxNodes : w[r] = p /\ p # i /\ p \in Used(t)
    BY <1>1, FoundUsed DEF Before, w, i
  <1>11. /\ s + 1 \in 1 .. MaxNodes /\ w[s + 1] = i
         /\ r + 1 \in 1 .. MaxNodes /\ w[r + 1] = i
    BY <1>5, <1>8, <1>9, <1>10 DEF i
  <1>12. ~(s < r)
    <2>1. SUFFICES ASSUME s < r PROVE FALSE
      OBVIOUS
    <2>2. r \in (s + 1) .. MaxNodes /\ s + 1 \in 0 .. MaxNodes
      BY <1>1, <1>11, <2>1
    <2>. QED
      BY <1>4, <1>10, <1>11, <2>2
  <1>13. ~(r < s)
    <2>1. SUFFICES ASSUME r < s PROVE FALSE
      OBVIOUS
    <2>2. s \in (r + 1) .. MaxNodes /\ r + 1 \in 0 .. MaxNodes
      BY <1>1, <1>11, <2>1
    <2>. QED
      BY <1>4, <1>8, <1>9, <1>11, <2>2
  <1>14. p = l
    BY <1>1, <1>9, <1>10, <1>12, <1>13
  <1>. QED
    BY <1>7, <1>14 DEF i

(* A removal forgets its key, and the chains stay whole.                   *)
LEMMA RemoveRight ==
  ASSUME NEW t, Sane(t), NEW m \in [Key -> Value \cup {NoValue}], Right(t, m),
         NEW k \in Key, Found(t, k)
  PROVE  Right(hashRemove(t, k), [m EXCEPT ![k] = NoValue])
  <1>. DEFINE u == hashRemove(t, k)
              i == At(t, k)
              x == t.n[i].next
              b == Bucket(t, k)
              mm == [m EXCEPT ![k] = NoValue]
  <1>1. /\ u.max = t.max /\ Used(u) = Used(t) \ {i}
        /\ \A j \in Used(u) : u.n[j].key = t.n[j].key /\ u.n[j].value = t.n[j].value
        /\ Relinked(t, k, u)
    BY RemoveSane
  <1>2. PICK d \in [Index -> Nat] : Deep(t, d)
    BY DEF Right, Chained
  <1>3. /\ t \in Table /\ t.first \in [Index -> Ref] /\ b \in Index /\ MaxNodes \in Nat
        /\ i \in Used(t) /\ t.n[i].key = k
    BY BucketType, FoundUsed, Sizes DEF Sane, Table, Ref, Found
  <1>4. \A j \in Used(t) : j \in Index /\ t.n[j].key \in Key /\ d[j] \in Nat /\ Valid(t, j)
    <2>1. ASSUME NEW j \in Used(t) PROVE Valid(t, j)
      <3>1. j \in Index /\ j < t.avalid /\ t.avalid <= t.max
        BY DEF Sane, Counted, Used
      <3>. QED
        BY <1>3, <3>1, Sizes DEF Valid, Index, Table
    <2>. QED
      BY <2>1 DEF Right, Keyed, Used
  <1>. HIDE DEF u, i
  <1>5. \A j \in Used(u) : j \in Used(t) /\ j # i /\ t.n[j].key # k /\ Home(u, j) = Home(t, j)
    BY <1>1, <1>3 DEF Right, Keyed, Home, Bucket
  <1>6. Home(t, i) = b
    BY <1>3 DEF Home
  <1>7. Keyed(u)
    BY <1>1, <1>5 DEF Right, Keyed
  <1>8. Stores(u, mm)
    <2>1. ASSUME NEW j \in Used(u) PROVE mm[u.n[j].key] = u.n[j].value
      BY <1>1, <1>4, <1>5 DEF Right, Stores
    <2>2. ASSUME NEW l \in Key, mm[l] # NoValue PROVE \E j \in Used(u) : u.n[j].key = l
      <3>1. l # k /\ m[l] # NoValue
        BY <2>2
      <3>2. PICK j \in Used(t) : t.n[j].key = l
        BY <3>1 DEF Right, Stores
      <3>3. j \in Used(u)
        BY <1>1, <1>3, <3>1, <3>2
      <3>. QED
        BY <1>1, <3>2, <3>3
    <2>. QED
      BY <2>1, <2>2 DEF Stores
  <1>9. Deep(u, d)
    <2>1. CASE /\ Before(t, k) = {}
               /\ IF Valid(t, x) THEN u.first = [t.first EXCEPT ![b] = x]
                                 ELSE u.first = t.first
               /\ \A j \in Used(t) \ {i} : u.n[j].next = t.n[j].next
      <3>1. t.first[b] = i
        <4>1. Walk(t, k)[0] = t.first[b] /\ 0 \in 0 .. MaxNodes
          BY <1>3, WalkDefined DEF Iterated
        <4>. QED
          BY <2>1, <4>1 DEF Before, i
      <3>2. ASSUME NEW j \in Used(u)
            PROVE  Heads(u, j) \/ \E l \in Used(u) : Leads(u, d, l, j)
        <4>0. j \in Used(t) /\ j # i /\ Home(u, j) = Home(t, j)
          BY <1>5
        <4>1. CASE Heads(t, j)
          <5>1. Home(t, j) # b /\ Home(t, j) \in Index
            BY <1>3, <1>4, <3>1, <4>0, <4>1, BucketType DEF Heads, Home
          <5>2. u.first[Home(t, j)] = t.first[Home(t, j)]
            <6>. HIDE DEF b, x
            <6>. QED
              BY <1>3, <2>1, <5>1
          <5>. QED
            BY <4>0, <4>1, <5>2 DEF Heads
        <4>2. ASSUME NEW l \in Used(t), Leads(t, d, l, j), l = i PROVE Heads(u, j)
          <5>1. x = j /\ Home(t, j) = b
            BY <1>6, <4>2 DEF Leads
          <5>2. u.first = [t.first EXCEPT ![b] = j]
            BY <1>4, <2>1, <4>0, <5>1
          <5>. QED
            BY <1>3, <4>0, <5>1, <5>2 DEF Heads
        <4>3. ASSUME NEW l \in Used(t), Leads(t, d, l, j), l # i
              PROVE  l \in Used(u) /\ Leads(u, d, l, j)
          BY <1>1, <1>5, <2>1, <4>0, <4>3 DEF Leads
        <4>. QED
          BY <1>2, <4>0, <4>1, <4>2, <4>3 DEF Deep
      <3>. QED
        BY <3>2 DEF Deep
    <2>2. ASSUME NEW p \in Before(t, k), t.n[p].next = i, u.n[p].next = x,
                 u.first = t.first,
                 \A j \in Used(t) \ {i, p} : u.n[j].next = t.n[j].next
          PROVE  Deep(u, d)
      <3>1. Leads(t, d, p, i) /\ p # i /\ p \in Used(t)
        BY <1>2, <1>3, <2>2, LeaderHome, FoundUsed DEF i, Right
      <3>2. p \in Used(u)
        BY <1>1, <3>1
      <3>3. ASSUME NEW j \in Used(u)
            PROVE  Heads(u, j) \/ \E l \in Used(u) : Leads(u, d, l, j)
        <4>0. j \in Used(t) /\ j # i /\ Home(u, j) = Home(t, j)
          BY <1>5
        <4>1. CASE Heads(t, j)
          BY <2>2, <4>0, <4>1 DEF Heads
        <4>2. ASSUME NEW l \in Used(t), Leads(t, d, l, j), l = i PROVE Leads(u, d, p, j)
          <5>1. x = j /\ d[i] > d[j] /\ Home(t, j) = Home(t, i)
            BY <4>2 DEF Leads
          <5>2. d[p] > d[i] /\ Home(t, p) = Home(t, i)
            BY <3>1 DEF Leads
          <5>3. d[p] > d[j]
            BY <1>3, <1>4, <3>1, <4>0, <5>1, <5>2
          <5>. QED
            BY <1>5, <2>2, <3>2, <4>0, <5>1, <5>2, <5>3 DEF Leads
        <4>3. ASSUME NEW l \in Used(t), Leads(t, d, l, j), l # i
              PROVE  l \in Used(u) /\ Leads(u, d, l, j)
          <5>1. l # p
            BY <2>2, <4>0, <4>3 DEF Leads
          <5>. QED
            BY <1>1, <1>5, <2>2, <4>0, <4>3, <5>1 DEF Leads
        <4>. QED
          BY <1>2, <3>2, <4>0, <4>1, <4>2, <4>3 DEF Deep
      <3>. QED
        BY <3>3 DEF Deep
    <2>. QED
      BY <1>1, <2>1, <2>2 DEF Relinked, i
  <1>. QED
    BY <1>2, <1>7, <1>8, <1>9 DEF Right, Chained, u

RightInv == /\ table.max >= DefaultMax
            /\ table.max = DefaultMax => Right(table, store)

LEMMA RightInvariant == Spec => []RightInv
  <1>1. Init => RightInv
    <2>1. newHash.max = DefaultMax /\ Used(newHash) = {}
      BY DEF newHash, Used
    <2>2. Keyed(newHash) /\ Stores(newHash, [k \in Key |-> NoValue])
      BY <2>1 DEF Keyed, Stores
    <2>3. Chained(newHash)
      <3>1. [i \in Index |-> 0] \in [Index -> Nat] /\ Deep(newHash, [i \in Index |-> 0])
        BY <2>1 DEF Deep
      <3>. QED
        BY <3>1 DEF Chained
    <2>. QED
      BY <2>1, <2>2, <2>3, Sizes DEF Init, RightInv, Right
  <1>2. RightInv /\ SaneInv /\ [Next]_vars => RightInv'
    <2>. SUFFICES ASSUME RightInv, SaneInv, [Next]_vars PROVE RightInv'
      OBVIOUS
    <2>1. /\ table.max \in 1 .. MaxNodes /\ DefaultMax \in Nat /\ table.max >= DefaultMax
          /\ DefaultMax > 0 /\ Sane(table) /\ store \in [Key -> Value \cup {NoValue}]
      BY Sizes DEF SaneInv, Sane, Table, RightInv
    <2>2. ASSUME table' = table, store' = store PROVE RightInv'
      BY <2>2 DEF RightInv, Right, Keyed, Chained, Stores, Deep, Heads, Leads, Home, Bucket, Used
    <2>3. ASSUME NEW k \in Key, NEW v \in Value, Put(k, v) PROVE RightInv'
      <3>. DEFINE full == table.total >= table.max
                  t == IF full THEN Grown(table) ELSE table
      <3>1. CASE table' = hashPut(t, k, v) /\ store' = [store EXCEPT ![k] = v]
        <4>1. CASE full
          <5>1. Sane(t) /\ t.total < t.max
            BY <2>1, <2>3, <4>1, GrownSane DEF Put
          <5>2. t.max = 2 * table.max
            BY <2>1, <4>1 DEF Grown, Sane, Table
          <5>. HIDE DEF t
          <5>3. hashPut(t, k, v).max = t.max
            BY <5>1, PutSane
          <5>4. table'.max = 2 * table.max
            BY <3>1, <5>2, <5>3
          <5>. QED
            BY <2>1, <5>4 DEF RightInv
        <4>2. CASE ~full
          <5>1. table.total < table.max /\ table' = hashPut(table, k, v)
            BY <2>1, <3>1, <4>2, Sizes DEF Sane, Table
          <5>2. table'.max = table.max
            BY <2>1, <5>1, PutSane
          <5>3. ASSUME table.max = DefaultMax PROVE Right(table', store')
            <6>1. Right(table, store)
              BY <5>3 DEF RightInv
            <6>2. Right(hashPut(table, k, v), [store EXCEPT ![k] = v])
              BY <2>1, <5>1, <6>1, PutRight
            <6>. QED
              BY <3>1, <5>1, <6>2
          <5>4. (table.max = DefaultMax => Right(table, store))'
            BY <5>2, <5>3
               DEF Right, Keyed, Chained, Stores, Deep, Heads, Leads, Home, Bucket, Used
          <5>. QED
            BY <2>1, <5>2, <5>4 DEF RightInv
        <4>. QED
          BY <4>1, <4>2
      <3>. QED
        BY <2>2, <2>3, <3>1 DEF Put, End
    <2>4. ASSUME NEW k \in Key, Remove(k) PROVE RightInv'
      <3>1. CASE /\ Found(table, k) /\ table' = hashRemove(table, k)
                 /\ store' = [store EXCEPT ![k] = NoValue]
        <4>1. table'.max = table.max
          BY <2>1, <3>1, RemoveSane
        <4>2. ASSUME table.max = DefaultMax PROVE Right(table', store')
          BY <2>1, <3>1, <4>2, RemoveRight DEF RightInv
        <4>3. (table.max = DefaultMax => Right(table, store))'
          BY <4>1, <4>2
             DEF Right, Keyed, Chained, Stores, Deep, Heads, Leads, Home, Bucket, Used
        <4>. QED
          BY <2>1, <4>1, <4>3 DEF RightInv
      <3>2. CASE /\ ~Found(table, k) /\ table' = table
                 /\ store' = [store EXCEPT ![k] = NoValue]
        <4>1. ASSUME table.max = DefaultMax PROVE store' = store
          <5>1. Right(table, store)
            BY <4>1 DEF RightInv
          <5>2. store[k] = NoValue
            BY <2>1, <3>2, <5>1, FoundIsUsed DEF Right, Stores
          <5>. QED
            BY <2>1, <3>2, <5>2
        <4>2. CASE table.max = DefaultMax
          BY <2>2, <3>2, <4>1, <4>2
        <4>3. CASE table.max # DefaultMax
          BY <3>2, <4>3 DEF RightInv
        <4>. QED
          BY <4>2, <4>3
      <3>. QED
        BY <2>2, <2>4, <3>1, <3>2 DEF Remove, End
    <2>5. ASSUME NEW k \in Key, Get(k) PROVE RightInv'
      BY <2>2, <2>5 DEF Get, End
    <2>. QED
      BY <2>2, <2>3, <2>4, <2>5 DEF Next, vars
  <1>. QED
    BY <1>1, <1>2, SaneInvariant, PTL DEF Spec

(* Until the table grows, a lookup returns what was last put under the key *)
(* and not removed, although chains join and walks may run in a circle.    *)
THEOREM FaithfulHolds == Spec => []Faithful
  <1>1. RightInv /\ SaneInv => Faithful
    <2>1. ASSUME RightInv, SaneInv, table.max = DefaultMax, NEW k \in Key
          PROVE  hashGet(table, k) = store[k]
      <3>1. Sane(table) /\ Keyed(table) /\ Chained(table) /\ Stores(table, store)
        BY <2>1 DEF RightInv, Right, SaneInv
      <3>2. CASE Found(table, k)
        BY <3>1, <3>2, FoundIsUsed DEF hashGet, Stores
      <3>3. CASE ~Found(table, k)
        BY <3>1, <3>3, FoundIsUsed DEF hashGet, Stores
      <3>. QED
        BY <3>2, <3>3
    <2>. QED
      BY <2>1 DEF Faithful
  <1>. QED
    BY <1>1, RightInvariant, SaneInvariant, PTL
=============================================================================
