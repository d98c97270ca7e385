---------------------------- MODULE RBTree_proofs ----------------------------
(***************************************************************************)
(* What the operators of RBTree do to a red-black search tree, for any     *)
(* number of nodes.  Left and right are mirror images: the lemmas about    *)
(* shapes speak of two sides, and are used with either as the first.       *)
(***************************************************************************)
EXTENDS RBTree, Iteration

-----------------------------------------------------------------------------
(* The nodes U are a search tree under root: near and far are the links    *)
(* down, up the link up, w the order of the nodes (that of the keys, or    *)
(* its opposite when near is right), and sub[m] the nodes at or below m.   *)
Linked(near, far, up, root, U) ==
    /\ root \in U \cup {NIL}
    /\ root # NIL => up[root] = NIL
    /\ \A m \in U :
           /\ near[m] \in U \cup {NIL} /\ far[m] \in U \cup {NIL} /\ up[m] \in U \cup {NIL}
           /\ near[m] # NIL => up[near[m]] = m
           /\ far[m] # NIL => up[far[m]] = m
           /\ up[m] = NIL => m = root
           /\ up[m] # NIL => m \in {near[up[m]], far[up[m]]}

Nested(near, far, up, root, U, sub) ==
    /\ sub[NIL] = {} /\ sub[root] = U
    /\ \A m \in U :
           /\ sub[m] = {m} \cup sub[near[m]] \cup sub[far[m]]
           /\ \A x \in sub[m] : sub[x] \subseteq sub[m] /\ (x # m => up[x] \in sub[m])

Ordered(near, far, U, sub, w) ==
    \A m \in U : /\ \A x \in sub[near[m]] : w[x] < w[m]
                 /\ \A x \in sub[far[m]] : w[m] < w[x]

Shape(near, far, up, root, U, sub, w) ==
    /\ near \in [Node0 -> Node0] /\ far \in [Node0 -> Node0] /\ up \in [Node0 -> Node0]
    /\ U \subseteq Node /\ w \in [Node0 -> Int]
    /\ sub \in [Node0 -> SUBSET U]
    /\ Linked(near, far, up, root, U)
    /\ Nested(near, far, up, root, U, sub)
    /\ Ordered(near, far, U, sub, w)

(* The addresses.                                                          *)
LEMMA Nodes == NNode \in Nat /\ NIL = 0 /\ NIL \in Node0 /\ NIL \notin Node
               /\ Node \subseteq Node0 /\ Node0 = Node \cup {NIL} /\ IsFiniteSet(Node)
               /\ Cardinality(Node) = NNode
  <1>1. IsFiniteSet(1 .. NNode) /\ Cardinality(1 .. NNode) = NNode
    BY NodeAssumption, FS_Interval
  <1>. QED
    BY <1>1, NodeAssumption DEF NIL, Node, Node0

(* The mirror image of a search tree is one, with the order reversed.      *)
LEMMA Mirrored ==
  ASSUME NEW near, NEW far, NEW up, NEW root, NEW U, NEW sub, NEW w,
         Shape(near, far, up, root, U, sub, w), NEW v \in [Node0 -> Int],
         \A x \in U : v[x] = 0 - w[x]
  PROVE  Shape(far, near, up, root, U, sub, v)
  <1>1. Linked(far, near, up, root, U) /\ Nested(far, near, up, root, U, sub)
    BY DEF Shape, Linked, Nested
  <1>2. \A x \in U : w[x] \in Int /\ v[x] = 0 - w[x]
    BY Nodes DEF Shape
  <1>3. \A m \in U : near[m] \in Node0 /\ far[m] \in Node0
    BY Nodes DEF Shape, Linked
  <1>4. \A m \in U : sub[near[m]] \subseteq U /\ sub[far[m]] \subseteq U
    BY <1>3 DEF Shape
  <1>5. Ordered(far, near, U, sub, v)
    <2>1. ASSUME NEW m \in U PROVE /\ \A x \in sub[near[m]] : v[m] < v[x]
                                  /\ \A x \in sub[far[m]] : v[x] < v[m]
      <3>1. /\ \A x \in sub[near[m]] : x \in U /\ w[x] < w[m]
            /\ \A x \in sub[far[m]] : x \in U /\ w[m] < w[x]
        BY <1>4 DEF Shape, Ordered
      <3>. QED
        BY <1>2, <3>1
    <2>. QED
      BY <2>1 DEF Ordered
  <1>. QED
    BY <1>1, <1>5 DEF Shape

(* A rotation: the far child takes the place of n.                         *)
Swung(near, far, up, root, near2, far2, up2, root2, U, n, son, inner, p) ==
    /\ son = far[n] /\ inner = near[son] /\ p = up[n]
    /\ near2 \in [Node0 -> Node0] /\ far2 \in [Node0 -> Node0] /\ up2 \in [Node0 -> Node0]
    /\ \A m \in U : near2[m] = IF m = son THEN n
                               ELSE IF m = p /\ near[p] = n THEN son ELSE near[m]
    /\ \A m \in U : far2[m] = IF m = n THEN inner
                              ELSE IF m = p /\ far[p] = n THEN son ELSE far[m]
    /\ \A m \in U : up2[m] = IF m = n THEN son ELSE IF m = son THEN p
                             ELSE IF m = inner THEN n ELSE up[m]
    /\ root2 = IF p = NIL THEN son ELSE root

(* A rotation keeps the search tree: the same nodes in the same order.     *)
LEMMA Rotated ==
  ASSUME NEW near, NEW far, NEW up, NEW root, NEW U, NEW sub, NEW w, Shape(near, far, up, root, U, sub, w),
         NEW near2, NEW far2, NEW up2, NEW root2, NEW n \in U, NEW son, NEW inner, NEW p,
         Swung(near, far, up, root, near2, far2, up2, root2, U, n, son, inner, p), son # NIL
  PROVE  \E sub2 : Shape(near2, far2, up2, root2, U, sub2, w)
  <1>0. /\ son = far[n] /\ inner = near[son] /\ p = up[n]
        /\ near2 \in [Node0 -> Node0] /\ far2 \in [Node0 -> Node0] /\ up2 \in [Node0 -> Node0]
        /\ root2 = IF p = NIL THEN son ELSE root
    BY DEF Swung
  <1>. DEFINE sub2 == [m \in Node0 |-> IF m = son THEN sub[n]
                                       ELSE IF m = n THEN {n} \cup sub[near[n]] \cup sub[inner]
                                       ELSE sub[m]]
  <1>1. /\ U \subseteq Node /\ w \in [Node0 -> Int] /\ sub \in [Node0 -> SUBSET U]
        /\ Linked(near, far, up, root, U) /\ Nested(near, far, up, root, U, sub)
        /\ Ordered(near, far, U, sub, w)
    BY <1>0 DEF Shape
  <1>2. /\ son \in U /\ inner \in U \cup {NIL} /\ p \in U \cup {NIL} /\ near[n] \in U \cup {NIL}
        /\ NIL \notin U /\ U \subseteq Node0 /\ NIL \in Node0
    BY <1>0, <1>1, Nodes DEF Linked
  <1>3. up[son] = n /\ (inner # NIL => up[inner] = son)
    BY <1>0, <1>1, <1>2 DEF Linked
  <1>4. /\ \A m \in U : ~(w[m] < w[m])
        /\ \A x, y, z \in U : w[x] < w[y] /\ w[y] < w[z] => w[x] < w[z]
    <2>1. \A x \in U : w[x] \in Int
      BY <1>0, <1>1, <1>2
    <2>. QED
      BY <1>0, <2>1
  <1>5. \A m \in U : m \notin sub[near[m]] /\ m \notin sub[far[m]]
    BY <1>0, <1>1, <1>4 DEF Ordered
  <1>6. son # n /\ inner # n /\ inner # son /\ p # n /\ p # son /\ (inner # NIL => p # inner)
    <2>1. \A m \in U : m \in sub[m]
      BY <1>0, <1>1 DEF Nested
    <2>2. son # n /\ inner # son
      BY <1>0, <1>2, <1>5, <2>1
    <2>3. n \notin sub[son] /\ sub[inner] \subseteq sub[son]
      BY <1>0, <1>1, <1>2, <1>5 DEF Nested
    <2>4. p # NIL => n \in sub[p] \ {p}
      BY <1>0, <1>1, <1>2, <1>5, <2>1 DEF Linked, Nested
    <2>. QED
      BY <1>0, <1>1, <1>2, <2>1, <2>2, <2>3, <2>4 DEF Nested
  <1>17. /\ \A m \in U : near2[m] = IF m = son THEN n
                                    ELSE IF m = p /\ near[p] = n THEN son ELSE near[m]
         /\ \A m \in U : far2[m] = IF m = n THEN inner
                                   ELSE IF m = p /\ far[p] = n THEN son ELSE far[m]
         /\ \A m \in U : up2[m] = IF m = n THEN son ELSE IF m = son THEN p
                                  ELSE IF m = inner THEN n ELSE up[m]
    BY DEF Swung
  <1>7. /\ near2[n] = near[n] /\ far2[n] = inner /\ near2[son] = n /\ far2[son] = far[son]
        /\ \A m \in U \ {n, son} : /\ near2[m] = IF near[m] = n THEN son ELSE near[m]
                                   /\ far2[m] = IF far[m] = n THEN son ELSE far[m]
    BY <1>0, <1>17, <1>1, <1>2, <1>3, <1>6 DEF Linked
  <1>8. /\ up2[n] = son /\ up2[son] = p /\ (inner # NIL => up2[inner] = n)
        /\ \A m \in U \ {n, son, inner} : up2[m] = up[m]
    BY <1>0, <1>17, <1>2, <1>6
  <1>9. /\ near[n] \notin {n, son, inner} \/ near[n] = NIL
        /\ far[son] \notin {n, son, inner} \/ far[son] = NIL
    <2>1. near[n] \notin {n, son, inner} \/ near[n] = NIL
      BY <1>0, <1>1, <1>2, <1>3, <1>5, <1>6 DEF Linked, Nested, Ordered
    <2>2. far[son] \notin {n, son, inner} \/ far[son] = NIL
      <3>1. far[son] # NIL => up[far[son]] = son
        BY <1>0, <1>1, <1>2 DEF Linked
      <3>2. inner # NIL => far[son] # inner
        <4>1. inner # NIL => inner \in sub[inner]
          BY <1>0, <1>1, <1>2 DEF Nested
        <4>2. inner # NIL => w[inner] < w[son]
          BY <1>0, <1>1, <1>2, <4>1 DEF Ordered
        <4>3. inner # NIL /\ far[son] = inner => w[son] < w[inner]
          BY <1>0, <1>1, <1>2, <4>1 DEF Ordered
        <4>. QED
          BY <1>0, <1>2, <1>4, <4>2, <4>3
      <3>. QED
        BY <1>0, <1>2, <1>3, <1>6, <3>1, <3>2
    <2>. QED
      BY <1>0, <2>1, <2>2
  <1>20. Linked(near2, far2, up2, root2, U)
    <2>1. root2 \in U \cup {NIL} /\ (root2 # NIL => up2[root2] = NIL)
      <3>1. p = NIL => root = n
        BY <1>0, <1>1 DEF Linked
      <3>2. p # NIL => root # n /\ root # son /\ (inner # NIL => root # inner)
        BY <1>0, <1>1, <1>2, <1>3 DEF Linked
      <3>. QED
        BY <1>0, <1>1, <1>2, <1>6, <1>8, <3>1, <3>2 DEF Linked
    <2>2. ASSUME NEW m \in U
          PROVE  /\ near2[m] \in U \cup {NIL} /\ far2[m] \in U \cup {NIL} /\ up2[m] \in U \cup {NIL}
                 /\ near2[m] # NIL => up2[near2[m]] = m
                 /\ far2[m] # NIL => up2[far2[m]] = m
      <3>1. CASE m \in {n, son}
        BY <1>0, <1>1, <1>2, <1>6, <1>7, <1>8, <1>9, <3>1 DEF Linked
      <3>2. CASE m \notin {n, son}
        BY <1>0, <1>1, <1>2, <1>3, <1>6, <1>7, <1>8, <3>2 DEF Linked
      <3>. QED
        BY <1>0, <3>1, <3>2
    <2>3. ASSUME NEW m \in U
          PROVE  /\ up2[m] = NIL => m = root2
                 /\ up2[m] # NIL => m \in {near2[up2[m]], far2[up2[m]]}
      <3>1. CASE m \in {n, son, inner}
        BY <1>0, <1>1, <1>2, <1>3, <1>6, <1>7, <1>8, <3>1 DEF Linked
      <3>2. CASE m \notin {n, son, inner}
        BY <1>0, <1>1, <1>2, <1>3, <1>6, <1>7, <1>8, <3>2 DEF Linked
      <3>. QED
        BY <1>0, <3>1, <3>2
    <2>. QED
      BY <1>0, <2>1, <2>2, <2>3 DEF Linked
  <1>10. sub2 \in [Node0 -> SUBSET U]
    BY <1>0, <1>1, <1>2
  <1>11. /\ sub2[n] = {n} \cup sub[near[n]] \cup sub[inner] /\ sub2[son] = sub[n]
         /\ \A m \in (U \cup {NIL}) \ {n, son} : sub2[m] = sub[m]
    BY <1>0, <1>2, <1>6
  <1>. HIDE DEF sub2
  <1>12. /\ sub[son] = {son} \cup sub[inner] \cup sub[far[son]]
         /\ sub[n] = {n} \cup sub[near[n]] \cup sub[son]
         /\ sub2[n] \subseteq sub[n]
    BY <1>0, <1>1, <1>2, <1>11 DEF Nested
  <1>15. ASSUME NEW m \in U \ {n, son}
         PROVE  sub2[near2[m]] = sub[near[m]] /\ sub2[far2[m]] = sub[far[m]]
    <2>1. near[m] # son /\ far[m] # son
      BY <1>0, <1>1, <1>2, <1>3 DEF Linked
    <2>. QED
      BY <1>0, <1>1, <1>2, <1>6, <1>7, <1>11, <2>1 DEF Linked
  <1>16. /\ \A x \in sub[near[n]] : x \notin {n, son} /\ x \notin sub[son]
         /\ \A x \in sub[inner] : x \notin {n, son}
    <2>1. near[n] \in Node0 /\ inner \in Node0 /\ sub[near[n]] \subseteq U /\ sub[inner] \subseteq U
      BY <1>0, <1>1, <1>2
    <2>2. /\ \A x \in sub[near[n]] : w[x] < w[n]
          /\ \A x \in sub[son] : w[n] < w[x]
          /\ \A x \in sub[inner] : w[x] < w[son] /\ w[n] < w[x]
      BY <1>0, <1>1, <1>2, <1>12 DEF Ordered
    <2>. QED
      BY <1>0, <1>2, <1>4, <1>12, <2>1, <2>2
  <1>13. Nested(near2, far2, up2, root2, U, sub2)
    <2>1. sub2[NIL] = {} /\ sub2[root2] = U
      <3>1. p = NIL => root = n
        BY <1>0, <1>1 DEF Linked
      <3>2. p # NIL => root # n /\ root # son
        BY <1>0, <1>1, <1>2, <1>3 DEF Linked
      <3>. QED
        BY <1>0, <1>1, <1>2, <1>6, <1>11, <3>1, <3>2 DEF Nested, Linked
    <2>2. ASSUME NEW m \in U PROVE sub2[m] = {m} \cup sub2[near2[m]] \cup sub2[far2[m]]
      <3>1. CASE m = n
        BY <1>0, <1>1, <1>2, <1>6, <1>7, <1>9, <1>11, <3>1 DEF Linked
      <3>2. CASE m = son
        BY <1>0, <1>1, <1>2, <1>6, <1>7, <1>9, <1>11, <1>12, <3>2 DEF Linked
      <3>3. CASE m \notin {n, son}
        BY <1>0, <1>1, <1>11, <1>15, <3>3 DEF Nested
      <3>. QED
        BY <1>0, <3>1, <3>2, <3>3
    <2>3. ASSUME NEW m \in U, NEW x \in sub2[m] PROVE sub2[x] \subseteq sub2[m]
      <3>0. x \in U
        BY <1>0, <1>2, <1>10
      <3>1. CASE m = n
        <4>1. CASE x \in sub[near[n]]
          BY <1>0, <1>1, <1>2, <1>11, <1>16, <3>0, <3>1, <4>1 DEF Nested
        <4>2. CASE x \in sub[inner]
          BY <1>0, <1>1, <1>2, <1>11, <1>16, <3>0, <3>1, <4>2 DEF Nested
        <4>. QED
          BY <1>0, <1>11, <3>1, <4>1, <4>2
      <3>2. CASE m = son
        BY <1>0, <1>1, <1>11, <1>12, <3>0, <3>2 DEF Nested
      <3>3. CASE m \notin {n, son}
        <4>1. x = son => n \in sub[m]
          BY <1>0, <1>1, <1>3, <1>11, <3>3 DEF Nested
        <4>. QED
          BY <1>0, <1>1, <1>11, <1>12, <3>0, <3>3, <4>1 DEF Nested
      <3>. QED
        BY <1>0, <3>1, <3>2, <3>3
    <2>4. ASSUME NEW m \in U, NEW x \in sub2[m], x # m PROVE up2[x] \in sub2[m]
      <3>0. x \in U
        BY <1>0, <1>2, <1>10
      <3>1. CASE m = n
        <4>1. CASE x \in sub[near[n]]
          <5>1. x # inner
            BY <1>0, <1>1, <1>2, <1>12, <1>16, <3>0, <4>1 DEF Nested
          <5>2. up2[x] = up[x]
            BY <1>0, <1>8, <1>16, <3>0, <4>1, <5>1
          <5>3. up[near[n]] = n /\ (x # near[n] => up[x] \in sub[near[n]])
            BY <1>0, <1>1, <1>2, <4>1 DEF Nested, Linked
          <5>. QED
            BY <1>0, <1>11, <3>1, <5>2, <5>3
        <4>2. CASE x \in sub[inner]
          <5>1. inner # NIL /\ (x # inner => up[x] \in sub[inner])
            BY <1>0, <1>1, <1>2, <4>2 DEF Nested
          <5>2. up2[x] = IF x = inner THEN n ELSE up[x]
            BY <1>0, <1>8, <1>16, <3>0, <4>2, <5>1
          <5>. QED
            BY <1>0, <1>11, <3>1, <5>1, <5>2
        <4>. QED
          BY <1>0, <1>11, <3>1, <4>1, <4>2, <2>4
      <3>2. CASE m = son
        <4>1. n \in sub[n] /\ son \in sub[n]
          BY <1>0, <1>12
        <4>2. x \notin {n, son} => up[x] \in sub[n]
          BY <1>0, <1>1, <1>11, <2>4, <3>2 DEF Nested
        <4>. QED
          BY <1>2, <1>6, <1>8, <1>11, <3>0, <3>2, <4>1, <4>2, <2>4
      <3>3. CASE m \notin {n, son}
        <4>1. sub2[m] = sub[m] /\ up[x] \in sub[m]
          BY <1>0, <1>1, <1>11, <2>4, <3>3 DEF Nested
        <4>2. x = n => son \in sub[m]
          BY <1>0, <1>1, <1>11, <1>12, <2>4, <4>1 DEF Nested
        <4>3. x = son => p \in sub[m]
          BY <1>0, <1>1, <1>3, <2>4, <3>3, <4>1 DEF Nested
        <4>4. x = inner => n \in sub[m]
          BY <1>0, <1>1, <1>2, <1>3, <2>4, <3>3, <3>0, <4>1 DEF Nested
        <4>. QED
          BY <1>2, <1>6, <1>8, <3>0, <4>1, <4>2, <4>3, <4>4
      <3>. QED
        BY <1>0, <3>1, <3>2, <3>3
    <2>. QED
      BY <1>0, <2>1, <2>2, <2>3, <2>4 DEF Nested
  <1>14. Ordered(near2, far2, U, sub2, w)
    <2>1. ASSUME NEW m \in U PROVE /\ \A x \in sub2[near2[m]] : w[x] < w[m]
                                   /\ \A x \in sub2[far2[m]] : w[m] < w[x]
      <3>1. CASE m = n
        BY <1>0, <1>1, <1>2, <1>7, <1>9, <1>11, <1>12, <3>1 DEF Ordered
      <3>2. CASE m = son
        <4>1. \A x \in sub2[n] : w[x] < w[son]
          <5>1. /\ \A x \in sub[near[n]] : w[x] < w[n] /\ x \in U
                /\ w[n] < w[son] /\ \A x \in sub[inner] : w[x] < w[son]
            BY <1>0, <1>1, <1>2, <1>12 DEF Ordered
          <5>. QED
            BY <1>0, <1>2, <1>4, <1>11, <5>1
        <4>2. sub2[far[son]] = sub[far[son]]
          BY <1>0, <1>1, <1>2, <1>9, <1>11 DEF Linked
        <4>. QED
          BY <1>0, <1>1, <1>2, <1>7, <3>2, <4>1, <4>2 DEF Ordered
      <3>3. CASE m \notin {n, son}
        BY <1>0, <1>1, <1>15, <3>3 DEF Ordered
      <3>. QED
        BY <1>0, <3>1, <3>2, <3>3
    <2>. QED
      BY <1>0, <2>1 DEF Ordered
  <1>. QED
    BY <1>0, <1>1, <1>20, <1>10, <1>13, <1>14 DEF Shape

-----------------------------------------------------------------------------
(* The fields of a tree after Rotate, and after Paint.                     *)
LEMMA PaintIs ==
  ASSUME NEW t, t \in Tree, NEW n \in Node0, NEW c \in BOOLEAN
  PROVE  /\ Paint(t, n, c) \in Tree
         /\ Paint(t, n, c) = [t EXCEPT !.red = Paint(t, n, c).red]
         /\ \A m \in Node0 : Paint(t, n, c).red[m] = IF m = n /\ n # NIL THEN c ELSE t.red[m]
  <1>1. CASE n = NIL
    BY <1>1 DEF Paint, Tree
  <1>2. CASE n # NIL
    BY <1>2 DEF Paint, Tree
  <1>. QED
    BY <1>1, <1>2

(* Single assignments keep the types.                                      *)
LEMMA SetIs ==
  ASSUME NEW t, t \in Tree, NEW i \in Node0, NEW v \in Node0
  PROVE  /\ [t EXCEPT !.left[i] = v] \in Tree /\ [t EXCEPT !.right[i] = v] \in Tree
         /\ [t EXCEPT !.parent[i] = v] \in Tree /\ [t EXCEPT !.root = v] \in Tree
         /\ \A c \in BOOLEAN : [t EXCEPT !.bent = c] \in Tree
  BY DEF Tree

(* So does a rotation.                                                     *)
LEMMA TurnTree ==
  ASSUME NEW t, t \in Tree, NEW n \in Node0, NEW son \in Node0, NEW inner \in Node0,
         NEW p \in Node0, NEW toLeft \in BOOLEAN
  PROVE  Turn(t, n, son, inner, p, toLeft) \in Tree
  <1>. DEFINE t1 == [t EXCEPT !.parent[inner] = IF inner = NIL THEN NIL ELSE n]
              t2 == [t1 EXCEPT !.parent[son] = p]
              t3 == [t2 EXCEPT !.parent[n] = son]
              t4 == [t3 EXCEPT !.root = IF p = NIL THEN son ELSE t.root]
              t5 == [t4 EXCEPT !.bent = t.bent \/ (p # NIL /\ t.left[p] = n)]
              t6 == [t5 EXCEPT !.left[p] = IF p # NIL /\ OnLeft(t, n) THEN son ELSE t.left[p]]
              t7 == [t6 EXCEPT !.right[p] = IF p # NIL /\ ~OnLeft(t, n) THEN son ELSE t.right[p]]
              t8 == [t7 EXCEPT !.left[IF toLeft THEN son ELSE n] = IF toLeft THEN n ELSE inner]
              t9 == [t8 EXCEPT !.right[IF toLeft THEN n ELSE son] = IF toLeft THEN inner ELSE n]
  <1>0. /\ t.root \in Node0 /\ t.left[p] \in Node0 /\ t.right[p] \in Node0
        /\ (t.bent \/ (p # NIL /\ t.left[p] = n)) \in BOOLEAN
    BY Nodes DEF Tree
  <1>1. t1 \in Tree
    BY Nodes, SetIs
  <1>. HIDE DEF t1
  <1>2. t2 \in Tree
    BY <1>1, SetIs
  <1>. HIDE DEF t2
  <1>3. t3 \in Tree
    BY <1>2, SetIs
  <1>. HIDE DEF t3
  <1>4. t4 \in Tree
    BY <1>0, <1>3, SetIs
  <1>. HIDE DEF t4
  <1>5. t5 \in Tree
    BY <1>0, <1>4, SetIs
  <1>. HIDE DEF t5
  <1>6. t6 \in Tree
    BY <1>0, <1>5, SetIs
  <1>. HIDE DEF t6
  <1>7. t7 \in Tree
    BY <1>0, <1>6, SetIs
  <1>. HIDE DEF t7
  <1>8. t8 \in Tree
    BY <1>7, SetIs
  <1>. HIDE DEF t8
  <1>9. t9 \in Tree
    BY <1>8, SetIs
  <1>10. t9 = Turn(t, n, son, inner, p, toLeft)
    BY DEF Turn, t1, t2, t3, t4, t5, t6, t7, t8
  <1>. QED
    BY <1>9, <1>10

(* The fields after the turn of a node that is not its own left child.    *)
Turned(t, u, n, son, inner, p, toLeft) ==
    /\ u \in Tree
    /\ u.root = IF p = NIL THEN son ELSE t.root
    /\ u.total = t.total /\ u.used = t.used /\ u.red = t.red /\ u.key = t.key
    /\ u.bent = (t.bent \/ (p # NIL /\ t.left[p] = n))
    /\ \A m \in Node0 :
           u.left[m] = IF m = (IF toLeft THEN son ELSE n)
                       THEN IF toLeft THEN n ELSE inner
                       ELSE t.left[m]
    /\ \A m \in Node0 :
           u.right[m] = IF m = (IF toLeft THEN n ELSE son)
                        THEN IF toLeft THEN inner ELSE n
                        ELSE IF m = p /\ p # NIL THEN son ELSE t.right[m]
    /\ \A m \in Node0 :
           u.parent[m] = IF m = n THEN son ELSE IF m = son THEN p
                         ELSE IF m = inner THEN IF inner = NIL THEN NIL ELSE n
                         ELSE t.parent[m]

(* Which fields a rotation writes, when n is no left child.                *)
LEMMA TurnIs ==
  ASSUME NEW t, t \in Tree, NEW n \in Node0, NEW son \in Node0, NEW inner \in Node0,
         NEW p \in Node0, NEW toLeft \in BOOLEAN, ~OnLeft(t, n)
  PROVE  Turned(t, Turn(t, n, son, inner, p, toLeft), n, son, inner, p, toLeft)
  <1>. DEFINE u == Turn(t, n, son, inner, p, toLeft)
              lf == [t.left EXCEPT ![p] = IF p # NIL /\ OnLeft(t, n) THEN son ELSE @]
              rf == [t.right EXCEPT ![p] = IF p # NIL /\ ~OnLeft(t, n) THEN son ELSE @]
              sl == IF toLeft THEN son ELSE n
              sr == IF toLeft THEN n ELSE son
              vl == IF toLeft THEN n ELSE inner
              vr == IF toLeft THEN inner ELSE n
  <1>1. u.left = [lf EXCEPT ![sl] = vl]
    BY DEF Turn, Tree
  <1>2. u.right = [rf EXCEPT ![sr] = vr]
    BY DEF Turn, Tree
  <1>3. u.parent = [[[t.parent EXCEPT ![inner] = IF inner = NIL THEN NIL ELSE n]
                     EXCEPT ![son] = p] EXCEPT ![n] = son]
    BY DEF Turn, Tree
  <1>4. /\ u.root = IF p = NIL THEN son ELSE t.root
        /\ u.total = t.total /\ u.used = t.used /\ u.red = t.red /\ u.key = t.key
    BY DEF Turn, Tree
  <1>5. u.bent = (t.bent \/ (p # NIL /\ t.left[p] = n))
    BY DEF Turn, Tree
  <1>6. /\ sl \in Node0 /\ sr \in Node0 /\ vl \in Node0 /\ vr \in Node0
        /\ t.left \in [Node0 -> Node0] /\ t.right \in [Node0 -> Node0]
        /\ t.parent \in [Node0 -> Node0]
    BY DEF Tree
  <1>. HIDE DEF sl, sr, vl, vr
  <1>7. \A m \in Node0 : u.left[m] = IF m = sl THEN vl ELSE t.left[m]
    <2>1. lf = t.left
      BY <1>6
    <2>. QED
      BY <1>1, <1>6, <2>1
  <1>8. \A m \in Node0 : u.right[m] = IF m = sr THEN vr
                                    ELSE IF m = p /\ p # NIL THEN son ELSE t.right[m]
    <2>1. rf \in [Node0 -> Node0] /\ \A m \in Node0 : rf[m] = IF m = p /\ p # NIL THEN son ELSE t.right[m]
      BY <1>6
    <2>. QED
      BY <1>2, <1>6, <2>1
  <1>9. \A m \in Node0 :
            u.parent[m] = IF m = n THEN son ELSE IF m = son THEN p
                          ELSE IF m = inner THEN IF inner = NIL THEN NIL ELSE n
                          ELSE t.parent[m]
    BY <1>3, <1>6
  <1>10. u \in Tree
    BY TurnTree
  <1>. QED
    BY <1>4, <1>5, <1>7, <1>8, <1>9, <1>10 DEF sl, sr, vl, vr, Turned

-----------------------------------------------------------------------------
(* Whatever a rotation does to the shape, it leads to no node that was not *)
(* led to before: the links of the nodes in W stay in W.                   *)
Held(t, W) ==
    /\ NIL \in W /\ t.root \in W
    /\ \A m \in W : t.left[m] \in W /\ t.right[m] \in W /\ t.parent[m] \in W

(* What neither a rotation nor a change of colour touches.                 *)
Same(t, u) == /\ u \in Tree
              /\ u.total = t.total /\ u.used = t.used /\ u.key = t.key
              /\ t.bent => u.bent

(* A rotation, of a left child too, links no node from outside W.          *)
LEMMA TurnHeld ==
  ASSUME NEW t, t \in Tree, NEW W \in SUBSET Node0, Held(t, W), NEW n \in W, NEW son \in W,
         NEW inner \in W, NEW p \in W, NEW toLeft \in BOOLEAN
  PROVE  Held(Turn(t, n, son, inner, p, toLeft), W) /\ Same(t, Turn(t, n, son, inner, p, toLeft))
  <1>. DEFINE u == Turn(t, n, son, inner, p, toLeft)
              lf == [t.left EXCEPT ![p] = IF p # NIL /\ OnLeft(t, n) THEN son ELSE @]
              rf == [t.right EXCEPT ![p] = IF p # NIL /\ ~OnLeft(t, n) THEN son ELSE @]
              sl == IF toLeft THEN son ELSE n
              sr == IF toLeft THEN n ELSE son
              vl == IF toLeft THEN n ELSE inner
              vr == IF toLeft THEN inner ELSE n
  <1>1. u.left = [lf EXCEPT ![sl] = vl]
    BY DEF Turn, Tree
  <1>2. u.right = [rf EXCEPT ![sr] = vr]
    BY DEF Turn, Tree
  <1>3. u.parent = [[[t.parent EXCEPT ![inner] = IF inner = NIL THEN NIL ELSE n]
                     EXCEPT ![son] = p] EXCEPT ![n] = son]
    BY DEF Turn, Tree
  <1>4. /\ u.root = IF p = NIL THEN son ELSE t.root
        /\ u.total = t.total /\ u.used = t.used /\ u.red = t.red /\ u.key = t.key
    BY DEF Turn, Tree
  <1>5. t.bent => u.bent
    BY DEF Turn, Tree
  <1>6. /\ sl \in W /\ sr \in W /\ vl \in W /\ vr \in W /\ W \subseteq Node0
        /\ t.left \in [Node0 -> Node0] /\ t.right \in [Node0 -> Node0]
        /\ t.parent \in [Node0 -> Node0]
    BY DEF Tree
  <1>. HIDE DEF sl, sr, vl, vr
  <1>7. \A m \in W : u.left[m] \in W
    <2>1. lf \in [Node0 -> Node0] /\ \A m \in W : lf[m] \in W
      BY <1>6 DEF Held
    <2>. QED
      BY <1>1, <1>6, <2>1
  <1>8. \A m \in W : u.right[m] \in W
    <2>1. rf \in [Node0 -> Node0] /\ \A m \in W : rf[m] \in W
      BY <1>6 DEF Held
    <2>. QED
      BY <1>2, <1>6, <2>1
  <1>9. \A m \in W : u.parent[m] \in W
    BY <1>3, <1>6 DEF Held
  <1>10. NIL \in W /\ u.root \in W
    BY <1>4 DEF Held
  <1>11. u \in Tree
    BY TurnTree
  <1>. HIDE DEF u
  <1>12. Held(u, W) /\ Same(t, u)
    BY <1>4, <1>5, <1>7, <1>8, <1>9, <1>10, <1>11 DEF Held, Same
  <1>. QED
    BY <1>12 DEF u

(* The same of rotations on the right or the left.                         *)
LEMMA RotateHeld ==
  ASSUME NEW t, t \in Tree, NEW W \in SUBSET Node0, Held(t, W), NEW n \in W, NEW toLeft \in BOOLEAN
  PROVE  Held(Rotate(t, n, toLeft), W) /\ Same(t, Rotate(t, n, toLeft))
  <1>1. CASE n = NIL
    BY <1>1 DEF Rotate, Same
  <1>2. CASE n # NIL /\ toLeft
    <2>1. t.right[n] \in W /\ t.left[t.right[n]] \in W /\ t.parent[n] \in W
      BY DEF Held
    <2>2. Rotate(t, n, toLeft) = Turn(t, n, t.right[n], t.left[t.right[n]], t.parent[n], TRUE)
      BY <1>2 DEF Rotate
    <2>3. /\ Held(Turn(t, n, t.right[n], t.left[t.right[n]], t.parent[n], TRUE), W)
          /\ Same(t, Turn(t, n, t.right[n], t.left[t.right[n]], t.parent[n], TRUE))
      BY <2>1, TurnHeld
    <2>. QED
      BY <2>2, <2>3
  <1>3. CASE n # NIL /\ ~toLeft
    <2>1. t.left[n] \in W /\ t.right[t.left[n]] \in W /\ t.parent[n] \in W
      BY DEF Held
    <2>2. Rotate(t, n, toLeft) = Turn(t, n, t.left[n], t.right[t.left[n]], t.parent[n], FALSE)
      BY <1>3 DEF Rotate
    <2>3. /\ Held(Turn(t, n, t.left[n], t.right[t.left[n]], t.parent[n], FALSE), W)
          /\ Same(t, Turn(t, n, t.left[n], t.right[t.left[n]], t.parent[n], FALSE))
      BY <2>1, TurnHeld
    <2>. QED
      BY <2>2, <2>3
  <1>. QED
    BY <1>1, <1>2, <1>3

(* Colouring changes no link.                                              *)
LEMMA PaintHeld ==
  ASSUME NEW t, t \in Tree, NEW W \in SUBSET Node0, Held(t, W), NEW n \in Node0, NEW c \in BOOLEAN
  PROVE  /\ Held(Paint(t, n, c), W) /\ Same(t, Paint(t, n, c))
         /\ Paint(t, n, c).bent = t.bent
         /\ \A m : Paint(t, n, c).left[m] = t.left[m] /\ Paint(t, n, c).right[m] = t.right[m]
                   /\ Paint(t, n, c).parent[m] = t.parent[m]
         /\ Paint(t, n, c).root = t.root
  <1>1. CASE n = NIL
    BY <1>1 DEF Paint, Same
  <1>2. CASE n # NIL
    BY <1>2 DEF Paint, Tree, Held, Same
  <1>. QED
    BY <1>1, <1>2

-----------------------------------------------------------------------------
(* A search tree, whose nodes are those in use; NULL has no links.         *)
Tidy(t, sub) ==
    /\ t \in Tree
    /\ t.left[NIL] = NIL /\ t.right[NIL] = NIL /\ t.parent[NIL] = NIL /\ t.red[NIL] = FALSE
    /\ Shape(t.left, t.right, t.parent, t.root, t.used, sub, t.key)

(* What is at hand about the neighbours of a node.                         *)
LEMMA TidyNode ==
  ASSUME NEW t, NEW sub, Tidy(t, sub), NEW n \in t.used
  PROVE  /\ n \in Node /\ n # NIL /\ n \in Node0
         /\ t.left[n] \in t.used \cup {NIL} /\ t.right[n] \in t.used \cup {NIL}
         /\ t.parent[n] \in t.used \cup {NIL}
         /\ t.left[n] # NIL => t.parent[t.left[n]] = n
         /\ t.right[n] # NIL => t.parent[t.right[n]] = n
         /\ t.parent[n] = NIL => n = t.root
         /\ n = t.root => t.parent[n] = NIL
         /\ t.parent[n] # NIL => \/ (n = t.left[t.parent[n]] /\ n # t.right[t.parent[n]])
                                 \/ (n = t.right[t.parent[n]] /\ n # t.left[t.parent[n]])
         /\ n \in sub[n] /\ t.left[n] # n /\ t.right[n] # n /\ t.parent[n] # n
  <1>. DEFINE U == t.used
  <1>1. /\ U \subseteq Node /\ sub \in [Node0 -> SUBSET U] /\ t.key \in [Node0 -> Int]
        /\ Linked(t.left, t.right, t.parent, t.root, U)
        /\ Nested(t.left, t.right, t.parent, t.root, U, sub)
        /\ Ordered(t.left, t.right, U, sub, t.key)
    BY DEF Tidy, Shape
  <1>2. n \in Node /\ n # NIL /\ n \in Node0 /\ U \subseteq Node0
    BY <1>1, Nodes
  <1>3. \A m, x \in U : t.key[m] \in Int /\ ~(t.key[x] < t.key[m] /\ t.key[m] < t.key[x]) /\ ~(t.key[m] < t.key[m])
    BY <1>1, <1>2
  <1>4. \A m \in U : m \in sub[m] /\ m \notin sub[t.left[m]] /\ m \notin sub[t.right[m]]
    BY <1>1, <1>3 DEF Nested, Ordered
  <1>5. \A m \in U : t.left[m] = t.right[m] => t.left[m] = NIL
    <2>1. ASSUME NEW m \in U, t.left[m] = t.right[m], t.left[m] # NIL PROVE FALSE
      <3>1. t.left[m] \in U /\ t.left[m] \in sub[t.left[m]]
        BY <1>1, <1>4, <2>1 DEF Linked
      <3>. QED
        BY <1>1, <1>3, <2>1, <3>1 DEF Ordered
    <2>. QED
      BY <2>1
  <1>6. t.left[n] # n /\ t.right[n] # n
    <2>1. n \in sub[n] /\ n \notin sub[t.left[n]] /\ n \notin sub[t.right[n]]
      BY <1>4
    <2>. QED
      BY <2>1
  <1>7. t.parent[n] # n
    <2>1. t.parent[n] # NIL => t.left[t.parent[n]] = n \/ t.right[t.parent[n]] = n
      BY <1>1 DEF Linked
    <2>. QED
      BY <1>2, <1>6, <2>1
  <1>. QED
    BY <1>1, <1>2, <1>4, <1>5, <1>6, <1>7 DEF Linked

(* A node is not both its parent's children.                               *)
LEMMA TwoSons ==
  ASSUME NEW t, NEW sub, Tidy(t, sub), NEW n \in t.used, t.left[n] # NIL
  PROVE  t.left[n] # t.right[n]
  <1>1. SUFFICES ASSUME t.left[n] = t.right[n] PROVE FALSE
    OBVIOUS
  <1>2. t.left[n] \in t.used /\ t.parent[t.left[n]] = n /\ n # NIL
    BY TidyNode
  <1>3. t.left[n] # t.right[t.parent[t.left[n]]] \/ t.left[n] # t.left[t.parent[t.left[n]]]
    BY <1>2, TidyNode
  <1>. QED
    BY <1>1, <1>2, <1>3

Son(t, n, toLeft)   == IF toLeft THEN t.right[n] ELSE t.left[n]
Inner(t, n, toLeft) == IF toLeft THEN t.left[t.right[n]] ELSE t.right[t.left[n]]

(* In a search tree a rotation writes the fields it is meant to.           *)
LEMMA RotateIs ==
  ASSUME NEW t, NEW sub, Tidy(t, sub), NEW n \in t.used, NEW toLeft \in BOOLEAN,
         Son(t, n, toLeft) # NIL
  PROVE  Turned(t, Rotate(t, n, toLeft), n, Son(t, n, toLeft), Inner(t, n, toLeft), t.parent[n], toLeft)
  <1>1. n \in Node0 /\ n # NIL /\ ~OnLeft(t, n) /\ t \in Tree
    <2>1. n \in Node0 /\ n # NIL /\ t.left[n] # n
      BY TidyNode
    <2>. QED
      BY <2>1 DEF OnLeft, Tidy
  <1>2. Son(t, n, toLeft) \in Node0 /\ Inner(t, n, toLeft) \in Node0 /\ t.parent[n] \in Node0
    BY <1>1 DEF Son, Inner, Tree
  <1>3. Rotate(t, n, toLeft)
            = Turn(t, n, Son(t, n, toLeft), Inner(t, n, toLeft), t.parent[n], toLeft)
    BY <1>1 DEF Rotate, Son, Inner
  <1>. QED
    BY <1>1, <1>2, <1>3, TurnIs

-----------------------------------------------------------------------------
(* The repair loop after an insertion.                                     *)
Turns == [tree : Tree, at : Node0]

(* A turn of the loop links no node from outside W, in any tree.           *)
LEMMA InsertTurnHeld ==
  ASSUME NEW s \in Turns, NEW W \in SUBSET Node0, Held(s.tree, W), s.at \in W
  PROVE  /\ InsertTurn(s) \in Turns
         /\ Held(InsertTurn(s).tree, W) /\ Same(s.tree, InsertTurn(s).tree)
         /\ InsertTurn(s).at \in W
  <1>. DEFINE t == s.tree
              n == s.at
              p == t.parent[n]
              g == t.parent[p]
              left == p = t.left[g]
              uncle == IF left THEN t.right[g] ELSE t.left[g]
              inner == n = IF left THEN t.right[p] ELSE t.left[p]
              T1 == Paint(t, p, FALSE)
              T2 == Paint(T1, uncle, FALSE)
  <1>0. t \in Tree /\ W \subseteq Node0
    BY DEF Turns
  <1>1. n \in W /\ p \in W /\ g \in W /\ uncle \in W
    BY DEF Held
  <1>2. ASSUME NEW u, u \in Tree, Held(u, W), Same(t, u), NEW m \in W
        PROVE  /\ Held(Settled(u, m, left), W) /\ Same(t, Settled(u, m, left))
    <2>. DEFINE q == u.parent[m]
                h == u.parent[q]
                u1 == Paint(u, q, FALSE)
                u2 == Paint(u1, h, TRUE)
    <2>1. q \in W /\ h \in W
      BY <1>2 DEF Held
    <2>2. Held(u1, W) /\ Same(u, u1)
      BY <1>0, <1>2, <2>1, PaintHeld
    <2>. HIDE DEF u1
    <2>3. Held(u2, W) /\ Same(u1, u2)
      BY <1>0, <2>1, <2>2, PaintHeld DEF Same
    <2>. HIDE DEF u2
    <2>4. Held(Rotate(u2, h, ~left), W) /\ Same(u2, Rotate(u2, h, ~left))
      BY <2>1, <2>3, RotateHeld DEF Same
    <2>5. Settled(u, m, left) = Rotate(u2, h, ~left)
      BY DEF Settled, u1, u2
    <2>. QED
      BY <1>2, <2>2, <2>3, <2>4, <2>5 DEF Same
  <1>3. Held(T1, W) /\ Same(t, T1)
    BY <1>0, <1>1, PaintHeld
  <1>4. Held(T2, W) /\ Same(T1, T2)
    <2>. HIDE DEF T1, uncle
    <2>. QED
      BY <1>0, <1>1, <1>3, PaintHeld DEF Same
  <1>5. Held(Paint(T2, g, TRUE), W) /\ Same(T2, Paint(T2, g, TRUE))
    <2>. HIDE DEF T2
    <2>. QED
      BY <1>0, <1>1, <1>4, PaintHeld DEF Same
  <1>6. Held(Rotate(t, p, left), W) /\ Same(t, Rotate(t, p, left))
    BY <1>0, <1>1, RotateHeld
  <1>7. /\ Held(Settled(Rotate(t, p, left), p, left), W) /\ Same(t, Settled(Rotate(t, p, left), p, left))
        /\ Held(Settled(t, n, left), W) /\ Same(t, Settled(t, n, left))
    <2>1. Same(t, t)
      BY <1>0 DEF Same
    <2>. QED
      BY <1>0, <1>1, <1>2, <1>6, <2>1 DEF Same
  <1>8. s = [tree |-> t, at |-> n]
    BY DEF Turns
  <1>9. InsertTurn(s) = IF n = NIL \/ p = NIL \/ ~t.red[p] THEN s
                        ELSE IF UncleRed(t, uncle) THEN [tree |-> Paint(T2, g, TRUE), at |-> g]
                        ELSE IF inner THEN [tree |-> Settled(Rotate(t, p, left), p, left), at |-> p]
                        ELSE [tree |-> Settled(t, n, left), at |-> n]
    BY DEF InsertTurn
  <1>10. Same(t, Paint(T2, g, TRUE)) /\ Same(t, t)
    BY <1>0, <1>3, <1>4, <1>5 DEF Same
  <1>. HIDE DEF t, n, p, g, left, uncle, inner, T2
  <1>11. \/ InsertTurn(s) = [tree |-> t, at |-> n]
         \/ InsertTurn(s) = [tree |-> Paint(T2, g, TRUE), at |-> g]
         \/ InsertTurn(s) = [tree |-> Settled(Rotate(t, p, left), p, left), at |-> p]
         \/ InsertTurn(s) = [tree |-> Settled(t, n, left), at |-> n]
    BY <1>8, <1>9
  <1>12. Held(t, W) /\ t = s.tree
    BY DEF t
  <1>13. \E u, m : InsertTurn(s) = [tree |-> u, at |-> m] /\ Held(u, W) /\ Same(t, u) /\ m \in W
    BY <1>1, <1>5, <1>7, <1>10, <1>11, <1>12
  <1>. QED
    BY <1>0, <1>12, <1>13 DEF Turns, Same

InsertStep == [s \in Turns |-> InsertTurn(s)]

(* fixAfterInsert is the turn, iterated.                                   *)
LEMMA InsertLoop ==
  ASSUME NEW t \in Tree, NEW n \in Node0
  PROVE  \E w : /\ Iterated(w, Turns, [tree |-> t, at |-> n], InsertStep, NNode)
                /\ fixAfterInsert(t, n) = RootBlack(w[NNode].tree)
  <1>. DEFINE a == [tree |-> t, at |-> n]
              G(s) == InsertTurn(s)
              Raw(f) == [i \in 0 .. NNode |-> IF i = 0 THEN a ELSE G(f[i - 1])]
              w == CHOOSE f : f = Raw(f)
  <1>1. fixAfterInsert(t, n) = RootBlack(w[NNode].tree)
    BY DEF fixAfterInsert
  <1>2. NNode \in Nat /\ a \in Turns
    BY Nodes DEF Turns
  <1>3. InsertStep \in [Turns -> Turns] /\ \A s \in Turns : InsertStep[s] = G(s)
    <2>1. ASSUME NEW s \in Turns PROVE InsertTurn(s) \in Turns
      <3>1. Held(s.tree, Node0) /\ s.at \in Node0 /\ Node0 \in SUBSET Node0
        BY Nodes DEF Held, Turns, Tree
      <3>. QED
        BY <3>1, InsertTurnHeld
    <2>. QED
      BY <2>1 DEF InsertStep
  <1>. HIDE DEF G, a
  <1>4. PICK f : Iterated(f, Turns, a, InsertStep, NNode)
    BY <1>2, <1>3, Iterates
  <1>5. f = Raw(f)
    BY <1>2, <1>3, <1>4 DEF Iterated
  <1>6. w = Raw(w)
    BY <1>5
  <1>. HIDE DEF w
  <1>7. w = [i \in 0 .. NNode |-> w[i]] /\ w[0] = a /\ \A i \in 1 .. NNode : w[i] = G(w[i - 1])
    BY <1>2, <1>6
  <1>8. Iterated(w, Turns, a, InsertStep, NNode)
    BY <1>2, <1>3, <1>7, Unfolds
  <1>. QED
    BY <1>1, <1>8 DEF a

-----------------------------------------------------------------------------
(* A rotation that does not turn a left child keeps the search tree.       *)
LEMMA RotateTidy ==
  ASSUME NEW t, NEW sub, Tidy(t, sub), NEW n \in t.used, NEW toLeft \in BOOLEAN,
         Son(t, n, toLeft) # NIL, ~Rotate(t, n, toLeft).bent
  PROVE  \E sub2 : Tidy(Rotate(t, n, toLeft), sub2)
  <1>. DEFINE u == Rotate(t, n, toLeft)
              U == t.used
              son == Son(t, n, toLeft)
              inner == Inner(t, n, toLeft)
              p == t.parent[n]
  <1>1. /\ u \in Tree
        /\ u.root = IF p = NIL THEN son ELSE t.root
        /\ u.used = U /\ u.red = t.red /\ u.key = t.key
        /\ ~(p # NIL /\ t.left[p] = n)
        /\ \A m \in Node0 :
               u.left[m] = IF m = (IF toLeft THEN son ELSE n)
                           THEN IF toLeft THEN n ELSE inner
                           ELSE t.left[m]
        /\ \A m \in Node0 :
               u.right[m] = IF m = (IF toLeft THEN n ELSE son)
                            THEN IF toLeft THEN inner ELSE n
                            ELSE IF m = p /\ p # NIL THEN son ELSE t.right[m]
        /\ \A m \in Node0 :
               u.parent[m] = IF m = n THEN son ELSE IF m = son THEN p
                             ELSE IF m = inner THEN IF inner = NIL THEN NIL ELSE n
                             ELSE t.parent[m]
    <2>1. Turned(t, u, n, son, inner, p, toLeft)
      BY RotateIs
    <2>. HIDE DEF son, inner, p, u
    <2>. QED
      BY <2>1 DEF Turned, u
  <1>2. /\ u.left \in [Node0 -> Node0] /\ u.right \in [Node0 -> Node0]
        /\ u.parent \in [Node0 -> Node0] /\ t.key \in [Node0 -> Int]
        /\ U \subseteq Node0 /\ NIL \notin U /\ NIL \in Node0 /\ U \subseteq Node
        /\ Shape(t.left, t.right, t.parent, t.root, U, sub, t.key)
    BY <1>1, Nodes DEF Tree, Tidy, Shape
  <1>3. /\ n \in U /\ n # NIL /\ son \in U /\ son # NIL /\ p \in U \cup {NIL}
        /\ p # NIL => t.right[p] = n /\ t.left[p] # n
    BY <1>1, TidyNode DEF Son
  <1>4. /\ u.left[NIL] = NIL /\ u.right[NIL] = NIL /\ u.parent[NIL] = NIL /\ u.red[NIL] = FALSE
    <2>. HIDE DEF son, inner, p, U, u
    <2>. QED
      BY <1>1, <1>2, <1>3 DEF Tidy
  <1>5. CASE toLeft
    <2>1. son = t.right[n] /\ inner = t.left[son]
      BY <1>5 DEF Son, Inner
    <2>. HIDE DEF u, U, son, inner, p
    <2>2. \A m \in U : u.left[m] = IF m = son THEN n
                                   ELSE IF m = p /\ t.left[p] = n THEN son ELSE t.left[m]
      BY <1>1, <1>2, <1>3, <1>5
    <2>3. \A m \in U : u.right[m] = IF m = n THEN inner
                                    ELSE IF m = p /\ t.right[p] = n THEN son ELSE t.right[m]
      BY <1>1, <1>2, <1>3, <1>5
    <2>4. \A m \in U : u.parent[m] = IF m = n THEN son ELSE IF m = son THEN p
                                     ELSE IF m = inner THEN n ELSE t.parent[m]
      BY <1>1, <1>2, <1>3
    <2>5. \E sub2 : Shape(u.left, u.right, u.parent, u.root, U, sub2, t.key)
      <3>1. Swung(t.left, t.right, t.parent, t.root, u.left, u.right, u.parent, u.root, U,
                  n, son, inner, p)
        BY <1>1, <1>2, <2>1, <2>2, <2>3, <2>4 DEF Swung, p
      <3>. QED
        BY <1>2, <1>3, <3>1, Rotated
    <2>. QED
      BY <1>1, <1>4, <2>5 DEF Tidy, u
  <1>6. CASE ~toLeft
    <2>. DEFINE v == [m \in Node0 |-> 0 - t.key[m]]
    <2>0. v \in [Node0 -> Int] /\ \A m \in U : v[m] = 0 - t.key[m] /\ t.key[m] = 0 - v[m]
      BY <1>2
    <2>1. son = t.left[n] /\ inner = t.right[son]
      BY <1>6 DEF Son, Inner
    <2>. HIDE DEF u, U, son, inner, p, v
    <2>2. \A m \in U : u.right[m] = IF m = son THEN n
                                    ELSE IF m = p /\ t.right[p] = n THEN son ELSE t.right[m]
      BY <1>1, <1>2, <1>3, <1>6
    <2>3. \A m \in U : u.left[m] = IF m = n THEN inner
                                   ELSE IF m = p /\ t.left[p] = n THEN son ELSE t.left[m]
      BY <1>1, <1>2, <1>3, <1>6
    <2>4. \A m \in U : u.parent[m] = IF m = n THEN son ELSE IF m = son THEN p
                                     ELSE IF m = inner THEN n ELSE t.parent[m]
      BY <1>1, <1>2, <1>3
    <2>5. Shape(t.right, t.left, t.parent, t.root, U, sub, v)
      BY <1>2, <2>0, Mirrored
    <2>6. PICK sub2 : Shape(u.right, u.left, u.parent, u.root, U, sub2, v)
      <3>1. Swung(t.right, t.left, t.parent, t.root, u.right, u.left, u.parent, u.root, U,
                  n, son, inner, p)
        BY <1>1, <1>2, <2>1, <2>2, <2>3, <2>4 DEF Swung, p
      <3>. QED
        BY <1>3, <2>5, <3>1, Rotated
    <2>7. Shape(u.left, u.right, u.parent, u.root, U, sub2, t.key)
      BY <1>2, <2>0, <2>6, Mirrored
    <2>. QED
      BY <1>1, <1>4, <2>7 DEF Tidy, u
  <1>. QED
    BY <1>5, <1>6

(* What is at hand about the nodes below a node.                           *)
LEMMA TidySub ==
  ASSUME NEW t, NEW sub, Tidy(t, sub), NEW n \in t.used
  PROVE  /\ sub[n] \subseteq t.used
         /\ sub[n] = {n} \cup sub[t.left[n]] \cup sub[t.right[n]] /\ sub[NIL] = {}
         /\ n \notin sub[t.left[n]] /\ n \notin sub[t.right[n]]
         /\ \A x \in sub[t.left[n]] : t.key[x] < t.key[n]
         /\ \A x \in sub[t.right[n]] : t.key[n] < t.key[x]
         /\ \A x \in sub[n] : sub[x] \subseteq sub[n]
  <1>. DEFINE U == t.used
  <1>1. /\ U \subseteq Node /\ sub \in [Node0 -> SUBSET U] /\ t.key \in [Node0 -> Int]
        /\ Linked(t.left, t.right, t.parent, t.root, U)
        /\ Nested(t.left, t.right, t.parent, t.root, U, sub)
        /\ Ordered(t.left, t.right, U, sub, t.key)
    BY DEF Tidy, Shape
  <1>2. U \subseteq Node0 /\ n \in U
    BY <1>1, Nodes
  <1>3. \A m \in U : m \in sub[m] /\ sub[m] = {m} \cup sub[t.left[m]] \cup sub[t.right[m]]
                     /\ m \notin sub[t.left[m]] /\ m \notin sub[t.right[m]]
    <2>1. \A m \in U : ~(t.key[m] < t.key[m])
      BY <1>1, <1>2
    <2>. QED
      BY <1>1, <2>1 DEF Nested, Ordered
  <1>4. sub[n] \subseteq U
    BY <1>1, <1>2
  <1>. QED
    BY <1>1, <1>2, <1>3, <1>4 DEF Nested, Ordered

(* And about the root.                                                     *)
LEMMA TidyRoot ==
  ASSUME NEW t, NEW sub, Tidy(t, sub)
  PROVE  /\ sub[t.root] = t.used /\ sub[NIL] = {} /\ t.parent[t.root] = NIL
         /\ t.used # {} => t.root \in t.used
         /\ t.root \in t.used \cup {NIL} /\ t.used \subseteq Node
  BY DEF Tidy, Shape, Linked, Nested

(* How many nodes are below a node.                                        *)
LEMMA TidyCount ==
  ASSUME NEW t, NEW sub, Tidy(t, sub), NEW n \in t.used
  PROVE  IsFiniteSet(sub[n]) /\ Cardinality(sub[n]) \in 1 .. NNode
  <1>1. sub[n] \subseteq t.used /\ n \in sub[n] /\ t.used \subseteq Node
    BY TidySub, TidyNode DEF Tidy, Shape
  <1>2. IsFiniteSet(sub[n]) /\ Cardinality(sub[n]) <= Cardinality(Node)
    BY <1>1, Nodes, FS_Subset
  <1>3. Cardinality(sub[n]) \in Nat /\ Cardinality(sub[n]) # 0
    BY <1>1, <1>2, FS_CardinalityType, FS_EmptySet
  <1>. QED
    BY <1>2, <1>3, Nodes

(* There are more below its parent.                                        *)
LEMMA TidyUp ==
  ASSUME NEW t, NEW sub, Tidy(t, sub), NEW n \in t.used, NEW p, p = t.parent[n], p # NIL
  PROVE  sub[n] \subseteq sub[p] /\ p \notin sub[n]
  <1>1. p \in t.used /\ n \in {t.left[p], t.right[p]}
    BY TidyNode
  <1>2. /\ sub[p] = {p} \cup sub[t.left[p]] \cup sub[t.right[p]]
        /\ p \notin sub[t.left[p]] /\ p \notin sub[t.right[p]]
    BY <1>1, TidySub
  <1>. QED
    BY <1>1, <1>2

-----------------------------------------------------------------------------
(* The colours red of a tree with the links of t: h[m] black nodes from m  *)
(* down, on every way; no red node below a red one, but n.                 *)
Tinted(t, red, h) ==
    /\ h \in [Node0 -> Nat] /\ h[NIL] = 0
    /\ \A m \in t.used : /\ h[t.left[m]] = h[t.right[m]]
                         /\ h[m] = h[t.left[m]] + (IF red[m] THEN 0 ELSE 1)

Calm(t, n) ==
    \A m \in t.used \ {n} : t.red[m] /\ t.parent[m] # NIL => ~t.red[t.parent[m]]

(* A rotation in which the node and its red son swap colours.              *)
LEMMA RotateTinted ==
  ASSUME NEW t, NEW sub, Tidy(t, sub), NEW n \in t.used, NEW toLeft \in BOOLEAN,
         NEW son, son = Son(t, n, toLeft), son # NIL, ~Rotate(t, n, toLeft).bent,
         NEW red, NEW h, Tinted(t, red, h), red[son], t.red[n], t.red[son] <=> red[n],
         \A m \in t.used \ {n, son} : t.red[m] <=> red[m]
  PROVE  \E h2 : Tinted(Rotate(t, n, toLeft), t.red, h2)
  <1>. DEFINE u == Rotate(t, n, toLeft)
              U == t.used
              inner == Inner(t, n, toLeft)
              p == t.parent[n]
              h2 == [h EXCEPT ![n] = h[son], ![son] = h[n]]
              near == IF toLeft THEN t.left[n] ELSE t.right[n]
              far == IF toLeft THEN t.right[son] ELSE t.left[son]
  <1>1. /\ u \in Tree
        /\ u.root = IF p = NIL THEN son ELSE t.root
        /\ u.used = U /\ u.red = t.red /\ u.key = t.key
        /\ ~(p # NIL /\ t.left[p] = n)
        /\ \A m \in Node0 :
               u.left[m] = IF m = (IF toLeft THEN son ELSE n)
                           THEN IF toLeft THEN n ELSE inner
                           ELSE t.left[m]
        /\ \A m \in Node0 :
               u.right[m] = IF m = (IF toLeft THEN n ELSE son)
                            THEN IF toLeft THEN inner ELSE n
                            ELSE IF m = p /\ p # NIL THEN son ELSE t.right[m]
    <2>1. Turned(t, u, n, son, inner, p, toLeft)
      BY RotateIs
    <2>. HIDE DEF inner, p, u
    <2>. QED
      BY <2>1 DEF Turned, u
  <1>2. /\ h \in [Node0 -> Nat] /\ h[NIL] = 0
        /\ \A m \in U : /\ h[t.left[m]] = h[t.right[m]]
                        /\ h[m] = h[t.left[m]] + (IF red[m] THEN 0 ELSE 1)
    BY DEF Tinted
  <1>3. /\ n \in U /\ n # NIL /\ son \in U /\ son # n /\ p \in U \cup {NIL} /\ p # n
        /\ t.parent[son] = n
        /\ p # NIL => t.right[p] = n /\ t.left[p] # n
        /\ NIL \in Node0 /\ U \subseteq Node0 /\ NIL \notin U
    BY <1>1, TidyNode, Nodes DEF Son
  <1>4. p # son
    <2>1. p # NIL => p \notin sub[n]
      BY TidyUp
    <2>2. son \in sub[n]
      <3>1. son \in sub[son]
        BY <1>3, TidyNode
      <3>2. sub[son] \subseteq sub[n]
        BY <1>3, TidyUp
      <3>. QED
        BY <1>3, <3>1, <3>2
    <2>. QED
      BY <1>3, <2>1, <2>2
  <1>5. /\ near \in U \cup {NIL} /\ far \in U \cup {NIL} /\ inner \in U \cup {NIL}
        /\ near # n /\ near # son /\ far # n /\ far # son /\ inner # n /\ inner # son
    <2>1. near \in U \cup {NIL} /\ near # n /\ near # son
      BY <1>3, TidyNode DEF Son
    <2>2. far \in U \cup {NIL} /\ inner \in U \cup {NIL} /\ far # son /\ inner # son
      BY <1>3, TidyNode DEF Son, Inner
    <2>3. far # n /\ inner # n
      BY <1>3, <1>4, TidyNode DEF Son, Inner
    <2>. QED
      BY <2>1, <2>2, <2>3
  <1>6. /\ h[near] = h[son] /\ h[inner] = h[far] /\ h[son] = h[inner]
        /\ h[n] = h[son] + (IF red[n] THEN 0 ELSE 1)
        /\ h[near] \in Nat /\ h[inner] \in Nat /\ h[son] \in Nat /\ h[n] \in Nat
    <2>1. h[near] \in Nat /\ h[inner] \in Nat /\ h[far] \in Nat /\ h[son] \in Nat /\ h[n] \in Nat
      BY <1>2, <1>3, <1>5
    <2>2. /\ h[t.left[n]] = h[t.right[n]] /\ h[n] = h[t.left[n]] + (IF red[n] THEN 0 ELSE 1)
          /\ h[t.left[son]] = h[t.right[son]] /\ h[son] = h[t.left[son]] + 0
      BY <1>2, <1>3
    <2>3. CASE toLeft
      <3>1. son = t.right[n] /\ near = t.left[n] /\ inner = t.left[son] /\ far = t.right[son]
        BY <2>3 DEF Son, Inner
      <3>. QED
        BY <2>1, <2>2, <3>1
    <2>4. CASE ~toLeft
      <3>1. son = t.left[n] /\ near = t.right[n] /\ inner = t.right[son] /\ far = t.left[son]
        BY <2>4 DEF Son, Inner
      <3>. QED
        BY <2>1, <2>2, <3>1
    <2>. QED
      BY <2>3, <2>4
  <1>. HIDE DEF inner, p, u, near, far
  <1>7. h2 \in [Node0 -> Nat] /\ h2[NIL] = 0
    BY <1>2, <1>3
  <1>8. ASSUME NEW m \in U
        PROVE  /\ h2[u.left[m]] = h2[u.right[m]]
               /\ h2[m] = h2[u.left[m]] + (IF t.red[m] THEN 0 ELSE 1)
    <2>1. CASE m = n
      <3>1. (u.left[n] = near /\ u.right[n] = inner) \/ (u.left[n] = inner /\ u.right[n] = near)
        BY <1>1, <1>3, <1>5 DEF near
      <3>2. h2[near] = h[near] /\ h2[inner] = h[inner] /\ h2[n] = h[son]
        BY <1>2, <1>3, <1>5
      <3>. HIDE DEF h2
      <3>. QED
        BY <1>6, <2>1, <3>1, <3>2
    <2>2. CASE m = son
      <3>1. (u.left[son] = n /\ u.right[son] = far) \/ (u.left[son] = far /\ u.right[son] = n)
        BY <1>1, <1>3, <1>4 DEF far
      <3>2. h2[far] = h[far] /\ h2[n] = h[son] /\ h2[son] = h[n]
        BY <1>2, <1>3, <1>5
      <3>. HIDE DEF h2
      <3>. QED
        BY <1>6, <2>2, <3>1, <3>2
    <2>3. CASE m \notin {n, son}
      <3>1. /\ t.left[m] \in U \cup {NIL} /\ t.right[m] \in U \cup {NIL}
            /\ t.left[m] # son /\ t.right[m] # son
            /\ m # p => t.left[m] # n /\ t.right[m] # n
        BY <1>3, <2>3, TidyNode DEF p
      <3>2. u.left[m] = t.left[m] /\ t.left[m] # n
        BY <1>1, <1>3, <2>3, <3>1
      <3>3. u.right[m] = IF t.right[m] = n THEN son ELSE t.right[m]
        BY <1>1, <1>3, <2>3, <3>1
      <3>4. h2[u.left[m]] = h[t.left[m]] /\ h2[u.right[m]] = h[t.right[m]] /\ h2[m] = h[m]
        BY <1>2, <1>3, <2>3, <3>1, <3>2, <3>3
      <3>. QED
        BY <1>2, <2>3, <3>4
    <2>. QED
      BY <2>1, <2>2, <2>3
  <1>. HIDE DEF h2
  <1>9. Tinted(u, t.red, h2)
    BY <1>1, <1>7, <1>8 DEF Tinted
  <1>. QED
    BY <1>9 DEF u

SameLinks(t, u) ==
    /\ u.left = t.left /\ u.right = t.right /\ u.parent = t.parent /\ u.root = t.root
    /\ u.used = t.used /\ u.key = t.key /\ u.total = t.total /\ u.bent = t.bent

(* The repair loop between two turns: n is red, and may be below a red     *)
(* parent, but nothing else is wrong.                                      *)
Mid(t, n, sub, h) ==
    /\ Tidy(t, sub) /\ Tinted(t, t.red, h) /\ ~t.bent
    /\ n \in t.used /\ t.red[n] /\ Calm(t, n)
    /\ t.red[t.root] => n = t.root

Done(t, n) == t.parent[n] = NIL \/ ~t.red[t.parent[n]]

(* The relatives of such a node.                                           *)
Relatives(t, n, p, g, uncle) ==
    /\ n \in t.used /\ p \in t.used /\ g \in t.used /\ uncle \in t.used \cup {NIL}
    /\ n # p /\ n # g /\ n # uncle /\ p # g /\ p # uncle /\ g # uncle
    /\ t.red[n] /\ t.red[p] /\ ~t.red[g] /\ p = t.parent[n] /\ g = t.parent[p]
    /\ (p = t.left[g] /\ uncle = t.right[g]) \/ (p = t.right[g] /\ uncle = t.left[g])
    /\ n = t.left[p] \/ n = t.right[p]
    /\ \A m \in t.used : /\ t.parent[m] = g <=> (m = p \/ m = uncle)
                         /\ t.parent[m] = p <=> m \in {t.left[p], t.right[p]}
    /\ \A m \in t.used \ {g} : t.left[m] \notin {p, uncle} \ {NIL} /\ t.right[m] \notin {p, uncle} \ {NIL}
    /\ t.parent[t.root] = NIL

(* While the loop goes on, the current node has all these relatives.       *)
LEMMA Kin ==
  ASSUME NEW t, NEW n, NEW sub, NEW h, Mid(t, n, sub, h), ~Done(t, n),
         NEW p, p = t.parent[n], NEW g, g = t.parent[p],
         NEW uncle, uncle = IF p = t.left[g] THEN t.right[g] ELSE t.left[g]
  PROVE  Relatives(t, n, p, g, uncle)
  <1>. DEFINE U == t.used
  <1>1. /\ Tidy(t, sub) /\ n \in U /\ p # NIL /\ t.red[p] /\ t.red[n]
        /\ \A m \in U \ {n} : t.red[m] /\ t.parent[m] # NIL => ~t.red[t.parent[m]]
        /\ t.red[t.root] => n = t.root
    BY DEF Mid, Done, Calm
  <1>20. ASSUME NEW m \in U
         PROVE  /\ m # NIL /\ t.left[m] # m /\ t.right[m] # m /\ t.parent[m] # m
                /\ t.left[m] \in U \cup {NIL} /\ t.right[m] \in U \cup {NIL}
                /\ t.parent[m] \in U \cup {NIL} /\ (t.parent[m] = NIL => m = t.root)
                /\ t.left[m] # NIL => t.parent[t.left[m]] = m
                /\ t.right[m] # NIL => t.parent[t.right[m]] = m
                /\ t.parent[m] # NIL => \/ m = t.left[t.parent[m]] /\ m # t.right[t.parent[m]]
                                        \/ m = t.right[t.parent[m]] /\ m # t.left[t.parent[m]]
    <2>1. m \in t.used /\ Tidy(t, sub)
      BY <1>1
    <2>. QED
      BY <2>1, TidyNode
  <1>. HIDE DEF U
  <1>2. p \in U /\ p # n /\ (n = t.left[p] \/ n = t.right[p])
    BY <1>1, <1>20
  <1>3. g # NIL
    BY <1>1, <1>2, <1>20
  <1>4. /\ g \in U /\ g # p /\ t.left[g] # t.right[g]
        /\ (p = t.left[g] /\ uncle = t.right[g]) \/ (p = t.right[g] /\ uncle = t.left[g])
    <2>1. g \in U /\ g # p
      BY <1>1, <1>2, <1>3, <1>20
    <2>2. (p = t.left[g] /\ p # t.right[g]) \/ (p = t.right[g] /\ p # t.left[g])
      BY <1>1, <1>2, <1>3, <1>20
    <2>. QED
      BY <2>1, <2>2
  <1>5. uncle \in U \cup {NIL} /\ uncle # p /\ uncle # g
    BY <1>1, <1>4, <1>20
  <1>6. ~t.red[g]
    BY <1>1, <1>2, <1>3
  <1>7. n # g
    BY <1>1, <1>6
  <1>11. /\ t.left[g] # NIL => t.parent[t.left[g]] = g
         /\ t.right[g] # NIL => t.parent[t.right[g]] = g
    BY <1>4, <1>20
  <1>12. /\ t.left[p] # NIL => t.parent[t.left[p]] = p
         /\ t.right[p] # NIL => t.parent[t.right[p]] = p
    BY <1>2, <1>20
  <1>8. n # uncle
    <2>1. uncle # NIL => t.parent[uncle] = g
      BY <1>4, <1>11
    <2>2. n # NIL
      BY <1>1, <1>20
    <2>. QED
      BY <1>4, <2>1, <2>2
  <1>9. ASSUME NEW m \in U
        PROVE  /\ t.parent[m] = g <=> (m = p \/ m = uncle)
               /\ t.parent[m] = p <=> m \in {t.left[p], t.right[p]}
    <2>1. m # NIL /\ (t.parent[m] # NIL => m \in {t.left[t.parent[m]], t.right[t.parent[m]]})
      BY <1>1, <1>20
    <2>. QED
      BY <1>1, <1>3, <1>4, <1>11, <1>12, <2>1
  <1>10. ASSUME NEW m \in U, m # g
         PROVE  t.left[m] \notin {p, uncle} \ {NIL} /\ t.right[m] \notin {p, uncle} \ {NIL}
    <2>1. /\ t.left[m] \in U => t.parent[t.left[m]] = m
          /\ t.right[m] \in U => t.parent[t.right[m]] = m
      BY <1>1, <1>20
    <2>. QED
      BY <1>2, <1>5, <1>9, <1>10, <2>1
  <1>13. t.parent[t.root] = NIL
    BY <1>1 DEF Tidy, Shape, Linked
  <1>. QED
    BY <1>1, <1>2, <1>3, <1>4, <1>5, <1>6, <1>7, <1>8, <1>9, <1>10, <1>13 DEF Relatives, U

Recoloured(t, u, p, uncle, g) ==
    \A m \in t.used : u.red[m] <=> m = g \/ (m \notin {p, uncle} /\ t.red[m])

(* A red uncle: the violation moves up to the grandparent.                 *)
LEMMA Recolour ==
  ASSUME NEW t, NEW n, NEW sub, NEW h, Mid(t, n, sub, h),
         NEW p, NEW g, NEW uncle, Relatives(t, n, p, g, uncle), uncle # NIL, t.red[uncle],
         NEW u, Tidy(u, sub), SameLinks(t, u), Recoloured(t, u, p, uncle, g)
  PROVE  \E h2 : Mid(u, g, sub, h2) /\ Cardinality(sub[g]) > Cardinality(sub[n])
  <1>. DEFINE U == t.used
              h2 == [m \in Node0 |-> IF m \in {p, uncle} THEN h[m] + 1 ELSE h[m]]
  <1>1. /\ n \in U /\ p \in U /\ g \in U /\ uncle \in U
        /\ n # p /\ n # g /\ n # uncle /\ p # g /\ p # uncle /\ g # uncle
        /\ t.red[n] /\ t.red[p] /\ ~t.red[g] /\ p = t.parent[n] /\ g = t.parent[p]
        /\ (p = t.left[g] /\ uncle = t.right[g]) \/ (p = t.right[g] /\ uncle = t.left[g])
        /\ n = t.left[p] \/ n = t.right[p]
        /\ \A m \in U : t.parent[m] = g <=> (m = p \/ m = uncle)
        /\ t.parent[t.root] = NIL
    BY DEF Relatives
  <1>2. /\ Tidy(t, sub) /\ Tinted(t, t.red, h) /\ ~t.bent /\ U \subseteq Node0 /\ NIL \notin U
        /\ \A m \in U \ {n} : t.red[m] /\ t.parent[m] # NIL => ~t.red[t.parent[m]]
        /\ t.red[t.root] => n = t.root
    BY Nodes DEF Mid, Tidy, Shape, Calm
  <1>3. /\ u.left = t.left /\ u.right = t.right /\ u.parent = t.parent /\ u.root = t.root
        /\ u.used = U /\ ~u.bent
        /\ u.red[g] /\ ~u.red[p] /\ ~u.red[uncle]
        /\ \A m \in U : m \notin {g, p, uncle} => (u.red[m] <=> t.red[m])
    BY <1>1, <1>2 DEF SameLinks, Recoloured
  <1>11. /\ p \in Node0 /\ uncle \in Node0 /\ g \in Node0 /\ NIL \in Node0
         /\ p # NIL /\ uncle # NIL /\ p # uncle /\ g \notin {p, uncle}
    BY <1>1, <1>2, Nodes
  <1>12. \A m \in U \ {g} : t.left[m] \notin {p, uncle} /\ t.right[m] \notin {p, uncle}
    BY <1>11 DEF Relatives
  <1>4. /\ h \in [Node0 -> Nat] /\ h[NIL] = 0
        /\ \A m \in U : /\ h[t.left[m]] = h[t.right[m]]
                        /\ h[m] = h[t.left[m]] + (IF t.red[m] THEN 0 ELSE 1)
    BY <1>2 DEF Tinted
  <1>5. \A m \in U : t.left[m] \in Node0 /\ t.right[m] \in Node0
    BY <1>2, TidyNode, Nodes
  <1>6. Tinted(u, u.red, h2)
    <2>1. /\ h2 \in [Node0 -> Nat] /\ h2[NIL] = 0 /\ h2[p] = h[p] + 1 /\ h2[uncle] = h[uncle] + 1
          /\ \A m \in Node0 \ {p, uncle} : h2[m] = h[m]
      BY <1>4, <1>11
    <2>. HIDE DEF h2
    <2>2. ASSUME NEW m \in U
          PROVE  /\ h2[t.left[m]] = h2[t.right[m]]
                 /\ h2[m] = h2[t.left[m]] + (IF u.red[m] THEN 0 ELSE 1)
      <3>1. CASE m = g
        <4>1. h2[t.left[g]] = h[t.left[g]] + 1 /\ h2[t.right[g]] = h[t.right[g]] + 1 /\ h2[g] = h[g]
          <5>1. h2[g] = h[g]
            BY <1>11, <2>1
          <5>2. (p = t.left[g] /\ uncle = t.right[g]) \/ (p = t.right[g] /\ uncle = t.left[g])
            BY <1>1
          <5>. QED
            BY <2>1, <5>1, <5>2
        <4>2. h[g] = h[t.left[g]] + 1 /\ h[t.left[g]] = h[t.right[g]] /\ u.red[g]
          <5>1. g \in U /\ ~t.red[g]
            BY <1>1
          <5>. QED
            BY <1>3, <1>4, <5>1
        <4>3. h[t.left[g]] \in Nat
          BY <1>1, <1>4, <1>5
        <4>. QED
          BY <3>1, <4>1, <4>2, <4>3
      <3>2. CASE m \in {p, uncle}
        <4>1. h2[m] = h[m] + 1 /\ h2[t.left[m]] = h[t.left[m]] /\ h2[t.right[m]] = h[t.right[m]]
          BY <1>5, <1>11, <1>12, <2>1, <3>2
        <4>2. h[m] = h[t.left[m]] + 0 /\ h[t.left[m]] = h[t.right[m]] /\ ~u.red[m]
          <5>1. t.red[m] /\ ~u.red[m]
            BY <1>1, <1>3, <3>2
          <5>. QED
            BY <1>4, <5>1
        <4>3. h[t.left[m]] \in Nat
          BY <1>4, <1>5
        <4>. QED
          BY <4>1, <4>2, <4>3
      <3>3. CASE m \notin {g, p, uncle}
        <4>1. h2[m] = h[m] /\ h2[t.left[m]] = h[t.left[m]] /\ h2[t.right[m]] = h[t.right[m]]
          BY <1>2, <1>5, <1>12, <2>1, <3>3
        <4>2. u.red[m] <=> t.red[m]
          BY <1>3, <3>3
        <4>. QED
          BY <1>4, <4>1, <4>2
      <3>. QED
        BY <3>1, <3>2, <3>3
    <2>3. u.left = t.left /\ u.right = t.right /\ u.used = U
      BY <1>3
    <2>. QED
      BY <2>1, <2>2, <2>3 DEF Tinted
  <1>7. Calm(u, g)
    <2>1. ASSUME NEW m \in U \ {g}, u.red[m], t.parent[m] # NIL
          PROVE  ~u.red[t.parent[m]]
      <3>1. m \notin {p, uncle} /\ t.red[m] /\ t.parent[m] # g
        BY <1>1, <1>3, <2>1
      <3>2. t.parent[m] \in U
        BY <1>2, <2>1, TidyNode
      <3>3. m = n => t.parent[m] = p
        BY <1>1
      <3>. QED
        BY <1>1, <1>2, <1>3, <2>1, <3>1, <3>2, <3>3
    <2>. QED
      BY <1>3, <2>1 DEF Calm
  <1>8. u.red[u.root] => g = u.root
    <2>1. t.root \in U
      BY <1>1, <1>2, TidyRoot
    <2>2. t.root # n /\ t.root # p
      BY <1>1, <1>2, <1>11
    <2>3. t.root = uncle => ~u.red[t.root]
      BY <1>3
    <2>. QED
      BY <1>2, <1>3, <2>1, <2>2, <2>3
  <1>9. Cardinality(sub[g]) > Cardinality(sub[n])
    <2>1. sub[n] \subseteq sub[p] /\ sub[p] \subseteq sub[g] /\ g \notin sub[p]
      <3>1. n \in U /\ p \in U /\ p = t.parent[n] /\ p # NIL /\ g = t.parent[p] /\ g # NIL
        BY <1>1, <1>2
      <3>. QED
        BY <1>2, <3>1, TidyUp
    <2>2. g \in sub[g] /\ IsFiniteSet(sub[g]) /\ IsFiniteSet(sub[n])
      BY <1>1, <1>2, TidyNode, TidyCount
    <2>3. sub[n] \subseteq sub[g] /\ sub[n] # sub[g]
      BY <2>1, <2>2
    <2>4. Cardinality(sub[n]) <= Cardinality(sub[g]) /\ Cardinality(sub[n]) # Cardinality(sub[g])
      BY <2>2, <2>3, FS_Subset
    <2>5. Cardinality(sub[n]) \in 1 .. NNode /\ Cardinality(sub[g]) \in 1 .. NNode
      BY <1>1, <1>2, TidyCount
    <2>. QED
      BY <2>4, <2>5, Nodes
  <1>. HIDE DEF h2
  <1>10. Mid(u, g, sub, h2)
    BY <1>1, <1>3, <1>6, <1>7, <1>8 DEF Mid
  <1>. QED
    BY <1>9, <1>10

(* A black uncle, and a node on the outer side of its parent: the colours  *)
(* of the parent and the grandparent are swapped (v), and they are turned. *)
Repainted(t, v, p, g) == \A m \in t.used : v.red[m] <=> m = g \/ (m # p /\ t.red[m])

(* The last rotation: the red parent, an outer son's, takes the place of   *)
(* the grandparent, and nothing is red below red any more.                 *)
LEMMA Outer ==
  ASSUME NEW t, NEW n, NEW sub, NEW h, Mid(t, n, sub, h),
         NEW p, NEW g, NEW uncle, Relatives(t, n, p, g, uncle), ~t.red[uncle],
         NEW toLeft \in BOOLEAN, p = Son(t, g, toLeft), n # Inner(t, g, toLeft),
         NEW v, Tidy(v, sub), SameLinks(t, v), Repainted(t, v, p, g),
         NEW u, u = Rotate(v, g, toLeft), ~u.bent
  PROVE  \E sub2, h2 : Mid(u, n, sub2, h2) /\ Done(u, n)
  <1>. DEFINE U == t.used
              inner == Inner(t, g, toLeft)
              q == t.parent[g]
  <1>1. /\ n \in U /\ p \in U /\ g \in U
        /\ n # p /\ n # g /\ p # g
        /\ t.red[n] /\ t.red[p] /\ ~t.red[g] /\ p = t.parent[n] /\ g = t.parent[p]
        /\ (p = t.left[g] /\ uncle = t.right[g]) \/ (p = t.right[g] /\ uncle = t.left[g])
        /\ n = t.left[p] \/ n = t.right[p]
        /\ \A m \in U : t.parent[m] = g <=> (m = p \/ m = uncle)
        /\ \A m \in U : t.parent[m] = p <=> m \in {t.left[p], t.right[p]}
        /\ t.parent[t.root] = NIL
    BY DEF Relatives
  <1>2. /\ Tidy(t, sub) /\ Tinted(t, t.red, h) /\ ~t.bent /\ U \subseteq Node0 /\ NIL \notin U
        /\ \A m \in U \ {n} : t.red[m] /\ t.parent[m] # NIL => ~t.red[t.parent[m]]
        /\ t.red[t.root] => n = t.root
        /\ NIL \in Node0
    BY Nodes DEF Mid, Tidy, Shape, Calm
  <1>3. /\ v.left = t.left /\ v.right = t.right /\ v.parent = t.parent /\ v.root = t.root
        /\ v.used = U /\ v.red[g] /\ ~v.red[p]
        /\ \A m \in U : m \notin {g, p} => (v.red[m] <=> t.red[m])
    BY <1>1 DEF SameLinks, Repainted
  <1>4. p = Son(v, g, toLeft) /\ inner = Inner(v, g, toLeft) /\ p # NIL /\ n # NIL
    BY <1>1, <1>2, <1>3 DEF Son, Inner
  <1>5. PICK sub2 : Tidy(u, sub2)
    BY <1>1, <1>3, <1>4, RotateTidy
  <1>6. PICK h2 : Tinted(u, v.red, h2)
    <2>1. Tinted(v, t.red, h)
      BY <1>2, <1>3 DEF Tinted
    <2>2. \A m \in v.used \ {g, p} : v.red[m] <=> t.red[m]
      BY <1>3
    <2>. QED
      BY <1>1, <1>3, <1>4, <2>1, <2>2, RotateTinted
  <1>7. /\ u.root = IF q = NIL THEN p ELSE t.root
        /\ u.used = U /\ u.red = v.red
        /\ \A m \in Node0 : u.parent[m] = IF m = g THEN p ELSE IF m = p THEN q
                                          ELSE IF m = inner THEN IF inner = NIL THEN NIL ELSE g
                                          ELSE t.parent[m]
    <2>1. Turned(v, u, g, p, inner, v.parent[g], toLeft)
      <3>1. g \in v.used /\ Son(v, g, toLeft) # NIL
        BY <1>1, <1>3, <1>4
      <3>2. Turned(v, Rotate(v, g, toLeft), g, Son(v, g, toLeft), Inner(v, g, toLeft),
                   v.parent[g], toLeft)
        BY <3>1, RotateIs
      <3>. QED
        BY <1>4, <3>2
    <2>. HIDE DEF inner, q
    <2>. QED
      BY <1>3, <2>1 DEF Turned, q
  <1>8. /\ inner \in {t.left[p], t.right[p]} \ {n} /\ inner # p
        /\ inner # NIL => t.parent[inner] = p
    <2>1. inner \in {t.left[p], t.right[p]} /\ inner # n
      BY DEF Son, Inner
    <2>. HIDE DEF inner
    <2>2. Tidy(t, sub) /\ p \in t.used
      BY <1>1, <1>2
    <2>3. /\ t.left[p] # p /\ t.right[p] # p
          /\ t.left[p] # NIL => t.parent[t.left[p]] = p
          /\ t.right[p] # NIL => t.parent[t.right[p]] = p
      BY <2>2, TidyNode
    <2>. QED
      BY <2>1, <2>3
  <1>. HIDE DEF inner
  <1>9. \A m \in U : m \in {t.left[p], t.right[p]} => m = n \/ m = inner
    BY <1>1, <1>2, <1>8, TidyNode
  <1>10. u.parent[n] = p
    BY <1>1, <1>2, <1>7, <1>8
  <1>11. Calm(u, n)
    <2>1. ASSUME NEW m \in U \ {n}, u.red[m], u.parent[m] # NIL PROVE ~u.red[u.parent[m]]
      <3>1. CASE m = g
        BY <1>2, <1>3, <1>7, <3>1
      <3>2. CASE m = inner /\ m # g
        <4>1. t.parent[m] = p /\ m # p /\ m # g
          BY <1>1, <1>2, <1>8, <3>2
        <4>2. t.red[m]
          BY <1>3, <1>7, <2>1, <4>1
        <4>. QED
          BY <1>1, <1>2, <2>1, <4>1, <4>2
      <3>3. CASE m \notin {g, inner}
        <4>1. m # p /\ t.red[m] /\ u.parent[m] = t.parent[m]
          BY <1>2, <1>3, <1>7, <2>1, <3>3
        <4>2. t.parent[m] # g
          BY <1>1, <2>1, <4>1
        <4>3. t.parent[m] # p
          BY <1>1, <1>9, <2>1, <3>3
        <4>4. ~t.red[t.parent[m]] /\ t.parent[m] \in U
          BY <1>2, <2>1, <4>1, TidyNode
        <4>. QED
          BY <1>3, <1>7, <4>1, <4>2, <4>3, <4>4
      <3>. QED
        BY <3>1, <3>2, <3>3
    <2>. QED
      BY <1>7, <2>1 DEF Calm
  <1>12. ~u.red[u.root]
    <2>1. CASE q = NIL
      BY <1>3, <1>7, <2>1
    <2>2. CASE q # NIL
      <3>1. t.root \in U /\ t.root \notin {n, p, g}
        BY <1>1, <1>2, <2>2, TidyRoot
      <3>. QED
        BY <1>2, <1>3, <1>7, <2>2, <3>1
    <2>. QED
      BY <2>1, <2>2
  <1>13. Mid(u, n, sub2, h2)
    BY <1>1, <1>3, <1>5, <1>6, <1>7, <1>11, <1>12 DEF Mid
  <1>14. Done(u, n)
    BY <1>3, <1>7, <1>10 DEF Done
  <1>. QED
    BY <1>13, <1>14

Reddened(t, n)    == Paint(t, n, TRUE)
RightTurned(t, n) == Rotate(t, n, FALSE)

(* A node on the inner side of a parent that is a right child: the two     *)
(* change places, and then it is the parent that is on the outer side.     *)
LEMMA Outwards ==
  ASSUME NEW t, NEW n, NEW sub, NEW h, Mid(t, n, sub, h),
         NEW p, NEW g, NEW uncle, Relatives(t, n, p, g, uncle), ~t.red[uncle],
         p # t.left[g], n = t.left[p], NEW u, u = RightTurned(t, p), ~u.bent
  PROVE  \E sub2, h2 : /\ Mid(u, p, sub2, h2) /\ Relatives(u, p, n, g, uncle)
                       /\ ~u.red[uncle] /\ u.right[g] = n /\ u.left[n] # p
                       /\ u.parent[p] = n /\ u.parent[n] = g
  <1>. DEFINE U == t.used
              inner == t.right[n]
  <1>0. u = Rotate(t, p, FALSE)
    BY DEF RightTurned
  <1>1. /\ n \in U /\ p \in U /\ g \in U
        /\ n # p /\ n # g /\ p # g
        /\ t.red[n] /\ t.red[p] /\ ~t.red[g] /\ p = t.parent[n] /\ g = t.parent[p]
        /\ p = t.right[g] /\ uncle = t.left[g] /\ uncle # p /\ uncle # n
        /\ t.parent[t.root] = NIL
    BY DEF Relatives
  <1>2. /\ Tidy(t, sub) /\ Tinted(t, t.red, h) /\ ~t.bent /\ U \subseteq Node0 /\ NIL \notin U
        /\ \A m \in U \ {n} : t.red[m] /\ t.parent[m] # NIL => ~t.red[t.parent[m]]
        /\ t.red[t.root] => n = t.root
        /\ NIL \in Node0
    BY Nodes DEF Mid, Tidy, Shape, Calm
  <1>3. n = Son(t, p, FALSE) /\ inner = Inner(t, p, FALSE) /\ n # NIL /\ g # NIL
    BY <1>1, <1>2 DEF Son, Inner
  <1>4. PICK sub2 : Tidy(u, sub2)
    BY <1>0, <1>1, <1>2, <1>3, RotateTidy
  <1>5. PICK h2 : Tinted(u, t.red, h2)
    BY <1>0, <1>1, <1>2, <1>3, RotateTinted
  <1>6. Turned(t, u, p, n, inner, g, FALSE)
    <2>1. p \in t.used /\ Son(t, p, FALSE) # NIL
      BY <1>1, <1>3
    <2>2. Turned(t, Rotate(t, p, FALSE), p, Son(t, p, FALSE), Inner(t, p, FALSE), t.parent[p], FALSE)
      BY <1>2, <2>1, RotateIs
    <2>. QED
      BY <1>0, <1>1, <1>3, <2>2
  <1>. HIDE DEF inner
  <1>7. /\ u.root = t.root /\ u.used = U /\ u.red = t.red
        /\ u.parent[p] = n /\ u.parent[n] = g /\ u.right[g] = n /\ u.right[n] = p
        /\ u.left[g] = uncle
        /\ \A m \in Node0 : u.parent[m] = IF m = p THEN n ELSE IF m = n THEN g
                                          ELSE IF m = inner THEN IF inner = NIL THEN NIL ELSE p
                                          ELSE t.parent[m]
    BY <1>1, <1>2, <1>3, <1>6 DEF Turned
  <1>8. Calm(u, p)
    <2>1. ASSUME NEW m \in U \ {p}, u.red[m], u.parent[m] # NIL PROVE ~u.red[u.parent[m]]
      <3>1. CASE m = n
        BY <1>1, <1>7, <3>1
      <3>2. CASE m = inner
        <4>1. t.parent[m] = n /\ m # n
          BY <1>1, <1>2, <3>2, TidyNode DEF inner
        <4>. QED
          BY <1>1, <1>2, <1>3, <1>7, <2>1, <4>1
      <3>3. CASE m \notin {n, inner}
        <4>1. u.parent[m] = t.parent[m]
          BY <1>2, <1>7, <2>1, <3>3
        <4>. QED
          BY <1>2, <1>7, <2>1, <3>3, <4>1
      <3>. QED
        BY <3>1, <3>2, <3>3
    <2>. QED
      BY <1>7, <2>1 DEF Calm
  <1>9. Mid(u, p, sub2, h2)
    <2>1. ~u.red[u.root]
      BY <1>1, <1>2, <1>3, <1>7
    <2>2. ~u.bent
      OBVIOUS
    <2>. QED
      BY <1>1, <1>4, <1>5, <1>7, <1>8, <2>1, <2>2 DEF Mid
  <1>10. u.left[g] # n /\ u.left[n] # p
    <2>1. g \in u.used /\ n \in u.used /\ p # NIL
      BY <1>1, <1>2, <1>7
    <2>2. u.left[g] # NIL => u.left[g] # u.right[g]
      BY <1>4, <2>1, TwoSons
    <2>3. u.left[n] # NIL => u.left[n] # u.right[n]
      BY <1>4, <2>1, TwoSons
    <2>. QED
      BY <1>3, <1>7, <2>1, <2>2, <2>3
  <1>11. ~Done(u, p)
    BY <1>1, <1>3, <1>7 DEF Done
  <1>12. n = u.parent[p] /\ g = u.parent[n] /\ uncle = IF n = u.left[g] THEN u.right[g] ELSE u.left[g]
    BY <1>7, <1>10
  <1>13. Relatives(u, p, n, g, uncle)
    BY <1>9, <1>11, <1>12, Kin
  <1>14. ~u.red[uncle]
    BY <1>7
  <1>. QED
    BY <1>7, <1>9, <1>10, <1>13, <1>14

(* Colouring a node of the tree red.                                       *)
LEMMA PaintRed ==
  ASSUME NEW t, NEW sub, Tidy(t, sub), NEW n \in t.used, NEW u, u = Reddened(t, n)
  PROVE  /\ Tidy(u, sub) /\ SameLinks(t, u)
         /\ \A m \in t.used : u.red[m] <=> m = n \/ t.red[m]
  <1>1. n \in Node0 /\ n # NIL /\ t.used \subseteq Node0 /\ t \in Tree /\ NIL \in Node0
    BY TidyRoot, Nodes DEF Tidy
  <1>2. /\ u \in Tree /\ SameLinks(t, u)
        /\ \A m \in Node0 : m # n => u.red[m] = t.red[m]
        /\ u.red[n] = TRUE
    BY <1>1 DEF Reddened, Paint, Tree, SameLinks
  <1>3. \A m \in t.used : u.red[m] <=> m = n \/ t.red[m]
    BY <1>1, <1>2
  <1>. QED
    BY <1>1, <1>2, <1>3 DEF Tidy, SameLinks

(* Colouring a node of the tree black.                                     *)
LEMMA PaintBlack ==
  ASSUME NEW t, NEW sub, Tidy(t, sub), NEW n \in t.used, NEW u, u = Paint(t, n, FALSE)
  PROVE  /\ Tidy(u, sub) /\ SameLinks(t, u)
         /\ \A m \in t.used : u.red[m] <=> m # n /\ t.red[m]
  <1>1. n \in Node0 /\ n # NIL /\ t.used \subseteq Node0 /\ t \in Tree /\ NIL \in Node0
    BY TidyRoot, Nodes DEF Tidy
  <1>2. /\ u \in Tree /\ SameLinks(t, u)
        /\ \A m \in Node0 : m # n => u.red[m] = t.red[m]
        /\ u.red[n] = FALSE
    BY <1>1 DEF Paint, Tree, SameLinks
  <1>3. \A m \in t.used : u.red[m] <=> m # n /\ t.red[m]
    BY <1>1, <1>2
  <1>. QED
    BY <1>1, <1>2, <1>3 DEF Tidy, SameLinks

(* A black uncle and an outer son: the loop ends, with heights and order   *)
(* kept, unless a left child was turned.                                   *)
LEMMA SettledMid ==
  ASSUME NEW t, NEW n, NEW sub, NEW h, Mid(t, n, sub, h),
         NEW p, NEW g, NEW uncle, Relatives(t, n, p, g, uncle), ~t.red[uncle],
         NEW left \in BOOLEAN, p = Son(t, g, ~left), n # Inner(t, g, ~left),
         ~Settled(t, n, left).bent
  PROVE  \E sub2, h2 : Mid(Settled(t, n, left), n, sub2, h2) /\ Done(Settled(t, n, left), n)
  <1>. DEFINE t1 == Paint(t, p, FALSE)
              v == Reddened(t1, g)
              toLeft == ~left
              u == Settled(t, n, left)
  <1>1. u = Rotate(v, g, toLeft)
    BY DEF Settled, Relatives, Reddened
  <1>2. /\ Tidy(t, sub) /\ p \in t.used /\ g \in t.used /\ p # g /\ t.red[p]
    BY DEF Mid, Relatives
  <1>3. /\ Tidy(t1, sub) /\ SameLinks(t, t1)
        /\ \A m \in t.used : t1.red[m] <=> m # p /\ t.red[m]
    BY <1>2, PaintBlack
  <1>. HIDE DEF t1
  <1>4. /\ Tidy(v, sub) /\ SameLinks(t1, v)
        /\ \A m \in t.used : v.red[m] <=> m = g \/ t1.red[m]
    <2>1. g \in t1.used /\ t1.used = t.used
      BY <1>2, <1>3 DEF SameLinks
    <2>3. /\ Tidy(v, sub) /\ SameLinks(t1, v)
          /\ \A m \in t1.used : v.red[m] <=> m = g \/ t1.red[m]
      BY <1>3, <2>1, PaintRed
    <2>. QED
      BY <2>1, <2>3
  <1>. HIDE DEF v
  <1>5. SameLinks(t, v) /\ Repainted(t, v, p, g)
    BY <1>2, <1>3, <1>4 DEF SameLinks, Repainted
  <1>6. toLeft \in BOOLEAN /\ p = Son(t, g, toLeft) /\ n # Inner(t, g, toLeft)
    OBVIOUS
  <1>7. ~u.bent
    OBVIOUS
  <1>. HIDE DEF toLeft, u
  <1>8. \E sub2, h2 : Mid(u, n, sub2, h2) /\ Done(u, n)
    BY <1>1, <1>4, <1>5, <1>6, <1>7, Outer
  <1>. QED
    BY <1>8 DEF u

(* What has turned a left child is remembered.                             *)
LEMMA SettledBent ==
  ASSUME NEW t, t \in Tree, NEW n \in Node0, NEW left \in BOOLEAN, t.bent
  PROVE  Settled(t, n, left).bent
  <1>. DEFINE q == t.parent[n]
              h == t.parent[q]
              u1 == Paint(t, q, FALSE)
              u2 == Paint(u1, h, TRUE)
  <1>1. q \in Node0 /\ h \in Node0 /\ Node0 \in SUBSET Node0
    BY DEF Tree
  <1>2. Held(t, Node0)
    BY Nodes DEF Held, Tree
  <1>3. Held(u1, Node0) /\ Same(t, u1)
    BY <1>1, <1>2, PaintHeld
  <1>. HIDE DEF u1
  <1>4. Held(u2, Node0) /\ Same(u1, u2)
    BY <1>1, <1>3, PaintHeld DEF Same
  <1>. HIDE DEF u2
  <1>5. Same(u2, Rotate(u2, h, ~left))
    BY <1>1, <1>4, RotateHeld DEF Same
  <1>6. Settled(t, n, left) = Rotate(u2, h, ~left)
    BY DEF Settled, u1, u2
  <1>. QED
    BY <1>3, <1>4, <1>5, <1>6 DEF Same

(* One turn, as long as no left child is turned.                           *)
LEMMA InsertTurnMid ==
  ASSUME NEW s \in Turns, NEW sub, NEW h, Mid(s.tree, s.at, sub, h), ~Done(s.tree, s.at),
         ~InsertTurn(s).tree.bent
  PROVE  \E sub2, h2 :
             /\ Mid(InsertTurn(s).tree, InsertTurn(s).at, sub2, h2)
             /\ \/ Done(InsertTurn(s).tree, InsertTurn(s).at)
                \/ Cardinality(sub2[InsertTurn(s).at]) > Cardinality(sub[s.at])
  <1>. DEFINE t == s.tree
              n == s.at
              p == t.parent[n]
              g == t.parent[p]
              left == p = t.left[g]
              uncle == IF p = t.left[g] THEN t.right[g] ELSE t.left[g]
              inner == n = IF left THEN t.right[p] ELSE t.left[p]
              T1 == Paint(t, p, FALSE)
              T2 == Paint(T1, uncle, FALSE)
              T3 == Reddened(T2, g)
              t1 == Rotate(t, p, left)
  <1>1. /\ Mid(t, n, sub, h) /\ ~Done(t, n) /\ t \in Tree /\ Tidy(t, sub)
        /\ p # NIL /\ t.red[p] /\ n # NIL
    <2>1. Tidy(t, sub) /\ n \in t.used
      BY DEF Mid
    <2>2. n # NIL
      BY <2>1, TidyNode
    <2>. QED
      BY <2>1, <2>2 DEF Done, Turns
  <1>2. Relatives(t, n, p, g, uncle)
    <2>. HIDE DEF t, n
    <2>. QED
      BY <1>1, Kin
  <1>3. InsertTurn(s) = IF UncleRed(t, uncle) THEN [tree |-> T3, at |-> g]
                        ELSE IF inner THEN [tree |-> Settled(t1, p, left), at |-> p]
                        ELSE [tree |-> Settled(t, n, left), at |-> n]
    <2>1. ~(n = NIL \/ p = NIL \/ ~t.red[p])
      BY <1>1
    <2>. QED
      BY <2>1 DEF InsertTurn, Reddened
  <1>. HIDE DEF t, n, p, g, left, uncle, inner, T1, T2, T3, t1
  <1>4. CASE t.red[uncle]
    <2>1. InsertTurn(s) = [tree |-> T3, at |-> g]
      BY <1>3, <1>4 DEF UncleRed
    <2>2. /\ p \in t.used /\ g \in t.used /\ uncle \in t.used /\ uncle # NIL
          /\ p # g /\ p # uncle /\ g # uncle
      <3>1. uncle # NIL
        BY <1>1, <1>4 DEF Tidy
      <3>. QED
        BY <1>2, <3>1 DEF Relatives
    <2>3. /\ Tidy(T1, sub) /\ SameLinks(t, T1)
          /\ \A m \in t.used : T1.red[m] <=> m # p /\ t.red[m]
      BY <1>1, <2>2, PaintBlack DEF T1
    <2>4. /\ Tidy(T2, sub) /\ SameLinks(T1, T2)
          /\ \A m \in T1.used : T2.red[m] <=> m # uncle /\ T1.red[m]
      <3>1. uncle \in T1.used
        BY <2>2, <2>3 DEF SameLinks
      <3>. QED
        BY <2>3, <3>1, PaintBlack DEF T2
    <2>5. /\ Tidy(T3, sub) /\ SameLinks(T2, T3)
          /\ \A m \in T2.used : T3.red[m] <=> m = g \/ T2.red[m]
      <3>1. g \in T2.used
        BY <2>2, <2>3, <2>4 DEF SameLinks
      <3>. QED
        BY <2>4, <3>1, PaintRed DEF T3
    <2>6. SameLinks(t, T3) /\ Recoloured(t, T3, p, uncle, g)
      BY <2>2, <2>3, <2>4, <2>5 DEF SameLinks, Recoloured
    <2>7. \E h2 : Mid(T3, g, sub, h2) /\ Cardinality(sub[g]) > Cardinality(sub[n])
      BY <1>1, <1>2, <1>4, <2>2, <2>5, <2>6, Recolour
    <2>. QED
      BY <2>1, <2>7 DEF n
  <1>5. CASE ~t.red[uncle] /\ ~inner
    <2>1. InsertTurn(s) = [tree |-> Settled(t, n, left), at |-> n]
      BY <1>3, <1>5 DEF UncleRed
    <2>2. left \in BOOLEAN /\ p = Son(t, g, ~left) /\ n # Inner(t, g, ~left)
      <3>1. CASE left
        <4>1. p = t.left[g] /\ n # t.right[p]
          BY <1>5, <3>1 DEF left, inner
        <4>. QED
          BY <3>1, <4>1 DEF Son, Inner, left
      <3>2. CASE ~left
        <4>1. p = t.right[g] /\ n # t.left[p]
          BY <1>2, <1>5, <3>2 DEF left, inner, Relatives
        <4>. QED
          BY <3>2, <4>1 DEF Son, Inner, left
      <3>. QED
        BY <3>1, <3>2 DEF left
    <2>3. \E sub2, h2 : Mid(Settled(t, n, left), n, sub2, h2) /\ Done(Settled(t, n, left), n)
      <3>1. ~Settled(t, n, left).bent
        BY <2>1
      <3>. QED
        BY <1>1, <1>2, <1>5, <2>2, <3>1, SettledMid
    <2>. QED
      BY <2>1, <2>3
  <1>6. CASE ~t.red[uncle] /\ inner
    <2>1. InsertTurn(s) = [tree |-> Settled(t1, p, left), at |-> p]
      BY <1>3, <1>6 DEF UncleRed
    <2>2. left \in BOOLEAN /\ p \in t.used /\ g \in t.used /\ p \in Node0 /\ g # NIL
      <3>1. p \in t.used /\ g \in t.used
        BY <1>2 DEF Relatives
      <3>. QED
        BY <1>1, <3>1, TidyNode DEF left
    <2>3. ~t1.bent
      <3>1. t1 \in Tree
        <4>1. Held(t, Node0) /\ Node0 \in SUBSET Node0
          BY <1>1, Nodes DEF Held, Tree
        <4>. QED
          BY <1>1, <2>2, <4>1, RotateHeld DEF Same, t1
      <3>2. t1.bent => Settled(t1, p, left).bent
        BY <2>2, <3>1, SettledBent
      <3>. QED
        BY <2>1, <3>2
    <2>4. ~left
      <3>1. SUFFICES ASSUME left PROVE FALSE
        OBVIOUS
      <3>2. Son(t, p, left) # NIL
        BY <1>1, <1>6, <3>1 DEF Son, inner
      <3>3. Turned(t, t1, p, Son(t, p, left), Inner(t, p, left), t.parent[p], left)
        BY <1>1, <2>2, <3>2, RotateIs DEF t1
      <3>. QED
        BY <2>2, <2>3, <3>1, <3>3 DEF Turned, left, g
    <2>5. p # t.left[g] /\ n = t.left[p] /\ t1 = RightTurned(t, p)
      <3>1. left = FALSE
        BY <2>2, <2>4
      <3>. QED
        BY <1>6, <3>1 DEF left, inner, t1, RightTurned
    <2>6. PICK sub2, h2 : /\ Mid(t1, p, sub2, h2) /\ Relatives(t1, p, n, g, uncle)
                          /\ ~t1.red[uncle] /\ t1.right[g] = n /\ t1.left[n] # p
      BY <1>1, <1>2, <1>6, <2>3, <2>5, Outwards
    <2>7. n = Son(t1, g, ~left) /\ p # Inner(t1, g, ~left)
      BY <2>4, <2>6 DEF Son, Inner
    <2>8. \E sub3, h3 : Mid(Settled(t1, p, left), p, sub3, h3) /\ Done(Settled(t1, p, left), p)
      <3>1. ~Settled(t1, p, left).bent
        BY <2>1
      <3>. QED
        BY <2>2, <2>6, <2>7, <3>1, SettledMid
    <2>. QED
      BY <2>1, <2>8
  <1>. QED
    BY <1>4, <1>5, <1>6

(* The whole repair: a red-black search tree again, unless a left child    *)
(* was turned, and in any case nothing but links and colours has changed.  *)
Sound(t, sub, h) ==
    Tidy(t, sub) /\ Tinted(t, t.red, h) /\ Calm(t, NIL) /\ ~t.red[t.root] /\ ~t.bent

(* When the loop has ended and the root is black the tree is sound.        *)
LEMMA RootBlackSound ==
  ASSUME NEW t, NEW n, NEW sub, NEW h, Mid(t, n, sub, h), Done(t, n)
  PROVE  \E h2 : Sound(RootBlack(t), sub, h2)
  <1>. DEFINE u == RootBlack(t)
              r == t.root
              U == t.used
              h2 == [h EXCEPT ![r] = h[t.left[r]] + 1]
  <1>1. /\ Tidy(t, sub) /\ Tinted(t, t.red, h) /\ ~t.bent /\ n \in U /\ U \subseteq Node0
        /\ NIL \notin U /\ NIL \in Node0
        /\ \A m \in U : t.red[m] /\ t.parent[m] # NIL => ~t.red[t.parent[m]]
    <2>1. n \in U /\ Tidy(t, sub)
      BY DEF Mid
    <2>2. U \subseteq Node0 /\ NIL \notin U /\ NIL \in Node0
      BY <2>1, TidyRoot, Nodes
    <2>. QED
      BY <2>1, <2>2 DEF Mid, Done, Calm
  <1>2. r \in U /\ t.parent[r] = NIL
    BY <1>1, TidyRoot
  <1>3. /\ Tidy(u, sub) /\ SameLinks(t, u)
        /\ \A m \in U : u.red[m] <=> m # r /\ t.red[m]
    <2>1. u = Paint(t, r, FALSE)
      BY DEF RootBlack
    <2>. HIDE DEF u, r
    <2>. QED
      BY <1>1, <1>2, <2>1, PaintBlack
  <1>. HIDE DEF u, r
  <1>4. /\ h \in [Node0 -> Nat] /\ h[NIL] = 0
        /\ \A m \in U : /\ h[t.left[m]] = h[t.right[m]]
                        /\ h[m] = h[t.left[m]] + (IF t.red[m] THEN 0 ELSE 1)
    BY <1>1 DEF Tinted
  <1>5. \A m \in U : /\ t.left[m] \in Node0 /\ t.right[m] \in Node0
                     /\ t.left[m] # r /\ t.right[m] # r
    BY <1>1, <1>2, TidyNode
  <1>6. /\ h2 \in [Node0 -> Nat] /\ h2[NIL] = 0 /\ h2[r] = h[t.left[r]] + 1
        /\ \A m \in Node0 : m # r => h2[m] = h[m]
    BY <1>1, <1>2, <1>4, <1>5
  <1>. HIDE DEF h2
  <1>7. ASSUME NEW m \in U
        PROVE  /\ h2[t.left[m]] = h2[t.right[m]]
               /\ h2[m] = h2[t.left[m]] + (IF u.red[m] THEN 0 ELSE 1)
    <2>1. h2[t.left[m]] = h[t.left[m]] /\ h2[t.right[m]] = h[t.right[m]]
      BY <1>5, <1>6
    <2>2. CASE m = r
      BY <1>2, <1>3, <1>4, <1>6, <2>1, <2>2
    <2>3. CASE m # r
      <3>1. h2[m] = h[m] /\ (u.red[m] <=> t.red[m])
        BY <1>1, <1>3, <1>6, <2>3
      <3>. QED
        BY <1>4, <2>1, <3>1
    <2>. QED
      BY <2>2, <2>3
  <1>8. Tinted(u, u.red, h2)
    BY <1>3, <1>6, <1>7 DEF Tinted, SameLinks
  <1>9. Calm(u, NIL)
    <2>1. ASSUME NEW m \in U, u.red[m], t.parent[m] # NIL PROVE ~u.red[t.parent[m]]
      <3>1. t.parent[m] \in U
        BY <1>1, <2>1, TidyNode
      <3>. QED
        BY <1>1, <1>3, <2>1, <3>1
    <2>. QED
      BY <1>3, <2>1 DEF Calm, SameLinks
  <1>10. Sound(u, sub, h2)
    BY <1>1, <1>2, <1>3, <1>8, <1>9 DEF Sound, SameLinks, r
  <1>. QED
    BY <1>10 DEF u

(* The whole repair links no node from outside W, in any tree.             *)
LEMMA FixInsertHeld ==
  ASSUME NEW t \in Tree, NEW W \in SUBSET Node0, Held(t, W), NEW n \in W
  PROVE  Held(fixAfterInsert(t, n), W) /\ Same(t, fixAfterInsert(t, n))
  <1>1. PICK w : /\ Iterated(w, Turns, [tree |-> t, at |-> n], InsertStep, NNode)
                 /\ fixAfterInsert(t, n) = RootBlack(w[NNode].tree)
    BY InsertLoop
  <1>2. /\ w \in [0 .. NNode -> Turns] /\ w[0] = [tree |-> t, at |-> n]
        /\ \A i \in 1 .. NNode : w[i] = InsertStep[w[i - 1]]
    BY <1>1 DEF Iterated
  <1>. DEFINE T == {i \in 0 .. NNode : /\ Held(w[i].tree, W) /\ Same(t, w[i].tree)
                                       /\ w[i].at \in W}
  <1>3. 0 \in T
    BY <1>2, Nodes DEF Same
  <1>4. ASSUME NEW i \in 1 .. NNode, i - 1 \in T PROVE i \in T
    <2>1. w[i - 1] \in Turns /\ i \in 0 .. NNode
      BY <1>2, Nodes
    <2>2. w[i] = InsertTurn(w[i - 1])
      BY <1>2, <2>1 DEF InsertStep
    <2>3. Held(w[i - 1].tree, W) /\ Same(t, w[i - 1].tree) /\ w[i - 1].at \in W
      BY <1>4
    <2>4. Held(w[i].tree, W) /\ Same(w[i - 1].tree, w[i].tree) /\ w[i].at \in W
      BY <2>1, <2>2, <2>3, InsertTurnHeld
    <2>. QED
      BY <2>1, <2>3, <2>4 DEF Same
  <1>. HIDE DEF T
  <1>5. NNode \in T
    BY <1>3, <1>4, Nodes, Inductive
  <1>. DEFINE u == w[NNode].tree
  <1>6. Held(u, W) /\ Same(t, u)
    BY <1>5 DEF T
  <1>. HIDE DEF u
  <1>7. Held(RootBlack(u), W) /\ Same(u, RootBlack(u))
    <2>1. u.root \in Node0 /\ u \in Tree
      BY <1>6 DEF Same, Tree
    <2>. QED
      BY <1>6, <2>1, PaintHeld DEF RootBlack
  <1>. QED
    BY <1>1, <1>6, <1>7 DEF Same, u

(* The whole repair gives a sound tree, unless it turns a left child.      *)
LEMMA FixInsertSound ==
  ASSUME NEW t \in Tree, NEW n, NEW sub, NEW h, Mid(t, n, sub, h), ~fixAfterInsert(t, n).bent
  PROVE  \E sub2, h2 : Sound(fixAfterInsert(t, n), sub2, h2)
  <1>0. n \in Node0 /\ n \in t.used
    BY TidyNode DEF Mid
  <1>1. PICK w : /\ Iterated(w, Turns, [tree |-> t, at |-> n], InsertStep, NNode)
                 /\ fixAfterInsert(t, n) = RootBlack(w[NNode].tree)
    BY <1>0, InsertLoop
  <1>2. /\ w \in [0 .. NNode -> Turns] /\ w[0] = [tree |-> t, at |-> n]
        /\ \A i \in 1 .. NNode : w[i] = InsertStep[w[i - 1]]
    BY <1>1 DEF Iterated
  <1>. DEFINE Fine(s, i) == \E sub2, h2 : /\ Mid(s.tree, s.at, sub2, h2)
                                          /\ \/ Done(s.tree, s.at)
                                             \/ Cardinality(sub2[s.at]) > i
              T == {i \in 0 .. NNode : ~w[i].tree.bent => Fine(w[i], i)}
  <1>3. 0 \in T
    <2>1. Mid(w[0].tree, w[0].at, sub, h) /\ Cardinality(sub[w[0].at]) > 0
      <3>1. Cardinality(sub[n]) \in 1 .. NNode
        BY <1>0, TidyCount DEF Mid
      <3>. QED
        BY <1>2, <3>1, Nodes
    <2>. QED
      BY <2>1, Nodes
  <1>4. ASSUME NEW i \in 1 .. NNode, i - 1 \in T PROVE i \in T
    <2>. DEFINE s == w[i - 1]
                u == w[i]
    <2>1. s \in Turns /\ i \in 0 .. NNode /\ i - 1 \in Nat /\ i \in Nat
      BY <1>2, Nodes
    <2>2. u = InsertTurn(s)
      BY <1>2, <2>1 DEF InsertStep
    <2>3. ~s.tree.bent => Fine(s, i - 1)
      BY <1>4
    <2>. HIDE DEF s, u
    <2>4. SUFFICES ASSUME ~u.tree.bent PROVE Fine(u, i)
      BY <2>1 DEF u
    <2>5. ~s.tree.bent
      <3>1. Held(s.tree, Node0) /\ s.at \in Node0 /\ Node0 \in SUBSET Node0
        BY <2>1, Nodes DEF Held, Turns, Tree
      <3>. QED
        BY <2>1, <2>2, <2>4, <3>1, InsertTurnHeld DEF Same
    <2>6. PICK sub2, h2 : /\ Mid(s.tree, s.at, sub2, h2)
                          /\ Done(s.tree, s.at) \/ Cardinality(sub2[s.at]) > i - 1
      BY <2>3, <2>5
    <2>7. CASE Done(s.tree, s.at)
      <3>1. u = s
        BY <2>2, <2>7 DEF InsertTurn, Done
      <3>. QED
        BY <2>6, <2>7, <3>1
    <2>8. CASE ~Done(s.tree, s.at)
      <3>1. PICK sub3, h3 : /\ Mid(u.tree, u.at, sub3, h3)
                            /\ \/ Done(u.tree, u.at)
                               \/ Cardinality(sub3[u.at]) > Cardinality(sub2[s.at])
        BY <2>1, <2>2, <2>4, <2>6, <2>8, InsertTurnMid
      <3>2. Cardinality(sub2[s.at]) \in 1 .. NNode
        BY <2>6, TidyCount DEF Mid
      <3>3. Cardinality(sub3[u.at]) \in 1 .. NNode
        BY <3>1, TidyCount DEF Mid
      <3>4. Done(u.tree, u.at) \/ Cardinality(sub3[u.at]) > i
        BY <2>1, <2>6, <2>8, <3>1, <3>2, <3>3, Nodes
      <3>. QED
        BY <3>1, <3>4
    <2>. QED
      BY <2>7, <2>8
  <1>. HIDE DEF T
  <1>5. NNode \in T
    BY <1>3, <1>4, Nodes, Inductive
  <1>. DEFINE s == w[NNode]
  <1>6. ~s.tree.bent => Fine(s, NNode)
    BY <1>5 DEF T
  <1>7. ~s.tree.bent
    <2>1. s \in Turns
      BY <1>2, Nodes
    <2>. HIDE DEF s
    <2>2. s.tree \in Tree /\ s.tree.root \in Node0 /\ Held(s.tree, Node0) /\ Node0 \in SUBSET Node0
      BY <2>1, Nodes DEF Held, Turns, Tree
    <2>3. RootBlack(s.tree).bent = s.tree.bent
      BY <2>2, PaintHeld DEF RootBlack
    <2>. QED
      BY <1>1, <2>3 DEF s
  <1>. HIDE DEF s
  <1>8. PICK sub2, h2 : Mid(s.tree, s.at, sub2, h2)
                        /\ (Done(s.tree, s.at) \/ Cardinality(sub2[s.at]) > NNode)
    BY <1>6, <1>7
  <1>9. Done(s.tree, s.at)
    <2>1. Cardinality(sub2[s.at]) \in 1 .. NNode
      BY <1>8, TidyCount DEF Mid
    <2>. QED
      BY <1>8, <2>1, Nodes
  <1>. QED
    BY <1>1, <1>8, <1>9, RootBlackSound DEF s

(* Below a black parent there is nothing to repair.                        *)
LEMMA FixDone ==
  ASSUME NEW t \in Tree, NEW n \in Node0, Done(t, n)
  PROVE  fixAfterInsert(t, n) = RootBlack(t)
  <1>1. PICK w : /\ Iterated(w, Turns, [tree |-> t, at |-> n], InsertStep, NNode)
                 /\ fixAfterInsert(t, n) = RootBlack(w[NNode].tree)
    BY InsertLoop
  <1>. DEFINE s == [tree |-> t, at |-> n]
              T == {i \in 0 .. NNode : w[i] = s}
  <1>2. InsertTurn(s) = s /\ s \in Turns
    BY DEF InsertTurn, Done, Turns
  <1>3. /\ w[0] = s
        /\ \A i \in 1 .. NNode : w[i] = InsertStep[w[i - 1]]
    BY <1>1 DEF Iterated
  <1>. HIDE DEF s
  <1>4. 0 \in T
    BY <1>3, Nodes
  <1>5. ASSUME NEW i \in 1 .. NNode, i - 1 \in T PROVE i \in T
    <2>1. w[i - 1] = s /\ i \in 0 .. NNode
      BY <1>5, Nodes
    <2>2. w[i] = InsertStep[s]
      BY <1>3, <2>1
    <2>3. InsertStep[s] = s
      BY <1>2 DEF InsertStep
    <2>. QED
      BY <2>1, <2>2, <2>3
  <1>. HIDE DEF T
  <1>6. NNode \in T
    BY <1>4, <1>5, Nodes, Inductive
  <1>. QED
    BY <1>1, <1>6 DEF T, s

-----------------------------------------------------------------------------
(* The way down to a key.                                                  *)
Halts(t, k, n) == n = NIL \/ t.key[n] = k

Below(t, k) == [n \in Node0 |-> IF Halts(t, k, n) THEN n
                                ELSE IF k < t.key[n] THEN t.left[n] ELSE t.right[n]]

(* The way down is Below, iterated.                                        *)
LEMMA WayDefined ==
  ASSUME NEW t \in Tree, NEW k \in Nat
  PROVE  Iterated(Way(t, k), Node0, t.root, Below(t, k), NNode)
  <1>. DEFINE a == t.root
              G(n) == IF n = NIL \/ t.key[n] = k THEN n
                      ELSE IF k < t.key[n] THEN t.left[n] ELSE t.right[n]
              Raw(f) == [i \in 0 .. NNode |-> IF i = 0 THEN a ELSE G(f[i - 1])]
              w == Way(t, k)
  <1>1. w = CHOOSE f : f = Raw(f)
    BY DEF Way
  <1>2. NNode \in Nat /\ a \in Node0
    BY Nodes DEF Tree
  <1>3. Below(t, k) \in [Node0 -> Node0] /\ \A n \in Node0 : Below(t, k)[n] = G(n)
    BY DEF Below, Halts, Tree
  <1>. HIDE DEF G, a, w
  <1>4. PICK f : Iterated(f, Node0, a, Below(t, k), NNode)
    BY <1>2, <1>3, Iterates
  <1>5. f = Raw(f)
    BY <1>2, <1>3, <1>4 DEF Iterated
  <1>6. w = Raw(w)
    BY <1>1, <1>5
  <1>7. w = [i \in 0 .. NNode |-> w[i]] /\ w[0] = a /\ \A i \in 1 .. NNode : w[i] = G(w[i - 1])
    BY <1>2, <1>6
  <1>8. Iterated(w, Node0, a, Below(t, k), NNode)
    BY <1>2, <1>3, <1>7, Unfolds
  <1>. QED
    BY <1>8 DEF a, w

(* What holds of every node n on the way to k: the nodes with the key are  *)
(* below it, and it is itself on the side of k of every node above it.     *)
Toward(t, sub, k, n) ==
    /\ n \in t.used \cup {NIL}
    /\ \A x \in t.used : t.key[x] = k => x \in sub[n]
    /\ \A m \in t.used : /\ n \in sub[t.left[m]] => k < t.key[m]
                         /\ n \in sub[t.right[m]] => t.key[m] < k

(* A search starts on its way.                                             *)
LEMMA TowardRoot ==
  ASSUME NEW t, NEW sub, Tidy(t, sub), NEW k \in Nat
  PROVE  Toward(t, sub, k, t.root)
  <1>1. t.root \in t.used \cup {NIL} /\ sub[t.root] = t.used
    BY TidyRoot
  <1>2. ASSUME NEW m \in t.used
        PROVE  t.root \notin sub[t.left[m]] /\ t.root \notin sub[t.right[m]]
    <2>1. /\ m \notin sub[t.left[m]] /\ m \notin sub[t.right[m]]
          /\ t.left[m] \in t.used \cup {NIL} /\ t.right[m] \in t.used \cup {NIL}
      BY TidySub, TidyNode
    <2>2. \A y \in t.used : t.root \in sub[y] => t.used \subseteq sub[y]
      <3>1. \A y \in t.used : \A x \in sub[y] : sub[x] \subseteq sub[y]
        BY TidySub
      <3>. QED
        BY <1>1, <3>1
    <2>3. sub[NIL] = {}
      BY TidyRoot
    <2>. QED
      BY <2>1, <2>2, <2>3
  <1>. QED
    BY <1>1, <1>2 DEF Toward

(* A search stays on its way, and goes down.                               *)
LEMMA TowardSon ==
  ASSUME NEW t, NEW sub, Tidy(t, sub), NEW k \in Nat, NEW n, Toward(t, sub, k, n), ~Halts(t, k, n),
         NEW s, s = Below(t, k)[n]
  PROVE  /\ Toward(t, sub, k, s)
         /\ s # NIL => s \in t.used /\ t.parent[s] = n
         /\ (k < t.key[n] /\ s = t.left[n]) \/ (t.key[n] < k /\ s = t.right[n])
  <1>1. n \in t.used /\ n # NIL /\ t.key[n] # k /\ n \in Node0 /\ t.key[n] \in Nat
    <2>1. n \in t.used /\ n # NIL /\ t.key[n] # k
      BY DEF Toward, Halts
    <2>2. n \in Node0
      BY <2>1, TidyNode
    <2>. QED
      BY <2>1, <2>2 DEF Tidy, Tree
  <1>2. (k < t.key[n] /\ s = t.left[n]) \/ (t.key[n] < k /\ s = t.right[n])
    BY <1>1 DEF Below, Halts
  <1>3. s \in t.used \cup {NIL} /\ (s # NIL => t.parent[s] = n)
    BY <1>1, <1>2, TidyNode
  <1>4. ASSUME NEW x \in t.used, t.key[x] = k PROVE x \in sub[s]
    <2>1. x \in sub[n] /\ x # n
      BY <1>1, <1>4 DEF Toward
    <2>2. x \in sub[t.left[n]] \/ x \in sub[t.right[n]]
      BY <1>1, <2>1, TidySub
    <2>3. /\ x \in sub[t.left[n]] => t.key[x] < t.key[n]
          /\ x \in sub[t.right[n]] => t.key[n] < t.key[x]
      BY <1>1, TidySub
    <2>. QED
      BY <1>1, <1>2, <1>4, <2>2, <2>3
  <1>5. ASSUME NEW m \in t.used, NEW b \in {t.left[m], t.right[m]}, s \in sub[b]
        PROVE  (m = n /\ b = s) \/ n \in sub[b]
    <2>1. b \in t.used /\ s # NIL /\ t.parent[b] = m
      <3>1. b \in t.used \cup {NIL} /\ (b # NIL => t.parent[b] = m)
        BY TidyNode
      <3>2. b # NIL
        BY <1>5, TidyRoot
      <3>3. s # NIL
        BY <1>5, <3>1, <3>2, TidySub, TidyNode
      <3>. QED
        BY <3>1, <3>2, <3>3
    <2>2. CASE b = s
      BY <1>3, <2>1, <2>2
    <2>3. CASE b # s
      <3>1. t.parent[s] \in sub[b]
        BY <1>5, <2>1, <2>3 DEF Tidy, Shape, Nested
      <3>. QED
        BY <1>3, <2>1, <3>1
    <2>. QED
      BY <2>2, <2>3
  <1>6. ASSUME NEW m \in t.used
        PROVE  /\ s \in sub[t.left[m]] => k < t.key[m]
               /\ s \in sub[t.right[m]] => t.key[m] < k
    <2>1. /\ n \in sub[t.left[m]] => k < t.key[m]
          /\ n \in sub[t.right[m]] => t.key[m] < k
      BY DEF Toward
    <2>2. CASE m = n
      <3>1. s = t.left[m] => s \notin sub[t.right[m]]
        BY <1>1, <1>5, <2>2, TidySub, TwoSons, TidyNode
      <3>2. s = t.right[m] => s \notin sub[t.left[m]]
        BY <1>1, <1>5, <2>2, TidySub, TwoSons, TidyNode
      <3>. QED
        BY <1>2, <2>2, <3>1, <3>2
    <2>3. CASE m # n
      BY <1>5, <2>1, <2>3
    <2>. QED
      BY <2>2, <2>3
  <1>. QED
    BY <1>2, <1>3, <1>4, <1>6 DEF Toward

(* NNode turns are enough: every turn leaves fewer nodes below.            *)
LEMMA WayRuns ==
  ASSUME NEW t, NEW sub, Tidy(t, sub), NEW k \in Nat
  PROVE  \A i \in 0 .. NNode :
            /\ Toward(t, sub, k, Way(t, k)[i])
            /\ Halts(t, k, Way(t, k)[i]) \/ Cardinality(sub[Way(t, k)[i]]) <= NNode - i
  <1>. DEFINE w == Way(t, k)
              Fine(n, i) == Toward(t, sub, k, n)
                            /\ (Halts(t, k, n) \/ Cardinality(sub[n]) <= NNode - i)
              T == {i \in 0 .. NNode : Fine(w[i], i)}
  <1>1. t \in Tree /\ NNode \in Nat
    BY Nodes DEF Tidy
  <1>2. w \in [0 .. NNode -> Node0] /\ w[0] = t.root
        /\ \A i \in 1 .. NNode : w[i] = Below(t, k)[w[i - 1]]
    BY <1>1, WayDefined DEF Iterated
  <1>. HIDE DEF w
  <1>3. 0 \in T
    <2>1. Toward(t, sub, k, w[0])
      BY <1>2, TowardRoot
    <2>2. w[0] = NIL \/ Cardinality(sub[w[0]]) <= NNode
      <3>1. t.root # NIL => t.root \in t.used
        BY TidyRoot
      <3>2. t.root # NIL => Cardinality(sub[t.root]) \in 1 .. NNode
        BY <3>1, TidyCount
      <3>. QED
        BY <1>1, <1>2, <3>2
    <2>. QED
      BY <1>1, <2>1, <2>2 DEF Halts
  <1>4. ASSUME NEW i \in 1 .. NNode, i - 1 \in T PROVE i \in T
    <2>. DEFINE n == w[i - 1]
                s == w[i]
    <2>1. s = Below(t, k)[n] /\ i \in 0 .. NNode /\ n \in Node0
      BY <1>1, <1>2
    <2>2. Fine(n, i - 1)
      BY <1>4
    <2>. HIDE DEF n, s
    <2>3. CASE Halts(t, k, n)
      <3>1. s = n
        BY <2>1, <2>3 DEF Below
      <3>2. Fine(s, i)
        BY <2>2, <2>3, <3>1
      <3>. QED
        BY <2>1, <3>2 DEF s
    <2>4. CASE ~Halts(t, k, n)
      <3>1. /\ Toward(t, sub, k, s) /\ (s # NIL => s \in t.used /\ t.parent[s] = n)
        BY <2>1, <2>2, <2>4, TowardSon
      <3>2. n # NIL /\ n \in t.used
        BY <2>2, <2>4 DEF Halts, Toward
      <3>3. s # NIL => Cardinality(sub[s]) < Cardinality(sub[n])
        <4>1. SUFFICES ASSUME s # NIL PROVE Cardinality(sub[s]) < Cardinality(sub[n])
          OBVIOUS
        <4>2. sub[s] \subseteq sub[n] /\ n \notin sub[s] /\ n \in sub[n]
          BY <3>1, <3>2, <4>1, TidyUp, TidyNode
        <4>3. IsFiniteSet(sub[n])
          BY <3>2, TidyCount
        <4>4. sub[s] # sub[n]
          BY <4>2
        <4>. QED
          BY <4>2, <4>3, <4>4, FS_Subset, FS_CardinalityType
      <3>4. s # NIL => Cardinality(sub[s]) \in 1 .. NNode
        BY <3>1, TidyCount
      <3>5. Cardinality(sub[n]) \in 1 .. NNode /\ Cardinality(sub[n]) <= NNode - (i - 1)
        BY <2>2, <2>4, <3>2, TidyCount
      <3>6. s # NIL => Cardinality(sub[s]) <= NNode - i
        BY <1>1, <3>3, <3>4, <3>5
      <3>7. Fine(s, i)
        BY <3>1, <3>6 DEF Halts
      <3>. QED
        BY <2>1, <3>7 DEF s
    <2>. QED
      BY <2>3, <2>4
  <1>. HIDE DEF T
  <1>5. \A i \in 0 .. NNode : i \in T
    BY <1>1, <1>3, <1>4, Inductive
  <1>. QED
    BY <1>5 DEF T, w

(* A search finds the node with the key, and only that.                    *)
LEMMA LookupIs ==
  ASSUME NEW t, NEW sub, Tidy(t, sub), NEW k \in Nat
  PROVE  /\ Lookup(t, k) # NIL => Lookup(t, k) \in t.used /\ t.key[Lookup(t, k)] = k
         /\ \A x \in t.used : t.key[x] = k => Lookup(t, k) = x
         /\ Lookup(t, k) \in t.used \cup {NIL}
  <1>. DEFINE n == Lookup(t, k)
  <1>1. NNode \in Nat /\ NNode \in 0 .. NNode
    BY Nodes
  <1>2. Toward(t, sub, k, n) /\ (Halts(t, k, n) \/ Cardinality(sub[n]) <= NNode - NNode)
    BY <1>1, WayRuns DEF Lookup
  <1>. HIDE DEF n
  <1>3. n \in t.used \cup {NIL}
    BY <1>2 DEF Toward
  <1>4. n # NIL => n \in t.used /\ t.key[n] = k
    <2>1. SUFFICES ASSUME n # NIL PROVE t.key[n] = k
      BY <1>3
    <2>2. Cardinality(sub[n]) \in 1 .. NNode
      BY <1>3, <2>1, TidyCount
    <2>3. Halts(t, k, n)
      BY <1>1, <1>2, <2>2
    <2>. QED
      BY <2>1, <2>3 DEF Halts
  <1>5. ASSUME NEW x \in t.used, t.key[x] = k PROVE n = x
    <2>1. x \in sub[n]
      BY <1>2, <1>5 DEF Toward
    <2>2. n # NIL
      BY <2>1, TidyRoot
    <2>3. n \in t.used /\ t.key[n] = k
      BY <1>4, <2>2
    <2>4. t.key[n] \in Nat
      BY <2>3, TidyNode DEF Tidy, Tree
    <2>5. x \notin sub[t.left[n]] /\ x \notin sub[t.right[n]]
      BY <1>5, <2>3, <2>4, TidySub
    <2>. QED
      BY <2>1, <2>3, <2>5, TidySub
  <1>. QED
    BY <1>3, <1>4, <1>5 DEF n

(* Where a new key is hung: nowhere in an empty tree, otherwise at a node  *)
(* without a child on the key's side.                                      *)
Place(t, sub, k, p) ==
    \/ t.root = NIL /\ p = NIL
    \/ /\ p \in t.used /\ Toward(t, sub, k, p) /\ t.key[p] # k
       /\ (k < t.key[p] /\ t.left[p] = NIL) \/ (t.key[p] < k /\ t.right[p] = NIL)

(* The last node before NIL is where the key belongs.                      *)
LEMMA LastIs ==
  ASSUME NEW t, NEW sub, Tidy(t, sub), NEW k \in Nat, Lookup(t, k) = NIL
  PROVE  Place(t, sub, k, Last(t, k))
  <1>. DEFINE w == Way(t, k)
              path == {i \in 0 .. NNode : w[i] # NIL}
  <1>1. t \in Tree /\ NNode \in Nat
    BY Nodes DEF Tidy
  <1>2. w \in [0 .. NNode -> Node0] /\ w[0] = t.root
        /\ \A i \in 1 .. NNode : w[i] = Below(t, k)[w[i - 1]]
    BY <1>1, WayDefined DEF Iterated
  <1>3. w[NNode] = NIL
    BY DEF Lookup
  <1>4. \A i \in 0 .. NNode : Toward(t, sub, k, w[i])
    BY WayRuns
  <1>5. Last(t, k) = IF path = {} THEN NIL
                     ELSE w[CHOOSE i \in path : \A j \in path : j <= i]
    BY DEF Last
  <1>. HIDE DEF w
  <1>6. CASE path = {}
    <2>1. w[0] = NIL
      BY <1>1, <1>6
    <2>. QED
      BY <1>2, <1>5, <1>6, <2>1 DEF Place
  <1>7. CASE path # {}
    <2>. DEFINE Rest == {NNode - i : i \in path}
    <2>1. \E i \in path : \A j \in path : j <= i
      <3>1. Rest \subseteq Nat /\ Rest # {}
        BY <1>1, <1>7
      <3>2. PICK r \in Rest : \A q \in Rest : r <= q
        <4>. HIDE DEF Rest
        <4>. QED
          BY <3>1, LeastNumber
      <3>3. PICK i \in path : r = NNode - i
        BY <3>2
      <3>4. ASSUME NEW j \in path PROVE j <= i
        <4>1. NNode - j \in Rest
          OBVIOUS
        <4>2. NNode - i <= NNode - j
          BY <3>2, <3>3, <4>1
        <4>. QED
          BY <1>1, <4>2
      <3>. QED
        BY <3>4
    <2>2. PICK i \in path : (\A j \in path : j <= i) /\ Last(t, k) = w[i]
      <3>. HIDE DEF path
      <3>. QED
        BY <1>5, <1>7, <2>1
    <2>3. i \in 0 .. NNode - 1 /\ i + 1 \in 1 .. NNode /\ i + 1 \in 0 .. NNode /\ ~(i + 1 <= i)
      <3>1. i # NNode /\ i \in 0 .. NNode
        BY <1>3
      <3>. QED
        BY <1>1, <3>1
    <2>. DEFINE p == w[i]
    <2>4. p # NIL /\ w[i + 1] = NIL
      BY <2>2, <2>3
    <2>5. w[i + 1] = Below(t, k)[p]
      BY <1>2, <2>3
    <2>6. Toward(t, sub, k, p) /\ p \in Node0
      BY <1>2, <1>4, <2>3
    <2>. HIDE DEF p
    <2>7. ~Halts(t, k, p)
      BY <2>4, <2>5, <2>6 DEF Below
    <2>8. (k < t.key[p] /\ t.left[p] = NIL) \/ (t.key[p] < k /\ t.right[p] = NIL)
      BY <2>4, <2>5, <2>6, <2>7, TowardSon
    <2>9. p \in t.used /\ t.key[p] # k
      BY <2>6, <2>7 DEF Toward, Halts
    <2>. QED
      BY <2>2, <2>6, <2>8, <2>9 DEF p, Place
  <1>. QED
    BY <1>6, <1>7

-----------------------------------------------------------------------------
(* What the root leads to.                                                 *)
Grown(t, R) == R \cup ((UNION {{t.left[n], t.right[n]} : n \in R}) \ {NIL})
Growth(t)   == [R \in SUBSET Node |-> Grown(t, R)]

(* A step of FOREACH_TREE does not leave W.                                *)
LEMMA GrownWithin ==
  ASSUME NEW t, NEW W, NEW R \in SUBSET (W \ {NIL}),
         \A n \in R : t.left[n] \in W /\ t.right[n] \in W
  PROVE  Grown(t, R) \subseteq W \ {NIL}
  <1>1. ASSUME NEW x \in Grown(t, R) PROVE x \in W \ {NIL}
    <2>1. x \in R \/ (x # NIL /\ \E n \in R : x \in {t.left[n], t.right[n]})
      BY DEF Grown
    <2>. QED
      BY <2>1
  <1>. QED
    BY <1>1

(* FOREACH_TREE is that step, iterated.                                    *)
LEMMA ReachedDefined ==
  ASSUME NEW t \in Tree
  PROVE  \E w : Iterated(w, SUBSET Node, {t.root} \ {NIL}, Growth(t), NNode)
                /\ Reached(t) = w[NNode]
  <1>. DEFINE a == {t.root} \ {NIL}
              G(R) == R \cup ((UNION {{t.left[n], t.right[n]} : n \in R}) \ {NIL})
              Raw(f) == [i \in 0 .. NNode |-> IF i = 0 THEN a ELSE G(f[i - 1])]
              w == CHOOSE f : f = Raw(f)
  <1>1. Reached(t) = w[NNode]
    BY DEF Reached
  <1>2. NNode \in Nat /\ a \in SUBSET Node
    BY Nodes DEF Tree
  <1>3. Growth(t) \in [SUBSET Node -> SUBSET Node] /\ \A R \in SUBSET Node : Growth(t)[R] = G(R)
    <2>1. ASSUME NEW R \in SUBSET Node PROVE G(R) \in SUBSET Node
      <3>1. \A n \in R : t.left[n] \in Node0 /\ t.right[n] \in Node0
        BY Nodes DEF Tree
      <3>2. R \in SUBSET (Node0 \ {NIL}) /\ Node0 \ {NIL} \subseteq Node
        BY Nodes
      <3>3. Grown(t, R) \subseteq Node0 \ {NIL}
        BY <3>1, <3>2, GrownWithin
      <3>. QED
        BY <3>2, <3>3 DEF Grown
    <2>. QED
      BY <2>1 DEF Growth, Grown
  <1>. HIDE DEF G, a
  <1>4. PICK f : Iterated(f, SUBSET Node, a, Growth(t), NNode)
    BY <1>2, <1>3, Iterates
  <1>5. f = Raw(f)
    BY <1>2, <1>3, <1>4 DEF Iterated
  <1>6. w = Raw(w)
    BY <1>5
  <1>. HIDE DEF w
  <1>7. w = [i \in 0 .. NNode |-> w[i]] /\ w[0] = a /\ \A i \in 1 .. NNode : w[i] = G(w[i - 1])
    BY <1>2, <1>6
  <1>8. Iterated(w, SUBSET Node, a, Growth(t), NNode)
    BY <1>2, <1>3, <1>7, Unfolds
  <1>. QED
    BY <1>1, <1>8 DEF a

(* What the root leads to lies in W.                                       *)
LEMMA ReachedHeld ==
  ASSUME NEW t \in Tree, NEW W \in SUBSET Node0, Held(t, W)
  PROVE  Reached(t) \subseteq W \ {NIL}
  <1>1. PICK w : Iterated(w, SUBSET Node, {t.root} \ {NIL}, Growth(t), NNode)
                 /\ Reached(t) = w[NNode]
    BY ReachedDefined
  <1>. DEFINE T == {i \in 0 .. NNode : w[i] \subseteq W \ {NIL}}
  <1>2. 0 \in T /\ NNode \in Nat
    BY <1>1, Nodes DEF Iterated, Held
  <1>3. ASSUME NEW i \in 1 .. NNode, i - 1 \in T PROVE i \in T
    <2>. DEFINE R == w[i - 1]
                S == w[i]
    <2>1. R \in SUBSET Node /\ R \subseteq W \ {NIL} /\ i \in 0 .. NNode
      BY <1>1, <1>2, <1>3 DEF Iterated
    <2>2. S = Growth(t)[R]
      BY <1>1 DEF Iterated
    <2>. HIDE DEF R, S
    <2>3. S = Grown(t, R)
      BY <2>1, <2>2 DEF Growth
    <2>4. S \subseteq W \ {NIL}
      <3>1. \A n \in R : t.left[n] \in W /\ t.right[n] \in W
        BY <2>1 DEF Held
      <3>. QED
        BY <2>1, <2>3, <3>1, GrownWithin
    <2>. QED
      BY <2>1, <2>4 DEF S
  <1>. HIDE DEF T
  <1>4. NNode \in T
    BY <1>2, <1>3, Inductive
  <1>. QED
    BY <1>1, <1>4 DEF T

(* In a search tree nothing leads to a node that is not in use.            *)
LEMMA TidyHeld ==
  ASSUME NEW t, NEW sub, Tidy(t, sub)
  PROVE  Held(t, t.used \cup {NIL}) /\ t.used \cup {NIL} \in SUBSET Node0
  <1>1. /\ t.root \in t.used \cup {NIL} /\ t.used \subseteq Node
        /\ t.left[NIL] = NIL /\ t.right[NIL] = NIL /\ t.parent[NIL] = NIL
    BY TidyRoot DEF Tidy
  <1>2. \A m \in t.used : /\ t.left[m] \in t.used \cup {NIL} /\ t.right[m] \in t.used \cup {NIL}
                          /\ t.parent[m] \in t.used \cup {NIL}
    BY TidyNode
  <1>. QED
    BY <1>1, <1>2, Nodes DEF Held

(* In a tidy tree the root leads to every node that is in use: a search    *)
(* for its key ends there.                                                 *)
LEMMA ReachedTidy ==
  ASSUME NEW t, NEW sub, Tidy(t, sub)
  PROVE  Reached(t) = t.used
  <1>1. t \in Tree /\ NNode \in Nat
    BY Nodes DEF Tidy
  <1>2. Reached(t) \subseteq t.used
    <2>1. Reached(t) \subseteq (t.used \cup {NIL}) \ {NIL}
      BY <1>1, TidyHeld, ReachedHeld
    <2>. QED
      BY <2>1
  <1>3. PICK r : Iterated(r, SUBSET Node, {t.root} \ {NIL}, Growth(t), NNode)
                 /\ Reached(t) = r[NNode]
    BY <1>1, ReachedDefined
  <1>4. ASSUME NEW x \in t.used PROVE x \in Reached(t)
    <2>. DEFINE k == t.key[x]
                w == Way(t, k)
                T == {i \in 0 .. NNode : w[i] \in r[i] \cup {NIL}}
    <2>1. k \in Nat /\ x # NIL
      BY <1>1, TidyNode DEF Tree
    <2>2. Lookup(t, k) = x
      BY <2>1, LookupIs
    <2>. HIDE DEF k
    <2>3. Iterated(w, Node0, t.root, Below(t, k), NNode)
      BY <1>1, <2>1, WayDefined
    <2>. HIDE DEF w
    <2>4. 0 \in T
      BY <1>1, <1>3, <2>3 DEF Iterated
    <2>5. ASSUME NEW i \in 1 .. NNode, i - 1 \in T PROVE i \in T
      <3>. DEFINE n == w[i - 1]
                  s == w[i]
                  R == r[i - 1]
                  S == r[i]
      <3>1. i \in 0 .. NNode /\ n \in Node0 /\ n \in R \cup {NIL} /\ R \in SUBSET Node
        BY <1>1, <1>3, <2>3, <2>5 DEF Iterated
      <3>2. s = Below(t, k)[n] /\ S = Growth(t)[R]
        BY <1>3, <2>3 DEF Iterated
      <3>. HIDE DEF n, s, R, S
      <3>3. S = Grown(t, R)
        BY <3>1, <3>2 DEF Growth
      <3>4. s \in {n, t.left[n], t.right[n]}
        BY <3>1, <3>2 DEF Below
      <3>5. n = NIL => s = NIL
        BY <3>1, <3>2 DEF Below, Halts
      <3>6. s \in S \cup {NIL}
        BY <3>1, <3>3, <3>4, <3>5 DEF Grown
      <3>. QED
        BY <3>1, <3>6 DEF s, S
    <2>. HIDE DEF T
    <2>6. NNode \in T
      BY <1>1, <2>4, <2>5, Inductive
    <2>7. w[NNode] = x
      BY <2>2 DEF w, Lookup
    <2>. QED
      BY <1>3, <2>1, <2>6, <2>7 DEF T
  <1>. QED
    BY <1>2, <1>4

-----------------------------------------------------------------------------
(* A new node n, with key k, below p.                                      *)
Hanging(t, u, k, n, p) ==
    /\ u \in Tree
    /\ u.root = IF p = NIL THEN n ELSE t.root
    /\ u.total = t.total + 1 /\ u.used = t.used \cup {n} /\ u.bent = t.bent
    /\ \A m \in Node0 :
           /\ u.key[m] = IF m = n THEN k ELSE t.key[m]
           /\ u.red[m] <=> m = n \/ t.red[m]
           /\ u.parent[m] = IF m = n THEN p ELSE t.parent[m]
           /\ u.left[m] = IF m = n THEN NIL
                          ELSE IF m = p /\ p # NIL /\ k < t.key[p] THEN n ELSE t.left[m]
           /\ u.right[m] = IF m = n THEN NIL
                           ELSE IF m = p /\ p # NIL /\ k > t.key[p] THEN n ELSE t.right[m]

(* The types after a node is hung in.                                      *)
LEMMA HungTree ==
  ASSUME NEW t \in Tree, NEW k \in Nat, NEW n \in Node, NEW p \in Node0
  PROVE  Hung(t, k, n, p) \in Tree
  <1>. DEFINE t1 == [t EXCEPT !.used = t.used \cup {n}]
              t2 == [t1 EXCEPT !.total = t.total + 1]
              t3 == [t2 EXCEPT !.key[n] = k]
              t4 == [t3 EXCEPT !.red[n] = TRUE]
              t5 == [t4 EXCEPT !.left[n] = NIL]
              t6 == [t5 EXCEPT !.right[n] = NIL]
              t7 == [t6 EXCEPT !.parent[n] = p]
              t8 == [t7 EXCEPT !.root = IF p = NIL THEN n ELSE t.root]
              t9 == [t8 EXCEPT !.left[p] = IF p # NIL /\ k < t.key[p] THEN n ELSE t.left[p]]
              t10 == [t9 EXCEPT !.right[p] = IF p # NIL /\ k > t.key[p] THEN n ELSE t.right[p]]
  <1>0. /\ t.root \in Node0 /\ t.left[p] \in Node0 /\ t.right[p] \in Node0
        /\ t.total + 1 \in Nat /\ t.used \cup {n} \in SUBSET Node /\ n \in Node0 /\ NIL \in Node0
    BY Nodes DEF Tree
  <1>1. t1 \in Tree
    BY <1>0 DEF Tree
  <1>. HIDE DEF t1
  <1>2. t2 \in Tree
    BY <1>0, <1>1 DEF Tree
  <1>. HIDE DEF t2
  <1>3. t3 \in Tree
    BY <1>0, <1>2 DEF Tree
  <1>. HIDE DEF t3
  <1>4. t4 \in Tree
    BY <1>0, <1>3 DEF Tree
  <1>. HIDE DEF t4
  <1>5. t5 \in Tree
    BY <1>0, <1>4, SetIs
  <1>. HIDE DEF t5
  <1>6. t6 \in Tree
    BY <1>0, <1>5, SetIs
  <1>. HIDE DEF t6
  <1>7. t7 \in Tree
    BY <1>0, <1>6, SetIs
  <1>. HIDE DEF t7
  <1>8. t8 \in Tree
    BY <1>0, <1>7, SetIs
  <1>. HIDE DEF t8
  <1>9. t9 \in Tree
    BY <1>0, <1>8, SetIs
  <1>. HIDE DEF t9
  <1>10. t10 \in Tree
    BY <1>0, <1>9, SetIs
  <1>11. Hung(t, k, n, p) = t10
    BY DEF Hung, t1, t2, t3, t4, t5, t6, t7, t8, t9
  <1>. QED
    BY <1>10, <1>11

(* Which fields change when a node is hung in.                             *)
LEMMA HungIs ==
  ASSUME NEW t \in Tree, NEW k \in Nat, NEW n \in Node, NEW p \in Node0, p # n
  PROVE  Hanging(t, Hung(t, k, n, p), k, n, p)
  <1>. DEFINE u == Hung(t, k, n, p)
              less == p # NIL /\ k < t.key[p]
              more == p # NIL /\ k > t.key[p]
              key2 == [t.key EXCEPT ![n] = k]
  <1>1. /\ n \in Node0 /\ NIL \in Node0 /\ n # NIL
        /\ t.left \in [Node0 -> Node0] /\ t.right \in [Node0 -> Node0]
        /\ t.parent \in [Node0 -> Node0] /\ t.red \in [Node0 -> BOOLEAN] /\ t.key \in [Node0 -> Nat]
        /\ t.root \in Node0 /\ t.total \in Nat /\ t.used \subseteq Node /\ t.bent \in BOOLEAN
    BY Nodes DEF Tree
  <1>2. u.key = [t.key EXCEPT ![n] = k] /\ u.red = [t.red EXCEPT ![n] = TRUE]
    BY DEF Hung, Tree
  <1>3. /\ u.parent = [t.parent EXCEPT ![n] = p]
        /\ u.root = IF p = NIL THEN n ELSE t.root
        /\ u.total = t.total + 1 /\ u.used = t.used \cup {n} /\ u.bent = t.bent
    BY DEF Hung, Tree
  <1>4. u.left = [[t.left EXCEPT ![n] = NIL] EXCEPT ![p] = IF less THEN n ELSE @]
    BY DEF Hung, Tree
  <1>5. u.right = [[t.right EXCEPT ![n] = NIL] EXCEPT ![p] = IF more THEN n ELSE @]
    BY DEF Hung, Tree
  <1>. HIDE DEF u, less, more
  <1>7. u.left \in [Node0 -> Node0]
        /\ \A m \in Node0 : u.left[m] = IF m = n THEN NIL ELSE IF m = p /\ less THEN n ELSE t.left[m]
    BY <1>1, <1>4
  <1>8. u.right \in [Node0 -> Node0]
        /\ \A m \in Node0 : u.right[m] = IF m = n THEN NIL ELSE IF m = p /\ more THEN n ELSE t.right[m]
    BY <1>1, <1>5
  <1>9. u.parent \in [Node0 -> Node0]
        /\ \A m \in Node0 : u.parent[m] = IF m = n THEN p ELSE t.parent[m]
    BY <1>1, <1>3
  <1>10. u.red \in [Node0 -> BOOLEAN] /\ \A m \in Node0 : u.red[m] <=> m = n \/ t.red[m]
    BY <1>1, <1>2
  <1>11. u.key \in [Node0 -> Nat] /\ \A m \in Node0 : u.key[m] = IF m = n THEN k ELSE t.key[m]
    BY <1>1, <1>2
  <1>13. u \in Tree
    BY HungTree DEF u
  <1>. QED
    BY <1>3, <1>7, <1>8, <1>9, <1>10, <1>11, <1>13 DEF Hanging, u, less, more

(* The shape of the tree with n below p, on the near side.                 *)
Hooked(near, far, up, near2, far2, up2, U, w, w2, sub, n, p) ==
    /\ near2 \in [Node0 -> Node0] /\ far2 \in [Node0 -> Node0] /\ up2 \in [Node0 -> Node0]
    /\ w2 \in [Node0 -> Int]
    /\ near2[n] = NIL /\ far2[n] = NIL /\ up2[n] = p
    /\ \A m \in U : /\ near2[m] = IF m = p THEN n ELSE near[m]
                    /\ far2[m] = far[m] /\ up2[m] = up[m] /\ w2[m] = w[m]
                    /\ p \in sub[near[m]] => w2[n] < w2[m]
                    /\ p \in sub[far[m]] => w2[m] < w2[n]
    /\ w2[n] < w2[p]

(* A leaf with the right key keeps the search tree.                        *)
LEMMA HookedShape ==
  ASSUME NEW near, NEW far, NEW up, NEW root, NEW U, NEW sub, NEW w,
         Shape(near, far, up, root, U, sub, w),
         NEW near2, NEW far2, NEW up2, NEW w2, NEW n \in Node \ U, NEW p \in U, near[p] = NIL,
         Hooked(near, far, up, near2, far2, up2, U, w, w2, sub, n, p)
  PROVE  \E sub2 : Shape(near2, far2, up2, root, U \cup {n}, sub2, w2)
  <1>. DEFINE V == U \cup {n}
              sub2 == [m \in Node0 |-> IF m = n THEN {n}
                                       ELSE IF m \in U /\ p \in sub[m] THEN sub[m] \cup {n}
                                       ELSE IF m \in U THEN sub[m] ELSE {}]
  <1>1. /\ U \subseteq Node /\ sub \in [Node0 -> SUBSET U] /\ w \in [Node0 -> Int]
        /\ Linked(near, far, up, root, U) /\ Nested(near, far, up, root, U, sub)
        /\ Ordered(near, far, U, sub, w)
    BY DEF Shape
  <1>2. /\ n \in Node0 /\ n # NIL /\ n \notin U /\ NIL \notin U /\ U \subseteq Node0 /\ NIL \in Node0
        /\ p # NIL /\ p # n /\ n \in V /\ p \in V /\ V \subseteq Node
    BY <1>1, Nodes
  <1>3. /\ near2 \in [Node0 -> Node0] /\ far2 \in [Node0 -> Node0] /\ up2 \in [Node0 -> Node0]
        /\ w2 \in [Node0 -> Int]
        /\ near2[n] = NIL /\ far2[n] = NIL /\ up2[n] = p /\ near2[p] = n /\ w2[n] < w2[p]
        /\ \A m \in U : far2[m] = far[m] /\ up2[m] = up[m] /\ w2[m] = w[m]
        /\ \A m \in U \ {p} : near2[m] = near[m]
    BY DEF Hooked
  <1>4. \A m \in U : /\ p \in sub[near[m]] => w2[n] < w2[m]
                     /\ p \in sub[far[m]] => w2[m] < w2[n]
    BY DEF Hooked
  <1>5. root \in U /\ root # n /\ root # NIL
    <2>1. root \in U \cup {NIL} /\ sub[root] = U /\ sub[NIL] = {}
      BY <1>1 DEF Linked, Nested
    <2>. QED
      BY <1>2, <2>1
  <1>6. \A m \in U : near[m] \in U \cup {NIL} /\ far[m] \in U \cup {NIL} /\ up[m] \in U \cup {NIL}
    BY <1>1 DEF Linked
  <1>10. Linked(near2, far2, up2, root, V)
    <2>1. ASSUME NEW m \in U
          PROVE  /\ near2[m] \in V \cup {NIL} /\ far2[m] \in V \cup {NIL} /\ up2[m] \in V \cup {NIL}
                 /\ near2[m] # NIL => up2[near2[m]] = m
                 /\ far2[m] # NIL => up2[far2[m]] = m
                 /\ up2[m] = NIL => m = root
                 /\ up2[m] # NIL => m \in {near2[up2[m]], far2[up2[m]]}
      <3>1. /\ near[m] # NIL => up[near[m]] = m
            /\ far[m] # NIL => up[far[m]] = m
            /\ up[m] = NIL => m = root
            /\ up[m] # NIL => m \in {near[up[m]], far[up[m]]}
        BY <1>1 DEF Linked
      <3>2. /\ near2[m] \in V \cup {NIL} /\ far2[m] \in V \cup {NIL} /\ up2[m] \in V \cup {NIL}
        BY <1>2, <1>3, <1>6
      <3>3. near2[m] # NIL => up2[near2[m]] = m
        BY <1>2, <1>3, <1>6, <3>1
      <3>4. far2[m] # NIL => up2[far2[m]] = m
        BY <1>2, <1>3, <1>6, <3>1
      <3>5. /\ up2[m] = NIL => m = root
            /\ up2[m] # NIL => m \in {near2[up2[m]], far2[up2[m]]}
        BY <1>2, <1>3, <1>6, <3>1
      <3>. QED
        BY <3>2, <3>3, <3>4, <3>5
    <2>2. up2[root] = NIL
      BY <1>1, <1>3, <1>5 DEF Linked
    <2>. HIDE DEF V
    <2>3. \A m \in V : m \in U \/ m = n
      BY DEF V
    <2>4. U \subseteq V
      BY DEF V
    <2>. QED
      BY <1>2, <1>3, <1>5, <2>1, <2>2, <2>3, <2>4 DEF Linked
  <1>11. /\ sub2 \in [Node0 -> SUBSET V] /\ sub2[n] = {n} /\ sub2[NIL] = {}
         /\ \A m \in U : p \in sub[m] => sub2[m] = sub[m] \cup {n}
         /\ \A m \in U : p \notin sub[m] => sub2[m] = sub[m]
    BY <1>1, <1>2
  <1>. HIDE DEF sub2
  <1>12. /\ sub[NIL] = {} /\ sub[root] = U /\ \A m \in U : m \in sub[m]
         /\ \A m \in U : sub[m] = {m} \cup sub[near[m]] \cup sub[far[m]]
         /\ \A m \in U : \A x \in sub[m] : sub[x] \subseteq sub[m] /\ (x # m => up[x] \in sub[m])
    BY <1>1 DEF Nested
  <1>13. p \notin sub[far[p]]
    <2>1. \A x \in sub[far[p]] : w[p] < w[x]
      BY <1>1 DEF Ordered
    <2>2. w[p] \in Int
      BY <1>1, <1>2
    <2>. QED
      BY <2>1, <2>2
  <1>14. ASSUME NEW m \in U PROVE sub2[m] = {m} \cup sub2[near2[m]] \cup sub2[far2[m]]
    <2>1. CASE m = p
      <3>1. sub2[far[p]] = sub[far[p]]
        BY <1>6, <1>11, <1>12, <1>13
      <3>2. sub2[p] = sub[p] \cup {n} /\ sub[p] = {p} \cup sub[far[p]]
        BY <1>11, <1>12
      <3>. QED
        BY <1>3, <1>11, <2>1, <3>1, <3>2, <1>14
    <2>2. CASE m # p
      <3>1. near2[m] = near[m] /\ far2[m] = far[m]
        BY <1>3, <2>2
      <3>2. sub[m] = {m} \cup sub[near[m]] \cup sub[far[m]]
        BY <1>12
      <3>3. \A b \in U \cup {NIL} : sub2[b] = IF p \in sub[b] THEN sub[b] \cup {n} ELSE sub[b]
        BY <1>11, <1>12
      <3>. DEFINE a == near[m]
                  b == far[m]
      <3>4. sub2[a] = IF p \in sub[a] THEN sub[a] \cup {n} ELSE sub[a]
        BY <1>6, <3>3
      <3>5. sub2[b] = IF p \in sub[b] THEN sub[b] \cup {n} ELSE sub[b]
        BY <1>6, <3>3
      <3>6. sub2[m] = IF p \in sub[m] THEN sub[m] \cup {n} ELSE sub[m]
        BY <3>3
      <3>7. sub[m] = {m} \cup sub[a] \cup sub[b] /\ near2[m] = a /\ far2[m] = b
        BY <3>1, <3>2
      <3>. HIDE DEF a, b
      <3>. QED
        BY <2>2, <3>4, <3>5, <3>6, <3>7
    <2>. QED
      BY <2>1, <2>2
  <1>15. ASSUME NEW m \in U, NEW x \in sub2[m]
         PROVE  sub2[x] \subseteq sub2[m] /\ (x # m => up2[x] \in sub2[m])
    <2>1. sub[m] \subseteq U /\ sub[m] \subseteq sub2[m]
      BY <1>1, <1>2, <1>11
    <2>2. CASE x = n
      <3>1. p \in sub[m]
        BY <1>2, <1>11, <1>15, <2>1, <2>2
      <3>. QED
        BY <1>3, <1>11, <2>1, <2>2, <3>1
    <2>3. CASE x # n
      <3>1. x \in sub[m] /\ x \in U
        BY <1>11, <1>15, <2>1, <2>3
      <3>2. sub[x] \subseteq sub[m] /\ (x # m => up[x] \in sub[m])
        BY <1>12, <3>1
      <3>3. sub2[x] \subseteq sub2[m]
        BY <1>11, <3>1, <3>2
      <3>. QED
        BY <1>3, <2>1, <3>1, <3>2, <3>3
    <2>. QED
      BY <2>2, <2>3
  <1>16. Nested(near2, far2, up2, root, V, sub2)
    <2>1. sub2[root] = V
      BY <1>5, <1>11, <1>12
    <2>2. /\ sub2[n] = {n} \cup sub2[near2[n]] \cup sub2[far2[n]]
          /\ \A x \in sub2[n] : sub2[x] \subseteq sub2[n] /\ (x # n => up2[x] \in sub2[n])
      BY <1>3, <1>11
    <2>3. \A m \in V : m \in U \/ m = n
      OBVIOUS
    <2>. HIDE DEF V
    <2>. QED
      BY <1>11, <1>14, <1>15, <2>1, <2>2, <2>3 DEF Nested
  <1>17. Ordered(near2, far2, V, sub2, w2)
    <2>1. ASSUME NEW m \in U, NEW b \in U \cup {NIL}, NEW x \in sub2[b]
          PROVE  (x = n /\ p \in sub[b]) \/ (x \in sub[b] /\ w2[x] = w[x])
      <3>1. b # NIL /\ b \in U /\ sub[b] \subseteq U
        BY <1>1, <1>2, <1>11, <2>1
      <3>2. x \in sub[b] \/ (x = n /\ p \in sub[b])
        BY <1>11, <2>1, <3>1
      <3>. QED
        BY <1>3, <3>1, <3>2
    <2>2. ASSUME NEW m \in U, NEW x \in sub2[near2[m]] PROVE w2[x] < w2[m]
      <3>1. CASE m = p
        BY <1>3, <1>11, <2>2, <3>1
      <3>2. CASE m # p
        <4>1. x \in sub2[near[m]]
          BY <1>3, <2>2, <3>2
        <4>2. (x = n /\ p \in sub[near[m]]) \/ (x \in sub[near[m]] /\ w2[x] = w[x])
          BY <1>6, <2>1, <4>1
        <4>3. \A y \in sub[near[m]] : w[y] < w[m]
          BY <1>1 DEF Ordered
        <4>. QED
          BY <1>3, <1>4, <4>2, <4>3
      <3>. QED
        BY <3>1, <3>2
    <2>3. ASSUME NEW m \in U, NEW x \in sub2[far2[m]] PROVE w2[m] < w2[x]
      <3>1. x \in sub2[far[m]]
        BY <1>3, <2>3
      <3>2. (x = n /\ p \in sub[far[m]]) \/ (x \in sub[far[m]] /\ w2[x] = w[x])
        BY <1>6, <2>1, <3>1
      <3>3. \A y \in sub[far[m]] : w[m] < w[y]
        BY <1>1 DEF Ordered
      <3>. QED
        BY <1>3, <1>4, <3>2, <3>3
    <2>4. sub2[near2[n]] = {} /\ sub2[far2[n]] = {}
      BY <1>3, <1>11
    <2>5. \A m \in V : m \in U \/ m = n
      OBVIOUS
    <2>. HIDE DEF V
    <2>. QED
      BY <2>2, <2>3, <2>4, <2>5 DEF Ordered
  <1>18. Shape(near2, far2, up2, root, V, sub2, w2)
    <2>. HIDE DEF V
    <2>. QED
      BY <1>2, <1>3, <1>10, <1>11, <1>16, <1>17 DEF Shape
  <1>. QED
    BY <1>18

(* The same of treePut's leaf, on either side or as the root.              *)
LEMMA HangingTidy ==
  ASSUME NEW t, NEW sub, Tidy(t, sub), NEW k \in Nat, NEW n \in Node \ t.used, NEW p \in Node0,
         Place(t, sub, k, p), NEW u, Hanging(t, u, k, n, p)
  PROVE  \E sub2 : Tidy(u, sub2)
  <1>. DEFINE U == t.used
  <1>1. /\ t \in Tree /\ Shape(t.left, t.right, t.parent, t.root, U, sub, t.key)
        /\ t.left[NIL] = NIL /\ t.right[NIL] = NIL /\ t.parent[NIL] = NIL /\ t.red[NIL] = FALSE
    BY DEF Tidy
  <1>2. /\ n \in Node0 /\ n # NIL /\ NIL \in Node0 /\ U \subseteq Node /\ U \subseteq Node0
        /\ n \notin U /\ NIL \notin U
    BY <1>1, Nodes DEF Tree
  <1>3. /\ u \in Tree /\ u.used = U \cup {n} /\ (p # NIL => u.root = t.root) /\ (p = NIL => u.root = n)
        /\ u.key[n] = k /\ u.parent[n] = p /\ u.left[n] = NIL /\ u.right[n] = NIL
        /\ \A m \in U : u.key[m] = t.key[m] /\ u.parent[m] = t.parent[m]
    BY <1>2 DEF Hanging
  <1>4. u.left[NIL] = NIL /\ u.right[NIL] = NIL /\ u.parent[NIL] = NIL /\ u.red[NIL] = FALSE
    <2>1. u.left[NIL] = NIL /\ u.right[NIL] = NIL /\ u.parent[NIL] = NIL
      BY <1>1, <1>2 DEF Hanging
    <2>2. ~u.red[NIL]
      BY <1>1, <1>2 DEF Hanging
    <2>3. u.red[NIL] \in BOOLEAN
      BY <1>2, <1>3 DEF Tree
    <2>. QED
      BY <2>1, <2>2, <2>3
  <1>5. /\ u.left \in [Node0 -> Node0] /\ u.right \in [Node0 -> Node0]
        /\ u.parent \in [Node0 -> Node0] /\ u.key \in [Node0 -> Int] /\ t.key \in [Node0 -> Int]
    BY <1>1, <1>3 DEF Tree
  <1>6. SUFFICES \E sub2 : Shape(u.left, u.right, u.parent, u.root, U \cup {n}, sub2, u.key)
    BY <1>3, <1>4 DEF Tidy
  <1>7. CASE p = NIL
    <2>1. U = {}
      <3>1. t.root = NIL
        BY <1>7, <1>2 DEF Place
      <3>. QED
        BY <1>2, <3>1, TidyRoot
    <2>. DEFINE sub2 == [m \in Node0 |-> IF m = n THEN {n} ELSE {}]
                V == {n}
    <2>2. /\ sub2 \in [Node0 -> SUBSET V] /\ sub2[n] = {n} /\ sub2[NIL] = {}
      BY <1>2
    <2>. HIDE DEF sub2
    <2>3. Linked(u.left, u.right, u.parent, n, V)
      BY <1>2, <1>3, <1>7 DEF Linked
    <2>4. Nested(u.left, u.right, u.parent, n, V, sub2)
      BY <1>2, <1>3, <1>7, <2>2 DEF Nested
    <2>5. Ordered(u.left, u.right, V, sub2, u.key)
      BY <1>3, <2>2 DEF Ordered
    <2>6. V \subseteq Node /\ U \cup {n} = V
      BY <2>1
    <2>. HIDE DEF V
    <2>7. Shape(u.left, u.right, u.parent, n, V, sub2, u.key)
      BY <1>5, <2>2, <2>3, <2>4, <2>5, <2>6 DEF Shape
    <2>. QED
      BY <1>3, <1>7, <2>6, <2>7
  <1>8. ASSUME p # NIL
        PROVE  /\ p \in U /\ Toward(t, sub, k, p) /\ t.key[p] \in Nat
               /\ (k < t.key[p] /\ t.left[p] = NIL) \/ (t.key[p] < k /\ t.right[p] = NIL)
    <2>1. /\ p \in U /\ Toward(t, sub, k, p)
          /\ (k < t.key[p] /\ t.left[p] = NIL) \/ (t.key[p] < k /\ t.right[p] = NIL)
      BY <1>8 DEF Place
    <2>. QED
      BY <1>1, <1>2, <2>1 DEF Tree
  <1>9. CASE p # NIL /\ k < t.key[p]
    <2>1. p \in U /\ t.left[p] = NIL /\ t.key[p] \in Nat /\ ~(k > t.key[p])
      BY <1>8, <1>9
    <2>2. \A m \in U : /\ u.left[m] = IF m = p THEN n ELSE t.left[m]
                       /\ u.right[m] = t.right[m]
      BY <1>2, <1>9, <2>1 DEF Hanging
    <2>3. \A m \in U : /\ p \in sub[t.left[m]] => u.key[n] < u.key[m]
                       /\ p \in sub[t.right[m]] => u.key[m] < u.key[n]
      BY <1>3, <1>8, <1>9 DEF Toward
    <2>4. u.key[n] < u.key[p]
      BY <1>3, <1>9, <2>1
    <2>5. Hooked(t.left, t.right, t.parent, u.left, u.right, u.parent, U, t.key, u.key, sub, n, p)
      BY <1>3, <1>5, <2>2, <2>3, <2>4 DEF Hooked
    <2>6. Shape(t.left, t.right, t.parent, t.root, U, sub, t.key) /\ n \in Node \ U
      BY <1>1, <1>2
    <2>7. p \in U /\ t.left[p] = NIL
      BY <2>1
    <2>. HIDE DEF U
    <2>8. \E sub2 : Shape(u.left, u.right, u.parent, t.root, U \cup {n}, sub2, u.key)
      BY <2>5, <2>6, <2>7, HookedShape
    <2>. QED
      BY <1>3, <1>9, <2>8
  <1>10. CASE p # NIL /\ ~(k < t.key[p])
    <2>. DEFINE v == [x \in Node0 |-> 0 - t.key[x]]
                v2 == [x \in Node0 |-> 0 - u.key[x]]
    <2>1. p \in U /\ t.right[p] = NIL /\ t.key[p] \in Nat /\ k > t.key[p]
      BY <1>8, <1>10
    <2>2. \A m \in U : /\ u.right[m] = IF m = p THEN n ELSE t.right[m]
                       /\ u.left[m] = t.left[m]
      BY <1>2, <1>10, <2>1 DEF Hanging
    <2>3. v \in [Node0 -> Int] /\ v2 \in [Node0 -> Int]
          /\ (\A x \in Node0 : v[x] = 0 - t.key[x]) /\ \A x \in Node0 : v2[x] = 0 - u.key[x]
      BY <1>5
    <2>. HIDE DEF v, v2
    <2>4. Shape(t.right, t.left, t.parent, t.root, U, sub, v)
      <3>. HIDE DEF U
      <3>. QED
        BY <1>1, <1>2, <2>3, Mirrored
    <2>5. \A m \in U : /\ p \in sub[t.left[m]] => u.key[n] < u.key[m]
                       /\ p \in sub[t.right[m]] => u.key[m] < u.key[n]
      BY <1>3, <1>8, <1>10 DEF Toward
    <2>6. \A m \in U : u.key[m] \in Int /\ t.key[m] \in Int
      BY <1>2, <1>5
    <2>7. u.key[n] \in Int /\ u.key[p] \in Int /\ u.key[p] < u.key[n]
      BY <1>2, <1>3, <1>5, <2>1
    <2>8. \A m \in U : /\ p \in sub[t.right[m]] => v2[n] < v2[m]
                       /\ p \in sub[t.left[m]] => v2[m] < v2[n]
                       /\ v2[m] = v[m]
      BY <1>2, <1>3, <2>3, <2>5, <2>6, <2>7
    <2>9. v2[n] < v2[p]
      BY <1>2, <2>1, <2>3, <2>7
    <2>10. Hooked(t.right, t.left, t.parent, u.right, u.left, u.parent, U, v, v2, sub, n, p)
      BY <1>3, <1>5, <2>2, <2>3, <2>8, <2>9 DEF Hooked
    <2>. DEFINE V == U \cup {n}
    <2>11. PICK sub2 : Shape(u.right, u.left, u.parent, t.root, V, sub2, v2)
      <3>. HIDE DEF U
      <3>. QED
        BY <1>2, <2>1, <2>4, <2>10, HookedShape
    <2>12. \A x \in V : u.key[x] = 0 - v2[x]
      BY <1>2, <2>3, <2>6, <2>7
    <2>. HIDE DEF V
    <2>13. Shape(u.left, u.right, u.parent, t.root, V, sub2, u.key)
      BY <1>5, <2>11, <2>12, Mirrored
    <2>. QED
      BY <1>3, <1>10, <2>13 DEF V
  <1>. QED
    BY <1>7, <1>9, <1>10

(* The red leaf disturbs one thing at most: its parent may be red.         *)
LEMMA HangingMid ==
  ASSUME NEW t, NEW sub, NEW h, Sound(t, sub, h), NEW k \in Nat, NEW n \in Node \ t.used,
         NEW p \in Node0, Place(t, sub, k, p), NEW u, Hanging(t, u, k, n, p)
  PROVE  \E sub2, h2 : Mid(u, n, sub2, h2)
  <1>. DEFINE h2 == [h EXCEPT ![n] = 0]
              U == t.used
  <1>1. Tidy(t, sub) /\ Tinted(t, t.red, h) /\ Calm(t, NIL) /\ ~t.red[t.root] /\ ~t.bent
    BY DEF Sound
  <1>2. PICK sub2 : Tidy(u, sub2)
    BY <1>1, HangingTidy
  <1>3. /\ n \in Node0 /\ n # NIL /\ NIL \in Node0 /\ U \subseteq Node /\ U \subseteq Node0
        /\ n \notin U /\ NIL \notin U
    BY <1>1, Nodes, TidyRoot
  <1>4. /\ u.used = U \cup {n} /\ (p # NIL => u.root = t.root) /\ (p = NIL => u.root = n)
        /\ u.red[n] /\ u.parent[n] = p /\ u.left[n] = NIL /\ u.right[n] = NIL /\ u.bent = t.bent
        /\ \A m \in U : u.parent[m] = t.parent[m]
        /\ \A m \in Node0 \ {n} : u.red[m] <=> t.red[m]
    BY <1>3 DEF Hanging
  <1>5. p # NIL => p \in U /\ t.root \in U
    BY TidyRoot, <1>1 DEF Place
  <1>6. h \in [Node0 -> Nat] /\ h[NIL] = 0
        /\ \A m \in U : /\ h[t.left[m]] = h[t.right[m]]
                        /\ h[m] = h[t.left[m]] + (IF t.red[m] THEN 0 ELSE 1)
    BY <1>1 DEF Tinted
  <1>7. \A m \in U : t.left[m] \in U \cup {NIL} /\ t.right[m] \in U \cup {NIL}
    BY <1>1, TidyNode
  <1>8. h2 \in [Node0 -> Nat] /\ h2[NIL] = 0 /\ h2[n] = 0 /\ \A m \in U \cup {NIL} : h2[m] = h[m]
    BY <1>3, <1>6
  <1>. HIDE DEF h2
  <1>9. \A m \in U : /\ h2[u.left[m]] = h[t.left[m]]
                     /\ h2[u.right[m]] = h[t.right[m]]
    <2>1. ASSUME NEW m \in U, u.left[m] # t.left[m] PROVE t.left[m] = NIL /\ u.left[m] = n
      <3>1. m = p /\ p # NIL /\ k < t.key[p] /\ u.left[m] = n
        BY <1>3, <2>1 DEF Hanging
      <3>2. t.left[p] = NIL
        <4>1. t.key[p] \in Nat
          BY <1>1, <1>3, <3>1 DEF Tidy, Tree
        <4>. QED
          BY <3>1, <4>1 DEF Place
      <3>. QED
        BY <3>1, <3>2
    <2>2. ASSUME NEW m \in U, u.right[m] # t.right[m] PROVE t.right[m] = NIL /\ u.right[m] = n
      <3>1. m = p /\ p # NIL /\ k > t.key[p] /\ u.right[m] = n
        BY <1>3, <2>2 DEF Hanging
      <3>2. t.right[p] = NIL
        <4>1. t.key[p] \in Nat
          BY <1>1, <1>3, <3>1 DEF Tidy, Tree
        <4>. QED
          BY <3>1, <4>1 DEF Place
      <3>. QED
        BY <3>1, <3>2
    <2>. QED
      BY <1>6, <1>7, <1>8, <2>1, <2>2
  <1>10. Tinted(u, u.red, h2)
    <2>1. ASSUME NEW m \in U
          PROVE  /\ h2[u.left[m]] = h2[u.right[m]]
                 /\ h2[m] = h2[u.left[m]] + (IF u.red[m] THEN 0 ELSE 1)
      <3>1. u.red[m] <=> t.red[m]
        BY <1>3, <1>4
      <3>. QED
        BY <1>6, <1>8, <1>9, <3>1
    <2>2. /\ h2[u.left[n]] = h2[u.right[n]]
          /\ h2[n] = h2[u.left[n]] + (IF u.red[n] THEN 0 ELSE 1)
      BY <1>4, <1>8
    <2>. QED
      BY <1>4, <1>8, <2>1, <2>2 DEF Tinted
  <1>11. Calm(u, n)
    <2>1. ASSUME NEW m \in U, u.red[m], u.parent[m] # NIL PROVE ~u.red[u.parent[m]]
      <3>1. t.red[m] /\ t.parent[m] \in U /\ t.parent[m] # NIL /\ u.parent[m] = t.parent[m]
        BY <1>1, <1>3, <1>4, <2>1, TidyNode
      <3>2. ~t.red[t.parent[m]]
        BY <1>1, <1>3, <3>1 DEF Calm
      <3>. QED
        BY <1>3, <1>4, <3>1, <3>2
    <2>. QED
      BY <1>4, <2>1 DEF Calm
  <1>12. u.red[u.root] => n = u.root
    BY <1>1, <1>3, <1>4, <1>5
  <1>13. n \in u.used /\ u.red[n] /\ ~u.bent
    BY <1>1, <1>4
  <1>. QED
    BY <1>2, <1>10, <1>11, <1>12, <1>13 DEF Mid

-----------------------------------------------------------------------------
(* treePut: what becomes of the fields, and of the nodes the root leads to,*)
(* whether or not the repair turned a left child.                          *)
Added(t, u, k, n) ==
    /\ u \in Tree /\ u.total = t.total + 1
    /\ n \in Node \ t.used /\ u.used = t.used \cup {n}
    /\ u.key[n] = k /\ \A m \in t.used : u.key[m] = t.key[m]
    /\ Reached(u) \subseteq u.used

(* A put changes nothing when the tree is full or has the key. Otherwise   *)
(* it adds one node that was free, with the key, and unless the repair     *)
(* turned a left child the tree is a red-black search tree again, of all   *)
(* its nodes: no sequence of rotations and recolourings loses one.         *)
THEOREM PutSound ==
  ASSUME NEW t, NEW sub, NEW h, Sound(t, sub, h), NEW k \in Nat, NEW max \in Nat,
         t.used # Node, ~Full(t, max), Lookup(t, k) = NIL, NEW u, u = treePut(t, k, max)
  PROVE  \E n : /\ Added(t, u, k, n)
                /\ ~u.bent => \E sub2, h2 : Sound(u, sub2, h2)
  <1>. DEFINE n == CHOOSE n \in Node \ t.used : TRUE
              p == Last(t, k)
              v == Hung(t, k, n, p)
  <1>1. t \in Tree /\ Tidy(t, sub)
    BY DEF Sound, Tidy
  <1>2. n \in Node \ t.used
    BY <1>1 DEF Tree
  <1>3. Place(t, sub, k, p)
    BY <1>1, LastIs
  <1>4. u = fixAfterInsert(v, n)
    BY DEF treePut
  <1>. HIDE DEF n, p
  <1>5. p \in t.used \cup {NIL} /\ t.used \subseteq Node
    BY <1>1, <1>3 DEF Place, Tree
  <1>6. p \in Node0 /\ p # n /\ n \in Node0 /\ n # NIL
    BY <1>2, <1>5, Nodes
  <1>7. Hanging(t, v, k, n, p)
    BY <1>1, <1>2, <1>6, HungIs
  <1>. HIDE DEF v
  <1>8. v \in Tree /\ v.total = t.total + 1 /\ v.used = t.used \cup {n} /\ v.key[n] = k
        /\ \A m \in t.used : v.key[m] = t.key[m]
    BY <1>2, <1>5, <1>6, <1>7, Nodes DEF Hanging
  <1>9. PICK sub2, h2 : Mid(v, n, sub2, h2)
    BY <1>2, <1>3, <1>6, <1>7, HangingMid
  <1>10. Held(v, v.used \cup {NIL}) /\ v.used \cup {NIL} \in SUBSET Node0 /\ n \in v.used \cup {NIL}
    BY <1>9, TidyHeld DEF Mid
  <1>11. Held(u, v.used \cup {NIL}) /\ Same(v, u)
    BY <1>4, <1>8, <1>10, FixInsertHeld
  <1>12. u \in Tree /\ u.total = v.total /\ u.used = v.used /\ u.key = v.key
    BY <1>11 DEF Same
  <1>13. Reached(u) \subseteq (v.used \cup {NIL}) \ {NIL}
    BY <1>10, <1>11, <1>12, ReachedHeld
  <1>14. Added(t, u, k, n)
    BY <1>2, <1>8, <1>12, <1>13 DEF Added
  <1>15. ~u.bent => \E sub3, h3 : Sound(u, sub3, h3)
    BY <1>4, <1>8, <1>9, FixInsertSound
  <1>. QED
    BY <1>14, <1>15

(* A tree of one node at most is never repaired: below the root, which is  *)
(* black, a second node is put where it stays.                             *)
LEMMA PutSecond ==
  ASSUME NEW t, NEW sub, NEW h, Sound(t, sub, h), NEW k \in Nat, NEW max \in Nat,
         t.used # Node, ~Full(t, max), Lookup(t, k) = NIL, NEW u, u = treePut(t, k, max),
         t.used \subseteq {t.root}
  PROVE  \E sub2, h2 : Sound(u, sub2, h2)
  <1>. DEFINE n == CHOOSE n \in Node \ t.used : TRUE
              p == Last(t, k)
              v == Hung(t, k, n, p)
  <1>1. t \in Tree /\ Tidy(t, sub) /\ ~t.red[t.root]
    BY DEF Sound, Tidy
  <1>2. n \in Node \ t.used
    BY <1>1 DEF Tree
  <1>3. Place(t, sub, k, p)
    BY <1>1, LastIs
  <1>4. u = fixAfterInsert(v, n)
    BY DEF treePut
  <1>. HIDE DEF n, p
  <1>5. p \in t.used \cup {NIL} /\ t.used \subseteq Node
    BY <1>1, <1>3 DEF Place, Tree
  <1>6. p \in Node0 /\ p # n /\ n \in Node0 /\ n # NIL
    BY <1>2, <1>5, Nodes
  <1>7. Hanging(t, v, k, n, p)
    BY <1>1, <1>2, <1>6, HungIs
  <1>. HIDE DEF v
  <1>8. PICK sub2, h2 : Mid(v, n, sub2, h2)
    BY <1>2, <1>3, <1>6, <1>7, HangingMid
  <1>9. v \in Tree /\ v.parent[n] = p /\ (v.red[p] <=> p = n \/ t.red[p])
    BY <1>6, <1>7 DEF Hanging
  <1>10. Done(v, n)
    BY <1>1, <1>5, <1>6, <1>9 DEF Done
  <1>11. u = RootBlack(v)
    BY <1>4, <1>6, <1>9, <1>10, FixDone
  <1>. QED
    BY <1>8, <1>10, <1>11, RootBlackSound

-----------------------------------------------------------------------------
(* The successor: the first node of the right subtree, which has no left   *)
(* child.                                                                  *)
Leftward(t) == [m \in Node0 |-> IF t.left[m] = NIL THEN m ELSE t.left[m]]

(* successor goes left, again and again.                                   *)
LEMMA SuccessorDefined ==
  ASSUME NEW t \in Tree, NEW n \in Node0
  PROVE  \E w : Iterated(w, Node0, t.right[n], Leftward(t), NNode)
                /\ successor(t, n) = w[NNode]
  <1>. DEFINE a == t.right[n]
              G(m) == IF t.left[m] = NIL THEN m ELSE t.left[m]
              Raw(f) == [i \in 0 .. NNode |-> IF i = 0 THEN a ELSE G(f[i - 1])]
              w == CHOOSE f : f = Raw(f)
  <1>1. successor(t, n) = w[NNode]
    BY DEF successor
  <1>2. NNode \in Nat /\ a \in Node0
    BY Nodes DEF Tree
  <1>3. Leftward(t) \in [Node0 -> Node0] /\ \A m \in Node0 : Leftward(t)[m] = G(m)
    BY DEF Leftward, Tree
  <1>. HIDE DEF G, a
  <1>4. PICK f : Iterated(f, Node0, a, Leftward(t), NNode)
    BY <1>2, <1>3, Iterates
  <1>5. f = Raw(f)
    BY <1>2, <1>3, <1>4 DEF Iterated
  <1>6. w = Raw(w)
    BY <1>5
  <1>. HIDE DEF w
  <1>7. w = [i \in 0 .. NNode |-> w[i]] /\ w[0] = a /\ \A i \in 1 .. NNode : w[i] = G(w[i - 1])
    BY <1>2, <1>6
  <1>8. Iterated(w, Node0, a, Leftward(t), NNode)
    BY <1>2, <1>3, <1>7, Unfolds
  <1>. QED
    BY <1>1, <1>8 DEF a

(* The nodes below d are the first ones of those below r.                  *)
First(t, sub, r, d) ==
    /\ d \in t.used /\ d \in sub[r]
    /\ \A x \in sub[r] : x \notin sub[d] => \A y \in sub[d] : t.key[y] < t.key[x]

(* A step to the left stays first in order, and has less below it.         *)
LEMMA FirstLeft ==
  ASSUME NEW t, NEW sub, Tidy(t, sub), NEW r \in t.used, NEW d, First(t, sub, r, d),
         NEW l, l = t.left[d], l # NIL
  PROVE  First(t, sub, r, l) /\ Cardinality(sub[l]) < Cardinality(sub[d])
  <1>1. /\ d \in t.used /\ d \in sub[r]
        /\ \A x \in sub[r] : x \notin sub[d] => \A y \in sub[d] : t.key[y] < t.key[x]
    BY DEF First
  <1>2. l \in t.used /\ t.parent[l] = d /\ l \in sub[l]
    BY <1>1, TidyNode
  <1>3. /\ sub[d] = {d} \cup sub[l] \cup sub[t.right[d]] /\ d \notin sub[l] /\ sub[d] \subseteq t.used
        /\ \A x \in sub[l] : t.key[x] < t.key[d]
        /\ \A x \in sub[t.right[d]] : t.key[d] < t.key[x]
    BY <1>1, TidySub
  <1>4. sub[d] \subseteq sub[r]
    BY <1>1, TidySub
  <1>5. ASSUME NEW x \in sub[r], x \notin sub[l], NEW y \in sub[l] PROVE t.key[y] < t.key[x]
    <2>1. CASE x \notin sub[d]
      BY <1>1, <1>3, <2>1
    <2>2. CASE x = d
      BY <1>3, <2>2
    <2>3. CASE x \in sub[t.right[d]]
      <3>1. t.key[y] < t.key[d] /\ t.key[d] < t.key[x]
        BY <1>3, <2>3
      <3>2. t.key[y] \in Int /\ t.key[d] \in Int /\ t.key[x] \in Int
        <4>1. y \in t.used /\ x \in t.used
          BY <1>3, <2>3
        <4>2. \A m \in t.used : t.key[m] \in Int
          <5>1. t.used \subseteq Node0
            BY TidyRoot, Nodes
          <5>2. t.key \in [Node0 -> Nat]
            BY DEF Tidy, Tree
          <5>. QED
            BY <5>1, <5>2
        <4>. QED
          BY <1>1, <4>1, <4>2
      <3>. QED
        BY <3>1, <3>2
    <2>. QED
      BY <1>3, <1>5, <2>1, <2>2, <2>3
  <1>6. Cardinality(sub[l]) < Cardinality(sub[d])
    <2>1. IsFiniteSet(sub[d]) /\ sub[l] \subseteq sub[d] /\ sub[l] # sub[d]
      BY <1>1, <1>3, TidyCount
    <2>. QED
      BY <2>1, FS_Subset, FS_CardinalityType
  <1>. QED
    BY <1>2, <1>3, <1>4, <1>5, <1>6 DEF First

(* successor finds the least key on the right.                             *)
LEMMA SuccessorIs ==
  ASSUME NEW t, NEW sub, Tidy(t, sub), NEW n \in t.used, NEW r, r = t.right[n], r # NIL,
         NEW s, s = successor(t, n)
  PROVE  /\ s \in t.used /\ s \in sub[r] /\ t.left[s] = NIL
         /\ \A x \in sub[r] : x # s => t.key[s] < t.key[x]
  <1>1. t \in Tree /\ NNode \in Nat /\ n \in Node0 /\ r \in t.used /\ r \in Node0
    <2>1. r \in t.used
      BY TidyNode
    <2>. QED
      BY <2>1, Nodes, TidyNode DEF Tidy
  <1>2. PICK w : Iterated(w, Node0, r, Leftward(t), NNode) /\ s = w[NNode]
    BY <1>1, SuccessorDefined
  <1>. DEFINE Fine(d, i) == First(t, sub, r, d)
                            /\ (t.left[d] = NIL \/ Cardinality(sub[d]) <= NNode - i)
              T == {i \in 0 .. NNode : Fine(w[i], i)}
  <1>3. w[0] = r /\ \A i \in 1 .. NNode : w[i] = Leftward(t)[w[i - 1]]
    BY <1>2 DEF Iterated
  <1>4. 0 \in T
    <2>1. First(t, sub, r, r)
      BY <1>1, TidyNode DEF First
    <2>2. Cardinality(sub[r]) \in 1 .. NNode
      BY <1>1, TidyCount
    <2>. QED
      BY <1>1, <1>3, <2>1, <2>2
  <1>5. ASSUME NEW i \in 1 .. NNode, i - 1 \in T PROVE i \in T
    <2>. DEFINE d == w[i - 1]
                l == w[i]
    <2>1. l = Leftward(t)[d] /\ i \in 0 .. NNode /\ Fine(d, i - 1)
      BY <1>1, <1>3, <1>5
    <2>. HIDE DEF d, l
    <2>2. d \in t.used /\ d \in Node0
      BY <2>1, TidyNode DEF First
    <2>3. CASE t.left[d] = NIL
      <3>1. l = d
        BY <2>1, <2>2, <2>3 DEF Leftward
      <3>2. Fine(l, i)
        BY <2>1, <2>3, <3>1
      <3>. QED
        BY <2>1, <3>2 DEF l
    <2>4. CASE t.left[d] # NIL
      <3>1. l = t.left[d]
        BY <2>1, <2>2, <2>4 DEF Leftward
      <3>2. First(t, sub, r, l) /\ Cardinality(sub[l]) < Cardinality(sub[d])
        BY <1>1, <2>1, <2>4, <3>1, FirstLeft
      <3>3. Cardinality(sub[l]) \in 1 .. NNode /\ Cardinality(sub[d]) \in 1 .. NNode
        <4>1. l \in t.used
          BY <3>2 DEF First
        <4>. QED
          BY <2>2, <4>1, TidyCount
      <3>4. Cardinality(sub[l]) <= NNode - i
        BY <1>1, <2>1, <2>4, <3>2, <3>3
      <3>5. Fine(l, i)
        BY <3>2, <3>4
      <3>. QED
        BY <2>1, <3>5 DEF l
    <2>. QED
      BY <2>3, <2>4
  <1>. HIDE DEF T
  <1>6. NNode \in T
    BY <1>1, <1>4, <1>5, Inductive
  <1>7. Fine(s, NNode)
    BY <1>2, <1>6 DEF T
  <1>8. s \in t.used /\ s \in sub[r]
    BY <1>7 DEF First
  <1>9. t.left[s] = NIL
    <2>1. Cardinality(sub[s]) \in 1 .. NNode
      BY <1>8, TidyCount
    <2>. QED
      BY <1>1, <1>7, <2>1
  <1>10. ASSUME NEW x \in sub[r], x # s PROVE t.key[s] < t.key[x]
    <2>1. s \in sub[s] /\ sub[s] = {s} \cup sub[t.left[s]] \cup sub[t.right[s]]
          /\ sub[NIL] = {} /\ \A y \in sub[t.right[s]] : t.key[s] < t.key[y]
      BY <1>8, TidySub, TidyNode
    <2>2. CASE x \in sub[s]
      BY <1>9, <1>10, <2>1, <2>2
    <2>3. CASE x \notin sub[s]
      BY <1>7, <2>1, <2>3 DEF First
    <2>. QED
      BY <2>2, <2>3
  <1>. QED
    BY <1>8, <1>9, <1>10

-----------------------------------------------------------------------------
(* The shape of the tree from which n, with one child, was taken out and   *)
(* whose node found has got the place of n in the order.                   *)
Unhooked(near, far, up, root, near2, far2, up2, root2, U, w, w2, sub, n, son, found) ==
    /\ near2 \in [Node0 -> Node0] /\ far2 \in [Node0 -> Node0] /\ up2 \in [Node0 -> Node0]
    /\ w2 \in [Node0 -> Int]
    /\ \A m \in U \ {n} : /\ near2[m] = IF near[m] = n THEN son ELSE near[m]
                          /\ far2[m] = IF far[m] = n THEN son ELSE far[m]
                          /\ up2[m] = IF m = son THEN up[n] ELSE up[m]
                          /\ w2[m] = IF m = found THEN w[n] ELSE w[m]
    /\ root2 = IF up[n] = NIL THEN son ELSE root

(* n may give its key to found: nothing else is between the two.           *)
Stands(near, far, sub, w, n, found) ==
    /\ n \in sub[found]
    /\ found # n => /\ \A x \in sub[near[found]] \ {n} : w[x] < w[n]
                    /\ \A x \in sub[far[found]] \ {n} : w[n] < w[x]

(* The links when a node with one child leaves the tree.                   *)
LEMMA UnhookedLinked ==
  ASSUME NEW near, NEW far, NEW up, NEW root, NEW U, NEW sub, NEW w,
         Shape(near, far, up, root, U, sub, w),
         NEW near2, NEW far2, NEW up2, NEW root2, NEW w2, NEW n \in U, NEW son \in U, NEW found,
         {near[n], far[n]} = {son, NIL},
         Unhooked(near, far, up, root, near2, far2, up2, root2, U, w, w2, sub, n, son, found)
  PROVE  Linked(near2, far2, up2, root2, U \ {n})
  <1>. DEFINE V == U \ {n}
              p == up[n]
  <1>1. U \subseteq Node /\ Linked(near, far, up, root, U) /\ NIL \notin U
    BY Nodes DEF Shape
  <1>2. up[son] = n /\ son # n /\ son # NIL
    <2>1. up[son] = n /\ son # NIL
      BY <1>1 DEF Linked
    <2>2. \A m \in U : m \in sub[m] /\ m \notin sub[near[m]] /\ m \notin sub[far[m]]
      <3>1. \A m \in U : /\ \A x \in sub[near[m]] : w[x] < w[m]
                         /\ \A x \in sub[far[m]] : w[m] < w[x]
        BY DEF Shape, Ordered
      <3>2. \A m \in U : w[m] \in Int /\ m \in sub[m]
        BY <1>1, Nodes DEF Shape, Nested
      <3>. QED
        BY <3>1, <3>2
    <2>. QED
      BY <2>1, <2>2
  <1>3. /\ root2 = IF p = NIL THEN son ELSE root
        /\ \A m \in V : /\ near2[m] = IF near[m] = n THEN son ELSE near[m]
                        /\ far2[m] = IF far[m] = n THEN son ELSE far[m]
                        /\ up2[m] = IF m = son THEN p ELSE up[m]
    BY DEF Unhooked
  <1>4. /\ root \in U \cup {NIL} /\ (root # NIL => up[root] = NIL)
        /\ \A m \in U :
           /\ near[m] \in U \cup {NIL} /\ far[m] \in U \cup {NIL} /\ up[m] \in U \cup {NIL}
           /\ near[m] # NIL => up[near[m]] = m
           /\ far[m] # NIL => up[far[m]] = m
           /\ up[m] = NIL => m = root
           /\ up[m] # NIL => m \in {near[up[m]], far[up[m]]}
    BY <1>1 DEF Linked
  <1>5. p \in V \cup {NIL}
    <2>1. p # n
      <3>1. p = n => n \in {near[n], far[n]}
        BY <1>1, <1>4
      <3>. QED
        BY <1>1, <1>2, <3>1
    <2>. QED
      BY <1>4, <2>1
  <1>6. ASSUME NEW m \in U, m # son PROVE up[m] # n
    <2>1. up[m] = n => m \in {near[n], far[n]}
      BY <1>1, <1>4
    <2>. QED
      BY <1>1, <1>6, <2>1
  <1>7. root2 \in V \cup {NIL} /\ (root2 # NIL => up2[root2] = NIL)
    <2>1. CASE p = NIL
      BY <1>2, <1>3, <2>1
    <2>2. CASE p # NIL
      <3>1. root # n /\ root # son
        BY <1>1, <1>2, <1>4, <2>2
      <3>. QED
        BY <1>1, <1>3, <1>4, <2>2, <3>1
    <2>. QED
      BY <2>1, <2>2
  <1>8. ASSUME NEW m \in V
        PROVE  /\ near2[m] \in V \cup {NIL} /\ far2[m] \in V \cup {NIL} /\ up2[m] \in V \cup {NIL}
               /\ near2[m] # NIL => up2[near2[m]] = m
               /\ far2[m] # NIL => up2[far2[m]] = m
    <2>0. m \in U /\ m # n
      OBVIOUS
    <2>1. near2[m] \in V \cup {NIL} /\ far2[m] \in V \cup {NIL}
      BY <1>2, <1>3, <1>4, <2>0
    <2>2. up2[m] \in V \cup {NIL}
      <3>1. CASE m = son
        BY <1>3, <1>5, <3>1
      <3>2. CASE m # son
        BY <1>3, <1>4, <1>6, <2>0, <3>2
      <3>. QED
        BY <3>1, <3>2
    <2>3. near2[m] # NIL => up2[near2[m]] = m
      <3>1. CASE near[m] = n
        <4>1. near2[m] = son /\ p = m /\ up2[son] = p
          BY <1>1, <1>2, <1>3, <1>4, <2>0, <3>1
        <4>. QED
          BY <4>1
      <3>2. CASE near[m] # n
        BY <1>2, <1>3, <1>4, <2>0, <3>2
      <3>. QED
        BY <3>1, <3>2
    <2>4. far2[m] # NIL => up2[far2[m]] = m
      <3>1. CASE far[m] = n
        <4>1. far2[m] = son /\ p = m /\ up2[son] = p
          BY <1>1, <1>2, <1>3, <1>4, <2>0, <3>1
        <4>. QED
          BY <4>1
      <3>2. CASE far[m] # n
        BY <1>2, <1>3, <1>4, <2>0, <3>2
      <3>. QED
        BY <3>1, <3>2
    <2>. QED
      BY <2>1, <2>2, <2>3, <2>4
  <1>9. ASSUME NEW m \in V
        PROVE  /\ up2[m] = NIL => m = root2
               /\ up2[m] # NIL => m \in {near2[up2[m]], far2[up2[m]]}
    <2>1. CASE m = son
      <3>1. up2[m] = p /\ (p # NIL => p \in V /\ n \in {near[p], far[p]})
        BY <1>3, <1>4, <1>5, <2>1
      <3>. QED
        BY <1>3, <2>1, <3>1
    <2>2. CASE m # son
      <3>1. up2[m] = up[m] /\ up[m] # n /\ m # n /\ m \in U
        BY <1>3, <1>6, <2>2
      <3>2. up[m] = NIL => m = root /\ p # NIL
        BY <1>4, <3>1
      <3>3. up[m] # NIL => up[m] \in V /\ m \in {near[up[m]], far[up[m]]}
        BY <1>4, <3>1
      <3>. QED
        BY <1>3, <3>1, <3>2, <3>3
    <2>. QED
      BY <2>1, <2>2
  <1>. HIDE DEF V
  <1>10. Linked(near2, far2, up2, root2, V)
    BY <1>7, <1>8, <1>9 DEF Linked
  <1>. QED
    BY <1>10 DEF V

(* The search tree when a node with one child leaves, after its key has    *)
(* moved to the node it stands for.                                        *)
LEMMA UnhookedShape ==
  ASSUME NEW near, NEW far, NEW up, NEW root, NEW U, NEW sub, NEW w,
         Shape(near, far, up, root, U, sub, w),
         NEW near2, NEW far2, NEW up2, NEW root2, NEW w2, NEW n \in U, NEW son \in U, NEW found \in U,
         {near[n], far[n]} = {son, NIL}, Stands(near, far, sub, w, n, found),
         Unhooked(near, far, up, root, near2, far2, up2, root2, U, w, w2, sub, n, son, found)
  PROVE  \E sub2 : Shape(near2, far2, up2, root2, U \ {n}, sub2, w2)
  <1>. DEFINE V == U \ {n}
              p == up[n]
              sub2 == [m \in Node0 |-> sub[m] \ {n}]
  <1>1. /\ U \subseteq Node /\ sub \in [Node0 -> SUBSET U] /\ w \in [Node0 -> Int]
        /\ Linked(near, far, up, root, U) /\ Nested(near, far, up, root, U, sub)
        /\ Ordered(near, far, U, sub, w)
    BY DEF Shape
  <1>2. U \subseteq Node0 /\ NIL \in Node0 /\ NIL \notin U /\ V \subseteq Node
    BY <1>1, Nodes
  <1>3. /\ near2 \in [Node0 -> Node0] /\ far2 \in [Node0 -> Node0] /\ up2 \in [Node0 -> Node0]
        /\ w2 \in [Node0 -> Int]
        /\ root2 = IF p = NIL THEN son ELSE root
        /\ \A m \in V : /\ near2[m] = IF near[m] = n THEN son ELSE near[m]
                        /\ far2[m] = IF far[m] = n THEN son ELSE far[m]
                        /\ up2[m] = IF m = son THEN p ELSE up[m]
                        /\ w2[m] = IF m = found THEN w[n] ELSE w[m]
    BY DEF Unhooked
  <1>4. Linked(near2, far2, up2, root2, V)
    BY UnhookedLinked
  <1>5. /\ \A m \in U : near[m] \in U \cup {NIL} /\ far[m] \in U \cup {NIL}
        /\ up[son] = n /\ son # NIL /\ (p = NIL => root = n)
    BY <1>1, <1>2 DEF Linked
  <1>6. /\ sub[NIL] = {} /\ sub[root] = U
        /\ \A m \in U : sub[m] = {m} \cup sub[near[m]] \cup sub[far[m]]
        /\ \A m \in U : \A x \in sub[m] : sub[x] \subseteq sub[m] /\ (x # m => up[x] \in sub[m])
    BY <1>1 DEF Nested
  <1>7. /\ \A m \in U : \A x \in sub[near[m]] : w[x] < w[m]
        /\ \A m \in U : \A x \in sub[far[m]] : w[m] < w[x]
        /\ \A m \in U : w[m] \in Int
    BY <1>1, <1>2 DEF Ordered
  <1>8. \A m \in U : m \notin sub[near[m]] /\ m \notin sub[far[m]]
    BY <1>7
  <1>9. sub[n] = {n} \cup sub[son] /\ n \notin sub[son] /\ son # n
    <2>1. sub[n] = {n} \cup sub[near[n]] \cup sub[far[n]]
      BY <1>6
    <2>2. son \in sub[son]
      BY <1>6
    <2>. QED
      BY <1>6, <1>8, <2>1, <2>2
  <1>10. /\ sub2 \in [Node0 -> SUBSET V] /\ sub2[NIL] = {} /\ sub2[son] = sub[son]
         /\ \A m \in U : sub2[m] = sub[m] \ {n}
    <2>1. sub2 \in [Node0 -> SUBSET V]
      BY <1>1
    <2>2. \A m \in Node0 : sub2[m] = sub[m] \ {n}
      OBVIOUS
    <2>. HIDE DEF sub2, V
    <2>3. sub2[NIL] = {}
      BY <1>2, <1>6, <2>2
    <2>4. sub2[son] = sub[son]
      <3>1. sub2[son] = sub[son] \ {n}
        BY <1>2, <2>2
      <3>. QED
        BY <1>9, <3>1
    <2>5. \A m \in U : sub2[m] = sub[m] \ {n}
      BY <1>2, <2>2
    <2>. QED
      BY <2>1, <2>3, <2>4, <2>5
  <1>. HIDE DEF sub2
  <1>11. \A b \in U \cup {NIL} : sub2[IF b = n THEN son ELSE b] = sub[b] \ {n}
    BY <1>6, <1>9, <1>10
  <1>12. ASSUME NEW m \in V
         PROVE  sub2[near2[m]] = sub[near[m]] \ {n} /\ sub2[far2[m]] = sub[far[m]] \ {n}
    BY <1>3, <1>5, <1>11
  <1>13. Nested(near2, far2, up2, root2, V, sub2)
    <2>1. sub2[root2] = V
      <3>1. CASE p = NIL
        <4>1. sub[n] = U
          BY <1>5, <1>6, <3>1
        <4>. QED
          BY <1>3, <1>9, <1>10, <3>1, <4>1
      <3>2. CASE p # NIL
        <4>1. root \in U
          BY <1>1, <1>2, <1>6 DEF Linked
        <4>. QED
          BY <1>3, <1>6, <1>10, <3>2, <4>1
      <3>. QED
        BY <3>1, <3>2
    <2>2. ASSUME NEW m \in V PROVE sub2[m] = {m} \cup sub2[near2[m]] \cup sub2[far2[m]]
      <3>1. sub2[m] = sub[m] \ {n} /\ sub[m] = {m} \cup sub[near[m]] \cup sub[far[m]] /\ m # n
        BY <1>6, <1>10
      <3>2. sub2[near2[m]] = sub[near[m]] \ {n} /\ sub2[far2[m]] = sub[far[m]] \ {n}
        BY <1>12
      <3>. QED
        BY <3>1, <3>2
    <2>3. ASSUME NEW m \in V, NEW x \in sub2[m]
          PROVE  sub2[x] \subseteq sub2[m] /\ (x # m => up2[x] \in sub2[m])
      <3>1. x \in sub[m] /\ x # n /\ x \in V /\ sub2[m] = sub[m] \ {n} /\ sub2[x] = sub[x] \ {n}
        BY <1>1, <1>2, <1>10, <2>3
      <3>2. sub[x] \subseteq sub[m] /\ (x # m => up[x] \in sub[m])
        BY <1>6, <3>1
      <3>3. x # m => up2[x] \in sub[m] /\ up2[x] # n
        <4>1. SUFFICES ASSUME x # m PROVE up2[x] \in sub[m] /\ up2[x] # n
          OBVIOUS
        <4>2. up2[x] # n
          <5>1. up2[x] \in V \cup {NIL}
            BY <1>4, <3>1 DEF Linked
          <5>. QED
            BY <1>2, <5>1
        <4>3. CASE x = son
          <5>1. n \in sub[m] /\ up2[x] = p
            BY <1>3, <1>5, <3>1, <3>2, <4>1, <4>3
          <5>2. p \in sub[m]
            BY <1>6, <5>1
          <5>. QED
            BY <4>2, <5>1, <5>2
        <4>4. CASE x # son
          BY <1>3, <3>1, <3>2, <4>1, <4>2, <4>4
        <4>. QED
          BY <4>3, <4>4
      <3>. QED
        BY <3>1, <3>2, <3>3
    <2>. HIDE DEF V
    <2>. QED
      BY <1>10, <2>1, <2>2, <2>3 DEF Nested
  <1>14. n \in sub[found]
         /\ (found # n => /\ \A x \in sub[near[found]] \ {n} : w[x] < w[n]
                          /\ \A x \in sub[far[found]] \ {n} : w[n] < w[x])
    BY DEF Stands
  <1>15. Ordered(near2, far2, V, sub2, w2)
    <2>1. ASSUME NEW m \in V, NEW x \in sub2[near2[m]] PROVE w2[x] < w2[m]
      <3>1. x \in sub[near[m]] \ {n} /\ x \in V
        <4>1. sub[near[m]] \subseteq U
          BY <1>1, <1>2, <1>5
        <4>. QED
          BY <1>12, <2>1, <4>1
      <3>2. w[x] < w[m] /\ x # m
        BY <1>7, <1>8, <3>1
      <3>3. CASE x = found
        <4>1. n \in sub[near[m]]
          <5>1. near[m] # NIL /\ near[m] \in U
            BY <1>5, <1>6, <3>1
          <5>. QED
            BY <1>6, <1>14, <3>1, <3>3, <5>1
        <4>2. w[n] < w[m]
          BY <1>7, <4>1
        <4>. QED
          BY <1>3, <3>1, <3>2, <3>3, <4>2
      <3>4. CASE m = found
        <4>1. found # n
          BY <3>4
        <4>2. w[x] < w[n]
          BY <1>14, <3>1, <3>4, <4>1
        <4>. QED
          BY <1>3, <3>1, <3>2, <3>4, <4>2
      <3>5. CASE x # found /\ m # found
        BY <1>3, <3>1, <3>2, <3>5
      <3>. QED
        BY <3>3, <3>4, <3>5
    <2>2. ASSUME NEW m \in V, NEW x \in sub2[far2[m]] PROVE w2[m] < w2[x]
      <3>1. x \in sub[far[m]] \ {n} /\ x \in V
        <4>1. sub[far[m]] \subseteq U
          BY <1>1, <1>2, <1>5
        <4>. QED
          BY <1>12, <2>2, <4>1
      <3>2. w[m] < w[x] /\ x # m
        BY <1>7, <1>8, <3>1
      <3>3. CASE x = found
        <4>1. n \in sub[far[m]]
          <5>1. far[m] # NIL /\ far[m] \in U
            BY <1>5, <1>6, <3>1
          <5>. QED
            BY <1>6, <1>14, <3>1, <3>3, <5>1
        <4>2. w[m] < w[n]
          BY <1>7, <4>1
        <4>. QED
          BY <1>3, <3>1, <3>2, <3>3, <4>2
      <3>4. CASE m = found
        <4>1. found # n
          BY <3>4
        <4>2. w[n] < w[x]
          BY <1>14, <3>1, <3>4, <4>1
        <4>. QED
          BY <1>3, <3>1, <3>2, <3>4, <4>2
      <3>5. CASE x # found /\ m # found
        BY <1>3, <3>1, <3>2, <3>5
      <3>. QED
        BY <3>3, <3>4, <3>5
    <2>. HIDE DEF V
    <2>. QED
      BY <2>1, <2>2 DEF Ordered
  <1>. HIDE DEF V
  <1>16. Shape(near2, far2, up2, root2, V, sub2, w2)
    BY <1>2, <1>3, <1>4, <1>10, <1>13, <1>15 DEF Shape
  <1>. QED
    BY <1>16 DEF V

-----------------------------------------------------------------------------
(* The repair after a removal ends at once at a red node.                  *)
LEMMA RemoveLoop ==
  ASSUME NEW t, NEW n, t.red[n]
  PROVE  fixAfterRemove(t, n) = Paint(t, n, FALSE)
  <1>. DEFINE s == [tree |-> t, at |-> n]
              Raw(f) == [i \in 0 .. NNode |-> IF i = 0 THEN s ELSE RemoveTurn(f[i - 1])]
              w == CHOOSE f : f = Raw(f)
              c == [i \in 0 .. NNode |-> s]
              T == {i \in 0 .. NNode : w[i] = s}
  <1>1. fixAfterRemove(t, n) = Paint(w[NNode].tree, w[NNode].at, FALSE)
    BY DEF fixAfterRemove
  <1>2. RemoveTurn(s) = s
    BY DEF RemoveTurn
  <1>3. s.tree = t /\ s.at = n /\ NNode \in Nat
    BY Nodes
  <1>. HIDE DEF s
  <1>4. c = Raw(c)
    BY <1>2, <1>3
  <1>5. w = Raw(w)
    BY <1>4
  <1>. HIDE DEF w
  <1>6. 0 \in T
    BY <1>3, <1>5
  <1>7. ASSUME NEW i \in 1 .. NNode, i - 1 \in T PROVE i \in T
    <2>1. i \in 0 .. NNode /\ i # 0 /\ w[i - 1] = s
      BY <1>3, <1>7
    <2>2. w[i] = RemoveTurn(w[i - 1])
      BY <1>5, <2>1
    <2>. QED
      BY <1>2, <2>1, <2>2
  <1>. HIDE DEF T
  <1>8. NNode \in T
    BY <1>3, <1>6, <1>7, Inductive
  <1>9. w[NNode] = s
    BY <1>8 DEF T
  <1>. QED
    BY <1>1, <1>3, <1>9

(* The tree without n, whose child son has taken its place and turned      *)
(* black, and whose key found has got.                                     *)
Dropped(t, u, found, n, son) ==
    /\ u \in Tree
    /\ u.root = IF t.parent[n] = NIL THEN son ELSE t.root
    /\ u.total = t.total - 1 /\ u.used = t.used \ {n} /\ u.bent = t.bent
    /\ \A m \in Node0 \ {n} :
           /\ u.key[m] = IF m = found THEN t.key[n] ELSE t.key[m]
           /\ u.red[m] <=> m # son /\ t.red[m]
           /\ u.parent[m] = IF m = son THEN t.parent[n] ELSE t.parent[m]
           /\ u.left[m] = IF m = t.parent[n] /\ m # NIL /\ t.left[m] = n THEN son ELSE t.left[m]
           /\ u.right[m] = IF m = t.parent[n] /\ m # NIL /\ t.left[m] # n THEN son ELSE t.right[m]

(* The types when a node is cut off.                                       *)
LEMMA CutTree ==
  ASSUME NEW t \in Tree, NEW found \in Node, NEW n \in Node, NEW son \in Node, NEW p \in Node0
  PROVE  Cut(t, found, n, son, p) \in Tree
  <1>. DEFINE t1 == [t EXCEPT !.key[found] = t.key[n]]
              t2 == [t1 EXCEPT !.parent[son] = p]
              t3 == [t2 EXCEPT !.root = IF p = NIL THEN son ELSE t.root]
              t4 == [t3 EXCEPT !.left[p] = IF p # NIL /\ t.left[p] = n THEN son ELSE t.left[p]]
              t5 == [t4 EXCEPT !.right[p] = IF p # NIL /\ t.left[p] # n THEN son ELSE t.right[p]]
  <1>0. /\ t.root \in Node0 /\ t.left[p] \in Node0 /\ t.right[p] \in Node0 /\ t.key[n] \in Nat
        /\ n \in Node0 /\ son \in Node0 /\ found \in Node0
    BY Nodes DEF Tree
  <1>1. t1 \in Tree
    BY <1>0 DEF Tree
  <1>. HIDE DEF t1
  <1>2. t2 \in Tree
    BY <1>0, <1>1, SetIs
  <1>. HIDE DEF t2
  <1>3. t3 \in Tree
    BY <1>0, <1>2, SetIs
  <1>. HIDE DEF t3
  <1>4. t4 \in Tree
    BY <1>0, <1>3, SetIs
  <1>. HIDE DEF t4
  <1>5. t5 \in Tree
    BY <1>0, <1>4, SetIs
  <1>6. Cut(t, found, n, son, p) = t5
    BY DEF Cut, MovedKey, t1, t2, t3, t4
  <1>. QED
    BY <1>5, <1>6

(* The types when a node is freed.                                         *)
LEMMA FreedTree ==
  ASSUME NEW t \in Tree, NEW n \in Node, t.total # 0
  PROVE  Freed(t, n) \in Tree
  <1>. DEFINE t1 == [t EXCEPT !.used = t.used \ {n}]
              t2 == [t1 EXCEPT !.total = t.total - 1]
              t3 == [t2 EXCEPT !.key[n] = 0]
              t4 == [t3 EXCEPT !.red[n] = FALSE]
              t5 == [t4 EXCEPT !.left[n] = NIL]
              t6 == [t5 EXCEPT !.right[n] = NIL]
              t7 == [t6 EXCEPT !.parent[n] = NIL]
  <1>0. t.total - 1 \in Nat /\ t.used \ {n} \in SUBSET Node /\ n \in Node0 /\ NIL \in Node0
    BY Nodes DEF Tree
  <1>1. t1 \in Tree
    BY <1>0 DEF Tree
  <1>. HIDE DEF t1
  <1>2. t2 \in Tree
    BY <1>0, <1>1 DEF Tree
  <1>. HIDE DEF t2
  <1>3. t3 \in Tree
    BY <1>0, <1>2 DEF Tree
  <1>. HIDE DEF t3
  <1>4. t4 \in Tree
    BY <1>0, <1>3 DEF Tree
  <1>. HIDE DEF t4
  <1>5. t5 \in Tree
    BY <1>0, <1>4, SetIs
  <1>. HIDE DEF t5
  <1>6. t6 \in Tree
    BY <1>0, <1>5, SetIs
  <1>. HIDE DEF t6
  <1>7. t7 \in Tree
    BY <1>0, <1>6, SetIs
  <1>8. Freed(t, n) = t7
    BY DEF Freed, t1, t2, t3, t4, t5, t6
  <1>. QED
    BY <1>7, <1>8

(* Which fields a removal changes that ends with one black child.          *)
LEMMA DroppedIs ==
  ASSUME NEW t \in Tree, NEW found \in Node, NEW n \in Node, NEW son \in Node, son # n,
         t.total # 0, NEW u, u = Freed(Paint(Cut(t, found, n, son, t.parent[n]), son, FALSE), n)
  PROVE  Dropped(t, u, found, n, son)
  <1>. DEFINE p == t.parent[n]
              v == Cut(t, found, n, son, p)
              x == Paint(v, son, FALSE)
  <1>1. /\ p \in Node0 /\ n \in Node0 /\ son \in Node0 /\ found \in Node0 /\ son # NIL
        /\ t.left \in [Node0 -> Node0] /\ t.right \in [Node0 -> Node0]
        /\ t.parent \in [Node0 -> Node0] /\ t.red \in [Node0 -> BOOLEAN] /\ t.key \in [Node0 -> Nat]
    BY Nodes DEF Tree
  <1>. HIDE DEF p
  <1>2. v \in Tree
    BY <1>1, CutTree
  <1>3. v.root = IF p = NIL THEN son ELSE t.root
    BY DEF Cut, Tree
  <1>20. v.key = [t.key EXCEPT ![found] = t.key[n]]
    BY DEF Cut, MovedKey, Tree
  <1>21. v.parent = [t.parent EXCEPT ![son] = p]
    BY DEF Cut, Tree
  <1>22. v.left = [t.left EXCEPT ![p] = IF p # NIL /\ t.left[p] = n THEN son ELSE @]
    BY DEF Cut, Tree
  <1>23. v.right = [t.right EXCEPT ![p] = IF p # NIL /\ t.left[p] # n THEN son ELSE @]
    BY DEF Cut, Tree
  <1>4. v.total = t.total /\ v.used = t.used /\ v.bent = t.bent /\ v.red = t.red
    BY DEF Cut, Tree
  <1>. HIDE DEF v
  <1>5. x \in Tree /\ x = [v EXCEPT !.red = x.red]
        /\ \A m \in Node0 : x.red[m] = IF m = son /\ son # NIL THEN FALSE ELSE v.red[m]
    BY <1>1, <1>2, PaintIs
  <1>. HIDE DEF x
  <1>6. /\ x.key = v.key /\ x.parent = v.parent /\ x.root = v.root /\ x.left = v.left
        /\ x.right = v.right /\ x.total = v.total /\ x.used = v.used /\ x.bent = v.bent
    BY <1>2, <1>5 DEF Tree
  <1>7. u = Freed(x, n) /\ u \in Tree
    <2>1. u = Freed(x, n)
      BY DEF x, v, p
    <2>. QED
      BY <1>4, <1>5, <1>6, <2>1, FreedTree
  <1>8. u.root = x.root /\ u.total = x.total - 1 /\ u.used = x.used \ {n} /\ u.bent = x.bent
    BY <1>5, <1>7 DEF Freed, Tree
  <1>24. u.key = [x.key EXCEPT ![n] = 0] /\ x.key \in [Node0 -> Nat]
    BY <1>5, <1>7 DEF Freed, Tree
  <1>25. u.parent = [x.parent EXCEPT ![n] = NIL] /\ x.parent \in [Node0 -> Node0]
    BY <1>5, <1>7 DEF Freed, Tree
  <1>26. u.left = [x.left EXCEPT ![n] = NIL] /\ x.left \in [Node0 -> Node0]
    BY <1>5, <1>7 DEF Freed, Tree
  <1>27. u.right = [x.right EXCEPT ![n] = NIL] /\ x.right \in [Node0 -> Node0]
    BY <1>5, <1>7 DEF Freed, Tree
  <1>28. u.red = [x.red EXCEPT ![n] = FALSE] /\ x.red \in [Node0 -> BOOLEAN]
    BY <1>5, <1>7 DEF Freed, Tree
  <1>9. /\ u.key \in [Node0 -> Nat] /\ u.parent \in [Node0 -> Node0] /\ u.left \in [Node0 -> Node0]
        /\ u.right \in [Node0 -> Node0] /\ u.red \in [Node0 -> BOOLEAN]
    BY <1>7 DEF Tree
  <1>10. \A m \in Node0 \ {n} : u.key[m] = IF m = found THEN t.key[n] ELSE t.key[m]
    <2>1. \A m \in Node0 \ {n} : u.key[m] = v.key[m]
      <3>1. \A m \in Node0 \ {n} : u.key[m] = x.key[m]
        BY <1>24
      <3>2. x.key = v.key
        BY <1>6
      <3>. QED
        BY <3>1, <3>2
    <2>2. \A m \in Node0 : v.key[m] = IF m = found THEN t.key[n] ELSE t.key[m]
      BY <1>1, <1>20
    <2>. QED
      BY <2>1, <2>2
  <1>11. \A m \in Node0 \ {n} : u.red[m] <=> m # son /\ t.red[m]
    <2>1. \A m \in Node0 \ {n} : u.red[m] <=> x.red[m]
      BY <1>28
    <2>2. \A m \in Node0 : x.red[m] <=> m # son /\ t.red[m]
      BY <1>1, <1>4, <1>5
    <2>. QED
      BY <2>1, <2>2
  <1>12. \A m \in Node0 \ {n} : u.parent[m] = IF m = son THEN p ELSE t.parent[m]
    <2>1. \A m \in Node0 \ {n} : u.parent[m] = v.parent[m]
      <3>1. \A m \in Node0 \ {n} : u.parent[m] = x.parent[m]
        BY <1>25
      <3>2. x.parent = v.parent
        BY <1>6
      <3>. QED
        BY <3>1, <3>2
    <2>2. \A m \in Node0 : v.parent[m] = IF m = son THEN p ELSE t.parent[m]
      BY <1>1, <1>21
    <2>. QED
      BY <2>1, <2>2
  <1>13. \A m \in Node0 \ {n} :
            u.left[m] = IF m = p /\ m # NIL /\ t.left[m] = n THEN son ELSE t.left[m]
    <2>1. \A m \in Node0 \ {n} : u.left[m] = v.left[m]
      <3>1. \A m \in Node0 \ {n} : u.left[m] = x.left[m]
        BY <1>26
      <3>2. x.left = v.left
        BY <1>6
      <3>. QED
        BY <3>1, <3>2
    <2>2. \A m \in Node0 :
             v.left[m] = IF m = p /\ m # NIL /\ t.left[m] = n THEN son ELSE t.left[m]
      BY <1>1, <1>22
    <2>. QED
      BY <2>1, <2>2
  <1>14. \A m \in Node0 \ {n} :
            u.right[m] = IF m = p /\ m # NIL /\ t.left[m] # n THEN son ELSE t.right[m]
    <2>1. \A m \in Node0 \ {n} : u.right[m] = v.right[m]
      <3>1. \A m \in Node0 \ {n} : u.right[m] = x.right[m]
        BY <1>27
      <3>2. x.right = v.right
        BY <1>6
      <3>. QED
        BY <3>1, <3>2
    <2>2. \A m \in Node0 :
             v.right[m] = IF m = p /\ m # NIL /\ t.left[m] # n THEN son ELSE t.right[m]
      BY <1>1, <1>23
    <2>. QED
      BY <2>1, <2>2
  <1>15. /\ u \in Tree /\ u.root = IF p = NIL THEN son ELSE t.root
         /\ u.total = t.total - 1 /\ u.used = t.used \ {n} /\ u.bent = t.bent
    <2>1. u.root = v.root /\ u.total = v.total - 1 /\ u.used = v.used \ {n} /\ u.bent = v.bent
      BY <1>6, <1>8
    <2>. QED
      BY <1>3, <1>4, <1>7, <2>1
  <1>16. \A m \in Node0 \ {n} :
            /\ u.key[m] = IF m = found THEN t.key[n] ELSE t.key[m]
            /\ u.red[m] <=> m # son /\ t.red[m]
            /\ u.parent[m] = IF m = son THEN p ELSE t.parent[m]
            /\ u.left[m] = IF m = p /\ m # NIL /\ t.left[m] = n THEN son ELSE t.left[m]
            /\ u.right[m] = IF m = p /\ m # NIL /\ t.left[m] # n THEN son ELSE t.right[m]
    BY <1>10, <1>11, <1>12, <1>13, <1>14
  <1>. QED
    BY <1>15, <1>16 DEF Dropped, p

(* An only child is red, below a black node: the other side has no black   *)
(* node.                                                                   *)
LEMMA OnlySon ==
  ASSUME NEW t, NEW sub, NEW h, Sound(t, sub, h), NEW n \in t.used, NEW son \in t.used,
         {t.left[n], t.right[n]} = {son, NIL}
  PROVE  t.red[son] /\ ~t.red[n] /\ son # n /\ t.parent[son] = n /\ h[son] = 0
  <1>1. Tidy(t, sub) /\ Tinted(t, t.red, h) /\ Calm(t, NIL)
    BY DEF Sound
  <1>2. son # NIL /\ son # n /\ t.parent[son] = n /\ n # NIL
    BY <1>1, TidyNode
  <1>3. h[NIL] = 0 /\ h[t.left[n]] = h[t.right[n]]
    BY <1>1 DEF Tinted
  <1>4. h[son] = 0
    BY <1>3
  <1>5. t.red[son]
    <2>1. h[son] = h[t.left[son]] + (IF t.red[son] THEN 0 ELSE 1) /\ h[t.left[son]] \in Nat
      <3>1. t.left[son] \in Node0
        BY <1>1, TidyNode, Nodes
      <3>. QED
        BY <1>1, <3>1 DEF Tinted
    <2>. QED
      BY <1>4, <2>1
  <1>6. ~t.red[n]
    BY <1>1, <1>2, <1>5 DEF Calm
  <1>. QED
    BY <1>2, <1>4, <1>5, <1>6

(* Every link down to n leads to its son.                                  *)
Closed(t, u, n, son) ==
    \A m \in t.used \ {n} : /\ u.left[m] = IF t.left[m] = n THEN son ELSE t.left[m]
                            /\ u.right[m] = IF t.right[m] = n THEN son ELSE t.right[m]

(* Such a removal keeps the search tree.                                   *)
LEMMA DroppedTidy ==
  ASSUME NEW t, NEW sub, Tidy(t, sub), NEW n \in t.used, NEW son \in t.used,
         {t.left[n], t.right[n]} = {son, NIL}, NEW found \in t.used,
         Stands(t.left, t.right, sub, t.key, n, found), NEW u, Dropped(t, u, found, n, son)
  PROVE  (\E sub2 : Tidy(u, sub2)) /\ Closed(t, u, n, son)
  <1>. DEFINE U == t.used
  <1>1. /\ t \in Tree /\ Shape(t.left, t.right, t.parent, t.root, U, sub, t.key)
        /\ t.left[NIL] = NIL /\ t.right[NIL] = NIL /\ t.parent[NIL] = NIL /\ t.red[NIL] = FALSE
    BY DEF Tidy
  <1>2. U \subseteq Node /\ U \subseteq Node0 /\ NIL \in Node0 /\ NIL \notin U
    BY <1>1, Nodes DEF Tree
  <1>3. /\ u \in Tree /\ u.used = U \ {n}
        /\ u.root = IF t.parent[n] = NIL THEN son ELSE t.root
        /\ \A m \in Node0 \ {n} : /\ u.key[m] = IF m = found THEN t.key[n] ELSE t.key[m]
                                  /\ u.red[m] <=> m # son /\ t.red[m]
                                  /\ u.parent[m] = IF m = son THEN t.parent[n] ELSE t.parent[m]
    BY DEF Dropped
  <1>4. u.left[NIL] = NIL /\ u.right[NIL] = NIL /\ u.parent[NIL] = NIL /\ u.red[NIL] = FALSE
    <2>1. NIL \in Node0 \ {n} /\ NIL # son
      BY <1>2
    <2>2. u.left[NIL] = NIL /\ u.right[NIL] = NIL
      BY <1>1, <2>1 DEF Dropped
    <2>3. u.parent[NIL] = NIL
      BY <1>1, <1>3, <2>1
    <2>4. ~u.red[NIL]
      BY <1>1, <1>3, <2>1
    <2>5. u.red[NIL] \in BOOLEAN
      BY <1>2, <1>3 DEF Tree
    <2>. QED
      BY <2>2, <2>3, <2>4, <2>5
  <1>5. ASSUME NEW m \in U \ {n}
        PROVE  /\ u.left[m] = IF t.left[m] = n THEN son ELSE t.left[m]
               /\ u.right[m] = IF t.right[m] = n THEN son ELSE t.right[m]
    <2>1. m \in Node0 \ {n} /\ m # NIL
      BY <1>2
    <2>2. /\ u.left[m] = IF m = t.parent[n] /\ m # NIL /\ t.left[m] = n THEN son ELSE t.left[m]
          /\ u.right[m] = IF m = t.parent[n] /\ m # NIL /\ t.left[m] # n THEN son ELSE t.right[m]
      BY <2>1 DEF Dropped
    <2>3. t.left[m] = n \/ t.right[m] = n => m = t.parent[n]
      <3>1. n # NIL
        BY <1>2
      <3>2. /\ t.left[m] # NIL => t.parent[t.left[m]] = m
            /\ t.right[m] # NIL => t.parent[t.right[m]] = m
        BY TidyNode
      <3>. QED
        BY <3>1, <3>2
    <2>4. m = t.parent[n] => (t.left[m] = n /\ t.right[m] # n) \/ (t.right[m] = n /\ t.left[m] # n)
      BY <2>1, TidyNode
    <2>. QED
      BY <2>1, <2>2, <2>3, <2>4
  <1>6. /\ u.left \in [Node0 -> Node0] /\ u.right \in [Node0 -> Node0]
        /\ u.parent \in [Node0 -> Node0] /\ u.key \in [Node0 -> Int]
    BY <1>3 DEF Tree
  <1>7. Unhooked(t.left, t.right, t.parent, t.root, u.left, u.right, u.parent, u.root,
                 U, t.key, u.key, sub, n, son, found)
    <2>1. \A m \in U \ {n} : /\ u.parent[m] = IF m = son THEN t.parent[n] ELSE t.parent[m]
                             /\ u.key[m] = IF m = found THEN t.key[n] ELSE t.key[m]
      BY <1>2, <1>3
    <2>. HIDE DEF U
    <2>. QED
      BY <1>3, <1>5, <1>6, <2>1 DEF Unhooked
  <1>8. \E sub2 : Shape(u.left, u.right, u.parent, u.root, U \ {n}, sub2, u.key)
    <2>. HIDE DEF U
    <2>1. n \in U /\ son \in U /\ found \in U
      BY DEF U
    <2>. QED
      BY <1>1, <1>7, <2>1, UnhookedShape
  <1>. QED
    BY <1>3, <1>4, <1>5, <1>8 DEF Tidy, Closed

(* And the colours: the node was black, its child is black now.            *)
LEMMA DroppedSound ==
  ASSUME NEW t, NEW sub, NEW h, Sound(t, sub, h), NEW n \in t.used, NEW son \in t.used,
         {t.left[n], t.right[n]} = {son, NIL}, NEW found \in t.used,
         Stands(t.left, t.right, sub, t.key, n, found), NEW u, Dropped(t, u, found, n, son)
  PROVE  \E sub2, h2 : Sound(u, sub2, h2)
  <1>. DEFINE h2 == [h EXCEPT ![son] = 1]
              U == t.used
              V == U \ {n}
  <1>1. Tidy(t, sub) /\ Tinted(t, t.red, h) /\ Calm(t, NIL) /\ ~t.red[t.root] /\ ~t.bent
    BY DEF Sound
  <1>2. t.red[son] /\ ~t.red[n] /\ son # n /\ t.parent[son] = n /\ h[son] = 0
    BY OnlySon
  <1>3. PICK sub2 : Tidy(u, sub2)
    BY <1>1, DroppedTidy
  <1>4. \A m \in V : /\ u.left[m] = IF t.left[m] = n THEN son ELSE t.left[m]
                     /\ u.right[m] = IF t.right[m] = n THEN son ELSE t.right[m]
    <2>1. Closed(t, u, n, son)
      BY <1>1, DroppedTidy
    <2>. QED
      BY <2>1 DEF Closed
  <1>5. U \subseteq Node /\ U \subseteq Node0 /\ NIL \in Node0 /\ NIL \notin U
    BY <1>1, TidyRoot, Nodes
  <1>6. /\ u.used = V /\ u.bent = t.bent
        /\ u.root = IF t.parent[n] = NIL THEN son ELSE t.root
        /\ \A m \in V \cup {NIL} :
               /\ u.red[m] <=> m # son /\ t.red[m]
               /\ u.parent[m] = IF m = son THEN t.parent[n] ELSE t.parent[m]
    BY <1>5 DEF Dropped
  <1>7. h \in [Node0 -> Nat] /\ h[NIL] = 0
        /\ \A m \in U : /\ h[t.left[m]] = h[t.right[m]]
                        /\ h[m] = h[t.left[m]] + (IF t.red[m] THEN 0 ELSE 1)
    BY <1>1 DEF Tinted
  <1>8. \A m \in U : /\ t.left[m] \in U \cup {NIL} /\ t.right[m] \in U \cup {NIL}
                     /\ (t.left[m] # NIL => t.parent[t.left[m]] = m)
                     /\ (t.right[m] # NIL => t.parent[t.right[m]] = m)
                     /\ t.parent[m] \in U \cup {NIL}
    BY <1>1, TidyNode
  <1>9. h2 \in [Node0 -> Nat] /\ h2[son] = 1 /\ \A m \in Node0 \ {son} : h2[m] = h[m]
    BY <1>5, <1>7
  <1>. HIDE DEF h2
  <1>10. h[n] = 1
    BY <1>2, <1>7
  <1>11. ASSUME NEW m \in V, NEW b, b = t.left[m] \/ b = t.right[m]
         PROVE  h2[IF b = n THEN son ELSE b] = h[b] /\ b # son
    <2>1. b \in U \cup {NIL} /\ (b # NIL => t.parent[b] = m) /\ m # n
      BY <1>8, <1>11
    <2>2. b # son
      BY <1>2, <1>5, <2>1
    <2>. QED
      BY <1>5, <1>9, <1>10, <2>1, <2>2
  <1>12. Tinted(u, u.red, h2)
    <2>1. h2[NIL] = 0
      BY <1>5, <1>7, <1>9
    <2>2. ASSUME NEW m \in V
          PROVE  /\ h2[u.left[m]] = h2[u.right[m]]
                 /\ h2[m] = h2[u.left[m]] + (IF u.red[m] THEN 0 ELSE 1)
      <3>1. h2[u.left[m]] = h[t.left[m]] /\ h2[u.right[m]] = h[t.right[m]]
        BY <1>4, <1>11
      <3>2. h[t.left[m]] = h[t.right[m]] /\ h[m] = h[t.left[m]] + (IF t.red[m] THEN 0 ELSE 1)
        BY <1>7
      <3>3. CASE m = son
        <4>1. ~u.red[m] /\ t.red[m] /\ h[m] = 0 /\ h2[m] = 1
          BY <1>2, <1>6, <1>9, <3>3
        <4>2. h[t.left[m]] \in Nat
          BY <1>5, <1>7, <1>8
        <4>. QED
          BY <3>1, <3>2, <4>1, <4>2
      <3>4. CASE m # son
        <4>1. (u.red[m] <=> t.red[m]) /\ h2[m] = h[m]
          BY <1>5, <1>6, <1>9, <3>4
        <4>. QED
          BY <3>1, <3>2, <4>1
      <3>. QED
        BY <3>3, <3>4
    <2>. QED
      BY <1>6, <1>9, <2>1, <2>2 DEF Tinted
  <1>13. Calm(u, NIL)
    <2>1. ASSUME NEW m \in V, u.red[m], u.parent[m] # NIL PROVE ~u.red[u.parent[m]]
      <3>1. m # son /\ t.red[m] /\ u.parent[m] = t.parent[m] /\ t.parent[m] # NIL
        BY <1>6, <2>1
      <3>2. ~t.red[t.parent[m]]
        BY <1>1, <1>5, <3>1 DEF Calm
      <3>3. t.parent[m] \in V
        <4>1. t.parent[m] = n => m = son
          <5>1. t.parent[m] # NIL => m = t.left[t.parent[m]] \/ m = t.right[t.parent[m]]
            BY <1>1, TidyNode
          <5>2. m # NIL
            BY <1>5
          <5>. QED
            BY <3>1, <5>1, <5>2
        <4>. QED
          BY <1>8, <3>1, <4>1
      <3>. QED
        BY <1>6, <3>1, <3>2, <3>3
    <2>. QED
      BY <1>6, <2>1 DEF Calm
  <1>14. ~u.red[u.root]
    <2>1. CASE t.parent[n] = NIL
      BY <1>2, <1>6, <2>1
    <2>2. CASE t.parent[n] # NIL
      <3>1. t.root \in U \cup {NIL} /\ t.parent[t.root] = NIL
        BY <1>1, TidyRoot
      <3>2. t.root \in V \cup {NIL} /\ u.root = t.root
        BY <1>6, <2>2, <3>1
      <3>. QED
        BY <1>1, <1>6, <3>2
    <2>. QED
      BY <2>1, <2>2
  <1>. QED
    BY <1>1, <1>3, <1>6, <1>12, <1>13, <1>14 DEF Sound

-----------------------------------------------------------------------------
(* treeRemove.                                                             *)
LEMMA EmptySound ==
  ASSUME NEW total \in Nat, NEW u, u = [newTree EXCEPT !.total = total]
  PROVE  /\ \E sub, h : Sound(u, sub, h)
         /\ u \in Tree /\ u.total = total /\ u.root = NIL /\ u.used = {} /\ Keys(u) = {}
  <1>. DEFINE sub == [m \in Node0 |-> {}]
              h == [m \in Node0 |-> 0]
              links == [m \in Node0 |-> NIL]
              red == [m \in Node0 |-> FALSE]
              key == [m \in Node0 |-> 0]
  <1>1. /\ u.root = NIL /\ u.total = total /\ u.used = {} /\ u.bent = FALSE
        /\ u.left = links /\ u.right = links /\ u.parent = links /\ u.red = red /\ u.key = key
    BY DEF newTree
  <1>2. u \in Tree
    <2>1. newTree \in Tree
      BY Nodes DEF newTree, Tree
    <2>. QED
      BY <2>1 DEF Tree
  <1>3. NIL \in Node0
    BY Nodes
  <1>4. sub \in [Node0 -> SUBSET {}] /\ sub[NIL] = {} /\ h \in [Node0 -> Nat] /\ h[NIL] = 0
    BY <1>3
  <1>5. links[NIL] = NIL /\ red[NIL] = FALSE
    BY <1>3
  <1>. HIDE DEF sub, h, links, red, key
  <1>6. /\ Linked(u.left, u.right, u.parent, NIL, {})
        /\ Nested(u.left, u.right, u.parent, NIL, {}, sub)
        /\ Ordered(u.left, u.right, {}, sub, u.key)
    BY <1>4 DEF Linked, Nested, Ordered
  <1>7. /\ u.left \in [Node0 -> Node0] /\ u.right \in [Node0 -> Node0]
        /\ u.parent \in [Node0 -> Node0] /\ u.key \in [Node0 -> Int]
    BY <1>2 DEF Tree
  <1>8. Shape(u.left, u.right, u.parent, u.root, u.used, sub, u.key)
    BY <1>1, <1>4, <1>6, <1>7 DEF Shape
  <1>9. Tidy(u, sub)
    BY <1>1, <1>2, <1>5, <1>8 DEF Tidy
  <1>10. Sound(u, sub, h)
    BY <1>1, <1>4, <1>5, <1>9 DEF Sound, Tinted, Calm
  <1>11. Keys(u) = {}
    BY <1>1, <1>9, ReachedTidy DEF Keys
  <1>. QED
    BY <1>1, <1>2, <1>10, <1>11

(* The keys found by FOREACH_TREE are those of all nodes in use.           *)
LEMMA TidyKeys ==
  ASSUME NEW t, NEW sub, Tidy(t, sub)
  PROVE  Keys(t) = {t.key[m] : m \in t.used}
  BY ReachedTidy DEF Keys

(* A lookup finds the keys and nothing else.                                *)
LEMMA FoundKey ==
  ASSUME NEW t, NEW sub, NEW h, Sound(t, sub, h), NEW k \in Nat
  PROVE  Lookup(t, k) # NIL <=> k \in Keys(t)
  <1>1. Tidy(t, sub)
    BY DEF Sound
  <1>2. Keys(t) = {t.key[m] : m \in t.used}
    BY <1>1, TidyKeys
  <1>3. \A m \in t.used : m # NIL
    BY <1>1, TidyNode
  <1>. QED
    BY <1>1, <1>2, <1>3, LookupIs

(* One node less, and one key, unless the node had no child: then the tree *)
(* is empty.                                                               *)
Removed(t, u, k) ==
    /\ u \in Tree /\ u.total = t.total - 1
    /\ u.used = {} \/ \E n \in t.used : u.used = t.used \ {n}
    /\ (u.root = NIL /\ Keys(u) = {}) \/ Keys(u) = Keys(t) \ {k}

(* n can be taken out for found.                                           *)
Takes(t, sub, found, n) ==
    /\ found \in t.used /\ n \in t.used
    /\ t.left[n] = NIL \/ t.right[n] = NIL
    /\ Stands(t.left, t.right, sub, t.key, n, found)

(* A removal removes one key and no other.                                 *)
LEMMA DroppedKeys ==
  ASSUME NEW t, NEW sub, Tidy(t, sub), NEW n \in t.used, NEW found \in t.used, NEW son,
         NEW u, NEW sub2, Tidy(u, sub2), Dropped(t, u, found, n, son),
         NEW k, k = t.key[found]
  PROVE  Keys(u) = Keys(t) \ {k}
  <1>. DEFINE U == t.used
              V == U \ {n}
  <1>1. t \in Tree /\ U \subseteq Node0 /\ t.key \in [Node0 -> Nat]
    BY TidyRoot, Nodes DEF Tidy, Tree
  <1>2. k \in Nat
    BY <1>1
  <1>3. \A x \in U : t.key[x] = k => x = found
    BY <1>2, LookupIs
  <1>4. u.used = V /\ \A m \in V : u.key[m] = IF m = found THEN t.key[n] ELSE t.key[m]
    BY <1>1 DEF Dropped
  <1>5. Keys(t) = {t.key[m] : m \in U} /\ Keys(u) = {u.key[m] : m \in V}
    BY <1>4, TidyKeys
  <1>6. ASSUME NEW m \in V PROVE u.key[m] \in {t.key[x] : x \in U} \ {k}
    BY <1>3, <1>4
  <1>7. ASSUME NEW m \in U, t.key[m] # k PROVE \E x \in V : u.key[x] = t.key[m]
    <2>1. CASE m = n
      <3>1. found \in V /\ u.key[found] = t.key[n]
        BY <1>4, <1>7, <2>1
      <3>. QED
        BY <2>1, <3>1
    <2>2. CASE m # n
      <3>1. m \in V /\ u.key[m] = t.key[m]
        BY <1>4, <1>7, <2>2
      <3>. QED
        BY <3>1
    <2>. QED
      BY <2>1, <2>2
  <1>. HIDE DEF U, V
  <1>. QED
    BY <1>5, <1>6, <1>7

(* A node with at most one child can be taken out.                         *)
LEMMA TakeOutSound ==
  ASSUME NEW t, NEW sub, NEW h, Sound(t, sub, h), t.total # 0,
         NEW found, NEW n, Takes(t, sub, found, n), NEW u, u = TakeOut(t, found, n)
  PROVE  Removed(t, u, t.key[found]) /\ \E sub2, h2 : Sound(u, sub2, h2)
  <1>. DEFINE son == IF t.left[n] # NIL THEN t.left[n] ELSE t.right[n]
              v == Cut(t, found, n, son, t.parent[n])
  <1>1. Tidy(t, sub) /\ t \in Tree /\ t.total - 1 \in Nat
    <2>1. Tidy(t, sub) /\ t \in Tree
      BY DEF Sound, Tidy
    <2>2. t.total \in Nat
      BY <2>1 DEF Tree
    <2>. QED
      BY <2>1, <2>2
  <1>2. /\ found \in t.used /\ n \in t.used
        /\ Stands(t.left, t.right, sub, t.key, n, found)
        /\ t.left[n] = NIL \/ t.right[n] = NIL
    BY DEF Takes
  <1>3. u = Taken(t, found, n, son)
    BY DEF TakeOut
  <1>4. son # NIL => {t.left[n], t.right[n]} = {son, NIL} /\ son \in t.used
    BY <1>1, <1>2, TidyNode
  <1>. HIDE DEF son
  <1>5. CASE son = NIL
    <2>1. u = [newTree EXCEPT !.total = t.total - 1]
      BY <1>3, <1>5 DEF Taken
    <2>. QED
      BY <1>1, <2>1, EmptySound DEF Removed
  <1>6. CASE son # NIL
    <2>1. t.red[son] /\ ~t.red[n] /\ son # n
      BY <1>2, <1>4, <1>6, OnlySon
    <2>2. u = Freed(Repaired(v, son, t.red[n]), n)
      BY <1>3, <1>6 DEF Taken
    <2>3. v.red = t.red
      BY <1>1 DEF Cut, Tree
    <2>. HIDE DEF v
    <2>4. u = Freed(Paint(v, son, FALSE), n)
      BY <2>1, <2>2, <2>3, RemoveLoop DEF Repaired
    <2>5. found \in Node /\ n \in Node /\ son \in Node
      BY <1>1, <1>2, <1>4, <1>6 DEF Tree
    <2>6. Dropped(t, u, found, n, son)
      BY <1>1, <2>1, <2>4, <2>5, DroppedIs DEF v
    <2>7. \E sub2, h2 : Sound(u, sub2, h2)
      BY <1>2, <1>4, <1>6, <2>6, DroppedSound
    <2>8. PICK sub2 : Tidy(u, sub2)
      BY <2>7 DEF Sound
    <2>9. Keys(u) = Keys(t) \ {t.key[found]}
      BY <1>1, <1>2, <2>6, <2>8, DroppedKeys
    <2>10. u \in Tree /\ u.total = t.total - 1 /\ u.used = t.used \ {n}
      BY <2>6 DEF Dropped
    <2>. QED
      BY <1>2, <2>7, <2>9, <2>10 DEF Removed
  <1>. QED
    BY <1>5, <1>6

(* A removal leaves the tree without the key, or empty, and a red-black    *)
(* search tree in either case; no left child is ever turned.  The repair's *)
(* loop ends at once: a node that is replaced by its child is black, and   *)
(* the child red, for the node has only one.                               *)
THEOREM RemoveSound ==
  ASSUME NEW t, NEW sub, NEW h, Sound(t, sub, h), t.total # 0, NEW k \in Nat,
         Lookup(t, k) # NIL, NEW u, u = treeRemove(t, k)
  PROVE  Removed(t, u, k) /\ \E sub2, h2 : Sound(u, sub2, h2)
  <1>. DEFINE found == Lookup(t, k)
  <1>1. Tidy(t, sub)
    BY DEF Sound
  <1>2. found \in t.used /\ t.key[found] = k
    BY <1>1, LookupIs
  <1>3. u = IF t.left[found] # NIL /\ t.right[found] # NIL
            THEN TakeOut(t, found, successor(t, found))
            ELSE TakeOut(t, found, found)
    BY DEF treeRemove, Absent
  <1>. HIDE DEF found
  <1>4. CASE t.left[found] # NIL /\ t.right[found] # NIL
    <2>. DEFINE n == successor(t, found)
                r == t.right[found]
    <2>1. /\ n \in t.used /\ n \in sub[r] /\ t.left[n] = NIL
          /\ \A x \in sub[r] : x # n => t.key[n] < t.key[x]
      BY <1>1, <1>2, <1>4, SuccessorIs
    <2>2. u = TakeOut(t, found, n)
      BY <1>3, <1>4
    <2>. HIDE DEF n
    <2>3. /\ sub[found] = {found} \cup sub[t.left[found]] \cup sub[r]
          /\ \A x \in sub[t.left[found]] : t.key[x] < t.key[found]
          /\ \A x \in sub[r] : t.key[found] < t.key[x]
          /\ sub[found] \subseteq t.used
      BY <1>1, <1>2, TidySub
    <2>4. \A m \in t.used : t.key[m] \in Int
      <3>1. t.used \subseteq Node0 /\ t.key \in [Node0 -> Nat]
        BY <1>1, TidyRoot, Nodes DEF Tidy, Tree
      <3>. QED
        BY <3>1
    <2>5. ASSUME NEW x \in sub[t.left[found]] PROVE t.key[x] < t.key[n]
      <3>1. t.key[x] < t.key[found] /\ t.key[found] < t.key[n] /\ x \in t.used
        BY <2>1, <2>3
      <3>. QED
        BY <1>2, <2>1, <2>4, <3>1
    <2>6. Stands(t.left, t.right, sub, t.key, n, found)
      BY <2>1, <2>3, <2>5 DEF Stands
    <2>7. Takes(t, sub, found, n)
      BY <1>2, <2>1, <2>6 DEF Takes
    <2>. QED
      BY <1>2, <2>2, <2>7, TakeOutSound
  <1>5. CASE ~(t.left[found] # NIL /\ t.right[found] # NIL)
    <2>1. u = TakeOut(t, found, found)
      BY <1>3, <1>5
    <2>2. found \in sub[found]
      BY <1>1, <1>2, TidyNode
    <2>3. Takes(t, sub, found, found)
      BY <1>2, <1>5, <2>2 DEF Takes, Stands
    <2>. QED
      BY <1>2, <2>1, <2>3, TakeOutSound
  <1>. QED
    BY <1>4, <1>5
=============================================================================
