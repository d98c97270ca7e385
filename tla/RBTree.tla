------------------------------- MODULE RBTree -------------------------------
(***************************************************************************)
(* The tree of src/src/map/tree.c as operators on a record: the fields of  *)
(* `tree' and, for every address malloc may return, those of `treeNode'.   *)
(* Address NIL is the NULL pointer, whose links are NIL and whose colour   *)
(* is black, as leftOf, rightOf, parentOf and getColor have it.  Values    *)
(* are left out: a value moves with its key (tree.c:241-244, 284).         *)
(*                                                                         *)
(* A loop is a function of the number of its turns.  NNode turns are as    *)
(* many as any of them takes before it ends, unless the links have formed  *)
(* a cycle, on which the code's loops do not end either.                   *)
(* A name with a suffix is a mutant of the one that follows it, which no   *)
(* specification uses: a plausible bug in those lines.                     *)
(***************************************************************************)
EXTENDS Integers, FiniteSets

CONSTANT NNode     \* number of addresses

ASSUME NodeAssumption == NNode \in Nat

NIL   == 0
Node  == 1 .. NNode
Node0 == 0 .. NNode

(* `bent' is history: a rotation has turned a node that is a left child.   *)
Tree == [root : Node0, total : Nat, used : SUBSET Node, bent : BOOLEAN,
         left : [Node0 -> Node0], right : [Node0 -> Node0],
         parent : [Node0 -> Node0], red : [Node0 -> BOOLEAN], key : [Node0 -> Nat]]

newTree ==
    LET links == [n \in Node0 |-> NIL]
    IN  [root |-> NIL, total |-> 0, used |-> {}, bent |-> FALSE,
         left |-> links, right |-> links, parent |-> links,
         red |-> [n \in Node0 |-> FALSE], key |-> [n \in Node0 |-> 0]]

Paint(t, n, red) == IF n = NIL THEN t ELSE [t EXCEPT !.red[n] = red]

-----------------------------------------------------------------------------
(* leftRotate (toLeft) and rightRotate, mirror images.  To find the side   *)
(* of its parent n is on, the code compares n with its own left child.     *)
OnLeft(t, n) == t.left[n] = n

(* n, its child son and son's inner child become son, n and inner.         *)
Turn(t, n, son, inner, p, toLeft) ==
    [t EXCEPT !.parent[inner] = IF inner = NIL THEN NIL ELSE n,
              !.parent[son] = p,
              !.parent[n] = son,
              !.root = IF p = NIL THEN son ELSE @,
              !.bent = @ \/ (p # NIL /\ t.left[p] = n),
              !.left[p] = IF p # NIL /\ OnLeft(t, n) THEN son ELSE @,
              !.right[p] = IF p # NIL /\ ~OnLeft(t, n) THEN son ELSE @,
              !.left[IF toLeft THEN son ELSE n] = IF toLeft THEN n ELSE inner,
              !.right[IF toLeft THEN n ELSE son] = IF toLeft THEN inner ELSE n]

Rotate(t, n, toLeft) ==
    IF n = NIL THEN t
    ELSE IF toLeft
    THEN Turn(t, n, t.right[n], t.left[t.right[n]], t.parent[n], TRUE)
    ELSE Turn(t, n, t.left[n], t.right[t.left[n]], t.parent[n], FALSE)

-----------------------------------------------------------------------------
(* getTreeNode: the nodes on the way down to k, and the one found.         *)
Way(t, k) ==
    LET way[i \in 0 .. NNode] ==
            IF i = 0 THEN t.root
            ELSE LET n == way[i - 1]
                 IN  IF n = NIL \/ t.key[n] = k THEN n
                     ELSE IF k < t.key[n] THEN t.left[n] ELSE t.right[n]
    IN  way

Lookup(t, k) == Way(t, k)[NNode]

(* FOREACH_TREE visits the nodes that the root leads to.                   *)
Reached(t) ==
    LET reach[i \in 0 .. NNode] ==
            IF i = 0 THEN {t.root} \ {NIL}
            ELSE reach[i - 1] \cup ((UNION {{t.left[n], t.right[n]} : n \in reach[i - 1]}) \ {NIL})
    IN  reach[NNode]

Keys(t) == {t.key[n] : n \in Reached(t)}

-----------------------------------------------------------------------------
(* One turn of fixAfterInsert's loop, with the tree and the current node:  *)
(* below a red parent the uncle decides between recolouring and rotating.  *)
UncleRed_Ignored(t, uncle) == FALSE
UncleRed(t, uncle)         == t.red[uncle]

(* A black uncle: the parent turns black, takes the grandparent's place,   *)
(* and the loop ends.                                                      *)
Settled(t, n, left) ==
    LET p == t.parent[n]
        g == t.parent[p]
    IN  Rotate(Paint(Paint(t, p, FALSE), g, TRUE), g, ~left)

InsertTurn(s) ==
    LET t     == s.tree
        n     == s.at
        p     == t.parent[n]
        g     == t.parent[p]
        left  == p = t.left[g]
        uncle == IF left THEN t.right[g] ELSE t.left[g]
        inner == n = IF left THEN t.right[p] ELSE t.left[p]
    IN  IF n = NIL \/ p = NIL \/ ~t.red[p] THEN s
        ELSE IF UncleRed(t, uncle)
        THEN [tree |-> Paint(Paint(Paint(t, p, FALSE), uncle, FALSE), g, TRUE), at |-> g]
        ELSE IF inner
        THEN [tree |-> Settled(Rotate(t, p, left), p, left), at |-> p]
        ELSE [tree |-> Settled(t, n, left), at |-> n]

RootBlack(t) == Paint(t, t.root, FALSE)

fixAfterInsert(t, n) ==
    LET turn[i \in 0 .. NNode] ==
            IF i = 0 THEN [tree |-> t, at |-> n] ELSE InsertTurn(turn[i - 1])
    IN  RootBlack(turn[NNode].tree)

(* treePut.  A key that is there keeps its node; a full tree refuses.      *)
Full_OneLate(t, max) == max > 0 /\ t.total > max
Full(t, max)         == max > 0 /\ t.total >= max

Last(t, k) ==
    LET way  == Way(t, k)
        path == {i \in 0 .. NNode : way[i] # NIL}
    IN  IF path = {} THEN NIL ELSE way[CHOOSE i \in path : \A j \in path : j <= i]

Hung(t, k, n, p) ==
    [t EXCEPT !.used = @ \cup {n}, !.total = @ + 1,
              !.key[n] = k, !.red[n] = TRUE,
              !.left[n] = NIL, !.right[n] = NIL, !.parent[n] = p,
              !.root = IF p = NIL THEN n ELSE @,
              !.left[p] = IF p # NIL /\ k < t.key[p] THEN n ELSE @,
              !.right[p] = IF p # NIL /\ k > t.key[p] THEN n ELSE @]

treePut(t, k, max) ==
    IF Full(t, max) \/ Lookup(t, k) # NIL THEN t
    ELSE LET n == CHOOSE n \in Node \ t.used : TRUE
         IN  fixAfterInsert(Hung(t, k, n, Last(t, k)), n)

-----------------------------------------------------------------------------
(* fixAfterRemove, where the sibling decides.                              *)
Sib(t, n, left)  == IF left THEN t.right[t.parent[n]] ELSE t.left[t.parent[n]]
Far(t, s, left)  == IF left THEN t.right[s] ELSE t.left[s]
Near(t, s, left) == IF left THEN t.left[s] ELSE t.right[s]

BlackSib(t, n, s, left) ==
    IF t.red[s] THEN Rotate(Paint(Paint(t, s, FALSE), t.parent[n], TRUE), t.parent[n], left)
    ELSE t

RedFar(t, s, left) ==
    IF t.red[Far(t, s, left)] THEN t
    ELSE Rotate(Paint(Paint(t, s, TRUE), Near(t, s, left), FALSE), s, ~left)

Lifted(t, p, s, left) ==
    Rotate(Paint(Paint(Paint(t, s, t.red[p]), p, FALSE), Far(t, s, left), FALSE), p, left)

RemoveTurn(s) ==
    LET t    == s.tree
        n    == s.at
        left == OnLeft(t, n)
        t1   == BlackSib(t, n, Sib(t, n, left), left)
        sib  == Sib(t1, n, left)
        t2   == RedFar(t1, sib, left)
        t3   == Lifted(t2, t2.parent[n], Sib(t2, n, left), left)
    IN  IF n = t.root \/ t.red[n] THEN s
        ELSE IF ~t1.red[Far(t1, sib, left)] /\ ~t1.red[Near(t1, sib, left)]
        THEN [tree |-> Paint(t1, sib, TRUE), at |-> t1.parent[n]]
        ELSE [tree |-> t3, at |-> t3.root]

fixAfterRemove(t, n) ==
    LET turn[i \in 0 .. NNode] ==
            IF i = 0 THEN [tree |-> t, at |-> n] ELSE RemoveTurn(turn[i - 1])
    IN  Paint(turn[NNode].tree, turn[NNode].at, FALSE)

successor(t, n) ==
    LET down[i \in 0 .. NNode] ==
            IF i = 0 THEN t.right[n]
            ELSE IF t.left[down[i - 1]] = NIL THEN down[i - 1] ELSE t.left[down[i - 1]]
    IN  down[NNode]

(* treeRemove.  The node taken out (the successor, for a node with two     *)
(* children) is replaced by its child.  Without one, parentOf(replace) is  *)
(* NULL whatever the node's own parent (tree.c:267), and the tree becomes  *)
(* empty: lines 269-281 are never reached.  Only the count remembers the   *)
(* other nodes, whose memory is lost.                                      *)
Repaired(t, n, wasRed) == IF wasRed THEN t ELSE fixAfterRemove(t, n)

MovedKey_Forgotten(t, found, n) == t.key[found]
MovedKey(t, found, n)           == t.key[n]

Absent_Never(n) == FALSE
Absent(n)       == n = NIL

(* n, which has found's key after the move, leaves the tree to son.        *)
Cut(t, found, n, son, p) ==
    [t EXCEPT !.key[found] = MovedKey(t, found, n),
              !.parent[son] = p,
              !.root = IF p = NIL THEN son ELSE @,
              !.left[p] = IF p # NIL /\ t.left[p] = n THEN son ELSE @,
              !.right[p] = IF p # NIL /\ t.left[p] # n THEN son ELSE @]

Freed(t, n) ==
    [t EXCEPT !.used = @ \ {n}, !.total = @ - 1, !.key[n] = 0, !.red[n] = FALSE,
              !.left[n] = NIL, !.right[n] = NIL, !.parent[n] = NIL]

Taken(t, found, n, son) ==
    IF son = NIL THEN [newTree EXCEPT !.total = t.total - 1]
    ELSE Freed(Repaired(Cut(t, found, n, son, t.parent[n]), son, t.red[n]), n)

TakeOut(t, found, n) ==
    Taken(t, found, n, IF t.left[n] # NIL THEN t.left[n] ELSE t.right[n])

treeRemove(t, k) ==
    LET found == Lookup(t, k)
    IN  IF Absent(found) THEN t
        ELSE IF t.left[found] # NIL /\ t.right[found] # NIL
        THEN TakeOut(t, found, successor(t, found))
        ELSE TakeOut(t, found, found)
=============================================================================
