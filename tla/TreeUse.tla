------------------------------ MODULE TreeUse -------------------------------
(***************************************************************************)
(* A tree of tree.c under its callers: the clients of a worker by fd, the  *)
(* children of the master and the pipes by pid.  `keys' is the map the     *)
(* callers believe they keep.                                              *)
(***************************************************************************)
EXTENDS RBTree

CONSTANTS MaxKey,
          MaxSize      \* tree->max, 0 for no limit

ASSUME UseAssumption == MaxKey \in Nat /\ MaxSize \in Nat

Key == 1 .. MaxKey

VARIABLES
    tree,
    keys,
    emptied   \* history: a removal has left the tree empty of other keys
vars == <<tree, keys, emptied>>

Init ==
    /\ tree = newTree
    /\ keys = {}
    /\ emptied = FALSE

(* A put that the full tree refuses leaves the caller without the key.     *)
(* Bound: an address is left.                                              *)
Put(k) ==
    /\ tree.used # Node
    /\ tree' = treePut(tree, k, MaxSize)
    /\ keys' = IF Full(tree, MaxSize) THEN keys ELSE keys \cup {k}
    /\ UNCHANGED emptied

Remove(k) ==
    /\ tree' = treeRemove(tree, k)
    /\ keys' = keys \ {k}
    /\ emptied' = (emptied \/ (tree'.root = NIL /\ Keys(tree) \ {k} # {}))

(* A rotation that turned a left child may have left a cycle, on which     *)
(* later loops never end: such a tree is not followed further.             *)
Next == ~tree.bent /\ \E k \in Key : Put(k) \/ Remove(k)

Spec == Init /\ [][Next]_vars

-----------------------------------------------------------------------------
(* The types of the tree's fields.                                         *)
TypeOK ==
    /\ tree \in Tree
    /\ keys \subseteq Key
    /\ emptied \in BOOLEAN

(* Until a left child is turned, what the root leads to is a red-black     *)
(* search tree: every node is found under its key and is its children's    *)
(* parent, no red node has a red child, and every way down ends after the  *)
(* same number of black nodes.                                             *)
Blacks(n) ==
    LET way == Way(tree, tree.key[n])
    IN  Cardinality({way[i] : i \in 0 .. NNode} \cap {m \in Node : ~tree.red[m]})
Ends == {n \in Reached(tree) : tree.left[n] = NIL \/ tree.right[n] = NIL}

RedBlack ==
    ~tree.bent =>
        /\ ~tree.red[tree.root]
        /\ tree.parent[tree.root] = NIL
        /\ \A n \in Reached(tree) :
               /\ Lookup(tree, tree.key[n]) = n
               /\ \A son \in {tree.left[n], tree.right[n]} \ {NIL} :
                      tree.parent[son] = n /\ ~(tree.red[n] /\ tree.red[son])
        /\ \A m, n \in Ends : Blacks(m) = Blacks(n)

(* A lookup never finds a key that was removed, and no node in the tree is *)
(* one that was freed: a turned left child loses nodes and adds none.      *)
NothingStale == Keys(tree) \subseteq keys /\ Reached(tree) \subseteq tree.used

(* Until a left child is turned or a removal empties the tree, every key   *)
(* put and not removed is found: keys are lost in no other way.            *)
KeysKept == ~tree.bent /\ ~emptied => keys \subseteq Keys(tree)

(* The count that treePut compares with max never falls below the number   *)
(* of keys, and never exceeds max.                                         *)
Counted ==
    /\ tree.total >= Cardinality(keys)
    /\ MaxSize > 0 => tree.total <= MaxSize
=============================================================================
