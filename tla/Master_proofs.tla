---------------------------- MODULE Master_proofs ----------------------------
(***************************************************************************)
(* The invariants of Master, for any number of forks, of commands and of   *)
(* clients, and everything the environment may do.  Trees of more than two *)
(* keys can be spoiled by a rotation: nothing is said of those.            *)
(***************************************************************************)
EXTENDS Master, RBTree_proofs

-----------------------------------------------------------------------------
(* A tree of at most two keys is never bent.                               *)
Small(t, max) ==
    /\ \E sub, h : Sound(t, sub, h)
    /\ Cardinality(t.used) <= t.total /\ t.total <= max

(* The limits of such trees.                                               *)
Limit == {1, 2} \cap Node

(* Limits are 1 or 2, and no more than there are nodes.                    *)
LEMMA LimitNat == Limit \subseteq Nat /\ \A max \in Limit : max <= NNode /\ max <= 2 /\ max > 0
  BY Nodes DEF Limit, Node

(* What is at hand about a small tree.                                     *)
LEMMA SmallIs ==
  ASSUME NEW max \in Limit, NEW t, Small(t, max)
  PROVE  /\ t \in Tree /\ t.total \in Nat /\ t.total <= max
         /\ IsFiniteSet(t.used) /\ Cardinality(t.used) \in Nat
         /\ Cardinality(t.used) <= t.total
         /\ Keys(t) = {t.key[m] : m \in t.used} /\ Keys(t) \subseteq Nat
         /\ IsFiniteSet(Keys(t))
  <1>1. PICK sub, h : Sound(t, sub, h)
    BY DEF Small
  <1>2. t \in Tree /\ t.total <= max /\ Cardinality(t.used) <= t.total
        /\ Keys(t) = {t.key[m] : m \in t.used}
    BY <1>1, TidyKeys DEF Small, Sound, Tidy
  <1>3. t.total \in Nat /\ t.used \subseteq Node /\ t.key \in [Node0 -> Nat]
    BY <1>2 DEF Tree
  <1>4. IsFiniteSet(t.used) /\ Cardinality(t.used) \in Nat
    BY <1>3, Nodes, FS_Subset, FS_CardinalityType
  <1>5. Keys(t) \subseteq Nat
    <2>1. \A m \in t.used : t.key[m] \in Nat
      BY <1>3, Nodes
    <2>. QED
      BY <1>2, <2>1
  <1>6. IsFiniteSet(Keys(t))
    <2>. DEFINE f == [m \in t.used |-> t.key[m]]
    <2>1. Keys(t) = {f[m] : m \in t.used} /\ f \in [t.used -> Keys(t)]
      BY <1>2
    <2>2. \A k \in Keys(t) : \E m \in t.used : f[m] = k
      BY <2>1
    <2>. HIDE DEF f
    <2>3. f \in Surjection(t.used, Keys(t))
      BY <2>1, <2>2 DEF Surjection
    <2>. QED
      BY <1>4, <2>3, FS_Surjection
  <1>. QED
    BY <1>2, <1>3, <1>4, <1>5, <1>6

(* A tree that counts no key has none, and one that counts one at most one.*)
LEMMA SmallKeys ==
  ASSUME NEW max \in Limit, NEW t, Small(t, max)
  PROVE  /\ t.total = 0 => Keys(t) = {}
         /\ t.total = 1 => Keys(t) = {} \/ \E k \in Nat : Keys(t) = {k}
  <1>1. /\ t.total \in Nat /\ IsFiniteSet(t.used) /\ Cardinality(t.used) \in Nat
        /\ Cardinality(t.used) <= t.total
        /\ Keys(t) = {t.key[m] : m \in t.used} /\ Keys(t) \subseteq Nat
    BY SmallIs
  <1>2. Cardinality(t.used) = 0 => Keys(t) = {}
    <2>1. Cardinality(t.used) = 0 => t.used = {}
      BY <1>1, FS_EmptySet
    <2>. QED
      BY <1>1, <2>1
  <1>3. Cardinality(t.used) = 1 => \E k \in Nat : Keys(t) = {k}
    <2>1. SUFFICES ASSUME Cardinality(t.used) = 1 PROVE \E k \in Nat : Keys(t) = {k}
      OBVIOUS
    <2>2. PICK m : t.used = {m}
      BY <1>1, <2>1, FS_Singleton
    <2>3. Keys(t) = {t.key[m]}
      BY <1>1, <2>2
    <2>. QED
      BY <1>1, <2>3
  <1>4. t.total = 0 => Cardinality(t.used) = 0
    BY <1>1
  <1>5. t.total = 1 => Cardinality(t.used) = 0 \/ Cardinality(t.used) = 1
    BY <1>1
  <1>. QED
    BY <1>2, <1>3, <1>4, <1>5

(* The empty tree is small.                                                *)
LEMMA SmallNew ==
  ASSUME NEW max \in Limit
  PROVE  Small(newTree, max) /\ newTree.total = 0 /\ Keys(newTree) = {}
  <1>1. newTree = [newTree EXCEPT !.total = 0]
    <2>1. newTree \in Tree /\ newTree.total = 0
      BY Nodes DEF newTree, Tree
    <2>2. \A t \in Tree : t = [t EXCEPT !.total = t.total]
      BY DEF Tree
    <2>. QED
      BY <2>1, <2>2
  <1>2. /\ \E sub, h : Sound(newTree, sub, h)
        /\ newTree.total = 0 /\ newTree.used = {} /\ Keys(newTree) = {}
    BY <1>1, EmptySound
  <1>3. Cardinality({}) = 0 /\ 0 <= max
    BY FS_EmptySet, LimitNat
  <1>. QED
    BY <1>2, <1>3 DEF Small

(* A put adds the key, unless it is there or the tree is full.             *)
Put(t, u, k, max) ==
    IF t.total >= max \/ k \in Keys(t) THEN u = t
    ELSE u.total = t.total + 1 /\ Keys(u) = Keys(t) \cup {k}

(* A put keeps a tree small; below a black root nothing is turned.         *)
LEMMA SmallPut ==
  ASSUME NEW max \in Limit, NEW t, Small(t, max), NEW k \in Nat, NEW u, u = treePut(t, k, max)
  PROVE  Small(u, max) /\ Put(t, u, k, max)
  <1>1. PICK sub, h : Sound(t, sub, h)
    BY DEF Small
  <1>2. /\ t \in Tree /\ t.total \in Nat /\ t.total <= max
        /\ IsFiniteSet(t.used) /\ Cardinality(t.used) \in Nat
        /\ Cardinality(t.used) <= t.total
        /\ Keys(t) = {t.key[m] : m \in t.used}
    BY SmallIs
  <1>3. max \in Nat /\ max <= NNode /\ max <= 2 /\ max > 0
    BY LimitNat
  <1>4. Full(t, max) <=> t.total >= max
    BY <1>3 DEF Full
  <1>5. Lookup(t, k) # NIL <=> k \in Keys(t)
    BY <1>1, FoundKey
  <1>6. CASE Full(t, max) \/ Lookup(t, k) # NIL
    <2>1. u = t
      BY <1>6 DEF treePut
    <2>. QED
      BY <1>4, <1>5, <1>6, <2>1 DEF Put
  <1>7. CASE ~Full(t, max) /\ Lookup(t, k) = NIL
    <2>1. t.total < max /\ t.total <= 1 /\ Cardinality(t.used) <= 1
          /\ Cardinality(t.used) < NNode
      BY <1>2, <1>3, <1>4, <1>7, Nodes
    <2>2. t.used # Node
      BY <2>1, <1>2, Nodes
    <2>3. t.used \subseteq {t.root}
      <3>1. t.used # {} => t.root \in t.used
        BY <1>1, TidyRoot DEF Sound
      <3>2. CASE Cardinality(t.used) = 0
        BY <1>2, <3>2, FS_EmptySet
      <3>3. CASE Cardinality(t.used) = 1
        <4>1. PICK m : t.used = {m}
          BY <1>2, <3>3, FS_Singleton
        <4>. QED
          BY <3>1, <4>1
      <3>. QED
        BY <1>2, <2>1, <3>2, <3>3
    <2>4. \E sub2, h2 : Sound(u, sub2, h2)
      BY <1>1, <1>3, <1>7, <2>2, <2>3, PutSecond
    <2>5. PICK n : Added(t, u, k, n)
      BY <1>1, <1>3, <1>7, <2>2, PutSound
    <2>6. /\ u.total = t.total + 1
          /\ n \in Node \ t.used /\ u.used = t.used \cup {n}
          /\ u.key[n] = k /\ \A m \in t.used : u.key[m] = t.key[m]
      BY <2>5 DEF Added
    <2>7. Cardinality(u.used) = Cardinality(t.used) + 1
      BY <1>2, <2>6, FS_AddElement
    <2>8. u.total <= max /\ Cardinality(u.used) <= u.total
      BY <1>2, <1>3, <2>1, <2>6, <2>7
    <2>9. Keys(u) = {u.key[m] : m \in u.used}
      BY <2>4, TidyKeys DEF Sound
    <2>10. Keys(u) = Keys(t) \cup {k}
      BY <1>2, <2>6, <2>9
    <2>. QED
      BY <1>4, <1>5, <1>7, <2>4, <2>6, <2>8, <2>10 DEF Small, Put
  <1>. QED
    BY <1>6, <1>7

(* A removal takes the key, and may take all the others with it.           *)
Remove(t, u, k) ==
    IF k \notin Keys(t) THEN u = t
    ELSE /\ u.total = t.total - 1 /\ t.total > 0
         /\ Keys(u) = {} \/ Keys(u) = Keys(t) \ {k}

(* A removal keeps a tree small.                                           *)
LEMMA SmallRemove ==
  ASSUME NEW max \in Limit, NEW t, Small(t, max), NEW k \in Nat, NEW u, u = treeRemove(t, k)
  PROVE  Small(u, max) /\ Remove(t, u, k)
  <1>1. PICK sub, h : Sound(t, sub, h)
    BY DEF Small
  <1>2. /\ t \in Tree /\ t.total \in Nat /\ t.total <= max
        /\ IsFiniteSet(t.used) /\ Cardinality(t.used) \in Nat
        /\ Cardinality(t.used) <= t.total
        /\ Keys(t) = {t.key[m] : m \in t.used}
    BY SmallIs
  <1>3. max \in Nat
    BY LimitNat
  <1>4. Lookup(t, k) # NIL <=> k \in Keys(t)
    BY <1>1, FoundKey
  <1>5. CASE k \notin Keys(t)
    <2>1. u = t
      BY <1>4, <1>5 DEF treeRemove, Absent
    <2>. QED
      BY <1>5, <2>1 DEF Remove
  <1>6. CASE k \in Keys(t)
    <2>1. Cardinality(t.used) # 0
      <3>1. t.used # {}
        BY <1>2, <1>6
      <3>. QED
        BY <1>2, <3>1, FS_EmptySet
    <2>2. t.total > 0 /\ t.total # 0
      BY <1>2, <2>1
    <2>3. Removed(t, u, k) /\ \E sub2, h2 : Sound(u, sub2, h2)
      BY <1>1, <1>4, <1>6, <2>2, RemoveSound
    <2>4. /\ u.total = t.total - 1
          /\ u.used = {} \/ \E n \in t.used : u.used = t.used \ {n}
          /\ Keys(u) = {} \/ Keys(u) = Keys(t) \ {k}
      BY <2>3 DEF Removed
    <2>5. Cardinality(u.used) <= u.total
      <3>1. CASE u.used = {}
        BY <1>2, <2>2, <2>4, <3>1, FS_EmptySet
      <3>2. ASSUME NEW n \in t.used, u.used = t.used \ {n} PROVE Cardinality(u.used) <= u.total
        <4>1. Cardinality(u.used) = Cardinality(t.used) - 1
          BY <1>2, <3>2, FS_RemoveElement
        <4>. QED
          BY <1>2, <2>4, <4>1
      <3>. QED
        BY <2>4, <3>1, <3>2
    <2>6. u.total <= max
      BY <1>2, <1>3, <2>4
    <2>. QED
      BY <1>6, <2>2, <2>3, <2>4, <2>5, <2>6 DEF Small, Remove
  <1>. QED
    BY <1>5, <1>6

-----------------------------------------------------------------------------
(* The inductive invariant.  Kinds: the types, the trees apart; id is a    *)
(* pid handed out, and newSync's 0 before the fork.                        *)
Kinds ==
    /\ nChildren \in Sizes
    /\ pc \in {"reap", "sleep", "restart", "forked", "ended", "crashed", "signals"}
    /\ entry \in [Pid -> {"value", "chan", "wild"}] /\ link \in {"chan", "wild"}
    /\ isExit \in BOOLEAN /\ nextPid \in 1 .. NNode + 1 /\ hups \in 0 .. MaxHups
    /\ id \in 0 .. nextPid - 1 /\ (pc \in {"reap", "sleep", "restart"} => id = 0)
    /\ proc \in [Pid -> {"none", "starting", "serving", "dead", "gone"}]
    /\ how \in [Pid -> {"exit", "signal", "pipe", "error"}]
    /\ arg \in [Pid -> {"chan", "wild"}]
    /\ told \in [Pid -> {"no", "yes", "shut"}] /\ open \in [Pid -> SUBSET Pid]

ChildrenSmall == nChildren <= 2 => Small(children, nChildren) /\ Small(pToC, nChildren)
ClientsSmall  == MaxFd <= 2 => clients \in [Pid -> Tree] /\ \A p \in Pid : Small(clients[p], MaxFd)
Trees         == ChildrenSmall /\ ClientsSmall

(* The workers not reaped yet.                                             *)
Alive == Living \cup Dead

(* With one worker the tree of children is exact: while the worker is      *)
(* replaced it is empty, and the replacement is the only process.          *)
Single ==
    nChildren = 1 =>
        /\ children.total = Cardinality(Keys(children))
        /\ pc # "crashed"
        /\ pc \in {"reap", "sleep"} => Keys(children) \ {0} = Alive
        /\ pc \in {"restart", "forked"} => Keys(children) = {}
        /\ pc \in {"restart", "ended"} => Alive = {}
        /\ pc = "forked" => Alive = {id} \ {0}

(* With two, a removal may take both keys with it, but the count stays at  *)
(* least the number of processes, for as long as no "restart" replaces the *)
(* tree.  A new pid is no key of it, so its put counts.                    *)
Pair ==
    nChildren = 2 /\ hups = 0 =>
        /\ Keys(children) \subseteq 0 .. nextPid - 1
        /\ pc \in {"reap", "sleep", "restart"} => Cardinality(Alive) <= children.total
        /\ pc = "restart" => Cardinality(Alive) <= 1
        /\ pc = "forked" => /\ id # 0 => id \notin Keys(children)
                            /\ Cardinality(Alive \ {id}) <= children.total
                            /\ Cardinality(Alive \ {id}) <= 1
        /\ pc = "ended" => Alive = {}

IInv == Kinds /\ Trees /\ Single /\ Pair

(* The sizes of things.                                                    *)
LEMMA Sized ==
  ASSUME Kinds
  PROVE  /\ nChildren \in 1 .. NNode /\ NNode \in Nat /\ Pid \subseteq Nat /\ 0 \notin Pid
         /\ nChildren <= 2 => nChildren \in Limit
         /\ nextPid \in 1 .. NNode + 1 /\ id \in 0 .. nextPid - 1
  <1>1. nChildren \in 1 .. NNode /\ NNode \in Nat /\ nextPid \in 1 .. NNode + 1
        /\ id \in 0 .. nextPid - 1
    BY MasterAssumption, NodeAssumption DEF Kinds
  <1>. QED
    BY <1>1 DEF Limit, Node, Pid

(* The limit on a worker's clients.                                        *)
LEMMA Places == MaxFd \in 1 .. NNode /\ (MaxFd <= 2 => MaxFd \in Limit)
  BY MasterAssumption, NodeAssumption DEF Limit, Node

(* The workers not reaped are finitely many.                               *)
LEMMA AliveFinite == IsFiniteSet(Alive) /\ Cardinality(Alive) \in Nat /\ Alive \subseteq Pid
  <1>1. Alive \subseteq Pid
    BY DEF Alive, Living, Dead
  <1>. QED
    BY <1>1, Nodes, FS_Subset, FS_CardinalityType DEF Pid

-----------------------------------------------------------------------------
(* The trees run() builds.                                                 *)
Booted(t, n) == Small(t, n) /\ Keys(t) = 1 .. n /\ t.total = n

(* run() puts the pids into an empty tree.                                 *)
LEMMA BootIs ==
  ASSUME nChildren \in Limit
  PROVE  Booted(Boot, nChildren)
  <1>. DEFINE N == nChildren
              t1 == treePut(newTree, 1, N)
              t2 == treePut(t1, 2, N)
              Unfold(f) == [i \in 0 .. N |-> IF i = 0 THEN newTree
                                             ELSE treePut(f[i - 1], i, N)]
              f0 == [i \in 0 .. N |-> IF i = 0 THEN newTree ELSE IF i = 1 THEN t1 ELSE t2]
              b == CHOOSE f : f = Unfold(f)
  <1>1. Boot = b[N]
    BY DEF Boot
  <1>2. N \in {1, 2}
    BY DEF Limit
  <1>3. Small(newTree, N) /\ newTree.total = 0 /\ Keys(newTree) = {}
    BY SmallNew
  <1>4. Small(t1, N) /\ Put(newTree, t1, 1, N)
    BY <1>3, SmallPut
  <1>5. Small(t2, N) /\ Put(t1, t2, 2, N)
    BY <1>4, SmallPut
  <1>6. t1.total = 1 /\ Keys(t1) = {1}
    BY <1>2, <1>3, <1>4 DEF Put
  <1>7. N = 2 => t2.total = 2 /\ Keys(t2) = {1, 2}
    BY <1>5, <1>6 DEF Put
  <1>8. b[0] = newTree /\ \A i \in 1 .. N : b[i] = treePut(b[i - 1], i, N)
    <2>1. f0 = Unfold(f0)
      <3>1. f0[0] = newTree /\ f0[1] = t1 /\ (N = 2 => f0[2] = t2)
        BY <1>2
      <3>2. \A i \in 1 .. N : f0[i] = treePut(f0[i - 1], i, N)
        <4>. HIDE DEF f0
        <4>. QED
          BY <1>2, <3>1
      <3>3. f0 = [i \in 0 .. N |-> f0[i]]
        OBVIOUS
      <3>. HIDE DEF f0
      <3>4. \A i \in 0 .. N : f0[i] = IF i = 0 THEN newTree ELSE treePut(f0[i - 1], i, N)
        BY <1>2, <3>1, <3>2
      <3>. QED
        BY <3>3, <3>4
    <2>2. b = Unfold(b)
      <3>. HIDE DEF f0
      <3>. QED
        BY <2>1
    <2>. HIDE DEF b
    <2>3. \A i \in 0 .. N : b[i] = IF i = 0 THEN newTree ELSE treePut(b[i - 1], i, N)
      BY <2>2
    <2>. QED
      BY <1>2, <2>3
  <1>. HIDE DEF b
  <1>9. b[1] = t1 /\ (N = 2 => b[2] = t2)
    <2>1. b[1] = t1
      BY <1>2, <1>8
    <2>2. N = 2 => b[2] = t2
      <3>1. N = 2 => b[2] = treePut(b[1], 2, N)
        BY <1>8
      <3>. QED
        BY <2>1, <3>1
    <2>. QED
      BY <2>1, <2>2
  <1>. HIDE DEF t1, t2
  <1>10. CASE N = 1
    BY <1>1, <1>4, <1>6, <1>9, <1>10 DEF Booted
  <1>11. CASE N = 2
    <2>1. 1 .. 2 = {1, 2}
      OBVIOUS
    <2>. QED
      BY <1>1, <1>5, <1>7, <1>9, <1>11, <2>1 DEF Booted
  <1>. QED
    BY <1>2, <1>10, <1>11

(* The invariant holds initially.                                          *)
LEMMA InitInv ==
  ASSUME Init
  PROVE  IInv
  <1>1. nChildren \in 1 .. NNode /\ NNode \in Nat /\ MaxHups \in Nat
    BY MasterAssumption, NodeAssumption DEF Init
  <1>2. Kinds
    <2>1. /\ entry \in [Pid -> {"value", "chan", "wild"}]
          /\ proc \in [Pid -> {"none", "starting", "serving", "dead", "gone"}]
          /\ how \in [Pid -> {"exit", "signal", "pipe", "error"}]
          /\ arg \in [Pid -> {"chan", "wild"}]
          /\ told \in [Pid -> {"no", "yes", "shut"}] /\ open \in [Pid -> SUBSET Pid]
      BY DEF Init
    <2>2. /\ nChildren \in Sizes /\ pc = "reap" /\ link = "chan" /\ id = 0
          /\ isExit = FALSE /\ nextPid = nChildren + 1 /\ hups = 0
      BY DEF Init
    <2>3. /\ nextPid \in 1 .. NNode + 1 /\ id \in 0 .. nextPid - 1 /\ hups \in 0 .. MaxHups
      BY <1>1, <2>2
    <2>. QED
      BY <2>1, <2>2, <2>3 DEF Kinds
  <1>3. nChildren <= 2 => nChildren \in Limit
    BY <1>2, Sized
  <1>4. nChildren <= 2 => Booted(children, nChildren)
    BY <1>3, BootIs DEF Init
  <1>5. Trees
    <2>1. ASSUME nChildren <= 2 PROVE Small(children, nChildren) /\ Small(pToC, nChildren)
      <3>1. pToC = newTree \/ pToC = Boot
        BY DEF Init
      <3>. QED
        BY <1>3, <2>1, <3>1, SmallNew, BootIs DEF Booted, Init
    <2>2. ASSUME MaxFd <= 2
          PROVE clients \in [Pid -> Tree] /\ \A p \in Pid : Small(clients[p], MaxFd)
      <3>1. Small(newTree, MaxFd) /\ newTree \in Tree
        BY <2>2, Places, SmallNew, SmallIs
      <3>2. clients = [p \in Pid |-> newTree]
        BY DEF Init
      <3>. QED
        BY <3>1, <3>2
    <2>. QED
      BY <2>1, <2>2 DEF Trees, ChildrenSmall, ClientsSmall
  <1>6. Alive = 1 .. nChildren
    BY <1>1 DEF Init, Alive, Living, Dead, Pid, Node
  <1>7. Cardinality(1 .. nChildren) = nChildren
    BY <1>1, FS_Interval
  <1>8. pc = "reap" /\ nextPid = nChildren + 1 /\ hups = 0
    BY DEF Init
  <1>9. Single
    <2>1. SUFFICES ASSUME nChildren = 1
                   PROVE  /\ children.total = Cardinality(Keys(children))
                          /\ Keys(children) \ {0} = Alive
      BY <1>8 DEF Single
    <2>2. Keys(children) = 1 .. nChildren /\ children.total = nChildren
      BY <1>4, <2>1 DEF Booted
    <2>. QED
      BY <1>6, <1>7, <2>2
  <1>10. Pair
    <2>1. SUFFICES ASSUME nChildren = 2
                   PROVE  /\ Keys(children) \subseteq 0 .. nextPid - 1
                          /\ Cardinality(Alive) <= children.total
      BY <1>8 DEF Pair
    <2>2. Keys(children) = 1 .. nChildren /\ children.total = nChildren
      BY <1>4, <2>1 DEF Booted
    <2>. QED
      BY <1>6, <1>7, <1>8, <2>1, <2>2
  <1>. QED
    BY <1>2, <1>5, <1>9, <1>10 DEF IInv

-----------------------------------------------------------------------------
(* SIGTERM ends processes and reaps none.                                  *)
LEMMA KillIs ==
  ASSUME Kinds, NEW S, Kill(S)
  PROVE  /\ proc' \in [Pid -> {"none", "starting", "serving", "dead", "gone"}]
         /\ how' \in [Pid -> {"exit", "signal", "pipe", "error"}]
         /\ told' \in [Pid -> {"no", "yes", "shut"}]
         /\ UNCHANGED <<arg, open, clients>>
         /\ Alive' = Alive
  <1>. DEFINE gone == {p \in S : KilledBy(p) \/ ExitsNow(p)}
  <1>1. /\ proc' = [p \in Pid |-> IF p \in gone THEN "dead" ELSE proc[p]]
        /\ how' = [p \in Pid |-> IF p \in gone
                                 THEN IF KilledBy(p) THEN "signal" ELSE "exit"
                                 ELSE how[p]]
        /\ told' = [p \in Pid |-> IF told[p] = "no" /\ p \in S \cap (Living \ gone)
                                  THEN "yes" ELSE told[p]]
        /\ UNCHANGED <<arg, open, clients>>
    BY DEF Kill
  <1>2. \A p \in gone : proc[p] \in {"starting", "serving"}
    BY DEF KilledBy, ExitsNow
  <1>. HIDE DEF gone
  <1>3. Alive' = Alive
    <2>1. \A p \in Pid : proc'[p] \in {"starting", "serving", "dead"}
                            <=> proc[p] \in {"starting", "serving", "dead"}
      BY <1>1, <1>2
    <2>2. Alive = {p \in Pid : proc[p] \in {"starting", "serving", "dead"}}
      BY DEF Alive, Living, Dead
    <2>3. Alive' = {p \in Pid : proc'[p] \in {"starting", "serving", "dead"}}
      BY DEF Alive, Living, Dead
    <2>. QED
      BY <2>1, <2>2, <2>3
  <1>4. proc' \in [Pid -> {"none", "starting", "serving", "dead", "gone"}]
    BY <1>1 DEF Kinds
  <1>5. how' \in [Pid -> {"exit", "signal", "pipe", "error"}]
    <2>1. \A p \in Pid : how'[p] \in {"exit", "signal", "pipe", "error"}
      BY <1>1 DEF Kinds
    <2>. QED
      BY <1>1, <2>1
  <1>6. told' \in [Pid -> {"no", "yes", "shut"}]
    BY <1>1 DEF Kinds
  <1>. QED
    BY <1>1, <1>3, <1>4, <1>5, <1>6

(* A worker's own step leaves the master alone, and reaps none.            *)
WorkerStep(p) == Started(p) \/ ClientComes(p) \/ ClientLeaves(p) \/ Fails(p)

(* Workers' steps are the master's business only through proc and how, and *)
(* reap nobody.                                                            *)
LEMMA WorkerIs ==
  ASSUME Kinds, NEW p \in Pid, WorkerStep(p)
  PROVE  /\ UNCHANGED masterVars
         /\ proc' \in [Pid -> {"none", "starting", "serving", "dead", "gone"}]
         /\ how' \in [Pid -> {"exit", "signal", "pipe", "error"}]
         /\ arg' = arg
         /\ Alive' = Alive
  <1>. DEFINE Now == proc[p] \in {"starting", "serving"}
              Then == \E x \in {"serving", "dead"}, y \in {"exit", "signal", "pipe", "error"} :
                        /\ proc' = proc \/ proc' = [proc EXCEPT ![p] = x]
                        /\ how' = how \/ how' = [how EXCEPT ![p] = y]
  <1>1. Now /\ Then /\ UNCHANGED masterVars /\ arg' = arg
    <2>1. CASE Started(p)
      BY <2>1 DEF Started
    <2>2. CASE ClientComes(p)
      BY <2>2 DEF ClientComes
    <2>3. CASE ClientLeaves(p)
      BY <2>3 DEF ClientLeaves, LastLeaves
    <2>4. CASE Fails(p)
      BY <2>4 DEF Fails, Living
    <2>. QED
      BY <2>1, <2>2, <2>3, <2>4 DEF WorkerStep
  <1>2. proc \in [Pid -> {"none", "starting", "serving", "dead", "gone"}]
        /\ how \in [Pid -> {"exit", "signal", "pipe", "error"}]
    BY DEF Kinds
  <1>3. \A q \in Pid : proc'[q] \in {"starting", "serving", "dead"}
                          <=> proc[q] \in {"starting", "serving", "dead"}
    BY <1>1, <1>2
  <1>4. Alive' = Alive
    <2>1. Alive = {q \in Pid : proc[q] \in {"starting", "serving", "dead"}}
      BY DEF Alive, Living, Dead
    <2>2. Alive' = {q \in Pid : proc'[q] \in {"starting", "serving", "dead"}}
      BY DEF Alive, Living, Dead
    <2>. QED
      BY <1>3, <2>1, <2>2
  <1>. QED
    BY <1>1, <1>2, <1>4

(* The lowest descriptor free.                                             *)
LEMMA LowestFree ==
  ASSUME NEW S \in SUBSET Pid, (1 .. MaxFd) \ S # {}
  PROVE  (CHOOSE f \in (1 .. MaxFd) \ S : \A g \in (1 .. MaxFd) \ S : f <= g)
            \in (1 .. MaxFd) \ S
  <1>. DEFINE free == (1 .. MaxFd) \ S
  <1>1. free \subseteq Nat /\ free # {}
    OBVIOUS
  <1>. HIDE DEF free
  <1>2. \E f \in free : \A g \in free : f <= g
    BY <1>1, LeastNumber
  <1>3. (CHOOSE f \in free : \A g \in free : f <= g) \in free
    BY <1>2
  <1>. QED
    BY <1>3 DEF free

(* Every step keeps the types.                                             *)
LEMMA KindsNext ==
  ASSUME Kinds, [Next]_vars
  PROVE  Kinds'
  <1>. USE DEF Kinds
  <1>1. CASE UNCHANGED vars
    BY <1>1 DEF vars, masterVars, workerVars
  <1>2. CASE Fork
    <2>1. /\ nextPid \in Pid /\ nextPid + 1 \in 1 .. NNode + 1
          /\ nextPid \in 0 .. nextPid + 1 - 1
      BY <1>2, Sized DEF Fork, Pid, Node
    <2>. QED
      BY <1>2, <2>1 DEF Fork
  <1>3. CASE ForkFails
    BY <1>3 DEF ForkFails, workerVars
  <1>4. CASE Record
    <2>1. 0 \in 0 .. nextPid - 1
      BY Sized
    <2>2. entry' \in [Pid -> {"value", "chan", "wild"}]
      BY <1>4 DEF Record
    <2>. QED
      BY <1>4, <2>1, <2>2 DEF Record, workerVars
  <1>5. CASE Sleep
    BY <1>5 DEF Sleep, workerVars
  <1>6. CASE Wake
    BY <1>6 DEF Wake, workerVars
  <1>7. CASE SignalStop
    <2>1. PICK S : Kill(S) /\ pc' \in {"signals", pc}
      BY <1>7 DEF SignalStop, Deliver
    <2>. QED
      BY <1>7, <2>1, KillIs DEF SignalStop
  <1>8. CASE SignalRestart
    <2>1. hups' \in 0 .. MaxHups
      BY <1>8, MasterAssumption DEF SignalRestart
    <2>2. CASE children.total < 1
      BY <1>8, <2>1, <2>2 DEF SignalRestart, workerVars
    <2>3. CASE ~(children.total < 1)
      <3>1. PICK S : Kill(S) /\ pc' \in {"signals", pc}
        BY <1>8, <2>3 DEF SignalRestart, Deliver
      <3>2. isExit' \in BOOLEAN
        BY <1>8, <2>3 DEF SignalRestart
      <3>. QED
        BY <1>8, <2>1, <3>1, <3>2, KillIs DEF SignalRestart
    <2>. QED
      BY <2>2, <2>3
  <1>9. CASE SignalAgain
    BY <1>9, KillIs DEF SignalAgain, masterVars
  <1>10. ASSUME NEW p \in Pid, Reap(p) PROVE Kinds'
    <2>1. /\ pc' \in {"crashed", "restart", "reap"} /\ link' \in {"chan", "wild"} /\ id = 0
          /\ proc' = [proc EXCEPT ![p] = "gone"]
      BY <1>10 DEF Reap
    <2>. QED
      BY <1>10, <2>1 DEF Reap
  <1>11. ASSUME NEW p \in Pid, WorkerStep(p) PROVE Kinds'
    <2>1. open' \in [Pid -> SUBSET Pid] /\ told' \in [Pid -> {"no", "yes", "shut"}]
      <3>1. CASE Started(p)
        BY <3>1 DEF Started
      <3>2. CASE ClientComes(p)
        <4>. DEFINE fd == CHOOSE f \in (1 .. MaxFd) \ open[p] :
                             \A g \in (1 .. MaxFd) \ open[p] : f <= g
        <4>1. fd \in 1 .. MaxFd
          <5>1. open[p] \in SUBSET Pid
            BY DEF Kinds
          <5>2. (1 .. MaxFd) \ open[p] # {}
            BY <3>2 DEF ClientComes
          <5>3. fd \in (1 .. MaxFd) \ open[p]
            BY <5>1, <5>2, LowestFree
          <5>. QED
            BY <5>3
        <4>2. fd \in Pid
          BY <4>1, Places, NodeAssumption DEF Pid, Node
        <4>3. open' = [open EXCEPT ![p] = @ \cup {fd}]
              /\ told' = [told EXCEPT ![p] = IF @ = "yes" THEN "shut" ELSE @]
          BY <3>2 DEF ClientComes
        <4>. HIDE DEF fd
        <4>. QED
          BY <4>2, <4>3
      <3>3. CASE ClientLeaves(p)
        BY <3>3 DEF ClientLeaves
      <3>4. CASE Fails(p)
        BY <3>4 DEF Fails
      <3>. QED
        BY <1>11, <3>1, <3>2, <3>3, <3>4 DEF WorkerStep
    <2>. QED
      BY <1>11, <2>1, WorkerIs DEF masterVars
  <1>. QED
    BY <1>1, <1>2, <1>3, <1>4, <1>5, <1>6, <1>7, <1>8, <1>9, <1>10, <1>11
       DEF Next, WorkerStep

-----------------------------------------------------------------------------
(* The trees stay small, each by itself.                                   *)
(* The key "restart" keeps.                                                *)
Least(K) == CHOOSE p \in K : \A q \in K : p <= q

(* A set of numbers has its least as a member.                             *)
LEMMA LeastIs ==
  ASSUME NEW K \in SUBSET Nat, K # {}
  PROVE  Least(K) \in K
  <1>1. \E p \in K : \A q \in K : p <= q
    BY LeastNumber
  <1>. QED
    BY <1>1 DEF Least

(* Every step keeps the master's trees small.                              *)
LEMMA ChildrenNext ==
  ASSUME Kinds, ChildrenSmall, [Next]_vars
  PROVE  ChildrenSmall'
  <1>1. CASE UNCHANGED <<nChildren, children, pToC>>
    BY <1>1 DEF ChildrenSmall
  <1>2. CASE Fork \/ ForkFails \/ Sleep \/ Wake \/ SignalStop \/ SignalAgain \/ UNCHANGED vars
    <2>1. UNCHANGED <<nChildren, children, pToC>>
      BY <1>2 DEF Fork, ForkFails, Sleep, Wake, SignalStop, SignalAgain, vars, masterVars
    <2>. QED
      BY <1>1, <2>1
  <1>3. ASSUME NEW p \in Pid, WorkerStep(p) PROVE ChildrenSmall'
    BY <1>1, <1>3, WorkerIs DEF masterVars
  <1>4. SUFFICES ASSUME nChildren <= 2, nChildren \in Limit, nChildren' = nChildren,
                        Small(children, nChildren), Small(pToC, nChildren),
                        Record \/ SignalRestart \/ \E p \in Pid : Reap(p)
                 PROVE  Small(children', nChildren) /\ Small(pToC', nChildren)
    <2>1. Record \/ SignalRestart \/ (\E p \in Pid : Reap(p)) => nChildren' = nChildren
      BY DEF Record, SignalRestart, Reap
    <2>2. nChildren <= 2 => nChildren \in Limit
      BY Sized
    <2>3. \/ Fork \/ ForkFails \/ Sleep \/ Wake \/ SignalStop \/ SignalAgain \/ UNCHANGED vars
          \/ \E p \in Pid : WorkerStep(p)
          \/ Record \/ SignalRestart \/ \E p \in Pid : Reap(p)
      BY DEF Next, WorkerStep
    <2>. QED
      BY <1>2, <1>3, <1>4, <2>1, <2>2, <2>3 DEF ChildrenSmall
  <1>5. CASE Record
    <2>1. children' = treePut(children, id, nChildren)
          /\ (pToC' = treePut(pToC, id, nChildren) \/ pToC' = pToC)
      BY <1>5 DEF Record, Enter
    <2>2. id \in Nat
      BY Sized
    <2>. QED
      BY <1>4, <2>1, <2>2, SmallPut
  <1>6. CASE SignalRestart
    <2>1. pToC' = pToC
      BY <1>6 DEF SignalRestart
    <2>2. children' \in {children, newTree}
          \/ (Keys(children) # {} /\ children' = treePut(newTree, Least(Keys(children)), nChildren))
      BY <1>6 DEF SignalRestart, Least
    <2>3. Small(newTree, nChildren)
      BY <1>4, SmallNew
    <2>4. CASE Keys(children) # {}
               /\ children' = treePut(newTree, Least(Keys(children)), nChildren)
      <3>1. Least(Keys(children)) \in Nat
        BY <1>4, <2>4, LeastIs, SmallIs
      <3>. QED
        BY <1>4, <2>1, <2>3, <2>4, <3>1, SmallPut
    <2>. QED
      BY <1>4, <2>1, <2>2, <2>3, <2>4
  <1>7. ASSUME NEW p \in Pid, Reap(p) PROVE Small(children', nChildren) /\ Small(pToC', nChildren)
    <2>1. children' = treeRemove(children, p) /\ (pToC' = treeRemove(pToC, p) \/ pToC' = pToC)
      BY <1>7 DEF Reap, Forget
    <2>2. p \in Nat
      BY Sized
    <2>. QED
      BY <1>4, <2>1, <2>2, SmallRemove
  <1>. QED
    BY <1>4, <1>5, <1>6, <1>7

(* Every step keeps the workers' trees small.                              *)
LEMMA ClientsNext ==
  ASSUME Kinds, ClientsSmall, [Next]_vars
  PROVE  ClientsSmall'
  <1>1. SUFFICES ASSUME MaxFd \in Limit, clients \in [Pid -> Tree],
                        \A p \in Pid : Small(clients[p], MaxFd)
                 PROVE  clients' \in [Pid -> Tree] /\ \A p \in Pid : Small(clients'[p], MaxFd)
    BY Places DEF ClientsSmall
  <1>2. CASE clients' = clients
    BY <1>1, <1>2
  <1>3. ASSUME NEW p \in Pid, NEW t, clients' = [clients EXCEPT ![p] = t], Small(t, MaxFd)
        PROVE  clients' \in [Pid -> Tree] /\ \A q \in Pid : Small(clients'[q], MaxFd)
    <2>1. t \in Tree
      BY <1>1, <1>3, SmallIs
    <2>. QED
      BY <1>1, <1>3, <2>1
  <1>4. CASE \/ Fork \/ ForkFails \/ Record \/ Sleep \/ Wake \/ UNCHANGED vars
             \/ \E p \in Pid : Reap(p) \/ Started(p)
    <2>1. clients' = clients
      BY <1>4 DEF Fork, ForkFails, Record, Sleep, Wake, vars, Reap, Started, workerVars
    <2>. QED
      BY <1>2, <2>1
  <1>5. CASE SignalStop \/ SignalRestart \/ SignalAgain
    <2>1. clients' = clients
      BY <1>5, KillIs DEF SignalStop, SignalRestart, SignalAgain, Deliver, workerVars
    <2>. QED
      BY <1>2, <2>1
  <1>6. ASSUME NEW p \in Pid, ClientComes(p)
        PROVE  clients' \in [Pid -> Tree] /\ \A q \in Pid : Small(clients'[q], MaxFd)
    <2>. DEFINE fd == CHOOSE f \in (1 .. MaxFd) \ open[p] :
                         \A g \in (1 .. MaxFd) \ open[p] : f <= g
    <2>1. fd \in Nat
      <3>1. open[p] \in SUBSET Pid
        BY DEF Kinds
      <3>2. (1 .. MaxFd) \ open[p] # {}
        BY <1>6 DEF ClientComes
      <3>3. fd \in (1 .. MaxFd) \ open[p]
        BY <3>1, <3>2, LowestFree
      <3>. QED
        BY <3>3
    <2>2. clients' = [clients EXCEPT ![p] = treePut(clients[p], fd, MaxFd)]
      BY <1>6 DEF ClientComes
    <2>. HIDE DEF fd
    <2>3. Small(treePut(clients[p], fd, MaxFd), MaxFd)
      BY <1>1, <2>1, SmallPut
    <2>. QED
      BY <1>3, <2>2, <2>3
  <1>7. ASSUME NEW p \in Pid, ClientLeaves(p)
        PROVE  clients' \in [Pid -> Tree] /\ \A q \in Pid : Small(clients'[q], MaxFd)
    <2>1. PICK fd \in open[p] : clients' = [clients EXCEPT ![p] = treeRemove(clients[p], fd)]
      BY <1>7 DEF ClientLeaves
    <2>2. fd \in Nat
      BY Sized DEF Kinds
    <2>3. Small(treeRemove(clients[p], fd), MaxFd)
      BY <1>1, <2>2, SmallRemove
    <2>. QED
      BY <1>3, <2>1, <2>3
  <1>8. ASSUME NEW p \in Pid, Fails(p)
        PROVE  clients' \in [Pid -> Tree] /\ \A q \in Pid : Small(clients'[q], MaxFd)
    <2>1. clients' = [clients EXCEPT ![p] = newTree]
      BY <1>8 DEF Fails
    <2>. QED
      BY <1>1, <1>3, <2>1, SmallNew
  <1>. QED
    BY <1>4, <1>5, <1>6, <1>7, <1>8 DEF Next

-----------------------------------------------------------------------------
(* One worker.                                                             *)
LEMMA SingleKeys ==
  ASSUME Kinds, ChildrenSmall, Single, nChildren = 1
  PROVE  /\ nChildren \in Limit /\ Small(children, nChildren)
         /\ \/ children.total = 0 /\ Keys(children) = {}
            \/ children.total = 1 /\ \E k \in Nat : Keys(children) = {k}
  <1>1. nChildren \in Limit /\ Small(children, nChildren)
    BY Sized DEF ChildrenSmall
  <1>2. children.total \in Nat /\ children.total <= 1 /\ IsFiniteSet(Keys(children))
    BY <1>1, SmallIs
  <1>3. children.total = Cardinality(Keys(children))
    BY DEF Single
  <1>4. children.total = 0 \/ children.total = 1
    BY <1>2
  <1>5. children.total = 1 => Keys(children) # {}
    <2>1. ASSUME Keys(children) = {} PROVE children.total = 0
      <3>1. Cardinality({}) = 0
        BY FS_EmptySet
      <3>2. Cardinality(Keys(children)) = Cardinality({})
        BY <2>1
      <3>. QED
        BY <1>3, <3>1, <3>2
    <2>. QED
      BY <2>1
  <1>. QED
    BY <1>1, <1>4, <1>5, SmallKeys

(* The master reaps its only worker: its key was the only one.             *)
LEMMA SingleReap ==
  ASSUME Kinds, ChildrenSmall, Single, nChildren = 1, NEW p \in Pid, Reap(p)
  PROVE  /\ children'.total = 0 /\ Keys(children') = {} /\ Alive' = {}
         /\ pc' \in {"reap", "restart"}
  <1>1. nChildren \in Limit /\ Small(children, nChildren)
        /\ \/ children.total = 0 /\ Keys(children) = {}
           \/ children.total = 1 /\ \E k \in Nat : Keys(children) = {k}
    BY SingleKeys
  <1>2. pc = "reap" /\ p \in Dead /\ proc' = [proc EXCEPT ![p] = "gone"]
        /\ children' = treeRemove(children, p)
    BY DEF Reap, Forget
  <1>3. p \in Nat /\ p # 0
    BY Sized
  <1>4. Keys(children) \ {0} = Alive
    BY <1>2 DEF Single
  <1>5. p \in Alive
    BY <1>2 DEF Alive
  <1>6. Keys(children) = {p} /\ children.total = 1
    BY <1>1, <1>4, <1>5
  <1>7. Remove(children, children', p)
    BY <1>1, <1>2, <1>3, SmallRemove
  <1>8. children'.total = 0 /\ Keys(children') = {}
    BY <1>6, <1>7 DEF Remove
  <1>9. Alive' = {}
    <2>1. Alive = {p}
      BY <1>3, <1>4, <1>6
    <2>2. Alive' \subseteq Alive \ {p}
      BY <1>2 DEF Alive, Living, Dead, Kinds
    <2>. QED
      BY <2>1, <2>2
  <1>10. pc' \in {"reap", "restart"}
    BY <1>2 DEF Reap, Socks
  <1>. QED
    BY <1>8, <1>9, <1>10

(* Every step keeps what is said of one worker.                            *)
LEMMA SingleNext ==
  ASSUME Kinds, ChildrenSmall, Single, [Next]_vars
  PROVE  Single'
  <1>. DEFINE K == Keys(children)
  <1>0. SUFFICES ASSUME nChildren = 1, nChildren' = nChildren
                 PROVE  /\ children'.total = Cardinality(Keys(children'))
                        /\ pc' # "crashed"
                        /\ pc' \in {"reap", "sleep"} => Keys(children') \ {0} = Alive'
                        /\ pc' \in {"restart", "forked"} => Keys(children') = {}
                        /\ pc' \in {"restart", "ended"} => Alive' = {}
                        /\ pc' = "forked" => Alive' = {id'} \ {0}
    <2>1. nChildren' = nChildren
      BY WorkerIs DEF Next, Fork, ForkFails, Record, Sleep, Wake, SignalStop, SignalRestart,
            SignalAgain, Reap, WorkerStep, masterVars, vars
    <2>. QED
      BY <2>1 DEF Single
  <1>1. /\ children.total = Cardinality(K)
        /\ pc # "crashed"
        /\ pc \in {"reap", "sleep"} => K \ {0} = Alive
        /\ pc \in {"restart", "forked"} => K = {}
        /\ pc \in {"restart", "ended"} => Alive = {}
        /\ pc = "forked" => Alive = {id} \ {0}
    BY <1>0 DEF Single
  <1>2. /\ nChildren \in Limit /\ Small(children, nChildren)
        /\ \/ children.total = 0 /\ K = {}
           \/ children.total = 1 /\ \E k \in Nat : K = {k}
    BY <1>0, SingleKeys
  <1>3. Cardinality({}) = 0 /\ \A k : Cardinality({k}) = 1
    BY FS_EmptySet, FS_Singleton
  <1>. HIDE DEF K
  <1>4. CASE UNCHANGED <<children, pc, id>> /\ Alive' = Alive
    BY <1>1, <1>4 DEF K
  <1>5. CASE UNCHANGED vars
    <2>1. UNCHANGED <<children, pc, id>> /\ Alive' = Alive
      BY <1>5 DEF vars, masterVars, workerVars, Alive, Living, Dead
    <2>. QED
      BY <1>4, <2>1
  <1>6. ASSUME NEW p \in Pid, WorkerStep(p)
        PROVE  UNCHANGED <<children, pc, id>> /\ Alive' = Alive
    BY <1>6, WorkerIs DEF masterVars
  <1>7. CASE Fork
    <2>1. /\ pc = "restart" /\ pc' = "forked" /\ id' = nextPid /\ children' = children
          /\ nextPid \in Pid /\ nextPid # 0 /\ proc' = [proc EXCEPT ![nextPid] = "starting"]
      BY <1>7, Sized DEF Fork, Pid, Node
    <2>2. Alive' = Alive \cup {nextPid}
      BY <2>1 DEF Alive, Living, Dead, Kinds
    <2>. QED
      BY <1>1, <2>1, <2>2 DEF K
  <1>8. CASE ForkFails
    <2>1. /\ pc = "restart" /\ pc' = "forked" /\ id' = id /\ children' = children
          /\ id = 0 /\ proc' = proc
      BY <1>8 DEF ForkFails, workerVars, Kinds
    <2>2. Alive' = Alive
      BY <2>1 DEF Alive, Living, Dead
    <2>. QED
      BY <1>1, <2>1, <2>2 DEF K
  <1>9. CASE Record
    <2>1. /\ pc = "forked" /\ pc' = "reap" /\ children' = treePut(children, id, nChildren)
          /\ proc' = proc /\ id \in Nat
      BY <1>9, Sized DEF Record, Enter, workerVars
    <2>2. Put(children, children', id, nChildren)
      BY <1>2, <2>1, SmallPut
    <2>3. K = {} /\ children.total = 0
      BY <1>1, <1>3, <2>1
    <2>4. children'.total = 1 /\ Keys(children') = {id}
      BY <1>0, <2>2, <2>3 DEF Put, K
    <2>5. Alive' = Alive
      BY <2>1 DEF Alive, Living, Dead
    <2>. QED
      BY <1>1, <1>3, <2>1, <2>4, <2>5
  <1>10. CASE Sleep
    <2>1. pc = "reap" /\ pc' = "sleep" /\ children' = children /\ proc' = proc
      BY <1>10 DEF Sleep, workerVars
    <2>2. Alive' = Alive
      BY <2>1 DEF Alive, Living, Dead
    <2>. QED
      BY <1>1, <2>1, <2>2 DEF K
  <1>11. CASE Wake
    <2>1. pc = "sleep" /\ pc' = (IF children.total < 1 THEN "ended" ELSE "reap")
          /\ children' = children /\ proc' = proc
      BY <1>11 DEF Wake, workerVars
    <2>2. Alive' = Alive
      BY <2>1 DEF Alive, Living, Dead
    <2>3. K \ {0} = Alive
      BY <1>1, <2>1
    <2>4. pc' = "ended" => K = {}
      BY <1>2, <2>1
    <2>5. pc' \in {"ended", "reap"}
      BY <2>1
    <2>. QED
      BY <1>1, <2>1, <2>2, <2>3, <2>4, <2>5 DEF K
  <1>12. ASSUME pc \notin {"ended", "crashed", "signals"}, pc' \in {"signals", pc},
                Alive' = Alive, id' = id, children'.total = children.total,
                Keys(children') = K
         PROVE  /\ children'.total = Cardinality(Keys(children'))
                /\ pc' # "crashed"
                /\ pc' \in {"reap", "sleep"} => Keys(children') \ {0} = Alive'
                /\ pc' \in {"restart", "forked"} => Keys(children') = {}
                /\ pc' \in {"restart", "ended"} => Alive' = {}
                /\ pc' = "forked" => Alive' = {id'} \ {0}
    BY <1>1, <1>12
  <1>13. CASE SignalStop
    <2>1. PICK S : Kill(S) /\ pc' \in {"signals", pc}
      BY <1>13 DEF SignalStop, Deliver
    <2>2. Alive' = Alive
      BY <2>1, KillIs
    <2>. QED
      BY <1>12, <1>13, <2>1, <2>2 DEF SignalStop, MaySignal, K
  <1>14. CASE SignalRestart
    <2>1. CASE children.total < 1
      <3>1. UNCHANGED <<children, pc, id>> /\ proc' = proc
        BY <1>14, <2>1 DEF SignalRestart, workerVars
      <3>2. Alive' = Alive
        BY <3>1 DEF Alive, Living, Dead
      <3>. QED
        BY <1>4, <3>1, <3>2
    <2>2. CASE ~(children.total < 1)
      <3>1. PICK k \in Nat : K = {k}
        BY <1>2, <2>2
      <3>2. children.total = 1
        BY <1>2, <2>2
      <3>3. PICK S : Kill(S) /\ pc' \in {"signals", pc}
        BY <1>14, <2>2 DEF SignalRestart, Deliver
      <3>4. Alive' = Alive
        BY <3>3, KillIs
      <3>5. children' = treePut(newTree, Least(K), nChildren)
        BY <1>14, <2>2, <3>1 DEF SignalRestart, Least, K
      <3>6. Least(K) = k
        <4>1. K \in SUBSET Nat /\ K # {}
          BY <3>1
        <4>. QED
          BY <3>1, <4>1, LeastIs
      <3>7. Put(newTree, children', k, nChildren)
        BY <1>2, <3>5, <3>6, SmallNew, SmallPut
      <3>8. children'.total = 1 /\ Keys(children') = {k}
        BY <1>0, <1>2, <3>7, SmallNew DEF Put
      <3>. QED
        BY <1>12, <1>14, <3>1, <3>2, <3>3, <3>4, <3>8 DEF SignalRestart, MaySignal
    <2>. QED
      BY <2>1, <2>2
  <1>15. CASE SignalAgain
    <2>1. Kill(Living) /\ UNCHANGED <<children, pc, id>>
      BY <1>15 DEF SignalAgain, masterVars
    <2>2. Alive' = Alive
      BY <2>1, KillIs
    <2>. QED
      BY <1>4, <2>1, <2>2
  <1>16. ASSUME NEW p \in Pid, Reap(p)
         PROVE  /\ children'.total = Cardinality(Keys(children'))
                /\ pc' # "crashed"
                /\ pc' \in {"reap", "sleep"} => Keys(children') \ {0} = Alive'
                /\ pc' \in {"restart", "forked"} => Keys(children') = {}
                /\ pc' \in {"restart", "ended"} => Alive' = {}
                /\ pc' = "forked" => Alive' = {id'} \ {0}
    <2>1. /\ children'.total = 0 /\ Keys(children') = {} /\ Alive' = {}
          /\ pc' \in {"reap", "restart"}
      BY <1>0, <1>16, SingleReap
    <2>. QED
      BY <1>3, <2>1
  <1>. QED
    BY <1>4, <1>5, <1>6, <1>7, <1>8, <1>9, <1>10, <1>11, <1>13, <1>14, <1>15, <1>16
       DEF Next, WorkerStep

-----------------------------------------------------------------------------
(* Two workers.                                                            *)
LEMMA PairNext ==
  ASSUME Kinds, ChildrenSmall, Pair, [Next]_vars
  PROVE  Pair'
  <1>. DEFINE K == Keys(children)
              a == Cardinality(Alive)
              b == Cardinality(Alive \ {id})
              Goal == /\ Keys(children') \subseteq 0 .. nextPid' - 1
                      /\ pc' \in {"reap", "sleep", "restart"}
                            => Cardinality(Alive') <= children'.total
                      /\ pc' = "restart" => Cardinality(Alive') <= 1
                      /\ pc' = "forked" => /\ id' # 0 => id' \notin Keys(children')
                                           /\ Cardinality(Alive' \ {id'}) <= children'.total
                                           /\ Cardinality(Alive' \ {id'}) <= 1
                      /\ pc' = "ended" => Alive' = {}
  <1>0. SUFFICES ASSUME nChildren = 2, hups = 0, hups' = 0
                 PROVE  Goal
    <2>1. nChildren' = nChildren /\ (hups' = hups \/ hups' = hups + 1)
      BY WorkerIs DEF Next, Fork, ForkFails, Record, Sleep, Wake, SignalStop, SignalRestart,
            SignalAgain, Reap, WorkerStep, masterVars, vars
    <2>2. hups' = 0 => hups = 0
      BY <2>1 DEF Kinds
    <2>. QED
      BY <2>1, <2>2 DEF Pair
  <1>1. /\ K \subseteq 0 .. nextPid - 1
        /\ pc \in {"reap", "sleep", "restart"} => a <= children.total
        /\ pc = "restart" => a <= 1
        /\ pc = "forked" => /\ id # 0 => id \notin K
                            /\ b <= children.total
                            /\ b <= 1
        /\ pc = "ended" => Alive = {}
    BY <1>0 DEF Pair
  <1>2. nChildren \in Limit /\ Small(children, nChildren)
    BY <1>0, Sized DEF ChildrenSmall
  <1>3. children.total \in Nat /\ children.total <= 2
    BY <1>0, <1>2, SmallIs
  <1>4. IsFiniteSet(Alive) /\ a \in Nat /\ Alive \subseteq Pid
    BY AliveFinite
  <1>5. nextPid \in 1 .. NNode + 1 /\ id \in 0 .. nextPid - 1 /\ Pid \subseteq Nat /\ 0 \notin Pid
        /\ NNode \in Nat
    BY Sized
  <1>. HIDE DEF K, a, b, Goal
  <1>6. ASSUME UNCHANGED <<children, pc, id, nextPid>>, Alive' = Alive PROVE Goal
    BY <1>1, <1>6 DEF Goal, K, a, b
  <1>7. CASE UNCHANGED vars
    <2>1. UNCHANGED <<children, pc, id, nextPid>> /\ Alive' = Alive
      BY <1>7 DEF vars, masterVars, workerVars, Alive, Living, Dead
    <2>. QED
      BY <1>6, <2>1
  <1>8. ASSUME NEW p \in Pid, WorkerStep(p) PROVE Goal
    <2>1. UNCHANGED <<children, pc, id, nextPid>> /\ Alive' = Alive
      BY <1>8, WorkerIs DEF masterVars
    <2>. QED
      BY <1>6, <2>1
  <1>9. CASE Fork
    <2>1. /\ pc = "restart" /\ pc' = "forked" /\ id' = nextPid /\ children' = children
          /\ nextPid' = nextPid + 1
          /\ nextPid \in Pid /\ proc' = [proc EXCEPT ![nextPid] = "starting"]
      BY <1>9, <1>5 DEF Fork, Pid, Node
    <2>2. Alive' = Alive \cup {nextPid}
      BY <2>1 DEF Alive, Living, Dead, Kinds
    <2>3. Alive' \ {id'} \subseteq Alive
      BY <2>1, <2>2
    <2>4. Cardinality(Alive' \ {id'}) \in Nat /\ Cardinality(Alive' \ {id'}) <= a
      BY <1>4, <2>3, FS_Subset, FS_CardinalityType DEF a
    <2>5. K \subseteq 0 .. nextPid' - 1 /\ nextPid \notin K
      BY <1>1, <1>5, <2>1
    <2>6. Cardinality(Alive' \ {id'}) <= children.total /\ Cardinality(Alive' \ {id'}) <= 1
      BY <1>1, <1>3, <1>4, <2>1, <2>4
    <2>. QED
      BY <2>1, <2>5, <2>6 DEF Goal, K
  <1>10. CASE ForkFails
    <2>1. /\ pc = "restart" /\ pc' = "forked" /\ id' = id /\ children' = children
          /\ nextPid' = nextPid /\ id = 0 /\ proc' = proc
      BY <1>10 DEF ForkFails, workerVars, Kinds
    <2>2. Alive' = Alive /\ Alive' \ {id'} = Alive
      BY <1>4, <1>5, <2>1 DEF Alive, Living, Dead
    <2>. QED
      BY <1>1, <2>1, <2>2 DEF Goal, K, a
  <1>11. CASE Record
    <2>1. /\ pc = "forked" /\ pc' = "reap" /\ children' = treePut(children, id, nChildren)
          /\ proc' = proc /\ id \in Nat /\ nextPid' = nextPid
      BY <1>11, <1>5 DEF Record, Enter, workerVars
    <2>2. Put(children, children', id, 2)
      BY <1>0, <1>2, <2>1, SmallPut
    <2>3. Alive' = Alive
      BY <2>1 DEF Alive, Living, Dead
    <2>4. a <= b + 1 /\ b \in Nat /\ (id = 0 => a = b)
      <3>1. b = IF id \in Alive THEN a - 1 ELSE a
        BY <1>4, FS_RemoveElement DEF a, b
      <3>2. b \in Nat
        BY <1>4, FS_Subset, FS_CardinalityType DEF b
      <3>. QED
        BY <1>4, <1>5, <3>1, <3>2
    <2>5. Keys(children') \subseteq K \cup {id}
      BY <2>2 DEF Put, K
    <2>6. a <= children'.total
      <3>1. CASE children.total >= 2
        BY <1>1, <1>3, <1>4, <2>1, <2>2, <2>4, <3>1 DEF Put
      <3>2. CASE ~(children.total >= 2) /\ id \in K
        BY <1>1, <1>3, <1>4, <2>1, <2>2, <2>4, <3>2 DEF Put, K
      <3>3. CASE ~(children.total >= 2) /\ id \notin K
        BY <1>1, <1>3, <1>4, <2>1, <2>2, <2>4, <3>3 DEF Put, K
      <3>. QED
        BY <3>1, <3>2, <3>3
    <2>. QED
      BY <1>1, <1>5, <2>1, <2>3, <2>5, <2>6 DEF Goal, a
  <1>12. CASE Sleep
    <2>1. /\ pc = "reap" /\ pc' = "sleep" /\ children' = children /\ proc' = proc
          /\ nextPid' = nextPid
      BY <1>12 DEF Sleep, workerVars
    <2>2. Alive' = Alive
      BY <2>1 DEF Alive, Living, Dead
    <2>. QED
      BY <1>1, <2>1, <2>2 DEF Goal, K, a
  <1>13. CASE Wake
    <2>1. pc = "sleep" /\ pc' = (IF children.total < 1 THEN "ended" ELSE "reap")
          /\ children' = children /\ proc' = proc /\ nextPid' = nextPid
      BY <1>13 DEF Wake, workerVars
    <2>2. Alive' = Alive
      BY <2>1 DEF Alive, Living, Dead
    <2>3. a <= children.total
      BY <1>1, <2>1
    <2>4. pc' = "ended" => Alive = {}
      <3>1. pc' = "ended" => a = 0
        BY <1>3, <1>4, <2>1, <2>3
      <3>. QED
        BY <1>4, <3>1, FS_EmptySet DEF a
    <2>5. pc' \in {"ended", "reap"}
      BY <2>1
    <2>. QED
      BY <1>1, <2>1, <2>2, <2>3, <2>4, <2>5 DEF Goal, K, a
  <1>14. CASE SignalStop
    <2>1. PICK S : Kill(S) /\ pc' \in {"signals", pc}
      BY <1>14 DEF SignalStop, Deliver
    <2>2. Alive' = Alive
      BY <2>1, KillIs
    <2>3. UNCHANGED <<children, id, nextPid>>
      BY <1>14 DEF SignalStop
    <2>4. CASE pc' = pc
      BY <1>6, <2>2, <2>3, <2>4
    <2>5. CASE pc' = "signals"
      BY <1>1, <2>2, <2>3, <2>5 DEF Goal, K
    <2>. QED
      BY <2>1, <2>4, <2>5
  <1>15. ~SignalRestart
    BY <1>0 DEF SignalRestart
  <1>16. CASE SignalAgain
    <2>1. Kill(Living) /\ UNCHANGED <<children, pc, id, nextPid>>
      BY <1>16 DEF SignalAgain, masterVars
    <2>2. Alive' = Alive
      BY <2>1, KillIs
    <2>. QED
      BY <1>6, <2>1, <2>2
  <1>17. ASSUME NEW p \in Pid, Reap(p) PROVE Goal
    <2>1. /\ pc = "reap" /\ p \in Dead /\ children' = treeRemove(children, p)
          /\ proc' = [proc EXCEPT ![p] = "gone"] /\ nextPid' = nextPid
          /\ pc' \in {"crashed", "restart", "reap"}
      BY <1>17 DEF Reap, Forget
    <2>2. Remove(children, children', p)
      BY <1>2, <1>5, <2>1, SmallRemove
    <2>3. Alive' \subseteq Alive \ {p} /\ p \in Alive
      BY <2>1 DEF Alive, Living, Dead, Kinds
    <2>4. Cardinality(Alive') \in Nat /\ Cardinality(Alive') <= a - 1
      <3>1. IsFiniteSet(Alive \ {p}) /\ Cardinality(Alive \ {p}) = a - 1
        BY <1>4, <2>3, FS_RemoveElement DEF a
      <3>. QED
        BY <1>4, <2>3, <3>1, FS_Subset, FS_CardinalityType
    <2>5. a <= children.total
      BY <1>1, <2>1
    <2>6. children'.total >= children.total - 1 /\ Keys(children') \subseteq K
      BY <1>3, <2>2 DEF Remove, K
    <2>7. Cardinality(Alive') <= children'.total /\ Cardinality(Alive') <= 1
      <3>1. children'.total \in Int
        BY <1>3, <2>2 DEF Remove
      <3>. QED
        BY <1>3, <1>4, <2>4, <2>5, <2>6, <3>1
    <2>. QED
      BY <1>1, <2>1, <2>6, <2>7 DEF Goal
  <1>. QED
    BY <1>7, <1>8, <1>9, <1>10, <1>11, <1>12, <1>13, <1>14, <1>15, <1>16, <1>17
       DEF Next, WorkerStep

-----------------------------------------------------------------------------
(* The types, what the trees hold and what is counted, in every reachable  *)
(* state: whatever the environment does and however often.                 *)
THEOREM Invariance == Spec => []IInv
  <1>1. IInv /\ [Next]_vars => IInv'
    BY KindsNext, ChildrenNext, ClientsNext, SingleNext, PairNext DEF IInv, Trees
  <1>. QED
    BY <1>1, InitInv, PTL DEF Spec

(* With at most two workers, and at most two clients each, the master's    *)
(* and the workers' fields keep their types: no tree loses its shape, and  *)
(* no count falls below zero.                                              *)
THEOREM TypeSafe == Spec => [](nChildren <= 2 /\ MaxFd <= 2 => TypeOK)
  <1>1. ASSUME IInv, nChildren <= 2, MaxFd <= 2 PROVE TypeOK
    <2>1. nChildren \in Limit /\ id \in Node0
      BY <1>1, Sized DEF IInv, Kinds, Node0
    <2>2. children \in Tree /\ pToC \in Tree
      BY <1>1, <2>1, SmallIs DEF IInv, Trees, ChildrenSmall
    <2>3. clients \in [Pid -> Tree]
      BY <1>1 DEF IInv, Trees, ClientsSmall
    <2>. QED
      BY <1>1, <2>1, <2>2, <2>3 DEF IInv, Kinds, TypeOK
  <1>2. IInv => (nChildren <= 2 /\ MaxFd <= 2 => TypeOK)
    BY <1>1
  <1>. QED
    BY <1>2, Invariance, PTL

(* One worker is always tracked: reaped or running, it has its place in    *)
(* the tree between two restarts, and nothing else has one.                *)
THEOREM TrackedHolds == Spec => []Tracked
  <1>1. IInv => Tracked
    BY DEF IInv, Single, Tracked, Alive
  <1>. QED
    BY <1>1, Invariance, PTL

(* The master of one worker or two does not end before them.               *)
THEOREM EndsAfterWorkers == Spec => [](nChildren <= 2 => EndsLast)
  <1>1. ASSUME IInv, nChildren <= 2 PROVE EndsLast
    <2>1. nChildren = 1 \/ nChildren = 2
      BY <1>1, Sized DEF IInv
    <2>2. SUFFICES ASSUME pc = "ended", nChildren = 1 \/ hups = 0 PROVE Alive = {}
      BY DEF EndsLast, Alive
    <2>. QED
      BY <1>1, <2>1, <2>2 DEF IInv, Single, Pair
  <1>. QED
    BY <1>1, Invariance, PTL
=============================================================================
