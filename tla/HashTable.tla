----------------------------- MODULE HashTable ------------------------------
(***************************************************************************)
(* The hash table of src/src/map/hash.c under its callers: cToR and rToC   *)
(* by fd, the block and release commands by name.  A table has `max' nodes *)
(* and, stored in front of them, `max' indexes of the first node of each   *)
(* bucket; removed nodes are chained from `undef'.  The functions of       *)
(* hash.c are operators on a table.                                        *)
(*                                                                         *)
(* A key is its hash code.  `store' is the map the callers believe they    *)
(* keep.  A name with a suffix is a mutant of the one that follows it.     *)
(***************************************************************************)
EXTENDS Integers, FiniteSets

CONSTANTS Key,        \* the hash codes in use
          Value,
          NoValue,
          DefaultMax, \* HASH_DEFAULT_MAX_NODE
          MaxNodes    \* bound: the table grows up to this size

ASSUME HashAssumption ==
    /\ Key \subseteq Nat
    /\ NoValue \notin Value
    /\ DefaultMax \in Nat \ {0} /\ MaxNodes \in Nat
    /\ DefaultMax <= MaxNodes

Index == 0 .. MaxNodes - 1
NONE  == MaxNodes      \* (uint32_t) -1

Node  == [key : Key \cup {NoValue}, value : Value \cup {NoValue},
          def : BOOLEAN, next : Index \cup {NONE}]
Table == [max : 1 .. MaxNodes, total : 0 .. MaxNodes, avalid : 0 .. MaxNodes,
          undef : Index \cup {NONE},
          first : [Index -> Index \cup {NONE}],    \* HASH_KEY, by bucket
          n : [Index -> Node]]

newHash ==
    [max |-> DefaultMax, total |-> 0, avalid |-> 0, undef |-> NONE,
     first |-> [i \in Index |-> NONE],
     n |-> [i \in Index |-> [key |-> NoValue, value |-> NoValue, def |-> FALSE, next |-> 0]]]

Valid(t, i)  == i # NONE /\ i < t.max
Bucket(t, k) == k % t.max

-----------------------------------------------------------------------------
(* findHashNode: along the chain until the key, an end or a removed node.  *)
(* A walk that passes more nodes than there are never ends.                *)
EndsAt_IgnoreDef(t, i) == ~Valid(t, i)
EndsAt(t, i)           == ~Valid(t, i) \/ ~t.n[i].def

Walk(t, k) ==
    LET walk[s \in 0 .. MaxNodes] ==
            IF s = 0 THEN t.first[Bucket(t, k)]
            ELSE LET i == walk[s - 1]
                 IN  IF EndsAt(t, i) \/ t.n[i].key = k THEN i ELSE t.n[i].next
    IN  walk

At(t, k)    == Walk(t, k)[MaxNodes]
Found(t, k) == ~EndsAt(t, At(t, k)) /\ t.n[At(t, k)].key = k
Loops(t, k) == ~EndsAt(t, At(t, k)) /\ t.n[At(t, k)].key # k

hashGet(t, k) == IF Found(t, k) THEN t.n[At(t, k)].value ELSE NoValue

-----------------------------------------------------------------------------
(* resizeHash means to halve a table with many idle nodes.  The test is    *)
(* unsigned, so a difference below zero exceeds every total; and the       *)
(* pointer moves by an unsigned difference too, out of the allocation.     *)
Shrinks(t) ==
    LET most == (t.max \div 2) - 2 * DefaultMax
    IN  t.total > DefaultMax /\ (most < 0 \/ t.total < most)

(* A full table is doubled and every bucket rebuilt.  The loop never       *)
(* leaves the first node, and counts indexes from one (hash.c:201-205).    *)
Grown(t) ==
    [t EXCEPT !.max = 2 * t.max,
              !.first = [i \in Index |-> IF i = t.n[0].key % (2 * t.max) THEN t.total ELSE NONE],
              !.n[0].next = IF t.total = 1 THEN NONE ELSE t.total - 1]

(* The node for a new key: a removed one, else the next never used.        *)
FreeNode(t) == IF Valid(t, t.undef) THEN t.undef ELSE t.avalid

Link_Cut(t, k)        == NONE
Link_AfterIndex(t, k) == FreeNode(t)
Link(t, k)            == t.first[Bucket(t, k)]

Insert(t, k, v) ==
    LET i == FreeNode(t)
    IN  [t EXCEPT !.first[Bucket(t, k)] = i,
                  !.n[i] = [key |-> k, value |-> v, def |-> TRUE, next |-> Link(t, k)],
                  !.undef = IF i = t.undef THEN t.n[i].next ELSE @,
                  !.avalid = IF i = t.undef THEN @ ELSE @ + 1,
                  !.total = @ + 1]

(* hashPut once the table has room.                                        *)
hashPut(t, k, v) ==
    IF Found(t, k) THEN [t EXCEPT !.n[At(t, k)].value = v] ELSE Insert(t, k, v)

(* hashRemove of a key that is found, up to resizeHash.  The bucket of a   *)
(* removed first node keeps naming it when nothing follows.                *)
Reuse_Forgotten(t, i) == t.undef
Reuse(t, i)           == i

Bypass_Skipped(t, i) == i
Bypass(t, i)         == t.n[i].next

Before(t, k) == {Walk(t, k)[s] : s \in 0 .. MaxNodes} \ {At(t, k)}

Unlink(t, k) ==
    LET i == At(t, k)
    IN  IF Before(t, k) = {}
        THEN IF Valid(t, t.n[i].next)
             THEN [t EXCEPT !.first[Bucket(t, k)] = t.n[i].next] ELSE t
        ELSE LET p == CHOOSE j \in Before(t, k) : t.n[j].next = i
             IN  [t EXCEPT !.n[p].next = Bypass(t, i)]

hashRemove(t, k) ==
    LET i == At(t, k)
    IN  [Unlink(t, k) EXCEPT !.n[i].def = FALSE, !.n[i].value = NoValue,
                             !.n[i].next = t.undef,
                             !.undef = Reuse(t, i),
                             !.total = @ - 1]

-----------------------------------------------------------------------------
VARIABLES
    table,
    store,
    status,    \* "ok"; "hung" in a walk that does not end; "crashed"
    removed    \* history: a key was removed
vars == <<table, store, status, removed>>

Init ==
    /\ table = newHash
    /\ store = [k \in Key |-> NoValue]
    /\ status = "ok"
    /\ removed = FALSE

End(how) == status' = how /\ UNCHANGED <<table, store, removed>>

(* A caller that puts, and one that removes: the whole of hashPut and      *)
(* hashRemove, with their calls of resizeHash.                             *)
Put(k, v) ==
    LET full == table.total >= table.max
        t    == IF full THEN Grown(table) ELSE table
    IN  /\ ~full \/ 2 * table.max <= MaxNodes
        /\ IF full /\ Shrinks(table) THEN End("crashed")
           ELSE IF Loops(t, k) THEN End("hung")
           ELSE /\ table' = hashPut(t, k, v)
                /\ store' = [store EXCEPT ![k] = v]
                /\ UNCHANGED <<status, removed>>

Remove(k) ==
    IF Loops(table, k) THEN End("hung")
    ELSE IF ~Found(table, k)
    THEN store' = [store EXCEPT ![k] = NoValue] /\ UNCHANGED <<table, status, removed>>
    ELSE IF Shrinks(hashRemove(table, k)) THEN End("crashed")
    ELSE /\ table' = hashRemove(table, k)
         /\ store' = [store EXCEPT ![k] = NoValue]
         /\ removed' = TRUE
         /\ UNCHANGED status

(* A caller that looks up: only a walk that does not end changes anything. *)
Get(k) == Loops(table, k) /\ End("hung")

Next ==
    /\ status = "ok"
    /\ \E k \in Key : Remove(k) \/ Get(k) \/ \E v \in Value : Put(k, v)

Spec == Init /\ [][Next]_vars

-----------------------------------------------------------------------------
(* The types of the table's fields.                                        *)
TypeOK ==
    /\ table \in Table
    /\ store \in [Key -> Value \cup {NoValue}]
    /\ status \in {"ok", "hung", "crashed"} /\ removed \in BOOLEAN

(* Until the table grows, a lookup that ends returns what was last put     *)
(* under the key and not removed.                                          *)
Faithful ==
    table.max = DefaultMax =>
        \A k \in Key : ~Loops(table, k) => hashGet(table, k) = store[k]

(* Until a key is removed and until the table grows, every walk along a    *)
(* chain ends.                                                             *)
WalksEnd ==
    ~removed /\ table.max = DefaultMax => \A k \in Key : ~Loops(table, k)

(* No node is both on the chain of removed nodes and in use, and the two   *)
(* kinds are all the nodes ever used: none is lost, none is handed out     *)
(* twice.                                                                  *)
Removed ==
    LET chain[s \in 0 .. MaxNodes] ==
            IF s = 0 THEN table.undef
            ELSE IF Valid(table, chain[s - 1]) THEN table.n[chain[s - 1]].next ELSE NONE
    IN  {chain[s] : s \in 0 .. MaxNodes} \ {NONE}
NodesPartition ==
    /\ Removed = {i \in Index : i < table.avalid /\ ~table.n[i].def}
    /\ Cardinality({i \in Index : table.n[i].def}) = table.total
=============================================================================
