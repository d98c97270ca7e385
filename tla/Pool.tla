-------------------------------- MODULE Pool --------------------------------
(***************************************************************************)
(* The connection pool of one worker process (src/src/net/pool.c): a       *)
(* singly linked free list of `redis' structs and two counters.  The       *)
(* operators here are the pool's functions as actions on its variables;    *)
(* PoolUse and Worker supply the callers.                                  *)
(*                                                                         *)
(* A redis struct is identified by its address, which malloc may hand out  *)
(* again after a free.  Every assignment to `prev' in the source stores    *)
(* NULL (pool.c:128, 186, 215), so delRedis always takes the branch of     *)
(* lines 226-227 and `prev' is not modelled.                               *)
(***************************************************************************)
EXTENDS Integers, FiniteSets, Sequences

CONSTANTS MinNum,     \* [redis] min of rp.ini
          MaxNum,     \* [redis] max of rp.ini
          NRedis      \* number of distinct addresses malloc may return

(* run() rejects min > max (server.c:150-157) and initPool rejects min = 0. *)
(* Memory is large enough for every connection the counters allow.         *)
ASSUME SizeAssumption ==
    /\ MinNum \in Nat \ {0}
    /\ MaxNum \in Nat
    /\ NRedis \in Nat
    /\ MinNum <= MaxNum
    /\ MaxNum <= NRedis

Redis == 1 .. NRedis
NULL  == 0

VARIABLES redises,    \* head of the free list
          next,       \* the `next' field of every struct
          alive,      \* structs allocated and not freed
          avalidNum,
          activeNum,
          crashed     \* the process followed NULL or a freed struct
poolVars == <<redises, next, alive, avalidNum, activeNum, crashed>>

PoolTypeOK ==
    /\ redises \in Redis \cup {NULL}
    /\ next \in [Redis -> Redis \cup {NULL}]
    /\ alive \subseteq Redis
    /\ avalidNum \in 0 .. MinNum
    /\ activeNum \in 0 .. MaxNum
    /\ crashed \in BOOLEAN

(* initPool, when every connect succeeds: MinNum structs, each linked to  *)
(* the one made after it.  Structs are numbered in that order.             *)
PoolInit ==
    /\ redises = 1
    /\ next = [r \in Redis |-> IF r < MinNum THEN r + 1 ELSE NULL]
    /\ alive = 1 .. MinNum
    /\ avalidNum = MinNum
    /\ activeNum = 0
    /\ crashed = FALSE

(* Undefined behaviour ends the process here: nothing more is claimed of  *)
(* it, and the invariants say when this cannot happen.                     *)
Crash ==
    /\ crashed' = TRUE
    /\ UNCHANGED <<redises, next, alive, avalidNum, activeNum>>

(* The tests and assignments of getRedis, putRedis and delRedis that the   *)
(* properties turn on.  A name with a suffix is a mutant of the one that   *)
(* follows it, which no specification uses: a plausible bug in that line.  *)
HasListed_OffByOne == avalidNum >= 0
HasListed          == avalidNum > 0

UnderLimit_Always == TRUE
UnderLimit        == activeNum < MaxNum

CountListed_KeepAvalid == UNCHANGED avalidNum /\ activeNum' = activeNum + 1
CountListed_KeepActive == avalidNum' = avalidNum - 1 /\ UNCHANGED activeNum
CountListed            == avalidNum' = avalidNum - 1 /\ activeNum' = activeNum + 1

CountNew_Forgotten == UNCHANGED activeNum
CountNew           == activeNum' = activeNum + 1

HeadAfterPop_Same(r) == redises
HeadAfterPop(r)      == next[r]

HeadAfterDel_LinksCleared(r) == NULL
HeadAfterDel(r)              == next[r]

LinkAfterPut_Stale(r) == next[r]
LinkAfterPut(r)       == redises

(* getRedis while avalidNum > 0: pop the head, whose `next' is left as it  *)
(* was.                                                                    *)
PopRedis(r) ==
    /\ HasListed
    /\ r = redises
    /\ r \in alive
    /\ redises' = HeadAfterPop(r)
    /\ CountListed
    /\ UNCHANGED <<next, alive, crashed>>

PopFault ==
    /\ HasListed
    /\ redises \notin alive
    /\ Crash

(* getRedis otherwise: a new connection as long as maxNum is not reached.  *)
NewRedis(r) ==
    /\ ~HasListed
    /\ UnderLimit
    /\ r \in Redis \ alive
    /\ alive' = alive \cup {r}
    /\ next' = [next EXCEPT ![r] = NULL]
    /\ CountNew
    /\ UNCHANGED <<redises, avalidNum, crashed>>

GetRedis(r) == PopRedis(r) \/ NewRedis(r)

(* getRedis returns NULL and changes nothing: the limit is reached, or    *)
(* newRedis could not connect.                                             *)
PoolRefuses == ~HasListed /\ ~UnderLimit

(* putRedis: push on the list; the counters are not touched.               *)
PutRedis(r) ==
    /\ r \in alive
    /\ next' = [next EXCEPT ![r] = LinkAfterPut(r)]
    /\ redises' = r
    /\ UNCHANGED <<alive, avalidNum, activeNum, crashed>>

(* delRedis(rps, r, false): the head becomes r's `next', whatever position *)
(* r had, then r is freed with its links cleared.                          *)
DelRedis(r) ==
    /\ r \in alive
    /\ redises' = HeadAfterDel(r)
    /\ next' = [next EXCEPT ![r] = NULL]
    /\ alive' = alive \ {r}
    /\ UNCHANGED <<avalidNum, activeNum, crashed>>

(* Both, when the caller's struct has already been freed.                  *)
UseFault(r) == r \notin alive /\ Crash

(* The k-th struct from the head, NULL past the end; and the structs on    *)
(* the list in order, one more than there are when the list has a cycle.   *)
Node[k \in 0 .. NRedis] ==
    IF k = 0 THEN redises
    ELSE [r \in Redis \cup {NULL} |-> IF r = NULL THEN NULL ELSE next[r]]
             [Node[k - 1]]

Chain ==
    LET linked == {k \in 0 .. NRedis : Node[k] # NULL}
    IN  [i \in 1 .. Cardinality(linked) |-> Node[i - 1]]

(* freePool: delRedis(rps, rps->redises, true) walks the list and frees    *)
(* every struct on it.                                                     *)
FreeIdle ==
    LET chain == Chain
        list  == {chain[i] : i \in 1 .. Len(chain)}
    IN  IF Len(chain) <= NRedis /\ list \subseteq alive
        THEN /\ redises' = NULL
             /\ alive' = alive \ list
             /\ next' = [r \in Redis |-> IF r \in list THEN NULL ELSE next[r]]
             /\ UNCHANGED <<avalidNum, activeNum, crashed>>
        ELSE Crash
=============================================================================
